----------------------------- MODULE SplicePipe -----------------------------
(***************************************************************************)
(* The Debug build answers with a chain of three linked operations         *)
(* (lib/io_loop.c): send the head, splice the file into the pipe           *)
(* svr->pipefds, splice file_sz bytes from the pipe to the socket.  The    *)
(* server has ONE pipe for all connections, made by create_server, with    *)
(* both ends non-blocking.  The kernel runs the operations of a chain in   *)
(* order and cancels what follows one that failed or moved less than it    *)
(* was asked to; chains of different connections interleave freely.        *)
(*                                                                         *)
(* A byte is a pair of its file and its offset.  EventLoop has the         *)
(* counting of the completions and Responder what is pushed; this module   *)
(* has what arrives.  Here an answer is over when nothing of its chain is  *)
(* left.                                                                   *)
(***************************************************************************)
EXTENDS Integers, Sequences, FiniteSets

CONSTANTS
    Conn,      \* connections
    File,      \* what is served; a dynamic answer has a file of size 0
    FileSz,    \* res.file_sz
    PipeCap    \* what the pipe holds

ASSUME FileAssumption == FileSz \in [File -> Nat] /\ PipeCap \in Nat

VARIABLES
    file,       \* the file each connection is served, {} between answers
    todo,       \* the operations of its chain that are still to run
    pipe,       \* the bytes in the pipe
    delivered,  \* the bytes behind the head of the answer
    broken,     \* history: an operation of this chain failed or was short
    stranded    \* history: bytes that short splices have left in the pipe

vars == <<file, todo, pipe, delivered, broken, stranded>>

Chain == <<"send", "splice_in", "splice_out">>
Bytes(f) == [i \in 1 .. FileSz[f] |-> <<f, i>>]

Init ==
    /\ file = [c \in Conn |-> {}]
    /\ todo = [c \in Conn |-> {}]
    /\ pipe = <<>>
    /\ delivered = [c \in Conn |-> <<>>]
    /\ broken = [c \in Conn |-> FALSE]
    /\ stranded = 0

Serving(c, f) == file[c] = {f}

\* Seeded fault: RESET at the first completion.
Over_FirstStep(c) == file[c] # {} /\ Chain[1] \notin todo[c]

\* The last completion was counted.
Over(c) == file[c] # {} /\ todo[c] = {}

\* c has spliced its file into the pipe and is to splice it out again.
Between(c) == todo[c] = {"splice_out"}

-----------------------------------------------------------------------------

\* The handler pushes the chain.
Respond(c, f) ==
    /\ file[c] = {}
    /\ file' = [file EXCEPT ![c] = {f}]
    /\ todo' = [todo EXCEPT ![c] = {Chain[i] : i \in 1..3}]
    /\ UNCHANGED <<pipe, delivered, broken, stranded>>

\* Seeded fault: the first splice is pushed without IOSQE_IO_LINK.
Linked_SendOnly(c, i) == i = 1 \/ Chain[1] \notin todo[c]

\* IOSQE_IO_LINK: an operation waits for those before it.
Linked(c, i) == \A j \in 1 .. i - 1 : Chain[j] \notin todo[c]

\* The i-th operation of c ends; when it has failed the rest is cancelled.
Ends(c, i, ok) ==
    /\ Chain[i] \in todo[c]
    /\ Linked(c, i)
    /\ todo' = [todo EXCEPT ![c] = IF ok THEN @ \ {Chain[i]} ELSE {}]
    /\ UNCHANGED file

Send(c, ok) ==
    /\ Ends(c, 1, ok)
    /\ broken' = [broken EXCEPT ![c] = ~ok]
    /\ UNCHANGED <<pipe, delivered, stranded>>

\* n bytes go from the file to the pipe: all, fewer, or none (EAGAIN).  What
\* a short one has put there is nobody's, for the second splice is cancelled.
SpliceIn(c, f, n) ==
    /\ Serving(c, f)
    /\ n <= FileSz[f] /\ Len(pipe) + n <= PipeCap
    /\ Ends(c, 2, n = FileSz[f])
    /\ pipe' = pipe \o SubSeq(Bytes(f), 1, n)
    /\ broken' = [broken EXCEPT ![c] = @ \/ n < FileSz[f]]
    /\ stranded' = IF n < FileSz[f] THEN stranded + n ELSE stranded
    /\ UNCHANGED delivered

\* Seeded fault: the second splice is one short.
OutLen_OffByOne(f) == FileSz[f] - 1

OutLen(f) == FileSz[f]

\* The socket took less than was asked for and there.
LeavesRest(f, n) == n < OutLen(f) /\ n < Len(pipe)

\* n bytes go from the pipe to the socket, whoever put them there; fewer than
\* there are when the peer is slow or gone.
SpliceOut(c, f, n) ==
    /\ Serving(c, f)
    /\ n <= OutLen(f) /\ n <= Len(pipe)
    /\ Ends(c, 3, n = OutLen(f))
    /\ delivered' = [delivered EXCEPT ![c] = SubSeq(pipe, 1, n)]
    /\ pipe' = SubSeq(pipe, n + 1, Len(pipe))
    /\ broken' = [broken EXCEPT ![c] = @ \/ LeavesRest(f, n)]
    /\ stranded' = stranded + (OutLen(f) - n)

\* RESET: the connection is closed, its slot is free for the next one.
Reset(c) ==
    /\ Over(c)
    /\ file' = [file EXCEPT ![c] = {}]
    /\ delivered' = [delivered EXCEPT ![c] = <<>>]
    /\ broken' = [broken EXCEPT ![c] = FALSE]
    /\ UNCHANGED <<todo, pipe, stranded>>

Next ==
    \E c \in Conn :
        \/ Reset(c)
        \/ \E ok \in BOOLEAN : Send(c, ok)
        \/ \E f \in File :
              \/ Respond(c, f)
              \/ \E n \in 0..PipeCap : SpliceIn(c, f, n) \/ SpliceOut(c, f, n)

Spec == Init /\ [][Next]_vars

-----------------------------------------------------------------------------

\* A connection between two answers has no operation left in the rings and
\* keeps nothing of the last answer; the pipe never holds more than it can.
TypeOK ==
    /\ file \in [Conn -> SUBSET File]
    /\ todo \in [Conn -> SUBSET {Chain[i] : i \in 1..3}]
    /\ \A c \in Conn : file[c] = {} => todo[c] = {} /\ delivered[c] = <<>>
    /\ pipe \in Seq(File \X Nat) /\ Len(pipe) <= PipeCap
    /\ delivered \in [Conn -> Seq(File \X Nat)]
    /\ broken \in [Conn -> BOOLEAN]
    /\ stranded \in Nat

\* The bytes the chains between their splices have put into the pipe.
OwedTo(c) == IF Between(c) THEN {c} \X UNION {1 .. FileSz[f] : f \in file[c]} ELSE {}
Owed == UNION {OwedTo(c) : c \in Conn}

\* However the chains of all connections interleave, fail and come short, the
\* one pipe holds as many bytes as the chains between their splices will take
\* out, and what short splices left there.  So no second splice ever finds too
\* little; and what was left behind stays and takes room for good.
PipeAccounts == Len(pipe) = Cardinality(Owed) + stranded

\* An answer never has more bytes behind its head than file_sz, which is what
\* Content-Length announces, and it has exactly as many unless an operation of
\* its own chain failed: other connections cannot starve it.
AnnouncedLength ==
    \A c \in Conn, f \in File :
        Over(c) /\ Serving(c, f) =>
            /\ Len(delivered[c]) <= FileSz[f]
            /\ ~broken[c] => Len(delivered[c]) = FileSz[f]
=============================================================================
