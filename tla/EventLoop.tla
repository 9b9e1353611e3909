------------------------------ MODULE EventLoop ------------------------------
(***************************************************************************)
(* One listening thread of the server: io_uring_listen_loop and the        *)
(* coroutine handler io_uring_co_http_handler of lib/io_loop.c, with the   *)
(* push helpers of lib/iouring_utils.c, __prepare_connection of            *)
(* include/iohandler.h and the descriptor side of global_static_router     *)
(* (lib/http_parser.c).                                                    *)
(*                                                                         *)
(* A completion carries only user_data, the address of a connection slot.  *)
(* The loop and the handler decide what has completed from conn->action,   *)
(* i.e. from the operation that was PUSHED last for the slot, and the      *)
(* handler decides that a response is complete by counting completions     *)
(* (cur_steps against total_steps).  The model keeps the kind of every     *)
(* operation in the rings although the code cannot see it, so that the     *)
(* code's conclusions can be compared with what really happened.           *)
(*                                                                         *)
(* The coroutine runs from one co_yield to the next on the loop's thread,  *)
(* so one resumption is one atomic step.                                   *)
(***************************************************************************)
EXTENDS Integers, Sequences, FiniteSets, Functions

CONSTANTS
    Fd,                \* descriptors the process can be given (= conns[] slots)
    ListenFd,          \* svr->listen_fd
    QD,                \* entries of the submission queue (QD, 1024 in the code)
    AllocMayFail       \* malloc / posix_memalign may return NULL

\* cqe->res: a new descriptor, or -EAGAIN, or the class of a byte count:
\* negative, 0, exactly conn->str->capacity, any other positive number.
ResultCode == {"again", "neg", "zero", "cap", "pos"}

ASSUME FdAssumption ==
    /\ ListenFd \notin Fd
    /\ Fd \cap ResultCode = {}
ASSUME QDAssumption == QD \in Nat \ {0}
ASSUME AllocAssumption == AllocMayFail \in BOOLEAN

Slot == Fd \cup {ListenFd}
ResponseKind == {"send", "splice_in", "splice_out"}
Kind == {"accept", "recv"} \cup ResponseKind
Sqe == [slot : Slot, kind : Kind]
Cqe == [slot : Slot, kind : Kind, res : Fd \cup ResultCode]

VARIABLES
    pc,               \* where the listening thread is
    sq,               \* SQEs pushed and not yet submitted
    inflight,         \* SQEs the kernel has and has not completed
    cq,               \* CQEs in the completion ring, from its head to the kernel's tail
    head,             \* the loop's cursor, relative to the head of the ring
    count,            \* the loop's count of the CQEs handled in this batch
    fdt,              \* what every descriptor is: free, a socket, a static file
    action,           \* conns[].action
    cur_steps,        \* conns[].cur_steps
    total_steps,      \* conns[].total_steps
    coro,             \* conns[].coro: NULL, or the status of the coroutine
    str,              \* conns[].str # NULL
    dirty,            \* what RESET has to clear again: buffers, req, res
    data,             \* global_static_router's static data # NULL
    WatchStaticFiles  \* the Debug build's -DWATCH_STATIC_FILES: which build runs

rings == <<sq, inflight, cq, head, count>>
slots == <<action, cur_steps, total_steps, coro, str, dirty>>
vars == <<pc, rings, fdt, slots, data, WatchStaticFiles>>

Op(f, k) == [slot |-> f, kind |-> k]
Alive == pc \notin {"exited", "crashed"}

Init ==
    /\ pc = "start"
    /\ sq = <<>> /\ inflight = {} /\ cq = <<>> /\ head = 0 /\ count = 0
    /\ fdt = [f \in Fd |-> "free"]
    /\ action = [s \in Slot |-> "NONE"]
    /\ cur_steps = [f \in Fd |-> 0]
    /\ total_steps = [f \in Fd |-> 0]
    /\ coro = [f \in Fd |-> "NULL"]
    /\ str = [f \in Fd |-> FALSE]
    /\ dirty = [f \in Fd |-> {}]
    /\ data = FALSE
    /\ WatchStaticFiles \in BOOLEAN

-----------------------------------------------------------------------------
(* The loop itself.                                                        *)

\* io_uring_queue_init_params may fail or lack FAST_POLL: the loop returns.
SetupFails ==
    /\ pc = "start"
    /\ pc' = "exited"
    /\ UNCHANGED <<rings, fdt, slots, data, WatchStaticFiles>>

\* The first io_uring_push_accept.
ListenStart ==
    /\ pc = "start"
    /\ pc' = "submit"
    /\ sq' = <<Op(ListenFd, "accept")>>
    /\ action' = [action EXCEPT ![ListenFd] = "ACCEPT"]
    /\ UNCHANGED <<inflight, cq, head, count, fdt, cur_steps, total_steps, coro, str,
                   dirty, data, WatchStaticFiles>>

\* io_uring_submit_and_wait(ring, 1): hand everything to the kernel ...
Submit ==
    /\ pc = "submit"
    /\ pc' = "wait"
    /\ sq' = <<>>
    /\ inflight' = inflight \cup Range(sq)
    /\ UNCHANGED <<cq, head, count, fdt, slots, data, WatchStaticFiles>>

\* ... and sleep until the completion ring is not empty.  The result is not
\* looked at: a wait cut short by a signal gives an empty batch.  The cursor
\* of io_uring_for_each_cqe starts at the head of the ring.
WaitReturns ==
    /\ pc = "wait"
    /\ pc' = "batch"
    /\ head' = 0
    /\ count' = 0
    /\ UNCHANGED <<sq, inflight, cq, fdt, slots, data, WatchStaticFiles>>

\* io_uring_for_each_cqe re-reads the tail, so the batch ends when everything
\* posted so far was handled.
BatchEnds ==
    /\ pc = "batch"
    /\ head = Len(cq)
    /\ pc' = "advance"
    /\ UNCHANGED <<rings, fdt, slots, data, WatchStaticFiles>>

\* Seeded fault: io_uring_cq_advance(ring, count - 1).
Advanced_Less == IF count = 0 THEN 0 ELSE count - 1

\* Seeded fault: io_uring_cq_advance(ring, count + 1).
Advanced_More == count + 1

Advanced == count

\* io_uring_cq_advance(ring, count): the head of the ring moves, whatever the
\* kernel has posted since the batch ended.  It is the last statement of the
\* block count belongs to; out of scope, count is kept as 0.
Advance ==
    /\ pc = "advance"
    /\ pc' = "submit"
    /\ cq' = SubSeq(cq, Advanced + 1, Len(cq))
    /\ head' = head - Advanced
    /\ count' = 0
    /\ UNCHANGED <<sq, inflight, fdt, slots, data, WatchStaticFiles>>

\* The CQE the loop looks at is for slot s and has result r.
Completed(s, r) ==
    /\ pc = "batch"
    /\ head < Len(cq)
    /\ cq[head + 1].slot = s
    /\ cq[head + 1].res = r

\* The handling of one CQE, in which ops are pushed.
Consume(ops) ==
    /\ sq' = sq \o ops
    /\ head' = head + 1
    /\ count' = count + 1
    /\ UNCHANGED <<inflight, cq>>

\* io_uring_get_sqe returns NULL when the queue is full, and every push helper
\* writes through it.
Push(ops) ==
    /\ Consume(ops)
    /\ pc' = IF Len(sq) + Len(ops) > QD THEN "crashed" ELSE "batch"

\* The process dies while handling the CQE; nothing of it is observable.
Crash ==
    /\ pc' = "crashed"
    /\ UNCHANGED <<rings, fdt, slots, data, WatchStaticFiles>>

-----------------------------------------------------------------------------
(* A completion for a slot whose action is ACCEPT.                         *)

\* Seeded fault: -EAGAIN skips the push at ACCEPT_AGAIN.
Rearm_Never == <<>>

\* Seeded fault: -EAGAIN pushes an accept and falls through to a second push.
Rearm_Twice == <<Op(ListenFd, "accept"), Op(ListenFd, "accept")>>

\* ACCEPT_AGAIN
Rearm == <<Op(ListenFd, "accept")>>

AcceptAgain(s) ==
    /\ Completed(s, "again")
    /\ action[s] = "ACCEPT"
    /\ Push(Rearm)
    /\ action' = [action EXCEPT ![ListenFd] = "ACCEPT"]
    /\ UNCHANGED <<fdt, cur_steps, total_steps, coro, str, dirty, data,
                   WatchStaticFiles>>

AcceptFails(s) ==
    /\ Completed(s, "neg")
    /\ action[s] = "ACCEPT"
    /\ Consume(<<>>)
    /\ pc' = "exited"
    /\ UNCHANGED <<fdt, slots, data, WatchStaticFiles>>

\* __prepare_connection fails.  When co_new succeeded and string_init did not,
\* the new coroutine stays in conn->coro although the slot is not prepared.
RefuseConnection(s, f) ==
    /\ Completed(s, f)
    /\ action[s] = "ACCEPT"
    /\ coro[f] = "NULL"
    /\ AllocMayFail
    /\ \/ UNCHANGED coro
       \/ ~str[f] /\ coro' = [coro EXCEPT ![f] = "CREATED"]
    /\ fdt' = [fdt EXCEPT ![f] = "free"]
    /\ Push(<<Op(ListenFd, "accept")>>)
    /\ action' = [action EXCEPT ![ListenFd] = "ACCEPT"]
    /\ UNCHANGED <<cur_steps, total_steps, str, dirty, data, WatchStaticFiles>>

\* The slot has or gets a coroutine; the first recv and the next accept are
\* pushed.  A coroutine without a buffer makes conn->str->buf a NULL access.
AcceptConnection(s, f) ==
    /\ Completed(s, f)
    /\ action[s] = "ACCEPT"
    /\ \/ /\ coro[f] = "NULL"
          /\ coro' = [coro EXCEPT ![f] = "CREATED"]
          /\ str' = [str EXCEPT ![f] = TRUE]
       \/ /\ coro[f] # "NULL"
          /\ str[f]
          /\ UNCHANGED <<coro, str>>
    /\ Push(<<Op(f, "recv"), Op(ListenFd, "accept")>>)
    /\ action' = [action EXCEPT ![f] = "RECV", ![ListenFd] = "ACCEPT"]
    /\ UNCHANGED <<fdt, cur_steps, total_steps, dirty, data, WatchStaticFiles>>

AcceptWithoutBuffer(s, f) ==
    /\ Completed(s, f)
    /\ action[s] = "ACCEPT"
    /\ coro[f] # "NULL"
    /\ ~str[f]
    /\ Crash

-----------------------------------------------------------------------------
(* A completion for any other slot resumes the slot's coroutine.           *)

Resumed(f, r) ==
    /\ Completed(f, r)
    /\ action[f] # "ACCEPT"

\* The handler's body runs: the coroutine is started or goes on.  Resuming a
\* stopped one is undefined (tests/coro.c) and has no action here: the
\* invariant StoppedIsNeverResumed says that the loop never tries.
Runs(f) ==
    /\ coro[f] \in {"CREATED", "STARTED"}
    /\ coro' = [coro EXCEPT ![f] = "STARTED"]
    /\ UNCHANGED str

\* Seeded fault: EXIT closes the descriptor of the stopped coroutine.
FdtAtExit_Closed(f) == [fdt EXCEPT ![f] = "free"]

\* EXIT closes nothing.
FdtAtExit(f) == fdt

\* First resumption, string_init of res.str or fresstr fails: goto EXIT.
HandlerInitFails(f, r) ==
    /\ Resumed(f, r)
    /\ coro[f] = "CREATED"
    /\ AllocMayFail
    /\ coro' = [coro EXCEPT ![f] = "STOPPED"]
    /\ Push(<<>>)
    /\ fdt' = FdtAtExit(f)
    /\ UNCHANGED <<action, cur_steps, total_steps, str, dirty, data, WatchStaticFiles>>

\* Seeded fault: req is not reset.
ResetParts_KeepsRequest(f) == dirty[f] \cap {"req"}

\* What RESET leaves of req, res and the strings.
ResetParts(f) == {}

\* Seeded fault: total_steps is not reset.
ResetTotal_Kept(f) == total_steps[f]

ResetTotal(f) == 0

\* The RESET label: close the descriptor, clear the slot and the handler.
Reset(f) ==
    /\ fdt' = [fdt EXCEPT ![f] = "free"]
    /\ cur_steps' = [cur_steps EXCEPT ![f] = 0]
    /\ total_steps' = [total_steps EXCEPT ![f] = ResetTotal(f)]
    /\ dirty' = [dirty EXCEPT ![f] = ResetParts(f)]
    /\ UNCHANGED action

\* Read error: only logged.  No operation is pushed and nothing is closed.
RecvError(f) ==
    /\ Resumed(f, "neg")
    /\ action[f] = "RECV"
    /\ Runs(f)
    /\ Push(<<>>)
    /\ UNCHANGED <<fdt, action, cur_steps, total_steps, dirty, data, WatchStaticFiles>>

RecvPeerClosed(f) ==
    /\ Resumed(f, "zero")
    /\ action[f] = "RECV"
    /\ Runs(f)
    /\ Push(<<>>)
    /\ Reset(f)
    /\ UNCHANGED <<data, WatchStaticFiles>>

\* Seeded fault: the push helpers of a response leave conn->action alone.
PushedAction_Kept(f, ops) == action[f]

\* conn->action after the last push.
PushedAction(f, ops) == IF Len(ops) = 1 THEN "SEND" ELSE "SPLICE"

\* Seeded fault: io_uring_push_splice does not count in total_steps.
PushedSteps_SendOnly(ops) == 1

\* conn->total_steps++ of every push.
PushedSteps(ops) == Len(ops)

\* Push the operations of a response: every push sets conn->action and counts
\* in total_steps; parts are the pieces of handler state written on the way.
Respond(f, ops, parts) ==
    /\ Runs(f)
    /\ Push(ops)
    /\ action' = [action EXCEPT ![f] = PushedAction(f, ops)]
    /\ total_steps' = [total_steps EXCEPT ![f] = @ + PushedSteps(ops)]
    /\ dirty' = [dirty EXCEPT ![f] = @ \cup parts]
    /\ UNCHANGED cur_steps

\* RESPONSE_400, _404, _413 and _500 are one send.
ErrorReply(f, parts) == Respond(f, <<Op(f, "send")>>, parts)

\* A composed response: header and body in one send, or, with
\* WATCH_STATIC_FILES, a linked send - splice - splice chain.
FullReply(f) ==
    Respond(f, IF WatchStaticFiles
               THEN <<Op(f, "send"), Op(f, "splice_in"), Op(f, "splice_out")>>
               ELSE <<Op(f, "send")>>,
            {"req", "res", "fresstr"})

RecvTooLarge(f) ==
    /\ Resumed(f, "cap")
    /\ action[f] = "RECV"
    /\ ErrorReply(f, {})
    /\ UNCHANGED <<fdt, data, WatchStaticFiles>>

\* http_parse_request fails (400), find_router finds nothing (404), or a
\* ROUTER handler returns an error after it may have filled the response.
RecvRejected(f) ==
    /\ Resumed(f, "pos")
    /\ action[f] = "RECV"
    /\ \E parts \in {{"req"}, {"req", "res"}} : ErrorReply(f, parts)
    /\ UNCHANGED <<fdt, data, WatchStaticFiles>>

\* A ROUTER handler succeeds.
RecvDynamic(f) ==
    /\ Resumed(f, "pos")
    /\ action[f] = "RECV"
    /\ FullReply(f)
    /\ UNCHANGED <<fdt, data, WatchStaticFiles>>

\* global_static_router opens the file: it is missing, or fstat fails (and
\* the descriptor is closed again), or mmap fails (closed again, but the
\* static pointer keeps MAP_FAILED).
RecvStaticFails(f) ==
    /\ Resumed(f, "pos")
    /\ action[f] = "RECV"
    /\ WatchStaticFiles \/ ~data
    /\ ErrorReply(f, {"req"})
    /\ data' \in IF WatchStaticFiles THEN {data} ELSE {data, TRUE}
    /\ UNCHANGED <<fdt, WatchStaticFiles>>

\* The file is open as g.  libmagic fails: the descriptor is not closed and
\* the answer is 500.  Otherwise the descriptor stays in res.file_fd or behind
\* the mapping; no path of the program closes it.
RecvStaticOpened(f, g) ==
    /\ Resumed(f, "pos")
    /\ action[f] = "RECV"
    /\ WatchStaticFiles \/ ~data
    /\ fdt[g] = "free"
    /\ fdt' = [fdt EXCEPT ![g] = "file"]
    /\ \/ ErrorReply(f, {"req"}) /\ UNCHANGED data
       \/ FullReply(f) /\ data' = (data \/ ~WatchStaticFiles)
    /\ UNCHANGED WatchStaticFiles

\* Release build, data already set: file_sz and mime_str are indeterminate,
\* so copying the body may work or may fault.
RecvStaticCached(f) ==
    /\ Resumed(f, "pos")
    /\ action[f] = "RECV"
    /\ ~WatchStaticFiles
    /\ data
    /\ \/ FullReply(f) /\ UNCHANGED <<fdt, data, WatchStaticFiles>>
       \/ Crash

\* Seeded fault: the first completion of a response closes the connection.
LastStep_First(f) == TRUE

\* Seeded fault: conn->cur_steps++ == conn->total_steps.
LastStep_PostIncrement(f) == cur_steps[f] = total_steps[f]

\* ++conn->cur_steps == conn->total_steps
LastStep(f) == cur_steps[f] + 1 = total_steps[f]

\* Completion of a send or of a splice, whatever its result.
StepDone(f, r) ==
    /\ Resumed(f, r)
    /\ action[f] \in {"SEND", "SPLICE"}
    /\ Runs(f)
    /\ Push(<<>>)
    /\ IF LastStep(f)
       THEN Reset(f)
       ELSE /\ cur_steps' = [cur_steps EXCEPT ![f] = @ + 1]
            /\ UNCHANGED <<fdt, action, total_steps, dirty>>
    /\ UNCHANGED <<data, WatchStaticFiles>>

-----------------------------------------------------------------------------
(* The kernel.  Every submitted operation posts exactly one CQE.           *)

Post(f, k, r) ==
    /\ Alive
    /\ Op(f, k) \in inflight
    /\ inflight' = inflight \ {Op(f, k)}
    /\ cq' = Append(cq, [slot |-> f, kind |-> k, res |-> r])
    /\ UNCHANGED <<pc, sq, head, count, action, cur_steps, total_steps, coro, str,
                   data, WatchStaticFiles>>

\* The listening socket is O_NONBLOCK: no connection is waiting (-EAGAIN), an
\* error such as -EMFILE or -ECONNABORTED, or a new descriptor.
AcceptCompletes ==
    \/ /\ \E r \in {"again", "neg"} : Post(ListenFd, "accept", r)
       /\ UNCHANGED <<fdt, dirty>>
    \/ \E f \in Fd :
          /\ fdt[f] = "free"
          /\ Post(ListenFd, "accept", f)
          /\ fdt' = [fdt EXCEPT ![f] = "sock"]
          /\ UNCHANGED dirty

\* The kernel writes into conn->str->buf.
RecvCompletes(f) ==
    /\ \E r \in {"neg", "zero", "cap", "pos"} :
          /\ Post(f, "recv", r)
          /\ dirty' = IF r \in {"cap", "pos"}
                      THEN [dirty EXCEPT ![f] = @ \cup {"str"}]
                      ELSE dirty
    /\ UNCHANGED fdt

\* Linked operations complete in order; a failed one cancels the others,
\* which complete with an error of their own.
ResponseOpCompletes(f, k) ==
    /\ k = "splice_in" => Op(f, "send") \notin inflight
    /\ k = "splice_out" => Op(f, "send") \notin inflight /\ Op(f, "splice_in") \notin inflight
    /\ \E r \in {"neg", "pos"} : Post(f, k, r)
    /\ UNCHANGED <<fdt, dirty>>

-----------------------------------------------------------------------------

HandleAccept ==
    \E s \in Slot :
        \/ AcceptAgain(s)
        \/ AcceptFails(s)
        \/ \E f \in Fd : \/ RefuseConnection(s, f)
                         \/ AcceptConnection(s, f)
                         \/ AcceptWithoutBuffer(s, f)

HandleRecv(f) ==
    \/ RecvError(f)
    \/ RecvPeerClosed(f)
    \/ RecvTooLarge(f)
    \/ RecvRejected(f)
    \/ RecvDynamic(f)
    \/ RecvStaticFails(f)
    \/ \E g \in Fd : RecvStaticOpened(f, g)
    \/ RecvStaticCached(f)

ResumeCoroutine ==
    \E f \in Fd :
        \/ HandleRecv(f)
        \/ \E r \in ResultCode : \/ HandlerInitFails(f, r)
                                 \/ StepDone(f, r)

Loop == \/ SetupFails \/ ListenStart \/ Submit \/ WaitReturns \/ BatchEnds \/ Advance
        \/ HandleAccept \/ ResumeCoroutine

Kernel ==
    \/ AcceptCompletes
    \/ \E f \in Fd : \/ RecvCompletes(f)
                     \/ \E k \in ResponseKind : ResponseOpCompletes(f, k)

\* exit() or a fatal signal: the process is gone.
Terminated == ~Alive /\ UNCHANGED vars

Next == Loop \/ Kernel \/ Terminated

Spec == Init /\ [][Next]_vars

-----------------------------------------------------------------------------
(* State functions the properties speak about.                             *)

\* CQEs the loop has still to handle.
Unseen == head + 1 .. Len(cq)

CqOps == {Op(cq[i].slot, cq[i].kind) : i \in Unseen}

\* Operations that will still be reported to the code: pushed, submitted, or
\* completed and not handled yet.
Outstanding == Range(sq) \cup inflight \cup CqOps

\* Descriptors the kernel has accepted and the loop has not seen yet.
NewFds == {cq[i].res : i \in Unseen} \cap Fd

OpenSockets == {f \in Fd : fdt[f] = "sock"}

One(f, k) == IF Op(f, k) \in Outstanding THEN 1 ELSE 0

\* Operations of f's response that were not reported yet.
Owed(f) == One(f, "send") + One(f, "splice_in") + One(f, "splice_out")

-----------------------------------------------------------------------------
(* Invariants.                                                             *)

\* The rings hold operations of known slots, and the head of the completion
\* ring, which moves by the loop's own count, never passes the loop's cursor:
\* no completion is freed that was not looked at.
TypeOK ==
    /\ pc \in {"start", "submit", "wait", "batch", "advance", "exited", "crashed"}
    /\ sq \in Seq(Sqe)
    /\ inflight \in SUBSET Sqe
    /\ cq \in Seq(Cqe)
    /\ head \in 0..Len(cq)
    /\ count \in Nat
    /\ fdt \in [Fd -> {"free", "sock", "file"}]
    /\ action \in [Slot -> {"NONE", "ACCEPT", "RECV", "SEND", "SPLICE"}]
    /\ cur_steps \in [Fd -> Nat]
    /\ total_steps \in [Fd -> Nat]
    /\ coro \in [Fd -> {"NULL", "CREATED", "STARTED", "STOPPED"}]
    /\ str \in [Fd -> BOOLEAN]
    /\ dirty \in [Fd -> SUBSET {"str", "req", "res", "fresstr"}]
    /\ data \in BOOLEAN
    /\ WatchStaticFiles \in BOOLEAN

\* No operation is pushed again while an earlier one of the same kind for the
\* same slot is still to be reported: it is in one place of the rings, once.
NoDuplicateOperation ==
    /\ \A i, j \in 1..Len(sq) : sq[i] = sq[j] => i = j
    /\ \A i, j \in Unseen :
          cq[i].slot = cq[j].slot /\ cq[i].kind = cq[j].kind => i = j
    /\ Range(sq) \cap inflight = {}
    /\ Range(sq) \cap CqOps = {}
    /\ inflight \cap CqOps = {}

\* The loop and the handler tell from conn->action, written at the last push,
\* which operation a completion belongs to.  For every operation that is still
\* to be reported that conclusion is right: an accept is never taken for a
\* handler's completion, a recv result never for a send's, nor the reverse.
ActionTellsOperation ==
    \A op \in Outstanding :
        /\ op.kind = "accept" => op.slot = ListenFd /\ action[op.slot] = "ACCEPT"
        /\ op.kind = "recv" => op.slot \in Fd /\ action[op.slot] = "RECV"
        /\ op.kind \in ResponseKind =>
              op.slot \in Fd /\ action[op.slot] \in {"SEND", "SPLICE"}

\* total_steps - cur_steps, from which the handler concludes that a response is
\* finished, is the number of the response's operations not reported yet.
StepsCountOperations ==
    \A f \in Fd : total_steps[f] - cur_steps[f] = Owed(f)

\* Nothing is outstanding on a descriptor that was closed (and that the next
\* accept or open may be given again): __close at RESET is never early.
ClosedIsQuiet ==
    \A op \in Outstanding : op.slot \in Fd => fdt[op.slot] = "sock"

\* While a connection waits for its request nothing of an earlier request is
\* left in req, res or fresstr, and the receive buffer is blank until the
\* kernel fills it: http_parse_request accepts a request by testing fields of
\* req that only RESET clears.
CleanBeforeParse ==
    \A f \in Fd :
        /\ f \in NewFds => dirty[f] = {}
        /\ Op(f, "recv") \in Range(sq) \cup inflight => dirty[f] = {}
        /\ Op(f, "recv") \in CqOps => dirty[f] \subseteq {"str"}

\* While the thread is up an accept is armed or being reported (and, with
\* NoDuplicateOperation, one only): the server never stops listening.
OneAccept ==
    pc \notin {"start", "exited"} => Op(ListenFd, "accept") \in Outstanding

\* A coroutine whose function has returned is not resumed again (tests/coro.c
\* calls that undefined behaviour): its slot is never reused, because its
\* descriptor is never closed, and no operation will report to it.
StoppedIsNeverResumed ==
    \A f \in Fd : coro[f] = "STOPPED" =>
        /\ fdt[f] = "sock"
        /\ f \notin NewFds
        /\ \A k \in Kind : Op(f, k) \notin Outstanding

\* The thread dies in three ways only: the submission queue is full, and then
\* more than (QD - 1) / 3 connections are open; a slot was left with a coroutine
\* and no buffer; the Release build serves a second static request.  No other
\* push, batch or sequence of connections takes io_uring_get_sqe to its limit.
CrashHasCause ==
    pc = "crashed" =>
        \/ Len(sq) > QD /\ 3 * Cardinality(OpenSockets) + 1 > QD
        \/ \E f \in Fd : coro[f] # "NULL" /\ ~str[f]
        \/ ~WatchStaticFiles /\ data

\* include/iohandler.h says of a slot whose conn->str is NULL: "This fd never
\* accept connection before".  The code does not keep this (finding).
NoBufferMeansNeverAccepted == \A f \in Fd : ~str[f] => coro[f] = "NULL"

-----------------------------------------------------------------------------
(* The inductive invariant behind them, in four parts.                     *)

\* A slot without a connection: nothing outstanding, nothing left to clear.
Idle(f) ==
    /\ \A k \in Kind : Op(f, k) \notin Outstanding
    /\ cur_steps[f] = 0 /\ total_steps[f] = 0
    /\ dirty[f] = {}
    /\ coro[f] # "STOPPED"

\* Between batches the completion ring has no handled entry, and in a batch
\* cursor and count are at the same entry.
BatchControl ==
    /\ pc \in {"submit", "wait"} => head = 0
    /\ pc \in {"batch", "advance"} => count = head
    /\ pc = "start" => sq = <<>> /\ inflight = {} /\ cq = <<>> /\ fdt = [f \in Fd |-> "free"]

\* Accepts, and only they, are reported to the listening slot and carry
\* descriptors.
AcceptControl ==
    /\ Op(ListenFd, "accept") \in Outstanding => action[ListenFd] = "ACCEPT"
    /\ \A f \in Fd : action[f] # "ACCEPT"
    /\ \A op \in Outstanding : op.slot = ListenFd <=> op.kind = "accept"
    /\ \A i \in Unseen : cq[i].res \in Fd => cq[i].kind = "accept"

\* What is outstanding for a descriptor determines the state of its slot.
ConnectionState(f) ==
    /\ fdt[f] # "sock" => Idle(f) /\ f \notin NewFds
    /\ f \in NewFds => Idle(f)
    /\ Op(f, "recv") \in Outstanding =>
          /\ fdt[f] = "sock" /\ f \notin NewFds
          /\ action[f] = "RECV"
          /\ total_steps[f] = 0
          /\ coro[f] \in {"CREATED", "STARTED"}
          /\ dirty[f] \subseteq {"str"}
          /\ Op(f, "recv") \notin CqOps => dirty[f] = {}
    /\ \A k \in ResponseKind : Op(f, k) \in Outstanding =>
          /\ fdt[f] = "sock" /\ f \notin NewFds
          /\ action[f] \in {"SEND", "SPLICE"}
          /\ coro[f] = "STARTED"
    /\ total_steps[f] - cur_steps[f] = Owed(f)
    /\ Owed(f) = 0 => total_steps[f] = 0
    /\ coro[f] = "STOPPED" =>
          /\ fdt[f] = "sock" /\ f \notin NewFds
          /\ \A k \in Kind : Op(f, k) \notin Outstanding

RingInv == NoDuplicateOperation /\ BatchControl /\ AcceptControl /\ OneAccept

IInv == TypeOK /\ RingInv /\ \A f \in Fd : ConnectionState(f)

-----------------------------------------------------------------------------
(* The life cycle of a connection, and liveness.                           *)

PhaseOf(f) ==
    IF fdt[f] # "sock" THEN "idle"
    ELSE IF f \in NewFds THEN "accepted"
    ELSE IF Op(f, "recv") \in Outstanding THEN "receiving"
    ELSE IF Owed(f) > 0 THEN "responding"
    ELSE "stalled"

Lifecycle == INSTANCE ConnLifecycle
                WITH phase <- [f \in Fd |-> PhaseOf(f)],
                     owed <- [f \in Fd |-> Owed(f)]

\* Seen from the rings, every connection follows ConnLifecycle: one receive,
\* one answer, and its descriptor is closed exactly once, when the last
\* operation of the answer was reported.
ImplementsLifecycle == Lifecycle!Spec

\* The thread runs; the kernel completes an accept on a non-blocking socket
\* and the operations of a response.  A peer need not send anything, so
\* RecvCompletes has no fairness.
Fairness ==
    /\ WF_vars(Loop)
    /\ WF_vars(AcceptCompletes)
    /\ \A f \in Fd, k \in ResponseKind : WF_vars(ResponseOpCompletes(f, k))

FairSpec == Spec /\ Fairness

\* Every response ends, also one with failed and cancelled operations: the step
\* count reaches its total and RESET closes the descriptor, unless the process
\* ends first.
ResponseEnds ==
    \A f \in Fd : []<>(total_steps[f] = 0 \/ ~Alive)

\* The accept is handed to the kernel again and again: neither busy
\* connections nor failed preparations stop the server from listening.
KeepsListening == []<>(Op(ListenFd, "accept") \in inflight \/ ~Alive)
=============================================================================
