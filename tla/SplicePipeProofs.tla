-------------------------- MODULE SplicePipeProofs --------------------------
(***************************************************************************)
(* Theorems about SplicePipe, for every set of connections, every set of   *)
(* files of whatever sizes, and every capacity of the pipe.                *)
(***************************************************************************)
EXTENDS SplicePipe, SequenceTheorems, FiniteSetTheorems, TLAPS

-----------------------------------------------------------------------------
(* The inductive invariant.                                                *)

\* A chain is run from the front, and its connection has nothing delivered and
\* nothing gone wrong before it has ended.
Progress ==
    \A c \in Conn :
        /\ file[c] = {} \/ \E f \in File : file[c] = {f}
        /\ todo[c] \in {{}, {"splice_out"}, {"splice_in", "splice_out"},
                        {"send", "splice_in", "splice_out"}}
        /\ file[c] = {} \/ todo[c] # {} => delivered[c] = <<>> /\ ~broken[c]

\* What the pipe has to hold is finite, and it is there.
Accounts == IsFiniteSet(Owed) /\ PipeAccounts

\* The inductive invariant.
IInv == TypeOK /\ Progress /\ Accounts /\ AnnouncedLength

-----------------------------------------------------------------------------
(* Bytes, chains and pipes.                                                *)

\* A byte of a file, and the operations of a chain that has not begun.
Byte == File \X Nat
Full == {"send", "splice_in", "splice_out"}

\* The operations of a chain are these three.
LEMMA ChainIs ==
    /\ Chain[1] = "send" /\ Chain[2] = "splice_in" /\ Chain[3] = "splice_out"
    /\ {Chain[i] : i \in 1..3} = Full
  <1>1. Chain[1] = "send" /\ Chain[2] = "splice_in" /\ Chain[3] = "splice_out"
    BY DEF Chain
  <1>2. 1..3 = {1, 2, 3}
    OBVIOUS
  <1> QED
    BY <1>1, <1>2 DEF Full

\* Where a chain is tells whether it is between its splices or over.
LEMMA ChainStates ==
    /\ Full # {} /\ Full # {"splice_out"}
    /\ {"splice_in", "splice_out"} # {} /\ {"splice_in", "splice_out"} # {"splice_out"}
    /\ {"splice_out"} # {}
  <1>1. "send" \in Full /\ "send" \notin {} /\ "send" \notin {"splice_out"}
    BY DEF Full
  <1>2. /\ "splice_in" \in {"splice_in", "splice_out"}
        /\ "splice_in" \notin {} /\ "splice_in" \notin {"splice_out"}
    OBVIOUS
  <1> QED
    BY <1>1, <1>2

\* The bytes of a file, and a beginning of them.
LEMMA BytesType ==
    ASSUME NEW f \in File
    PROVE  /\ FileSz[f] \in Nat
           /\ Bytes(f) \in Seq(Byte) /\ Len(Bytes(f)) = FileSz[f]
           /\ SubSeq(Bytes(f), 1, FileSz[f]) = Bytes(f)
           /\ SubSeq(Bytes(f), 1, 0) = <<>>
           /\ FileSz[f] = 0 => Bytes(f) = <<>>
           /\ \A n \in 0 .. FileSz[f] :
                 SubSeq(Bytes(f), 1, n) \in Seq(Byte) /\ Len(SubSeq(Bytes(f), 1, n)) = n
  <1>1. FileSz[f] \in Nat
    BY FileAssumption
  <1>2. \A i \in 1 .. FileSz[f] : <<f, i>> \in Byte
    BY <1>1 DEF Byte
  <1>3. Bytes(f) \in Seq(Byte) /\ Len(Bytes(f)) = FileSz[f]
    BY <1>1, <1>2 DEF Bytes
  <1>4. SubSeq(Bytes(f), 1, FileSz[f]) = Bytes(f)
    BY <1>3, SubSeqFull
  <1>5. SubSeq(Bytes(f), 1, 0) = <<>>
    BY SubSeqEmpty
  <1>6. ASSUME NEW n \in 0 .. FileSz[f]
        PROVE  SubSeq(Bytes(f), 1, n) \in Seq(Byte) /\ Len(SubSeq(Bytes(f), 1, n)) = n
    BY <1>1, <1>3
  <1> QED
    BY <1>1, <1>3, <1>4, <1>5, <1>6

-----------------------------------------------------------------------------
(* Every step keeps the invariant.                                         *)

\* The invariant holds initially.
LEMMA InitInv == Init => IInv
  <1> SUFFICES ASSUME Init PROVE IInv
    OBVIOUS
  <1>1. TypeOK
    <2>1. pipe \in Seq(File \X Nat) /\ Len(pipe) <= PipeCap
      BY FileAssumption DEF Init
    <2>2. delivered \in [Conn -> Seq(File \X Nat)]
      BY DEF Init
    <2>3. broken \in [Conn -> BOOLEAN] /\ stranded \in Nat
      BY DEF Init
    <2>4. /\ file \in [Conn -> SUBSET File] /\ todo \in [Conn -> SUBSET {Chain[i] : i \in 1..3}]
          /\ \A c \in Conn : todo[c] = {} /\ delivered[c] = <<>>
      BY Zenon DEF Init
    <2> QED
      BY <2>1, <2>2, <2>3, <2>4 DEF TypeOK
  <1>2. Progress
    BY DEF Init, Progress
  <1>3. Accounts
    <2>1. \A c \in Conn : OwedTo(c) = {}
      BY ChainStates DEF Init, OwedTo, Between
    <2>2. Owed = {}
      BY <2>1 DEF Owed
    <2>3. Len(pipe) = 0 /\ stranded = 0
      BY DEF Init
    <2> QED
      BY <2>2, <2>3, FS_EmptySet DEF Accounts, PipeAccounts
  <1>4. AnnouncedLength
    BY DEF Init, AnnouncedLength, Over
  <1> QED
    BY <1>1, <1>2, <1>3, <1>4 DEF IInv

\* How the chain of c goes on: nothing else moves, and an operation that was
\* not carried out whole is the last one.
LEMMA EndsStep ==
    ASSUME IInv, NEW c \in Conn, NEW i \in 1..3, NEW ok \in BOOLEAN, Ends(c, i, ok)
    PROVE  /\ todo' \in [Conn -> SUBSET Full] /\ file' = file
           /\ \A d \in Conn \ {c} : todo'[d] = todo[d]
           /\ ~ok => todo'[c] = {}
           /\ \E f \in File : file[c] = {f}
           /\ delivered[c] = <<>> /\ ~broken[c]
           /\ \/ i = 1 /\ todo[c] = Full /\ (ok => todo'[c] = {"splice_in", "splice_out"})
              \/ i = 2 /\ todo[c] = {"splice_in", "splice_out"} /\ (ok => todo'[c] = {"splice_out"})
              \/ i = 3 /\ todo[c] = {"splice_out"} /\ todo'[c] = {}
  <1>1. todo \in [Conn -> SUBSET Full] /\ \A d \in Conn : file[d] = {} => todo[d] = {}
    BY ChainIs DEF IInv, TypeOK
  <1>2. /\ todo' = [todo EXCEPT ![c] = IF ok THEN @ \ {Chain[i]} ELSE {}]
        /\ file' = file /\ Chain[i] \in todo[c] /\ \A j \in 1 .. i - 1 : Chain[j] \notin todo[c]
    BY DEF Ends, Linked
  <1>3. /\ todo[c] \in {{}, {"splice_out"}, {"splice_in", "splice_out"}, Full}
        /\ file[c] = {} \/ \E f \in File : file[c] = {f}
        /\ todo[c] # {} => delivered[c] = <<>> /\ ~broken[c]
    BY DEF IInv, Progress, Full
  <1>4. /\ todo' \in [Conn -> SUBSET Full] /\ \A d \in Conn \ {c} : todo'[d] = todo[d]
        /\ todo'[c] = IF ok THEN todo[c] \ {Chain[i]} ELSE {}
    BY <1>1, <1>2
  <1> DEFINE Order ==
         \/ i = 1 /\ todo[c] = Full /\ (ok => todo'[c] = {"splice_in", "splice_out"})
         \/ i = 2 /\ todo[c] = {"splice_in", "splice_out"} /\ (ok => todo'[c] = {"splice_out"})
         \/ i = 3 /\ todo[c] = {"splice_out"} /\ todo'[c] = {}
  <1>5. /\ \E f \in File : file[c] = {f}
        /\ delivered[c] = <<>> /\ ~broken[c] /\ file' = file
        /\ ~ok => todo'[c] = {}
    BY <1>1, <1>2, <1>3, <1>4
  <1>6. ASSUME i = 1 PROVE Order
    <2>1. todo[c] = Full
      BY <1>2, <1>3, <1>6, ChainIs
    <2>2. Full \ {"send"} = {"splice_in", "splice_out"}
      BY DEF Full
    <2>3. (ok => todo'[c] = {"splice_in", "splice_out"}) /\ (~ok => todo'[c] = {})
      <3>1. Chain[i] = "send"
        BY <1>6, ChainIs
      <3> QED
        BY <1>4, <2>1, <2>2, <3>1
    <2> QED
      BY <1>6, <2>1, <2>3
  <1>7. ASSUME i = 2 PROVE Order
    <2>1. "send" \notin todo[c] /\ "splice_in" \in todo[c]
      BY <1>2, <1>7, ChainIs
    <2>2. todo[c] = {"splice_in", "splice_out"}
      BY <1>3, <2>1 DEF Full
    <2>3. {"splice_in", "splice_out"} \ {"splice_in"} = {"splice_out"}
      OBVIOUS
    <2>4. (ok => todo'[c] = {"splice_out"}) /\ (~ok => todo'[c] = {})
      <3>1. Chain[i] = "splice_in"
        BY <1>7, ChainIs
      <3> QED
        BY <1>4, <2>2, <2>3, <3>1
    <2> QED
      BY <1>7, <2>2, <2>4
  <1>8. ASSUME i = 3 PROVE Order
    <2>1. "splice_in" \notin todo[c] /\ "splice_out" \in todo[c]
      BY <1>2, <1>8, ChainIs
    <2>2. todo[c] = {"splice_out"}
      BY <1>3, <2>1 DEF Full
    <2>3. todo'[c] = {}
      <3>1. {"splice_out"} \ {"splice_out"} = {}
        OBVIOUS
      <3> QED
        BY <1>4, <1>8, <2>2, <3>1, ChainIs
    <2> QED
      BY <1>8, <2>2, <2>3
  <1>9. Order
    BY <1>6, <1>7, <1>8
  <1> QED
    BY <1>4, <1>5, <1>9

\* The answer of one connection, as AnnouncedLength has it.
Announced(c) ==
    \A f \in File :
        Over(c) /\ Serving(c, f) =>
            /\ Len(delivered[c]) <= FileSz[f]
            /\ ~broken[c] => Len(delivered[c]) = FileSz[f]

\* What a step of c does not touch is as it was for every other connection.
LEMMA Others ==
    ASSUME IInv, NEW d \in Conn,
           file'[d] = file[d], todo'[d] = todo[d],
           delivered'[d] = delivered[d], broken'[d] = broken[d]
    PROVE  OwedTo(d)' = OwedTo(d) /\ Announced(d)'
  <1>1. Announced(d)
    BY DEF IInv, AnnouncedLength, Announced
  <1>2. Announced(d)'
    BY <1>1 DEF Announced, Over, Serving
  <1>3. OwedTo(d)' = OwedTo(d)
    BY DEF OwedTo, Between
  <1> QED
    BY <1>2, <1>3

\* Nothing is owed to a chain that is not between its splices.
LEMMA NothingOwed ==
    ASSUME NEW c \in Conn
    PROVE  /\ todo[c] # {"splice_out"} => OwedTo(c) = {}
           /\ todo'[c] # {"splice_out"} => OwedTo(c)' = {}
  BY DEF OwedTo, Between

\* A chain between its splices is owed its file, byte for byte.
LEMMA FileOwed ==
    ASSUME NEW c \in Conn, NEW f \in File
    PROVE  /\ IsFiniteSet({c} \X (1 .. FileSz[f]))
           /\ Cardinality({c} \X (1 .. FileSz[f])) = FileSz[f]
           /\ todo[c] = {"splice_out"} /\ file[c] = {f} => OwedTo(c) = {c} \X (1 .. FileSz[f])
           /\ todo'[c] = {"splice_out"} /\ file'[c] = {f} => OwedTo(c)' = {c} \X (1 .. FileSz[f])
  <1>1. FileSz[f] \in Nat
    BY FileAssumption
  <1>2. IsFiniteSet(1 .. FileSz[f]) /\ Cardinality(1 .. FileSz[f]) = FileSz[f]
    <2>1. \A n \in Nat : IsFiniteSet(1 .. n) /\ Cardinality(1 .. n) = n
      BY FS_Interval
    <2> QED
      BY <1>1, <2>1
  <1>3. IsFiniteSet({c}) /\ Cardinality({c}) = 1
    BY FS_Singleton
  <1>4. /\ IsFiniteSet({c} \X (1 .. FileSz[f]))
        /\ Cardinality({c} \X (1 .. FileSz[f])) = 1 * FileSz[f]
    BY <1>2, <1>3, FS_Product
  <1>5. UNION {1 .. FileSz[g] : g \in {f}} = 1 .. FileSz[f]
    OBVIOUS
  <1>6. todo[c] = {"splice_out"} /\ file[c] = {f} => OwedTo(c) = {c} \X (1 .. FileSz[f])
    BY <1>5 DEF OwedTo, Between
  <1>7. todo'[c] = {"splice_out"} /\ file'[c] = {f} => OwedTo(c)' = {c} \X (1 .. FileSz[f])
    BY <1>5 DEF OwedTo, Between
  <1> QED
    BY <1>1, <1>4, <1>6, <1>7

\* What is owed to one connection is owed to no other.
LEMMA OwedApart ==
    ASSUME NEW c \in Conn, NEW d \in Conn, c # d
    PROVE  OwedTo(c) \cap OwedTo(d) = {} /\ OwedTo(c)' \cap OwedTo(d) = {}
  BY DEF OwedTo

\* A step that owes nobody more or less.
LEMMA SameOwed ==
    ASSUME IInv, \A d \in Conn : OwedTo(d)' = OwedTo(d),
           pipe' = pipe, stranded' = stranded
    PROVE  Accounts'
  <1>1. Owed' = Owed
    BY DEF Owed
  <1> QED
    BY <1>1 DEF IInv, Accounts, PipeAccounts

\* The handler pushes the chain of an answer.
LEMMA RespondStep == ASSUME IInv, NEW c \in Conn, NEW f \in File, Respond(c, f) PROVE IInv'
  <1>1. /\ file \in [Conn -> SUBSET File] /\ todo \in [Conn -> SUBSET Full]
        /\ file[c] = {} /\ todo[c] = {} /\ delivered[c] = <<>> /\ ~broken[c]
    BY ChainIs DEF IInv, TypeOK, Progress, Respond
  <1>2. /\ file' \in [Conn -> SUBSET File] /\ todo' \in [Conn -> SUBSET Full]
        /\ file'[c] = {f} /\ todo'[c] = Full
        /\ \A d \in Conn \ {c} : file'[d] = file[d] /\ todo'[d] = todo[d]
        /\ UNCHANGED <<pipe, delivered, broken, stranded>>
    BY <1>1, ChainIs DEF Respond
  <1>3. TypeOK'
    BY <1>2, ChainIs DEF IInv, TypeOK
  <1>4. Progress'
    <2>1. ASSUME NEW d \in Conn \ {c}
          PROVE  /\ file'[d] = {} \/ \E g \in File : file'[d] = {g}
                 /\ todo'[d] \in {{}, {"splice_out"}, {"splice_in", "splice_out"}, Full}
                 /\ file'[d] = {} \/ todo'[d] # {} => delivered'[d] = <<>> /\ ~broken'[d]
      BY <1>2 DEF IInv, Progress, Full
    <2> QED
      BY <1>1, <1>2, <2>1 DEF Progress, Full
  <1>5. \A d \in Conn : OwedTo(d)' = OwedTo(d)
    BY <1>1, <1>2, Others, NothingOwed, ChainStates
  <1>6. AnnouncedLength'
    <2>1. ~Over(c)'
      BY <1>2, ChainStates DEF Over
    <2>2. \A d \in Conn \ {c} : Announced(d)'
      BY <1>2, Others
    <2> QED
      BY <2>1, <2>2 DEF AnnouncedLength, Announced
  <1> QED
    BY <1>2, <1>3, <1>4, <1>5, <1>6, SameOwed DEF IInv

\* The head of the answer is sent, or not.
LEMMA SendStep == ASSUME IInv, NEW c \in Conn, NEW ok \in BOOLEAN, Send(c, ok) PROVE IInv'
  <1>1. Ends(c, 1, ok)
    BY DEF Send
  <1>2. /\ todo' \in [Conn -> SUBSET Full] /\ file' = file
        /\ \A d \in Conn \ {c} : todo'[d] = todo[d]
        /\ \E f \in File : file[c] = {f}
        /\ delivered[c] = <<>> /\ ~broken[c]
        /\ todo[c] = Full
        /\ ok => todo'[c] = {"splice_in", "splice_out"}
        /\ ~ok => todo'[c] = {}
    BY <1>1, EndsStep
  <1>3. /\ broken' \in [Conn -> BOOLEAN] /\ broken'[c] = ~ok
        /\ \A d \in Conn \ {c} : broken'[d] = broken[d]
        /\ UNCHANGED <<pipe, delivered, stranded>>
    BY DEF Send, IInv, TypeOK
  <1>4. TypeOK'
    <2>1. \A d \in Conn : file'[d] = {} => todo'[d] = {} /\ delivered'[d] = <<>>
      BY <1>2, <1>3 DEF IInv, TypeOK
    <2> QED
      BY <1>2, <1>3, <2>1, ChainIs DEF IInv, TypeOK
  <1>5. Progress'
    <2>1. ASSUME NEW d \in Conn \ {c}
          PROVE  /\ file'[d] = {} \/ \E g \in File : file'[d] = {g}
                 /\ todo'[d] \in {{}, {"splice_out"}, {"splice_in", "splice_out"}, Full}
                 /\ file'[d] = {} \/ todo'[d] # {} => delivered'[d] = <<>> /\ ~broken'[d]
      BY <1>2, <1>3 DEF IInv, Progress, Full
    <2>2. /\ \E g \in File : file'[c] = {g}
          /\ todo'[c] \in {{}, {"splice_out"}, {"splice_in", "splice_out"}, Full}
          /\ todo'[c] # {} => delivered'[c] = <<>> /\ ~broken'[c]
          /\ file'[c] # {}
      BY <1>2, <1>3
    <2> QED
      BY <2>1, <2>2 DEF Progress, Full
  <1>6. \A d \in Conn : OwedTo(d)' = OwedTo(d)
    BY <1>2, <1>3, Others, NothingOwed, ChainStates
  <1>7. AnnouncedLength'
    <2>1. Announced(c)'
      <3>1. Over(c)' => broken'[c]
        BY <1>2, <1>3, ChainStates DEF Over
      <3>2. Len(delivered'[c]) = 0
        BY <1>2, <1>3
      <3> QED
        BY <3>1, <3>2, FileAssumption DEF Announced
    <2>2. \A d \in Conn \ {c} : Announced(d)'
      BY <1>2, <1>3, Others
    <2> QED
      BY <2>1, <2>2 DEF AnnouncedLength, Announced
  <1> QED
    BY <1>3, <1>4, <1>5, <1>6, <1>7, SameOwed DEF IInv

\* RESET.
LEMMA ResetStep == ASSUME IInv, NEW c \in Conn, Reset(c) PROVE IInv'
  <1>1. /\ file \in [Conn -> SUBSET File] /\ todo[c] = {}
        /\ delivered \in [Conn -> Seq(File \X Nat)] /\ broken \in [Conn -> BOOLEAN]
    BY DEF IInv, TypeOK, Reset, Over
  <1>2. /\ file' \in [Conn -> SUBSET File] /\ file'[c] = {}
        /\ delivered' \in [Conn -> Seq(File \X Nat)] /\ delivered'[c] = <<>>
        /\ broken' \in [Conn -> BOOLEAN] /\ broken'[c] = FALSE
        /\ UNCHANGED <<todo, pipe, stranded>>
        /\ \A d \in Conn \ {c} :
              file'[d] = file[d] /\ delivered'[d] = delivered[d] /\ broken'[d] = broken[d]
    BY <1>1 DEF Reset
  <1>3. TypeOK'
    <2>1. \A d \in Conn : file'[d] = {} => todo'[d] = {} /\ delivered'[d] = <<>>
      BY <1>1, <1>2 DEF IInv, TypeOK
    <2> QED
      BY <1>2, <2>1 DEF IInv, TypeOK
  <1>4. Progress'
    <2>1. ASSUME NEW d \in Conn \ {c}
          PROVE  /\ file'[d] = {} \/ \E g \in File : file'[d] = {g}
                 /\ todo'[d] \in {{}, {"splice_out"}, {"splice_in", "splice_out"}, Full}
                 /\ file'[d] = {} \/ todo'[d] # {} => delivered'[d] = <<>> /\ ~broken'[d]
      BY <1>2 DEF IInv, Progress, Full
    <2> QED
      BY <1>1, <1>2, <2>1 DEF Progress, Full
  <1>5. \A d \in Conn : OwedTo(d)' = OwedTo(d)
    BY <1>1, <1>2, Others, NothingOwed, ChainStates
  <1>6. AnnouncedLength'
    <2>1. ~Over(c)'
      BY <1>2 DEF Over
    <2>2. \A d \in Conn \ {c} : Announced(d)'
      BY <1>2, Others
    <2> QED
      BY <2>1, <2>2 DEF AnnouncedLength, Announced
  <1> QED
    BY <1>2, <1>3, <1>4, <1>5, <1>6, SameOwed DEF IInv

\* n bytes of the file go into the pipe.
LEMMA SpliceInStep ==
    ASSUME IInv, NEW c \in Conn, NEW f \in File, NEW n \in 0..PipeCap, SpliceIn(c, f, n)
    PROVE  IInv'
  <1> DEFINE ok == n = FileSz[f]
  <1>1. /\ Ends(c, 2, ok) /\ file[c] = {f} /\ n \in 0 .. FileSz[f]
        /\ pipe \in Seq(Byte) /\ Len(pipe) + n <= PipeCap
    BY BytesType, FileAssumption DEF SpliceIn, Serving, IInv, TypeOK, Byte
  <1>2. /\ todo' \in [Conn -> SUBSET Full] /\ file' = file
        /\ \A d \in Conn \ {c} : todo'[d] = todo[d]
        /\ delivered[c] = <<>> /\ ~broken[c]
        /\ todo[c] = {"splice_in", "splice_out"}
        /\ ok => todo'[c] = {"splice_out"}
        /\ ~ok => todo'[c] = {}
    <2>1. ok \in BOOLEAN
      OBVIOUS
    <2> HIDE DEF ok
    <2> QED
      BY <1>1, <2>1, EndsStep
  <1>3. /\ broken' \in [Conn -> BOOLEAN] /\ broken'[c] = ~ok
        /\ \A d \in Conn \ {c} : broken'[d] = broken[d]
        /\ delivered' = delivered
    <2>1. /\ broken \in [Conn -> BOOLEAN] /\ delivered' = delivered
          /\ broken' = [broken EXCEPT ![c] = @ \/ n < FileSz[f]]
      BY DEF SpliceIn, IInv, TypeOK
    <2>2. (n < FileSz[f]) = ~ok
      BY <1>1, BytesType
    <2> HIDE DEF ok
    <2> QED
      BY <1>2, <2>1, <2>2
  <1>4. /\ pipe' = pipe \o SubSeq(Bytes(f), 1, n)
        /\ pipe' \in Seq(Byte) /\ Len(pipe') <= PipeCap
    <2>1. pipe' = pipe \o SubSeq(Bytes(f), 1, n)
      BY DEF SpliceIn
    <2>2. SubSeq(Bytes(f), 1, n) \in Seq(Byte) /\ Len(SubSeq(Bytes(f), 1, n)) = n
      BY <1>1, BytesType
    <2> QED
      BY <1>1, <2>1, <2>2, ConcatProperties
  <1>5. /\ stranded' = IF ok THEN stranded ELSE stranded + n
        /\ stranded \in Nat /\ stranded' \in Nat
    BY <1>1, BytesType DEF SpliceIn, IInv, TypeOK
  <1> HIDE DEF ok
  <1>6. TypeOK'
    <2>1. \A d \in Conn : file'[d] = {} => todo'[d] = {} /\ delivered'[d] = <<>>
      BY <1>1, <1>2, <1>3 DEF IInv, TypeOK
    <2> QED
      BY <1>2, <1>3, <1>4, <1>5, <2>1, ChainIs DEF IInv, TypeOK, Byte
  <1>7. Progress'
    <2>1. ASSUME NEW d \in Conn \ {c}
          PROVE  /\ file'[d] = {} \/ \E g \in File : file'[d] = {g}
                 /\ todo'[d] \in {{}, {"splice_out"}, {"splice_in", "splice_out"}, Full}
                 /\ file'[d] = {} \/ todo'[d] # {} => delivered'[d] = <<>> /\ ~broken'[d]
      BY <1>2, <1>3 DEF IInv, Progress, Full
    <2>2. /\ \E g \in File : file'[c] = {g}
          /\ todo'[c] \in {{}, {"splice_out"}, {"splice_in", "splice_out"}, Full}
          /\ todo'[c] # {} => delivered'[c] = <<>> /\ ~broken'[c]
          /\ file'[c] # {}
      BY <1>1, <1>2, <1>3
    <2> QED
      BY <2>1, <2>2 DEF Progress, Full
  <1>8. Accounts'
    <2>1. /\ OwedTo(c) = {} /\ \A d \in Conn \ {c} : OwedTo(d)' = OwedTo(d)
          /\ IsFiniteSet(Owed) /\ Len(pipe) = Cardinality(Owed) + stranded
      BY <1>2, <1>3, Others, NothingOwed, ChainStates DEF IInv, Accounts, PipeAccounts
    <2>2. Len(pipe') = Len(pipe) + n
      <3>1. SubSeq(Bytes(f), 1, n) \in Seq(Byte) /\ Len(SubSeq(Bytes(f), 1, n)) = n
        BY <1>1, BytesType
      <3> QED
        BY <1>1, <1>4, <3>1, ConcatProperties
    <2>3. Cardinality(Owed) \in Nat
      BY <2>1, FS_CardinalityType
    <2>4. CASE ok
      <3>1. OwedTo(c)' = {c} \X (1 .. FileSz[f])
        BY <1>1, <1>2, <2>4, FileOwed
      <3>2. Owed' = Owed \cup OwedTo(c)'
        BY <2>1 DEF Owed
      <3>3. Owed \cap OwedTo(c)' = {}
        BY <2>1, OwedApart DEF Owed
      <3>4. IsFiniteSet(OwedTo(c)') /\ Cardinality(OwedTo(c)') = FileSz[f]
        BY <3>1, FileOwed
      <3>5. /\ IsFiniteSet(Owed')
            /\ Cardinality(Owed') = Cardinality(Owed) + Cardinality(OwedTo(c)') - Cardinality({})
        BY <2>1, <3>2, <3>3, <3>4, FS_Union
      <3>6. n = FileSz[f] /\ n \in Nat
        BY <1>1, <2>4, BytesType DEF ok
      <3> QED
        BY <1>5, <2>1, <2>2, <2>3, <2>4, <3>4, <3>5, <3>6, FS_EmptySet DEF Accounts, PipeAccounts
    <2>5. CASE ~ok
      <3>1. \A d \in Conn : OwedTo(d)' = OwedTo(d)
        BY <1>2, <2>1, <2>5, NothingOwed, ChainStates
      <3>2. Owed' = Owed
        BY <3>1 DEF Owed
      <3>3. Len(pipe') = Cardinality(Owed) + stranded'
        BY <1>1, <1>5, <2>1, <2>2, <2>3, <2>5
      <3> QED
        BY <2>1, <3>2, <3>3 DEF Accounts, PipeAccounts
    <2> QED
      BY <2>4, <2>5
  <1>9. AnnouncedLength'
    <2>1. Announced(c)'
      <3>1. Over(c)' => broken'[c]
        BY <1>2, <1>3, ChainStates DEF Over
      <3>2. Len(delivered'[c]) = 0
        BY <1>2, <1>3
      <3> QED
        BY <3>1, <3>2, FileAssumption DEF Announced
    <2>2. \A d \in Conn \ {c} : Announced(d)'
      BY <1>2, <1>3, Others
    <2> QED
      BY <2>1, <2>2 DEF AnnouncedLength, Announced
  <1> QED
    BY <1>6, <1>7, <1>8, <1>9 DEF IInv

\* n bytes of the pipe go to the socket.
LEMMA SpliceOutStep ==
    ASSUME IInv, NEW c \in Conn, NEW f \in File, NEW n \in 0..PipeCap, SpliceOut(c, f, n)
    PROVE  IInv'
  <1> DEFINE ok == n = OutLen(f)
  <1>1. /\ Ends(c, 3, ok) /\ file[c] = {f} /\ n \in 0 .. FileSz[f]
        /\ pipe \in Seq(Byte) /\ Len(pipe) <= PipeCap /\ n \in 0 .. Len(pipe)
    BY BytesType, FileAssumption DEF SpliceOut, Serving, OutLen, IInv, TypeOK, Byte
  <1>2. /\ todo' \in [Conn -> SUBSET Full] /\ file' = file
        /\ \A d \in Conn \ {c} : todo'[d] = todo[d]
        /\ delivered[c] = <<>> /\ ~broken[c]
        /\ todo[c] = {"splice_out"} /\ todo'[c] = {}
    <2>1. ok \in BOOLEAN
      OBVIOUS
    <2> HIDE DEF ok
    <2> QED
      BY <1>1, <2>1, EndsStep
  <1> HIDE DEF ok
  <1>3. /\ broken' \in [Conn -> BOOLEAN] /\ \A d \in Conn \ {c} : broken'[d] = broken[d]
        /\ ~broken'[c] => ~LeavesRest(f, n)
        /\ stranded' = stranded + (FileSz[f] - n)
        /\ stranded \in Nat /\ stranded' \in Nat
    <2>1. /\ broken \in [Conn -> BOOLEAN] /\ ~broken[c]
          /\ broken' = [broken EXCEPT ![c] = @ \/ LeavesRest(f, n)]
      BY <1>2 DEF SpliceOut, IInv, TypeOK
    <2>2. LeavesRest(f, n) \in BOOLEAN
      BY DEF LeavesRest
    <2>3. /\ stranded' = stranded + (FileSz[f] - n) /\ stranded \in Nat
          /\ FileSz[f] \in Nat
      BY BytesType DEF SpliceOut, OutLen, IInv, TypeOK
    <2> QED
      BY <1>1, <2>1, <2>2, <2>3
  <1>4. /\ pipe' = SubSeq(pipe, n + 1, Len(pipe)) /\ delivered'[c] = SubSeq(pipe, 1, n)
        /\ pipe' \in Seq(Byte) /\ Len(pipe') <= PipeCap
        /\ delivered' \in [Conn -> Seq(Byte)]
        /\ \A d \in Conn \ {c} : delivered'[d] = delivered[d]
    <2>1. /\ pipe' = SubSeq(pipe, n + 1, Len(pipe)) /\ delivered \in [Conn -> Seq(Byte)]
          /\ delivered' = [delivered EXCEPT ![c] = SubSeq(pipe, 1, n)]
      BY DEF SpliceOut, IInv, TypeOK, Byte
    <2>2. SubSeq(pipe, 1, n) \in Seq(Byte)
      BY <1>1
    <2>3. pipe' \in Seq(Byte) /\ Len(pipe') <= PipeCap
      <3>1. n + 1 \in Int /\ Len(pipe) \in Int /\ \A i \in n + 1 .. Len(pipe) : pipe[i] \in Byte
        BY <1>1
      <3> QED
        BY <1>1, <2>1, <3>1, SubSeqProperties, FileAssumption
    <2> QED
      BY <2>1, <2>2, <2>3
  <1>5. TypeOK'
    <2>1. \A d \in Conn : file'[d] = {} => todo'[d] = {} /\ delivered'[d] = <<>>
      BY <1>1, <1>2, <1>4 DEF IInv, TypeOK
    <2> QED
      BY <1>2, <1>3, <1>4, <2>1, ChainIs DEF IInv, TypeOK, Byte
  <1>6. Progress'
    <2>1. ASSUME NEW d \in Conn \ {c}
          PROVE  /\ file'[d] = {} \/ \E g \in File : file'[d] = {g}
                 /\ todo'[d] \in {{}, {"splice_out"}, {"splice_in", "splice_out"}, Full}
                 /\ file'[d] = {} \/ todo'[d] # {} => delivered'[d] = <<>> /\ ~broken'[d]
      BY <1>2, <1>3, <1>4 DEF IInv, Progress, Full
    <2>2. (\E g \in File : file'[c] = {g}) /\ todo'[c] = {} /\ file'[c] # {}
      BY <1>1, <1>2
    <2> QED
      BY <2>1, <2>2 DEF Progress, Full
  <1>7. /\ IsFiniteSet(Owed) /\ Len(pipe) = Cardinality(Owed) + stranded
        /\ OwedTo(c) \subseteq Owed
        /\ IsFiniteSet(OwedTo(c)) /\ Cardinality(OwedTo(c)) = FileSz[f]
        /\ OwedTo(c)' = {} /\ \A d \in Conn \ {c} : OwedTo(d)' = OwedTo(d)
    <2>1. OwedTo(c) \subseteq Owed
      BY DEF Owed
    <2>2. OwedTo(c) = {c} \X (1 .. FileSz[f])
      BY <1>1, <1>2, FileOwed
    <2>3. IsFiniteSet(OwedTo(c)) /\ Cardinality(OwedTo(c)) = FileSz[f]
      BY <2>2, FileOwed
    <2>4. OwedTo(c)' = {} /\ \A d \in Conn \ {c} : OwedTo(d)' = OwedTo(d)
      BY <1>2, <1>3, <1>4, Others, NothingOwed, ChainStates
    <2> QED
      BY <2>1, <2>3, <2>4 DEF IInv, Accounts, PipeAccounts
  <1>8. Cardinality(Owed) \in Nat /\ FileSz[f] <= Cardinality(Owed)
    BY <1>7, FS_CardinalityType, FS_Subset
  <1>9. Accounts'
    <2>1. Owed' = Owed \ OwedTo(c)
      <3>1. \A d \in Conn \ {c} : OwedTo(c) \cap OwedTo(d) = {}
        BY OwedApart
      <3> QED
        BY <1>7, <3>1 DEF Owed
    <2>2. Owed \cap OwedTo(c) = OwedTo(c)
      BY <1>7
    <2>3. IsFiniteSet(Owed') /\ Cardinality(Owed') = Cardinality(Owed) - FileSz[f]
      <3>1. IsFiniteSet(Owed') /\ Cardinality(Owed') = Cardinality(Owed) - Cardinality(Owed \cap OwedTo(c))
        BY <1>7, <2>1, FS_Difference
      <3> QED
        BY <1>7, <2>2, <3>1
    <2>4. Len(pipe') = Len(pipe) - n
      BY <1>1, <1>4
    <2>5. Len(pipe') = Cardinality(Owed') + stranded'
      BY <1>1, <1>3, <1>7, <1>8, <2>3, <2>4, BytesType
    <2> QED
      BY <2>3, <2>5 DEF Accounts, PipeAccounts
  <1>10. AnnouncedLength'
    <2>1. Len(delivered'[c]) = n
      BY <1>1, <1>4
    <2>2. ~broken'[c] => n = FileSz[f]
      BY <1>1, <1>3, <1>7, <1>8, BytesType DEF LeavesRest, OutLen
    <2>3. \A g \in File : Serving(c, g)' => g = f
      BY <1>1, <1>2 DEF Serving
    <2>4. Announced(c)'
      BY <1>1, <2>1, <2>2, <2>3, BytesType DEF Announced
    <2>5. \A d \in Conn \ {c} : Announced(d)'
      BY <1>2, <1>3, <1>4, Others
    <2> QED
      BY <2>4, <2>5 DEF AnnouncedLength, Announced
  <1> QED
    BY <1>5, <1>6, <1>9, <1>10 DEF IInv

\* Every step keeps the invariant.
LEMMA StepInv == IInv /\ [Next]_vars => IInv'
  <1> SUFFICES ASSUME IInv, [Next]_vars PROVE IInv'
    OBVIOUS
  <1>1. ASSUME NEW c \in Conn, Reset(c) PROVE IInv'
    BY <1>1, ResetStep
  <1>2. ASSUME NEW c \in Conn, NEW ok \in BOOLEAN, Send(c, ok) PROVE IInv'
    BY <1>2, SendStep
  <1>3. ASSUME NEW c \in Conn, NEW f \in File, Respond(c, f) PROVE IInv'
    BY <1>3, RespondStep
  <1>4. ASSUME NEW c \in Conn, NEW f \in File, NEW n \in 0..PipeCap, SpliceIn(c, f, n) PROVE IInv'
    BY <1>4, SpliceInStep
  <1>5. ASSUME NEW c \in Conn, NEW f \in File, NEW n \in 0..PipeCap, SpliceOut(c, f, n) PROVE IInv'
    BY <1>5, SpliceOutStep
  <1>6. CASE UNCHANGED vars
    <2>1. \A d \in Conn : OwedTo(d)' = OwedTo(d)
      BY <1>6 DEF vars, OwedTo, Between
    <2>2. Accounts'
      BY <1>6, <2>1, SameOwed DEF vars
    <2> QED
      BY <1>6, <2>2 DEF vars, IInv, TypeOK, Progress, AnnouncedLength, Serving, Over
  <1> QED
    BY <1>1, <1>2, <1>3, <1>4, <1>5, <1>6 DEF Next

\* The invariant holds in every behaviour.
LEMMA Invariance == Spec => []IInv
  BY InitInv, StepInv, PTL DEF Spec

-----------------------------------------------------------------------------
(* The theorems.                                                           *)

\* A slot between two answers has no operation left in the rings and keeps
\* nothing of the last answer; the pipe is never over its capacity.
THEOREM TypeCorrect == Spec => []TypeOK
  <1>1. IInv => TypeOK
    BY DEF IInv
  <1> QED
    BY Invariance, <1>1, PTL

\* However chains of any number of connections interleave, fail and come short,
\* the pipe they share holds what the chains between their splices will take,
\* and what short splices left behind.
THEOREM PipeIsAccounted == Spec => []PipeAccounts
  <1>1. IInv => PipeAccounts
    BY DEF IInv, Accounts
  <1> QED
    BY Invariance, <1>1, PTL

\* No other connection can starve an answer: unless an operation of its own
\* chain failed, it has as many bytes as its Content-Length announces.
THEOREM AnswerHasLength == Spec => []AnnouncedLength
  <1>1. IInv => AnnouncedLength
    BY DEF IInv
  <1> QED
    BY Invariance, <1>1, PTL
=============================================================================
