-------------------------- MODULE EventLoopProofs --------------------------
(***************************************************************************)
(* Theorems about EventLoop, for every set of descriptors, every depth of  *)
(* the submission queue and both builds.                                   *)
(***************************************************************************)
EXTENDS EventLoop, FiniteSetTheorems, TLAPS

-----------------------------------------------------------------------------
(* Type correctness.                                                       *)

\* Pushing SQEs keeps the rings well typed: every handler of a CQE ends with it.
LEMMA PushTypeOK ==
    ASSUME TypeOK, NEW s, NEW r, Completed(s, r), NEW ops \in Seq(Sqe), Push(ops)
    PROVE  /\ pc' \in {"batch", "crashed"}
           /\ sq' \in Seq(Sqe) /\ inflight' \in SUBSET Sqe /\ cq' \in Seq(Cqe)
           /\ head' \in 0..Len(cq') /\ count' \in Nat
  BY DEF TypeOK, Completed, Push, Consume

\* The operations the loop pushes are SQEs.
LEMMA OpType ==
    /\ \A f \in Slot, k \in Kind : Op(f, k) \in Sqe
    /\ \A f \in Fd, k \in ResponseKind : Op(f, k) \in Sqe
    /\ Op(ListenFd, "accept") \in Sqe
    /\ \A f \in Fd : Op(f, "recv") \in Sqe
  BY DEF Op, Sqe, Slot, Kind, ResponseKind

\* A response keeps the slot well typed.
LEMMA RespondTypeOK ==
    ASSUME TypeOK, NEW f \in Fd, NEW r, Completed(f, r),
           NEW ops \in Seq(Sqe), NEW parts \in SUBSET {"str", "req", "res", "fresstr"},
           Respond(f, ops, parts), fdt' \in [Fd -> {"free", "sock", "file"}],
           data' \in BOOLEAN, WatchStaticFiles' = WatchStaticFiles
    PROVE  TypeOK'
  <1>1. /\ pc' \in {"batch", "crashed"}
        /\ sq' \in Seq(Sqe) /\ inflight' \in SUBSET Sqe /\ cq' \in Seq(Cqe)
        /\ head' \in 0..Len(cq') /\ count' \in Nat
    BY PushTypeOK DEF Respond, PushedAction, PushedSteps
  <1>2. Len(ops) \in Nat
    OBVIOUS
  <1>3. action' \in [Slot -> {"NONE", "ACCEPT", "RECV", "SEND", "SPLICE"}]
    BY DEF Respond, PushedAction, PushedSteps, TypeOK
  <1>4. total_steps' \in [Fd -> Nat] /\ cur_steps' \in [Fd -> Nat]
    BY <1>2 DEF Respond, PushedAction, PushedSteps, TypeOK
  <1>5. dirty' \in [Fd -> SUBSET {"str", "req", "res", "fresstr"}]
    BY DEF Respond, PushedAction, PushedSteps, TypeOK
  <1>6. coro' \in [Fd -> {"NULL", "CREATED", "STARTED", "STOPPED"}] /\ str' \in [Fd -> BOOLEAN]
    BY DEF Respond, PushedAction, PushedSteps, Runs, TypeOK
  <1> QED
    BY <1>1, <1>3, <1>4, <1>5, <1>6 DEF TypeOK

\* Every step of the loop, the handler and the kernel keeps the types.
LEMMA TypeStep == TypeOK /\ BatchControl /\ [Next]_vars => TypeOK'
  <1> SUFFICES ASSUME TypeOK, BatchControl, [Next]_vars PROVE TypeOK'
    OBVIOUS
  <1> USE OpType
  <1>1. CASE SetupFails
    BY <1>1 DEF SetupFails, TypeOK, rings, slots
  <1>2. CASE ListenStart
    BY <1>2 DEF ListenStart, TypeOK, Slot
  <1>3. CASE Submit
    <2>1. Range(sq) \subseteq Sqe
      BY DEF TypeOK, Range
    <2> QED
      BY <1>3, <2>1 DEF Submit, TypeOK, slots
  <1>4. CASE WaitReturns
    BY <1>4 DEF WaitReturns, TypeOK, slots
  <1>5. CASE BatchEnds
    BY <1>5 DEF BatchEnds, TypeOK, rings, slots
  <1>21. CASE Advance
    <2>1. /\ head' = 0 /\ count' = 0 /\ pc' = "submit"
          /\ head \in 0..Len(cq)
          /\ cq' = SubSeq(cq, head + 1, Len(cq))
      BY <1>21 DEF Advance, Advanced, BatchControl, TypeOK
    <2>2. cq' \in Seq(Cqe)
      BY <2>1 DEF TypeOK
    <2>3. head' \in 0..Len(cq')
      BY <2>1, <2>2
    <2> QED
      BY <1>21, <2>1, <2>2, <2>3 DEF Advance, TypeOK, slots
  <1>6. ASSUME NEW s \in Slot, AcceptAgain(s) PROVE TypeOK'
    <2>1. <<Op(ListenFd, "accept")>> \in Seq(Sqe)
      OBVIOUS
    <2> QED
      BY <1>6, <2>1, PushTypeOK DEF AcceptAgain, Rearm, TypeOK, Slot
  <1>7. ASSUME NEW s \in Slot, AcceptFails(s) PROVE TypeOK'
    BY <1>7 DEF AcceptFails, Consume, Completed, TypeOK, slots
  <1>8. ASSUME NEW s \in Slot, NEW f \in Fd, RefuseConnection(s, f) PROVE TypeOK'
    <2>1. <<Op(ListenFd, "accept")>> \in Seq(Sqe)
      OBVIOUS
    <2>2. coro' \in [Fd -> {"NULL", "CREATED", "STARTED", "STOPPED"}]
      BY <1>8 DEF RefuseConnection, TypeOK
    <2> QED
      BY <1>8, <2>1, <2>2, PushTypeOK DEF RefuseConnection, TypeOK, Slot
  <1>9. ASSUME NEW s \in Slot, NEW f \in Fd, AcceptConnection(s, f) PROVE TypeOK'
    <2>1. <<Op(f, "recv"), Op(ListenFd, "accept")>> \in Seq(Sqe)
      OBVIOUS
    <2>2. /\ coro' \in [Fd -> {"NULL", "CREATED", "STARTED", "STOPPED"}]
          /\ str' \in [Fd -> BOOLEAN]
      BY <1>9 DEF AcceptConnection, TypeOK
    <2>3. action' \in [Slot -> {"NONE", "ACCEPT", "RECV", "SEND", "SPLICE"}]
      BY <1>9 DEF AcceptConnection, TypeOK, Slot
    <2> QED
      BY <1>9, <2>1, <2>2, <2>3, PushTypeOK DEF AcceptConnection, TypeOK
  <1>10. ASSUME NEW s \in Slot, NEW f \in Fd, AcceptWithoutBuffer(s, f) PROVE TypeOK'
    BY <1>10 DEF AcceptWithoutBuffer, Crash, TypeOK, rings, slots
  <1>11. ASSUME NEW f \in Fd, RecvError(f) PROVE TypeOK'
    <2>1. <<>> \in Seq(Sqe)
      OBVIOUS
    <2> QED
      BY <1>11, <2>1, PushTypeOK DEF RecvError, Resumed, Runs, TypeOK
  <1>12. ASSUME NEW f \in Fd, RecvPeerClosed(f) PROVE TypeOK'
    <2>1. <<>> \in Seq(Sqe)
      OBVIOUS
    <2> QED
      BY <1>12, <2>1, PushTypeOK DEF RecvPeerClosed, Resumed, Runs, Reset, ResetParts, ResetTotal, TypeOK
  <1>13. ASSUME NEW f \in Fd, NEW r \in ResultCode, StepDone(f, r) PROVE TypeOK'
    <2>1. <<>> \in Seq(Sqe)
      OBVIOUS
    <2>2. /\ pc' \in {"batch", "crashed"}
          /\ sq' \in Seq(Sqe) /\ inflight' \in SUBSET Sqe /\ cq' \in Seq(Cqe)
          /\ head' \in 0..Len(cq') /\ count' \in Nat
      BY <1>13, <2>1, PushTypeOK DEF StepDone, LastStep, Resumed
    <2>3. /\ coro' \in [Fd -> {"NULL", "CREATED", "STARTED", "STOPPED"}]
          /\ str' \in [Fd -> BOOLEAN] /\ data' \in BOOLEAN /\ action' = action
          /\ WatchStaticFiles' = WatchStaticFiles
      BY <1>13 DEF StepDone, LastStep, Runs, Reset, ResetParts, ResetTotal, TypeOK
    <2>4. /\ fdt' \in [Fd -> {"free", "sock", "file"}]
          /\ cur_steps' \in [Fd -> Nat] /\ total_steps' \in [Fd -> Nat]
          /\ dirty' \in [Fd -> SUBSET {"str", "req", "res", "fresstr"}]
      <3>1. CASE cur_steps[f] + 1 = total_steps[f]
        <4>1. Reset(f)
          BY <1>13, <3>1 DEF StepDone, LastStep
        <4> QED
          BY <4>1 DEF Reset, ResetParts, ResetTotal, TypeOK
      <3>2. CASE cur_steps[f] + 1 # total_steps[f]
        <4>1. /\ cur_steps' = [cur_steps EXCEPT ![f] = @ + 1]
              /\ UNCHANGED <<fdt, total_steps, dirty>>
          BY <1>13, <3>2 DEF StepDone, LastStep
        <4> QED
          BY <4>1 DEF TypeOK
      <3> QED
        BY <3>1, <3>2
    <2> QED
      BY <2>2, <2>3, <2>4 DEF TypeOK
  <1>14. ASSUME NEW f \in Fd, NEW r \in ResultCode, HandlerInitFails(f, r) PROVE TypeOK'
    <2>1. <<>> \in Seq(Sqe)
      OBVIOUS
    <2> QED
      BY <1>14, <2>1, PushTypeOK DEF HandlerInitFails, FdtAtExit, Resumed, TypeOK
  <1>15. ASSUME NEW f \in Fd,
                \/ RecvTooLarge(f) \/ RecvRejected(f) \/ RecvDynamic(f) \/ RecvStaticFails(f)
                \/ \E g \in Fd : RecvStaticOpened(f, g)
                \/ RecvStaticCached(f)
         PROVE  TypeOK'
    <2>1. <<Op(f, "send")>> \in Seq(Sqe)
      BY DEF ResponseKind
    <2>2. <<Op(f, "send"), Op(f, "splice_in"), Op(f, "splice_out")>> \in Seq(Sqe)
      BY DEF ResponseKind
    <2>3. (IF WatchStaticFiles
           THEN <<Op(f, "send"), Op(f, "splice_in"), Op(f, "splice_out")>>
           ELSE <<Op(f, "send")>>) \in Seq(Sqe)
      BY <2>1, <2>2
    <2>4. /\ \E r : Completed(f, r)
          /\ fdt \in [Fd -> {"free", "sock", "file"}] /\ data \in BOOLEAN
          /\ WatchStaticFiles \in BOOLEAN
      BY <1>15 DEF RecvTooLarge, RecvRejected, RecvDynamic, RecvStaticFails,
                   RecvStaticOpened, RecvStaticCached, Resumed, TypeOK
    <2>5. ASSUME NEW parts \in SUBSET {"req", "res"}, ErrorReply(f, parts),
                 fdt' \in [Fd -> {"free", "sock", "file"}], data' \in BOOLEAN,
                 WatchStaticFiles' = WatchStaticFiles
          PROVE  TypeOK'
      BY <2>1, <2>4, <2>5, RespondTypeOK DEF ErrorReply
    <2>6. ASSUME FullReply(f), fdt' \in [Fd -> {"free", "sock", "file"}], data' \in BOOLEAN,
                 WatchStaticFiles' = WatchStaticFiles
          PROVE  TypeOK'
      BY <2>3, <2>4, <2>6, RespondTypeOK DEF FullReply
    <2>7. CASE RecvTooLarge(f)
      BY <2>7, <2>4, <2>5 DEF RecvTooLarge
    <2>8. CASE RecvRejected(f)
      BY <2>8, <2>4, <2>5 DEF RecvRejected
    <2>9. CASE RecvDynamic(f)
      BY <2>9, <2>4, <2>6 DEF RecvDynamic
    <2>10. CASE RecvStaticFails(f)
      BY <2>10, <2>4, <2>5 DEF RecvStaticFails
    <2>11. ASSUME NEW g \in Fd, RecvStaticOpened(f, g) PROVE TypeOK'
      <3>1. fdt' \in [Fd -> {"free", "sock", "file"}] /\ data' \in BOOLEAN
        BY <2>11, <2>4 DEF RecvStaticOpened
      <3> QED
        BY <2>11, <3>1, <2>5, <2>6 DEF RecvStaticOpened
    <2>12. CASE RecvStaticCached(f)
      <3>1. CASE Crash
        BY <3>1 DEF Crash, TypeOK, rings, slots
      <3>2. CASE ~Crash
        BY <2>12, <3>2, <2>4, <2>6 DEF RecvStaticCached
      <3> QED
        BY <3>1, <3>2
    <2> QED
      BY <1>15, <2>7, <2>8, <2>9, <2>10, <2>11, <2>12
  <1>16. ASSUME NEW f \in Slot, NEW k \in Kind, NEW r \in Fd \cup ResultCode, Post(f, k, r),
                fdt' \in [Fd -> {"free", "sock", "file"}],
                dirty' \in [Fd -> SUBSET {"str", "req", "res", "fresstr"}]
         PROVE  TypeOK'
    <2>1. [slot |-> f, kind |-> k, res |-> r] \in Cqe
      BY DEF Cqe
    <2> QED
      BY <1>16, <2>1 DEF Post, TypeOK
  <1>17. CASE AcceptCompletes
    <2>1. ListenFd \in Slot /\ "accept" \in Kind /\ {"again", "neg"} \subseteq ResultCode
      BY DEF Slot, Kind, ResultCode
    <2>2. ASSUME NEW r \in {"again", "neg"}, Post(ListenFd, "accept", r), UNCHANGED <<fdt, dirty>>
          PROVE  TypeOK'
      BY <2>1, <2>2, <1>16 DEF TypeOK
    <2>3. ASSUME NEW f \in Fd, Post(ListenFd, "accept", f),
                 fdt' = [fdt EXCEPT ![f] = "sock"], UNCHANGED dirty
          PROVE  TypeOK'
      BY <2>1, <2>3, <1>16 DEF TypeOK
    <2> QED
      BY <1>17, <2>2, <2>3 DEF AcceptCompletes
  <1>18. ASSUME NEW f \in Fd, RecvCompletes(f) PROVE TypeOK'
    <2>1. f \in Slot /\ "recv" \in Kind /\ {"neg", "zero", "cap", "pos"} \subseteq ResultCode
      BY DEF Slot, Kind, ResultCode
    <2>2. PICK r \in {"neg", "zero", "cap", "pos"} :
             /\ Post(f, "recv", r)
             /\ dirty' = IF r \in {"cap", "pos"}
                         THEN [dirty EXCEPT ![f] = @ \cup {"str"}]
                         ELSE dirty
      BY <1>18 DEF RecvCompletes
    <2>3. dirty' \in [Fd -> SUBSET {"str", "req", "res", "fresstr"}]
      BY <2>2 DEF TypeOK
    <2> QED
      BY <1>18, <2>1, <2>2, <2>3, <1>16 DEF RecvCompletes, TypeOK
  <1>19. ASSUME NEW f \in Fd, NEW k \in ResponseKind, ResponseOpCompletes(f, k) PROVE TypeOK'
    <2>1. f \in Slot /\ k \in Kind /\ {"neg", "pos"} \subseteq ResultCode
      BY DEF Slot, Kind, ResultCode
    <2> QED
      BY <1>19, <2>1, <1>16 DEF ResponseOpCompletes, TypeOK
  <1>20. CASE UNCHANGED vars
    BY <1>20 DEF vars, rings, slots, TypeOK
  <1> QED
    BY <1>1, <1>2, <1>3, <1>4, <1>5, <1>6, <1>7, <1>8, <1>9, <1>10, <1>11, <1>12, <1>13,
       <1>14, <1>15, <1>17, <1>18, <1>19, <1>20, <1>21
       DEF Next, Loop, Kernel, Terminated, HandleAccept, HandleRecv, ResumeCoroutine

\* The zeroed slots and empty rings the loop starts with are well typed.
LEMMA TypeInit == Init => TypeOK
  <1> SUFFICES ASSUME Init PROVE TypeOK
    OBVIOUS
  <1>1. /\ sq \in Seq(Sqe) /\ inflight \in SUBSET Sqe /\ cq \in Seq(Cqe)
        /\ head \in 0..Len(cq) /\ count \in Nat
    BY DEF Init
  <1>2. dirty \in [Fd -> SUBSET {"str", "req", "res", "fresstr"}] /\ str \in [Fd -> BOOLEAN]
    BY DEF Init
  <1> QED
    BY <1>1, <1>2 DEF Init, TypeOK

-----------------------------------------------------------------------------
(* What the steps do to the rings, seen through Outstanding and NewFds.    *)

\* The operation reported by the CQE the loop looks at.
HeadOp == Op(cq[head + 1].slot, cq[head + 1].kind)

\* The SQEs after a push: the old ones and the new ones.
LEMMA RangeConcat ==
    ASSUME NEW S, NEW a \in Seq(S), NEW b \in Seq(S)
    PROVE  Range(a \o b) = Range(a) \cup Range(b)
  <1>1. \A i \in 1..Len(a) : (a \o b)[i] = a[i]
    OBVIOUS
  <1>2. \A i \in 1..Len(b) : Len(a) + i \in 1..Len(a \o b) /\ (a \o b)[Len(a) + i] = b[i]
    OBVIOUS
  <1>3. \A i \in 1..Len(a \o b) : i \in 1..Len(a) \/ (i - Len(a) \in 1..Len(b) /\ (a \o b)[i] = b[i - Len(a)])
    OBVIOUS
  <1>4. /\ DOMAIN a = 1..Len(a) /\ DOMAIN b = 1..Len(b) /\ DOMAIN (a \o b) = 1..Len(a \o b)
        /\ 1..Len(a) \subseteq 1..Len(a \o b)
    OBVIOUS
  <1>5. \A x : x \in Range(a \o b) => x \in Range(a) \/ x \in Range(b)
    BY <1>1, <1>3, <1>4 DEF Range
  <1>6. \A x : x \in Range(a) => x \in Range(a \o b)
    BY <1>1, <1>4 DEF Range
  <1>7. \A x : x \in Range(b) => x \in Range(a \o b)
    BY <1>2, <1>4 DEF Range
  <1> QED
    BY <1>5, <1>6, <1>7

\* A CQE the loop has not handled is a well-typed entry of the ring.
LEMMA UnseenType ==
    ASSUME TypeOK
    PROVE  \A i \in Unseen : cq[i].slot \in Slot /\ cq[i].kind \in Kind
  <1>1. \A i \in Unseen : cq[i] \in Cqe
    BY DEF Unseen, TypeOK
  <1> QED
    BY <1>1 DEF Cqe

\* Handling one CQE: its operation leaves the outstanding ones, the pushed ones
\* join them.
LEMMA PushOutstanding ==
    ASSUME TypeOK, NoDuplicateOperation, NEW s, NEW r, Completed(s, r),
           NEW ops \in Seq(Sqe), Consume(ops)
    PROVE  /\ HeadOp \in CqOps /\ HeadOp.slot = s /\ HeadOp \in Sqe
           /\ r \in Fd => r \in NewFds
           /\ CqOps' = CqOps \ {HeadOp}
           /\ Range(sq') = Range(sq) \cup Range(ops)
           /\ Outstanding' = (Outstanding \ {HeadOp}) \cup Range(ops)
  <1>1. head + 1 \in Unseen /\ Unseen' = Unseen \ {head + 1} /\ cq' = cq
    BY DEF Completed, Consume, Unseen, TypeOK
  <1>2. \A i \in Unseen : cq[i].slot \in Slot /\ cq[i].kind \in Kind
    BY UnseenType
  <1>3. HeadOp \in CqOps /\ HeadOp.slot = s /\ HeadOp \in Sqe
    BY <1>1, <1>2 DEF HeadOp, CqOps, Completed, Op, Sqe
  <1>4. r \in Fd => r \in NewFds
    BY <1>1 DEF NewFds, Completed
  <1>5. CqOps' = CqOps \ {HeadOp}
    <2>1. CqOps' = {Op(cq[i].slot, cq[i].kind) : i \in Unseen \ {head + 1}}
      BY <1>1 DEF CqOps
    <2>2. \A i \in Unseen \ {head + 1} : Op(cq[i].slot, cq[i].kind) # HeadOp
      BY <1>1 DEF NoDuplicateOperation, HeadOp, Op
    <2> QED
      BY <2>1, <2>2 DEF CqOps, HeadOp
  <1>6. Range(sq') = Range(sq) \cup Range(ops)
    BY RangeConcat DEF Consume, TypeOK
  <1>7. HeadOp \notin Range(sq) /\ HeadOp \notin inflight
    BY <1>3 DEF NoDuplicateOperation
  <1> QED
    BY <1>3, <1>4, <1>5, <1>6, <1>7 DEF Outstanding, Consume

\* It reports a descriptor at most once.
LEMMA PushNewFds ==
    ASSUME TypeOK, NoDuplicateOperation, AcceptControl, NEW s, NEW r, Completed(s, r),
           NEW ops, Consume(ops)
    PROVE  /\ NewFds' = NewFds \ {r}
           /\ \A i \in Unseen' : i \in Unseen /\ cq'[i] = cq[i]
           /\ r \in Fd => HeadOp = Op(ListenFd, "accept") /\ NewFds' = {}
  <1>1. head + 1 \in Unseen /\ Unseen' = Unseen \ {head + 1} /\ cq' = cq
    BY DEF Completed, Consume, Unseen, TypeOK
  <1>2. \A i \in Unseen : cq[i].slot \in Slot /\ cq[i].kind \in Kind
    BY UnseenType
  <1>3. \A i \in Unseen : cq[i].res \in Fd => cq[i].kind = "accept" /\ cq[i].slot = ListenFd
    <2> SUFFICES ASSUME NEW i \in Unseen, cq[i].res \in Fd
                 PROVE  cq[i].kind = "accept" /\ cq[i].slot = ListenFd
      OBVIOUS
    <2>1. Op(cq[i].slot, cq[i].kind) \in Outstanding
      BY DEF Outstanding, CqOps
    <2> QED
      BY <2>1 DEF AcceptControl, Op
  <1>4. \A i, j \in Unseen : cq[i].res \in Fd /\ cq[j].res \in Fd => i = j
    BY <1>3 DEF NoDuplicateOperation
  <1>5. cq[head + 1].res = r
    BY DEF Completed
  <1>6. NewFds' = {cq[i].res : i \in Unseen \ {head + 1}} \cap Fd
    BY <1>1 DEF NewFds
  <1>7. NewFds' = NewFds \ {r}
    BY <1>1, <1>4, <1>5, <1>6 DEF NewFds
  <1>8. r \in Fd => HeadOp = Op(ListenFd, "accept") /\ NewFds' = {}
    BY <1>1, <1>3, <1>4, <1>5, <1>6 DEF HeadOp
  <1> QED
    BY <1>1, <1>7, <1>8

\* Nothing is pushed twice as long as the pushed operations are fresh.
LEMMA PushNoDuplicate ==
    ASSUME TypeOK, NoDuplicateOperation, NEW s, NEW r, Completed(s, r),
           NEW ops \in Seq(Sqe), Consume(ops),
           \A i, j \in 1..Len(ops) : ops[i] = ops[j] => i = j,
           Range(ops) \cap (Outstanding \ {HeadOp}) = {}
    PROVE  NoDuplicateOperation'
  <1>1. /\ HeadOp \in CqOps
        /\ CqOps' = CqOps \ {HeadOp}
        /\ Range(sq') = Range(sq) \cup Range(ops)
    BY PushOutstanding
  <1>2. Unseen' \subseteq Unseen /\ cq' = cq /\ inflight' = inflight /\ sq' = sq \o ops
    BY DEF Completed, Consume, Unseen, TypeOK
  <1>3. HeadOp \notin Range(sq) /\ HeadOp \notin inflight
    BY <1>1 DEF NoDuplicateOperation
  <1>4. /\ Range(ops) \cap Range(sq) = {}
        /\ Range(ops) \cap inflight = {}
        /\ Range(ops) \cap CqOps' = {}
    BY <1>1, <1>3 DEF Outstanding
  <1>5. \A i, j \in 1..Len(sq') : sq'[i] = sq'[j] => i = j
    <2>1. /\ Len(sq') = Len(sq) + Len(ops) /\ Len(sq) \in Nat /\ Len(ops) \in Nat
          /\ \A i \in 1..Len(sq) : sq'[i] = sq[i] /\ sq[i] \in Range(sq)
          /\ \A i \in 1..Len(ops) : ops[i] \in Range(ops)
          /\ \A i \in Len(sq) + 1 .. Len(sq) + Len(ops) :
                i - Len(sq) \in 1..Len(ops) /\ sq'[i] = ops[i - Len(sq)]
      BY <1>2 DEF TypeOK, Range
    <2>2. \A i, j \in 1..Len(sq) : sq[i] = sq[j] => i = j
      BY DEF NoDuplicateOperation
    <2> SUFFICES ASSUME NEW i \in 1..Len(sq'), NEW j \in 1..Len(sq'), sq'[i] = sq'[j]
                 PROVE  i = j
      OBVIOUS
    <2>3. CASE i \in 1..Len(sq) /\ j \in 1..Len(sq)
      BY <2>1, <2>2, <2>3
    <2>4. CASE i \in 1..Len(sq) /\ j \notin 1..Len(sq)
      BY <2>1, <2>4, <1>4
    <2>5. CASE i \notin 1..Len(sq) /\ j \in 1..Len(sq)
      BY <2>1, <2>5, <1>4
    <2>6. CASE i \notin 1..Len(sq) /\ j \notin 1..Len(sq)
      <3>1. ops[i - Len(sq)] = ops[j - Len(sq)] /\ i - Len(sq) \in 1..Len(ops) /\ j - Len(sq) \in 1..Len(ops)
        BY <2>1, <2>6
      <3>2. i - Len(sq) = j - Len(sq)
        BY <3>1
      <3> QED
        BY <3>2, <2>1
    <2> QED
      BY <2>3, <2>4, <2>5, <2>6
  <1>6. \A i, j \in Unseen' :
           cq'[i].slot = cq'[j].slot /\ cq'[i].kind = cq'[j].kind => i = j
    BY <1>2 DEF NoDuplicateOperation
  <1> QED
    BY <1>1, <1>2, <1>4, <1>5, <1>6 DEF NoDuplicateOperation

\* The kernel moves an operation from its own hands to the completion ring.
LEMMA PostRings ==
    ASSUME TypeOK, NoDuplicateOperation, NEW f, NEW k, NEW r, Post(f, k, r)
    PROVE  /\ NoDuplicateOperation'
           /\ Outstanding' = Outstanding
           /\ CqOps' = CqOps \cup {Op(f, k)}
           /\ NewFds' = NewFds \cup ({r} \cap Fd)
           /\ Unseen' = Unseen \cup {Len(cq) + 1}
           /\ \A i \in Unseen : cq'[i] = cq[i]
           /\ cq'[Len(cq) + 1] = [slot |-> f, kind |-> k, res |-> r]
  <1>1. /\ Unseen' = Unseen \cup {Len(cq) + 1} /\ Len(cq) + 1 \notin Unseen
        /\ \A i \in Unseen : cq'[i] = cq[i]
        /\ cq'[Len(cq) + 1] = [slot |-> f, kind |-> k, res |-> r]
    BY DEF Post, Unseen, TypeOK
  <1>2. CqOps' = CqOps \cup {Op(f, k)}
    <2>1. CqOps' = {Op(cq'[i].slot, cq'[i].kind) : i \in Unseen'}
      BY DEF CqOps
    <2>2. Op(cq'[Len(cq) + 1].slot, cq'[Len(cq) + 1].kind) = Op(f, k)
      BY <1>1
    <2> QED
      BY <1>1, <2>1, <2>2 DEF CqOps
  <1>3. NewFds' = NewFds \cup ({r} \cap Fd)
    <2>1. cq'[Len(cq) + 1].res = r
      BY <1>1
    <2> QED
      BY <1>1, <2>1 DEF NewFds
  <1>4. Op(f, k) \in inflight /\ inflight' = inflight \ {Op(f, k)} /\ sq' = sq
    BY DEF Post
  <1>5. Outstanding' = Outstanding
    BY <1>2, <1>4 DEF Outstanding
  <1>6. Op(f, k) \notin CqOps /\ Op(f, k) \notin Range(sq)
    BY <1>4 DEF NoDuplicateOperation
  <1>7. \A i \in Unseen : ~(cq[i].slot = f /\ cq[i].kind = k)
    BY <1>6 DEF CqOps, Op
  <1>8. \A i, j \in Unseen' :
           cq'[i].slot = cq'[j].slot /\ cq'[i].kind = cq'[j].kind => i = j
    BY <1>1, <1>7 DEF NoDuplicateOperation
  <1> QED
    BY <1>1, <1>2, <1>3, <1>4, <1>5, <1>6, <1>8 DEF NoDuplicateOperation

\* Submitting and ending a batch lose and repeat nothing.
LEMMA LoopRings ==
    ASSUME TypeOK, NoDuplicateOperation, BatchControl, Submit \/ WaitReturns \/ BatchEnds \/ Advance
    PROVE  /\ NoDuplicateOperation' /\ BatchControl'
           /\ Outstanding' = Outstanding
           /\ CqOps' = CqOps
           /\ NewFds' = NewFds
           /\ \A i \in Unseen' : \E j \in Unseen : cq'[i] = cq[j]
  <1>1. CASE Submit
    <2>1. Unseen' = Unseen /\ cq' = cq /\ sq' = <<>> /\ inflight' = inflight \cup Range(sq)
      BY <1>1 DEF Submit, Unseen
    <2>2. Range(sq') = {}
      BY <2>1 DEF Range
    <2> QED
      BY <1>1, <2>1, <2>2 DEF Submit, NoDuplicateOperation, BatchControl, Outstanding, CqOps, NewFds
  <1>2. CASE WaitReturns
    <2>1. Unseen' = Unseen /\ cq' = cq /\ sq' = sq /\ inflight' = inflight /\ pc' = "batch"
      BY <1>2 DEF WaitReturns, Unseen, BatchControl
    <2> QED
      BY <1>2, <2>1 DEF WaitReturns, NoDuplicateOperation, BatchControl, Outstanding, CqOps, NewFds
  <1>3. CASE BatchEnds
    <2>1. Unseen' = Unseen /\ cq' = cq /\ sq' = sq /\ inflight' = inflight
      BY <1>3 DEF BatchEnds, rings, Unseen
    <2> QED
      BY <1>3, <2>1 DEF BatchEnds, rings, NoDuplicateOperation, BatchControl, Outstanding, CqOps, NewFds
  <1>4. CASE Advance
    <2>1. /\ head' = 0 /\ sq' = sq /\ inflight' = inflight /\ pc' = "submit"
          /\ cq' = SubSeq(cq, head + 1, Len(cq)) /\ head \in 0..Len(cq) /\ cq \in Seq(Cqe)
      BY <1>4 DEF Advance, Advanced, BatchControl, TypeOK
    <2>2. Len(cq') = Len(cq) - head /\ \A i \in 1..Len(cq) - head : cq'[i] = cq[i + head]
      BY <2>1
    <2>3. /\ Unseen' = 1..Len(cq) - head
          /\ \A i \in Unseen' : i + head \in Unseen /\ cq'[i] = cq[i + head]
          /\ \A j \in Unseen : j - head \in Unseen' /\ cq[j] = cq'[j - head]
      BY <2>1, <2>2 DEF Unseen
    <2>4. CqOps' = CqOps /\ NewFds' = NewFds
      BY <2>3 DEF CqOps, NewFds
    <2>5. \A i, j \in Unseen' :
             cq'[i].slot = cq'[j].slot /\ cq'[i].kind = cq'[j].kind => i = j
      <3> SUFFICES ASSUME NEW i \in Unseen', NEW j \in Unseen',
                          cq'[i].slot = cq'[j].slot, cq'[i].kind = cq'[j].kind
                   PROVE  i = j
        OBVIOUS
      <3>1. i + head = j + head
        BY <2>3 DEF NoDuplicateOperation
      <3> QED
        BY <2>1, <2>3, <3>1
    <2>6. NoDuplicateOperation' /\ Outstanding' = Outstanding
      BY <2>1, <2>4, <2>5 DEF NoDuplicateOperation, Outstanding
    <2>7. BatchControl'
      BY <2>1 DEF BatchControl
    <2>8. \A i \in Unseen' : \E j \in Unseen : cq'[i] = cq[j]
      BY <2>3
    <2> QED
      BY <2>4, <2>6, <2>7, <2>8
  <1> QED
    BY <1>1, <1>2, <1>3, <1>4

-----------------------------------------------------------------------------
(* The inductive invariant.                                                *)

\* A step that concerns slot f neither in the rings nor in the slot's fields.
SameConnection(f) ==
    /\ fdt'[f] = fdt[f] /\ action'[f] = action[f] /\ coro'[f] = coro[f]
    /\ cur_steps'[f] = cur_steps[f] /\ total_steps'[f] = total_steps[f]
    /\ dirty'[f] = dirty[f]
    /\ \A k \in Kind : Op(f, k) \in Outstanding' <=> Op(f, k) \in Outstanding
    /\ Op(f, "recv") \in CqOps' <=> Op(f, "recv") \in CqOps
    /\ f \in NewFds' <=> f \in NewFds

\* A slot nothing has changed for keeps its part of the invariant.
LEMMA Frame ==
    ASSUME NEW f \in Fd, ConnectionState(f), SameConnection(f)
    PROVE  ConnectionState(f)'
  <1>1. \A k \in ResponseKind \cup {"recv"} : k \in Kind
    BY DEF Kind
  <1>2. Owed(f)' = Owed(f)
    BY <1>1 DEF SameConnection, Owed, One, ResponseKind
  <1>3. Idle(f) => Idle(f)'
    BY DEF SameConnection, Idle
  <1> QED
    BY <1>1, <1>2, <1>3 DEF SameConnection, ConnectionState

\* The CQE the loop looks at is still outstanding.
LEMMA HeadFacts ==
    ASSUME TypeOK, NEW s, NEW r, Completed(s, r)
    PROVE  /\ HeadOp \in CqOps /\ HeadOp \in Outstanding
           /\ HeadOp.slot = s /\ HeadOp.kind \in Kind
           /\ HeadOp = Op(s, HeadOp.kind)
  <1>1. head + 1 \in Unseen
    BY DEF Completed, Unseen, TypeOK
  <1> QED
    BY <1>1, UnseenType DEF HeadOp, CqOps, Outstanding, Completed, Op

\* The loop concludes "accept" from conn->action only for an accept.
LEMMA HeadIsAccept ==
    ASSUME IInv, NEW s \in Slot, NEW r, Completed(s, r), action[s] = "ACCEPT"
    PROVE  s = ListenFd /\ HeadOp = Op(ListenFd, "accept")
  <1>1. s = ListenFd
    BY DEF IInv, RingInv, AcceptControl, Slot
  <1>2. HeadOp \in Outstanding /\ HeadOp.slot = s /\ HeadOp = Op(s, HeadOp.kind)
    BY HeadFacts DEF IInv
  <1> QED
    BY <1>1, <1>2 DEF IInv, RingInv, AcceptControl

\* What the handler concludes from conn->action is what was reported.
LEMMA HeadIsOfConnection ==
    ASSUME IInv, NEW f \in Fd, NEW r, Resumed(f, r)
    PROVE  /\ HeadOp = Op(f, HeadOp.kind) /\ HeadOp \in Outstanding
           /\ HeadOp.kind \in ResponseKind \cup {"recv"}
           /\ action[f] = "RECV" => HeadOp = Op(f, "recv")
           /\ action[f] \in {"SEND", "SPLICE"} => HeadOp.kind \in ResponseKind
           /\ coro[f] = "CREATED" => HeadOp = Op(f, "recv")
           /\ r \notin Fd
  <1>1. Completed(f, r) /\ TypeOK
    BY DEF Resumed, IInv
  <1>2. /\ HeadOp \in Outstanding /\ HeadOp.slot = f /\ HeadOp.kind \in Kind
        /\ HeadOp = Op(f, HeadOp.kind)
    BY <1>1, HeadFacts
  <1>3. HeadOp.kind # "accept"
    BY <1>2, FdAssumption DEF IInv, RingInv, AcceptControl
  <1>4. HeadOp.kind \in ResponseKind \cup {"recv"}
    BY <1>2, <1>3 DEF Kind
  <1>5. /\ HeadOp.kind = "recv" => action[f] = "RECV"
        /\ HeadOp.kind \in ResponseKind => action[f] \in {"SEND", "SPLICE"} /\ coro[f] = "STARTED"
    <2>1. ConnectionState(f)
      BY DEF IInv
    <2> QED
      BY <1>2, <2>1 DEF ConnectionState
  <1>6. r \notin Fd
    <2>1. head + 1 \in Unseen /\ cq[head + 1].res = r
      BY <1>1 DEF Completed, Unseen, TypeOK
    <2>2. cq[head + 1].kind = HeadOp.kind
      BY DEF HeadOp, Op
    <2> QED
      BY <1>3, <2>1, <2>2 DEF IInv, RingInv, AcceptControl
  <1> QED
    BY <1>2, <1>4, <1>5, <1>6

\* A resumption of f's coroutine touches no other slot, and keeps the rings in
\* order if what it pushes are fresh operations of f's response.
LEMMA ResumedRings ==
    ASSUME IInv, NEW f \in Fd, NEW r, Resumed(f, r), NEW ops \in Seq(Sqe), Push(ops),
           \A i, j \in 1..Len(ops) : ops[i] = ops[j] => i = j,
           \A op \in Range(ops) : op.slot = f /\ op.kind \in ResponseKind,
           Range(ops) \cap Outstanding = {},
           \A s \in Slot \ {f} : action'[s] = action[s],
           action'[f] # "ACCEPT"
    PROVE  /\ RingInv'
           /\ Outstanding' = (Outstanding \ {HeadOp}) \cup Range(ops)
           /\ NewFds' = NewFds
           /\ CqOps' = CqOps \ {HeadOp}
           /\ \A g \in Fd \ {f}, k \in Kind : Op(g, k) \in Outstanding' <=> Op(g, k) \in Outstanding
           /\ \A g \in Fd \ {f} : Op(g, "recv") \in CqOps' <=> Op(g, "recv") \in CqOps
  <1>1. TypeOK /\ NoDuplicateOperation /\ AcceptControl /\ OneAccept /\ Completed(f, r)
    BY DEF IInv, RingInv, Resumed
  <1>2. HeadOp = Op(f, HeadOp.kind) /\ r \notin Fd
    BY HeadIsOfConnection
  <1>3. /\ Outstanding' = (Outstanding \ {HeadOp}) \cup Range(ops)
        /\ CqOps' = CqOps \ {HeadOp}
    BY <1>1, PushOutstanding DEF Push
  <1>4. /\ NewFds' = NewFds
        /\ \A i \in Unseen' : i \in Unseen /\ cq'[i] = cq[i]
    BY <1>1, <1>2, PushNewFds DEF NewFds, Push
  <1>5. NoDuplicateOperation'
    BY <1>1, PushNoDuplicate DEF Push
  <1>6. BatchControl'
    BY <1>1 DEF IInv, RingInv, Completed, Push, Consume, BatchControl
  <1>7. Op(ListenFd, "accept") # HeadOp
    BY <1>2, FdAssumption DEF Op
  <1>8. AcceptControl'
    <2>1. \A op \in Outstanding' : op.slot = ListenFd <=> op.kind = "accept"
      BY <1>1, <1>3, FdAssumption DEF AcceptControl, ResponseKind
    <2>2. \A i \in Unseen' : cq'[i].res \in Fd => cq'[i].kind = "accept"
      BY <1>1, <1>4 DEF AcceptControl
    <2>3. \A g \in Fd : action'[g] # "ACCEPT"
      BY <1>1 DEF AcceptControl, Slot
    <2>4. action'[ListenFd] = action[ListenFd]
      BY FdAssumption DEF Slot
    <2>5. Op(ListenFd, "accept") \in Outstanding' => action'[ListenFd] = "ACCEPT"
      <3>1. Op(ListenFd, "accept") \notin Range(ops)
        BY FdAssumption DEF Op
      <3> QED
        BY <3>1, <1>1, <1>3, <2>4 DEF AcceptControl
    <2> QED
      BY <2>1, <2>2, <2>3, <2>5 DEF AcceptControl
  <1>9. OneAccept'
    BY <1>1, <1>3, <1>7 DEF OneAccept, Completed, Push
  <1>10. \A g \in Fd \ {f}, k \in Kind : Op(g, k) # HeadOp /\ Op(g, k) \notin Range(ops)
    BY <1>2 DEF Op
  <1>11. "recv" \in Kind
    BY DEF Kind
  <1> QED
    BY <1>3, <1>4, <1>5, <1>6, <1>8, <1>9, <1>10, <1>11 DEF RingInv

\* The other slots after a resumption of f's coroutine that leaves their
\* fields alone.
LEMMA ResumedOthers ==
    ASSUME IInv, NEW f \in Fd, NEW g \in Fd \ {f},
           \A k \in Kind : Op(g, k) \in Outstanding' <=> Op(g, k) \in Outstanding,
           Op(g, "recv") \in CqOps' <=> Op(g, "recv") \in CqOps,
           NewFds' = NewFds,
           fdt'[g] = fdt[g], action'[g] = action[g], coro'[g] = coro[g],
           cur_steps'[g] = cur_steps[g], total_steps'[g] = total_steps[g],
           dirty'[g] = dirty[g]
    PROVE  ConnectionState(g)'
  <1>1. SameConnection(g)
    BY DEF SameConnection
  <1> QED
    BY <1>1, Frame DEF IInv

\* Nothing pushed: the operation just reported was the only change.
LEMMA ResumedQuietly ==
    ASSUME IInv, NEW f \in Fd, NEW r, Resumed(f, r), Push(<<>>), action' = action
    PROVE  /\ RingInv'
           /\ Outstanding' = Outstanding \ {HeadOp}
           /\ NewFds' = NewFds
           /\ CqOps' = CqOps \ {HeadOp}
           /\ \A g \in Fd \ {f}, k \in Kind : Op(g, k) \in Outstanding' <=> Op(g, k) \in Outstanding
           /\ \A g \in Fd \ {f} : Op(g, "recv") \in CqOps' <=> Op(g, "recv") \in CqOps
  <1>1. /\ <<>> \in Seq(Sqe) /\ Range(<<>>) = {}
        /\ \A i, j \in 1..Len(<<>>) : <<>>[i] = <<>>[j] => i = j
    BY DEF Range
  <1>2. action'[f] # "ACCEPT" /\ \A s \in Slot \ {f} : action'[s] = action[s]
    BY DEF Resumed
  <1> HIDE DEF IInv
  <1>3. /\ RingInv'
        /\ Outstanding' = (Outstanding \ {HeadOp}) \cup Range(<<>>)
        /\ NewFds' = NewFds
        /\ CqOps' = CqOps \ {HeadOp}
        /\ \A g \in Fd \ {f}, k \in Kind : Op(g, k) \in Outstanding' <=> Op(g, k) \in Outstanding
        /\ \A g \in Fd \ {f} : Op(g, "recv") \in CqOps' <=> Op(g, "recv") \in CqOps
    BY <1>1, <1>2, ResumedRings
  <1> QED
    BY <1>1, <1>3

\* A slot whose recv was reported and that pushed nothing: the descriptor is
\* open or was closed and cleared, and nothing will be reported to it.
LEMMA RecvReported ==
    ASSUME IInv, NEW f \in Fd, NEW r, Resumed(f, r), HeadOp = Op(f, "recv"),
           Outstanding' = Outstanding \ {HeadOp}
    PROVE  /\ \A k \in Kind : Op(f, k) \notin Outstanding'
           /\ f \notin NewFds /\ fdt[f] = "sock"
           /\ total_steps[f] = 0 /\ cur_steps[f] = 0
           /\ Owed(f) = 0 /\ Owed(f)' = 0
  <1>1. ConnectionState(f) /\ TypeOK /\ HeadOp \in Outstanding
    BY HeadIsOfConnection DEF IInv
  <1>2. /\ f \notin NewFds /\ fdt[f] = "sock" /\ action[f] = "RECV" /\ total_steps[f] = 0
    BY <1>1 DEF ConnectionState
  <1>3. \A k \in ResponseKind : Op(f, k) \notin Outstanding
    BY <1>1, <1>2 DEF ConnectionState
  <1>4. Op(f, "accept") \notin Outstanding
    BY FdAssumption DEF IInv, RingInv, AcceptControl, Op
  <1>5. \A k \in Kind : Op(f, k) \notin Outstanding'
    BY <1>3, <1>4 DEF Kind
  <1>6. Owed(f) = 0 /\ Owed(f)' = 0
    BY <1>3, <1>5 DEF Owed, One, ResponseKind, Kind
  <1>7. cur_steps[f] = 0
    BY <1>1, <1>2, <1>6 DEF ConnectionState, TypeOK
  <1> QED
    BY <1>2, <1>5, <1>6, <1>7

\* A read error that is only logged keeps the invariant: the slot stalls.
LEMMA RecvErrorStep ==
    ASSUME IInv, NEW f \in Fd, RecvError(f) PROVE RingInv' /\ \A g \in Fd : ConnectionState(g)'
  <1>1. Resumed(f, "neg") /\ action[f] = "RECV" /\ Push(<<>>) /\ action' = action
    BY DEF RecvError
  <1>2. HeadOp = Op(f, "recv")
    BY <1>1, HeadIsOfConnection
  <1>3. /\ RingInv' /\ Outstanding' = Outstanding \ {HeadOp} /\ NewFds' = NewFds
        /\ \A g \in Fd \ {f}, k \in Kind : Op(g, k) \in Outstanding' <=> Op(g, k) \in Outstanding
        /\ \A g \in Fd \ {f} : Op(g, "recv") \in CqOps' <=> Op(g, "recv") \in CqOps
    BY <1>1, ResumedQuietly
  <1>4. /\ \A k \in Kind : Op(f, k) \notin Outstanding'
        /\ f \notin NewFds /\ fdt[f] = "sock" /\ total_steps[f] = 0 /\ cur_steps[f] = 0
        /\ Owed(f) = 0 /\ Owed(f)' = 0
    BY <1>1, <1>2, <1>3, RecvReported
  <1>5. ASSUME NEW g \in Fd \ {f} PROVE ConnectionState(g)'
    <2>1. /\ fdt'[g] = fdt[g] /\ action'[g] = action[g] /\ coro'[g] = coro[g]
          /\ cur_steps'[g] = cur_steps[g] /\ total_steps'[g] = total_steps[g] /\ dirty'[g] = dirty[g]
      BY DEF RecvError, Runs, IInv, TypeOK
    <2> QED
      BY <1>3, <2>1, ResumedOthers
  <1>6. ConnectionState(f)'
    <2>1. fdt' = fdt /\ total_steps' = total_steps /\ cur_steps' = cur_steps
      BY DEF RecvError
    <2> QED
      BY <1>3, <1>4, <2>1 DEF ConnectionState, Kind
  <1> QED
    BY <1>3, <1>5, <1>6

\* A handler that gives up at its first resumption keeps the invariant.
LEMMA HandlerInitFailsStep ==
    ASSUME IInv, NEW f \in Fd, NEW r, HandlerInitFails(f, r)
    PROVE  RingInv' /\ \A g \in Fd : ConnectionState(g)'
  <1>1. Resumed(f, r) /\ coro[f] = "CREATED" /\ Push(<<>>) /\ action' = action
    BY DEF HandlerInitFails, FdtAtExit
  <1>2. HeadOp = Op(f, "recv")
    BY <1>1, HeadIsOfConnection
  <1>3. /\ RingInv' /\ Outstanding' = Outstanding \ {HeadOp} /\ NewFds' = NewFds
        /\ \A g \in Fd \ {f}, k \in Kind : Op(g, k) \in Outstanding' <=> Op(g, k) \in Outstanding
        /\ \A g \in Fd \ {f} : Op(g, "recv") \in CqOps' <=> Op(g, "recv") \in CqOps
    BY <1>1, ResumedQuietly
  <1>4. /\ \A k \in Kind : Op(f, k) \notin Outstanding'
        /\ f \notin NewFds /\ fdt[f] = "sock" /\ total_steps[f] = 0 /\ cur_steps[f] = 0
        /\ Owed(f) = 0 /\ Owed(f)' = 0
    BY <1>1, <1>2, <1>3, RecvReported
  <1>5. ASSUME NEW g \in Fd \ {f} PROVE ConnectionState(g)'
    <2>1. /\ fdt'[g] = fdt[g] /\ action'[g] = action[g] /\ coro'[g] = coro[g]
          /\ cur_steps'[g] = cur_steps[g] /\ total_steps'[g] = total_steps[g] /\ dirty'[g] = dirty[g]
      BY DEF HandlerInitFails, FdtAtExit, IInv, TypeOK
    <2> QED
      BY <1>3, <2>1, ResumedOthers
  <1>6. ConnectionState(f)'
    <2>1. fdt' = fdt /\ total_steps' = total_steps /\ cur_steps' = cur_steps
      BY DEF HandlerInitFails, FdtAtExit
    <2> QED
      BY <1>3, <1>4, <2>1 DEF ConnectionState, Kind
  <1> QED
    BY <1>3, <1>5, <1>6

\* RESET after the peer has closed keeps the invariant: the slot is idle.
LEMMA RecvPeerClosedStep ==
    ASSUME IInv, NEW f \in Fd, RecvPeerClosed(f)
    PROVE  RingInv' /\ \A g \in Fd : ConnectionState(g)'
  <1>1. Resumed(f, "zero") /\ action[f] = "RECV" /\ Push(<<>>) /\ action' = action /\ Reset(f)
    BY DEF RecvPeerClosed, Reset, ResetParts, ResetTotal
  <1>2. HeadOp = Op(f, "recv")
    BY <1>1, HeadIsOfConnection
  <1>3. /\ RingInv' /\ Outstanding' = Outstanding \ {HeadOp} /\ NewFds' = NewFds
        /\ \A g \in Fd \ {f}, k \in Kind : Op(g, k) \in Outstanding' <=> Op(g, k) \in Outstanding
        /\ \A g \in Fd \ {f} : Op(g, "recv") \in CqOps' <=> Op(g, "recv") \in CqOps
    BY <1>1, ResumedQuietly
  <1>4. /\ \A k \in Kind : Op(f, k) \notin Outstanding'
        /\ f \notin NewFds /\ Owed(f)' = 0
    BY <1>1, <1>2, <1>3, RecvReported
  <1>5. ASSUME NEW g \in Fd \ {f} PROVE ConnectionState(g)'
    <2>1. /\ fdt'[g] = fdt[g] /\ action'[g] = action[g] /\ coro'[g] = coro[g]
          /\ cur_steps'[g] = cur_steps[g] /\ total_steps'[g] = total_steps[g] /\ dirty'[g] = dirty[g]
      BY DEF RecvPeerClosed, Reset, ResetParts, ResetTotal, Runs, IInv, TypeOK
    <2> QED
      BY <1>3, <2>1, ResumedOthers
  <1>6. ConnectionState(f)'
    <2>1. /\ fdt'[f] = "free" /\ total_steps'[f] = 0 /\ cur_steps'[f] = 0 /\ dirty'[f] = {}
          /\ coro'[f] = "STARTED"
      BY DEF RecvPeerClosed, Reset, ResetParts, ResetTotal, Runs, IInv, TypeOK
    <2>2. /\ f \notin NewFds' /\ Owed(f)' = 0 /\ Op(f, "recv") \notin Outstanding'
          /\ \A k \in ResponseKind : Op(f, k) \notin Outstanding'
      BY <1>3, <1>4 DEF Kind
    <2>3. Idle(f)'
      BY <1>4, <2>1 DEF Idle
    <2> QED
      BY <2>1, <2>2, <2>3 DEF ConnectionState
  <1> QED
    BY <1>3, <1>5, <1>6

\* A step of a response: one operation fewer is owed, and the slot is reset
\* exactly when it was the last.
LEMMA StepDoneStep ==
    ASSUME IInv, NEW f \in Fd, NEW r, StepDone(f, r)
    PROVE  RingInv' /\ \A g \in Fd : ConnectionState(g)'
  <1>1. /\ Resumed(f, r) /\ action[f] \in {"SEND", "SPLICE"} /\ Push(<<>>) /\ action' = action
        /\ TypeOK /\ ConnectionState(f)
    BY DEF StepDone, LastStep, Reset, ResetParts, ResetTotal, IInv
  <1>2. HeadOp.kind \in ResponseKind /\ HeadOp = Op(f, HeadOp.kind) /\ HeadOp \in Outstanding
    BY <1>1, HeadIsOfConnection
  <1>3. /\ RingInv' /\ Outstanding' = Outstanding \ {HeadOp} /\ NewFds' = NewFds
        /\ \A g \in Fd \ {f}, k \in Kind : Op(g, k) \in Outstanding' <=> Op(g, k) \in Outstanding
        /\ \A g \in Fd \ {f} : Op(g, "recv") \in CqOps' <=> Op(g, "recv") \in CqOps
    BY <1>1, ResumedQuietly
  <1>4. \A k \in Kind : Op(f, k) \in Outstanding' <=> Op(f, k) \in Outstanding /\ k # HeadOp.kind
    BY <1>2, <1>3 DEF Op
  <1>5. Owed(f)' = Owed(f) - 1
    <2>1. HeadOp.kind \in {"send", "splice_in", "splice_out"}
      BY <1>2 DEF ResponseKind
    <2>2. Op(f, HeadOp.kind) \in Outstanding
      BY <1>2
    <2> QED
      BY <1>4, <2>1, <2>2 DEF Owed, One, Kind, ResponseKind
  <1>6. /\ fdt[f] = "sock" /\ f \notin NewFds /\ coro[f] = "STARTED"
        /\ Op(f, "recv") \notin Outstanding
    BY <1>1, <1>2 DEF ConnectionState
  <1>7. Op(f, "accept") \notin Outstanding
    BY FdAssumption DEF IInv, RingInv, AcceptControl, Op
  <1>8. coro' = coro
    BY <1>6 DEF StepDone, LastStep, Runs, IInv, TypeOK
  <1>9. CASE cur_steps[f] + 1 = total_steps[f]
    <2>1. Reset(f)
      BY <1>9 DEF StepDone, LastStep
    <2>2. Owed(f)' = 0
      <3>1. Owed(f) = 1
        BY <1>1, <1>9 DEF ConnectionState, TypeOK
      <3> QED
        BY <1>5, <3>1
    <2>3. \A k \in Kind : Op(f, k) \notin Outstanding'
      BY <1>4, <1>6, <1>7, <2>2 DEF Owed, One, Kind, ResponseKind
    <2>4. /\ fdt'[f] = "free" /\ total_steps'[f] = 0 /\ cur_steps'[f] = 0 /\ dirty'[f] = {}
      BY <2>1, <1>1 DEF Reset, ResetParts, ResetTotal, TypeOK
    <2>5. ConnectionState(f)'
      BY <1>3, <1>6, <1>8, <2>2, <2>3, <2>4 DEF ConnectionState, Idle, Kind, ResponseKind
    <2>6. ASSUME NEW g \in Fd \ {f} PROVE ConnectionState(g)'
      <3>1. /\ fdt'[g] = fdt[g] /\ cur_steps'[g] = cur_steps[g]
            /\ total_steps'[g] = total_steps[g] /\ dirty'[g] = dirty[g]
        BY <2>1, <1>1 DEF Reset, ResetParts, ResetTotal, TypeOK
      <3> QED
        BY <1>1, <1>3, <1>8, <3>1, ResumedOthers
    <2> QED
      BY <1>3, <2>5, <2>6
  <1>10. CASE cur_steps[f] + 1 # total_steps[f]
    <2>1. cur_steps' = [cur_steps EXCEPT ![f] = @ + 1] /\ UNCHANGED <<fdt, total_steps, dirty>>
      BY <1>10 DEF StepDone, LastStep
    <2>2. cur_steps'[f] = cur_steps[f] + 1 /\ cur_steps[f] \in Nat /\ total_steps[f] \in Nat
      BY <2>1, <1>1 DEF TypeOK
    <2>3. total_steps'[f] - cur_steps'[f] = Owed(f)' /\ Owed(f)' # 0
      BY <1>1, <1>5, <1>10, <2>1, <2>2 DEF ConnectionState
    <2>4. ConnectionState(f)'
      BY <1>1, <1>3, <1>4, <1>6, <1>8, <2>1, <2>3 DEF ConnectionState, Kind, ResponseKind
    <2>5. ASSUME NEW g \in Fd \ {f} PROVE ConnectionState(g)'
      <3>1. cur_steps'[g] = cur_steps[g]
        BY <2>1, <1>1 DEF TypeOK
      <3> QED
        BY <1>1, <1>3, <1>8, <2>1, <3>1, ResumedOthers
    <2> QED
      BY <1>3, <2>4, <2>5
  <1> QED
    BY <1>9, <1>10

\* The two shapes of a response.
LEMMA ResponseOps ==
    ASSUME NEW f \in Fd, NEW ops,
           \/ ops = <<Op(f, "send")>>
           \/ ops = <<Op(f, "send"), Op(f, "splice_in"), Op(f, "splice_out")>>
    PROVE  /\ ops \in Seq(Sqe)
           /\ \A i, j \in 1..Len(ops) : ops[i] = ops[j] => i = j
           /\ \A op \in Range(ops) : op.slot = f /\ op.kind \in ResponseKind
           /\ \/ Len(ops) = 1 /\ Range(ops) = {Op(f, "send")}
              \/ Len(ops) = 3 /\ Range(ops) = {Op(f, "send"), Op(f, "splice_in"), Op(f, "splice_out")}
  <1>0. \A k \in ResponseKind : Op(f, k) \in Sqe
    BY OpType
  <1>1. CASE ops = <<Op(f, "send")>>
    <2>1. ops \in Seq(Sqe) /\ Len(ops) = 1 /\ DOMAIN ops = {1} /\ ops[1] = Op(f, "send")
      BY <1>0, <1>1 DEF ResponseKind
    <2>2. Range(ops) = {Op(f, "send")}
      BY <2>1 DEF Range
    <2> QED
      BY <2>1, <2>2 DEF Op, ResponseKind
  <1>2. CASE ops = <<Op(f, "send"), Op(f, "splice_in"), Op(f, "splice_out")>>
    <2>1. /\ ops \in Seq(Sqe) /\ Len(ops) = 3 /\ DOMAIN ops = {1, 2, 3}
          /\ ops[1] = Op(f, "send") /\ ops[2] = Op(f, "splice_in") /\ ops[3] = Op(f, "splice_out")
      BY <1>0, <1>2 DEF ResponseKind
    <2>2. Range(ops) = {Op(f, "send"), Op(f, "splice_in"), Op(f, "splice_out")}
      BY <2>1 DEF Range
    <2> QED
      BY <2>1, <2>2 DEF Op, ResponseKind
  <1> QED
    BY <1>1, <1>2

\* The answer to a request: exactly the pushed operations are owed.
LEMMA RespondStep ==
    ASSUME IInv, NEW f \in Fd, NEW r, Resumed(f, r), action[f] = "RECV", NEW ops,
           NEW parts \in SUBSET {"str", "req", "res", "fresstr"},
           \/ ops = <<Op(f, "send")>>
           \/ ops = <<Op(f, "send"), Op(f, "splice_in"), Op(f, "splice_out")>>,
           Respond(f, ops, parts),
           \A g \in Fd : fdt'[g] = fdt[g] \/ (fdt[g] = "free" /\ fdt'[g] = "file")
    PROVE  RingInv' /\ \A g \in Fd : ConnectionState(g)'
  <1>1. TypeOK /\ ConnectionState(f) /\ Push(ops)
    BY DEF Respond, PushedAction, PushedSteps, IInv
  <1>2. HeadOp = Op(f, "recv") /\ HeadOp \in Outstanding
    BY HeadIsOfConnection
  <1>3. /\ fdt[f] = "sock" /\ f \notin NewFds /\ total_steps[f] = 0
        /\ \A k \in ResponseKind : Op(f, k) \notin Outstanding
    BY <1>1, <1>2 DEF ConnectionState
  <1>4. Owed(f) = 0 /\ cur_steps[f] = 0
    <2>1. Owed(f) = 0
      BY <1>3 DEF Owed, One, ResponseKind
    <2> QED
      BY <2>1, <1>1, <1>3 DEF ConnectionState, TypeOK
  <1>5. /\ ops \in Seq(Sqe)
        /\ \A i, j \in 1..Len(ops) : ops[i] = ops[j] => i = j
        /\ \A op \in Range(ops) : op.slot = f /\ op.kind \in ResponseKind
        /\ \/ Len(ops) = 1 /\ Range(ops) = {Op(f, "send")}
           \/ Len(ops) = 3 /\ Range(ops) = {Op(f, "send"), Op(f, "splice_in"), Op(f, "splice_out")}
    BY ResponseOps
  <1>6. Range(ops) \cap Outstanding = {}
    BY <1>3, <1>5 DEF ResponseKind
  <1>7. f \in Slot /\ action'[f] \in {"SEND", "SPLICE"} /\ \A s \in Slot \ {f} : action'[s] = action[s]
    BY <1>1 DEF Respond, PushedAction, PushedSteps, TypeOK, Slot
  <1>8. /\ RingInv'
        /\ Outstanding' = (Outstanding \ {HeadOp}) \cup Range(ops)
        /\ NewFds' = NewFds
        /\ \A g \in Fd \ {f}, k \in Kind : Op(g, k) \in Outstanding' <=> Op(g, k) \in Outstanding
        /\ \A g \in Fd \ {f} : Op(g, "recv") \in CqOps' <=> Op(g, "recv") \in CqOps
    BY <1>1, <1>5, <1>6, <1>7, ResumedRings
  <1>9. /\ cur_steps' = cur_steps /\ total_steps'[f] = Len(ops) /\ coro'[f] = "STARTED"
        /\ \A g \in Fd \ {f} : /\ total_steps'[g] = total_steps[g] /\ coro'[g] = coro[g]
                               /\ dirty'[g] = dirty[g]
    BY <1>1, <1>3, <1>5 DEF Respond, PushedAction, PushedSteps, Runs, TypeOK
  <1>10. ASSUME NEW g \in Fd \ {f} PROVE ConnectionState(g)'
    <2>1. CASE fdt'[g] = fdt[g]
      BY <1>7, <1>8, <1>9, <2>1, ResumedOthers DEF Slot
    <2>2. CASE fdt[g] = "free" /\ fdt'[g] = "file"
      <3>1. Idle(g) /\ g \notin NewFds
        BY <2>2 DEF IInv, ConnectionState
      <3>2. Idle(g)' /\ g \notin NewFds'
        BY <1>8, <1>9, <3>1 DEF Idle
      <3>3. Owed(g)' = 0
        BY <3>2 DEF Idle, Owed, One, Kind, ResponseKind
      <3> QED
        BY <2>2, <3>2, <3>3 DEF ConnectionState, Idle, Kind, ResponseKind
    <2> QED
      BY <2>1, <2>2
  <1>11. ConnectionState(f)'
    <2>1. Op(f, "recv") \notin Outstanding'
      BY <1>2, <1>5, <1>8 DEF Op
    <2>2. Owed(f)' = Len(ops)
      <3>1. /\ Op(f, "splice_in") # Op(f, "send") /\ Op(f, "splice_out") # Op(f, "send")
            /\ Op(f, "splice_in") \notin Outstanding /\ Op(f, "splice_out") \notin Outstanding
        BY <1>3 DEF Op, ResponseKind
      <3>2. CASE Len(ops) = 1 /\ Range(ops) = {Op(f, "send")}
        <4>1. /\ Op(f, "send") \in Outstanding'
              /\ Op(f, "splice_in") \notin Outstanding' /\ Op(f, "splice_out") \notin Outstanding'
          BY <1>8, <3>1, <3>2
        <4> QED
          BY <3>2, <4>1 DEF Owed, One
      <3>3. CASE Len(ops) = 3 /\ Range(ops) = {Op(f, "send"), Op(f, "splice_in"), Op(f, "splice_out")}
        <4>1. /\ Op(f, "send") \in Outstanding'
              /\ Op(f, "splice_in") \in Outstanding' /\ Op(f, "splice_out") \in Outstanding'
          BY <1>8, <3>3
        <4> QED
          BY <3>3, <4>1 DEF Owed, One
      <3> QED
        BY <1>5, <3>2, <3>3
    <2>3. fdt'[f] = "sock"
      BY <1>3
    <2> QED
      BY <1>3, <1>4, <1>5, <1>7, <1>8, <1>9, <2>1, <2>2, <2>3 DEF ConnectionState
  <1> QED
    BY <1>8, <1>10, <1>11

\* Handling an accept: it is armed again, and at most a recv of an idle slot is
\* pushed with it.
LEMMA AcceptRings ==
    ASSUME IInv, NEW s \in Slot, NEW r, Completed(s, r), action[s] = "ACCEPT",
           NEW ops, NEW new \in SUBSET Fd, Push(ops),
           \/ ops = <<Op(ListenFd, "accept")>> /\ new = {}
           \/ \E f \in Fd : /\ ops = <<Op(f, "recv"), Op(ListenFd, "accept")>>
                            /\ new = {f} /\ Op(f, "recv") \notin Outstanding,
           action'[ListenFd] = "ACCEPT",
           \A g \in Fd : action'[g] # "ACCEPT"
    PROVE  /\ RingInv'
           /\ Outstanding' = Outstanding \cup {Op(g, "recv") : g \in new}
           /\ NewFds' = NewFds \ {r}
           /\ CqOps' = CqOps \ {Op(ListenFd, "accept")}
  <1>1. TypeOK /\ NoDuplicateOperation /\ AcceptControl
    BY DEF IInv, RingInv
  <1>2. HeadOp = Op(ListenFd, "accept") /\ HeadOp \in Outstanding
    BY <1>1, HeadIsAccept, HeadFacts
  <1>3. /\ ops \in Seq(Sqe)
        /\ \A i, j \in 1..Len(ops) : ops[i] = ops[j] => i = j
        /\ Range(ops) = {Op(g, "recv") : g \in new} \cup {HeadOp}
        /\ Range(ops) \cap (Outstanding \ {HeadOp}) = {}
    <2>1. CASE ops = <<Op(ListenFd, "accept")>> /\ new = {}
      <3>1. ops \in Seq(Sqe) /\ Len(ops) = 1 /\ DOMAIN ops = {1} /\ ops[1] = HeadOp
        BY <1>2, <2>1, OpType
      <3>2. Range(ops) = {HeadOp}
        BY <3>1 DEF Range
      <3> QED
        BY <2>1, <3>1, <3>2
    <2>2. ASSUME NEW f \in Fd, ops = <<Op(f, "recv"), Op(ListenFd, "accept")>>,
                 new = {f}, Op(f, "recv") \notin Outstanding
          PROVE  /\ ops \in Seq(Sqe)
                 /\ \A i, j \in 1..Len(ops) : ops[i] = ops[j] => i = j
                 /\ Range(ops) = {Op(g, "recv") : g \in new} \cup {HeadOp}
                 /\ Range(ops) \cap (Outstanding \ {HeadOp}) = {}
      <3>1. /\ ops \in Seq(Sqe) /\ Len(ops) = 2 /\ DOMAIN ops = {1, 2}
            /\ ops[1] = Op(f, "recv") /\ ops[2] = HeadOp
        BY <1>2, <2>2, OpType
      <3>2. Range(ops) = {Op(f, "recv"), HeadOp}
        BY <3>1 DEF Range
      <3>3. Op(f, "recv") # HeadOp
        BY <1>2 DEF Op
      <3> QED
        BY <2>2, <3>1, <3>2, <3>3
    <2> QED
      BY <2>1, <2>2
  <1>4. /\ Outstanding' = (Outstanding \ {HeadOp}) \cup Range(ops)
        /\ CqOps' = CqOps \ {HeadOp}
    BY <1>1, <1>3, PushOutstanding DEF Push
  <1>5. Outstanding' = Outstanding \cup {Op(g, "recv") : g \in new}
    BY <1>2, <1>3, <1>4
  <1>6. NewFds' = NewFds \ {r} /\ \A i \in Unseen' : i \in Unseen /\ cq'[i] = cq[i]
    BY <1>1, PushNewFds DEF Push
  <1>7. NoDuplicateOperation'
    BY <1>1, <1>3, PushNoDuplicate DEF Push
  <1>8. BatchControl'
    BY <1>1 DEF IInv, RingInv, Completed, Push, Consume, BatchControl
  <1>9. AcceptControl'
    <2>1. \A op \in Outstanding' : op.slot = ListenFd <=> op.kind = "accept"
      BY <1>1, <1>5, FdAssumption DEF AcceptControl, Op
    <2>2. \A i \in Unseen' : cq'[i].res \in Fd => cq'[i].kind = "accept"
      BY <1>1, <1>6 DEF AcceptControl
    <2> QED
      BY <2>1, <2>2 DEF AcceptControl
  <1>10. OneAccept'
    BY <1>2, <1>5 DEF OneAccept
  <1> QED
    BY <1>2, <1>4, <1>5, <1>6, <1>7, <1>8, <1>9, <1>10 DEF RingInv

\* A slot that is not concerned by an accept.
LEMMA AcceptOthers ==
    ASSUME IInv, NEW g \in Fd, NEW new \in SUBSET Fd, g \notin new,
           Outstanding' = Outstanding \cup {Op(h, "recv") : h \in new},
           CqOps' = CqOps \ {Op(ListenFd, "accept")},
           g \in NewFds' <=> g \in NewFds,
           fdt'[g] = fdt[g], action'[g] = action[g], coro'[g] = coro[g],
           cur_steps' = cur_steps, total_steps' = total_steps, dirty' = dirty
    PROVE  ConnectionState(g)'
  <1>1. \A k \in Kind : Op(g, k) \in Outstanding' <=> Op(g, k) \in Outstanding
    BY DEF Op
  <1>2. Op(g, "recv") \in CqOps' <=> Op(g, "recv") \in CqOps
    BY DEF Op
  <1>3. SameConnection(g)
    BY <1>1, <1>2 DEF SameConnection
  <1> QED
    BY <1>3, Frame DEF IInv

\* -EAGAIN keeps the invariant: only the accept is pushed again.
LEMMA AcceptAgainStep ==
    ASSUME IInv, NEW s \in Slot, AcceptAgain(s)
    PROVE  RingInv' /\ \A g \in Fd : ConnectionState(g)'
  <1>1. /\ TypeOK /\ AcceptControl /\ Completed(s, "again") /\ action[s] = "ACCEPT"
        /\ Push(<<Op(ListenFd, "accept")>>)
    BY DEF AcceptAgain, Rearm, IInv, RingInv
  <1>2. /\ action'[ListenFd] = "ACCEPT"
        /\ \A g \in Fd : action'[g] = action[g] /\ action'[g] # "ACCEPT"
    BY <1>1, FdAssumption DEF AcceptAgain, Rearm, TypeOK, Slot, AcceptControl
  <1>3. {} \in SUBSET Fd /\ {Op(g, "recv") : g \in {}} = {}
    OBVIOUS
  <1>4. /\ RingInv' /\ Outstanding' = Outstanding \cup {Op(g, "recv") : g \in {}}
        /\ NewFds' = NewFds \ {"again"} /\ CqOps' = CqOps \ {Op(ListenFd, "accept")}
    BY <1>1, <1>2, <1>3, AcceptRings
  <1>5. \A g \in Fd : g \in NewFds' <=> g \in NewFds
    BY <1>4, FdAssumption DEF ResultCode
  <1> QED
    BY <1>2, <1>3, <1>4, <1>5, AcceptOthers DEF AcceptAgain, Rearm

\* A failed __prepare_connection keeps the invariant: the slot is idle again.
LEMMA RefuseConnectionStep ==
    ASSUME IInv, NEW s \in Slot, NEW f \in Fd, RefuseConnection(s, f)
    PROVE  RingInv' /\ \A g \in Fd : ConnectionState(g)'
  <1>1. /\ TypeOK /\ NoDuplicateOperation /\ AcceptControl /\ Completed(s, f) /\ action[s] = "ACCEPT"
        /\ Push(<<Op(ListenFd, "accept")>>) /\ ConnectionState(f)
    BY DEF RefuseConnection, IInv, RingInv
  <1>2. /\ action'[ListenFd] = "ACCEPT"
        /\ \A g \in Fd : action'[g] = action[g] /\ action'[g] # "ACCEPT"
    BY <1>1, FdAssumption DEF RefuseConnection, TypeOK, Slot, AcceptControl
  <1>3. {} \in SUBSET Fd /\ {Op(g, "recv") : g \in {}} = {}
    OBVIOUS
  <1>4. /\ RingInv' /\ Outstanding' = Outstanding \cup {Op(g, "recv") : g \in {}}
        /\ NewFds' = NewFds \ {f} /\ CqOps' = CqOps \ {Op(ListenFd, "accept")}
    BY <1>1, <1>2, <1>3, AcceptRings
  <1>5. ASSUME NEW g \in Fd \ {f} PROVE ConnectionState(g)'
    <2>1. fdt'[g] = fdt[g] /\ coro'[g] = coro[g]
      BY <1>1 DEF RefuseConnection, TypeOK
    <2> QED
      BY <1>2, <1>3, <1>4, <2>1, AcceptOthers DEF RefuseConnection
  <1>6. ConnectionState(f)'
    <2>0. <<Op(ListenFd, "accept")>> \in Seq(Sqe)
      BY OpType
    <2>1. f \in NewFds
      BY <1>1, <2>0, PushOutstanding DEF Push
    <2>2. Idle(f)
      BY <1>1, <2>1 DEF ConnectionState
    <2>3. fdt'[f] = "free" /\ coro'[f] # "STOPPED"
      BY <1>1, <2>2 DEF RefuseConnection, TypeOK, Idle
    <2>4. Idle(f)' /\ f \notin NewFds'
      BY <1>3, <1>4, <2>2, <2>3 DEF RefuseConnection, Idle
    <2>5. Owed(f)' = 0
      BY <2>4 DEF Idle, Owed, One, Kind, ResponseKind
    <2> QED
      BY <2>3, <2>4, <2>5 DEF ConnectionState, Idle, Kind, ResponseKind
  <1> QED
    BY <1>4, <1>5, <1>6

\* A new connection keeps the invariant: its slot waits for a recv.
LEMMA AcceptConnectionStep ==
    ASSUME IInv, NEW s \in Slot, NEW f \in Fd, AcceptConnection(s, f)
    PROVE  RingInv' /\ \A g \in Fd : ConnectionState(g)'
  <1> DEFINE ops == <<Op(f, "recv"), Op(ListenFd, "accept")>>
  <1>1. /\ TypeOK /\ NoDuplicateOperation /\ AcceptControl /\ Completed(s, f) /\ action[s] = "ACCEPT"
        /\ Push(ops) /\ ConnectionState(f)
    BY DEF AcceptConnection, IInv, RingInv
  <1>2. /\ action'[ListenFd] = "ACCEPT" /\ action'[f] = "RECV"
        /\ \A g \in Fd : action'[g] # "ACCEPT"
        /\ \A g \in Fd \ {f} : action'[g] = action[g]
    BY <1>1, FdAssumption DEF AcceptConnection, TypeOK, Slot, AcceptControl
  <1>3. f \in NewFds
    <2>1. ops \in Seq(Sqe)
      BY OpType
    <2> QED
      BY <1>1, <2>1, PushOutstanding DEF Push
  <1>4. Idle(f) /\ fdt[f] = "sock"
    BY <1>1, <1>3, FdAssumption DEF ConnectionState
  <1>5. Op(f, "recv") \notin Outstanding
    BY <1>4 DEF Idle, Kind
  <1>6. /\ RingInv' /\ Outstanding' = Outstanding \cup {Op(g, "recv") : g \in {f}}
        /\ NewFds' = NewFds \ {f} /\ CqOps' = CqOps \ {Op(ListenFd, "accept")}
    <2>1. \E g \in Fd : /\ ops = <<Op(g, "recv"), Op(ListenFd, "accept")>>
                        /\ {f} = {g} /\ Op(g, "recv") \notin Outstanding
      BY <1>5
    <2> QED
      BY <1>1, <1>2, <2>1, AcceptRings
  <1>7. ASSUME NEW g \in Fd \ {f} PROVE ConnectionState(g)'
    <2>1. fdt'[g] = fdt[g] /\ coro'[g] = coro[g]
      BY <1>1 DEF AcceptConnection, TypeOK
    <2> QED
      BY <1>2, <1>6, <2>1, AcceptOthers DEF AcceptConnection
  <1>8. ConnectionState(f)'
    <2>1. \A k \in Kind : Op(f, k) \in Outstanding' <=> k = "recv"
      BY <1>4, <1>6 DEF Idle, Op
    <2>2. Op(f, "recv") \notin CqOps' /\ f \notin NewFds'
      BY <1>5, <1>6 DEF Outstanding
    <2>3. /\ fdt'[f] = "sock" /\ coro'[f] \in {"CREATED", "STARTED"}
          /\ cur_steps'[f] = 0 /\ total_steps'[f] = 0 /\ dirty'[f] = {}
      BY <1>1, <1>4 DEF AcceptConnection, TypeOK, Idle
    <2>4. Owed(f)' = 0
      BY <2>1 DEF Owed, One, Kind, ResponseKind
    <2> QED
      BY <1>2, <2>1, <2>2, <2>3, <2>4 DEF ConnectionState, Kind, ResponseKind
  <1> QED
    BY <1>6, <1>7, <1>8

\* The exit after a failed accept keeps the invariant.
LEMMA AcceptFailsStep ==
    ASSUME IInv, NEW s \in Slot, AcceptFails(s)
    PROVE  RingInv' /\ \A g \in Fd : ConnectionState(g)'
  <1>1. /\ TypeOK /\ NoDuplicateOperation /\ AcceptControl /\ Completed(s, "neg")
        /\ action[s] = "ACCEPT" /\ Consume(<<>>) /\ pc' = "exited"
    BY DEF AcceptFails, IInv, RingInv
  <1>2. HeadOp = Op(ListenFd, "accept")
    BY <1>1, HeadIsAccept
  <1>3. /\ <<>> \in Seq(Sqe) /\ Range(<<>>) = {}
        /\ \A i, j \in 1..Len(<<>>) : <<>>[i] = <<>>[j] => i = j
    BY DEF Range
  <1>4. Outstanding' = Outstanding \ {HeadOp} /\ CqOps' = CqOps \ {HeadOp}
    BY <1>1, <1>3, PushOutstanding
  <1>5. NewFds' = NewFds \ {"neg"} /\ \A i \in Unseen' : i \in Unseen /\ cq'[i] = cq[i]
    BY <1>1, PushNewFds
  <1>6. NoDuplicateOperation'
    BY <1>1, <1>3, PushNoDuplicate
  <1>7. AcceptControl'
    BY <1>1, <1>4, <1>5 DEF AcceptControl, AcceptFails, slots
  <1>8. BatchControl' /\ OneAccept'
    BY <1>1 DEF BatchControl, OneAccept
  <1>9. ASSUME NEW g \in Fd PROVE ConnectionState(g)'
    <2>1. g \in NewFds' <=> g \in NewFds
      BY <1>5, FdAssumption DEF ResultCode
    <2>2. \A k \in Kind : Op(g, k) # HeadOp
      BY <1>2, FdAssumption DEF Op
    <2>3. SameConnection(g)
      BY <1>4, <2>1, <2>2 DEF SameConnection, AcceptFails, slots, Kind
    <2> QED
      BY <2>3, Frame DEF IInv
  <1> QED
    BY <1>6, <1>7, <1>8, <1>9 DEF RingInv

\* Steps of the kernel.
LEMMA PostStep ==
    ASSUME IInv, NEW f \in Slot, NEW k \in Kind, NEW r, Post(f, k, r), r \in Fd => k = "accept"
    PROVE  /\ RingInv' /\ Outstanding' = Outstanding
           /\ CqOps' = CqOps \cup {Op(f, k)} /\ NewFds' = NewFds \cup ({r} \cap Fd)
           /\ UNCHANGED <<action, cur_steps, total_steps, coro>>
           /\ Op(f, k) \in Outstanding /\ Op(f, k) \notin CqOps
  <1>1. TypeOK /\ NoDuplicateOperation /\ BatchControl /\ AcceptControl /\ OneAccept
    BY DEF IInv, RingInv
  <1>2. /\ NoDuplicateOperation'
        /\ Outstanding' = Outstanding
        /\ CqOps' = CqOps \cup {Op(f, k)}
        /\ NewFds' = NewFds \cup ({r} \cap Fd)
        /\ Unseen' = Unseen \cup {Len(cq) + 1}
        /\ \A i \in Unseen : cq'[i] = cq[i]
        /\ cq'[Len(cq) + 1] = [slot |-> f, kind |-> k, res |-> r]
    BY <1>1, PostRings
  <1>3. /\ UNCHANGED <<pc, head, count, action, cur_steps, total_steps, coro>>
        /\ Op(f, k) \in inflight
    BY DEF Post
  <1>4. AcceptControl'
    BY <1>1, <1>2, <1>3 DEF AcceptControl
  <1>5. BatchControl'
    BY <1>1, <1>3 DEF BatchControl
  <1>6. OneAccept'
    BY <1>1, <1>2, <1>3 DEF OneAccept
  <1>7. Op(f, k) \in Outstanding /\ Op(f, k) \notin CqOps
    BY <1>1, <1>3 DEF Outstanding, NoDuplicateOperation
  <1> QED
    BY <1>2, <1>3, <1>4, <1>5, <1>6, <1>7 DEF RingInv

\* A completed accept keeps the invariant: the descriptor it carries was free.
LEMMA AcceptCompletesStep ==
    ASSUME IInv, AcceptCompletes PROVE RingInv' /\ \A g \in Fd : ConnectionState(g)'
  <1>1. ListenFd \in Slot /\ "accept" \in Kind /\ {"again", "neg"} \cap Fd = {}
    BY FdAssumption DEF Slot, Kind, ResultCode
  <1>2. \A g \in Fd : Op(ListenFd, "accept") # Op(g, "recv")
    BY DEF Op
  <1>3. ASSUME NEW r \in {"again", "neg"}, Post(ListenFd, "accept", r), UNCHANGED <<fdt, dirty>>
        PROVE  RingInv' /\ \A g \in Fd : ConnectionState(g)'
    <2>1. /\ RingInv' /\ Outstanding' = Outstanding
          /\ CqOps' = CqOps \cup {Op(ListenFd, "accept")} /\ NewFds' = NewFds \cup ({r} \cap Fd)
          /\ UNCHANGED <<action, cur_steps, total_steps, coro>>
      BY <1>1, <1>3, PostStep
    <2>2. ASSUME NEW g \in Fd PROVE ConnectionState(g)'
      <3>1. SameConnection(g)
        BY <1>1, <1>2, <1>3, <2>1 DEF SameConnection
      <3> QED
        BY <3>1, Frame DEF IInv
    <2> QED
      BY <2>1, <2>2
  <1>4. ASSUME NEW f \in Fd, fdt[f] = "free", Post(ListenFd, "accept", f),
               fdt' = [fdt EXCEPT ![f] = "sock"], UNCHANGED dirty
        PROVE  RingInv' /\ \A g \in Fd : ConnectionState(g)'
    <2>1. /\ RingInv' /\ Outstanding' = Outstanding
          /\ CqOps' = CqOps \cup {Op(ListenFd, "accept")} /\ NewFds' = NewFds \cup {f}
          /\ UNCHANGED <<action, cur_steps, total_steps, coro>>
      BY <1>1, <1>4, PostStep
    <2>2. ASSUME NEW g \in Fd \ {f} PROVE ConnectionState(g)'
      <3>1. SameConnection(g)
        BY <1>2, <1>4, <2>1 DEF SameConnection, IInv, TypeOK
      <3> QED
        BY <3>1, Frame DEF IInv
    <2>3. ConnectionState(f)'
      <3>1. Idle(f)
        BY <1>4 DEF IInv, ConnectionState
      <3>2. Idle(f)' /\ fdt'[f] = "sock"
        BY <1>4, <2>1, <3>1 DEF Idle, IInv, TypeOK
      <3>3. Owed(f)' = 0
        BY <3>2 DEF Idle, Owed, One, Kind, ResponseKind
      <3> QED
        BY <3>2, <3>3 DEF ConnectionState, Idle, Kind, ResponseKind
    <2> QED
      BY <2>1, <2>2, <2>3
  <1> QED
    BY <1>3, <1>4 DEF AcceptCompletes

\* A completed recv keeps the invariant: only the receive buffer was written.
LEMMA RecvCompletesStep ==
    ASSUME IInv, NEW f \in Fd, RecvCompletes(f) PROVE RingInv' /\ \A g \in Fd : ConnectionState(g)'
  <1>1. f \in Slot /\ "recv" \in Kind /\ {"neg", "zero", "cap", "pos"} \cap Fd = {}
    BY FdAssumption DEF Slot, Kind, ResultCode
  <1>2. PICK r \in {"neg", "zero", "cap", "pos"} :
           /\ Post(f, "recv", r)
           /\ dirty' = IF r \in {"cap", "pos"}
                       THEN [dirty EXCEPT ![f] = @ \cup {"str"}]
                       ELSE dirty
    BY DEF RecvCompletes
  <1>3. /\ RingInv' /\ Outstanding' = Outstanding
        /\ CqOps' = CqOps \cup {Op(f, "recv")} /\ NewFds' = NewFds
        /\ UNCHANGED <<action, cur_steps, total_steps, coro>>
        /\ Op(f, "recv") \in Outstanding /\ Op(f, "recv") \notin CqOps
    <2>1. r \notin Fd
      BY <1>1, <1>2
    <2>2. /\ RingInv' /\ Outstanding' = Outstanding
          /\ CqOps' = CqOps \cup {Op(f, "recv")} /\ NewFds' = NewFds \cup ({r} \cap Fd)
          /\ UNCHANGED <<action, cur_steps, total_steps, coro>>
          /\ Op(f, "recv") \in Outstanding /\ Op(f, "recv") \notin CqOps
      BY <1>1, <1>2, <2>1, PostStep
    <2> QED
      BY <2>1, <2>2
  <1>4. ASSUME NEW g \in Fd \ {f} PROVE ConnectionState(g)'
    <2>1. dirty'[g] = dirty[g] /\ fdt' = fdt
      BY <1>2 DEF RecvCompletes, IInv, TypeOK
    <2>2. SameConnection(g)
      BY <1>3, <2>1 DEF SameConnection, Op
    <2> QED
      BY <2>2, Frame DEF IInv
  <1>5. ConnectionState(f)'
    <2>1. ConnectionState(f)
      BY DEF IInv
    <2>2. /\ fdt[f] = "sock" /\ f \notin NewFds /\ coro[f] # "STOPPED" /\ dirty[f] \subseteq {"str"}
          /\ action[f] = "RECV" /\ \A k \in ResponseKind : Op(f, k) \notin Outstanding
      BY <1>3, <2>1 DEF ConnectionState
    <2>3. dirty'[f] \subseteq {"str"} /\ fdt' = fdt
      <3>1. dirty'[f] \in {dirty[f], dirty[f] \cup {"str"}}
        BY <1>2 DEF IInv, TypeOK
      <3> QED
        BY <2>2, <3>1 DEF RecvCompletes
    <2>4. Owed(f)' = Owed(f)
      BY <1>3 DEF Owed, One
    <2> QED
      BY <1>3, <2>1, <2>2, <2>3, <2>4 DEF ConnectionState
  <1> QED
    BY <1>3, <1>4, <1>5

\* A completed send or splice keeps the invariant.
LEMMA ResponseOpCompletesStep ==
    ASSUME IInv, NEW f \in Fd, NEW k \in ResponseKind, ResponseOpCompletes(f, k)
    PROVE  RingInv' /\ \A g \in Fd : ConnectionState(g)'
  <1>1. f \in Slot /\ k \in Kind /\ {"neg", "pos"} \cap Fd = {}
    BY FdAssumption DEF Slot, Kind, ResultCode
  <1>2. PICK r \in {"neg", "pos"} : Post(f, k, r)
    BY DEF ResponseOpCompletes
  <1>3. /\ RingInv' /\ Outstanding' = Outstanding
        /\ CqOps' = CqOps \cup {Op(f, k)} /\ NewFds' = NewFds
        /\ UNCHANGED <<action, cur_steps, total_steps, coro>>
    <2>1. r \notin Fd
      BY <1>1, <1>2
    <2> QED
      BY <1>1, <1>2, <2>1, PostStep
  <1>4. ASSUME NEW g \in Fd PROVE ConnectionState(g)'
    <2>1. Op(g, "recv") # Op(f, k)
      BY DEF Op, ResponseKind
    <2>2. SameConnection(g)
      BY <1>3, <2>1 DEF SameConnection, ResponseOpCompletes
    <2> QED
      BY <2>2, Frame DEF IInv
  <1> QED
    BY <1>3, <1>4

\* Steps that leave the rings' content, or everything, as it is.
LEMMA LoopStep ==
    ASSUME IInv, Submit \/ WaitReturns \/ BatchEnds \/ Advance
    PROVE  RingInv' /\ \A g \in Fd : ConnectionState(g)'
  <1>1. /\ TypeOK /\ NoDuplicateOperation /\ BatchControl /\ AcceptControl /\ OneAccept
    BY DEF IInv, RingInv
  <1>2. /\ NoDuplicateOperation' /\ BatchControl'
        /\ Outstanding' = Outstanding /\ CqOps' = CqOps /\ NewFds' = NewFds
        /\ \A i \in Unseen' : \E j \in Unseen : cq'[i] = cq[j]
    BY <1>1, LoopRings
  <1>3. /\ UNCHANGED <<fdt, action, cur_steps, total_steps, coro, dirty>>
        /\ pc \notin {"start", "exited"}
    BY DEF Submit, WaitReturns, BatchEnds, Advance, slots
  <1>4. AcceptControl' /\ OneAccept'
    BY <1>1, <1>2, <1>3 DEF AcceptControl, OneAccept
  <1>5. ASSUME NEW g \in Fd PROVE ConnectionState(g)'
    <2>1. SameConnection(g)
      BY <1>2, <1>3 DEF SameConnection
    <2> QED
      BY <2>1, Frame DEF IInv
  <1> QED
    BY <1>2, <1>4, <1>5 DEF RingInv

\* Failed set-up, crash and stuttering keep the invariant.
LEMMA SameRingsStep ==
    ASSUME IInv, UNCHANGED <<rings, fdt, slots>>,
           pc' = pc \/ pc' = "exited" \/ (pc' = "crashed" /\ pc = "batch")
    PROVE  RingInv' /\ \A g \in Fd : ConnectionState(g)'
  <1>1. Outstanding' = Outstanding /\ CqOps' = CqOps /\ NewFds' = NewFds /\ Unseen' = Unseen
    BY DEF rings, Outstanding, CqOps, NewFds, Unseen
  <1>2. NoDuplicateOperation' /\ BatchControl' /\ AcceptControl' /\ OneAccept'
    BY <1>1 DEF IInv, RingInv, NoDuplicateOperation, BatchControl, AcceptControl, OneAccept,
                rings, slots
  <1>3. ASSUME NEW g \in Fd PROVE ConnectionState(g)'
    <2>1. SameConnection(g)
      BY <1>1 DEF SameConnection, slots
    <2> QED
      BY <2>1, Frame DEF IInv
  <1> QED
    BY <1>2, <1>3 DEF RingInv

\* The first accept establishes OneAccept.
LEMMA ListenStartStep ==
    ASSUME IInv, ListenStart PROVE RingInv' /\ \A g \in Fd : ConnectionState(g)'
  <1>1. /\ sq = <<>> /\ inflight = {} /\ cq = <<>> /\ head = 0 /\ TypeOK
        /\ \A f \in Fd : fdt[f] = "free" /\ ConnectionState(f)
    BY DEF ListenStart, IInv, RingInv, BatchControl, TypeOK
  <1>2. Unseen = {} /\ Unseen' = {} /\ CqOps' = {} /\ NewFds' = {}
    BY <1>1 DEF Unseen, CqOps, NewFds, ListenStart
  <1>3. /\ Range(sq') = {Op(ListenFd, "accept")}
        /\ \A i, j \in 1..Len(sq') : sq'[i] = sq'[j] => i = j
    <2>1. Len(sq') = 1 /\ DOMAIN sq' = {1} /\ sq'[1] = Op(ListenFd, "accept")
      BY DEF ListenStart
    <2> QED
      BY <2>1 DEF Range
  <1>4. Outstanding' = {Op(ListenFd, "accept")}
    BY <1>1, <1>2, <1>3 DEF Outstanding, ListenStart
  <1>5. NoDuplicateOperation'
    BY <1>1, <1>2, <1>3 DEF NoDuplicateOperation, ListenStart
  <1>6. action'[ListenFd] = "ACCEPT" /\ \A f \in Fd : action'[f] = action[f]
    BY <1>1, FdAssumption DEF ListenStart, TypeOK, Slot
  <1>7. AcceptControl'
    BY <1>2, <1>4, <1>6 DEF AcceptControl, IInv, RingInv, Op
  <1>8. BatchControl' /\ OneAccept'
    BY <1>1, <1>4 DEF BatchControl, OneAccept, ListenStart
  <1>9. ASSUME NEW g \in Fd PROVE ConnectionState(g)'
    <2>1. Idle(g)
      BY <1>1 DEF ConnectionState
    <2>2. \A k \in Kind : Op(g, k) # Op(ListenFd, "accept")
      BY FdAssumption DEF Op
    <2>3. Idle(g)' /\ fdt'[g] = "free"
      BY <1>1, <1>4, <2>1, <2>2 DEF Idle, ListenStart
    <2>4. Owed(g)' = 0
      BY <2>3 DEF Idle, Owed, One, Kind, ResponseKind
    <2> QED
      BY <1>2, <2>3, <2>4 DEF ConnectionState, Idle, Kind, ResponseKind
  <1> QED
    BY <1>5, <1>7, <1>8, <1>9 DEF RingInv

\* Every way to answer a request keeps the invariant.
LEMMA ReplySteps ==
    ASSUME IInv, NEW f \in Fd,
           \/ RecvTooLarge(f) \/ RecvRejected(f) \/ RecvDynamic(f) \/ RecvStaticFails(f)
           \/ \E g \in Fd : RecvStaticOpened(f, g)
           \/ RecvStaticCached(f)
    PROVE  RingInv' /\ \A g \in Fd : ConnectionState(g)'
  <1> DEFINE FdtOK == \A g \in Fd : fdt'[g] = fdt[g] \/ (fdt[g] = "free" /\ fdt'[g] = "file")
             Goal == RingInv' /\ \A g \in Fd : ConnectionState(g)'
  <1> SUFFICES Goal
    OBVIOUS
  <1>1. \E r : Resumed(f, r) /\ action[f] = "RECV"
    BY DEF RecvTooLarge, RecvRejected, RecvDynamic, RecvStaticFails, RecvStaticOpened, RecvStaticCached
  <1>2. fdt' = fdt => FdtOK
    OBVIOUS
  <1>3. ASSUME NEW parts \in SUBSET {"req", "res"}, ErrorReply(f, parts), FdtOK PROVE Goal
    BY <1>1, <1>3, RespondStep DEF ErrorReply
  <1>4. ASSUME FullReply(f), FdtOK PROVE Goal
    <2>1. CASE WatchStaticFiles
      BY <1>1, <1>4, <2>1, RespondStep DEF FullReply
    <2>2. CASE ~WatchStaticFiles
      BY <1>1, <1>4, <2>2, RespondStep DEF FullReply
    <2> QED
      BY <2>1, <2>2
  <1> HIDE DEF FdtOK, Goal
  <1>5. CASE RecvTooLarge(f)
    BY <1>2, <1>3, <1>5 DEF RecvTooLarge
  <1>6. CASE RecvRejected(f)
    BY <1>2, <1>3, <1>6 DEF RecvRejected
  <1>7. CASE RecvDynamic(f)
    BY <1>2, <1>4, <1>7 DEF RecvDynamic
  <1>8. CASE RecvStaticFails(f)
    BY <1>2, <1>3, <1>8 DEF RecvStaticFails
  <1>9. ASSUME NEW g \in Fd, RecvStaticOpened(f, g) PROVE Goal
    <2>1. FdtOK
      BY <1>9 DEF FdtOK, RecvStaticOpened, IInv, TypeOK
    <2> QED
      BY <1>3, <1>4, <1>9, <2>1 DEF RecvStaticOpened
  <1>10. CASE RecvStaticCached(f)
    <2>1. CASE Crash
      <3>1. pc = "batch"
        BY <1>10 DEF RecvStaticCached, Resumed, Completed
      <3> QED
        BY <2>1, <3>1, SameRingsStep DEF Crash, Goal
    <2>2. CASE ~Crash
      BY <1>2, <1>4, <1>10, <2>2 DEF RecvStaticCached
    <2> QED
      BY <2>1, <2>2
  <1> QED
    BY <1>5, <1>6, <1>7, <1>8, <1>9, <1>10

\* The invariant is inductive: one case per action of Next.
LEMMA InvariantStep == IInv /\ [Next]_vars => IInv'
  <1> SUFFICES ASSUME IInv, [Next]_vars PROVE IInv'
    OBVIOUS
  <1> DEFINE Goal == RingInv' /\ \A g \in Fd : ConnectionState(g)'
  <1>1. TypeOK'
    BY TypeStep DEF IInv, RingInv
  <1> SUFFICES Goal
    BY <1>1 DEF IInv
  <1>2. CASE SetupFails
    BY <1>2, SameRingsStep DEF SetupFails
  <1>3. CASE ListenStart
    BY <1>3, ListenStartStep
  <1>4. CASE Submit \/ WaitReturns \/ BatchEnds \/ Advance
    BY <1>4, LoopStep
  <1>5. ASSUME NEW s \in Slot, AcceptAgain(s) PROVE Goal
    BY <1>5, AcceptAgainStep
  <1>6. ASSUME NEW s \in Slot, AcceptFails(s) PROVE Goal
    BY <1>6, AcceptFailsStep
  <1>7. ASSUME NEW s \in Slot, NEW f \in Fd, RefuseConnection(s, f) PROVE Goal
    BY <1>7, RefuseConnectionStep
  <1>8. ASSUME NEW s \in Slot, NEW f \in Fd, AcceptConnection(s, f) PROVE Goal
    BY <1>8, AcceptConnectionStep
  <1>9. ASSUME NEW s \in Slot, NEW f \in Fd, AcceptWithoutBuffer(s, f) PROVE Goal
    BY <1>9, SameRingsStep DEF AcceptWithoutBuffer, Crash, Completed
  <1>10. ASSUME NEW f \in Fd, HandleRecv(f) PROVE Goal
    BY <1>10, RecvErrorStep, RecvPeerClosedStep, ReplySteps DEF HandleRecv
  <1>11. ASSUME NEW f \in Fd, NEW r \in ResultCode, HandlerInitFails(f, r) PROVE Goal
    BY <1>11, HandlerInitFailsStep
  <1>12. ASSUME NEW f \in Fd, NEW r \in ResultCode, StepDone(f, r) PROVE Goal
    BY <1>12, StepDoneStep
  <1>13. CASE AcceptCompletes
    BY <1>13, AcceptCompletesStep
  <1>14. ASSUME NEW f \in Fd, RecvCompletes(f) PROVE Goal
    BY <1>14, RecvCompletesStep
  <1>15. ASSUME NEW f \in Fd, NEW k \in ResponseKind, ResponseOpCompletes(f, k) PROVE Goal
    BY <1>15, ResponseOpCompletesStep
  <1>16. CASE UNCHANGED vars
    BY <1>16, SameRingsStep DEF vars
  <1> HIDE DEF Goal
  <1> QED
    BY <1>2, <1>3, <1>4, <1>5, <1>6, <1>7, <1>8, <1>9, <1>10, <1>11, <1>12, <1>13, <1>14, <1>15,
       <1>16 DEF Next, Loop, Kernel, Terminated, HandleAccept, ResumeCoroutine

\* The initial state satisfies the invariant.
LEMMA InvariantInit == Init => IInv
  <1> SUFFICES ASSUME Init PROVE IInv
    OBVIOUS
  <1>1. Unseen = {} /\ CqOps = {} /\ NewFds = {} /\ Range(sq) = {}
    BY DEF Init, Unseen, CqOps, NewFds, Range
  <1>2. Outstanding = {}
    BY <1>1 DEF Init, Outstanding
  <1>3. TypeOK
    BY TypeInit
  <1>4. RingInv
    BY <1>1, <1>2 DEF Init, RingInv, NoDuplicateOperation, BatchControl, AcceptControl, OneAccept, Slot
  <1>5. ASSUME NEW f \in Fd PROVE ConnectionState(f)
    <2>1. Idle(f) /\ Owed(f) = 0
      BY <1>2 DEF Init, Idle, Owed, One
    <2> QED
      BY <1>1, <1>2, <2>1 DEF Init, ConnectionState
  <1> QED
    BY <1>3, <1>4, <1>5 DEF IInv

\* The inductive invariant holds of every reachable state.
THEOREM Invariance == Spec => []IInv
  BY InvariantInit, InvariantStep, PTL DEF Spec

\* Every reachable state of the listening thread is well typed: a slot number
\* and a result of the right shape in every ring entry, natural step counters;
\* and io_uring_cq_advance never moves the head of the completion ring past the
\* loop's cursor, which takes BatchControl to show.
THEOREM TypeCorrect == Spec => []TypeOK
  <1>1. IInv => TypeOK
    BY DEF IInv
  <1> QED
    BY <1>1, Invariance, PTL

-----------------------------------------------------------------------------
(* What follows from it.                                                   *)

\* An outstanding operation belongs to a slot and is of a known kind.
LEMMA OutstandingType ==
    ASSUME TypeOK PROVE \A op \in Outstanding : op \in Sqe /\ op = Op(op.slot, op.kind)
  <1>1. Range(sq) \subseteq Sqe
    BY DEF TypeOK, Range
  <1>2. CqOps \subseteq Sqe
    BY UnseenType DEF CqOps, Op, Sqe
  <1>3. Outstanding \subseteq Sqe
    BY <1>1, <1>2 DEF Outstanding, TypeOK
  <1> QED
    BY <1>3 DEF Sqe, Op

\* What the inductive invariant says about dispatch, counting, closing and parsing.
LEMMA Consequences ==
    ASSUME IInv
    PROVE  /\ ActionTellsOperation
           /\ StepsCountOperations
           /\ ClosedIsQuiet
           /\ CleanBeforeParse
           /\ StoppedIsNeverResumed
  <1>1. TypeOK /\ NoDuplicateOperation /\ AcceptControl /\ \A f \in Fd : ConnectionState(f)
    BY DEF IInv, RingInv
  <1>2. \A op \in Outstanding :
           op.slot \in Slot /\ op.kind \in Kind /\ op = Op(op.slot, op.kind)
    BY <1>1, OutstandingType DEF Sqe
  <1>3. \A op \in Outstanding : op.kind # "accept" => op.slot \in Fd
    BY <1>1, <1>2 DEF AcceptControl, Slot
  <1>4. ActionTellsOperation
    <2> SUFFICES ASSUME NEW op \in Outstanding
                 PROVE  /\ op.kind = "accept" => op.slot = ListenFd /\ action[op.slot] = "ACCEPT"
                        /\ op.kind = "recv" => op.slot \in Fd /\ action[op.slot] = "RECV"
                        /\ op.kind \in ResponseKind =>
                              op.slot \in Fd /\ action[op.slot] \in {"SEND", "SPLICE"}
      BY DEF ActionTellsOperation
    <2>1. CASE op.kind = "accept"
      BY <1>1, <1>2, <2>1 DEF AcceptControl, ResponseKind
    <2>2. CASE op.kind = "recv"
      BY <1>1, <1>2, <1>3, <2>2 DEF ConnectionState, ResponseKind
    <2>3. CASE op.kind \in ResponseKind
      BY <1>1, <1>2, <1>3, <2>3 DEF ConnectionState, ResponseKind
    <2> QED
      BY <2>1, <2>2, <2>3
  <1>5. StepsCountOperations
    BY <1>1 DEF StepsCountOperations, ConnectionState
  <1>6. ClosedIsQuiet
    <2> SUFFICES ASSUME NEW op \in Outstanding, op.slot \in Fd PROVE fdt[op.slot] = "sock"
      BY DEF ClosedIsQuiet
    <2> QED
      BY <1>1, <1>2 DEF ConnectionState, Idle
  <1>7. CleanBeforeParse
    <2> SUFFICES ASSUME NEW f \in Fd
                 PROVE  /\ f \in NewFds => dirty[f] = {}
                        /\ Op(f, "recv") \in Range(sq) \cup inflight => dirty[f] = {}
                        /\ Op(f, "recv") \in CqOps => dirty[f] \subseteq {"str"}
      BY DEF CleanBeforeParse
    <2>1. f \in NewFds => dirty[f] = {}
      BY <1>1 DEF ConnectionState, Idle
    <2>2. Op(f, "recv") \in Range(sq) \cup inflight =>
             Op(f, "recv") \in Outstanding /\ Op(f, "recv") \notin CqOps
      BY <1>1 DEF Outstanding, NoDuplicateOperation
    <2>3. Op(f, "recv") \in CqOps => Op(f, "recv") \in Outstanding
      BY DEF Outstanding
    <2> QED
      BY <1>1, <2>1, <2>2, <2>3 DEF ConnectionState
  <1>8. StoppedIsNeverResumed
    BY <1>1 DEF StoppedIsNeverResumed, ConnectionState
  <1> QED
    BY <1>4, <1>5, <1>6, <1>7, <1>8

\* No operation is in the rings twice, whatever the peers, the kernel and the
\* allocator do.
THEOREM NoDuplicates == Spec => []NoDuplicateOperation
  <1>1. IInv => NoDuplicateOperation
    BY DEF IInv, RingInv
  <1> QED
    BY <1>1, Invariance, PTL

\* The dispatch on conn->action is right for every completion.
THEOREM Dispatch == Spec => []ActionTellsOperation
  BY Consequences, Invariance, PTL

\* cur_steps and total_steps count the operations of the response that were
\* not reported yet.
THEOREM StepCounting == Spec => []StepsCountOperations
  BY Consequences, Invariance, PTL

\* A descriptor is never closed while an operation on it is outstanding.
THEOREM CloseIsSafe == Spec => []ClosedIsQuiet
  BY Consequences, Invariance, PTL

\* A request is parsed into cleared structures.
THEOREM ParseIsClean == Spec => []CleanBeforeParse
  BY Consequences, Invariance, PTL

\* The server never stops listening: in every state of a running loop an accept
\* is pushed, submitted or waiting to be handled.
THEOREM AlwaysListening == Spec => []OneAccept
  <1>1. IInv => OneAccept
    BY DEF IInv, RingInv
  <1> QED
    BY <1>1, Invariance, PTL

\* A coroutine whose function returned is never resumed.
THEOREM StoppedStaysStopped == Spec => []StoppedIsNeverResumed
  BY Consequences, Invariance, PTL

-----------------------------------------------------------------------------
(* The loop implements the life cycle of a connection.                     *)

\* What ConnLifecycle sees of slot g is as it was.
SamePhase(g) == PhaseOf(g)' = PhaseOf(g) /\ Owed(g)' = Owed(g)

\* Slot f goes from phase a to phase b, then owing n operations, and no other
\* connection is seen to change.
Moves(f, a, b, n) ==
    /\ PhaseOf(f) = a /\ PhaseOf(f)' = b /\ Owed(f)' = n
    /\ \A g \in Fd \ {f} : SamePhase(g)

\* Such a change is a move of the abstract specification.
LEMMA MoveOfLifecycle ==
    ASSUME NEW f \in Fd, NEW a, NEW b, NEW n, Moves(f, a, b, n)
    PROVE  Lifecycle!Move(f, a, b, n)
  BY DEF Moves, SamePhase, Lifecycle!Move

\* The life cycle of a connection is seen in its descriptor, in the accepts not
\* handled yet and in its outstanding operations only.
LEMMA PhaseFrame ==
    ASSUME NEW g \in Fd,
           fdt'[g] = fdt[g] \/ (fdt[g] # "sock" /\ fdt'[g] # "sock"),
           \A k \in Kind : Op(g, k) \in Outstanding' <=> Op(g, k) \in Outstanding,
           g \in NewFds' <=> g \in NewFds
    PROVE  SamePhase(g)
  <1>1. Owed(g)' = Owed(g)
    BY DEF Owed, One, Kind, ResponseKind
  <1>2. Op(g, "recv") \in Outstanding' <=> Op(g, "recv") \in Outstanding
    BY DEF Kind
  <1> QED
    BY <1>1, <1>2 DEF SamePhase, PhaseOf

\* The phase the invariant's cases stand for.
LEMMA PhaseCases ==
    ASSUME IInv, NEW f \in Fd
    PROVE  /\ Owed(f) \in Nat
           /\ fdt[f] # "sock" => PhaseOf(f) = "idle" /\ Owed(f) = 0
           /\ f \in NewFds => PhaseOf(f) = "accepted" /\ Owed(f) = 0
           /\ Op(f, "recv") \in Outstanding => PhaseOf(f) = "receiving" /\ Owed(f) = 0
           /\ \A k \in ResponseKind :
                 Op(f, k) \in Outstanding => PhaseOf(f) = "responding" /\ Owed(f) > 0
  <1>1. ConnectionState(f)
    BY DEF IInv
  <1>2. One(f, "send") \in {0, 1} /\ One(f, "splice_in") \in {0, 1} /\ One(f, "splice_out") \in {0, 1}
    BY DEF One
  <1>3. Owed(f) \in Nat
    BY <1>2 DEF Owed
  <1>4. Idle(f) => Owed(f) = 0
    BY DEF Idle, Owed, One, Kind, ResponseKind
  <1>5. fdt[f] # "sock" => PhaseOf(f) = "idle" /\ Owed(f) = 0
    BY <1>1, <1>4 DEF ConnectionState, PhaseOf
  <1>6. f \in NewFds => PhaseOf(f) = "accepted" /\ Owed(f) = 0
    BY <1>1, <1>4 DEF ConnectionState, PhaseOf
  <1>7. Op(f, "recv") \in Outstanding => PhaseOf(f) = "receiving" /\ Owed(f) = 0
    <2> SUFFICES ASSUME Op(f, "recv") \in Outstanding PROVE PhaseOf(f) = "receiving" /\ Owed(f) = 0
      OBVIOUS
    <2>1. fdt[f] = "sock" /\ f \notin NewFds /\ \A k \in ResponseKind : Op(f, k) \notin Outstanding
      BY <1>1 DEF ConnectionState
    <2>2. Owed(f) = 0
      BY <2>1 DEF Owed, One, ResponseKind
    <2> QED
      BY <2>1, <2>2 DEF PhaseOf
  <1>8. ASSUME NEW k \in ResponseKind, Op(f, k) \in Outstanding
        PROVE  PhaseOf(f) = "responding" /\ Owed(f) > 0
    <2>1. fdt[f] = "sock" /\ f \notin NewFds /\ Op(f, "recv") \notin Outstanding
      BY <1>1, <1>8 DEF ConnectionState
    <2>2. Owed(f) > 0
      BY <1>2, <1>8 DEF Owed, One, ResponseKind
    <2> QED
      BY <2>1, <2>2 DEF PhaseOf
  <1> QED
    BY <1>3, <1>5, <1>6, <1>7, <1>8

\* A connection that is accepted was idle.
LEMMA AcceptCompletesLife ==
    ASSUME IInv, IInv', AcceptCompletes
    PROVE  (\A g \in Fd : SamePhase(g)) \/ \E f \in Fd : Lifecycle!Accept(f)
  <1>1. ListenFd \in Slot /\ "accept" \in Kind /\ {"again", "neg"} \cap Fd = {}
    BY FdAssumption DEF Slot, Kind, ResultCode
  <1>2. ASSUME NEW r \in {"again", "neg"}, Post(ListenFd, "accept", r), UNCHANGED <<fdt, dirty>>
        PROVE  \A g \in Fd : SamePhase(g)
    <2>1. Outstanding' = Outstanding /\ NewFds' = NewFds \cup ({r} \cap Fd)
      BY <1>1, <1>2, PostStep
    <2> QED
      BY <1>1, <1>2, <2>1, PhaseFrame
  <1>3. ASSUME NEW f \in Fd, fdt[f] = "free", Post(ListenFd, "accept", f),
               fdt' = [fdt EXCEPT ![f] = "sock"], UNCHANGED dirty
        PROVE  Lifecycle!Accept(f)
    <2>1. Outstanding' = Outstanding /\ NewFds' = NewFds \cup ({f} \cap Fd)
      BY <1>1, <1>3, PostStep
    <2>2. ASSUME NEW g \in Fd \ {f} PROVE SamePhase(g)
      <3>1. fdt'[g] = fdt[g]
        BY <1>3 DEF IInv, TypeOK
      <3> QED
        BY <2>1, <3>1, PhaseFrame
    <2>3. PhaseOf(f) = "idle"
      BY <1>3, PhaseCases
    <2>4. PhaseOf(f)' = "accepted" /\ Owed(f)' = 0
      <3>1. f \in NewFds' /\ fdt'[f] = "sock"
        BY <1>3, <2>1 DEF IInv, TypeOK
      <3>2. Owed(f) = 0
        BY <1>3, PhaseCases
      <3>3. Owed(f)' = Owed(f)
        BY <2>1 DEF Owed, One
      <3> QED
        BY <3>1, <3>2, <3>3 DEF PhaseOf
    <2>5. Lifecycle!Move(f, "idle", "accepted", 0)
      BY <2>2, <2>3, <2>4, MoveOfLifecycle DEF Moves
    <2> QED
      BY <2>5 DEF Lifecycle!Accept
  <1> QED
    BY <1>2, <1>3 DEF AcceptCompletes

\* The kernel's other completions, the loop's own steps, a crash and an exit
\* show nothing of a connection.
LEMMA SilentLife ==
    ASSUME IInv, UNCHANGED fdt, Outstanding' = Outstanding, NewFds' = NewFds
    PROVE  \A g \in Fd : SamePhase(g)
  BY PhaseFrame

\* -EAGAIN and a failed accept show nothing of a connection.
LEMMA AcceptAgainLife ==
    ASSUME IInv, NEW s \in Slot, AcceptAgain(s) \/ AcceptFails(s)
    PROVE  \A g \in Fd : SamePhase(g)
  <1>1. \A g \in Fd : g \notin {"again", "neg"}
    BY FdAssumption DEF ResultCode
  <1>2. PICK r \in {"again", "neg"}, ops \in {<<Op(ListenFd, "accept")>>, <<>>} :
           Completed(s, r) /\ action[s] = "ACCEPT" /\ Consume(ops) /\ UNCHANGED fdt
    BY DEF AcceptAgain, AcceptFails, Rearm, Push
  <1>3. TypeOK /\ NoDuplicateOperation /\ AcceptControl
    BY DEF IInv, RingInv
  <1>4. HeadOp = Op(ListenFd, "accept")
    BY <1>2, HeadIsAccept
  <1>5. ops \in Seq(Sqe) /\ Range(ops) \subseteq {HeadOp}
    <2>1. CASE ops = <<>>
      BY <2>1 DEF Range
    <2>2. CASE ops = <<Op(ListenFd, "accept")>>
      <3>1. ops \in Seq(Sqe) /\ DOMAIN ops = {1} /\ ops[1] = HeadOp
        BY <1>4, <2>2, OpType
      <3> QED
        BY <3>1 DEF Range
    <2> QED
      BY <1>2, <2>1, <2>2
  <1>6. Outstanding' = (Outstanding \ {HeadOp}) \cup Range(ops)
    BY <1>2, <1>3, <1>5, PushOutstanding
  <1>7. NewFds' = NewFds \ {r}
    BY <1>2, <1>3, PushNewFds
  <1>8. ASSUME NEW g \in Fd PROVE SamePhase(g)
    <2>1. \A k \in Kind : Op(g, k) # HeadOp
      BY <1>4, FdAssumption DEF Op
    <2>2. \A k \in Kind : Op(g, k) \in Outstanding' <=> Op(g, k) \in Outstanding
      BY <1>5, <1>6, <2>1
    <2>3. g \in NewFds' <=> g \in NewFds
      BY <1>1, <1>2, <1>7
    <2> QED
      BY <1>2, <2>2, <2>3, PhaseFrame
  <1> QED
    BY <1>8

\* A connection that could not be prepared is idle again.
LEMMA RefuseConnectionLife ==
    ASSUME IInv, IInv', NEW s \in Slot, NEW f \in Fd, RefuseConnection(s, f)
    PROVE  Lifecycle!Refuse(f)
  <1>1. /\ TypeOK /\ NoDuplicateOperation /\ AcceptControl /\ Completed(s, f) /\ action[s] = "ACCEPT"
        /\ Push(<<Op(ListenFd, "accept")>>) /\ fdt' = [fdt EXCEPT ![f] = "free"]
    BY DEF RefuseConnection, IInv, RingInv
  <1>2. /\ action'[ListenFd] = "ACCEPT" /\ \A g \in Fd : action'[g] # "ACCEPT"
    BY <1>1, FdAssumption DEF RefuseConnection, TypeOK, Slot, AcceptControl
  <1>3. {} \in SUBSET Fd /\ {Op(g, "recv") : g \in {}} = {}
    OBVIOUS
  <1>4. Outstanding' = Outstanding \cup {Op(g, "recv") : g \in {}} /\ NewFds' = NewFds \ {f}
    BY <1>1, <1>2, <1>3, AcceptRings
  <1>5. f \in NewFds
    <2>1. <<Op(ListenFd, "accept")>> \in Seq(Sqe)
      BY OpType
    <2> QED
      BY <1>1, <2>1, PushOutstanding DEF Push
  <1>6. PhaseOf(f) = "accepted"
    BY <1>5, PhaseCases
  <1>7. fdt'[f] = "free" /\ \A g \in Fd \ {f} : fdt'[g] = fdt[g]
    BY <1>1 DEF TypeOK
  <1>8. PhaseOf(f)' = "idle" /\ Owed(f)' = 0
    <2>1. Owed(f)' = Owed(f)
      BY <1>3, <1>4 DEF Owed, One
    <2> QED
      BY <1>5, <1>7, <2>1, PhaseCases DEF PhaseOf
  <1>9. ASSUME NEW g \in Fd \ {f} PROVE SamePhase(g)
    BY <1>3, <1>4, <1>7, PhaseFrame
  <1>10. Lifecycle!Move(f, "accepted", "idle", 0)
    BY <1>6, <1>8, <1>9, MoveOfLifecycle DEF Moves
  <1> QED
    BY <1>10 DEF Lifecycle!Refuse

\* A prepared connection waits for its request.
LEMMA AcceptConnectionLife ==
    ASSUME IInv, IInv', NEW s \in Slot, NEW f \in Fd, AcceptConnection(s, f)
    PROVE  Lifecycle!Receive(f)
  <1> DEFINE ops == <<Op(f, "recv"), Op(ListenFd, "accept")>>
  <1>1. /\ TypeOK /\ NoDuplicateOperation /\ AcceptControl /\ Completed(s, f) /\ action[s] = "ACCEPT"
        /\ Push(ops) /\ ConnectionState(f) /\ UNCHANGED fdt
    BY DEF AcceptConnection, IInv, RingInv
  <1>2. /\ action'[ListenFd] = "ACCEPT" /\ \A g \in Fd : action'[g] # "ACCEPT"
    BY <1>1, FdAssumption DEF AcceptConnection, TypeOK, Slot, AcceptControl
  <1>3. f \in NewFds
    <2>1. ops \in Seq(Sqe)
      BY OpType
    <2> QED
      BY <1>1, <2>1, PushOutstanding DEF Push
  <1>4. Idle(f) /\ PhaseOf(f) = "accepted"
    BY <1>1, <1>3, PhaseCases DEF ConnectionState
  <1>5. Op(f, "recv") \notin Outstanding
    BY <1>4 DEF Idle, Kind
  <1>6. /\ RingInv' /\ Outstanding' = Outstanding \cup {Op(g, "recv") : g \in {f}}
        /\ NewFds' = NewFds \ {f} /\ CqOps' = CqOps \ {Op(ListenFd, "accept")}
    <2>1. \E g \in Fd : /\ ops = <<Op(g, "recv"), Op(ListenFd, "accept")>>
                        /\ {f} = {g} /\ Op(g, "recv") \notin Outstanding
      BY <1>5
    <2> QED
      BY <1>1, <1>2, <2>1, AcceptRings
  <1>7. ASSUME NEW g \in Fd \ {f} PROVE SamePhase(g)
    <2>1. \A k \in Kind : Op(g, k) \in Outstanding' <=> Op(g, k) \in Outstanding
      BY <1>6 DEF Op
    <2> QED
      BY <1>1, <1>6, <2>1, PhaseFrame
  <1>8. PhaseOf(f)' = "receiving" /\ Owed(f)' = 0
    <2>1. fdt'[f] = "sock" /\ f \notin NewFds' /\ Op(f, "recv") \in Outstanding'
      BY <1>1, <1>3, <1>6 DEF ConnectionState
    <2>2. \A k \in ResponseKind : Op(f, k) \notin Outstanding'
      BY <1>4, <1>6 DEF Idle, Op, Kind, ResponseKind
    <2>3. Owed(f)' = 0
      BY <2>2 DEF Owed, One, ResponseKind
    <2> QED
      BY <2>1, <2>3 DEF PhaseOf
  <1>9. Lifecycle!Move(f, "accepted", "receiving", 0)
    BY <1>4, <1>7, <1>8, MoveOfLifecycle DEF Moves
  <1> QED
    BY <1>9 DEF Lifecycle!Receive

\* A read error, and a handler that gives up at its first resumption, leave the
\* connection open with nothing outstanding.
LEMMA StallLife ==
    ASSUME IInv, NEW f \in Fd, RecvError(f) \/ \E r \in ResultCode : HandlerInitFails(f, r)
    PROVE  Lifecycle!Stall(f)
  <1>1. PICK r \in ResultCode :
           Resumed(f, r) /\ (action[f] = "RECV" \/ coro[f] = "CREATED") /\ Push(<<>>)
           /\ action' = action /\ UNCHANGED fdt
    BY DEF RecvError, HandlerInitFails, FdtAtExit, ResultCode
  <1>2. HeadOp = Op(f, "recv") /\ HeadOp \in Outstanding
    BY <1>1, HeadIsOfConnection
  <1>3. /\ Outstanding' = Outstanding \ {HeadOp} /\ NewFds' = NewFds
        /\ \A g \in Fd \ {f}, k \in Kind : Op(g, k) \in Outstanding' <=> Op(g, k) \in Outstanding
    BY <1>1, ResumedQuietly
  <1>4. /\ \A k \in Kind : Op(f, k) \notin Outstanding'
        /\ f \notin NewFds /\ fdt[f] = "sock" /\ Owed(f)' = 0
    BY <1>1, <1>2, <1>3, RecvReported
  <1>5. PhaseOf(f) = "receiving"
    BY <1>2, PhaseCases
  <1>6. PhaseOf(f)' = "stalled"
    BY <1>1, <1>3, <1>4 DEF PhaseOf, Kind
  <1>7. ASSUME NEW g \in Fd \ {f} PROVE SamePhase(g)
    BY <1>1, <1>3, PhaseFrame
  <1>8. Lifecycle!Move(f, "receiving", "stalled", 0)
    BY <1>4, <1>5, <1>6, <1>7, MoveOfLifecycle DEF Moves
  <1> QED
    BY <1>8 DEF Lifecycle!Stall

\* The peer closes before it has sent a request: the descriptor is given up.
LEMMA PeerClosesLife ==
    ASSUME IInv, NEW f \in Fd, RecvPeerClosed(f)
    PROVE  Lifecycle!PeerCloses(f)
  <1>1. /\ Resumed(f, "zero") /\ action[f] = "RECV" /\ Push(<<>>) /\ action' = action
        /\ fdt' = [fdt EXCEPT ![f] = "free"]
    BY DEF RecvPeerClosed, Reset
  <1>2. HeadOp = Op(f, "recv") /\ HeadOp \in Outstanding
    BY <1>1, HeadIsOfConnection
  <1>3. /\ Outstanding' = Outstanding \ {HeadOp} /\ NewFds' = NewFds
        /\ \A g \in Fd \ {f}, k \in Kind : Op(g, k) \in Outstanding' <=> Op(g, k) \in Outstanding
    BY <1>1, ResumedQuietly
  <1>4. Owed(f)' = 0
    BY <1>1, <1>2, <1>3, RecvReported
  <1>5. PhaseOf(f) = "receiving"
    BY <1>2, PhaseCases
  <1>6. fdt'[f] = "free" /\ \A g \in Fd \ {f} : fdt'[g] = fdt[g]
    BY <1>1 DEF IInv, TypeOK
  <1>7. ASSUME NEW g \in Fd \ {f} PROVE SamePhase(g)
    BY <1>3, <1>6, PhaseFrame
  <1>8. Lifecycle!Move(f, "receiving", "idle", 0)
    BY <1>4, <1>5, <1>6, <1>7, MoveOfLifecycle DEF Moves, PhaseOf
  <1> QED
    BY <1>8 DEF Lifecycle!PeerCloses

\* A reported operation of a response: one fewer is owed, and the descriptor is
\* given up with the last one and not before.
LEMMA StepDoneLife ==
    ASSUME IInv, NEW f \in Fd, NEW r, StepDone(f, r)
    PROVE  Lifecycle!Progress(f) \/ Lifecycle!Finish(f)
  <1>1. /\ Resumed(f, r) /\ action[f] \in {"SEND", "SPLICE"} /\ Push(<<>>) /\ action' = action
        /\ TypeOK /\ ConnectionState(f)
    BY DEF StepDone, LastStep, Reset, IInv
  <1>2. HeadOp.kind \in ResponseKind /\ HeadOp = Op(f, HeadOp.kind) /\ HeadOp \in Outstanding
    BY <1>1, HeadIsOfConnection
  <1>3. /\ Outstanding' = Outstanding \ {HeadOp} /\ NewFds' = NewFds
        /\ \A g \in Fd \ {f}, k \in Kind : Op(g, k) \in Outstanding' <=> Op(g, k) \in Outstanding
    BY <1>1, ResumedQuietly
  <1>4. \A k \in Kind : Op(f, k) \in Outstanding' <=> Op(f, k) \in Outstanding /\ k # HeadOp.kind
    BY <1>2, <1>3 DEF Op
  <1>5. Owed(f)' = Owed(f) - 1
    <2>1. HeadOp.kind \in {"send", "splice_in", "splice_out"}
      BY <1>2 DEF ResponseKind
    <2>2. Op(f, HeadOp.kind) \in Outstanding
      BY <1>2
    <2> QED
      BY <1>4, <2>1, <2>2 DEF Owed, One, Kind, ResponseKind
  <1>6. PhaseOf(f) = "responding" /\ Owed(f) \in Nat /\ Owed(f) > 0
    BY <1>2, PhaseCases
  <1>7. /\ fdt[f] = "sock" /\ f \notin NewFds /\ Op(f, "recv") \notin Outstanding
        /\ total_steps[f] - cur_steps[f] = Owed(f)
    BY <1>1, <1>2 DEF ConnectionState
  <1>8. total_steps[f] \in Nat /\ cur_steps[f] \in Nat
    BY <1>1 DEF TypeOK
  <1>9. CASE cur_steps[f] + 1 = total_steps[f]
    <2>1. Owed(f) = 1
      BY <1>7, <1>8, <1>9
    <2>2. fdt' = [fdt EXCEPT ![f] = "free"]
      BY <1>9 DEF StepDone, LastStep, Reset
    <2>3. fdt'[f] = "free" /\ \A g \in Fd \ {f} : fdt'[g] = fdt[g]
      BY <1>1, <2>2 DEF TypeOK
    <2>4. ASSUME NEW g \in Fd \ {f} PROVE SamePhase(g)
      BY <1>3, <2>3, PhaseFrame
    <2>5. PhaseOf(f)' = "idle" /\ Owed(f)' = 0
      BY <1>5, <2>1, <2>3 DEF PhaseOf
    <2>6. Lifecycle!Move(f, "responding", "idle", 0)
      BY <1>6, <2>4, <2>5, MoveOfLifecycle DEF Moves
    <2> QED
      BY <2>1, <2>6 DEF Lifecycle!Finish
  <1>10. CASE cur_steps[f] + 1 # total_steps[f]
    <2>1. Owed(f) > 1
      BY <1>6, <1>7, <1>8, <1>10
    <2>2. UNCHANGED fdt
      BY <1>10 DEF StepDone, LastStep
    <2>3. ASSUME NEW g \in Fd \ {f} PROVE SamePhase(g)
      BY <1>3, <2>2, PhaseFrame
    <2>4. Op(f, "recv") \notin Outstanding'
      BY <1>3, <1>7
    <2>5. PhaseOf(f)' = "responding"
      <3>1. Owed(f)' > 0
        BY <1>5, <1>6, <2>1
      <3> QED
        BY <1>3, <1>7, <2>2, <2>4, <3>1 DEF PhaseOf
    <2>6. Lifecycle!Move(f, "responding", "responding", Owed(f) - 1)
      BY <1>5, <1>6, <2>3, <2>5, MoveOfLifecycle DEF Moves
    <2> QED
      BY <2>1, <2>6 DEF Lifecycle!Progress
  <1> QED
    BY <1>9, <1>10

\* The answer to a request: as many operations are owed as were pushed.
LEMMA RespondLife ==
    ASSUME IInv, NEW f \in Fd, NEW r, Resumed(f, r), action[f] = "RECV", NEW ops, NEW parts,
           \/ ops = <<Op(f, "send")>>
           \/ ops = <<Op(f, "send"), Op(f, "splice_in"), Op(f, "splice_out")>>,
           Respond(f, ops, parts),
           \A g \in Fd : fdt'[g] = fdt[g] \/ (fdt[g] = "free" /\ fdt'[g] = "file")
    PROVE  Lifecycle!Answer(f)
  <1>1. TypeOK /\ ConnectionState(f) /\ Push(ops)
    BY DEF Respond, IInv
  <1>2. HeadOp = Op(f, "recv") /\ HeadOp \in Outstanding
    BY HeadIsOfConnection
  <1>3. /\ fdt[f] = "sock" /\ f \notin NewFds
        /\ \A k \in ResponseKind : Op(f, k) \notin Outstanding
    BY <1>1, <1>2 DEF ConnectionState
  <1>4. /\ ops \in Seq(Sqe)
        /\ \A i, j \in 1..Len(ops) : ops[i] = ops[j] => i = j
        /\ \A op \in Range(ops) : op.slot = f /\ op.kind \in ResponseKind
        /\ \/ Len(ops) = 1 /\ Range(ops) = {Op(f, "send")}
           \/ Len(ops) = 3 /\ Range(ops) = {Op(f, "send"), Op(f, "splice_in"), Op(f, "splice_out")}
    BY ResponseOps
  <1>5. Range(ops) \cap Outstanding = {}
    BY <1>3, <1>4 DEF ResponseKind
  <1>6. f \in Slot /\ action'[f] \in {"SEND", "SPLICE"} /\ \A s \in Slot \ {f} : action'[s] = action[s]
    BY <1>1 DEF Respond, PushedAction, TypeOK, Slot
  <1>7. /\ RingInv'
        /\ Outstanding' = (Outstanding \ {HeadOp}) \cup Range(ops)
        /\ NewFds' = NewFds
        /\ \A g \in Fd \ {f}, k \in Kind : Op(g, k) \in Outstanding' <=> Op(g, k) \in Outstanding
    BY <1>1, <1>4, <1>5, <1>6, ResumedRings
  <1>8. ASSUME NEW g \in Fd \ {f} PROVE SamePhase(g)
    <2>1. fdt'[g] = fdt[g] \/ (fdt[g] # "sock" /\ fdt'[g] # "sock")
      OBVIOUS
    <2> QED
      BY <1>7, <2>1, PhaseFrame
  <1>9. Op(f, "recv") \notin Outstanding' /\ fdt'[f] = "sock"
    BY <1>2, <1>3, <1>4, <1>7 DEF Op
  <1>10. Owed(f)' = Len(ops) /\ Len(ops) \in {1, 3}
    <2>1. /\ Op(f, "splice_in") # Op(f, "send") /\ Op(f, "splice_out") # Op(f, "send")
          /\ Op(f, "splice_in") \notin Outstanding /\ Op(f, "splice_out") \notin Outstanding
      BY <1>3 DEF Op, ResponseKind
    <2>2. CASE Len(ops) = 1 /\ Range(ops) = {Op(f, "send")}
      <3>1. /\ Op(f, "send") \in Outstanding'
            /\ Op(f, "splice_in") \notin Outstanding' /\ Op(f, "splice_out") \notin Outstanding'
        BY <1>7, <2>1, <2>2
      <3> QED
        BY <2>2, <3>1 DEF Owed, One
    <2>3. CASE Len(ops) = 3 /\ Range(ops) = {Op(f, "send"), Op(f, "splice_in"), Op(f, "splice_out")}
      <3>1. /\ Op(f, "send") \in Outstanding'
            /\ Op(f, "splice_in") \in Outstanding' /\ Op(f, "splice_out") \in Outstanding'
        BY <1>7, <2>3
      <3> QED
        BY <2>3, <3>1 DEF Owed, One
    <2> QED
      BY <1>4, <2>2, <2>3
  <1>11. PhaseOf(f) = "receiving" /\ PhaseOf(f)' = "responding"
    <2>1. Owed(f)' > 0
      BY <1>10
    <2> QED
      BY <1>2, <1>3, <1>7, <1>9, <2>1, PhaseCases DEF PhaseOf
  <1>12. Lifecycle!Move(f, "receiving", "responding", Len(ops))
    BY <1>8, <1>10, <1>11, MoveOfLifecycle DEF Moves
  <1> QED
    BY <1>10, <1>12 DEF Lifecycle!Answer

\* Every way to answer a request is the same step of the life cycle; the one
\* that faults instead shows nothing.
LEMMA ReplyLife ==
    ASSUME IInv, NEW f \in Fd,
           \/ RecvTooLarge(f) \/ RecvRejected(f) \/ RecvDynamic(f) \/ RecvStaticFails(f)
           \/ \E g \in Fd : RecvStaticOpened(f, g)
           \/ RecvStaticCached(f)
    PROVE  Lifecycle!Answer(f) \/ \A g \in Fd : SamePhase(g)
  <1> DEFINE FdtOK == \A g \in Fd : fdt'[g] = fdt[g] \/ (fdt[g] = "free" /\ fdt'[g] = "file")
             Goal == Lifecycle!Answer(f) \/ \A g \in Fd : SamePhase(g)
  <1> SUFFICES Goal
    OBVIOUS
  <1>1. \E r : Resumed(f, r) /\ action[f] = "RECV"
    BY DEF RecvTooLarge, RecvRejected, RecvDynamic, RecvStaticFails, RecvStaticOpened, RecvStaticCached
  <1>2. fdt' = fdt => FdtOK
    OBVIOUS
  <1>3. ASSUME NEW parts, ErrorReply(f, parts), FdtOK PROVE Goal
    BY <1>1, <1>3, RespondLife DEF ErrorReply
  <1>4. ASSUME FullReply(f), FdtOK PROVE Goal
    <2>1. CASE WatchStaticFiles
      BY <1>1, <1>4, <2>1, RespondLife DEF FullReply
    <2>2. CASE ~WatchStaticFiles
      BY <1>1, <1>4, <2>2, RespondLife DEF FullReply
    <2> QED
      BY <2>1, <2>2
  <1> HIDE DEF FdtOK, Goal
  <1>5. CASE RecvTooLarge(f)
    BY <1>2, <1>3, <1>5 DEF RecvTooLarge
  <1>6. CASE RecvRejected(f)
    BY <1>2, <1>3, <1>6 DEF RecvRejected
  <1>7. CASE RecvDynamic(f)
    BY <1>2, <1>4, <1>7 DEF RecvDynamic
  <1>8. CASE RecvStaticFails(f)
    BY <1>2, <1>3, <1>8 DEF RecvStaticFails
  <1>9. ASSUME NEW g \in Fd, RecvStaticOpened(f, g) PROVE Goal
    <2>1. FdtOK
      BY <1>9 DEF FdtOK, RecvStaticOpened, IInv, TypeOK
    <2> QED
      BY <1>3, <1>4, <1>9, <2>1 DEF RecvStaticOpened
  <1>10. CASE RecvStaticCached(f)
    <2>1. CASE Crash
      <3>1. UNCHANGED fdt /\ Outstanding' = Outstanding /\ NewFds' = NewFds
        BY <2>1 DEF Crash, rings, Outstanding, CqOps, NewFds, Unseen
      <3> QED
        BY <3>1, SilentLife DEF Goal
    <2>2. CASE ~Crash
      BY <1>2, <1>4, <1>10, <2>2 DEF RecvStaticCached
    <2> QED
      BY <2>1, <2>2
  <1> QED
    BY <1>5, <1>6, <1>7, <1>8, <1>9, <1>10

\* Steps that show nothing of a connection.
LEMMA SilentSteps ==
    ASSUME IInv,
           \/ SetupFails \/ ListenStart \/ Submit \/ WaitReturns \/ BatchEnds \/ Advance
           \/ \E s \in Slot, f \in Fd : AcceptWithoutBuffer(s, f)
           \/ \E f \in Fd : RecvCompletes(f) \/ \E k \in ResponseKind : ResponseOpCompletes(f, k)
           \/ UNCHANGED vars
    PROVE  \A g \in Fd : SamePhase(g)
  <1> DEFINE Same == UNCHANGED fdt /\ Outstanding' = Outstanding /\ NewFds' = NewFds
  <1>1. TypeOK /\ NoDuplicateOperation /\ BatchControl
    BY DEF IInv, RingInv
  <1>2. UNCHANGED <<rings, fdt>> => Same
    BY DEF rings, Outstanding, CqOps, NewFds, Unseen
  <1>3. CASE SetupFails \/ UNCHANGED vars \/ \E s \in Slot, f \in Fd : AcceptWithoutBuffer(s, f)
    BY <1>2, <1>3, SilentLife DEF SetupFails, vars, AcceptWithoutBuffer, Crash
  <1>4. CASE Submit \/ WaitReturns \/ BatchEnds \/ Advance
    <2>1. Outstanding' = Outstanding /\ NewFds' = NewFds
      BY <1>1, <1>4, LoopRings
    <2>2. UNCHANGED fdt
      BY <1>4 DEF Submit, WaitReturns, BatchEnds, Advance
    <2> QED
      BY <2>1, <2>2, SilentLife
  <1>5. ASSUME NEW f \in Fd, RecvCompletes(f) PROVE Same
    <2>1. f \in Slot /\ "recv" \in Kind /\ {"neg", "zero", "cap", "pos"} \cap Fd = {}
      BY FdAssumption DEF Slot, Kind, ResultCode
    <2>2. PICK r \in {"neg", "zero", "cap", "pos"} : Post(f, "recv", r)
      BY <1>5 DEF RecvCompletes
    <2>3. Outstanding' = Outstanding /\ NewFds' = NewFds \cup ({r} \cap Fd)
      BY <1>1, <2>2, PostRings
    <2> QED
      BY <1>5, <2>1, <2>2, <2>3 DEF RecvCompletes
  <1>6. ASSUME NEW f \in Fd, NEW k \in ResponseKind, ResponseOpCompletes(f, k) PROVE Same
    <2>1. {"neg", "pos"} \cap Fd = {}
      BY FdAssumption DEF ResultCode
    <2>2. PICK r \in {"neg", "pos"} : Post(f, k, r)
      BY <1>6 DEF ResponseOpCompletes
    <2>3. Outstanding' = Outstanding /\ NewFds' = NewFds \cup ({r} \cap Fd)
      BY <1>1, <2>2, PostRings
    <2> QED
      BY <1>6, <2>1, <2>2, <2>3 DEF ResponseOpCompletes
  <1>7. CASE ListenStart
    <2>1. ASSUME NEW g \in Fd PROVE SamePhase(g)
      <3>1. fdt[g] = "free" /\ fdt'[g] = "free" /\ sq = <<>> /\ cq = <<>> /\ head = 0 /\ inflight = {}
        BY <1>1, <1>7 DEF ListenStart, BatchControl, TypeOK
      <3>2. Outstanding = {} /\ NewFds = {} /\ NewFds' = {}
        BY <1>7, <3>1 DEF ListenStart, Outstanding, CqOps, NewFds, Unseen, Range
      <3>3. Outstanding' = {Op(ListenFd, "accept")}
        <4>1. Len(sq') = 1 /\ DOMAIN sq' = {1} /\ sq'[1] = Op(ListenFd, "accept")
          BY <1>7 DEF ListenStart
        <4>2. Range(sq') = {Op(ListenFd, "accept")}
          BY <4>1 DEF Range
        <4>3. CqOps' = {}
          BY <1>7, <3>1 DEF ListenStart, CqOps, Unseen
        <4> QED
          BY <1>7, <3>1, <4>2, <4>3 DEF Outstanding, ListenStart
      <3>4. \A k \in Kind : Op(g, k) # Op(ListenFd, "accept")
        BY FdAssumption DEF Op
      <3> QED
        BY <3>1, <3>2, <3>3, <3>4, PhaseFrame
    <2> QED
      BY <2>1
  <1> HIDE DEF Same
  <1>8. Same => \A g \in Fd : SamePhase(g)
    BY SilentLife DEF Same
  <1> QED
    BY <1>3, <1>4, <1>5, <1>6, <1>7, <1>8

\* Every step of the loop and the kernel is a step of the life cycle of one
\* connection, or shows nothing.
LEMMA LifeStep ==
    ASSUME IInv, IInv', [Next]_vars
    PROVE  [Lifecycle!Next]_<<[f \in Fd |-> PhaseOf(f)], [f \in Fd |-> Owed(f)]>>
  <1> DEFINE phase == [f \in Fd |-> PhaseOf(f)]
             owed == [f \in Fd |-> Owed(f)]
             Same == \A g \in Fd : SamePhase(g)
             Step(f) == \/ Lifecycle!Accept(f) \/ Lifecycle!Refuse(f) \/ Lifecycle!Receive(f)
                        \/ Lifecycle!PeerCloses(f) \/ Lifecycle!Stall(f) \/ Lifecycle!Answer(f)
                        \/ Lifecycle!Progress(f) \/ Lifecycle!Finish(f)
             Goal == Same \/ \E f \in Fd : Step(f)
  <1>1. ASSUME AcceptCompletes PROVE Goal
    BY <1>1, AcceptCompletesLife
  <1>2. ASSUME NEW s \in Slot, AcceptAgain(s) \/ AcceptFails(s) PROVE Goal
    BY <1>2, AcceptAgainLife
  <1>3. ASSUME NEW s \in Slot, NEW f \in Fd, RefuseConnection(s, f) PROVE Goal
    BY <1>3, RefuseConnectionLife
  <1>4. ASSUME NEW s \in Slot, NEW f \in Fd, AcceptConnection(s, f) PROVE Goal
    BY <1>4, AcceptConnectionLife
  <1>5. ASSUME NEW f \in Fd, HandleRecv(f) PROVE Goal
    BY <1>5, StallLife, PeerClosesLife, ReplyLife DEF HandleRecv
  <1>6. ASSUME NEW f \in Fd, NEW r \in ResultCode, HandlerInitFails(f, r) PROVE Goal
    BY <1>6, StallLife
  <1>7. ASSUME NEW f \in Fd, NEW r \in ResultCode, StepDone(f, r) PROVE Goal
    BY <1>7, StepDoneLife
  <1>8. ASSUME \/ SetupFails \/ ListenStart \/ Submit \/ WaitReturns \/ BatchEnds \/ Advance
               \/ \E s \in Slot, f \in Fd : AcceptWithoutBuffer(s, f)
               \/ \E f \in Fd : RecvCompletes(f) \/ \E k \in ResponseKind : ResponseOpCompletes(f, k)
               \/ UNCHANGED vars
        PROVE  Goal
    BY <1>8, SilentSteps
  <1>9. Goal
    <2> HIDE DEF Goal
    <2> QED
      BY <1>1, <1>2, <1>3, <1>4, <1>5, <1>6, <1>7, <1>8
         DEF Next, Loop, Kernel, Terminated, HandleAccept, ResumeCoroutine
  <1>10. Same => UNCHANGED <<phase, owed>>
    BY DEF SamePhase
  <1>11. (\E f \in Fd : Step(f)) /\ (phase' # phase \/ owed' # owed) => Lifecycle!Next
    BY DEF Lifecycle!Next
  <1> QED
    BY <1>9, <1>10, <1>11

\* The zeroed slots are idle connections that owe nothing.
LEMMA LifeInit == Init => Lifecycle!Init
  <1> SUFFICES ASSUME Init PROVE Lifecycle!Init
    OBVIOUS
  <1>1. IInv
    BY InvariantInit
  <1>2. \A f \in Fd : fdt[f] # "sock"
    BY DEF Init
  <1>3. \A f \in Fd : PhaseOf(f) = "idle" /\ Owed(f) = 0
    BY <1>1, <1>2, PhaseCases
  <1> QED
    BY <1>3 DEF Lifecycle!Init

\* The event loop implements ConnLifecycle: whatever the interleaving of loop
\* and kernel and whatever fails, every connection is accepted, received from
\* once and answered once, and its descriptor is given up exactly when the last
\* operation of the answer was reported.
THEOREM Refinement == Spec => ImplementsLifecycle
  <1>1. IInv /\ IInv' /\ [Next]_vars =>
           [Lifecycle!Next]_<<[f \in Fd |-> PhaseOf(f)], [f \in Fd |-> Owed(f)]>>
    BY LifeStep
  <1> QED
    BY <1>1, LifeInit, Invariance, PTL DEF Spec, ImplementsLifecycle, Lifecycle!Spec

-----------------------------------------------------------------------------
(* The depth of the submission queue, and what the loop may dereference.   *)

\* Where an operation is counted: a recv takes the place of the send that
\* answers it, since the two are never outstanding together.
Place(op) == <<op.slot, IF op.kind = "recv" THEN "send" ELSE op.kind>>

\* Three places for every open connection and one for the accept.
Places == (OpenSockets \X ResponseKind) \cup {<<ListenFd, "accept">>}

\* There are 3 * |OpenSockets| + 1 places.
LEMMA PlacesCount ==
    ASSUME IsFiniteSet(Fd)
    PROVE  /\ IsFiniteSet(Places)
           /\ Cardinality(OpenSockets) \in Nat
           /\ Cardinality(Places) = 3 * Cardinality(OpenSockets) + 1
  <1>0. IsFiniteSet(OpenSockets)
    BY FS_Subset DEF OpenSockets
  <1>1. IsFiniteSet({"send"}) /\ Cardinality({"send"}) = 1
    BY FS_Singleton
  <1>2. /\ IsFiniteSet({"send"} \cup {"splice_in"})
        /\ Cardinality({"send"} \cup {"splice_in"}) = 2
    BY <1>1, FS_AddElement
  <1>3. /\ IsFiniteSet(({"send"} \cup {"splice_in"}) \cup {"splice_out"})
        /\ Cardinality(({"send"} \cup {"splice_in"}) \cup {"splice_out"}) = 3
    <2>1. "splice_out" \notin {"send"} \cup {"splice_in"}
      OBVIOUS
    <2> QED
      BY <1>2, <2>1, FS_AddElement
  <1>4. ResponseKind = ({"send"} \cup {"splice_in"}) \cup {"splice_out"}
    BY DEF ResponseKind
  <1>5. IsFiniteSet(ResponseKind) /\ Cardinality(ResponseKind) = 3
    BY <1>3, <1>4
  <1>6. /\ IsFiniteSet(OpenSockets \X ResponseKind)
        /\ Cardinality(OpenSockets \X ResponseKind) = Cardinality(OpenSockets) * 3
    BY <1>0, <1>5, FS_Product
  <1>7. Cardinality(OpenSockets) \in Nat
    BY <1>0, FS_CardinalityType
  <1>8. <<ListenFd, "accept">> \notin OpenSockets \X ResponseKind
    BY FdAssumption DEF OpenSockets
  <1>9. /\ IsFiniteSet(Places)
        /\ Cardinality(Places) = Cardinality(OpenSockets \X ResponseKind) + 1
    BY <1>6, <1>8, FS_AddElement DEF Places
  <1> QED
    BY <1>6, <1>7, <1>9

\* The submission queue never holds more than a response of three operations
\* for every open connection and the accept.
QueueBound == Len(sq) <= 3 * Cardinality(OpenSockets) + 1

\* No two pushed operations have the same place.
LEMMA QueueFits ==
    ASSUME IInv, IsFiniteSet(Fd)
    PROVE  QueueBound
  <1> DEFINE h == [i \in 1..Len(sq) |-> Place(sq[i])]
  <1>1. /\ TypeOK /\ AcceptControl /\ \A f \in Fd : ConnectionState(f)
        /\ \A i, j \in 1..Len(sq) : sq[i] = sq[j] => i = j
    BY DEF IInv, RingInv, NoDuplicateOperation
  <1>2. \A i \in 1..Len(sq) : sq[i] \in Outstanding
    BY <1>1 DEF Outstanding, Range, TypeOK
  <1>3. \A op \in Outstanding :
           /\ op.slot \in Slot /\ op.kind \in Kind /\ op = Op(op.slot, op.kind)
           /\ op.kind = "accept" <=> op.slot = ListenFd
    BY <1>1, OutstandingType DEF Sqe, AcceptControl
  <1>4. \A op \in Outstanding : Place(op) \in Places
    <2> SUFFICES ASSUME NEW op \in Outstanding PROVE Place(op) \in Places
      OBVIOUS
    <2>1. CASE op.kind = "accept"
      BY <1>3, <2>1 DEF Place, Places
    <2>2. CASE op.kind # "accept"
      <3>1. op.slot \in Fd /\ op.kind \in ResponseKind \cup {"recv"}
        BY <1>3, <2>2 DEF Slot, Kind
      <3>2. op.slot \in OpenSockets
        BY <1>1, <1>3, <3>1 DEF ConnectionState, OpenSockets
      <3> QED
        BY <3>1, <3>2 DEF Place, Places, ResponseKind
    <2> QED
      BY <2>1, <2>2
  <1>5. \A f \in Fd : ~(Op(f, "recv") \in Outstanding /\ Op(f, "send") \in Outstanding)
    BY <1>1 DEF ConnectionState, ResponseKind
  <1>6. \A a, b \in Outstanding : Place(a) = Place(b) => a = b
    <2> SUFFICES ASSUME NEW a \in Outstanding, NEW b \in Outstanding, Place(a) = Place(b) PROVE a = b
      OBVIOUS
    <2>1. /\ a.slot = b.slot
          /\ (IF a.kind = "recv" THEN "send" ELSE a.kind) = (IF b.kind = "recv" THEN "send" ELSE b.kind)
      BY DEF Place
    <2>2. CASE a.kind = b.kind
      BY <1>3, <2>1, <2>2
    <2>3. CASE a.kind # b.kind
      <3>1. {a.kind, b.kind} = {"recv", "send"}
        BY <2>1, <2>3
      <3>2. a.slot \in Fd
        BY <1>3, <3>1 DEF Slot
      <3> QED
        BY <1>3, <1>5, <2>1, <3>1, <3>2
    <2> QED
      BY <2>2, <2>3
  <1>7. h \in Injection(1..Len(sq), Places)
    <2>1. h \in [1..Len(sq) -> Places]
      BY <1>2, <1>4
    <2>2. \A i, j \in 1..Len(sq) : h[i] = h[j] => i = j
      BY <1>1, <1>2, <1>6
    <2> QED
      BY <2>1, <2>2 DEF Injection, IsInjective
  <1> HIDE DEF h
  <1>8. Len(sq) \in Nat
    BY <1>1 DEF TypeOK
  <1>9. Cardinality(1..Len(sq)) = Len(sq)
    <2>1. \A n \in Nat : Cardinality(1..n) = n
      BY FS_Interval
    <2> QED
      BY <1>8, <2>1
  <1>10. Cardinality(1..Len(sq)) <= Cardinality(Places)
    BY <1>7, PlacesCount, FS_Injection
  <1> QED
    BY <1>8, <1>9, <1>10, PlacesCount DEF QueueBound

\* However many connections complete in one batch, what the loop pushes until
\* the next submit is at most three entries for every connection that is open
\* and one for the accept: in both builds, whatever fails and whatever the depth
\* of the queue.
THEOREM QueueIsBounded ==
    ASSUME IsFiniteSet(Fd)
    PROVE  Spec => []QueueBound
  <1>1. IInv => QueueBound
    BY QueueFits
  <1> QED
    BY <1>1, Invariance, PTL

\* A push crashes the loop only when the queue is full, and then the open
\* connections are too many for it.
LEMMA PushCrash ==
    ASSUME TypeOK, QueueBound', Cardinality(OpenSockets)' \in Nat, NEW ops \in Seq(Sqe), Push(ops)
    PROVE  CrashHasCause'
  <1>1. Len(sq') = Len(sq) + Len(ops) /\ Len(sq) \in Nat /\ Len(ops) \in Nat
    BY DEF Push, Consume, TypeOK
  <1>2. pc' = "crashed" => Len(sq') > QD
    BY <1>1, QDAssumption DEF Push
  <1>3. pc' = "crashed" => 3 * Cardinality(OpenSockets)' + 1 > QD
    BY <1>1, <1>2, QDAssumption DEF QueueBound
  <1> QED
    BY <1>2, <1>3 DEF CrashHasCause

\* One case per way of crashing.
LEMMA CrashStep ==
    ASSUME TypeOK, QueueBound', Cardinality(OpenSockets)' \in Nat, CrashHasCause, [Next]_vars
    PROVE  CrashHasCause'
  <1> USE OpType
  <1>1. ASSUME NEW ops \in Seq(Sqe), Push(ops) PROVE CrashHasCause'
    BY <1>1, PushCrash
  <1>2. /\ <<>> \in Seq(Sqe) /\ <<Op(ListenFd, "accept")>> \in Seq(Sqe)
        /\ \A f \in Fd : <<Op(f, "recv"), Op(ListenFd, "accept")>> \in Seq(Sqe)
        /\ \A f \in Fd : <<Op(f, "send")>> \in Seq(Sqe)
        /\ \A f \in Fd : <<Op(f, "send"), Op(f, "splice_in"), Op(f, "splice_out")>> \in Seq(Sqe)
    BY DEF ResponseKind
  <1>3. ASSUME NEW s \in Slot, AcceptAgain(s) PROVE CrashHasCause'
    BY <1>1, <1>2, <1>3 DEF AcceptAgain, Rearm
  <1>4. ASSUME NEW s \in Slot, AcceptFails(s) PROVE CrashHasCause'
    BY <1>4 DEF AcceptFails, CrashHasCause
  <1>5. ASSUME NEW s \in Slot, NEW f \in Fd, RefuseConnection(s, f) PROVE CrashHasCause'
    BY <1>1, <1>2, <1>5 DEF RefuseConnection
  <1>6. ASSUME NEW s \in Slot, NEW f \in Fd, AcceptConnection(s, f) PROVE CrashHasCause'
    BY <1>1, <1>2, <1>6 DEF AcceptConnection
  <1>7. ASSUME NEW s \in Slot, NEW f \in Fd, AcceptWithoutBuffer(s, f) PROVE CrashHasCause'
    <2>1. coro'[f] # "NULL" /\ ~str'[f]
      BY <1>7 DEF AcceptWithoutBuffer, Crash, slots
    <2> QED
      BY <2>1 DEF CrashHasCause
  <1>8. ASSUME NEW f \in Fd, HandleRecv(f) PROVE CrashHasCause'
    <2>1. CASE RecvStaticCached(f) /\ Crash
      <3>1. ~WatchStaticFiles' /\ data'
        BY <2>1 DEF RecvStaticCached, Crash
      <3> QED
        BY <3>1 DEF CrashHasCause
    <2>2. CASE ~(RecvStaticCached(f) /\ Crash)
      <3>1. \/ Push(<<>>) \/ Push(<<Op(f, "send")>>)
            \/ Push(<<Op(f, "send"), Op(f, "splice_in"), Op(f, "splice_out")>>)
        BY <1>8, <2>2 DEF HandleRecv, RecvError, RecvPeerClosed, RecvTooLarge, RecvRejected,
                    RecvDynamic, RecvStaticFails, RecvStaticOpened, RecvStaticCached,
                    ErrorReply, FullReply, Respond
      <3> QED
        BY <1>1, <1>2, <3>1
    <2> QED
      BY <2>1, <2>2
  <1>9. ASSUME NEW f \in Fd, NEW r \in ResultCode, HandlerInitFails(f, r) \/ StepDone(f, r)
        PROVE  CrashHasCause'
    BY <1>1, <1>2, <1>9 DEF HandlerInitFails, StepDone
  <1>10. ASSUME SetupFails \/ ListenStart \/ Submit \/ WaitReturns \/ BatchEnds \/ Advance
         PROVE  CrashHasCause'
    BY <1>10 DEF SetupFails, ListenStart, Submit, WaitReturns, BatchEnds, Advance, CrashHasCause
  <1>11. ASSUME Kernel PROVE CrashHasCause'
    BY <1>11 DEF Kernel, AcceptCompletes, RecvCompletes, ResponseOpCompletes, Post, Alive, CrashHasCause
  <1>12. ASSUME UNCHANGED vars PROVE CrashHasCause'
    BY <1>12 DEF vars, rings, slots, CrashHasCause, OpenSockets
  <1> QED
    BY <1>3, <1>4, <1>5, <1>6, <1>7, <1>8, <1>9, <1>10, <1>11, <1>12
       DEF Next, Loop, Terminated, HandleAccept, ResumeCoroutine

\* For every depth of the queue, build and pattern of failing allocations, the
\* thread writes through a NULL SQE only while more than (QD - 1) / 3 connections
\* are open, and dies otherwise only in a slot without a buffer or at a second
\* static request of the Release build.
THEOREM CrashesHaveCauses ==
    ASSUME IsFiniteSet(Fd)
    PROVE  Spec => []CrashHasCause
  <1>1. Init => CrashHasCause
    BY DEF Init, CrashHasCause
  <1>3. Cardinality(OpenSockets)' \in Nat
    <2>1. IsFiniteSet(OpenSockets')
      BY FS_Subset DEF OpenSockets
    <2> QED
      BY <2>1, FS_CardinalityType
  <1>4. TypeOK /\ QueueBound' /\ CrashHasCause /\ [Next]_vars => CrashHasCause'
    BY <1>3, CrashStep
  <1>5. Spec => []QueueBound
    BY QueueIsBounded
  <1> QED
    BY <1>1, <1>4, <1>5, TypeCorrect, PTL DEF Spec
=============================================================================
