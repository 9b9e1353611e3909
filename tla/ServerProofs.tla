---------------------------- MODULE ServerProofs ----------------------------
(***************************************************************************)
(* Theorems about Server, for every number of threads, every set of        *)
(* clients and both builds.                                                *)
(***************************************************************************)
EXTENDS Server, TLAPS

-----------------------------------------------------------------------------
(* The inductive invariant.                                                *)

\* What the type invariant leaves open: the locals of the loops, and clients
\* that are in one place only.
Clients ==
    /\ head \in [Thread -> Nat] /\ count \in [Thread -> Nat]
    /\ posted \in [Thread -> Seq(Conn)]
    /\ \A r \in Thread : \A i \in 1 .. Len(posted[r]) : posted[r][i] \notin backlog

\* How far create_server has come tells what it holds.
Holds ==
    /\ stage = "setup" =>
          /\ step \in 1 .. Len(Calls)
          /\ "svr" \in held => step > 2
          /\ "listen_fd" \in held => step > 3
          /\ "pipefds" \notin held
    /\ FailureGivesBack

\* Which threads main has started and which ones it has seen end.
Started ==
    /\ stage \in {"setup", "null"} => \A t \in Thread : thr[t] = "none"
    /\ stage = "start" =>
          /\ step \in 1 .. threads_cnt + 1
          /\ thr[0] = "none" /\ \A t \in Thread : t >= step => thr[t] = "none"
    /\ stage = "join" =>
          /\ step \in 1 .. threads_cnt + 1
          /\ thr[0] = "ended" /\ \A t \in 1 .. step - 1 : thr[t] \in {"none", "ended"}
    /\ ReturnsAfterAll

\* The inductive invariant.
IInv == TypeOK /\ Clients /\ Holds /\ Started /\ RingIsLive

-----------------------------------------------------------------------------
(* The calls of create_server.                                             *)

\* The calls in order, with what they acquire and where their failure goes.
LEMMA CallsAre ==
    /\ Len(Calls) = IF WatchStaticFiles THEN 9 ELSE 8
    /\ Calls[1] = Call("get_nofile_limit", {}, "EXIT")
    /\ Calls[2] = Call("malloc", {"svr"}, "EXIT")
    /\ Calls[3] = Call("socket", {"listen_fd"}, "FREE")
    /\ Calls[4] = Call("inet_aton", {}, "CLEANUP")
    /\ Calls[5] = Call("bind", {}, "CLEANUP")
    /\ Calls[6] = Call("fopen", {"somaxconn"}, "CLEANUP")
    /\ Calls[7] = Call("fscanf", {}, "CLEANUP")
    /\ Calls[8] = Call("listen", {}, "CLEANUP")
    /\ WatchStaticFiles => Calls[9] = Call("pipe2", {"pipefds"}, "FREE")
  <1> DEFINE a == << Call("get_nofile_limit", {}, "EXIT"), Call("malloc", {"svr"}, "EXIT") >>
             c == << Call("pipe2", {"pipefds"}, "FREE") >>
  <1>1. CASE WatchStaticFiles
    <2>1. Calls = (a \o SocketCalls) \o c
      BY <1>1 DEF Calls
    <2> QED
      BY <1>1, <2>1 DEF SocketCalls, BindLabel
  <1>2. CASE ~WatchStaticFiles
    <2>1. Calls = (a \o SocketCalls) \o <<>>
      BY <1>2 DEF Calls
    <2> QED
      BY <1>2, <2>1 DEF SocketCalls, BindLabel
  <1> QED
    BY <1>1, <1>2, BuildAssumption

-----------------------------------------------------------------------------
(* Every step keeps the invariant.                                         *)

\* The invariant holds initially.
LEMMA InitInv == Init => IInv
  <1> SUFFICES ASSUME Init PROVE IInv
    OBVIOUS
  <1> USE ThreadsAssumption DEF Init, Thread, NoRing
  <1>1. TypeOK
    BY CallsAre DEF TypeOK
  <1>2. Clients
    BY DEF Clients
  <1>3. Holds
    BY CallsAre DEF Holds, FailureGivesBack
  <1>4. Started /\ RingIsLive
    BY DEF Started, ReturnsAfterAll, RingIsLive, Listening
  <1> QED
    BY <1>1, <1>2, <1>3, <1>4 DEF IInv

\* A thread in its loop, and the ring svr->ring points to, are threads.
LEMMA RingOfListener ==
    ASSUME IInv, NEW t \in Thread, thr[t] \in {"push", "submit", "wait", "batch"}
    PROVE  svr_ring \in Thread
  BY DEF IInv, RingIsLive, Listening

\* The calls of create_server.
LEMMA SetupStep == ASSUME IInv, SetupCall \/ SetupCallFails PROVE IInv'
  <1> USE ThreadsAssumption
  <1>1. step \in 1 .. Len(Calls) /\ Len(Calls) \in {8, 9} /\ threads_cnt \in 0..MaxThreads
    BY CallsAre DEF SetupCall, SetupCallFails, IInv, Holds, TypeOK
  <1>2. TypeOK'
    BY <1>1 DEF SetupCall, SetupCallFails, IInv, TypeOK, locals, rings
  <1>3. Clients'
    BY DEF SetupCall, SetupCallFails, IInv, Clients, locals, rings
  <1>4. Started'
    <2>1. /\ stage = "setup" /\ stage' \in {"setup", "null", "start"}
          /\ stage' = "start" => step' = 1
          /\ thr' = thr /\ threads_cnt' = threads_cnt
      BY DEF SetupCall, SetupCallFails
    <2>2. 0 \in Thread /\ \A t \in Thread : thr[t] = "none"
      BY <2>1 DEF IInv, Started, Thread
    <2> QED
      BY <1>1, <2>1, <2>2 DEF Started, ReturnsAfterAll
  <1>5. RingIsLive'
    BY DEF SetupCall, SetupCallFails, IInv, RingIsLive, Listening
  <1>6. Holds'
    <2>1. CASE SetupCall
      BY <1>1, <2>1, CallsAre DEF SetupCall, IInv, Holds, FailureGivesBack, Call
    <2>2. CASE SetupCallFails
      BY <1>1, <2>2, CallsAre DEF SetupCallFails, IInv, Holds, FailureGivesBack, Call, Released
    <2> QED
      BY <2>1, <2>2
  <1> QED
    BY <1>2, <1>3, <1>4, <1>5, <1>6 DEF IInv

\* start_listening: creating, listening, joining, returning.
LEMMA MainStep ==
    ASSUME IInv,
           \/ StartFails \/ (\E created \in BOOLEAN : CreateThread(created)) \/ MainListens
           \/ MainReturns \/ JoinThread \/ StartReturns
    PROVE  IInv'
  <1> USE ThreadsAssumption
  <1> DEFINE Steps == \/ StartFails \/ (\E created \in BOOLEAN : CreateThread(created))
                      \/ MainListens \/ MainReturns \/ JoinThread \/ StartReturns
  <1>0. Steps
    OBVIOUS
  <1>1. /\ threads_cnt \in 0..MaxThreads /\ threads_cnt' = threads_cnt
        /\ Len(Calls) \in {8, 9} /\ 0 \in Thread
        /\ stage \in {"start", "listen", "join"}
        /\ stage' \in {"start", "listen", "join", "returned", "crashed"}
        /\ UNCHANGED <<svr_ring, sq, inflight, posted, khead, wring, head, count, backlog, handled>>
    BY <1>0, CallsAre DEF IInv, TypeOK, Thread, StartFails, CreateThread, MainListens, MainReturns,
       JoinThread, StartReturns, rings, locals
  <1>2. /\ stage \in {"start", "join"} => step \in 1 .. threads_cnt + 1
        /\ step \in 1 .. Len(Calls) + MaxThreads + 1
    BY DEF IInv, Started, TypeOK
  <1>3. Clients'
    BY <1>1 DEF IInv, Clients
  <1>4. Holds'
    BY <1>1 DEF Holds, FailureGivesBack
  <1>5. CASE StartFails
    <2>1. thr' = thr /\ step' = step /\ stage = "start" /\ step = 1 /\ stage' = "returned"
      BY <1>5 DEF StartFails
    <2>2. \A t \in Thread : thr[t] = "none"
      BY <1>1, <2>1 DEF IInv, Started, Thread
    <2>3. Started'
      BY <2>1, <2>2 DEF Started, ReturnsAfterAll
    <2>4. TypeOK'
      BY <1>1, <1>2, <2>1 DEF IInv, TypeOK
    <2>5. RingIsLive'
      BY <1>1, <2>1 DEF IInv, RingIsLive, Listening
    <2> QED
      BY <1>3, <1>4, <2>3, <2>4, <2>5 DEF IInv
  <1>6. ASSUME NEW created \in BOOLEAN, CreateThread(created) PROVE IInv'
    <2>1. step \in 1 .. threads_cnt /\ step \in Thread /\ thr[step] = "none" /\ step' = step + 1
      BY <1>1, <1>2, <1>6 DEF CreateThread, LastCreated, IInv, Started, Thread
    <2>2. \A t \in Thread : thr'[t] = IF created /\ t = step THEN "init" ELSE thr[t]
      BY <1>6, <2>1 DEF CreateThread, IInv, TypeOK
    <2>3. TypeOK'
      <3>1. thr' \in [Thread -> {"none", "init", "check", "push", "submit", "wait", "batch", "ended"}]
        BY <1>6, <2>1 DEF CreateThread, IInv, TypeOK
      <3>2. \A t \in Thread : t > threads_cnt => thr'[t] = "none"
        BY <1>1, <2>1, <2>2 DEF IInv, TypeOK
      <3>3. step' \in 1 .. Len(Calls) + MaxThreads + 1
        BY <1>1, <2>1
      <3> QED
        BY <1>1, <3>1, <3>2, <3>3 DEF IInv, TypeOK
    <2>4. Started'
      BY <1>1, <1>6, <2>1, <2>2 DEF CreateThread, IInv, Started, ReturnsAfterAll, Thread
    <2>5. Listening' = Listening
      BY <2>1, <2>2 DEF Listening
    <2>6. RingIsLive'
      BY <1>1, <2>5 DEF IInv, RingIsLive
    <2> QED
      BY <1>3, <1>4, <2>3, <2>4, <2>6 DEF IInv
  <1>7. CASE MainListens
    <2>1. \A t \in Thread : thr'[t] = IF t = 0 THEN "init" ELSE thr[t]
      BY <1>1, <1>7 DEF MainListens, IInv, TypeOK
    <2>2. TypeOK'
      <3>1. thr' \in [Thread -> {"none", "init", "check", "push", "submit", "wait", "batch", "ended"}]
        BY <1>1, <1>7 DEF MainListens, IInv, TypeOK
      <3>2. \A t \in Thread : t > threads_cnt => thr'[t] = "none"
        BY <1>1, <2>1 DEF IInv, TypeOK
      <3>3. step' = step
        BY <1>7 DEF MainListens
      <3> QED
        BY <1>1, <1>2, <3>1, <3>2, <3>3 DEF IInv, TypeOK
    <2>3. Started'
      BY <1>7 DEF MainListens, Started, ReturnsAfterAll
    <2>4. Listening' = Listening
      BY <1>1, <1>7, <2>1 DEF Listening, MainListens, IInv, Started
    <2>5. RingIsLive'
      BY <1>1, <2>4 DEF IInv, RingIsLive
    <2> QED
      BY <1>3, <1>4, <2>2, <2>3, <2>5 DEF IInv
  <1>8. CASE MainReturns \/ JoinThread \/ StartReturns
    <2>1. thr' = thr
      BY <1>8 DEF MainReturns, JoinThread, StartReturns
    <2>2. step' \in 1 .. Len(Calls) + MaxThreads + 1
      BY <1>1, <1>2, <1>8 DEF MainReturns, JoinThread, StartReturns, LastJoined
    <2>3. TypeOK'
      BY <1>1, <2>1, <2>2 DEF IInv, TypeOK
    <2>4. Started'
      <3>1. CASE MainReturns
        BY <1>1, <3>1 DEF MainReturns, Started, ReturnsAfterAll
      <3>2. CASE JoinThread
        BY <1>1, <1>2, <3>2 DEF JoinThread, LastJoined, IInv, Started, ReturnsAfterAll
      <3>3. CASE StartReturns
        <4>1. step = threads_cnt + 1
          BY <1>1, <1>2, <3>3 DEF StartReturns, LastJoined
        <4>2. \A t \in Thread : t = 0 \/ t \in 1 .. step - 1 \/ t > threads_cnt
          BY <1>1, <4>1 DEF Thread
        <4> QED
          BY <3>3, <4>2 DEF StartReturns, IInv, Started, TypeOK, ReturnsAfterAll
      <3> QED
        BY <1>8, <3>1, <3>2, <3>3
    <2>5. RingIsLive'
      BY <1>1, <2>1 DEF IInv, RingIsLive, Listening
    <2> QED
      BY <1>3, <1>4, <2>3, <2>4, <2>5 DEF IInv
  <1> QED
    BY <1>0, <1>5, <1>6, <1>7, <1>8

\* What a step of a thread does to the threads, and to what main knows of them.
LEMMA GoesStep ==
    ASSUME IInv, NEW t \in Thread, NEW from, NEW to,
           from \in {"init", "check", "push", "submit", "wait", "batch"},
           to \in {"check", "push", "submit", "wait", "batch", "ended"},
           Goes(t, from, to), UNCHANGED main
    PROVE  /\ thr' \in [Thread -> {"none", "init", "check", "push", "submit", "wait", "batch", "ended"}]
           /\ \A u \in Thread : thr'[u] = IF u = t THEN to ELSE thr[u]
           /\ thr[t] = from
           /\ \A u \in Thread : u > threads_cnt => thr'[u] = "none"
           /\ Holds' /\ Started'
  <1> USE ThreadsAssumption
  <1>1. /\ thr \in [Thread -> {"none", "init", "check", "push", "submit", "wait", "batch", "ended"}]
        /\ thr[t] = from /\ thr' = [thr EXCEPT ![t] = to]
        /\ stage \in {"start", "listen", "join"}
        /\ threads_cnt' = threads_cnt /\ stage' = stage /\ step' = step /\ held' = held
    BY DEF IInv, TypeOK, Goes, Alive, main
  <1>2. \A u \in Thread : thr'[u] = IF u = t THEN to ELSE thr[u]
    BY <1>1
  <1>3. \A u \in Thread : u > threads_cnt => thr'[u] = "none"
    BY <1>1, <1>2 DEF IInv, TypeOK
  <1>4. Holds'
    BY <1>1 DEF Holds, FailureGivesBack
  <1>5. Started'
    <2>1. threads_cnt \in 0..MaxThreads /\ 0 \in Thread
      BY DEF IInv, TypeOK, Thread
    <2> QED
      BY <1>1, <1>2, <2>1 DEF IInv, Started, ReturnsAfterAll, Thread
  <1> QED
    BY <1>1, <1>2, <1>3, <1>4, <1>5

\* A thread that enters its loop or stays in it keeps svr->ring live when it
\* leaves it alone.
LEMMA GoesRing ==
    ASSUME IInv, NEW t \in Thread,
           thr[t] \in {"push", "submit", "wait", "batch"},
           thr'[t] \in {"push", "submit", "wait", "batch"},
           \A u \in Thread \ {t} : thr'[u] = thr[u],
           svr_ring' = svr_ring
    PROVE  RingIsLive'
  <1>1. Listening' = Listening
    BY DEF Listening
  <1> QED
    BY <1>1 DEF IInv, RingIsLive

\* The type invariant after a step of a thread, from what the step does to the
\* rings and the clients.
LEMMA GoesType ==
    ASSUME IInv, NEW t \in Thread, NEW from, NEW to,
           from \in {"init", "check", "push", "submit", "wait", "batch"},
           to \in {"check", "push", "submit", "wait", "batch", "ended"},
           Goes(t, from, to), UNCHANGED main,
           svr_ring' \in Thread \cup {NoRing},
           sq' \in [Thread -> Nat], inflight' \in [Thread -> Nat], khead' \in [Thread -> Nat],
           wring' \in [Thread -> Thread \cup {NoRing}],
           (backlog \cap handled)' = {}
    PROVE  TypeOK'
  <1>1. /\ thr' \in [Thread -> {"none", "init", "check", "push", "submit", "wait", "batch", "ended"}]
        /\ \A u \in Thread : u > threads_cnt => thr'[u] = "none"
    BY GoesStep
  <1>2. threads_cnt' = threads_cnt /\ stage' = stage /\ step' = step
    BY DEF main
  <1> QED
    BY <1>1, <1>2 DEF IInv, TypeOK

\* Setting a ring up, or failing to: svr->ring is left alone until SetRing.
LEMMA BeforeLoop ==
    ASSUME IInv, NEW t \in Thread, QueueInit(t) \/ ListenFails(t) \/ SetRing(t)
    PROVE  IInv'
  <1>1. PICK from \in {"init", "check"}, to \in {"check", "ended", "push"} :
           Goes(t, from, to) /\ (to = "push" => svr_ring' = t)
                             /\ (to # "push" => svr_ring' = svr_ring)
    BY DEF QueueInit, ListenFails, SetRing, RingAfterInit
  <1>2. UNCHANGED main /\ UNCHANGED <<sq, inflight, posted, khead, wring, head, count, backlog, handled>>
    BY DEF QueueInit, ListenFails, SetRing, rings, locals
  <1>3. /\ \A u \in Thread : thr'[u] = IF u = t THEN to ELSE thr[u]
        /\ thr[t] = from /\ Holds' /\ Started'
    BY <1>1, <1>2, GoesStep
  <1>4. TypeOK'
    <2>1. /\ svr_ring' \in Thread \cup {NoRing}
          /\ sq' \in [Thread -> Nat] /\ inflight' \in [Thread -> Nat] /\ khead' \in [Thread -> Nat]
          /\ wring' \in [Thread -> Thread \cup {NoRing}]
          /\ (backlog \cap handled)' = {}
      BY <1>1, <1>2 DEF IInv, TypeOK
    <2> QED
      BY <1>1, <1>2, <2>1, GoesType
  <1>5. Clients'
    BY <1>2 DEF IInv, Clients
  <1>6. RingIsLive'
    <2>1. CASE to = "push"
      <3>1. svr_ring' = t /\ t \in Listening' /\ t # NoRing
        BY <1>1, <1>3, <2>1, ThreadsAssumption DEF Listening, Thread, NoRing
      <3> QED
        BY <3>1 DEF RingIsLive
    <2>2. CASE to # "push"
      <3>1. Listening' = Listening
        BY <1>3, <2>2 DEF Listening
      <3> QED
        BY <1>1, <2>2, <3>1 DEF IInv, RingIsLive
    <2> QED
      BY <2>1, <2>2
  <1> QED
    BY <1>3, <1>4, <1>5, <1>6 DEF IInv

\* Steps inside the loop that only touch the submission side of svr->ring.
LEMMA SubmitSide ==
    ASSUME IInv, NEW t \in Thread, PushAccept(t) \/ SubmitAndWait(t)
    PROVE  IInv'
  <1>1. PICK from \in {"push", "submit"}, to \in {"submit", "wait"} : Goes(t, from, to)
    BY DEF PushAccept, SubmitAndWait
  <1>2. /\ UNCHANGED main
        /\ UNCHANGED <<svr_ring, posted, khead, head, count, backlog, handled>>
    BY DEF PushAccept, SubmitAndWait, locals
  <1>3. /\ \A u \in Thread : thr'[u] = IF u = t THEN to ELSE thr[u]
        /\ thr[t] = from /\ Holds' /\ Started'
    BY <1>1, <1>2, GoesStep
  <1>4. svr_ring \in Thread
    BY <1>3, RingOfListener
  <1>5. /\ sq' \in [Thread -> Nat] /\ inflight' \in [Thread -> Nat]
        /\ wring' \in [Thread -> Thread \cup {NoRing}]
    <2>1. sq \in [Thread -> Nat] /\ inflight \in [Thread -> Nat] /\ wring \in [Thread -> Thread \cup {NoRing}]
      BY DEF IInv, TypeOK
    <2>2. CASE PushAccept(t)
      BY <1>4, <2>1, <2>2 DEF PushAccept, locals
    <2>3. CASE SubmitAndWait(t)
      BY <1>4, <2>1, <2>3 DEF SubmitAndWait
    <2> QED
      BY <2>2, <2>3
  <1>6. TypeOK'
    <2>1. /\ svr_ring' \in Thread \cup {NoRing} /\ khead' \in [Thread -> Nat]
          /\ (backlog \cap handled)' = {}
      BY <1>2 DEF IInv, TypeOK
    <2> QED
      BY <1>1, <1>2, <1>5, <2>1, GoesType
  <1>7. Clients'
    BY <1>2 DEF IInv, Clients
  <1>8. RingIsLive'
    BY <1>2, <1>3, GoesRing
  <1> QED
    BY <1>3, <1>6, <1>7, <1>8 DEF IInv

\* The completion side: the batch over svr->ring.
LEMMA CompletionSide ==
    ASSUME IInv, NEW t \in Thread, WaitReturns(t) \/ HandleAccept(t) \/ BatchEnds(t)
    PROVE  IInv'
  <1>1. PICK from \in {"wait", "batch"}, to \in {"batch", "submit"} : Goes(t, from, to)
    BY DEF WaitReturns, HandleAccept, BatchEnds
  <1>2. UNCHANGED main /\ UNCHANGED <<svr_ring, inflight, posted, wring, backlog>>
    BY DEF WaitReturns, HandleAccept, BatchEnds, rings, locals
  <1>3. /\ \A u \in Thread : thr'[u] = IF u = t THEN to ELSE thr[u]
        /\ thr[t] = from /\ Holds' /\ Started'
    BY <1>1, <1>2, GoesStep
  <1>4. svr_ring \in Thread
    BY <1>3, RingOfListener
  <1>5. /\ sq' \in [Thread -> Nat] /\ khead' \in [Thread -> Nat]
        /\ head' \in [Thread -> Nat] /\ count' \in [Thread -> Nat]
    <2>1. /\ sq \in [Thread -> Nat] /\ khead \in [Thread -> Nat]
          /\ head \in [Thread -> Nat] /\ count \in [Thread -> Nat]
      BY DEF IInv, TypeOK, Clients
    <2>2. CASE WaitReturns(t)
      BY <1>4, <2>1, <2>2 DEF WaitReturns, rings
    <2>3. CASE HandleAccept(t)
      BY <1>4, <2>1, <2>3 DEF HandleAccept, Rearmed
    <2>4. CASE BatchEnds(t)
      BY <1>4, <2>1, <2>4 DEF BatchEnds, locals
    <2> QED
      BY <2>2, <2>3, <2>4
  <1>6. (backlog \cap handled)' = {}
    <2>1. CASE HandleAccept(t)
      <3>1. head[t] + 1 \in 1 .. Len(posted[svr_ring])
        BY <1>4, <2>1 DEF HandleAccept, IInv, Clients
      <3>2. posted[svr_ring][head[t] + 1] \notin backlog
        BY <1>4, <3>1 DEF IInv, Clients
      <3> QED
        BY <1>2, <2>1, <3>2 DEF HandleAccept, IInv, TypeOK
    <2>2. CASE ~HandleAccept(t)
      BY <2>2 DEF WaitReturns, BatchEnds, IInv, TypeOK
    <2> QED
      BY <2>1, <2>2
  <1>7. TypeOK'
    <2>1. /\ svr_ring' \in Thread \cup {NoRing} /\ inflight' \in [Thread -> Nat]
          /\ wring' \in [Thread -> Thread \cup {NoRing}]
      BY <1>2 DEF IInv, TypeOK
    <2> QED
      BY <1>1, <1>2, <1>5, <1>6, <2>1, GoesType
  <1>8. Clients'
    BY <1>2, <1>5 DEF IInv, Clients
  <1>9. RingIsLive'
    BY <1>2, <1>3, GoesRing
  <1> QED
    BY <1>3, <1>7, <1>8, <1>9 DEF IInv

\* A batch that has run past the tail takes the process down.
LEMMA GarbageStep == ASSUME IInv, NEW t \in Thread, HandleGarbage(t) PROVE IInv'
  <1>1. /\ stage' = "crashed" /\ UNCHANGED <<threads_cnt, step, held, thr, svr_ring, backlog, handled>>
        /\ UNCHANGED <<sq, inflight, posted, khead, wring, head, count>>
    BY DEF HandleGarbage, rings, locals
  <1>2. TypeOK'
    BY <1>1 DEF IInv, TypeOK
  <1>3. Clients' /\ RingIsLive'
    BY <1>1 DEF IInv, Clients, RingIsLive, Listening
  <1>4. Holds' /\ Started'
    BY <1>1 DEF Holds, Started, FailureGivesBack, ReturnsAfterAll
  <1> QED
    BY <1>2, <1>3, <1>4 DEF IInv

\* A client arrives, or is accepted by the kernel.
LEMMA ClientStep ==
    ASSUME IInv, NEW c \in Conn, Connect(c) \/ \E r \in Thread : AcceptCompletes(r, c)
    PROVE  IInv'
  <1>1. UNCHANGED <<threads_cnt, stage, step, held, thr, svr_ring, sq, khead, wring, head, count, handled>>
    BY DEF Connect, AcceptCompletes, main, rings, locals
  <1>2. Holds' /\ Started' /\ RingIsLive'
    BY <1>1 DEF IInv, Holds, Started, FailureGivesBack, ReturnsAfterAll, RingIsLive, Listening
  <1>3. inflight' \in [Thread -> Nat] /\ (backlog \cap handled)' = {}
    BY <1>1 DEF Connect, AcceptCompletes, IInv, TypeOK, rings
  <1>4. TypeOK'
    BY <1>1, <1>3 DEF IInv, TypeOK
  <1>5. Clients'
    <2>1. CASE Connect(c)
      BY <1>1, <2>1 DEF Connect, IInv, Clients, rings
    <2>2. ASSUME NEW r \in Thread, AcceptCompletes(r, c) PROVE Clients'
      <3>1. posted' \in [Thread -> Seq(Conn)] /\ posted'[r] = Append(posted[r], c)
            /\ \A u \in Thread \ {r} : posted'[u] = posted[u]
        BY <2>2 DEF AcceptCompletes, IInv, Clients
      <3>2. ASSUME NEW u \in Thread, NEW i \in 1 .. Len(posted'[u])
            PROVE  posted'[u][i] = c \/ (i \in 1 .. Len(posted[u]) /\ posted'[u][i] = posted[u][i])
        <4>1. posted[u] \in Seq(Conn)
          BY DEF IInv, Clients
        <4>2. CASE u = r
          BY <3>1, <4>1, <4>2
        <4>3. CASE u # r
          BY <3>1, <4>1, <4>3
        <4> QED
          BY <4>2, <4>3
      <3> QED
        BY <1>1, <2>2, <3>1, <3>2 DEF AcceptCompletes, IInv, Clients
    <2> QED
      BY <2>1, <2>2
  <1> QED
    BY <1>2, <1>4, <1>5 DEF IInv

\* Every step keeps the invariant.
LEMMA StepInv == IInv /\ [Next]_vars => IInv'
  <1> SUFFICES ASSUME IInv, [Next]_vars PROVE IInv'
    OBVIOUS
  <1>1. CASE Main
    BY <1>1, SetupStep, MainStep DEF Main
  <1>2. CASE Accepts
    BY <1>2, ClientStep DEF Accepts
  <1>3. ASSUME NEW t \in Thread, Listen(t) PROVE IInv'
    BY <1>3, BeforeLoop, SubmitSide, CompletionSide, GarbageStep DEF Listen
  <1>4. ASSUME NEW c \in Conn, Connect(c) PROVE IInv'
    BY <1>4, ClientStep
  <1>5. CASE UNCHANGED vars
    BY <1>5 DEF vars, main, rings, locals, IInv, TypeOK, Clients, Holds, Started, RingIsLive,
       Listening, FailureGivesBack, ReturnsAfterAll
  <1> QED
    BY <1>1, <1>2, <1>3, <1>4, <1>5 DEF Next, Rests

\* The invariant holds in every behaviour.
LEMMA Invariance == Spec => []IInv
  BY InitInv, StepInv, PTL DEF Spec

-----------------------------------------------------------------------------
(* The theorems.                                                           *)

\* Whatever number of threads is asked for, none runs beyond it, svr->ring and
\* the rings keep their types, and no client is both waiting and handled.
THEOREM TypeCorrect == Spec => []TypeOK
  <1>1. IInv => TypeOK
    BY DEF IInv
  <1> QED
    BY Invariance, <1>1, PTL

\* svr->ring, which every thread overwrites with the address of its own stack
\* frame's ring, never points into a frame that is gone.
THEOREM RingAlwaysLive == Spec => []RingIsLive
  <1>1. IInv => RingIsLive
    BY DEF IInv
  <1> QED
    BY Invariance, <1>1, PTL

\* start_listening returns only when every thread it created is over.
THEOREM ReturnsLast == Spec => []ReturnsAfterAll
  <1>1. IInv => ReturnsAfterAll
    BY DEF IInv, Started
  <1> QED
    BY Invariance, <1>1, PTL

\* A create_server that returns NULL has given back what it acquired, except
\* for the listening socket after a failed pipe2.
THEOREM FailureReleases == Spec => []FailureGivesBack
  <1>1. IInv => FailureGivesBack
    BY DEF IInv, Holds
  <1> QED
    BY Invariance, <1>1, PTL
=============================================================================
