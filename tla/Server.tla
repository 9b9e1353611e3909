------------------------------- MODULE Server -------------------------------
(***************************************************************************)
(* The life of the server process around its loops: create_server and      *)
(* create_listening_socket (lib/server.c, lib/socket.c), start_listening   *)
(* with additional threads, and   what every listening thread does with    *)
(* the one svr->ring (io_uring_listen_loop, lib/io_loop.c).  Each thread   *)
(* has a ring on its stack and stores its address in svr->ring; afterwards *)
(* every use of a ring, by any thread, re-reads svr->ring.                 *)
(*                                                                         *)
(* Steps are calls of liburing and system calls; data races inside them    *)
(* are not modelled (no property below relies on their absence: the ones   *)
(* checked with several threads do not depend on what is in the rings).    *)
(* What happens to a connection after its accept is EventLoop's subject:   *)
(* here it counts as handled.                                              *)
(***************************************************************************)
EXTENDS Integers, Sequences, FiniteSets

CONSTANTS
    MaxThreads,        \* bound on threads_cnt
    Conn,              \* clients that connect, each once
    WatchStaticFiles   \* the Debug build, which makes the pipe

ASSUME ThreadsAssumption == MaxThreads \in Nat
ASSUME BuildAssumption == WatchStaticFiles \in BOOLEAN

Thread == 0..MaxThreads   \* 0 is the main thread
NoRing == -1

VARIABLES
    threads_cnt,  \* the argument of start_listening, given on the command line
    stage,     \* where main is: setup, null, start, listen, join, returned, crashed
    step,      \* the next call of create_server; later the next thread to create or join
    held,      \* what create_server has acquired and not given back
    thr,       \* where each listening thread is
    svr_ring,  \* svr->ring: the thread whose ring it is
    sq,        \* accepts pushed to each ring and not submitted
    inflight,  \* accepts each ring has given to the kernel
    posted,    \* completions ever posted to each ring
    khead,     \* how far each completion ring was advanced
    wring,     \* the ring each thread's io_uring_submit_and_wait is about
    head,      \* local to the loop of each thread
    count,     \* local to the loop of each thread
    backlog,   \* clients in the queue of the listening socket
    handled    \* accepted connections some thread has taken care of

main == <<threads_cnt, stage, step, held>>
rings == <<sq, inflight, posted, khead>>
locals == <<wring, head, count>>
vars == <<main, thr, svr_ring, rings, locals, backlog, handled>>

Init ==
    /\ threads_cnt \in 0..MaxThreads
    /\ stage = "setup" /\ step = 1 /\ held = {}
    /\ thr = [t \in Thread |-> "none"]
    /\ svr_ring = NoRing
    /\ sq = [t \in Thread |-> 0] /\ inflight = [t \in Thread |-> 0]
    /\ posted = [t \in Thread |-> <<>>] /\ khead = [t \in Thread |-> 0]
    /\ wring = [t \in Thread |-> NoRing]
    /\ head = [t \in Thread |-> 0] /\ count = [t \in Thread |-> 0]
    /\ backlog = {} /\ handled = {}

-----------------------------------------------------------------------------
(* create_server.                                                          *)

Call(name, gains, label) == [name |-> name, gains |-> gains, label |-> label]

\* Seeded fault: a failed bind returns without closing the socket.
BindLabel_Exit == "FREE"

BindLabel == "CLEANUP"

\* create_listening_socket; a failed socket() leaves nothing to close.  The
\* stream get_somaxconn opens is never closed.
SocketCalls ==
    << Call("socket", {"listen_fd"}, "FREE"), Call("inet_aton", {}, "CLEANUP"),
       Call("bind", {}, BindLabel), Call("fopen", {"somaxconn"}, "CLEANUP"),
       Call("fscanf", {}, "CLEANUP"), Call("listen", {}, "CLEANUP") >>

\* The calls of create_server, what each acquires and where its failure goes.
\* A hard limit of RLIM_INFINITY is a failure of get_nofile_limit, too.
Calls ==
    << Call("get_nofile_limit", {}, "EXIT"), Call("malloc", {"svr"}, "EXIT") >>
    \o SocketCalls
    \o (IF WatchStaticFiles THEN << Call("pipe2", {"pipefds"}, "FREE") >> ELSE <<>>)

\* What the code from a label to the end of the function gives back.
Released(label) ==
    CASE label = "CLEANUP" -> {"listen_fd", "svr"}
      [] label = "FREE" -> {"svr"}
      [] label = "EXIT" -> {}

SetupCall ==
    /\ stage = "setup"
    /\ held' = held \cup Calls[step].gains
    /\ stage' = IF step = Len(Calls) THEN "start" ELSE "setup"
    /\ step' = IF step = Len(Calls) THEN 1 ELSE step + 1
    /\ UNCHANGED <<threads_cnt, thr, svr_ring, rings, locals, backlog, handled>>

\* create_server returns NULL, and main with it.
SetupCallFails ==
    /\ stage = "setup"
    /\ stage' = "null"
    /\ held' = held \ Released(Calls[step].label)
    /\ UNCHANGED <<threads_cnt, step, thr, svr_ring, rings, locals, backlog, handled>>

-----------------------------------------------------------------------------
(* start_listening.                                                        *)

\* No memory for the thread handles: nothing is started at all.
StartFails ==
    /\ stage = "start" /\ step = 1 /\ threads_cnt > 0
    /\ stage' = "returned"
    /\ UNCHANGED <<threads_cnt, step, held, thr, svr_ring, rings, locals, backlog, handled>>

\* Seeded fault: i <= threads_cnt.
LastCreated_OffByOne == threads_cnt + 1

LastCreated == threads_cnt

\* pthread_create, its result not looked at: a thread that could not be
\* created is just not there.
CreateThread(created) ==
    /\ stage = "start" /\ step <= LastCreated
    /\ thr' = IF created THEN [thr EXCEPT ![step] = "init"] ELSE thr
    /\ step' = step + 1
    /\ UNCHANGED <<threads_cnt, stage, held, svr_ring, rings, locals, backlog, handled>>

\* listen_routine(svr) on the main thread.
MainListens ==
    /\ stage = "start" /\ step = LastCreated + 1
    /\ stage' = "listen"
    /\ thr' = [thr EXCEPT ![0] = "init"]
    /\ UNCHANGED <<threads_cnt, step, held, svr_ring, rings, locals, backlog, handled>>

\* Seeded fault: the last thread is not joined.
LastJoined_OffByOne == threads_cnt - 1

LastJoined == threads_cnt

MainReturns ==
    /\ stage = "listen" /\ thr[0] = "ended"
    /\ stage' = "join" /\ step' = 1
    /\ UNCHANGED <<threads_cnt, held, thr, svr_ring, rings, locals, backlog, handled>>

\* pthread_join waits for the thread.  The handle of a thread that was not
\* created is indeterminate: joining it fails at once or crashes.
JoinThread ==
    /\ stage = "join" /\ step <= LastJoined
    /\ \/ /\ thr[step] \in {"none", "ended"}
          /\ stage' = stage /\ step' = step + 1
       \/ /\ thr[step] = "none"
          /\ stage' = "crashed" /\ step' = step
    /\ UNCHANGED <<threads_cnt, held, thr, svr_ring, rings, locals, backlog, handled>>

StartReturns ==
    /\ stage = "join" /\ step > LastJoined
    /\ stage' = "returned"
    /\ UNCHANGED <<threads_cnt, step, held, thr, svr_ring, rings, locals, backlog, handled>>

-----------------------------------------------------------------------------
(* io_uring_listen_loop of thread t.                                       *)

Alive == stage \in {"start", "listen", "join"}

Goes(t, from, to) ==
    /\ Alive /\ thr[t] = from
    /\ thr' = [thr EXCEPT ![t] = to]

\* Seeded fault: the ring is published before its features are checked.
RingAfterInit_Published(t) == t

RingAfterInit(t) == svr_ring

QueueInit(t) ==
    /\ Goes(t, "init", "check")
    /\ svr_ring' = RingAfterInit(t)
    /\ UNCHANGED <<main, rings, locals, backlog, handled>>

\* io_uring_queue_init_params fails, or FAST_POLL is missing: the function
\* returns, and the ring on its stack is gone.
ListenFails(t) ==
    /\ Goes(t, "init", "ended") \/ Goes(t, "check", "ended")
    /\ UNCHANGED <<main, svr_ring, rings, locals, backlog, handled>>

SetRing(t) ==
    /\ Goes(t, "check", "push")
    /\ svr_ring' = t
    /\ UNCHANGED <<main, rings, locals, backlog, handled>>

PushAccept(t) ==
    /\ Goes(t, "push", "submit")
    /\ sq' = [sq EXCEPT ![svr_ring] = @ + 1]
    /\ UNCHANGED <<main, svr_ring, inflight, posted, khead, locals, backlog, handled>>

\* io_uring_submit_and_wait(svr->ring, 1): the thread sleeps on that ring even
\* when svr->ring changes.
SubmitAndWait(t) ==
    /\ Goes(t, "submit", "wait")
    /\ inflight' = [inflight EXCEPT ![svr_ring] = @ + sq[svr_ring]]
    /\ sq' = [sq EXCEPT ![svr_ring] = 0]
    /\ wring' = [wring EXCEPT ![t] = svr_ring]
    /\ UNCHANGED <<main, svr_ring, posted, khead, head, count, backlog, handled>>

\* The wait ends; the batch starts at the head of what svr->ring is now.
WaitReturns(t) ==
    /\ Goes(t, "wait", "batch")
    /\ khead[wring[t]] # Len(posted[wring[t]])
    /\ head' = [head EXCEPT ![t] = khead[svr_ring]]
    /\ count' = [count EXCEPT ![t] = 0]
    /\ UNCHANGED <<main, svr_ring, rings, wring, backlog, handled>>

\* Seeded fault: the accept is not pushed again.
Rearmed_Never(r) == sq

Rearmed(r) == [sq EXCEPT ![r] = @ + 1]

\* One completion of svr->ring, all of them accepts here; the next accept is
\* pushed to svr->ring.
HandleAccept(t) ==
    /\ Goes(t, "batch", "batch")
    /\ head[t] < Len(posted[svr_ring])
    /\ handled' = handled \cup {posted[svr_ring][head[t] + 1]}
    /\ sq' = Rearmed(svr_ring)
    /\ head' = [head EXCEPT ![t] = @ + 1]
    /\ count' = [count EXCEPT ![t] = @ + 1]
    /\ UNCHANGED <<main, svr_ring, inflight, posted, khead, wring, backlog>>

\* head is past the tail, which is not the same as equal to it: the loop goes
\* on through stale entries.
HandleGarbage(t) ==
    /\ Alive /\ thr[t] = "batch"
    /\ head[t] > Len(posted[svr_ring])
    /\ stage' = "crashed"
    /\ UNCHANGED <<threads_cnt, step, held, thr, svr_ring, rings, locals, backlog, handled>>

BatchEnds(t) ==
    /\ Goes(t, "batch", "submit")
    /\ head[t] = Len(posted[svr_ring])
    /\ khead' = [khead EXCEPT ![svr_ring] = @ + count[t]]
    /\ UNCHANGED <<main, svr_ring, sq, inflight, posted, locals, backlog, handled>>

-----------------------------------------------------------------------------
(* Clients and kernel (external).                                          *)

Connect(c) ==
    /\ "listen_fd" \in held /\ Alive
    /\ c \notin backlog \cup handled /\ \A r \in Thread : \A i \in DOMAIN posted[r] : posted[r][i] # c
    /\ backlog' = backlog \cup {c}
    /\ UNCHANGED <<main, thr, svr_ring, rings, locals, handled>>

AcceptCompletes(r, c) ==
    /\ Alive /\ c \in backlog /\ inflight[r] > 0
    /\ inflight' = [inflight EXCEPT ![r] = @ - 1]
    /\ posted' = [posted EXCEPT ![r] = Append(@, c)]
    /\ backlog' = backlog \ {c}
    /\ UNCHANGED <<main, thr, svr_ring, sq, khead, locals, handled>>

\* Threads wait for clients, or the process is over.
Rests ==
    /\ Alive => \A t \in Thread : thr[t] \in {"none", "wait", "ended"}
    /\ UNCHANGED vars

Main ==
    \/ SetupCall \/ SetupCallFails
    \/ StartFails \/ (\E created \in BOOLEAN : CreateThread(created)) \/ MainListens
    \/ MainReturns \/ JoinThread \/ StartReturns

Listen(t) ==
    \/ QueueInit(t) \/ ListenFails(t) \/ SetRing(t) \/ PushAccept(t)
    \/ SubmitAndWait(t) \/ WaitReturns(t) \/ HandleAccept(t) \/ HandleGarbage(t) \/ BatchEnds(t)

Accepts == \E r \in Thread, c \in Conn : AcceptCompletes(r, c)

Next ==
    \/ Main \/ Accepts \/ Rests
    \/ \E t \in Thread : Listen(t)
    \/ \E c \in Conn : Connect(c)

Spec == Init /\ [][Next]_vars

\* Every thread runs, and the kernel completes an accept when there is a client.
FairSpec ==
    Spec /\ WF_vars(Main) /\ WF_vars(Accepts) /\ \A t \in Thread : WF_vars(Listen(t))

-----------------------------------------------------------------------------

Listening == {t \in Thread : thr[t] \in {"push", "submit", "wait", "batch"}}

\* No more threads run than were asked for, and a client is never both waiting
\* and taken care of.
TypeOK ==
    /\ stage \in {"setup", "null", "start", "listen", "join", "returned", "crashed"}
    /\ threads_cnt \in 0..MaxThreads
    /\ step \in 1 .. Len(Calls) + MaxThreads + 1
    /\ thr \in [Thread -> {"none", "init", "check", "push", "submit", "wait", "batch", "ended"}]
    /\ \A t \in Thread : t > threads_cnt => thr[t] = "none"
    /\ svr_ring \in Thread \cup {NoRing}
    /\ sq \in [Thread -> Nat] /\ inflight \in [Thread -> Nat] /\ khead \in [Thread -> Nat]
    /\ wring \in [Thread -> Thread \cup {NoRing}]
    /\ backlog \cap handled = {}

\* svr->ring never dangles: it is the ring of a thread that is in its loop for
\* good, whichever threads fail to set theirs up and in whichever order; and a
\* thread in its loop always finds one there.
RingIsLive ==
    /\ svr_ring # NoRing => svr_ring \in Listening
    /\ Listening # {} => svr_ring # NoRing

\* start_listening returns only when no thread it created still runs: the
\* server's memory and rings are not pulled away under one.
ReturnsAfterAll ==
    stage = "returned" => \A t \in Thread : thr[t] \in {"none", "ended"}

\* When create_server returns NULL its memory is freed and the listening socket
\* is closed, whichever call failed, with one exception: a failed pipe2, after
\* which nobody closes the socket.
FailureGivesBack ==
    stage = "null" =>
        /\ held \cap {"svr", "pipefds"} = {}
        /\ "listen_fd" \in held => Calls[step].name = "pipe2"

\* On a server without additional threads a client that connects while the
\* loop runs is taken care of, unless the process ends.  (With additional
\* threads its completion may be left in a ring that is not svr->ring any more.)
EveryClientIsHandled ==
    \A c \in Conn :
        (threads_cnt = 0 /\ c \in backlog /\ Listening # {}) ~> (c \in handled \/ ~Alive)
=============================================================================
