---------------------------- MODULE ConnLifecycle ----------------------------
(***************************************************************************)
(* What the server promises about the life of one connection, without      *)
(* rings, coroutines or counters.  A descriptor is idle, or belongs to a   *)
(* connection that was accepted, waits for its only request, or is being   *)
(* answered.  owed is the number of operations of the answer that the      *)
(* kernel has not reported back; the descriptor is given up when, and only *)
(* when, the last of them was reported.  A connection that will never make *)
(* another step although its descriptor is open has stalled; the only way  *)
(* there is from waiting for the request.                                  *)
(***************************************************************************)
EXTENDS Integers

CONSTANT Fd

VARIABLES phase, owed

Phase == {"idle", "accepted", "receiving", "responding", "stalled"}

TypeOK ==
    /\ phase \in [Fd -> Phase]
    /\ owed \in [Fd -> 0..3]

Init ==
    /\ phase = [f \in Fd |-> "idle"]
    /\ owed = [f \in Fd |-> 0]

\* Connection f goes from phase a to phase b and then owes n operations.
Move(f, a, b, n) ==
    /\ phase[f] = a
    /\ phase' = [phase EXCEPT ![f] = b]
    /\ owed' = [owed EXCEPT ![f] = n]

Accept(f) == Move(f, "idle", "accepted", 0)
Refuse(f) == Move(f, "accepted", "idle", 0)
Receive(f) == Move(f, "accepted", "receiving", 0)
PeerCloses(f) == Move(f, "receiving", "idle", 0)
Stall(f) == Move(f, "receiving", "stalled", 0)
Answer(f) == \E n \in {1, 3} : Move(f, "receiving", "responding", n)
Progress(f) == owed[f] > 1 /\ Move(f, "responding", "responding", owed[f] - 1)
Finish(f) == owed[f] = 1 /\ Move(f, "responding", "idle", 0)

\* Every step changes a connection; said first, stuttering steps of an
\* implementation are told apart without trying them all.
Next ==
    /\ phase' # phase \/ owed' # owed
    /\ \E f \in Fd : \/ Accept(f) \/ Refuse(f) \/ Receive(f) \/ PeerCloses(f)
                     \/ Stall(f) \/ Answer(f) \/ Progress(f) \/ Finish(f)

Spec == Init /\ [][Next]_<<phase, owed>>
=============================================================================
