----------------------------- MODULE CoroProofs -----------------------------
(***************************************************************************)
(* Theorems about Coro, for every finite set of coroutines and all sets of *)
(* values.                                                                 *)
(***************************************************************************)
EXTENDS Coro, FiniteSetTheorems, TLAPS

-----------------------------------------------------------------------------
(* The inductive invariant.                                                *)

\* Who resumed a running coroutine waits for it, at the place it saved.
CallersWait ==
    \A c \in Co : Active(c) =>
        /\ caller[c].at = "in_resume"
        /\ caller[c].stack # c
        /\ awaits[caller[c].stack] = c

\* A suspended coroutine goes on where its status says.
ContextFits ==
    \A c \in Co :
        /\ ~Active(c) /\ status[c] = "CREATED" => context[c] = [stack |-> c, at |-> "entry_point"]
        /\ ~Active(c) /\ status[c] = "STARTED" => context[c] = [stack |-> c, at |-> "in_yield"]
        /\ ~exited /\ Active(c) =>
              status[c] = IF cpu = c /\ landed = "entry_point" THEN "CREATED" ELSE "STARTED"

\* Only who has just been yielded to still waits; the coroutine it waited for
\* is suspended then.  A first switch is never to a broken stack.
Landing ==
    /\ landed \in {"body", "entry_point", "in_yield", "in_resume"}
    /\ landed = "in_resume" <=> awaits[cpu] # cpu
    /\ landed = "in_resume" => ~Active(awaits[cpu])
    /\ landed \in {"entry_point", "in_yield"} => cpu \in Co
    /\ landed = "entry_point" => ~padding[cpu]
    /\ \A a \in Actor : awaits[a] # a => awaits[a] \in Co
    /\ exited => landed = "body"

\* The inductive invariant.
IInv == TypeOK /\ CallersWait /\ ContextFits /\ Landing /\ SuspendedIsIntact

-----------------------------------------------------------------------------

\* Coroutines are actors other than Main.
LEMMA CoIsActor == Main \in Actor /\ \A c \in Co : c \in Actor /\ c # Main
  BY CoAssumption DEF Actor

\* The invariant holds initially.
LEMMA InitInv == Init => IInv
  <1> SUFFICES ASSUME Init PROVE IInv
    OBVIOUS
  <1>1. \A c \in Co : ~Active(c)
    BY CoIsActor DEF Init, Active
  <1>2. TypeOK
    <2>1. NoContext \in [stack : Actor, at : Place \cup {"zeroed"}]
      BY CoIsActor DEF NoContext
    <2>2. padding \in [Co -> BOOLEAN] /\ exited \in BOOLEAN
      BY DEF Init
    <2> QED
      BY <2>1, <2>2, CoIsActor, ValueAssumption DEF Init, TypeOK
  <1>3. CallersWait /\ ContextFits
    BY <1>1 DEF Init, CallersWait, ContextFits
  <1>4. Landing /\ SuspendedIsIntact
    BY CoIsActor DEF Init, Landing, SuspendedIsIntact
  <1> QED
    BY <1>2, <1>3, <1>4 DEF IInv

\* A step that leaves the switching state alone needs a look at its types only.
LEMMA Frame ==
    ASSUME IInv, UNCHANGED <<cpu, landed, context, caller, awaits, status>>,
           landed = "entry_point" => padding'[cpu] = padding[cpu],
           ~exited' => ~exited, exited' => landed = "body"
    PROVE  CallersWait' /\ ContextFits' /\ Landing'
  <1>1. \A a : Active(a)' = Active(a)
    BY DEF Active
  <1>2. CallersWait'
    BY <1>1 DEF IInv, CallersWait
  <1>3. ContextFits'
    BY <1>1 DEF IInv, ContextFits
  <1>4. Landing'
    BY <1>1 DEF IInv, Landing, Active
  <1> QED
    BY <1>2, <1>3, <1>4

\* A new coroutine.
LEMMA NewStep == ASSUME IInv, NEW c \in Co, co_new(c) PROVE IInv'
  <1>1. /\ status[c] = "NULL" /\ ~Active(c) /\ landed = "body" /\ awaits[cpu] = cpu
        /\ c \in Actor
    BY CoIsActor DEF co_new, Runs, IInv, ContextFits, Landing
  <1>2. \A a : Active(a)' = Active(a)
    BY DEF co_new, Active
  <1>3. FirstContext(c) \in [stack : Actor, at : Place \cup {"zeroed"}]
        /\ NoContext \in [stack : Actor, at : Place \cup {"zeroed"}]
    BY CoIsActor DEF FirstContext, NoContext, Place
  <1>4. TypeOK'
    <2>1. padding' \in [Co -> BOOLEAN]
      BY DEF co_new, IInv, TypeOK
    <2>2. yielded' \in [Co -> Value \cup {-1}] /\ got' \in [Actor -> Value \cup {-1}]
      BY <1>1, ValueAssumption DEF co_new, IInv, TypeOK
    <2>3. /\ context' \in [Co -> [stack : Actor, at : Place \cup {"zeroed"}]]
          /\ caller' \in [Co -> [stack : Actor, at : Place \cup {"zeroed"}]]
      BY <1>3 DEF co_new, IInv, TypeOK
    <2>4. status' \in [Co -> {"NULL", "CREATED", "STARTED", "STOPPED"}]
      BY DEF co_new, IInv, TypeOK
    <2> QED
      BY <2>1, <2>2, <2>3, <2>4 DEF co_new, IInv, TypeOK
  <1>5. /\ \A d \in Co \ {c} : /\ caller'[d] = caller[d] /\ context'[d] = context[d]
                               /\ status'[d] = status[d]
        /\ context'[c] = [stack |-> c, at |-> "entry_point"] /\ status'[c] = "CREATED"
    BY DEF co_new, FirstContext, IInv, TypeOK
  <1>6. UNCHANGED <<cpu, landed, awaits, exited>>
    BY DEF co_new
  <1>7. CallersWait'
    BY <1>1, <1>2, <1>5, <1>6 DEF IInv, CallersWait
  <1>8. ContextFits'
    BY <1>1, <1>2, <1>5, <1>6 DEF IInv, ContextFits
  <1>9. Landing'
    BY <1>1, <1>2, <1>6 DEF IInv, Landing
  <1>10. SuspendedIsIntact'
    BY <1>2 DEF co_new, IInv, TypeOK, SuspendedIsIntact
  <1> QED
    BY <1>4, <1>7, <1>8, <1>9, <1>10 DEF IInv

\* Freeing a coroutine that is not running.
LEMMA FreeStep == ASSUME IInv, NEW c \in Co, co_free(c) PROVE IInv'
  <1>1. ~Active(c) /\ \A a : Active(a)' = Active(a)
    BY DEF co_free, Active
  <1>2. /\ \A d \in Co \ {c} : status'[d] = status[d]
        /\ status'[c] = "NULL"
        /\ status' \in [Co -> {"NULL", "CREATED", "STARTED", "STOPPED"}]
    BY DEF co_free, IInv, TypeOK
  <1>3. UNCHANGED <<cpu, landed, context, caller, yielded, padding, awaits, got, exited>>
    BY DEF co_free
  <1>4. TypeOK'
    BY <1>2, <1>3 DEF IInv, TypeOK
  <1>5. CallersWait' /\ ContextFits'
    BY <1>1, <1>2, <1>3 DEF IInv, CallersWait, ContextFits
  <1>6. Landing' /\ SuspendedIsIntact'
    BY <1>1, <1>3 DEF IInv, Landing, Active, SuspendedIsIntact
  <1> QED
    BY <1>4, <1>5, <1>6 DEF IInv

\* The guard was overwritten and the process exits, at the end of a function
\* with the coroutine marked stopped.
LEMMA OverflowedStep ==
    ASSUME IInv, NEW c \in Co, Runs, exited' = TRUE,
           status' = status \/ (status' = [status EXCEPT ![c] = "STOPPED"] /\ cpu = c),
           UNCHANGED <<cpu, landed, context, caller, yielded, padding, awaits, got>>
    PROVE  IInv'
  <1>1. \A a : Active(a)' = Active(a)
    BY DEF Active
  <1>2. TypeOK'
    BY DEF IInv, TypeOK
  <1>3. CallersWait'
    BY <1>1 DEF IInv, CallersWait
  <1>4. ContextFits'
    <2>1. \A d \in Co : ~Active(d) => status'[d] = status[d]
      BY DEF Active, IInv, TypeOK
    <2> QED
      BY <1>1, <2>1 DEF IInv, ContextFits
  <1>5. Landing' /\ SuspendedIsIntact'
    BY <1>1 DEF IInv, Landing, Active, Runs, SuspendedIsIntact
  <1> QED
    BY <1>2, <1>3, <1>4, <1>5 DEF IInv

\* The switch to a suspended coroutine: who runs, who is saved, who waits.
LEMMA SwitchIn ==
    ASSUME IInv, NEW c \in Co, ResumeAllowed(c), SwapIn(c)
    PROVE  /\ landed = "body" /\ ~Active(c) /\ c \in Actor /\ awaits[c] = c
           /\ \E b \in Actor :
                 /\ b = cpu /\ b # c /\ awaits[b] = b
                 /\ cpu' = c /\ context' = context
                 /\ landed' = (IF status[c] = "CREATED" THEN "entry_point" ELSE "in_yield")
                 /\ caller' \in [Co -> [stack : Actor, at : Place \cup {"zeroed"}]]
                 /\ awaits' \in [Actor -> Actor]
                 /\ caller'[c] = [stack |-> b, at |-> "in_resume"]
                 /\ \A d \in Co \ {c} : caller'[d] = caller[d]
                 /\ awaits'[b] = c /\ \A a \in Actor \ {b} : awaits'[a] = awaits[a]
           /\ Active(c)' /\ \A d \in Co \ {c} : Active(d)' = Active(d)
  <1>1. /\ landed = "body" /\ awaits[cpu] = cpu /\ cpu \in Actor /\ cpu # c /\ awaits[c] = c
        /\ ~Active(c) /\ c \in Actor /\ status[c] \in {"CREATED", "STARTED"}
    BY CoIsActor DEF ResumeAllowed, Runs, Active, IInv, Landing, TypeOK
  <1>2. /\ context[c].stack = c
        /\ context[c].at = IF status[c] = "CREATED" THEN "entry_point" ELSE "in_yield"
    <2>1. /\ status[c] = "CREATED" => context[c] = [stack |-> c, at |-> "entry_point"]
          /\ status[c] = "STARTED" => context[c] = [stack |-> c, at |-> "in_yield"]
      BY <1>1 DEF IInv, ContextFits
    <2>2. CASE status[c] = "CREATED"
      BY <2>1, <2>2
    <2>3. CASE status[c] = "STARTED"
      BY <2>1, <2>3
    <2> QED
      BY <1>1, <2>2, <2>3
  <1>3. PICK b \in Actor : b = cpu
    BY <1>1
  <1>4. /\ cpu' = c /\ landed' = (IF status[c] = "CREATED" THEN "entry_point" ELSE "in_yield")
        /\ context' = context
        /\ caller' = [caller EXCEPT ![c] = [stack |-> b, at |-> "in_resume"]]
        /\ awaits' = [awaits EXCEPT ![b] = c]
    BY <1>2, <1>3 DEF SwapIn, SavedCaller
  <1>5. /\ caller' \in [Co -> [stack : Actor, at : Place \cup {"zeroed"}]]
        /\ awaits' \in [Actor -> Actor]
        /\ caller'[c] = [stack |-> b, at |-> "in_resume"]
        /\ \A d \in Co \ {c} : caller'[d] = caller[d]
        /\ awaits'[b] = c /\ \A a \in Actor \ {b} : awaits'[a] = awaits[a]
    BY <1>1, <1>4 DEF IInv, TypeOK, Place
  <1>6. Active(c)' /\ \A d \in Co \ {c} : Active(d)' = Active(d)
    <2>1. \A d \in Co \ {c} : Active(d)' <=> Active(d)
      <3> TAKE d \in Co \ {c}
      <3>1. CASE d = b
        BY <1>1, <1>3, <1>5, <3>1 DEF Active
      <3>2. CASE d # b
        BY <1>3, <1>4, <1>5, <3>2, CoIsActor DEF Active
      <3> QED
        BY <3>1, <3>2
    <2>2. \A d \in Co \ {c} : Active(d) \in BOOLEAN /\ Active(d)' \in BOOLEAN
      BY DEF Active
    <2> QED
      BY <1>4, <2>1, <2>2 DEF Active
  <1> QED
    BY <1>1, <1>3, <1>4, <1>5, <1>6

\* co_resume and co_resume_value: the switch to a suspended coroutine.
LEMMA SwapInStep ==
    ASSUME IInv, NEW c \in Co, ResumeAllowed(c), ~padding[c], SwapIn(c),
           yielded' \in [Co -> Value \cup {-1}], UNCHANGED <<status, padding, got, exited>>
    PROVE  IInv'
  <1>1. /\ landed = "body" /\ ~Active(c) /\ c \in Actor /\ awaits[c] = c
        /\ status[c] \in {"CREATED", "STARTED"}
    BY SwitchIn DEF ResumeAllowed
  <1>2. PICK b \in Actor :
           /\ b = cpu /\ b # c /\ awaits[b] = b
           /\ cpu' = c /\ context' = context
           /\ landed' = (IF status[c] = "CREATED" THEN "entry_point" ELSE "in_yield")
           /\ caller' \in [Co -> [stack : Actor, at : Place \cup {"zeroed"}]]
           /\ awaits' \in [Actor -> Actor]
           /\ caller'[c] = [stack |-> b, at |-> "in_resume"]
           /\ \A d \in Co \ {c} : caller'[d] = caller[d]
           /\ awaits'[b] = c /\ \A a \in Actor \ {b} : awaits'[a] = awaits[a]
    BY SwitchIn
  <1>3. b = cpu /\ b # c /\ awaits[b] = b
    BY <1>2
  <1>4. /\ cpu' = c /\ context' = context
        /\ landed' = (IF status[c] = "CREATED" THEN "entry_point" ELSE "in_yield")
    BY <1>2
  <1>5. /\ caller' \in [Co -> [stack : Actor, at : Place \cup {"zeroed"}]]
        /\ awaits' \in [Actor -> Actor]
        /\ caller'[c] = [stack |-> b, at |-> "in_resume"]
        /\ \A d \in Co \ {c} : caller'[d] = caller[d]
        /\ awaits'[b] = c /\ \A a \in Actor \ {b} : awaits'[a] = awaits[a]
    BY <1>2
  <1>6. TypeOK'
    BY <1>1, <1>4, <1>5 DEF IInv, TypeOK, Place
  <1>7. Active(c)' /\ \A d \in Co \ {c} : Active(d)' = Active(d)
    BY SwitchIn
  <1>8. CallersWait'
    <2> SUFFICES ASSUME NEW d \in Co, Active(d)'
                 PROVE  /\ caller'[d].at = "in_resume" /\ caller'[d].stack # d
                        /\ awaits'[caller'[d].stack] = d
      BY DEF CallersWait
    <2>1. CASE d = c
      BY <1>1, <1>3, <1>5, <2>1
    <2>2. CASE d # c
      <3>1. /\ caller[d].at = "in_resume" /\ caller[d].stack # d
            /\ awaits[caller[d].stack] = d /\ caller[d].stack \in Actor
        BY <1>7, <2>2 DEF IInv, CallersWait, TypeOK
      <3>2. caller[d].stack # b
        BY <1>1, <1>3, <3>1
      <3> QED
        BY <1>5, <2>2, <3>1, <3>2
    <2> QED
      BY <2>1, <2>2
  <1>9. ContextFits'
    <2> SUFFICES ASSUME NEW d \in Co
                 PROVE  (/\ ~Active(d) /\ status[d] = "CREATED" =>
                               context[d] = [stack |-> d, at |-> "entry_point"]
                         /\ ~Active(d) /\ status[d] = "STARTED" =>
                               context[d] = [stack |-> d, at |-> "in_yield"]
                         /\ ~exited /\ Active(d) =>
                               status[d] = IF cpu = d /\ landed = "entry_point"
                                           THEN "CREATED" ELSE "STARTED")'
      BY DEF ContextFits
    <2>1. CASE d = c
      BY <1>1, <1>4, <1>7, <2>1
    <2>2. CASE d # c
      BY <1>1, <1>4, <1>7, <2>2 DEF IInv, ContextFits
    <2> QED
      BY <2>1, <2>2
  <1>10. Landing'
    <2>1. awaits'[c] = c
      BY <1>1, <1>3, <1>5
    <2>2. \A a \in Actor : awaits'[a] # a => awaits'[a] \in Co
      BY <1>5 DEF IInv, Landing
    <2>3. ~exited' /\ ~padding'[c]
      BY DEF ResumeAllowed, Runs
    <2> QED
      BY <1>4, <2>1, <2>2, <2>3 DEF Landing
  <1>11. SuspendedIsIntact'
    BY <1>7 DEF IInv, SuspendedIsIntact
  <1> QED
    BY <1>6, <1>8, <1>9, <1>10, <1>11 DEF IInv

\* The switch back to the resumer.
LEMMA SwitchOut ==
    ASSUME IInv, NEW c \in Co, Runs, cpu = c, NEW place, place \in {"in_yield", "past_end"},
           SwapOut(c, place)
    PROVE  \E b \in Actor :
                 /\ landed = "body" /\ awaits[c] = c /\ Active(c) /\ c \in Actor /\ status[c] = "STARTED"
                 /\ b = caller[c].stack /\ b # c /\ awaits[b] = c
                 /\ cpu' = b /\ landed' = "in_resume" /\ caller' = caller /\ awaits' = awaits
                 /\ context' \in [Co -> [stack : Actor, at : Place \cup {"zeroed"}]]
                 /\ context'[c] = [stack |-> c, at |-> place]
                 /\ \A d \in Co \ {c} : context'[d] = context[d]
                 /\ ~Active(c)' /\ \A d \in Co \ {c} : Active(d)' = Active(d)
  <1>1. /\ landed = "body" /\ awaits[c] = c /\ Active(c) /\ c \in Actor /\ status[c] = "STARTED"
    BY CoIsActor DEF Runs, Active, IInv, Landing, ContextFits
  <1>2. PICK b \in Actor : b = caller[c].stack
    BY DEF IInv, TypeOK
  <1>3. caller[c].at = "in_resume" /\ b # c /\ awaits[b] = c
    BY <1>1, <1>2 DEF IInv, CallersWait
  <1>4. /\ cpu' = b /\ landed' = "in_resume" /\ caller' = caller /\ awaits' = awaits
        /\ context' = [context EXCEPT ![c] = [stack |-> c, at |-> place]]
    BY <1>2, <1>3 DEF SwapOut
  <1>5. /\ context' \in [Co -> [stack : Actor, at : Place \cup {"zeroed"}]]
        /\ context'[c] = [stack |-> c, at |-> place]
        /\ \A d \in Co \ {c} : context'[d] = context[d]
    BY <1>1, <1>4 DEF IInv, TypeOK, Place
  <1>6. ~Active(c)' /\ \A d \in Co \ {c} : Active(d)' = Active(d)
    <2>1. ~Active(c)'
      BY <1>1, <1>3, <1>4 DEF Active
    <2>2. ASSUME NEW d \in Co \ {c} PROVE Active(d)' <=> Active(d)
      <3>1. CASE d = b
        BY <1>3, <1>4, <3>1 DEF Active
      <3>2. CASE d # b
        BY <1>4, <3>2 DEF Active
      <3> QED
        BY <3>1, <3>2
    <2>3. \A d \in Co \ {c} : Active(d) \in BOOLEAN /\ Active(d)' \in BOOLEAN
      BY DEF Active
    <2> QED
      BY <2>1, <2>2, <2>3
  <1> QED
    BY <1>1, <1>2, <1>3, <1>4, <1>5, <1>6

\* co_yield and the end of entry_point: the switch back to the resumer.
LEMMA SwapOutStep ==
    ASSUME IInv, NEW c \in Co, Runs, cpu = c, NEW place \in {"in_yield", "past_end"}, SwapOut(c, place),
           ~padding[c],
           status' \in [Co -> {"NULL", "CREATED", "STARTED", "STOPPED"}],
           \A d \in Co \ {c} : status'[d] = status[d],
           status'[c] = IF place = "in_yield" THEN status[c] ELSE "STOPPED",
           yielded' \in [Co -> Value \cup {-1}], UNCHANGED <<padding, got, exited>>
    PROVE  IInv'
  <1>0. PICK b \in Actor :
           /\ landed = "body" /\ awaits[c] = c /\ Active(c) /\ c \in Actor /\ status[c] = "STARTED"
           /\ b = caller[c].stack /\ b # c /\ awaits[b] = c
           /\ cpu' = b /\ landed' = "in_resume" /\ caller' = caller /\ awaits' = awaits
           /\ context' \in [Co -> [stack : Actor, at : Place \cup {"zeroed"}]]
           /\ context'[c] = [stack |-> c, at |-> place]
           /\ \A d \in Co \ {c} : context'[d] = context[d]
           /\ ~Active(c)' /\ \A d \in Co \ {c} : Active(d)' = Active(d)
    BY SwitchOut
  <1>1. /\ landed = "body" /\ awaits[c] = c /\ Active(c) /\ c \in Actor /\ status[c] = "STARTED"
    BY <1>0
  <1>3. b # c /\ awaits[b] = c
    BY <1>0
  <1>4. cpu' = b /\ landed' = "in_resume" /\ caller' = caller /\ awaits' = awaits
    BY <1>0
  <1>5. /\ context' \in [Co -> [stack : Actor, at : Place \cup {"zeroed"}]]
        /\ context'[c] = [stack |-> c, at |-> place]
        /\ \A d \in Co \ {c} : context'[d] = context[d]
    BY <1>0
  <1>6. TypeOK'
    BY <1>4, <1>5 DEF IInv, TypeOK, Place
  <1>7. ~Active(c)' /\ \A d \in Co \ {c} : Active(d)' = Active(d)
    BY <1>0
  <1>8. CallersWait'
    BY <1>4, <1>7 DEF IInv, CallersWait
  <1>9. ContextFits'
    <2> SUFFICES ASSUME NEW d \in Co
                 PROVE  (/\ ~Active(d) /\ status[d] = "CREATED" =>
                               context[d] = [stack |-> d, at |-> "entry_point"]
                         /\ ~Active(d) /\ status[d] = "STARTED" =>
                               context[d] = [stack |-> d, at |-> "in_yield"]
                         /\ ~exited /\ Active(d) =>
                               status[d] = IF cpu = d /\ landed = "entry_point"
                                           THEN "CREATED" ELSE "STARTED")'
      BY DEF ContextFits
    <2>1. CASE d = c
      BY <1>1, <1>5, <1>7, <2>1
    <2>2. CASE d # c
      BY <1>1, <1>4, <1>5, <1>7, <2>2 DEF IInv, ContextFits
    <2> QED
      BY <2>1, <2>2
  <1>10. Landing'
    <2>1. awaits'[cpu'] = c /\ c # cpu'
      BY <1>3, <1>4
    <2>2. ~Active(awaits[cpu])'
      BY <1>1, <1>4, <2>1 DEF Active
    <2>3. \A a \in Actor : awaits'[a] # a => awaits'[a] \in Co
      BY <1>4 DEF IInv, Landing
    <2>4. ~exited'
      BY DEF Runs
    <2> QED
      BY <1>4, <2>1, <2>2, <2>3, <2>4 DEF Landing
  <1>11. SuspendedIsIntact'
    BY <1>7 DEF IInv, SuspendedIsIntact
  <1> QED
    BY <1>6, <1>8, <1>9, <1>10, <1>11 DEF IInv

\* The code after a switch goes on: entry_point calls func.
LEMMA EntryStep == ASSUME IInv, NEW c \in Co, entry_point(c) PROVE IInv'
  <1>1. /\ cpu = c /\ landed = "entry_point" /\ landed' = "body" /\ c \in Actor /\ Active(c)
        /\ UNCHANGED <<cpu, context, caller, yielded, padding, awaits, exited>>
    BY CoIsActor DEF entry_point, Active
  <1>2. \A a : Active(a)' = Active(a)
    BY <1>1 DEF Active
  <1>3. /\ status' \in [Co -> {"NULL", "CREATED", "STARTED", "STOPPED"}]
        /\ status'[c] = "STARTED" /\ \A d \in Co \ {c} : status'[d] = status[d]
        /\ got' \in [Actor -> Value \cup {-1}]
    BY <1>1 DEF entry_point, IInv, TypeOK
  <1>4. TypeOK'
    BY <1>1, <1>3 DEF IInv, TypeOK
  <1>5. CallersWait'
    BY <1>1, <1>2 DEF IInv, CallersWait
  <1>6. ContextFits'
    BY <1>1, <1>2, <1>3 DEF IInv, ContextFits
  <1>7. Landing' /\ SuspendedIsIntact'
    BY <1>1, <1>2 DEF IInv, Landing, SuspendedIsIntact
  <1> QED
    BY <1>4, <1>5, <1>6, <1>7 DEF IInv

\* co_resume returns to who was waiting.
LEMMA ResumeReturnsStep == ASSUME IInv, ResumeReturns PROVE IInv'
  <1>1. /\ landed = "in_resume" /\ landed' = "body" /\ cpu \in Actor /\ awaits[cpu] # cpu
        /\ awaits[cpu] \in Co /\ ~Active(awaits[cpu])
        /\ awaits' = [awaits EXCEPT ![cpu] = cpu]
        /\ got' = [got EXCEPT ![cpu] = yielded[awaits[cpu]]]
        /\ UNCHANGED <<cpu, context, caller, status, yielded, padding, exited>>
    BY DEF ResumeReturns, blocks, IInv, Landing, TypeOK
  <1>2. /\ awaits' \in [Actor -> Actor] /\ awaits'[cpu] = cpu
        /\ \A a \in Actor \ {cpu} : awaits'[a] = awaits[a]
        /\ got' \in [Actor -> Value \cup {-1}]
    BY <1>1 DEF IInv, TypeOK
  <1>3. TypeOK'
    BY <1>1, <1>2 DEF IInv, TypeOK
  <1>4. \A d \in Co : Active(d)' = Active(d)
    <2>1. ASSUME NEW d \in Co PROVE Active(d)' <=> Active(d)
      BY <1>1, <1>2, CoIsActor DEF Active
    <2>2. \A d \in Co : Active(d) \in BOOLEAN /\ Active(d)' \in BOOLEAN
      BY DEF Active
    <2> QED
      BY <2>1, <2>2
  <1>5. CallersWait'
    <2> SUFFICES ASSUME NEW d \in Co, Active(d)'
                 PROVE  /\ caller'[d].at = "in_resume" /\ caller'[d].stack # d
                        /\ awaits'[caller'[d].stack] = d
      BY DEF CallersWait
    <2>1. /\ caller[d].at = "in_resume" /\ caller[d].stack # d
          /\ awaits[caller[d].stack] = d /\ caller[d].stack \in Actor /\ Active(d)
      BY <1>4 DEF IInv, CallersWait, TypeOK
    <2>2. caller[d].stack # cpu
      BY <1>1, <2>1
    <2> QED
      BY <1>1, <1>2, <2>1, <2>2
  <1>6. ContextFits'
    BY <1>1, <1>4 DEF IInv, ContextFits
  <1>7. Landing'
    BY <1>1, <1>2 DEF IInv, Landing
  <1>8. SuspendedIsIntact'
    BY <1>1, <1>4 DEF IInv, SuspendedIsIntact
  <1> QED
    BY <1>3, <1>5, <1>6, <1>7, <1>8 DEF IInv

\* co_yield returns to a coroutine that was resumed again.
LEMMA YieldReturnsStep == ASSUME IInv, NEW c \in Co, YieldReturns(c) PROVE IInv'
  <1>1. /\ cpu = c /\ landed = "in_yield" /\ landed' = "body" /\ c \in Actor
        /\ got' = [got EXCEPT ![c] = yielded[c]]
        /\ UNCHANGED <<cpu, context, caller, status, yielded, padding, awaits, exited>>
    BY CoIsActor DEF YieldReturns, blocks
  <1>2. \A a : Active(a)' = Active(a)
    BY <1>1 DEF Active
  <1>3. got' \in [Actor -> Value \cup {-1}]
    BY <1>1 DEF IInv, TypeOK
  <1>4. TypeOK'
    BY <1>1, <1>3 DEF IInv, TypeOK
  <1>5. CallersWait' /\ ContextFits'
    BY <1>1, <1>2 DEF IInv, CallersWait, ContextFits
  <1>6. Landing' /\ SuspendedIsIntact'
    BY <1>1, <1>2 DEF IInv, Landing, SuspendedIsIntact
  <1> QED
    BY <1>4, <1>5, <1>6 DEF IInv

\* The coroutine's calls overwrite its guard.
LEMMA OverflowStep == ASSUME IInv, NEW c \in Co, Overflow(c) PROVE IInv'
  <1>1. /\ landed = "body" /\ padding' \in [Co -> BOOLEAN] /\ cpu = c
        /\ \A d \in Co \ {c} : padding'[d] = padding[d]
        /\ UNCHANGED <<cpu, landed, context, caller, status, yielded, awaits, got, exited>>
    BY DEF Overflow, Runs, IInv, TypeOK
  <1>2. TypeOK'
    BY <1>1 DEF IInv, TypeOK
  <1>3. SuspendedIsIntact'
    BY <1>1 DEF IInv, SuspendedIsIntact, Active
  <1> QED
    BY <1>1, <1>2, <1>3, Frame DEF IInv

\* Every step keeps the invariant.
LEMMA StepInv == IInv /\ [Next]_vars => IInv'
  <1> SUFFICES ASSUME IInv, [Next]_vars PROVE IInv'
    OBVIOUS
  <1>1. CASE ResumeReturns
    BY <1>1, ResumeReturnsStep
  <1>2. ASSUME NEW c \in Co, co_new(c) \/ co_free(c) \/ entry_point(c) \/ YieldReturns(c) \/ Overflow(c)
        PROVE  IInv'
    BY <1>2, NewStep, FreeStep, EntryStep, YieldReturnsStep, OverflowStep
  <1>3. ASSUME NEW c \in Co, co_resume(c) PROVE IInv'
    <2>1. CASE StackOverflowed(c)
      BY <1>3, <2>1 DEF co_resume, ResumeAllowed, StackOverflowed, IInv, SuspendedIsIntact
    <2>2. CASE ~padding[c] /\ SwapIn(c) /\ UNCHANGED <<status, yielded, padding, got, exited>>
      <3>1. ResumeAllowed(c) /\ yielded' \in [Co -> Value \cup {-1}]
        BY <1>3, <2>2 DEF co_resume, IInv, TypeOK
      <3> QED
        BY <2>2, <3>1, SwapInStep
    <2> QED
      BY <1>3, <2>1, <2>2 DEF co_resume
  <1>4. ASSUME NEW c \in Co, NEW v \in Value, co_resume_value(c, v) PROVE IInv'
    <2>1. CASE StackOverflowed(c)
      BY <1>4, <2>1 DEF co_resume_value, ResumeAllowed, StackOverflowed, IInv, SuspendedIsIntact
    <2>2. CASE /\ ~padding[c] /\ yielded' = [yielded EXCEPT ![c] = v] /\ SwapIn(c)
               /\ UNCHANGED <<status, padding, got, exited>>
      <3>1. ResumeAllowed(c) /\ yielded' \in [Co -> Value \cup {-1}]
        BY <1>4, <2>2 DEF co_resume_value, IInv, TypeOK
      <3> QED
        BY <2>2, <3>1, SwapInStep
    <2> QED
      BY <1>4, <2>1, <2>2 DEF co_resume_value
  <1>5. ASSUME NEW c \in Co, NEW v \in Value, co_yield(c, v) PROVE IInv'
    <2>1. CASE StackOverflowed(c)
      BY <1>5, <2>1, OverflowedStep DEF co_yield, StackOverflowed, blocks
    <2>2. CASE /\ ~padding[c] /\ yielded' = [yielded EXCEPT ![c] = v] /\ SwapOut(c, "in_yield")
               /\ UNCHANGED <<status, padding, got, exited>>
      <3>1. /\ Runs /\ cpu = c /\ yielded' \in [Co -> Value \cup {-1}]
            /\ status' \in [Co -> {"NULL", "CREATED", "STARTED", "STOPPED"}]
        BY <1>5, <2>2 DEF co_yield, IInv, TypeOK
      <3> QED
        BY <2>2, <3>1, SwapOutStep
    <2> QED
      BY <1>5, <2>1, <2>2 DEF co_yield, GuardIntact
  <1>6. ASSUME NEW c \in Co, entry_point_returns(c) PROVE IInv'
    <2>1. CASE exited' = TRUE /\ UNCHANGED <<cpu, landed, context, caller, yielded, padding, awaits, got>>
      BY <1>6, <2>1, OverflowedStep DEF entry_point_returns
    <2>2. CASE /\ ~padding[c]
               /\ yielded' = [yielded EXCEPT ![c] = LastValue] /\ SwapOut(c, "past_end")
               /\ UNCHANGED <<padding, got, exited>>
      <3>1. /\ Runs /\ cpu = c /\ yielded' \in [Co -> Value \cup {-1}]
            /\ status' \in [Co -> {"NULL", "CREATED", "STARTED", "STOPPED"}]
            /\ status'[c] = "STOPPED" /\ \A d \in Co \ {c} : status'[d] = status[d]
        BY <1>6, <2>2 DEF entry_point_returns, LastValue, IInv, TypeOK
      <3> QED
        BY <2>2, <3>1, SwapOutStep
    <2> QED
      BY <1>6, <2>1, <2>2 DEF entry_point_returns, GuardIntact
  <1>7. CASE UNCHANGED vars
    <2>1. TypeOK'
      BY <1>7 DEF vars, IInv, TypeOK
    <2>2. SuspendedIsIntact'
      BY <1>7 DEF vars, IInv, SuspendedIsIntact, Active
    <2> QED
      BY <1>7, <2>1, <2>2, Frame DEF vars, IInv, Landing
  <1> QED
    BY <1>1, <1>2, <1>3, <1>4, <1>5, <1>6, <1>7 DEF Next

\* The invariant holds in every behaviour.
LEMMA Invariance == Spec => []IInv
  BY InitInv, StepInv, PTL DEF Spec

-----------------------------------------------------------------------------
(* The theorems.                                                           *)

\* Every context is one that was saved or zeroed, and every value read is one
\* that was handed over.
THEOREM TypeCorrect == Spec => []TypeOK
  <1>1. IInv => TypeOK
    BY DEF IInv
  <1> QED
    BY Invariance, <1>1, PTL

\* No switch of swap_context lands on a context that was not saved or behind
\* the end of entry_point, and each lands where the status of the coroutine
\* says, however deep coroutines resume one another.
THEOREM SwitchesLandInCode == Spec => []LandsInCode
  <1>1. IInv => LandsInCode
    <2> SUFFICES ASSUME IInv PROVE LandsInCode
      OBVIOUS
    <2>1. landed = "in_yield" => cpu \in Co /\ status[cpu] = "STARTED"
      BY DEF IInv, Landing, ContextFits, Active
    <2>2. landed = "entry_point" => cpu \in Co /\ status[cpu] = "CREATED"
      BY DEF IInv, Landing, ContextFits, Active
    <2> QED
      BY <2>1, <2>2 DEF IInv, Landing, LandsInCode
  <1> QED
    BY Invariance, <1>1, PTL

\* An overflow never outlives the turn of the coroutine it happened in: who
\* handed control back, or was never given it, has an intact guard, however deep
\* coroutines resume one another.
THEOREM GuardsOfSuspended == Spec => []SuspendedIsIntact
  <1>1. IInv => SuspendedIsIntact
    BY DEF IInv
  <1> QED
    BY Invariance, <1>1, PTL

-----------------------------------------------------------------------------
(* The chain of callers.                                                   *)

\* A set of numbers that is not empty has a least member.
LEMMA LeastNat ==
    ASSUME NEW T, T \subseteq Nat, T # {}
    PROVE  \E x \in T : \A y \in T : x <= y
  <1> DEFINE R == OpToRel(<, Nat)
  <1>1. IsWellFoundedOn(R, Nat)
    BY NatLessThanWellFounded
  <1>2. \A x, y \in Nat : <<y, x>> \in R <=> y < x
    BY DEF OpToRel
  <1> HIDE DEF R
  <1>3. PICK x \in T : \A y \in T : ~(<<y, x>> \in R)
    BY <1>1, WFMin
  <1>4. \A y \in T : x <= y
    <2> TAKE y \in T
    <2>1. x \in Nat /\ y \in Nat
      OBVIOUS
    <2>2. ~(y < x)
      BY <1>2, <1>3, <2>1
    <2> QED
      BY <2>1, <2>2
  <1> QED
    BY <1>4

\* s is the chain from Main to who runs, each saved as the caller of the next.
Linked(s, runs, saved) ==
    /\ s \in Seq(Actor) /\ Len(s) >= 1 /\ s[1] = Main /\ s[Len(s)] = runs
    /\ \A i \in 2..Len(s) : s[i] \in Co /\ saved[s[i]].stack = s[i - 1]
    /\ \A i, j \in 1..Len(s) : s[i] = s[j] => i = j

\* u is computed as Up is.
Climbs(u, runs, saved) ==
    u = [n \in 0..N |-> IF n = 0 THEN runs
                        ELSE IF u[n - 1] = Main THEN Main ELSE saved[u[n - 1]].stack]

\* The chain s from its end, then Main.
FromTop(s) == [n \in 0..N |-> IF n < Len(s) THEN s[Len(s) - n] ELSE Main]

\* There are as many levels as coroutines.
LEMMA ActorCount == N \in Nat /\ IsFiniteSet(Actor) /\ Cardinality(Actor) = N + 1
  BY FiniteAssumption, CoAssumption, FS_CardinalityType, FS_AddElement DEF N, Actor

\* No actor is on a chain twice, so a chain is at most that long.
LEMMA ChainBound ==
    ASSUME NEW s, NEW runs, NEW saved, Linked(s, runs, saved)
    PROVE  Len(s) \in 1 .. N + 1
  <1>1. s \in Seq(Actor) /\ Len(s) \in Nat /\ Len(s) >= 1 /\ s \in [1..Len(s) -> Actor]
    BY DEF Linked
  <1>2. \A i, j \in 1..Len(s) : s[i] = s[j] => i = j
    BY DEF Linked
  <1>3. s \in Injection(1..Len(s), Actor)
    BY <1>1, <1>2 DEF Injection, IsInjective
  <1>4. Cardinality(1..Len(s)) <= N + 1
    BY <1>3, ActorCount, FS_Injection
  <1>5. Cardinality(1..Len(s)) = Len(s)
    BY <1>1, FS_Interval
  <1> QED
    BY <1>1, <1>4, <1>5, ActorCount

\* Following the saved callers goes up the chain.
LEMMA FromTopClimbs ==
    ASSUME NEW s, NEW runs, NEW saved, Linked(s, runs, saved)
    PROVE  Climbs(FromTop(s), runs, saved)
  <1> DEFINE u == FromTop(s)
             v == [n \in 0..N |-> IF n = 0 THEN runs
                                  ELSE IF u[n - 1] = Main THEN Main ELSE saved[u[n - 1]].stack]
  <1>1. Len(s) \in 1 .. N + 1 /\ N \in Nat
    BY ChainBound, ActorCount
  <1>2. \A n \in 0..N : u[n] = IF n < Len(s) THEN s[Len(s) - n] ELSE Main
    BY DEF FromTop
  <1> HIDE DEF u
  <1>3. ASSUME NEW n \in 0..N PROVE u[n] = v[n]
    <2>1. CASE n = 0
      <3>1. 0 < Len(s) /\ Len(s) - 0 = Len(s)
        BY <1>1
      <3>2. s[Len(s)] = runs
        BY DEF Linked
      <3> QED
        BY <1>1, <1>2, <2>1, <3>1, <3>2
    <2>2. CASE n # 0
      <3>1. n - 1 \in 0..N /\ n \in Nat
        BY <1>1, <2>2
      <3>2. u[n - 1] = IF n - 1 < Len(s) THEN s[Len(s) - (n - 1)] ELSE Main
        BY <1>2, <3>1
      <3>3. CASE n < Len(s)
        <4>1. /\ n - 1 < Len(s) /\ Len(s) - (n - 1) \in 2..Len(s)
              /\ (Len(s) - (n - 1)) - 1 = Len(s) - n
          BY <1>1, <2>2, <3>1, <3>3
        <4>2. /\ s[Len(s) - (n - 1)] \in Co
              /\ saved[s[Len(s) - (n - 1)]].stack = s[(Len(s) - (n - 1)) - 1]
          BY <4>1 DEF Linked
        <4>3. u[n - 1] # Main /\ saved[u[n - 1]].stack = s[Len(s) - n]
          BY <3>2, <4>1, <4>2, CoAssumption
        <4> QED
          BY <1>2, <2>2, <3>3, <4>3
      <3>4. CASE n >= Len(s)
        <4>1. n - 1 < Len(s) => Len(s) - (n - 1) = 1
          BY <1>1, <3>1, <3>4
        <4>2. u[n - 1] = Main
          BY <3>2, <4>1 DEF Linked
        <4>3. u[n] = Main
          BY <1>1, <1>2, <3>1, <3>4
        <4> QED
          BY <2>2, <4>2, <4>3
      <3> QED
        BY <1>1, <3>1, <3>3, <3>4
    <2> QED
      BY <2>1, <2>2
  <1>4. u = [n \in 0..N |-> u[n]]
    BY DEF u, FromTop
  <1>5. u = v
    <2>1. v = [n \in 0..N |-> v[n]]
      OBVIOUS
    <2> HIDE DEF v
    <2> QED
      BY <1>3, <1>4, <2>1
  <1> QED
    BY <1>5 DEF Climbs, u

\* There is one way up.
LEMMA OneWayUp ==
    ASSUME NEW u, NEW v, NEW runs, NEW saved, Climbs(u, runs, saved), Climbs(v, runs, saved)
    PROVE  u = v
  <1> DEFINE Bad == {n \in 0..N : u[n] # v[n]}
  <1>1. N \in Nat
    BY ActorCount
  <1>2. \A n \in 0..N : u[n] = IF n = 0 THEN runs
                               ELSE IF u[n - 1] = Main THEN Main ELSE saved[u[n - 1]].stack
    BY DEF Climbs
  <1>3. \A n \in 0..N : v[n] = IF n = 0 THEN runs
                               ELSE IF v[n - 1] = Main THEN Main ELSE saved[v[n - 1]].stack
    BY DEF Climbs
  <1>4. ASSUME Bad # {} PROVE FALSE
    <2>1. Bad \subseteq Nat
      BY <1>1
    <2>2. PICK n \in Bad : \A m \in Bad : n <= m
      <3> HIDE DEF Bad
      <3> QED
        BY <1>4, <2>1, LeastNat
    <2>3. n \in 0..N /\ u[n] # v[n] /\ n # 0
      BY <1>2, <1>3, <2>2
    <2>4. n - 1 \in 0..N
      BY <1>1, <2>3
    <2>5. n - 1 \notin Bad
      <3> HIDE DEF Bad
      <3> QED
        BY <2>2, <2>3
    <2> QED
      BY <1>2, <1>3, <2>3, <2>4, <2>5
  <1>5. u = [n \in 0..N |-> u[n]] /\ v = [n \in 0..N |-> v[n]]
    BY DEF Climbs
  <1> QED
    BY <1>4, <1>5

\* The level at which Main is, and the levels read downwards: the chain itself.
LEMMA FromTopBack ==
    ASSUME NEW s, NEW runs, NEW saved, Linked(s, runs, saved), NEW u, u = FromTop(s), NEW d,
           d = CHOOSE n \in 0..N : /\ n = N \/ u[n] = Main
                                   /\ \A m \in 0 .. n - 1 : u[m] # Main
    PROVE  [i \in 1 .. d + 1 |-> u[d + 1 - i]] = s
  <1> DEFINE Is(n) == (n = N \/ u[n] = Main) /\ \A m \in 0 .. n - 1 : u[m] # Main
             k == Len(s) - 1
  <1>1. Len(s) \in 1 .. N + 1 /\ N \in Nat /\ k \in 0..N
    BY ChainBound, ActorCount
  <1>2. \A n \in 0..N : u[n] = IF n < Len(s) THEN s[Len(s) - n] ELSE Main
    BY DEF FromTop
  <1>3. s[1] = Main /\ \A i \in 2..Len(s) : s[i] # Main
    BY CoAssumption DEF Linked
  <1>4. u[k] = Main
    BY <1>1, <1>2, <1>3
  <1>5. \A m \in 0 .. k - 1 : u[m] # Main
    <2> TAKE m \in 0 .. k - 1
    <2>1. m \in 0..N /\ m < Len(s) /\ Len(s) - m \in 2..Len(s)
      BY <1>1
    <2> QED
      BY <1>2, <1>3, <2>1
  <1>6. \A n \in 0..N : Is(n) => n = k
    <2> SUFFICES ASSUME NEW n \in 0..N, Is(n) PROVE n = k
      OBVIOUS
    <2> HIDE DEF k
    <2>1. ~(k < n)
      BY <1>1, <1>4
    <2>2. ~(n < k)
      <3> SUFFICES ASSUME n < k PROVE FALSE
        OBVIOUS
      <3>1. n \in 0 .. k - 1 /\ n # N
        BY <1>1
      <3> QED
        BY <1>5, <3>1
    <2> QED
      BY <1>1, <2>1, <2>2
  <1>7. Is(k)
    BY <1>4, <1>5
  <1>8. d = CHOOSE n \in 0..N : Is(n)
    OBVIOUS
  <1> HIDE DEF Is
  <1>9. d = k
    BY <1>1, <1>6, <1>7, <1>8
  <1>10. d + 1 = Len(s)
    <2>1. k + 1 = Len(s)
      BY <1>1
    <2> HIDE DEF k
    <2> QED
      BY <1>9, <2>1, Zenon
  <1>11. \A i \in 1..Len(s) : u[d + 1 - i] = s[i]
    <2> TAKE i \in 1..Len(s)
    <2>1. Len(s) - i \in 0..N /\ Len(s) - i < Len(s) /\ Len(s) - (Len(s) - i) = i
      BY <1>1
    <2>2. d + 1 - i = Len(s) - i
      <3>1. k + 1 - i = Len(s) - i
        BY <1>1
      <3> QED
        BY <1>9, <3>1
    <2> QED
      BY <1>2, <2>1, <2>2
  <1>12. s = [i \in 1..Len(s) |-> s[i]]
    BY DEF Linked
  <1>13. [i \in 1..Len(s) |-> u[d + 1 - i]] = [i \in 1..Len(s) |-> s[i]]
    BY <1>11
  <1> QED
    BY <1>10, <1>12, <1>13

\* The stack of the refinement is the chain of callers.
LEMMA StackIs ==
    ASSUME NEW s, Linked(s, cpu, caller)
    PROVE  [i \in 1 .. Depth + 1 |-> Up[Depth + 1 - i]] = s
  <1>1. Climbs(FromTop(s), cpu, caller)
    BY FromTopClimbs
  <1>2. Climbs(Up, cpu, caller)
    BY <1>1 DEF Up, Climbs
  <1>3. Up = FromTop(s)
    BY <1>1, <1>2, OneWayUp
  <1> DEFINE u == Up
             d == Depth
  <1>4. d = CHOOSE n \in 0..N : /\ n = N \/ u[n] = Main
                               /\ \A m \in 0 .. n - 1 : u[m] # Main
    BY Zenon DEF Depth
  <1>5. u = FromTop(s)
    BY <1>3
  <1> HIDE DEF u, d
  <1>6. [i \in 1 .. d + 1 |-> u[d + 1 - i]] = s
    BY <1>4, <1>5, FromTopBack
  <1> QED
    BY <1>6 DEF u, d

\* The same of the next state.
LEMMA NextStackIs ==
    ASSUME NEW s, Linked(s, cpu', caller')
    PROVE  [i \in 1 .. Depth + 1 |-> Up[Depth + 1 - i]]' = s
  <1>1. Climbs(FromTop(s), cpu', caller')
    BY FromTopClimbs
  <1>2. Climbs(Up', cpu', caller')
    BY <1>1 DEF Up, Climbs
  <1>3. Up' = FromTop(s)
    BY <1>1, <1>2, OneWayUp
  <1> DEFINE u == Up'
             d == Depth'
  <1>4. d = CHOOSE n \in 0..N : /\ n = N \/ u[n] = Main
                               /\ \A m \in 0 .. n - 1 : u[m] # Main
    BY Zenon DEF Depth
  <1>5. u = FromTop(s)
    BY <1>3
  <1> HIDE DEF u, d
  <1>6. [i \in 1 .. d + 1 |-> u[d + 1 - i]] = s
    BY <1>4, <1>5, FromTopBack
  <1> QED
    BY <1>6 DEF u, d
-----------------------------------------------------------------------------
(* The refinement.                                                         *)

\* The coroutines on the chain are the active ones.
OnChain(s) == \A c \in Co : Active(c) <=> \E i \in 1..Len(s) : s[i] = c

\* There is a chain from Main to who runs, and nobody else is active.
HasChain == \E s \in Seq(Actor) : Linked(s, cpu, caller) /\ OnChain(s)

\* What stands for the variables of CoroStack.
StackOf == [i \in 1 .. Depth + 1 |-> Up[Depth + 1 - i]]
InboxOf == [a \in Actor |-> Handed(a)]
LifeOf == [c \in Co |-> Life(c)]

\* A step that leaves the chain alone.
LEMMA SameChain ==
    ASSUME NEW s \in Seq(Actor), Linked(s, cpu, caller), OnChain(s), cpu' = cpu,
           \A d \in Co : Active(d) => caller'[d] = caller[d],
           \A d \in Co : Active(d)' <=> Active(d)
    PROVE  Linked(s, cpu', caller') /\ OnChain(s)' /\ StackOf' = StackOf
  <1>1. \A i \in 2..Len(s) : s[i] \in Co /\ Active(s[i])
    BY DEF Linked, OnChain
  <1>2. Linked(s, cpu', caller')
    BY <1>1 DEF Linked
  <1>3. OnChain(s)'
    BY DEF OnChain
  <1> QED
    BY <1>2, <1>3, StackIs, NextStackIs DEF StackOf

\* A resumed coroutine is put on the chain.
LEMMA LongerChain ==
    ASSUME NEW s \in Seq(Actor), Linked(s, cpu, caller), OnChain(s), NEW c \in Co, ~Active(c),
           cpu' = c, caller'[c].stack = cpu, \A d \in Co \ {c} : caller'[d] = caller[d],
           Active(c)', \A d \in Co \ {c} : Active(d)' <=> Active(d)
    PROVE  /\ Append(s, c) \in Seq(Actor) /\ Linked(Append(s, c), cpu', caller') /\ OnChain(Append(s, c))'
           /\ StackOf = s /\ StackOf' = Append(s, c) /\ \A i \in 1..Len(s) : s[i] # c
  <1> DEFINE t == Append(s, c)
  <1>1. /\ t \in Seq(Actor) /\ Len(t) = Len(s) + 1 /\ Len(s) \in Nat /\ Len(s) >= 1
        /\ t[Len(s) + 1] = c /\ \A i \in 1..Len(s) : t[i] = s[i]
    BY CoIsActor DEF Linked
  <1>2. \A i \in 1..Len(s) : s[i] # c
    BY DEF OnChain
  <1> HIDE DEF t
  <1>3. \A i \in 1..Len(t) : i \in 1..Len(s) \/ i = Len(s) + 1
    BY <1>1
  <1>4. t[1] = Main /\ t[Len(t)] = c
    BY <1>1 DEF Linked
  <1>5. \A i \in 2..Len(t) : t[i] \in Co /\ caller'[t[i]].stack = t[i - 1]
    <2> TAKE i \in 2..Len(t)
    <2>1. CASE i = Len(s) + 1
      <3>1. i - 1 = Len(s) /\ i - 1 \in 1..Len(s)
        BY <1>1, <2>1
      <3> QED
        BY <1>1, <2>1, <3>1 DEF Linked
    <2>2. CASE i # Len(s) + 1
      <3>1. i \in 2..Len(s) /\ i \in 1..Len(s) /\ i - 1 \in 1..Len(s)
        BY <1>1, <2>2
      <3>2. s[i] \in Co /\ caller[s[i]].stack = s[i - 1] /\ s[i] # c
        BY <1>2, <3>1 DEF Linked
      <3> QED
        BY <1>1, <3>1, <3>2
    <2> QED
      BY <2>1, <2>2
  <1>6. \A i, j \in 1..Len(t) : t[i] = t[j] => i = j
    BY <1>1, <1>2, <1>3 DEF Linked
  <1>7. Linked(t, cpu', caller')
    BY <1>1, <1>4, <1>5, <1>6 DEF Linked
  <1>8. OnChain(t)'
    <2> SUFFICES ASSUME NEW d \in Co PROVE Active(d)' <=> \E i \in 1..Len(t) : t[i] = d
      BY DEF OnChain
    <2>1. CASE d = c
      <3>1. Len(t) \in 1..Len(t)
        BY <1>1
      <3> QED
        BY <1>4, <2>1, <3>1
    <2>2. CASE d # c
      <3>1. (\E i \in 1..Len(t) : t[i] = d) <=> \E i \in 1..Len(s) : s[i] = d
        BY <1>1, <1>3, <2>2
      <3> QED
        BY <2>2, <3>1 DEF OnChain
    <2> QED
      BY <2>1, <2>2
  <1> QED
    BY <1>1, <1>2, <1>7, <1>8, StackIs, NextStackIs DEF StackOf, t

\* A coroutine that yields is taken off the chain.
LEMMA ShorterChain ==
    ASSUME NEW s \in Seq(Actor), Linked(s, cpu, caller), OnChain(s), NEW c \in Co, cpu = c,
           cpu' = caller[c].stack, caller' = caller,
           ~Active(c)', \A d \in Co \ {c} : Active(d)' <=> Active(d)
    PROVE  \E t \in Seq(Actor) :
              /\ Linked(t, cpu', caller') /\ OnChain(t)'
              /\ Len(s) > 1 /\ t = SubSeq(s, 1, Len(s) - 1) /\ s[Len(s)] = c /\ s[Len(s) - 1] = cpu'
              /\ StackOf = s /\ StackOf' = t
  <1> DEFINE t == SubSeq(s, 1, Len(s) - 1)
  <1>1. Len(s) \in Nat /\ Len(s) >= 1 /\ s[1] = Main /\ s[Len(s)] = c
    BY DEF Linked
  <1>2. Len(s) \in 2..Len(s) /\ Len(s) > 1 /\ Len(s) - 1 \in 1..Len(s)
    BY <1>1, CoAssumption
  <1>3. s[Len(s) - 1] = cpu'
    BY <1>1, <1>2 DEF Linked
  <1>4. t \in Seq(Actor) /\ Len(t) = Len(s) - 1 /\ \A i \in 1..Len(t) : t[i] = s[i]
    BY <1>1, <1>2
  <1> HIDE DEF t
  <1>5. \A i \in 1..Len(t) : i \in 1..Len(s) /\ i # Len(s)
    BY <1>1, <1>4
  <1>6. \A i \in 2..Len(t) : t[i] \in Co /\ caller'[t[i]].stack = t[i - 1]
    <2> TAKE i \in 2..Len(t)
    <2>1. i \in 2..Len(s) /\ i \in 1..Len(t) /\ i - 1 \in 1..Len(t)
      BY <1>1, <1>4
    <2> QED
      BY <1>4, <2>1 DEF Linked
  <1>7. 1 \in 1..Len(t) /\ Len(t) \in 1..Len(t)
    BY <1>1, <1>2, <1>4
  <1>8. Linked(t, cpu', caller')
    <2>1. t[1] = Main /\ Len(t) >= 1
      BY <1>1, <1>4, <1>7
    <2>2. t[Len(t)] = cpu'
      BY <1>3, <1>4, <1>7
    <2>3. \A i, j \in 1..Len(t) : t[i] = t[j] => i = j
      BY <1>4, <1>5 DEF Linked
    <2> QED
      BY <1>4, <1>6, <2>1, <2>2, <2>3 DEF Linked
  <1>9. OnChain(t)'
    <2> SUFFICES ASSUME NEW d \in Co PROVE Active(d)' <=> \E i \in 1..Len(t) : t[i] = d
      BY DEF OnChain
    <2>1. CASE d = c
      <3>1. \A i \in 1..Len(t) : t[i] # c
        BY <1>1, <1>2, <1>4, <1>5 DEF Linked
      <3> QED
        BY <2>1, <3>1
    <2>2. CASE d # c
      <3>1. \A i \in 1..Len(s) : s[i] = d => i \in 1..Len(t)
        BY <1>1, <1>4, <2>2
      <3>2. (\E i \in 1..Len(t) : t[i] = d) <=> \E i \in 1..Len(s) : s[i] = d
        BY <1>4, <1>5, <3>1
      <3> QED
        BY <2>2, <3>2 DEF OnChain
    <2> QED
      BY <2>1, <2>2
  <1> QED
    BY <1>1, <1>2, <1>3, <1>4, <1>8, <1>9, StackIs, NextStackIs DEF StackOf, t

\* What was handed over to whom: nobody has anything unread while code runs.
LEMMA HandedWhenRunning ==
    ASSUME landed = "body" PROVE InboxOf = [a \in Actor |-> got[a]]
  BY DEF InboxOf, Handed

\* Resuming hands the value to the coroutine.
LEMMA ResumeRefines ==
    ASSUME IInv, HasChain, NEW c \in Co, ResumeAllowed(c), SwapIn(c),
           yielded' \in [Co -> Value \cup {-1}], UNCHANGED <<status, got>>, NEW v, v = yielded'[c]
    PROVE  HasChain' /\ Stack!Resume(c, v)
  <1>1. PICK s \in Seq(Actor) : Linked(s, cpu, caller) /\ OnChain(s)
    BY DEF HasChain
  <1>2. /\ landed = "body" /\ ~Active(c) /\ c \in Actor
        /\ cpu' = c /\ caller'[c].stack = cpu /\ landed' \in {"entry_point", "in_yield"}
        /\ \A d \in Co \ {c} : caller'[d] = caller[d]
        /\ Active(c)' /\ \A d \in Co \ {c} : Active(d)' <=> Active(d)
    <2>1. /\ landed = "body" /\ ~Active(c) /\ c \in Actor
          /\ Active(c)' /\ \A d \in Co \ {c} : Active(d)' = Active(d)
      BY SwitchIn
    <2>2. /\ cpu' = c /\ landed' = (IF status[c] = "CREATED" THEN "entry_point" ELSE "in_yield")
          /\ caller'[c] = [stack |-> cpu, at |-> "in_resume"]
          /\ \A d \in Co \ {c} : caller'[d] = caller[d]
      BY SwitchIn
    <2>3. landed' \in {"entry_point", "in_yield"} /\ caller'[c].stack = cpu
      BY <2>2
    <2>4. \A d \in Co \ {c} : Active(d)' <=> Active(d)
      BY <2>1
    <2> QED
      BY <2>1, <2>2, <2>3, <2>4
  <1>3. /\ Append(s, c) \in Seq(Actor) /\ Linked(Append(s, c), cpu', caller') /\ OnChain(Append(s, c))'
        /\ StackOf = s /\ StackOf' = Append(s, c) /\ \A i \in 1..Len(s) : s[i] # c
    BY <1>1, <1>2, LongerChain
  <1>4. InboxOf' = [InboxOf EXCEPT ![c] = v]
    <2>1. InboxOf = [a \in Actor |-> got[a]]
      BY <1>2, HandedWhenRunning
    <2>2. \A a \in Actor : Handed(a)' = IF a = c THEN yielded'[c] ELSE got[a]
      BY <1>2 DEF Handed
    <2>3. InboxOf' = [a \in Actor |-> IF a = c THEN yielded'[c] ELSE got[a]]
      BY <2>2 DEF InboxOf
    <2> QED
      BY <1>2, <2>1, <2>3
  <1>5. LifeOf' = LifeOf /\ LifeOf[c] = "ready"
    <2>1. status[c] \in {"CREATED", "STARTED"} /\ status' = status
      BY DEF ResumeAllowed
    <2>2. \A d \in Co : Life(d)' = Life(d)
      BY <1>2, <2>1 DEF Life
    <2> QED
      BY <2>1, <2>2 DEF LifeOf, Life
  <1>6. Stack!Resume(c, v)
    BY <1>3, <1>4, <1>5 DEF Stack!Resume, Stack!Waiting, StackOf, InboxOf, LifeOf
  <1> QED
    BY <1>3, <1>6 DEF HasChain

\* Yielding hands the value to who resumed the coroutine last.
LEMMA YieldRefines ==
    ASSUME IInv, HasChain, NEW c \in Co, Runs, cpu = c, NEW place, place \in {"in_yield", "past_end"},
           SwapOut(c, place), NEW v, v \in Value \cup {-1}, yielded' = [yielded EXCEPT ![c] = v], UNCHANGED got,
           NEW next, LifeOf' = [LifeOf EXCEPT ![c] = next]
    PROVE  HasChain' /\ Stack!Yield(v, next)
  <1>1. PICK s \in Seq(Actor) : Linked(s, cpu, caller) /\ OnChain(s)
    BY DEF HasChain
  <1>2. PICK b \in Actor :
           /\ landed = "body" /\ awaits[c] = c /\ Active(c) /\ c \in Actor /\ status[c] = "STARTED"
           /\ b = caller[c].stack /\ b # c /\ awaits[b] = c
           /\ cpu' = b /\ landed' = "in_resume" /\ caller' = caller /\ awaits' = awaits
           /\ context' \in [Co -> [stack : Actor, at : Place \cup {"zeroed"}]]
           /\ context'[c] = [stack |-> c, at |-> place]
           /\ \A d \in Co \ {c} : context'[d] = context[d]
           /\ ~Active(c)' /\ \A d \in Co \ {c} : Active(d)' = Active(d)
    BY SwitchOut
  <1>3. \A d \in Co \ {c} : Active(d)' <=> Active(d)
    BY <1>2
  <1>4. PICK t \in Seq(Actor) :
              /\ Linked(t, cpu', caller') /\ OnChain(t)'
              /\ Len(s) > 1 /\ t = SubSeq(s, 1, Len(s) - 1) /\ s[Len(s)] = c /\ s[Len(s) - 1] = cpu'
              /\ StackOf = s /\ StackOf' = t
    BY <1>1, <1>2, <1>3, ShorterChain
  <1>5. InboxOf' = [InboxOf EXCEPT ![b] = v]
    <2>1. InboxOf = [a \in Actor |-> got[a]]
      BY <1>2, HandedWhenRunning
    <2>2. yielded'[c] = v
      BY DEF IInv, TypeOK
    <2>3. \A a \in Actor : Handed(a)' = IF a = b THEN v ELSE got[a]
      BY <1>2, <2>2 DEF Handed
    <2>4. InboxOf' = [a \in Actor |-> IF a = b THEN v ELSE got[a]]
      BY <2>3 DEF InboxOf
    <2> QED
      BY <1>2, <2>1, <2>4
  <1>6. StackOf[Len(StackOf)] = c /\ StackOf[Len(StackOf) - 1] = b
    BY <1>2, <1>4
  <1>7. Stack!Yield(v, next)
    BY <1>4, <1>5, <1>6 DEF Stack!Yield, Stack!Top, StackOf, InboxOf, LifeOf
  <1> QED
    BY <1>4, <1>7 DEF HasChain

\* A step that leaves the chain alone, hands nothing over and changes no life.
LEMMA SilentRefines ==
    ASSUME HasChain, cpu' = cpu, \A d \in Co : Active(d) => caller'[d] = caller[d],
           \A d \in Co : Active(d)' <=> Active(d)
    PROVE  HasChain' /\ StackOf' = StackOf /\ \A d \in Co : ~Active(d) => d \notin Stack!Waiting
  <1>1. PICK s \in Seq(Actor) : Linked(s, cpu, caller) /\ OnChain(s)
    BY DEF HasChain
  <1>2. Linked(s, cpu', caller') /\ OnChain(s)' /\ StackOf' = StackOf
    BY <1>1, SameChain
  <1>3. StackOf = s
    BY <1>1, StackIs DEF StackOf
  <1>4. ASSUME NEW d \in Co, ~Active(d) PROVE d \notin Stack!Waiting
    <2>1. \A i \in 1..Len(s) : s[i] # d
      BY <1>1, <1>4 DEF OnChain
    <2> QED
      BY <1>3, <2>1 DEF Stack!Waiting, StackOf
  <1> QED
    BY <1>2, <1>4 DEF HasChain

\* A new coroutine is not on the chain.
LEMMA NewRefines ==
    ASSUME IInv, HasChain, NEW c \in Co, co_new(c)
    PROVE  HasChain' /\ Stack!New(c)
  <1>1. /\ status[c] = "NULL" /\ ~Active(c) /\ landed = "body" /\ c \in Actor
    BY CoIsActor DEF co_new, Runs, IInv, ContextFits
  <1>2. /\ cpu' = cpu /\ \A d \in Co : Active(d)' <=> Active(d)
    BY DEF co_new, Active
  <1>3. \A d \in Co : Active(d) => caller'[d] = caller[d]
    BY <1>1 DEF co_new, IInv, TypeOK
  <1>4. HasChain' /\ StackOf' = StackOf
    BY <1>2, <1>3, SilentRefines
  <1>5. InboxOf' = [InboxOf EXCEPT ![c] = 0]
    <2>1. InboxOf = [a \in Actor |-> got[a]]
      BY <1>1, HandedWhenRunning
    <2>2. landed' = "body" /\ got' = [got EXCEPT ![c] = 0] /\ got \in [Actor -> Value \cup {-1}]
      BY <1>1 DEF co_new, IInv, TypeOK
    <2>3. InboxOf' = [a \in Actor |-> got'[a]]
      BY <2>2 DEF InboxOf, Handed
    <2> QED
      BY <1>1, <2>1, <2>2, <2>3
  <1>6. LifeOf[c] = "none" /\ LifeOf' = [LifeOf EXCEPT ![c] = "ready"]
    <2>1. /\ status'[c] = "CREATED" /\ \A d \in Co \ {c} : status'[d] = status[d]
      BY DEF co_new, IInv, TypeOK
    <2> QED
      BY <1>1, <1>2, <2>1 DEF LifeOf, Life
  <1>7. Stack!New(c)
    BY <1>4, <1>5, <1>6 DEF Stack!New, StackOf, InboxOf, LifeOf
  <1> QED
    BY <1>4, <1>7

\* Freeing a coroutine takes nothing off the chain.
LEMMA FreeRefines ==
    ASSUME IInv, HasChain, NEW c \in Co, co_free(c)
    PROVE  HasChain' /\ Stack!Free(c)
  <1>1. ~Active(c) /\ UNCHANGED <<cpu, landed, caller, yielded, awaits, got>>
    BY DEF co_free
  <1>2. \A d \in Co : Active(d)' <=> Active(d)
    BY <1>1 DEF Active
  <1>3. HasChain' /\ StackOf' = StackOf /\ c \notin Stack!Waiting
    BY <1>1, <1>2, SilentRefines
  <1>4. InboxOf' = InboxOf
    BY <1>1 DEF InboxOf, Handed
  <1>5. LifeOf' = [LifeOf EXCEPT ![c] = "none"]
    <2>1. /\ status'[c] = "NULL" /\ \A d \in Co \ {c} : status'[d] = status[d]
      BY DEF co_free, IInv, TypeOK
    <2> QED
      BY <1>2, <2>1 DEF LifeOf, Life
  <1>6. Stack!Free(c)
    BY <1>3, <1>4, <1>5 DEF Stack!Free, StackOf, InboxOf, LifeOf
  <1> QED
    BY <1>3, <1>6

\* The code behind a switch reads what was handed over: nothing is seen of it.
LEMMA ReadingIsSilent ==
    ASSUME IInv, HasChain,
           ResumeReturns \/ \E c \in Co : entry_point(c) \/ YieldReturns(c)
    PROVE  HasChain' /\ UNCHANGED <<StackOf, InboxOf, LifeOf>>
  <1>1. /\ UNCHANGED <<cpu, caller, yielded>> /\ landed' = "body" /\ cpu \in Actor
    BY DEF ResumeReturns, entry_point, YieldReturns, blocks, IInv, TypeOK
  <1>2. \A d \in Co : Active(d)' <=> Active(d)
    <2>1. CASE ResumeReturns
      <3>1. /\ awaits[cpu] # cpu /\ awaits'[cpu] = cpu /\ cpu' = cpu
            /\ \A a \in Actor \ {cpu} : awaits'[a] = awaits[a]
        BY <1>1, <2>1 DEF ResumeReturns, IInv, Landing, TypeOK
      <3> QED
        BY <3>1, CoIsActor DEF Active
    <2>2. CASE \E c \in Co : entry_point(c) \/ YieldReturns(c)
      BY <1>1, <2>2 DEF entry_point, YieldReturns, Active
    <2> QED
      BY <2>1, <2>2
  <1>3. HasChain' /\ StackOf' = StackOf
    BY <1>1, <1>2, SilentRefines
  <1>4. InboxOf' = InboxOf
    <2>1. got' = [got EXCEPT ![cpu] = Handed(cpu)]
      BY DEF ResumeReturns, entry_point, YieldReturns, Handed
    <2>2. \A a \in Actor : a # cpu => Handed(a) = got[a]
      BY DEF Handed
    <2>3. \A a \in Actor : got'[a] = Handed(a)
      BY <1>1, <2>1, <2>2 DEF IInv, TypeOK
    <2>4. \A a \in Actor : Handed(a)' = got'[a]
      BY <1>1 DEF Handed
    <2> QED
      BY <2>3, <2>4 DEF InboxOf
  <1>5. LifeOf' = LifeOf
    <2>1. CASE \E c \in Co : entry_point(c)
      <3>1. PICK c \in Co : entry_point(c)
        BY <2>1
      <3>2. status[c] = "CREATED"
        BY <3>1 DEF entry_point, IInv, ContextFits, Active
      <3>3. status'[c] = "STARTED" /\ \A d \in Co \ {c} : status'[d] = status[d]
        BY <3>1 DEF entry_point, IInv, TypeOK
      <3> QED
        BY <1>2, <3>2, <3>3 DEF LifeOf, Life
    <2>2. CASE ResumeReturns \/ \E c \in Co : YieldReturns(c)
      BY <1>2, <2>2 DEF ResumeReturns, YieldReturns, blocks, LifeOf, Life
    <2> QED
      BY <2>1, <2>2
  <1> QED
    BY <1>3, <1>4, <1>5

\* Nor of a stack that overflows, nor of the mark a broken coroutine gets before
\* the process exits.
LEMMA OverflowIsSilent ==
    ASSUME IInv, HasChain, UNCHANGED <<cpu, landed, caller, yielded, awaits, got>>,
           \/ status' = status
           \/ \E c \in Co : Runs /\ cpu = c /\ status' = [status EXCEPT ![c] = "STOPPED"]
    PROVE  HasChain' /\ UNCHANGED <<StackOf, InboxOf, LifeOf>>
  <1>1. \A d \in Co : Active(d)' <=> Active(d)
    BY DEF Active
  <1>2. HasChain' /\ StackOf' = StackOf
    BY <1>1, SilentRefines
  <1>3. InboxOf' = InboxOf
    BY DEF InboxOf, Handed
  <1>4. ASSUME NEW c \in Co, Runs, cpu = c, status' = [status EXCEPT ![c] = "STOPPED"]
        PROVE  \A d \in Co : Life(d)' = Life(d)
    <2>1. Active(c) /\ status[c] = "STARTED"
      BY <1>4 DEF Runs, Active, IInv, ContextFits
    <2>2. status'[c] = "STOPPED" /\ \A d \in Co \ {c} : status'[d] = status[d]
      BY <1>4 DEF IInv, TypeOK
    <2> QED
      BY <1>1, <2>1, <2>2 DEF Life
  <1>5. \A d \in Co : Life(d)' = Life(d)
    <2>1. CASE status' = status
      BY <1>1, <2>1 DEF Life
    <2> QED
      BY <1>4, <2>1
  <1> QED
    BY <1>2, <1>3, <1>5 DEF LifeOf

\* Every step is a step of CoroStack or is not seen there.
LEMMA StackStep ==
    ASSUME IInv, HasChain, [Next]_vars
    PROVE  HasChain' /\ [Stack!Next]_<<StackOf, InboxOf, LifeOf>>
  <1> DEFINE Silent == UNCHANGED <<StackOf, InboxOf, LifeOf>>
             Goal == HasChain' /\ (Stack!Next \/ Silent)
  <1>1. ASSUME NEW c \in Co, co_new(c) \/ co_free(c) PROVE Goal
    BY <1>1, NewRefines, FreeRefines DEF Stack!Next
  <1>2. ASSUME ResumeReturns \/ \E c \in Co : entry_point(c) \/ YieldReturns(c) PROVE Goal
    BY <1>2, ReadingIsSilent
  <1>3. ASSUME (\E c \in Co : Overflow(c) \/ StackOverflowed(c)) \/ UNCHANGED vars PROVE Goal
    BY <1>3, OverflowIsSilent DEF Overflow, StackOverflowed, blocks, vars
  <1>4. ASSUME NEW c \in Co, co_resume(c) \/ \E v \in Value : co_resume_value(c, v) PROVE Goal
    <2>1. CASE StackOverflowed(c)
      BY <1>3, <2>1
    <2>2. CASE ~StackOverflowed(c)
      <3>1. ResumeAllowed(c) /\ SwapIn(c) /\ UNCHANGED <<status, got>>
        BY <1>4, <2>2 DEF co_resume, co_resume_value
      <3>2. yielded' \in [Co -> Value \cup {-1}]
        BY <1>4, <2>2 DEF co_resume, co_resume_value, IInv, TypeOK
      <3>3. PICK v \in Value \cup {-1} : v = yielded'[c]
        BY <3>2
      <3>4. HasChain' /\ Stack!Resume(c, v)
        BY <3>1, <3>2, <3>3, ResumeRefines
      <3> QED
        BY <3>4 DEF Stack!Next
    <2> QED
      BY <2>1, <2>2
  <1>5. ASSUME NEW c \in Co, NEW v \in Value, co_yield(c, v) PROVE Goal
    <2>1. CASE StackOverflowed(c)
      BY <1>3, <2>1
    <2>2. CASE ~StackOverflowed(c)
      <3>1. /\ Runs /\ cpu = c /\ SwapOut(c, "in_yield") /\ yielded' = [yielded EXCEPT ![c] = v]
            /\ UNCHANGED <<status, got>>
        BY <1>5, <2>2 DEF co_yield
      <3>2. status[c] = "STARTED"
        BY <3>1 DEF Runs, IInv, ContextFits, Active
      <3>3. LifeOf' = [LifeOf EXCEPT ![c] = "ready"]
        <4>1. \A d \in Co \ {c} : Active(d)' <=> Active(d)
          BY <3>1, SwitchOut
        <4> QED
          BY <3>1, <3>2, <4>1 DEF LifeOf, Life
      <3>4. HasChain' /\ Stack!Yield(v, "ready")
        BY <3>1, <3>3, YieldRefines
      <3> QED
        BY <3>4 DEF Stack!Next
    <2> QED
      BY <2>1, <2>2
  <1>6. ASSUME NEW c \in Co, entry_point_returns(c) PROVE Goal
    <2>1. CASE UNCHANGED <<cpu, landed, context, caller, yielded, padding, awaits, got>>
      BY <1>6, <2>1, OverflowIsSilent DEF entry_point_returns
    <2>2. CASE ~UNCHANGED <<cpu, landed, context, caller, yielded, padding, awaits, got>>
      <3>1. /\ Runs /\ cpu = c /\ SwapOut(c, "past_end") /\ yielded' = [yielded EXCEPT ![c] = -1]
            /\ status' = [status EXCEPT ![c] = "STOPPED"] /\ UNCHANGED got
        BY <1>6, <2>2 DEF entry_point_returns, LastValue
      <3>2. status'[c] = "STOPPED" /\ \A d \in Co \ {c} : status'[d] = status[d]
        BY <3>1 DEF IInv, TypeOK
      <3>3. LifeOf' = [LifeOf EXCEPT ![c] = "dead"]
        <4>1. ~Active(c)' /\ \A d \in Co \ {c} : Active(d)' <=> Active(d)
          BY <3>1, SwitchOut
        <4> QED
          BY <3>2, <4>1 DEF LifeOf, Life
      <3>4. HasChain' /\ Stack!Yield(-1, "dead")
        BY <3>1, <3>3, YieldRefines
      <3> QED
        BY <3>4 DEF Stack!Next
    <2> QED
      BY <2>1, <2>2
  <1>7. Goal
    <2> HIDE DEF Goal
    <2> QED
      BY <1>1, <1>2, <1>3, <1>4, <1>5, <1>6 DEF Next
  <1> QED
    BY <1>7

\* Main runs, alone.
LEMMA StackInit == Init => HasChain /\ Stack!Init
  <1> SUFFICES ASSUME Init PROVE HasChain /\ Stack!Init
    OBVIOUS
  <1> DEFINE s == <<Main>>
  <1>1. s \in Seq(Actor) /\ Len(s) = 1 /\ s[1] = Main
    BY CoIsActor
  <1> HIDE DEF s
  <1>2. Linked(s, cpu, caller)
    BY <1>1 DEF Linked, Init
  <1>3. \A c \in Co : ~Active(c)
    BY CoIsActor DEF Init, Active
  <1>4. OnChain(s)
    BY <1>1, <1>3, CoIsActor DEF OnChain
  <1>5. StackOf = <<Main>>
    BY <1>2, StackIs DEF StackOf, s
  <1>6. InboxOf = [a \in Co \cup {Main} |-> 0]
    BY DEF Init, InboxOf, Handed, Actor
  <1>7. LifeOf = [c \in Co |-> "none"]
    BY DEF Init, LifeOf, Life
  <1> QED
    BY <1>1, <1>2, <1>4, <1>5, <1>6, <1>7 DEF HasChain, Stack!Init, StackOf, InboxOf, LifeOf

\* lib/coro.c implements asymmetric coroutines: however deep they resume one
\* another and whoever resumes which, a yield goes to the actor that resumed the
\* coroutine last, and the value it reads is the one that was handed over.
THEOREM ImplementsCoroutines == Spec => ImplementsStack
  <1>1. IInv /\ HasChain /\ [Next]_vars => HasChain'
    BY StackStep
  <1>2. IInv /\ HasChain /\ [Next]_vars => [Stack!Next]_<<StackOf, InboxOf, LifeOf>>
    BY StackStep
  <1> QED
    BY <1>1, <1>2, StackInit, Invariance, PTL
       DEF Spec, ImplementsStack, Stack!Spec, StackOf, InboxOf, LifeOf
=============================================================================
