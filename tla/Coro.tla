-------------------------------- MODULE Coro --------------------------------
(***************************************************************************)
(* lib/coro.c: stackful coroutines on two saved contexts per coroutine.    *)
(* co->context is where the coroutine goes on, co->caller where its        *)
(* resumer goes on; swap_context stores the running context in one and     *)
(* jumps to the other.  A context is abstracted to the stack it runs on    *)
(* and the place the saved RIP points to.                                  *)
(*                                                                         *)
(* The API leaves to its callers: do not resume a stopped coroutine        *)
(* (tests/coro.c), nor one that is running or waits for a coroutine it     *)
(* resumed itself, and do not free one of these.                           *)
(***************************************************************************)
EXTENDS Integers, Sequences, FiniteSets

CONSTANTS
    Co,     \* coroutines (control blocks the program can own)
    Main,   \* the thread's own stack
    Value   \* values handed over by co_yield and co_resume_value

Actor == Co \cup {Main}

ASSUME CoAssumption == Main \notin Co
ASSUME ValueAssumption == Value \subseteq Nat /\ 0 \in Value
ASSUME FiniteAssumption == IsFiniteSet(Co)

\* What a saved RIP points to.
Place == {"entry_point", "in_yield", "in_resume", "past_end"}
NoContext == [stack |-> Main, at |-> "zeroed"]

VARIABLES
    cpu,       \* who executes: the stack RSP points into
    landed,    \* the place a switch jumped to and the code has not left yet
    context,   \* co->context
    caller,    \* co->caller
    status,    \* co->status, "NULL" when the block is not allocated
    yielded,   \* co->yielded
    padding,   \* co->padding was overwritten by an overflowing stack
    awaits,    \* which coroutine an actor suspended in co_resume has resumed
    got,       \* the value the actor read from co->yielded last
    exited     \* exit(-1) was called

vars == <<cpu, landed, context, caller, status, yielded, padding, awaits, got, exited>>
blocks == <<context, caller, status, yielded, padding>>

Init ==
    /\ cpu = Main /\ landed = "body"
    /\ context = [c \in Co |-> NoContext]
    /\ caller = [c \in Co |-> NoContext]
    /\ status = [c \in Co |-> "NULL"]
    /\ yielded = [c \in Co |-> 0]
    /\ padding = [c \in Co |-> FALSE]
    /\ awaits = [a \in Actor |-> a]
    /\ got = [a \in Actor |-> 0]
    /\ exited = FALSE

\* User code runs on cpu's stack and may call the API.
Runs == ~exited /\ landed = "body"

\* c is running, or is suspended in a co_resume of its own.
Active(c) == cpu = c \/ awaits[c] # c

-----------------------------------------------------------------------------

\* Seeded fault: the block is cleared after the context was filled in.
FirstContext_Cleared(c) == NoContext

FirstContext(c) == [stack |-> c, at |-> "entry_point"]

\* posix_memalign, memset and the initial context.  When it fails nothing
\* changes.
co_new(c) ==
    /\ Runs
    /\ status[c] = "NULL"
    /\ status' = [status EXCEPT ![c] = "CREATED"]
    /\ context' = [context EXCEPT ![c] = FirstContext(c)]
    /\ caller' = [caller EXCEPT ![c] = NoContext]
    /\ yielded' = [yielded EXCEPT ![c] = 0]
    /\ padding' = [padding EXCEPT ![c] = FALSE]
    /\ got' = [got EXCEPT ![c] = 0]
    /\ UNCHANGED <<cpu, landed, awaits, exited>>

co_free(c) ==
    /\ Runs
    /\ status[c] # "NULL" /\ ~Active(c)
    /\ status' = [status EXCEPT ![c] = "NULL"]
    /\ UNCHANGED <<cpu, landed, context, caller, yielded, padding, awaits, got, exited>>

\* Seeded fault: the resumer is saved at the first resumption only.
SavedCaller_FirstOnly(c) ==
    IF caller[c] = NoContext THEN [stack |-> cpu, at |-> "in_resume"] ELSE caller[c]

SavedCaller(c) == [stack |-> cpu, at |-> "in_resume"]

\* swap_context(&co->caller, &co->context), called by co_resume.
SwapIn(c) ==
    /\ caller' = [caller EXCEPT ![c] = SavedCaller(c)]
    /\ awaits' = [awaits EXCEPT ![cpu] = c]
    /\ cpu' = context[c].stack
    /\ landed' = context[c].at
    /\ UNCHANGED context

\* swap_context(&co->context, &co->caller), called by co_yield.
SwapOut(c, place) ==
    /\ context' = [context EXCEPT ![c] = [stack |-> c, at |-> place]]
    /\ cpu' = caller[c].stack
    /\ landed' = caller[c].at
    /\ UNCHANGED <<caller, awaits>>

\* The stack guard: exit(-1) when it was overwritten.
StackOverflowed(c) ==
    /\ padding[c]
    /\ exited' = TRUE
    /\ UNCHANGED <<cpu, landed, blocks, awaits, got>>

ResumeAllowed(c) == Runs /\ status[c] \in {"CREATED", "STARTED"} /\ ~Active(c)

co_resume(c) ==
    /\ ResumeAllowed(c)
    /\ \/ StackOverflowed(c)
       \/ /\ ~padding[c]
          /\ SwapIn(c)
          /\ UNCHANGED <<status, yielded, padding, got, exited>>

co_resume_value(c, value) ==
    /\ ResumeAllowed(c)
    /\ \/ StackOverflowed(c)
       \/ /\ ~padding[c]
          /\ yielded' = [yielded EXCEPT ![c] = value]
          /\ SwapIn(c)
          /\ UNCHANGED <<status, padding, got, exited>>

\* Seeded fault: co_yield without the check of the guard.
GuardIntact_Unchecked(c) == TRUE

GuardIntact(c) == ~padding[c]

co_yield(c, value) ==
    /\ Runs
    /\ cpu = c
    /\ \/ StackOverflowed(c)
       \/ /\ GuardIntact(c)
          /\ yielded' = [yielded EXCEPT ![c] = value]
          /\ SwapOut(c, "in_yield")
          /\ UNCHANGED <<status, padding, got, exited>>

\* First switch to c: entry_point marks it started and calls func(co, data).
entry_point(c) ==
    /\ ~exited /\ cpu = c /\ landed = "entry_point"
    /\ landed' = "body"
    /\ status' = [status EXCEPT ![c] = "STARTED"]
    /\ got' = [got EXCEPT ![c] = yielded[c]]
    /\ UNCHANGED <<cpu, context, caller, yielded, padding, awaits, exited>>

\* Seeded fault: the last value is narrowed to a byte on its way.
LastValue_Byte == 255

LastValue == -1

\* func returned: entry_point marks the coroutine stopped, whatever became of
\* its stack, and yields -1.
entry_point_returns(c) ==
    /\ Runs
    /\ cpu = c
    /\ status' = [status EXCEPT ![c] = "STOPPED"]
    /\ \/ /\ padding[c]
          /\ exited' = TRUE
          /\ UNCHANGED <<cpu, landed, context, caller, yielded, padding, awaits, got>>
       \/ /\ GuardIntact(c)
          /\ yielded' = [yielded EXCEPT ![c] = LastValue]
          /\ SwapOut(c, "past_end")
          /\ UNCHANGED <<padding, got, exited>>

\* swap_context returned into co_resume, which returns co->yielded.
ResumeReturns ==
    /\ ~exited /\ landed = "in_resume"
    /\ landed' = "body"
    /\ got' = [got EXCEPT ![cpu] = yielded[awaits[cpu]]]
    /\ awaits' = [awaits EXCEPT ![cpu] = cpu]
    /\ UNCHANGED <<cpu, blocks, exited>>

\* swap_context returned into co_yield; the body reads co->yielded.
YieldReturns(c) ==
    /\ ~exited /\ cpu = c /\ landed = "in_yield"
    /\ landed' = "body"
    /\ got' = [got EXCEPT ![c] = yielded[c]]
    /\ UNCHANGED <<cpu, blocks, awaits, exited>>

\* The coroutine's calls outgrow STACK_SZ and overwrite the guard below it.
Overflow(c) ==
    /\ Runs
    /\ cpu = c
    /\ ~padding[c]
    /\ padding' = [padding EXCEPT ![c] = TRUE]
    /\ UNCHANGED <<cpu, landed, context, caller, status, yielded, awaits, got, exited>>

Next ==
    \/ ResumeReturns
    \/ \E c \in Co :
          \/ co_new(c) \/ co_free(c) \/ co_resume(c)
          \/ entry_point(c) \/ entry_point_returns(c) \/ YieldReturns(c) \/ Overflow(c)
          \/ \E v \in Value : co_resume_value(c, v) \/ co_yield(c, v)
    \/ exited /\ UNCHANGED vars

Spec == Init /\ [][Next]_vars

-----------------------------------------------------------------------------

\* A context is always one that was saved or zeroed, and what a switch hands
\* over is a value given to co_yield or the final -1.
TypeOK ==
    /\ cpu \in Actor
    /\ landed \in Place \cup {"body", "zeroed"}
    /\ context \in [Co -> [stack : Actor, at : Place \cup {"zeroed"}]]
    /\ caller \in [Co -> [stack : Actor, at : Place \cup {"zeroed"}]]
    /\ status \in [Co -> {"NULL", "CREATED", "STARTED", "STOPPED"}]
    /\ yielded \in [Co -> Value \cup {-1}]
    /\ padding \in [Co -> BOOLEAN]
    /\ awaits \in [Actor -> Actor]
    /\ got \in [Actor -> Value \cup {-1}]
    /\ exited \in BOOLEAN

\* A switch lands in code: never on a context that was not saved, nor behind
\* the end of entry_point; it lands in co_resume only if the actor has resumed
\* a coroutine, in co_yield only if the coroutine has started.
LandsInCode ==
    /\ landed \in {"body", "entry_point", "in_yield", "in_resume"}
    /\ landed = "in_resume" => awaits[cpu] # cpu
    /\ landed = "in_yield" => cpu \in Co /\ status[cpu] = "STARTED"
    /\ landed = "entry_point" => cpu \in Co /\ status[cpu] = "CREATED"

\* A coroutine that is suspended in co_yield, stopped, or not started has an
\* intact guard: a stack that overflowed, however many coroutines its owner
\* resumes afterwards, is noticed by the owner's own next yield or return, so
\* nobody goes on with a value from a broken stack and co_resume never finds one.
SuspendedIsIntact == \A c \in Co : ~Active(c) => ~padding[c]

-----------------------------------------------------------------------------
(* Refinement.  The stack of actors is the chain of the saved callers.     *)

N == Cardinality(Co)

\* The n-th actor above cpu, following co->caller up to Main.
Up[n \in 0..N] ==
    IF n = 0 THEN cpu ELSE IF Up[n - 1] = Main THEN Main ELSE caller[Up[n - 1]].stack

Depth == CHOOSE n \in 0..N : /\ n = N \/ Up[n] = Main
                             /\ \A m \in 0 .. n - 1 : Up[m] # Main

\* What an actor was handed last, whether or not it has read it yet.
Handed(a) ==
    IF cpu # a \/ landed = "body" THEN got[a]
    ELSE IF landed = "in_resume" THEN yielded[awaits[a]] ELSE yielded[a]

\* entry_point writes STOPPED before its last yield: a coroutine is dead when
\* that has handed control back.
Life(c) ==
    IF status[c] = "NULL" THEN "none"
    ELSE IF status[c] = "STOPPED" /\ ~Active(c) THEN "dead"
    ELSE "ready"

Stack == INSTANCE CoroStack
            WITH stack <- [i \in 1 .. Depth + 1 |-> Up[Depth + 1 - i]],
                 inbox <- [a \in Actor |-> Handed(a)],
                 life <- [c \in Co |-> Life(c)]

\* Values and control go where CoroStack says: a yield reaches the actor that
\* resumed the coroutine last, however resumers and nesting change, and every
\* value handed over is the one that is read.
ImplementsStack == Stack!Spec
=============================================================================
