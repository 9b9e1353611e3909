----------------------------- MODULE CoroStack -----------------------------
(***************************************************************************)
(* What lib/coro.c promises: asymmetric coroutines.  The actors that wait  *)
(* for one another form a stack.  Resuming puts a coroutine on top and     *)
(* hands it a value, yielding takes it off and hands a value to exactly    *)
(* the actor that resumed it last.                                         *)
(***************************************************************************)
EXTENDS Integers, Sequences

CONSTANTS Co, Main, Value

VARIABLES stack,  \* who runs (last) and who waits for whom
          inbox,  \* the value every actor was handed last
          life    \* "none", "ready", "dead" of every coroutine

Init ==
    /\ stack = <<Main>>
    /\ inbox = [a \in Co \cup {Main} |-> 0]
    /\ life = [c \in Co |-> "none"]

Top == stack[Len(stack)]
Waiting == {stack[i] : i \in 1 .. Len(stack)}

New(c) ==
    /\ life[c] = "none"
    /\ life' = [life EXCEPT ![c] = "ready"]
    /\ inbox' = [inbox EXCEPT ![c] = 0]
    /\ UNCHANGED stack

Free(c) ==
    /\ c \notin Waiting
    /\ life' = [life EXCEPT ![c] = "none"]
    /\ UNCHANGED <<stack, inbox>>

Resume(c, v) ==
    /\ life[c] = "ready"
    /\ c \notin Waiting
    /\ stack' = Append(stack, c)
    /\ inbox' = [inbox EXCEPT ![c] = v]
    /\ UNCHANGED life

\* The running coroutine hands v to its resumer; it may be its last word.
Yield(v, next) ==
    /\ Len(stack) > 1
    /\ stack' = SubSeq(stack, 1, Len(stack) - 1)
    /\ inbox' = [inbox EXCEPT ![stack[Len(stack) - 1]] = v]
    /\ life' = [life EXCEPT ![Top] = next]

Next ==
    \/ \E c \in Co : New(c) \/ Free(c) \/ \E v \in Value \cup {-1} : Resume(c, v)
    \/ \E v \in Value : Yield(v, "ready")
    \/ Yield(-1, "dead")

Spec == Init /\ [][Next]_<<stack, inbox, life>>
=============================================================================
