------------------------------- MODULE StrBuf -------------------------------
(***************************************************************************)
(* lib/strbuf.c: the growing string behind the receive buffer, the body of *)
(* a response and the composed answer.  Two things decide whether it holds *)
(* what was appended.  Its capacity is computed as 1 << clzl(n) in int     *)
(* arithmetic: the larger n, the smaller the buffer.  And string_append    *)
(* copies with strncat, which writes at the first NUL of the buffer and    *)
(* stops at the first NUL of the source, while len grows by buflen.        *)
(*                                                                         *)
(* The word widths are constants (64 and 32 in the code).  A shift count   *)
(* of IntW or more is taken modulo IntW, as x86 shl does, and the int      *)
(* result is sign-extended to size_t.                                      *)
(***************************************************************************)
EXTENDS Integers, Sequences, FiniteSetsExt

CONSTANTS
    W, IntW,       \* bits of size_t and of int
    MinCapacity,   \* the 64 of string_init
    InitSize,      \* arguments of string_init
    Piece,         \* what is appended: sequences of bytes
    MaxTotal,      \* bound on what is appended between two resets
    Heap           \* the largest block malloc and realloc can give

NUL == "\\0"
Garbage == "?"     \* what malloc and realloc leave in a cell

ASSUME WidthAssumption == W = 2 * IntW /\ IntW \in Nat \ {0} /\ IntW % 2 = 0 /\ MinCapacity \in Nat \ {0}

\* Sizes and lengths fit into a size_t; clzl is not defined for 0.
ASSUME SizeAssumption ==
    /\ InitSize \subseteq 1 .. 2^W - 1
    /\ Piece \subseteq Seq(STRING)
    /\ MaxTotal \in 0 .. 2^W - 1

VARIABLES
    str,        \* "NULL", "valid", or "overrun" once something was written past the buffer
    capacity, len, buf,
    appended    \* history: the bytes given to string_append since the last reset

vars == <<str, capacity, len, buf, appended>>

Init ==
    /\ str = "NULL" /\ capacity = 0 /\ len = 0
    /\ buf = <<>> /\ appended = <<>>

clzl(n) == W - 1 - (CHOOSE k \in 0 .. W - 1 : 2^k <= n /\ n < 2^(k + 1))

\* (size_t)(1 << __builtin_clzl(n)).
RealCapacity(n) ==
    LET s == clzl(n) % IntW
    IN  IF s = IntW - 1 THEN 2^W - 2^s ELSE 2^s

\* malloc, memset to 0.
string_init(n) ==
    LET c == Max({RealCapacity(n), MinCapacity})
    IN  /\ str = "NULL" /\ c <= Heap
        /\ str' = "valid"
        /\ capacity' = c /\ len' = 0
        /\ buf' = [i \in 0 .. c - 1 |-> NUL]
        /\ appended' = <<>>

\* string_init returns NULL, also when there is no memory for other reasons.
string_init_fails ==
    /\ str = "NULL"
    /\ UNCHANGED vars

\* Seeded fault: no room is kept for the terminating NUL.
MustGrow_NoTerminator(need) == need > capacity

MustGrow(need) == need >= capacity

\* realloc keeps what fits into the new block.
Reallocated(c) == [i \in 0 .. c - 1 |-> IF i < capacity THEN buf[i] ELSE Garbage]

\* The number of elements of p before its first NUL.
strnlen(p) == Min({i - 1 : i \in {i \in DOMAIN p : p[i] = NUL}} \cup {Len(p)})

\* Where the string in cells b ends; the size of b if it does not end there.
strlen(b) == Min({i \in DOMAIN b : b[i] = NUL} \cup {Cardinality(DOMAIN b)})

\* strncat(b, p, Len(p)) followed by len += buflen.
Concat(b, p) ==
    LET e == strlen(b)
        m == strnlen(p)
    IN  /\ len' = len + Len(p)
        /\ appended' = appended \o p
        /\ IF e + m \in DOMAIN b
           THEN /\ str' = str
                /\ buf' = [i \in DOMAIN b |-> IF i \in e .. e + m - 1 THEN p[i - e + 1]
                                              ELSE IF i = e + m THEN NUL ELSE b[i]]
           ELSE str' = "overrun" /\ buf' = b

string_append(p) ==
    LET need == len + Len(p)
        c == RealCapacity(need)
    IN  /\ str = "valid"
        /\ Len(appended) + Len(p) <= MaxTotal
        /\ \/ /\ ~MustGrow(need)
              /\ Concat(buf, p)
              /\ UNCHANGED capacity
           \/ /\ MustGrow(need) /\ c <= Heap
              /\ Concat(Reallocated(c), p)
              /\ capacity' = c

\* There is no string, or realloc fails: nothing is appended.
string_append_fails(p) ==
    /\ str = "NULL" \/ (str = "valid" /\ MustGrow(len + Len(p)))
    /\ UNCHANGED vars

\* Seeded fault: the buffer is not cleared.
ResetBuffer_Kept(b) == b

ResetBuffer(b) == [i \in DOMAIN b |-> NUL]

string_reset ==
    /\ str = "valid"
    /\ buf' = ResetBuffer(buf)
    /\ len' = 0 /\ appended' = <<>>
    /\ UNCHANGED <<str, capacity>>

\* Frees the struct; the buffer it points to stays allocated.
string_free ==
    /\ str = "valid"
    /\ str' = "NULL" /\ capacity' = 0 /\ len' = 0
    /\ buf' = <<>> /\ appended' = <<>>

\* After a write past the buffer anything may happen; nothing more is modelled.
Corrupted == str = "overrun" /\ UNCHANGED vars

Next ==
    \/ \E n \in InitSize : string_init(n)
    \/ \E p \in Piece : string_append(p) \/ string_append_fails(p)
    \/ string_init_fails
    \/ string_reset \/ string_free \/ Corrupted

Spec == Init /\ [][Next]_vars

-----------------------------------------------------------------------------

\* What send transmits: the first len bytes of the buffer.
Content == [i \in 1 .. len |-> IF i <= capacity THEN buf[i - 1] ELSE Garbage]

\* As long as fewer than 2^(IntW/2) bytes (65536 in the code) are appended,
\* growing never makes the buffer too small: nothing is written past it and
\* the first len bytes, and the NUL behind them, lie in it.
FitsBelowHalfWord ==
    str = "overrun" \/ (str = "valid" /\ len >= capacity) =>
        Len(appended) >= 2^(IntW \div 2)

\* Text, i.e. bytes without a NUL, is kept: the string is the concatenation of
\* what was appended since the last reset, NUL-terminated, through any growth,
\* for as long as the buffer is not overrun.
TextIsKept ==
    str = "valid" /\ (\A i \in DOMAIN appended : appended[i] # NUL) =>
        /\ Content = appended
        /\ buf[len] = NUL
=============================================================================
