----------------------------- MODULE HttpProofs -----------------------------
(***************************************************************************)
(* Theorems about the two ends of a request: what the parser makes of the  *)
(* received bytes (HttpParser), for every capacity of the buffer and every *)
(* text, and what is answered to the request (Responder), for every number *)
(* of slots, every ROUTER section, every set of static files and both      *)
(* builds.                                                                 *)
(***************************************************************************)
EXTENDS HttpParser, Responder, FiniteSetTheorems, TLAPS

-----------------------------------------------------------------------------
(* Sets of positions.                                                      *)

\* A set of numbers that is not empty has a least member.
LEMMA LeastNat ==
    ASSUME NEW T, T \subseteq Nat, T # {}
    PROVE  \E x \in T : \A y \in T : x <= y
  <1> DEFINE Less == OpToRel(<, Nat)
  <1>1. IsWellFoundedOn(Less, Nat)
    BY NatLessThanWellFounded
  <1>2. \A x, y \in Nat : <<y, x>> \in Less <=> y < x
    BY DEF OpToRel
  <1> HIDE DEF Less
  <1>3. PICK x \in T : \A y \in T : ~(<<y, x>> \in Less)
    BY <1>1, WFMin
  <1>4. \A y \in T : x <= y
    <2> TAKE y \in T
    <2>1. x \in Nat /\ y \in Nat
      OBVIOUS
    <2>2. ~(y < x)
      BY <1>2, <1>3, <2>1
    <2> QED
      BY <2>1, <2>2
  <1> QED
    BY <1>4

\* Min of numbers is their least.
LEMMA MinIs ==
    ASSUME NEW T, T \subseteq Nat, T # {}
    PROVE  Min(T) \in T /\ \A y \in T : Min(T) <= y
  <1>1. \E x \in T : \A y \in T : x <= y
    BY LeastNat
  <1> QED
    BY <1>1 DEF Min

-----------------------------------------------------------------------------
(* Loops.  A loop runs the function F on its states S, n rounds of it give *)
(* g[n].                                                                   *)

\* Rounds 1 to N of a loop that starts in s.
Rounds(g, F, s, N) == g[0] = s /\ \A n \in 1..N : g[n] = F[g[n - 1]]

\* A loop can be run for any number of rounds, and does not leave its states.
LEMMA RoundsExist ==
    ASSUME NEW S, NEW F \in [S -> S], NEW s \in S, NEW N \in Nat
    PROVE  \E g \in [0..N -> S] : Rounds(g, F, s, N)
  <1> DEFINE Bad == {m \in Nat : \A g \in [0..m -> S] : ~Rounds(g, F, s, m)}
  <1>1. ASSUME Bad # {} PROVE FALSE
    <2>1. PICK m \in Bad : \A y \in Bad : m <= y
      <3>1. Bad \subseteq Nat
        OBVIOUS
      <3> HIDE DEF Bad
      <3> QED
        BY <1>1, <3>1, LeastNat
    <2>2. CASE m = 0
      <3> DEFINE g == [n \in 0..0 |-> s]
      <3>1. g \in [0..0 -> S] /\ Rounds(g, F, s, 0)
        BY DEF Rounds
      <3> QED
        BY <2>1, <2>2, <3>1
    <2>3. CASE m # 0
      <3>1. m \in Nat /\ m - 1 \in Nat /\ m - 1 \notin Bad
        <4>1. m \in Nat
          BY <2>1
        <4> HIDE DEF Bad
        <4> QED
          BY <2>1, <2>3, <4>1
      <3>2. PICK g \in [0 .. m - 1 -> S] : Rounds(g, F, s, m - 1)
        BY <3>1
      <3> DEFINE h == [n \in 0..m |-> IF n <= m - 1 THEN g[n] ELSE F[g[m - 1]]]
      <3>3. h \in [0..m -> S]
        BY <3>1
      <3>4. (\A n \in 0 .. m - 1 : h[n] = g[n]) /\ h[m] = F[g[m - 1]]
        BY <3>1
      <3>5. Rounds(h, F, s, m)
        <4> HIDE DEF h
        <4>1. h[0] = s
          BY <3>1, <3>2, <3>4 DEF Rounds
        <4>2. ASSUME NEW n \in 1..m PROVE h[n] = F[h[n - 1]]
          <5>1. CASE n = m
            BY <3>1, <3>4, <5>1
          <5>2. CASE n # m
            BY <3>1, <3>2, <3>4, <5>2 DEF Rounds
          <5> QED
            BY <5>1, <5>2
        <4> QED
          BY <4>1, <4>2 DEF Rounds
      <3> QED
        BY <2>1, <3>3, <3>5
    <2> QED
      BY <2>2, <2>3
  <1>2. N \notin Bad
    BY <1>1
  <1> QED
    BY <1>2

\* The rounds of a loop, as long as they stay in S.
RoundsIn(h, F, s, S, N) == h[0] = s /\ \A n \in 1..N : h[n - 1] \in S => h[n] = F[h[n - 1]]

\* There is one way to run a loop.
LEMMA RoundsUnique ==
    ASSUME NEW S, NEW F \in [S -> S], NEW s \in S, NEW N \in Nat,
           NEW g \in [0..N -> S], Rounds(g, F, s, N),
           NEW h, RoundsIn(h, F, s, S, N)
    PROVE  \A n \in 0..N : h[n] = g[n]
  <1> h[0] = s /\ \A n \in 1..N : h[n - 1] \in S => h[n] = F[h[n - 1]]
    BY DEF RoundsIn
  <1> DEFINE Bad == {n \in 0..N : h[n] # g[n]}
  <1>1. ASSUME Bad # {} PROVE FALSE
    <2>1. PICK n \in Bad : \A y \in Bad : n <= y
      <3>1. Bad \subseteq Nat
        OBVIOUS
      <3> HIDE DEF Bad
      <3> QED
        BY <1>1, <3>1, LeastNat
    <2>2. n \in 0..N /\ h[n] # g[n]
      BY <2>1
    <2>3. n # 0
      BY <2>2 DEF Rounds
    <2>4. n \in 1..N /\ n - 1 \in 0..N /\ n - 1 \notin Bad
      <3> HIDE DEF Bad
      <3> QED
        BY <2>1, <2>2, <2>3
    <2>5. h[n - 1] = g[n - 1] /\ g[n - 1] \in S
      BY <2>4
    <2> QED
      BY <2>2, <2>4, <2>5 DEF Rounds
  <1> QED
    BY <1>1

\* A loop whose every round moves its cursor has left after N rounds, where N
\* is not less than the limit of the cursor.
LEMMA CursorReachesEnd ==
    ASSUME NEW S, NEW F \in [S -> S], NEW s \in S, NEW N \in Nat, NEW lim \in 0..N,
           NEW g \in [0..N -> S], Rounds(g, F, s, N),
           NEW at \in [S -> Nat],
           \A x \in S : at[x] < lim => at[F[x]] > at[x],
           \A x \in S : at[x] >= lim => F[x] = x
    PROVE  at[g[N]] >= lim
  <1> DEFINE Bad == {n \in 0..N : at[g[n]] < lim /\ at[g[n]] < n}
  <1>1. ASSUME Bad # {} PROVE FALSE
    <2>1. PICK n \in Bad : \A y \in Bad : n <= y
      <3>1. Bad \subseteq Nat
        OBVIOUS
      <3> HIDE DEF Bad
      <3> QED
        BY <1>1, <3>1, LeastNat
    <2>2. n \in 0..N /\ at[g[n]] < lim /\ at[g[n]] < n
      BY <2>1
    <2>3. at[g[n]] \in Nat
      BY <2>2
    <2>4. n \in 1..N /\ n - 1 \in 0..N /\ n - 1 \notin Bad
      <3> HIDE DEF Bad
      <3> QED
        BY <2>1, <2>2, <2>3
    <2>5. g[n] = F[g[n - 1]] /\ g[n - 1] \in S /\ at[g[n - 1]] \in Nat
      BY <2>4 DEF Rounds
    <2>6. at[g[n - 1]] >= lim \/ at[g[n - 1]] >= n - 1
      BY <2>4, <2>5
    <2>7. CASE at[g[n - 1]] >= lim
      BY <2>2, <2>5, <2>7
    <2>8. CASE at[g[n - 1]] < lim
      BY <2>2, <2>3, <2>5, <2>6, <2>8
    <2> QED
      BY <2>5, <2>7, <2>8
  <1>2. N \in 0..N /\ g[N] \in S /\ at[g[N]] \in Nat
    OBVIOUS
  <1> QED
    BY <1>1, <1>2

-----------------------------------------------------------------------------
(* The states of the parser.                                               *)

\* The positions of the buffer.
Ptr == 0 .. Cap - 1

\* What a map of the request can hold.
Pairs == {kv \in Seq([key : Ptr, value : Ptr]) : Len(kv) <= KvSz}

\* What req->method can be.
Masks == {"0"} \cup {m.mask : m \in methods}

\* Requests whose pointers all point into the buffer.
Reqs == [method : Masks, path : Ptr \cup {NULL}, protocol : Ptr \cup {NULL}, query : Pairs, headers : Pairs]

\* Buffers of characters of C whose last byte is NUL.
Buffers(C) == {b \in [Ptr -> C \cup {NUL}] : b[Cap - 1] = NUL}

\* The states between two steps of the parser; the cursor may be one behind
\* the buffer.
States(C) == [buf : Buffers(C), req : Reqs, p : 0 .. Cap]

\* strchr finds the first c before the NUL that ends the string, and with a NUL
\* at the end of the buffer it does not look further.
LEMMA StrchrFinds ==
    ASSUME NEW b, b[Cap - 1] = NUL, NEW p \in 0 .. Cap, NEW c
    PROVE  \/ strchr(b, p, c) = NULL
           \/ /\ strchr(b, p, c) \in p .. Cap - 2
              /\ b[strchr(b, p, c)] = c
              /\ \A i \in p .. strchr(b, p, c) - 1 : b[i] \notin {c, NUL}
  <1> DEFINE hits == {i \in p .. Cap - 1 : b[i] \in {c, NUL}}
  <1>1. Cap \in Nat /\ Cap > 7
    BY CapAssumption
  <1>2. SUFFICES ASSUME hits # {}, b[Min(hits)] # NUL
        PROVE  /\ Min(hits) \in p .. Cap - 2 /\ b[Min(hits)] = c
               /\ \A i \in p .. Min(hits) - 1 : b[i] \notin {c, NUL}
    BY DEF strchr
  <1>3. hits \subseteq Nat
    BY <1>1
  <1>4. Min(hits) \in hits /\ \A y \in hits : Min(hits) <= y
    <2> HIDE DEF hits
    <2> QED
      BY <1>2, <1>3, MinIs
  <1>5. Min(hits) \in p .. Cap - 1 /\ b[Min(hits)] \in {c, NUL}
    BY <1>4
  <1>6. Min(hits) # Cap - 1
    BY <1>2
  <1>7. ASSUME NEW i \in p .. Min(hits) - 1 PROVE b[i] \notin {c, NUL}
    <2>1. i \in p .. Cap - 1 /\ ~(Min(hits) <= i)
      <3> HIDE DEF hits
      <3> QED
        BY <1>1, <1>5
    <2>2. i \notin hits
      <3> HIDE DEF hits
      <3> QED
        BY <1>4, <2>1
    <2> QED
      BY <2>1, <2>2
  <1> HIDE DEF hits
  <1> QED
    BY <1>1, <1>2, <1>5, <1>6, <1>7

\* A map of the request takes a pair as long as there is room.
LEMMA KvTakes ==
    ASSUME NEW kv \in Pairs, NEW k \in Ptr, NEW v \in Ptr
    PROVE  kv_set_key_value(kv, k, v) \in Pairs
  <1>1. kv \in Seq([key : Ptr, value : Ptr]) /\ Len(kv) <= KvSz /\ Len(kv) \in Nat
    BY DEF Pairs
  <1>2. CASE Len(kv) < KvSz
    <2> DEFINE e == [key |-> k, value |-> v]
    <2>1. e \in [key : Ptr, value : Ptr]
      OBVIOUS
    <2> HIDE DEF e
    <2>2. Append(kv, e) \in Seq([key : Ptr, value : Ptr]) /\ Len(Append(kv, e)) = Len(kv) + 1
      BY <1>1, <2>1
    <2>3. Len(kv) + 1 <= KvSz
      BY <1>1, <1>2, CapAssumption
    <2>4. Append(kv, e) \in Pairs
      BY <2>2, <2>3 DEF Pairs
    <2> QED
      BY <1>2, <2>4 DEF kv_set_key_value, e
  <1> QED
    BY <1>2 DEF kv_set_key_value

\* A NUL can be written anywhere.
LEMMA NulWritten ==
    ASSUME NEW C, NEW b \in Buffers(C), NEW i \in Ptr
    PROVE  [b EXCEPT ![i] = NUL] \in Buffers(C)
  BY CapAssumption DEF Buffers, Ptr

\* The fields of a state.
LEMMA StateFields ==
    ASSUME NEW C, NEW s \in States(C)
    PROVE  /\ s.buf \in Buffers(C) /\ s.buf[Cap - 1] = NUL
           /\ s.req \in Reqs /\ s.req.query \in Pairs /\ s.req.headers \in Pairs
           /\ s.p \in 0 .. Cap
  BY DEF States, Buffers, Reqs

\* A state with a new buffer, request and cursor.
LEMMA StateIs ==
    ASSUME NEW C, NEW b \in Buffers(C), NEW r \in Reqs, NEW p \in 0 .. Cap
    PROVE  [buf |-> b, req |-> r, p |-> p] \in States(C)
  BY DEF States

-----------------------------------------------------------------------------
(* The loop over the query.                                                *)

\* A round takes a state to a state, and moves the cursor unless it is at the
\* end.
LEMMA QueryRoundIs ==
    ASSUME NEW C, NEW s \in States(C), NEW eop \in 0 .. Cap - 2
    PROVE  /\ QueryRound(s, eop) \in States(C)
           /\ s.p < eop => QueryRound(s, eop).p > s.p
           /\ s.p >= eop => QueryRound(s, eop) = s
  <1> DEFINE sep == strchr(s.buf, s.p, "=")
             amp == strchr(s.buf, sep + 1, "&")
             t == [s EXCEPT !.buf[sep] = NUL, !.req.query = kv_set_key_value(@, s.p, sep + 1)]
             r == [s.req EXCEPT !.query = kv_set_key_value(@, s.p, sep + 1)]
  <1>1. Cap \in Nat /\ Cap > 7
    BY CapAssumption
  <1>2. /\ s.buf \in Buffers(C) /\ s.buf[Cap - 1] = NUL
        /\ s.req \in Reqs /\ s.req.query \in Pairs
        /\ s.p \in 0 .. Cap
        /\ s = [buf |-> s.buf, req |-> s.req, p |-> s.p]
    BY StateFields DEF States
  <1>3. QueryRound(s, eop) = IF s.p >= eop THEN s
                             ELSE IF ~BeforeEnd(sep, eop) THEN [s EXCEPT !.p = eop]
                             ELSE IF ~BeforeEnd(amp, eop) THEN [t EXCEPT !.p = eop]
                             ELSE [t EXCEPT !.buf[amp] = NUL, !.p = amp + 1]
    BY DEF QueryRound
  <1>4. sep = NULL \/ sep \in s.p .. Cap - 2
    BY <1>2, StrchrFinds
  <1>5. [s EXCEPT !.p = eop] = [buf |-> s.buf, req |-> s.req, p |-> eop]
    BY <1>2
  <1>6. CASE s.p >= eop
    BY <1>1, <1>2, <1>3, <1>6
  <1>7. CASE s.p < eop /\ ~BeforeEnd(sep, eop)
    <2>1. QueryRound(s, eop) = [buf |-> s.buf, req |-> s.req, p |-> eop]
      BY <1>1, <1>2, <1>3, <1>5, <1>7
    <2>2. eop \in 0 .. Cap
      BY <1>1
    <2> QED
      BY <1>1, <1>2, <1>7, <2>1, <2>2, StateIs
  <1>8. CASE s.p < eop /\ BeforeEnd(sep, eop)
    <2>1. sep \in s.p .. eop - 1 /\ sep \in Ptr /\ sep + 1 \in Ptr /\ s.p \in Ptr /\ sep + 1 \in 0 .. Cap
      BY <1>1, <1>2, <1>4, <1>8 DEF BeforeEnd, Ptr
    <2>2. amp = NULL \/ amp \in sep + 1 .. Cap - 2
      BY <1>2, <2>1, StrchrFinds
    <2> DEFINE b == [s.buf EXCEPT ![sep] = NUL]
    <2>3. b \in Buffers(C)
      BY <1>2, <2>1, NulWritten
    <2>4. r \in Reqs
      <3>1. kv_set_key_value(s.req.query, s.p, sep + 1) \in Pairs
        BY <1>2, <2>1, KvTakes
      <3> HIDE DEF sep
      <3> QED
        BY <1>2, <3>1 DEF Reqs
    <2>5. t = [buf |-> b, req |-> r, p |-> s.p]
      <3> DEFINE u == [s EXCEPT !.buf[sep] = NUL]
      <3>1. u = [buf |-> b, req |-> s.req, p |-> s.p]
        <4> HIDE DEF sep
        <4> QED
          BY <1>2
      <3>2. t = [u EXCEPT !.req.query = kv_set_key_value(@, s.p, sep + 1)]
        OBVIOUS
      <3> HIDE DEF sep, b, u, t
      <3> QED
        BY <3>1, <3>2
    <2> HIDE DEF b, r
    <2>6. CASE ~BeforeEnd(amp, eop)
      <3>1. QueryRound(s, eop) = [t EXCEPT !.p = eop]
        BY <1>1, <1>2, <1>3, <1>8, <2>6
      <3> HIDE DEF t
      <3>2. QueryRound(s, eop) = [buf |-> b, req |-> r, p |-> eop]
        BY <2>5, <3>1
      <3>3. eop \in 0 .. Cap
        BY <1>1
      <3> QED
        BY <1>1, <1>2, <1>8, <2>3, <2>4, <3>2, <3>3, StateIs
    <2>7. CASE BeforeEnd(amp, eop)
      <3>1. QueryRound(s, eop) = [t EXCEPT !.buf[amp] = NUL, !.p = amp + 1]
        BY <1>1, <1>2, <1>3, <1>8, <2>7
      <3>2. amp \in Ptr /\ amp + 1 \in 0 .. Cap /\ amp + 1 > s.p
        <4> HIDE DEF amp, sep
        <4> QED
          BY <1>1, <1>2, <2>1, <2>2, <2>7 DEF BeforeEnd, Ptr
      <3>3. QueryRound(s, eop) = [buf |-> [b EXCEPT ![amp] = NUL], req |-> r, p |-> amp + 1]
        <4> HIDE DEF t, amp
        <4> QED
          BY <2>5, <3>1
      <3>4. [b EXCEPT ![amp] = NUL] \in Buffers(C)
        BY <2>3, <3>2, NulWritten
      <3> DEFINE c == [b EXCEPT ![amp] = NUL]
      <3> HIDE DEF amp, c
      <3>5. [buf |-> c, req |-> r, p |-> amp + 1] \in States(C)
        BY <2>4, <3>2, <3>4, StateIs DEF c
      <3> QED
        BY <1>1, <1>2, <1>8, <3>2, <3>3, <3>5 DEF c
    <2> QED
      BY <2>6, <2>7
  <1> QED
    BY <1>1, <1>2, <1>6, <1>7, <1>8

\* The loop ends in one of its states, with its cursor at the end: Cap rounds
\* are enough.
LEMMA ParseQueryIn ==
    ASSUME NEW C, NEW S, S \subseteq States(C), NEW eop \in 0 .. Cap - 2,
           \A x \in S : QueryRound(x, eop) \in S,
           NEW s \in S
    PROVE  ParseQuery(s, eop) \in S /\ ParseQuery(s, eop).p >= eop
  <1> DEFINE F == [x \in S |-> QueryRound(x, eop)]
             at == [x \in S |-> x.p]
             after == CHOOSE g : g = [n \in 0 .. Cap |-> IF n = 0 THEN s ELSE QueryRound(g[n - 1], eop)]
  <1>1. Cap \in Nat /\ eop \in 0 .. Cap
    BY CapAssumption
  <1>2. ParseQuery(s, eop) = after[Cap]
    BY DEF ParseQuery
  <1>3. F \in [S -> S] /\ \A x \in S : F[x] = QueryRound(x, eop)
    OBVIOUS
  <1>4. /\ at \in [S -> Nat]
        /\ \A x \in S : at[x] < eop => at[F[x]] > at[x]
        /\ \A x \in S : at[x] >= eop => F[x] = x
    <2>1. \A x \in S : x.p \in Nat
      BY <1>1, StateFields
    <2>2. \A x \in S : /\ QueryRound(x, eop) \in S
                       /\ x.p < eop => QueryRound(x, eop).p > x.p
                       /\ x.p >= eop => QueryRound(x, eop) = x
      BY QueryRoundIs
    <2> QED
      BY <2>1, <2>2
  <1> HIDE DEF F, at
  <1>5. PICK g \in [0 .. Cap -> S] : Rounds(g, F, s, Cap)
    BY <1>1, <1>3, RoundsExist
  <1>6. at[g[Cap]] >= eop
    BY <1>1, <1>3, <1>4, <1>5, CursorReachesEnd
  <1>7. g = [n \in 0 .. Cap |-> IF n = 0 THEN s ELSE QueryRound(g[n - 1], eop)]
    <2>1. ASSUME NEW n \in 0 .. Cap
          PROVE  g[n] = IF n = 0 THEN s ELSE QueryRound(g[n - 1], eop)
      <3>1. n # 0 => n \in 1 .. Cap /\ n - 1 \in 0 .. Cap
        BY <1>1
      <3> QED
        BY <1>3, <1>5, <3>1 DEF Rounds
    <2> QED
      BY <2>1
  <1>8. after = [n \in 0 .. Cap |-> IF n = 0 THEN s ELSE QueryRound(after[n - 1], eop)]
    BY <1>7
  <1> HIDE DEF after
  <1>9. after[0] = s /\ \A n \in 1 .. Cap : after[n - 1] \in S => after[n] = F[after[n - 1]]
    <2>1. \A n \in 0 .. Cap : after[n] = IF n = 0 THEN s ELSE QueryRound(after[n - 1], eop)
      BY <1>8
    <2>2. 0 \in 0 .. Cap /\ \A n \in 1 .. Cap : n \in 0 .. Cap /\ n # 0
      BY <1>1
    <2> QED
      BY <1>3, <2>1, <2>2
  <1>10. after[Cap] = g[Cap]
    <2>0. Cap \in Nat /\ F \in [S -> S]
      BY <1>1, <1>3
    <2>1. \A n \in 0 .. Cap : after[n] = g[n]
      <3>1. RoundsIn(after, F, s, S, Cap)
        BY ONLY <1>9 DEF RoundsIn
      <3> QED
        BY ONLY <1>5, <2>0, <3>1, s \in S, RoundsUnique
    <2> QED
      BY <1>1, <2>1
  <1>11. g[Cap] \in S /\ at[g[Cap]] = g[Cap].p
    BY <1>1, <1>5 DEF at
  <1> QED
    BY <1>2, <1>6, <1>10, <1>11

\* In particular, in a state.
LEMMA ParseQueryIs ==
    ASSUME NEW C, NEW s \in States(C), NEW eop \in 0 .. Cap - 2
    PROVE  ParseQuery(s, eop) \in States(C) /\ ParseQuery(s, eop).p >= eop
  <1> DEFINE S == States(C)
  <1>1. S \subseteq States(C) /\ s \in S /\ \A x \in S : QueryRound(x, eop) \in S
    BY QueryRoundIs
  <1> HIDE DEF S
  <1>2. ParseQuery(s, eop) \in S /\ ParseQuery(s, eop).p >= eop
    BY <1>1, ParseQueryIn
  <1> QED
    BY <1>2 DEF S

-----------------------------------------------------------------------------
(* The loop over the header lines.                                         *)

\* A round takes a state to a state, and moves the cursor unless it is at the
\* end.
LEMMA HeaderRoundIs ==
    ASSUME NEW C, NEW s \in States(C), NEW end \in 0 .. Cap - 1
    PROVE  /\ HeaderRound(s, end) \in States(C)
           /\ s.p < end => HeaderRound(s, end).p > s.p
           /\ s.p >= end => HeaderRound(s, end) = s
  <1> DEFINE eol == EndOfLine(s.buf, s.p, end)
             sep == strchr(s.buf, s.p, ":")
             x == [s EXCEPT !.buf = [@ EXCEPT ![sep] = NUL, ![eol] = NUL],
                            !.req.headers = kv_set_key_value(@, s.p, sep + 2)]
             t == IF sep = NULL \/ sep >= eol THEN s ELSE x
             r == [s.req EXCEPT !.headers = kv_set_key_value(@, s.p, sep + 2)]
  <1>1. Cap \in Nat /\ Cap > 7
    BY CapAssumption
  <1>2. /\ s.buf \in Buffers(C) /\ s.buf[Cap - 1] = NUL
        /\ s.req \in Reqs /\ s.req.headers \in Pairs
        /\ s.p \in 0 .. Cap
        /\ s = [buf |-> s.buf, req |-> s.req, p |-> s.p]
    BY StateFields DEF States
  <1>3. HeaderRound(s, end) = IF s.p >= end THEN s
                              ELSE IF eol = NULL \/ eol - s.p < 5 THEN [s EXCEPT !.p = end]
                              ELSE [t EXCEPT !.p = eol + 2]
    BY DEF HeaderRound
  <1>4. /\ eol = NULL \/ eol \in s.p .. Cap - 2
        /\ sep = NULL \/ sep \in s.p .. Cap - 2
    BY <1>2, StrchrFinds DEF EndOfLine
  <1>5. CASE s.p >= end
    BY <1>1, <1>2, <1>3, <1>5
  <1>6. CASE s.p < end /\ (eol = NULL \/ eol - s.p < 5)
    <2>1. HeaderRound(s, end) = [s EXCEPT !.p = end]
      BY <1>1, <1>2, <1>3, <1>6
    <2>2. HeaderRound(s, end) = [buf |-> s.buf, req |-> s.req, p |-> end] /\ end \in 0 .. Cap
      BY <1>1, <1>2, <2>1
    <2> QED
      BY <1>1, <1>2, <1>6, <2>2, StateIs
  <1>7. CASE s.p < end /\ eol # NULL /\ ~(eol - s.p < 5)
    <2>1. HeaderRound(s, end) = [t EXCEPT !.p = eol + 2]
      BY <1>1, <1>2, <1>3, <1>7
    <2>2. eol \in Ptr /\ eol + 2 \in 0 .. Cap /\ eol + 2 > s.p /\ s.p \in Ptr
      <3> HIDE DEF eol
      <3> QED
        BY <1>1, <1>2, <1>4, <1>7 DEF Ptr
    <2>3. \E b \in Buffers(C), q \in Reqs : t = [buf |-> b, req |-> q, p |-> s.p]
      <3>1. CASE sep = NULL \/ sep >= eol
        BY <1>2, <3>1
      <3>2. CASE ~(sep = NULL \/ sep >= eol)
        <4>1. sep \in Ptr /\ sep + 2 \in Ptr
          <5> HIDE DEF sep, eol
          <5> QED
            BY <1>1, <1>2, <1>4, <1>7, <3>2 DEF Ptr
        <4> DEFINE b == [s.buf EXCEPT ![sep] = NUL]
                   c == [b EXCEPT ![eol] = NUL]
        <4>2. b \in Buffers(C)
          BY <1>2, <4>1, NulWritten
        <4> HIDE DEF b
        <4>3. c \in Buffers(C)
          BY <2>2, <4>2, NulWritten
        <4>4. r \in Reqs
          <5>1. kv_set_key_value(s.req.headers, s.p, sep + 2) \in Pairs
            BY <1>2, <2>2, <4>1, KvTakes
          <5> HIDE DEF sep
          <5> QED
            BY <1>2, <5>1 DEF Reqs
        <4>5. x = [buf |-> c, req |-> r, p |-> s.p]
          <5> DEFINE u == [s EXCEPT !.buf = [@ EXCEPT ![sep] = NUL, ![eol] = NUL]]
          <5>1. u = [buf |-> c, req |-> s.req, p |-> s.p]
            <6> HIDE DEF sep, eol
            <6> QED
              BY <1>2 DEF b
          <5>2. x = [u EXCEPT !.req.headers = kv_set_key_value(@, s.p, sep + 2)]
            OBVIOUS
          <5> HIDE DEF sep, eol, c, u, x
          <5> QED
            BY <5>1, <5>2
        <4> HIDE DEF c, r, x
        <4> QED
          BY <3>2, <4>3, <4>4, <4>5
      <3> QED
        BY <3>1, <3>2
    <2> HIDE DEF t
    <2>4. PICK b \in Buffers(C), q \in Reqs : t = [buf |-> b, req |-> q, p |-> s.p]
      BY <2>3
    <2> HIDE DEF eol
    <2>5. HeaderRound(s, end) = [buf |-> b, req |-> q, p |-> eol + 2]
      BY <2>1, <2>4
    <2> QED
      BY <1>1, <1>2, <1>7, <2>2, <2>5, StateIs
  <1> QED
    BY <1>1, <1>2, <1>5, <1>6, <1>7

\* This loop, too, ends in one of its states with its cursor at the end.
LEMMA HeadersIn ==
    ASSUME NEW C, NEW S, S \subseteq States(C), NEW end \in 0 .. Cap - 1,
           \A x \in S : HeaderRound(x, end) \in S,
           NEW s \in S
    PROVE  http_parse_headers(s, end) \in S /\ http_parse_headers(s, end).p >= end
  <1> DEFINE F == [x \in S |-> HeaderRound(x, end)]
             at == [x \in S |-> x.p]
             after == CHOOSE g : g = [n \in 0 .. Cap |-> IF n = 0 THEN s ELSE HeaderRound(g[n - 1], end)]
  <1>1. Cap \in Nat /\ end \in 0 .. Cap
    BY CapAssumption
  <1>2. http_parse_headers(s, end) = after[Cap]
    BY DEF http_parse_headers
  <1>3. F \in [S -> S] /\ \A x \in S : F[x] = HeaderRound(x, end)
    OBVIOUS
  <1>4. /\ at \in [S -> Nat]
        /\ \A x \in S : at[x] < end => at[F[x]] > at[x]
        /\ \A x \in S : at[x] >= end => F[x] = x
    <2>1. \A x \in S : x.p \in Nat
      BY <1>1, StateFields
    <2>2. \A x \in S : /\ HeaderRound(x, end) \in S
                       /\ x.p < end => HeaderRound(x, end).p > x.p
                       /\ x.p >= end => HeaderRound(x, end) = x
      BY HeaderRoundIs
    <2> QED
      BY <2>1, <2>2
  <1> HIDE DEF F, at
  <1>5. PICK g \in [0 .. Cap -> S] : Rounds(g, F, s, Cap)
    BY <1>1, <1>3, RoundsExist
  <1>6. at[g[Cap]] >= end
    BY <1>1, <1>3, <1>4, <1>5, CursorReachesEnd
  <1>7. g = [n \in 0 .. Cap |-> IF n = 0 THEN s ELSE HeaderRound(g[n - 1], end)]
    <2>1. ASSUME NEW n \in 0 .. Cap
          PROVE  g[n] = IF n = 0 THEN s ELSE HeaderRound(g[n - 1], end)
      <3>1. n # 0 => n \in 1 .. Cap /\ n - 1 \in 0 .. Cap
        BY <1>1
      <3> QED
        BY <1>3, <1>5, <3>1 DEF Rounds
    <2> QED
      BY <2>1
  <1>8. after = [n \in 0 .. Cap |-> IF n = 0 THEN s ELSE HeaderRound(after[n - 1], end)]
    BY <1>7
  <1> HIDE DEF after
  <1>9. after[0] = s /\ \A n \in 1 .. Cap : after[n - 1] \in S => after[n] = F[after[n - 1]]
    <2>1. \A n \in 0 .. Cap : after[n] = IF n = 0 THEN s ELSE HeaderRound(after[n - 1], end)
      BY <1>8
    <2>2. 0 \in 0 .. Cap /\ \A n \in 1 .. Cap : n \in 0 .. Cap /\ n # 0
      BY <1>1
    <2> QED
      BY <1>3, <2>1, <2>2
  <1>10. after[Cap] = g[Cap]
    <2>0. Cap \in Nat /\ F \in [S -> S]
      BY <1>1, <1>3
    <2>1. \A n \in 0 .. Cap : after[n] = g[n]
      <3>1. RoundsIn(after, F, s, S, Cap)
        BY ONLY <1>9 DEF RoundsIn
      <3> QED
        BY ONLY <1>5, <2>0, <3>1, s \in S, RoundsUnique
    <2> QED
      BY <1>1, <2>1
  <1>11. g[Cap] \in S /\ at[g[Cap]] = g[Cap].p
    BY <1>1, <1>5 DEF at
  <1> QED
    BY <1>2, <1>6, <1>10, <1>11

\* In particular, in a state.
LEMMA HeadersAre ==
    ASSUME NEW C, NEW s \in States(C), NEW end \in 0 .. Cap - 1
    PROVE  http_parse_headers(s, end) \in States(C) /\ http_parse_headers(s, end).p >= end
  <1> DEFINE S == States(C)
  <1>1. S \subseteq States(C) /\ s \in S /\ \A x \in S : HeaderRound(x, end) \in S
    BY HeaderRoundIs
  <1> HIDE DEF S
  <1>2. http_parse_headers(s, end) \in S /\ http_parse_headers(s, end).p >= end
    BY <1>1, HeadersIn
  <1> QED
    BY <1>2 DEF S


-----------------------------------------------------------------------------
(* The stages of http_parse_request.                                       *)

\* The names of the methods have at most seven characters.
LEMMA MethodLengths == \A m \in methods : m.length \in 3 .. 7
  <1> DEFINE Is(m) == m.length \in 3 .. 7
  <1>1. \A k, t : \A l \in 3 .. 7 : Is([mask |-> k, length |-> l, strn |-> t])
    OBVIOUS
  <1>2. 3 \in 3 .. 7 /\ 4 \in 3 .. 7 /\ 5 \in 3 .. 7 /\ 6 \in 3 .. 7 /\ 7 \in 3 .. 7
    OBVIOUS
  <1> HIDE DEF Is
  <1>3. \A m \in methods : Is(m)
    BY <1>1, <1>2, Zenon DEF methods
  <1> QED
    BY <1>3 DEF Is

\* The method is recognised at the start of the buffer; the cursor stays in the
\* buffer, even where the name is longer than what was received.
LEMMA MethodIs ==
    ASSUME NEW C, NEW s \in States(C), s.p = 0, NEW end
    PROVE  http_parse_method(s, end) \in States(C) /\ http_parse_method(s, end).p \in Ptr
  <1> DEFINE hit == {m \in methods : end - s.p >= 4 /\ m.strn = Four(s.buf, s.p)}
             m == CHOOSE m \in hit : TRUE
  <1>1. /\ Cap \in Nat /\ Cap > 7
        /\ s.buf \in Buffers(C) /\ s.req \in Reqs /\ s = [buf |-> s.buf, req |-> s.req, p |-> s.p]
    BY CapAssumption, StateFields DEF States
  <1>2. CASE hit = {}
    BY <1>1, <1>2 DEF http_parse_method, Ptr
  <1>3. CASE hit # {}
    <2>1. m \in methods
      BY <1>3
    <2>2. http_parse_method(s, end) = [s EXCEPT !.req.method = m.mask, !.p = s.p + m.length]
      BY <1>3 DEF http_parse_method
    <2> HIDE DEF m
    <2>3. m.length \in 3 .. 7 /\ m.mask \in Masks
      BY <2>1, MethodLengths DEF Masks
    <2> DEFINE q == [s.req EXCEPT !.method = m.mask]
    <2>4. q \in Reqs
      BY <1>1, <2>3 DEF Reqs
    <2>5. http_parse_method(s, end) = [buf |-> s.buf, req |-> q, p |-> m.length]
      <3> DEFINE l == s.p + m.length
      <3>1. l = m.length
        BY <2>3
      <3> HIDE DEF l
      <3> DEFINE u == [s EXCEPT !.req.method = m.mask]
      <3>2. u = [buf |-> s.buf, req |-> q, p |-> s.p]
        BY <1>1
      <3>3. http_parse_method(s, end) = [u EXCEPT !.p = l]
        BY <2>2 DEF l
      <3> HIDE DEF q, u
      <3> QED
        BY <3>1, <3>2, <3>3
    <2>6. m.length \in Ptr /\ m.length \in 0 .. Cap
      BY <1>1, <2>3 DEF Ptr
    <2> HIDE DEF q
    <2> QED
      BY <1>1, <2>4, <2>5, <2>6, StateIs
  <1> QED
    BY <1>2, <1>3

\* What lies before a position of the buffer is in the buffer.
LEMMA Within ==
    ASSUME NEW a \in Nat, NEW e \in Nat, e <= Cap - 1, NEW j \in a .. e
    PROVE  j \in 0 .. Cap - 1
  BY CapAssumption

\* Skipping spaces does not leave the buffer.
LEMMA TrimIs ==
    ASSUME NEW C, NEW s \in States(C), s.p \in Ptr, NEW end \in Ptr
    PROVE  trim_spaces(s, end) \in States(C)
  <1> DEFINE T == {i \in s.p .. end : i = end \/ s.buf[i] # " "}
             U == T \cup {Max({s.p, end})}
  <1>1. /\ Cap \in Nat /\ Cap > 7
        /\ s.buf \in Buffers(C) /\ s.req \in Reqs /\ s = [buf |-> s.buf, req |-> s.req, p |-> s.p]
    BY CapAssumption, StateFields DEF States
  <1>2. s.p \in Nat /\ end \in Nat /\ s.p <= Cap - 1 /\ end <= Cap - 1
    BY <1>1 DEF Ptr
  <1>3. Max({s.p, end}) \in {s.p, end}
    <2>1. \E x \in {s.p, end} : \A y \in {s.p, end} : x >= y
      BY <1>2
    <2> QED
      BY <2>1 DEF Max
  <1>4. U \subseteq 0 .. Cap - 1 /\ U \subseteq Nat /\ U # {}
    <2>1. ASSUME NEW i \in T PROVE i \in 0 .. Cap - 1
      <3>1. i \in s.p .. end
        OBVIOUS
      <3> HIDE DEF T
      <3> QED
        BY <1>2, <3>1, Within
    <2>2. Max({s.p, end}) \in 0 .. Cap - 1
      BY <1>1, <1>2, <1>3
    <2> HIDE DEF T
    <2> DEFINE x == Max({s.p, end})
    <2> HIDE DEF x
    <2>3. T \cup {x} \subseteq 0 .. Cap - 1
      BY <2>1, <2>2 DEF x
    <2>4. 0 .. Cap - 1 \subseteq Nat
      OBVIOUS
    <2>5. T \cup {x} \subseteq Nat /\ T \cup {x} # {}
      BY <2>3, <2>4
    <2> QED
      BY <2>3, <2>5 DEF x
  <1>5. trim_spaces(s, end) = [s EXCEPT !.p = Min(U)]
    BY DEF trim_spaces
  <1> HIDE DEF U
  <1>6. Min(U) \in 0 .. Cap
    <2>1. Min(U) \in U
      BY <1>4, MinIs
    <2> QED
      BY <1>1, <1>4, <2>1
  <1>7. trim_spaces(s, end) = [buf |-> s.buf, req |-> s.req, p |-> Min(U)]
    BY <1>1, <1>5
  <1> QED
    BY <1>1, <1>6, <1>7, StateIs

\* The path, with its query cut into pairs.
LEMMA PathIs ==
    ASSUME NEW C, NEW s \in States(C), NEW end
    PROVE  http_parse_path(s, end) \in States(C)
  <1> DEFINE eop == strchr(s.buf, s.p, " ")
             query == strchr(s.buf, s.p, "?")
             u == [s EXCEPT !.buf[query] = NUL, !.p = query + 1]
             t == IF ~BeforeEnd(query, eop) THEN s ELSE ParseQuery(u, eop)
  <1>1. /\ Cap \in Nat /\ Cap > 7
        /\ s.buf \in Buffers(C) /\ s.buf[Cap - 1] = NUL /\ s.req \in Reqs /\ s.p \in 0 .. Cap
        /\ s = [buf |-> s.buf, req |-> s.req, p |-> s.p]
    BY CapAssumption, StateFields DEF States
  <1>2. http_parse_path(s, end) =
            IF TooShort(s.p, end, 13) \/ s.buf[s.p] # "/" \/ eop = NULL THEN s
            ELSE [t EXCEPT !.buf[eop] = NUL, !.req.path = s.p, !.p = eop + 1]
    BY DEF http_parse_path
  <1>3. /\ eop = NULL \/ eop \in s.p .. Cap - 2
        /\ query = NULL \/ query \in s.p .. Cap - 2
    BY <1>1, StrchrFinds
  <1>4. CASE TooShort(s.p, end, 13) \/ s.buf[s.p] # "/" \/ eop = NULL
    BY <1>2, <1>4
  <1>5. CASE ~(TooShort(s.p, end, 13) \/ s.buf[s.p] # "/" \/ eop = NULL)
    <2>1. eop \in Ptr /\ eop \in 0 .. Cap - 2 /\ eop + 1 \in 0 .. Cap /\ s.p \in Ptr
      <3> HIDE DEF eop
      <3> QED
        BY <1>1, <1>3, <1>5 DEF Ptr
    <2>2. t \in States(C)
      <3>1. CASE ~BeforeEnd(query, eop)
        BY <3>1
      <3>2. CASE BeforeEnd(query, eop)
        <4>1. query \in Ptr /\ query + 1 \in 0 .. Cap
          <5> HIDE DEF query, eop
          <5> QED
            BY <1>1, <1>3, <2>1, <3>2 DEF BeforeEnd, Ptr
        <4> DEFINE b == [s.buf EXCEPT ![query] = NUL]
        <4>2. b \in Buffers(C)
          BY <1>1, <4>1, NulWritten
        <4>3. u = [buf |-> b, req |-> s.req, p |-> query + 1]
          <5> DEFINE v == [s EXCEPT !.buf[query] = NUL]
          <5>1. v = [buf |-> b, req |-> s.req, p |-> s.p]
            <6> HIDE DEF query
            <6> QED
              BY <1>1
          <5>2. u = [v EXCEPT !.p = query + 1]
            OBVIOUS
          <5> HIDE DEF query, b, v, u
          <5> QED
            BY <5>1, <5>2
        <4> HIDE DEF b, query, u
        <4>4. u \in States(C)
          BY <1>1, <4>1, <4>2, <4>3, StateIs
        <4> HIDE DEF eop
        <4> QED
          BY <2>1, <3>2, <4>4, ParseQueryIs
      <3> QED
        BY <3>1, <3>2
    <2>3. http_parse_path(s, end) = [t EXCEPT !.buf[eop] = NUL, !.req.path = s.p, !.p = eop + 1]
      BY <1>2, <1>5
    <2> HIDE DEF t
    <2>4. /\ t.buf \in Buffers(C) /\ t.req \in Reqs
          /\ t = [buf |-> t.buf, req |-> t.req, p |-> t.p]
      BY <2>2, StateFields DEF States
    <2> DEFINE c == [t.buf EXCEPT ![eop] = NUL]
               q == [t.req EXCEPT !.path = s.p]
    <2>5. c \in Buffers(C)
      BY <2>1, <2>4, NulWritten
    <2>6. q \in Reqs
      BY <2>1, <2>4 DEF Reqs
    <2> HIDE DEF eop
    <2>7. http_parse_path(s, end) = [buf |-> c, req |-> q, p |-> eop + 1]
      BY <2>3, <2>4
    <2> HIDE DEF c, q
    <2> QED
      BY <2>1, <2>5, <2>6, <2>7, StateIs
  <1> QED
    BY <1>4, <1>5

\* The protocol.
LEMMA ProtocolIs ==
    ASSUME NEW C, NEW s \in States(C), NEW end
    PROVE  http_parse_protocol(s, end) \in States(C)
  <1> DEFINE eol == strchr(s.buf, s.p, "\r")
             Fails == TooShort(s.p, end, 11) \/ eol = NULL \/ Four(s.buf, s.p) # <<"H", "T", "T", "P">>
  <1>1. /\ Cap \in Nat /\ Cap > 7
        /\ s.buf \in Buffers(C) /\ s.buf[Cap - 1] = NUL /\ s.req \in Reqs /\ s.p \in 0 .. Cap
        /\ s = [buf |-> s.buf, req |-> s.req, p |-> s.p]
    BY CapAssumption, StateFields DEF States
  <1>2. http_parse_protocol(s, end) =
            IF Fails THEN s ELSE [s EXCEPT !.req.protocol = s.p, !.buf[eol] = NUL, !.p = eol + 2]
    BY DEF http_parse_protocol
  <1>3. eol = NULL \/ eol \in s.p .. Cap - 2
    BY <1>1, StrchrFinds
  <1>4. CASE Fails
    BY <1>2, <1>4
  <1>5. CASE ~Fails
    <2>1. eol \in Ptr /\ eol + 2 \in 0 .. Cap /\ s.p \in Ptr
      <3>1. eol # NULL
        BY <1>5
      <3> HIDE DEF eol
      <3> QED
        BY <1>1, <1>3, <3>1 DEF Ptr
    <2> DEFINE c == [s.buf EXCEPT ![eol] = NUL]
               q == [s.req EXCEPT !.protocol = s.p]
    <2>2. c \in Buffers(C)
      BY <1>1, <2>1, NulWritten
    <2>3. q \in Reqs
      BY <1>1, <2>1 DEF Reqs
    <2>4. http_parse_protocol(s, end) = [s EXCEPT !.req.protocol = s.p, !.buf[eol] = NUL, !.p = eol + 2]
      BY <1>2, <1>5
    <2> HIDE DEF eol
    <2>5. http_parse_protocol(s, end) = [buf |-> c, req |-> q, p |-> eol + 2]
      BY <1>1, <2>4
    <2> HIDE DEF c, q
    <2> QED
      BY <2>1, <2>2, <2>3, <2>5, StateIs
  <1> QED
    BY <1>4, <1>5

\* Whatever was received, as long as the last byte of the buffer is NUL: the
\* parser keeps it so, and all pointers it hands out point into the buffer.
LEMMA ParserResult ==
    ASSUME NEW C, NEW b \in Buffers(C), NEW r \in Reqs, NEW end \in Ptr,
           NEW out, out = http_parse_request(b, r, end)
    PROVE  /\ out.buf \in Buffers(C) /\ out.req \in Reqs /\ out.verdict \in {"400", "parsed"}
           /\ out = [buf |-> out.buf, req |-> out.req, verdict |-> out.verdict]
  <1> DEFINE s0 == [buf |-> b, req |-> r, p |-> 0]
             s1 == http_parse_method(s0, end)
             sT == trim_spaces(s1, end)
             s2 == http_parse_path(sT, end)
             s3 == http_parse_protocol(s2, end)
             s4 == http_parse_headers(s3, end)
             Gives(s, v) == [buf |-> s.buf, req |-> s.req, verdict |-> v]
  <1>1. s0 \in States(C) /\ s0.p = 0
    BY CapAssumption, StateIs
  <1>2. s1 \in States(C) /\ s1.p \in Ptr
    BY <1>1, MethodIs
  <1>3. s2 \in States(C)
    BY <1>2, TrimIs, PathIs
  <1>4. s3 \in States(C)
    BY <1>3, ProtocolIs
  <1>5. s4 \in States(C)
    BY <1>4, HeadersAre DEF Ptr
  <1>6. out = IF s1.req.method = "0" THEN Gives(s1, "400")
              ELSE IF s2.req.path = NULL THEN Gives(s2, "400")
              ELSE IF s3.req.protocol = NULL THEN Gives(s3, "400")
              ELSE Gives(s4, "parsed")
    BY DEF http_parse_request
  <1> HIDE DEF s0, s1, s2, s3, s4
  <1>7. \E s \in States(C), v \in {"400", "parsed"} : out = [buf |-> s.buf, req |-> s.req, verdict |-> v]
    BY <1>2, <1>3, <1>4, <1>5, <1>6
  <1>8. PICK s \in States(C), v \in {"400", "parsed"} : out = [buf |-> s.buf, req |-> s.req, verdict |-> v]
    BY <1>7
  <1> QED
    BY <1>8, StateFields

\* The cleared request points nowhere.
LEMMA EmptyReqIs == EmptyReq \in Reqs
  <1>1. <<>> \in Pairs
    <2>1. <<>> \in Seq([key : Ptr, value : Ptr]) /\ Len(<<>>) = 0
      OBVIOUS
    <2> QED
      BY <2>1, CapAssumption DEF Pairs
  <1>2. "0" \in Masks
    BY DEF Masks
  <1> QED
    BY <1>1, <1>2 DEF EmptyReq, Reqs

\* Positions that do not fall do not fall below the first.
LEMMA Rising ==
    ASSUME NEW N \in Nat, NEW f \in [0..N -> Nat], \A n \in 1..N : f[n - 1] <= f[n]
    PROVE  \A n \in 0..N : f[0] <= f[n]
  <1> DEFINE Bad == {n \in 0..N : ~(f[0] <= f[n])}
  <1>1. ASSUME Bad # {} PROVE FALSE
    <2>1. PICK n \in Bad : \A y \in Bad : n <= y
      <3>1. Bad \subseteq Nat
        OBVIOUS
      <3> HIDE DEF Bad
      <3> QED
        BY <1>1, <3>1, LeastNat
    <2>2. n \in 0..N /\ ~(f[0] <= f[n]) /\ f[0] \in Nat
      BY <2>1
    <2>3. n # 0
      BY <2>2
    <2>4. n \in 1..N /\ n - 1 \in 0..N /\ n - 1 \notin Bad
      <3> HIDE DEF Bad
      <3> QED
        BY <2>1, <2>2, <2>3
    <2>5. f[0] <= f[n - 1] /\ f[n - 1] \in Nat /\ f[n] \in Nat /\ f[n - 1] <= f[n]
      BY <2>4
    <2> QED
      BY <2>2, <2>5
  <1> QED
    BY <1>1

-----------------------------------------------------------------------------
(* Strings in the buffer.                                                  *)

\* The text t lies at p.
TextAt(b, p, t) == \A j \in 1 .. Len(t) : b[p + j - 1] = t[j]

\* The C string t lies at p, and its NUL before k.
StringAt(b, p, t, k) == p \in Nat /\ p + Len(t) < k /\ TextAt(b, p, t) /\ b[p + Len(t)] = NUL

\* strchr finds the character that ends a text without it.
LEMMA StrchrAt ==
    ASSUME NEW b, NEW p \in Nat, NEW k \in Nat, p <= k, k < Cap, NEW c, c # NUL, b[k] = c,
           \A i \in p .. k - 1 : b[i] \notin {c, NUL}
    PROVE  strchr(b, p, c) = k
  <1> DEFINE hits == {i \in p .. Cap - 1 : b[i] \in {c, NUL}}
  <1>1. k \in hits /\ hits \subseteq Nat
    BY CapAssumption
  <1>2. Min(hits) \in hits /\ \A y \in hits : Min(hits) <= y
    <2> HIDE DEF hits
    <2> QED
      BY <1>1, MinIs
  <1>3. Min(hits) <= k /\ Min(hits) \in p .. Cap - 1 /\ b[Min(hits)] \in {c, NUL}
    BY <1>1, <1>2
  <1>4. Min(hits) = k
    <2> DEFINE x == Min(hits)
    <2>1. x <= k /\ x \in p .. Cap - 1 /\ b[x] \in {c, NUL}
      BY <1>3
    <2> HIDE DEF x, hits
    <2>2. x \notin p .. k - 1
      BY <2>1
    <2>3. x \in Int /\ p <= x
      BY <2>1, CapAssumption
    <2>4. x = k
      BY <2>1, <2>2, <2>3
    <2> QED
      BY <2>4 DEF x
  <1>5. hits # {} /\ b[Min(hits)] # NUL
    <2> HIDE DEF hits
    <2> QED
      BY <1>1, <1>4
  <1>6. strchr(b, p, c) = IF hits = {} \/ b[Min(hits)] = NUL THEN NULL ELSE Min(hits)
    BY DEF strchr
  <1> HIDE DEF hits
  <1> QED
    BY <1>4, <1>5, <1>6

\* The same, with the hypotheses in one.
FoundAt(b, p, k, c) ==
    /\ p \in Nat /\ k \in Nat /\ p <= k /\ k < Cap /\ c # NUL /\ b[k] = c
    /\ \A i \in p .. k - 1 : b[i] \notin {c, NUL}

LEMMA StrchrOf ==
    ASSUME NEW b, NEW p, NEW k, NEW c, FoundAt(b, p, k, c)
    PROVE  strchr(b, p, c) = k
  BY StrchrAt DEF FoundAt

\* It finds nothing where the string ends before the character.
LEMMA StrchrNone ==
    ASSUME NEW b, b[Cap - 1] = NUL, NEW p \in Nat, NEW k \in Nat, p <= k, k < Cap, NEW c, c # NUL, b[k] = NUL,
           \A i \in p .. k - 1 : b[i] # c
    PROVE  strchr(b, p, c) = NULL
  <1> DEFINE x == strchr(b, p, c)
  <1>1. \/ x = NULL
        \/ x \in p .. Cap - 2 /\ b[x] = c /\ \A i \in p .. x - 1 : b[i] \notin {c, NUL}
    <2>1. p \in 0 .. Cap
      BY CapAssumption
    <2> QED
      BY <2>1, StrchrFinds
  <1> HIDE DEF x
  <1>2. ASSUME x # NULL PROVE FALSE
    <2>1. x \in p .. Cap - 2 /\ b[x] = c /\ \A i \in p .. x - 1 : b[i] \notin {c, NUL}
      BY <1>1, <1>2
    <2>2. x \notin p .. k - 1
      BY <2>1
    <2>3. x >= k /\ x \in Int
      BY <2>1, <2>2, CapAssumption
    <2>4. x # k
      BY <2>1
    <2>5. k \in p .. x - 1
      BY <2>3, <2>4
    <2> QED
      BY <2>1, <2>5
  <1> QED
    BY <1>2 DEF x

\* What it finds lies behind a text without the character.
LEMMA StrchrBehind ==
    ASSUME NEW b, b[Cap - 1] = NUL, NEW p \in Nat, NEW k \in Nat, p <= k, k < Cap, NEW c,
           \A i \in p .. k - 1 : b[i] # c
    PROVE  strchr(b, p, c) = NULL \/ (strchr(b, p, c) \in Nat /\ strchr(b, p, c) >= k)
  <1> DEFINE x == strchr(b, p, c)
  <1>1. x = NULL \/ (x \in p .. Cap - 2 /\ b[x] = c)
    <2>1. p \in 0 .. Cap
      BY CapAssumption
    <2> QED
      BY <2>1, StrchrFinds
  <1> HIDE DEF x
  <1>2. ASSUME x # NULL PROVE x \in Nat /\ x >= k
    <2>1. x \in p .. Cap - 2 /\ b[x] = c
      BY <1>1, <1>2
    <2>2. x \notin p .. k - 1
      BY <2>1
    <2> QED
      BY <2>1, <2>2, CapAssumption
  <1> QED
    BY <1>2 DEF x

\* The characters of a text in the buffer are those of the text.
LEMMA CharsOf ==
    ASSUME NEW b, NEW p \in Nat, NEW t \in Text, TextAt(b, p, t), NEW S, FreeOf(t, S)
    PROVE  \A i \in p .. p + Len(t) - 1 : b[i] \notin S /\ b[i] # NUL
  <1> TAKE i \in p .. p + Len(t) - 1
  <1>1. t \in Seq(Alphabet) /\ Len(t) \in Nat
    BY DEF Text
  <1> DEFINE j == i - p + 1
  <1>2. j \in 1 .. Len(t) /\ p + j - 1 = i
    BY <1>1
  <1> HIDE DEF j
  <1>3. b[i] = t[j] /\ t[j] \notin S
    BY <1>2 DEF TextAt, FreeOf
  <1>4. t[j] \in Alphabet
    BY <1>1, <1>2
  <1> QED
    BY <1>3, <1>4, AlphabetAssumption

\* The string at p is the one that lies there.
LEMMA StrIs ==
    ASSUME NEW b, NEW p, NEW t \in Text, NEW k \in Nat, k <= Cap, StringAt(b, p, t, k)
    PROVE  Str(b, p) = t
  <1> DEFINE Z == {i \in p .. Cap - 1 : b[i] = NUL} \cup {Cap}
             e == p + Len(t)
  <1>1. /\ p \in Nat /\ Len(t) \in Nat /\ e \in Nat /\ e < Cap /\ Cap \in Nat
        /\ TextAt(b, p, t) /\ b[e] = NUL /\ t \in Seq(Alphabet)
    BY CapAssumption DEF StringAt, Text
  <1>2. \A i \in p .. e - 1 : b[i] # NUL
    <2>1. FreeOf(t, {})
      BY DEF FreeOf
    <2> QED
      BY <1>1, <2>1, CharsOf
  <1>3. e \in Z /\ Z \subseteq Nat
    BY <1>1
  <1>4. \A y \in Z : e <= y
    <2> TAKE y \in Z
    <2>1. CASE y = Cap
      BY <1>1, <2>1
    <2>2. CASE y # Cap
      <3>1. y \in p .. Cap - 1 /\ b[y] = NUL
        BY <2>2
      <3>2. y \notin p .. e - 1
        BY <1>2, <3>1
      <3> HIDE DEF e
      <3> QED
        BY <1>1, <3>1, <3>2
    <2> QED
      BY <2>1, <2>2
  <1> HIDE DEF Z
  <1>5. Min(Z) = e
    <2> DEFINE x == Min(Z)
    <2>1. x \in Z /\ x <= e
      BY <1>3, MinIs
    <2>2. x \in Nat /\ e <= x
      BY <1>3, <1>4, <2>1
    <2> HIDE DEF x, e
    <2>3. x = e
      BY <1>1, <2>1, <2>2
    <2> QED
      BY <2>3 DEF x
  <1>6. Str(b, p) = [i \in 1 .. e - p |-> b[p + i - 1]]
    BY <1>5 DEF Str, Z
  <1>7. e - p = Len(t)
    BY <1>1
  <1>8. \A i \in 1 .. Len(t) : b[p + i - 1] = t[i]
    BY <1>1 DEF TextAt
  <1>9. t = [i \in 1 .. Len(t) |-> t[i]]
    BY <1>1
  <1> QED
    BY <1>6, <1>7, <1>8, <1>9

\* What is written at or behind k leaves the strings before k alone.
LEMMA StringKept ==
    ASSUME NEW b, NEW c, NEW p, NEW t \in Text, NEW k \in Nat, NEW l \in Nat, k <= l,
           StringAt(b, p, t, k), \A i \in 0 .. k - 1 : c[i] = b[i]
    PROVE  StringAt(c, p, t, l)
  <1>1. p \in Nat /\ Len(t) \in Nat /\ p + Len(t) < k /\ TextAt(b, p, t) /\ b[p + Len(t)] = NUL
    BY DEF StringAt, Text
  <1>2. TextAt(c, p, t)
    <2>1. \A j \in 1 .. Len(t) : p + j - 1 \in 0 .. k - 1
      BY <1>1
    <2> QED
      BY <1>1, <2>1 DEF TextAt
  <1>3. c[p + Len(t)] = NUL /\ p + Len(t) < l
    <2>1. p + Len(t) \in 0 .. k - 1
      BY <1>1
    <2> QED
      BY <1>1, <2>1
  <1> QED
    BY <1>1, <1>2, <1>3 DEF StringAt

-----------------------------------------------------------------------------
(* The pairs of a map.                                                     *)

\* How many of n pairs there is room for.
Room(n) == IF n <= KvSz THEN n ELSE KvSz

\* The map holds the first n of the pairs with keys at ks and values at vs, as
\* far as there is room.
Kept(kv, n, ks, vs) ==
    Len(kv) = Room(n) /\ \A i \in 1 .. Room(n) : kv[i] = [key |-> ks[i], value |-> vs[i]]

\* The first n pairs of the list lie at ks and vs, all before k.
Stored(b, n, ks, vs, list, k) ==
    \A i \in 1 .. n : StringAt(b, ks[i], list[i].key, k) /\ StringAt(b, vs[i], list[i].value, k)

\* Lists of pairs of texts.
Lists == Seq([key : Text, value : Text])

\* The length of a list.
LEMMA ListLen == \A l \in Lists : Len(l) \in Nat
  <1> DEFINE E == [key : Text, value : Text]
  <1> HIDE DEF E
  <1>1. \A l \in Seq(E) : Len(l) \in Nat
    OBVIOUS
  <1> QED
    BY <1>1 DEF Lists, E

\* A pair of a list.
LEMMA ListPair ==
    ASSUME NEW list \in Lists, NEW i \in 1 .. Len(list)
    PROVE  /\ Len(list) \in Nat /\ list[i].key \in Text /\ list[i].value \in Text
           /\ Len(list[i].key) \in Nat /\ Len(list[i].value) \in Nat
           /\ list[i] = [key |-> list[i].key, value |-> list[i].value]
  <1> DEFINE E == [key : Text, value : Text]
  <1>1. list \in Seq(E)
    BY DEF Lists
  <1>2. list[i] \in E /\ Len(list) \in Nat
    <2> HIDE DEF E
    <2> QED
      BY <1>1
  <1>3. list[i].key \in Text /\ list[i].value \in Text
        /\ list[i] = [key |-> list[i].key, value |-> list[i].value]
    BY <1>2
  <1>4. \A t \in Text : Len(t) \in Nat
    BY DEF Text
  <1> QED
    BY <1>1, <1>2, <1>3, <1>4

\* One pair more.
LEMMA KeptNext ==
    ASSUME NEW kv \in Pairs, NEW n \in Nat, NEW ks, NEW vs, Kept(kv, n, ks, vs),
           ks[n + 1] \in Ptr, vs[n + 1] \in Ptr
    PROVE  Kept(kv_set_key_value(kv, ks[n + 1], vs[n + 1]), n + 1, ks, vs)
  <1>1. KvSz \in Nat
    BY CapAssumption
  <1>2. CASE Len(kv) < KvSz
    <2> DEFINE e == [key |-> ks[n + 1], value |-> vs[n + 1]]
               E == [key : Ptr, value : Ptr]
    <2>1. Len(kv) = n /\ Room(n) = n /\ Room(n + 1) = n + 1
      BY <1>1, <1>2 DEF Kept, Room
    <2>2. kv \in Seq(E) /\ e \in E
      BY DEF Pairs
    <2>3. kv_set_key_value(kv, ks[n + 1], vs[n + 1]) = Append(kv, e)
      BY <1>2 DEF kv_set_key_value
    <2> HIDE DEF e, E
    <2>4. Len(Append(kv, e)) = n + 1 /\ Append(kv, e)[n + 1] = e
          /\ \A i \in 1 .. n : Append(kv, e)[i] = kv[i]
      BY <2>1, <2>2
    <2>5. ASSUME NEW i \in 1 .. n + 1 PROVE Append(kv, e)[i] = [key |-> ks[i], value |-> vs[i]]
      <3>1. CASE i = n + 1
        BY <2>4, <3>1 DEF e
      <3>2. CASE i # n + 1
        <4>1. i \in 1 .. n
          BY <3>2
        <4> QED
          BY <2>1, <2>4, <4>1 DEF Kept
      <3> QED
        BY <3>1, <3>2
    <2> QED
      BY <2>1, <2>3, <2>4, <2>5 DEF Kept
  <1>3. CASE ~(Len(kv) < KvSz)
    <2>1. Room(n) = KvSz /\ Room(n + 1) = KvSz
      <3>1. Len(kv) = Room(n)
        BY DEF Kept
      <3> QED
        BY <1>1, <1>3, <3>1 DEF Room
    <2>2. kv_set_key_value(kv, ks[n + 1], vs[n + 1]) = kv
      BY <1>3 DEF kv_set_key_value
    <2> QED
      BY <2>1, <2>2 DEF Kept
  <1> QED
    BY <1>2, <1>3

\* What is written at or behind k leaves what is stored before k alone.
LEMMA StoredKept ==
    ASSUME NEW b, NEW c, NEW list \in Lists, NEW n \in 0 .. Len(list), NEW ks, NEW vs,
           NEW k \in Nat, NEW l \in Nat, k <= l,
           Stored(b, n, ks, vs, list, k), \A i \in 0 .. k - 1 : c[i] = b[i]
    PROVE  Stored(c, n, ks, vs, list, l)
  <1> SUFFICES ASSUME NEW i \in 1 .. n
               PROVE  StringAt(c, ks[i], list[i].key, l) /\ StringAt(c, vs[i], list[i].value, l)
    BY DEF Stored
  <1>0. Len(list) \in Nat
    BY DEF Lists
  <1>1. i \in 1 .. Len(list)
    BY <1>0
  <1>2. list[i].key \in Text /\ list[i].value \in Text
    BY <1>1, ListPair
  <1>3. StringAt(b, ks[i], list[i].key, k) /\ StringAt(b, vs[i], list[i].value, k)
    BY DEF Stored
  <1> QED
    BY <1>2, <1>3, StringKept

\* A map kv of the first n pairs of a list, and as many of their strings as
\* there is room for.
MapOf(b, kv, list, n, ks, vs, k) ==
    /\ list \in Lists /\ n \in 0 .. Len(list) /\ k \in Nat /\ k <= Cap
    /\ Stored(b, n, ks, vs, list, k) /\ kv \in Pairs /\ Kept(kv, n, ks, vs)

Fitting(list, n) == [i \in 1 .. Room(n) |-> list[i]]

\* The strings of a map are the first pairs of the list.
LEMMA StringsAre ==
    ASSUME NEW b, NEW kv, NEW list, NEW n, NEW ks, NEW vs, NEW k, MapOf(b, kv, list, n, ks, vs, k)
    PROVE  Strings(b, kv) = Fitting(list, n)
  <1> /\ list \in Lists /\ n \in 0 .. Len(list) /\ k \in Nat /\ k <= Cap
      /\ Stored(b, n, ks, vs, list, k) /\ kv \in Pairs /\ Kept(kv, n, ks, vs)
    BY DEF MapOf
  <1>1. KvSz \in Nat /\ Len(list) \in Nat /\ n \in Nat
    BY CapAssumption DEF Lists
  <1>2. DOMAIN kv = 1 .. Room(n)
    BY DEF Pairs, Kept
  <1>3. ASSUME NEW i \in 1 .. Room(n)
        PROVE  [key |-> Str(b, kv[i].key), value |-> Str(b, kv[i].value)] = list[i]
    <2>1. i \in 1 .. n /\ i \in 1 .. Len(list)
      BY <1>1 DEF Room
    <2>2. kv[i].key = ks[i] /\ kv[i].value = vs[i]
      BY DEF Kept
    <2>3. StringAt(b, ks[i], list[i].key, k) /\ StringAt(b, vs[i], list[i].value, k)
      BY <2>1 DEF Stored
    <2>4. /\ list[i].key \in Text /\ list[i].value \in Text
          /\ list[i] = [key |-> list[i].key, value |-> list[i].value]
      BY <2>1, ListPair
    <2>5. Str(b, ks[i]) = list[i].key /\ Str(b, vs[i]) = list[i].value
      BY <2>3, <2>4, StrIs
    <2> QED
      BY <2>2, <2>4, <2>5
  <1> QED
    BY <1>2, <1>3 DEF Strings, Fitting

-----------------------------------------------------------------------------
(* The text of a request.                                                  *)

\* Behind its first o characters, the text s goes on with t.
Piece(s, o, t) == \A j \in 1 .. Len(t) : s[o + j] = t[j]

\* A text behind another.
LEMMA Behind ==
    ASSUME NEW s \in Text, NEW t \in Text
    PROVE  /\ s \o t \in Text /\ Len(s \o t) = Len(s) + Len(t)
           /\ Len(s) \in Nat /\ Len(t) \in Nat
           /\ Piece(s \o t, 0, s) /\ Piece(s \o t, Len(s), t)
  <1>1. s \in Seq(Alphabet) /\ t \in Seq(Alphabet)
    BY DEF Text
  <1>2. s \o t \in Seq(Alphabet) /\ Len(s \o t) = Len(s) + Len(t) /\ Len(s) \in Nat /\ Len(t) \in Nat
    BY <1>1
  <1>3. \A j \in 1 .. Len(s) : (s \o t)[0 + j] = s[j]
    BY <1>1, <1>2
  <1>4. \A j \in 1 .. Len(t) : (s \o t)[Len(s) + j] = t[j]
    BY <1>1, <1>2
  <1> QED
    BY <1>2, <1>3, <1>4 DEF Text, Piece

\* A piece of a piece.
LEMMA PieceOf ==
    ASSUME NEW s, NEW o \in Nat, NEW t \in Text, Piece(s, o, t),
           NEW a \in Nat, NEW u \in Text, Piece(t, a, u), a + Len(u) <= Len(t),
           NEW x, x = o + a
    PROVE  Piece(s, x, u)
  <1>1. Len(t) \in Nat /\ Len(u) \in Nat
    BY DEF Text
  <1> SUFFICES ASSUME NEW j \in 1 .. Len(u) PROVE s[x + j] = u[j]
    BY DEF Piece
  <1>2. a + j \in 1 .. Len(t) /\ o + (a + j) = x + j
    BY <1>1
  <1>3. s[o + (a + j)] = t[a + j] /\ t[a + j] = u[j]
    BY <1>2 DEF Piece
  <1> QED
    BY <1>2, <1>3

\* Where the pieces of a text start: f[n] is the text of the first n of them.
Parts(f, ps, m) == f[0] = <<>> /\ \A n \in 1..m : f[n] = f[n - 1] \o ps[n]

\* The parts exist, each goes on where the one before it ended, and the whole
\* has them all.
LEMMA PartsExist ==
    ASSUME NEW ps, NEW N \in Nat, \A n \in 1..N : ps[n] \in Text
    PROVE  \E f \in [0..N -> Text] :
              /\ Parts(f, ps, N)
              /\ \A n \in 1..N : /\ Piece(f[N], Len(f[n - 1]), ps[n])
                                 /\ Len(f[n]) = Len(f[n - 1]) + Len(ps[n]) /\ Len(f[n]) <= Len(f[N])
  <1> DEFINE Is(f, m) ==
                /\ Parts(f, ps, m)
                /\ \A n \in 1..m : /\ Piece(f[m], Len(f[n - 1]), ps[n])
                                   /\ Len(f[n]) = Len(f[n - 1]) + Len(ps[n]) /\ Len(f[n]) <= Len(f[m])
             Bad == {m \in 0..N : \A f \in [0..m -> Text] : ~Is(f, m)}
  <1>0. \A t \in Text : Len(t) \in Nat
    BY DEF Text
  <1>1. ASSUME Bad # {} PROVE FALSE
    <2>1. PICK m \in Bad : \A y \in Bad : m <= y
      <3> HIDE DEF Is
      <3>1. Bad \subseteq Nat
        OBVIOUS
      <3> HIDE DEF Bad
      <3> QED
        BY <1>1, <3>1, LeastNat
    <2>2. CASE m = 0
      <3> DEFINE f == [n \in 0..0 |-> <<>>]
      <3>1. <<>> \in Text
        BY DEF Text
      <3>2. f \in [0..0 -> Text] /\ Is(f, 0)
        BY <3>1 DEF Parts
      <3> QED
        BY <2>1, <2>2, <3>2
    <2>3. CASE m # 0
      <3>1. m \in Nat /\ m - 1 \in Nat /\ m - 1 \in 0..N /\ m \in 1..N /\ m - 1 \notin Bad
        <4>1. m \in 0..N
          BY <2>1
        <4> HIDE DEF Bad
        <4> QED
          BY <2>1, <2>3, <4>1
      <3>2. PICK f \in [0 .. m - 1 -> Text] : Is(f, m - 1)
        BY <3>1
      <3> DEFINE u == f[m - 1]
                 v == ps[m]
                 w == u \o v
                 h == [n \in 0..m |-> IF n <= m - 1 THEN f[n] ELSE w]
      <3>3. u \in Text /\ v \in Text
        BY <3>1
      <3>4. w \in Text /\ Piece(w, 0, u) /\ Piece(w, Len(u), v) /\ Len(w) = Len(u) + Len(v)
        BY <3>3, Behind
      <3> HIDE DEF w
      <3>5. h \in [0..m -> Text] /\ (\A n \in 0 .. m - 1 : h[n] = f[n]) /\ h[m] = w
        <4> HIDE DEF u, v
        <4> QED
          BY <3>1, <3>4
      <3> HIDE DEF h
      <3>6. Parts(h, ps, m)
        <4>1. h[0] = <<>>
          BY <3>1, <3>2, <3>5 DEF Parts
        <4>2. ASSUME NEW n \in 1..m PROVE h[n] = h[n - 1] \o ps[n]
          <5>1. CASE n = m
            <6>1. m - 1 \in 0 .. m - 1
              BY <3>1
            <6> QED
              BY <3>5, <5>1, <6>1 DEF w
          <5>2. CASE n # m
            <6>1. n \in 1 .. m - 1 /\ n - 1 \in 0 .. m - 1 /\ n \in 0 .. m - 1
              BY <3>1, <5>2
            <6> QED
              BY <3>2, <3>5, <6>1 DEF Parts
          <5> QED
            BY <5>1, <5>2
        <4> QED
          BY <4>1, <4>2 DEF Parts
      <3>7. ASSUME NEW n \in 1..m
            PROVE  /\ Piece(h[m], Len(h[n - 1]), ps[n])
                   /\ Len(h[n]) = Len(h[n - 1]) + Len(ps[n]) /\ Len(h[n]) <= Len(h[m])
        <4>1. CASE n = m
          <5>1. m - 1 \in 0 .. m - 1
            BY <3>1
          <5>2. h[n - 1] = u /\ h[n] = w /\ h[m] = w /\ ps[n] = v
            BY <3>5, <4>1, <5>1
          <5>3. Len(w) \in Nat
            BY <1>0, <3>4
          <5> HIDE DEF u, v
          <5> QED
            BY <3>4, <5>2, <5>3
        <4>2. CASE n # m
          <5>1. n \in 1 .. m - 1 /\ n - 1 \in 0 .. m - 1 /\ n \in 0 .. m - 1 /\ n \in 1..N
            BY <3>1, <4>2
          <5>2. h[n - 1] = f[n - 1] /\ h[n] = f[n] /\ h[m] = w /\ f[n - 1] \in Text /\ ps[n] \in Text /\ f[n] \in Text
            BY <3>5, <5>1
          <5>3. Piece(u, Len(f[n - 1]), ps[n]) /\ Len(f[n]) = Len(f[n - 1]) + Len(ps[n]) /\ Len(f[n]) <= Len(u)
            BY <3>2, <5>1
          <5>4. Len(f[n - 1]) \in Nat /\ Len(ps[n]) \in Nat /\ Len(u) \in Nat /\ Len(v) \in Nat /\ Len(f[n]) \in Nat
            BY <1>0, <3>3, <5>2
          <5> HIDE DEF u, v
          <5>5. Piece(w, Len(f[n - 1]), ps[n])
            <6> DEFINE o == Len(f[n - 1])
            <6>0. Len(f[n]) = o + Len(ps[n]) /\ Len(f[n]) <= Len(u) /\ o \in Nat
              BY <5>3, <5>4
            <6> HIDE DEF o
            <6>1. o = 0 + o /\ o + Len(ps[n]) <= Len(u)
              BY <6>0
            <6>2. Piece(u, o, ps[n])
              BY <5>3 DEF o
            <6>3. Piece(w, o, ps[n])
              BY <3>3, <3>4, <5>2, <6>0, <6>1, <6>2, PieceOf
            <6> QED
              BY <6>3 DEF o
          <5>6. Len(f[n]) <= Len(w)
            BY <3>4, <5>3, <5>4
          <5> QED
            BY <5>2, <5>3, <5>5, <5>6
        <4> QED
          BY <4>1, <4>2
      <3>8. Is(h, m)
        BY <3>6, <3>7
      <3> QED
        BY <2>1, <3>5, <3>8
    <2> QED
      BY <2>2, <2>3
  <1>2. N \notin Bad /\ N \in 0..N
    <2> HIDE DEF Is
    <2> QED
      BY <1>1
  <1>3. PICK f \in [0..N -> Text] : Is(f, N)
    BY <1>2
  <1> QED
    BY <1>3

\* FlattenSeq puts the texts of a list behind each other: the n-th starts where
\* the one before it ends.
LEMMA FlattenIs ==
    ASSUME NEW ps, NEW N \in Nat, ps = [n \in 1..N |-> ps[n]], \A n \in 1..N : ps[n] \in Text
    PROVE  /\ FlattenSeq(ps) \in Text
           /\ \E off \in [0..N -> Nat] :
                /\ off[0] = 0 /\ Len(FlattenSeq(ps)) = off[N]
                /\ \A n \in 1..N : /\ Piece(FlattenSeq(ps), off[n - 1], ps[n])
                                   /\ off[n] = off[n - 1] + Len(ps[n]) /\ off[n] <= off[N]
  <1> DEFINE G(g) == [i \in 1..N |-> IF i = 1 THEN ps[i] ELSE g[i - 1] \o ps[i]]
             flatten == CHOOSE g : g = G(g)
  <1>0. \A t \in Text : Len(t) \in Nat
    BY DEF Text
  <1>1. ps \in Seq(Text) /\ Len(ps) = N
    BY DEF Text
  <1>2. PICK f \in [0..N -> Text] :
              /\ Parts(f, ps, N)
              /\ \A n \in 1..N : /\ Piece(f[N], Len(f[n - 1]), ps[n])
                                 /\ Len(f[n]) = Len(f[n - 1]) + Len(ps[n]) /\ Len(f[n]) <= Len(f[N])
    BY PartsExist
  <1>3. FlattenSeq(ps) = f[N]
    <2>1. CASE N = 0
      <3>1. ps = <<>>
        BY <1>1, <2>1
      <3> QED
        BY <1>1, <1>2, <2>1, <3>1 DEF FlattenSeq, Parts
    <2>2. CASE N # 0
      <3>1. FlattenSeq(ps) = flatten[N]
        BY <1>1, <2>2 DEF FlattenSeq
      <3>2. f[0] = <<>> /\ 1 \in 1..N /\ N \in 1..N /\ f[1] = ps[1]
        <4>0. 1 \in 1..N /\ 1 - 1 = 0
          BY <2>2
        <4>1. f[0] = <<>> /\ 1 \in 1..N /\ f[1] = f[1 - 1] \o ps[1]
          BY <1>2, <4>0 DEF Parts
        <4>2. \A t \in Text : <<>> \o t = t
          BY DEF Text
        <4>3. f[1 - 1] = f[0] /\ ps[1] \in Text /\ N \in 1..N
          BY <2>2, <4>0
        <4>4. f[1] = <<>> \o ps[1]
          BY <4>1, <4>3
        <4> QED
          BY <4>1, <4>2, <4>3, <4>4
      <3> DEFINE g == [i \in 1..N |-> f[i]]
      <3>3. g = G(g)
        <4>1. ASSUME NEW i \in 1..N PROVE g[i] = IF i = 1 THEN ps[i] ELSE g[i - 1] \o ps[i]
          <5>1. i # 1 => i - 1 \in 1..N
            OBVIOUS
          <5> QED
            BY <1>2, <3>2, <5>1 DEF Parts
        <4> HIDE DEF g
        <4>2. g = [i \in 1..N |-> g[i]]
          BY DEF g
        <4> QED
          BY <4>1, <4>2
      <3>4. flatten = G(flatten)
        <4> HIDE DEF G, g
        <4> QED
          BY <3>3
      <3>5. \A i \in 1..N : flatten[i] = IF i = 1 THEN ps[i] ELSE flatten[i - 1] \o ps[i]
        <4> HIDE DEF flatten
        <4> QED
          BY <3>4
      <3> HIDE DEF flatten, G
      <3> DEFINE Bad == {i \in 1..N : flatten[i] # f[i]}
      <3>6. ASSUME Bad # {} PROVE FALSE
        <4>1. PICK i \in Bad : \A y \in Bad : i <= y
          <5>1. Bad \subseteq Nat
            OBVIOUS
          <5> HIDE DEF Bad
          <5> QED
            BY <3>6, <5>1, LeastNat
        <4>2. i \in 1..N /\ flatten[i] # f[i]
          BY <4>1
        <4>3. i # 1
          BY <3>2, <3>5, <4>2
        <4>4. i - 1 \in 1..N /\ i - 1 \notin Bad
          <5> HIDE DEF Bad
          <5> QED
            BY <4>1, <4>2, <4>3
        <4>5. flatten[i - 1] = f[i - 1]
          BY <4>4
        <4>6. f[i] = f[i - 1] \o ps[i]
          BY <1>2, <4>2 DEF Parts
        <4> QED
          BY <3>5, <4>2, <4>3, <4>5, <4>6
      <3>7. flatten[N] = f[N]
        BY <3>2, <3>6
      <3> QED
        BY <3>1, <3>7
    <2> QED
      BY <2>1, <2>2
  <1> DEFINE off == [n \in 0..N |-> Len(f[n])]
  <1>4. off \in [0..N -> Nat] /\ \A n \in 0..N : off[n] = Len(f[n])
    BY <1>0
  <1>5. off[0] = 0 /\ off[N] = Len(f[N]) /\ f[N] \in Text
    <2>1. 0 \in 0..N /\ N \in 0..N /\ Len(<<>>) = 0 /\ f[0] = <<>>
      BY <1>2 DEF Parts
    <2> HIDE DEF off
    <2> QED
      BY <1>4, <2>1
  <1>6. ASSUME NEW n \in 1..N
        PROVE  Piece(f[N], off[n - 1], ps[n]) /\ off[n] = off[n - 1] + Len(ps[n]) /\ off[n] <= off[N]
    <2>1. n \in 0..N /\ n - 1 \in 0..N /\ N \in 0..N
      OBVIOUS
    <2> HIDE DEF off
    <2> QED
      BY <1>2, <1>4, <2>1
  <1> HIDE DEF off
  <1> QED
    BY <1>3, <1>4, <1>5, <1>6

\* A text that goes on with two others goes on with the first, and behind it
\* with the second.
LEMMA Going ==
    ASSUME NEW s, NEW o \in Nat, NEW t \in Text, NEW u \in Text, Piece(s, o, t \o u)
    PROVE  Piece(s, o, t) /\ Piece(s, o + Len(t), u)
  <1> DEFINE w == t \o u
             l == Len(t)
             k == Len(u)
  <1>1. /\ w \in Text /\ Len(w) = l + k /\ l \in Nat /\ k \in Nat
        /\ Piece(w, 0, t) /\ Piece(w, l, u) /\ Piece(s, o, w)
    BY Behind
  <1> HIDE DEF w
  <1>2. 0 + l <= Len(w) /\ l + k <= Len(w) /\ o = o + 0 /\ 0 \in Nat
    <2> HIDE DEF l, k
    <2> QED
      BY <1>1
  <1>3. Piece(s, o, t)
    BY <1>1, <1>2, PieceOf
  <1>4. Piece(s, o + l, u)
    BY <1>1, <1>2, PieceOf
  <1> QED
    BY <1>3, <1>4

\* The characters that the format itself brings.
LEMMA Characters ==
    /\ {"?", "&", "=", ":", " ", "\r", "\n"} \subseteq Alphabet
    /\ ProtocolLine \in Text /\ Len(ProtocolLine) = 11
  <1>0. ASSUME NEW S, NEW a \in S, NEW b \in S, NEW c \in S, NEW d \in S, NEW e \in S, NEW f \in S,
               NEW g \in S, NEW h \in S, NEW i \in S
        PROVE  <<a, b, c, c, d, e, f, g, f, h, i>> \in Seq(S)
    OBVIOUS
  <1>1. ProtocolLine \in Seq(Alphabet)
    <2>1. /\ " " \in Alphabet /\ "H" \in Alphabet /\ "T" \in Alphabet /\ "P" \in Alphabet
          /\ "/" \in Alphabet /\ "1" \in Alphabet /\ "." \in Alphabet
          /\ "\r" \in Alphabet /\ "\n" \in Alphabet
      BY AlphabetAssumption
    <2> QED
      BY <1>0, <2>1, Zenon DEF ProtocolLine
  <1>2. Len(ProtocolLine) = 11
    BY DEF ProtocolLine
  <1> QED
    BY <1>1, <1>2, AlphabetAssumption DEF Text

LEMMA ProtocolLineIs ==
    /\ ProtocolLine[1] = " " /\ ProtocolLine[2] = "H" /\ ProtocolLine[3] = "T"
    /\ ProtocolLine[4] = "T" /\ ProtocolLine[5] = "P" /\ ProtocolLine[10] = "\r"
    /\ \A j \in 2..9 : ProtocolLine[j] # "\r"
  <1>1. \A j \in 2..9 : j = 2 \/ j = 3 \/ j = 4 \/ j = 5 \/ j = 6 \/ j = 7 \/ j = 8 \/ j = 9
    OBVIOUS
  <1> QED
    BY <1>1 DEF ProtocolLine

\* One and two characters.
LEMMA CharPiece ==
    ASSUME NEW s, NEW o \in Nat, NEW c \in Alphabet
    PROVE  /\ <<c>> \in Text /\ Len(<<c>>) = 1
           /\ Piece(s, o, <<c>>) => s[o + 1] = c
  <1>1. 1 \in 1..1 /\ <<c>>[1] = c /\ Len(<<c>>) = 1 /\ <<c>> \in Seq(Alphabet)
    OBVIOUS
  <1>2. Piece(s, o, <<c>>) => s[o + 1] = c
    BY <1>1 DEF Piece
  <1> QED
    BY <1>1, <1>2 DEF Text

LEMMA TwoPiece ==
    ASSUME NEW s, NEW o \in Nat, NEW c \in Alphabet, NEW d \in Alphabet
    PROVE  /\ <<c, d>> \in Text /\ Len(<<c, d>>) = 2
           /\ Piece(s, o, <<c, d>>) => s[o + 1] = c /\ s[o + 2] = d
  <1>1. 1 \in 1..2 /\ 2 \in 1..2 /\ <<c, d>>[1] = c /\ <<c, d>>[2] = d /\ Len(<<c, d>>) = 2 /\ <<c, d>> \in Seq(Alphabet)
    OBVIOUS
  <1>2. Piece(s, o, <<c, d>>) => s[o + 1] = c /\ s[o + 2] = d
    BY <1>1 DEF Piece
  <1> QED
    BY <1>1, <1>2 DEF Text

\* The same for a text w that is the two characters.
TwoAt(s, o, w, c) == w \in Text /\ Len(w) = 2 /\ (Piece(s, o, w) => s[o + 1] = c)

LEMMA TwoPieceOf ==
    ASSUME NEW s, NEW o \in Nat, NEW c \in Alphabet, NEW d \in Alphabet, NEW w, w = <<c, d>>
    PROVE  TwoAt(s, o, w, c)
  <1>1. /\ <<c, d>> \in Text /\ Len(<<c, d>>) = 2
        /\ Piece(s, o, <<c, d>>) => s[o + 1] = c /\ s[o + 2] = d
    BY ONLY o \in Nat, c \in Alphabet, d \in Alphabet, TwoPiece
  <1>2. w \in Text /\ Len(w) = 2 /\ (Piece(s, o, w) => s[o + 1] = c /\ s[o + 2] = d)
    BY ONLY <1>1, w = <<c, d>>
  <1> QED
    BY ONLY <1>2 DEF TwoAt

\* A pair of the query that lies at o.
PairLaid(s, o, q, n) ==
    /\ s[o + 1] = IF n = 1 THEN "?" ELSE "&"
    /\ Piece(s, o + 1, q[n].key)
    /\ s[o + Len(q[n].key) + 2] = "="
    /\ Piece(s, o + Len(q[n].key) + 2, q[n].value)

\* A header line that lies at o.
LineLaid(s, o, h) ==
    /\ Piece(s, o, h.key)
    /\ s[o + Len(h.key) + 1] = ":" /\ s[o + Len(h.key) + 2] = " "
    /\ Piece(s, o + Len(h.key) + 2, h.value)
    /\ s[o + Len(h.key) + Len(h.value) + 3] = "\r"

\* The pairs of the query, and the header lines, each where the one before it
\* ends.
LaidQuery(s, q, qo) ==
    \A n \in 1 .. Len(q) :
        /\ PairLaid(s, qo[n - 1], q, n)
        /\ qo[n] = qo[n - 1] + Len(q[n].key) + Len(q[n].value) + 2
        /\ qo[n] <= qo[Len(q)]

LaidHeaders(s, h, ho) ==
    \A n \in 1 .. Len(h) :
        /\ LineLaid(s, ho[n - 1], h[n])
        /\ ho[n] = ho[n - 1] + Len(h[n].key) + Len(h[n].value) + 4
        /\ ho[n] <= ho[Len(h)]

\* The whole text: the path starts at Len(method) + 1, the pairs of the query at
\* qo, the header lines at ho.
Laid(s, r, qo, ho) ==
    LET m == Len(r.method.text)
        e == qo[Len(r.query)]
        z == ho[Len(r.headers)]
    IN  /\ s \in Text /\ Piece(s, 0, r.method.text) /\ s[m + 1] = " " /\ Piece(s, m + 1, r.path)
        /\ qo \in [0 .. Len(r.query) -> Nat] /\ qo[0] = m + 1 + Len(r.path) /\ LaidQuery(s, r.query, qo)
        /\ Piece(s, e, ProtocolLine)
        /\ ho \in [0 .. Len(r.headers) -> Nat] /\ ho[0] = e + 11 /\ LaidHeaders(s, r.headers, ho)
        /\ s[z + 1] = "\r" /\ Len(s) = z + 2

\* One pair of the query.
LEMMA QueryPieceIs ==
    ASSUME NEW s, NEW o \in Nat, NEW q, NEW i, q[i].key \in Text, q[i].value \in Text
    PROVE  /\ QueryPiece(q, i) \in Text
           /\ Len(QueryPiece(q, i)) = Len(q[i].key) + Len(q[i].value) + 2
           /\ Piece(s, o, QueryPiece(q, i)) => PairLaid(s, o, q, i)
  <1> DEFINE c == IF i = 1 THEN "?" ELSE "&"
             k == q[i].key
             v == q[i].value
             t1 == <<c>>
             t2 == t1 \o k
             t3 == t2 \o <<"=">>
             t4 == t3 \o v
  <1>1. QueryPiece(q, i) = t4
    BY DEF QueryPiece
  <1>2. c \in Alphabet /\ "=" \in Alphabet
    BY Characters
  <1> HIDE DEF c
  <1>3. t1 \in Text /\ Len(t1) = 1 /\ <<"=">> \in Text /\ Len(<<"=">>) = 1
    BY <1>2, CharPiece
  <1>4. k \in Text /\ v \in Text /\ Len(k) \in Nat /\ Len(v) \in Nat
    BY DEF Text
  <1>5. t2 \in Text /\ Len(t2) = 1 + Len(k)
    BY <1>3, <1>4, Behind
  <1>6. t3 \in Text /\ Len(t3) = Len(t2) + 1
    BY <1>3, <1>5, Behind
  <1>7. t4 \in Text /\ Len(t4) = Len(t3) + Len(v)
    BY <1>4, <1>6, Behind
  <1>8. ASSUME Piece(s, o, t4)
        PROVE  s[o + 1] = c /\ Piece(s, o + 1, k) /\ s[o + Len(k) + 2] = "=" /\ Piece(s, o + Len(k) + 2, v)
    <2>1. Piece(s, o, t3) /\ Piece(s, o + Len(t3), v)
      BY <1>4, <1>6, <1>8, Going
    <2>2. Piece(s, o, t2) /\ Piece(s, o + Len(t2), <<"=">>)
      BY <1>3, <1>5, <2>1, Going
    <2>3. Piece(s, o, t1) /\ Piece(s, o + Len(t1), k)
      BY <1>3, <1>4, <2>2, Going
    <2> HIDE DEF t1, t2, t3, k, v
    <2>4. o + Len(t1) = o + 1 /\ o + Len(t2) \in Nat /\ (o + Len(t2)) + 1 = o + Len(k) + 2 /\ o + Len(t3) = o + Len(k) + 2
      BY <1>3, <1>4, <1>5, <1>6
    <2>5. s[o + 1] = c
      BY <1>2, <2>3, CharPiece DEF t1
    <2>6. s[(o + Len(t2)) + 1] = "="
      BY <1>2, <2>2, <2>4, CharPiece
    <2> QED
      BY <2>1, <2>3, <2>4, <2>5, <2>6
  <1>9. Len(t4) = Len(k) + Len(v) + 2
    <2> HIDE DEF t1, t2, t3, t4, k, v
    <2> QED
      BY <1>3, <1>4, <1>5, <1>6, <1>7
  <1> HIDE DEF t4
  <1> QED
    BY <1>1, <1>7, <1>8, <1>9 DEF c, PairLaid

\* One header line.
LEMMA HeaderLineIs ==
    ASSUME NEW s, NEW o \in Nat, NEW h, h.key \in Text, h.value \in Text
    PROVE  /\ HeaderLine(h) \in Text
           /\ Len(HeaderLine(h)) = Len(h.key) + Len(h.value) + 4
           /\ Piece(s, o, HeaderLine(h)) => LineLaid(s, o, h)
  <1> DEFINE k == h.key
             v == h.value
             sep == <<":", " ">>
             eol == <<"\r", "\n">>
             t2 == k \o sep
             t3 == t2 \o v
             t4 == t3 \o eol
  <1>1. HeaderLine(h) = t4
    BY DEF HeaderLine
  <1>2. ":" \in Alphabet /\ " " \in Alphabet /\ "\r" \in Alphabet /\ "\n" \in Alphabet
    BY Characters
  <1>3. sep \in Text /\ Len(sep) = 2 /\ eol \in Text /\ Len(eol) = 2
    BY <1>2, TwoPiece
  <1>4. k \in Text /\ v \in Text /\ Len(k) \in Nat /\ Len(v) \in Nat
    BY DEF Text
  <1>5. t2 \in Text /\ Len(t2) = Len(k) + 2
    BY <1>3, <1>4, Behind
  <1>6. t3 \in Text /\ Len(t3) = Len(t2) + Len(v)
    BY <1>4, <1>5, Behind
  <1>7. t4 \in Text /\ Len(t4) = Len(t3) + 2
    BY <1>3, <1>6, Behind
  <1>8. ASSUME Piece(s, o, t4)
        PROVE  /\ Piece(s, o, k) /\ s[o + Len(k) + 1] = ":" /\ s[o + Len(k) + 2] = " "
               /\ Piece(s, o + Len(k) + 2, v) /\ s[o + Len(k) + Len(v) + 3] = "\r"
    <2>1. Piece(s, o, t3) /\ Piece(s, o + Len(t3), eol)
      BY <1>3, <1>6, <1>8, Going
    <2>2. Piece(s, o, t2) /\ Piece(s, o + Len(t2), v)
      BY <1>4, <1>5, <2>1, Going
    <2>3. Piece(s, o, k) /\ Piece(s, o + Len(k), sep)
      BY <1>3, <1>4, <2>2, Going
    <2> HIDE DEF t2, t3, k, v
    <2>4. /\ o + Len(k) \in Nat /\ o + Len(t2) = o + Len(k) + 2
          /\ o + Len(t3) \in Nat /\ (o + Len(t3)) + 1 = o + Len(k) + Len(v) + 3
      BY <1>4, <1>5, <1>6
    <2> DEFINE x == o + Len(k)
               y == o + Len(t3)
    <2>5. x \in Nat /\ y \in Nat /\ Piece(s, x, <<":", " ">>) /\ Piece(s, y, <<"\r", "\n">>)
      BY <2>1, <2>3, <2>4
    <2> HIDE DEF x, y
    <2>6. s[x + 1] = ":" /\ s[x + 2] = " "
      BY <1>2, <2>5, TwoPiece
    <2>7. s[y + 1] = "\r"
      BY <1>2, <2>5, TwoPiece
    <2> QED
      BY <2>2, <2>3, <2>4, <2>6, <2>7 DEF x, y
  <1>9. Len(t4) = Len(k) + Len(v) + 4
    <2> HIDE DEF t2, t3, t4, k, v, sep, eol
    <2> QED
      BY <1>4, <1>5, <1>6, <1>7
  <1> HIDE DEF t4
  <1> QED
    BY <1>1, <1>7, <1>8, <1>9 DEF LineLaid

\* The parts of a well-formed request.
LEMMA WellFormedIs ==
    ASSUME NEW r, WellFormed(r)
    PROVE  /\ r.method.text \in Text /\ Len(r.method.text) \in Nat /\ Len(r.method.text) > 2
           /\ r.path \in Text /\ Len(r.path) \in Nat /\ Len(r.path) > 0
           /\ r.query \in Lists /\ r.headers \in Lists
           /\ Len(r.query) \in Nat /\ Len(r.headers) \in Nat
  <1>1. /\ r.method.text \in Text /\ Len(r.method.text) > 2
        /\ r.path \in Text /\ Len(r.path) > 0
        /\ r.query \in Lists /\ r.headers \in Lists
    BY DEF WellFormed, Lists
  <1>2. \A t \in Text : Len(t) \in Nat
    BY DEF Text
  <1>3. \A l \in Lists : Len(l) \in Nat
    BY ListLen
  <1> QED
    BY <1>1, <1>2, <1>3

\* Texts, put behind each other at position o of a text, start at the positions at.
LaidAt(at, s, o, ps, N, len) ==
    /\ at \in [0..N -> Nat] /\ at[0] = o /\ at[N] = o + len
    /\ \A n \in 1..N : Piece(s, at[n - 1], ps[n]) /\ at[n] = at[n - 1] + Len(ps[n]) /\ at[n] <= at[N]

LEMMA FlatAt ==
    ASSUME NEW s, NEW o \in Nat, NEW ps, NEW N \in Nat, ps = [n \in 1..N |-> ps[n]],
           \A n \in 1..N : ps[n] \in Text, NEW w, w = FlattenSeq(ps), Piece(s, o, w)
    PROVE  \E at : LaidAt(at, s, o, ps, N, Len(w))
  <1>1. /\ w \in Text
        /\ \E off \in [0..N -> Nat] :
             /\ off[0] = 0 /\ Len(w) = off[N]
             /\ \A n \in 1..N : /\ Piece(w, off[n - 1], ps[n])
                                /\ off[n] = off[n - 1] + Len(ps[n]) /\ off[n] <= off[N]
    BY FlattenIs
  <1>2. PICK off \in [0..N -> Nat] :
             /\ off[0] = 0 /\ Len(w) = off[N]
             /\ \A n \in 1..N : /\ Piece(w, off[n - 1], ps[n])
                                /\ off[n] = off[n - 1] + Len(ps[n]) /\ off[n] <= off[N]
    BY <1>1
  <1> DEFINE at == [n \in 0..N |-> o + off[n]]
  <1>3. at \in [0..N -> Nat] /\ (\A n \in 0..N : at[n] = o + off[n]) /\ 0 \in 0..N /\ N \in 0..N
    OBVIOUS
  <1> HIDE DEF at
  <1>4. at[0] = o /\ at[N] = o + Len(w)
    BY <1>2, <1>3
  <1>5. ASSUME NEW n \in 1..N
        PROVE  Piece(s, at[n - 1], ps[n]) /\ at[n] = at[n - 1] + Len(ps[n]) /\ at[n] <= at[N]
    <2>1. n \in 0..N /\ n - 1 \in 0..N
      OBVIOUS
    <2>2. /\ Piece(w, off[n - 1], ps[n]) /\ off[n] = off[n - 1] + Len(ps[n]) /\ off[n] <= Len(w)
          /\ off[n] \in Nat /\ off[n - 1] \in Nat /\ off[N] \in Nat /\ ps[n] \in Text
      BY <1>2, <1>3, <2>1
    <2>3. at[n] = o + off[n] /\ at[n - 1] = o + off[n - 1] /\ at[N] = o + off[N]
      BY <1>3, <2>1
    <2>4. Len(ps[n]) \in Nat
      BY <2>2 DEF Text
    <2>5. at[n] = at[n - 1] + Len(ps[n]) /\ at[n] <= at[N] /\ off[n - 1] + Len(ps[n]) <= Len(w)
      BY <1>2, <2>2, <2>3, <2>4
    <2>6. Piece(s, at[n - 1], ps[n])
      BY <1>1, <2>2, <2>3, <2>5, PieceOf
    <2> QED
      BY <2>5, <2>6
  <1> QED
    BY <1>3, <1>4, <1>5 DEF LaidAt

\* The pairs of the query, put behind each other at position o.
LEMMA QueryLaid ==
    ASSUME NEW s, NEW o \in Nat, NEW q \in Lists
    PROVE  /\ QueryText(q) \in Text
           /\ Piece(s, o, QueryText(q)) =>
                \E at \in [0 .. Len(q) -> Nat] :
                    at[0] = o /\ at[Len(q)] = o + Len(QueryText(q)) /\ LaidQuery(s, q, at)
  <1> DEFINE N == Len(q)
             ps == [i \in 1..N |-> QueryPiece(q, i)]
             w == QueryText(q)
  <1>0. N \in Nat
    BY DEF Lists
  <1>1. \A n \in 1..N : ps[n] = QueryPiece(q, n) /\ q[n].key \in Text /\ q[n].value \in Text
    BY ListPair
  <1>2. \A n \in 1..N : ps[n] \in Text /\ Len(ps[n]) = Len(q[n].key) + Len(q[n].value) + 2
    BY <1>1, QueryPieceIs
  <1>3. ps = [n \in 1..N |-> ps[n]] /\ w = FlattenSeq(ps)
    BY DEF QueryText
  <1> HIDE DEF ps, N, w
  <1>4. w \in Text
    BY <1>0, <1>2, <1>3, FlattenIs
  <1>5. ASSUME Piece(s, o, w)
        PROVE  \E at \in [0..N -> Nat] : at[0] = o /\ at[N] = o + Len(w) /\ LaidQuery(s, q, at)
    <2>1. PICK at : LaidAt(at, s, o, ps, N, Len(w))
      <3>1. \A n \in 1..N : ps[n] \in Text
        BY <1>2
      <3> QED
        BY <1>0, <1>3, <1>5, <3>1, FlatAt
    <2>2. ASSUME NEW n \in 1..N
          PROVE  /\ PairLaid(s, at[n - 1], q, n)
                 /\ at[n] = at[n - 1] + Len(q[n].key) + Len(q[n].value) + 2
                 /\ at[n] <= at[N]
      <3>1. n - 1 \in 0..N /\ at[n - 1] \in Nat
        BY <1>0, <2>1 DEF LaidAt
      <3>2. Piece(s, at[n - 1], QueryPiece(q, n)) /\ at[n] = at[n - 1] + Len(ps[n]) /\ at[n] <= at[N]
        BY <1>1, <2>1 DEF LaidAt
      <3>3. Len(ps[n]) = Len(q[n].key) + Len(q[n].value) + 2 /\ q[n].key \in Text /\ q[n].value \in Text
        BY <1>1, <1>2
      <3>4. Len(q[n].key) \in Nat /\ Len(q[n].value) \in Nat
        BY <3>3 DEF Text
      <3> DEFINE a == at[n - 1]
                 k == Len(q[n].key)
                 v == Len(q[n].value)
                 l == Len(ps[n])
      <3>5. at[n] = a + l /\ l = k + v + 2 /\ a \in Nat /\ k \in Nat /\ v \in Nat
        BY <3>1, <3>2, <3>3, <3>4
      <3>6. at[n] = a + k + v + 2
        <4> HIDE DEF a, k, v, l
        <4> QED
          BY <3>5
      <3> QED
        BY <3>1, <3>2, <3>3, <3>6, QueryPieceIs
    <2>3. LaidQuery(s, q, at)
      BY <2>2 DEF LaidQuery, N
    <2> QED
      BY <2>1, <2>3 DEF LaidAt
  <1> QED
    BY <1>4, <1>5 DEF N, w

\* The header lines, put behind each other at position o.
LEMMA HeadersLaid ==
    ASSUME NEW s, NEW o \in Nat, NEW q \in Lists
    PROVE  /\ HeaderText(q) \in Text
           /\ Piece(s, o, HeaderText(q)) =>
                \E at \in [0 .. Len(q) -> Nat] :
                    at[0] = o /\ at[Len(q)] = o + Len(HeaderText(q)) /\ LaidHeaders(s, q, at)
  <1> DEFINE N == Len(q)
             ps == [i \in 1..N |-> HeaderLine(q[i])]
             w == HeaderText(q)
  <1>0. N \in Nat
    BY DEF Lists
  <1>1. \A n \in 1..N : ps[n] = HeaderLine(q[n]) /\ q[n].key \in Text /\ q[n].value \in Text
    BY ListPair
  <1>2. \A n \in 1..N : ps[n] \in Text /\ Len(ps[n]) = Len(q[n].key) + Len(q[n].value) + 4
    BY <1>1, HeaderLineIs
  <1>3. ps = [n \in 1..N |-> ps[n]] /\ w = FlattenSeq(ps)
    BY DEF HeaderText
  <1> HIDE DEF ps, N, w
  <1>4. w \in Text
    BY <1>0, <1>2, <1>3, FlattenIs
  <1>5. ASSUME Piece(s, o, w)
        PROVE  \E at \in [0..N -> Nat] : at[0] = o /\ at[N] = o + Len(w) /\ LaidHeaders(s, q, at)
    <2>1. PICK at : LaidAt(at, s, o, ps, N, Len(w))
      <3>1. \A n \in 1..N : ps[n] \in Text
        BY <1>2
      <3> QED
        BY <1>0, <1>3, <1>5, <3>1, FlatAt
    <2>2. ASSUME NEW n \in 1..N
          PROVE  /\ LineLaid(s, at[n - 1], q[n])
                 /\ at[n] = at[n - 1] + Len(q[n].key) + Len(q[n].value) + 4
                 /\ at[n] <= at[N]
      <3>1. n - 1 \in 0..N /\ at[n - 1] \in Nat
        BY <1>0, <2>1 DEF LaidAt
      <3>2. Piece(s, at[n - 1], HeaderLine(q[n])) /\ at[n] = at[n - 1] + Len(ps[n]) /\ at[n] <= at[N]
        BY <1>1, <2>1 DEF LaidAt
      <3>3. Len(ps[n]) = Len(q[n].key) + Len(q[n].value) + 4 /\ q[n].key \in Text /\ q[n].value \in Text
        BY <1>1, <1>2
      <3>4. Len(q[n].key) \in Nat /\ Len(q[n].value) \in Nat
        BY <3>3 DEF Text
      <3> DEFINE a == at[n - 1]
                 k == Len(q[n].key)
                 v == Len(q[n].value)
                 l == Len(ps[n])
      <3>5. at[n] = a + l /\ l = k + v + 4 /\ a \in Nat /\ k \in Nat /\ v \in Nat
        BY <3>1, <3>2, <3>3, <3>4
      <3>6. at[n] = a + k + v + 4
        <4> HIDE DEF a, k, v, l
        <4> QED
          BY <3>5
      <3> QED
        BY <3>1, <3>2, <3>3, <3>6, HeaderLineIs
    <2>3. LaidHeaders(s, q, at)
      BY <2>2 DEF LaidHeaders, N
    <2> QED
      BY <2>1, <2>3 DEF LaidAt
  <1> QED
    BY <1>4, <1>5 DEF N, w

\* A text that starts with two others.
LEMMA Starts ==
    ASSUME NEW s, NEW t \in Text, NEW u \in Text
    PROVE  /\ t \o u \in Text /\ Len(t \o u) = Len(t) + Len(u)
           /\ Piece(s, 0, t \o u) => Piece(s, 0, t) /\ Piece(s, Len(t), u)
  <1>1. 0 + Len(t) = Len(t) /\ 0 \in Nat
    BY DEF Text
  <1>2. ASSUME Piece(s, 0, t \o u) PROVE Piece(s, 0, t) /\ Piece(s, 0 + Len(t), u)
    BY <1>1, <1>2, Going
  <1> QED
    BY <1>1, <1>2, Behind

\* The text of a well-formed request is laid out so.
LEMMA FormatIs ==
    ASSUME NEW r, WellFormed(r)
    PROVE  \E qo, ho : Laid(Format(r), r, qo, ho)
  <1> DEFINE s == Format(r)
             mt == r.method.text
             sp == <<" ">>
             Q == QueryText(r.query)
             H == HeaderText(r.headers)
             crlf == <<"\r", "\n">>
             t1 == mt \o sp
             t2 == t1 \o r.path
             t3 == t2 \o Q
             t4 == t3 \o ProtocolLine
             t5 == t4 \o H
  <1>1. /\ mt \in Text /\ Len(mt) \in Nat /\ r.path \in Text /\ Len(r.path) \in Nat
        /\ r.query \in Lists /\ r.headers \in Lists /\ Len(r.query) \in Nat /\ Len(r.headers) \in Nat
    BY WellFormedIs
  <1>2. s = t5 \o crlf
    BY DEF Format
  <1>3. /\ sp \in Text /\ Len(sp) = 1 /\ crlf \in Text /\ Len(crlf) = 2
        /\ ProtocolLine \in Text /\ Len(ProtocolLine) = 11
        /\ \A o \in Nat : /\ Piece(s, o, sp) => s[o + 1] = " "
                          /\ Piece(s, o, crlf) => s[o + 1] = "\r"
    <2> HIDE DEF s
    <2>1. " " \in Alphabet /\ "\r" \in Alphabet /\ "\n" \in Alphabet /\ 0 \in Nat
      BY Characters
    <2>2. sp \in Text /\ Len(sp) = 1 /\ \A o \in Nat : Piece(s, o, sp) => s[o + 1] = " "
      BY ONLY <2>1, CharPiece DEF sp
    <2>3. crlf \in Text /\ Len(crlf) = 2 /\ \A o \in Nat : Piece(s, o, crlf) => s[o + 1] = "\r"
      <3>1. PICK c, d : c = "\r" /\ d = "\n"
        OBVIOUS
      <3>2. crlf = <<c, d>> /\ c \in Alphabet /\ d \in Alphabet
        BY ONLY <2>1, <3>1 DEF crlf
      <3> HIDE DEF crlf
      <3>3. \A o \in Nat : TwoAt(s, o, crlf, c)
        BY ONLY <3>2, TwoPieceOf
      <3>4. 0 \in Nat
        OBVIOUS
      <3>5. \A o \in Nat : crlf \in Text /\ Len(crlf) = 2 /\ (Piece(s, o, crlf) => s[o + 1] = c)
        BY ONLY <3>3 DEF TwoAt
      <3>6. crlf \in Text /\ Len(crlf) = 2
        BY ONLY <3>4, <3>5
      <3>7. \A o \in Nat : Piece(s, o, crlf) => s[o + 1] = "\r"
        BY ONLY <3>1, <3>5
      <3> QED
        BY ONLY <3>6, <3>7
    <2> QED
      BY ONLY <2>2, <2>3, Characters
  <1>4. Q \in Text /\ H \in Text /\ \A t \in Text : Len(t) \in Nat
    <2> DEFINE o == 0
    <2>1. o \in Nat
      OBVIOUS
    <2> HIDE DEF o, s
    <2>2. Q \in Text
      BY <1>1, <2>1, QueryLaid
    <2>3. H \in Text
      BY <1>1, <2>1, HeadersLaid
    <2> QED
      BY <2>2, <2>3 DEF Text
  <1> HIDE DEF s, mt, sp, Q, H, crlf, t1, t2, t3, t4, t5
  <1>5. t1 \in Text /\ Len(t1) = Len(mt) + 1
    BY <1>1, <1>3, Behind DEF t1
  <1>6. t2 \in Text /\ Len(t2) = Len(t1) + Len(r.path)
    BY <1>1, <1>5, Starts DEF t2
  <1>7. t3 \in Text /\ Len(t3) = Len(t2) + Len(Q)
    BY <1>4, <1>6, Starts DEF t3
  <1>8. t4 \in Text /\ Len(t4) = Len(t3) + 11
    BY <1>3, <1>7, Behind DEF t4
  <1>9. t5 \in Text /\ Len(t5) = Len(t4) + Len(H)
    BY <1>4, <1>8, Starts DEF t5
  <1>10. s \in Text /\ Len(s) = Len(t5) + 2 /\ Piece(s, 0, t5) /\ Piece(s, Len(t5), crlf)
    BY <1>2, <1>3, <1>9, Behind
  <1>11. Piece(s, 0, t4) /\ Piece(s, Len(t4), H)
    BY <1>4, <1>8, <1>10, Starts DEF t5
  <1>12. Piece(s, 0, t3) /\ Piece(s, Len(t3), ProtocolLine)
    BY <1>3, <1>7, <1>11, Starts DEF t4
  <1>13. Piece(s, 0, t2) /\ Piece(s, Len(t2), Q)
    BY <1>4, <1>6, <1>12, Starts DEF t3
  <1>14. Piece(s, 0, t1) /\ Piece(s, Len(t1), r.path)
    BY <1>1, <1>5, <1>13, Starts DEF t2
  <1>15. Piece(s, 0, mt) /\ Piece(s, Len(mt), sp)
    BY <1>1, <1>3, <1>14, Starts DEF t1
  <1>16. Len(t2) \in Nat /\ Len(t3) \in Nat /\ Len(t4) \in Nat /\ Len(t5) \in Nat /\ Len(Q) \in Nat /\ Len(H) \in Nat
    BY <1>4, <1>6, <1>7, <1>8, <1>9
  <1>17. s[Len(mt) + 1] = " " /\ s[Len(t5) + 1] = "\r"
    BY <1>1, <1>3, <1>10, <1>15, <1>16
  <1>18. PICK qo \in [0 .. Len(r.query) -> Nat] :
            qo[0] = Len(t2) /\ qo[Len(r.query)] = Len(t2) + Len(Q) /\ LaidQuery(s, r.query, qo)
    BY <1>1, <1>13, <1>16, QueryLaid DEF Q
  <1>19. PICK ho \in [0 .. Len(r.headers) -> Nat] :
            ho[0] = Len(t4) /\ ho[Len(r.headers)] = Len(t4) + Len(H) /\ LaidHeaders(s, r.headers, ho)
    BY <1>1, <1>11, <1>16, HeadersLaid DEF H
  <1>20. /\ qo[0] = Len(mt) + 1 + Len(r.path) /\ qo[Len(r.query)] = Len(t3)
         /\ ho[0] = qo[Len(r.query)] + 11 /\ ho[Len(r.headers)] = Len(t5)
    BY <1>5, <1>6, <1>7, <1>8, <1>9, <1>18, <1>19
  <1>21. Laid(s, r, qo, ho)
    BY <1>5, <1>10, <1>12, <1>14, <1>15, <1>17, <1>18, <1>19, <1>20 DEF Laid, mt
  <1> QED
    BY <1>21 DEF s

-----------------------------------------------------------------------------
(* What has arrived of a text.                                             *)

\* The buffer holds the first len characters of the text, and zeroes.
Holds(b, s, len) ==
    /\ b \in Buffers(Alphabet) /\ len \in Ptr /\ Len(s) \in Nat /\ len <= Len(s)
    /\ \A i \in 0 .. len - 1 : b[i] = s[i + 1]
    /\ \A i \in len .. Cap - 1 : b[i] = NUL

LEMMA HoldsIs ==
    ASSUME NEW b, NEW s, NEW len, Holds(b, s, len)
    PROVE  len \in Nat /\ len <= Cap - 1 /\ Cap \in Nat /\ b \in Buffers(Alphabet)
  BY CapAssumption DEF Holds, Ptr

\* A character that has arrived.
LEMMA CharArrived ==
    ASSUME NEW b, NEW s, NEW len, Holds(b, s, len), NEW i \in Nat, i < len, NEW j, j = i + 1
    PROVE  b[i] = s[j]
  <1>1. len \in Nat
    BY CapAssumption DEF Holds, Ptr
  <1>2. i \in 0 .. len - 1
    BY <1>1
  <1> QED
    BY <1>2 DEF Holds

\* What lies within the first len characters has arrived.
LEMMA Arrived ==
    ASSUME NEW b, NEW s, NEW len, Holds(b, s, len), NEW o \in Nat, NEW t \in Text, Piece(s, o, t),
           o + Len(t) <= len
    PROVE  TextAt(b, o, t)
  <1> SUFFICES ASSUME NEW j \in 1 .. Len(t) PROVE b[o + j - 1] = t[j]
    BY DEF TextAt
  <1>1. len \in Nat /\ Len(t) \in Nat
    BY CapAssumption DEF Holds, Ptr, Text
  <1>2. o + j - 1 \in 0 .. len - 1 /\ (o + j - 1) + 1 = o + j
    BY <1>1
  <1> QED
    BY <1>2 DEF Holds, Piece

\* What has arrived of a text without c is without c.
LEMMA ArrivedFree ==
    ASSUME NEW b, NEW s, NEW len, Holds(b, s, len), NEW o \in Nat, NEW t \in Text, Piece(s, o, t),
           NEW S, FreeOf(t, S), NEW c \in S,
           NEW i \in o .. o + Len(t) - 1, i < len
    PROVE  b[i] # c
  <1>1. len \in Nat /\ Len(t) \in Nat
    BY CapAssumption DEF Holds, Ptr, Text
  <1> DEFINE j == i - o + 1
  <1>2. j \in 1 .. Len(t) /\ o + j = i + 1 /\ i \in Nat
    BY <1>1
  <1> HIDE DEF j
  <1>3. b[i] = s[o + j]
    BY <1>2, CharArrived
  <1> QED
    BY <1>2, <1>3 DEF Piece, FreeOf

-----------------------------------------------------------------------------
(* The query, when all of it has arrived.                                  *)

\* A pair of the query in the buffer, from its '?' or '&' at o.
PairAt(b, o, q, n) ==
    /\ b[o] = IF n = 1 THEN "?" ELSE "&"
    /\ TextAt(b, o + 1, q[n].key)
    /\ b[o + Len(q[n].key) + 1] = "="
    /\ TextAt(b, o + Len(q[n].key) + 2, q[n].value)

\* The separators do not occur in what they end.
QueryFree(q) == \A n \in 1 .. Len(q) : FreeOf(q[n].key, {"=", " "}) /\ FreeOf(q[n].value, {"&", " "})

\* The query in the buffer, up to the space that ends it.
QueryHere(b, q, qo) ==
    /\ b \in Buffers(Alphabet) /\ q \in Lists /\ QueryFree(q)
    /\ qo \in [0 .. Len(q) -> Nat] /\ qo[Len(q)] <= Cap - 2 /\ b[qo[Len(q)]] = " "
    /\ \A n \in 1 .. Len(q) :
          /\ PairAt(b, qo[n - 1], q, n)
          /\ qo[n] = qo[n - 1] + Len(q[n].key) + Len(q[n].value) + 2
          /\ qo[n] <= qo[Len(q)]

LEMMA QueryArrived ==
    ASSUME NEW b, NEW s, NEW len, Holds(b, s, len), NEW q \in Lists, QueryFree(q),
           NEW qo \in [0 .. Len(q) -> Nat], LaidQuery(s, q, qo),
           NEW E, E = qo[Len(q)], E < len, Piece(s, E, ProtocolLine)
    PROVE  QueryHere(b, q, qo)
  <1>1. Cap \in Nat /\ len \in Nat /\ len <= Cap - 1 /\ b \in Buffers(Alphabet)
    BY HoldsIs
  <1>2. Len(q) \in Nat /\ E \in Nat
    BY ListLen
  <1>3. E <= Cap - 2 /\ b[E] = " "
    <2>1. E <= Cap - 2
      BY <1>1, <1>2
    <2>2. b[E] = s[E + 1]
      BY <1>2, CharArrived
    <2>3. Len(ProtocolLine) = 11
      BY Characters
    <2>4. s[E + 1] = ProtocolLine[1]
      <3>1. 1 \in 1..11
        OBVIOUS
      <3> QED
        BY <2>3, <3>1 DEF Piece
    <2>5. ProtocolLine[1] = " "
      BY ProtocolLineIs
    <2> QED
      BY <2>1, <2>2, <2>4, <2>5
  <1>4. ASSUME NEW n \in 1 .. Len(q)
        PROVE  /\ PairAt(b, qo[n - 1], q, n)
               /\ qo[n] = qo[n - 1] + Len(q[n].key) + Len(q[n].value) + 2
               /\ qo[n] <= qo[Len(q)]
    <2> DEFINE o == qo[n - 1]
               k == Len(q[n].key)
               v == Len(q[n].value)
    <2>1. PairLaid(s, o, q, n) /\ qo[n] = o + k + v + 2 /\ qo[n] <= E
      BY DEF LaidQuery
    <2>2. q[n].key \in Text /\ q[n].value \in Text /\ k \in Nat /\ v \in Nat
      BY ListPair
    <2>3. o \in Nat
      <3>1. n - 1 \in 0 .. Len(q)
        BY <1>2
      <3> QED
        BY <3>1
    <2>4. Piece(s, o + 1, q[n].key) /\ Piece(s, o + k + 2, q[n].value)
          /\ s[o + 1] = (IF n = 1 THEN "?" ELSE "&") /\ s[o + k + 2] = "="
      BY <2>1 DEF PairLaid
    <2>5. TextAt(b, o + 1, q[n].key)
      <3>1. o + 1 \in Nat /\ (o + 1) + k <= len
        <4> HIDE DEF o, k, v
        <4> QED
          BY <1>1, <1>2, <2>1, <2>2, <2>3
      <3> QED
        BY <2>2, <2>4, <3>1, Arrived
    <2>6. TextAt(b, o + k + 2, q[n].value)
      <3>1. o + k + 2 \in Nat /\ (o + k + 2) + v <= len
        <4> HIDE DEF o, k, v
        <4> QED
          BY <1>1, <1>2, <2>1, <2>2, <2>3
      <3> QED
        BY <2>2, <2>4, <3>1, Arrived
    <2> HIDE DEF o, k, v
    <2>7. /\ o < len /\ o + k + 1 < len /\ o + k + 1 \in Nat /\ o + k + 2 = (o + k + 1) + 1
      BY <1>1, <1>2, <2>1, <2>2, <2>3
    <2>8. b[o] = s[o + 1] /\ b[o + k + 1] = s[o + k + 2]
      BY <2>3, <2>7, CharArrived
    <2> QED
      BY <2>1, <2>4, <2>5, <2>6, <2>8 DEF PairAt, o, k, v
  <1> QED
    BY <1>1, <1>2, <1>3, <1>4 DEF QueryHere

\* A text lies in another buffer as well, where the two agree.
LEMMA TextSame ==
    ASSUME NEW b, NEW c, NEW p \in Nat, NEW t \in Text, TextAt(b, p, t),
           \A i \in p .. p + Len(t) - 1 : c[i] = b[i]
    PROVE  TextAt(c, p, t)
  <1> SUFFICES ASSUME NEW j \in 1 .. Len(t) PROVE c[p + j - 1] = t[j]
    BY DEF TextAt
  <1>1. Len(t) \in Nat
    BY DEF Text
  <1>2. p + j - 1 \in p .. p + Len(t) - 1
    BY <1>1
  <1> QED
    BY <1>2 DEF TextAt

\* One round of the loop that finds both ends of a pair, or the first.
LEMMA QueryRoundTakes ==
    ASSUME NEW C, NEW s \in States(C), NEW eop \in 0 .. Cap - 2, s.p < eop,
           NEW d \in Nat, d = strchr(s.buf, s.p, "="), d < eop,
           NEW e, e = strchr(s.buf, d + 1, "&")
    PROVE  /\ BeforeEnd(e, eop) => QueryRound(s, eop) =
                [buf |-> [[s.buf EXCEPT ![d] = NUL] EXCEPT ![e] = NUL],
                 req |-> [s.req EXCEPT !.query = kv_set_key_value(@, s.p, d + 1)], p |-> e + 1]
           /\ ~BeforeEnd(e, eop) => QueryRound(s, eop) =
                [buf |-> [s.buf EXCEPT ![d] = NUL],
                 req |-> [s.req EXCEPT !.query = kv_set_key_value(@, s.p, d + 1)], p |-> eop]
  <1> DEFINE b == [s.buf EXCEPT ![d] = NUL]
             r == [s.req EXCEPT !.query = kv_set_key_value(@, s.p, d + 1)]
             t == [s EXCEPT !.buf[d] = NUL, !.req.query = kv_set_key_value(@, s.p, d + 1)]
  <1>1. /\ s = [buf |-> s.buf, req |-> s.req, p |-> s.p] /\ Cap \in Nat /\ s.p \in 0 .. Cap
        /\ ~(s.p >= eop) /\ BeforeEnd(d, eop)
    <2>1. s.p \in 0 .. Cap /\ s = [buf |-> s.buf, req |-> s.req, p |-> s.p] /\ Cap \in Nat
      BY StateFields, CapAssumption DEF States
    <2>2. ~(s.p >= eop) /\ d # NULL
      BY <2>1 DEF NULL
    <2> QED
      BY <2>1, <2>2 DEF BeforeEnd
  <1>2. t = [buf |-> b, req |-> r, p |-> s.p]
    <2> DEFINE u == [s EXCEPT !.buf[d] = NUL]
    <2>1. u = [buf |-> b, req |-> s.req, p |-> s.p]
      BY <1>1
    <2>2. t = [u EXCEPT !.req.query = kv_set_key_value(@, s.p, d + 1)]
      OBVIOUS
    <2> HIDE DEF b, u, t
    <2> QED
      BY <2>1, <2>2
  <1>3. QueryRound(s, eop) = IF ~BeforeEnd(e, eop) THEN [t EXCEPT !.p = eop]
                             ELSE [t EXCEPT !.buf[e] = NUL, !.p = e + 1]
    BY <1>1 DEF QueryRound
  <1> HIDE DEF t, b, r
  <1>4. ASSUME ~BeforeEnd(e, eop) PROVE QueryRound(s, eop) = [buf |-> b, req |-> r, p |-> eop]
    BY <1>2, <1>3, <1>4
  <1>5. ASSUME BeforeEnd(e, eop)
        PROVE  QueryRound(s, eop) = [buf |-> [b EXCEPT ![e] = NUL], req |-> r, p |-> e + 1]
    BY <1>2, <1>3, <1>5
  <1> QED
    BY <1>4, <1>5 DEF b, r

\* Where the keys and the values of the query start.
QKeys(q, qo) == [i \in 1 .. Len(q) |-> qo[i - 1] + 1]
QVals(q, qo) == [i \in 1 .. Len(q) |-> qo[i - 1] + Len(q[i].key) + 2]

\* The buffer with the string before a ended.
Ended(b, a) == [b EXCEPT ![a] = NUL]

\* The loop has taken n pairs: they are stored and kept, the path before them
\* is untouched and ends where they start, and what follows is as received.
QueryAt(x, b, q, qo, rq, n) ==
    /\ x.req = [rq EXCEPT !.query = x.req.query]
    /\ Kept(x.req.query, n, QKeys(q, qo), QVals(q, qo))
    /\ Stored(Ended(x.buf, qo[n]), n, QKeys(q, qo), QVals(q, qo), q, qo[n] + 1)
    /\ (\A i \in 0 .. qo[0] - 1 : x.buf[i] = b[i]) /\ x.buf[qo[0]] = NUL
    /\ \A i \in qo[n] + 1 .. Cap - 1 : x.buf[i] = b[i]
    /\ n < Len(q) => x.p = qo[n] + 1 /\ x.buf[qo[n]] = NUL
    /\ n = Len(q) => x.p = qo[n]

\* Pair m, the one after n: it starts behind a and ends before e, and the query
\* before E.
PairNames(q, qo, n, m, a, e, E, k, v) ==
    /\ m = n + 1 /\ a = qo[n] /\ e = qo[m] /\ E = qo[Len(q)]
    /\ k = Len(q[m].key) /\ v = Len(q[m].value)

PairThere(b, q, qo, m, a, e, k) ==
    /\ PairAt(b, a, q, m) /\ b[e] = IF m < Len(q) THEN "&" ELSE " "
    /\ QKeys(q, qo)[m] = a + 1 /\ QVals(q, qo)[m] = a + k + 2

\* Its positions, and what lies there.
LEMMA PairPositions ==
    ASSUME NEW b, NEW q, NEW qo, QueryHere(b, q, qo), NEW n \in Nat, n < Len(q), NEW m,
           NEW a, NEW e, NEW E, NEW k, NEW v, PairNames(q, qo, n, m, a, e, E, k, v)
    PROVE  /\ /\ a \in Nat /\ k \in Nat /\ v \in Nat /\ e = a + k + v + 2 /\ e <= E /\ E <= Cap - 2 /\ Cap \in Nat
              /\ E \in Nat /\ qo[0] \in Nat /\ qo[0] <= a /\ Len(q) \in Nat
           /\ /\ q[m].key \in Text /\ q[m].value \in Text
              /\ FreeOf(q[m].key, {"=", " "}) /\ FreeOf(q[m].value, {"&", " "})
           /\ PairThere(b, q, qo, m, a, e, k)
  <1>0. /\ m = n + 1 /\ a = qo[n] /\ e = qo[m] /\ E = qo[Len(q)]
        /\ k = Len(q[m].key) /\ v = Len(q[m].value)
    BY DEF PairNames
  <1>1. /\ q \in Lists /\ QueryFree(q) /\ qo \in [0 .. Len(q) -> Nat] /\ E <= Cap - 2 /\ Cap \in Nat /\ b[E] = " "
        /\ \A j \in 1 .. Len(q) :
              /\ PairAt(b, qo[j - 1], q, j)
              /\ qo[j] = qo[j - 1] + Len(q[j].key) + Len(q[j].value) + 2
              /\ qo[j] <= E
    BY <1>0, CapAssumption DEF QueryHere
  <1>2. Len(q) \in Nat
    BY <1>1, ListLen
  <1>3. n \in 0 .. Len(q) /\ m \in 1 .. Len(q) /\ m - 1 = n /\ m \in Nat /\ 0 \in 0 .. Len(q) /\ Len(q) \in 0 .. Len(q)
    BY <1>0, <1>2
  <1>4. a \in Nat /\ E \in Nat /\ qo[0] \in Nat
    BY <1>0, <1>1, <1>3
  <1>5. PairAt(b, a, q, m) /\ e = a + k + v + 2 /\ e <= E
    BY <1>0, <1>1, <1>3
  <1>6. q[m].key \in Text /\ q[m].value \in Text /\ k \in Nat /\ v \in Nat
    BY <1>0, <1>1, <1>3, ListPair
  <1>7. FreeOf(q[m].key, {"=", " "}) /\ FreeOf(q[m].value, {"&", " "})
    BY <1>1, <1>3 DEF QueryFree
  <1>8. QKeys(q, qo)[m] = a + 1 /\ QVals(q, qo)[m] = a + k + 2
    BY <1>0, <1>3 DEF QKeys, QVals
  <1>9. b[e] = IF m < Len(q) THEN "&" ELSE " "
    <2>1. CASE m < Len(q)
      <3>1. m + 1 \in 1 .. Len(q) /\ (m + 1) - 1 = m /\ m + 1 # 1
        BY <1>2, <1>3, <2>1
      <3>2. PairAt(b, e, q, m + 1)
        BY <1>0, <1>1, <3>1
      <3> QED
        BY <2>1, <3>1, <3>2 DEF PairAt
    <2>2. CASE ~(m < Len(q))
      <3>1. m = Len(q)
        BY <1>2, <1>3, <2>2
      <3> QED
        BY <1>0, <1>1, <2>2, <3>1
    <2> QED
      BY <2>1, <2>2
  <1>10. qo[0] <= a
    <2>1. ASSUME NEW j \in 1 .. Len(q) PROVE qo[j - 1] <= qo[j]
      <3> DEFINE x == qo[j - 1]
                 l == Len(q[j].key)
                 w == Len(q[j].value)
      <3>1. qo[j] = x + l + w + 2
        BY <1>1
      <3>2. l \in Nat /\ w \in Nat
        BY <1>1, ListPair
      <3>3. x \in Nat
        <4>1. j - 1 \in 0 .. Len(q)
          BY <1>2
        <4> QED
          BY <1>1, <4>1
      <3> HIDE DEF x, l, w
      <3>4. x <= qo[j]
        BY <3>1, <3>2, <3>3
      <3> QED
        BY <3>4 DEF x
    <2> QED
      BY <1>0, <1>1, <1>2, <1>3, <2>1, Rising
  <1> QED
    <2>1. PairThere(b, q, qo, m, a, e, k)
      BY ONLY <1>5, <1>8, <1>9 DEF PairThere
    <2> QED
      BY ONLY <1>1, <1>2, <1>4, <1>5, <1>6, <1>7, <1>10, <2>1

\* Two texts that lie in the buffer become strings when NUL is written behind
\* each.
LEMMA TwoStrings ==
    ASSUME NEW b, NEW y, NEW K \in Text, NEW V \in Text,
           NEW p \in Nat, NEW d \in Nat, NEW c \in Nat, NEW e \in Nat,
           d = p + Len(K), d < c, e = c + Len(V), TextAt(b, p, K), TextAt(b, c, V),
           \A i \in p .. e - 1 : i # d => y[i] = b[i], y[d] = NUL, y[e] = NUL
    PROVE  StringAt(y, p, K, e + 1) /\ StringAt(y, c, V, e + 1)
  <1>1. Len(K) \in Nat /\ Len(V) \in Nat
    BY DEF Text
  <1>2. /\ \A i \in p .. p + Len(K) - 1 : i \in p .. e - 1 /\ i # d
        /\ \A i \in c .. c + Len(V) - 1 : i \in p .. e - 1 /\ i # d
        /\ p + Len(K) < e + 1 /\ c + Len(V) < e + 1
    BY <1>1
  <1>3. TextAt(y, p, K)
    <2>1. \A i \in p .. p + Len(K) - 1 : y[i] = b[i]
      BY <1>2
    <2> QED
      BY <2>1, TextSame
  <1>4. TextAt(y, c, V)
    <2>1. \A i \in c .. c + Len(V) - 1 : y[i] = b[i]
      BY <1>2
    <2> QED
      BY <2>1, TextSame
  <1> QED
    BY <1>2, <1>3, <1>4 DEF StringAt

\* The key K at p and the value V at c became strings, with NULs at d and e, and
\* nothing before them changed.
Cut(y, w, b, p, d, c, e, K, V) ==
    /\ p \in Nat /\ d \in Nat /\ c \in Nat /\ e \in Nat /\ K \in Text /\ V \in Text
    /\ d = p + Len(K) /\ d < c /\ e = c + Len(V)
    /\ TextAt(b, p, K) /\ TextAt(b, c, V) /\ y[d] = NUL /\ y[e] = NUL
    /\ \A i \in 0 .. p - 1 : y[i] = w[i]
    /\ \A i \in p .. e - 1 : i # d => y[i] = b[i]

\* Pair m, the one after n, has its key K at p and its value V at c.
Follows(list, ks, vs, n, m, p, c, K, V) ==
    /\ n \in Nat /\ m \in Nat /\ m = n + 1 /\ m <= Len(list)
    /\ K = list[m].key /\ V = list[m].value /\ p = ks[m] /\ c = vs[m]

\* One pair more is stored, behind those that were.
LEMMA StoredNext ==
    ASSUME NEW b, NEW w, NEW y, NEW list \in Lists, NEW n, NEW m, NEW ks, NEW vs,
           NEW p, NEW d, NEW c, NEW e, NEW K, NEW V, Cut(y, w, b, p, d, c, e, K, V),
           Follows(list, ks, vs, n, m, p, c, K, V),
           Stored(w, n, ks, vs, list, p)
    PROVE  Stored(y, m, ks, vs, list, e + 1)
  <1>0. /\ p \in Nat /\ d \in Nat /\ c \in Nat /\ e \in Nat /\ K \in Text /\ V \in Text
        /\ d = p + Len(K) /\ d < c /\ e = c + Len(V)
        /\ TextAt(b, p, K) /\ TextAt(b, c, V) /\ y[d] = NUL /\ y[e] = NUL
        /\ \A i \in 0 .. p - 1 : y[i] = w[i]
        /\ \A i \in p .. e - 1 : i # d => y[i] = b[i]
    BY DEF Cut
  <1> SUFFICES ASSUME n \in Nat, m \in Nat, m = n + 1, m <= Len(list),
                      K = list[m].key, V = list[m].value, p = ks[m], c = vs[m]
               PROVE  Stored(y, m, ks, vs, list, e + 1)
    BY DEF Follows
  <1>1. Len(list) \in Nat
    BY ListLen
  <1>2. n \in 0 .. Len(list)
    BY <1>1
  <1>3. Len(K) \in Nat /\ Len(V) \in Nat
    BY <1>0 DEF Text
  <1> DEFINE l == e + 1
  <1>4. p <= l /\ l \in Nat
    <2>1. p \in Nat /\ c \in Nat /\ d \in Nat /\ e \in Nat /\ d = p + Len(K) /\ d < c /\ e = c + Len(V)
      BY ONLY <1>0
    <2> QED
      BY ONLY <1>3, <2>1
  <1>5. StringAt(y, p, K, l) /\ StringAt(y, c, V, l)
    BY ONLY <1>0, TwoStrings
  <1> HIDE DEF l
  <1>6. Stored(y, n, ks, vs, list, l)
    BY <1>0, <1>2, <1>4, StoredKept
  <1>7. ASSUME NEW i \in 1 .. m
        PROVE  StringAt(y, ks[i], list[i].key, l) /\ StringAt(y, vs[i], list[i].value, l)
    <2>1. CASE i = m
      BY <1>5, <2>1
    <2>2. CASE i # m
      <3>1. i \in 1 .. n
        BY <2>2
      <3> QED
        BY <1>6, <3>1 DEF Stored
    <2> QED
      BY <2>1, <2>2
  <1> QED
    BY <1>7 DEF Stored, l

\* The key K lies at p, then '=' at d, the value V at c and, at e, '&' or the end E
\* of the path.
PairComes(b, E, p, d, c, e, K, V) ==
    /\ E \in 0 .. Cap - 2 /\ p \in Nat /\ d \in Nat /\ c \in Nat /\ e \in Nat /\ K \in Text /\ V \in Text
    /\ d = p + Len(K) /\ c = d + 1 /\ e = c + Len(V) /\ e <= E
    /\ TextAt(b, p, K) /\ b[d] = "=" /\ TextAt(b, c, V) /\ (e < E => b[e] = "&")
    /\ FreeOf(K, {"=", " "}) /\ FreeOf(V, {"&", " "})

\* The step from x to y that the loop takes over it.
Takes(x, y, E, p, d, c, e) ==
    y = [buf |-> IF e < E THEN Ended(Ended(x.buf, d), e) ELSE Ended(x.buf, d),
         req |-> [x.req EXCEPT !.query = kv_set_key_value(@, p, c)],
         p |-> IF e < E THEN e + 1 ELSE E]

LEMMA RoundTakesPair ==
    ASSUME NEW x \in States(Alphabet), NEW E, NEW K, NEW V, NEW p, NEW d, NEW c, NEW e,
           x.p = p, PairComes(x.buf, E, p, d, c, e, K, V)
    PROVE  Takes(x, QueryRound(x, E), E, p, d, c, e)
  <1> SUFFICES ASSUME
           E \in 0 .. Cap - 2, p \in Nat, d \in Nat, c \in Nat, e \in Nat, K \in Text, V \in Text,
           d = p + Len(K), c = d + 1, e = c + Len(V), e <= E,
           TextAt(x.buf, p, K), x.buf[d] = "=", TextAt(x.buf, c, V), e < E => x.buf[e] = "&",
           FreeOf(K, {"=", " "}), FreeOf(V, {"&", " "})
      PROVE  QueryRound(x, E) =
              [buf |-> IF e < E THEN Ended(Ended(x.buf, d), e) ELSE Ended(x.buf, d),
               req |-> [x.req EXCEPT !.query = kv_set_key_value(@, p, c)],
               p |-> IF e < E THEN e + 1 ELSE E]
    BY DEF PairComes, Takes
  <1> DEFINE xb == x.buf
             f == strchr(xb, c, "&")
  <1>0. /\ Cap \in Nat /\ E \in Nat /\ Len(K) \in Nat /\ Len(V) \in Nat /\ xb[Cap - 1] = NUL
        /\ E < Cap
    <2>1. Cap \in Nat /\ E \in Nat /\ E < Cap
      BY ONLY CapAssumption, E \in 0 .. Cap - 2
    <2>2. Len(K) \in Nat /\ Len(V) \in Nat
      BY ONLY K \in Text, V \in Text DEF Text
    <2>3. xb[Cap - 1] = NUL
      BY ONLY x \in States(Alphabet), StateFields DEF xb
    <2> QED
      BY <2>1, <2>2, <2>3
  <1>1. /\ p <= d /\ d < E /\ c <= e /\ p < E /\ d < Cap /\ e < Cap
        /\ \A i \in p .. d - 1 : i \in p .. p + Len(K) - 1
        /\ \A i \in c .. e - 1 : i \in c .. c + Len(V) - 1
    BY ONLY <1>0, p \in Nat, d \in Nat, c \in Nat, e \in Nat, d = p + Len(K), c = d + 1, e = c + Len(V), e <= E
  <1>2. \A i \in p .. d - 1 : xb[i] \notin {"=", NUL}
    <2>1. \A i \in p .. p + Len(K) - 1 : xb[i] \notin {"=", " "} /\ xb[i] # NUL
      BY ONLY TextAt(xb, p, K), p \in Nat, K \in Text, FreeOf(K, {"=", " "}), CharsOf
    <2> HIDE DEF xb
    <2> QED
      BY <1>1, <2>1
  <1>3. \A i \in c .. e - 1 : xb[i] \notin {"&", NUL}
    <2>1. \A i \in c .. c + Len(V) - 1 : xb[i] \notin {"&", " "} /\ xb[i] # NUL
      BY ONLY TextAt(xb, c, V), c \in Nat, V \in Text, FreeOf(V, {"&", " "}), CharsOf
    <2> HIDE DEF xb
    <2> QED
      BY <1>1, <2>1
  <1>4. "=" # NUL /\ "&" # NUL
    BY DEF NUL
  <1>5. d = strchr(xb, p, "=")
    <2>1. xb[d] = "="
      OBVIOUS
    <2> HIDE DEF xb
    <2> QED
      BY ONLY <1>1, <1>2, <1>4, <2>1, p \in Nat, d \in Nat, StrchrAt
  <1>6. BeforeEnd(f, E) <=> e < E
    <2>1. CASE e < E
      <3>1. xb[e] = "&"
        BY <2>1
      <3>2. f = e
        <4> HIDE DEF xb
        <4> QED
          BY ONLY <1>1, <1>3, <1>4, <3>1, c \in Nat, e \in Nat, StrchrAt
      <3>3. e # NULL
        BY ONLY e \in Nat DEF NULL
      <3> QED
        BY ONLY <2>1, <3>2, <3>3 DEF BeforeEnd
    <2>2. CASE ~(e < E)
      <3>1. \A i \in c .. e - 1 : xb[i] # "&"
        BY <1>3
      <3>2. f = NULL \/ (f \in Nat /\ f >= e)
        <4> HIDE DEF xb
        <4> QED
          BY ONLY <1>0, <1>1, <3>1, c \in Nat, e \in Nat, StrchrBehind DEF f
      <3> HIDE DEF f
      <3>3. e = E
        BY ONLY <1>0, <2>2, e \in Nat, e <= E
      <3>4. ~(f < E) \/ f = NULL
        BY ONLY <1>0, <3>2, <3>3
      <3> QED
        BY <2>2, <3>4 DEF BeforeEnd
    <2> QED
      BY <2>1, <2>2
  <1>7. e < E => f = e
    <2> SUFFICES ASSUME e < E PROVE f = e
      OBVIOUS
    <2>1. xb[e] = "&"
      OBVIOUS
    <2> HIDE DEF xb
    <2> QED
      BY ONLY <1>1, <1>3, <1>4, <2>1, c \in Nat, e \in Nat, StrchrAt DEF f
  <1>8. f = strchr(x.buf, d + 1, "&")
    OBVIOUS
  <1> HIDE DEF xb, f
  <1>9. d < E /\ x.p < E /\ d = strchr(x.buf, x.p, "=")
    BY <1>1, <1>5 DEF xb
  <1>10. /\ BeforeEnd(f, E) => QueryRound(x, E) =
                [buf |-> [[x.buf EXCEPT ![d] = NUL] EXCEPT ![f] = NUL],
                 req |-> [x.req EXCEPT !.query = kv_set_key_value(@, p, c)], p |-> f + 1]
         /\ ~BeforeEnd(f, E) => QueryRound(x, E) =
                [buf |-> [x.buf EXCEPT ![d] = NUL],
                 req |-> [x.req EXCEPT !.query = kv_set_key_value(@, p, c)], p |-> E]
    <2>1. /\ x.p < E /\ d < E /\ d \in Nat /\ d = strchr(x.buf, x.p, "=")
          /\ f = strchr(x.buf, d + 1, "&") /\ x \in States(Alphabet) /\ E \in 0 .. Cap - 2
      BY <1>8, <1>9
    <2>2. /\ BeforeEnd(f, E) => QueryRound(x, E) =
                [buf |-> [[x.buf EXCEPT ![d] = NUL] EXCEPT ![f] = NUL],
                 req |-> [x.req EXCEPT !.query = kv_set_key_value(@, x.p, d + 1)], p |-> f + 1]
          /\ ~BeforeEnd(f, E) => QueryRound(x, E) =
                [buf |-> [x.buf EXCEPT ![d] = NUL],
                 req |-> [x.req EXCEPT !.query = kv_set_key_value(@, x.p, d + 1)], p |-> E]
      BY ONLY <2>1, QueryRoundTakes
    <2> QED
      BY ONLY <2>2, x.p = p, c = d + 1
  <1> QED
    BY <1>6, <1>7, <1>10 DEF Ended

\* The next pair lies before the end of the query.
LEMMA PairsRise ==
    ASSUME NEW b, NEW q, NEW qo, QueryHere(b, q, qo), NEW m \in Nat, m < Len(q)
    PROVE  qo[m] + 1 < qo[Len(q)] /\ qo[m] \in Nat /\ qo[Len(q)] \in Nat
  <1> DEFINE a == qo[m]
             l == m + 1
             e == qo[l]
             E == qo[Len(q)]
             k == Len(q[l].key)
             v == Len(q[l].value)
  <1>1. l = m + 1 /\ a = qo[m] /\ e = qo[l] /\ E = qo[Len(q)] /\ k = Len(q[l].key) /\ v = Len(q[l].value)
    OBVIOUS
  <1>10. PairNames(q, qo, m, l, a, e, E, k, v)
    BY ONLY <1>1 DEF PairNames
  <1> HIDE DEF a, l, e, E, k, v
  <1>2. /\ /\ a \in Nat /\ k \in Nat /\ v \in Nat /\ e = a + k + v + 2 /\ e <= E /\ E <= Cap - 2 /\ Cap \in Nat
           /\ E \in Nat /\ qo[0] \in Nat /\ qo[0] <= a /\ Len(q) \in Nat
        /\ /\ q[l].key \in Text /\ q[l].value \in Text
           /\ FreeOf(q[l].key, {"=", " "}) /\ FreeOf(q[l].value, {"&", " "})
        /\ PairThere(b, q, qo, l, a, e, k)
    BY ONLY <1>10, QueryHere(b, q, qo), m \in Nat, m < Len(q), PairPositions
  <1>3. a + 1 < E
    <2>1. a \in Nat /\ k \in Nat /\ v \in Nat /\ e = a + k + v + 2 /\ e <= E /\ E \in Nat
      BY ONLY <1>2
    <2> QED
      BY ONLY <2>1
  <1>4. a \in Nat /\ E \in Nat
    BY ONLY <1>2
  <1> QED
    BY ONLY <1>1, <1>3, <1>4

\* One NUL written.
LEMMA EndedIs ==
    ASSUME NEW b, DOMAIN b = Ptr, NEW d \in Ptr
    PROVE  /\ DOMAIN Ended(b, d) = Ptr /\ Ended(b, d)[d] = NUL
           /\ \A i \in Ptr : i # d => Ended(b, d)[i] = b[i]
  BY DEF Ended

\* The loop takes pair m.
LEMMA QueryPairTaken ==
    ASSUME NEW b, NEW q, NEW qo, QueryHere(b, q, qo), NEW n \in Nat, n < Len(q), NEW m \in Nat, m = n + 1,
           NEW E, E = qo[Len(q)], NEW rq, NEW x \in States(Alphabet), QueryAt(x, b, q, qo, rq, n)
    PROVE  QueryAt(QueryRound(x, E), b, q, qo, rq, m)
  <1>0. PICK N, a, e, o, K, V, k, v, ks, vs, xb :
               /\ N = Len(q) /\ a = qo[n] /\ e = qo[m] /\ o = qo[0]
               /\ K = q[m].key /\ V = q[m].value /\ k = Len(K) /\ v = Len(V)
               /\ ks = QKeys(q, qo) /\ vs = QVals(q, qo) /\ xb = x.buf
    OBVIOUS
  <1>21. PairNames(q, qo, n, m, a, e, E, k, v)
    BY ONLY <1>0, m = n + 1, E = qo[Len(q)] DEF PairNames
  <1>22. /\ /\ a \in Nat /\ k \in Nat /\ v \in Nat /\ e = a + k + v + 2 /\ e <= E /\ E <= Cap - 2 /\ Cap \in Nat
            /\ E \in Nat /\ qo[0] \in Nat /\ qo[0] <= a /\ Len(q) \in Nat
         /\ /\ q[m].key \in Text /\ q[m].value \in Text
            /\ FreeOf(q[m].key, {"=", " "}) /\ FreeOf(q[m].value, {"&", " "})
         /\ PairThere(b, q, qo, m, a, e, k)
    BY ONLY <1>21, QueryHere(b, q, qo), n \in Nat, n < Len(q), PairPositions
  <1>1. /\ a \in Nat /\ k \in Nat /\ v \in Nat /\ e = a + k + v + 2 /\ e <= E /\ E <= Cap - 2 /\ Cap \in Nat
        /\ E \in Nat /\ o \in Nat /\ o <= a /\ N \in Nat
    BY ONLY <1>0, <1>22
  <1>23. K \in Text /\ V \in Text /\ FreeOf(K, {"=", " "}) /\ FreeOf(V, {"&", " "})
    BY ONLY <1>0, <1>22
  <1>24. PairAt(b, a, q, m) /\ b[e] = (IF m < N THEN "&" ELSE " ") /\ ks[m] = a + 1 /\ vs[m] = a + k + 2
    BY ONLY <1>0, <1>22 DEF PairThere
  <1>25. n \in Nat /\ n < N /\ m = n + 1 /\ k = Len(K) /\ v = Len(V)
    BY ONLY <1>0, n \in Nat, n < Len(q), m = n + 1
  <1>2. m < N => e < E
    <2>1. m < N => e + 1 < E /\ e \in Nat /\ E \in Nat
      BY ONLY <1>0, QueryHere(b, q, qo), m \in Nat, E = qo[Len(q)], PairsRise
    <2> QED
      BY ONLY <2>1
  <1>3. m = N => e = E
    BY ONLY <1>0, E = qo[Len(q)]
  <1>4. PICK p, d, c : p = a + 1 /\ d = a + k + 1 /\ c = a + k + 2
    OBVIOUS
  <1>5. /\ x.req = [rq EXCEPT !.query = x.req.query]
        /\ Kept(x.req.query, n, ks, vs)
        /\ Stored(Ended(xb, a), n, ks, vs, q, p)
        /\ (\A i \in 0 .. o - 1 : xb[i] = b[i]) /\ xb[o] = NUL
        /\ \A i \in p .. Cap - 1 : xb[i] = b[i]
        /\ x.p = p /\ xb[a] = NUL
    BY ONLY <1>0, <1>4, QueryAt(x, b, q, qo, rq, n), n < Len(q) DEF QueryAt
  <1>6. TextAt(b, p, K) /\ b[d] = "=" /\ TextAt(b, c, V)
    BY ONLY <1>0, <1>24, <1>4 DEF PairAt
  <1>7. /\ xb[Cap - 1] = NUL /\ DOMAIN xb = Ptr
        /\ x.req \in Reqs /\ x.req.query \in Pairs
    BY ONLY <1>0, x \in States(Alphabet), StateFields DEF Buffers
  <1>8. q \in Lists
    BY ONLY QueryHere(b, q, qo) DEF QueryHere
  <1>9. /\ m <= N /\ p \in Nat /\ d \in Nat /\ c \in Nat /\ e \in Nat
        /\ d = p + k /\ c = d + 1 /\ e = c + v /\ d < c /\ d < e /\ d < E /\ e < Cap /\ d < Cap /\ p <= d /\ p < E
        /\ E \in 0 .. Cap - 2 /\ a = p - 1 /\ c <= e /\ o < p
    BY ONLY <1>25, <1>1, <1>4
  <1>10. TextAt(xb, p, K) /\ TextAt(xb, c, V) /\ xb[d] = b[d] /\ xb[e] = b[e]
    <2>1. /\ \A i \in p .. p + Len(K) - 1 : i \in p .. Cap - 1
          /\ \A i \in c .. c + Len(V) - 1 : i \in p .. Cap - 1
          /\ d \in p .. Cap - 1 /\ e \in p .. Cap - 1
      BY ONLY <1>25, <1>1, <1>9
    <2>2. \A i \in p .. Cap - 1 : xb[i] = b[i]
      BY ONLY <1>5
    <2>3. TextAt(xb, p, K)
      BY ONLY <1>23, <1>6, <1>9, <2>1, <2>2, TextSame
    <2>4. TextAt(xb, c, V)
      BY ONLY <1>23, <1>6, <1>9, <2>1, <2>2, TextSame
    <2> QED
      BY ONLY <2>1, <2>2, <2>3, <2>4
  <1>11. m < N <=> e < E
    BY ONLY <1>1, <1>2, <1>3, <1>9, m \in Nat
  <1> DEFINE y == QueryRound(x, E)
             Y == IF e < E THEN Ended(Ended(xb, d), e) ELSE Ended(xb, d)
  <1>12. y = [buf |-> Y, req |-> [x.req EXCEPT !.query = kv_set_key_value(@, p, c)],
              p |-> IF e < E THEN e + 1 ELSE E]
    <2>1. x.buf[d] = "=" /\ (e < E => x.buf[e] = "&") /\ TextAt(x.buf, p, K) /\ TextAt(x.buf, c, V)
      BY ONLY <1>0, <1>24, <1>6, <1>10, <1>11
    <2>2. x.p = p /\ e <= E
      BY ONLY <1>1, <1>5
    <2>3. d = p + Len(K) /\ c = d + 1 /\ e = c + Len(V)
      BY ONLY <1>9, <1>25
    <2>4. Takes(x, QueryRound(x, E), E, p, d, c, e)
      <3>1. PairComes(x.buf, E, p, d, c, e, K, V)
        BY ONLY <1>23, <1>9, <2>1, <2>2, <2>3 DEF PairComes
      <3> QED
        BY ONLY <2>2, <3>1, x \in States(Alphabet), RoundTakesPair
    <2> QED
      BY ONLY <2>4, <1>0 DEF y, Y, Takes
  <1>13. DOMAIN Y = Ptr /\ Y[d] = NUL /\ (e < E => Y[e] = NUL) /\ \A i \in Ptr : i # d /\ i # e => Y[i] = xb[i]
    <2>1. d \in Ptr /\ e \in Ptr /\ d # e
      BY ONLY <1>1, <1>9 DEF Ptr
    <2> DEFINE u == Ended(xb, d)
    <2>2. DOMAIN u = Ptr /\ u[d] = NUL /\ \A i \in Ptr : i # d => u[i] = xb[i]
      BY ONLY <1>7, <2>1, EndedIs
    <2> HIDE DEF u
    <2>3. DOMAIN Ended(u, e) = Ptr /\ Ended(u, e)[e] = NUL /\ \A i \in Ptr : i # e => Ended(u, e)[i] = u[i]
      BY ONLY <2>1, <2>2, EndedIs
    <2> QED
      BY ONLY <2>1, <2>2, <2>3 DEF Y, u
  <1> HIDE DEF y, Y
  <1>14. y.buf = Y /\ y.req = [x.req EXCEPT !.query = kv_set_key_value(@, p, c)] /\ y.p = IF e < E THEN e + 1 ELSE E
    BY ONLY <1>12
  <1>15. y.req.query = kv_set_key_value(x.req.query, p, c) /\ y.req = [rq EXCEPT !.query = y.req.query]
    <2> DEFINE z == kv_set_key_value(x.req.query, p, c)
    <2>1. y.req = [x.req EXCEPT !.query = z]
      BY ONLY <1>14
    <2> HIDE DEF z
    <2>2. y.req.query = z
      BY ONLY <1>7, <2>1 DEF Reqs
    <2>3. y.req = [rq EXCEPT !.query = z]
      BY ONLY <1>5, <2>1
    <2> QED
      BY ONLY <2>2, <2>3 DEF z
  <1>16. Kept(y.req.query, m, ks, vs)
    <2>1. ks[m] = p /\ vs[m] = c /\ p \in Ptr /\ c \in Ptr
      <3>1. ks[m] = p /\ vs[m] = c
        BY ONLY <1>24, <1>4
      <3>2. p \in Ptr /\ c \in Ptr
        BY ONLY <1>1, <1>9 DEF Ptr
      <3> QED
        BY ONLY <3>1, <3>2
    <2>2. Kept(kv_set_key_value(x.req.query, ks[m], vs[m]), m, ks, vs)
      BY ONLY <1>5, <1>7, <2>1, n \in Nat, m = n + 1, KeptNext
    <2> QED
      BY ONLY <1>15, <2>1, <2>2
  <1>17. Stored(Ended(Y, e), m, ks, vs, q, e + 1)
    <2> DEFINE w == Ended(xb, a)
               W == Ended(Y, e)
    <2>0. a \in Ptr /\ e \in Ptr /\ d \in Ptr /\ d # e /\ a # e /\ a # d
      BY ONLY <1>1, <1>9 DEF Ptr
    <2>1. DOMAIN w = Ptr /\ w[a] = NUL /\ \A i \in Ptr : i # a => w[i] = xb[i]
      BY ONLY <1>7, <2>0, EndedIs
    <2>2. W[e] = NUL /\ \A i \in Ptr : i # e => W[i] = Y[i]
      BY ONLY <1>13, <2>0, EndedIs
    <2>3. Stored(w, n, ks, vs, q, p)
      BY ONLY <1>5
    <2> HIDE DEF w, W
    <2>4. W[d] = NUL
      BY ONLY <1>13, <2>0, <2>2
    <2>5. \A i \in 0 .. p - 1 : W[i] = w[i]
      <3>1. \A i \in 0 .. p - 1 : i \in Ptr /\ i # d /\ i # e
        BY ONLY <1>1, <1>9 DEF Ptr
      <3> QED
        BY ONLY <1>5, <1>13, <2>0, <2>1, <2>2, <3>1
    <2>6. \A i \in p .. e - 1 : i # d => W[i] = xb[i]
      <3>1. \A i \in p .. e - 1 : i \in Ptr /\ i # e
        BY ONLY <1>1, <1>9 DEF Ptr
      <3> QED
        BY ONLY <1>13, <2>2, <3>1
    <2>7. ks[m] = p /\ vs[m] = c
      BY ONLY <1>24, <1>4
    <2>8. Stored(W, m, ks, vs, q, e + 1)
      <3>1. /\ d = p + Len(K) /\ d < c /\ e = c + Len(V) /\ K = q[m].key /\ V = q[m].value /\ m <= Len(q)
            /\ p = ks[m] /\ c = vs[m]
        BY ONLY <1>0, <1>9, <1>25, <2>7
      <3>2. p \in Nat /\ d \in Nat /\ c \in Nat /\ e \in Nat
        BY ONLY <1>9
      <3>3. TextAt(xb, p, K) /\ TextAt(xb, c, V)
        BY ONLY <1>10
      <3> QED
        <4>1. Cut(W, w, xb, p, d, c, e, K, V)
          BY ONLY <1>23, <2>2, <2>4, <2>5, <2>6, <3>1, <3>2, <3>3 DEF Cut
        <4>2. Follows(q, ks, vs, n, m, p, c, K, V)
          BY ONLY <3>1, n \in Nat, m \in Nat, m = n + 1 DEF Follows
        <4> QED
          BY ONLY <1>8, <2>3, <4>1, <4>2, StoredNext
    <2> QED
      BY ONLY <2>8 DEF W
  <1>18. (\A i \in 0 .. o - 1 : Y[i] = b[i]) /\ Y[o] = NUL
    <2>1. (\A i \in 0 .. o - 1 : i \in Ptr /\ i # d /\ i # e) /\ o \in Ptr /\ o # d /\ o # e
      BY ONLY <1>1, <1>9 DEF Ptr
    <2> QED
      BY ONLY <1>5, <1>13, <2>1
  <1>19. \A i \in e + 1 .. Cap - 1 : Y[i] = b[i]
    <2>1. \A i \in e + 1 .. Cap - 1 : i \in Ptr /\ i # d /\ i # e /\ i \in p .. Cap - 1
      BY ONLY <1>1, <1>9 DEF Ptr
    <2> QED
      BY ONLY <1>5, <1>13, <2>1
  <1>20. (m < N => y.p = e + 1 /\ Y[e] = NUL) /\ (m = N => y.p = e)
    BY ONLY <1>3, <1>11, <1>13, <1>14, <1>1, m \in Nat
  <1> QED
    BY ONLY <1>0, <1>14, <1>15, <1>16, <1>17, <1>18, <1>19, <1>20 DEF QueryAt, y

\* The loop takes all pairs of the query.
LEMMA QueryTaken ==
    ASSUME NEW b, NEW q, NEW qo, QueryHere(b, q, qo), NEW E, E = qo[Len(q)], NEW rq,
           NEW s \in States(Alphabet), QueryAt(s, b, q, qo, rq, 0)
    PROVE  ParseQuery(s, E) \in States(Alphabet) /\ QueryAt(ParseQuery(s, E), b, q, qo, rq, Len(q))
  <1>0. PICK N : N = Len(q)
    OBVIOUS
  <1>1. N \in Nat /\ E \in Nat /\ E <= Cap - 2 /\ Cap \in Nat
    <2>1. q \in Lists /\ qo \in [0 .. N -> Nat] /\ E <= Cap - 2
      BY ONLY <1>0, QueryHere(b, q, qo), E = qo[Len(q)] DEF QueryHere
    <2>2. N \in Nat
      BY ONLY <1>0, <2>1, ListLen
    <2>3. N \in 0 .. N
      BY ONLY <2>2
    <2>4. E \in Nat
      BY ONLY <1>0, <2>1, <2>3, E = qo[Len(q)]
    <2> QED
      BY ONLY <2>1, <2>2, <2>4, CapAssumption
  <1>2. E \in 0 .. Cap - 2
    BY ONLY <1>1
  <1> DEFINE At(x, n) == QueryAt(x, b, q, qo, rq, n)
             S == {x \in States(Alphabet) : \E n \in 0 .. N : At(x, n)}
  <1>3. ASSUME NEW x \in S PROVE QueryRound(x, E) \in S
    <2>1. x \in States(Alphabet)
      BY ONLY <1>3
    <2>2. PICK n \in 0 .. N : At(x, n)
      BY ONLY <1>3
    <2>3. QueryRound(x, E) \in States(Alphabet) /\ (x.p >= E => QueryRound(x, E) = x)
      BY ONLY <1>2, <2>1, QueryRoundIs
    <2>4. CASE n = N
      <3>1. x.p = E
        BY ONLY <1>0, <2>2, <2>4, E = qo[Len(q)] DEF QueryAt
      <3>2. QueryRound(x, E) = x
        BY ONLY <1>1, <2>3, <3>1
      <3> QED
        BY ONLY <1>3, <3>2
    <2>5. CASE n # N
      <3>1. n \in Nat /\ n < N /\ n + 1 \in 0 .. N /\ n + 1 \in Nat
        BY ONLY <1>1, <2>2, <2>5
      <3>2. n < Len(q)
        BY ONLY <1>0, <3>1
      <3>3. At(QueryRound(x, E), n + 1)
        BY ONLY QueryHere(b, q, qo), E = qo[Len(q)], <2>1, <2>2, <3>1, <3>2, QueryPairTaken
      <3> HIDE DEF At
      <3> QED
        BY ONLY <2>3, <3>1, <3>3 DEF S
    <2> QED
      BY ONLY <2>4, <2>5
  <1>4. s \in S
    <2>1. At(s, 0) /\ 0 \in 0 .. N
      BY ONLY <1>1, QueryAt(s, b, q, qo, rq, 0)
    <2> HIDE DEF At
    <2> QED
      BY ONLY <2>1, s \in States(Alphabet) DEF S
  <1>5. S \subseteq States(Alphabet)
    BY ONLY TRUE DEF S
  <1> HIDE DEF S
  <1>6. ParseQuery(s, E) \in S /\ ParseQuery(s, E).p >= E
    BY ONLY <1>2, <1>3, <1>4, <1>5, ParseQueryIn
  <1> DEFINE y == ParseQuery(s, E)
  <1>7. y \in S /\ y.p >= E
    BY ONLY <1>6
  <1> HIDE DEF y
  <1>8. PICK n \in 0 .. N : At(y, n)
    BY ONLY <1>7 DEF S
  <1>9. n = N
    <2> SUFFICES ASSUME n # N PROVE FALSE
      OBVIOUS
    <2>1. n \in Nat /\ n < N
      BY ONLY <1>1, <1>8, n # N
    <2>2. n < Len(q)
      BY ONLY <1>0, <2>1
    <2>3. qo[n] + 1 < E
      BY ONLY QueryHere(b, q, qo), E = qo[Len(q)], <2>1, <2>2, PairsRise
    <2>4. y.p = qo[n] + 1
      BY ONLY <1>8, <2>2 DEF QueryAt
    <2>5. qo[n] \in Nat
      BY ONLY QueryHere(b, q, qo), <2>1, <2>2, PairsRise
    <2> DEFINE a == qo[n]
               yp == y.p
    <2>6. a + 1 < E /\ yp = a + 1 /\ yp >= E /\ a \in Nat
      BY ONLY <1>7, <2>3, <2>4, <2>5
    <2> HIDE DEF a, yp
    <2> QED
      BY ONLY <1>1, <2>6
  <1> QED
    BY ONLY <1>0, <1>5, <1>7, <1>8, <1>9 DEF y

\* The loop starts behind the '?'.
LEMMA QueryStart ==
    ASSUME NEW b, NEW q, NEW qo, QueryHere(b, q, qo), 0 < Len(q), NEW o, o = qo[0],
           NEW s, s.buf = Ended(b, o), s.p = o + 1, s.req \in Reqs, s.req.query = <<>>
    PROVE  QueryAt(s, b, q, qo, s.req, 0)
  <1>1. /\ DOMAIN b = Ptr /\ q \in Lists /\ qo \in [0 .. Len(q) -> Nat]
    BY ONLY QueryHere(b, q, qo) DEF QueryHere, Buffers
  <1>2. PICK N : N = Len(q)
    OBVIOUS
  <1>3. N \in Nat /\ 0 < N /\ qo \in [0 .. N -> Nat]
    BY ONLY <1>1, <1>2, 0 < Len(q), ListLen
  <1>4. o \in Nat
    <2>1. 0 \in 0 .. N
      BY ONLY <1>3
    <2> QED
      BY ONLY <1>3, <2>1, o = qo[0]
  <1>5. o < Cap /\ Cap \in Nat
    <2>1. o + 1 < qo[Len(q)] /\ qo[Len(q)] \in Nat
      BY ONLY QueryHere(b, q, qo), 0 < Len(q), o = qo[0], 0 \in Nat, PairsRise
    <2>2. qo[Len(q)] <= Cap - 2
      BY ONLY QueryHere(b, q, qo) DEF QueryHere
    <2> DEFINE E == qo[Len(q)]
    <2>3. o + 1 < E /\ E \in Nat /\ E <= Cap - 2
      BY ONLY <2>1, <2>2
    <2> HIDE DEF E
    <2> QED
      BY ONLY <1>4, <2>3, CapAssumption
  <1>6. s.buf[o] = NUL /\ \A i \in Ptr : i # o => s.buf[i] = b[i]
    <2>1. o \in Ptr
      BY ONLY <1>4, <1>5 DEF Ptr
    <2> QED
      BY ONLY <1>1, <2>1, s.buf = Ended(b, o), EndedIs
  <1>7. /\ \A i \in 0 .. o - 1 : i \in Ptr /\ i # o
        /\ \A i \in o + 1 .. Cap - 1 : i \in Ptr /\ i # o
    BY ONLY <1>4, <1>5 DEF Ptr
  <1>8. s.req = [s.req EXCEPT !.query = s.req.query]
    BY ONLY s.req \in Reqs DEF Reqs
  <1>9. Kept(s.req.query, 0, QKeys(q, qo), QVals(q, qo))
    <2>1. Len(<<>>) = 0 /\ Room(0) = 0 /\ 1 .. 0 = {}
      BY ONLY CapAssumption DEF Room
    <2> QED
      BY ONLY <2>1, s.req.query = <<>> DEF Kept
  <1>10. \A i \in 1 .. 0 : FALSE
    OBVIOUS
  <1>11. Stored(Ended(s.buf, o), 0, QKeys(q, qo), QVals(q, qo), q, o + 1)
    BY ONLY <1>10 DEF Stored
  <1>12. (\A i \in 0 .. o - 1 : s.buf[i] = b[i]) /\ \A i \in o + 1 .. Cap - 1 : s.buf[i] = b[i]
    BY ONLY <1>6, <1>7
  <1>13. ~(0 = Len(q))
    BY ONLY <1>2, <1>3
  <1> QED
    BY ONLY <1>6, <1>8, <1>9, <1>11, <1>12, <1>13, s.p = o + 1, o = qo[0] DEF QueryAt

-----------------------------------------------------------------------------
(* The path.                                                               *)

\* The character at position i of a text, counted as the buffer is.
CharAt(s, i) == s[i + 1]

\* The characters of a text within another.
LEMMA PieceChars ==
    ASSUME NEW s, NEW o \in Nat, NEW t \in Text, Piece(s, o, t), NEW S, FreeOf(t, S)
    PROVE  \A i \in o .. o + Len(t) - 1 : CharAt(s, i) \notin S /\ CharAt(s, i) # NUL
  <1> TAKE i \in o .. o + Len(t) - 1
  <1>1. t \in Seq(Alphabet) /\ Len(t) \in Nat
    BY DEF Text
  <1>2. PICK j : j = i - o + 1
    OBVIOUS
  <1>3. j \in 1 .. Len(t) /\ o + j = i + 1
    BY ONLY <1>1, <1>2, o \in Nat, i \in o .. o + Len(t) - 1
  <1>4. CharAt(s, i) = t[j]
    BY ONLY <1>3, Piece(s, o, t) DEF Piece, CharAt
  <1>5. t[j] \in Alphabet
    BY ONLY <1>1, <1>3
  <1>6. t[j] \notin S
    BY ONLY <1>3, FreeOf(t, S) DEF FreeOf
  <1> QED
    BY ONLY <1>4, <1>5, <1>6, AlphabetAssumption

\* It lies in the buffer where that agrees with the text around it.
LEMMA PieceText ==
    ASSUME NEW s, NEW o \in Nat, NEW t \in Text, Piece(s, o, t), NEW b,
           \A i \in o .. o + Len(t) - 1 : b[i] = CharAt(s, i)
    PROVE  TextAt(b, o, t)
  <1> SUFFICES ASSUME NEW j \in 1 .. Len(t) PROVE b[o + j - 1] = t[j]
    BY DEF TextAt
  <1>1. Len(t) \in Nat
    BY DEF Text
  <1>2. PICK i : i = o + j - 1
    OBVIOUS
  <1>3. i \in o .. o + Len(t) - 1 /\ o + j = i + 1
    BY ONLY <1>1, <1>2, o \in Nat, j \in 1 .. Len(t)
  <1>4. b[i] = t[j]
    BY ONLY <1>3, Piece(s, o, t), j \in 1 .. Len(t), \A x \in o .. o + Len(t) - 1 : b[x] = CharAt(s, x) DEF Piece, CharAt
  <1> QED
    BY ONLY <1>2, <1>4

\* The query q, of which pair m lies from a to e in the text s.
QueryLies(s, q, qo) ==
    q \in Lists /\ QueryFree(q) /\ qo \in [0 .. Len(q) -> Nat] /\ LaidQuery(s, q, qo)

\* No space and no NUL lies in a pair of the query.
LEMMA PairWithoutSpace ==
    ASSUME NEW s, NEW q, NEW qo, QueryLies(s, q, qo), NEW m \in 1 .. Len(q), NEW n, n = m - 1,
           NEW a, a = qo[n], NEW e, e = qo[m], NEW i \in a .. e - 1
    PROVE  CharAt(s, i) \notin {" ", NUL}
  <1>0. PICK K, V, k, v : K = q[m].key /\ V = q[m].value /\ k = Len(K) /\ v = Len(V)
    OBVIOUS
  <1>1. /\ q \in Lists /\ QueryFree(q) /\ qo \in [0 .. Len(q) -> Nat]
        /\ PairLaid(s, a, q, m) /\ e = a + Len(q[m].key) + Len(q[m].value) + 2
    BY ONLY QueryLies(s, q, qo), m \in 1 .. Len(q), n = m - 1, a = qo[n], e = qo[m] DEF QueryLies, LaidQuery
  <1>2. a \in Nat
    <2>1. Len(q) \in Nat
      BY ONLY <1>1, ListLen
    <2>2. n \in 0 .. Len(q)
      BY ONLY <2>1, m \in 1 .. Len(q), n = m - 1
    <2> QED
      BY ONLY <1>1, <2>2, a = qo[n]
  <1>3. K \in Text /\ V \in Text /\ k \in Nat /\ v \in Nat
    BY ONLY <1>0, <1>1, m \in 1 .. Len(q), ListPair
  <1>4. FreeOf(K, {"=", " "}) /\ FreeOf(V, {"&", " "})
    BY ONLY <1>0, <1>1, m \in 1 .. Len(q) DEF QueryFree
  <1>5. PICK p, d, c : p = a + 1 /\ d = a + k + 1 /\ c = a + k + 2
    OBVIOUS
  <1>6. p \in Nat /\ c \in Nat /\ d + 1 = a + k + 2
    BY ONLY <1>2, <1>3, <1>5
  <1>7. /\ CharAt(s, a) = "?" \/ CharAt(s, a) = "&"
        /\ CharAt(s, d) = "=" /\ Piece(s, p, K) /\ Piece(s, c, V)
    BY ONLY <1>0, <1>1, <1>5, <1>6 DEF PairLaid, CharAt
  <1>8. e = a + k + v + 2
    BY ONLY <1>0, <1>1
  <1>9. i = a \/ i \in p .. p + Len(K) - 1 \/ i = d \/ i \in c .. c + Len(V) - 1
    <2>1. k = Len(K) /\ v = Len(V)
      BY ONLY <1>0
    <2> QED
      BY ONLY <1>2, <1>3, <1>5, <1>6, <1>8, <2>1, i \in a .. e - 1
  <1>10. \A j \in p .. p + Len(K) - 1 : CharAt(s, j) \notin {"=", " "} /\ CharAt(s, j) # NUL
    BY ONLY <1>3, <1>4, <1>6, <1>7, PieceChars
  <1>11. \A j \in c .. c + Len(V) - 1 : CharAt(s, j) \notin {"&", " "} /\ CharAt(s, j) # NUL
    BY ONLY <1>3, <1>4, <1>6, <1>7, PieceChars
  <1>12. CASE i = a
    BY ONLY <1>7, <1>12 DEF NUL
  <1>13. CASE i = d
    BY ONLY <1>7, <1>13 DEF NUL
  <1>14. CASE i \in p .. p + Len(K) - 1
    BY ONLY <1>10, <1>14
  <1>15. CASE i \in c .. c + Len(V) - 1
    BY ONLY <1>11, <1>15
  <1> QED
    BY ONLY <1>9, <1>12, <1>13, <1>14, <1>15

\* Nor in the whole query.
LEMMA QueryWithoutSpace ==
    ASSUME NEW s, NEW q, NEW qo, QueryLies(s, q, qo), NEW o, o = qo[0], NEW E, E = qo[Len(q)],
           NEW i \in o .. E - 1
    PROVE  CharAt(s, i) \notin {" ", NUL}
  <1>0. PICK N : N = Len(q)
    OBVIOUS
  <1>1. q \in Lists /\ qo \in [0 .. N -> Nat] /\ E = qo[N]
    BY ONLY <1>0, QueryLies(s, q, qo), E = qo[Len(q)] DEF QueryLies
  <1>2. N \in Nat
    BY ONLY <1>0, <1>1, ListLen
  <1>3. o \in Nat /\ E \in Nat
    <2>1. 0 \in 0 .. N /\ N \in 0 .. N
      BY ONLY <1>2
    <2> QED
      BY ONLY <1>1, <2>1, o = qo[0]
  <1> DEFINE S == {n \in 0 .. N : i < qo[n]}
  <1>4. N \in S /\ S \subseteq Nat
    <2>1. i < E /\ N \in 0 .. N
      BY ONLY <1>2, <1>3, i \in o .. E - 1
    <2> QED
      BY ONLY <1>1, <1>2, <2>1
  <1>5. PICK m \in S : \A y \in S : m <= y
    <2> HIDE DEF S
    <2> QED
      BY ONLY <1>4, LeastNat
  <1>6. m \in 0 .. N /\ i < qo[m]
    BY ONLY <1>5
  <1>7. m # 0
    <2>1. ~(i < o)
      BY ONLY <1>3, i \in o .. E - 1
    <2> QED
      BY ONLY <1>6, <2>1, o = qo[0]
  <1>8. PICK n : n = m - 1
    OBVIOUS
  <1>9. n \in 0 .. N /\ n \in Nat /\ n < N /\ m = n + 1 /\ ~(m <= n)
    BY ONLY <1>2, <1>6, <1>7, <1>8
  <1>10. ~(i < qo[n])
    <2> SUFFICES ASSUME i < qo[n] PROVE FALSE
      OBVIOUS
    <2>1. n \in S
      BY ONLY <1>9, i < qo[n] DEF S
    <2> HIDE DEF S
    <2> QED
      BY ONLY <1>5, <1>9, <2>1
  <1>11. PICK a, e : a = qo[n] /\ e = qo[m]
    OBVIOUS
  <1>13. a \in Nat /\ e \in Nat
    BY ONLY <1>1, <1>6, <1>9, <1>11
  <1>14. i < e /\ ~(i < a)
    BY ONLY <1>6, <1>10, <1>11
  <1>15. i \in a .. e - 1
    BY ONLY <1>3, <1>13, <1>14, i \in o .. E - 1
  <1>16. m \in 1 .. N
    BY ONLY <1>2, <1>9
  <1>17. m \in 1 .. Len(q)
    BY ONLY <1>0, <1>16
  <1> QED
    BY ONLY <1>8, <1>11, <1>15, <1>17, QueryLies(s, q, qo), PairWithoutSpace

\* The path t lies at P, the query behind it, and the space that ends both at E.
PathHere(b, P, t, q, qo, o, E) ==
    /\ P \in Nat /\ t \in Text /\ Len(t) > 0 /\ t[1] = "/" /\ FreeOf(t, {" ", "?"}) /\ TextAt(b, P, t)
    /\ o = qo[0] /\ o = P + Len(t) /\ E = qo[Len(q)] /\ QueryHere(b, q, qo)
    /\ \A i \in P .. E - 1 : b[i] \notin {" ", NUL}

\* Its numbers.
LEMMA PathNumbers ==
    ASSUME NEW b, NEW P, NEW t, NEW q, NEW qo, NEW o, NEW E, PathHere(b, P, t, q, qo, o, E)
    PROVE  /\ P \in Nat /\ o \in Nat /\ E \in Nat /\ Cap \in Nat /\ Len(t) \in Nat /\ Len(q) \in Nat
           /\ P < o /\ o <= E /\ E <= Cap - 2 /\ o = P + Len(t) /\ E \in 0 .. Cap - 2
           /\ (0 < Len(q) => o < E) /\ (Len(q) = 0 => o = E)
  <1>1. /\ P \in Nat /\ t \in Text /\ Len(t) > 0 /\ o = qo[0] /\ o = P + Len(t) /\ E = qo[Len(q)]
        /\ q \in Lists /\ qo \in [0 .. Len(q) -> Nat] /\ qo[Len(q)] <= Cap - 2 /\ QueryHere(b, q, qo)
    BY DEF PathHere, QueryHere
  <1>2. Len(t) \in Nat /\ Len(q) \in Nat /\ Cap \in Nat
    BY ONLY <1>1, ListLen, CapAssumption DEF Text
  <1>3. o \in Nat /\ P < o
    <2>1. P \in Nat /\ Len(t) > 0 /\ o = P + Len(t)
      BY ONLY <1>1
    <2> QED
      BY ONLY <1>2, <2>1
  <1>4. E \in Nat /\ E <= Cap - 2
    <2>1. Len(q) \in 0 .. Len(q)
      BY ONLY <1>2
    <2> QED
      BY ONLY <1>1, <2>1
  <1>5. 0 < Len(q) => o < E
    <2> SUFFICES ASSUME 0 < Len(q) PROVE o < E
      OBVIOUS
    <2>1. o + 1 < E
      BY ONLY <1>1, 0 < Len(q), 0 \in Nat, PairsRise
    <2> QED
      BY ONLY <1>3, <1>4, <2>1
  <1>6. Len(q) = 0 => o = E
    BY ONLY <1>1
  <1>7. o <= E
    BY ONLY <1>2, <1>3, <1>4, <1>5, <1>6
  <1>8. E \in 0 .. Cap - 2
    BY ONLY <1>2, <1>4
  <1>9. P \in Nat /\ o = P + Len(t)
    BY ONLY <1>1
  <1> QED
    BY ONLY <1>2, <1>3, <1>4, <1>5, <1>6, <1>7, <1>8, <1>9

\* The path is found up to its space, and the query from its '?'.
LEMMA PathFound ==
    ASSUME NEW b \in Buffers(Alphabet), NEW P, NEW t, NEW q, NEW qo, NEW o, NEW E, PathHere(b, P, t, q, qo, o, E)
    PROVE  /\ b[P] = "/" /\ strchr(b, P, " ") = E
           /\ 0 < Len(q) => strchr(b, P, "?") = o
           /\ Len(q) = 0 => ~BeforeEnd(strchr(b, P, "?"), E)
  <1>1. /\ P \in Nat /\ o \in Nat /\ E \in Nat /\ Cap \in Nat /\ Len(t) \in Nat /\ Len(q) \in Nat
        /\ P < o /\ o <= E /\ E <= Cap - 2 /\ o = P + Len(t) /\ E \in 0 .. Cap - 2
        /\ (0 < Len(q) => o < E) /\ (Len(q) = 0 => o = E)
    BY PathNumbers
  <1>2. /\ t \in Text /\ Len(t) > 0 /\ t[1] = "/" /\ FreeOf(t, {" ", "?"}) /\ TextAt(b, P, t)
        /\ o = qo[0] /\ E = qo[Len(q)] /\ QueryHere(b, q, qo)
    BY DEF PathHere
  <1>3. b[Cap - 1] = NUL
    BY DEF Buffers
  <1>4. " " # NUL /\ "?" # NUL
    BY DEF NUL
  <1>5. b[P] = "/"
    <2>1. 1 \in 1 .. Len(t) /\ P + 1 - 1 = P
      <3>1. Len(t) > 0 /\ Len(t) \in Nat /\ P \in Nat
        BY ONLY <1>1, <1>2
      <3> QED
        BY ONLY <3>1
    <2> QED
      BY ONLY <1>2, <2>1 DEF TextAt
  <1>6. \A i \in P .. o - 1 : b[i] \notin {" ", "?"} /\ b[i] # NUL
    <2>1. P \in Nat /\ t \in Text /\ FreeOf(t, {" ", "?"}) /\ TextAt(b, P, t)
      BY ONLY <1>1, <1>2
    <2>2. \A i \in P .. P + Len(t) - 1 : b[i] \notin {" ", "?"} /\ b[i] # NUL
      BY ONLY <2>1, CharsOf
    <2>4. \A i \in P .. o - 1 : i \in P .. P + Len(t) - 1
      BY ONLY <1>1
    <2> QED
      BY ONLY <2>2, <2>4
  <1>7. \A i \in P .. E - 1 : b[i] \notin {" ", NUL}
    BY DEF PathHere
  <1>8. b[E] = " "
    BY ONLY <1>2 DEF QueryHere
  <1>9. P <= E /\ E < Cap /\ o < Cap /\ P <= o
    BY ONLY <1>1
  <1>10. strchr(b, P, " ") = E
    <2>1. P \in Nat /\ E \in Nat
      BY ONLY <1>1
    <2>2. FoundAt(b, P, E, " ")
      BY ONLY <2>1, <1>4, <1>7, <1>8, <1>9 DEF FoundAt
    <2> QED
      BY ONLY <2>2, StrchrOf
  <1>11. ASSUME 0 < Len(q) PROVE strchr(b, P, "?") = o
    <2>1. b[o] = "?"
      <3>1. 1 \in 1 .. Len(q) /\ 1 - 1 = 0
        BY ONLY <1>1, <1>11
      <3>2. PairAt(b, o, q, 1)
        BY ONLY <1>2, <3>1 DEF QueryHere
      <3> QED
        BY ONLY <3>2 DEF PairAt
    <2>2. \A i \in P .. o - 1 : b[i] \notin {"?", NUL}
      BY ONLY <1>6
    <2>3. P \in Nat /\ o \in Nat
      BY ONLY <1>1
    <2>4. FoundAt(b, P, o, "?")
      BY ONLY <2>3, <1>4, <1>9, <2>1, <2>2 DEF FoundAt
    <2> QED
      BY ONLY <2>4, StrchrOf
  <1>12. ASSUME Len(q) = 0 PROVE ~BeforeEnd(strchr(b, P, "?"), E)
    <2> DEFINE f == strchr(b, P, "?")
    <2>1. \A i \in P .. o - 1 : b[i] # "?"
      BY ONLY <1>6
    <2>2. f = NULL \/ (f \in Nat /\ f >= o)
      BY ONLY <1>1, <1>3, <1>9, <2>1, StrchrBehind
    <2> HIDE DEF f
    <2>3. f = NULL \/ ~(f < E)
      BY ONLY <1>1, <1>12, <2>2
    <2>4. ~BeforeEnd(f, E)
      BY ONLY <2>3 DEF BeforeEnd
    <2> QED
      BY ONLY <2>4 DEF f
  <1> QED
    BY ONLY <1>5, <1>10, <1>11, <1>12

\* What the stage leaves: the path and the pairs of the query as strings, and
\* the rest as received.
PathDone(y, b, rq, P, t, q, qo, E) ==
    /\ y \in States(Alphabet) /\ y.p = E + 1
    /\ y.req.method = rq.method /\ y.req.path = P
    /\ y.req.protocol = rq.protocol /\ y.req.headers = rq.headers
    /\ Kept(y.req.query, Len(q), QKeys(q, qo), QVals(q, qo))
    /\ Stored(y.buf, Len(q), QKeys(q, qo), QVals(q, qo), q, E + 1)
    /\ StringAt(y.buf, P, t, E + 1)
    /\ \A i \in E + 1 .. Cap - 1 : y.buf[i] = b[i]

\* The loop over the query leaves this behind.
QueryDone(x, b, rq, q, qo, o, E) ==
    /\ x \in States(Alphabet)
    /\ x.req.method = rq.method /\ x.req.protocol = rq.protocol /\ x.req.headers = rq.headers
    /\ Kept(x.req.query, Len(q), QKeys(q, qo), QVals(q, qo))
    /\ Stored(Ended(x.buf, E), Len(q), QKeys(q, qo), QVals(q, qo), q, E + 1)
    /\ (\A i \in 0 .. o - 1 : x.buf[i] = b[i]) /\ Ended(x.buf, E)[o] = NUL
    /\ \A i \in E + 1 .. Cap - 1 : x.buf[i] = b[i]

\* With at least one pair.
LEMMA QueryParsed ==
    ASSUME NEW s \in States(Alphabet), NEW P, NEW t, NEW q, NEW qo, NEW o, NEW E, PathHere(s.buf, P, t, q, qo, o, E),
           s.req.query = <<>>, 0 < Len(q),
           NEW u, u = [buf |-> Ended(s.buf, o), req |-> s.req, p |-> o + 1]
    PROVE  QueryDone(ParseQuery(u, E), s.buf, s.req, q, qo, o, E)
  <1> DEFINE b == s.buf
             y == ParseQuery(u, E)
  <1>1. /\ P \in Nat /\ o \in Nat /\ E \in Nat /\ Cap \in Nat /\ Len(t) \in Nat /\ Len(q) \in Nat
        /\ P < o /\ o <= E /\ E <= Cap - 2 /\ o = P + Len(t) /\ E \in 0 .. Cap - 2
        /\ (0 < Len(q) => o < E) /\ (Len(q) = 0 => o = E)
    BY PathNumbers
  <1>2. o = qo[0] /\ E = qo[Len(q)] /\ QueryHere(b, q, qo)
    BY DEF PathHere
  <1>3. b \in Buffers(Alphabet) /\ s.req \in Reqs
    BY ONLY s \in States(Alphabet), StateFields
  <1>4. o \in Ptr /\ o + 1 \in 0 .. Cap /\ o < E /\ E \in Ptr /\ o # E
    BY ONLY <1>1, 0 < Len(q) DEF Ptr
  <1>5. u \in States(Alphabet)
    <2>1. Ended(b, o) \in Buffers(Alphabet)
      BY ONLY <1>3, <1>4, NulWritten DEF Ended
    <2> QED
      BY ONLY <1>3, <1>4, <2>1, u = [buf |-> Ended(s.buf, o), req |-> s.req, p |-> o + 1], StateIs
  <1>6. u.buf = Ended(b, o) /\ u.p = o + 1 /\ u.req = s.req
    BY ONLY u = [buf |-> Ended(s.buf, o), req |-> s.req, p |-> o + 1]
  <1>7. QueryAt(u, b, q, qo, s.req, 0)
    <2>1. u.req \in Reqs /\ u.req.query = <<>>
      BY ONLY <1>3, <1>6, s.req.query = <<>>
    <2>2. QueryAt(u, b, q, qo, u.req, 0)
      BY ONLY <1>2, <1>6, <2>1, 0 < Len(q), QueryStart
    <2> QED
      BY ONLY <1>6, <2>2
  <1>8. y \in States(Alphabet) /\ QueryAt(y, b, q, qo, s.req, Len(q))
    BY ONLY <1>2, <1>5, <1>7, QueryTaken
  <1> HIDE DEF b, y
  <1>9. /\ y.req = [s.req EXCEPT !.query = y.req.query]
        /\ Kept(y.req.query, Len(q), QKeys(q, qo), QVals(q, qo))
        /\ Stored(Ended(y.buf, E), Len(q), QKeys(q, qo), QVals(q, qo), q, E + 1)
        /\ (\A i \in 0 .. o - 1 : y.buf[i] = b[i]) /\ y.buf[o] = NUL
        /\ \A i \in E + 1 .. Cap - 1 : y.buf[i] = b[i]
    BY ONLY <1>2, <1>8 DEF QueryAt
  <1>10. y.req.method = s.req.method /\ y.req.protocol = s.req.protocol /\ y.req.headers = s.req.headers
    BY ONLY <1>3, <1>9 DEF Reqs
  <1>11. Ended(y.buf, E)[o] = NUL
    <2>1. DOMAIN y.buf = Ptr
      BY ONLY <1>8, StateFields DEF Buffers
    <2> QED
      BY ONLY <1>4, <1>9, <2>1, EndedIs
  <1> QED
    BY ONLY <1>8, <1>9, <1>10, <1>11 DEF QueryDone, y, b

\* Without a query.
LEMMA NoQuery ==
    ASSUME NEW s \in States(Alphabet), NEW P, NEW t, NEW q, NEW qo, NEW o, NEW E, PathHere(s.buf, P, t, q, qo, o, E),
           s.req.query = <<>>, Len(q) = 0
    PROVE  QueryDone(s, s.buf, s.req, q, qo, o, E)
  <1>1. /\ P \in Nat /\ o \in Nat /\ E \in Nat /\ Cap \in Nat /\ Len(t) \in Nat /\ Len(q) \in Nat
        /\ P < o /\ o <= E /\ E <= Cap - 2 /\ o = P + Len(t) /\ E \in 0 .. Cap - 2
        /\ (0 < Len(q) => o < E) /\ (Len(q) = 0 => o = E)
    BY PathNumbers
  <1>2. E \in Ptr /\ o = E
    BY ONLY <1>1, Len(q) = 0 DEF Ptr
  <1>3. Kept(s.req.query, Len(q), QKeys(q, qo), QVals(q, qo))
    <2>1. Len(<<>>) = 0 /\ Room(0) = 0 /\ 1 .. 0 = {}
      BY ONLY CapAssumption DEF Room
    <2> QED
      BY ONLY <2>1, s.req.query = <<>>, Len(q) = 0 DEF Kept
  <1>4. Stored(Ended(s.buf, E), Len(q), QKeys(q, qo), QVals(q, qo), q, E + 1)
    <2>1. \A i \in 1 .. 0 : FALSE
      OBVIOUS
    <2> QED
      BY ONLY <2>1, Len(q) = 0 DEF Stored
  <1>5. Ended(s.buf, E)[o] = NUL
    <2>1. DOMAIN s.buf = Ptr
      BY ONLY s \in States(Alphabet), StateFields DEF Buffers
    <2> QED
      BY ONLY <1>2, <2>1, EndedIs
  <1> QED
    BY ONLY <1>3, <1>4, <1>5, s \in States(Alphabet) DEF QueryDone

\* The stage, when the space has arrived.
LEMMA PathParsed ==
    ASSUME NEW s \in States(Alphabet), NEW P, P = s.p, NEW t, NEW q, NEW qo, NEW o, NEW E,
           PathHere(s.buf, P, t, q, qo, o, E), s.req.query = <<>>, NEW end, ~TooShort(P, end, 13)
    PROVE  PathDone(http_parse_path(s, end), s.buf, s.req, P, t, q, qo, E)
  <1> DEFINE b == s.buf
             y == http_parse_path(s, end)
             query == strchr(b, P, "?")
             u == [s EXCEPT !.buf[query] = NUL, !.p = query + 1]
             x == IF ~BeforeEnd(query, E) THEN s ELSE ParseQuery(u, E)
  <1>1. /\ P \in Nat /\ o \in Nat /\ E \in Nat /\ Cap \in Nat /\ Len(t) \in Nat /\ Len(q) \in Nat
        /\ P < o /\ o <= E /\ E <= Cap - 2 /\ o = P + Len(t) /\ E \in 0 .. Cap - 2
        /\ (0 < Len(q) => o < E) /\ (Len(q) = 0 => o = E)
    BY PathNumbers
  <1>2. b \in Buffers(Alphabet) /\ s.req \in Reqs /\ s = [buf |-> s.buf, req |-> s.req, p |-> s.p]
    BY ONLY s \in States(Alphabet), StateFields DEF States
  <1>3. /\ b[P] = "/" /\ strchr(b, P, " ") = E
        /\ 0 < Len(q) => query = o
        /\ Len(q) = 0 => ~BeforeEnd(query, E)
    BY ONLY <1>2, PathHere(s.buf, P, t, q, qo, o, E), PathFound
  <1>4. E # NULL /\ o # NULL
    BY ONLY <1>1 DEF NULL
  <1>5. y = [x EXCEPT !.buf[E] = NUL, !.req.path = P, !.p = E + 1]
    BY ONLY <1>3, <1>4, P = s.p, ~TooShort(P, end, 13) DEF http_parse_path, y, x, u, query, b
  <1>6. QueryDone(x, b, s.req, q, qo, o, E)
    <2>1. CASE Len(q) = 0
      <3>1. x = s
        BY ONLY <1>3, <2>1
      <3> QED
        BY ONLY <2>1, <3>1, s \in States(Alphabet), PathHere(s.buf, P, t, q, qo, o, E), s.req.query = <<>>, NoQuery DEF b
    <2>2. CASE Len(q) # 0
      <3>1. 0 < Len(q)
        BY ONLY <1>1, <2>2
      <3>2. query = o /\ BeforeEnd(query, E)
        BY ONLY <1>1, <1>3, <1>4, <3>1 DEF BeforeEnd
      <3>3. u = [buf |-> Ended(s.buf, o), req |-> s.req, p |-> o + 1]
        <4>1. u = [s EXCEPT !.buf[o] = NUL, !.p = o + 1]
          BY ONLY <3>2 DEF u
        <4> DEFINE w == [s EXCEPT !.buf[o] = NUL]
        <4>2. w = [buf |-> Ended(s.buf, o), req |-> s.req, p |-> s.p]
          BY ONLY <1>2 DEF w, Ended
        <4>3. u = [w EXCEPT !.p = o + 1]
          BY ONLY <4>1 DEF w
        <4> HIDE DEF w, u
        <4> QED
          BY ONLY <4>2, <4>3
      <3>4. x = ParseQuery(u, E)
        BY ONLY <3>2 DEF x
      <3> HIDE DEF u, x
      <3> QED
        BY ONLY <3>1, <3>3, <3>4, s \in States(Alphabet), PathHere(s.buf, P, t, q, qo, o, E), s.req.query = <<>>, QueryParsed DEF b
    <2> QED
      BY ONLY <2>1, <2>2
  <1> HIDE DEF x
  <1>7. /\ x \in States(Alphabet)
        /\ x.req.method = s.req.method /\ x.req.protocol = s.req.protocol /\ x.req.headers = s.req.headers
        /\ Kept(x.req.query, Len(q), QKeys(q, qo), QVals(q, qo))
        /\ Stored(Ended(x.buf, E), Len(q), QKeys(q, qo), QVals(q, qo), q, E + 1)
        /\ (\A i \in 0 .. o - 1 : x.buf[i] = b[i]) /\ Ended(x.buf, E)[o] = NUL
        /\ \A i \in E + 1 .. Cap - 1 : x.buf[i] = b[i]
    BY ONLY <1>6 DEF QueryDone
  <1>8. x = [buf |-> x.buf, req |-> x.req, p |-> x.p] /\ DOMAIN x.buf = Ptr /\ x.req \in Reqs
    BY ONLY <1>7, StateFields DEF States, Buffers
  <1>9. y = [buf |-> Ended(x.buf, E), req |-> [x.req EXCEPT !.path = P], p |-> E + 1]
    BY ONLY <1>5, <1>8 DEF Ended
  <1>10. y \in States(Alphabet)
    BY ONLY s \in States(Alphabet), PathIs
  <1> HIDE DEF y, b
  <1>11. y.buf = Ended(x.buf, E) /\ y.p = E + 1 /\ y.req = [x.req EXCEPT !.path = P]
    BY ONLY <1>9
  <1>12. /\ y.req.method = s.req.method /\ y.req.path = P
         /\ y.req.protocol = s.req.protocol /\ y.req.headers = s.req.headers /\ y.req.query = x.req.query
    BY ONLY <1>7, <1>8, <1>11 DEF Reqs
  <1>13. E \in Ptr /\ (\A i \in P .. o - 1 : i \in Ptr /\ i # E /\ i \in 0 .. o - 1)
         /\ (\A i \in E + 1 .. Cap - 1 : i \in Ptr /\ i # E) /\ P + Len(t) < E + 1 /\ P + Len(t) = o
    BY ONLY <1>1 DEF Ptr
  <1>14. \A i \in Ptr : i # E => y.buf[i] = x.buf[i]
    BY ONLY <1>8, <1>11, <1>13, EndedIs
  <1>15. StringAt(y.buf, P, t, E + 1)
    <2>1. t \in Text /\ TextAt(b, P, t)
      BY ONLY PathHere(s.buf, P, t, q, qo, o, E) DEF PathHere, b
    <2>2. \A i \in P .. o - 1 : y.buf[i] = b[i]
      BY ONLY <1>7, <1>13, <1>14
    <2>3. TextAt(y.buf, P, t)
      <3>1. P \in Nat /\ o = P + Len(t)
        BY ONLY <1>1
      <3>2. \A i \in P .. P + Len(t) - 1 : y.buf[i] = b[i]
        BY ONLY <2>2, <3>1
      <3> QED
        BY ONLY <2>1, <3>1, <3>2, TextSame
    <2>4. y.buf[P + Len(t)] = NUL
      BY ONLY <1>7, <1>11, <1>13
    <2> QED
      BY ONLY <1>1, <1>13, <2>3, <2>4 DEF StringAt
  <1>16. \A i \in E + 1 .. Cap - 1 : y.buf[i] = b[i]
    BY ONLY <1>7, <1>13, <1>14
  <1> QED
    BY ONLY <1>7, <1>10, <1>11, <1>12, <1>15, <1>16 DEF PathDone, y, b

\* The four bytes at p.
LEMMA FourIs ==
    ASSUME NEW b, NEW p \in Nat, NEW w, NEW x, NEW y, NEW z,
           b[p] = w, b[p + 1] = x, b[p + 2] = y, b[p + 3] = z
    PROVE  Four(b, p) = <<w, x, y, z>>
  <1>1. \A i \in 1 .. 4 : i = 1 \/ i = 2 \/ i = 3 \/ i = 4
    OBVIOUS
  <1>2. p + 1 - 1 = p /\ p + 2 - 1 = p + 1 /\ p + 3 - 1 = p + 2 /\ p + 4 - 1 = p + 3
    OBVIOUS
  <1>3. \A i \in 1 .. 4 : b[p + i - 1] = <<w, x, y, z>>[i]
    BY <1>1, <1>2
  <1>4. <<w, x, y, z>> = [i \in 1 .. 4 |-> <<w, x, y, z>>[i]]
    OBVIOUS
  <1> QED
    BY ONLY <1>3, <1>4 DEF Four

-----------------------------------------------------------------------------
(* The protocol.                                                           *)

\* The protocol lies at p and its "\r" at e.
ProtocolHere(b, p, e) ==
    /\ p \in Nat /\ e = p + 8 /\ e < Cap - 1
    /\ \A j \in 2 .. 10 : b[p + j - 2] = ProtocolLine[j]

LEMMA ProtocolFound ==
    ASSUME NEW b, NEW p, NEW e, ProtocolHere(b, p, e)
    PROVE  strchr(b, p, "\r") = e /\ Four(b, p) = <<"H", "T", "T", "P">>
  <1>1. p \in Nat /\ e = p + 8 /\ e < Cap - 1 /\ Cap \in Nat
    BY CapAssumption DEF ProtocolHere
  <1>2. \A j \in 2 .. 10 : b[p + j - 2] = ProtocolLine[j]
    BY DEF ProtocolHere
  <1>3. ProtocolLine \in Seq(Alphabet) /\ Len(ProtocolLine) = 11
    BY Characters DEF Text
  <1>4. /\ ProtocolLine[2] = "H" /\ ProtocolLine[3] = "T"
        /\ ProtocolLine[4] = "T" /\ ProtocolLine[5] = "P" /\ ProtocolLine[10] = "\r"
        /\ \A j \in 2..9 : ProtocolLine[j] # "\r"
    BY ProtocolLineIs
  <1>5. ASSUME NEW i \in p .. e - 1 PROVE b[i] \notin {"\r", NUL}
    <2>1. PICK j : j = i - p + 2
      OBVIOUS
    <2>2. j \in 2 .. 9 /\ j \in 2 .. 10 /\ p + j - 2 = i /\ j \in 1 .. 11
      BY ONLY <1>1, <1>5, <2>1
    <2>3. b[i] = ProtocolLine[j]
      BY ONLY <1>2, <2>2
    <2>4. ProtocolLine[j] \in Alphabet
      <3>1. \A t \in Seq(Alphabet) : \A k \in 1 .. Len(t) : t[k] \in Alphabet
        OBVIOUS
      <3>2. j \in 1 .. Len(ProtocolLine)
        BY ONLY <1>3, <2>2
      <3> QED
        BY ONLY <1>3, <3>1, <3>2
    <2>5. ProtocolLine[j] # NUL
      BY ONLY <2>4, AlphabetAssumption
    <2>6. ProtocolLine[j] # "\r"
      BY ONLY <1>4, <2>2
    <2> QED
      BY ONLY <2>3, <2>5, <2>6
  <1>6. b[e] = "\r"
    <2>1. 10 \in 2 .. 10 /\ p + 10 - 2 = e
      BY ONLY <1>1
    <2> QED
      BY ONLY <1>2, <1>4, <2>1
  <1>7. strchr(b, p, "\r") = e
    <2>1. p \in Nat /\ e \in Nat /\ p <= e /\ e < Cap
      BY ONLY <1>1
    <2>2. "\r" # NUL
      BY DEF NUL
    <2>3. FoundAt(b, p, e, "\r")
      BY ONLY <1>5, <1>6, <2>1, <2>2 DEF FoundAt
    <2> QED
      BY ONLY <2>3, StrchrOf
  <1>8. b[p] = "H" /\ b[p + 1] = "T" /\ b[p + 2] = "T" /\ b[p + 3] = "P"
    <2>1. /\ 2 \in 2 .. 10 /\ 3 \in 2 .. 10 /\ 4 \in 2 .. 10 /\ 5 \in 2 .. 10
          /\ p + 2 - 2 = p /\ p + 3 - 2 = p + 1 /\ p + 4 - 2 = p + 2 /\ p + 5 - 2 = p + 3
      BY ONLY <1>1
    <2> QED
      BY ONLY <1>2, <1>4, <2>1
  <1>9. Four(b, p) = <<"H", "T", "T", "P">>
    BY ONLY <1>8, <1>1, FourIs
  <1> QED
    BY ONLY <1>7, <1>9

\* What the stage leaves.
LEMMA ProtocolParsed ==
    ASSUME NEW s \in States(Alphabet), NEW p, p = s.p, NEW e, ProtocolHere(s.buf, p, e), NEW end, ~TooShort(p, end, 11)
    PROVE  http_parse_protocol(s, end) =
               [buf |-> Ended(s.buf, e), req |-> [s.req EXCEPT !.protocol = p], p |-> e + 2]
  <1>1. strchr(s.buf, s.p, "\r") = e /\ Four(s.buf, s.p) = <<"H", "T", "T", "P">>
    BY ProtocolFound
  <1>2. e # NULL
    BY DEF ProtocolHere, NULL
  <1>3. s = [buf |-> s.buf, req |-> s.req, p |-> s.p]
    BY DEF States
  <1>4. http_parse_protocol(s, end) = [s EXCEPT !.req.protocol = s.p, !.buf[e] = NUL, !.p = e + 2]
    BY ONLY <1>1, <1>2, p = s.p, ~TooShort(p, end, 11) DEF http_parse_protocol
  <1>5. http_parse_protocol(s, end) =
               [buf |-> Ended(s.buf, e), req |-> [s.req EXCEPT !.protocol = s.p], p |-> e + 2]
    BY ONLY <1>3, <1>4 DEF Ended
  <1> QED
    BY ONLY <1>5, p = s.p

-----------------------------------------------------------------------------
(* The header lines.                                                       *)

\* A header line at a: the key K, ':' at d, the value V at c and "\r" at f.
Line(s, a, d, c, f, K, V) ==
    /\ a \in Nat /\ d \in Nat /\ c \in Nat /\ f \in Nat /\ K \in Text /\ V \in Text
    /\ d = a + Len(K) /\ c = d + 2 /\ f = c + Len(V)
    /\ FreeOf(K, {":", "\r"}) /\ FreeOf(V, {"\r"})
    /\ Piece(s, a, K) /\ CharAt(s, d) = ":" /\ CharAt(s, d + 1) = " " /\ Piece(s, c, V) /\ CharAt(s, f) = "\r"

\* Its characters.
LEMMA LineChars ==
    ASSUME NEW s, NEW a, NEW d, NEW c, NEW f, NEW K, NEW V, Line(s, a, d, c, f, K, V)
    PROVE  /\ \A i \in a .. f - 1 : CharAt(s, i) \notin {"\r", NUL}
           /\ \A i \in a .. d - 1 : CharAt(s, i) \notin {":", NUL}
  <1>1. /\ a \in Nat /\ d \in Nat /\ c \in Nat /\ f \in Nat
        /\ d = a + Len(K) /\ c = d + 2 /\ f = c + Len(V)
    BY DEF Line
  <1>2. /\ K \in Text /\ V \in Text
        /\ FreeOf(K, {":", "\r"}) /\ FreeOf(V, {"\r"})
        /\ Piece(s, a, K) /\ Piece(s, c, V)
    BY DEF Line
  <1>3. CharAt(s, d) = ":" /\ CharAt(s, d + 1) = " "
    BY DEF Line
  <1>4. Len(K) \in Nat /\ Len(V) \in Nat
    BY ONLY <1>2 DEF Text
  <1>5. \A i \in a .. a + Len(K) - 1 : CharAt(s, i) \notin {":", "\r"} /\ CharAt(s, i) # NUL
    BY ONLY <1>1, <1>2, PieceChars
  <1>6. \A i \in c .. c + Len(V) - 1 : CharAt(s, i) \notin {"\r"} /\ CharAt(s, i) # NUL
    BY ONLY <1>1, <1>2, PieceChars
  <1>7. \A i \in a .. d - 1 : i \in a .. a + Len(K) - 1
    BY ONLY <1>1, <1>4
  <1>8. \A i \in a .. f - 1 : i \in a .. a + Len(K) - 1 \/ i = d \/ i = d + 1 \/ i \in c .. c + Len(V) - 1
    BY ONLY <1>1, <1>4
  <1>9. ASSUME NEW i \in a .. f - 1 PROVE CharAt(s, i) \notin {"\r", NUL}
    <2>1. CASE i \in a .. a + Len(K) - 1
      BY ONLY <1>5, <2>1
    <2>2. CASE i = d
      BY ONLY <1>3, <2>2 DEF NUL
    <2>3. CASE i = d + 1
      BY ONLY <1>3, <2>3 DEF NUL
    <2>4. CASE i \in c .. c + Len(V) - 1
      BY ONLY <1>6, <2>4
    <2> QED
      BY ONLY <1>8, <1>9, <2>1, <2>2, <2>3, <2>4
  <1>10. ASSUME NEW i \in a .. d - 1 PROVE CharAt(s, i) \notin {":", NUL}
    BY ONLY <1>5, <1>7, <1>10
  <1> QED
    BY ONLY <1>9, <1>10

\* The buffer holds the first len characters of the text from a on, and zeroes.
HoldsFrom(b, s, len, a) ==
    /\ b \in Buffers(Alphabet) /\ len \in Ptr /\ a \in Nat
    /\ \A i \in a .. len - 1 : b[i] = CharAt(s, i)
    /\ \A i \in a .. Cap - 1 : i >= len => b[i] = NUL

\* A line that has arrived is found; of one that has not, no end is found.
LEMMA LineFound ==
    ASSUME NEW s, NEW a, NEW d, NEW c, NEW f, NEW K, NEW V, Line(s, a, d, c, f, K, V),
           NEW b, NEW len, HoldsFrom(b, s, len, a), a < len
    PROVE  /\ f < len => /\ strchr(b, a, "\r") = f /\ strchr(b, a, ":") = d
                         /\ TextAt(b, a, K) /\ TextAt(b, c, V)
           /\ len <= f => strchr(b, a, "\r") = NULL
  <1>1. /\ a \in Nat /\ d \in Nat /\ c \in Nat /\ f \in Nat
        /\ d = a + Len(K) /\ c = d + 2 /\ f = c + Len(V)
    BY DEF Line
  <1>2. K \in Text /\ V \in Text /\ Piece(s, a, K) /\ Piece(s, c, V)
    BY DEF Line
  <1>3. CharAt(s, d) = ":" /\ CharAt(s, f) = "\r"
    BY DEF Line
  <1>4. Len(K) \in Nat /\ Len(V) \in Nat
    BY ONLY <1>2 DEF Text
  <1>5. /\ \A i \in a .. f - 1 : CharAt(s, i) \notin {"\r", NUL}
        /\ \A i \in a .. d - 1 : CharAt(s, i) \notin {":", NUL}
    BY ONLY Line(s, a, d, c, f, K, V), LineChars
  <1>6. /\ \A i \in a .. len - 1 : b[i] = CharAt(s, i)
        /\ \A i \in a .. Cap - 1 : i >= len => b[i] = NUL
        /\ len \in Nat /\ len <= Cap - 1 /\ Cap \in Nat /\ b[Cap - 1] = NUL
    BY CapAssumption DEF HoldsFrom, Ptr, Buffers
  <1>7. len \in Nat /\ len <= Cap - 1 /\ Cap \in Nat
    BY ONLY <1>6
  <1>8. "\r" # NUL /\ ":" # NUL
    BY DEF NUL
  <1>9. ASSUME f < len
        PROVE  strchr(b, a, "\r") = f /\ strchr(b, a, ":") = d /\ TextAt(b, a, K) /\ TextAt(b, c, V)
    <2>1. /\ \A i \in a .. f - 1 : i \in a .. len - 1
          /\ \A i \in a .. d - 1 : i \in a .. len - 1
          /\ \A i \in a .. a + Len(K) - 1 : i \in a .. len - 1
          /\ \A i \in c .. c + Len(V) - 1 : i \in a .. len - 1
          /\ d \in a .. len - 1 /\ f \in a .. len - 1
      BY ONLY <1>1, <1>4, <1>7, <1>9
    <2>2. a <= f /\ a <= d /\ f < Cap /\ d < Cap /\ a \in Nat /\ f \in Nat /\ d \in Nat
      BY ONLY <1>1, <1>4, <1>7, <1>9
    <2>3. b[f] = "\r" /\ b[d] = ":"
      BY ONLY <1>3, <1>6, <2>1
    <2>4. /\ \A i \in a .. f - 1 : b[i] \notin {"\r", NUL}
          /\ \A i \in a .. d - 1 : b[i] \notin {":", NUL}
      BY ONLY <1>5, <1>6, <2>1
    <2>5. FoundAt(b, a, f, "\r") /\ FoundAt(b, a, d, ":")
      BY ONLY <1>8, <2>2, <2>3, <2>4 DEF FoundAt
    <2>6. strchr(b, a, "\r") = f /\ strchr(b, a, ":") = d
      BY ONLY <2>5, StrchrOf
    <2>7. TextAt(b, a, K)
      <3>1. \A i \in a .. a + Len(K) - 1 : b[i] = CharAt(s, i)
        BY ONLY <1>6, <2>1
      <3> QED
        BY ONLY <1>1, <1>2, <3>1, PieceText
    <2>8. TextAt(b, c, V)
      <3>1. \A i \in c .. c + Len(V) - 1 : b[i] = CharAt(s, i)
        BY ONLY <1>6, <2>1
      <3> QED
        BY ONLY <1>1, <1>2, <3>1, PieceText
    <2> QED
      BY ONLY <2>6, <2>7, <2>8
  <1>10. ASSUME len <= f PROVE strchr(b, a, "\r") = NULL
    <2>1. (\A i \in a .. len - 1 : i \in a .. f - 1) /\ len \in a .. Cap - 1 /\ len >= len
          /\ a <= len /\ len < Cap
      BY ONLY <1>1, <1>7, <1>10, a < len
    <2>2. b[len] = NUL /\ b[Cap - 1] = NUL
      BY ONLY <1>6, <2>1
    <2>3. \A i \in a .. len - 1 : b[i] # "\r"
      BY ONLY <1>5, <1>6, <2>1
    <2>4. a \in Nat /\ len \in Nat
      BY ONLY <1>1, <1>7
    <2> QED
      BY ONLY <1>8, <2>1, <2>2, <2>3, <2>4, StrchrNone
  <1> QED
    BY ONLY <1>9, <1>10

\* A round that takes a line with its "\r" at f and its ':' at d.
LEMMA HeaderRoundTakes ==
    ASSUME NEW x \in States(Alphabet), NEW end, NEW a \in Nat, a = x.p, ~(a >= end),
           NEW f \in Nat, f = strchr(x.buf, a, "\r"), ~(f - a < 5),
           NEW d \in Nat, d = strchr(x.buf, a, ":"), ~(d >= f)
    PROVE  HeaderRound(x, end) =
             [buf |-> Ended(Ended(x.buf, d), f),
              req |-> [x.req EXCEPT !.headers = kv_set_key_value(@, a, d + 2)], p |-> f + 2]
  <1>1. x = [buf |-> x.buf, req |-> x.req, p |-> x.p]
    BY DEF States
  <1>2. f # NULL /\ d # NULL
    BY ONLY f \in Nat, d \in Nat DEF NULL
  <1> DEFINE t == [x EXCEPT !.buf = [@ EXCEPT ![d] = NUL, ![f] = NUL],
                            !.req.headers = kv_set_key_value(@, x.p, d + 2)]
  <1>3. HeaderRound(x, end) = [t EXCEPT !.p = f + 2]
    BY ONLY <1>2, a = x.p, ~(a >= end), f = strchr(x.buf, a, "\r"), ~(f - a < 5),
            d = strchr(x.buf, a, ":"), ~(d >= f) DEF HeaderRound, EndOfLine
  <1>4. t = [buf |-> Ended(Ended(x.buf, d), f),
             req |-> [x.req EXCEPT !.headers = kv_set_key_value(@, x.p, d + 2)], p |-> x.p]
    <2> DEFINE u == [x EXCEPT !.buf = [@ EXCEPT ![d] = NUL, ![f] = NUL]]
    <2>1. u = [buf |-> Ended(Ended(x.buf, d), f), req |-> x.req, p |-> x.p]
      BY ONLY <1>1 DEF Ended
    <2>2. t = [u EXCEPT !.req.headers = kv_set_key_value(@, x.p, d + 2)]
      OBVIOUS
    <2> HIDE DEF u, t
    <2> QED
      BY ONLY <2>1, <2>2
  <1> HIDE DEF t
  <1> QED
    BY ONLY <1>3, <1>4, a = x.p

\* A round that finds no line, or a short one.
LEMMA HeaderRoundLeaves ==
    ASSUME NEW x \in States(Alphabet), NEW end, ~(x.p >= end),
           NEW f, f = strchr(x.buf, x.p, "\r"), f = NULL \/ f - x.p < 5
    PROVE  HeaderRound(x, end) = [buf |-> x.buf, req |-> x.req, p |-> end]
  <1>1. x = [buf |-> x.buf, req |-> x.req, p |-> x.p]
    BY DEF States
  <1>2. HeaderRound(x, end) = [x EXCEPT !.p = end]
    BY DEF HeaderRound, EndOfLine
  <1> QED
    BY ONLY <1>1, <1>2

\* Where the keys and the values of the headers start.
HKeys(h, ho) == [i \in 1 .. Len(h) |-> ho[i - 1]]
HVals(h, ho) == [i \in 1 .. Len(h) |-> ho[i - 1] + Len(h[i].key) + 2]

\* The separators do not occur in what they end.
HeaderFree(h) == \A n \in 1 .. Len(h) : FreeOf(h[n].key, {":", "\r"}) /\ FreeOf(h[n].value, {"\r"})

\* What has arrived of the header section s: its lines are h, from the positions ho.
HeadersHere(b, s, len, h, ho) ==
    /\ h \in Lists /\ HeaderFree(h) /\ ho \in [0 .. Len(h) -> Nat] /\ LaidHeaders(s, h, ho)
    /\ HoldsFrom(b, s, len, ho[0]) /\ CharAt(s, ho[Len(h)]) = "\r"

\* The loop was left before line n + 1: there is none, it has not arrived or it
\* is too short.
Left(h, ho, len, n) ==
    \/ n = Len(h)
    \/ \E m \in 1 .. Len(h) : m = n + 1 /\ (len + 1 < ho[m] \/ ShortHeader(h[m]))

\* The loop has taken n lines: they are stored and kept, what lies before them is
\* untouched, and what follows is as received.
HeadersAt(x, b, len, h, ho, rq, n) ==
    /\ x.req = [rq EXCEPT !.headers = x.req.headers]
    /\ Kept(x.req.headers, n, HKeys(h, ho), HVals(h, ho))
    /\ Stored(x.buf, n, HKeys(h, ho), HVals(h, ho), h, ho[n]) /\ ho[n] <= Cap
    /\ \A i \in 0 .. ho[0] - 1 : x.buf[i] = b[i]
    /\ \A i \in ho[n] .. Cap - 1 : x.buf[i] = b[i]
    /\ x.p = ho[n] \/ (x.p = len /\ Left(h, ho, len, n))

\* Line m, the one after n, starts at a and the next at e.
LineNames(h, ho, n, m, a, d, c, f, e, K, V) ==
    /\ m = n + 1 /\ a = ho[n] /\ e = ho[m] /\ K = h[m].key /\ V = h[m].value
    /\ d = a + Len(K) /\ c = a + Len(K) + 2 /\ f = a + Len(K) + 2 + Len(V)

LineAt(h, ho, m, a, c) == HKeys(h, ho)[m] = a /\ HVals(h, ho)[m] = c

LEMMA LinePositions ==
    ASSUME NEW b, NEW s, NEW len, NEW h, NEW ho, HeadersHere(b, s, len, h, ho), NEW n \in Nat, n < Len(h), NEW m,
           NEW a, NEW d, NEW c, NEW f, NEW e, NEW K, NEW V, LineNames(h, ho, n, m, a, d, c, f, e, K, V)
    PROVE  /\ Line(s, a, d, c, f, K, V) /\ e = f + 2 /\ LineAt(h, ho, m, a, c)
           /\ m \in 1 .. Len(h) /\ m \in Nat /\ ho[0] \in Nat /\ ho[0] <= a
  <1>0. /\ m = n + 1 /\ a = ho[n] /\ e = ho[m] /\ K = h[m].key /\ V = h[m].value
        /\ d = a + Len(K) /\ c = a + Len(K) + 2 /\ f = a + Len(K) + 2 + Len(V)
    BY ONLY LineNames(h, ho, n, m, a, d, c, f, e, K, V) DEF LineNames
  <1>1. h \in Lists /\ HeaderFree(h) /\ ho \in [0 .. Len(h) -> Nat] /\ LaidHeaders(s, h, ho)
    BY ONLY HeadersHere(b, s, len, h, ho) DEF HeadersHere
  <1>2. Len(h) \in Nat
    BY ONLY <1>1, ListLen
  <1>3. n \in 0 .. Len(h) /\ m \in 1 .. Len(h) /\ m - 1 = n /\ m \in Nat /\ 0 \in 0 .. Len(h)
    <2>1. m = n + 1
      BY ONLY <1>0
    <2> QED
      BY ONLY <1>2, <2>1, n \in Nat, n < Len(h)
  <1>4. a \in Nat /\ ho[0] \in Nat
    BY ONLY <1>0, <1>1, <1>3
  <1>5. LineLaid(s, a, h[m]) /\ ho[m] = a + Len(h[m].key) + Len(h[m].value) + 4
    BY ONLY <1>0, <1>1, <1>3 DEF LaidHeaders
  <1>6. K \in Text /\ V \in Text /\ Len(K) \in Nat /\ Len(V) \in Nat
    BY ONLY <1>0, <1>1, <1>3, ListPair
  <1>7. FreeOf(K, {":", "\r"}) /\ FreeOf(V, {"\r"})
    BY ONLY <1>0, <1>1, <1>3 DEF HeaderFree
  <1>8. LineAt(h, ho, m, a, c)
    BY ONLY <1>0, <1>3 DEF HKeys, HVals, LineAt
  <1>9. d = a + Len(K) /\ c = a + Len(K) + 2 /\ f = a + Len(K) + 2 + Len(V) /\ e = a + Len(K) + Len(V) + 4
    BY ONLY <1>0, <1>5
  <1>10. /\ d \in Nat /\ c \in Nat /\ f \in Nat /\ c = d + 2 /\ f = c + Len(V) /\ e = f + 2
         /\ a + Len(K) + 1 = d + 1 /\ a + Len(K) + 2 = (d + 1) + 1 /\ a + Len(K) + Len(V) + 3 = f + 1
    BY ONLY <1>4, <1>6, <1>9
  <1>11. /\ Piece(s, a, K) /\ CharAt(s, d) = ":" /\ CharAt(s, d + 1) = " " /\ Piece(s, c, V) /\ CharAt(s, f) = "\r"
    <2>1. /\ Piece(s, a, K)
          /\ s[a + Len(K) + 1] = ":" /\ s[a + Len(K) + 2] = " "
          /\ Piece(s, a + Len(K) + 2, V)
          /\ s[a + Len(K) + Len(V) + 3] = "\r"
      BY ONLY <1>0, <1>5 DEF LineLaid
    <2>2. c = a + Len(K) + 2
      BY ONLY <1>9
    <2> QED
      BY ONLY <1>10, <2>1, <2>2 DEF CharAt
  <1>12. Line(s, a, d, c, f, K, V)
    <2>1. d = a + Len(K)
      BY ONLY <1>9
    <2> QED
      BY ONLY <1>4, <1>6, <1>7, <1>10, <1>11, <2>1 DEF Line
  <1>13. ho[0] <= a
    <2>1. ASSUME NEW j \in 1 .. Len(h) PROVE ho[j - 1] <= ho[j]
      <3>0. PICK x, l, w : x = ho[j - 1] /\ l = Len(h[j].key) /\ w = Len(h[j].value)
        OBVIOUS
      <3>1. ho[j] = x + l + w + 4
        BY ONLY <1>1, <2>1, <3>0 DEF LaidHeaders
      <3>2. l \in Nat /\ w \in Nat
        BY ONLY <1>1, <2>1, <3>0, ListPair
      <3>3. x \in Nat
        <4>1. j - 1 \in 0 .. Len(h)
          BY ONLY <1>2, <2>1
        <4> QED
          BY ONLY <1>1, <3>0, <4>1
      <3>4. x <= ho[j]
        BY ONLY <3>1, <3>2, <3>3
      <3> QED
        BY ONLY <3>0, <3>4
    <2>2. \A j \in 0 .. Len(h) : ho[0] <= ho[j]
      BY ONLY <1>1, <1>2, <2>1, Rising
    <2> QED
      BY ONLY <1>0, <1>3, <2>2
  <1>14. e = f + 2
    BY ONLY <1>10
  <1> QED
    BY ONLY <1>3, <1>4, <1>8, <1>12, <1>13, <1>14

\* A buffer that agrees with what was received from a on holds it from a on.
LEMMA HoldsBehind ==
    ASSUME NEW b, NEW s, NEW len, NEW o, HoldsFrom(b, s, len, o), NEW a \in Nat, o <= a,
           NEW c \in Buffers(Alphabet), \A i \in a .. Cap - 1 : c[i] = b[i]
    PROVE  HoldsFrom(c, s, len, a)
  <1>1. /\ len \in Ptr /\ o \in Nat
        /\ \A i \in o .. len - 1 : b[i] = CharAt(s, i)
        /\ \A i \in o .. Cap - 1 : i >= len => b[i] = NUL
    BY DEF HoldsFrom
  <1>2. len \in Nat /\ len <= Cap - 1 /\ Cap \in Nat /\ o \in Nat
    BY ONLY <1>1, CapAssumption DEF Ptr
  <1>3. \A i \in a .. len - 1 : i \in o .. len - 1 /\ i \in a .. Cap - 1
    BY ONLY <1>2, o <= a, a \in Nat
  <1>4. \A i \in a .. Cap - 1 : i \in o .. Cap - 1
    BY ONLY <1>2, o <= a, a \in Nat
  <1>5. \A i \in a .. len - 1 : c[i] = CharAt(s, i)
    BY ONLY <1>1, <1>3, \A i \in a .. Cap - 1 : c[i] = b[i]
  <1>6. \A i \in a .. Cap - 1 : i >= len => c[i] = NUL
    BY ONLY <1>1, <1>4, \A i \in a .. Cap - 1 : c[i] = b[i]
  <1> QED
    BY ONLY <1>1, <1>5, <1>6, a \in Nat, c \in Buffers(Alphabet) DEF HoldsFrom

\* A round that moves the cursor to the end.
LEMMA HeadersLeft ==
    ASSUME NEW b, NEW len, NEW h, NEW ho, NEW rq, NEW n, NEW x, HeadersAt(x, b, len, h, ho, rq, n),
           Left(h, ho, len, n), NEW y, y = [buf |-> x.buf, req |-> x.req, p |-> len]
    PROVE  HeadersAt(y, b, len, h, ho, rq, n)
  <1>1. y.buf = x.buf /\ y.req = x.req /\ y.p = len
    OBVIOUS
  <1>2. /\ x.req = [rq EXCEPT !.headers = x.req.headers]
        /\ Kept(x.req.headers, n, HKeys(h, ho), HVals(h, ho))
        /\ Stored(x.buf, n, HKeys(h, ho), HVals(h, ho), h, ho[n]) /\ ho[n] <= Cap
        /\ \A i \in 0 .. ho[0] - 1 : x.buf[i] = b[i]
        /\ \A i \in ho[n] .. Cap - 1 : x.buf[i] = b[i]
    BY DEF HeadersAt
  <1> HIDE DEF HeadersAt
  <1> QED
    BY ONLY <1>1, <1>2, Left(h, ho, len, n) DEF HeadersAt

\* The round over line m.
LEMMA HeaderTaken ==
    ASSUME NEW b, NEW s, NEW len, NEW h, NEW ho, HeadersHere(b, s, len, h, ho), NEW n \in Nat, n < Len(h),
           NEW m, m = n + 1, NEW rq, NEW x \in States(Alphabet), HeadersAt(x, b, len, h, ho, rq, n),
           x.p = ho[n], ~(x.p >= len)
    PROVE  HeadersAt(HeaderRound(x, len), b, len, h, ho, rq, n) \/ HeadersAt(HeaderRound(x, len), b, len, h, ho, rq, m)
  <1>0. PICK a, e, K, V, ks, vs, xb, y, o :
               /\ a = ho[n] /\ e = ho[m] /\ K = h[m].key /\ V = h[m].value
               /\ ks = HKeys(h, ho) /\ vs = HVals(h, ho) /\ xb = x.buf /\ y = HeaderRound(x, len) /\ o = ho[0]
    OBVIOUS
  <1>1. PICK d, c, f : d = a + Len(K) /\ c = a + Len(K) + 2 /\ f = a + Len(K) + 2 + Len(V)
    OBVIOUS
  <1>2. LineNames(h, ho, n, m, a, d, c, f, e, K, V)
    BY ONLY <1>0, <1>1, m = n + 1 DEF LineNames
  <1>3. /\ Line(s, a, d, c, f, K, V) /\ e = f + 2 /\ LineAt(h, ho, m, a, c)
        /\ m \in 1 .. Len(h) /\ m \in Nat /\ ho[0] \in Nat /\ ho[0] <= a
    BY ONLY <1>2, HeadersHere(b, s, len, h, ho), n \in Nat, n < Len(h), LinePositions
  <1>4. o \in Nat /\ o <= a /\ m \in Nat
    BY ONLY <1>0, <1>3
  <1>5. /\ a \in Nat /\ d \in Nat /\ c \in Nat /\ f \in Nat
        /\ d = a + Len(K) /\ c = d + 2 /\ f = c + Len(V)
    BY ONLY <1>3 DEF Line
  <1>6. K \in Text /\ V \in Text
    BY ONLY <1>3 DEF Line
  <1>7. Len(K) \in Nat /\ Len(V) \in Nat
    BY ONLY <1>6 DEF Text
  <1>8. /\ x.req = [rq EXCEPT !.headers = x.req.headers]
        /\ Kept(x.req.headers, n, ks, vs)
        /\ Stored(xb, n, ks, vs, h, a)
        /\ \A i \in 0 .. o - 1 : xb[i] = b[i]
        /\ \A i \in a .. Cap - 1 : xb[i] = b[i]
    BY ONLY <1>0, HeadersAt(x, b, len, h, ho, rq, n) DEF HeadersAt
  <1>9. /\ xb \in Buffers(Alphabet) /\ DOMAIN xb = Ptr /\ x.req \in Reqs /\ x.req.headers \in Pairs
    BY ONLY <1>0, x \in States(Alphabet), StateFields DEF Buffers
  <1>10. HoldsFrom(b, s, len, o) /\ h \in Lists
    BY ONLY <1>0, HeadersHere(b, s, len, h, ho) DEF HeadersHere
  <1>11. HoldsFrom(xb, s, len, a)
    BY ONLY <1>4, <1>5, <1>8, <1>9, <1>10, HoldsBehind
  <1>12. len \in Nat /\ len <= Cap - 1 /\ Cap \in Nat
    BY ONLY <1>10, CapAssumption DEF HoldsFrom, Ptr
  <1>13. a < len /\ x.p = a
    <2>1. x.p = a /\ ~(a >= len)
      BY ONLY <1>0, x.p = ho[n], ~(x.p >= len)
    <2> QED
      BY ONLY <1>5, <1>12, <2>1
  <1>14. /\ f < len => /\ strchr(xb, a, "\r") = f /\ strchr(xb, a, ":") = d
                       /\ TextAt(xb, a, K) /\ TextAt(xb, c, V)
         /\ len <= f => strchr(xb, a, "\r") = NULL
    BY ONLY <1>3, <1>11, <1>13, LineFound
  <1>15. CASE len <= f
    <2>1. len + 1 < e
      BY ONLY <1>3, <1>5, <1>12, <1>15
    <2>2. Left(h, ho, len, n)
      BY ONLY <1>0, <1>3, <2>1, m = n + 1 DEF Left
    <2>3. strchr(x.buf, x.p, "\r") = NULL
      BY ONLY <1>0, <1>13, <1>14, <1>15
    <2>4. y = [buf |-> x.buf, req |-> x.req, p |-> len]
      BY ONLY <1>0, <2>3, x \in States(Alphabet), ~(x.p >= len), HeaderRoundLeaves
    <2>5. HeadersAt(y, b, len, h, ho, rq, n)
      BY ONLY <2>2, <2>4, HeadersAt(x, b, len, h, ho, rq, n), HeadersLeft
    <2> QED
      BY ONLY <1>0, <2>5
  <1>16. CASE f < len /\ f - a < 5
    <2>1. Len(K) + 2 + Len(V) < 5
      BY ONLY <1>5, <1>7, <1>16
    <2>2. ShortHeader(h[m])
      BY ONLY <1>0, <2>1 DEF ShortHeader
    <2>3. Left(h, ho, len, n)
      BY ONLY <1>3, <2>2, m = n + 1 DEF Left
    <2>4. strchr(x.buf, x.p, "\r") = f /\ f - x.p < 5
      BY ONLY <1>0, <1>13, <1>14, <1>16
    <2>5. y = [buf |-> x.buf, req |-> x.req, p |-> len]
      BY ONLY <1>0, <2>4, x \in States(Alphabet), ~(x.p >= len), HeaderRoundLeaves
    <2>6. HeadersAt(y, b, len, h, ho, rq, n)
      BY ONLY <2>3, <2>5, HeadersAt(x, b, len, h, ho, rq, n), HeadersLeft
    <2> QED
      BY ONLY <1>0, <2>6
  <1>17. CASE f < len /\ ~(f - a < 5)
    <2>1. d \in Ptr /\ f \in Ptr /\ a \in Ptr /\ c \in Ptr /\ d # f /\ ~(d >= f) /\ d < c /\ a <= d /\ f < e /\ e \in Nat
      <3>1. e = f + 2
        BY ONLY <1>3
      <3> QED
        BY ONLY <1>5, <1>7, <1>12, <1>17, <3>1 DEF Ptr
    <2>2. strchr(x.buf, a, "\r") = f /\ strchr(x.buf, a, ":") = d /\ TextAt(xb, a, K) /\ TextAt(xb, c, V)
      BY ONLY <1>0, <1>14, <1>17
    <2>3. ~(a >= len) /\ a = x.p
      BY ONLY <1>5, <1>12, <1>13
    <2>4. y = [buf |-> Ended(Ended(x.buf, d), f),
              req |-> [x.req EXCEPT !.headers = kv_set_key_value(@, a, d + 2)], p |-> f + 2]
      BY ONLY <1>0, <1>5, <1>17, <2>1, <2>2, <2>3, x \in States(Alphabet), HeaderRoundTakes
    <2>5. y.buf = Ended(Ended(xb, d), f) /\ y.req = [x.req EXCEPT !.headers = kv_set_key_value(@, a, c)] /\ y.p = e
      BY ONLY <1>0, <1>3, <1>5, <2>4
    <2>6. y.req.headers = kv_set_key_value(x.req.headers, a, c) /\ y.req = [rq EXCEPT !.headers = y.req.headers]
      <3>1. PICK z : z = kv_set_key_value(x.req.headers, a, c)
        OBVIOUS
      <3>2. y.req = [x.req EXCEPT !.headers = z]
        BY ONLY <2>5, <3>1
      <3>3. y.req.headers = z
        BY ONLY <1>9, <3>2 DEF Reqs
      <3>4. y.req = [rq EXCEPT !.headers = z]
        BY ONLY <1>8, <3>2
      <3> QED
        BY ONLY <3>1, <3>3, <3>4
    <2>7. ks[m] = a /\ vs[m] = c
      BY ONLY <1>0, <1>3 DEF LineAt
    <2>8. Kept(y.req.headers, m, ks, vs)
      <3>1. Kept(kv_set_key_value(x.req.headers, ks[m], vs[m]), m, ks, vs)
        BY ONLY <1>8, <1>9, <2>1, <2>7, n \in Nat, m = n + 1, KeptNext
      <3> QED
        BY ONLY <2>6, <2>7, <3>1
    <2>9. y.buf[d] = NUL /\ y.buf[f] = NUL /\ \A i \in Ptr : i # d /\ i # f => y.buf[i] = xb[i]
      <3>1. PICK u : u = Ended(xb, d)
        OBVIOUS
      <3>2. DOMAIN u = Ptr /\ u[d] = NUL /\ \A i \in Ptr : i # d => u[i] = xb[i]
        BY ONLY <1>9, <2>1, <3>1, EndedIs
      <3>3. Ended(u, f)[f] = NUL /\ \A i \in Ptr : i # f => Ended(u, f)[i] = u[i]
        BY ONLY <2>1, <3>2, EndedIs
      <3>4. y.buf = Ended(u, f)
        BY ONLY <2>5, <3>1
      <3> QED
        BY ONLY <2>1, <3>2, <3>3, <3>4
    <2>10. Cut(y.buf, xb, xb, a, d, c, f, K, V)
      <3>1. /\ \A i \in 0 .. a - 1 : i \in Ptr /\ i # d /\ i # f
            /\ \A i \in a .. f - 1 : i \in Ptr /\ i # f
        BY ONLY <1>5, <1>12, <1>17, <2>1 DEF Ptr
      <3>2. \A i \in 0 .. a - 1 : y.buf[i] = xb[i]
        BY ONLY <2>9, <3>1
      <3>3. \A i \in a .. f - 1 : i # d => y.buf[i] = xb[i]
        BY ONLY <2>9, <3>1
      <3> QED
        BY ONLY <1>5, <1>6, <2>1, <2>2, <2>9, <3>2, <3>3 DEF Cut
    <2>11. Follows(h, ks, vs, n, m, a, c, K, V)
      <3>1. m <= Len(h) /\ m \in Nat
        <4>1. m \in 1 .. Len(h) /\ m \in Nat
          BY ONLY <1>3
        <4>2. Len(h) \in Nat
          BY ONLY <1>10, ListLen
        <4> QED
          BY ONLY <4>1, <4>2
      <3> QED
        BY ONLY <1>0, <2>7, <3>1, n \in Nat, m = n + 1 DEF Follows
    <2>12. Stored(y.buf, m, ks, vs, h, f + 1)
      BY ONLY <1>8, <1>10, <2>10, <2>11, StoredNext
    <2>13. Stored(y.buf, m, ks, vs, h, e)
      <3>1. m \in 0 .. Len(h) /\ f + 1 \in Nat /\ e \in Nat /\ f + 1 <= e
        <4>1. m \in 1 .. Len(h) /\ m \in Nat /\ e = f + 2
          BY ONLY <1>3
        <4>2. Len(h) \in Nat
          BY ONLY <1>10, ListLen
        <4> QED
          BY ONLY <1>5, <4>1, <4>2
      <3>2. \A i \in 0 .. (f + 1) - 1 : y.buf[i] = y.buf[i]
        OBVIOUS
      <3> QED
        BY ONLY <1>10, <2>12, <3>1, <3>2, StoredKept
    <2>14. /\ \A i \in 0 .. o - 1 : i \in Ptr /\ i # d /\ i # f
           /\ \A i \in e .. Cap - 1 : i \in Ptr /\ i # d /\ i # f /\ i \in a .. Cap - 1
      BY ONLY <1>4, <1>5, <1>12, <1>17, <2>1 DEF Ptr
    <2>15. (\A i \in 0 .. o - 1 : y.buf[i] = b[i]) /\ \A i \in e .. Cap - 1 : y.buf[i] = b[i]
      BY ONLY <1>8, <2>9, <2>14
    <2>16. e <= Cap
      <3>1. e = f + 2
        BY ONLY <1>3
      <3> QED
        BY ONLY <1>5, <1>12, <1>17, <3>1
    <2>17. HeadersAt(y, b, len, h, ho, rq, m)
      BY ONLY <1>0, <2>5, <2>6, <2>8, <2>13, <2>15, <2>16 DEF HeadersAt
    <2> QED
      BY ONLY <1>0, <2>17
  <1> QED
    BY ONLY <1>5, <1>12, <1>15, <1>16, <1>17

\* The round over the empty line behind the last header.
LEMMA EmptyLineLeft ==
    ASSUME NEW b, NEW s, NEW len, NEW h, NEW ho, HeadersHere(b, s, len, h, ho), NEW n, n = Len(h),
           NEW o, o = ho[0], NEW a, a = ho[n], a \in Nat, o \in Nat, o <= a,
           NEW rq, NEW x \in States(Alphabet), HeadersAt(x, b, len, h, ho, rq, n),
           x.p = a, ~(a >= len)
    PROVE  HeadersAt(HeaderRound(x, len), b, len, h, ho, rq, n)
  <1>1. HoldsFrom(b, s, len, o) /\ CharAt(s, a) = "\r"
    BY ONLY HeadersHere(b, s, len, h, ho), o = ho[0], a = ho[n], n = Len(h) DEF HeadersHere
  <1>2. x.buf \in Buffers(Alphabet)
    BY ONLY x \in States(Alphabet), StateFields
  <1>3. \A i \in a .. Cap - 1 : x.buf[i] = b[i]
    BY ONLY HeadersAt(x, b, len, h, ho, rq, n), a = ho[n] DEF HeadersAt
  <1>4. HoldsFrom(x.buf, s, len, a)
    BY ONLY <1>1, <1>2, <1>3, a \in Nat, o <= a, HoldsBehind
  <1>5. \A i \in a .. len - 1 : x.buf[i] = CharAt(s, i)
    BY ONLY <1>4 DEF HoldsFrom
  <1>6. len \in Nat /\ len <= Cap - 1 /\ Cap \in Nat
    BY ONLY <1>1, CapAssumption DEF HoldsFrom, Ptr
  <1>7. a \in a .. len - 1 /\ a < Cap /\ a <= a /\ (\A i \in a .. a - 1 : FALSE) /\ a - a < 5
    BY ONLY <1>6, a \in Nat, ~(a >= len)
  <1>8. x.buf[a] = "\r"
    BY ONLY <1>1, <1>5, <1>7
  <1>9. "\r" # NUL
    BY DEF NUL
  <1>10. FoundAt(x.buf, a, a, "\r")
    BY ONLY <1>7, <1>8, <1>9, a \in Nat DEF FoundAt
  <1>11. a = strchr(x.buf, x.p, "\r") /\ a - x.p < 5 /\ ~(x.p >= len)
    <2>1. strchr(x.buf, a, "\r") = a
      BY ONLY <1>10, StrchrOf
    <2> QED
      BY ONLY <1>7, <2>1, x.p = a, ~(a >= len)
  <1>12. HeaderRound(x, len) = [buf |-> x.buf, req |-> x.req, p |-> len]
    BY ONLY <1>11, x \in States(Alphabet), HeaderRoundLeaves
  <1>13. Left(h, ho, len, n)
    BY ONLY n = Len(h) DEF Left
  <1> QED
    BY ONLY <1>12, <1>13, HeadersAt(x, b, len, h, ho, rq, n), HeadersLeft

\* Where a line starts.
LEMMA LineStarts ==
    ASSUME NEW b, NEW s, NEW len, NEW h, NEW ho, HeadersHere(b, s, len, h, ho), NEW n \in 0 .. Len(h)
    PROVE  /\ ho[n] \in Nat /\ ho[0] \in Nat /\ ho[0] <= ho[n] /\ ho[n] <= ho[Len(h)] /\ ho[Len(h)] \in Nat
           /\ Len(h) \in Nat /\ n \in Nat
  <1>0. PICK N, a, o, Z : N = Len(h) /\ a = ho[n] /\ o = ho[0] /\ Z = ho[N]
    OBVIOUS
  <1>1. h \in Lists /\ ho \in [0 .. N -> Nat] /\ LaidHeaders(s, h, ho)
    BY ONLY <1>0, HeadersHere(b, s, len, h, ho) DEF HeadersHere
  <1>2. N \in Nat
    BY ONLY <1>0, <1>1, ListLen
  <1>3. n \in 0 .. N
    BY ONLY <1>0, n \in 0 .. Len(h)
  <1>4. n \in Nat /\ 0 \in 0 .. N /\ N \in 0 .. N
    BY ONLY <1>2, <1>3
  <1>5. a \in Nat /\ o \in Nat /\ Z \in Nat
    BY ONLY <1>0, <1>1, <1>3, <1>4
  <1>6. CASE n = N
    <2>1. a = Z
      BY ONLY <1>0, <1>6
    <2>2. o <= a
      <3>1. CASE N = 0
        <4>1. o = a
          BY ONLY <1>0, <1>6, <3>1
        <4> QED
          BY ONLY <1>5, <4>1
      <3>2. CASE N # 0
        <4>1. PICK k : k = N - 1
          OBVIOUS
        <4>2. k \in Nat /\ k < N /\ n = k + 1
          BY ONLY <1>2, <1>6, <3>2, <4>1
        <4>3. PICK a2, K, V : a2 = ho[k] /\ K = h[n].key /\ V = h[n].value
          OBVIOUS
        <4>4. PICK d, c, f : d = a2 + Len(K) /\ c = a2 + Len(K) + 2 /\ f = a2 + Len(K) + 2 + Len(V)
          OBVIOUS
        <4>5. LineNames(h, ho, k, n, a2, d, c, f, a, K, V)
          BY ONLY <1>0, <4>2, <4>3, <4>4 DEF LineNames
        <4>6. k < Len(h) /\ k \in Nat
          BY ONLY <1>0, <4>2
        <4>7. /\ Line(s, a2, d, c, f, K, V) /\ a = f + 2 /\ LineAt(h, ho, n, a2, c)
              /\ n \in 1 .. Len(h) /\ n \in Nat /\ ho[0] \in Nat /\ ho[0] <= a2
          BY ONLY <4>5, <4>6, HeadersHere(b, s, len, h, ho), LinePositions
        <4>8. a2 \in Nat /\ K \in Text /\ V \in Text
          BY ONLY <4>7 DEF Line
        <4>9. Len(K) \in Nat /\ Len(V) \in Nat
          BY ONLY <4>8 DEF Text
        <4>10. a = f + 2 /\ o <= a2
          BY ONLY <1>0, <4>7
        <4> QED
          BY ONLY <1>5, <4>4, <4>8, <4>9, <4>10
      <3> QED
        BY ONLY <3>1, <3>2
    <2>3. a <= Z
      BY ONLY <1>5, <2>1
    <2> QED
      BY ONLY <1>0, <1>2, <1>4, <1>5, <2>2, <2>3
  <1>7. CASE n # N
    <2>1. PICK m, e, K, V : m = n + 1 /\ e = ho[m] /\ K = h[m].key /\ V = h[m].value
      OBVIOUS
    <2>2. PICK d, c, f : d = a + Len(K) /\ c = a + Len(K) + 2 /\ f = a + Len(K) + 2 + Len(V)
      OBVIOUS
    <2>3. LineNames(h, ho, n, m, a, d, c, f, e, K, V)
      BY ONLY <1>0, <2>1, <2>2 DEF LineNames
    <2>4. n < N
      BY ONLY <1>2, <1>3, <1>7
    <2>5. n < Len(h)
      BY ONLY <1>0, <2>4
    <2>6. /\ Line(s, a, d, c, f, K, V) /\ e = f + 2 /\ LineAt(h, ho, m, a, c)
          /\ m \in 1 .. Len(h) /\ m \in Nat /\ ho[0] \in Nat /\ ho[0] <= a
      BY ONLY <1>4, <2>3, <2>5, HeadersHere(b, s, len, h, ho), LinePositions
    <2>7. e <= Z
      BY ONLY <1>0, <1>1, <2>1, <2>6 DEF LaidHeaders
    <2>8. K \in Text /\ V \in Text
      BY ONLY <2>6 DEF Line
    <2>9. Len(K) \in Nat /\ Len(V) \in Nat
      BY ONLY <2>8 DEF Text
    <2>10. e = f + 2 /\ o <= a
      BY ONLY <1>0, <2>6
    <2>11. a <= Z
      BY ONLY <1>5, <2>2, <2>7, <2>9, <2>10
    <2> QED
      BY ONLY <1>0, <1>2, <1>4, <1>5, <2>10, <2>11
  <1> QED
    BY ONLY <1>6, <1>7

\* What the loop leaves.
HeadersDone(y, b, len, h, ho, rq) ==
    y \in States(Alphabet) /\ y.p >= len /\ \E n \in 0 .. Len(h) : HeadersAt(y, b, len, h, ho, rq, n)

LEMMA HeadersTaken ==
    ASSUME NEW b, NEW s, NEW len, NEW h, NEW ho, HeadersHere(b, s, len, h, ho), NEW rq,
           NEW x \in States(Alphabet), HeadersAt(x, b, len, h, ho, rq, 0)
    PROVE  HeadersDone(http_parse_headers(x, len), b, len, h, ho, rq)
  <1>0. PICK N : N = Len(h)
    OBVIOUS
  <1>1. h \in Lists /\ len \in 0 .. Cap - 1
    BY ONLY HeadersHere(b, s, len, h, ho) DEF HeadersHere, HoldsFrom, Ptr
  <1>2. N \in Nat /\ len \in Nat
    BY ONLY <1>0, <1>1, ListLen, CapAssumption
  <1> DEFINE At(z, n) == HeadersAt(z, b, len, h, ho, rq, n)
             S == {z \in States(Alphabet) : \E n \in 0 .. N : At(z, n)}
  <1>3. ASSUME NEW z \in S PROVE HeaderRound(z, len) \in S
    <2>1. z \in States(Alphabet)
      BY ONLY <1>3
    <2>2. PICK n \in 0 .. N : At(z, n)
      BY ONLY <1>3
    <2>3. HeaderRound(z, len) \in States(Alphabet) /\ (z.p >= len => HeaderRound(z, len) = z)
      BY ONLY <1>1, <2>1, HeaderRoundIs
    <2>4. CASE z.p >= len
      <3>1. HeaderRound(z, len) = z
        BY ONLY <2>3, <2>4
      <3> QED
        BY ONLY <1>3, <3>1
    <2>5. CASE ~(z.p >= len)
      <3>0. PICK a, o : a = ho[n] /\ o = ho[0]
        OBVIOUS
      <3>1. n \in 0 .. Len(h)
        BY ONLY <1>0, <2>2
      <3>2. /\ ho[n] \in Nat /\ ho[0] \in Nat /\ ho[0] <= ho[n] /\ ho[n] <= ho[Len(h)] /\ ho[Len(h)] \in Nat
            /\ Len(h) \in Nat /\ n \in Nat
        BY ONLY <3>1, HeadersHere(b, s, len, h, ho), LineStarts
      <3>3. a \in Nat /\ o \in Nat /\ o <= a /\ n \in Nat
        BY ONLY <3>0, <3>2
      <3>4. z.p = a
        <4>1. z.p = a \/ z.p = len
          BY ONLY <2>2, <3>0 DEF HeadersAt
        <4>2. z.p # len
          BY ONLY <1>2, <2>5
        <4> QED
          BY ONLY <4>1, <4>2
      <3>5. CASE n = N
        <4>1. At(HeaderRound(z, len), n)
          BY ONLY <1>0, <2>1, <2>2, <2>5, <3>0, <3>3, <3>4, <3>5, HeadersHere(b, s, len, h, ho), EmptyLineLeft
        <4> HIDE DEF At
        <4> QED
          BY ONLY <2>2, <2>3, <4>1 DEF S
      <3>6. CASE n # N
        <4>1. PICK m : m = n + 1
          OBVIOUS
        <4>2. n < N /\ m \in 0 .. N
          BY ONLY <1>2, <2>2, <3>6, <4>1
        <4>3. n < Len(h) /\ z.p = ho[n]
          BY ONLY <1>0, <3>0, <3>4, <4>2
        <4>4. At(HeaderRound(z, len), n) \/ At(HeaderRound(z, len), m)
          BY ONLY <2>1, <2>2, <2>5, <3>3, <4>1, <4>3, HeadersHere(b, s, len, h, ho), HeaderTaken
        <4> HIDE DEF At
        <4> QED
          BY ONLY <2>2, <2>3, <4>2, <4>4 DEF S
      <3> QED
        BY ONLY <3>5, <3>6
    <2> QED
      BY ONLY <2>4, <2>5
  <1>4. x \in S
    <2>1. At(x, 0) /\ 0 \in 0 .. N
      BY ONLY <1>2, HeadersAt(x, b, len, h, ho, rq, 0)
    <2> HIDE DEF At
    <2> QED
      BY ONLY <2>1, x \in States(Alphabet) DEF S
  <1>5. S \subseteq States(Alphabet)
    BY ONLY TRUE DEF S
  <1>6. PICK y : y = http_parse_headers(x, len)
    OBVIOUS
  <1> HIDE DEF S
  <1>7. y \in S /\ y.p >= len
    BY ONLY <1>1, <1>3, <1>4, <1>5, <1>6, HeadersIn
  <1>8. y \in States(Alphabet) /\ \E n \in 0 .. N : At(y, n)
    BY ONLY <1>7 DEF S
  <1> QED
    BY ONLY <1>0, <1>6, <1>7, <1>8 DEF HeadersDone

-----------------------------------------------------------------------------
(* A well-formed request, of which len characters have arrived.            *)

Arriving(b, s, r, qo, ho, len) == WellFormed(r) /\ Laid(s, r, qo, ho) /\ Holds(b, s, len)

\* The method has L characters; the path starts at P, the query at o and the
\* protocol behind E; the header lines start at H and end at Z.
Places(r, qo, ho, L, P, o, E, H, Z) ==
    /\ L = Len(r.method.text) /\ P = L + 1 /\ o = qo[0] /\ E = qo[Len(r.query)]
    /\ H = ho[0] /\ Z = ho[Len(r.headers)]

\* The parts of the layout, one by one.
RequestParts(s, r, qo, ho, L, P, o, E, H, Z) ==
    /\ Piece(s, 0, r.method.text) /\ CharAt(s, L) = " " /\ Piece(s, P, r.path)
    /\ QueryLies(s, r.query, qo) /\ Piece(s, E, ProtocolLine)
    /\ r.headers \in Lists /\ HeaderFree(r.headers)
    /\ ho \in [0 .. Len(r.headers) -> Nat] /\ LaidHeaders(s, r.headers, ho)
    /\ CharAt(s, Z) = "\r"
    /\ o = P + Len(r.path) /\ H = E + 11 /\ Len(s) = Z + 2

LEMMA LaidParts ==
    ASSUME NEW b, NEW s, NEW r, NEW qo, NEW ho, NEW len, Arriving(b, s, r, qo, ho, len),
           NEW L, NEW P, NEW o, NEW E, NEW H, NEW Z, Places(r, qo, ho, L, P, o, E, H, Z)
    PROVE  RequestParts(s, r, qo, ho, L, P, o, E, H, Z)
  <1>1. /\ L = Len(r.method.text) /\ P = L + 1 /\ o = qo[0] /\ E = qo[Len(r.query)]
        /\ H = ho[0] /\ Z = ho[Len(r.headers)]
    BY ONLY Places(r, qo, ho, L, P, o, E, H, Z) DEF Places
  <1>2. /\ Piece(s, 0, r.method.text) /\ s[L + 1] = " " /\ Piece(s, P, r.path)
        /\ qo \in [0 .. Len(r.query) -> Nat] /\ qo[0] = P + Len(r.path) /\ LaidQuery(s, r.query, qo)
        /\ Piece(s, E, ProtocolLine)
        /\ ho \in [0 .. Len(r.headers) -> Nat] /\ ho[0] = E + 11 /\ LaidHeaders(s, r.headers, ho)
        /\ s[Z + 1] = "\r" /\ Len(s) = Z + 2
    BY ONLY <1>1, Arriving(b, s, r, qo, ho, len) DEF Arriving, Laid
  <1>3. r.query \in Lists /\ r.headers \in Lists
    BY ONLY Arriving(b, s, r, qo, ho, len), WellFormedIs DEF Arriving
  <1>4. QueryFree(r.query) /\ HeaderFree(r.headers)
    BY ONLY Arriving(b, s, r, qo, ho, len) DEF Arriving, WellFormed, QueryFree, HeaderFree
  <1> QED
    BY ONLY <1>1, <1>2, <1>3, <1>4 DEF QueryLies, CharAt, RequestParts

\* The positions.
LEMMA RequestNumbers ==
    ASSUME NEW b, NEW s, NEW r, NEW qo, NEW ho, NEW len, Arriving(b, s, r, qo, ho, len),
           NEW L, NEW P, NEW o, NEW E, NEW H, NEW Z, Places(r, qo, ho, L, P, o, E, H, Z)
    PROVE  /\ L \in Nat /\ L > 2 /\ P \in Nat /\ P = L + 1 /\ o \in Nat /\ P < o /\ E \in Nat /\ o <= E
           /\ H \in Nat /\ H = E + 11 /\ Z \in Nat /\ H <= Z
           /\ len \in Nat /\ len <= Cap - 1 /\ Cap \in Nat /\ Len(s) = Z + 2 /\ len <= Len(s)
  <1>0. PICK q, h, Q, N, t : q = r.query /\ h = r.headers /\ Q = Len(q) /\ N = Len(h) /\ t = Len(r.path)
    OBVIOUS
  <1>1. /\ L = Len(r.method.text) /\ P = L + 1 /\ o = qo[0] /\ E = qo[Q]
        /\ H = ho[0] /\ Z = ho[N]
    BY ONLY <1>0, Places(r, qo, ho, L, P, o, E, H, Z) DEF Places
  <1>2. /\ QueryLies(s, q, qo) /\ h \in Lists
        /\ ho \in [0 .. N -> Nat] /\ LaidHeaders(s, h, ho)
        /\ o = P + t /\ H = E + 11 /\ Len(s) = Z + 2
    <2>1. RequestParts(s, r, qo, ho, L, P, o, E, H, Z)
      BY ONLY Arriving(b, s, r, qo, ho, len), Places(r, qo, ho, L, P, o, E, H, Z), LaidParts
    <2> QED
      BY ONLY <1>0, <2>1 DEF RequestParts
  <1>3. L \in Nat /\ L > 2 /\ t \in Nat /\ t > 0
    BY ONLY <1>0, <1>1, Arriving(b, s, r, qo, ho, len), WellFormedIs DEF Arriving
  <1>4. len \in Nat /\ len <= Cap - 1 /\ Cap \in Nat /\ len <= Len(s)
    BY ONLY Arriving(b, s, r, qo, ho, len), CapAssumption DEF Arriving, Holds, Ptr
  <1>5. q \in Lists /\ qo \in [0 .. Q -> Nat] /\ LaidQuery(s, q, qo)
    BY ONLY <1>0, <1>2 DEF QueryLies
  <1>6. Q \in Nat /\ N \in Nat
    BY ONLY <1>0, <1>2, <1>5, ListLen
  <1>7. 0 \in 0 .. Q /\ Q \in 0 .. Q /\ 0 \in 0 .. N /\ N \in 0 .. N
    BY ONLY <1>6
  <1>8. o \in Nat /\ E \in Nat /\ H \in Nat /\ Z \in Nat
    BY ONLY <1>1, <1>2, <1>5, <1>7
  <1>9. o <= E
    <2>1. ASSUME NEW j \in 1 .. Q PROVE qo[j - 1] <= qo[j]
      <3>0. PICK x, l, w : x = qo[j - 1] /\ l = Len(q[j].key) /\ w = Len(q[j].value)
        OBVIOUS
      <3>1. qo[j] = x + l + w + 2
        BY ONLY <1>0, <1>5, <2>1, <3>0 DEF LaidQuery
      <3>2. l \in Nat /\ w \in Nat
        BY ONLY <1>0, <1>5, <2>1, <3>0, ListPair
      <3>3. x \in Nat
        <4>1. j - 1 \in 0 .. Q
          BY ONLY <1>6, <2>1
        <4> QED
          BY ONLY <1>5, <3>0, <4>1
      <3>4. x <= qo[j]
        BY ONLY <3>1, <3>2, <3>3
      <3> QED
        BY ONLY <3>0, <3>4
    <2>2. \A j \in 0 .. Q : qo[0] <= qo[j]
      BY ONLY <1>5, <1>6, <2>1, Rising
    <2> QED
      BY ONLY <1>1, <1>7, <2>2
  <1>10. H <= Z
    <2>1. ASSUME NEW j \in 1 .. N PROVE ho[j - 1] <= ho[j]
      <3>0. PICK x, l, w : x = ho[j - 1] /\ l = Len(h[j].key) /\ w = Len(h[j].value)
        OBVIOUS
      <3>1. ho[j] = x + l + w + 4
        BY ONLY <1>0, <1>2, <2>1, <3>0 DEF LaidHeaders
      <3>2. l \in Nat /\ w \in Nat
        BY ONLY <1>0, <1>2, <2>1, <3>0, ListPair
      <3>3. x \in Nat
        <4>1. j - 1 \in 0 .. N
          BY ONLY <1>6, <2>1
        <4> QED
          BY ONLY <1>2, <3>0, <4>1
      <3>4. x <= ho[j]
        BY ONLY <3>1, <3>2, <3>3
      <3> QED
        BY ONLY <3>0, <3>4
    <2>2. \A j \in 0 .. N : ho[0] <= ho[j]
      BY ONLY <1>2, <1>6, <2>1, Rising
    <2> QED
      BY ONLY <1>1, <1>7, <2>2
  <1>11. P = L + 1 /\ o = P + t /\ H = E + 11
    BY ONLY <1>1, <1>2
  <1>12. P \in Nat /\ P < o
    BY ONLY <1>3, <1>11
  <1>13. Len(s) = Z + 2
    BY ONLY <1>2
  <1> QED
    BY ONLY <1>3, <1>4, <1>8, <1>9, <1>10, <1>11, <1>12, <1>13

\* No space lies between the start of the path and the one that ends it.
LEMMA PathWithoutSpace ==
    ASSUME NEW b, NEW s, NEW r, NEW qo, NEW ho, NEW len, Arriving(b, s, r, qo, ho, len),
           NEW L, NEW P, NEW o, NEW E, NEW H, NEW Z, Places(r, qo, ho, L, P, o, E, H, Z),
           NEW i \in P .. E - 1
    PROVE  CharAt(s, i) \notin {" ", NUL}
  <1>1. /\ P \in Nat /\ o \in Nat /\ E \in Nat
    BY ONLY Arriving(b, s, r, qo, ho, len), Places(r, qo, ho, L, P, o, E, H, Z), RequestNumbers
  <1>2. Piece(s, P, r.path) /\ QueryLies(s, r.query, qo) /\ o = P + Len(r.path)
    <2>1. RequestParts(s, r, qo, ho, L, P, o, E, H, Z)
      BY ONLY Arriving(b, s, r, qo, ho, len), Places(r, qo, ho, L, P, o, E, H, Z), LaidParts
    <2> QED
      BY ONLY <2>1 DEF RequestParts
  <1>3. o = qo[0] /\ E = qo[Len(r.query)]
    BY ONLY Places(r, qo, ho, L, P, o, E, H, Z) DEF Places
  <1>4. r.path \in Text /\ FreeOf(r.path, {" ", "?"})
    BY ONLY Arriving(b, s, r, qo, ho, len) DEF Arriving, WellFormed
  <1>5. \A j \in P .. P + Len(r.path) - 1 : CharAt(s, j) \notin {" ", "?"} /\ CharAt(s, j) # NUL
    BY ONLY <1>1, <1>2, <1>4, PieceChars
  <1>6. PICK l : l = Len(r.path) /\ o = P + l /\ l \in Nat
    <2>1. Len(r.path) \in Nat
      BY ONLY Arriving(b, s, r, qo, ho, len), WellFormedIs DEF Arriving
    <2> QED
      BY ONLY <1>2, <2>1
  <1>7. i \in P .. P + l - 1 \/ i \in o .. E - 1
    BY ONLY <1>1, <1>6, i \in P .. E - 1
  <1>8. CASE i \in P .. P + l - 1
    BY ONLY <1>5, <1>6, <1>8
  <1>9. CASE i \in o .. E - 1
    BY ONLY <1>2, <1>3, <1>9, QueryWithoutSpace
  <1> QED
    BY ONLY <1>7, <1>8, <1>9

\* The path, when the space behind it has arrived.
LEMMA PathArrives ==
    ASSUME NEW b, NEW s, NEW r, NEW qo, NEW ho, NEW len, Arriving(b, s, r, qo, ho, len),
           NEW L, NEW P, NEW o, NEW E, NEW H, NEW Z, Places(r, qo, ho, L, P, o, E, H, Z), E < len
    PROVE  PathHere(b, P, r.path, r.query, qo, o, E)
  <1>0. PICK q, t : q = r.query /\ t = r.path
    OBVIOUS
  <1>1. /\ P \in Nat /\ o \in Nat /\ E \in Nat /\ P < o /\ o <= E /\ len \in Nat
    BY ONLY Arriving(b, s, r, qo, ho, len), Places(r, qo, ho, L, P, o, E, H, Z), RequestNumbers
  <1>2. Piece(s, P, t) /\ QueryLies(s, q, qo) /\ o = P + Len(t) /\ Piece(s, E, ProtocolLine)
    <2>1. RequestParts(s, r, qo, ho, L, P, o, E, H, Z)
      BY ONLY Arriving(b, s, r, qo, ho, len), Places(r, qo, ho, L, P, o, E, H, Z), LaidParts
    <2> QED
      BY ONLY <1>0, <2>1 DEF RequestParts
  <1>3. o = qo[0] /\ E = qo[Len(q)]
    BY ONLY <1>0, Places(r, qo, ho, L, P, o, E, H, Z) DEF Places
  <1>4. t \in Text /\ Len(t) > 0 /\ t[1] = "/" /\ FreeOf(t, {" ", "?"})
    BY ONLY <1>0, Arriving(b, s, r, qo, ho, len) DEF Arriving, WellFormed
  <1>5. Holds(b, s, len)
    BY ONLY Arriving(b, s, r, qo, ho, len) DEF Arriving
  <1>6. TextAt(b, P, t)
    <2>1. P + Len(t) <= len
      <3>1. o = P + Len(t)
        BY ONLY <1>2
      <3>2. o <= len
        BY ONLY <1>1, E < len
      <3> QED
        BY ONLY <3>1, <3>2
    <2> QED
      BY ONLY <1>1, <1>2, <1>4, <1>5, <2>1, Arrived
  <1>7. QueryHere(b, q, qo)
    <2>1. q \in Lists /\ QueryFree(q) /\ qo \in [0 .. Len(q) -> Nat] /\ LaidQuery(s, q, qo)
      BY ONLY <1>2 DEF QueryLies
    <2> QED
      BY ONLY <1>2, <1>3, <1>5, <2>1, E < len, QueryArrived
  <1>8. ASSUME NEW i \in P .. E - 1 PROVE b[i] \notin {" ", NUL}
    <2>1. CharAt(s, i) \notin {" ", NUL}
      BY ONLY <1>8, Arriving(b, s, r, qo, ho, len), Places(r, qo, ho, L, P, o, E, H, Z), PathWithoutSpace
    <2>2. i \in Nat /\ i < len
      BY ONLY <1>1, <1>8, E < len
    <2>3. b[i] = CharAt(s, i)
      BY ONLY <1>5, <2>2, CharArrived DEF CharAt
    <2> QED
      BY ONLY <2>1, <2>3
  <1>9. PathHere(b, P, t, q, qo, o, E)
    BY ONLY <1>1, <1>2, <1>3, <1>4, <1>6, <1>7, <1>8 DEF PathHere
  <1> QED
    BY ONLY <1>0, <1>9

\* Before that, no end of the path is found.
LEMMA PathOpen ==
    ASSUME NEW b, NEW s, NEW r, NEW qo, NEW ho, NEW len, Arriving(b, s, r, qo, ho, len),
           NEW L, NEW P, NEW o, NEW E, NEW H, NEW Z, Places(r, qo, ho, L, P, o, E, H, Z), ~(E < len), P <= len
    PROVE  strchr(b, P, " ") = NULL
  <1>1. /\ P \in Nat /\ E \in Nat /\ len \in Nat /\ len <= Cap - 1 /\ Cap \in Nat
    BY ONLY Arriving(b, s, r, qo, ho, len), Places(r, qo, ho, L, P, o, E, H, Z), RequestNumbers
  <1>2. Holds(b, s, len)
    BY ONLY Arriving(b, s, r, qo, ho, len) DEF Arriving
  <1>3. ASSUME NEW i \in P .. len - 1 PROVE b[i] # " "
    <2>1. i \in P .. E - 1 /\ i \in Nat /\ i < len
      BY ONLY <1>1, <1>3, ~(E < len)
    <2>2. CharAt(s, i) \notin {" ", NUL}
      BY ONLY <2>1, Arriving(b, s, r, qo, ho, len), Places(r, qo, ho, L, P, o, E, H, Z), PathWithoutSpace
    <2>3. b[i] = CharAt(s, i)
      BY ONLY <1>2, <2>1, CharArrived DEF CharAt
    <2> QED
      BY ONLY <2>2, <2>3
  <1>4. b[len] = NUL /\ b[Cap - 1] = NUL
    <2>1. len \in len .. Cap - 1 /\ Cap - 1 \in len .. Cap - 1
      BY ONLY <1>1
    <2> QED
      BY ONLY <1>2, <2>1 DEF Holds
  <1>5. " " # NUL
    BY DEF NUL
  <1>6. len < Cap
    BY ONLY <1>1
  <1> QED
    BY ONLY <1>1, <1>3, <1>4, <1>5, <1>6, P <= len, StrchrNone

-----------------------------------------------------------------------------
(* The method and the space behind it.                                     *)

\* No method of the table is the empty mask.
LEMMA MethodMasks == \A m \in methods : m.mask # "0"
  <1> DEFINE Is(m) == m.mask # "0"
  <1>1. \A k, l, t : k # "0" => Is([mask |-> k, length |-> l, strn |-> t])
    OBVIOUS
  <1>2. /\ "GET" # "0" /\ "POST" # "0" /\ "PUT" # "0" /\ "DELETE" # "0" /\ "PATCH" # "0"
        /\ "HEAD" # "0" /\ "OPTIONS" # "0" /\ "TRACE" # "0" /\ "CONNECT" # "0"
    OBVIOUS
  <1> HIDE DEF Is
  <1>3. \A m \in methods : Is(m)
    BY <1>1, <1>2, Zenon DEF methods
  <1> QED
    BY <1>3 DEF Is

\* The four bytes a method is recognised by: its name, and the space behind it
\* when it has only three characters.
FirstBytes(t) == [i \in 1 .. 4 |-> (t \o <<" ">>)[i]]

\* They have arrived.
Begins(b, s, t) ==
    /\ t \in Text /\ Len(t) > 2 /\ Piece(s, 0, t) /\ CharAt(s, Len(t)) = " "
    /\ \A i \in 0 .. 3 : b[i] = CharAt(s, i)

\* Then they are what the parser looks at.
LEMMA FirstFour ==
    ASSUME NEW b, NEW s, NEW t, Begins(b, s, t)
    PROVE  Four(b, 0) = FirstBytes(t)
  <1> t \in Text /\ Len(t) > 2 /\ Piece(s, 0, t) /\ CharAt(s, Len(t)) = " "
    BY ONLY Begins(b, s, t) DEF Begins
  <1> \A i \in 0 .. 3 : b[i] = CharAt(s, i)
    BY ONLY Begins(b, s, t) DEF Begins
  <1>0. PICK u, L : u = t \o <<" ">> /\ L = Len(t)
    OBVIOUS
  <1>1. " " \in Alphabet
    BY ONLY Characters
  <1>2. <<" ">> \in Text /\ (Piece(u, L, <<" ">>) => u[L + 1] = " ") /\ L \in Nat
    <2>1. L \in Nat
      <3>1. L = Len(t)
        BY ONLY <1>0
      <3> QED
        BY ONLY <3>1, t \in Text DEF Text
    <2> QED
      BY ONLY <1>1, <2>1, CharPiece
  <1>3. Piece(u, 0, t) /\ Piece(u, L, <<" ">>)
    BY ONLY <1>0, <1>2, t \in Text, Behind
  <1>4. ASSUME NEW i \in 1 .. 4 PROVE b[0 + i - 1] = u[i]
    <2>1. i - 1 \in 0 .. 3 /\ 0 + i - 1 = i - 1 /\ i - 1 + 1 = i /\ 0 + i = i
      BY ONLY <1>4
    <2>2. b[0 + i - 1] = s[i]
      BY ONLY <2>1, \A j \in 0 .. 3 : b[j] = CharAt(s, j) DEF CharAt
    <2>3. i \in 1 .. L \/ i = L + 1
      <3>1. L \in Nat /\ L > 2
        <4>1. L = Len(t) /\ L \in Nat
          BY ONLY <1>0, <1>2
        <4> QED
          BY ONLY <4>1, Len(t) > 2
      <3> QED
        BY ONLY <1>4, <3>1
    <2>4. CASE i \in 1 .. L
      <3>1. s[i] = t[i] /\ u[i] = t[i]
        BY ONLY <1>0, <1>3, <2>1, <2>4, Piece(s, 0, t) DEF Piece
      <3> QED
        BY ONLY <2>2, <3>1
    <2>5. CASE i = L + 1
      <3>1. s[i] = " " /\ u[i] = " "
        BY ONLY <1>0, <1>2, <1>3, <2>5, CharAt(s, Len(t)) = " " DEF CharAt
      <3> QED
        BY ONLY <2>2, <3>1
    <2> QED
      BY ONLY <2>3, <2>4, <2>5
  <1>5. Four(b, 0) = [i \in 1 .. 4 |-> u[i]]
    BY ONLY <1>4 DEF Four
  <1> QED
    BY ONLY <1>0, <1>5 DEF FirstBytes

\* A method that the table knows under its first four bytes.
Known(t, k) ==
    /\ \E m \in methods : m.strn = FirstBytes(t)
    /\ \A m \in methods : m.strn = FirstBytes(t) => m.mask = k /\ m.length = Len(t)

\* The state behind the method.
PastMethod(b, k, L) == [buf |-> b, req |-> [EmptyReq EXCEPT !.method = k], p |-> L]

MethodDone(y, b, k, L) == y = PastMethod(b, k, L) /\ k # "0" /\ k \in Masks /\ L \in 3 .. 7

\* When its first four bytes have arrived, the method is read as sent.
LEMMA MethodParsed ==
    ASSUME NEW b, NEW t, NEW k, Known(t, k), NEW L, L = Len(t),
           Four(b, 0) = FirstBytes(t), NEW s, s = [buf |-> b, req |-> EmptyReq, p |-> 0], NEW end \in Nat, end >= 4
    PROVE  MethodDone(http_parse_method(s, end), b, k, L)
  <1>0. PICK F : F = FirstBytes(t)
    OBVIOUS
  <1>1. /\ \E m \in methods : m.strn = F
        /\ \A m \in methods : m.strn = F => m.mask = k /\ m.length = L
    BY ONLY <1>0, Known(t, k), L = Len(t) DEF Known
  <1> DEFINE hit == {m \in methods : end - s.p >= 4 /\ m.strn = Four(s.buf, s.p)}
             m == CHOOSE m \in hit : TRUE
  <1>2. s.p = 0 /\ s.buf = b /\ s.req = EmptyReq
    BY ONLY s = [buf |-> b, req |-> EmptyReq, p |-> 0]
  <1>3. end - s.p >= 4
    BY ONLY <1>2, end \in Nat, end >= 4
  <1>4. Four(s.buf, s.p) = F
    BY ONLY <1>0, <1>2, Four(b, 0) = FirstBytes(t)
  <1>5. hit # {}
    BY ONLY <1>1, <1>3, <1>4
  <1>6. m \in methods /\ m.strn = F
    BY ONLY <1>4, <1>5
  <1>7. http_parse_method(s, end) = [s EXCEPT !.req.method = m.mask, !.p = s.p + m.length]
    BY ONLY <1>5 DEF http_parse_method
  <1> HIDE DEF m
  <1>8. m.mask = k /\ m.length = L
    BY ONLY <1>1, <1>6
  <1>9. L \in 3 .. 7 /\ k # "0"
    BY ONLY <1>6, <1>8, MethodLengths, MethodMasks
  <1>10. k \in Masks
    BY ONLY <1>6, <1>8 DEF Masks
  <1>11. s.p + m.length = L
    BY ONLY <1>2, <1>8, <1>9
  <1>12. http_parse_method(s, end) = [s EXCEPT !.req.method = k, !.p = L]
    BY ONLY <1>7, <1>8, <1>11
  <1>13. http_parse_method(s, end) = PastMethod(b, k, L)
    <2> DEFINE w == [s EXCEPT !.req.method = k]
    <2>1. w = [buf |-> b, req |-> [EmptyReq EXCEPT !.method = k], p |-> 0]
      BY ONLY s = [buf |-> b, req |-> EmptyReq, p |-> 0]
    <2>2. http_parse_method(s, end) = [w EXCEPT !.p = L]
      BY ONLY <1>12
    <2> HIDE DEF w
    <2> QED
      BY ONLY <2>1, <2>2 DEF PastMethod
  <1> QED
    BY ONLY <1>9, <1>10, <1>13 DEF MethodDone

\* With fewer bytes there is no method.
LEMMA MethodMissing ==
    ASSUME NEW b, NEW s, s = [buf |-> b, req |-> EmptyReq, p |-> 0], NEW end \in Nat, ~(end >= 4)
    PROVE  http_parse_method(s, end).req.method = "0"
  <1>1. s.p = 0 /\ s.req = EmptyReq
    BY ONLY s = [buf |-> b, req |-> EmptyReq, p |-> 0]
  <1>2. ~(end - s.p >= 4)
    BY ONLY <1>1, end \in Nat, ~(end >= 4)
  <1>3. http_parse_method(s, end) = s
    BY ONLY <1>2 DEF http_parse_method
  <1> QED
    BY ONLY <1>1, <1>3 DEF EmptyReq

\* A space and nothing but a space at L.
SpaceAt(s, L, P, end) ==
    /\ L \in Nat /\ L = s.p /\ s = [buf |-> s.buf, req |-> s.req, p |-> s.p]
    /\ end \in Nat /\ L < end /\ s.buf[L] = " " /\ P = L + 1 /\ (P < end => s.buf[P] # " ")

\* The space behind the method is skipped.
LEMMA TrimSpace ==
    ASSUME NEW s, NEW L, NEW P, NEW end, SpaceAt(s, L, P, end)
    PROVE  trim_spaces(s, end) = [buf |-> s.buf, req |-> s.req, p |-> P]
  <1> L \in Nat /\ end \in Nat /\ L < end /\ P = L + 1
    BY ONLY SpaceAt(s, L, P, end) DEF SpaceAt
  <1> /\ L = s.p /\ s = [buf |-> s.buf, req |-> s.req, p |-> s.p]
      /\ s.buf[L] = " " /\ (P < end => s.buf[P] # " ")
    BY ONLY SpaceAt(s, L, P, end) DEF SpaceAt
  <1>0. PICK M : M = Max({s.p, end})
    OBVIOUS
  <1> DEFINE U == {i \in s.p .. end : i = end \/ s.buf[i] # " "} \cup {M}
  <1>1. M \in {L, end} /\ M >= end
    <2>1. \E x \in {L, end} : \A y \in {L, end} : x >= y
      BY ONLY L \in Nat, end \in Nat
    <2>2. M \in {L, end} /\ \A y \in {L, end} : M >= y
      BY ONLY <1>0, <2>1, L = s.p DEF Max
    <2> QED
      BY ONLY <2>2
  <1>2. M = end
    BY ONLY <1>1, L \in Nat, end \in Nat, L < end
  <1>3. ASSUME NEW x \in U PROVE x \in Nat /\ P <= x
    <2>1. CASE x = M
      BY ONLY <1>2, <2>1, end \in Nat, L \in Nat, L < end, P = L + 1
    <2>2. CASE x # M
      <3>1. x \in L .. end /\ (x = end \/ s.buf[x] # " ")
        BY ONLY <1>3, <2>2, L = s.p
      <3> HIDE DEF U
      <3>2. L # end
        BY ONLY L < end, L \in Nat, end \in Nat
      <3>3. x # L
        BY ONLY <3>1, <3>2, s.buf[L] = " "
      <3>4. x \in L .. end
        BY ONLY <3>1
      <3> QED
        BY ONLY <3>3, <3>4, L \in Nat, end \in Nat, P = L + 1
    <2> QED
      BY ONLY <2>1, <2>2
  <1>4. P \in U
    <2>1. P \in s.p .. end /\ (P < end \/ P = end)
      BY ONLY L = s.p, L \in Nat, end \in Nat, L < end, P = L + 1
    <2> QED
      BY ONLY <2>1, P < end => s.buf[P] # " "
  <1>5. trim_spaces(s, end) = [s EXCEPT !.p = Min(U)]
    BY ONLY <1>0 DEF trim_spaces
  <1> HIDE DEF U
  <1>6. Min(U) \in U /\ \A y \in U : Min(U) <= y
    <2>1. U \subseteq Nat /\ U # {}
      BY ONLY <1>3, <1>4
    <2> QED
      BY ONLY <2>1, MinIs
  <1>7. Min(U) = P
    <2>1. Min(U) \in Nat /\ P <= Min(U) /\ Min(U) <= P /\ P \in Nat
      BY ONLY <1>3, <1>4, <1>6
    <2> QED
      BY ONLY <2>1
  <1> QED
    BY ONLY <1>5, <1>7, s = [buf |-> s.buf, req |-> s.req, p |-> s.p]

\* Nothing is skipped where nothing has arrived.
LEMMA TrimNothing ==
    ASSUME NEW s, NEW L \in Nat, L = s.p, s = [buf |-> s.buf, req |-> s.req, p |-> s.p],
           NEW end \in Nat, ~(L < end)
    PROVE  trim_spaces(s, end) = [buf |-> s.buf, req |-> s.req, p |-> L]
  <1>0. PICK M : M = Max({s.p, end})
    OBVIOUS
  <1> DEFINE U == {i \in s.p .. end : i = end \/ s.buf[i] # " "} \cup {M}
  <1>1. M \in {L, end} /\ M >= L
    <2>1. \E x \in {L, end} : \A y \in {L, end} : x >= y
      BY ONLY L \in Nat, end \in Nat
    <2>2. M \in {L, end} /\ \A y \in {L, end} : M >= y
      BY ONLY <1>0, <2>1, L = s.p DEF Max
    <2> QED
      BY ONLY <2>2
  <1>2. M = L
    BY ONLY <1>1, L \in Nat, end \in Nat, ~(L < end)
  <1>3. ASSUME NEW x \in U PROVE x = L
    <2>1. x = L \/ (x \in L .. end /\ (x = end \/ s.buf[x] # " "))
      BY ONLY <1>2, <1>3, L = s.p
    <2> HIDE DEF U
    <2>2. x = L \/ x \in L .. end
      BY ONLY <2>1
    <2> QED
      BY ONLY <2>2, L \in Nat, end \in Nat, ~(L < end)
  <1>4. L \in U
    BY ONLY <1>2
  <1>5. trim_spaces(s, end) = [s EXCEPT !.p = Min(U)]
    BY ONLY <1>0 DEF trim_spaces
  <1> HIDE DEF U
  <1>6. Min(U) \in U
    <2>1. U \subseteq Nat /\ U # {}
      BY ONLY <1>3, <1>4, L \in Nat
    <2> QED
      BY ONLY <2>1, MinIs
  <1>7. Min(U) = L
    BY ONLY <1>3, <1>6
  <1> QED
    BY ONLY <1>5, <1>7, s = [buf |-> s.buf, req |-> s.req, p |-> s.p]

\* Without a slash or an end there is no path.
LEMMA PathMissing ==
    ASSUME NEW s, NEW end, s.buf[s.p] # "/" \/ strchr(s.buf, s.p, " ") = NULL \/ TooShort(s.p, end, 13)
    PROVE  http_parse_path(s, end) = s
  BY ONLY s.buf[s.p] # "/" \/ strchr(s.buf, s.p, " ") = NULL \/ TooShort(s.p, end, 13) DEF http_parse_path

\* Without its eleven bytes there is no protocol.
LEMMA ProtocolMissing ==
    ASSUME NEW s, NEW end, TooShort(s.p, end, 11)
    PROVE  http_parse_protocol(s, end) = s
  BY ONLY TooShort(s.p, end, 11) DEF http_parse_protocol

-----------------------------------------------------------------------------
(* The stages on a well-formed request.                                    *)

\* The method is read when its first four bytes have arrived.
LEMMA MethodStage ==
    ASSUME NEW b, NEW s, NEW r, NEW qo, NEW ho, NEW len, Arriving(b, s, r, qo, ho, len),
           NEW L, NEW P, NEW o, NEW E, NEW H, NEW Z, Places(r, qo, ho, L, P, o, E, H, Z),
           NEW k, k = r.method.mask, NEW s0, s0 = [buf |-> b, req |-> EmptyReq, p |-> 0], len >= 4
    PROVE  MethodDone(http_parse_method(s0, len), b, k, L)
  <1>0. PICK t : t = r.method.text
    OBVIOUS
  <1>1. RequestParts(s, r, qo, ho, L, P, o, E, H, Z)
    BY ONLY Arriving(b, s, r, qo, ho, len), Places(r, qo, ho, L, P, o, E, H, Z), LaidParts
  <1>2. L = Len(t)
    BY ONLY <1>0, Places(r, qo, ho, L, P, o, E, H, Z) DEF Places
  <1>3. Piece(s, 0, t) /\ CharAt(s, Len(t)) = " "
    BY ONLY <1>0, <1>1, <1>2 DEF RequestParts
  <1>4. t \in Text /\ Len(t) > 2
    BY ONLY <1>0, Arriving(b, s, r, qo, ho, len), WellFormedIs DEF Arriving
  <1>5. Known(t, k)
    BY ONLY <1>0, k = r.method.mask, Arriving(b, s, r, qo, ho, len) DEF Arriving, WellFormed, Known, FirstBytes
  <1>6. Holds(b, s, len) /\ len \in Nat
    BY ONLY Arriving(b, s, r, qo, ho, len), HoldsIs DEF Arriving
  <1>7. ASSUME NEW i \in 0 .. 3 PROVE b[i] = CharAt(s, i)
    <2>1. i \in Nat /\ i < len
      <3>1. len \in Nat
        BY ONLY <1>6
      <3> QED
        BY ONLY <1>7, <3>1, len >= 4
    <2> QED
      BY ONLY <1>6, <2>1, CharArrived DEF CharAt
  <1>8. Begins(b, s, t)
    BY ONLY <1>3, <1>4, <1>7 DEF Begins
  <1>9. Four(b, 0) = FirstBytes(t)
    BY ONLY <1>8, FirstFour
  <1>10. len \in Nat
    BY ONLY <1>6
  <1> QED
    BY ONLY <1>2, <1>5, <1>9, <1>10, s0 = [buf |-> b, req |-> EmptyReq, p |-> 0], len >= 4, MethodParsed

\* The space behind the method is skipped when it has arrived.
LEMMA TrimStage ==
    ASSUME NEW b, NEW s, NEW r, NEW qo, NEW ho, NEW len, Arriving(b, s, r, qo, ho, len),
           NEW L, NEW P, NEW o, NEW E, NEW H, NEW Z, Places(r, qo, ho, L, P, o, E, H, Z),
           NEW k, L \in 3 .. 7
    PROVE  /\ L < len => trim_spaces(PastMethod(b, k, L), len) = PastMethod(b, k, P)
           /\ ~(L < len) => trim_spaces(PastMethod(b, k, L), len) = PastMethod(b, k, L) /\ b[L] # "/"
           /\ L < len /\ ~(P < len) => b[P] # "/"
  <1>0. PICK q, x : q = [EmptyReq EXCEPT !.method = k] /\ x = [buf |-> b, req |-> q, p |-> L]
    OBVIOUS
  <1>1. x = PastMethod(b, k, L) /\ (\A j : PastMethod(b, k, j) = [buf |-> b, req |-> q, p |-> j])
    BY ONLY <1>0 DEF PastMethod
  <1>2. x.buf = b /\ x.req = q /\ x.p = L /\ x = [buf |-> x.buf, req |-> x.req, p |-> x.p]
    BY ONLY <1>0
  <1>3. /\ L \in Nat /\ P \in Nat /\ P = L + 1 /\ P < o /\ o \in Nat
        /\ len \in Nat /\ len <= Cap - 1 /\ Cap \in Nat /\ Cap > 7 /\ L <= 7
    <2>1. /\ L \in Nat /\ L > 2 /\ P \in Nat /\ P = L + 1 /\ o \in Nat /\ P < o /\ E \in Nat /\ o <= E
          /\ H \in Nat /\ H = E + 11 /\ Z \in Nat /\ H <= Z
          /\ len \in Nat /\ len <= Cap - 1 /\ Cap \in Nat /\ Len(s) = Z + 2 /\ len <= Len(s)
      BY ONLY Arriving(b, s, r, qo, ho, len), Places(r, qo, ho, L, P, o, E, H, Z), RequestNumbers
    <2> QED
      BY ONLY <2>1, L \in 3 .. 7, CapAssumption
  <1>4. RequestParts(s, r, qo, ho, L, P, o, E, H, Z)
    BY ONLY Arriving(b, s, r, qo, ho, len), Places(r, qo, ho, L, P, o, E, H, Z), LaidParts
  <1>5. Holds(b, s, len)
    BY ONLY Arriving(b, s, r, qo, ho, len) DEF Arriving
  <1>6. "/" # NUL /\ "/" # " "
    BY DEF NUL
  <1>7. ASSUME NEW i \in Nat, len <= i, i <= Cap - 1 PROVE b[i] # "/"
    <2>1. i \in len .. Cap - 1
      BY ONLY <1>3, <1>7
    <2> QED
      BY ONLY <1>5, <1>6, <2>1 DEF Holds
  <1>8. CASE L < len
    <2>1. CharAt(s, L) = " "
      BY ONLY <1>4 DEF RequestParts
    <2>2. b[L] = " "
      <3>1. L \in Nat
        BY ONLY <1>3
      <3> QED
        BY ONLY <1>5, <1>8, <2>1, <3>1, CharArrived DEF CharAt
    <2>3. P < len => b[P] = "/"
      <3>1. r.path \in Text /\ Len(r.path) > 0 /\ r.path[1] = "/" /\ Piece(s, P, r.path)
        BY ONLY <1>4, Arriving(b, s, r, qo, ho, len) DEF Arriving, WellFormed, RequestParts
      <3>2. 1 \in 1 .. Len(r.path)
        <4>1. r.path \in Text /\ Len(r.path) > 0
          BY ONLY <3>1
        <4> QED
          BY ONLY <4>1 DEF Text
      <3>3. CharAt(s, P) = "/"
        BY ONLY <3>1, <3>2 DEF Piece, CharAt
      <3>4. P \in Nat
        BY ONLY <1>3
      <3> QED
        BY ONLY <1>5, <3>3, <3>4, CharArrived DEF CharAt
    <2>4. P < len => b[P] # " "
      BY ONLY <1>6, <2>3
    <2>5. trim_spaces(x, len) = [buf |-> x.buf, req |-> x.req, p |-> P]
      <3>1. L \in Nat /\ len \in Nat /\ P = L + 1
        BY ONLY <1>3
      <3>2. L = x.p /\ x.buf[L] = " " /\ (P < len => x.buf[P] # " ") /\ x = [buf |-> x.buf, req |-> x.req, p |-> x.p]
        BY ONLY <1>2, <2>2, <2>4
      <3> QED
        <4>1. SpaceAt(x, L, P, len)
          BY ONLY <1>8, <3>1, <3>2 DEF SpaceAt
        <4> QED
          BY ONLY <4>1, TrimSpace
    <2>6. ~(P < len) => b[P] # "/"
      <3>1. ~(P < len) => P \in Nat /\ len <= P /\ P <= Cap - 1
        BY ONLY <1>3, <1>8
      <3> QED
        BY ONLY <1>7, <3>1
    <2> QED
      BY ONLY <1>1, <1>2, <1>8, <2>5, <2>6
  <1>9. CASE ~(L < len)
    <2>1. L \in Nat /\ len \in Nat /\ len <= L /\ L <= Cap - 1
      BY ONLY <1>3, <1>9
    <2>2. trim_spaces(x, len) = [buf |-> x.buf, req |-> x.req, p |-> L]
      <3>1. L \in Nat /\ len \in Nat
        BY ONLY <1>3
      <3>2. L = x.p /\ x = [buf |-> x.buf, req |-> x.req, p |-> x.p]
        BY ONLY <1>2
      <3> QED
        BY ONLY <1>9, <3>1, <3>2, TrimNothing
    <2>3. b[L] # "/"
      BY ONLY <1>7, <2>1
    <2> QED
      BY ONLY <1>1, <1>2, <1>9, <2>2, <2>3
  <1> QED
    BY ONLY <1>8, <1>9

\* Behind the method the request is a state with an empty query and no path.
LEMMA BehindIs ==
    ASSUME NEW b \in Buffers(Alphabet), NEW k \in Masks, NEW p \in 0 .. Cap, NEW x, x = PastMethod(b, k, p)
    PROVE  /\ x \in States(Alphabet) /\ x.buf = b /\ x.p = p
           /\ x.req.method = k /\ x.req.path = NULL /\ x.req.protocol = NULL
           /\ x.req.query = <<>> /\ x.req.headers = <<>>
  <1>1. EmptyReq \in Reqs
    BY ONLY EmptyReqIs
  <1>2. PICK q : q = [EmptyReq EXCEPT !.method = k]
    OBVIOUS
  <1>3. q \in Reqs
    BY ONLY <1>1, <1>2, k \in Masks DEF Reqs
  <1>4. /\ q.method = k /\ q.path = NULL /\ q.protocol = NULL
        /\ q.query = <<>> /\ q.headers = <<>>
    BY ONLY <1>2 DEF EmptyReq
  <1>5. x = [buf |-> b, req |-> q, p |-> p]
    BY ONLY <1>2, x = PastMethod(b, k, p) DEF PastMethod
  <1>6. x \in States(Alphabet)
    BY ONLY <1>3, <1>5, b \in Buffers(Alphabet), p \in 0 .. Cap, StateIs
  <1> QED
    BY ONLY <1>4, <1>5, <1>6

\* What the path stage leaves: no path, or the peer's; and an incomplete request
\* if none.
PathOut(y, b, s, rq, P, r, qo, E, len) ==
    \/ y.req.path = NULL /\ len < Len(s)
    \/ E < len /\ PathDone(y, b, rq, P, r.path, r.query, qo, E)

\* The path and its query are read when the space behind them has arrived.
LEMMA PathStage ==
    ASSUME NEW b, NEW s, NEW r, NEW qo, NEW ho, NEW len, Arriving(b, s, r, qo, ho, len),
           NEW L, NEW P, NEW o, NEW E, NEW H, NEW Z, Places(r, qo, ho, L, P, o, E, H, Z),
           NEW k \in Masks, L \in 3 .. 7
    PROVE  PathOut(http_parse_path(trim_spaces(PastMethod(b, k, L), len), len), b, s, PastMethod(b, k, P).req, P, r, qo, E, len)
  <1>0. PICK x, y, rq : /\ x = trim_spaces(PastMethod(b, k, L), len) /\ y = http_parse_path(x, len)
                        /\ rq = PastMethod(b, k, P).req
    OBVIOUS
  <1>1. /\ L \in Nat /\ P \in Nat /\ P = L + 1 /\ P < o /\ o \in Nat /\ E \in Nat /\ o <= E
        /\ H = E + 11 /\ Z \in Nat /\ H <= Z /\ Len(s) = Z + 2
        /\ len \in Nat /\ len <= Cap - 1 /\ Cap \in Nat
    <2>1. /\ L \in Nat /\ L > 2 /\ P \in Nat /\ P = L + 1 /\ o \in Nat /\ P < o /\ E \in Nat /\ o <= E
          /\ H \in Nat /\ H = E + 11 /\ Z \in Nat /\ H <= Z
          /\ len \in Nat /\ len <= Cap - 1 /\ Cap \in Nat /\ Len(s) = Z + 2 /\ len <= Len(s)
      BY ONLY Arriving(b, s, r, qo, ho, len), Places(r, qo, ho, L, P, o, E, H, Z), RequestNumbers
    <2> QED
      BY ONLY <2>1
  <1>2. /\ L < len => x = PastMethod(b, k, P)
        /\ ~(L < len) => x = PastMethod(b, k, L) /\ b[L] # "/"
        /\ L < len /\ ~(P < len) => b[P] # "/"
    BY ONLY <1>0, Arriving(b, s, r, qo, ho, len), Places(r, qo, ho, L, P, o, E, H, Z), L \in 3 .. 7, TrimStage
  <1>3. b \in Buffers(Alphabet)
    BY ONLY Arriving(b, s, r, qo, ho, len) DEF Arriving, Holds
  <1>4. L \in 0 .. Cap /\ (L < len => P \in 0 .. Cap)
    <2>1. Cap > 7
      BY ONLY CapAssumption
    <2> QED
      BY ONLY <1>1, <2>1, L \in 3 .. 7
  <1>5. CASE ~(L < len)
    <2>1. x.buf = b /\ x.p = L /\ x.req.path = NULL
      <3>1. x = PastMethod(b, k, L)
        BY ONLY <1>2, <1>5
      <3> QED
        BY ONLY <1>3, <1>4, <3>1, k \in Masks, BehindIs
    <2>2. x.buf[x.p] # "/"
      BY ONLY <1>2, <1>5, <2>1
    <2>3. y = x
      BY ONLY <1>0, <2>2, PathMissing
    <2>4. len < Len(s)
      BY ONLY <1>1, <1>5
    <2> QED
      BY ONLY <1>0, <2>1, <2>3, <2>4 DEF PathOut
  <1>6. CASE L < len
    <2>1. /\ x \in States(Alphabet) /\ x.buf = b /\ x.p = P /\ x.req = rq
          /\ x.req.path = NULL /\ x.req.query = <<>>
      <3>1. x = PastMethod(b, k, P) /\ P \in 0 .. Cap
        BY ONLY <1>2, <1>4, <1>6
      <3>2. /\ x \in States(Alphabet) /\ x.buf = b /\ x.p = P
            /\ x.req.method = k /\ x.req.path = NULL /\ x.req.protocol = NULL
            /\ x.req.query = <<>> /\ x.req.headers = <<>>
        BY ONLY <1>3, <3>1, k \in Masks, BehindIs
      <3> QED
        BY ONLY <1>0, <3>1, <3>2
    <2>2. CASE ~(E < len)
      <3>1. strchr(b, P, " ") = NULL
        <4>1. P <= len
          BY ONLY <1>1, <1>6
        <4> QED
          BY ONLY <2>2, <4>1, Arriving(b, s, r, qo, ho, len), Places(r, qo, ho, L, P, o, E, H, Z), PathOpen
      <3>2. y = x
        BY ONLY <1>0, <2>1, <3>1, PathMissing
      <3>3. len < Len(s)
        BY ONLY <1>1, <2>2
      <3> QED
        BY ONLY <1>0, <2>1, <3>2, <3>3 DEF PathOut
    <2>3. CASE E < len /\ TooShort(P, len, 13)
      <3>1. y = x
        BY ONLY <1>0, <2>1, <2>3, PathMissing
      <3>2. len < Len(s)
        BY ONLY <1>1, <2>3 DEF TooShort
      <3> QED
        BY ONLY <1>0, <2>1, <3>1, <3>2 DEF PathOut
    <2>4. CASE E < len /\ ~TooShort(P, len, 13)
      <3>1. PathHere(x.buf, P, r.path, r.query, qo, o, E)
        <4>1. PathHere(b, P, r.path, r.query, qo, o, E)
          BY ONLY <2>4, Arriving(b, s, r, qo, ho, len), Places(r, qo, ho, L, P, o, E, H, Z), PathArrives
        <4> QED
          BY ONLY <2>1, <4>1
      <3>2. PathDone(http_parse_path(x, len), x.buf, x.req, P, r.path, r.query, qo, E)
        <4>1. x \in States(Alphabet) /\ P = x.p /\ x.req.query = <<>> /\ ~TooShort(P, len, 13)
          BY ONLY <2>1, <2>4
        <4> QED
          BY ONLY <3>1, <4>1, PathParsed
      <3> QED
        BY ONLY <1>0, <2>1, <2>4, <3>2 DEF PathOut
    <2> QED
      BY ONLY <2>2, <2>3, <2>4
  <1> QED
    BY ONLY <1>5, <1>6

\* What the protocol stage leaves: no protocol, or the header lines where they
\* were, and everything before them as it was.
ProtocolOut(z, y, s, h, ho, len, E) ==
    \/ z.req.protocol = NULL /\ len < Len(s)
    \/ /\ z \in States(Alphabet) /\ z.req.protocol # NULL /\ HeadersHere(z.buf, s, len, h, ho)
       /\ HeadersAt(z, z.buf, len, h, ho, z.req, 0) /\ E + 11 = ho[0]
       /\ z.req.method = y.req.method /\ z.req.path = y.req.path /\ z.req.query = y.req.query
       /\ \A i \in 0 .. E : z.buf[i] = y.buf[i]

\* The protocol stands where the path ended.
LEMMA ProtocolStands ==
    ASSUME NEW s, NEW E \in Nat, Piece(s, E, ProtocolLine), NEW b, NEW len \in Nat, Holds(b, s, len), E + 12 <= len,
           NEW c, \A i \in E + 1 .. Cap - 1 : c[i] = b[i], len <= Cap - 1, NEW p, p = E + 1
    PROVE  ProtocolHere(c, p, p + 8)
  <1>1. Cap \in Nat
    BY ONLY CapAssumption
  <1>2. p \in Nat /\ p + 8 < Cap - 1
    BY ONLY <1>1, E \in Nat, len \in Nat, E + 12 <= len, len <= Cap - 1, p = E + 1
  <1>3. ASSUME NEW j \in 2 .. 10 PROVE c[p + j - 2] = ProtocolLine[j]
    <2>0. PICK i : i = p + j - 2
      OBVIOUS
    <2>1. i \in E + 1 .. Cap - 1 /\ i \in Nat /\ i < len /\ E + j = i + 1 /\ j \in 1 .. 11
      BY ONLY <1>1, <1>3, <2>0, E \in Nat, len \in Nat, E + 12 <= len, len <= Cap - 1, p = E + 1
    <2>2. c[i] = b[i]
      BY ONLY <2>1, \A l \in E + 1 .. Cap - 1 : c[l] = b[l]
    <2>3. b[i] = s[E + j]
      <3>1. i \in Nat /\ i < len /\ E + j = i + 1
        BY ONLY <2>1
      <3> QED
        BY ONLY <3>1, Holds(b, s, len), CharArrived
    <2>4. s[E + j] = ProtocolLine[j]
      <3>1. j \in 1 .. Len(ProtocolLine)
        <4>1. Len(ProtocolLine) = 11
          BY ONLY Characters
        <4> QED
          BY ONLY <2>1, <4>1
      <3> QED
        BY ONLY <3>1, Piece(s, E, ProtocolLine) DEF Piece
    <2> QED
      BY ONLY <2>0, <2>2, <2>3, <2>4
  <1> QED
    BY ONLY <1>2, <1>3 DEF ProtocolHere

\* Before the first line is read no header is kept.
LEMMA HeadersStart ==
    ASSUME NEW z \in States(Alphabet), z.req.headers = <<>>, NEW h, NEW ho, z.p = ho[0], NEW len
    PROVE  HeadersAt(z, z.buf, len, h, ho, z.req, 0)
  <1>1. Room(0) = 0
    BY ONLY CapAssumption DEF Room
  <1>2. Kept(z.req.headers, 0, HKeys(h, ho), HVals(h, ho))
    <2>1. Len(z.req.headers) = 0
      BY ONLY z.req.headers = <<>>
    <2> QED
      BY ONLY <1>1, <2>1 DEF Kept
  <1>3. Stored(z.buf, 0, HKeys(h, ho), HVals(h, ho), h, ho[0])
    BY ONLY DEF Stored
  <1>4. z.req = [z.req EXCEPT !.headers = z.req.headers]
    <2>1. z.req \in Reqs
      BY ONLY z \in States(Alphabet), StateFields
    <2> QED
      BY ONLY <2>1 DEF Reqs
  <1>5. (\A i \in 0 .. ho[0] - 1 : z.buf[i] = z.buf[i]) /\ (\A i \in ho[0] .. Cap - 1 : z.buf[i] = z.buf[i])
    OBVIOUS
  <1>6. ho[0] <= Cap
    <2>1. z.p \in 0 .. Cap
      BY ONLY z \in States(Alphabet), StateFields
    <2> QED
      BY ONLY <2>1, z.p = ho[0]
  <1> QED
    BY ONLY <1>2, <1>3, <1>4, <1>5, <1>6, z.p = ho[0] DEF HeadersAt

\* The protocol is read when its line has arrived.
LEMMA ProtocolStage ==
    ASSUME NEW b, NEW s, NEW r, NEW qo, NEW ho, NEW len, Arriving(b, s, r, qo, ho, len),
           NEW L, NEW P, NEW o, NEW E, NEW H, NEW Z, Places(r, qo, ho, L, P, o, E, H, Z),
           NEW y, NEW rq, E < len, PathDone(y, b, rq, P, r.path, r.query, qo, E),
           rq.protocol = NULL, rq.headers = <<>>
    PROVE  ProtocolOut(http_parse_protocol(y, len), y, s, r.headers, ho, len, E)
  <1>0. PICK z, p, e, h : z = http_parse_protocol(y, len) /\ p = E + 1 /\ e = p + 8 /\ h = r.headers
    OBVIOUS
  <1>1. /\ E \in Nat /\ H = E + 11 /\ H \in Nat /\ Z \in Nat /\ H <= Z /\ Len(s) = Z + 2
        /\ len \in Nat /\ len <= Cap - 1 /\ Cap \in Nat
    <2>1. /\ L \in Nat /\ L > 2 /\ P \in Nat /\ P = L + 1 /\ o \in Nat /\ P < o /\ E \in Nat /\ o <= E
          /\ H \in Nat /\ H = E + 11 /\ Z \in Nat /\ H <= Z
          /\ len \in Nat /\ len <= Cap - 1 /\ Cap \in Nat /\ Len(s) = Z + 2 /\ len <= Len(s)
      BY ONLY Arriving(b, s, r, qo, ho, len), Places(r, qo, ho, L, P, o, E, H, Z), RequestNumbers
    <2> QED
      BY ONLY <2>1
  <1>2. /\ y \in States(Alphabet) /\ y.p = p /\ y.req.protocol = NULL /\ y.req.headers = <<>>
        /\ \A i \in E + 1 .. Cap - 1 : y.buf[i] = b[i]
    BY ONLY <1>0, PathDone(y, b, rq, P, r.path, r.query, qo, E), rq.protocol = NULL, rq.headers = <<>> DEF PathDone
  <1>3. H = ho[0] /\ Z = ho[Len(h)]
    BY ONLY <1>0, Places(r, qo, ho, L, P, o, E, H, Z) DEF Places
  <1>4. /\ Piece(s, E, ProtocolLine) /\ h \in Lists /\ HeaderFree(h)
        /\ ho \in [0 .. Len(h) -> Nat] /\ LaidHeaders(s, h, ho) /\ CharAt(s, Z) = "\r"
    <2>1. RequestParts(s, r, qo, ho, L, P, o, E, H, Z)
      BY ONLY Arriving(b, s, r, qo, ho, len), Places(r, qo, ho, L, P, o, E, H, Z), LaidParts
    <2> QED
      BY ONLY <1>0, <2>1 DEF RequestParts
  <1>5. Holds(b, s, len)
    BY ONLY Arriving(b, s, r, qo, ho, len) DEF Arriving
  <1>6. CASE TooShort(p, len, 11)
    <2>1. z = y
      BY ONLY <1>0, <1>2, <1>6, ProtocolMissing
    <2>2. len < Len(s)
      <3>1. p = E + 1
        BY ONLY <1>0
      <3> QED
        BY ONLY <1>1, <1>6, <3>1, E < len DEF TooShort
    <2> QED
      BY ONLY <1>0, <1>2, <2>1, <2>2 DEF ProtocolOut
  <1>7. CASE ~TooShort(p, len, 11)
    <2>1. /\ E + 12 <= len /\ p \in Nat /\ p = E + 1 /\ e = E + 9 /\ e + 2 = H /\ e \in Ptr /\ e = p + 8
      <3>1. p = E + 1 /\ e = p + 8
        BY ONLY <1>0
      <3> QED
        BY ONLY <1>1, <1>7, <3>1, E < len DEF TooShort, Ptr
    <2>2. ProtocolHere(y.buf, p, e)
      <3>1. ProtocolHere(y.buf, p, p + 8)
        <4>1. E \in Nat /\ len \in Nat /\ len <= Cap - 1 /\ E + 12 <= len /\ p = E + 1
          BY ONLY <1>1, <2>1
        <4>2. Piece(s, E, ProtocolLine) /\ \A i \in E + 1 .. Cap - 1 : y.buf[i] = b[i]
          BY ONLY <1>2, <1>4
        <4> QED
          BY ONLY <1>5, <4>1, <4>2, ProtocolStands
      <3> QED
        BY ONLY <2>1, <3>1
    <2>3. z = [buf |-> Ended(y.buf, e), req |-> [y.req EXCEPT !.protocol = p], p |-> e + 2]
      <3>1. y \in States(Alphabet) /\ p = y.p
        BY ONLY <1>2
      <3> QED
        BY ONLY <1>0, <1>7, <2>2, <3>1, ProtocolParsed
    <2>4. z \in States(Alphabet)
      BY ONLY <1>0, <1>2, ProtocolIs
    <2>5. y.req \in Reqs /\ y.buf \in Buffers(Alphabet) /\ z.buf \in Buffers(Alphabet)
      BY ONLY <1>2, <2>4, StateFields
    <2>6. /\ z.req.method = y.req.method /\ z.req.path = y.req.path /\ z.req.query = y.req.query
          /\ z.req.headers = y.req.headers /\ z.buf = Ended(y.buf, e) /\ z.p = e + 2
      BY ONLY <2>3, <2>5 DEF Reqs
    <2>7. \A i \in Ptr : i # e => z.buf[i] = y.buf[i]
      <3>1. DOMAIN y.buf = Ptr /\ e \in Ptr
        BY ONLY <2>1, <2>5 DEF Buffers
      <3> QED
        BY ONLY <2>6, <3>1, EndedIs
    <2>8. \A i \in 0 .. E : i \in Ptr /\ i # e
      BY ONLY <1>1, <2>1 DEF Ptr
    <2>9. \A i \in H .. Cap - 1 : i \in Ptr /\ i # e /\ i \in E + 1 .. Cap - 1
      BY ONLY <1>1, <2>1 DEF Ptr
    <2>10. \A i \in H .. Cap - 1 : z.buf[i] = b[i]
      BY ONLY <1>2, <2>7, <2>9
    <2>11. HoldsFrom(z.buf, s, len, H)
      <3>1. HoldsFrom(b, s, len, 0)
        <4>1. \A i \in 0 .. Cap - 1 : i >= len => i \in len .. Cap - 1
          BY ONLY <1>1
        <4>2. \A i \in 0 .. Cap - 1 : i >= len => b[i] = NUL
          BY ONLY <1>5, <4>1 DEF Holds
        <4> QED
          BY ONLY <1>5, <4>2 DEF HoldsFrom, Holds, CharAt
      <3>2. H \in Nat /\ 0 <= H
        BY ONLY <1>1
      <3> QED
        BY ONLY <2>5, <2>10, <3>1, <3>2, HoldsBehind
    <2>12. HeadersHere(z.buf, s, len, h, ho)
      BY ONLY <1>3, <1>4, <2>11 DEF HeadersHere
    <2>13. HeadersAt(z, z.buf, len, h, ho, z.req, 0)
      <3>1. z.req.headers = <<>> /\ z.p = ho[0]
        BY ONLY <1>2, <1>3, <2>1, <2>6
      <3> QED
        BY ONLY <2>4, <3>1, HeadersStart
    <2>14. \A i \in 0 .. E : z.buf[i] = y.buf[i]
      BY ONLY <2>7, <2>8
    <2>15. E + 11 = ho[0]
      BY ONLY <1>1, <1>3
    <2>16. z.req.protocol # NULL
      <3>1. z.req.protocol = p
        BY ONLY <2>3, <2>5 DEF Reqs
      <3>2. p # NULL
        BY ONLY <2>1 DEF NULL
      <3> QED
        BY ONLY <3>1, <3>2
    <2> QED
      BY ONLY <1>0, <2>4, <2>6, <2>12, <2>13, <2>14, <2>15, <2>16 DEF ProtocolOut
  <1> QED
    BY ONLY <1>6, <1>7

-----------------------------------------------------------------------------
(* What is read is what was sent.                                          *)

\* The first entries of a list, as many as there is room for.
LEMMA FirstOfIs ==
    ASSUME NEW list \in Lists
    PROVE  Fitting(list, Len(list)) = FirstOf(list, KvSz)
  <1>0. PICK N : N = Len(list)
    OBVIOUS
  <1>1. N \in Nat /\ KvSz \in Nat
    BY ONLY <1>0, list \in Lists, ListLen, CapAssumption
  <1>2. Min({KvSz, N}) = Room(N)
    <2>1. PICK T : T = {KvSz, N}
      OBVIOUS
    <2>2. T \subseteq Nat /\ T # {}
      BY ONLY <1>1, <2>1
    <2>3. Min(T) \in T /\ \A y \in T : Min(T) <= y
      BY ONLY <2>2, MinIs
    <2>4. (Min(T) = KvSz \/ Min(T) = N) /\ Min(T) <= KvSz /\ Min(T) <= N
      BY ONLY <2>1, <2>3
    <2>5. Min(T) = Room(N)
      BY ONLY <1>1, <2>4 DEF Room
    <2> QED
      BY ONLY <2>1, <2>5
  <1>3. PICK k : k = Room(N)
    OBVIOUS
  <1>4. k \in Nat
    BY ONLY <1>1, <1>3 DEF Room
  <1>5. FirstOf(list, KvSz) = SubSeq(list, 1, k)
    BY ONLY <1>0, <1>2, <1>3 DEF FirstOf
  <1>6. SubSeq(list, 1, k) = [i \in 1 .. k |-> list[i]]
    <2>1. SubSeq(list, 1, k) = [i \in 1 .. (1 + k - 1) |-> list[i + 1 - 1]]
      BY ONLY <1>4
    <2> QED
      BY ONLY <1>4, <2>1
  <1> QED
    BY ONLY <1>0, <1>3, <1>5, <1>6 DEF Fitting

\* The first entries of a list are a prefix of it.
LEMMA PrefixIs ==
    ASSUME NEW list \in Lists, NEW n \in 0 .. Len(list)
    PROVE  IsPrefix(Fitting(list, n), list)
  <1>0. PICK k, N, f : k = Room(n) /\ N = Len(list) /\ f = [i \in 1 .. k |-> list[i]]
    OBVIOUS
  <1>1. N \in Nat /\ KvSz \in Nat
    BY ONLY <1>0, list \in Lists, ListLen, CapAssumption
  <1>2. k \in Nat /\ k <= N
    <2>1. n \in 0 .. N /\ k = Room(n)
      BY ONLY <1>0, n \in 0 .. Len(list)
    <2> QED
      BY ONLY <1>1, <2>1 DEF Room
  <1>3. Len(f) = k
    BY ONLY <1>0, <1>2
  <1>4. SubSeq(f, 1, k) = [i \in 1 .. k |-> f[i]] /\ SubSeq(list, 1, k) = [i \in 1 .. k |-> list[i]]
    <2>1. ASSUME NEW t PROVE SubSeq(t, 1, k) = [i \in 1 .. k |-> t[i]]
      <3>1. SubSeq(t, 1, k) = [i \in 1 .. (1 + k - 1) |-> t[i + 1 - 1]]
        BY ONLY <1>2
      <3> QED
        BY ONLY <1>2, <3>1
    <2> QED
      BY ONLY <2>1
  <1>5. \A i \in 1 .. k : f[i] = list[i]
    BY ONLY <1>0
  <1>6. SubSeq(f, 1, k) = SubSeq(list, 1, k)
    BY ONLY <1>4, <1>5
  <1>7. IsPrefix(f, list)
    <2>1. Len(f) <= Len(list)
      BY ONLY <1>0, <1>2, <1>3
    <2> QED
      BY ONLY <1>3, <1>6, <2>1 DEF IsPrefix
  <1> QED
    BY ONLY <1>0, <1>7 DEF Fitting

\* The request read from the buffer is the peer's, as far as it has arrived.
Conveys(b, rq, r) ==
    /\ rq.method = r.method.mask
    /\ Str(b, rq.path) = r.path
    /\ Strings(b, rq.query) = FirstOf(r.query, KvSz)
    /\ IsPrefix(Strings(b, rq.headers), r.headers)

\* With all its headers, unless one of them is too short for the parser.
ConveysAll(b, rq, r) ==
    (\A h \in Range(r.headers) : ~ShortHeader(h)) => Strings(b, rq.headers) = FirstOf(r.headers, KvSz)

\* The path and the query are still there after the headers were read.
LEMMA PathRemains ==
    ASSUME NEW y, NEW b, NEW rq, NEW P, NEW t \in Text, NEW q \in Lists, NEW qo, NEW E \in Nat, E < Cap,
           PathDone(y, b, rq, P, t, q, qo, E),
           NEW w \in States(Alphabet), w.req.query = y.req.query, \A i \in 0 .. E : w.buf[i] = y.buf[i]
    PROVE  Str(w.buf, P) = t /\ Strings(w.buf, w.req.query) = FirstOf(q, KvSz)
  <1>0. PICK N, k, ks, vs : N = Len(q) /\ k = E + 1 /\ ks = QKeys(q, qo) /\ vs = QVals(q, qo)
    OBVIOUS
  <1>1. /\ Kept(y.req.query, N, ks, vs) /\ Stored(y.buf, N, ks, vs, q, k) /\ StringAt(y.buf, P, t, k)
    BY ONLY <1>0, PathDone(y, b, rq, P, t, q, qo, E) DEF PathDone
  <1>2. k \in Nat /\ k <= k /\ k <= Cap /\ k - 1 = E
    <2>1. k = E + 1
      BY ONLY <1>0
    <2> QED
      BY ONLY <2>1, E \in Nat, E < Cap, CapAssumption
  <1>3. \A i \in 0 .. k - 1 : w.buf[i] = y.buf[i]
    BY ONLY <1>2, \A i \in 0 .. E : w.buf[i] = y.buf[i]
  <1>4. StringAt(w.buf, P, t, k)
    BY ONLY <1>1, <1>2, <1>3, t \in Text, StringKept
  <1>5. Str(w.buf, P) = t
    BY ONLY <1>2, <1>4, t \in Text, StrIs
  <1>6. N \in 0 .. Len(q)
    BY ONLY <1>0, q \in Lists, ListLen
  <1>7. Stored(w.buf, N, ks, vs, q, k)
    BY ONLY <1>1, <1>2, <1>3, <1>6, q \in Lists, StoredKept
  <1>8. w.req.query \in Pairs /\ Kept(w.req.query, N, ks, vs)
    BY ONLY <1>1, w \in States(Alphabet), w.req.query = y.req.query, StateFields
  <1>9. MapOf(w.buf, w.req.query, q, N, ks, vs, k)
    BY ONLY <1>2, <1>6, <1>7, <1>8, q \in Lists DEF MapOf
  <1>10. Strings(w.buf, w.req.query) = Fitting(q, N)
    BY ONLY <1>9, StringsAre
  <1> QED
    BY ONLY <1>0, <1>5, <1>10, q \in Lists, FirstOfIs

\* The headers kept are those whose lines have arrived.
LEMMA HeadersRead ==
    ASSUME NEW b, NEW s, NEW len, NEW h, NEW ho, HeadersHere(b, s, len, h, ho), NEW rq,
           NEW w, HeadersDone(w, b, len, h, ho, rq)
    PROVE  /\ IsPrefix(Strings(w.buf, w.req.headers), h)
           /\ len = ho[Len(h)] + 2 /\ (\A l \in Range(h) : ~ShortHeader(l)) =>
                Strings(w.buf, w.req.headers) = FirstOf(h, KvSz)
  <1>1. w \in States(Alphabet) /\ w.p >= len
    BY ONLY HeadersDone(w, b, len, h, ho, rq) DEF HeadersDone
  <1>2. PICK n \in 0 .. Len(h) : HeadersAt(w, b, len, h, ho, rq, n)
    BY ONLY HeadersDone(w, b, len, h, ho, rq) DEF HeadersDone
  <1>0. PICK N, ks, vs, a, Z : N = Len(h) /\ ks = HKeys(h, ho) /\ vs = HVals(h, ho) /\ a = ho[n] /\ Z = ho[N]
    OBVIOUS
  <1>3. /\ Kept(w.req.headers, n, ks, vs) /\ Stored(w.buf, n, ks, vs, h, a) /\ a <= Cap
        /\ w.p = a \/ (w.p = len /\ Left(h, ho, len, n))
    BY ONLY <1>0, <1>2 DEF HeadersAt
  <1>4. h \in Lists /\ ho \in [0 .. N -> Nat] /\ len \in Nat
    BY ONLY <1>0, HeadersHere(b, s, len, h, ho), CapAssumption DEF HeadersHere, HoldsFrom, Ptr
  <1>5. a \in Nat /\ a <= Z /\ Z \in Nat /\ N \in Nat
    <2>1. /\ ho[n] \in Nat /\ ho[0] \in Nat /\ ho[0] <= ho[n] /\ ho[n] <= ho[Len(h)] /\ ho[Len(h)] \in Nat
          /\ Len(h) \in Nat /\ n \in Nat
      BY ONLY <1>2, HeadersHere(b, s, len, h, ho), LineStarts
    <2> QED
      BY ONLY <1>0, <2>1
  <1>6. w.req.headers \in Pairs
    BY ONLY <1>1, StateFields
  <1>7. Strings(w.buf, w.req.headers) = Fitting(h, n)
    <2>1. a \in Nat /\ a <= Cap /\ Kept(w.req.headers, n, ks, vs) /\ Stored(w.buf, n, ks, vs, h, a)
      BY ONLY <1>3, <1>5
    <2>2. h \in Lists /\ n \in 0 .. Len(h)
      BY ONLY <1>2, <1>4
    <2>3. MapOf(w.buf, w.req.headers, h, n, ks, vs, a)
      BY ONLY <1>6, <2>1, <2>2 DEF MapOf
    <2> QED
      BY ONLY <2>3, StringsAre
  <1>8. IsPrefix(Strings(w.buf, w.req.headers), h)
    <2>1. h \in Lists /\ n \in 0 .. Len(h)
      BY ONLY <1>2, <1>4
    <2> QED
      BY ONLY <1>7, <2>1, PrefixIs
  <1>9. ASSUME len = Z + 2, \A l \in Range(h) : ~ShortHeader(l)
        PROVE  Strings(w.buf, w.req.headers) = FirstOf(h, KvSz)
    <2>1. Left(h, ho, len, n)
      <3>1. ~(a >= len)
        BY ONLY <1>5, <1>9
      <3> QED
        BY ONLY <1>1, <1>3, <3>1
    <2>2. ASSUME NEW m \in 1 .. Len(h) PROVE ~(len + 1 < ho[m]) /\ ~ShortHeader(h[m])
      <3>1. m \in 0 .. Len(h) /\ m \in 1 .. N
        BY ONLY <1>0, <1>5, <2>2
      <3>2. /\ ho[m] \in Nat /\ ho[0] \in Nat /\ ho[0] <= ho[m] /\ ho[m] <= ho[Len(h)] /\ ho[Len(h)] \in Nat
            /\ Len(h) \in Nat /\ m \in Nat
        BY ONLY <3>1, HeadersHere(b, s, len, h, ho), LineStarts
      <3>3. ho[m] \in Nat /\ ho[m] <= Z
        BY ONLY <1>0, <3>2
      <3>4. ~(len + 1 < ho[m])
        <4>1. PICK x : x = ho[m]
          OBVIOUS
        <4>2. x \in Nat /\ x <= Z /\ Z \in Nat /\ len = Z + 2
          BY ONLY <1>5, <1>9, <3>3, <4>1
        <4>3. ~(len + 1 < x)
          BY ONLY <4>2
        <4> QED
          BY ONLY <4>1, <4>3
      <3>5. h[m] \in Range(h)
        <4>1. m \in DOMAIN h
          BY ONLY <1>4, <2>2 DEF Lists
        <4> QED
          BY ONLY <4>1 DEF Range
      <3> QED
        BY ONLY <1>9, <3>4, <3>5
    <2>3. n = Len(h)
      BY ONLY <2>1, <2>2 DEF Left
    <2> QED
      BY ONLY <1>4, <1>7, <2>3, FirstOfIs
  <1> QED
    BY ONLY <1>0, <1>8, <1>9

\* What the parser makes of a well-formed request cut anywhere.
Outcome(out, r, s, len) ==
    /\ out.verdict = "parsed" => Conveys(out.buf, out.req, r)
    /\ len = Len(s) => out.verdict = "parsed" /\ ConveysAll(out.buf, out.req, r)

\* It rejects the request, if it is not complete, or reads what was sent.
LEMMA ParsedAsSent ==
    ASSUME NEW b, NEW s, NEW r, NEW qo, NEW ho, NEW len, Arriving(b, s, r, qo, ho, len)
    PROVE  Outcome(http_parse_request(b, EmptyReq, len), r, s, len)
  <1>1. PICK L, P, o, E, H, Z : Places(r, qo, ho, L, P, o, E, H, Z)
    BY ONLY DEF Places
  <1>2. /\ L \in Nat /\ L > 2 /\ P \in Nat /\ P = L + 1 /\ o \in Nat /\ P < o /\ E \in Nat /\ o <= E
        /\ H \in Nat /\ H = E + 11 /\ Z \in Nat /\ H <= Z
        /\ len \in Nat /\ len <= Cap - 1 /\ Cap \in Nat /\ Len(s) = Z + 2 /\ len <= Len(s)
    BY ONLY <1>1, Arriving(b, s, r, qo, ho, len), RequestNumbers
  <1>3. PICK k, s0, s1, s2, s3, s4, out :
          /\ k = r.method.mask /\ s0 = [buf |-> b, req |-> EmptyReq, p |-> 0]
          /\ s1 = http_parse_method(s0, len) /\ s2 = http_parse_path(trim_spaces(s1, len), len)
          /\ s3 = http_parse_protocol(s2, len) /\ s4 = http_parse_headers(s3, len)
          /\ out = http_parse_request(b, EmptyReq, len)
    OBVIOUS
  <1>4. /\ s1.req.method = "0" => out = [buf |-> s1.buf, req |-> s1.req, verdict |-> "400"]
        /\ s1.req.method # "0" /\ s2.req.path = NULL => out = [buf |-> s2.buf, req |-> s2.req, verdict |-> "400"]
        /\ s1.req.method # "0" /\ s2.req.path # NULL /\ s3.req.protocol = NULL =>
             out = [buf |-> s3.buf, req |-> s3.req, verdict |-> "400"]
        /\ s1.req.method # "0" /\ s2.req.path # NULL /\ s3.req.protocol # NULL =>
             out = [buf |-> s4.buf, req |-> s4.req, verdict |-> "parsed"]
    BY ONLY <1>3 DEF http_parse_request
  <1>5. ASSUME len < Len(s), out.verdict = "400" PROVE Outcome(out, r, s, len)
    <2>1. len # Len(s)
      BY ONLY <1>2, <1>5
    <2> QED
      BY ONLY <1>5, <2>1 DEF Outcome
  <1>6. CASE ~(len >= 4)
    <2>1. s1.req.method = "0"
      <3>1. len \in Nat
        BY ONLY <1>2
      <3> QED
        BY ONLY <1>3, <1>6, <3>1, MethodMissing
    <2>2. out.verdict = "400"
      BY ONLY <1>4, <2>1
    <2>3. len < Len(s)
      BY ONLY <1>2, <1>6
    <2> QED
      BY ONLY <1>3, <1>5, <2>2, <2>3
  <1>7. CASE len >= 4
    <2>1. s1 = PastMethod(b, k, L) /\ k # "0" /\ k \in Masks /\ L \in 3 .. 7
      <3>1. MethodDone(s1, b, k, L)
        BY ONLY <1>1, <1>3, <1>7, Arriving(b, s, r, qo, ho, len), MethodStage
      <3> QED
        BY ONLY <3>1 DEF MethodDone
    <2>2. s1.req.method = k
      <3>1. [EmptyReq EXCEPT !.method = k].method = k
        BY ONLY DEF EmptyReq
      <3> QED
        BY ONLY <2>1, <3>1 DEF PastMethod
    <2>3. PICK rq : rq = PastMethod(b, k, P).req
      OBVIOUS
    <2>4. rq.method = k /\ rq.path = NULL /\ rq.protocol = NULL /\ rq.query = <<>> /\ rq.headers = <<>>
      BY ONLY <2>3 DEF PastMethod, EmptyReq
    <2>5. PathOut(s2, b, s, rq, P, r, qo, E, len)
      BY ONLY <1>1, <1>3, <2>1, <2>3, Arriving(b, s, r, qo, ho, len), PathStage
    <2>6. CASE s2.req.path = NULL /\ len < Len(s)
      <3>1. out.verdict = "400"
        BY ONLY <1>4, <2>1, <2>2, <2>6
      <3> QED
        BY ONLY <1>3, <1>5, <2>6, <3>1
    <2>7. CASE E < len /\ PathDone(s2, b, rq, P, r.path, r.query, qo, E)
      <3>1. s2.req.path = P /\ s2.req.method = k
        BY ONLY <2>4, <2>7 DEF PathDone
      <3>2. s2.req.path # NULL
        BY ONLY <1>2, <3>1 DEF NULL
      <3>3. ProtocolOut(s3, s2, s, r.headers, ho, len, E)
        BY ONLY <1>1, <1>3, <2>4, <2>7, Arriving(b, s, r, qo, ho, len), ProtocolStage
      <3>4. CASE s3.req.protocol = NULL /\ len < Len(s)
        <4>1. out.verdict = "400"
          BY ONLY <1>4, <2>1, <2>2, <3>2, <3>4
        <4> QED
          BY ONLY <1>3, <1>5, <3>4, <4>1
      <3>5. CASE /\ s3 \in States(Alphabet) /\ s3.req.protocol # NULL /\ HeadersHere(s3.buf, s, len, r.headers, ho)
                 /\ HeadersAt(s3, s3.buf, len, r.headers, ho, s3.req, 0) /\ E + 11 = ho[0]
                 /\ s3.req.method = s2.req.method /\ s3.req.path = s2.req.path /\ s3.req.query = s2.req.query
                 /\ \A i \in 0 .. E : s3.buf[i] = s2.buf[i]
        <4>0. PICK h : h = r.headers
          OBVIOUS
        <4>1. out = [buf |-> s4.buf, req |-> s4.req, verdict |-> "parsed"]
          BY ONLY <1>4, <2>1, <2>2, <3>2, <3>5
        <4>2. HeadersHere(s3.buf, s, len, h, ho) /\ HeadersDone(s4, s3.buf, len, h, ho, s3.req)
          BY ONLY <1>3, <3>5, <4>0, HeadersTaken
        <4>3. /\ IsPrefix(Strings(s4.buf, s4.req.headers), h)
              /\ len = ho[Len(h)] + 2 /\ (\A l \in Range(h) : ~ShortHeader(l)) =>
                   Strings(s4.buf, s4.req.headers) = FirstOf(h, KvSz)
          BY ONLY <4>2, HeadersRead
        <4>4. s4 \in States(Alphabet) /\ \E n \in 0 .. Len(h) : HeadersAt(s4, s3.buf, len, h, ho, s3.req, n)
          BY ONLY <4>2 DEF HeadersDone
        <4>5. /\ s4.req = [s3.req EXCEPT !.headers = s4.req.headers]
              /\ \A i \in 0 .. ho[0] - 1 : s4.buf[i] = s3.buf[i]
          BY ONLY <4>4 DEF HeadersAt
        <4>6. s4.req.method = k /\ s4.req.path = P /\ s4.req.query = s2.req.query
          <5>1. s3.req \in Reqs
            BY ONLY <3>5, StateFields
          <5>2. s4.req.method = s3.req.method /\ s4.req.path = s3.req.path /\ s4.req.query = s3.req.query
            BY ONLY <4>5, <5>1 DEF Reqs
          <5> QED
            BY ONLY <3>1, <3>5, <5>2
        <4>7. \A i \in 0 .. E : s4.buf[i] = s2.buf[i]
          <5>1. \A i \in 0 .. E : i \in 0 .. ho[0] - 1
            <6>1. E \in Nat /\ ho[0] = E + 11
              BY ONLY <1>2, <3>5
            <6> QED
              BY ONLY <6>1
          <5>2. \A i \in 0 .. E : s3.buf[i] = s2.buf[i]
            BY ONLY <3>5
          <5> QED
            BY ONLY <4>5, <5>1, <5>2
        <4>8. Str(s4.buf, P) = r.path /\ Strings(s4.buf, s4.req.query) = FirstOf(r.query, KvSz)
          <5>1. r.path \in Text /\ r.query \in Lists
            BY ONLY Arriving(b, s, r, qo, ho, len), WellFormedIs DEF Arriving
          <5>2. E \in Nat /\ E < Cap
            BY ONLY <1>2, <2>7
          <5>3. s4 \in States(Alphabet) /\ s4.req.query = s2.req.query
            BY ONLY <4>4, <4>6
          <5>4. PathDone(s2, b, rq, P, r.path, r.query, qo, E)
            BY ONLY <2>7
          <5> QED
            BY ONLY <4>7, <5>1, <5>2, <5>3, <5>4, PathRemains
        <4>9. out.buf = s4.buf /\ out.req = s4.req /\ out.verdict = "parsed"
          BY ONLY <4>1
        <4>10. Conveys(out.buf, out.req, r)
          BY ONLY <1>3, <4>0, <4>3, <4>6, <4>8, <4>9 DEF Conveys
        <4>11. ASSUME len = Len(s) PROVE ConveysAll(out.buf, out.req, r)
          <5>1. len = ho[Len(h)] + 2
            <6>1. Z = ho[Len(h)]
              BY ONLY <1>1, <4>0 DEF Places
            <6>2. len = Z + 2
              BY ONLY <1>2, <4>11
            <6> QED
              BY ONLY <6>1, <6>2
          <5> QED
            BY ONLY <4>0, <4>3, <4>9, <5>1 DEF ConveysAll
        <4> QED
          BY ONLY <1>3, <4>9, <4>10, <4>11 DEF Outcome
      <3> QED
        BY ONLY <3>3, <3>4, <3>5 DEF ProtocolOut
    <2> QED
      BY ONLY <2>5, <2>6, <2>7 DEF PathOut
  <1> QED
    BY ONLY <1>6, <1>7

-----------------------------------------------------------------------------
(* HttpParser: the inductive invariant.                                    *)

\* A slot that waits for a request is empty; a full buffer is not parsed; and
\* what was parsed left a NUL at the end of the buffer and no pointer out of it.
Inside ==
    /\ DOMAIN buf = Ptr
    /\ verdict \in {"none", "413", "400", "parsed"}
    /\ verdict = "none" => buf = EmptyBuf
    /\ verdict \in {"none", "413"} => req = EmptyReq
    /\ verdict \in {"400", "parsed"} => buf[Cap - 1] = NUL /\ req \in Reqs

\* The inductive invariant.
ParserInv == Inside /\ VerdictIsOwn

\* What is received into an empty buffer that it does not fill leaves the last
\* byte NUL.
LEMMA ReceivedIs ==
    ASSUME NEW text, NEW len \in 1 .. Cap
    PROVE  /\ DOMAIN Received(EmptyBuf, text, len) = Ptr
           /\ len # Cap => /\ len \in Ptr
                           /\ \E C : Received(EmptyBuf, text, len) \in Buffers(C)
  <1> DEFINE b == Received(EmptyBuf, text, len)
             C == {text[i] : i \in 1 .. Cap}
  <1>1. Cap \in Nat /\ Cap > 7
    BY CapAssumption
  <1>2. b = [i \in Ptr |-> IF i < len THEN text[i + 1] ELSE NUL]
    BY DEF Received, EmptyBuf, Ptr
  <1>3. \A i \in Ptr : i + 1 \in 1 .. Cap
    BY <1>1 DEF Ptr
  <1>4. ASSUME len # Cap PROVE len \in Ptr /\ b \in Buffers(C)
    <2>1. len \in Ptr /\ Cap - 1 \in Ptr /\ ~(Cap - 1 < len)
      BY <1>1, <1>4 DEF Ptr
    <2>2. b[Cap - 1] = NUL
      <3> HIDE DEF b
      <3> QED
        BY <1>2, <2>1
    <2>3. \A i \in Ptr : (IF i < len THEN text[i + 1] ELSE NUL) \in C \cup {NUL}
      BY <1>3
    <2>4. b \in [Ptr -> C \cup {NUL}]
      <3> HIDE DEF b, C
      <3> QED
        BY <1>2, <2>3
    <2> HIDE DEF b, C
    <2> QED
      BY <2>1, <2>2, <2>4 DEF Buffers
  <1>5. DOMAIN b = Ptr
    <2> HIDE DEF b
    <2> QED
      BY <1>2
  <1> HIDE DEF C
  <1> QED
    BY <1>4, <1>5

\* The invariant holds initially.
LEMMA ParserInitInv == ParserInit => ParserInv
  BY DEF ParserInit, ParserInv, Inside, VerdictIsOwn, EmptyBuf, Ptr

\* One recv, whatever it returns.
LEMMA RecvInv ==
    ASSUME ParserInv, NEW text, NEW len \in 1 .. Cap, NEW r, Recv(text, len, r)
    PROVE  ParserInv' /\ verdict' \in IF len = Cap THEN {"413"} ELSE {"400", "parsed"}
  <1> DEFINE b == Received(EmptyBuf, text, len)
             parsed == http_parse_request(b, EmptyReq, len)
             out == IF TooLarge(len) THEN [buf |-> b, req |-> EmptyReq, verdict |-> "413"] ELSE parsed
  <1>1. verdict = "none" /\ buf = EmptyBuf /\ req = EmptyReq
    BY DEF Recv, ParserInv, Inside
  <1>2. buf' = out.buf /\ req' = out.req /\ verdict' = out.verdict /\ sent' = [text |-> text, len |-> len]
    BY <1>1 DEF Recv
  <1>3. DOMAIN b = Ptr /\ (len # Cap => len \in Ptr /\ \E C : b \in Buffers(C))
    BY ReceivedIs
  <1>4. CASE len = Cap
    <2>1. out = [buf |-> b, req |-> EmptyReq, verdict |-> "413"]
      BY <1>4 DEF TooLarge
    <2> HIDE DEF out, b
    <2>2. buf' = b /\ req' = EmptyReq /\ verdict' = "413"
      BY <1>2, <2>1
    <2> QED
      BY <1>3, <1>4, <2>2 DEF ParserInv, Inside, VerdictIsOwn, Ptr, EmptyReq
  <1>5. CASE len # Cap
    <2>1. out = parsed
      BY <1>5 DEF TooLarge
    <2>2. PICK C : b \in Buffers(C)
      BY <1>3, <1>5
    <2>3. /\ parsed.buf \in Buffers(C) /\ parsed.req \in Reqs /\ parsed.verdict \in {"400", "parsed"}
          /\ parsed = [buf |-> parsed.buf, req |-> parsed.req, verdict |-> parsed.verdict]
      BY <1>3, <1>5, <2>2, ParserResult, EmptyReqIs
    <2>4. sent'.text = text /\ sent'.len = len
      BY <1>2
    <2>5. VerdictIsOwn'
      <3>1. http_parse_request(Received(EmptyBuf, sent'.text, sent'.len), EmptyReq, sent'.len) = parsed
        BY <2>4
      <3> HIDE DEF parsed, out
      <3>2. parsed = [buf |-> buf', req |-> req', verdict |-> verdict']
        BY <1>2, <2>1, <2>3
      <3> QED
        BY <3>1, <3>2 DEF VerdictIsOwn, EmptyBuf, EmptyReq
    <2> HIDE DEF parsed, out, b
    <2>6. DOMAIN parsed.buf = Ptr /\ parsed.buf[Cap - 1] = NUL
      BY <2>3 DEF Buffers
    <2>7. Inside'
      BY <1>2, <2>1, <2>3, <2>6 DEF Inside, Ptr, Reqs
    <2>8. verdict' \in {"400", "parsed"}
      BY <1>2, <2>1, <2>3
    <2> QED
      BY <1>5, <2>5, <2>7, <2>8 DEF ParserInv
  <1> QED
    BY <1>4, <1>5

\* RESET empties the slot.
LEMMA ResetRequestInv == ParserInv /\ ResetRequest => ParserInv'
  BY DEF ParserInv, Inside, VerdictIsOwn, ResetRequest, ClearedReq, EmptyBuf, EmptyReq, Ptr

\* Every step keeps the invariant.
LEMMA ParserNextInv == ParserInv /\ [ParserNext]_ParserVars => ParserInv'
  <1> SUFFICES ASSUME ParserInv, [ParserNext]_ParserVars PROVE ParserInv'
    OBVIOUS
  <1>1. ASSUME NEW text, NEW len \in Lengths(text), NEW r, Recv(text, len, r) PROVE ParserInv'
    BY <1>1, RecvInv DEF Lengths
  <1>2. CASE ResetRequest
    BY <1>2, ResetRequestInv
  <1>3. CASE UNCHANGED ParserVars
    BY <1>3 DEF ParserVars, ParserInv, Inside, VerdictIsOwn
  <1> QED
    BY <1>1, <1>2, <1>3 DEF ParserNext

\* The invariant holds in every behaviour.
LEMMA ParserInvariance == ParserSpec => []ParserInv
  BY ParserInitInv, ParserNextInv, PTL DEF ParserSpec

\* Whatever the parser keeps points into the buffer.
LEMMA PointersInside ==
    ASSUME NEW r \in Reqs
    PROVE  Pointers(r) \subseteq Ptr /\ Len(r.query) <= KvSz /\ Len(r.headers) <= KvSz /\ r.method \in Masks
  <1>1. /\ r.path \in Ptr \cup {NULL} /\ r.protocol \in Ptr \cup {NULL} /\ r.method \in Masks
        /\ r.query \in Pairs /\ r.headers \in Pairs
    BY DEF Reqs
  <1>2. ASSUME NEW kv \in Pairs
        PROVE  Len(kv) <= KvSz /\ \A x \in Range(kv) : x.key \in Ptr /\ x.value \in Ptr
    <2> DEFINE Pair == [key : Ptr, value : Ptr]
    <2>1. kv \in Seq(Pair) /\ Len(kv) <= KvSz
      BY DEF Pairs
    <2>2. \A i \in DOMAIN kv : kv[i] \in Pair
      <3> HIDE DEF Pair
      <3> QED
        BY <2>1
    <2> QED
      BY <2>1, <2>2 DEF Range
  <1> QED
    BY <1>1, <1>2 DEF Pointers

-----------------------------------------------------------------------------
(* HttpParser: the request behind the text.                                *)

\* While the peer's text is that of a well-formed request, it has a verdict,
\* and only a full buffer is too large.
Awaited ==
    \A r \in wanted :
        /\ WellFormed(r) /\ sent.text = Format(r)
        /\ sent.len \in 1 .. Cap /\ sent.len <= Len(sent.text)
        /\ verdict \in IF sent.len = Cap THEN {"413"} ELSE {"400", "parsed"}

\* Every step keeps it.
LEMMA AwaitedInv == ParserInv /\ Awaited /\ [ParserNext]_ParserVars => Awaited'
  <1> SUFFICES ASSUME ParserInv, Awaited, [ParserNext]_ParserVars PROVE Awaited'
    OBVIOUS
  <1>1. ASSUME NEW r \in Requests, NEW len \in Lengths(Format(r)), Recv(Format(r), len, {r}) PROVE Awaited'
    <2>1. len \in 1 .. Cap /\ len <= Len(Format(r))
      BY DEF Lengths
    <2>2. verdict' \in IF len = Cap THEN {"413"} ELSE {"400", "parsed"}
      BY <1>1, <2>1, RecvInv
    <2>3. sent'.text = Format(r) /\ sent'.len = len /\ wanted' = {r}
      BY <1>1 DEF Recv
    <2>4. WellFormed(r)
      BY RequestAssumption
    <2> QED
      BY ONLY <2>1, <2>2, <2>3, <2>4 DEF Awaited
  <1>2. ASSUME NEW t, NEW len, Recv(t, len, {}) PROVE Awaited'
    BY <1>2 DEF Recv, Awaited
  <1>3. CASE ResetRequest
    BY <1>3 DEF ResetRequest, Awaited
  <1>4. CASE UNCHANGED ParserVars
    BY ONLY <1>4, Awaited DEF ParserVars, Awaited
  <1> QED
    BY <1>1, <1>2, <1>3, <1>4 DEF ParserNext

\* What recv leaves in an empty buffer.
LEMMA ReceivedHolds ==
    ASSUME NEW t \in Text, NEW len \in 1 .. Cap, len # Cap, len <= Len(t)
    PROVE  Holds(Received(EmptyBuf, t, len), t, len)
  <1>0. PICK b : b = Received(EmptyBuf, t, len)
    OBVIOUS
  <1>1. Cap \in Nat /\ Cap > 7
    BY CapAssumption
  <1>2. b = [i \in Ptr |-> IF i < len THEN t[i + 1] ELSE NUL]
    BY ONLY <1>0 DEF Received, EmptyBuf, Ptr
  <1>3. Len(t) \in Nat
    BY ONLY t \in Text DEF Text
  <1>4. /\ len \in Ptr /\ len \in Nat /\ Cap - 1 \in Ptr /\ ~(Cap - 1 < len)
        /\ \A i \in 0 .. len - 1 : i \in Ptr /\ i < len
        /\ \A i \in len .. Cap - 1 : i \in Ptr /\ ~(i < len)
        /\ \A i \in Ptr : i < len => i + 1 \in 1 .. Len(t)
    BY ONLY <1>1, <1>3, len \in 1 .. Cap, len # Cap, len <= Len(t) DEF Ptr
  <1>5. \A i \in 1 .. Len(t) : t[i] \in Alphabet
    BY ONLY t \in Text DEF Text
  <1>6. b \in [Ptr -> Alphabet \cup {NUL}]
    BY ONLY <1>2, <1>4, <1>5
  <1>7. b[Cap - 1] = NUL
    BY ONLY <1>2, <1>4
  <1>8. b \in Buffers(Alphabet)
    BY ONLY <1>6, <1>7 DEF Buffers
  <1>9. \A i \in 0 .. len - 1 : b[i] = t[i + 1]
    BY ONLY <1>2, <1>4
  <1>10. \A i \in len .. Cap - 1 : b[i] = NUL
    BY ONLY <1>2, <1>4
  <1> QED
    BY ONLY <1>0, <1>3, <1>4, <1>8, <1>9, <1>10, len <= Len(t) DEF Holds

\* The verdict and the request are the parser's answer to what was sent.
LEMMA AnswerGiven ==
    ASSUME ParserInv, Awaited, NEW r \in wanted, verdict # "413"
    PROVE  Outcome([buf |-> buf, req |-> req, verdict |-> verdict], r, sent.text, sent.len)
  <1>0. PICK t, len : t = sent.text /\ len = sent.len
    OBVIOUS
  <1>1. /\ WellFormed(r) /\ t = Format(r) /\ len \in 1 .. Cap /\ len <= Len(t)
        /\ len # Cap /\ verdict \in {"400", "parsed"}
    BY ONLY <1>0, Awaited, r \in wanted, verdict # "413" DEF Awaited
  <1>2. PICK b : b = Received(EmptyBuf, t, len)
    OBVIOUS
  <1>3. http_parse_request(b, EmptyReq, len) = [buf |-> buf, req |-> req, verdict |-> verdict]
    BY ONLY <1>0, <1>1, <1>2, ParserInv DEF ParserInv, VerdictIsOwn
  <1>4. PICK qo, ho : Laid(t, r, qo, ho)
    BY ONLY <1>1, FormatIs
  <1>5. t \in Text
    BY ONLY <1>4 DEF Laid
  <1>6. Holds(b, t, len)
    <2>1. len \in 1 .. Cap /\ len # Cap /\ len <= Len(t)
      BY ONLY <1>1
    <2> QED
      BY ONLY <1>2, <1>5, <2>1, ReceivedHolds
  <1>7. Arriving(b, t, r, qo, ho, len)
    BY ONLY <1>1, <1>4, <1>6 DEF Arriving
  <1>8. Outcome(http_parse_request(b, EmptyReq, len), r, t, len)
    BY ONLY <1>7, ParsedAsSent
  <1> QED
    BY ONLY <1>0, <1>3, <1>8

-----------------------------------------------------------------------------
(* HttpParser: the theorems.                                               *)

\* The loop over the query has left its while loop when the model stops it: the
\* cursor is at the end of the path, for every buffer and every request.
THEOREM QueryLoopEnds ==
    \A C : \A s \in States(C), eop \in 0 .. Cap - 2 : ParseQuery(s, eop).p >= eop
  BY ParseQueryIs

\* So has the loop over the header lines.
THEOREM HeaderLoopEnds ==
    \A C : \A s \in States(C), end \in 0 .. Cap - 1 : http_parse_headers(s, end).p >= end
  BY HeadersAre

\* Every pointer the parser keeps points into the receive buffer and no map is
\* overfull, for every capacity of the buffer and of the maps and whatever text
\* is received.
THEOREM ParserTypeCorrect == ParserSpec => []TypeOK
  <1>1. ParserInv => TypeOK
    <2> SUFFICES ASSUME ParserInv PROVE TypeOK
      OBVIOUS
    <2>1. DOMAIN buf = 0 .. Cap - 1 /\ verdict \in {"none", "413", "400", "parsed"} /\ req \in Reqs
      BY EmptyReqIs DEF ParserInv, Inside, Ptr
    <2> QED
      BY <2>1, PointersInside DEF TypeOK, Ptr, Masks
  <1> QED
    BY ParserInvariance, <1>1, PTL

\* Every string the parser hands out ends inside the receive buffer: the answer
\* 413 to a full buffer leaves a NUL behind what is parsed, and the parser
\* itself only adds NULs.
THEOREM StringsEnd == ParserSpec => []StringsEndInBuffer
  <1>1. ParserInv => StringsEndInBuffer
    <2> SUFFICES ASSUME ParserInv, NEW p \in Pointers(req) PROVE \E i \in p .. Cap - 1 : buf[i] = NUL
      BY DEF StringsEndInBuffer
    <2>1. req # EmptyReq
      BY DEF Pointers, EmptyReq, Range
    <2>2. buf[Cap - 1] = NUL /\ req \in Reqs
      BY <2>1 DEF ParserInv, Inside
    <2>3. p \in 0 .. Cap - 1
      BY <2>2, PointersInside DEF Ptr
    <2> QED
      BY <2>2, <2>3, CapAssumption
  <1> QED
    BY ParserInvariance, <1>1, PTL

\* The verdict, the request and the buffer are those of the same bytes in a slot
\* that was never used: RESET leaves nothing of an earlier request.
THEOREM VerdictOwn == ParserSpec => []VerdictIsOwn
  <1>1. ParserInv => VerdictIsOwn
    BY DEF ParserInv
  <1> QED
    BY ParserInvariance, <1>1, PTL

\* A well-formed request, cut anywhere by recv, is rejected or read as sent, and
\* a complete one is never rejected: for every capacity of the buffer and of the
\* maps, every alphabet and every set of well-formed requests.
THEOREM RequestReadAsSent == ParserSpec => []ReadAsSent
  <1>1. ParserInit => Awaited
    BY DEF ParserInit, Awaited
  <1>2. ASSUME ParserInv, Awaited PROVE ReadAsSent
    <2> SUFFICES ASSUME NEW r \in wanted
        PROVE  /\ verdict = "parsed" =>
                     /\ req.method = r.method.mask
                     /\ Str(buf, req.path) = r.path
                     /\ Strings(buf, req.query) = FirstOf(r.query, KvSz)
                     /\ IsPrefix(Strings(buf, req.headers), r.headers)
               /\ sent.len = Len(sent.text) /\ verdict # "413" =>
                     /\ verdict = "parsed"
                     /\ (\A h \in Range(r.headers) : ~ShortHeader(h)) => Keeps(r)
      BY DEF ReadAsSent
    <2>1. CASE verdict = "413"
      BY ONLY <2>1
    <2>2. CASE verdict # "413"
      <3>1. PICK out : out = [buf |-> buf, req |-> req, verdict |-> verdict]
        OBVIOUS
      <3>2. Outcome(out, r, sent.text, sent.len)
        BY ONLY <1>2, <2>2, <3>1, r \in wanted, AnswerGiven
      <3>3. out.buf = buf /\ out.req = req /\ out.verdict = verdict
        BY ONLY <3>1
      <3>4. verdict = "parsed" => Conveys(buf, req, r)
        BY ONLY <3>2, <3>3 DEF Outcome
      <3>5. sent.len = Len(sent.text) => verdict = "parsed" /\ ConveysAll(buf, req, r)
        BY ONLY <3>2, <3>3 DEF Outcome
      <3> QED
        BY ONLY <3>4, <3>5 DEF Conveys, ConveysAll, Keeps
    <2> QED
      BY ONLY <2>1, <2>2
  <1> QED
    BY ParserInvariance, <1>1, <1>2, AwaitedInv, PTL DEF ParserSpec
-----------------------------------------------------------------------------
(* Responder: the inductive invariant.                                     *)

\* g is a function on the slots.
OnConn(g) == g = [c \in Conn |-> g[c]]

\* Every field has a value for every slot.
Functions == OnConn(phase) /\ OnConn(res) /\ OnConn(fresstr) /\ OnConn(spliced) /\ OnConn(route)

\* What a handler that waits for a request has in res, fresstr and the rings:
\* nothing, whatever was served before and however it ended.
Clean(c) == res[c] = EmptyRes /\ fresstr[c] = <<>> /\ spliced[c] = NoSplice /\ route[c] = 0

\* Every slot that waits for a request is clean.
WaitsClean == \A c \in Conn : phase[c] = "recv" => Clean(c)

\* The inductive invariant.
AnswerInv == Functions /\ WaitsClean /\ DynamicAnswerIsOwn

\* The answer of the dynamic route i.
DynamicAnswer(i) ==
    <<<<"status", 200>>, <<"Content-Type", "text/plain">>, <<"Content-Length", 1>>, <<"body", i>>>>

\* DynamicAnswerIsOwn for slot c.
DynamicOwn(c) ==
    route[c] # 0 /\ Routes[route[c]].filepath = NoFile =>
        fresstr[c] = DynamicAnswer(route[c]) /\ spliced[c] = NoSplice

\* The property, slot by slot.
LEMMA BySlot == DynamicAnswerIsOwn <=> \A c \in Conn : DynamicOwn(c)
  BY DEF DynamicAnswerIsOwn, DynamicOwn, DynamicAnswer

-----------------------------------------------------------------------------
(* What http_compose_response makes of a response that started empty.      *)

\* What the handler of route i leaves in res.
DynamicRes(i) ==
    [status |-> 200, file |-> NoFile, file_fd |-> NoFile, file_sz |-> 0,
     headers |-> <<<<"Content-Type", "text/plain">>>>, str |-> <<<<"body", i>>>>]

\* Such a response is composed to the answer of its route.
LEMMA ComposeDynamic == ASSUME NEW i PROVE http_compose_response(<<>>, DynamicRes(i)) = DynamicAnswer(i)
  <1>1. /\ DynamicRes(i).status = 200 /\ DynamicRes(i).file = NoFile
        /\ DynamicRes(i).file_fd = NoFile
        /\ DynamicRes(i).headers = <<<<"Content-Type", "text/plain">>>>
        /\ DynamicRes(i).str = <<<<"body", i>>>> /\ Len(DynamicRes(i).str) = 1
    BY DEF DynamicRes
  <1>2. http_compose_response(<<>>, DynamicRes(i)) =
            <<>> \o <<<<"status", 200>>>> \o <<<<"Content-Type", "text/plain">>>>
                 \o (<<<<"Content-Length", 1>>>> \o <<<<"body", i>>>>)
    BY <1>1 DEF http_compose_response
  <1> QED
    BY <1>2 DEF DynamicAnswer

-----------------------------------------------------------------------------
(* Every step keeps the invariant.                                         *)

\* The invariant holds initially.
LEMMA AnswerInit == Init => AnswerInv
  <1> SUFFICES ASSUME Init PROVE AnswerInv
    OBVIOUS
  <1>1. Functions
    BY DEF Init, Functions, OnConn
  <1>2. \A c \in Conn : Clean(c)
    BY DEF Init, Clean
  <1> QED
    BY <1>1, <1>2, BySlot DEF AnswerInv, WaitsClean, Clean, DynamicOwn

\* The slots a step leaves alone.
LEMMA Others ==
    ASSUME AnswerInv, NEW c \in Conn,
           phase'[c] = phase[c], res'[c] = res[c], fresstr'[c] = fresstr[c],
           spliced'[c] = spliced[c], route'[c] = route[c]
    PROVE  (phase[c] = "recv" => Clean(c))' /\ DynamicOwn(c)'
  <1>1. (phase[c] = "recv" => Clean(c)) /\ DynamicOwn(c)
    BY BySlot DEF AnswerInv, WaitsClean
  <1> QED
    BY <1>1 DEF Clean, DynamicOwn, DynamicAnswer, EmptyRes, NoSplice

\* The invariant after a step, from what the step does to its slot.
LEMMA OneSlot ==
    ASSUME AnswerInv, NEW c \in Conn, Functions',
           \A d \in Conn \ {c} : /\ phase'[d] = phase[d] /\ res'[d] = res[d]
                                 /\ fresstr'[d] = fresstr[d] /\ spliced'[d] = spliced[d]
                                 /\ route'[d] = route[d],
           (phase[c] = "recv" => Clean(c))', DynamicOwn(c)'
    PROVE  AnswerInv'
  <1>1. ASSUME NEW d \in Conn
        PROVE  (phase[d] = "recv" => Clean(d))' /\ DynamicOwn(d)'
    <2>1. CASE d = c
      BY <2>1
    <2>2. CASE d # c
      BY <2>2, Others
    <2> QED
      BY <2>1, <2>2
  <1>2. WaitsClean'
    BY <1>1 DEF WaitsClean
  <1>3. DynamicAnswerIsOwn'
    BY <1>1 DEF DynamicAnswerIsOwn, DynamicOwn, DynamicAnswer
  <1> QED
    BY <1>2, <1>3 DEF AnswerInv

\* An error answer shows nothing of what is in res, and a handler's leftovers
\* stay there only until RESET.
LEMMA ErrorStep ==
    ASSUME AnswerInv, NEW c \in Conn, NEW r, Ready(c), ErrorAnswer(c, r)
    PROVE  AnswerInv'
  <1>1. Clean(c) /\ Functions
    BY DEF Ready, AnswerInv, WaitsClean
  <1>2. /\ Functions'
        /\ \A d \in Conn \ {c} : phase'[d] = phase[d] /\ res'[d] = res[d]
        /\ phase'[c] = "sent"
    BY <1>1 DEF ErrorAnswer, Functions, OnConn
  <1>3. UNCHANGED <<fresstr, spliced, route>>
    BY DEF ErrorAnswer
  <1>4. route'[c] = 0
    BY <1>1, <1>3 DEF Clean
  <1> QED
    BY <1>2, <1>3, <1>4, OneSlot DEF DynamicOwn

\* An answer composed from a response that the handler has filled in.
LEMMA AnswerStep ==
    ASSUME AnswerInv, NEW c \in Conn, NEW i, NEW r, Ready(c), Answer(c, i, r), i # 0,
           Routes[i].filepath = NoFile => r = DynamicRes(i)
    PROVE  AnswerInv'
  <1>1. Clean(c) /\ Functions
    BY DEF Ready, AnswerInv, WaitsClean
  <1>2. Functions'
    BY <1>1 DEF Answer, Functions, OnConn
  <1>3. \A d \in Conn \ {c} : /\ phase'[d] = phase[d] /\ res'[d] = res[d]
                              /\ fresstr'[d] = fresstr[d] /\ spliced'[d] = spliced[d]
                              /\ route'[d] = route[d]
    BY <1>1 DEF Answer, Functions, OnConn
  <1>4. /\ phase'[c] = "sent" /\ route'[c] = i
        /\ fresstr'[c] = http_compose_response(<<>>, r)
        /\ spliced'[c] = IF WatchStaticFiles THEN [file |-> r.file_fd, sz |-> r.file_sz] ELSE NoSplice
    BY <1>1 DEF Answer, Functions, OnConn, Clean
  <1>5. DynamicOwn(c)'
    <2>1. ASSUME Routes[i].filepath = NoFile
          PROVE  fresstr'[c] = DynamicAnswer(i) /\ spliced'[c] = NoSplice
      <3>1. fresstr'[c] = DynamicAnswer(i)
        BY <1>4, <2>1, ComposeDynamic
      <3>2. r.file_fd = NoFile /\ r.file_sz = 0
        BY <2>1 DEF DynamicRes
      <3> QED
        BY <1>4, <3>1, <3>2 DEF NoSplice
    <2> QED
      BY <1>4, <2>1 DEF DynamicOwn, DynamicAnswer
  <1> QED
    BY <1>2, <1>3, <1>4, <1>5, OneSlot

\* A ROUTER handler, whether it succeeds or fails half way.
LEMMA DynamicStep ==
    ASSUME AnswerInv, NEW c \in Conn, NEW i, i # 0, ServeDynamic(c, i)
    PROVE  AnswerInv'
  <1>1. Ready(c) /\ res[c] = EmptyRes /\ Routes[i].filepath = NoFile
    BY DEF ServeDynamic, Ready, AnswerInv, WaitsClean, Clean
  <1>2. Filled(c, i) = DynamicRes(i)
    <2>1. \A x : Append(<<>>, x) = <<x>>
      OBVIOUS
    <2>2. Filled(c, i) = [EmptyRes EXCEPT !.str = <<<<"body", i>>>>,
                             !.headers = <<<<"Content-Type", "text/plain">>>>, !.status = 200]
      BY <1>1, <2>1 DEF Filled, EmptyRes
    <2> QED
      BY <2>2 DEF DynamicRes, EmptyRes
  <1>3. CASE Answer(c, i, Filled(c, i))
    BY <1>1, <1>2, <1>3, AnswerStep
  <1>4. CASE \E r \in {res[c], Filled(c, i)} : ErrorAnswer(c, r)
    BY <1>1, <1>4, ErrorStep
  <1> QED
    BY <1>3, <1>4 DEF ServeDynamic

\* global_static_router, with the file opened anew or with the cached mapping.
LEMMA StaticStep ==
    ASSUME AnswerInv, NEW c \in Conn, NEW i, i # 0,
           \/ StaticFails(c, i) \/ MmapFails(c, i) \/ StaticOpened(c, i) \/ StaticCached(c, i)
    PROVE  AnswerInv'
  <1>1. Ready(c) /\ res[c] = EmptyRes /\ Routes[i].filepath # NoFile
    BY DEF StaticFails, MmapFails, StaticOpened, StaticCached, Ready, AnswerInv, WaitsClean, Clean
  <1>2. CASE StaticFails(c, i) \/ MmapFails(c, i)
    BY <1>1, <1>2, ErrorStep DEF StaticFails, MmapFails
  <1>3. CASE StaticOpened(c, i)
    <2>1. PICK r : Answer(c, i, r)
      BY <1>3 DEF StaticOpened
    <2> QED
      BY <1>1, <2>1, AnswerStep
  <1>4. CASE StaticCached(c, i)
    <2>1. CASE UNCHANGED <<phase, res, fresstr, spliced, route, data>>
      BY <2>1 DEF AnswerInv, Functions, OnConn, WaitsClean, Clean, DynamicAnswerIsOwn
    <2>2. ASSUME NEW sz, NEW mime, Answer(c, i, Static(c, data, NoFile, sz, mime)) PROVE AnswerInv'
      BY <1>1, <1>4, <2>2, AnswerStep DEF StaticCached
    <2> QED
      BY <1>4, <2>1, <2>2 DEF StaticCached
  <1> QED
    BY <1>2, <1>3, <1>4

\* RESET clears all of the slot.
LEMMA AnswerReset ==
    ASSUME AnswerInv, NEW c \in Conn, Reset(c)
    PROVE  AnswerInv'
  <1>1. Functions
    BY DEF AnswerInv
  <1>2. Functions'
    BY <1>1 DEF Reset, Functions, OnConn
  <1>3. \A d \in Conn \ {c} : /\ phase'[d] = phase[d] /\ res'[d] = res[d]
                              /\ fresstr'[d] = fresstr[d] /\ spliced'[d] = spliced[d]
                              /\ route'[d] = route[d]
    BY <1>1 DEF Reset, Functions, OnConn
  <1>4. Clean(c)'
    BY <1>1 DEF Reset, ResetRes, Functions, OnConn, Clean, EmptyRes, NoSplice
  <1>5. DynamicOwn(c)'
    BY <1>4 DEF Clean, DynamicOwn
  <1> QED
    BY <1>2, <1>3, <1>4, <1>5, OneSlot

\* Every step keeps the invariant.
LEMMA AnswerNext == AnswerInv /\ [Next]_vars => AnswerInv'
  <1> SUFFICES ASSUME AnswerInv, [Next]_vars PROVE AnswerInv'
    OBVIOUS
  <1>1. ASSUME NEW c \in Conn, Reset(c) PROVE AnswerInv'
    BY <1>1, AnswerReset
  <1>2. ASSUME NEW c \in Conn, Reject(c) PROVE AnswerInv'
    BY <1>2, ErrorStep DEF Reject
  <1>3. ASSUME NEW c \in Conn, NEW path \in Path, NEW method \in Method, Serve(c, path, method)
        PROVE  AnswerInv'
    BY <1>2, <1>3, DynamicStep, StaticStep DEF Serve
  <1>4. CASE UNCHANGED vars
    BY <1>4 DEF vars, AnswerInv, Functions, OnConn, WaitsClean, Clean, DynamicAnswerIsOwn
  <1> QED
    BY <1>1, <1>2, <1>3, <1>4 DEF Next

\* The invariant holds in every behaviour.
LEMMA AnswerInvariance == Spec => []AnswerInv
  BY AnswerInit, AnswerNext, PTL DEF Spec

-----------------------------------------------------------------------------
(* The theorems.                                                           *)

\* What a ROUTER handler answers consists of what it wrote for this request
\* alone, although res and fresstr live as long as the coroutine and an earlier
\* handler may have failed after it had written to them.
THEOREM DynamicIsOwn == Spec => []DynamicAnswerIsOwn
  <1>1. AnswerInv => DynamicAnswerIsOwn
    BY DEF AnswerInv
  <1> QED
    BY AnswerInvariance, <1>1, PTL
=============================================================================
