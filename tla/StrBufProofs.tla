---------------------------- MODULE StrBufProofs ----------------------------
(***************************************************************************)
(* Theorems about StrBuf, for every word width, every sequence of pieces   *)
(* and every heap.                                                         *)
(***************************************************************************)
EXTENDS StrBuf, FiniteSetTheorems, TLAPS

-----------------------------------------------------------------------------
(* Powers of two.  The SMT backend does not know ^, so the arithmetic is   *)
(* done with Pow, about which the library says what is needed: 2^n is the  *)
(* number of subsets of a set of n elements.                               *)

\* 2^n.
Pow(n) == 2^n

\* The subsets of an interval are counted by a power of two.
LEMMA PowCounts ==
    ASSUME NEW n \in Nat
    PROVE  /\ IsFiniteSet(1..n) /\ IsFiniteSet(SUBSET (1..n))
           /\ Cardinality(SUBSET (1..n)) = Pow(n)
           /\ Pow(n) \in Nat /\ Pow(n) > 0
  <1>1. IsFiniteSet(1..n) /\ Cardinality(1..n) = n
    BY FS_Interval
  <1>2. IsFiniteSet(SUBSET (1..n)) /\ Cardinality(SUBSET (1..n)) = Pow(Cardinality(1..n))
    BY <1>1, FS_SUBSET, Zenon DEF Pow
  <1>3. Cardinality(SUBSET (1..n)) = Pow(n)
    BY <1>1, <1>2
  <1>4. Pow(n) \in Nat
    BY <1>2, <1>3, FS_CardinalityType
  <1>5. SUBSET (1..n) # {}
    OBVIOUS
  <1>6. Pow(n) # 0
    BY <1>2, <1>3, <1>5, FS_EmptySet
  <1> QED
    BY <1>1, <1>2, <1>3, <1>4, <1>6

\* A subset of 1..a+b is a subset of 1..a and one of 1..b.
LEMMA PowSum ==
    ASSUME NEW a \in Nat, NEW b \in Nat
    PROVE  Pow(a + b) = Pow(a) * Pow(b)
  <1> DEFINE S == SUBSET (1 .. a + b)
             T == (SUBSET (1..a)) \X (SUBSET (1..b))
             f == [s \in S |-> <<s \cap (1..a), {i \in 1..b : a + i \in s}>>]
  <1>1. f \in [S -> T]
    OBVIOUS
  <1>2. \A s, t \in S : f[s] = f[t] => s = t
    <2> SUFFICES ASSUME NEW s \in S, NEW t \in S, f[s] = f[t] PROVE s = t
      OBVIOUS
    <2>1. s \cap (1..a) = t \cap (1..a) /\ {i \in 1..b : a + i \in s} = {i \in 1..b : a + i \in t}
      OBVIOUS
    <2>2. \A j \in 1 .. a + b : j \in s <=> j \in t
      <3> TAKE j \in 1 .. a + b
      <3>1. CASE j \in 1..a
        BY <2>1, <3>1
      <3>2. CASE j \notin 1..a
        <4>1. j - a \in 1..b /\ a + (j - a) = j
          BY <3>2
        <4> HIDE DEF S, f
        <4>2. (j - a) \in {i \in 1..b : a + i \in s} <=> (j - a) \in {i \in 1..b : a + i \in t}
          BY <2>1
        <4> QED
          BY <4>1, <4>2
      <3> QED
        BY <3>1, <3>2
    <2> QED
      BY <2>2
  <1>3. \A p \in T : \E s \in S : f[s] = p
    <2> SUFFICES ASSUME NEW p \in T PROVE \E s \in S : f[s] = p
      OBVIOUS
    <2>1. PICK u \in SUBSET (1..a), v \in SUBSET (1..b) : p = <<u, v>>
      OBVIOUS
    <2> DEFINE w == {a + i : i \in v}
               s == u \cup w
    <2>2. \A j \in u : j \in 1..a
      BY <2>1
    <2>3. \A j \in w : j \in a + 1 .. a + b /\ j - a \in v
      BY <2>1
    <2>4. \A i \in v : i \in 1..b /\ a + i \in w
      BY <2>1
    <2> HIDE DEF w
    <2>5. \A j \in s : j \in 1 .. a + b
      BY <2>2, <2>3
    <2>6. s \in S
      BY <2>5
    <2>7. /\ \A j \in 1..a : j \in s => j \in u
          /\ \A j \in u : j \in s /\ j \in 1..a
      <3>1. \A j \in 1..a : j \notin w
        <4>1. \A j \in 1..a : j \notin a + 1 .. a + b
          OBVIOUS
        <4> QED
          BY <2>3, <4>1
      <3> QED
        BY <2>2, <3>1
    <2>8. s \cap (1..a) = u
      <3> HIDE DEF s
      <3> QED
        BY <2>7
    <2>9. \A i \in 1..b : a + i \in s <=> i \in v
      BY <2>2, <2>3, <2>4
    <2>10. {i \in 1..b : a + i \in s} = v
      <3> HIDE DEF s
      <3> QED
        BY <2>4, <2>9
    <2>11. f[s] = <<u, v>>
      <3> HIDE DEF s
      <3> QED
        BY <2>6, <2>8, <2>10
    <2> QED
      BY <2>1, <2>6, <2>11
  <1>4. f \in Bijection(S, T)
    <2> HIDE DEF f, S, T
    <2> QED
      BY <1>1, <1>2, <1>3 DEF Bijection, Injection, Surjection, IsInjective
  <1>5. IsFiniteSet(S) /\ Cardinality(S) = Pow(a + b)
    BY PowCounts
  <1>6. Cardinality(T) = Pow(a) * Pow(b)
    <2>1. /\ IsFiniteSet(SUBSET (1..a)) /\ Cardinality(SUBSET (1..a)) = Pow(a)
          /\ IsFiniteSet(SUBSET (1..b)) /\ Cardinality(SUBSET (1..b)) = Pow(b)
      BY PowCounts
    <2>2. Cardinality(T) = Cardinality(SUBSET (1..a)) * Cardinality(SUBSET (1..b))
      BY <2>1, FS_Product
    <2> QED
      BY <2>1, <2>2
  <1>7. Cardinality(S) = Cardinality(T)
    <2> HIDE DEF f, S, T
    <2>1. ExistsBijection(S, T)
      BY <1>4 DEF ExistsBijection
    <2> QED
      BY <1>5, <2>1, FS_Bijection
  <1> QED
    BY <1>5, <1>6, <1>7

\* A set of numbers that is not empty has a least member.
LEMMA LeastNat ==
    ASSUME NEW T, T \subseteq Nat, T # {}
    PROVE  \E x \in T : \A y \in T : x <= y
  <1> DEFINE R == OpToRel(<, Nat)
  <1>1. IsWellFoundedOn(R, Nat)
    BY NatLessThanWellFounded
  <1>2. \A x, y \in Nat : <<y, x>> \in R <=> y < x
    BY DEF OpToRel
  <1> HIDE DEF R
  <1>3. PICK x \in T : \A y \in T : ~(<<y, x>> \in R)
    BY <1>1, WFMin
  <1>4. \A y \in T : x <= y
    <2> TAKE y \in T
    <2>1. x \in Nat /\ y \in Nat
      OBVIOUS
    <2>2. ~(y < x)
      BY <1>2, <1>3, <2>1
    <2> QED
      BY <2>1, <2>2
  <1> QED
    BY <1>4

\* 2^n is a positive number.
LEMMA PowType == \A n \in Nat : Pow(n) \in Nat /\ Pow(n) > 0
  BY PowCounts

\* Two elements make a set of two.
LEMMA PairCount ==
    ASSUME NEW x, NEW y, x # y
    PROVE  Cardinality({x} \cup {y}) = 2
  <1>1. IsFiniteSet({x}) /\ Cardinality({x}) = 1 /\ y \notin {x}
    BY FS_Singleton
  <1> QED
    BY <1>1, FS_AddElement

\* 2^n grows with n.
LEMMA PowMonotone ==
    ASSUME NEW a \in Nat, NEW b \in Nat, a <= b
    PROVE  Pow(a) <= Pow(b)
  <1>1. b - a \in Nat /\ a + (b - a) = b
    OBVIOUS
  <1>2. Pow(a + (b - a)) = Pow(a) * Pow(b - a)
    BY <1>1, PowSum
  <1>3. Pow(a) \in Nat /\ Pow(b - a) \in Nat /\ Pow(b - a) > 0
    BY <1>1, PowType
  <1>4. Pow(a) * Pow(b - a) >= Pow(a)
    BY <1>3
  <1> QED
    BY <1>1, <1>2, <1>3, <1>4

\* 2^n as it is computed.
LEMMA PowStep ==
    ASSUME NEW n \in Nat
    PROVE  Pow(n + 1) = 2 * Pow(n) /\ Pow(0) = 1
  <1>1. /\ IsFiniteSet({1}) /\ Cardinality({1}) = 1 /\ IsFiniteSet({}) /\ Cardinality({}) = 0
    BY FS_Singleton, FS_EmptySet
  <1>2. Cardinality(SUBSET {}) = Pow(Cardinality({}))
    BY <1>1, FS_SUBSET, Zenon DEF Pow
  <1>3. SUBSET {} = {{}}
    OBVIOUS
  <1>4. Cardinality({{}}) = 1
    BY FS_Singleton
  <1>5. Pow(0) = 1
    BY <1>1, <1>2, <1>3, <1>4
  <1>6. Cardinality(SUBSET {1}) = Pow(Cardinality({1}))
    BY <1>1, FS_SUBSET, Zenon DEF Pow
  <1>7. SUBSET {1} = {{}} \cup {{1}}
    <2>1. \A s \in SUBSET {1} : s = {} \/ s = {1}
      OBVIOUS
    <2> QED
      BY <2>1
  <1>8. {} # {1}
    OBVIOUS
  <1>9. Cardinality({{}} \cup {{1}}) = 2
    BY <1>8, PairCount
  <1>10. Pow(1) = 2
    BY <1>1, <1>6, <1>7, <1>9
  <1>11. Pow(n + 1) = Pow(n) * Pow(1)
    BY PowSum
  <1>12. Pow(n) \in Nat
    BY PowType
  <1> QED
    BY <1>5, <1>10, <1>11, <1>12

-----------------------------------------------------------------------------
(* The capacity.                                                           *)

\* The assumptions on the constants, with Pow and half the width of int.
LEMMA Widths ==
    /\ IntW \in Nat \ {0} /\ W = 2 * IntW /\ MinCapacity \in Nat \ {0}
    /\ IntW \div 2 \in Nat \ {0} /\ IntW = 2 * (IntW \div 2)
    /\ InitSize \subseteq 1 .. Pow(W) - 1 /\ MaxTotal \in 0 .. Pow(W) - 1
    /\ Piece \subseteq Seq(STRING)
  <1>1. IntW \in Nat \ {0} /\ W = 2 * IntW /\ MinCapacity \in Nat \ {0} /\ IntW % 2 = 0
    BY WidthAssumption
  <1>2. IntW \div 2 \in Nat \ {0} /\ IntW = 2 * (IntW \div 2)
    BY <1>1
  <1>3. InitSize \subseteq 1 .. Pow(W) - 1 /\ MaxTotal \in 0 .. Pow(W) - 1 /\ Piece \subseteq Seq(STRING)
    BY SizeAssumption, Zenon DEF Pow
  <1> QED
    BY <1>1, <1>2, <1>3

\* __builtin_clzl counts the zeros above the highest bit k of n.
LEMMA HighestBit ==
    ASSUME NEW n \in 1 .. Pow(W) - 1
    PROVE  \E k \in 0 .. W - 1 : clzl(n) = W - 1 - k /\ Pow(k) <= n /\ n < Pow(k + 1)
  <1> DEFINE T == {j \in Nat : n < Pow(j)}
             Is(k) == Pow(k) <= n /\ n < Pow(k + 1)
  <1>1. W \in Nat /\ Pow(W) \in Nat /\ n \in Nat
    BY Widths, PowType
  <1>2. T \subseteq Nat /\ W \in T
    BY <1>1
  <1>3. PICK j \in T : \A i \in T : j <= i
    <2> HIDE DEF T
    <2> QED
      BY <1>2, LeastNat
  <1>4. j \in Nat /\ j <= W /\ n < Pow(j)
    BY <1>2, <1>3
  <1>5. j # 0
    BY <1>4, PowStep
  <1>6. j - 1 \in 0 .. W - 1 /\ j - 1 \in Nat /\ (j - 1) + 1 = j
    BY <1>1, <1>4, <1>5
  <1>7. j - 1 \notin T
    <2> HIDE DEF T
    <2> QED
      BY <1>3, <1>4, <1>6
  <1>8. Pow(j - 1) \in Nat
    BY <1>6, PowType
  <1>9. Is(j - 1)
    BY <1>1, <1>4, <1>6, <1>7, <1>8
  <1>10. clzl(n) = W - 1 - (CHOOSE k \in 0 .. W - 1 : Is(k))
    BY Zenon DEF clzl, Pow
  <1> HIDE DEF Is
  <1>11. \E k \in 0 .. W - 1 : Is(k)
    BY <1>6, <1>9
  <1>12. (CHOOSE k \in 0 .. W - 1 : Is(k)) \in 0 .. W - 1 /\ Is(CHOOSE k \in 0 .. W - 1 : Is(k))
    BY <1>11
  <1> QED
    BY <1>10, <1>12 DEF Is

\* A computed capacity is positive, and exceeds the size it was computed for as
\* long as that is below 2^(IntW/2).
LEMMA CapacityFits ==
    ASSUME NEW n \in 1 .. Pow(W) - 1
    PROVE  /\ RealCapacity(n) \in Nat \ {0}
           /\ n < Pow(IntW \div 2) => n < RealCapacity(n)
  <1> DEFINE s == clzl(n) % IntW
             h == IntW \div 2
  <1>1. RealCapacity(n) = IF s = IntW - 1 THEN Pow(W) - Pow(s) ELSE Pow(s)
    BY Zenon DEF RealCapacity, Pow
  <1>2. /\ IntW \in Nat \ {0} /\ h \in Nat \ {0} /\ IntW = 2 * h /\ W = 2 * IntW /\ W \in Nat
    BY Widths
  <1>3. PICK k \in 0 .. W - 1 : clzl(n) = W - 1 - k /\ Pow(k) <= n /\ n < Pow(k + 1)
    BY HighestBit
  <1>4. clzl(n) \in 0 .. W - 1
    BY <1>2, <1>3
  <1>5. s \in 0 .. IntW - 1
    BY <1>2, <1>4
  <1>6. n < Pow(h) => s >= h
    <2> SUFFICES ASSUME n < Pow(h) PROVE s >= h
      OBVIOUS
    <2>1. k < h
      <3> SUFFICES ASSUME h <= k PROVE FALSE
        BY <1>2
      <3>1. Pow(h) <= Pow(k)
        BY <1>2, PowMonotone
      <3>2. Pow(h) \in Nat /\ Pow(k) \in Nat /\ n \in Nat
        BY <1>2, PowType
      <3> QED
        BY <1>3, <3>1, <3>2
    <2>2. clzl(n) \in IntW + h .. 2 * IntW - 1
      BY <1>2, <1>3, <2>1
    <2>3. \A c \in IntW + h .. 2 * IntW - 1 : c % IntW = c - IntW
      BY <1>2
    <2> QED
      BY <1>2, <2>2, <2>3
  <1> HIDE DEF s, h
  <1>7. Pow(s) \in Nat /\ Pow(s) > 0 /\ Pow(W) \in Nat /\ Pow(h) \in Nat /\ Pow(h) > 0 /\ s \in Nat /\ n \in Nat
    BY <1>2, <1>5, PowType
  <1>8. CASE s # IntW - 1
    <2>1. n < Pow(h) => Pow(h) <= Pow(s)
      BY <1>2, <1>6, <1>7, PowMonotone
    <2> QED
      BY <1>1, <1>7, <1>8, <2>1 DEF h
  <1>9. CASE s = IntW - 1
    <2>1. Pow(IntW) = 2 * Pow(s)
      <3>1. s + 1 = IntW
        BY <1>2, <1>9
      <3> QED
        BY <1>7, <3>1, PowStep
    <2>2. Pow(W) = Pow(IntW) * Pow(IntW)
      <3>1. IntW + IntW = W
        BY <1>2
      <3>2. Pow(IntW + IntW) = Pow(IntW) * Pow(IntW)
        BY <1>2, PowSum
      <3> QED
        BY <3>1, <3>2
    <2>3. Pow(W) = (2 * Pow(s)) * (2 * Pow(s))
      BY <2>1, <2>2
    <2>4. Pow(W) - Pow(s) >= Pow(s)
      <3> DEFINE x == Pow(s)
      <3>1. x \in Nat /\ x > 0 /\ Pow(W) = (2 * x) * (2 * x)
        BY <1>7, <2>3
      <3> HIDE DEF x
      <3>2. (2 * x) * (2 * x) >= 2 * x
        BY <3>1
      <3> QED
        BY <1>7, <3>1, <3>2 DEF x
    <2>5. n < Pow(h) => Pow(h) <= Pow(s)
      BY <1>2, <1>6, <1>7, PowMonotone
    <2> QED
      BY <1>1, <1>7, <1>9, <2>4, <2>5 DEF h
  <1> QED
    BY <1>8, <1>9
-----------------------------------------------------------------------------
(* The C string in the buffer.                                             *)

\* Min of numbers is their least.
LEMMA MinIs ==
    ASSUME NEW T, T \subseteq Nat, T # {}
    PROVE  Min(T) \in T /\ \A y \in T : Min(T) <= y
  <1>1. \E x \in T : \A y \in T : x <= y
    BY LeastNat
  <1> QED
    BY <1>1 DEF Min

\* strlen stops at the first NUL, or at the end of the cells.
LEMMA StrlenIs ==
    ASSUME NEW c \in Nat, NEW b, DOMAIN b = 0 .. c - 1
    PROVE  /\ strlen(b) \in 0..c
           /\ \A i \in 0 .. c - 1 : b[i] = NUL => strlen(b) <= i
           /\ strlen(b) # c => b[strlen(b)] = NUL
  <1> DEFINE T == {i \in DOMAIN b : b[i] = NUL} \cup {Cardinality(DOMAIN b)}
  <1>1. Cardinality(DOMAIN b) = c
    BY FS_Interval
  <1>2. T \subseteq Nat /\ T # {}
    BY <1>1
  <1>3. Min(T) \in T /\ \A y \in T : Min(T) <= y
    <2> HIDE DEF T
    <2> QED
      BY <1>2, MinIs
  <1>4. strlen(b) = Min(T)
    BY DEF strlen
  <1>5. strlen(b) \in T /\ \A y \in T : strlen(b) <= y
    BY <1>3, <1>4
  <1>6. strlen(b) \in 0..c
    BY <1>1, <1>5
  <1>7. \A i \in 0 .. c - 1 : b[i] = NUL => strlen(b) <= i
    BY <1>5
  <1>8. strlen(b) # c => b[strlen(b)] = NUL
    BY <1>1, <1>5
  <1> QED
    BY <1>6, <1>7, <1>8

\* strncat copies at most the piece, and text as a whole.
LEMMA StrnlenIs ==
    ASSUME NEW p \in Seq(STRING)
    PROVE  /\ strnlen(p) \in 0..Len(p)
           /\ (\A i \in DOMAIN p : p[i] # NUL) => strnlen(p) = Len(p)
  <1> DEFINE Z == {i \in DOMAIN p : p[i] = NUL}
             T == {i - 1 : i \in Z} \cup {Len(p)}
  <1>1. Len(p) \in Nat /\ Len(p) \in T /\ DOMAIN p = 1..Len(p)
    OBVIOUS
  <1>2. T \subseteq Nat /\ T # {}
    BY <1>1
  <1>3. strnlen(p) = Min(T)
    BY DEF strnlen
  <1>4. Min(T) \in T /\ \A y \in T : Min(T) <= y
    <2> HIDE DEF T
    <2> QED
      BY <1>2, MinIs
  <1>5. strnlen(p) \in 0..Len(p)
    <2> HIDE DEF T
    <2>1. Min(T) \in Nat
      BY <1>2, <1>4
    <2>2. Min(T) <= Len(p)
      BY <1>1, <1>4
    <2> QED
      BY <1>1, <1>3, <2>1, <2>2
  <1>6. Z = {} => T = {Len(p)}
    OBVIOUS
  <1>7. (\A i \in DOMAIN p : p[i] # NUL) => Z = {}
    OBVIOUS
  <1> HIDE DEF T, Z
  <1> QED
    BY <1>3, <1>4, <1>5, <1>6, <1>7

-----------------------------------------------------------------------------
(* The inductive invariant.                                                *)

\* Half the width of int.
Half == IntW \div 2

\* Only text was appended since the last reset.
TextSoFar == \A i \in DOMAIN appended : appended[i] # NUL

\* The cells of a string, and its length as the bytes that were appended.
Shape ==
    /\ str \in {"NULL", "valid", "overrun"}
    /\ appended \in Seq(STRING)
    /\ str = "valid" =>
          /\ capacity \in Nat \ {0} /\ DOMAIN buf = 0 .. capacity - 1
          /\ len = Len(appended) /\ len <= MaxTotal

\* Below 2^(IntW/2) bytes the string and a NUL at its end or before are inside.
Below ==
    str = "valid" /\ len < Pow(Half) => len < capacity /\ \E i \in 0..len : buf[i] = NUL

\* A write past the buffer happens only from 2^(IntW/2) bytes on.
OverrunLate == str = "overrun" => Len(appended) >= Pow(Half)

\* Text is in the buffer, terminated.
TextInside ==
    str = "valid" /\ TextSoFar =>
        /\ len < capacity
        /\ \A i \in 0 .. len - 1 : buf[i] = appended[i + 1]
        /\ buf[len] = NUL

\* The inductive invariant.
IInv == Shape /\ Below /\ OverrunLate /\ TextInside

\* Half of an even width.
LEMMA HalfType == Half \in Nat /\ Pow(Half) \in Nat /\ Pow(Half) > 0
  BY Widths, PowType DEF Half

\* strncat and len += buflen keep the invariant if the cells b it writes to are
\* what is left of the buffer and large enough below 2^(IntW/2).
LEMMA ConcatStep ==
    ASSUME IInv, str = "valid", NEW p \in Piece, NEW b, NEW c \in Nat \ {0}, DOMAIN b = 0 .. c - 1,
           len + Len(p) <= MaxTotal,
           len + Len(p) < Pow(Half) => len + Len(p) < c /\ \E i \in 0..len : b[i] = NUL,
           TextSoFar => /\ \A i \in 0 .. c - 1 : i < len => b[i] = appended[i + 1]
                        /\ len < c => b[len] = NUL,
           Concat(b, p), capacity' = c
    PROVE  IInv'
  <1> DEFINE e == strlen(b)
             m == strnlen(p)
             need == len + Len(p)
  <1>1. /\ appended \in Seq(STRING) /\ p \in Seq(STRING) /\ len = Len(appended)
        /\ len \in Nat /\ Len(p) \in Nat /\ DOMAIN appended = 1..len /\ DOMAIN p = 1..Len(p)
    BY Widths DEF IInv, Shape
  <1>2. /\ e \in 0..c
        /\ \A i \in 0 .. c - 1 : b[i] = NUL => e <= i
        /\ e # c => b[e] = NUL
    BY StrlenIs
  <1>3. /\ m \in 0..Len(p)
        /\ (\A i \in DOMAIN p : p[i] # NUL) => m = Len(p)
    BY <1>1, StrnlenIs
  <1>0. e \in Int /\ 0 <= e /\ m \in Int /\ 0 <= m /\ m <= Len(p)
    <2> HIDE DEF e, m
    <2>1. e \in Int /\ 0 <= e
      BY <1>2
    <2>2. ASSUME NEW x \in Nat, m \in 0..x PROVE m \in Int /\ 0 <= m /\ m <= x
      BY <2>2
    <2>3. Len(p) \in Nat
      BY <1>1
    <2>4. m \in 0..Len(p)
      BY <1>3
    <2> QED
      BY <2>1, <2>2, <2>3, <2>4, Zenon
  <1>4. /\ len' = need /\ appended' = appended \o p
        /\ e + m \in 0 .. c - 1 =>
              /\ str' = str
              /\ buf' = [i \in 0 .. c - 1 |-> IF i \in e .. e + m - 1 THEN p[i - e + 1]
                                              ELSE IF i = e + m THEN NUL ELSE b[i]]
        /\ e + m \notin 0 .. c - 1 => str' = "overrun"
    BY DEF Concat
  <1> HIDE DEF e, m
  <1>5. /\ appended' \in Seq(STRING) /\ Len(appended') = need /\ need \in Nat
        /\ DOMAIN (appended') = 1..need
        /\ \A i \in 1..len : appended'[i] = appended[i]
        /\ \A i \in len + 1 .. need : i - len \in 1..Len(p) /\ appended'[i] = p[i - len]
    BY <1>1, <1>4
  <1>6. need < Pow(Half) => e + m <= need /\ e + m \in 0 .. c - 1
    <2> SUFFICES ASSUME need < Pow(Half) PROVE e + m <= need /\ e + m \in 0 .. c - 1
      OBVIOUS
    <2>1. PICK i \in 0..len : b[i] = NUL /\ need < c
      OBVIOUS
    <2>2. i \in 0 .. c - 1
      BY <1>1, <2>1
    <2>3. e <= i
      BY <1>2, <2>1, <2>2
    <2>4. i \in Int /\ c \in Int /\ i <= len
      BY <1>1
    <2>5. e + m <= len + Len(p)
      BY <1>0, <1>1, <2>3, <2>4
    <2>6. e + m \in Int /\ 0 <= e + m /\ e + m <= c - 1
      BY <1>0, <1>1, <2>1, <2>4, <2>5
    <2> QED
      BY <2>5, <2>6
  <1>7. CASE e + m \notin 0 .. c - 1
    <2>1. str' = "overrun" /\ Len(appended') >= Pow(Half)
      BY <1>4, <1>5, <1>6, <1>7, HalfType
    <2> QED
      BY <1>5, <2>1 DEF IInv, Shape, Below, OverrunLate, TextInside
  <1>8. CASE e + m \in 0 .. c - 1
    <2>1. /\ str' = "valid" /\ DOMAIN (buf') = 0 .. c - 1 /\ buf'[e + m] = NUL
          /\ \A i \in 0 .. c - 1 : i \in e .. e + m - 1 => buf'[i] = p[i - e + 1]
          /\ \A i \in 0 .. c - 1 : i < e => buf'[i] = b[i]
      BY <1>2, <1>3, <1>4, <1>8
    <2>2. Shape'
      BY <1>4, <1>5, <2>1 DEF Shape
    <2>3. Below'
      <3> SUFFICES ASSUME need < Pow(Half) PROVE need < c /\ \E i \in 0..need : buf'[i] = NUL
        BY <1>4, HalfType DEF Below
      <3>1. e + m \in 0..need
        BY <1>2, <1>3, <1>5, <1>6
      <3> QED
        BY <2>1, <3>1
    <2>4. TextInside'
      <3> SUFFICES ASSUME TextSoFar'
                   PROVE  /\ need < c
                          /\ \A i \in 0 .. need - 1 : buf'[i] = appended'[i + 1]
                          /\ buf'[need] = NUL
        BY <1>4 DEF TextInside
      <3>1. \A i \in 1..need : appended'[i] # NUL
        BY <1>5 DEF TextSoFar
      <3>2. TextSoFar
        BY <1>1, <1>5, <3>1 DEF TextSoFar
      <3>3. \A i \in 1..Len(p) : p[i] # NUL
        <4> TAKE i \in 1..Len(p)
        <4>1. len + i \in len + 1 .. need /\ (len + i) - len = i /\ len + i \in 1..need
          BY <1>1
        <4>2. appended'[len + i] = p[(len + i) - len]
          BY <1>5, <4>1
        <4> QED
          BY <3>1, <4>1, <4>2
      <3>4. m = Len(p)
        BY <1>1, <1>3, <3>3
      <3>5. \A i \in 0 .. c - 1 : i < len => b[i] = appended[i + 1] /\ b[i] # NUL
        <4> TAKE i \in 0 .. c - 1
        <4>1. i < len => i + 1 \in 1..len /\ b[i] = appended[i + 1]
          BY <1>1, <3>2
        <4> QED
          BY <1>1, <3>2, <4>1 DEF TextSoFar
      <3>6. e = len
        <4>1. ~(e < len)
          <5> SUFFICES ASSUME e < len PROVE FALSE
            OBVIOUS
          <5>1. e # c => e \in 0 .. c - 1
            BY <1>2
          <5>2. e = c
            BY <1>2, <3>5, <5>1
          <5> QED
            BY <1>3, <1>8, <5>2
        <4>2. e < c
          BY <1>2, <1>3, <1>8
        <4>3. len \in 0 .. c - 1
          BY <1>1, <1>2, <4>1, <4>2
        <4>4. b[len] = NUL
          BY <3>2, <4>3
        <4>5. e <= len
          BY <1>2, <4>3, <4>4
        <4> QED
          BY <1>1, <1>2, <4>1, <4>5
      <3>7. need = e + m /\ need < c
        BY <1>1, <1>2, <1>3, <1>8, <3>4, <3>6
      <3>8. ASSUME NEW i \in 0 .. need - 1 PROVE buf'[i] = appended'[i + 1]
        <4>1. i \in 0 .. c - 1
          BY <1>5, <3>7
        <4>2. CASE i < len
          <5>1. buf'[i] = b[i] /\ b[i] = appended[i + 1] /\ i + 1 \in 1..len
            BY <1>1, <2>1, <3>5, <3>6, <4>1, <4>2
          <5> QED
            BY <1>5, <5>1
        <4>3. CASE i >= len
          <5> HIDE DEF need
          <5>0. need \in Int /\ len \in Int
            BY <1>1, <1>5
          <5>1. i \in e .. e + m - 1 /\ i + 1 \in len + 1 .. need /\ (i + 1) - len = i - e + 1
            BY <1>0, <3>6, <3>7, <4>3, <5>0
          <5> QED
            BY <1>5, <2>1, <4>1, <5>1
        <4> QED
          BY <1>1, <4>2, <4>3
      <3> QED
        BY <2>1, <3>7, <3>8
    <2> QED
      BY <2>1, <2>2, <2>3, <2>4 DEF IInv, OverrunLate
  <1> QED
    BY <1>7, <1>8

\* Appending, with and without growing.
LEMMA AppendStep ==
    ASSUME IInv, NEW p \in Piece, string_append(p)
    PROVE  IInv'
  <1> DEFINE need == len + Len(p)
             c == RealCapacity(need)
  <1>1. /\ str = "valid" /\ appended \in Seq(STRING) /\ p \in Seq(STRING)
        /\ len = Len(appended) /\ len \in Nat /\ Len(p) \in Nat /\ need \in Nat
        /\ need <= MaxTotal /\ len <= need
        /\ capacity \in Nat \ {0} /\ DOMAIN buf = 0 .. capacity - 1
    BY Widths DEF IInv, Shape, string_append
  <1>2. \/ need < capacity /\ Concat(buf, p) /\ capacity' = capacity
        \/ need >= capacity /\ Concat(Reallocated(c), p) /\ capacity' = c
    BY <1>1 DEF string_append, MustGrow
  <1>3. len < Pow(Half) => len < capacity /\ \E i \in 0..len : buf[i] = NUL
    BY <1>1 DEF IInv, Below
  <1>4. TextSoFar => /\ len < capacity
                     /\ \A i \in 0 .. len - 1 : buf[i] = appended[i + 1]
                     /\ buf[len] = NUL
    BY <1>1 DEF IInv, TextInside
  <1>5. need < Pow(Half) => len < Pow(Half)
    BY <1>1, HalfType
  <1>6. CASE need < capacity /\ Concat(buf, p) /\ capacity' = capacity
    <2>1. \A i \in 0 .. capacity - 1 : i < len => i \in 0 .. len - 1
      BY <1>1
    <2>2. TextSoFar => /\ \A i \in 0 .. capacity - 1 : i < len => buf[i] = appended[i + 1]
                       /\ len < capacity => buf[len] = NUL
      BY <1>4, <2>1
    <2>3. need < Pow(Half) => need < capacity /\ \E i \in 0..len : buf[i] = NUL
      BY <1>3, <1>5, <1>6
    <2> HIDE DEF c
    <2> QED
      BY <1>1, <1>6, <2>2, <2>3, ConcatStep
  <1>7. CASE need >= capacity /\ Concat(Reallocated(c), p) /\ capacity' = c
    <2> DEFINE b == Reallocated(c)
    <2>1. need \in 1 .. Pow(W) - 1
      <3>1. MaxTotal \in 0 .. Pow(W) - 1 /\ Pow(W) \in Nat
        BY Widths, PowType
      <3> HIDE DEF need
      <3> QED
        BY <1>1, <1>7, <3>1
    <2>2. c \in Nat \ {0} /\ (need < Pow(Half) => need < c)
      <3> HIDE DEF need
      <3> QED
        BY <2>1, CapacityFits DEF Half
    <2> HIDE DEF c
    <2>3. DOMAIN b = 0 .. c - 1 /\ \A i \in 0 .. c - 1 : i < capacity => b[i] = buf[i]
      BY DEF Reallocated
    <2> HIDE DEF b
    <2>4. TextSoFar => /\ \A i \in 0 .. c - 1 : i < len => b[i] = appended[i + 1]
                       /\ len < c => b[len] = NUL
      <3> SUFFICES ASSUME TextSoFar
                   PROVE  /\ \A i \in 0 .. c - 1 : i < len => b[i] = appended[i + 1]
                          /\ len < c => b[len] = NUL
        OBVIOUS
      <3>1. \A i \in 0 .. c - 1 : i < len => i \in 0 .. len - 1 /\ i < capacity
        BY <1>1, <1>4
      <3>2. len < c => len \in 0 .. c - 1
        BY <1>1, <2>2
      <3> QED
        BY <1>4, <2>3, <3>1, <3>2
    <2>5. need < Pow(Half) => need < c /\ \E i \in 0..len : b[i] = NUL
      <3> SUFFICES ASSUME need < Pow(Half) PROVE \E i \in 0..len : b[i] = NUL
        BY <2>2
      <3>1. PICK i \in 0..len : buf[i] = NUL /\ len < capacity
        BY <1>3, <1>5
      <3>2. need < c
        BY <2>2
      <3>3. i \in 0 .. c - 1 /\ i < capacity
        <4>1. i \in Nat /\ i <= len
          BY <1>1
        <4> HIDE DEF need
        <4> QED
          BY <1>1, <2>2, <3>1, <3>2, <4>1
      <3> QED
        BY <2>3, <3>1, <3>3
    <2>6. Concat(b, p) /\ capacity' = c
      BY <1>7 DEF b
    <2> QED
      BY <1>1, <2>2, <2>3, <2>4, <2>5, <2>6, ConcatStep
  <1> QED
    BY <1>2, <1>6, <1>7

\* A string without a byte: every cell is NUL.
LEMMA EmptyInv ==
    ASSUME str' = "valid", capacity' \in Nat \ {0}, len' = 0, appended' = <<>>,
           buf' = [i \in 0 .. capacity' - 1 |-> NUL]
    PROVE  IInv'
  <1>1. buf'[0] = NUL /\ 0 < capacity' /\ DOMAIN (buf') = 0 .. capacity' - 1 /\ MaxTotal \in Nat
    <2>1. MaxTotal \in Nat
      <3>1. Pow(W) \in Nat /\ MaxTotal \in 0 .. Pow(W) - 1
        BY Widths, PowType
      <3> QED
        BY <3>1
    <2>2. 0 \in 0 .. capacity' - 1 /\ 0 < capacity'
      OBVIOUS
    <2> QED
      BY <2>1, <2>2
  <1>2. Shape'
    BY <1>1 DEF Shape
  <1>3. Below'
    BY <1>1 DEF Below
  <1> QED
    BY <1>1, <1>2, <1>3 DEF IInv, OverrunLate, TextInside

\* Without a string there is nothing to say.
LEMMA NullInv ==
    ASSUME str' = "NULL", appended' = <<>>
    PROVE  IInv'
  BY DEF IInv, Shape, Below, OverrunLate, TextInside

\* string_init takes the larger of the computed capacity and the least one.
LEMMA InitStep ==
    ASSUME NEW n \in InitSize, string_init(n)
    PROVE  IInv'
  <1> DEFINE x == RealCapacity(n)
             S == {x, MinCapacity}
  <1>1. x \in Nat \ {0} /\ MinCapacity \in Nat \ {0}
    BY Widths, CapacityFits
  <1> HIDE DEF x
  <1>2. Max(S) \in S
    <2>1. \E y \in S : \A z \in S : y >= z
      BY <1>1
    <2> QED
      BY <2>1 DEF Max
  <1>3. Max(S) \in Nat \ {0}
    BY <1>1, <1>2
  <1>4. str' = "valid" /\ capacity' = Max(S) /\ len' = 0 /\ appended' = <<>>
        /\ buf' = [i \in 0 .. Max(S) - 1 |-> NUL]
    BY DEF string_init, x
  <1> QED
    BY <1>3, <1>4, EmptyInv

\* It holds before the first string.
LEMMA InitInv == Init => IInv
  BY DEF Init, IInv, Shape, Below, OverrunLate, TextInside

\* Every step keeps the invariant.
LEMMA StepInv == IInv /\ [Next]_vars => IInv'
  <1> SUFFICES ASSUME IInv, [Next]_vars PROVE IInv'
    OBVIOUS
  <1>1. CASE UNCHANGED vars
    BY <1>1 DEF vars, IInv, Shape, Below, OverrunLate, TextInside, TextSoFar
  <1>2. CASE \E n \in InitSize : string_init(n)
    BY <1>2, InitStep
  <1>3. CASE \E p \in Piece : string_append(p)
    BY <1>3, AppendStep
  <1>4. CASE string_reset
    <2>1. /\ str = "valid" /\ str' = "valid" /\ capacity' = capacity /\ len' = 0 /\ appended' = <<>>
          /\ capacity \in Nat \ {0} /\ buf' = [i \in 0 .. capacity' - 1 |-> NUL]
      BY <1>4 DEF string_reset, ResetBuffer, IInv, Shape
    <2> QED
      BY <2>1, EmptyInv
  <1>5. CASE string_free
    BY <1>5, NullInv DEF string_free
  <1>6. CASE UNCHANGED vars \/ string_init_fails \/ Corrupted \/ \E p \in Piece : string_append_fails(p)
    BY <1>1, <1>6 DEF string_init_fails, Corrupted, string_append_fails
  <1> QED
    BY <1>2, <1>3, <1>4, <1>5, <1>6 DEF Next

-----------------------------------------------------------------------------
(* The theorems.                                                           *)

\* The invariant holds in every behaviour of the string buffer.
THEOREM Invariance == Spec => []IInv
  BY InitInv, StepInv, PTL DEF Spec

\* As long as fewer than 2^(IntW/2) bytes are appended (65536 with the code's
\* 32-bit int), 1 << clzl never makes the buffer too small, whatever the pieces
\* are, whatever the heap gives, with or without NULs among the bytes.
THEOREM CapacityIsEnough == Spec => []FitsBelowHalfWord
  <1>1. IInv => FitsBelowHalfWord
    <2> SUFFICES ASSUME IInv, str = "overrun" \/ (str = "valid" /\ len >= capacity)
                 PROVE  Len(appended) >= Pow(Half)
      BY Zenon DEF FitsBelowHalfWord, Pow, Half
    <2>1. CASE str = "overrun"
      BY <2>1 DEF IInv, OverrunLate
    <2>2. CASE str = "valid" /\ len >= capacity
      <3>1. len = Len(appended) /\ len \in Nat /\ capacity \in Nat
        BY <2>2 DEF IInv, Shape
      <3>2. ~(len < Pow(Half))
        BY <2>2, <3>1 DEF IInv, Below
      <3> QED
        BY <3>1, <3>2, HalfType
    <2> QED
      BY <2>1, <2>2
  <1> QED
    BY <1>1, Invariance, PTL

\* Text is kept through every growth: the string is what was appended since the
\* last reset, with a NUL behind it, for as long as the buffer is not overrun.
THEOREM TextStays == Spec => []TextIsKept
  <1>1. IInv => TextIsKept
    <2> SUFFICES ASSUME IInv, str = "valid", TextSoFar
                 PROVE  Content = appended /\ buf[len] = NUL
      BY DEF TextIsKept, TextSoFar
    <2>1. /\ appended \in Seq(STRING) /\ len = Len(appended) /\ len \in Nat
          /\ capacity \in Nat /\ DOMAIN appended = 1..len
      BY DEF IInv, Shape
    <2>2. /\ len < capacity /\ buf[len] = NUL
          /\ \A i \in 0 .. len - 1 : buf[i] = appended[i + 1]
      BY DEF IInv, TextInside
    <2>3. \A i \in 1..len : i <= capacity /\ buf[i - 1] = appended[i]
      <3> TAKE i \in 1..len
      <3>1. i - 1 \in 0 .. len - 1 /\ (i - 1) + 1 = i /\ i <= capacity
        BY <2>1, <2>2
      <3> QED
        BY <2>2, <3>1
    <2>4. Content = [i \in 1..len |-> appended[i]]
      BY <2>3 DEF Content
    <2>5. appended = [i \in 1..len |-> appended[i]]
      BY <2>1
    <2> QED
      BY <2>2, <2>4, <2>5
  <1> QED
    BY <1>1, Invariance, PTL
=============================================================================
