--------------------------- MODULE HashMapProofs ---------------------------
(***************************************************************************)
(* Theorems about HashMap, for every word width, multiplier, number of     *)
(* buckets and set of keys.                                                *)
(***************************************************************************)
EXTENDS HashMap, FiniteSetTheorems, TLAPS

-----------------------------------------------------------------------------
(* Powers of two.  The SMT backend does not know ^, so the arithmetic is   *)
(* done with Pow, about which the library says what is needed: 2^n is the  *)
(* number of subsets of a set of n elements.                               *)

\* 2^n.
Pow(n) == 2^n

\* The subsets of an interval are counted by a power of two.
LEMMA PowCounts ==
    ASSUME NEW n \in Nat
    PROVE  /\ IsFiniteSet(1..n) /\ IsFiniteSet(SUBSET (1..n))
           /\ Cardinality(SUBSET (1..n)) = Pow(n)
           /\ Pow(n) \in Nat /\ Pow(n) > 0
  <1>1. IsFiniteSet(1..n) /\ Cardinality(1..n) = n
    BY FS_Interval
  <1>2. IsFiniteSet(SUBSET (1..n)) /\ Cardinality(SUBSET (1..n)) = Pow(Cardinality(1..n))
    BY <1>1, FS_SUBSET, Zenon DEF Pow
  <1>3. Cardinality(SUBSET (1..n)) = Pow(n)
    BY <1>1, <1>2
  <1>4. Pow(n) \in Nat
    BY <1>2, <1>3, FS_CardinalityType
  <1>5. SUBSET (1..n) # {}
    OBVIOUS
  <1>6. Pow(n) # 0
    BY <1>2, <1>3, <1>5, FS_EmptySet
  <1> QED
    BY <1>1, <1>2, <1>3, <1>4, <1>6

\* A subset of 1..a+b is a subset of 1..a and one of 1..b.
LEMMA PowSum ==
    ASSUME NEW a \in Nat, NEW b \in Nat
    PROVE  Pow(a + b) = Pow(a) * Pow(b)
  <1> DEFINE S == SUBSET (1 .. a + b)
             T == (SUBSET (1..a)) \X (SUBSET (1..b))
             f == [s \in S |-> <<s \cap (1..a), {i \in 1..b : a + i \in s}>>]
  <1>1. f \in [S -> T]
    OBVIOUS
  <1>2. \A s, t \in S : f[s] = f[t] => s = t
    <2> SUFFICES ASSUME NEW s \in S, NEW t \in S, f[s] = f[t] PROVE s = t
      OBVIOUS
    <2>1. s \cap (1..a) = t \cap (1..a) /\ {i \in 1..b : a + i \in s} = {i \in 1..b : a + i \in t}
      OBVIOUS
    <2>2. \A j \in 1 .. a + b : j \in s <=> j \in t
      <3> TAKE j \in 1 .. a + b
      <3>1. CASE j \in 1..a
        BY <2>1, <3>1
      <3>2. CASE j \notin 1..a
        <4>1. j - a \in 1..b /\ a + (j - a) = j
          BY <3>2
        <4> HIDE DEF S, f
        <4>2. (j - a) \in {i \in 1..b : a + i \in s} <=> (j - a) \in {i \in 1..b : a + i \in t}
          BY <2>1
        <4> QED
          BY <4>1, <4>2
      <3> QED
        BY <3>1, <3>2
    <2> QED
      BY <2>2
  <1>3. \A p \in T : \E s \in S : f[s] = p
    <2> SUFFICES ASSUME NEW p \in T PROVE \E s \in S : f[s] = p
      OBVIOUS
    <2>1. PICK u \in SUBSET (1..a), v \in SUBSET (1..b) : p = <<u, v>>
      OBVIOUS
    <2> DEFINE w == {a + i : i \in v}
               s == u \cup w
    <2>2. \A j \in u : j \in 1..a
      BY <2>1
    <2>3. \A j \in w : j \in a + 1 .. a + b /\ j - a \in v
      BY <2>1
    <2>4. \A i \in v : i \in 1..b /\ a + i \in w
      BY <2>1
    <2> HIDE DEF w
    <2>5. \A j \in s : j \in 1 .. a + b
      BY <2>2, <2>3
    <2>6. s \in S
      BY <2>5
    <2>7. /\ \A j \in 1..a : j \in s => j \in u
          /\ \A j \in u : j \in s /\ j \in 1..a
      <3>1. \A j \in 1..a : j \notin w
        <4>1. \A j \in 1..a : j \notin a + 1 .. a + b
          OBVIOUS
        <4> QED
          BY <2>3, <4>1
      <3> QED
        BY <2>2, <3>1
    <2>8. s \cap (1..a) = u
      <3> HIDE DEF s
      <3> QED
        BY <2>7
    <2>9. \A i \in 1..b : a + i \in s <=> i \in v
      BY <2>2, <2>3, <2>4
    <2>10. {i \in 1..b : a + i \in s} = v
      <3> HIDE DEF s
      <3> QED
        BY <2>4, <2>9
    <2>11. f[s] = <<u, v>>
      <3> HIDE DEF s
      <3> QED
        BY <2>6, <2>8, <2>10
    <2> QED
      BY <2>1, <2>6, <2>11
  <1>4. f \in Bijection(S, T)
    <2> HIDE DEF f, S, T
    <2> QED
      BY <1>1, <1>2, <1>3 DEF Bijection, Injection, Surjection, IsInjective
  <1>5. IsFiniteSet(S) /\ Cardinality(S) = Pow(a + b)
    BY PowCounts
  <1>6. Cardinality(T) = Pow(a) * Pow(b)
    <2>1. /\ IsFiniteSet(SUBSET (1..a)) /\ Cardinality(SUBSET (1..a)) = Pow(a)
          /\ IsFiniteSet(SUBSET (1..b)) /\ Cardinality(SUBSET (1..b)) = Pow(b)
      BY PowCounts
    <2>2. Cardinality(T) = Cardinality(SUBSET (1..a)) * Cardinality(SUBSET (1..b))
      BY <2>1, FS_Product
    <2> QED
      BY <2>1, <2>2
  <1>7. Cardinality(S) = Cardinality(T)
    <2> HIDE DEF f, S, T
    <2>1. ExistsBijection(S, T)
      BY <1>4 DEF ExistsBijection
    <2> QED
      BY <1>5, <2>1, FS_Bijection
  <1> QED
    BY <1>5, <1>6, <1>7

\* The assumptions on the constants, with Pow.
LEMMA Widths ==
    /\ W \in Nat /\ bits \in 1..W /\ NULL \notin Val
    /\ GOLDEN_RATIO \in 0 .. Pow(W) - 1 /\ Key \subseteq 0 .. Pow(W) - 1
  BY WidthAssumption, Zenon DEF Pow

\* Keys are numbers, so the end of a chain is no key, and there are finitely
\* many of them.
LEMMA KeyFacts ==
    /\ Key \subseteq Nat /\ None \notin Key
    /\ IsFiniteSet(Key) /\ Cardinality(Key) \in Nat
  <1>1. Pow(W) \in Nat /\ Key \subseteq 0 .. Pow(W) - 1
    BY Widths, PowCounts
  <1>2. Key \subseteq Nat /\ None \notin Key
    BY <1>1 DEF None
  <1>3. IsFiniteSet(0 .. Pow(W) - 1)
    BY <1>1, FS_Interval
  <1>4. IsFiniteSet(Key)
    BY <1>1, <1>3, FS_Subset
  <1> QED
    BY <1>2, <1>4, FS_CardinalityType

\* The upper part of a number below b * c is below c.
LEMMA UpperPart ==
    ASSUME NEW b \in Nat \ {0}, NEW c \in Nat \ {0}, NEW y \in Nat, y < b * c
    PROVE  y \div b \in 0 .. c - 1
  <1>1. y \div b \in Nat /\ b * (y \div b) <= y
    OBVIOUS
  <1>2. ASSUME y \div b >= c PROVE FALSE
    <2> DEFINE q == y \div b
    <2>1. q \in Nat /\ q >= c /\ b * q <= y
      BY <1>1, <1>2
    <2> HIDE DEF q
    <2>2. b * q >= b * c
      BY <2>1
    <2> QED
      BY <2>1, <2>2
  <1> QED
    BY <1>1, <1>2

\* hash_64 yields the index of a bucket.
LEMMA HashInBucket == \A key \in Key : hash_64(key) \in Bucket
  <1> SUFFICES ASSUME NEW key \in Key PROVE hash_64(key) \in Bucket
    OBVIOUS
  <1>1. /\ hash_64(key) = ((key * GOLDEN_RATIO) % Pow(W)) \div Pow(W - bits)
        /\ Bucket = 0 .. Pow(bits) - 1
    BY Zenon DEF hash_64, Bucket, Pow
  <1>2. W - bits \in Nat /\ bits \in Nat /\ W \in Nat /\ (W - bits) + bits = W
    BY Widths
  <1>3. /\ Pow(W) \in Nat \ {0} /\ Pow(bits) \in Nat \ {0} /\ Pow(W - bits) \in Nat \ {0}
        /\ Pow(W) = Pow(W - bits) * Pow(bits)
    <2>1. Pow((W - bits) + bits) = Pow(W - bits) * Pow(bits)
      BY <1>2, PowSum
    <2>2. /\ Pow(W) \in Nat /\ Pow(W) > 0 /\ Pow(bits) \in Nat /\ Pow(bits) > 0
          /\ Pow(W - bits) \in Nat /\ Pow(W - bits) > 0
      BY <1>2, PowCounts
    <2>3. Pow((W - bits) + bits) = Pow(W)
      BY <1>2
    <2> QED
      BY <2>1, <2>2, <2>3
  <1>4. key \in Nat /\ GOLDEN_RATIO \in Nat
    BY <1>3, Widths, KeyFacts
  <1> DEFINE x == key * GOLDEN_RATIO
  <1>5. x \in Nat
    BY <1>4
  <1> HIDE DEF x
  <1>6. x % Pow(W) \in Nat /\ x % Pow(W) < Pow(W)
    BY <1>3, <1>5
  <1>7. (x % Pow(W)) \div Pow(W - bits) \in 0 .. Pow(bits) - 1
    BY <1>3, <1>6, UpperPart
  <1> QED
    BY <1>1, <1>7 DEF x

-----------------------------------------------------------------------------
(* The walk along a chain.                                                 *)

\* A set of numbers that is not empty has a least member.
LEMMA LeastNat ==
    ASSUME NEW T, T \subseteq Nat, T # {}
    PROVE  \E x \in T : \A y \in T : x <= y
  <1> DEFINE R == OpToRel(<, Nat)
  <1>1. IsWellFoundedOn(R, Nat)
    BY NatLessThanWellFounded
  <1>2. \A x, y \in Nat : <<y, x>> \in R <=> y < x
    BY DEF OpToRel
  <1> HIDE DEF R
  <1>3. PICK x \in T : \A y \in T : ~(<<y, x>> \in R)
    BY <1>1, WFMin
  <1>4. \A y \in T : x <= y
    <2> TAKE y \in T
    <2>1. x \in Nat /\ y \in Nat
      OBVIOUS
    <2>2. ~(y < x)
      BY <1>2, <1>3, <2>1
    <2> QED
      BY <2>1, <2>2
  <1> QED
    BY <1>4

\* g follows the pointers of p from a, for N steps.
Follows(g, a, p, N) ==
    g = [n \in 0..N |-> IF n = 0 THEN a ELSE IF g[n - 1] = None THEN None ELSE p[g[n - 1]]]

\* Following pointers is well defined for any number of steps.
LEMMA WalkExists ==
    ASSUME NEW a, NEW p, NEW N \in Nat
    PROVE  \E g : Follows(g, a, p, N)
  <1> DEFINE Is(g, m) == g = [n \in 0..m |-> IF n = 0 THEN a
                                             ELSE IF g[n - 1] = None THEN None ELSE p[g[n - 1]]]
             Bad == {m \in Nat : \A g : ~Is(g, m)}
  <1>1. ASSUME Bad # {} PROVE FALSE
    <2>1. PICK m \in Bad : \A y \in Bad : m <= y
      <3>1. Bad \subseteq Nat
        OBVIOUS
      <3> HIDE DEF Bad
      <3> QED
        BY <1>1, <3>1, LeastNat
    <2>2. CASE m = 0
      <3> DEFINE g == [n \in 0..0 |-> a]
      <3>1. Is(g, 0)
        OBVIOUS
      <3> QED
        BY <2>1, <2>2, <3>1
    <2>3. CASE m # 0
      <3>1. m - 1 \in Nat /\ m - 1 \notin Bad
        <4>1. m \in Nat
          BY <2>1
        <4> HIDE DEF Bad
        <4> QED
          BY <2>1, <2>3, <4>1
      <3>2. PICK g : Is(g, m - 1)
        BY <3>1
      <3> DEFINE h == [n \in 0..m |-> IF n <= m - 1 THEN g[n]
                                      ELSE IF g[n - 1] = None THEN None ELSE p[g[n - 1]]]
      <3>3. \A n \in 0 .. m - 1 : h[n] = g[n] /\ n \in 0..m
        BY <3>1
      <3>4. \A n \in 0 .. m - 1 :
               g[n] = IF n = 0 THEN a ELSE IF g[n - 1] = None THEN None ELSE p[g[n - 1]]
        BY <3>2
      <3>5. h[m] = IF g[m - 1] = None THEN None ELSE p[g[m - 1]]
        BY <2>1
      <3> DEFINE k == [n \in 0..m |-> IF n = 0 THEN a
                                      ELSE IF h[n - 1] = None THEN None ELSE p[h[n - 1]]]
      <3>6. \A n \in 0..m : h[n] = k[n]
        <4> HIDE DEF h
        <4> TAKE n \in 0..m
        <4>1. CASE n = m
          <5>1. n # 0 /\ m - 1 \in 0 .. m - 1 /\ h[m - 1] = g[m - 1]
            BY <2>3, <3>1, <3>3, <4>1
          <5> QED
            BY <3>5, <4>1, <5>1
        <4>2. CASE n # m
          <5>1. n \in 0 .. m - 1
            BY <2>1, <4>2
          <5>2. n # 0 => n - 1 \in 0 .. m - 1 /\ h[n - 1] = g[n - 1]
            BY <3>3, <5>1
          <5> QED
            BY <3>3, <3>4, <5>1, <5>2
        <4> QED
          BY <4>1, <4>2
      <3>7. h = k
        <4>1. DOMAIN h = 0..m /\ DOMAIN k = 0..m /\ h = [n \in DOMAIN h |-> h[n]] /\ k = [n \in DOMAIN k |-> k[n]]
          OBVIOUS
        <4> HIDE DEF h, k
        <4> QED
          BY <3>6, <4>1
      <3>8. Is(h, m)
        <4> HIDE DEF h
        <4> QED
          BY <3>7
      <3> QED
        BY <2>1, <3>8
    <2> QED
      BY <2>2, <2>3
  <1>2. N \notin Bad
    BY <1>1
  <1> QED
    BY <1>2 DEF Follows

\* Walk(b) follows first and next.
LEMMA WalkIs ==
    ASSUME NEW b
    PROVE  /\ DOMAIN Walk(b) = 0 .. Cardinality(Key)
           /\ \A n \in 0 .. Cardinality(Key) :
                 Walk(b)[n] = IF n = 0 THEN first[b]
                              ELSE IF Walk(b)[n - 1] = None THEN None ELSE next[Walk(b)[n - 1]]
  <1> DEFINE N == Cardinality(Key)
  <1>1. N \in Nat
    BY KeyFacts
  <1>2. \E g : Follows(g, first[b], next, N)
    BY <1>1, WalkExists
  <1>3. Walk(b) = [n \in 0..N |-> IF n = 0 THEN first[b]
                                  ELSE IF Walk(b)[n - 1] = None THEN None ELSE next[Walk(b)[n - 1]]]
    BY <1>2 DEF Walk, Follows
  <1> QED
    BY <1>3

\* The same of the next state.
LEMMA NextWalkIs ==
    ASSUME NEW b
    PROVE  /\ DOMAIN (Walk(b)') = 0 .. Cardinality(Key)
           /\ \A n \in 0 .. Cardinality(Key) :
                 Walk(b)'[n] = IF n = 0 THEN first'[b]
                               ELSE IF Walk(b)'[n - 1] = None THEN None ELSE next'[Walk(b)'[n - 1]]
  <1> DEFINE N == Cardinality(Key)
  <1>1. N \in Nat
    BY KeyFacts
  <1>2. \E g : Follows(g, first'[b], next', N)
    BY <1>1, WalkExists
  <1>3. Walk(b)' = [n \in 0..N |-> IF n = 0 THEN first'[b]
                                   ELSE IF Walk(b)'[n - 1] = None THEN None ELSE next'[Walk(b)'[n - 1]]]
    BY <1>2 DEF Walk, Follows
  <1> QED
    BY <1>3

-----------------------------------------------------------------------------
(* The inductive invariant.                                                *)

\* WellLinked, said of the positions of a chain: every node on it is an element
\* of its bucket, every element is on the chain of its hash, and at one
\* position only.  That a chain ends follows from the last, by counting.
Linked ==
    /\ \A b \in Bucket, n \in 0 .. Cardinality(Key) :
          Walk(b)[n] # None => Walk(b)[n] \in alive /\ hash_64(Walk(b)[n]) = b
    /\ \A key \in alive : \E n \in 0 .. Cardinality(Key) : Walk(hash_64(key))[n] = key
    /\ \A b \in Bucket, i, j \in 0 .. Cardinality(Key) :
          Walk(b)[i] # None /\ Walk(b)[i] = Walk(b)[j] => i = j
    /\ \A b \in Bucket : first[b] # None => pprev[first[b]] = <<"first", b>>
    /\ \A key \in alive :
          next[key] # None => next[key] \in alive /\ pprev[next[key]] = <<"next", key>>

\* The inductive invariant.
IInv == TypeOK /\ (~freed => Linked) /\ DeleteFreesAll

\* A chain that visits no node twice has ended after as many steps as there are
\* keys.
LEMMA ChainEnds ==
    ASSUME TypeOK, Linked, NEW b \in Bucket
    PROVE  Walk(b)[Cardinality(Key)] = None
  <1> DEFINE N == Cardinality(Key)
             w(n) == Walk(b)[n]
  <1>1. N \in Nat /\ IsFiniteSet(Key)
    BY KeyFacts
  <1>2. \A n \in 0..N : n # 0 /\ w(n - 1) = None => w(n) = None
    BY WalkIs
  <1>3. \A n \in 0..N : w(n) # None => w(n) \in Key
    BY DEF Linked, TypeOK
  <1>4. \A i, j \in 0..N : w(i) # None /\ w(i) = w(j) => i = j
    BY DEF Linked
  <1> SUFFICES ASSUME w(N) # None PROVE FALSE
    OBVIOUS
  <1> HIDE DEF w
  <1>5. \A n \in 0..N : w(n) # None
    <2> SUFFICES ASSUME NEW m \in 0..N, w(m) = None PROVE FALSE
      OBVIOUS
    <2> DEFINE T == {n \in m..N : w(n) # None}
    <2>1. T \subseteq Nat /\ N \in T
      BY <1>1
    <2>2. PICK x \in T : \A y \in T : x <= y
      <3> HIDE DEF T
      <3> QED
        BY <2>1, LeastNat
    <2>3. x \in m..N /\ w(x) # None /\ x # m
      BY <2>2
    <2>4. x - 1 \in m..N /\ x \in 0..N /\ x # 0
      BY <1>1, <2>3
    <2>5. x - 1 \notin T
      <3> HIDE DEF T
      <3> QED
        BY <2>2, <2>4
    <2> QED
      BY <1>2, <2>3, <2>4, <2>5
  <1> DEFINE h == [n \in 0..N |-> w(n)]
  <1>6. h \in Injection(0..N, Key)
    <2>1. h \in [0..N -> Key] /\ \A i, j \in 0..N : h[i] = h[j] => i = j
      BY <1>3, <1>4, <1>5
    <2> HIDE DEF h
    <2> QED
      BY <2>1 DEF Injection, IsInjective
  <1> HIDE DEF h, N
  <1>7. Cardinality(0..N) <= Cardinality(Key)
    BY <1>1, <1>6, FS_Injection
  <1>8. Cardinality(0..N) = N + 1
    BY <1>1, FS_Interval
  <1> QED
    BY <1>1, <1>7, <1>8 DEF N

\* A new element is pushed in front of its chain, and no other chain changes.
LEMMA InsertWalk ==
    ASSUME TypeOK, Linked, NEW key \in Key, NEW v \in Val, InsertElement(key, v)
    PROVE  /\ key \notin alive
           /\ Walk(hash_64(key))'[0] = key
           /\ \A n \in 1 .. Cardinality(Key) : Walk(hash_64(key))'[n] = Walk(hash_64(key))[n - 1]
           /\ \A c \in Bucket \ {hash_64(key)}, n \in 0 .. Cardinality(Key) :
                 Walk(c)'[n] = Walk(c)[n]
  <1> DEFINE N == Cardinality(Key)
             b == hash_64(key)
  <1>1. N \in Nat /\ None \notin Key
    BY KeyFacts
  <1>2. b \in Bucket
    BY HashInBucket
  <1>3. /\ next' = [next EXCEPT ![key] = first[b]] /\ first' = [first EXCEPT ![b] = key]
        /\ ~hmap_find(key)
    BY DEF InsertElement
  <1>4. key \notin alive
    <2> SUFFICES ASSUME key \in alive PROVE FALSE
      OBVIOUS
    <2>1. PICK n \in 0..N : Walk(b)[n] = key
      BY DEF Linked
    <2>2. key \in Chain(b)
      BY <1>1, <2>1, WalkIs DEF Chain
    <2> QED
      BY <1>3, <2>2 DEF hmap_find
  <1>5. next'[key] = first[b] /\ \A x \in Key \ {key} : next'[x] = next[x]
    BY <1>3 DEF TypeOK
  <1>6. first'[b] = key /\ \A c \in Bucket \ {b} : first'[c] = first[c]
    BY <1>2, <1>3 DEF TypeOK
  <1>7. \A c \in Bucket, n \in 0..N : Walk(c)[n] # None => Walk(c)[n] \in Key \ {key}
    BY <1>4 DEF Linked, TypeOK
  <1> HIDE DEF b
  <1>8. ASSUME NEW c \in Bucket \ {b} PROVE \A n \in 0..N : Walk(c)'[n] = Walk(c)[n]
    <2> DEFINE w(n) == Walk(c)[n]
               u(n) == Walk(c)'[n]
               T == {n \in 0..N : u(n) # w(n)}
    <2>1. /\ w(0) = first[c] /\ u(0) = first'[c]
          /\ \A n \in 0..N : n # 0 =>
                /\ w(n) = IF w(n - 1) = None THEN None ELSE next[w(n - 1)]
                /\ u(n) = IF u(n - 1) = None THEN None ELSE next'[u(n - 1)]
      BY <1>1, WalkIs, NextWalkIs
    <2>2. \A n \in 0..N : w(n) # None => w(n) \in Key \ {key}
      BY <1>7
    <2> HIDE DEF w, u
    <2>3. ASSUME T # {} PROVE FALSE
      <3>1. T \subseteq Nat
        OBVIOUS
      <3>2. PICK x \in T : \A y \in T : x <= y
        <4> HIDE DEF T
        <4> QED
          BY <2>3, <3>1, LeastNat
      <3>3. x \in 0..N /\ u(x) # w(x)
        BY <3>2
      <3>4. x # 0
        BY <1>6, <2>1, <3>3
      <3>5. x - 1 \in 0..N /\ x - 1 \notin T
        <4>1. x - 1 \in 0..N
          BY <1>1, <3>3, <3>4
        <4> HIDE DEF T
        <4> QED
          BY <3>2, <3>3, <4>1
      <3>6. u(x - 1) = w(x - 1)
        BY <3>5
      <3> QED
        BY <1>5, <2>1, <2>2, <3>3, <3>4, <3>5, <3>6
    <2>4. \A n \in 0..N : u(n) = w(n)
      BY <2>3
    <2> QED
      BY <2>4 DEF u, w
  <1>9. Walk(b)'[0] = key
    BY <1>1, <1>6, NextWalkIs
  <1>10. \A n \in 1..N : Walk(b)'[n] = Walk(b)[n - 1]
    <2> DEFINE w(n) == Walk(b)[n]
               u(n) == Walk(b)'[n]
               T == {n \in 1..N : u(n) # w(n - 1)}
    <2>1. /\ w(0) = first[b] /\ u(0) = key
          /\ \A n \in 1..N :
                /\ w(n) = IF w(n - 1) = None THEN None ELSE next[w(n - 1)]
                /\ u(n) = IF u(n - 1) = None THEN None ELSE next'[u(n - 1)]
      BY <1>1, <1>9, WalkIs, NextWalkIs
    <2>2. \A n \in 0..N : w(n) # None => w(n) \in Key \ {key}
      BY <1>2, <1>7 DEF b
    <2> HIDE DEF w, u
    <2>3. ASSUME T # {} PROVE FALSE
      <3>1. T \subseteq Nat
        OBVIOUS
      <3>2. PICK x \in T : \A y \in T : x <= y
        <4> HIDE DEF T
        <4> QED
          BY <2>3, <3>1, LeastNat
      <3>3. x \in 1..N /\ u(x) # w(x - 1)
        BY <3>2
      <3>4. x # 1
        BY <1>1, <1>5, <2>1, <3>3
      <3>5. x - 1 \in 1..N /\ x - 1 \notin T
        <4>1. x - 1 \in 1..N
          BY <1>1, <3>3, <3>4
        <4> HIDE DEF T
        <4> QED
          BY <3>2, <3>3, <4>1
      <3>6. u(x - 1) = w((x - 1) - 1)
        BY <3>5
      <3> QED
        BY <1>1, <1>5, <2>1, <2>2, <3>3, <3>4, <3>5, <3>6
    <2>4. \A n \in 1..N : u(n) = w(n - 1)
      BY <2>3
    <2> QED
      BY <2>4 DEF u, w
  <1> QED
    BY <1>4, <1>8, <1>9, <1>10 DEF b

\* A new element keeps the types.
LEMMA InsertTypes ==
    ASSUME TypeOK, NEW key \in Key, NEW v \in Val, InsertElement(key, v)
    PROVE  TypeOK'
  <1>1. hash_64(key) \in Bucket
    BY HashInBucket
  <1>2. /\ first' = [first EXCEPT ![hash_64(key)] = key]
        /\ next' = [next EXCEPT ![key] = first[hash_64(key)]]
        /\ value' = [value EXCEPT ![key] = v]
        /\ alive' = alive \cup {key} /\ freed' = freed
    BY DEF InsertElement
  <1>3. \A k \in Key : hash_64(k)' \in Bucket
    BY HashInBucket
  <1> QED
    BY <1>1, <1>2, <1>3 DEF TypeOK

\* A new element keeps the chains in order.
LEMMA InsertLinked ==
    ASSUME TypeOK, Linked, NEW key \in Key, NEW v \in Val, InsertElement(key, v)
    PROVE  Linked'
  <1> DEFINE N == Cardinality(Key)
             b == hash_64(key)
             w(c, n) == Walk(c)[n]
             u(c, n) == Walk(c)'[n]
  <1>1. N \in Nat /\ None \notin Key
    BY KeyFacts
  <1>2. /\ next' = [next EXCEPT ![key] = first[b]] /\ first' = [first EXCEPT ![b] = key]
        /\ alive' = alive \cup {key} /\ pprev' = BackPointers(key, b)
    BY DEF InsertElement
  <1>3. b \in Bucket /\ \A k \in Key : hash_64(k) \in Bucket
    BY HashInBucket
  <1>4. /\ key \notin alive
        /\ u(b, 0) = key
        /\ \A n \in 1..N : u(b, n) = w(b, n - 1)
        /\ \A c \in Bucket \ {b}, n \in 0..N : u(c, n) = w(c, n)
    BY InsertWalk
  <1>5. w(b, N) = None
    BY <1>3, ChainEnds
  <1>6. \A c \in Bucket : w(c, 0) = first[c]
    BY <1>1, WalkIs
  <1>7. /\ \A c \in Bucket, n \in 0..N : w(c, n) # None => w(c, n) \in alive /\ hash_64(w(c, n)) = c
        /\ \A k \in alive : \E n \in 0..N : w(hash_64(k), n) = k
        /\ \A c \in Bucket, i, j \in 0..N : w(c, i) # None /\ w(c, i) = w(c, j) => i = j
    BY DEF Linked
  <1>8. /\ \A c \in Bucket : first[c] # None => pprev[first[c]] = <<"first", c>>
        /\ \A k \in alive : next[k] # None => next[k] \in alive /\ pprev[next[k]] = <<"next", k>>
    BY DEF Linked
  <1>9. alive \subseteq Key /\ first \in [Bucket -> Key \cup {None}] /\ next \in [Key -> Key \cup {None}]
    BY DEF TypeOK
  <1>10. \A k \in Key : pprev'[k] = IF k = key THEN <<"first", b>>
                                    ELSE IF k = first[b] THEN <<"next", key>> ELSE pprev[k]
    BY <1>2 DEF BackPointers
  <1> HIDE DEF b, w, u
  <1>11. \A c \in Bucket, n \in 0..N : u(c, n) # None => u(c, n) \in alive' /\ hash_64(u(c, n)) = c
    <2> SUFFICES ASSUME NEW c \in Bucket, NEW n \in 0..N, u(c, n) # None
                 PROVE  u(c, n) \in alive' /\ hash_64(u(c, n)) = c
      OBVIOUS
    <2>1. CASE c # b
      BY <1>2, <1>4, <1>7, <2>1
    <2>2. CASE c = b /\ n = 0
      BY <1>2, <1>4, <2>2 DEF b
    <2>3. CASE c = b /\ n # 0
      <3>1. n \in 1..N /\ n - 1 \in 0..N
        BY <1>1, <2>3
      <3> QED
        BY <1>2, <1>4, <1>7, <2>3, <3>1
    <2> QED
      BY <2>1, <2>2, <2>3
  <1>12. \A k \in alive' : \E n \in 0..N : u(hash_64(k), n) = k
    <2> SUFFICES ASSUME NEW k \in alive' PROVE \E n \in 0..N : u(hash_64(k), n) = k
      OBVIOUS
    <2>1. CASE k = key
      BY <1>1, <1>4, <2>1 DEF b
    <2>2. CASE k # key
      <3>1. k \in alive /\ k \in Key
        BY <1>2, <1>9, <2>2
      <3>2. PICK n \in 0..N : w(hash_64(k), n) = k
        BY <1>7, <3>1
      <3>3. CASE hash_64(k) # b
        BY <1>3, <1>4, <3>1, <3>2, <3>3
      <3>4. CASE hash_64(k) = b
        <4>1. n # N
          BY <1>1, <1>5, <3>1, <3>2, <3>4
        <4>2. n + 1 \in 1..N /\ n + 1 \in 0..N /\ (n + 1) - 1 = n
          BY <1>1, <4>1
        <4>3. u(b, n + 1) = w(b, (n + 1) - 1)
          BY <1>4, <4>2
        <4> QED
          BY <3>2, <3>4, <4>2, <4>3
      <3> QED
        BY <3>3, <3>4
    <2> QED
      BY <2>1, <2>2
  <1>13. \A c \in Bucket, i, j \in 0..N : u(c, i) # None /\ u(c, i) = u(c, j) => i = j
    <2> SUFFICES ASSUME NEW c \in Bucket, NEW i \in 0..N, NEW j \in 0..N,
                        u(c, i) # None, u(c, i) = u(c, j)
                 PROVE  i = j
      OBVIOUS
    <2>1. CASE c # b
      BY <1>4, <1>7, <2>1
    <2>2. CASE c = b
      <3>1. \A n \in 0..N : n # 0 => n - 1 \in 0..N /\ u(b, n) = w(b, n - 1)
        BY <1>1, <1>4
      <3>2. \A n \in 0..N : n # 0 => u(b, n) # key
        BY <1>1, <1>3, <1>4, <1>7, <3>1
      <3>3. CASE i = 0 \/ j = 0
        BY <1>4, <2>2, <3>2, <3>3
      <3>4. CASE i # 0 /\ j # 0
        <4>1. i - 1 = j - 1
          BY <1>3, <1>7, <2>2, <3>1, <3>4
        <4> QED
          BY <4>1
      <3> QED
        BY <3>3, <3>4
    <2> QED
      BY <2>1, <2>2
  <1>14. \A c \in Bucket : first'[c] # None => pprev'[first'[c]] = <<"first", c>>
    <2> SUFFICES ASSUME NEW c \in Bucket, first'[c] # None PROVE pprev'[first'[c]] = <<"first", c>>
      OBVIOUS
    <2>1. CASE c = b
      BY <1>2, <1>3, <1>9, <1>10, <2>1
    <2>2. CASE c # b
      <3>1. first'[c] = first[c] /\ first[c] # None
        BY <1>2, <1>9, <2>2
      <3>2. first[c] \in alive /\ hash_64(first[c]) = c
        BY <1>1, <1>6, <1>7, <3>1
      <3>3. first[c] # first[b]
        BY <1>1, <1>3, <1>6, <1>7, <2>2, <3>1, <3>2
      <3> QED
        BY <1>4, <1>8, <1>9, <1>10, <3>1, <3>2, <3>3
    <2> QED
      BY <2>1, <2>2
  <1>15. ASSUME NEW k \in alive', next'[k] # None
         PROVE  next'[k] \in alive' /\ pprev'[next'[k]] = <<"next", k>>
    <2>1. CASE k = key
      <3>1. next'[k] = first[b]
        BY <1>2, <1>9, <2>1
      <3>2. first[b] \in alive
        BY <1>1, <1>3, <1>6, <1>7, <1>15, <3>1
      <3> QED
        BY <1>2, <1>4, <1>9, <1>10, <2>1, <3>1, <3>2
    <2>2. CASE k # key
      <3>1. k \in alive /\ next'[k] = next[k]
        BY <1>2, <1>9, <2>2
      <3>2. next[k] \in alive /\ pprev[next[k]] = <<"next", k>>
        BY <1>8, <1>15, <3>1
      <3>3. next[k] # first[b]
        <4> SUFFICES ASSUME next[k] = first[b] PROVE FALSE
          OBVIOUS
        <4>1. pprev[first[b]] = <<"first", b>>
          BY <1>3, <1>8, <1>15, <3>1
        <4>2. <<"first", b>> = <<"next", k>>
          BY <3>2, <4>1
        <4> QED
          BY <4>2
      <3> QED
        BY <1>2, <1>4, <1>9, <1>10, <3>1, <3>2, <3>3
    <2> QED
      BY <2>1, <2>2
  <1> QED
    BY <1>11, <1>12, <1>13, <1>14, <1>15 DEF Linked, u

\* The elements of the chains are the elements there are.
LEMMA ChainsHoldAll ==
    ASSUME TypeOK, Linked
    PROVE  /\ alive = UNION {Chain(b) : b \in Bucket}
           /\ \A b \in Bucket : \A key \in Chain(b) : hash_64(key) = b
           /\ \A key \in Key : hmap_find(key) <=> key \in alive
  <1>1. None \notin Key /\ alive \subseteq Key
    BY KeyFacts DEF TypeOK
  <1>2. \A b \in Bucket : \A key \in Chain(b) : key \in alive /\ hash_64(key) = b
    <2> SUFFICES ASSUME NEW b \in Bucket, NEW key \in Chain(b)
                 PROVE  key \in alive /\ hash_64(key) = b
      OBVIOUS
    <2>1. DOMAIN Walk(b) = 0 .. Cardinality(Key)
      BY WalkIs
    <2>2. PICK n \in 0 .. Cardinality(Key) : Walk(b)[n] = key /\ key # None
      BY <2>1 DEF Chain
    <2> QED
      BY <2>2 DEF Linked
  <1>3. \A key \in alive : hash_64(key) \in Bucket /\ key \in Chain(hash_64(key))
    <2> SUFFICES ASSUME NEW key \in alive
                 PROVE  hash_64(key) \in Bucket /\ key \in Chain(hash_64(key))
      OBVIOUS
    <2>1. PICK n \in 0 .. Cardinality(Key) : Walk(hash_64(key))[n] = key
      BY DEF Linked
    <2>2. DOMAIN Walk(hash_64(key)) = 0 .. Cardinality(Key)
      BY WalkIs
    <2>3. key \in Key /\ key # None
      BY <1>1
    <2>4. key \in Chain(hash_64(key))
      BY <2>1, <2>2, <2>3 DEF Chain
    <2> QED
      BY <2>3, <2>4, HashInBucket
  <1>4. \A key \in Key : hmap_find(key) <=> key \in alive
    BY <1>2, <1>3, HashInBucket DEF hmap_find
  <1> QED
    BY <1>2, <1>3, <1>4

\* The empty map satisfies the invariant.
LEMMA InitInv == Init => IInv
  <1> SUFFICES ASSUME Init PROVE IInv
    OBVIOUS
  <1> DEFINE N == Cardinality(Key)
  <1>1. N \in Nat
    BY KeyFacts
  <1>2. /\ first = [b \in Bucket |-> None] /\ next = [k \in Key |-> None]
        /\ value = [k \in Key |-> NULL] /\ alive = {} /\ freed = FALSE
    BY DEF Init
  <1>3. TypeOK
    BY <1>2, HashInBucket DEF TypeOK
  <1>4. \A b \in Bucket, n \in 0..N : Walk(b)[n] = None
    <2> SUFFICES ASSUME NEW b \in Bucket PROVE \A n \in 0..N : Walk(b)[n] = None
      OBVIOUS
    <2> DEFINE w(n) == Walk(b)[n]
               T == {n \in 0..N : w(n) # None}
    <2>1. w(0) = None /\ \A n \in 0..N : n # 0 /\ w(n - 1) = None => w(n) = None
      BY <1>1, <1>2, WalkIs
    <2> HIDE DEF w
    <2>2. ASSUME T # {} PROVE FALSE
      <3>1. T \subseteq Nat
        OBVIOUS
      <3>2. PICK x \in T : \A y \in T : x <= y
        <4> HIDE DEF T
        <4> QED
          BY <2>2, <3>1, LeastNat
      <3>3. x \in 0..N /\ w(x) # None /\ x # 0
        BY <2>1, <3>2
      <3>4. x - 1 \in 0..N /\ x - 1 \notin T
        <4>1. x - 1 \in 0..N
          BY <1>1, <3>3
        <4> HIDE DEF T
        <4> QED
          BY <3>2, <3>3, <4>1
      <3> QED
        BY <2>1, <3>3, <3>4
    <2>3. \A n \in 0..N : w(n) = None
      BY <2>2
    <2> QED
      BY <2>3 DEF w
  <1>5. Linked
    BY <1>2, <1>4 DEF Linked
  <1> QED
    BY <1>2, <1>3, <1>5 DEF IInv, DeleteFreesAll

\* What a step may do: insert, delete, or nothing.
LEMMA Steps ==
    ASSUME [Next]_vars
    PROVE  \/ \E key \in Key, v \in Val : InsertElement(key, v)
           \/ hmap_delete
           \/ UNCHANGED vars
  BY DEF Next, Deleted, hmap_insert, InsertNothing

\* Nothing changes: the invariant is as it was.
LEMMA StutterInv ==
    ASSUME IInv, UNCHANGED vars
    PROVE  IInv'
  <1>1. \A b : Walk(b)' = Walk(b)
    BY DEF Walk, vars
  <1>2. UNCHANGED <<first, next, pprev, value, alive, freed>>
    BY DEF vars
  <1>3. TypeOK'
    BY <1>2 DEF IInv, TypeOK
  <1>4. Linked => Linked'
    BY <1>1, <1>2 DEF Linked
  <1> QED
    BY <1>2, <1>3, <1>4 DEF IInv, DeleteFreesAll

\* The invariant is inductive.
LEMMA StepInv == IInv /\ [Next]_vars => IInv'
  <1> SUFFICES ASSUME IInv, [Next]_vars PROVE IInv'
    OBVIOUS
  <1>1. ASSUME NEW key \in Key, NEW v \in Val, InsertElement(key, v) PROVE IInv'
    <2>1. TypeOK /\ Linked /\ freed = FALSE /\ freed' = freed
      BY <1>1 DEF IInv, InsertElement, TypeOK
    <2>2. TypeOK' /\ Linked'
      BY <1>1, <2>1, InsertTypes, InsertLinked
    <2> QED
      BY <2>1, <2>2 DEF IInv, DeleteFreesAll
  <1>2. ASSUME hmap_delete PROVE IInv'
    <2>1. /\ TypeOK /\ Linked /\ UNCHANGED <<first, next, pprev, value>> /\ freed' = TRUE
          /\ alive' = alive \ UNION {Chain(b) : b \in Bucket}
      BY <1>2 DEF IInv, hmap_delete, DeletedBuckets
    <2>2. alive' = {}
      BY <2>1, ChainsHoldAll
    <2>3. TypeOK'
      BY <2>1, <2>2 DEF TypeOK
    <2> QED
      BY <2>1, <2>2, <2>3 DEF IInv, DeleteFreesAll
  <1> QED
    BY <1>1, <1>2, Steps, StutterInv

\* The inductive invariant holds of every reachable state.
THEOREM Invariance == Spec => []IInv
  BY InitInv, StepInv, PTL DEF Spec

\* Every reachable state is well typed; in particular hash_64 never indexes
\* past the buckets, whatever the word width and the multiplier.
THEOREM TypeCorrect == Spec => []TypeOK
  <1>1. IInv => TypeOK
    BY DEF IInv
  <1> QED
    BY <1>1, Invariance, PTL

\* The chains hold exactly the elements, each in the bucket of its hash; they
\* end; and every back pointer is the address of the one pointer to its node.
THEOREM AlwaysWellLinked == Spec => []WellLinked
  <1>1. ASSUME IInv PROVE WellLinked
    <2> SUFFICES ASSUME ~freed PROVE WellLinked
      BY DEF WellLinked
    <2>1. TypeOK /\ Linked
      BY <1>1, Zenon DEF IInv
    <2>2. /\ alive = UNION {Chain(b) : b \in Bucket}
          /\ \A b \in Bucket : \A key \in Chain(b) : hash_64(key) = b
      BY <2>1, ChainsHoldAll
    <2>3. \A b \in Bucket : Walk(b)[Cardinality(Key)] = None
      BY <2>1, ChainEnds
    <2> QED
      BY <2>1, <2>2, <2>3 DEF WellLinked, Linked
  <1> QED
    BY <1>1, Invariance, PTL

\* hmap_delete frees every element that was inserted.
THEOREM DeleteLeavesNothing == Spec => []DeleteFreesAll
  <1>1. IInv => DeleteFreesAll
    BY DEF IInv
  <1> QED
    BY <1>1, Invariance, PTL

\* What can be found stays what it is as long as the map exists.
THEOREM EntriesStay == Spec => KeepsEntries
  <1> DEFINE Kept == \A key \in Key : hmap_get(key) # NULL /\ ~freed' => hmap_get(key)' = hmap_get(key)
  <1>1. ASSUME IInv, IInv', [Next]_vars PROVE Kept \/ UNCHANGED vars
    <2>1. ASSUME NEW k \in Key, NEW v \in Val, InsertElement(k, v) PROVE Kept
      <3>1. /\ TypeOK /\ Linked /\ value' = [value EXCEPT ![k] = v]
            /\ alive' = alive \cup {k} /\ ~hmap_find(k)
        BY <1>1, <2>1, Zenon DEF IInv, InsertElement
      <3>2. \A key \in Key : hmap_find(key) <=> key \in alive
        BY <3>1, ChainsHoldAll
      <3>3. Linked' /\ TypeOK'
        BY <2>1, <3>1, InsertLinked, InsertTypes
      <3>4. \A key \in alive : hmap_find(key)'
        <4> SUFFICES ASSUME NEW key \in alive PROVE hmap_find(key)'
          OBVIOUS
        <4>1. key \in Key /\ key \in alive' /\ None \notin Key
          BY <3>1, KeyFacts DEF TypeOK
        <4>2. PICK n \in 0 .. Cardinality(Key) : Walk(hash_64(key))'[n] = key
          BY <3>3, <4>1 DEF Linked
        <4>3. n \in DOMAIN (Walk(hash_64(key))')
          BY NextWalkIs
        <4> QED
          BY <4>1, <4>2, <4>3 DEF hmap_find, Chain
      <3> SUFFICES ASSUME NEW key \in Key, hmap_get(key) # NULL PROVE hmap_get(key)' = hmap_get(key)
        OBVIOUS
      <3>5. hmap_find(key) /\ key # k
        BY <3>1 DEF hmap_get
      <3>6. hmap_find(key)' /\ value'[key] = value[key]
        BY <3>1, <3>2, <3>4, <3>5 DEF TypeOK
      <3> QED
        BY <3>5, <3>6 DEF hmap_get
    <2>2. ASSUME hmap_delete PROVE Kept
      BY <2>2 DEF hmap_delete
    <2> QED
      BY <1>1, <2>1, <2>2, Steps
  <1>2. KeepsEntries <=> [][Kept]_vars
    BY PTL DEF KeepsEntries
  <1>3. IInv /\ IInv' /\ [Next]_vars => [Kept]_vars
    BY <1>1
  <1> HIDE DEF Kept
  <1> QED
    BY <1>2, <1>3, Invariance, PTL DEF Spec
=============================================================================
