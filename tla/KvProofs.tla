------------------------------ MODULE KvProofs ------------------------------
(***************************************************************************)
(* Theorems about Kv, for every size of the provided arrays, every default *)
(* capacity, every bound on growth and all sets of keys and values.        *)
(***************************************************************************)
EXTENDS Kv, WellFoundedInduction, TLAPS

-----------------------------------------------------------------------------
(* The inductive invariant.                                                *)

\* What a cell of the array can hold.
Cell == Pair \cup {Zero, Garbage}

\* The three provided maps have their thirds of the array for good.
Thirds ==
    /\ \A m \in Provided : capacity[m] = Sz
    /\ accepted \in [Map -> Seq(Pair)]

\* The inductive invariant.
IInv == TypeOK /\ Thirds /\ HoldsAccepted

\* HoldsAccepted for one map.
Holds(m) ==
    /\ size[m] = Len(accepted[m])
    /\ \A i \in 0 .. size[m] - 1 : At(m, i) = accepted[m][i + 1]

-----------------------------------------------------------------------------
(* Where the maps lie.                                                     *)

\* The cells a map may use lie in the array, and no other map uses them.
LEMMA Layout ==
    /\ Sz \in Nat \ {0} /\ DefaultSz \in Nat \ {0}
    /\ "heap" \notin Provided /\ "heap" \in Map
    /\ \A m \in Provided : m \in Map /\ Base(m) \in Nat
    /\ \A m \in Provided, i \in 0 .. Sz - 1 : Base(m) + i \in 0 .. 3 * Sz - 1
    /\ \A m, n \in Provided, i, j \in 0 .. Sz - 1 : m # n => Base(m) + i # Base(n) + j
  <1>1. /\ Base("req_headers") = 0 /\ Base("req_query") = Sz /\ Base("res_headers") = 2 * Sz
        /\ Sz \in Nat \ {0} /\ DefaultSz \in Nat \ {0}
    BY SzAssumption DEF Base
  <1>2. \A m \in Provided : Base(m) \in {0, Sz, 2 * Sz}
    BY <1>1 DEF Provided
  <1>3. \A m, n \in Provided : m # n => \/ Base(m) + Sz <= Base(n)
                                        \/ Base(n) + Sz <= Base(m)
    BY <1>1 DEF Provided
  <1>4. "heap" \notin Provided /\ "heap" \in Map /\ \A m \in Provided : m \in Map
    BY DEF Provided, Map
  <1>5. \A m \in Provided : Base(m) \in Nat /\ Base(m) + Sz <= 3 * Sz
    BY <1>1, <1>2
  <1>6. \A m \in Provided, i \in 0 .. Sz - 1 : Base(m) + i \in 0 .. 3 * Sz - 1
    BY <1>1, <1>5
  <1>7. \A m, n \in Provided, i, j \in 0 .. Sz - 1 : m # n => Base(m) + i # Base(n) + j
    BY <1>1, <1>3, <1>5
  <1> QED
    BY <1>1, <1>4, <1>5, <1>6, <1>7

\* What the invariant says of one map.
LEMMA OfMap ==
    ASSUME IInv, NEW m \in Map
    PROVE  /\ size[m] \in Nat /\ capacity[m] \in Nat /\ size[m] <= capacity[m]
           /\ accepted[m] \in Seq(Pair) /\ Len(accepted[m]) = size[m]
           /\ m \in Provided => capacity[m] = Sz
           /\ m \notin Provided => m = "heap"
           /\ Holds(m)
  BY DEF IInv, TypeOK, Thirds, HoldsAccepted, Holds, Map

\* The invariant holds initially.
LEMMA InitInv == Init => IInv
  <1> SUFFICES ASSUME Init PROVE IInv
    OBVIOUS
  <1>1. TypeOK
    BY Layout DEF Init, TypeOK
  <1>2. Thirds
    BY Layout DEF Init, Thirds
  <1>3. HoldsAccepted
    BY DEF Init, HoldsAccepted
  <1> QED
    BY <1>1, <1>2, <1>3 DEF IInv

\* A map whose size, accepted pairs and cells a step leaves alone.
LEMMA Untouched ==
    ASSUME IInv, NEW m \in Map, size'[m] = size[m], accepted'[m] = accepted[m],
           \A i \in 0 .. size[m] - 1 : At(m, i)' = At(m, i)
    PROVE  Holds(m)'
  <1>1. Holds(m)
    BY OfMap
  <1> QED
    BY <1>1 DEF Holds, At

\* A map that is emptied.
LEMMA Emptied ==
    ASSUME NEW m \in Map, size'[m] = 0, accepted'[m] = <<>>
    PROVE  Holds(m)'
  BY DEF Holds

\* A map that takes one more pair, behind the pairs it has.
LEMMA OneMore ==
    ASSUME IInv, NEW m \in Map, NEW p \in Pair, NEW k, k = size[m], size'[m] = k + 1,
           accepted'[m] = Append(accepted[m], p), At(m, k)' = p,
           \A i \in 0 .. size[m] - 1 : At(m, i)' = At(m, i)
    PROVE  Holds(m)'
  <1>1. /\ size[m] \in Nat /\ accepted[m] \in Seq(Pair) /\ Len(accepted[m]) = size[m]
        /\ \A i \in 0 .. size[m] - 1 : At(m, i) = accepted[m][i + 1]
    BY OfMap DEF Holds
  <1>2. size'[m] = Len(accepted'[m]) /\ accepted'[m][size[m] + 1] = p
    BY <1>1
  <1>3. ASSUME NEW i \in 0 .. size'[m] - 1 PROVE At(m, i)' = accepted'[m][i + 1]
    <2>1. CASE i = k
      <3>1. At(m, i)' = At(m, k)'
        BY <2>1 DEF At
      <3> QED
        BY <1>2, <2>1, <3>1
    <2>2. CASE i # k
      <3>1. i \in 0 .. size[m] - 1 /\ i + 1 \in 1 .. Len(accepted[m])
        BY <1>1, <2>2
      <3> QED
        BY <1>1, <3>1
    <2> QED
      BY <2>1, <2>2
  <1> QED
    BY <1>2, <1>3 DEF Holds
-----------------------------------------------------------------------------
(* Every step keeps the invariant.                                         *)

\* A pair goes behind the others of a provided map, into its own third.
LEMMA SetProvidedStep ==
    ASSUME IInv, NEW m \in Map, NEW p \in Pair, SetProvided(m, p)
    PROVE  IInv'
  <1>0. PICK k \in Nat : k = size[m]
    BY OfMap
  <1>1. /\ m \in Provided /\ capacity[m] = Sz /\ k \in 0 .. Sz - 1
        /\ accepted[m] \in Seq(Pair) /\ Len(accepted[m]) = k
    BY <1>0, OfMap, Layout DEF SetProvided, HasRoom
  <1>2. /\ static_kv_pairs \in [0 .. 3 * Sz - 1 -> Pair \cup {Zero}]
        /\ size \in [Map -> Nat] /\ accepted \in [Map -> Seq(Pair)]
    BY DEF IInv, TypeOK, Thirds
  <1>3. /\ static_kv_pairs' = [static_kv_pairs EXCEPT ![Base(m) + k] = p]
        /\ size' = [size EXCEPT ![m] = @ + 1]
        /\ accepted' = [accepted EXCEPT ![m] = Append(@, p)]
        /\ pairs' = pairs /\ capacity' = capacity
    BY <1>0 DEF SetProvided, Store
  <1>4. Base(m) + k \in 0 .. 3 * Sz - 1
    BY <1>1, Layout
  <1>5. /\ static_kv_pairs' \in [0 .. 3 * Sz - 1 -> Pair \cup {Zero}]
        /\ size' \in [Map -> Nat] /\ accepted' \in [Map -> Seq(Pair)]
        /\ static_kv_pairs'[Base(m) + k] = p
        /\ \A i \in 0 .. 3 * Sz - 1 : i # Base(m) + k => static_kv_pairs'[i] = static_kv_pairs[i]
        /\ size'[m] = k + 1 /\ accepted'[m] = Append(accepted[m], p)
        /\ \A n \in Map \ {m} : size'[n] = size[n] /\ accepted'[n] = accepted[n]
    BY <1>0, <1>1, <1>2, <1>3, <1>4
  <1>6. TypeOK'
    <2>1. \A n \in Map : size'[n] <= capacity'[n]
      BY <1>1, <1>3, <1>5, OfMap, Layout
    <2> QED
      BY <1>3, <1>5, <2>1, Layout DEF IInv, TypeOK
  <1>7. Thirds'
    BY <1>3, <1>5 DEF IInv, Thirds
  <1>8. ASSUME NEW n \in Map PROVE Holds(n)'
    <2>1. CASE n = m
      <3>2. \A i \in 0 .. k - 1 : At(m, i)' = At(m, i)
        <4> TAKE i \in 0 .. k - 1
        <4>1. Base(m) + i \in 0 .. 3 * Sz - 1 /\ Base(m) + i # Base(m) + k
          BY <1>1, Layout
        <4> QED
          BY <1>1, <1>5, <4>1 DEF At
      <3>3. At(m, k)' = p
        BY <1>1, <1>5 DEF At
      <3> QED
        BY <1>0, <1>5, <2>1, <3>2, <3>3, OneMore
    <2>2. CASE n # m
      <3>1. ASSUME NEW i \in 0 .. size[n] - 1 PROVE At(n, i)' = At(n, i)
        <4>1. CASE n \in Provided
          <5>1. i \in 0 .. Sz - 1
            BY <4>1, OfMap, Layout
          <5>2. Base(n) + i \in 0 .. 3 * Sz - 1 /\ Base(n) + i # Base(m) + k
            BY <1>1, <2>2, <4>1, <5>1, Layout
          <5> QED
            BY <1>5, <4>1, <5>2 DEF At
        <4>2. CASE n \notin Provided
          BY <1>3, <4>2 DEF At
        <4> QED
          BY <4>1, <4>2
      <3> QED
        BY <1>5, <2>2, <3>1, Untouched
    <2> QED
      BY <2>1, <2>2
  <1> QED
    BY <1>6, <1>7, <1>8 DEF IInv, HoldsAccepted, Holds

\* The provided maps when only the allocated one changes.
LEMMA ProvidedUntouched ==
    ASSUME IInv, NEW m \in Provided, static_kv_pairs' = static_kv_pairs,
           size'[m] = size[m], accepted'[m] = accepted[m]
    PROVE  Holds(m)'
  <1>1. m \in Map /\ \A i \in 0 .. size[m] - 1 : At(m, i)' = At(m, i)
    BY Layout DEF At
  <1> QED
    BY <1>1, Untouched

\* The allocated map when only provided ones change.
LEMMA HeapUntouched ==
    ASSUME IInv, pairs' = pairs, size'["heap"] = size["heap"], accepted'["heap"] = accepted["heap"]
    PROVE  Holds("heap")'
  <1>1. "heap" \in Map /\ \A i \in 0 .. size["heap"] - 1 : At("heap", i)' = At("heap", i)
    BY Layout DEF At
  <1> QED
    BY <1>1, Untouched

\* A pair is stored in the allocated map, in room it had or has got by growing.
LEMMA SetHeapStep ==
    ASSUME IInv, NEW p \in Pair, SetAllocated(p) \/ SetGrows(p)
    PROVE  IInv'
  <1>0. PICK k \in Nat : k = size["heap"]
    BY OfMap, Layout
  <1>1. /\ accepted["heap"] \in Seq(Pair) /\ capacity["heap"] \in Nat /\ k <= capacity["heap"]
        /\ pairs \in Seq(Cell) /\ Len(pairs) = capacity["heap"]
        /\ size \in [Map -> Nat] /\ capacity \in [Map -> Nat] /\ accepted \in [Map -> Seq(Pair)]
        /\ "heap" \in Map
    BY <1>0, OfMap, Layout DEF IInv, TypeOK, Thirds, Cell
  <1>2. /\ size' = [size EXCEPT !["heap"] = @ + 1]
        /\ accepted' = [accepted EXCEPT !["heap"] = Append(@, p)]
        /\ static_kv_pairs' = static_kv_pairs
    BY DEF SetAllocated, SetGrows, Store
  <1>3. /\ size' \in [Map -> Nat] /\ size'["heap"] = k + 1
        /\ accepted' \in [Map -> Seq(Pair)] /\ accepted'["heap"] = Append(accepted["heap"], p)
        /\ \A m \in Map \ {"heap"} : size'[m] = size[m] /\ accepted'[m] = accepted[m]
    BY <1>0, <1>1, <1>2
  <1>4. /\ capacity' \in [Map -> Nat] /\ \A m \in Map \ {"heap"} : capacity'[m] = capacity[m]
        /\ k + 1 <= capacity'["heap"]
        /\ pairs' \in Seq(Cell) /\ Len(pairs') = capacity'["heap"]
        /\ pairs'[k + 1] = p /\ \A i \in 1 .. k : pairs'[i] = pairs[i]
    <2>1. CASE SetAllocated(p)
      <3>1. capacity' = capacity /\ k < capacity["heap"] /\ pairs' = [pairs EXCEPT ![k + 1] = p]
        BY <1>0, <2>1 DEF SetAllocated
      <3>2. p \in Cell /\ k + 1 \in 1 .. Len(pairs)
        BY <1>1, <3>1 DEF Cell
      <3> QED
        BY <1>1, <3>1, <3>2
    <2>2. CASE SetGrows(p)
      <3>1. /\ capacity["heap"] > 0 /\ k = capacity["heap"]
            /\ capacity' = [capacity EXCEPT !["heap"] = 2 * @]
            /\ pairs' = [i \in 1 .. 2 * capacity["heap"] |->
                            IF i <= capacity["heap"] THEN pairs[i] ELSE IF i = k + 1 THEN p ELSE Garbage]
        BY <1>0, <2>2 DEF SetGrows
      <3>2. /\ capacity' \in [Map -> Nat] /\ capacity'["heap"] = 2 * k
            /\ \A m \in Map \ {"heap"} : capacity'[m] = capacity[m]
        BY <1>1, <3>1
      <3>3. p \in Cell /\ Garbage \in Cell /\ \A i \in 1..k : pairs[i] \in Cell
        BY <1>1, <3>1 DEF Cell
      <3>4. pairs' \in Seq(Cell) /\ Len(pairs') = 2 * k
        <4>1. pairs' = [i \in 1 .. 2 * k |->
                          IF i <= k THEN pairs[i] ELSE IF i = k + 1 THEN p ELSE Garbage]
          BY <3>1
        <4>2. \A i \in 1 .. 2 * k :
                 (IF i <= k THEN pairs[i] ELSE IF i = k + 1 THEN p ELSE Garbage) \in Cell
          BY <3>3
        <4>3. 2 * k \in Nat
          OBVIOUS
        <4> QED
          BY <4>1, <4>2, <4>3
      <3> QED
        BY <3>1, <3>2, <3>4
    <2> QED
      BY <2>1, <2>2
  <1>5. TypeOK'
    <2>1. \A m \in Map : size'[m] <= capacity'[m]
      BY <1>3, <1>4, OfMap
    <2> QED
      BY <1>2, <1>3, <1>4, <2>1 DEF IInv, TypeOK, Cell
  <1>6. Thirds'
    BY <1>3, <1>4, Layout DEF IInv, Thirds
  <1>7. Holds("heap")'
    <2>1. At("heap", k)' = p
      BY <1>4, Layout DEF At
    <2>2. \A i \in 0 .. k - 1 : At("heap", i)' = At("heap", i)
      BY <1>4, Layout DEF At
    <2> QED
      BY <1>0, <1>1, <1>3, <2>1, <2>2, OneMore
  <1>8. ASSUME NEW m \in Map PROVE Holds(m)'
    BY <1>2, <1>3, <1>7, ProvidedUntouched, Layout DEF Map
  <1> QED
    BY <1>5, <1>6, <1>8 DEF IInv, HoldsAccepted, Holds

\* The allocated map is made or freed: it is empty either way.
LEMMA HeapStep == ASSUME IInv, kv_init \/ kv_free PROVE IInv'
  <1>1. /\ size \in [Map -> Nat] /\ capacity \in [Map -> Nat] /\ accepted \in [Map -> Seq(Pair)]
        /\ "heap" \in Map /\ DefaultSz \in Nat \ {0}
    BY Layout DEF IInv, TypeOK, Thirds
  <1>2. static_kv_pairs' = static_kv_pairs /\ size' = [size EXCEPT !["heap"] = 0]
    BY DEF kv_init, kv_free
  <1>3. accepted' \in [Map -> Seq(Pair)] /\ accepted'["heap"] = <<>>
        /\ \A m \in Map \ {"heap"} : accepted'[m] = accepted[m]
    <2>1. CASE kv_init
      <3>1. capacity["heap"] = 0 /\ accepted' = accepted
        BY <2>1 DEF kv_init
      <3>2. accepted["heap"] \in Seq(Pair) /\ Len(accepted["heap"]) = 0
        BY <1>1, <3>1, OfMap
      <3> QED
        BY <1>1, <3>1, <3>2
    <2>2. CASE kv_free
      BY <1>1, <2>2 DEF kv_free
    <2> QED
      BY <2>1, <2>2
  <1>4. /\ size' \in [Map -> Nat] /\ size'["heap"] = 0
        /\ \A m \in Map \ {"heap"} : size'[m] = size[m]
    BY <1>1, <1>2
  <1>5. /\ capacity' \in [Map -> Nat] /\ \A m \in Map \ {"heap"} : capacity'[m] = capacity[m]
        /\ pairs' \in Seq(Cell) /\ Len(pairs') = capacity'["heap"]
    <2>1. CASE kv_init
      <3>1. /\ capacity' = [capacity EXCEPT !["heap"] = DefaultSz]
            /\ pairs' = [i \in 1..DefaultSz |-> Garbage] /\ Garbage \in Cell
        BY <2>1 DEF kv_init, Cell
      <3> QED
        BY <1>1, <3>1
    <2>2. CASE kv_free
      BY <1>1, <2>2 DEF kv_free
    <2> QED
      BY <2>1, <2>2
  <1>6. TypeOK'
    <2>1. \A m \in Map : size'[m] <= capacity'[m]
      <3>1. capacity'["heap"] \in Nat
        BY <1>1, <1>5
      <3>2. \A m \in Map \ {"heap"} : size[m] <= capacity[m]
        BY OfMap
      <3> QED
        BY <1>4, <1>5, <3>1, <3>2
    <2> QED
      BY <1>2, <1>4, <1>5, <2>1 DEF IInv, TypeOK, Cell
  <1>7. Thirds'
    BY <1>3, <1>5, Layout DEF IInv, Thirds
  <1>8. ASSUME NEW m \in Map PROVE Holds(m)'
    BY <1>1, <1>2, <1>3, <1>4, Emptied, ProvidedUntouched, Layout DEF Map
  <1> QED
    BY <1>6, <1>7, <1>8 DEF IInv, HoldsAccepted, Holds

\* One map is cleared.
LEMMA ResetStep == ASSUME IInv, NEW m \in Map, kv_reset(m) PROVE IInv'
  <1>1. /\ size \in [Map -> Nat] /\ accepted \in [Map -> Seq(Pair)]
        /\ static_kv_pairs \in [0 .. 3 * Sz - 1 -> Pair \cup {Zero}] /\ pairs \in Seq(Cell)
    BY DEF IInv, TypeOK, Thirds, Cell
  <1>2. /\ size' \in [Map -> Nat] /\ size'[m] = 0 /\ capacity' = capacity
        /\ accepted' \in [Map -> Seq(Pair)] /\ accepted'[m] = <<>>
        /\ \A n \in Map \ {m} : size'[n] = size[n] /\ accepted'[n] = accepted[n]
    BY <1>1 DEF kv_reset
  <1>3. /\ static_kv_pairs' \in [0 .. 3 * Sz - 1 -> Pair \cup {Zero}]
        /\ pairs' \in Seq(Cell) /\ Len(pairs') = Len(pairs)
    <2>1. CASE m \in Provided
      BY <1>1, <2>1 DEF kv_reset
    <2>2. CASE m \notin Provided
      <3>1. /\ pairs' = [i \in 1 .. Len(pairs) |-> IF i <= size[m] THEN Zero ELSE pairs[i]]
            /\ static_kv_pairs' = static_kv_pairs /\ Zero \in Cell
        BY <1>1, <2>2 DEF kv_reset, Cell
      <3> QED
        BY <1>1, <3>1
    <2> QED
      BY <2>1, <2>2
  <1>4. TypeOK'
    <2>1. \A n \in Map : size'[n] <= capacity'[n]
      BY <1>2, OfMap
    <2> QED
      BY <1>2, <1>3, <2>1 DEF IInv, TypeOK, Cell
  <1>5. Thirds'
    BY <1>2 DEF IInv, Thirds
  <1>6. ASSUME NEW n \in Map \ {m} PROVE Holds(n)'
    <2>1. ASSUME NEW i \in 0 .. size[n] - 1 PROVE At(n, i)' = At(n, i)
      <3>1. CASE n \in Provided /\ m \in Provided
        <4>1. i \in 0 .. Sz - 1 /\ size[m] \in 0..Sz
          <5>1. size[n] \in Nat /\ size[n] <= Sz /\ size[m] \in Nat /\ size[m] <= Sz
            BY <3>1, OfMap
          <5> QED
            BY <5>1, Layout
        <4>2. Base(n) + i \in 0 .. 3 * Sz - 1 /\ Base(n) \in Nat /\ Base(m) \in Nat
          BY <3>1, <4>1, Layout
        <4>3. Base(n) + i \notin Base(m) .. Base(m) + size[m] - 1
          <5> SUFFICES ASSUME Base(n) + i \in Base(m) .. Base(m) + size[m] - 1 PROVE FALSE
            OBVIOUS
          <5>1. PICK j \in 0 .. Sz - 1 : Base(n) + i = Base(m) + j
            <6>1. Base(n) + i - Base(m) \in 0 .. Sz - 1
              BY <4>1, <4>2, Layout
            <6> QED
              BY <4>2, <6>1
          <5> QED
            BY <3>1, <4>1, <5>1, Layout
        <4> QED
          BY <1>1, <3>1, <4>2, <4>3 DEF At, kv_reset
      <3>2. CASE n \in Provided /\ m \notin Provided
        BY <3>2 DEF At, kv_reset
      <3>3. CASE n \notin Provided
        <4>1. m \in Provided
          BY <3>3 DEF Map
        <4> QED
          BY <3>3, <4>1 DEF At, kv_reset
      <3> QED
        BY <3>1, <3>2, <3>3
    <2> QED
      BY <1>2, <2>1, Untouched
  <1>7. Holds(m)'
    BY <1>2, Emptied
  <1> QED
    BY <1>4, <1>5, <1>6, <1>7 DEF IInv, HoldsAccepted, Holds

\* RESET of the handler clears the three maps of the connection.
LEMMA HandlerResetStep == ASSUME IInv, HandlerReset PROVE IInv'
  <1>1. /\ static_kv_pairs \in [0 .. 3 * Sz - 1 -> Pair \cup {Zero}]
        /\ size \in [Map -> Nat] /\ accepted \in [Map -> Seq(Pair)]
    BY DEF IInv, TypeOK, Thirds
  <1>2. /\ size' \in [Map -> Nat] /\ accepted' \in [Map -> Seq(Pair)]
        /\ \A m \in Provided : size'[m] = 0 /\ accepted'[m] = <<>>
        /\ size'["heap"] = size["heap"] /\ accepted'["heap"] = accepted["heap"]
        /\ pairs' = pairs /\ capacity' = capacity
    BY <1>1, Layout DEF HandlerReset, ResetMaps
  <1>3. static_kv_pairs' \in [0 .. 3 * Sz - 1 -> Pair \cup {Zero}]
    BY <1>1 DEF HandlerReset
  <1>4. TypeOK'
    <2>1. \A m \in Map : size'[m] <= capacity'[m]
      BY <1>2, OfMap DEF Map
    <2> QED
      BY <1>2, <1>3, <2>1 DEF IInv, TypeOK
  <1>5. Thirds'
    BY <1>2 DEF IInv, Thirds
  <1>6. ASSUME NEW m \in Map PROVE Holds(m)'
    BY <1>2, Emptied, HeapUntouched DEF Map
  <1> QED
    BY <1>4, <1>5, <1>6 DEF IInv, HoldsAccepted, Holds

\* Every step keeps the invariant.
LEMMA StepInv == IInv /\ [Next]_vars => IInv'
  <1> SUFFICES ASSUME IInv, [Next]_vars PROVE IInv'
    OBVIOUS
  <1>1. CASE kv_init \/ kv_free
    BY <1>1, HeapStep
  <1>2. CASE HandlerReset
    BY <1>2, HandlerResetStep
  <1>3. ASSUME NEW m \in Map, kv_reset(m) PROVE IInv'
    BY <1>3, ResetStep
  <1>4. CASE UNCHANGED vars
    BY <1>4 DEF vars, IInv, TypeOK, Thirds, HoldsAccepted, At
  <1>5. ASSUME NEW m \in Map, NEW p \in Pair, kv_set_key_value(m, p) PROVE IInv'
    BY <1>4, <1>5, SetProvidedStep, SetHeapStep DEF kv_set_key_value, SetRefused
  <1> QED
    BY <1>1, <1>2, <1>3, <1>4, <1>5 DEF Next

\* The invariant holds in every behaviour.
LEMMA Invariance == Spec => []IInv
  BY InitInv, StepInv, PTL DEF Spec
-----------------------------------------------------------------------------
(* Lookup.                                                                 *)

\* A set of numbers that is not empty has a least member.
LEMMA LeastNat ==
    ASSUME NEW T, T \subseteq Nat, T # {}
    PROVE  \E x \in T : \A y \in T : x <= y
  <1> DEFINE R == OpToRel(<, Nat)
  <1>1. IsWellFoundedOn(R, Nat)
    BY NatLessThanWellFounded
  <1>2. \A x, y \in Nat : <<y, x>> \in R <=> y < x
    BY DEF OpToRel
  <1> HIDE DEF R
  <1>3. PICK x \in T : \A y \in T : ~(<<y, x>> \in R)
    BY <1>1, WFMin
  <1>4. \A y \in T : x <= y
    <2> TAKE y \in T
    <2>1. x \in Nat /\ y \in Nat
      OBVIOUS
    <2>2. ~(y < x)
      BY <1>2, <1>3, <2>1
    <2> QED
      BY <2>1, <2>2
  <1> QED
    BY <1>4

\* The scan of kv_find_value stops at the first hit.
LEMMA FirstHitIs ==
    ASSUME NEW hits, hits \subseteq Nat, hits # {}
    PROVE  FirstHit(hits) \in hits /\ \A j \in hits : FirstHit(hits) <= j
  <1>1. \E i \in hits : \A j \in hits : i <= j
    BY LeastNat
  <1> QED
    BY <1>1 DEF FirstHit

\* What the arrays hold and how they are searched give the answer the history
\* of accepted pairs calls for.
LEMMA LookupIsFirst == IInv => FindsFirst
  <1> SUFFICES ASSUME IInv, NEW m \in Map, NEW k \in Key
               PROVE  \/ /\ kv_find_value(m, k) = "NULL"
                         /\ \A i \in 1..Len(accepted[m]) : accepted[m][i].key # k
                      \/ \E i \in 1..Len(accepted[m]) :
                            /\ accepted[m][i].key = k
                            /\ \A j \in 1 .. i - 1 : accepted[m][j].key # k
                            /\ kv_find_value(m, k) = accepted[m][i].value
    BY DEF FindsFirst
  <1> DEFINE hits == {i \in 0 .. size[m] - 1 : At(m, i).key = k}
  <1>1. /\ size[m] \in Nat /\ Len(accepted[m]) = size[m]
        /\ \A i \in 0 .. size[m] - 1 : At(m, i) = accepted[m][i + 1]
    BY OfMap DEF Holds
  <1>2. \A i \in 1 .. size[m] : i - 1 \in 0 .. size[m] - 1 /\ At(m, i - 1) = accepted[m][i]
    BY <1>1
  <1>3. CASE hits = {}
    <2>1. kv_find_value(m, k) = "NULL"
      BY <1>3 DEF kv_find_value
    <2>2. \A i \in 1 .. size[m] : accepted[m][i].key # k
      BY <1>2, <1>3
    <2> QED
      BY <1>1, <2>1, <2>2
  <1>4. CASE hits # {}
    <2> DEFINE f == FirstHit(hits)
    <2>1. f \in hits /\ \A j \in hits : f <= j
      <3>1. hits \subseteq Nat
        BY <1>1
      <3> QED
        BY <1>4, <3>1, FirstHitIs
    <2>2. kv_find_value(m, k) = At(m, f).value
      BY <1>4 DEF kv_find_value
    <2>3. /\ f + 1 \in 1..Len(accepted[m]) /\ accepted[m][f + 1].key = k
          /\ kv_find_value(m, k) = accepted[m][f + 1].value
      <3> HIDE DEF f
      <3> QED
        BY <1>1, <2>1, <2>2
    <2>4. ASSUME NEW j \in 1 .. f + 1 - 1 PROVE accepted[m][j].key # k
      <3> HIDE DEF f
      <3>1. j \in 1 .. size[m] /\ j - 1 < f /\ f \in Nat
        BY <1>1, <2>1
      <3>2. j - 1 \notin hits
        <4>1. \A x \in Nat : x < f => ~(f <= x)
          BY <3>1
        <4> QED
          BY <2>1, <3>1, <4>1
      <3> QED
        BY <1>2, <3>1, <3>2
    <2>5. \A j \in 1 .. f + 1 - 1 : accepted[m][j].key # k
      BY <2>4
    <2> HIDE DEF f
    <2>6. PICK i \in Nat : i = f + 1 /\ f \in Nat
      BY <2>1, <1>1
    <2>7. /\ i \in 1..Len(accepted[m]) /\ accepted[m][i].key = k
          /\ \A j \in 1 .. i - 1 : accepted[m][j].key # k
          /\ kv_find_value(m, k) = accepted[m][i].value
      BY <2>3, <2>5, <2>6
    <2> QED
      BY <2>7
  <1> QED
    BY <1>3, <1>4

-----------------------------------------------------------------------------
(* The theorems.                                                           *)

\* No map is fuller than its array, however kv_set_key_value, kv_reset, kv_free
\* and RESET are mixed.
THEOREM TypeCorrect == Spec => []TypeOK
  <1>1. IInv => TypeOK
    BY DEF IInv
  <1> QED
    BY Invariance, <1>1, PTL

\* The three maps cut out of one array never write into each other, growing the
\* allocated map loses no pair, and RESET leaves nothing of the last request.
THEOREM EveryMapHoldsAccepted == Spec => []HoldsAccepted
  <1>1. IInv => HoldsAccepted
    BY DEF IInv
  <1> QED
    BY Invariance, <1>1, PTL

\* kv_find_value answers with the first pair that was accepted for the key, and
\* with NULL when there is none.
THEOREM LookupFindsFirst == Spec => []FindsFirst
  BY Invariance, LookupIsFirst, PTL
=============================================================================
