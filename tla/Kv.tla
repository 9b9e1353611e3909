--------------------------------- MODULE Kv ---------------------------------
(***************************************************************************)
(* lib/kv.c: an array of key-value pairs, appended to and searched from    *)
(* the front.  A map either lies in a buffer its user provides and never   *)
(* grows, or is allocated and doubles when it is full.  The HTTP handler   *)
(* (lib/io_loop.c) cuts one array static_kv_pairs into the three maps of a *)
(* connection, and RESET empties them; the model has these three and one   *)
(* allocated map.                                                          *)
(***************************************************************************)
EXTENDS Integers, Sequences

CONSTANTS
    Key, Val,
    Sz,           \* pairs of every map in static_kv_pairs (20 in the code)
    DefaultSz,    \* DEFAULT_KV_SZ (20 in the code)
    MaxCapacity   \* bound on the growth of the allocated map

ASSUME SzAssumption == Sz \in Nat \ {0} /\ DefaultSz \in Nat \ {0} /\ MaxCapacity \in Nat

Provided == {"req_headers", "req_query", "res_headers"}
Map == Provided \cup {"heap"}
Pair == [key : Key, value : Val]
Zero == [key |-> "NULL", value |-> "NULL"]
Garbage == [key |-> "?", value |-> "?"]   \* what malloc leaves in a cell

VARIABLES
    static_kv_pairs,  \* the array behind the provided maps
    pairs,            \* the allocated array
    size,             \* kv->size
    capacity,         \* kv->capacity; 0 while the allocated map is NULL
    accepted          \* history: what kv_set_key_value took since the last clear

vars == <<static_kv_pairs, pairs, size, capacity, accepted>>

\* &static_kv_pairs[0], [20] and [40].
Base(m) == CASE m = "req_headers" -> 0 [] m = "req_query" -> Sz [] m = "res_headers" -> 2 * Sz

\* static_kv_pairs lies on the coroutine's stack, which co_new has cleared.
Init ==
    /\ static_kv_pairs = [i \in 0 .. 3 * Sz - 1 |-> Zero]
    /\ pairs = <<>>
    /\ size = [m \in Map |-> 0]
    /\ capacity = [m \in Map |-> IF m \in Provided THEN Sz ELSE 0]
    /\ accepted = [m \in Map |-> <<>>]

\* kv->pairs[i], i counted from 0.
At(m, i) == IF m \in Provided THEN static_kv_pairs[Base(m) + i] ELSE pairs[i + 1]

-----------------------------------------------------------------------------

kv_init ==
    /\ capacity["heap"] = 0
    /\ capacity' = [capacity EXCEPT !["heap"] = DefaultSz]
    /\ pairs' = [i \in 1..DefaultSz |-> Garbage]
    /\ size' = [size EXCEPT !["heap"] = 0]
    /\ UNCHANGED <<static_kv_pairs, accepted>>

\* kvmap->pairs[kvmap->size++] = ... in an array a with room for it.
Store(m, p) ==
    /\ size' = [size EXCEPT ![m] = @ + 1]
    /\ accepted' = [accepted EXCEPT ![m] = Append(@, p)]

\* Seeded fault: a full provided map is not refused.
HasRoom_Unchecked(m) == Base(m) + size[m] \in DOMAIN static_kv_pairs

HasRoom(m) == size[m] < capacity[m]

SetProvided(m, p) ==
    /\ m \in Provided
    /\ HasRoom(m)
    /\ static_kv_pairs' = [static_kv_pairs EXCEPT ![Base(m) + size[m]] = p]
    /\ Store(m, p)
    /\ UNCHANGED <<pairs, capacity>>

\* A full provided map takes nothing more: the pair is dropped.
SetRefused(m) ==
    /\ m \in Provided
    /\ size[m] = capacity[m]
    /\ UNCHANGED vars

SetAllocated(p) ==
    /\ size["heap"] < capacity["heap"]
    /\ pairs' = [pairs EXCEPT ![size["heap"] + 1] = p]
    /\ Store("heap", p)
    /\ UNCHANGED <<static_kv_pairs, capacity>>

\* The allocated map is full: realloc to twice the capacity keeps the old
\* pairs.  When it fails, or there is no map, kv_set_key_value returns 0.
SetGrows(p) ==
    /\ capacity["heap"] > 0
    /\ size["heap"] = capacity["heap"]
    /\ 2 * capacity["heap"] <= MaxCapacity
    /\ capacity' = [capacity EXCEPT !["heap"] = 2 * @]
    /\ pairs' = [i \in 1 .. 2 * capacity["heap"] |->
                    IF i <= capacity["heap"] THEN pairs[i]
                    ELSE IF i = size["heap"] + 1 THEN p ELSE Garbage]
    /\ Store("heap", p)
    /\ UNCHANGED static_kv_pairs

kv_set_key_value(m, p) ==
    \/ SetProvided(m, p)
    \/ SetRefused(m)
    \/ m = "heap" /\ SetAllocated(p)
    \/ m = "heap" /\ SetGrows(p)

\* memset of the used part, size = 0.
kv_reset(m) ==
    /\ size' = [size EXCEPT ![m] = 0]
    /\ IF m \in Provided
       THEN /\ static_kv_pairs' = [i \in DOMAIN static_kv_pairs |->
                  IF i \in Base(m) .. Base(m) + size[m] - 1 THEN Zero ELSE static_kv_pairs[i]]
            /\ UNCHANGED pairs
       ELSE /\ pairs' = [i \in DOMAIN pairs |-> IF i <= size[m] THEN Zero ELSE pairs[i]]
            /\ UNCHANGED static_kv_pairs
    /\ accepted' = [accepted EXCEPT ![m] = <<>>]
    /\ UNCHANGED capacity

\* Only an allocated map is freed.
kv_free ==
    /\ capacity["heap"] > 0
    /\ capacity' = [capacity EXCEPT !["heap"] = 0]
    /\ pairs' = <<>>
    /\ size' = [size EXCEPT !["heap"] = 0]
    /\ accepted' = [accepted EXCEPT !["heap"] = <<>>]
    /\ UNCHANGED static_kv_pairs

\* Seeded fault: RESET forgets the headers of the response.
ResetMaps_KeepsResponse == {"req_headers", "req_query"}

ResetMaps == Provided

\* The RESET label of the handler: all sizes, then the whole array.
HandlerReset ==
    /\ size' = [m \in Map |-> IF m \in ResetMaps THEN 0 ELSE size[m]]
    /\ static_kv_pairs' = [i \in DOMAIN static_kv_pairs |-> Zero]
    /\ accepted' = [m \in Map |-> IF m \in Provided THEN <<>> ELSE accepted[m]]
    /\ UNCHANGED <<pairs, capacity>>

Next ==
    \/ kv_init \/ kv_free \/ HandlerReset
    \/ \E m \in Map : kv_reset(m) \/ \E p \in Pair : kv_set_key_value(m, p)

Spec == Init /\ [][Next]_vars

-----------------------------------------------------------------------------

\* Seeded fault: the last match wins.
FirstHit_Last(hits) == CHOOSE i \in hits : \A j \in hits : j <= i

FirstHit(hits) == CHOOSE i \in hits : \A j \in hits : i <= j

\* The scan from the front; NULL when nothing matches.
kv_find_value(m, key) ==
    LET hits == {i \in 0 .. size[m] - 1 : At(m, i).key = key}
    IN  IF hits = {} THEN "NULL"
        ELSE At(m, FirstHit(hits)).value

\* No map is fuller than its array, and the array of the allocated map has the
\* capacity the map believes in.
TypeOK ==
    /\ static_kv_pairs \in [0 .. 3 * Sz - 1 -> Pair \cup {Zero}]
    /\ pairs \in Seq(Pair \cup {Zero, Garbage})
    /\ size \in [Map -> Nat]
    /\ capacity \in [Map -> Nat]
    /\ \A m \in Map : size[m] <= capacity[m]
    /\ Len(pairs) = capacity["heap"]

\* Every map holds exactly the pairs it accepted since it was last cleared, in
\* order: no map writes into the part of the array that belongs to another,
\* growth loses nothing, and RESET leaves nothing of an earlier request.
HoldsAccepted ==
    \A m \in Map :
        /\ size[m] = Len(accepted[m])
        /\ \A i \in 0 .. size[m] - 1 : At(m, i) = accepted[m][i + 1]

\* A lookup answers with the first pair accepted for the key; a key that no
\* accepted pair has is not found.
FindsFirst ==
    \A m \in Map, k \in Key :
        LET Has(i) == accepted[m][i].key = k
        IN  \/ /\ kv_find_value(m, k) = "NULL"
               /\ \A i \in 1..Len(accepted[m]) : ~Has(i)
            \/ \E i \in 1..Len(accepted[m]) :
                  /\ Has(i) /\ \A j \in 1 .. i - 1 : ~Has(j)
                  /\ kv_find_value(m, k) = accepted[m][i].value
=============================================================================
