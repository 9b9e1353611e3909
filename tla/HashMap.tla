------------------------------ MODULE HashMap ------------------------------
(***************************************************************************)
(* lib/hashtable.c: a chained hash map in the style of the Linux kernel's  *)
(* hlist, with the hash function hash_64 (the one str_hmap_new installs).  *)
(* A key is the 64-bit value of the pointer passed as key; it is compared, *)
(* and hashed, as a number.  W stands for the word width 64.               *)
(*                                                                         *)
(* A node is named by the key of its element: hmap_insert never stores a   *)
(* key twice, which is one of the things checked.                          *)
(***************************************************************************)
EXTENDS Integers, FiniteSets

CONSTANTS
    W,               \* width of a key in bits (64)
    GOLDEN_RATIO,    \* the odd multiplier GOLDEN_RATIO_64 reduced to W bits
    bits,            \* hashmap->bits
    Key,             \* keys used, W-bit numbers
    Val,
    NULL

ASSUME WidthAssumption ==
    /\ W \in Nat /\ bits \in 1..W
    /\ GOLDEN_RATIO \in 0 .. 2^W - 1 /\ Key \subseteq 0 .. 2^W - 1
    /\ NULL \notin Val

VARIABLES
    first,    \* hl[i].first of every bucket
    next,     \* node.next
    pprev,    \* node.pprev: the address of the pointer that points to the node
    value,    \* ele->value
    alive,    \* elements allocated and not freed
    freed     \* the map itself was freed by hmap_delete

vars == <<first, next, pprev, value, alive, freed>>

None == -1
Bucket == 0 .. 2^bits - 1

\* Seeded fault: the low bits are kept in the place of the high ones and one
\* too many of them.
hash_64_LowBits(key) == (key * GOLDEN_RATIO) % 2^(bits + 1)

\* ((uint64_t)key * GOLDEN_RATIO_64) >> (64 - bits)
hash_64(key) == ((key * GOLDEN_RATIO) % 2^W) \div 2^(W - bits)

Init ==
    /\ first = [b \in Bucket |-> None]
    /\ next = [k \in Key |-> None]
    /\ pprev = [k \in Key |-> <<"none", None>>]
    /\ value = [k \in Key |-> NULL]
    /\ alive = {}
    /\ freed = FALSE

\* The nodes reached from bucket b: the chain as a function of the distance.
Walk(b) ==
    LET node[n \in 0 .. Cardinality(Key)] ==
            IF n = 0 THEN first[b]
            ELSE IF node[n - 1] = None THEN None ELSE next[node[n - 1]]
    IN  node

Chain(b) == {Walk(b)[n] : n \in DOMAIN Walk(b)} \ {None}

\* Seeded fault: only the first element of the chain is compared.
hmap_find_HeadOnly(key) == first[hash_64(key)] = key

\* hmap_find: the element with the key in the key's bucket.
hmap_find(key) == key \in Chain(hash_64(key))

hmap_get(key) == IF hmap_find(key) THEN value[key] ELSE NULL

\* A key that is present keeps its value; malloc may fail.  Both do nothing.
InsertNothing(key, v) ==
    /\ ~freed
    /\ UNCHANGED vars

\* Seeded fault: the old first node's back pointer is not moved.
BackPointers_Stale(key, b) == [pprev EXCEPT ![key] = <<"first", b>>]

\* Back pointers once key is in front of bucket b.
BackPointers(key, b) ==
    [k \in Key |-> IF k = key THEN <<"first", b>>
                  ELSE IF k = first[b] THEN <<"next", key>> ELSE pprev[k]]

InsertElement(key, v) ==
    LET b == hash_64(key) IN
    /\ ~freed
    /\ ~hmap_find(key)
    /\ value' = [value EXCEPT ![key] = v]
    /\ alive' = alive \cup {key}
    /\ next' = [next EXCEPT ![key] = first[b]]
    /\ pprev' = BackPointers(key, b)
    /\ first' = [first EXCEPT ![b] = key]
    /\ UNCHANGED freed

hmap_insert(key, v) == InsertElement(key, v) \/ InsertNothing(key, v)

\* Seeded fault: the last bucket is left out.
DeletedBuckets_OffByOne == Bucket \ {2^bits - 1}

DeletedBuckets == Bucket

\* Every element of every chain, then the map.
hmap_delete ==
    /\ ~freed
    /\ alive' = alive \ UNION {Chain(b) : b \in DeletedBuckets}
    /\ freed' = TRUE
    /\ UNCHANGED <<first, next, pprev, value>>

Deleted == freed /\ UNCHANGED vars

Next == hmap_delete \/ Deleted \/ \E key \in Key, v \in Val : hmap_insert(key, v)

Spec == Init /\ [][Next]_vars

-----------------------------------------------------------------------------

\* In particular every hash is the index of a bucket.
TypeOK ==
    /\ \A key \in Key : hash_64(key) \in Bucket
    /\ first \in [Bucket -> Key \cup {None}]
    /\ next \in [Key -> Key \cup {None}]
    /\ value \in [Key -> Val \cup {NULL}]
    /\ alive \in SUBSET Key
    /\ freed \in BOOLEAN

\* The chains partition the elements by hash, every chain ends, and every
\* back pointer is the address of the one pointer to its node (what makes an
\* hlist node removable in constant time).
WellLinked ==
    ~freed =>
        /\ alive = UNION {Chain(b) : b \in Bucket}
        /\ \A b \in Bucket :
              /\ \A key \in Chain(b) : hash_64(key) = b
              /\ Walk(b)[Cardinality(Key)] = None
              /\ first[b] # None => pprev[first[b]] = <<"first", b>>
        /\ \A key \in alive :
              next[key] # None => next[key] \in alive /\ pprev[next[key]] = <<"next", key>>

\* An entry that can be found stays what it is as long as the map exists: no
\* insertion, of the same key or of another one in its bucket, hides or changes
\* it.
KeepsEntries ==
    [][\A key \in Key : hmap_get(key) # NULL /\ ~freed' => hmap_get(key)' = hmap_get(key)]_vars

\* hmap_delete frees every element.
DeleteFreesAll == freed => alive = {}
=============================================================================
