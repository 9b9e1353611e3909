------------------------------- MODULE MCKv -------------------------------
EXTENDS Kv, TLC

\* Keys are only compared with each other and values are only copied.
KvSymmetry == Permutations(Key) \cup Permutations(Val)
=============================================================================
