---------------------------- MODULE MCEventLoop ----------------------------
(* Model values for the descriptors.  The loop treats all of them alike:   *)
(* the safety runs may identify states that differ by a permutation.       *)
EXTENDS EventLoop, TLC

FdSymmetry == Permutations(Fd)
=============================================================================
