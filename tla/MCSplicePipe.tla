---------------------------- MODULE MCSplicePipe ----------------------------
EXTENDS SplicePipe, TLC

\* A dynamic answer, a file that fits twice, one that fills the pipe, and one
\* that is larger than it.
MCFileSz == [f \in File |-> CASE f = "dynamic" -> 0 [] f = "fib" -> 1 [] f = "pic" -> 2
                              [] f = "film" -> 3]
ConnSymmetry == Permutations(Conn)
=============================================================================
