-------------------------- MODULE MCThreadBlocking --------------------------
EXTENDS ThreadBlocking, TLC

\* The threads of the process are interchangeable.
Symmetry == Permutations(Threads)
=============================================================================
