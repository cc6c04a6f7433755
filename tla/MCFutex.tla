------------------------------- MODULE MCFutex -------------------------------
EXTENDS Futex, TLC

\* Threads are interchangeable.
Symmetry == Permutations(Threads)
=============================================================================
