------------------------------- MODULE MCTCP -------------------------------
\* The TCP model on small instances.
EXTENDS TCP

FewCalls == [reliable |-> 3]
MCMaxCalls == [reliable |-> 4, lossy |-> 3]
Symmetry == Permutations(Readers)

=============================================================================
