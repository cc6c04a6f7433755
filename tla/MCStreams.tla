------------------------------ MODULE MCStreams ------------------------------
\* The streams model on small instances.
EXTENDS Streams, TLC

Symmetry == Permutations(B)

\* What the run's properties, and the steps, depend on: once a bad pointer was met
\* the bytes themselves are of no interest, only how many there are; the
\* histories of the refuted statements never are.
View ==
    LET Some(s) == IF faults = 0 THEN s ELSE Len(s)
    IN  <<kind, pc, has, nonblocking, m_lock, openq, local, direct, early, panicked, counters,
          [e \in Ends |-> <<Some(buf[e].w), Some(buf[e].r)>>],
          [t \in Threads |-> Some(left[t])],
          IF faults = 0 THEN <<written, taken>> ELSE <<>> >>

=============================================================================
