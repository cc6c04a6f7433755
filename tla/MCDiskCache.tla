----------------------------- MODULE MCDiskCache -----------------------------
EXTENDS DiskCache

\* No step depends on the answer of the one before, nor on the bytes of an
\* entry that has no data.
Visible(e) == IF cache.has_data[e] THEN cache.data[e] ELSE Fresh

View ==
    << disk, damaged, [cache EXCEPT !.data = [e \in Entries |-> Visible(e)]] >>

Symmetry == Permutations(Blocks) \cup Permutations(Entries)
              \cup Permutations(Cells) \cup Permutations(Values)
=============================================================================
