------------------------------ MODULE BlockStore ------------------------------
(***************************************************************************)
(* What Kernel/FileSystem/BlockBasedFileSystem promises the file systems   *)
(* above it: an array of blocks.  A read returns what was written last, a  *)
(* sync makes everything written so far durable, a crash falls back to     *)
(* what is durable, and a block may become durable at any time before.     *)
(* A device error, a torn copy from user memory and a direct (uncached)    *)
(* write to a block the cache holds damage that one block until it is      *)
(* next written in full; a direct read may return what is on the medium.   *)
(***************************************************************************)
CONSTANTS Blocks,   \* the block numbers
          Cells,    \* the parts of a block a write can address
          Values,   \* what a cell holds
          Unknown   \* the content of a damaged block

VARIABLES store,    \* what a read of the block returns
          durable,  \* what it would return after a crash
          reply     \* the answer of the last call

vars == <<store, durable, reply>>

Data == [Cells -> Values]

Merge(old, cs, v) == [c \in Cells |-> IF c \in cs THEN v ELSE old[c]]

Init ==
    /\ store \in [Blocks -> Data]
    /\ durable = store
    /\ reply = [kind |-> "none"]

\* What may happen to a block while a call is about others: nothing, it
\* becomes durable, or an error damages it.
Untouched(b) ==
    \/ store'[b] = store[b] /\ durable'[b] \in {durable[b], store[b]}
    \/ store'[b] = Unknown /\ durable'[b] = Unknown

Read(b, d) ==
    /\ reply' = [kind |-> "read", block |-> b, data |-> d]
    /\ \A x \in Blocks : Untouched(x)
    /\ store'[b] \in {d, Unknown}

DirectRead(b, d) ==
    /\ reply' = [kind |-> "direct", block |-> b, data |-> d]
    /\ \A x \in Blocks : Untouched(x)
    /\ {d, Unknown} \cap {store'[b], durable'[b]} # {}

Write(b, cs, v) ==
    /\ reply' = [kind |-> "written", block |-> b, cells |-> cs, value |-> v]
    /\ \A x \in Blocks \ {b} : Untouched(x)
    /\ \/ store'[b] = [c \in Cells |-> v] /\ cs = Cells
       \/ store[b] # Unknown /\ store'[b] = Merge(store[b], cs, v)
       \/ Unknown \in {store[b], durable'[b]} /\ store'[b] = Unknown
    /\ durable'[b] \in {durable[b], store[b], store'[b]} \/ durable[b] = Unknown

\* A direct write to a block somebody keeps a copy of.
DirectWrite(b, cs, v) ==
    /\ reply' = [kind |-> "written", block |-> b, cells |-> cs, value |-> v]
    /\ \A x \in Blocks \ {b} : Untouched(x)
    /\ store'[b] = Unknown /\ durable'[b] = Unknown

Fail ==
    /\ reply' = [kind |-> "error"]
    /\ \A x \in Blocks : Untouched(x)

Sync ==
    /\ reply' = [kind |-> "synced"]
    /\ \A x \in Blocks : store'[x] \in {store[x], Unknown} /\ durable'[x] = store'[x]

Crash ==
    /\ reply' = [kind |-> "none"]
    /\ durable' = store'
    /\ \A b \in Blocks : durable[b] \in {store'[b], Unknown}

Next ==
    \/ \E b \in Blocks, d \in Data :
          \/ Read(b, d)
          \/ DirectRead(b, d)
    \/ \E b \in Blocks, cs \in SUBSET Cells, v \in Values :
          \/ Write(b, cs, v)
          \/ DirectWrite(b, cs, v)
    \/ Fail
    \/ Sync
    \/ Crash

Spec == Init /\ [][Next]_vars
=============================================================================
