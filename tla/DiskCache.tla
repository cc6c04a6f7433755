------------------------------ MODULE DiskCache ------------------------------
(***************************************************************************)
(* Kernel/FileSystem/BlockBasedFileSystem.cpp: the write-back block cache  *)
(* below Ext2FS.  Every operation runs under the file system's m_lock, so  *)
(* each is one action; what a model checker adds is the long sequences:    *)
(* evictions, the two lists, flushes from inside a lookup, device errors,  *)
(* torn copies, uncached access, crashes.                                  *)
(***************************************************************************)
EXTENDS Naturals, Sequences, FiniteSets, SequencesExt

CONSTANTS Blocks,      \* block numbers in use
          Entries,     \* the CacheEntry objects
          Cells,       \* the parts of a block a write can address
          Values,      \* what a cell holds
          Fresh,       \* what a cell of a never filled entry holds
          BlockZero,   \* block number 0, the block_index of a new entry
          NoEntry,     \* a block number m_hash has no entry for
          Unknown,     \* the content of a block that was damaged
          MaxDamaged   \* bound: blocks that are damaged at a time

\* What a block holds.
Data == [Cells -> Values]

ASSUME CacheAssumptions ==
    /\ IsFiniteSet(Entries) /\ Entries # {}
    /\ NoEntry \notin Entries
    /\ Unknown \notin Data

VARIABLES
    disk,     \* the device below
    cache,    \* DiskCache
    damaged,  \* history: blocks hit by an error or an incoherent direct write
    reply     \* what the last call answered

vars == <<disk, cache, damaged, reply>>

\* CacheEntry's fields are functions of the entry; an entry's initial
\* block_index is 0, which m_hash does not know of.
NewCache(order) ==
    [ block_index |-> [e \in Entries |-> BlockZero],
      data        |-> [e \in Entries |-> [c \in Cells |-> Fresh]],
      has_data    |-> [e \in Entries |-> FALSE],
      m_clean_list |-> order,
      m_dirty_list |-> <<>>,
      m_hash      |-> [b \in Blocks |-> NoEntry],
      m_dirty     |-> FALSE ]

\* The constructor appends the entries of an array: one of these.
Orders == SetToSeqs(Entries)

Init ==
    \E d \in Data :
        /\ disk = [b \in Blocks |-> d]
        /\ cache \in {NewCache(order) : order \in Orders}
        /\ damaged = {}
        /\ reply = [kind |-> "none"]

----------------------------------------------------------------------------
(* DiskCache *)

\* The elements of s that are in T, in their order.
Filter(s, T) ==
    LET f[n \in 0..Len(s)] ==
            IF n = 0 THEN <<>>
            ELSE IF s[n] \in T THEN Append(f[n - 1], s[n]) ELSE f[n - 1]
    IN  f[Len(s)]

\* An intrusive list holds an entry once.
Prepend(list, e) == <<e>> \o RemoveFirst(list, e)

\* mark_dirty: prepending to an intrusive list takes the entry off the other.
MarkDirty(c, e) ==
    [c EXCEPT !.m_dirty_list = Prepend(@, e),
              !.m_clean_list = RemoveFirst(@, e),
              !.m_dirty = TRUE]

\* mark_clean for the entries of a sequence, in order.
MarkClean(c, es) ==
    [c EXCEPT !.m_clean_list = Reverse(es) \o @,
              !.m_dirty_list = Filter(@, Entries \ ToSet(es))]

MarkAllClean(c) == [MarkClean(c, c.m_dirty_list) EXCEPT !.m_dirty = FALSE]

\* What the device holds once the entries es are written back in order, of
\* which the writes of bad fail.
Written(c, d, es, bad) ==
    [b \in Blocks |->
        LET hits == {i \in DOMAIN es : c.block_index[es[i]] = b /\ es[i] \notin bad}
        IN  IF hits = {} THEN d[b] ELSE c.data[es[Max(hits)]]]

\* Mutant: the block that is evicted stays in m_hash.
Claim_KeepHash(c, b) ==
    LET e == Last(c.m_clean_list)
    IN  [c EXCEPT !.m_clean_list = Prepend(@, e),
                  !.m_hash = [@ EXCEPT ![b] = e],
                  !.block_index = [@ EXCEPT ![e] = b],
                  !.has_data = [@ EXCEPT ![e] = FALSE]]

\* The state get() leaves when it takes the last clean entry for b.
Claim(c, b) ==
    LET e == Last(c.m_clean_list)
    IN  [c EXCEPT !.m_clean_list = Prepend(@, e),
                  !.m_hash = [x \in Blocks |->
                                 IF x = b THEN e
                                 ELSE IF x = c.block_index[e] THEN NoEntry ELSE @[x]],
                  !.block_index = [@ EXCEPT ![e] = b],
                  !.has_data = [@ EXCEPT ![e] = FALSE]]

\* get() has to write everything back first.
MustFlush(b) == cache.m_hash[b] = NoEntry /\ cache.m_clean_list = <<>>

\* Writes that the device may refuse while es are written back.
MayFail(es) == SUBSET ToSet(es)

\* Mutant: entries are marked clean without being written.
GetFlushes_None(b) == <<>>

\* What get(b) writes back.
GetFlushes(b) == IF MustFlush(b) THEN cache.m_dirty_list ELSE <<>>

\* get(b), with the flush it may need: the cache and the device after it.
GetCache(b) ==
    LET c == IF MustFlush(b) THEN MarkAllClean(cache) ELSE cache
    IN  IF c.m_hash[b] # NoEntry THEN c ELSE Claim(c, b)

GetDisk(b, bad) == Written(cache, disk, GetFlushes(b), bad)

Damages(bad) == {cache.block_index[e] : e \in bad}

DamagedBy(hit, healed) ==
    /\ damaged' = (damaged \cup hit) \ healed
    /\ Cardinality(damaged') <= MaxDamaged

----------------------------------------------------------------------------
(* read_block and write_block through the cache *)

\* The entry holds the block: what read_block does to it on a miss.
Fill(c, e, d) ==
    IF c.has_data[e] THEN c
    ELSE [c EXCEPT !.data = [@ EXCEPT ![e] = d], !.has_data = [@ EXCEPT ![e] = TRUE]]

ReadBlock(b) ==
    \E bad \in MayFail(GetFlushes(b)) :
        LET c == GetCache(b)
            e == c.m_hash[b]
            d == GetDisk(b, bad)
            filled == Fill(c, e, d[b])
        IN  /\ disk' = d
            /\ DamagedBy(Damages(bad), {})
            /\ \/ /\ cache' = filled
                  /\ reply' = [kind |-> "read", block |-> b, data |-> filled.data[e]]
               \/ /\ cache' \in {c, filled}   \* the device or the user buffer failed
                  /\ reply' = [kind |-> "error"]

\* A write puts one value into the cells it covers.
Merge(old, cs, v) == [x \in Cells |-> IF x \in cs THEN v ELSE old[x]]

WroteReply(b, cs, v) == [kind |-> "written", block |-> b, cells |-> cs, value |-> v]

PutEntry(c, e, d) ==
    [MarkDirty(c, e) EXCEPT !.data = [@ EXCEPT ![e] = d],
                            !.has_data = [@ EXCEPT ![e] = TRUE]]

\* The bytes of an entry, and no more.
Overwrite(c, e, d) == [c EXCEPT !.data = [@ EXCEPT ![e] = d]]

\* cs is the part of the block that [offset, offset + count) covers.
WriteBlock(b, cs, new) ==
    \E bad \in MayFail(GetFlushes(b)) :
        LET c == GetCache(b)
            e == c.m_hash[b]
            d == GetDisk(b, bad)
            ready == IF cs = Cells THEN c ELSE Fill(c, e, d[b])
        IN  /\ disk' = d
            /\ \/ /\ cache' = PutEntry(ready, e, Merge(ready.data[e], cs, new))
                  /\ DamagedBy(Damages(bad), IF cs = Cells THEN {b} ELSE {})
                  /\ reply' = WroteReply(b, cs, new)
               \/ /\ cache' = c               \* the fill failed
                  /\ cs # Cells /\ ~c.has_data[e]
                  /\ DamagedBy(Damages(bad), {})
                  /\ reply' = [kind |-> "error"]
               \/ \E torn \in SUBSET cs :     \* EFAULT part of the way
                     /\ torn # cs
                     /\ cache' = Overwrite(ready, e, Merge(ready.data[e], torn, new))
                     /\ LET spoils == torn # {} /\ ready.has_data[e]
                        IN  DamagedBy(Damages(bad) \cup (IF spoils THEN {b} ELSE {}), {})
                     /\ reply' = [kind |-> "error"]

----------------------------------------------------------------------------
(* Uncached access: allow_cache = false, and the raw_ calls *)

\* flush_specific_block_if_needed: the entries it writes back and marks clean.
\* (The comparison is the code's: every dirty block but this one.)
Cleaned(b) ==
    LET others == {e \in Entries : cache.block_index[e] # b}
    IN  IF cache.m_dirty THEN Filter(cache.m_dirty_list, others) ELSE <<>>

DirectRead(b) ==
    \E bad \in MayFail(Cleaned(b)) :
        LET es == Cleaned(b)
            d == Written(cache, disk, es, bad)
        IN  /\ disk' = d
            /\ cache' = MarkClean(cache, es)
            /\ DamagedBy(Damages(bad), {})
            /\ \/ reply' = [kind |-> "direct", block |-> b, data |-> d[b]]
               \/ reply' = [kind |-> "error"]

DirectWrite(b, cs, new) ==
    \E bad \in MayFail(Cleaned(b)) :
        LET es == Cleaned(b)
            d == Written(cache, disk, es, bad)
        IN  /\ cache' = MarkClean(cache, es)
            /\ \/ /\ disk' = [d EXCEPT ![b] = Merge(@, cs, new)]
                  /\ IF cache.m_hash[b] # NoEntry THEN DamagedBy(Damages(bad) \cup {b}, {})
                     ELSE DamagedBy(Damages(bad), IF cs = Cells THEN {b} ELSE {})
                  /\ reply' = WroteReply(b, cs, new)
               \/ /\ disk' = d
                  /\ DamagedBy(Damages(bad), {})
                  /\ reply' = [kind |-> "error"]

RawRead(b) ==
    /\ reply' = [kind |-> "direct", block |-> b, data |-> disk[b]]
    /\ UNCHANGED <<disk, cache, damaged>>

RawWrite(b, new) ==
    /\ disk' = [disk EXCEPT ![b] = Merge(@, Cells, new)]
    /\ IF cache.m_hash[b] # NoEntry THEN DamagedBy({b}, {}) ELSE DamagedBy({}, {b})
    /\ reply' = WroteReply(b, Cells, new)
    /\ UNCHANGED cache

----------------------------------------------------------------------------
(* flush_writes, and the machine going down *)

FlushWrites ==
    LET es == IF cache.m_dirty THEN cache.m_dirty_list ELSE <<>>
    IN  \E bad \in MayFail(es) :
        /\ disk' = Written(cache, disk, es, bad)
        /\ cache' = IF cache.m_dirty THEN MarkAllClean(cache) ELSE cache
        /\ DamagedBy(Damages(bad), {})
        /\ reply' = [kind |-> "synced"]

Crash ==
    /\ cache' \in {NewCache(order) : order \in Orders}
    /\ damaged' = {}
    /\ reply' = [kind |-> "none"]
    /\ UNCHANGED disk

Parts == {cs \in SUBSET Cells : cs # {}}

Next ==
    \/ \E b \in Blocks : ReadBlock(b)
    \/ \E b \in Blocks, cs \in Parts, v \in Values : WriteBlock(b, cs, v)
    \/ \E b \in Blocks : DirectRead(b)
    \/ \E b \in Blocks, cs \in Parts, v \in Values : DirectWrite(b, cs, v)
    \/ \E b \in Blocks : RawRead(b)
    \/ \E b \in Blocks, v \in Values : RawWrite(b, v)
    \/ FlushWrites
    \/ Crash

Spec == Init /\ [][Next]_vars

----------------------------------------------------------------------------
(* Properties *)

TypeOK ==
    /\ disk \in [Blocks -> Data]
    /\ damaged \subseteq Blocks
    /\ cache.block_index \in [Entries -> Blocks \cup {BlockZero}]
    /\ cache.data \in [Entries -> [Cells -> Values \cup {Fresh}]]
    /\ cache.has_data \in [Entries -> BOOLEAN]
    /\ cache.m_hash \in [Blocks -> Entries \cup {NoEntry}]
    /\ cache.m_dirty \in BOOLEAN

\* The two lists and m_hash describe the same entries: every entry is on
\* exactly one list once, m_hash finds the entry of a block under the number
\* the entry carries (the VERIFY in get()), and an entry that carries a block
\* is the one m_hash finds, so a block never has two copies in the cache.
\* An entry on the dirty list has data to write back, and as long as there is
\* one m_dirty is set: otherwise flush_writes_impl returns at once, nothing is
\* ever written back, and get() calls itself for ever when no entry is clean.
EntriesAgree ==
    LET all == cache.m_clean_list \o cache.m_dirty_list
    IN  /\ TypeOK
        /\ ToSet(all) = Entries /\ IsInjective(all)
        /\ \A b \in Blocks :
              cache.m_hash[b] # NoEntry => cache.block_index[cache.m_hash[b]] = b
        /\ \A e \in Entries :
              cache.block_index[e] # BlockZero => cache.m_hash[cache.block_index[e]] = e
        /\ \A e \in ToSet(cache.m_dirty_list) :
              cache.m_dirty /\ cache.has_data[e] /\ cache.block_index[e] # BlockZero

\* What a cached read of b returns.
Content(b) ==
    LET e == cache.m_hash[b]
    IN  IF e = NoEntry THEN disk[b]
        ELSE IF cache.has_data[e] THEN cache.data[e] ELSE disk[b]

Abstract ==
    INSTANCE BlockStore WITH
        store   <- [b \in Blocks |-> IF b \in damaged THEN Unknown ELSE Content(b)],
        durable <- [b \in Blocks |-> IF b \in damaged THEN Unknown ELSE disk[b]]

\* The cache is invisible: reads return what was written last, whatever was
\* evicted or written back in between, a sync makes it durable, a crash loses
\* only what was not durable, and an error or an incoherent direct write to
\* one block never touches the content of another.
ImplementsBlockStore == Abstract!Spec
=============================================================================
