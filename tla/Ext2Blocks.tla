----------------------------- MODULE Ext2Blocks -----------------------------
(***************************************************************************)
(* Kernel/FileSystem/Ext2FileSystem.cpp: which blocks a file has.  The     *)
(* block bitmap, allocate_blocks, and the tree of direct, indirect,        *)
(* doubly and triply indirect blocks that resize() grows and shrinks in    *)
(* place and compute_block_list() reads back.  All of it runs under the    *)
(* locks of the inode and of the file system, one call at a time; the      *)
(* hazard is in long sequences of grows and shrinks that move every        *)
(* boundary of the tree, with two files competing for the last blocks.     *)
(* Sizes are counted in blocks.                                            *)
(***************************************************************************)
EXTENDS Naturals, Sequences, SequencesExt, FiniteSets, FiniteSetsExt

CONSTANTS Inodes,         \* the files
          GroupOf,        \* group_index_from_inode
          GroupCount,     \* m_block_group_count
          BlocksPerGroup, \* EXT2_BLOCKS_PER_GROUP
          NDirect,        \* EXT2_NDIR_BLOCKS
          PerBlock,       \* EXT2_ADDR_PER_BLOCK
          Sizes,          \* the sizes resize() is asked for
          MaxCalls        \* bound: calls of resize() and free_inode()

VARIABLES
    used,      \* the set bits of the block bitmaps
    contents,  \* of a block that holds block numbers: what was written to it
    inode,     \* the raw inode and the cached m_block_list of each file
    panicked,  \* <<>>, or the call resize(file, size) whose VERIFY failed
    leaked,    \* history: the blocks that cutting a file to nothing left marked
    calls      \* the calls so far

vars == <<used, contents, inode, panicked, leaked, calls>>

AllBlocks == 1..(GroupCount * BlocksPerGroup)
PerDoubly == PerBlock * PerBlock
PerTriply == PerDoubly * PerBlock

NoBlock == 0
NoBlocks(n) == [i \in 1..n |-> NoBlock]
NoInode == [ size |-> 0, i_blocks |-> 0, direct |-> NoBlocks(NDirect),
             ind |-> NoBlock, dind |-> NoBlock, tind |-> NoBlock, list |-> <<>> ]

Init ==
    /\ used = {}
    /\ contents = [b \in AllBlocks |-> NoBlocks(PerBlock)]
    /\ inode = [f \in Inodes |-> NoInode]
    /\ panicked = <<>>
    /\ leaked = {}
    /\ calls = 0

MinOf(a, b) == IF a < b THEN a ELSE b
RoundedUp(a, b) == (a + b - 1) \div b

\* Elements from + 1 .. from + n of a list, as far as it goes.
Slice(list, from, n) == SubSeq(list, from + 1, MinOf(from + n, Len(list)))

----------------------------------------------------------------------------
(* The bitmaps *)

BlocksOfGroup(g) == ((g - 1) * BlocksPerGroup + 1)..(g * BlocksPerGroup)

\* Mutant: the search starts again at group 1 and does not see what it took.
AllocateBlocks_Again(u, preferred, count) ==
    LET inPreferred(b) == b \in BlocksOfGroup(preferred)
        free == SelectSeq([b \in AllBlocks |-> b], LAMBDA b : b \notin u)
    IN  Slice(SelectSeq(free, inPreferred) \o free, 0, count)

\* allocate_blocks: what the preferred group has, then what the others have
\* from group 1 on.  Which of its free blocks a group gives (the longest run
\* of find_longest_range_of_unset_bits first) matters to nobody; the model
\* takes the lowest.  The result is too short when VERIFY(found_a_group)
\* fails.
AllocateBlocks(u, preferred, count) ==
    LET inPreferred(b) == b \in BlocksOfGroup(preferred)
        free == SelectSeq([b \in AllBlocks |-> b], LAMBDA b : b \notin u)
    IN  Slice(SelectSeq(free, inPreferred)
                \o SelectSeq(free, LAMBDA b : ~inPreferred(b)), 0, count)

----------------------------------------------------------------------------
(* The shape of a list of n blocks *)

\* Mutant: the indirect blocks below the triply indirect one are forgotten.
Shape_NoTripleMeta(n) ==
    LET direct == MinOf(NDirect, n)
        indirect == MinOf(n - direct, PerBlock)
        doubly == MinOf(n - direct - indirect, PerDoubly)
        triply == MinOf(n - direct - indirect - doubly, PerTriply)
    IN  [ direct |-> direct, indirect |-> indirect, doubly |-> doubly, triply |-> triply,
          meta |-> (IF indirect > 0 THEN 1 ELSE 0)
                   + (IF doubly > 0 THEN 1 + RoundedUp(doubly, PerBlock) ELSE 0)
                   + (IF triply > 0 THEN 1 + RoundedUp(triply, PerDoubly) ELSE 0) ]

Shape(n) ==
    LET direct == MinOf(NDirect, n)
        indirect == MinOf(n - direct, PerBlock)
        doubly == MinOf(n - direct - indirect, PerDoubly)
        triply == MinOf(n - direct - indirect - doubly, PerTriply)
    IN  [ direct |-> direct, indirect |-> indirect, doubly |-> doubly, triply |-> triply,
          meta |-> (IF indirect > 0 THEN 1 ELSE 0)
                   + (IF doubly > 0 THEN 1 + RoundedUp(doubly, PerBlock) ELSE 0)
                   + (IF triply > 0 THEN 1 + RoundedUp(triply, PerDoubly)
                                           + RoundedUp(triply, PerBlock) ELSE 0) ]

----------------------------------------------------------------------------
(* flush_block_list works on w: the bitmap, the contents of pointer blocks, *)
(* the meta blocks still to be placed (taken from the end), the count of    *)
(* meta blocks in the tree (old_shape.meta_blocks), and whether all went    *)
(* well so far: a VERIFY that fails and a bit that is already clear (EIO,   *)
(* which PanicsAreKnown shows never happens) end the call.                  *)

Padded(list) == list \o NoBlocks(PerBlock - Len(list))

\* set_block_allocation_state(b, false)
FreeMeta(w, b) ==
    [w EXCEPT !.used = @ \ {b}, !.meta = @ - 1, !.ok = @ /\ b \in w.used]

WriteIndirect(w, b, list) == [w EXCEPT !.contents[b] = Padded(list)]

\* The array of pointers of a block that has old of them and is to have new:
\* the additional ones come from the end of the meta blocks.
Extended(w, b, old, new) ==
    Padded(Slice(w.contents[b], 0, old) \o Slice(Reverse(w.fresh), 0, new - old))

TakeFresh(w, n) ==
    [w EXCEPT !.fresh = SubSeq(@, 1, Len(@) - n), !.meta = @ + n]

\* Mutant: the indirect block that was partly filled is not written again.
FirstRewritten_Next(old) == RoundedUp(old, PerBlock)

\* The number of indirect blocks that are full and stay as they are.
FirstRewritten(old) == old \div PerBlock

GrowDoubly(w, b, old, list) ==
    LET oldInd == RoundedUp(old, PerBlock)
        newInd == RoundedUp(Len(list), PerBlock)
        array == Extended(w, b, oldInd, newInd)
        put(v, i) == WriteIndirect(v, array[i], Slice(list, (i - 1) * PerBlock, PerBlock))
        rewritten == [i \in 1..(newInd - FirstRewritten(old)) |-> FirstRewritten(old) + i]
    IN  [FoldLeft(put, TakeFresh(w, newInd - oldInd), rewritten)
            EXCEPT !.contents[b] = array]

ShrinkDoubly(w, b, old, new) ==
    LET newInd == RoundedUp(new, PerBlock)
        gone == [i \in 1..(RoundedUp(old, PerBlock) - newInd) |-> w.contents[b][newInd + i]]
        v == FoldLeft(FreeMeta, w, gone)
    IN  IF new = 0 THEN FreeMeta(v, b) ELSE v

\* The part of the first n blocks that the i-th doubly indirect block has.
Share(n, i) == LET before == (i - 1) * PerDoubly
               IN  IF n > before THEN MinOf(n - before, PerDoubly) ELSE 0

\* The VERIFY compares with PerDoubly: entries_per_triply_indirect_block is
\* computed without its third factor.
GrowTriply(w, b, old, list) ==
    LET oldD == RoundedUp(old, PerDoubly)
        newD == RoundedUp(Len(list), PerDoubly)
        array == Extended(w, b, oldD, newD)
        grow(v, i) == GrowDoubly(v, array[i], Share(old, i),
                                 Slice(list, (i - 1) * PerDoubly, Share(Len(list), i)))
        rewritten == [i \in 1..(newD - old \div PerDoubly) |-> old \div PerDoubly + i]
    IN  IF Len(list) > PerDoubly THEN [w EXCEPT !.ok = FALSE]
        ELSE [FoldLeft(grow, TakeFresh(w, newD - oldD), rewritten) EXCEPT !.contents[b] = array]

ShrinkTriply(w, b, old, new) ==
    LET keep == new \div PerDoubly
        gone == [i \in 1..(RoundedUp(old, PerDoubly) - keep) |-> keep + i]
        shrink(v, i) == ShrinkDoubly(v, w.contents[b][i], Share(old, i), Share(new, i))
        s == FoldLeft(shrink, w, gone)
    IN  IF new = 0 THEN FreeMeta(s, b) ELSE s

----------------------------------------------------------------------------
(* flush_block_list *)

\* One level of the tree: root is its pointer in the inode, old and new are
\* the numbers of data blocks below it.
Level(s, root, old, new, Grow(_, _), Shrink(_, _)) ==
    IF ~s.w.ok \/ old = new THEN s
    ELSE IF new > old
    THEN LET v == IF old = 0 THEN TakeFresh(s.w, 1) ELSE s.w
             b == IF old = 0 THEN s.w.fresh[Len(s.w.fresh)] ELSE s.raw[root]
         IN  [w |-> Grow(v, b), raw |-> [s.raw EXCEPT ![root] = b]]
    ELSE [s EXCEPT !.w = Shrink(s.w, s.raw[root])]

FlushBlockList(w0, raw, list) ==
    LET was == Shape(raw.size)
        now == Shape(Len(list))
        part(from, n) == Slice(list, from, n)
        start == [ w |-> [w0 EXCEPT !.meta = was.meta],
                   raw |-> [raw EXCEPT !.i_blocks = Len(list) + now.meta,
                                       !.direct = [i \in 1..NDirect |->
                                            IF i <= now.direct THEN list[i] ELSE @[i]]] ]
        one == Level(start, "ind", was.indirect, now.indirect,
                     LAMBDA w, b : WriteIndirect(w, b, part(now.direct, now.indirect)),
                     LAMBDA w, b : IF now.indirect = 0 THEN FreeMeta(w, b) ELSE w)
        two == Level(one, "dind", was.doubly, now.doubly,
                     LAMBDA w, b : GrowDoubly(w, b, was.doubly,
                                       part(now.direct + now.indirect, now.doubly)),
                     LAMBDA w, b : ShrinkDoubly(w, b, was.doubly, now.doubly))
        three == Level(two, "tind", was.triply, now.triply,
                     LAMBDA w, b : GrowTriply(w, b, was.triply,
                                       part(now.direct + now.indirect + now.doubly, now.triply)),
                     LAMBDA w, b : ShrinkTriply(w, b, was.triply, now.triply))
        matches == three.w.fresh = <<>> /\ three.w.meta = now.meta
    IN  [three EXCEPT !.w.ok = @ /\ matches]

----------------------------------------------------------------------------
(* compute_block_list: the tree read back, with or without its own blocks *)

\* Everything below block b at a height, in the order of the nested
\* process_block_array calls.
Pointers(cs, b) == IF b = NoBlock THEN NoBlocks(PerBlock) ELSE cs[b]
Own(b, meta) == IF meta THEN <<b>> ELSE <<>>
Below1(cs, b, meta) == Own(b, meta) \o Pointers(cs, b)
Below2(cs, b, meta) ==
    Own(b, meta) \o FlattenSeq([i \in 1..PerBlock |-> Below1(cs, Pointers(cs, b)[i], meta)])
Below3(cs, b, meta) ==
    Own(b, meta) \o FlattenSeq([i \in 1..PerBlock |-> Below2(cs, Pointers(cs, b)[i], meta)])

BlockList(cs, raw, meta) ==
    LET n == raw.size + (IF meta THEN Shape(raw.size).meta ELSE 0)
        all == SubSeq(raw.direct, 1, MinOf(raw.size, NDirect))
                 \o (IF raw.size > NDirect
                     THEN Below1(cs, raw.ind, meta) \o Below2(cs, raw.dind, meta)
                            \o Below3(cs, raw.tind, meta)
                     ELSE <<>>)
        read == SubSeq(all, 1, MinOf(n, Len(all)))
        filled == {i \in DOMAIN read : read[i] # NoBlock}
    IN  SubSeq(read, 1, IF filled = {} THEN 0 ELSE Max(filled))

----------------------------------------------------------------------------
(* Actions *)

Free == Cardinality(AllBlocks \ used)

MetaBlocks(f) == ToSet(BlockList(contents, inode[f], TRUE))
                    \ ToSet(BlockList(contents, inode[f], FALSE))

\* What m_block_list is once a caller has looked at it.
Loaded(f) == IF inode[f].list = <<>> THEN BlockList(contents, inode[f], FALSE)
             ELSE inode[f].list

Call == panicked = <<>> /\ calls < MaxCalls /\ calls' = calls + 1

Panic(f, n) == panicked' = <<f, n>> /\ UNCHANGED <<used, contents, inode, leaked>>

\* resize() has the bitmap u and the list of the new size; flush_block_list
\* and the new size follow.  A list that is empty leaves before the shapes are
\* compared: the blocks of the tree stay marked.
FinishResize(f, u, list) ==
    LET raw == inode[f]
        extra == Shape(Len(list)).meta - Shape(raw.size).meta
        fresh == AllocateBlocks(u, GroupOf[f], extra)
        r == FlushBlockList([used |-> u \cup ToSet(fresh), contents |-> contents,
                             fresh |-> fresh, meta |-> 0, ok |-> TRUE], raw, list)
        works == Len(fresh) >= extra /\ r.w.ok
    IN  \/ /\ list = <<>>
           /\ used' = u
           /\ inode' = [inode EXCEPT ![f] = NoInode]
           /\ leaked' = leaked \cup MetaBlocks(f)
           /\ UNCHANGED <<contents, panicked>>
        \/ /\ list # <<>>
           /\ ~works
           /\ Panic(f, Len(list))
        \/ /\ list # <<>>
           /\ works
           /\ used' = r.w.used
           /\ contents' = r.w.contents
           /\ inode' = [inode EXCEPT ![f] = [r.raw EXCEPT !.list = list, !.size = Len(list)]]
           /\ UNCHANGED <<panicked, leaked>>

\* resize() to more blocks; the zeroes write_bytes then stores are file data.
Grow(f, n) ==
    LET more == n - inode[f].size
        new == AllocateBlocks(used, GroupOf[f], more)
    IN  /\ Call
        /\ n > inode[f].size
        /\ more <= Free            \* ENOSPC otherwise
        /\ FinishResize(f, used \cup ToSet(new), Loaded(f) \o new)

\* resize() to fewer blocks: the last ones of the list are freed first.
Shrink(f, n) ==
    LET list == Loaded(f)
    IN  /\ Call
        /\ n < inode[f].size
        /\ FinishResize(f, used \ ToSet(SubSeq(list, n + 1, Len(list))), SubSeq(list, 1, n))

\* The inode leaves the inode cache: its m_block_list goes with it.
Uncache(f) ==
    /\ panicked = <<>>
    /\ inode[f].list # <<>>
    /\ inode' = [inode EXCEPT ![f].list = <<>>]
    /\ UNCHANGED <<used, contents, panicked, leaked, calls>>

\* The last link is gone: free_inode, and the inode number is used again.
FreeInode(f) ==
    /\ Call
    /\ inode[f].size > 0
    /\ used' = used \ ToSet(BlockList(contents, inode[f], TRUE))
    /\ inode' = [inode EXCEPT ![f] = NoInode]
    /\ UNCHANGED <<contents, panicked, leaked>>

Next ==
    \/ \E f \in Inodes, n \in Sizes : Grow(f, n)
    \/ \E f \in Inodes, n \in Sizes : Shrink(f, n)
    \/ \E f \in Inodes : Uncache(f)
    \/ \E f \in Inodes : FreeInode(f)

Spec == Init /\ [][Next]_vars

----------------------------------------------------------------------------
(* Properties *)

\* Type invariant of the Ext2 bitmap, of the pointer blocks and the inodes.
TypeOK ==
    /\ used \subseteq AllBlocks
    /\ contents \in [AllBlocks -> [1..PerBlock -> AllBlocks \cup {NoBlock}]]
    /\ \A f \in Inodes : inode[f].size \in Sizes /\ inode[f].list \in Seq(AllBlocks)
    /\ panicked = <<>> \/ panicked \in Inodes \X Sizes
    /\ leaked \subseteq AllBlocks
    /\ calls \in 0..MaxCalls

AllOf(f) == BlockList(contents, inode[f], TRUE)

\* The tree on disk says what the cached list says: compute_block_list reads
\* back as many blocks as the file has, the cached list if there is one, and
\* i_blocks counts the data and the meta blocks.
TreeReadsBack ==
    /\ TypeOK
    /\ \A f \in Inodes :
          LET data == BlockList(contents, inode[f], FALSE)
          IN  /\ Len(data) = inode[f].size
              /\ inode[f].list \in {<<>>, data}
              /\ inode[f].i_blocks = Len(AllOf(f))

\* No block has two owners, within a file or between files, as data or as
\* part of a tree: allocate_blocks hands nothing out twice, and no resize
\* frees a block that is still reachable.
\* The bitmap is exact: what is marked is owned by a file or was lost when a
\* file was cut to nothing (flush_block_list returns before it frees the
\* tree).  Growing, shrinking to any other size and deleting lose nothing and
\* free nothing that is in use.
BlocksOwnedOnce ==
    /\ \A f \in Inodes : IsInjective(AllOf(f))
    /\ \A f, g \in Inodes : f # g => ToSet(AllOf(f)) \cap ToSet(AllOf(g)) = {}
    /\ used = leaked \cup UNION {ToSet(AllOf(f)) : f \in Inodes}

\* The VERIFYs of allocate_blocks and flush_block_list fail in two cases only:
\* the data blocks fit but the blocks of the tree do not (resize compares the
\* free blocks with the data alone), or the file has more blocks below its
\* triply indirect block than one doubly indirect block holds.
PanicsAreKnown ==
    panicked = <<>> \/
        LET n == panicked[2] was == inode[panicked[1]].size
        IN  \/ Shape(n).triply > PerDoubly
            \/ n + Shape(n).meta > was + Shape(was).meta + Free
=============================================================================
