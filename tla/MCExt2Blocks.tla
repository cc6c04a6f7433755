---------------------------- MODULE MCExt2Blocks ----------------------------
EXTENDS Ext2Blocks
Groups == [f \in Inodes |-> f]

\* The code reads no pointer beyond those a file has: stale ones are left out.
View == <<used, panicked, leaked, calls,
          [f \in Inodes |-> <<inode[f].size, inode[f].i_blocks, inode[f].list, AllOf(f)>>]>>
=============================================================================
