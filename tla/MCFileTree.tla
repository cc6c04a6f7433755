---------------------------- MODULE MCFileTree ----------------------------
EXTENDS FileTree, TLC

\* / has the directories a and b, a file with the names e, g and a/c, and a
\* file f whose record is the only one in its block.
Used(dir, links) == [used |-> TRUE, dir |-> dir, links |-> links]
Inodes0 == [i \in Inodes |-> CASE i = 1 -> Used(TRUE, 4)
                               [] i \in {2, 3} -> Used(TRUE, 2)
                               [] i = 4 -> Used(FALSE, 3)
                               [] i = 5 -> Used(FALSE, 1)
                               [] OTHER -> Free]
Block(list) == [i \in 1..PerBlock |-> IF i <= Len(list) THEN list[i] ELSE Blank]
Entries0 == [i \in Inodes |->
    CASE i = 1 -> Block(<<<<".", 1>>, <<"..", 1>>, <<"a", 2>>, <<"b", 3>>, <<"e", 4>>, <<"g", 4>>>>)
                    \o Block(<<<<"f", 5>>>>)
      [] i = 2 -> Block(<<<<".", 2>>, <<"..", 1>>, <<"c", 4>>>>)
      [] i = 3 -> Block(<<<<".", 3>>, <<"..", 1>>>>)
      [] OTHER -> <<>>]

One(op, path) == [op |-> op, path |-> path, to |-> <<>>]
Two(op, path, to) == [op |-> op, path |-> path, to |-> to]
A == <<"a">>
B == <<"b">>
C == <<"a", "c">>
D == <<"b", "c">>
F == <<"f">>

AllCalls == { One("create", D), One("create", C), One("mkdir", D), One("mkdir", <<"d">>),
              One("unlink", C), One("unlink", F), One("rmdir", B), One("rmdir", A),
              Two("link", C, D), Two("rename", C, D), Two("rename", A, D),
              Two("rename", B, A), Two("rename", B, C) }
Symmetry == Permutations(Threads)
=============================================================================
