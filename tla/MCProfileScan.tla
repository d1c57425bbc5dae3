---------------------------- MODULE MCProfileScan ----------------------------
(* Small instances of ProfileScan.  1 is the root; 2, 3 directories; 4, 5, 6    *)
(* files; 7 a symbolic link, 8 something else; 9 a directory of another device, *)
(* 10 one that cannot be opened, 11 one whose entries cannot be examined, 12    *)
(* one that cannot be listed, 13 a file that cannot be opened.                  *)
EXTENDS ProfileScan, TLC

MCKind == <<"dir", "dir", "dir", "file", "file", "file", "link", "other",
            "dir", "dir", "dir", "dir", "file">>
MCDev == [i \in 1..13 |-> IF i = 9 THEN 2 ELSE 1]
MCPerm == [i \in 1..13 |-> CASE i \in {10, 13} -> "none" [] i = 11 -> "r" [] i = 12 -> "io"
                             [] OTHER -> "rx"]

Dir(a, b, c) == <<a, b, c>>
NoDir == <<0, 0, 0>>
Tree(root, two, three) ==
    [d \in Dirs |-> CASE d = 1 -> root [] d = 2 -> two [] d = 3 -> three
                      [] d = 11 -> Dir(5, 0, 0) [] OTHER -> NoDir]

MCTrees == {
    Tree(Dir(4, 2, 5), Dir(6, 0, 4), NoDir),          \* a hard link in a subdirectory
    Tree(Dir(2, 4, 7), Dir(3, 5, 0), Dir(6, 8, 9)),   \* prof_max and types
    Tree(Dir(2, 3, 4), Dir(9, 10, 11), Dir(12, 13, 5)) \* refusals
}

Long == <<0, 0, 0, 0>>
Other == <<0, 0, 1, 0>>   \* differs from Long outside the windows of the sample
MCDatas == {<<0>>, Long, Other}
MCBytes == {
    [f \in Files |-> IF f = 6 THEN Other ELSE Long],
    [f \in Files |-> IF f = 5 THEN <<0>> ELSE Long],
    [f \in Files |-> IF f = 4 THEN <<>> ELSE <<0>>]
}
Symmetry == Permutations(Workers)
==============================================================================
