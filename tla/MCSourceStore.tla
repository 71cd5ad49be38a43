--------------------------- MODULE MCSourceStore ---------------------------
(* Values for the constants of SourceStore.                                *)
EXTENDS SourceStore

CONSTANTS c1, c2

File(path, content) == [path |-> path, md5 |-> content]

\* Files users have: none, one, a _link of their own, or two contents of one path.
NoFiles == {}
OneFile == {File("a", c1)}
OwnLink == {File("_link", c1)}
TwoContents == {File("a", c1), File("a", c2)}

\* Sets that TLC may permute: nothing tells their elements apart.
ProjectSymmetry == Permutations(Projects)
NameSymmetry == ProjectSymmetry \cup Permutations(PackageNames)
=============================================================================
