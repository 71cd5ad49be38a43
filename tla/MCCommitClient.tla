--------------------------- MODULE MCCommitClient ---------------------------
(* Values for the constants of CommitClient.                               *)
EXTENDS CommitClient

CONSTANTS c1, c2, c3, x, y

File(path, content) == [path |-> path, md5 |-> content]

AllFiles ==
  {File("a", x), File("a", y), File("b", x), File("_meta", x), File("%", x), File("%25", x)}

Percent == "%" :> "%25"

\* Two clients who share a file; one of them lists a path twice.  A third one
\* lists files that do not arrive.
Lists == (c1 :> <<File("a", x), File("b", x)>>) @@ (c2 :> <<File("a", x), File("a", y)>>)
           @@ (c3 :> <<File("_meta", x), File("%", x)>>)

Digests == {c1, c2, c3} \X (1..MaxFaults + 1)
=============================================================================
