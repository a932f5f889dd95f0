---------------------------- MODULE MCWorkBranch ----------------------------
(* A small instance of WorkItem: two runs in two stages with two             *)
(* repositories; and the commands of one run, two at once, with a program    *)
(* that posts bodies of its own.                                             *)
EXTENDS WorkItem, TLC
CONSTANTS r1, r2, c1, c2
MCRepositories == <<"target", "further">>
MCStage == [r \in Runs |-> IF r = r1 THEN 1 ELSE 2]
MCContents == [target |-> {{}, {"work", "setup", "qory"}}, further |-> {{"work"}}]

-----------------------------------------------------------------------------
F == <<"f", "lower">>
G == <<"f", "upper">>
Member(n, v) == [name |-> n, exact |-> TRUE, value |-> v]
Other(n, v) == [Member(n, v) EXCEPT !.exact = FALSE]
File(n, c) == <<Member("filename", n), Member("content_base64", c)>>
Bad == Member("files", <<File(F, "bad")>>)
(* Members twice, in another case, in a file; names twice, that are one file *)
(* where case is ignored, and that leave the folder. *)
MCBodies ==
  {<<Member("type", "b"), Member("type", "a"), Bad>>, <<Member("type", "b"), Other("type", "a"), Bad>>,
   <<Member("type", "a"), Member("files", <<File(F, "x")>>), Bad>>, <<Other("type", "a"), Bad>>,
   <<Member("type", "a"), Member("files", <<File(F, "bad"), File(F, "x")>>)>>,
   <<Member("type", "a"), Member("files", <<File(F, "bad"), File(G, "x")>>)>>,
   <<Member("type", "a"), Member("files", <<File(<<"..", "lower">>, "x")>>)>>,
   <<Member("type", "a"), Member("files", <<File(F, "bad") \o <<Member("content_base64", "x")>>>>)>>}

MCTypes == {"a", "b"}
MCRole == [t \in MCTypes |-> IF t = "a" THEN "output" ELSE "input"]
MCNames == {F, G}
MCLists == {<<F>>, <<F, G>>}
Commands == Permutations({c1, c2})
=============================================================================
