----------------------------- MODULE MCSources -----------------------------
(* Small instances of what qory gets onto this machine for a run            *)
(* (RunInputs): two composes and two commits of the sources, and the lists, *)
(* folders, commits, copies and containers below.                           *)
EXTENDS RunInputs, Sequences, TLC

Symmetric == Permutations(Composes) \cup Permutations(Commits)

-----------------------------------------------------------------------------
(* Fetch: lists that Check takes and refuses, on github.com and elsewhere. *)
L(n) == <<n, "lower">>
U(n) == <<n, "upper">>
A == <<L("o"), L("a")>>
B == <<L("o"), L("b")>>
C == <<L("o"), L("b"), L("c")>>
Lists == {<<>>, <<A>>, <<A, B>>, <<A, B, <<L("o"), U("b")>>>>, <<A, <<U("o"), L("b")>>, <<L("o"), L("c")>>>>,
          <<A, B, C>>, <<A, C, B>>, <<C, B>>, <<A, <<L("p"), L("b")>>>>, <<A, <<L("o"), L(".git")>>>>}
Job(g, l, t, v, h) == [github |-> g, paths |-> l, target |-> t, version |-> v, here |-> h]
FetchJobs == {Job(g, l, A, v, FALSE) : g \in BOOLEAN, l \in Lists, v \in {"none", "commit"}}
  \cup {Job(g, l, t, v, TRUE) : g \in BOOLEAN, l \in Lists, t \in {A, <<L("o"), U("a")>>, B, C}, v \in {"commit", "word"}}
Fresh == [isLink |-> FALSE, git |-> "dir", parts |-> TRUE, links |-> FALSE, keys |-> {"init"}, commits |-> FALSE,
          entries |-> FALSE, above |-> FALSE, qory |-> "none", excluded |-> FALSE]
Bare == [Fresh EXCEPT !.git = "none", !.parts = FALSE, !.keys = {}]
WorkFolders ==
  {Fresh, Bare, [Bare EXCEPT !.above = TRUE], [Bare EXCEPT !.isLink = TRUE], [Bare EXCEPT !.entries = TRUE],
   [Fresh EXCEPT !.git = "file"], [Fresh EXCEPT !.links = TRUE], [Fresh EXCEPT !.parts = FALSE],
   [Fresh EXCEPT !.keys = @ \cup {"other"}], [Fresh EXCEPT !.keys = @ \cup {"remote"}], [Fresh EXCEPT !.commits = TRUE],
   [Fresh EXCEPT !.entries = TRUE]}
(* The folders vary for two repositories on github.com, the lists for one. *)
FewFetches ==
  \/ job.github /\ Len(job.paths) = 2 /\ job.version # "word" /\ job.here
  \/ folder = Fresh /\ ~used /\ \A i \in DOMAIN remotes : remotes[i] = [head |-> "branch", serves |-> TRUE, qory |-> "none"]

-----------------------------------------------------------------------------
(* Setup: commits and copies that differ in a file, a folder with a file   *)
(* and a repository in it, and the configuration; and containers.          *)
Tree(of, kinds) ==
  [p \in {q \in DOMAIN kinds : kinds[q] # "none" /\ (Len(q) = 1 \/ kinds[<<q[1]>>] = "dir")} |-> [kind |-> kinds[p], of |-> of]]
Entries(f, d, df, sub, c1, c2) ==
  <<"f">> :> f @@ <<"d">> :> d @@ <<"d", "f">> :> df @@ <<"d", ".git">> :> sub @@ <<".git">> :> sub @@ <<".qory">> :> sub
  @@ <<"dc">> :> (IF c1 = "file" THEN "dir" ELSE c1) @@ <<"dc", "json">> :> c1 @@ <<"dc.json">> :> c2
Maybe == {"none", "file"}
CommitTrees == {Tree("commit", Entries(f, d, df, "none", "none", "none")) :
              f \in Maybe, d \in {"none", "file", "dir", "link"}, df \in Maybe}
  \cup {Tree("commit", Entries("file", "none", "none", "none", c1, "file")) : c1 \in Maybe \cup {"link"}}
Copies == {[kind |-> "dir", git |-> TRUE, origins |-> {"run"}, tree |-> Tree("copy", Entries(f, d, df, "dir", c1, "none"))] :
             <<f, d, df, c1>> \in (Maybe \X {"none", "file", "dir", "other"} \X {"none", "file", "other"} \X {"none"})
                             \cup (Maybe \X {"none", "dir"} \X {"none"} \X {"file"})}
NoCopy == [kind |-> "none", git |-> FALSE, origins |-> {}, tree |-> <<>>]
Plain == [seed |-> NoCopy, commit |-> <<>>, removed |-> {}, inside |-> TRUE, home |-> FALSE, managed |-> FALSE,
          linkAbove |-> FALSE, image |-> {}, imageValue |-> "image", resolved |-> {}, placeholders |-> {}, authority |-> FALSE]
Setups ==
  {s \in {[Plain EXCEPT !.seed = t, !.commit = c, !.removed = r] :
            t \in Copies, c \in CommitTrees, r \in {{}, {<<"f">>}, {<<"d", "f">>}, {<<"d">>}, {<<"d", "x">>}}} :
     /\ \A p \in s.removed : p \in DOMAIN s.commit => s.commit[p].kind = "dir"
     /\ <<"dc.json">> \in DOMAIN s.commit => s.removed = {} /\ <<"f">> \notin DOMAIN s.seed.tree}
  \cup {[Plain EXCEPT !.seed = [kind |-> k, git |-> g, origins |-> o, tree |-> <<>>]] :
          k \in {"dir", "file", "none"}, g \in BOOLEAN, o \in SUBSET {"run", "other"}}
  \cup {[Plain EXCEPT !.commit = Tree("commit", <<"dc.json">> :> c), !.inside = i, !.home = h, !.managed = m, !.linkAbove = l] :
          c \in {"file", "link"}, i, h, m, l \in BOOLEAN}
  \cup {[Plain EXCEPT !.image = im, !.imageValue = v, !.resolved = r, !.placeholders = ph, !.authority = a] :
          im \in {{"plain", "prefixed", "named", "proxy", "ca"}, {"prefixed", "prefixed2", "ca"}, {}},
          v \in {"image", "placeholder"}, r \in {{}, {"prefixed"}, {"ca", "named"}}, ph \in {{}, {"prefixed2"}, {"named"}}, a \in BOOLEAN}
MCPlaces == <<<<"dc", "json">>, <<"dc.json">>>>

-----------------------------------------------------------------------------
(* At most one commit has a half clone from before, and a tag and a branch  *)
(* of one name are of two commits at first.                                 *)
AtFirst ==
  /\ Cardinality({c \in Commits : clone[c] = "half"}) <= 1
  /\ form = "hex" /\ remote.tag = remote.branch => remote.tag = None
MCInit == PartsInit /\ (part = "sources" => AtFirst) /\ (part = "fetch" => FewFetches)
MCSpec == MCInit /\ [][PartsNext]_parts
=============================================================================
