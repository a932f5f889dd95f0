------------------------------ MODULE MCPlaces ------------------------------
(***************************************************************************)
(* Small instances of what keeps this machine from acting for a walled     *)
(* run: who is where when (Places), what a run may have left in a checkout *)
(* (HostGit), and the programs qory starts (Programs).  They share no      *)
(* state, and a behaviour is of one of the three.                          *)
(***************************************************************************)
EXTENDS Places, Sequences, TLC

ThreePlaces == {1, 2, 3}
Nested == {<<1, 1>>, <<2, 2>>, <<3, 3>>, <<2, 1>>}  \* place 2 lies in place 1, place 3 apart
AnyRun == Permutations(Runs)

CONSTANTS Keys, MaxWrites, MaxEdits
VARIABLES part,
          dotgit, commondir, has, keys, rec, bound, kept, asked, theirs, acted, taken, runs, writes, edits
(* The checkouts: one that names an alternate and a file to include, and   *)
(* one with a config.worktree whose git directory is in no place.          *)
Checkouts ==
  {[gitdir |-> "own", has |-> {"fetch", "url1", "alternates", "include"}, keys |-> {"dir"}],
   [gitdir |-> "away", has |-> {"fetch", "worktreeConfig", "w:url2"}, keys |-> {}]}
checkout == <<dotgit, commondir, has, keys, rec, bound, kept, asked, theirs, acted, taken, runs, writes, edits>>
H == INSTANCE HostGit WITH Kinds <- Checkouts, LoadOrder <- <<"repo", "outer", "lib">>, MaxRuns <- 2

-----------------------------------------------------------------------------
(* Programs: p may be in a directory of root's or the user's that a group   *)
(* or every user may write, in one of another user's, or be a link.         *)
Node(kind, uid, group, every, to) ==
  [kind |-> kind, uid |-> uid, group |-> group, every |-> every, sticky |-> FALSE, abs |-> TRUE, to |-> to, by |-> "keeper"]
Folder(uid, group) == Node("dir", uid, group, FALSE, <<>>)
File(uid, group) == Node("file", uid, group, FALSE, <<>>)
By(who, n) == [n EXCEPT !.by = who]
Link(uid, to) == By(IF uid = "other" THEN "other" ELSE "keeper", Node("link", uid, "none", TRUE, to))
Every(n) == [n EXCEPT !.every = TRUE]
Base ==
  (<<>> :> Folder("root", "none")) @@ (<<"opt">> :> Folder("root", "none")) @@ (<<"opt", "p">> :> File("me", "none"))
  @@ (<<"tmp">> :> [Every(Folder("root", "none")) EXCEPT !.sticky = TRUE])
  @@ (<<"w">> :> Folder("me", "none")) @@ (<<"w", "p">> :> By("run", File("me", "none")))
At(d, p) == (<<"d">> :> d) @@ (<<"d", "p">> :> p) @@ Base
InTmp(n, p) == (<<"tmp", n>> :> p) @@ Base
Mine == Folder("me", "none")
Program == File("me", "none")
Theirs == By("other", File("other", "none"))
Disks ==
  {At(Folder(u, g), Program) : u \in {"root", "me"}, g \in {"wheel", "own", "primary", "namesake"}}
  \cup {At(Every(Mine), Program), At(Folder("other", "none"), Program), At(Mine, Theirs), At(Mine, Every(Program)), At(Mine, File("root", "primary"))}
  \cup {At(Mine, Link(u, to)) : u \in {"root", "other"}, to \in {<<"opt", "p">>, <<"w", "p">>, <<"tmp", "p">>}}
  \cup {At(Mine, Link("me", <<"tmp", "p">>)) @@ InTmp("p", n) : n \in {Program, Theirs, Link("me", <<"opt", "p">>), Link("other", <<"opt", "p">>)}}
  \cup {At(Mine, [Link("me", <<"q">>) EXCEPT !.abs = FALSE]) @@ (<<"d", "q">> :> Link("me", <<"tmp", "p">>)) @@ InTmp("p", Link("me", <<"opt", "p">>)),
        InTmp("l", Link("other", <<"opt">>)), Base}

Entry(d) == [dir |-> d, abs |-> TRUE]
NoTools == [path |-> <<Entry(<<"d">>), Entry(<<"opt">>)>>, workspace |-> {<<"w">>}, config |-> FALSE, selected |-> {},
            integrations |-> <<>>, credentials |-> <<>>, tools |-> <<>>]
Tool(p) == [NoTools EXCEPT !.tools = <<p>>]
Tools ==
  [disk : Disks, given : {Tool(<<"p">>)}]
  \cup [disk : {At(Folder("root", g), Mine) @@ (<<"d", "p", "p">> :> Program) : g \in {"wheel", "primary"}}, given : {Tool(<<"d", "p", "p">>)}]
  \cup [disk : {InTmp("l", Link("other", <<"opt">>))}, given : {[Tool(<<"p">>) EXCEPT !.path = <<Entry(<<"tmp", "l">>)>>]}]
  \cup [disk : {Base}, given : {Tool(<<"w", "p">>), Tool(<<"q">>), Tool(<<"opt", "q">>), [Tool(<<"p">>) EXCEPT !.path[2].abs = FALSE]}]
  \cup [disk : {At(Mine, Program) @@ InTmp("v", Link("me", <<"d">>))}, given : {[Tool(<<"p">>) EXCEPT !.workspace = {<<"tmp", "v">>, <<"w">>}]}]
  \cup [disk : {At(Mine, Program)}, given : {[Tool(<<"p">>) EXCEPT !.workspace = {<<"d", "p">>, <<"gone">>}]}]
  \cup [disk : {(<<"w", "p">> :> By("run", Link("me", <<"opt", "p">>))) @@ Base}, given : {Tool(<<"w", "p">>)}]

(* Integrations, whose description marks its settings each way.             *)
Marks == {{}, {<<>>}, {<<"properties", "a">>}, {<<"properties", "a", "properties", "b">>}, {<<"items">>, <<"properties", "b">>}}
Answers == {[reads |-> TRUE, takes |-> TRUE, credential |-> TRUE, marks |-> m] : m \in Marks}
Bad == [reads |-> TRUE, takes |-> TRUE, credential |-> TRUE, marks |-> {}]
In(key, settings, answer) == [key |-> key, program |-> <<"p">>, relative |-> FALSE, settings |-> settings, answer |-> answer]
Integrations(ins) == [NoTools EXCEPT !.selected = {"x", "y"}, !.integrations = ins, !.credentials = <<[name |-> "y", adapter |-> <<"opt", "p">>]>>]
Described ==
  {Integrations(<<In("x", s, a), In("y", s, a)>>) : s \in {{}, {<<"a">>}, {<<"a", "b">>, <<"b">>}}, a \in Answers}
  \cup {Integrations(<<In("x", {}, a)>>) : a \in {[Bad EXCEPT !.reads = FALSE], [Bad EXCEPT !.takes = FALSE], [Bad EXCEPT !.credential = FALSE]}}
  \cup {Integrations(<<[In("x", {}, Bad) EXCEPT !.relative = TRUE]>>), [Integrations(<<In("x", {}, Bad), In("y", {}, Bad)>>) EXCEPT !.config = TRUE]}
ProgramCases == Tools \cup [disk : {Base}, given : Described]
VARIABLES disk, given, next, step, found, resolved, hop, checked, links, followed, commands, passed, started, changes
programs == <<disk, given, next, step, found, resolved, hop, checked, links, followed, commands, passed, started, changes>>
P == INSTANCE Programs WITH
  Cases <- ProgramCases, OthersGroups <- {"primary", "namesake"}, MaxLinks <- 2, MaxEdits <- 2, edits <- changes,
  Planted <- {Program, Link("me", <<"opt", "p">>), Link("me", <<"w">>)}

-----------------------------------------------------------------------------
NoProgram ==
  /\ disk = <<>> /\ given = <<>> /\ next = 0 /\ step = "none" /\ found = <<>> /\ resolved = <<>> /\ hop = <<>> /\ checked = <<>>
  /\ links = <<>> /\ followed = {} /\ commands = <<>> /\ passed = <<>> /\ started = {} /\ changes = 0
PartsInit ==
  /\ part \in {"places", "checkout", "programs"}
  /\ Init /\ H!Init
  /\ part # "checkout" => keys = {"dir"}
  /\ recorded = Places \/ (part = "places" /\ recorded = {})
  /\ dir = [c \in Checks |-> 1]
  /\ IF part = "programs" THEN P!Init ELSE NoProgram
PartsNext ==
  /\ UNCHANGED part
  /\ \/ part = "places" /\ Next /\ UNCHANGED <<checkout, programs>>
     \/ part = "checkout" /\ H!Next /\ UNCHANGED <<vars, programs>>
     \/ part = "programs" /\ P!Next /\ UNCHANGED <<vars, checkout>>
PartsSpec == PartsInit /\ [][PartsNext]_<<part, vars, checkout, programs>>

(* HostGit: a command acts on nothing of the checkout that neither the     *)
(* person set nor accept-checkout showed them before they said yes, and an *)
(* accept has its effect, so that the checks it was for pass.  Programs:   *)
(* qory and the gateway start the file that was checked, which neither     *)
(* another user nor a walled run wrote, and no setting marked as a secret  *)
(* is on its command line.                                                 *)
ActsOnTheirs ==
  /\ H!ActsOnTheirs /\ H!AcceptPasses
  /\ part = "programs" => P!StartsChecked /\ P!NoSecretOnACommandLine
=============================================================================
