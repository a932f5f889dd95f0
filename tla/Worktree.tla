------------------------------ MODULE Worktree ------------------------------
(***************************************************************************)
(* qory worktree add and remove (internal/worktree, cmd/worktree.go), step *)
(* by step, beside a person who edits, commits, pushes and aborts rebases, *)
(* and a remote on which branches are merged.  A commit is its history: a  *)
(* sequence of changes, each a set of patches, so an ancestor is a prefix, *)
(* a rebased commit has the change of the one it copies, and a squash has  *)
(* the union of several.  A base is a ref as git reads it, resolved anew   *)
(* each time: <<"remote", b>>, <<"heads", b>>, or <<"bare", x>>, where x is*)
(* a branch, HEAD or the tag v1.                                           *)
(***************************************************************************)
EXTENDS Naturals, FiniteSets, SequencesExt

CONSTANTS
  Branches,     \* the branches worked on, main and a pull request's pr aside
  Patches,      \* what the person may write, each once
  Requests,     \* the adds and removes that are run
  Nil,          \* no branch, no commit, no worktree, no base
  MaxCommands,  \* bound on the commands
  MaxMoves      \* bound on what others do on the remote

Names == Branches \cup {"pr"}
Refs == Names \cup {"main"}

Words == Patches \cup {"root", "u", "v"}
Commits == Seq(SUBSET Words) \ {<<>>}
Bases == ({"remote", "heads"} \X Refs) \cup ({"bare"} \X (Refs \cup {"HEAD", "v1"}))
Jobs == [op : {"none", "add", "remove"}, branch : Names \cup {Nil}, name : Names \cup {Nil}, base : Bases \cup {Nil},
         onto : BOOLEAN, attach : {"no", "branch", "pull"}, offline : BOOLEAN, rebase : BOOLEAN, tty : BOOLEAN,
         keep : BOOLEAN, force : BOOLEAN, drop : BOOLEAN]
Trees == [branch : Names, stopped : BOOLEAN]
(* A base that moves with the branch: the branch itself, or the HEAD of its *)
(* worktree.                                                               *)
OfItself(b) == {<<"bare", "HEAD">>, <<"bare", b>>, <<"heads", b>>}

ASSUME NamesAssumption == Branches \cap {"main", "pr", "HEAD", "v1"} = {} /\ "root" \notin Patches
ASSUME NilAssumption == /\ Nil \notin Names \cup Bases \cup Trees /\ Nil \notin Commits
(* No add names as its base a branch it may be for (README, section 6).    *)
ASSUME RequestsAssumption ==
  \A q \in Requests : /\ q \in Jobs
                      /\ q.op = "add" => q.branch # Nil \/ q.attach = "pull"
                      /\ \A b \in Names : (q.attach = "pull" \/ b = q.branch) => q.base \notin OfItself(b)

VARIABLES
  origin,       \* the repository has a remote
  local,        \* refs/heads
  tracked,      \* refs/remotes/origin, the pull request's ref as pr
  remote,       \* the remote's own branches, the head of the pull request as pr
  cfg,          \* branch.<name>.qory-base
  upstream,     \* branch.<name>.merge: the branch of that name, or the pull request's ref
  wt,           \* the worktree at the path of each name: its branch, and whether a rebase stopped in it
  edits,        \* the changes to tracked files there that are not committed
  step, job,    \* the command: its step and its request
  found,        \* what the command found
  used,         \* history: the patches written,
  letGo,        \* those that the person let go: by --force, --delete-branch, the answer delete,
                \* or as a change in a worktree after the command in it had looked for changes
  commands, moves

refs == <<local, tracked, remote>>
config == <<cfg, upstream>>
places == <<wt, edits>>
command == <<job, found>>
history == <<used, letGo>>
worktreeVars == <<origin, refs, config, places, step, command, history, commands, moves>>

-----------------------------------------------------------------------------
(* Commits.                                                                 *)
Root == <<{"root"}>>
Holds(c) == IF c = Nil THEN {} ELSE UNION ToSet(c)
Has(c, d) == d # Nil /\ IsPrefix(d, c)
(* git rev-list c --not those: how many of c's last commits none of them has*)
Past(c, those) == {n \in 1..Len(c) : \A d \in those \ {Nil} : ~IsPrefix(SubSeq(c, 1, n), d)}
Fork(c, d) == CHOOSE n \in 0..Len(c) : /\ IsPrefix(SubSeq(c, 1, n), d)
                                      /\ (n = Len(c) \/ ~IsPrefix(SubSeq(c, 1, n + 1), d))
Since(c, d) == SubSeq(c, Fork(c, d) + 1, Len(c))
(* git rebase --onto new old: what old does not have by patch, less what    *)
(* new has already.                                                         *)
Copies(c, old, new) ==
  {n \in Fork(c, old) + 1 .. Len(c) : c[n] \notin ToSet(Since(old, c)) /\ ~c[n] \subseteq Holds(new)}
Nth(S, i) == CHOOSE n \in S : Cardinality({m \in S : m <= n}) = i
Rebased(c, old, new) ==
  LET those == Copies(c, old, new) IN new \o [i \in 1..Cardinality(those) |-> c[Nth(those, i)]]

-----------------------------------------------------------------------------
(* Bases.                                                                   *)
CommitOf(ref, head) ==
  IF ref[1] = "remote" THEN tracked[ref[2]]
  ELSE CASE ref[2] = "HEAD" -> head [] ref[2] = "v1" -> Root [] OTHER -> local[ref[2]]
resolves(ref) == CommitOf(ref, local["main"]) # Nil
OnRemote(x) == origin /\ (x = "HEAD" \/ (x \in Refs /\ tracked[x] # Nil))
DefaultBase == IF origin THEN <<"remote", "main">> ELSE <<"bare", "main">>
(* resolveBase: the remote's branch before the local one; Nil is an error. *)
resolveBase(given) ==
  IF given = Nil THEN DefaultBase
  ELSE IF given[1] = "bare" /\ OnRemote(given[2])
       THEN <<"remote", IF given[2] = "HEAD" THEN "main" ELSE given[2]>>
  ELSE IF resolves(given) THEN given ELSE Nil
recordedBase(b) == IF cfg[b] # Nil /\ resolves(cfg[b]) THEN cfg[b] ELSE Nil

-----------------------------------------------------------------------------
(* What the branch of a worktree has of its own.                            *)
Elsewhere(b, those) == {local["main"]} \cup {tracked[r] : r \in Refs} \cup those
own(b) ==
  Past(local[b], Elsewhere(b, IF recordedBase(b) = Nil THEN {} ELSE {CommitOf(recordedBase(b), local[b])}))
landingBase(b) == resolveBase(recordedBase(b))
(* The base has each of the branch's changes, or all of them as one; not    *)
(* a part of them.                                                          *)
landed(b, base) ==
  LET c == local[b]
      d == CommitOf(base, c)
      mine == Since(c, d)
      theirs == ToSet(Since(d, c))
  IN mine # <<>> /\ (ToSet(mine) \subseteq theirs \/ UNION ToSet(mine) \in theirs)

-----------------------------------------------------------------------------
(* Commands.                                                                *)
Idle == [op |-> "none", branch |-> Nil, name |-> Nil, base |-> Nil, onto |-> FALSE, attach |-> "no", offline |-> FALSE,
         rebase |-> FALSE, tty |-> FALSE, keep |-> FALSE, force |-> FALSE, drop |-> FALSE]
Nothing == [at |-> Nil, ref |-> Nil, old |-> Nil, n |-> 0, existed |-> TRUE, waslocal |-> FALSE]
Shown(w) == IF wt[w] = Nil \/ wt[w].stopped THEN Nil ELSE wt[w].branch
On(b) == {w \in Names : wt[w] # Nil /\ Shown(w) = b}
Goes(next) == step' = next /\ UNCHANGED <<origin, commands, moves>>

Start(q) ==
  /\ step = "idle" /\ commands < MaxCommands /\ commands' = commands + 1
  /\ job' = q /\ found' = Nothing
  /\ step' = IF q.op = "add" THEN "fetch" ELSE "find"
  /\ UNCHANGED <<origin, refs, config, places, history, moves>>
(* An error return, a command of worktree.run that fails, a kill: what was  *)
(* done stays.                                                              *)
Ends == Goes("idle") /\ job' = Idle /\ found' = Nothing
Stops == step # "idle" /\ Ends /\ UNCHANGED <<refs, config, places, history>>

(* Add: the remote first, all of its branches, then what is attached to.    *)
Fetched == [r \in Refs |-> IF r = "pr" \/ remote[r] = Nil THEN tracked[r] ELSE remote[r]]
Fetch ==
  /\ step = "fetch"
  /\ tracked' = IF origin /\ ~job.offline THEN Fetched ELSE tracked
  /\ Goes("attach")
  /\ UNCHANGED <<local, remote, config, places, command, history>>
(* A pull request is the one branch of the remote at its head, or a branch  *)
(* of its own that nothing is pushed from.                                  *)
PullBranches == {b \in Names \ {"pr"} : remote[b] = remote["pr"]}
Attaches ==
  /\ step = "attach"
  /\ \E b \in Names :
       \/ job.attach = "no" /\ b = job.branch /\ UNCHANGED <<tracked, job>>
       \/ /\ origin /\ remote[b] # Nil
          /\ \/ job.attach = "branch" /\ b = job.branch
             \/ job.attach = "pull" /\ {b} = IF PullBranches = {} THEN {"pr"} ELSE PullBranches
          /\ tracked' = [tracked EXCEPT ![b] = remote[b]]
          /\ job' = [job EXCEPT !.branch = b]
  /\ Goes("base")
  /\ UNCHANGED <<local, remote, config, places, found, history>>
(* A base that resolves to nothing is an error on every path.               *)
Resolves ==
  /\ step = "base" /\ resolveBase(job.base) # Nil
  /\ found' = [found EXCEPT !.ref = resolveBase(job.base)]
  /\ Goes("place")
  /\ UNCHANGED <<refs, config, places, job, history>>
(* The worktree already on the branch, or the path of the name, which is    *)
(* free or on the branch.                                                   *)
PathFor == IF job.name = Nil THEN job.branch ELSE job.name
FindPlace ==
  /\ step = "place"
  /\ \E w \in Names :
       /\ IF On(job.branch) = {} THEN w = PathFor ELSE w \in On(job.branch)
       /\ wt[w] # Nil => Shown(w) = job.branch
       /\ found' = [found EXCEPT !.at = w]
       /\ Goes(IF wt[w] = Nil THEN "make" ELSE "upstream")
  /\ UNCHANGED <<refs, config, places, job, history>>
(* git worktree add: it makes the branch, and may fail after that; it       *)
(* refuses a branch that a rebase stopped on.                               *)
IsNew(b) == local[b] = Nil /\ job.attach = "no" /\ ~OnRemote(b)
StartOf(b) ==
  CASE local[b] # Nil -> local[b]
    [] IsNew(b) -> CommitOf(found.ref, local["main"])
    [] OTHER -> tracked[b]
Make ==
  LET b == job.branch IN
  /\ step = "make" /\ ~\E w \in Names : wt[w] # Nil /\ wt[w].branch = b
  /\ local' = [local EXCEPT ![b] = StartOf(b)]
  /\ \/ /\ wt' = [wt EXCEPT ![found.at] = [branch |-> b, stopped |-> FALSE]]
        /\ found' = [found EXCEPT !.existed = ~IsNew(b), !.waslocal = local[b] # Nil] /\ UNCHANGED job
        /\ Goes(IF IsNew(b) THEN "record" ELSE "upstream")
     \/ Ends /\ UNCHANGED wt
  /\ UNCHANGED <<tracked, remote, config, edits, history>>
(* recordBase, of a branch that is new and of one that was put on the base. *)
Record ==
  /\ step = "record" /\ cfg' = [cfg EXCEPT ![job.branch] = found.ref]
  /\ Goes(IF found.existed THEN "bring" ELSE "upstream")
  /\ UNCHANGED <<refs, upstream, places, command, history>>
Upstream ==
  /\ step = "upstream"
  /\ upstream' = IF origin THEN [upstream EXCEPT ![job.branch] = IF job.branch = "pr" THEN "pull" ELSE "own"] ELSE upstream
  /\ Goes(IF job.attach # "no" /\ found.waslocal THEN "forward" ELSE "onto")
  /\ UNCHANGED <<refs, cfg, places, command, history>>
(* fastForward: git refuses it also where the edits are in its way.         *)
FastForward ==
  LET b == job.branch IN
  /\ step = "forward"
  /\ \/ Has(tracked[b], local[b]) /\ local' = [local EXCEPT ![b] = tracked[b]]
     \/ ~Has(tracked[b], local[b]) /\ UNCHANGED local
     \/ edits[found.at] # {} /\ UNCHANGED local
  /\ Goes("onto")
  /\ UNCHANGED <<tracked, remote, config, places, command, history>>

-----------------------------------------------------------------------------
(* runner.onto: a branch that existed is put on the base that was given.    *)
Tip == local[job.branch]
Old(b) == IF recordedBase(b) = Nil THEN resolveBase(Nil) ELSE recordedBase(b)
OntoLooks ==
  /\ step = "onto"
  /\ IF ~(found.existed /\ job.onto) THEN Goes("bring") /\ UNCHANGED found
     ELSE /\ edits[found.at] = {}
          /\ IF Has(Tip, CommitOf(found.ref, Tip)) THEN Goes("record") /\ UNCHANGED found
             ELSE LET old == CommitOf(Old(job.branch), Tip) IN
                  /\ found' = [found EXCEPT !.old = Old(job.branch), !.n = Cardinality(Past(Tip, {old}))]
                  /\ Goes("answer")
  /\ UNCHANGED <<refs, config, places, job, history>>
OntoAsks ==
  /\ step = "answer"
  /\ \/ (job.rebase \/ job.tty) /\ Goes("move")
     \/ ~job.rebase /\ job.tty /\ Goes("bring")
  /\ UNCHANGED <<refs, config, places, command, history>>
Resets == edits' = [edits EXCEPT ![found.at] = {}] /\ local' = [local EXCEPT ![job.branch] = CommitOf(found.ref, Tip)]
ResetsAlways ==                                                              \* mutant
  step = "move" /\ Resets /\ Goes("record") /\ UNCHANGED <<tracked, remote, config, wt, command, history>>
OntoMoves ==
  LET old == CommitOf(found.old, Tip) IN
  /\ step = "move"
  /\ \/ found.n = 0 /\ Resets /\ Goes("record") /\ UNCHANGED wt
     \/ /\ found.n > 0 /\ edits[found.at] = {} /\ old # Nil
        /\ \/ /\ local' = [local EXCEPT ![job.branch] = Rebased(Tip, old, CommitOf(found.ref, Tip))]
              /\ Goes("record") /\ UNCHANGED wt
           \/ wt' = [wt EXCEPT ![found.at].stopped = TRUE] /\ Goes("abort") /\ UNCHANGED local
        /\ UNCHANGED edits
  /\ UNCHANGED <<tracked, remote, config, command, history>>
OntoAborts ==
  /\ step = "abort" /\ wt' = [wt EXCEPT ![found.at].stopped = FALSE] /\ Ends
  /\ UNCHANGED <<refs, config, edits, history>>
(* Links, copies and worktree.run.add, which change no branch.              *)
Prepares == step = "bring" /\ Ends /\ UNCHANGED <<refs, config, places, history>>

-----------------------------------------------------------------------------
(* Remove: a worktree by its path, as stood in, by its branch, or else by   *)
(* the name it was added as.                                                *)
Find ==
  /\ step = "find"
  /\ \E w \in Names :
       /\ wt[w] # Nil /\ (w = job.name \/ w \in On(job.name))
       /\ found' = [found EXCEPT !.at = w] /\ job' = [job EXCEPT !.branch = Shown(w)]
  /\ Goes("look")
  /\ UNCHANGED <<refs, config, places, history>>
Deletes == job.branch # Nil /\ ~job.keep
(* Uncommitted changes refuse the removal, unless --force. *)
Looks ==
  /\ step = "look" /\ (job.force \/ (edits[found.at] = {} /\ ~wt[found.at].stopped))
  /\ letGo' = letGo \cup (IF job.force THEN edits[found.at] ELSE {}) \cup (IF Deletes /\ job.drop THEN Holds(Tip) ELSE {})
  /\ Goes("count")
  /\ UNCHANGED <<refs, config, places, command, used>>
OwnNow == IF job.branch = Nil THEN {} ELSE own(job.branch)
Counts ==
  /\ step = "count"
  /\ Goes(IF ~Deletes \/ OwnNow = {} THEN "run" ELSE "fetchBase")
  /\ UNCHANGED <<refs, config, places, command, history>>
(* A fetch of the base that fails leaves it as it is. *)
FetchBase ==
  LET base == landingBase(job.branch) IN
  /\ step = "fetchBase"
  /\ tracked' \in {tracked} \cup (IF ~job.offline /\ base # Nil /\ base[1] = "remote" /\ remote[base[2]] # Nil
                                  THEN {[tracked EXCEPT ![base[2]] = remote[base[2]]]} ELSE {})
  /\ Goes("land")
  /\ UNCHANGED <<local, remote, config, places, command, history>>
Lands ==
  LET base == landingBase(job.branch) IN
  /\ step = "land"
  /\ Goes(IF OwnNow = {} \/ (base # Nil /\ landed(job.branch, base)) \/ job.drop THEN "run" ELSE "ask")
  /\ UNCHANGED <<refs, config, places, command, history>>
(* Push, keep, delete or abort; nobody to ask is an error, as abort is.     *)
Asks ==
  /\ step = "ask" /\ job.tty
  /\ \/ Goes("push") /\ UNCHANGED <<job, letGo>>
     \/ job' = [job EXCEPT !.keep = TRUE] /\ Goes("run") /\ UNCHANGED letGo
     \/ letGo' = letGo \cup Holds(Tip) /\ Goes("run") /\ UNCHANGED job
  /\ UNCHANGED <<refs, config, places, found, used>>
PushesTo(b) ==
  /\ origin /\ (remote[b] = Nil \/ Has(local[b], remote[b]))
  /\ remote' = [remote EXCEPT ![b] = local[b]] /\ tracked' = [tracked EXCEPT ![b] = local[b]]
Pushes ==
  /\ step = "push" /\ PushesTo(job.branch) /\ upstream' = [upstream EXCEPT ![job.branch] = "own"]
  /\ Goes("run")
  /\ UNCHANGED <<local, cfg, places, command, history>>
(* worktree.run.remove changes no branch; then git worktree remove --force, *)
(* and git branch -D, which takes the branch's section of the config along. *)
RemovesTree ==
  /\ step = "run" /\ wt' = [wt EXCEPT ![found.at] = Nil] /\ edits' = [edits EXCEPT ![found.at] = {}]
  /\ IF Deletes THEN Goes("delete") /\ UNCHANGED command ELSE Ends
  /\ UNCHANGED <<refs, config, history>>
DeletesBranch ==
  LET b == job.branch IN
  /\ step = "delete" /\ local[b] # Nil /\ ~\E w \in Names : wt[w] # Nil /\ wt[w].branch = b
  /\ local' = [local EXCEPT ![b] = Nil]
  /\ cfg' = [cfg EXCEPT ![b] = Nil] /\ upstream' = [upstream EXCEPT ![b] = Nil]
  /\ Ends
  /\ UNCHANGED <<tracked, remote, places, history>>

-----------------------------------------------------------------------------
(* The person: edits and commits at any step of a command in the worktree   *)
(* after it looked; the rest, and what others do, while no command runs, or *)
(* one reads the remote, waits for an answer or is about to delete.  At the *)
(* other steps, which read none of it, it is the same before or after them. *)
Looked == step \in {"answer", "move", "abort", "count", "fetchBase", "land", "ask", "push", "run"}
At(w) == step = "idle" \/ (Looked /\ found.at = w)
Apart == step \in {"idle", "answer", "fetchBase", "ask", "run"}
Afar == step \in {"idle", "attach", "fetchBase", "ask"}
Same == UNCHANGED <<origin, step, command, commands>>
Edit(w, p) ==
  /\ At(w)
  /\ wt[w] # Nil /\ p \notin used
  /\ edits' = [edits EXCEPT ![w] = @ \cup {p}] /\ used' = used \cup {p}
  /\ letGo' = IF Looked THEN letGo \cup {p} ELSE letGo
  /\ Same /\ UNCHANGED <<refs, config, wt, moves>>
Commit(w) ==
  /\ At(w)
  /\ wt[w] # Nil /\ ~wt[w].stopped /\ edits[w] # {}
  /\ local' = [local EXCEPT ![wt[w].branch] = Append(@, edits[w])] /\ edits' = [edits EXCEPT ![w] = {}]
  /\ Same /\ UNCHANGED <<tracked, remote, config, wt, history, moves>>
Push(w) ==
  /\ Apart /\ Shown(w) # Nil /\ upstream[Shown(w)] = "own" /\ PushesTo(Shown(w))
  /\ Same /\ UNCHANGED <<local, config, places, history, moves>>
AbortsRebase(w) ==
  /\ wt[w] # Nil /\ wt[w].stopped /\ step = "idle" /\ wt' = [wt EXCEPT ![w].stopped = FALSE]
  /\ Same /\ UNCHANGED <<refs, config, edits, history, moves>>
MergesHere(b) ==
  /\ Apart /\ local[b] # Nil /\ local[b] # local["main"] /\ Has(local[b], local["main"])
  /\ local' = [local EXCEPT !["main"] = local[b]]
  /\ Same /\ UNCHANGED <<tracked, remote, config, places, history, moves>>

(* Others, on the remote: a commit, and the merge of a branch, as it is, as *)
(* a squash or rebased, which may delete the branch.                        *)
Moves(next) == Afar /\ moves < MaxMoves /\ moves' = moves + 1 /\ remote' = next
               /\ Same /\ UNCHANGED <<local, tracked, config, places, history>>
OthersCommit(r) == origin /\ remote[r] # Nil /\ Moves([remote EXCEPT ![r] = Append(@, {"u"})])
OthersMerge(b) ==
  LET main == remote["main"] mine == Since(remote[b], main) IN
  /\ origin /\ remote[b] # Nil /\ mine # <<>>
  /\ \E merged \in {main \o mine, Append(main, UNION ToSet(mine))}, kept \in {remote[b], Nil} :
       Moves([remote EXCEPT !["main"] = merged, ![b] = kept])

-----------------------------------------------------------------------------
Nowhere(S) == [x \in S |-> Nil]
WorktreeInit ==
  /\ origin \in BOOLEAN
  /\ local = [Nowhere(Refs) EXCEPT !["main"] = Root]
  /\ tracked = IF origin THEN local ELSE Nowhere(Refs)
  /\ remote \in IF origin THEN {[tracked EXCEPT !["pr"] = Append(Root, {"v"}), ![b] = c] :
                                  b \in Branches, c \in {Nil, Append(Root, {"u"})}} ELSE {tracked}
  /\ cfg = Nowhere(Refs) /\ upstream = Nowhere(Refs)
  /\ wt = Nowhere(Names) /\ edits = [w \in Names |-> {}]
  /\ step = "idle" /\ job = Idle /\ found = Nothing
  /\ used = {} /\ letGo = {}
  /\ commands = 0 /\ moves = 0

Adds == Fetch \/ Attaches \/ Resolves \/ FindPlace \/ Make \/ Record \/ Upstream \/ FastForward
          \/ OntoLooks \/ OntoAsks \/ OntoMoves \/ OntoAborts \/ Prepares
Removes == Find \/ Looks \/ Counts \/ FetchBase \/ Lands \/ Asks \/ Pushes \/ RemovesTree \/ DeletesBranch
Person == \/ \E w \in Names : Commit(w) \/ Push(w) \/ AbortsRebase(w) \/ \E p \in Patches : Edit(w, p)
          \/ \E b \in Names : MergesHere(b)
Others == \/ \E r \in Refs \ {"pr"} : OthersCommit(r)
          \/ \E b \in Names : OthersMerge(b)
WorktreeNext == (\E q \in Requests : Start(q)) \/ Adds \/ Removes \/ Stops \/ Person \/ Others
WorktreeSpec == WorktreeInit /\ [][WorktreeNext]_worktreeVars

-----------------------------------------------------------------------------
(* Nothing a person wrote is lost to a remove, or to a branch moved onto    *)
(* another base: a patch is still uncommitted in its worktree or on some    *)
(* branch, here or on the remote, by itself or in a squash, unless the      *)
(* person let it go or wrote it after the command had looked.               *)
Pushed == UNION {Holds(remote[r]) : r \in Refs}
Kept == (UNION {Holds(local[r]) : r \in Refs}) \cup Pushed \cup (UNION {edits[w] : w \in Names})
NothingLost == used \subseteq Kept \cup letGo
=============================================================================
