----------------------------- MODULE WorkBranch -----------------------------
(***************************************************************************)
(* The branch of a work item, from run to run: cmd/workbranch.go picks the *)
(* version a run starts at, internal/preparation fetches it and checks it  *)
(* out, and cmd/pushstep.go with internal/preparation/push.go commits what *)
(* the agent left, pushes each repository and stores the next version.     *)
(*                                                                         *)
(* A commit is the sequence of the changes that led to it, so one commit   *)
(* descends from another when that one is a prefix. The forge and Qory     *)
(* Apiary's index of versions are external: the forge takes fast-forwards, *)
(* and a request can be answered, lost before or after it was served, or   *)
(* served late.                                                            *)
(***************************************************************************)
EXTENDS Naturals, Sequences, FiniteSets, SequencesExt

CONSTANTS Runs,            \* runs of the work item
          Repositories,    \* the run's list of repositories, the target first
          Stage,           \* per run: the stage of the workflow it is in
          Contents,        \* per repository: the sets of changed files an agent may leave or commit
          None,
          MaxBranchTries,  \* maxBranchTries
          MaxPersonMoves   \* bound: what a person does to the branch

ASSUME RunsAssumption == None \notin Runs /\ "main" \notin Runs /\ "person" \notin Runs
ASSUME RepositoriesAssumption == Repositories \in Seq(STRING) /\ Repositories # <<>> /\ IsInjective(Repositories)
ASSUME ContentsAssumption == Contents \in [Range(Repositories) -> SUBSET SUBSET {"work", "setup", "qory"}]
ASSUME BoundsAssumption == MaxBranchTries \in Nat \ {0} /\ MaxPersonMoves \in Nat

VARIABLES
  tip,      \* per repository: the commit of the branch on the forge, None without it
  served,   \* per repository: the commits the forge serves by id
  index,    \* the versions of the artifact branch, oldest first
  pc,       \* per run: the step it is at
  approved, \* per run: the version a gate approved of a stage's input, 0 without one
  version,  \* per run: WorkBranch.Version, the commit of each repository with an entry
  start,    \* per run: WorkRepository.Commit of each repository
  head,     \* per run: HEAD in each repository of the working folder
  files,    \* per run: what differs in the folder from the commit before the run
  ahead,    \* per run: the heads to push, None for a repository with nothing new
  pushed,   \* per run: WorkBranch.pushed
  tries,    \* per run: the POSTs it sent
  posts,    \* per run: its POSTs that may still be served
  late,     \* per run: how many of them were served after the run's read
  moves     \* bound: what a person did

forge == <<tip, served>>
started == <<approved, version, start>>
folder == <<head, files>>
step == <<ahead, pushed, tries, posts, late>>
vars == <<forge, index, pc, started, folder, step, moves>>

Repos == Range(Repositories)
Main == <<[by |-> "main", own |-> FALSE, tree |-> {}]>>   \* the target version, and each default branch
NoEntry == [p \in Repos |-> None]
Change(r, own, tree) == [by |-> r, own |-> own, tree |-> tree]
Tree(commit) == Last(commit).tree
GoTo(r, to) == pc' = [pc EXCEPT ![r] = to]
Unbegun == [p \in Repos |-> Main]
NoFiles == [p \in Repos |-> {}]

(* The process of a run ends, with no POST sent.                            *)
Ends(r, how) ==
  /\ GoTo(r, how)
  /\ approved' = [approved EXCEPT ![r] = 0]
  /\ version' = [version EXCEPT ![r] = NoEntry]
  /\ start' = [start EXCEPT ![r] = Unbegun] /\ head' = [head EXCEPT ![r] = Unbegun]
  /\ files' = [files EXCEPT ![r] = NoFiles]
  /\ ahead' = [ahead EXCEPT ![r] = NoEntry] /\ pushed' = [pushed EXCEPT ![r] = {}]
  /\ UNCHANGED <<tries, posts, late>>

-----------------------------------------------------------------------------
(* readBranch.                                                              *)

Starts(r) ==
  /\ pc[r] = "idle"
  /\ GoTo(r, "snapshot")
  /\ UNCHANGED <<forge, index, started, folder, step, moves>>

(* The work item is read first, with the input that a gate has approved.    *)
ReadsWorkItem(r) ==
  /\ pc[r] = "snapshot"
  /\ \E n \in {0} \cup {i \in DOMAIN index : index[i].stage # Stage[r]} : approved' = [approved EXCEPT ![r] = n]
  /\ GoTo(r, "index")
  /\ UNCHANGED <<forge, index, version, start, folder, step, moves>>

(* A server with the feature off: the run works on the target, with no branch. *)
FeatureOff(r) == pc[r] = "snapshot" /\ Ends(r, "no branch") /\ UNCHANGED <<forge, index, moves>>

(* The number of the version chosenBranch takes of index, 0 for none.       *)
chosenBranch(stage, input) ==
  LET newest == Len(index)
  IN IF newest # 0 /\ index[newest].stage = stage THEN newest
     ELSE IF input # 0 THEN input ELSE newest

(* Then the index, which other runs may have added to since.                *)
ReadsBranch(r) ==
  /\ pc[r] = "index"
  /\ LET n == chosenBranch(Stage[r], approved[r])
     IN version' = [version EXCEPT ![r] = IF n = 0 THEN NoEntry ELSE index[n].doc]
  /\ approved' = [approved EXCEPT ![r] = 0]
  /\ GoTo(r, "fetch")
  /\ UNCHANGED <<forge, index, start, folder, step, moves>>

-----------------------------------------------------------------------------
(* RunAt and SwitchHeld.                                                    *)

(* fetchBranchCommit: a commit the forge does not serve stops the run.      *)
CommitFetched(r, p) == version[r][p] \in served[p] \cup {None}

(* sameQory: the target's commit has the .qory of the target version.       *)
SameQory(r) == LET c == version[r][Repositories[1]] IN c # None => "qory" \notin Tree(c)

(* The checkout, on the branch: at the version's commit, or where the fetch *)
(* left a repository with no entry.                                         *)
Switches(r) ==
  /\ pc[r] = "fetch"
  /\ \A p \in Repos : CommitFetched(r, p)
  /\ SameQory(r)
  /\ start' = [start EXCEPT ![r] = [p \in Repos |-> IF version[r][p] = None THEN Main ELSE version[r][p]]]
  /\ head' = [head EXCEPT ![r] = start'[r]]
  /\ GoTo(r, "agent")
  /\ UNCHANGED <<forge, index, approved, version, files, step, moves>>

(* Any step before the agent may fail: the run ends with nothing pushed.    *)
StopsBefore(r) ==
  pc[r] \in {"snapshot", "index", "fetch"} /\ Ends(r, "stopped") /\ UNCHANGED <<forge, index, moves>>

-----------------------------------------------------------------------------
(* The setup, RecordSetup and the agent, which may commit, rewrite history, *)
(* leave files, and be killed in a git command. "setup" is a path that the  *)
(* setup changed and RecordSetup recorded; as "work", the agent changed it. *)

Histories(r, p) ==
  LET from == start[r][p]
  IN {from} \cup {Append(from, Change(r, FALSE, t)) : t \in Contents[p] \ {{}}}
       \cup {<<Change(r, FALSE, t)>> : t \in Contents[p] \cap {{"work"}}}

AgentWorks(r) ==
  /\ pc[r] = "agent"
  /\ \E h \in [Repos -> UNION {Histories(r, p) : p \in Repos}], f \in [Repos -> UNION Range(Contents)] :
       /\ \A p \in Repos : h[p] \in Histories(r, p) /\ f[p] \in Contents[p]
       /\ head' = [head EXCEPT ![r] = h] /\ files' = [files EXCEPT ![r] = f]
  /\ GoTo(r, "left")
  /\ UNCHANGED <<forge, index, started, step, moves>>

(* keepsWork: the session did not start, the run was ended from outside, or *)
(* it only reads.                                                           *)
NotKept(r) == pc[r] = "agent" /\ Ends(r, "stopped") /\ UNCHANGED <<forge, index, moves>>

-----------------------------------------------------------------------------
(* Push: the checks, the locks, the commits, and only then the pushes.      *)

leftOut(r, p, path) == path = "qory" \/ (path = "setup" /\ "setup" \in files[r][p])

(* The index of commitLeft: HEAD, with each path the folder changed but the *)
(* left out ones, and .qory as the commit before the run has it.            *)
restoreLeftOut(r, p, staged) ==
  (staged \ {"qory"}) \cup (Tree(start[r][p]) \cap {"qory"})

commitLeft(r, p) ==
  LET was == Tree(head[r][p])
      changed == {path \in files[r][p] \cup was : (path \in files[r][p]) # (path \in was)}
      taken == {path \in changed : ~leftOut(r, p, path)}
      staged == restoreLeftOut(r, p, (was \ taken) \cup (files[r][p] \cap taken))
  IN IF staged = was THEN head[r][p] ELSE Append(head[r][p], Change(r, TRUE, staged))

(* Mutant: a branch the forge does not have yet takes any push.             *)
OnTopOfAny(r, p, commit) == TRUE

(* headPast: what is past the start, which it must descend from.            *)
OnTop(r, p, commit) == IsPrefix(start[r][p], commit)

Commits(r) ==
  LET new == [p \in Repos |-> commitLeft(r, p)]
  IN /\ pc[r] = "left"
     /\ \A p \in Repos : OnTop(r, p, new[p])
     /\ head' = [head EXCEPT ![r] = new]
     /\ ahead' = [ahead EXCEPT ![r] = [p \in Repos |-> IF new[p] = start[r][p] THEN None ELSE new[p]]]
     /\ files' = [files EXCEPT ![r] = NoFiles]
     /\ GoTo(r, "push")
     /\ UNCHANGED <<forge, index, started, pushed, tries, posts, late, moves>>

(* No repository has a commit past its start.                               *)
NothingNew(r) ==
  /\ pc[r] = "push" /\ ahead[r] = NoEntry
  /\ Ends(r, "nothing new") /\ UNCHANGED <<forge, index, moves>>

(* What stops the step before the first push: the folder stays as it is.    *)
PushesNothing(r) == pc[r] = "left" /\ Ends(r, "stopped") /\ UNCHANGED <<forge, index, moves>>

NotSafe(r) == PushesNothing(r)      \* safeAfterRun of the target, safeFurther of another repository
LockStays(r) == PushesNothing(r)    \* a lock of an agent not proven gone, or that is not a file
CommitFails(r) == PushesNothing(r)  \* one git command of commitLeft
NotOnTop(r) == (\E p \in Repos : ~OnTop(r, p, commitLeft(r, p))) /\ PushesNothing(r)

(* The next repository to push, in the list's order.                        *)
NextToPush(r, p) ==
  /\ ahead[r][p] # None /\ p \notin pushed[r]
  /\ \A i, j \in DOMAIN Repositories :
       Repositories[j] = p /\ i < j => ahead[r][Repositories[i]] = None \/ Repositories[i] \in pushed[r]

(* The forge takes a push of a new branch, and a fast-forward.              *)
TakenByForge(p, commit) == tip[p] # None => IsPrefix(tip[p], commit)

(* Mutant: the version is stored with the first push.                       *)
pushToFirst(r, p) ==
  /\ pc[r] = "push" /\ NextToPush(r, p) /\ TakenByForge(p, ahead[r][p])
  /\ tip' = [tip EXCEPT ![p] = ahead[r][p]]
  /\ served' = [served EXCEPT ![p] = @ \cup {ahead[r][p]}]
  /\ pushed' = [pushed EXCEPT ![r] = @ \cup {p}]
  /\ GoTo(r, "store")
  /\ UNCHANGED <<index, started, folder, ahead, tries, posts, late, moves>>

pushTo(r, p) ==
  /\ pc[r] = "push" /\ NextToPush(r, p) /\ TakenByForge(p, ahead[r][p])
  /\ tip' = [tip EXCEPT ![p] = ahead[r][p]]
  /\ served' = [served EXCEPT ![p] = @ \cup {ahead[r][p]}]
  /\ pushed' = [pushed EXCEPT ![r] = @ \cup {p}]
  /\ GoTo(r, IF \A q \in Repos : ahead[r][q] # None => q \in pushed'[r] THEN "store" ELSE "push")
  /\ UNCHANGED <<index, started, folder, ahead, tries, posts, late, moves>>

(* A failed push, which the forge may have taken all the same: no version.  *)
PushFails(r, p) ==
  /\ pc[r] = "push" /\ NextToPush(r, p)
  /\ \/ UNCHANGED forge
     \/ /\ TakenByForge(p, ahead[r][p])
        /\ tip' = [tip EXCEPT ![p] = ahead[r][p]]
        /\ served' = [served EXCEPT ![p] = @ \cup {ahead[r][p]}]
  /\ Ends(r, IF pushed[r] = {} THEN "stopped" ELSE "pushed, no version")
  /\ UNCHANGED <<index, moves>>

-----------------------------------------------------------------------------
(* storeBranch.                                                             *)

(* withCommit, for each repository pushed.                                  *)
withCommit(r) == [p \in Repos |-> IF ahead[r][p] = None THEN version[r][p] ELSE ahead[r][p]]
Version(r) == [writer |-> r, stage |-> Stage[r], doc |-> withCommit(r)]

(* One POST: answered, limited, refused, or without a response, when it was *)
(* served, will never be, or is still on its way.                           *)
postBranch(r) ==
  /\ pc[r] = "store" /\ tries[r] < MaxBranchTries
  /\ tries' = [tries EXCEPT ![r] = @ + 1]
  /\ \/ index' = Append(index, Version(r)) /\ GoTo(r, "stored") /\ UNCHANGED posts
     \/ GoTo(r, IF tries'[r] < MaxBranchTries THEN "store" ELSE "not stored") /\ UNCHANGED <<index, posts>>
     \/ GoTo(r, "not stored") /\ UNCHANGED <<index, posts>>
     \/ /\ GoTo(r, "ask")
        /\ \/ index' = Append(index, Version(r)) /\ UNCHANGED posts
           \/ UNCHANGED index /\ (UNCHANGED posts \/ posts' = [posts EXCEPT ![r] = @ + 1])
  /\ UNCHANGED <<forge, started, folder, ahead, pushed, late, moves>>

(* The push check of the version's file sends no POST when it fails.        *)
CheckFails(r) ==
  /\ pc[r] = "store" /\ tries[r] = 0
  /\ GoTo(r, "not stored")
  /\ UNCHANGED <<forge, index, started, folder, step, moves>>

(* Mutant: a POST without a response is sent again.                         *)
HasNone(r) == FALSE

(* hasBranchVersion: a version of this run with this document.              *)
Has(r) == \E i \in DOMAIN index : index[i].writer = r /\ index[i].doc = withCommit(r)

branchStored(r) ==
  /\ pc[r] = "ask"
  /\ \/ GoTo(r, IF Has(r) THEN "stored" ELSE IF tries[r] < MaxBranchTries THEN "store" ELSE "not stored")
     \/ GoTo(r, "not known")
  /\ UNCHANGED <<forge, index, started, folder, step, moves>>

(* Qory Apiary serves a POST that the run has given up on.                  *)
ServedLate(r) ==
  /\ posts[r] > 0
  /\ posts' = [posts EXCEPT ![r] = @ - 1]
  /\ late' = [late EXCEPT ![r] = @ + 1]
  /\ index' = Append(index, Version(r))
  /\ UNCHANGED <<forge, pc, started, folder, ahead, pushed, tries, moves>>

(* pushContext ends: a second signal, or the step's limit. Also a kill.     *)
Cut(r) ==
  /\ \/ pc[r] \in {"left", "push"} /\ Ends(r, IF pushed[r] = {} THEN "stopped" ELSE "pushed, no version")
     \/ pc[r] \in {"store", "ask"} /\ GoTo(r, "not known") /\ UNCHANGED <<started, folder, step>>
  /\ UNCHANGED <<forge, index, moves>>

-----------------------------------------------------------------------------
(* What a person does once a run failed: the ways out that the step prints, *)
(* a new version with the branch's heads or its deletion, or a push.        *)

PersonMoves ==
  /\ \E r \in Runs : pc[r] \in {"pushed, no version", "not stored", "not known"}
  /\ moves < MaxPersonMoves /\ moves' = moves + 1
  /\ \/ \E p \in Repos : tip[p] # None /\ tip' = [tip EXCEPT ![p] = None] /\ UNCHANGED <<served, index>>
     \/ \E p \in Repos :
          LET to == Append(IF tip[p] = None THEN Main ELSE tip[p], Change("person", FALSE, {"work"}))
          IN /\ tip' = [tip EXCEPT ![p] = to] /\ served' = [served EXCEPT ![p] = @ \cup {to}]
             /\ UNCHANGED index
     \/ /\ index' = Append(index, [writer |-> "person", stage |-> None, doc |-> tip])
        /\ UNCHANGED forge
  /\ UNCHANGED <<pc, started, folder, step>>

-----------------------------------------------------------------------------
Init ==
  /\ tip = NoEntry /\ served = [p \in Repos |-> {Main}] /\ index = <<>>
  /\ pc = [r \in Runs |-> "idle"]
  /\ approved = [r \in Runs |-> 0]
  /\ version = [r \in Runs |-> NoEntry]
  /\ start = [r \in Runs |-> Unbegun] /\ head = start
  /\ files = [r \in Runs |-> NoFiles]
  /\ ahead = [r \in Runs |-> NoEntry]
  /\ pushed = [r \in Runs |-> {}]
  /\ tries = [r \in Runs |-> 0] /\ posts = tries /\ late = tries
  /\ moves = 0

Prepares(r) == Starts(r) \/ ReadsWorkItem(r) \/ FeatureOff(r) \/ ReadsBranch(r) \/ Switches(r) \/ StopsBefore(r)
Works(r) == AgentWorks(r) \/ NotKept(r)
Pushes(r) == Commits(r) \/ NothingNew(r) \/ NotSafe(r) \/ LockStays(r) \/ CommitFails(r) \/ NotOnTop(r) \/ \E p \in Repos : pushTo(r, p) \/ PushFails(r, p)
Stores(r) == postBranch(r) \/ CheckFails(r) \/ branchStored(r) \/ ServedLate(r)

Next == PersonMoves \/ \E r \in Runs : Prepares(r) \/ Works(r) \/ Pushes(r) \/ Stores(r) \/ Cut(r)
Spec == Init /\ [][Next]_vars

-----------------------------------------------------------------------------
(* The type of the state: commits are not empty, files are of the paths.    *)
Paths == {"work", "setup", "qory"}
Changes == [by : Runs \cup {"main", "person"}, own : BOOLEAN, tree : SUBSET Paths]
AnyCommit == Seq(Changes) \ {<<>>}
Docs == [Repos -> {None} \cup AnyCommit]
Versions == [writer : Runs \cup {"person"}, stage : {Stage[r] : r \in Runs} \cup {None}, doc : Docs]
Storing == {"store", "ask", "stored", "not stored", "not known"}
Steps == {"idle", "snapshot", "index", "fetch", "agent", "left", "push", "stopped", "no branch",
          "nothing new", "pushed, no version"} \cup Storing
ForgeType ==
  tip \in Docs /\ served \in [Repos -> SUBSET AnyCommit] /\ index \in Seq(Versions) /\ moves \in Nat
StartedType == approved \in [Runs -> Nat] /\ version \in [Runs -> Docs] /\ start \in [Runs -> [Repos -> AnyCommit]]
FolderType == head \in [Runs -> [Repos -> AnyCommit]] /\ files \in [Runs -> [Repos -> SUBSET Paths]]
StepType ==
  /\ ahead \in [Runs -> Docs] /\ pushed \in [Runs -> SUBSET Repos]
  /\ tries \in [Runs -> Nat] /\ posts \in [Runs -> Nat] /\ late \in [Runs -> Nat]
TypeOK == pc \in [Runs -> Steps] /\ ForgeType /\ StartedType /\ FolderType /\ StepType

(* Every commit that a version names is on the forge: a version is stored   *)
(* only after every push of its run landed, whatever was cut or lost.       *)
VersionsArePushed ==
  \A i \in DOMAIN index, p \in Repos : index[i].doc[p] \in served[p] \cup {None}

(* A run's version goes on from where the run started: each commit in it    *)
(* descends from the one checked out, even where the branch is new on the   *)
(* forge, and no run's push drops commits that are on the branch.           *)
VersionsGoOn ==
  \A i \in DOMAIN index : LET r == index[i].writer IN r \in Runs =>
     \A p \in Repos : index[i].doc[p] # None => IsPrefix(start[r][p], index[i].doc[p])

(* No branch has another .qory than the target, whatever the agent staged   *)
(* or committed, and qory's own commits add nothing the setup alone made.   *)
LeftOutStays ==
  \A r \in Runs, p \in Repos : pc[r] \in {"push", "store", "stored"} /\ ahead[r][p] # None =>
     LET c == ahead[r][p]
     IN /\ "qory" \notin Tree(c)
        /\ Last(c).own /\ "setup" \in Tree(c) => "setup" \in Tree(Front(c))

(* A push step that succeeds has its version in the index, and a run has it *)
(* there once, however many POSTs it sent, but for the POSTs that Qory      *)
(* Apiary served after the run had read the index.                          *)
StoredOnce == \A r \in Runs :
  /\ pc[r] = "stored" => Has(r)
  /\ Cardinality({i \in DOMAIN index : index[i].writer = r}) <= 1 + late[r]
=============================================================================
