# Models and proofs of qory

qory composes the harness of an AI agent in a git checkout, and runs the agent, behind a
wall (a container) or without one. On a machine of a node pool its pool program claims
dispatches from Qory Apiary and starts a `qory run` for each. This directory holds TLA+
modules of the parts of qory whose correctness depends on the order of steps (several
goroutines, several processes that share files and locks, requests whose answer is lost,
programs that are killed between two steps) or on a rule over many inputs. TLC checks each
module on small instances, and TLAPS proves the main theorems for every value of the
constants.

`PROJECT.json` maps each definition to the lines it stands for, and lists the components,
the runs, the mutants that break each property, the hazards and the theorems.

## 1. The system

| Part | Source | State it keeps | What is hard | Module |
|---|---|---|---|---|
| Pool loop | `internal/pool`, `cmd/pool.go` | slots, journal, one goroutine per dispatch | a crash between two steps, a journal that cannot be written, lost answers, a stop while all of it runs | `Pool`, `DispatchLife` |
| Provisioner client | `internal/provisioner` | what was sent within the clock's second | retries of a request that was applied, 429, callers that share the clock | answers in `Pool`, times and tries in `RequestClock` |
| Access keys | `cmd/accesskey*.go`, `internal/foragerdir` | secret, new, replaced, pending, answer files, `forager.yaml` | a stop between any two file operations, a lost answer | `Enrol` |
| Key lock, run locks | `internal/foragerdir/lock.go`, `cmd/server.go` | flock on `key.lock`, a lock file per run id | a sweep that removes files others open | `KeyLocks` |
| Places of walled runs | `internal/places`, `cmd/walled_places.go` | a lock and a record per place, Forager's registry | check, then use: git on this machine beside a container that writes | `Places` |
| git's settings, accepts | `internal/hostgit`, `internal/acting`, `cmd/accept_checkout.go` | records per place, what a person accepted | what git acts on was set by a run; an accept of something else than was shown | `HostGit` |
| qory run | `cmd/run.go`, `cmd/runkey.go`, `cmd/enginelock.go` | one run's steps, its record, its kept key | every failure, signal, limit and end by the gateway at every step | `QoryRun` |
| Preparation | `internal/preparation` | the working folder, the setup container | another run in the folder, the image's copy, a program left running | `Fetch`, `Setup` |
| Branch of a work item | `cmd/workbranch.go`, `cmd/pushstep.go`, `internal/preparation/push.go` | commits, the forge's branches, versions | two runs of one item, a cut between two pushes, a POST served late | `WorkBranch` |
| Artifacts | `cmd/artifact.go`, `internal/pushcheck`, `internal/runapi` | the store on disk, versions | two commands at once, kills, a body two readers read differently | `Artifacts` |
| Prebuilds | `internal/pool/prebuild`, `internal/prebuild` | containers, images, the result | a docker command that failed and had its effect all the same | `Prebuild` |
| Sources | `internal/source` | a cache of clones, a refs file per ref, a memo per compose | processes that share a clone without a lock, a ref that moves | `Sources` |
| Compose | `internal/compose`, `internal/stack` | none | rules over roles, only, exclude, bases, kinds that must not depend on the order | `Compose` |
| Module files | `internal/module`, `internal/render` | the opened directory, the home | links that lead elsewhere between the read and the copy, links to what is left out | `ModuleTree` |
| Render | `internal/render`, `cmd/harness.go` | links and the exclude file, the home, the report | what earlier composes left, two worktrees, edits | `Harness` |
| Machine keys, home | `cmd/harness.go`, `internal/config`, `cmd/incheckout.go` | none | which file decides, depending on the document that is composed | `Settings`, `InCheckout` |
| Worktrees | `internal/worktree`, `cmd/worktree.go` | working trees, branches, bases | remove deletes a branch by what its base had when last read | `Worktree` |
| Mask | `internal/secretmask`, `cmd/runmask.go`, `internal/statusfd` | the kept end of a stream | a secret cut by two writes | `Mask` |
| forager.yaml | `internal/config/forager*.go`, `images.go`, `integrations.go` | none | merges, aliases, nulls and names read twice, by the decoder and by what says why it refused | `ForagerFault`, `ForagerFile` |
| Programs of integrations, adapters, tools | `internal/config/integrations.go`, `owners_unix.go`, `internal/integration`, `cmd/run.go` | none | another user or a run changes the disk between any two readings and the start | `Programs` |
| Everything else | see `components` in `PROJECT.json` | | data, pure input and output | not modelled |

How they interact. The pool program starts `qory run` as a child with a run code in a
file without a name. A run takes the key lock shared while it looks for key files, and
holds its run lock for its life; key commands take the key lock exclusively. A walled run
holds the lock of each place it may write from before it records it until Forager's
session has listed the run; git on this machine holds the places it reads from, shared,
from its check to its end, and acts only on settings that the person set or accepted. The
run fetches its repositories, sets up a container, composes the harness (whose modules
come from sources that composes share by renames alone), runs the agent, pushes the
branch of its work item and stores the version; its programs push artifacts meanwhile.
All requests of a pool go through one provisioner client, and all output through the mask.

What makes each part correct: the pool forgets no lease and starts each run once; a
machine always has a usable key; no agent without a wall can read a key file; git never
reads a configuration a container can still write; a compose runs on whole clones of what
its refs named, and no module order decides what an agent gets; a version names only what
was pushed; a run key stays while its run owes an end; a worktree's removal takes nothing
a person wrote. Sections 2 and 3 give the exact properties.

## 2. The modules

Names follow the code where TLA+ allows it. Each module has one action per operation or
step, its bounds are constants, and what is outside this repository (Qory Apiary, Forager
and its registry, docker, git's remote, the forge, a person, an agent) is an action that
may do anything the code must cope with; `map` marks those definitions external. History
variables, such as what was ever sent or what a person wrote, are only read by properties.

**Pool, DispatchLife.** `main` is the position of `Pool.Run` and its claim loop, `at[d]`
the step of the one goroutine that handles dispatch `d`, `caller[d]` the function that
waits for it. `entries` and `file` are the journal in memory and on disk: a write that
failed may have changed the file, since the sync of the directory comes after the rename.
`dir` and `codeFile` are the run's folder and its run code; `child` is the `qory run`, an
orphan after a crash. `srv` and `net` are Qory Apiary: a request without an answer may be
applied later. `Crash` may come at any step and `Restart` replays the journal.
`DispatchLife` says what this adds up to: a dispatch is offered, leased, started and over,
or given back; it starts once, after its start was accepted, and never after it was given
back. `ImplementsLife` maps `srv` to the lease and an orphan to the running run.

**Enrol.** `accesskey enrol`, `replace` and a run's discovery, one file operation (link,
unlink, rename) a step. `Stop` is a kill, or a return after a failed step. The server may
take a request long after it was sent, or belong to another machine (`taken`, `foreign`).
`unkept` remembers that an answer could not be written; the properties hold until then,
because the code has no way to hold them after it.

**KeyLocks.** `shared` and `exclusive` are the flocks of `key.lock`; `entry`, `holder` and
`lost` are a run id's lock file by name, by lock, and those removed while open. A run that
starts (`startRun`), a key command (`keyLock`, `Sweep`) and `settleMarker` interleave by
single system calls. What key commands do to the files is any change of which exist: the
order is `Enrol`'s.

**Places.** `excl` and `held` are the two sides of a place's flock, `listed` is Forager's
registry, `recorded` the records. A run takes its locks in the order of names, asks the
registry, records, starts its container and lets go; a check takes each lock shared
without waiting, looks at the registry and holds until git is done. Each place has a lock of
its own, and places may lie inside one another: the lock of an inner place does not hold off
a run at the outer one, only the registry's answer does. `since`, a history variable, has
the runs that were listed after a check's look at a place.

**HostGit.** What git's check reads of a checkout whose git directory is its own, in
another place, or in none: each entry of `.git` and of the configuration compared with
the record, in the order in which the code loads records; `accept-checkout` shows what it
read, reads again and writes. Check, git and hold are one step, since their interleaving
is `Places`.

**Sources, Fetch, Setup.** What a run gets onto the machine. `Sources`: a compose looks up
its memo, the refs file and the clone, fetches beside its place, and lands the clone by a
rename; two composes share `clone` and `ref` without a lock, and `Push` moves the remote.
`Fetch`: the repositories of a run, checked, cloned and later recorded in a folder that
another walled run may write in. `Setup`: the image's copy added to the commit's tree, the
commands of the commit's configuration, and the agent's home and environment, beside a
program that a command left running.

**RequestClock, Mask.** `RequestClock`: the callers of one client, their tries and doubling
waits, and `take`, under the client's lock, which gives each identity one request a
second. `Mask`: what `qory run` prints, in writes of any length, as the writer keeps back
what may be the start of a known value, and as the splitter hands lines to the status
descriptor.

**ForagerFault, ForagerFile.** forager.yaml as nodes. `ForagerFault`: the decoder (a library,
external) and the two walks beside it, before a decode and after a refused one, with their
limit. `ForagerFile`: `LoadForager` section by section in the code's order, what reads the
instance's name alone, the check of the via's certificates and the rows of `qory config`. A
value is what it is to its key: good, wrong, empty, or one that holds a secret. The egress
is read whole and, when that fails, entry by entry: the two must agree. `ForagerInputs` has
the files: each key with each value, and the ones with aliases, merges and keys written twice.

**WorkBranch, Artifacts.** `WorkBranch`: a run picks a version, fetches and checks out its
commits, lets an agent work, commits, pushes every repository and stores the next version;
a commit is its history, so ancestors are prefixes. Two runs of one item, a person and a
forge that serves requests late interleave. `Artifacts`: push and pull over the store's
files, by rename, and the proxy that checks a body before it sends it on.

**QoryRun.** `RunE` step by step: the key, the open or join, the setup container, compose,
the engine lock, the agent, the push, the end and its record, the close; with failures,
two signals, the time limit, the grace period, a kill, an end by the gateway, `qory run
resend`, and other runs at the engine lock. `Jobs` lists the kinds of job.

**Prebuild.** `Launch` of `internal/pool/prebuild` and the step inside the wall of
`internal/prebuild`, two processes that share a signal, an exit and the result's file. A
docker command that failed may have had its effect. The target step starts from an image the
documents name, from a standard image of the registry, or from what the environment step builds.

**Compose, Settings, InCheckout.** Pure rules as operators. `Compose`: one harness of
modules with roles, `only`, `exclude`, bases, kinds and settings is composed, edited and
composed again. `Settings`: which file sets the machine keys and the home, for each command
and document. `InCheckout`: which files a run with a key may read from.

**ModuleTree.** The files of one module in the checkout, a tree of paths with links: the
compose opens the module's directory, records its path, reads the entries (groups of
skills, hooks, agents, servers, files, fragments) and copies the module and each entry into
the home through what it opened, while the agent or a person changes the tree between any
two steps. `TreeInputs` has the trees, built from one plain module by a few changes each.

**Harness.** Compose and remove write links, the exclude file of the repository, the home
and its report, step by step, in two worktrees at once, beside edits and kills.

**Programs.** The integrations, adapters and tools of forager.yaml: each is looked up,
resolved, compared with the places of runs, followed link by link, checked up to `/` and
described, one reading of the disk a step, and started later by the path checked. Between
any two steps another user changes what owner, group, mode and the sticky bit let them
change, and a run what is in its places. What describe answers is a choice.

**Worktree.** `worktree add`, its rollback and `remove` with its questions, as git
commands, beside a person and a remote that merges, squashes and rebases. A commit is its
history. What was pushed counts as kept while some branch of the remote has it: a push
after the remote merged and deleted a branch takes it from the fetched refs alone.

An MC module (`MC...`) gives the constants of one run; those of `Pool`, `Enrol` and `KeyLocks`
are in their .cfg alone. Five runs have two to four parts that
share no state, and a behaviour is of one of them: the state space is their sum, not their
product. `RunInputs` composes `Sources`, `Fetch` and `Setup`, and `WorkItem` composes
`WorkBranch` and `Artifacts`, for any constants, with the assumptions of each; theorems are
about them as well as runs. `MCPlaces` (`Places`, `HostGit` and `Programs`), `MCRequestClock`
(`RequestClock`, `Mask` and `ForagerFile`) and `MCCompose` (`Compose`, `Settings`, `InCheckout` and
`ModuleTree`) compose for TLC alone. `RequestTimes` has the part of `RequestClock`'s state that its promise is
about, so that the theorem in `PoolProofs` and the run state one property.

## 3. What TLC checks

Every passing run also has a mutant for each of its properties: one mapped definition
changed the way a plausible bug would, which TLC must find under the same configuration.
All actions and disjuncts of the next-state relations fire in these runs.

| Run | Instance | Shows |
|---|---|---|
| `pool` | 2 dispatches, 1 slot, 1 crash, one 429, journal faults before the crash; 530,000 states | `NoLeaseForgotten`, `SlotsExact`, `ImplementsLife`, `StoppedPoolEnds` (a stop ends) |
| `enrol` | 2 codes, 2 keys, 2 stops | `KeptKeyStays`, `Finishable`, `NeverLeftWithoutKey`, `FinishesKept` |
| `keylocks` | 2 runs, 1 key command, 2 run ids, 4 starts | `UnwalledNeverBesideKey`, `LiveRunsListed`, `EveryWaitEnds` |
| `places` | 2 runs and 1 check at 3 places, one inside another and one apart, 3 starts; 2 checkouts with 2 runs, 1 write and 1 edit; 56 disks and settings with 2 changes; 1,550,000 states | `GitBesideNoRun`, `ActsOnTheirs` |
| `sources` | 2 composes, 2 commits, 1 move, tag, branch and pin; lists and folders of a fetch with 2 writes; trees of a commit and of a copy; 2,460,000 states | `NoHalfClone`, `FollowsTheRemote`, `MemoHolds`, `FetchesAsListed`, `StartsOnTheCommit` |
| `request_clock` | 2 callers, 2 identities, 3 tries, 2 ticks, the clock set back once; some 200 texts of three pieces in 3 writes; 3,500 files; 555,000 states | `NeverTwice`, `MaskedAndReadAsWritten` |
| `work_branch` | 2 runs, 2 repositories, 2 tries of a POST, 1 move by a person; 3 artifact commands, 2 at once, 2 versions, 8 bodies; 1,960,000 states | `VersionsArePushed`, `VersionsGoOn`, `StoredOnce`, `StoredAsDone` |
| `qory_run` | one run of each kind of job; 420,000 states | `KeyKeptWhileOwed`, `EndsAsRecorded`, `WritesAlone`, `StoppedRunsEnd` |
| `harness` | 2 worktrees, 4 composes, 3 commands, 1 upset; 2,990,000 states | `LinksResolve`, `LinesFollowLinks`, `RemoveUndoesAll` |
| `prebuild` | 87 repositories, machines and documents; 1,050,000 states | `ReportedIsChecked`, `SharedFitsAll`, `EndsClean` |
| `compose` | 94,000 harnesses of up to 4 modules, 2,400 machines, 28,000 checkouts, the trees of a module with 1 change; 1,193,000 states | `HarnessResolves`, `OnlyBringsItsNeeds`, `OrderDecidesNothing`, `BaseStays`, `CheckoutDecidesItsOwn` |
| `worktree` | 3 commands over 2 branches and a pull request, each stopped anywhere, 1 move of the remote; 3,110,000 states | `NothingLost` |

Why these bounds. A hazard of this code needs two actors at one resource and one upset (a
crash, a lost answer, a stop) between two steps, and then a recovery: two of each actor,
one upset and enough restarts to see the recovery end. `pool` has one slot so that the two
dispatches compete for it; `places` has three starts so that a run can come while another
goes and a check is between, and three places because a check of an inner place and a run
at the outer one take different locks, while one apart makes runs that do not meet. `enrol` stops twice because a recovery may be stopped too. In
`request_clock` three tries reach the doubled wait. `compose` needs three modules for the
order to matter and a fourth for what an excluded one pulled. Runs and composes that are
alike are symmetric where no property is temporal.

## 4. Fairness

Four properties are liveness: `StoppedPoolEnds`, `FinishesKept`, `EveryWaitEnds` and
`StoppedRunsEnd`. They assume weak fairness of the steps that a process itself takes, which
the operating system's scheduling gives: its next file operation, a timer of its own that
runs out, the last try of a request, the kill after the grace period. Nothing is assumed of
Qory Apiary, of a person or of signals, nor of when a run ends: a live run may stay for
ever. flock has no order among those who wait, so `EveryWaitEnds` rests on the bounded
number of starts: without a bound a waiter may be overtaken for ever, in the code as well.

## 5. What TLAPS proves

Each proof module EXTENDS its component and proves, for every value of the constants that
the component's named assumptions allow, that an inductive invariant `IInv` holds
initially, is kept by each step, and implies the properties. `SourcesProofs` and
`WorkBranchProofs` extend the compositions `RunInputs` and `WorkItem` and prove about each
part, `F` (`Fetch`), `S` (`Setup`) and `A` (`Artifacts`) through the INSTANCE there;
`AccessKeyProofs` has both machines of the key directory, `Enrol` and `KeyLocks`, and
`GitProofs` both that are about git on this machine, `Places` and `Worktree`;
`PoolProofs` also has the client that sends the pool's requests, `C` (`RequestClock`), whose
assumptions are a hypothesis of its theorems. TLC evaluates every assumption on the
instances of the runs. Of the 40 properties of the runs 29 are stated by a theorem.

| Module | Theorems | Property of a run |
|---|---|---|
| `PoolProofs` | `NoLeaseIsForgotten`, `SlotsAreExact`, `PoolImplementsLife` | `NoLeaseForgotten`, `SlotsExact`, `ImplementsLife` |
| | `TypeCorrect`, `CodeFilesAreUnlinked`, `ReleasesAreOfClaims` | |
| `PoolProofs`, for `RequestClock` | `BytesAreNew`, `ClockTypeCorrect` | `NeverTwice` |
| `AccessKeyProofs`, for `Enrol` | `KeptKeyAlwaysStays`, `AlwaysFinishable`, `LeavesAKey` | `KeptKeyStays`, `Finishable`, `NeverLeftWithoutKey` |
| | `TypeCorrect`, `OnlyEnrolledInPlace`, `NeverSentAgain` | |
| `AccessKeyProofs`, for `KeyLocks` | `KeysNeedAWall`, `SweepSeesLiveRuns` | `UnwalledNeverBesideKey`, `LiveRunsListed` |
| | `LocksTypeCorrect`, `RunIdsAreExclusive` | |
| `GitProofs`, for `Places` | `GitWaits` | `GitBesideNoRun` |
| | `TypeCorrect`, `RecordsAreThePersons` | |
| `GitProofs`, for `Worktree` | `NothingIsLost` | `NothingLost` |
| | `WorktreeTypeCorrect` | |
| `SourcesProofs` | `ResultsAreWhole`, `BranchesFollow`, `ComposesAgree` | `NoHalfClone`, `FollowsTheRemote`, `MemoHolds` |
| | `TypeCorrect`, `RecordsHaveClones` | |
| `SourcesProofs`, for `Fetch` and `Setup` | `FetchesChecked`, `SetupStarts` | `FetchesAsListed`, `StartsOnTheCommit` |
| `WorkBranchProofs` | `EveryVersionIsPushed`, `EveryVersionGoesOn`, `EveryVersionIsStoredOnce` | `VersionsArePushed`, `VersionsGoOn`, `StoredOnce` |
| | `TypeCorrect`, `EveryPushLeavesOut` | |
| `WorkBranchProofs`, for `Artifacts` | `CommandsKeepVersions` | `StoredAsDone` |
| `PrebuildProofs` | `ReportsAreChecked`, `SharedImagesFit`, `PrebuildsEndClean` | `ReportedIsChecked`, `SharedFitsAll`, `EndsClean` |
| | `TypeCorrect` | |
| `QoryRunProofs` | `KeyStaysWhileOwed`, `EndsTheWayItRecords`, `WritesBesideNone` | `KeyKeptWhileOwed`, `EndsAsRecorded`, `WritesAlone` |
| | `TypeCorrect` | |
| `HarnessProofs` | `LinksAlwaysResolve`, `LinesAlwaysFollow`, `RemoveAlwaysUndoes` | `LinksResolve`, `LinesFollowLinks`, `RemoveUndoesAll` |
| | `TypeCorrect` | |

The invariants, and why the properties alone are not inductive:

- **Pool.** That no lease is forgotten needs `LeaseIsHeld` (a lease is in the journal, or
  held by the step that is at it) and `ForgottenIsSettled` (an entry is dropped only after
  Qory Apiary settled it). That a run starts once needs `AnswersAreTrue` (a lost answer may
  have been applied), `StartedIsAccepted`, `JournalIsPast`, `BusyIsOne` (one goroutine per
  dispatch) and `GivenIsNew`. `SlotsExact` is an equation of cardinalities: `SameWork` says
  which steps keep the set of those who hold a slot, `SlotsMove` how each other step moves
  both sides by one; it assumes that there are finitely many dispatches.
  `PoolImplementsLife` maps each step to one of `DispatchLife`'s or to a stutter.
- **Enrol.** The parts say where the command's key is at each of its steps (`KeyIsHere`),
  that a move always has a second copy (`MoveIsSafe`), that what is in place was enrolled
  (`EnrolledHere`, `OneCodeEach`) and that a kept answer is kept until its key is in place
  (`LeavesUnanswered`, `AnswerIsKept`).
- **KeyLocks.** Who holds the key lock at which step, which files a run without a wall has
  seen missing, and that a sweep has still to look at, or has found, each live run.
- **Places.** A run holds each lock it took until its container starts, is listed before it
  writes, and whoever holds a place has seen every run that writes there (`GuardInv`).
  `GitBesideNoRun` says two things, and `GitWaits` proves both for any places: at a place that
  git holds no container writes; and a container that writes a place around it or inside it,
  whose lock is another one, was not listed when git's check looked. The second needs
  `SinceInv`: a listed run that overlaps a place a check has looked at was listed since. What
  the code does not promise, and the property does not say, is that such a run waits for git.
- **Sources.** Each commit that a compose, a memo or the refs file holds has a clone that
  is whole or was moved aside while it was; what was read from the remote was true since
  the resolve began.
- **RequestClock.** What was sent is older than the second last pruned, or still kept by the
  client at that second; a caller that waits has a try left.
- **WorkBranch.** What the forge serves (tips, versions, what a run read and pushed); a run
  goes on from the version it picked; what its POSTs would store does not change from the
  first one on; a POST is sent only while none of its versions is in the index but one
  served late; no commit qory makes has its own `.qory`.
- **Fetch.** The folder is held from the look at its keys to the last clone, and no walled
  run is in it meanwhile, so what was looked at is what git reads (`HoldInv`, `CleanInv`);
  the list is taken whole before anything is cloned, and its jobs are fetched in their
  order, into folders that lie apart (`ListedInv`).
- **Setup.** What is in the folder is the commit's or was free to be added; what is copied
  as a whole lies beside the commit and holds nothing that was removed; whatever fits is
  there, or has an entry above it that the copy has still to go through (`NothingMissed`).
- **Artifacts.** A body that qory takes is the same push to every reader (`OneReading`), so
  that what passed the check is what is stored (`GateInv`, `ServerInv`); whoever has the
  number of a version has it alone (`OwnersInv`); in a run the store holds files of
  versions and nothing else (`StoreInv`); the version that a push keeps lacks only what the
  push has left to keep (`KeepInv`).
- **Prebuild.** What passed each check at each step (`Passed`), whose the engine's images
  and containers are, and when the run's directory is there. That the base which is
  reported is the one the target comes from is an induction over the stages of a
  Dockerfile, by the least stage that would differ (`Least`, `StartOfStage`).
- **QoryRun.** From the open to the close a run has a record and owes its end, and a run
  through `via` kept its key before it opened; the session is closed at most once, and by
  then the exit agrees with the end; a setup container is up only at some steps, and a run
  that reads alone is behind a wall from compose on.
- **Harness.** The tasks of a command are any sequence that `Legal` allows, in the order the
  code makes them. For the exclude file, which the worktrees share: until two have it read
  at once, each line a worktree needs is there or about to be written (`Fresh`, `Covered`),
  and no line on its way out is one that another needs (`Alone`, `Harmless`). For each
  worktree: no link stands behind a symlink (`Reach`), a link of copilot or of a module has
  its trace in the home and the report, for the command that will look for it (`OfCopilot`,
  `OfModule`), and a link that is to go has a task that takes it (`Pruning`). The
  assumption says that a request names leaves and runtimes of the model's own tree.
- **Worktree.** `LossOK`: what a command is about to take is somewhere else, or was let go.
  It rests on what the command looked at: nothing past the others (`NothingPast`), landed on
  the base (`LandedHolds`), copied or in the old base (`RebaseHolds`, by `Ranks`: each commit
  a rebase takes has a place of its own). `AddOK` and `RemoveOK` say what a command knows at
  its steps, `RefsOK` that whatever was fetched is still on the remote, by some branch. The
  assumption is on the requests: no add names its own branch as its base (section 6).

Only model-checked:

- the four liveness properties: liveness under fairness and ENABLED are out of the
  prover's reach;
- what a recursive definition computes for every input (the folds of `Compose`, the scan of
  `Mask`), since the induction theorems take an operator as a parameter, which the provers
  here cannot instantiate;
- the properties of `HostGit`, `Programs`, `Mask`, `ForagerFile`, `Compose`, `Settings`, `InCheckout` and
  `ModuleTree` (`ForagerFile` walks nodes, `ModuleTree` follows links, by recursion).

## 6. Not modelled, and what the code and its texts disagree about

Left out, besides the parts that `PROJECT.json` lists as not modelled:

- `Mask`: case folding, percent and JSON forms, key shapes, escape sequences, the writes of
  other streams. A secret with an escape sequence inside a line longer than the longest
  that the descriptor takes could be cut before it is masked again.
- `Fetch`, `Setup`: lengths, hidden URLs, modes and times, the text of the configuration,
  variable expansion, failures that end the setup the same way.
- `HostGit`: includes of an unrecorded configuration, order and removal of settings, links.
- `Programs`: hard links, moves of a file that keep its owner, the JSON of a description and its
  settings schema; a place that a run first uses after the program was found.
- `Artifacts`: sizes and limits, verdicts, standard input, the container of a check.
- `Harness`: contents of the rendered files; the report's write and its record, which are one
  step. `Compose`: source resolution, parsing, the variants and links of modules but for the
  check that a base's has none, nested maps, MCP, tiers. `ModuleTree`: contents, sizes, modes, renames, hard links. `Settings`: links of `.qory`, tiers, worktree keys.
- `Worktree`: links, `worktree.run`, list; two removes whose bases are each other.
- `ForagerFile`: lines and wording of refusals, each grammar beyond what it takes of four
  kinds of value, `gateway.lock_memory` and the limits of numbers, and edits by an enrolment.
- `Pool`: the machine log. `Sources`: path sources and exports. `Enrol`: `--print`.
- `qory update`: two at once may install the older release last.

Met while modelling. These are texts of the repository that the code does not follow in a
corner; the instances leave the corners out, and the properties are stated without them:

- A key command that finishes from its kept answer ends the pending enrolment of another
  code. A failed write of the pool's journal may have changed the journal, though its
  comment says it is as it was.
- A fetch moves aside the whole clone of another compose (`source.go:975`, against
  `source.go:264` and `source.go:933`): `MemoHolds` says no more than the code does.
- `qory run -f <file>` without a key decides by the checkout's `qory.yaml`, without looking
  at `-f`: under `-f base` the checkout's own `harness.home`, `launch` and `env` are used,
  though `harness.go:844` says they are left out. A later verb reads the checkout's own
  home as well, and a worktree inside its main checkout takes that for a directory above.
- The entry that a check of git compares is the first record in load order that holds the
  work tree (`check.go:720`), while `accept-checkout` writes the record of the nearest
  place: beside an outer place's record an accept has no effect.
- `worktree add feature --base HEAD`, or `--base feature`, records a base that is the
  branch itself, so `remove` deletes the branch and its commits unasked, against
  `worktree.go:709`. A failed `rev-list` counts as no commits.
- `harness remove` leaves the links of `AGENTS.md` and `.github` where `.agents/skills` is
  the checkout's own. Two worktrees that change the exclude file at once may lose a line
  (`LinesFollowLinks` is conditional on that); a module link of a compose killed before its
  report is in no list.
- Settings: a null value first and another value after it passes, the other order
  collides. `Suggest` names an exclude that an `only` or the extending kinds may refuse.
- A push of an artifact reads its files again after the send; two pushes outside a run may
  take one version number; a POST whose answer was lost may be stored twice if repeated.
- `fetch` reads whether the folder is empty before it holds it.
- A docker push or inspect of a prebuild has no time limit; an environment image pushed
  before a failed target push stays unreported; a kill leaves the run's directory.

Hazards without a property: `pool.go` forgets an entry before it removes the folder; slots
do not count orphans; a heartbeat refused is only logged; a record added while `worktree
remove` ends is dropped with the place; a clock that is set back.
