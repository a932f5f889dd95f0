------------------------------- MODULE Fetch --------------------------------
(***************************************************************************)
(* qory run fetches the repositories of a run into its working folder on   *)
(* this machine, git going through the run's host proxy, and records later *)
(* what the setup left in them (internal/preparation).  Another walled run *)
(* may use the folder before, and between two steps; while the folder is   *)
(* held it waits.  The setup container is up while the record is made, and *)
(* its programs write in the folder.                                       *)
(*                                                                         *)
(* A path is a sequence of segments <<folded, form>>: on github.com two    *)
(* segments with one folded name are the same.  A repository's .git is what*)
(* a check of it tells apart.  Lengths of the list and of a path, hidden   *)
(* URLs and git's words are left out, and so is the checkout of a work     *)
(* item's branch (WorkBranch).                                             *)
(***************************************************************************)
EXTENDS Naturals, Sequences, FiniteSets

CONSTANTS Jobs,       \* what a run's variables and documents may say
          Heads,      \* what a remote may answer of its HEAD
          Trees,      \* what a commit may have at .qory
          Folders,    \* the working folders a run may start in
          MaxWrites   \* how often another program writes in the folder

Path == Seq(STRING \X STRING)
JobType == [github : BOOLEAN, paths : Seq(Path), target : Path, version : STRING, here : BOOLEAN]
KeyNames == {"init", "fetch", "other", "remote"}
AtQory == Trees \cup {"none"}
FolderType ==
  [isLink : BOOLEAN, git : {"none", "file", "dir"}, parts : BOOLEAN, links : BOOLEAN, keys : SUBSET KeyNames,
   commits : BOOLEAN, entries : BOOLEAN, above : BOOLEAN, qory : AtQory, excluded : BOOLEAN]
(* A run's list is any list of paths, and its folder any folder.           *)
FetchAssumption == Jobs \subseteq JobType /\ Folders \subseteq FolderType

VARIABLES
  job,                \* the run's list of repositories and its target
  remotes,             \* place in the list -> its remote
  folder,             \* the working folder
  used, walled,       \* a walled run used the folder; one runs in it
  hold,               \* this run holds the folder
  step, at,             \* the step, and the repository it is at
  clones,             \* place in the list -> its commit, once it is fetched
  private,            \* the keys of the copies git status reads
  changes

vars == <<job, remotes, folder, used, walled, hold, step, at, clones, private, changes>>

Absent == "none"

-----------------------------------------------------------------------------
(* The list.                                                               *)
Folded(github, path) == IF github THEN [i \in DOMAIN path |-> path[i][1]] ELSE path
sameRepository(github, p, q) == Folded(github, p) = Folded(github, q)
inside(github, inner, outer) ==
  Len(inner) > Len(outer) /\ sameRepository(github, SubSeq(inner, 1, Len(outer)), outer)
repositoryPath(p) == p # <<>> /\ \A i \in DOMAIN p : p[i][1] \notin {".", "..", ".git"}

(* Check takes the list: paths, each once, none of the further ones inside *)
(* another; on github.com owner/name, of one owner.                        *)
Check(j) ==
  \A i \in DOMAIN j.paths :
    /\ repositoryPath(j.paths[i])
    /\ \A k \in 1..(i - 1) : ~sameRepository(j.github, j.paths[k], j.paths[i])
    /\ j.github => Len(j.paths[i]) = 2 /\ j.paths[i][1][1] = j.paths[1][1][1]
    /\ \A k \in 2..(i - 1) : ~inside(j.github, j.paths[k], j.paths[i]) /\ ~inside(j.github, j.paths[i], j.paths[k])

(* A target at a version, on the run's system, is the list's first entry.  *)
Versioned(j) == j.version # Absent /\ j.here
targetIn(j) == {i \in DOMAIN j.paths : sameRepository(j.github, j.paths[i], j.target)}
TargetTaken(j) ==
  Versioned(j) => targetIn(j) # {} /\ (\A i \in targetIn(j) : i = 1) /\ j.version = "commit"
Unlisted(j) == Versioned(j)
Further == DOMAIN job.paths \ {1}

-----------------------------------------------------------------------------
(* The working folder.                                                     *)
Unsafe(f) == f.links                  \* a link, a hard link, alternates, grafts, commondir
gitFiles(f) == f.git = "dir" /\ ~Unsafe(f)
gitParts(f) == f.parts
FetchKeys == {"fetch"}
keysIn(keys, fetched) == keys \subseteq {"init"} \cup (IF fetched THEN FetchKeys ELSE {})
keysOf(f, fetched) == gitFiles(f) /\ keysIn(f.keys, fetched)

(* hostgit's settings check: it stops on a folder a walled run uses, and on *)
(* a key git acts on in a place a walled run used.                         *)
Holds(f) == ~walled /\ ~(used /\ "other" \in f.keys)

(* What git init leaves, and what another program may make of the folder.  *)
GitInit(f) == [f EXCEPT !.git = "dir", !.parts = TRUE, !.keys = {"init"}]
Writes(f) ==
  {[f EXCEPT !.entries = TRUE]}
  \cup (IF f.git = Absent THEN {GitInit(f), [GitInit(f) EXCEPT !.keys = {"init", "other"}]} ELSE {})
  \cup (IF f.git = "dir"
        THEN {[f EXCEPT !.links = TRUE], [f EXCEPT !.parts = FALSE], [f EXCEPT !.commits = TRUE],
              [f EXCEPT !.keys = @ \cup {"other"}], [f EXCEPT !.keys = @ \cup {"remote"}]}
        ELSE {})

-----------------------------------------------------------------------------
Final == {"nothing", "refused", "failed", "recorded"}
Goes(from, to) == step = from /\ step' = to
Stop(from) == Goes(from, "failed") /\ hold' = FALSE
Same == <<job, remotes, used, walled, clones, private, changes, at>>

TakesList ==
  /\ step = "list"
  /\ step' = IF job.paths = <<>> THEN IF Unlisted(job) THEN "refused" ELSE "nothing"
           ELSE IF Check(job) /\ TargetTaken(job) THEN "tree" ELSE "refused"
  /\ UNCHANGED <<Same, folder, hold>>

(* emptyTree reads the folder's entries: a .git that is a folder and       *)
(* nothing else, or nothing at all.                                        *)
TreeStops(f) == f.git = "file" \/ (f.git = "dir" /\ f.entries) \/ (f.git = Absent /\ (f.entries \/ f.qory # Absent))
ReadsTree ==
  /\ IF TreeStops(folder) THEN Stop("tree")
     ELSE Goes("tree", IF folder.git = Absent THEN "init" ELSE "files") /\ UNCHANGED hold
  /\ UNCHANGED <<Same, folder>>

(* initFolder, under a hold of its own.                                    *)
HoldsForInit ==
  /\ IF folder.isLink \/ ~Holds(folder) THEN Stop("init") ELSE Goes("init", "making") /\ hold' = TRUE
  /\ UNCHANGED <<Same, folder>>
initFolder ==
  /\ hold' = FALSE
  /\ IF folder.above \/ folder.git # Absent THEN Goes("making", "failed") /\ UNCHANGED folder
     ELSE Goes("making", "files") /\ folder' = GitInit(folder)
  /\ UNCHANGED Same

(* checkedRepository: the files, then the hold, then the files and the keys.*)
ChecksFiles ==
  /\ IF gitFiles(folder) /\ gitParts(folder) THEN Goes("files", "hold") /\ UNCHANGED hold ELSE Stop("files")
  /\ UNCHANGED <<Same, folder>>
TakesHold ==
  /\ IF Holds(folder) THEN Goes("hold", "keys") /\ hold' = TRUE ELSE Stop("hold")
  /\ UNCHANGED <<Same, folder>>
(* Not the code: the files are not read again under the hold.              *)
KeysAlone(f) == keysIn(f.keys, FALSE)
UnderHold(f) == keysOf(f, FALSE)
ChecksKeys ==
  /\ IF UnderHold(folder) THEN Goes("keys", "top") /\ UNCHANGED hold ELSE Stop("keys")
  /\ UNCHANGED <<Same, folder>>

(* The top of the working tree, its commits and its remotes.               *)
ReadsTop ==
  /\ IF gitParts(folder) /\ ~folder.commits /\ "remote" \notin folder.keys
     THEN Goes("top", "remote") /\ UNCHANGED hold ELSE Stop("top")
  /\ UNCHANGED <<Same, folder>>

-----------------------------------------------------------------------------
(* fetchRun: origin, the remote's default branch, the commit, the checkout.*)
AddsRemote ==
  /\ step = "remote"
  /\ folder' = [folder EXCEPT !.keys = @ \cup FetchKeys]
  /\ IF remotes[1].head = "branch" THEN Goes("remote", "fetch") /\ UNCHANGED hold ELSE Stop("remote")
  /\ UNCHANGED Same
Wanted(i) == IF i = 1 /\ Versioned(job) THEN "version" ELSE "tip"
FetchesRun ==
  /\ step = "fetch"
  /\ IF Wanted(1) = "version" /\ ~remotes[1].serves
     THEN Stop("fetch") /\ UNCHANGED <<clones, folder>>
     ELSE /\ Goes("fetch", IF Further = {} THEN "fetched" ELSE "keep") /\ hold' = (Further # {})
          /\ clones' = [clones EXCEPT ![1] = Wanted(1)]
          /\ folder' = [folder EXCEPT !.qory = remotes[1].qory]
  /\ UNCHANGED <<job, remotes, used, walled, private, changes, at>>

keepRepositories ==
  /\ IF folder.qory \in {Absent, "dir"} THEN Goes("keep", "exclude") /\ UNCHANGED hold ELSE Stop("keep")
  /\ UNCHANGED <<Same, folder>>
exclude ==
  /\ Goes("exclude", "clone") /\ at' = 2
  /\ folder' = [folder EXCEPT !.excluded = TRUE]
  /\ UNCHANGED <<job, remotes, used, walled, clones, private, changes, hold>>

(* git clone, to the folder of the path, which it makes.                   *)
Clones ==
  /\ step = "clone"
  /\ IF remotes[at].head # "branch" THEN Stop("clone") /\ UNCHANGED <<clones, at>>
     ELSE /\ clones' = [clones EXCEPT ![at] = Wanted(at)]
          /\ IF at = Len(job.paths) THEN Goes("clone", "fetched") /\ hold' = FALSE /\ UNCHANGED at
             ELSE Goes("clone", "clone") /\ at' = at + 1 /\ UNCHANGED hold
  /\ UNCHANGED <<job, remotes, used, walled, folder, private, changes>>

(* Any git and any read of the folder may fail, or be stopped.             *)
GitFails ==
  /\ step \notin Final \cup {"list", "fetched"}
  /\ step' = "failed" /\ hold' = FALSE /\ UNCHANGED <<Same, folder>>

-----------------------------------------------------------------------------
(* RecordSetup: the configuration is copied, the copies are checked, and   *)
(* git status reads the copies.                                            *)
privateGitDir ==
  /\ IF gitFiles(folder) /\ gitParts(folder)
     THEN Goes("fetched", "copied") /\ private' = folder.keys ELSE Goes("fetched", "failed") /\ UNCHANGED private
  /\ UNCHANGED <<job, remotes, folder, used, walled, hold, at, clones, changes>>
StatusReads == private
ChecksCopies ==
  /\ IF keysIn(private, TRUE) THEN Goes("copied", "status") ELSE Goes("copied", "failed")
  /\ UNCHANGED <<Same, folder, hold>>
setupPaths == Goes("status", "recorded") /\ UNCHANGED <<Same, folder, hold>>

(* Other programs: a walled run that starts in the folder unless it is     *)
(* held, and after the fetch the programs of the setup container.          *)
WalledStarts ==
  /\ ~walled /\ ~hold /\ changes < MaxWrites /\ step \notin Final /\ step \notin {"fetched", "copied", "status"}
  /\ walled' = TRUE /\ used' = TRUE
  /\ UNCHANGED <<job, remotes, folder, hold, step, at, clones, private, changes>>
WalledEnds ==
  /\ walled /\ walled' = FALSE
  /\ UNCHANGED <<job, remotes, folder, used, hold, step, at, clones, private, changes>>
OthersWrite ==
  /\ changes < MaxWrites /\ step \notin Final
  /\ walled \/ step \in {"fetched", "copied", "status"}
  /\ folder' \in Writes(folder) /\ changes' = changes + 1
  /\ UNCHANGED <<job, remotes, used, walled, hold, step, at, clones, private>>

Remotes == [head : Heads, serves : BOOLEAN, qory : Trees]
Init ==
  /\ job \in Jobs
  /\ \E first \in Remotes, further \in Heads :
       remotes = [i \in DOMAIN job.paths |-> IF i = 1 THEN first ELSE [head |-> further, serves |-> TRUE, qory |-> Absent]]
  /\ folder \in Folders /\ used \in BOOLEAN /\ walled = FALSE /\ hold = FALSE
  /\ step = "list" /\ at = 0 /\ clones = [i \in DOMAIN job.paths |-> Absent] /\ private = {} /\ changes = 0

Next ==
  \/ TakesList \/ ReadsTree \/ HoldsForInit \/ initFolder \/ ChecksFiles \/ TakesHold \/ ChecksKeys \/ ReadsTop
  \/ AddsRemote \/ FetchesRun \/ keepRepositories \/ exclude \/ Clones \/ GitFails
  \/ privateGitDir \/ ChecksCopies \/ setupPaths \/ WalledStarts \/ WalledEnds \/ OthersWrite

Spec == Init /\ [][Next]_vars

-----------------------------------------------------------------------------
(* git on this machine never acts on a configuration another program wrote:*)
(* as it goes to the remotes, the repository has the keys of git init and  *)
(* of the fetch alone and no way out of the folder, and git status reads   *)
(* keys that were checked, whatever the setup's programs write meanwhile.  *)
GitReadsCheckedKeys ==
  /\ step \in {"remote", "fetch", "keep", "exclude", "clone"} =>
       gitFiles(folder) /\ gitParts(folder) /\ keysIn(folder.keys, TRUE) /\ ~folder.commits
  /\ step = "status" => keysIn(StatusReads, TRUE)

(* What is fetched is what the list and the documents say: the target at   *)
(* its version is the run's own repository, whatever case the documents    *)
(* write it in, each further one is in a folder of its own with no other   *)
(* inside, and git status of the run's repository does not list them.      *)
FetchedAsListed ==
  step \in {"fetched", "copied", "status", "recorded"} =>
    /\ Versioned(job) => clones[1] = "version" /\ sameRepository(job.github, job.paths[1], job.target)
    /\ \A i \in Further :
         /\ clones[i] = "tip" /\ folder.excluded /\ folder.qory \in {Absent, "dir"}
         /\ \A k \in Further \ {i} :
              ~\E n \in 0..Len(job.paths[i]) :
                 Folded(job.github, SubSeq(job.paths[i], 1, n)) = Folded(job.github, job.paths[k])

(* Both, of every fetch.                                                   *)
FetchesAsListed == GitReadsCheckedKeys /\ FetchedAsListed
=============================================================================
