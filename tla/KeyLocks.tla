------------------------------ MODULE KeyLocks ------------------------------
(***************************************************************************)
(* The locks of forager.yaml's directory (internal/foragerdir/lock.go): the *)
(* key lock, shared by runs that start and exclusive for key commands, and *)
(* one lock file per run id. cmd/server.go's startRun, settleMarker, and   *)
(* cmd/accesskey.go's keyLock take them, in processes of their own.        *)
(*                                                                         *)
(* What a key command does to the key files is module Enrol's: here it is  *)
(* any of its steps, as they change which of the four kinds of file exist. *)
(***************************************************************************)
EXTENDS Naturals

CONSTANTS Runs,       \* processes of qory run
          Commands,   \* processes of a key command
          Ids,        \* run ids: a run code or a run key may give one twice
          None,
          MaxStarts   \* bound: how many processes start

ASSUME ProcessesAssumption == Runs \cap Commands = {} /\ None \notin Runs \cup Commands
ASSUME StartsAssumption == MaxStarts \in Nat

VARIABLES
  writable,  \* whether a lock file can be created in the directory
  files,     \* the kinds of key file there
  at,        \* per process: the step it is at, "idle" without one
  id,        \* per run: its run id
  walled,    \* per run: whether it has a wall
  shared,    \* the holders of locks/key.lock, shared
  exclusive, \* and exclusive
  entry,     \* per run id: what locks/<run id>.lock contains, "none" without it
  holder,    \* per run id: who holds the lock of that file
  lost,      \* the runs whose open lock file has no name any more
  todo,      \* per command: the listed ids Sweep has not looked at
  found,     \* per command: whether Sweep found a live run without a wall
  starts     \* bound: processes started

run == <<id, walled>>
keyLock == <<shared, exclusive>>
lockFiles == <<entry, holder, lost>>
sweep == <<todo, found>>
lockVars == <<writable, files, at, run, keyLock, lockFiles, sweep, starts>>

Kinds == {"secret", "new", "replaced", "old"}
Word(p) == IF walled[p] THEN "walled" ELSE "unwalled"
GoTo(p, step) == at' = [at EXCEPT ![p] = step]

-----------------------------------------------------------------------------
(* LockKey.                                                                 *)

TakeShared(p) == exclusive = {} /\ shared' = shared \cup {p} /\ UNCHANGED exclusive
TakeExclusive(p) == exclusive = {} /\ shared = {} /\ exclusive' = {p} /\ UNCHANGED shared
ReleaseKey(p) == shared' = shared \ {p} /\ exclusive' = exclusive \ {p}

-----------------------------------------------------------------------------
(* startRun, for a run with the id i.                                       *)

RunStarts(p, i, w) ==
  /\ at[p] = "idle" /\ starts < MaxStarts
  /\ starts' = starts + 1
  /\ id' = [id EXCEPT ![p] = i] /\ walled' = [walled EXCEPT ![p] = w]
  /\ GoTo(p, "lockKey")
  /\ UNCHANGED <<writable, files, keyLock, lockFiles, sweep>>

(* Mutant: the run looks for key files without the key lock.                *)
RunLocksNothing(p) ==
  /\ at[p] = "lockKey"
  /\ GoTo(p, IF ~walled[p] THEN "secret" ELSE IF writable THEN "open" ELSE "live")
  /\ UNCHANGED <<writable, files, run, keyLock, lockFiles, sweep, starts>>

(* In a directory that cannot be written the run goes on without the lock.  *)
RunLocksKey(p) ==
  /\ at[p] = "lockKey"
  /\ IF writable THEN TakeShared(p) ELSE UNCHANGED keyLock
  /\ GoTo(p, IF ~walled[p] THEN "secret" ELSE IF writable THEN "open" ELSE "live")
  /\ UNCHANGED <<writable, files, run, lockFiles, sweep, starts>>

(* heldSecret looks for one kind of file after the other.                   *)
After(kind) == CASE kind = "secret" -> "new" [] kind = "new" -> "replaced" [] kind = "replaced" -> "old"
                 [] OTHER -> IF writable THEN "open" ELSE "live"
RunLooks(p) ==
  /\ at[p] \in Kinds \ files
  /\ GoTo(p, After(at[p]))
  /\ UNCHANGED <<writable, files, run, keyLock, lockFiles, sweep, starts>>

RunRefused(p) ==
  /\ at[p] \in files
  /\ GoTo(p, "idle") /\ ReleaseKey(p)
  /\ UNCHANGED <<writable, files, run, lockFiles, sweep, starts>>

(* LockRun: open or create, lock without waiting, truncate, write.          *)
RunOpens(p) ==
  /\ at[p] = "open"
  /\ entry' = [entry EXCEPT ![id[p]] = IF @ = "none" THEN "empty" ELSE @]
  /\ lost' = lost \ {p}
  /\ GoTo(p, "flock")
  /\ UNCHANGED <<writable, files, run, keyLock, holder, sweep, starts>>

RunFlocks(p) ==
  /\ at[p] = "flock"
  /\ \/ /\ p \in lost /\ UNCHANGED holder
     \/ /\ p \notin lost /\ holder[id[p]] = None
        /\ holder' = [holder EXCEPT ![id[p]] = p]
  /\ GoTo(p, "truncate")
  /\ UNCHANGED <<writable, files, run, keyLock, entry, lost, sweep, starts>>

RunIsRunning(p) ==
  /\ at[p] = "flock" /\ p \notin lost /\ holder[id[p]] # None
  /\ GoTo(p, "idle") /\ ReleaseKey(p)
  /\ UNCHANGED <<writable, files, run, lockFiles, sweep, starts>>

Writes(p, content) == entry' = IF p \in lost THEN entry ELSE [entry EXCEPT ![id[p]] = content]

RunTruncates(p) ==
  /\ at[p] = "truncate"
  /\ Writes(p, "empty") /\ GoTo(p, "write")
  /\ UNCHANGED <<writable, files, run, keyLock, holder, lost, sweep, starts>>

RunWrites(p) ==
  /\ at[p] = "write"
  /\ Writes(p, Word(p)) /\ GoTo(p, "unlock")
  /\ UNCHANGED <<writable, files, run, keyLock, holder, lost, sweep, starts>>

(* Mutant: the key lock is kept for the run's life.                         *)
RunKeepsKey(p) ==
  /\ at[p] = "unlock"
  /\ GoTo(p, "live")
  /\ UNCHANGED <<writable, files, run, keyLock, lockFiles, sweep, starts>>

RunUnlocksKey(p) ==
  /\ at[p] = "unlock"
  /\ GoTo(p, "live") /\ ReleaseKey(p)
  /\ UNCHANGED <<writable, files, run, lockFiles, sweep, starts>>

-----------------------------------------------------------------------------
(* The run past startRun.                                                   *)

(* A walled run's one signed discovery: settleMarker, with the lock         *)
(* exclusive and no Sweep, deletes the secrets moved aside, or nothing.     *)
RunAsks(p) ==
  /\ at[p] = "live" /\ walled[p] /\ writable
  /\ GoTo(p, "settle")
  /\ UNCHANGED <<writable, files, run, keyLock, lockFiles, sweep, starts>>

RunSettlesMarker(p) ==
  /\ at[p] = "settle"
  /\ TakeExclusive(p) /\ GoTo(p, "settled")
  /\ UNCHANGED <<writable, files, run, lockFiles, sweep, starts>>

RunSettled(p) ==
  /\ at[p] = "settled"
  /\ files' \in {files, files \ {"old"}}
  /\ ReleaseKey(p) /\ GoTo(p, "on")
  /\ UNCHANGED <<writable, run, lockFiles, sweep, starts>>

(* The run ends, is refused at a failed step, or is killed: its locks go,   *)
(* its lock file stays, whatever was written of it.                         *)
RunEnds(p) ==
  /\ at[p] # "idle"
  /\ GoTo(p, "idle") /\ ReleaseKey(p)
  /\ holder' = [i \in Ids |-> IF holder[i] = p THEN None ELSE holder[i]]
  /\ UNCHANGED <<writable, files, run, entry, lost, sweep, starts>>

-----------------------------------------------------------------------------
(* A key command: keyLock, its work and its end.                            *)

CommandStarts(c) ==
  /\ at[c] = "idle" /\ writable /\ starts < MaxStarts
  /\ starts' = starts + 1
  /\ GoTo(c, "lockKey")
  /\ UNCHANGED <<writable, files, run, keyLock, lockFiles, sweep>>

(* Sweep lists the directory first.                                         *)
CommandLocksKey(c) ==
  /\ at[c] = "lockKey"
  /\ TakeExclusive(c)
  /\ todo' = [todo EXCEPT ![c] = {i \in Ids : entry[i] # "none"}]
  /\ found' = [found EXCEPT ![c] = FALSE]
  /\ GoTo(c, "sweep")
  /\ UNCHANGED <<writable, files, run, lockFiles, starts>>

(* Mutant: a run lock file is removed whoever holds its lock.               *)
SweepTakesAny(c, i) ==
  /\ at[c] = "sweep" /\ i \in todo[c]
  /\ holder' = [holder EXCEPT ![i] = c]
  /\ GoTo(c, "remove")
  /\ UNCHANGED <<writable, files, run, keyLock, entry, lost, sweep, starts>>

(* The lock of an ended run's file can be taken ...                         *)
SweepTakes(c, i) ==
  /\ at[c] = "sweep" /\ i \in todo[c] /\ holder[i] = None
  /\ holder' = [holder EXCEPT ![i] = c]
  /\ GoTo(c, "remove")
  /\ UNCHANGED <<writable, files, run, keyLock, entry, lost, sweep, starts>>

(* ... and the file is removed: whoever has it open keeps a nameless one.   *)
SweepRemoves(c, i) ==
  /\ at[c] = "remove" /\ holder[i] = c
  /\ entry' = [entry EXCEPT ![i] = "none"]
  /\ holder' = [holder EXCEPT ![i] = None]
  /\ lost' = lost \cup {p \in Runs : id[p] = i /\ at[p] \in {"flock", "truncate", "write", "unlock", "live",
                                                              "settle", "settled", "on"}}
  /\ todo' = [todo EXCEPT ![c] = @ \ {i}]
  /\ GoTo(c, "sweep")
  /\ UNCHANGED <<writable, files, run, keyLock, found, starts>>

SweepReads(c, i) ==
  /\ at[c] = "sweep" /\ i \in todo[c] /\ holder[i] # None
  /\ todo' = [todo EXCEPT ![c] = @ \ {i}]
  /\ found' = [found EXCEPT ![c] = @ \/ entry[i] # "walled"]
  /\ UNCHANGED <<writable, files, at, run, keyLock, lockFiles, starts>>

CommandGoes(c) ==
  /\ at[c] = "sweep" /\ todo[c] = {}
  /\ \/ /\ found[c] /\ GoTo(c, "idle") /\ ReleaseKey(c)
     \/ /\ ~found[c] /\ GoTo(c, "work") /\ UNCHANGED keyLock
  /\ UNCHANGED <<writable, files, run, lockFiles, sweep, starts>>

(* One step of an enrolment: a new key is made, moved aside, swapped in, or *)
(* the secret it replaces is linked or removed.                             *)
FileSteps == {files \cup {"new"}}
             \cup (IF "new" \in files THEN {files \cup {"old"}, files \ {"new"},
                                            (files \ {"new"}) \cup {"secret"}} ELSE {})
             \cup (IF "secret" \in files THEN {files \cup {"replaced"}} ELSE {})
             \cup {files \ {"replaced"}}
CommandWorks(c) ==
  /\ at[c] = "work"
  /\ files' \in FileSteps
  /\ UNCHANGED <<writable, at, run, keyLock, lockFiles, sweep, starts>>

(* The command ends at any step, done, with an error, or killed.            *)
CommandEnds(c) ==
  /\ at[c] # "idle"
  /\ GoTo(c, "idle") /\ ReleaseKey(c)
  /\ holder' = [i \in Ids |-> IF holder[i] = c THEN None ELSE holder[i]]
  /\ UNCHANGED <<writable, files, run, entry, lost, sweep, starts>>

-----------------------------------------------------------------------------
(* A directory as earlier runs and enrolments may have left it.             *)
LocksInit ==
  /\ writable \in BOOLEAN
  /\ files \in {{}, {"secret"}}
  /\ at = [p \in Runs \cup Commands |-> "idle"]
  /\ id \in {[p \in Runs |-> i] : i \in Ids}
  /\ walled = [p \in Runs |-> TRUE]
  /\ shared = {} /\ exclusive = {}
  /\ entry = [i \in Ids |-> "none"] /\ holder = [i \in Ids |-> None] /\ lost = {}
  /\ todo = [c \in Commands |-> {}] /\ found = [c \in Commands |-> FALSE]
  /\ starts = 0

RunStep(p) ==
  \/ RunLocksKey(p) \/ RunLooks(p) \/ RunRefused(p)
  \/ RunOpens(p) \/ RunFlocks(p) \/ RunIsRunning(p) \/ RunTruncates(p) \/ RunWrites(p) \/ RunUnlocksKey(p)
  \/ RunSettlesMarker(p) \/ RunSettled(p)

SweepStep(c, i) == SweepTakes(c, i) \/ SweepRemoves(c, i) \/ SweepReads(c, i)

KeyCommandStep(c) ==
  CommandLocksKey(c) \/ CommandGoes(c) \/ \E i \in Ids : SweepStep(c, i)

LocksNext ==
  \/ \E p \in Runs : \/ RunStep(p) \/ RunAsks(p) \/ RunEnds(p)
                     \/ \E i \in Ids, w \in BOOLEAN : RunStarts(p, i, w)
  \/ \E c \in Commands : KeyCommandStep(c) \/ CommandStarts(c) \/ CommandWorks(c) \/ CommandEnds(c)

(* A process goes on, and a command's work ends; a live run may stay.       *)
LocksSpec ==
  /\ LocksInit /\ [][LocksNext]_lockVars
  /\ \A p \in Runs : WF_lockVars(RunStep(p))
  /\ \A c \in Commands : WF_lockVars(KeyCommandStep(c)) /\ WF_lockVars(at[c] = "work" /\ CommandEnds(c))

-----------------------------------------------------------------------------
RunSteps == Kinds \cup {"idle", "lockKey", "open", "flock", "truncate", "write", "unlock", "live",
                        "settle", "settled", "on"}
CommandSteps == {"idle", "lockKey", "sweep", "remove", "work"}
(* Type invariant; the key lock is held by one process exclusively, or by   *)
(* any number shared.                                                       *)
LocksTypeOK ==
  /\ writable \in BOOLEAN /\ files \subseteq Kinds
  /\ at \in [Runs \cup Commands -> RunSteps \cup CommandSteps]
  /\ \A p \in Runs : at[p] \in RunSteps
  /\ \A c \in Commands : at[c] \in CommandSteps
  /\ id \in [Runs -> Ids] /\ walled \in [Runs -> BOOLEAN]
  /\ shared \subseteq Runs /\ exclusive \subseteq Runs \cup Commands
  /\ (\A x, y \in exclusive : x = y) /\ (exclusive = {} \/ shared = {})
  /\ entry \in [Ids -> {"none", "empty", "walled", "unwalled"}]
  /\ holder \in [Ids -> Runs \cup Commands \cup {None}] /\ lost \subseteq Runs
  /\ todo \in [Commands -> SUBSET Ids] /\ found \in [Commands -> BOOLEAN] /\ starts \in Nat

Live(p) == at[p] \in {"live", "settle", "settled", "on"}

(* No run without a wall is live while any kind of key file is there, which *)
(* its agent could read: the run looks before, the key command after.       *)
UnwalledNeverBesideKey == \A p \in Runs : Live(p) /\ ~walled[p] => files = {}

(* Sweep finds every live run: its file has its name still, says what the   *)
(* run is, and is locked by that run alone.                                 *)
LiveRunsListed ==
  writable => \A p \in Runs : Live(p) => /\ p \notin lost
                                         /\ holder[id[p]] = p /\ entry[id[p]] = Word(p)

(* No two runs of one id are live at a time: the second one is refused.     *)
OneRunPerId ==
  writable => \A p, q \in Runs : Live(p) /\ Live(q) /\ id[p] = id[q] => p = q

(* The runs that start, those that settle and the key commands wait for     *)
(* each other, and each wait ends.                                          *)
EveryWaitEnds ==
  /\ \A p \in Runs : at[p] \in {"lockKey", "settle"} ~> at[p] \notin {"lockKey", "settle"}
  /\ \A c \in Commands : at[c] = "lockKey" ~> at[c] # "lockKey"
=============================================================================
