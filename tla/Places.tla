------------------------------- MODULE Places -------------------------------
(***************************************************************************)
(* The holds on the places walled runs may write (internal/places), taken  *)
(* by a walled run that starts there (cmd/walled_places.go, hostgit's      *)
(* Starting and Record) and by git on this machine (hostgit's check and    *)
(* Hold, worktree remove).                                                 *)
(*                                                                         *)
(* Forager's registry of walled runs is external: a run is listed at its   *)
(* open or at its join, at the latest before its session answers, and a    *)
(* run whose qory is gone stays listed while its containers go.            *)
(***************************************************************************)
EXTENDS Naturals, FiniteSetsExt

CONSTANTS Places,    \* places, numbered in the order of their lock files' names
          Within,    \* <<p, q>>: p is q or lies inside q
          Runs,      \* walled runs of this machine
          Checks,    \* processes that run git
          None,
          MaxStarts  \* bound: how many runs and checks start

ASSUME PlacesAssumption == Places \subseteq Nat
ASSUME WithinAssumption == Within \subseteq Places \X Places /\ \A p \in Places : <<p, p>> \in Within
ASSUME ProcessesAssumption == Runs \cap Checks = {} /\ None \notin Runs
ASSUME StartsAssumption == MaxStarts \in Nat

VARIABLES
  pc,        \* per process: the step it is at
  want,      \* per run: the places its container may write
  todo,      \* per process: the places its step still has to go through
  dir,       \* per check: the place its directory is
  act,       \* per check: "git", "hold" or "remove"
  excl,      \* per place: the run that holds its lock, exclusive
  held,      \* per place: the checks that hold its lock, shared
  listed,    \* the runs the registry says are going
  recorded,  \* the places with a record
  since,     \* history, per check: <<p, r>>, run r was listed since it looked at p
  starts     \* bound: processes started

locks == <<excl, held>>
request == <<want, dir, act>>
vars == <<pc, request, todo, locks, listed, recorded, since, starts>>

GoTo(p, step) == pc' = [pc EXCEPT ![p] = step]
Overlap(p, q) == <<p, q>> \in Within \/ <<q, p>> \in Within
Containing(d) == {q \in recorded : <<d, q>> \in Within}

(* Going: another run the registry lists binds the place, or what it holds  *)
(* or lies in.                                                              *)
Going(p, except) == \E r \in listed \ {except} : \E q \in want[r] : Overlap(p, q)

HoldReleased(r) == excl' = [p \in Places |-> IF excl[p] = r THEN None ELSE excl[p]]
CheckReleased(c) ==
  held' = [p \in Places |-> held[p] \ {c}] /\ since' = [since EXCEPT ![c] = {}]

(* History: check c holds p and has had the registry's answer about it.     *)
Answered(c, p) == c \in held[p] /\ (pc[c] = "git" \/ p \notin todo[c])
Lists(r) ==
  /\ listed' = listed \cup {r}
  /\ since' = IF r \in listed THEN since
              ELSE [c \in Checks |-> since[c] \cup {p \in Places : Answered(c, p)} \X {r}]

-----------------------------------------------------------------------------
(* A walled run, from its open to its container.                            *)

RunOpens(r, ps) ==
  /\ pc[r] = "idle" /\ ps # {} /\ starts < MaxStarts
  /\ starts' = starts + 1
  /\ want' = [want EXCEPT ![r] = ps] /\ todo' = [todo EXCEPT ![r] = ps]
  /\ Lists(r) \/ UNCHANGED <<listed, since>>
  /\ GoTo(r, "lock")
  /\ UNCHANGED <<dir, act, locks, recorded>>

(* Starting: every lock, exclusive, waited for, in the order of the names.  *)
RunLocks(r) ==
  /\ pc[r] = "lock"
  /\ \E p \in todo[r] :
       /\ \A o \in todo[r] : p <= o
       /\ excl[p] = None /\ held[p] = {}
       /\ excl' = [excl EXCEPT ![p] = r]
       /\ todo' = [todo EXCEPT ![r] = @ \ {p}]
  /\ UNCHANGED <<pc, request, held, listed, recorded, since, starts>>

RunHolds(r) ==
  /\ pc[r] = "lock" /\ todo[r] = {}
  /\ GoTo(r, "going") /\ todo' = [todo EXCEPT ![r] = want[r]]
  /\ UNCHANGED <<request, locks, listed, recorded, since, starts>>

RunFindsNone(r, p) ==
  /\ pc[r] = "going" /\ p \in todo[r] /\ ~Going(p, r)
  /\ todo' = [todo EXCEPT ![r] = @ \ {p}]
  /\ UNCHANGED <<pc, request, locks, listed, recorded, since, starts>>

RunRefused(r, p) ==
  /\ pc[r] = "going" /\ p \in todo[r] /\ Going(p, r)
  /\ GoTo(r, "refused") /\ HoldReleased(r) /\ listed' = listed \ {r}
  /\ UNCHANGED <<request, todo, held, recorded, since, starts>>

RunAlone(r) ==
  /\ pc[r] = "going" /\ todo[r] = {}
  /\ GoTo(r, "record") /\ todo' = [todo EXCEPT ![r] = want[r]]
  /\ UNCHANGED <<request, locks, listed, recorded, since, starts>>

(* Record, under the records' lock: a record there stays as it is.          *)
RunRecords(r, p) ==
  /\ pc[r] = "record" /\ p \in todo[r]
  /\ recorded' = recorded \cup {p}
  /\ todo' = [todo EXCEPT ![r] = @ \ {p}]
  /\ UNCHANGED <<pc, request, locks, listed, since, starts>>

(* Mutant: the hold ends before the session has registered the run.         *)
RunReleasesFirst(r) ==
  /\ pc[r] = "record" /\ todo[r] = {}
  /\ GoTo(r, "registered") /\ HoldReleased(r)
  /\ UNCHANGED <<request, todo, held, listed, recorded, since, starts>>

(* The session's join lists the run, and its answer releases the hold; the  *)
(* container starts after that.                                             *)
RunRegisters(r) ==
  /\ pc[r] = "record" /\ todo[r] = {}
  /\ Lists(r)
  /\ GoTo(r, "registered")
  /\ UNCHANGED <<request, todo, locks, recorded, starts>>

RunGoes(r) ==
  /\ pc[r] = "registered"
  /\ GoTo(r, "live") /\ HoldReleased(r)
  /\ UNCHANGED <<request, todo, held, listed, recorded, since, starts>>

(* The run ends or fails at any step, or its qory is killed: the locks go,  *)
(* and a container that a killed qory leaves stays listed.                  *)
RunEnds(r) ==
  /\ pc[r] # "idle"
  /\ GoTo(r, "idle") /\ HoldReleased(r) /\ listed' = listed \ {r}
  /\ UNCHANGED <<request, todo, held, recorded, since, starts>>

RunKilled(r) ==
  /\ pc[r] = "live"
  /\ GoTo(r, "left")
  /\ UNCHANGED <<request, todo, locks, listed, recorded, since, starts>>

-----------------------------------------------------------------------------
(* Git on this machine in the directory d, in each recorded place that      *)
(* contains it; Hold and worktree remove hold d itself as well.             *)

CheckStarts(c, d, a) ==
  /\ pc[c] = "idle" /\ starts < MaxStarts
  /\ starts' = starts + 1
  /\ dir' = [dir EXCEPT ![c] = d] /\ act' = [act EXCEPT ![c] = a]
  /\ todo' = [todo EXCEPT ![c] = Containing(d) \cup (IF a = "git" THEN {} ELSE {d})]
  /\ GoTo(c, "hold")
  /\ UNCHANGED <<want, locks, listed, recorded, since>>

(* InUse: the lock, shared, without waiting, and then the registry.         *)
CheckShares(c, p) ==
  /\ pc[c] = "hold" /\ p \in todo[c] /\ c \notin held[p] /\ excl[p] = None
  /\ held' = [held EXCEPT ![p] = @ \cup {c}]
  /\ UNCHANGED <<pc, request, todo, excl, listed, recorded, since, starts>>

CheckFindsNone(c, p) ==
  /\ pc[c] = "hold" /\ p \in todo[c] /\ c \in held[p] /\ ~Going(p, None)
  /\ todo' = [todo EXCEPT ![c] = @ \ {p}]
  /\ UNCHANGED <<pc, request, locks, listed, recorded, since, starts>>

CheckRefused(c, p) ==
  /\ pc[c] = "hold" /\ p \in todo[c]
  /\ IF c \in held[p] THEN Going(p, None) ELSE excl[p] # None
  /\ GoTo(c, "idle") /\ CheckReleased(c)
  /\ UNCHANGED <<request, todo, excl, listed, recorded, starts>>

GitStarts(c) ==
  /\ pc[c] = "hold" /\ todo[c] = {}
  /\ GoTo(c, "git")
  /\ UNCHANGED <<request, todo, locks, listed, recorded, since, starts>>

(* The hold ends with git; the record of a worktree's folder goes after     *)
(* worktree remove has returned.                                            *)
GitEnds(c) ==
  /\ pc[c] = "git"
  /\ GoTo(c, IF act[c] = "remove" THEN "drop" ELSE "idle") /\ CheckReleased(c)
  /\ UNCHANGED <<request, todo, excl, listed, recorded, starts>>

RecordDropped(c) ==
  /\ pc[c] = "drop"
  /\ GoTo(c, "idle") /\ recorded' = recorded \ {dir[c]}
  /\ UNCHANGED <<request, todo, locks, listed, since, starts>>

-----------------------------------------------------------------------------
(* A machine with any records.                                              *)
Init ==
  /\ pc = [p \in Runs \cup Checks |-> "idle"]
  /\ want = [r \in Runs |-> {}] /\ todo = [p \in Runs \cup Checks |-> {}]
  /\ dir \in {[c \in Checks |-> p] : p \in Places} /\ act = [c \in Checks |-> "git"]
  /\ excl = [p \in Places |-> None] /\ held = [p \in Places |-> {}]
  /\ listed = {} /\ recorded \in SUBSET Places /\ since = [c \in Checks |-> {}] /\ starts = 0

RunStep(r) ==
  \/ RunLocks(r) \/ RunHolds(r) \/ RunAlone(r) \/ RunRegisters(r) \/ RunGoes(r)
  \/ pc[r] = "refused" /\ RunEnds(r)
  \/ \E p \in Places : RunFindsNone(r, p) \/ RunRefused(r, p) \/ RunRecords(r, p)

CheckStep(c) ==
  \/ GitStarts(c) \/ GitEnds(c) \/ RecordDropped(c)
  \/ \E p \in Places : CheckShares(c, p) \/ CheckFindsNone(c, p) \/ CheckRefused(c, p)

Next ==
  \/ \E r \in Runs : RunStep(r) \/ RunEnds(r) \/ RunKilled(r) \/ \E ps \in SUBSET Places : RunOpens(r, ps)
  \/ \E c \in Checks : CheckStep(c) \/ \E d \in Places, a \in {"git", "hold", "remove"} : CheckStarts(c, d, a)

(* Each process goes on; a person answers, or the prompt ends. A live run   *)
(* may stay.                                                                *)
Spec == /\ Init /\ [][Next]_vars
        /\ \A r \in Runs : WF_vars(RunStep(r))
        /\ \A c \in Checks : WF_vars(CheckStep(c))

-----------------------------------------------------------------------------
RunSteps == {"idle", "lock", "going", "refused", "record", "registered", "live", "left"}
CheckSteps == {"idle", "hold", "git", "drop"}
(* Type invariant; a place is never held exclusive and shared at a time.    *)
TypeOK ==
  /\ pc \in [Runs \cup Checks -> RunSteps \cup CheckSteps]
  /\ \A r \in Runs : pc[r] \in RunSteps
  /\ \A c \in Checks : pc[c] \in CheckSteps
  /\ want \in [Runs -> SUBSET Places] /\ todo \in [Runs \cup Checks -> SUBSET Places]
  /\ dir \in [Checks -> Places] /\ act \in [Checks -> {"git", "hold", "remove"}]
  /\ excl \in [Places -> Runs \cup {None}] /\ held \in [Places -> SUBSET Checks]
  /\ \A p \in Places : excl[p] = None \/ held[p] = {}
  /\ listed \subseteq Runs /\ recorded \subseteq Places /\ starts \in Nat
  /\ since \in [Checks -> SUBSET (Places \X Runs)]

Writes(r) == pc[r] \in {"live", "left"}
OverlapsRun(p, r) == \E q \in want[r] : Overlap(p, q)

(* hostgit: the places a check finds no walled run using stay held until    *)
(* git has run.  A walled run that starts in one waits for it; one at a     *)
(* place inside a held place, or around it, takes another lock, and it      *)
(* writes beside git only when the registry listed it after the check had   *)
(* looked.                                                                  *)
GitBesideNoRun ==
  \A c \in Checks, p \in Places, r \in Runs :
    pc[c] = "git" /\ c \in held[p] /\ Writes(r) /\ OverlapsRun(p, r) =>
      p \notin want[r] /\ <<p, r>> \in since[c]

(* recordPlaces: while a run records its places, no other run writes there, *)
(* whose settings would be recorded as the person's.                        *)
RecordedAlone ==
  \A r, o \in Runs : pc[r] = "record" /\ Writes(o) /\ r # o => want[r] \cap want[o] = {}

=============================================================================
