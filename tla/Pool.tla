-------------------------------- MODULE Pool --------------------------------
(***************************************************************************)
(* The pool program's loop (internal/pool/pool.go), its journal            *)
(* (internal/pool/journal.go), the requests it sends to Qory Apiary        *)
(* (internal/provisioner) and the qory run it starts for a dispatch        *)
(* (internal/pool/child).                                                  *)
(*                                                                         *)
(* A dispatch is handled by at most one goroutine at a time: the main one  *)
(* while it replays the journal or admits a claim, its own one afterwards. *)
(* So the place a dispatch has reached is one value per dispatch, at[d],   *)
(* and caller[d] says which function waits for the end of what is done.    *)
(*                                                                         *)
(* Qory Apiary is external: what it does is read from how the code and     *)
(* its comments use each answer.                                           *)
(***************************************************************************)
EXTENDS Integers, FiniteSets

CONSTANTS Dispatches,      \* the dispatches Qory Apiary can lease
          Runs,            \* Settings.Runs: the slots of the claim loop
          MaxRateLimited,  \* maxRateLimited: signed 429s waited out, 3 in the code
          MaxCrashes,      \* bound: kills of the pool program
          RateLimited,     \* bound: the dispatches whose requests may be answered 429,
          JournalFaults    \* and those whose writes of the journal may fail, before the last kill

ASSUME RunsAssumption == Runs \in Nat \ {0}
ASSUME LimitsAssumption == MaxRateLimited \in Nat /\ MaxCrashes \in Nat
ASSUME FaultsAssumption == RateLimited \subseteq Dispatches /\ JournalFaults \subseteq Dispatches
ASSUME DispatchesAssumption == IsFiniteSet(Dispatches)

VARIABLES
  main,      \* where the goroutine of Pool.Run is
  stop,      \* Pool.Run's context ended
  slots,     \* the tokens in Pool.slots
  todo,      \* the entries of replay's list not acted on yet
  claim,     \* the claim being sent: "idle", "pending" or its answer
  given,     \* the dispatch of an answered claim, as a set
  entries,   \* journal.entries, in memory
  at,        \* per dispatch: the statement its goroutine has reached
  caller,    \* per dispatch: the function its release or forget returns to
  limited,   \* per dispatch: signed 429s waited out by the running loop
  reply,     \* per dispatch: its request, "idle", "pending" or the answer
  cancelled, \* per dispatch: the context of its qory run ended
  file,      \* the journal's file: the phase of each dispatch, or "none"
  dir,       \* the dispatches whose folder exists
  codeFile,  \* the dispatches whose run code's file has a name
  child,     \* per dispatch: its qory run
  srv,       \* per dispatch: its state at Qory Apiary
  net,       \* requests sent that Qory Apiary may still get
  gave,      \* history: the dispatches a release was sent for
  admitted,  \* history: the dispatches journaled at claimed without an error
  crashes    \* bound: how often the program was killed

loopVars == <<main, stop, slots, todo, claim, given>>
workVars == <<at, caller, limited, reply, cancelled>>
diskVars == <<file, dir, codeFile>>
worldVars == <<child, srv, net>>
histVars == <<gave, admitted, crashes>>
vars == <<loopVars, entries, workVars, diskVars, worldVars, histVars>>

Phases == {"none", "claimed", "dispatched"}
MainPlaces == {"down", "probe", "replay", "acquire", "claim", "admit", "busy", "backoff", "drain"}
Places == {"none", "prepare", "unlink", "post", "wait", "start", "run",
           "release", "forget", "clean"}
Callers == {"dispatch", "admit", "notJournaled", "replay"}
Answers == {"ok", "over", "exists", "forbidden", "limited", "failed"}
Replies == {"idle", "pending"} \cup Answers
Requests == [op: {"dispatched", "release"}, d: Dispatches]
ClaimReplies == {"idle", "pending", "none", "ok", "failed"}

-----------------------------------------------------------------------------
(* The journal. A write makes the whole file anew from the entries in       *)
(* memory and renames it into place. It fails before the rename, with       *)
(* nothing changed, or at the sync of the folder after it, with the file    *)
(* changed and the entries in memory as they were.                          *)

JournalWritten(next) == entries' = next /\ file' = next
JournalNotWritten(d, next) ==
  /\ d \in JournalFaults /\ crashes < MaxCrashes
  /\ entries' = entries /\ file' \in {file, next}

(* journal.remove: nothing is written for a dispatch without an entry.      *)
JournalRemove(d) ==
  LET next == [entries EXCEPT ![d] = "none"] IN
  IF entries[d] = "none" THEN UNCHANGED <<entries, file>>
  ELSE JournalWritten(next) \/ JournalNotWritten(d, next)

-----------------------------------------------------------------------------
(* One request. Client.do sends a request again while its answer does not   *)
(* come, up to 5 tries, each of which may or may not have reached Qory      *)
(* Apiary: a request stays in net once sent, may be handled several times   *)
(* and long after the pool gave it up, and its answer may be lost.          *)

Sent(op, d) == net' = net \cup {[op |-> op, d |-> d]}

(* What a release's answer means to Pool.release: whether the dispatch is   *)
(* over, or one Qory Apiary never releases.                                 *)
Settled(answer) == answer \in {"ok", "over", "exists", "forbidden"}

(* Pool.release starts for d, called by c.                                  *)
Releasing(d, c) ==
  /\ at' = [at EXCEPT ![d] = "release"]
  /\ caller' = [caller EXCEPT ![d] = c]
  /\ limited' = [limited EXCEPT ![d] = 0]
  /\ reply' = [reply EXCEPT ![d] = "pending"]
  /\ Sent("release", d)
  /\ gave' = gave \cup {d}

(* Pool.forget starts for d: journal.remove, then the folder, in two steps. *)
Forgetting(d, c) ==
  /\ at' = [at EXCEPT ![d] = "forget"]
  /\ caller' = [caller EXCEPT ![d] = c]
  /\ reply' = [reply EXCEPT ![d] = "idle"]

(* Mutant: a claim given back in admit keeps its slot.                      *)
HandedBackKeepingSlot(d) ==
  /\ at' = [at EXCEPT ![d] = "none"]
  /\ reply' = [reply EXCEPT ![d] = "idle"]
  /\ slots' = IF caller[d] = "dispatch" THEN slots - 1 ELSE slots
  /\ main' = CASE caller[d] = "dispatch" -> main [] caller[d] = "replay" -> "replay" [] OTHER -> "acquire"
  /\ todo' = IF caller[d] = "replay" THEN todo \ {d} ELSE todo

(* The goroutine that handled d is done with it: it gives its slot back, or *)
(* the main one goes on.                                                    *)
HandedBack(d) ==
  /\ at' = [at EXCEPT ![d] = "none"]
  /\ reply' = [reply EXCEPT ![d] = "idle"]
  /\ \/ /\ caller[d] = "dispatch"
        /\ slots' = slots - 1
        /\ UNCHANGED <<main, todo>>
     \/ /\ caller[d] \in {"admit", "notJournaled"}
        /\ slots' = slots - 1
        /\ main' = "acquire"
        /\ UNCHANGED todo
     \/ /\ caller[d] = "replay"
        /\ main' = "replay"
        /\ todo' = todo \ {d}
        /\ UNCHANGED slots

-----------------------------------------------------------------------------
(* Pool.Run up to the claim loop.                                           *)

(* Mutants: the journal is not read back; the code files are not removed.   *)
StartPoolUnread ==
  /\ main = "down"
  /\ main' = "probe"
  /\ codeFile' = {}
  /\ entries' = [d \in Dispatches |-> "none"]
  /\ UNCHANGED <<stop, slots, todo, claim, given, workVars, file, dir, worldVars, histVars>>

(* lockPool lets one program run; removeCodeFiles; openJournal.             *)
StartPool ==
  /\ main = "down"
  /\ main' = "probe"
  /\ codeFile' = {}
  /\ entries' = file
  /\ UNCHANGED <<stop, slots, todo, claim, given, workVars, file, dir, worldVars, histVars>>

(* The metadata probe: once it passed, replay lists the journal.            *)
ProbePassed ==
  /\ main = "probe"
  /\ ~stop
  /\ main' = "replay"
  /\ todo' = {d \in Dispatches : entries[d] # "none"}
  /\ UNCHANGED <<stop, slots, claim, given, entries, workVars, diskVars, worldVars, histVars>>

(* It failed, connected, or was stopped: nothing is claimed or released.    *)
ProbeRefused ==
  /\ main = "probe"
  /\ main' = "down"
  /\ stop' = FALSE
  /\ UNCHANGED <<slots, todo, claim, given, entries, workVars, diskVars, worldVars, histVars>>

(* replay acts on one entry of its list.                                    *)
ReplayClaimed(d) ==
  /\ main = "replay" /\ ~stop
  /\ d \in todo /\ entries[d] = "claimed"
  /\ main' = "busy"
  /\ Releasing(d, "replay")
  /\ UNCHANGED <<stop, slots, todo, claim, given, entries, cancelled, diskVars, child, srv, admitted,
                 crashes>>

ReplayDispatched(d) ==
  /\ main = "replay" /\ ~stop
  /\ d \in todo /\ entries[d] = "dispatched"
  /\ main' = "busy"
  /\ Forgetting(d, "replay")
  /\ UNCHANGED <<stop, slots, todo, claim, given, entries, limited, cancelled, diskVars, worldVars,
                 histVars>>

ReplayEnded ==
  /\ main = "replay"
  /\ stop \/ todo = {}
  /\ main' = "acquire"
  /\ todo' = {}
  /\ UNCHANGED <<stop, slots, claim, given, entries, workVars, diskVars, worldVars, histVars>>

-----------------------------------------------------------------------------
(* The claim loop.                                                          *)

AcquireSlot ==
  /\ main = "acquire"
  /\ slots < Runs
  /\ slots' = slots + 1
  /\ main' = "claim"
  /\ claim' = "pending"
  /\ UNCHANGED <<stop, todo, given, entries, workVars, diskVars, worldVars, histVars>>

ClaimLoopStopped ==
  /\ main \in {"acquire", "backoff"} /\ stop
  /\ main' = "drain"
  /\ UNCHANGED <<stop, slots, todo, claim, given, entries, workVars, diskVars, worldVars, histVars>>

(* Client.do gave up on the claim.                                          *)
ClaimGivenUp ==
  /\ claim = "pending"
  /\ claim' = "failed"
  /\ UNCHANGED <<main, stop, slots, todo, given, entries, workVars, diskVars, worldVars, histVars>>

ClaimReturned ==
  /\ main = "claim" /\ claim # "pending"
  /\ claim' = "idle"
  /\ given' = IF ~stop /\ claim = "ok" THEN given ELSE {}
  /\ \/ /\ stop
        /\ slots' = slots - 1 /\ main' = "drain"
     \/ /\ ~stop /\ claim = "failed"
        /\ slots' = slots - 1 /\ main' = "backoff"
     \/ /\ ~stop /\ claim = "none"
        /\ slots' = slots - 1 /\ main' = "acquire"
     \/ /\ ~stop /\ claim = "ok"
        /\ main' = "admit" /\ UNCHANGED slots
  /\ UNCHANGED <<stop, todo, entries, workVars, diskVars, worldVars, histVars>>

BackoffOver ==
  /\ main = "backoff"
  /\ main' = "acquire"
  /\ UNCHANGED <<stop, slots, todo, claim, given, entries, workVars, diskVars, worldVars, histVars>>

(* admit, and the goroutine that claimLoop starts for a claim admitted. The *)
(* claim's machine member and the pool's clock are any.                     *)
AdmitJournaled(d) ==
  /\ main = "admit" /\ d \in given
  /\ given' = {}
  /\ JournalWritten([entries EXCEPT ![d] = "claimed"])
  /\ admitted' = admitted \cup {d}
  /\ \/ /\ main' = "acquire"
        /\ at' = [at EXCEPT ![d] = "prepare"]
        /\ caller' = [caller EXCEPT ![d] = "dispatch"]
        /\ UNCHANGED <<limited, reply, net, gave>>
     \/ /\ main' = "busy"
        /\ Releasing(d, "admit")
  /\ UNCHANGED <<stop, slots, todo, claim, cancelled, dir, codeFile, child, srv, crashes>>

AdmitNotJournaled(d) ==
  /\ main = "admit" /\ d \in given
  /\ given' = {}
  /\ JournalNotWritten(d, [entries EXCEPT ![d] = "claimed"])
  /\ main' = "busy"
  /\ Releasing(d, "notJournaled")
  /\ UNCHANGED <<stop, slots, todo, claim, cancelled, dir, codeFile, child, srv, admitted, crashes>>

(* Run returns once every dispatch ended.                                   *)
Drained ==
  /\ main = "drain"
  /\ \A d \in Dispatches : at[d] = "none"
  /\ main' = "down"
  /\ stop' = FALSE
  /\ UNCHANGED <<slots, todo, claim, given, entries, workVars, diskVars, worldVars, histVars>>

-----------------------------------------------------------------------------
(* dispatch: from the claim's folder to its qory run's end.                 *)

GoTo(d, place) == at' = [at EXCEPT ![d] = place]

(* dispatched starts, unless the pool was stopped.                          *)
SendDispatched(d) ==
  /\ ~stop
  /\ GoTo(d, "post")
  /\ limited' = [limited EXCEPT ![d] = 0]
  /\ reply' = [reply EXCEPT ![d] = "pending"]
  /\ Sent("dispatched", d)
  /\ UNCHANGED <<caller, gave>>

(* prepare writes the run code to a file that has a name until it is        *)
(* unlinked, on every path. A failure, or a stop by then, releases the      *)
(* claim.                                                                   *)
PrepareFolder(d) ==
  /\ at[d] = "prepare"
  /\ GoTo(d, "unlink")
  /\ dir' = dir \cup {d}
  /\ codeFile' = codeFile \cup {d}
  /\ UNCHANGED <<loopVars, entries, caller, limited, reply, cancelled, file, worldVars, histVars>>

PrepareFolderFailed(d) ==
  /\ at[d] = "prepare"
  /\ dir' \in {dir, dir \cup {d}}
  /\ Releasing(d, "dispatch")
  /\ UNCHANGED <<loopVars, entries, cancelled, file, codeFile, child, srv, admitted, crashes>>

PrepareUnlink(d) ==
  /\ at[d] = "unlink"
  /\ codeFile' = codeFile \ {d}
  /\ \/ SendDispatched(d)
     \/ Releasing(d, "dispatch")
  /\ UNCHANGED <<loopVars, entries, cancelled, file, dir, child, srv, admitted, crashes>>

(* Mutant: a request that failed is taken as accepted.                      *)
DispatchedAssumed(d) ==
  /\ at[d] = "post" /\ reply[d] \in {"ok", "failed"}
  /\ JournalWritten([entries EXCEPT ![d] = "dispatched"])
  /\ GoTo(d, "start")
  /\ reply' = [reply EXCEPT ![d] = "idle"]
  /\ UNCHANGED <<loopVars, caller, limited, cancelled, dir, codeFile, worldVars, histVars>>

(* dispatched's loop, by the answer. The entry's new phase is journaled     *)
(* after the answer, and a failure of that is logged only.                  *)
DispatchedAccepted(d) ==
  /\ at[d] = "post" /\ reply[d] = "ok"
  /\ JournalWritten([entries EXCEPT ![d] = "dispatched"])
       \/ JournalNotWritten(d, [entries EXCEPT ![d] = "dispatched"])
  /\ GoTo(d, "start")
  /\ reply' = [reply EXCEPT ![d] = "idle"]
  /\ UNCHANGED <<loopVars, caller, limited, cancelled, dir, codeFile, worldVars, histVars>>

DispatchedOver(d) ==
  /\ at[d] = "post" /\ reply[d] = "over"
  /\ Forgetting(d, "dispatch")
  /\ UNCHANGED <<loopVars, entries, limited, cancelled, diskVars, worldVars, histVars>>

DispatchedLimited(d) ==
  /\ at[d] = "post" /\ reply[d] = "limited" /\ limited[d] < MaxRateLimited
  /\ GoTo(d, "wait")
  /\ limited' = [limited EXCEPT ![d] = @ + 1]
  /\ reply' = [reply EXCEPT ![d] = "idle"]
  /\ UNCHANGED <<loopVars, entries, caller, cancelled, diskVars, worldVars, histVars>>

(* Any other failure, and a 429 whose wait the lease does not last.         *)
DispatchedFailed(d) ==
  /\ at[d] = "post" /\ reply[d] \in {"forbidden", "limited", "failed"}
  /\ Releasing(d, "dispatch")
  /\ UNCHANGED <<loopVars, entries, cancelled, diskVars, child, srv, admitted, crashes>>

DispatchedWaited(d) ==
  /\ at[d] = "wait"
  /\ \/ /\ GoTo(d, "post")
        /\ reply' = [reply EXCEPT ![d] = "pending"]
        /\ Sent("dispatched", d)
        /\ UNCHANGED <<caller, limited, gave>>
     \/ stop /\ Releasing(d, "dispatch")
  /\ UNCHANGED <<loopVars, entries, cancelled, diskVars, child, srv, admitted, crashes>>

(* child.Run: a context that ended, or a start that failed, starts nothing. *)
ChildStarts(d) ==
  /\ at[d] = "start" /\ ~stop
  /\ GoTo(d, "run")
  /\ cancelled' = [cancelled EXCEPT ![d] = FALSE]
  /\ child' = [child EXCEPT ![d] = "running"]
  /\ UNCHANGED <<loopVars, entries, caller, limited, reply, diskVars, srv, net, histVars>>

ChildNotStarted(d) ==
  /\ at[d] = "start"
  /\ Forgetting(d, "dispatch")
  /\ UNCHANGED <<loopVars, entries, limited, cancelled, diskVars, worldVars, histVars>>

(* The heartbeat's goroutine: dispatched again every minute, ended by the   *)
(* run's end; the answers gone and lease_expired end the run.               *)
HeartbeatSent(d) ==
  /\ at[d] = "run" /\ ~cancelled[d] /\ ~stop /\ reply[d] = "idle"
  /\ reply' = [reply EXCEPT ![d] = "pending"]
  /\ Sent("dispatched", d)
  /\ UNCHANGED <<loopVars, entries, at, caller, limited, cancelled, diskVars, child, srv, histVars>>

HeartbeatAnswered(d) ==
  /\ at[d] = "run" /\ reply[d] \in Answers
  /\ reply' = [reply EXCEPT ![d] = "idle"]
  /\ cancelled' = [cancelled EXCEPT ![d] = @ \/ reply[d] = "over"]
  /\ UNCHANGED <<loopVars, entries, at, caller, limited, diskVars, worldVars, histVars>>

(* The lifetime's goroutine: max_lifetime_minutes passed.                   *)
LifetimePassed(d) ==
  /\ at[d] = "run" /\ ~cancelled[d]
  /\ cancelled' = [cancelled EXCEPT ![d] = TRUE]
  /\ UNCHANGED <<loopVars, entries, at, caller, limited, reply, diskVars, worldVars, histVars>>

(* The context of the run ended, with the pool's or by one of the two.      *)
RunStopped(d) == at[d] = "run" /\ (cancelled[d] \/ stop)

(* qory run ends: by itself, by SIGTERM, or by SIGKILL once the grace       *)
(* passed. run then ends both goroutines, with any request of theirs,       *)
(* uploads the machine log once, whatever the answer, and forget follows.   *)
ChildWaited(d) ==
  /\ at[d] = "run"
  /\ child' = [child EXCEPT ![d] = "ended"]
  /\ Forgetting(d, "dispatch")
  /\ UNCHANGED <<loopVars, entries, limited, cancelled, diskVars, srv, net, histVars>>

ChildEnds(d) == child[d] = "running" /\ ChildWaited(d)
ChildStopped(d) == RunStopped(d) /\ ChildWaited(d)

-----------------------------------------------------------------------------
(* release and forget, for every caller.                                    *)

(* Mutant: signed 429s are waited out with no last one. *)
ReleaseLimitedUncounted(d) ==
  /\ at[d] = "release" /\ reply[d] = "limited"
  /\ reply' = [reply EXCEPT ![d] = "pending"]
  /\ Sent("release", d)
  /\ UNCHANGED <<loopVars, entries, at, caller, limited, cancelled, diskVars, child, srv, histVars>>

ReleaseLimited(d) ==
  /\ at[d] = "release" /\ reply[d] = "limited" /\ limited[d] < MaxRateLimited
  /\ limited' = [limited EXCEPT ![d] = @ + 1]
  /\ reply' = [reply EXCEPT ![d] = "pending"]
  /\ Sent("release", d)
  /\ UNCHANGED <<loopVars, entries, at, caller, cancelled, diskVars, child, srv, histVars>>

ReleaseReturned(d) == at[d] = "release" /\ reply[d] \in Answers
                        /\ (reply[d] = "limited" => limited[d] = MaxRateLimited)

(* A claim that was not journaled has nothing to forget, and an entry that  *)
(* replay could not settle stays for the next start.                        *)
ReleaseKept(d) ==
  /\ ReleaseReturned(d)
  /\ caller[d] = "notJournaled" \/ (caller[d] = "replay" /\ ~Settled(reply[d]))
  /\ HandedBack(d)
  /\ UNCHANGED <<stop, claim, given, entries, caller, limited, cancelled, diskVars, worldVars, histVars>>

ReleaseDone(d) ==
  /\ ReleaseReturned(d)
  /\ caller[d] # "notJournaled" /\ (caller[d] = "replay" => Settled(reply[d]))
  /\ Forgetting(d, caller[d])
  /\ UNCHANGED <<loopVars, entries, limited, cancelled, diskVars, worldVars, histVars>>

ForgetEntry(d) ==
  /\ at[d] = "forget"
  /\ JournalRemove(d)
  /\ GoTo(d, "clean")
  /\ UNCHANGED <<loopVars, caller, limited, reply, cancelled, dir, codeFile, worldVars, histVars>>

ForgetFolder(d) ==
  /\ at[d] = "clean"
  /\ dir' = dir \ {d}
  /\ HandedBack(d)
  /\ UNCHANGED <<stop, claim, given, entries, caller, limited, cancelled, file, codeFile, worldVars,
                 histVars>>

-----------------------------------------------------------------------------
(* The signals, and what is outside the program.                            *)

Signalled ==
  /\ main # "down" /\ ~stop
  /\ stop' = TRUE
  /\ UNCHANGED <<main, slots, todo, claim, given, entries, workVars, diskVars, worldVars, histVars>>

(* The program is killed, or gets a second signal: the disk stays, and a    *)
(* qory run, in a process group of its own, goes on without it.             *)
Crash ==
  /\ main # "down" /\ crashes < MaxCrashes
  /\ crashes' = crashes + 1
  /\ main' = "down" /\ stop' = FALSE /\ slots' = 0 /\ todo' = {} /\ claim' = "idle" /\ given' = {}
  /\ at' = [d \in Dispatches |-> "none"]
  /\ reply' = [d \in Dispatches |-> "idle"]
  /\ cancelled' = [d \in Dispatches |-> FALSE]
  /\ child' = [d \in Dispatches |-> IF child[d] = "running" THEN "orphan" ELSE child[d]]
  /\ UNCHANGED <<entries, caller, limited, diskVars, srv, net, gave, admitted>>

OrphanEnds(d) ==
  /\ child[d] = "orphan"
  /\ child' = [child EXCEPT ![d] = "ended"]
  /\ UNCHANGED <<loopVars, entries, workVars, diskVars, srv, net, histVars>>

(* A claim Qory Apiary gets: it leases a dispatch, or says there is none.   *)
(* The answer may be lost, and the claim is then sent again.                *)
ApiaryLeases(d) ==
  /\ claim = "pending" /\ srv[d] = "offered"
  /\ srv' = [srv EXCEPT ![d] = "leased"]
  /\ \/ claim' = "ok" /\ given' = {d}
     \/ UNCHANGED <<claim, given>>
  /\ UNCHANGED <<main, stop, slots, todo, entries, workVars, diskVars, child, net, histVars>>

ApiaryHasNone ==
  /\ claim = "pending"
  /\ claim' = "none"
  /\ UNCHANGED <<main, stop, slots, todo, given, entries, workVars, diskVars, worldVars, histVars>>

(* The answer a reaches the request of d the pool waits with, or is lost.   *)
Answered(op, d, a) ==
  LET waits == reply[d] = "pending"
               /\ at[d] \in IF op = "release" THEN {"release"} ELSE {"post", "run"}
  IN reply' \in {reply} \cup (IF waits THEN {[reply EXCEPT ![d] = a]} ELSE {})

(* Qory Apiary handles dispatched: the lease becomes a start, which it      *)
(* accepts again from then on, until the dispatch is over.                  *)
ApiaryGetsDispatched(d) ==
  /\ [op |-> "dispatched", d |-> d] \in net
  /\ \/ /\ srv[d] \in {"leased", "started"}
        /\ srv' = [srv EXCEPT ![d] = "started"]
        /\ Answered("dispatched", d, "ok")
     \/ /\ srv[d] \in {"released", "over"}
        /\ Answered("dispatched", d, "over")
        /\ UNCHANGED srv
     \/ /\ \E a \in {"forbidden"} \cup (IF d \in RateLimited THEN {"limited"} ELSE {}) : Answered("dispatched", d, a)
        /\ UNCHANGED srv
  /\ UNCHANGED <<loopVars, entries, at, caller, limited, cancelled, diskVars, child, net, histVars>>

(* Qory Apiary handles a release: it ends a lease, and nothing else.        *)
ApiaryGetsRelease(d) ==
  /\ [op |-> "release", d |-> d] \in net
  /\ \/ /\ srv[d] = "leased"
        /\ srv' = [srv EXCEPT ![d] = "released"]
        /\ Answered("release", d, "ok")
     \/ /\ srv[d] = "started"
        /\ Answered("release", d, "exists")
        /\ UNCHANGED srv
     \/ /\ srv[d] \in {"released", "over"}
        /\ Answered("release", d, "over")
        /\ UNCHANGED srv
     \/ /\ \E a \in {"forbidden"} \cup (IF d \in RateLimited THEN {"limited"} ELSE {}) : Answered("release", d, a)
        /\ UNCHANGED srv
  /\ UNCHANGED <<loopVars, entries, at, caller, limited, cancelled, diskVars, child, net, histVars>>

(* Client.do gave up: no answer it can use after the last try.              *)
RequestFailed(d) ==
  /\ reply[d] = "pending"
  /\ reply' = [reply EXCEPT ![d] = "failed"]
  /\ UNCHANGED <<loopVars, entries, at, caller, limited, cancelled, diskVars, worldVars, histVars>>

(* A lease passed, or a dispatch ended: cancelled, or its run reported.     *)
ApiaryEnds(d) ==
  /\ srv[d] \in {"leased", "started"}
  /\ srv' = [srv EXCEPT ![d] = "over"]
  /\ UNCHANGED <<loopVars, entries, workVars, diskVars, child, net, histVars>>

-----------------------------------------------------------------------------
Init ==
  /\ main = "down" /\ stop = FALSE /\ slots = 0 /\ todo = {} /\ claim = "idle" /\ given = {}
  /\ entries = [d \in Dispatches |-> "none"]
  /\ file = [d \in Dispatches |-> "none"]
  /\ at = [d \in Dispatches |-> "none"]
  /\ caller = [d \in Dispatches |-> "dispatch"]
  /\ limited = [d \in Dispatches |-> 0]
  /\ reply = [d \in Dispatches |-> "idle"]
  /\ cancelled = [d \in Dispatches |-> FALSE]
  /\ dir = {} /\ codeFile = {}
  /\ child = [d \in Dispatches |-> "none"]
  /\ srv = [d \in Dispatches |-> "offered"]
  /\ net = {} /\ gave = {} /\ admitted = {} /\ crashes = 0

LoopStep ==
  \/ ProbePassed \/ ProbeRefused \/ ReplayEnded
  \/ AcquireSlot \/ ClaimLoopStopped \/ ClaimGivenUp \/ ClaimReturned \/ BackoffOver \/ Drained
  \/ \E d \in Dispatches : ReplayClaimed(d) \/ ReplayDispatched(d)
  \/ \E d \in Dispatches : AdmitJournaled(d) \/ AdmitNotJournaled(d)

DispatchStep(d) ==
  \/ PrepareFolder(d) \/ PrepareFolderFailed(d) \/ PrepareUnlink(d)
  \/ DispatchedAccepted(d) \/ DispatchedOver(d) \/ DispatchedLimited(d) \/ DispatchedFailed(d)
  \/ DispatchedWaited(d)
  \/ ChildStarts(d) \/ ChildNotStarted(d) \/ ChildStopped(d)
  \/ ReleaseLimited(d) \/ ReleaseKept(d) \/ ReleaseDone(d) \/ ForgetEntry(d) \/ ForgetFolder(d)
  \/ RequestFailed(d)

RunStep(d) == HeartbeatSent(d) \/ HeartbeatAnswered(d) \/ LifetimePassed(d)

WorldStep ==
  \/ StartPool \/ Signalled \/ Crash \/ ApiaryHasNone
  \/ \E d \in Dispatches : \/ ApiaryLeases(d) \/ ApiaryGetsDispatched(d) \/ ApiaryGetsRelease(d)
                           \/ ApiaryEnds(d) \/ ChildEnds(d) \/ OrphanEnds(d)

Next == LoopStep \/ WorldStep \/ \E d \in Dispatches : DispatchStep(d) \/ RunStep(d)

(* The loop and each goroutine go on while the process lives: the waits     *)
(* have timeouts, requests a last try, and a stopped run is killed. Nothing *)
(* is assumed of Qory Apiary, of a signal or of when a run ends.            *)
Fairness ==
  /\ WF_vars(LoopStep)
  /\ \A d \in Dispatches : WF_vars(DispatchStep(d)) /\ WF_vars(LifetimePassed(d))
                             /\ WF_vars(ChildStopped(d))

Spec == Init /\ [][Next]_vars /\ Fairness

-----------------------------------------------------------------------------
(* Type invariant. A request's 429s are never waited out more often than    *)
(* maxRateLimited says, by any of the three loops that count them.          *)
TypeOK ==
  /\ main \in MainPlaces /\ stop \in BOOLEAN /\ slots \in Int /\ todo \subseteq Dispatches
  /\ claim \in ClaimReplies /\ given \subseteq Dispatches
  /\ entries \in [Dispatches -> Phases] /\ file \in [Dispatches -> Phases]
  /\ at \in [Dispatches -> Places] /\ caller \in [Dispatches -> Callers]
  /\ limited \in [Dispatches -> 0..MaxRateLimited] /\ reply \in [Dispatches -> Replies]
  /\ cancelled \in [Dispatches -> BOOLEAN]
  /\ dir \subseteq Dispatches /\ codeFile \subseteq Dispatches
  /\ child \in [Dispatches -> {"none", "running", "orphan", "ended"}]
  /\ srv \in [Dispatches -> {"offered", "leased", "started", "released", "over"}]
  /\ net \subseteq Requests
  /\ gave \subseteq Dispatches /\ admitted \subseteq Dispatches /\ crashes \in Nat

(* No lease is forgotten: a dispatch that was journaled, and that Qory      *)
(* Apiary still has as leased, is in the journal's file as claimed, where   *)
(* the next start finds it, unless a release of it was sent. It holds at    *)
(* every step, so at every crash, and whichever writes of the journal fail. *)
NoLeaseForgotten ==
  \A d \in admitted : srv[d] = "leased" => file[d] = "claimed" \/ d \in gave

(* A run code's file has a name only while prepare is between its write and *)
(* its unlink, or, after a crash, until the program starts again.           *)
CodeFileUnlinked ==
  main # "down" => \A d \in codeFile : at[d] = "unlink"

(* Every slot in use is that of the claim being sent or admitted, or of one *)
(* dispatch's goroutine: none is lost, none is given back twice.            *)
LoopSlot ==
  IF main \in {"claim", "admit"} \/ (main = "busy" /\ \E d \in Dispatches :
                                      at[d] # "none" /\ caller[d] \in {"admit", "notJournaled"})
  THEN 1 ELSE 0
Working == {d \in Dispatches : at[d] # "none" /\ caller[d] = "dispatch"}
SlotsExact == slots = LoopSlot + Cardinality(Working) /\ slots <= Runs

(* A release is sent only for a dispatch whose start this program never     *)
(* journaled, and never while it runs that dispatch's qory run.             *)
ReleasesOnlyClaims ==
  [][\A d \in Dispatches :
       (at'[d] = "release" /\ at[d] # "release") => child[d] # "running" /\ file[d] # "dispatched"]_vars

(* Once stopped, the pool ends, whatever Qory Apiary answers: every wait,   *)
(* request and qory run it waits for ends.                                  *)
StoppedPoolEnds == stop ~> main = "down"

(* The pool implements the life of a dispatch, over crashes and restarts:   *)
(* a qory run left without its program is still that dispatch's one run.    *)
runOf == [d \in Dispatches |-> IF child[d] = "orphan" THEN "running" ELSE child[d]]
Life == INSTANCE DispatchLife WITH lease <- srv, run <- runOf
ImplementsLife == Life!Spec

=============================================================================
