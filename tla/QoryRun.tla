------------------------------ MODULE QoryRun ------------------------------
(***************************************************************************)
(* One qory run, from its checks to its exit status: RunE of cmd/run.go    *)
(* with the helpers it calls in order, beside other runs that hold the     *)
(* engine lock, signals, the time limit, a kill, and qory run resend after *)
(* it.                                                                     *)
(*                                                                         *)
(* Forager, which opens the run, joins the session and closes the run, is  *)
(* external; so are the gateway and Qory Apiary behind it, which may end   *)
(* the run at any time.                                                    *)
(***************************************************************************)
EXTENDS Naturals, Sequences, FiniteSets

CONSTANTS Jobs,     \* what a run may be, see JobType
          None

JobType == [from : {"local", "server", "via", "key", "code"}, walled : BOOLEAN, listed : BOOLEAN,
            writes : BOOLEAN, reads : BOOLEAN, inside : BOOLEAN, docker : BOOLEAN, engine : BOOLEAN, limit : BOOLEAN]

(* "writes" stands for a run that may write and has a branch of a work item. *)
ASSUME JobsAssumption ==
  /\ Jobs \subseteq JobType
  /\ \A j \in Jobs : (j.from = "via" => j.walled) /\ (j.reads \/ j.writes => j.from = "code")

VARIABLES
  job,      \* its job
  pc,       \* the next step of the process, "over" or "killed"
  signals,  \* the signals that the process got, two at most
  due,      \* the time limit has passed
  held,     \* what the process holds, see Returned
  code,     \* its run code at Qory Apiary
  kept,     \* its run key is beside forager.yaml
  record,   \* its run directory has a record
  owed,     \* events that the gateway did not get
  ended,    \* the end that the gateway gave it
  closed,   \* the outcomes it was closed with
  setup,    \* its setup container runs
  step,     \* how the last step of the record ended
  failed,   \* the preparation failed
  res,      \* how the session ended
  push,     \* how the push step ended
  exit,     \* the exit status
  engine    \* another run pulls with the engine lock

process == <<pc, signals, due, held>>
outside == <<code, kept, record, owed, ended, closed, setup>>
result == <<step, failed, res, push, exit>>
vars == <<job, process, outside, result, engine>>

Live == pc \notin {"over", "killed"}
GoTo(to) == pc' = to
Take(what) == held' = held \cup what
Drop(what) == held' = held \ what
Remote == job.from \in {"via", "key", "code"}
Via == job.from = "via"
Stopped == signals > 0 \/ due

(* The process exits with status once it returned from RunE.                *)
Exit(status) == GoTo("returns") /\ exit' = status

-----------------------------------------------------------------------------
(* Before the run opens.                                                    *)

(* Every check that stops a run comes before a run code is used.            *)
Refused ==
  /\ pc = "checks" /\ Exit(1)
  /\ UNCHANGED <<job, engine, signals, due, held, outside, step, failed, res, push>>

Passes ==
  /\ pc = "checks"
  /\ GoTo(IF job.from = "code" THEN "redeem" ELSE "start")
  /\ UNCHANGED <<job, engine, signals, due, held, outside, result>>

(* redeemRunCode: a send that failed in transport may have used the code,   *)
(* and is sent once more, with the same key, unless qory run was stopped.   *)
Redeems ==
  /\ pc \in {"redeem", "redeem again"}
  /\ \/ code' = "used" /\ GoTo("inputs") /\ UNCHANGED exit
     \/ /\ code' = code \/ code' = "used"
        /\ pc = "redeem" /\ signals = 0 /\ GoTo("redeem again") /\ UNCHANGED exit
  /\ UNCHANGED <<job, engine, signals, due, held, kept, record, owed, ended, closed, setup, step, failed, res, push>>

redeemFailed ==
  /\ pc \in {"redeem", "redeem again"} /\ Exit(1)
  /\ code' = code \/ code' = "used"
  /\ UNCHANGED <<job, engine, signals, due, held, kept, record, owed, ended, closed, setup, step, failed, res, push>>

(* The folder is removed by what writeInputs returns, with an error too.    *)
WritesInputs ==
  /\ pc = "inputs" /\ Take({"inputs"})
  /\ \/ GoTo("start") /\ UNCHANGED exit
     \/ Exit(1)
  /\ UNCHANGED <<job, engine, signals, due, outside, step, failed, res, push>>

startRun ==
  /\ pc = "start"
  /\ \/ Take({"run lock"}) /\ GoTo(IF Via THEN "register" ELSE "gateway") /\ UNCHANGED exit
     \/ Exit(1) /\ UNCHANGED held
  /\ UNCHANGED <<job, engine, signals, due, outside, step, failed, res, push>>

(* registerThroughVia keeps the run key before anything uses it; a run with *)
(* a key that could not be kept does not start.                             *)
registerThroughVia ==
  /\ pc = "register"
  /\ \/ kept' = TRUE /\ GoTo("gateway") /\ UNCHANGED exit
     \/ Exit(1) /\ UNCHANGED kept
  /\ UNCHANGED <<job, engine, signals, due, held, code, record, owed, ended, closed, setup, step, failed, res, push>>

(* A run with no separate gateway starts one in this process.               *)
startGateway ==
  /\ pc = "gateway"
  /\ \/ Take(IF Remote THEN {} ELSE {"gateway"}) /\ GoTo("open") /\ UNCHANGED exit
     \/ ~Remote /\ Exit(1) /\ UNCHANGED held
  /\ UNCHANGED <<job, engine, signals, due, outside, step, failed, res, push>>

(* Mutant: the kept run key goes once the run's process is done with it.    *)
nothingLeftOnceDone(isRecorded, isClosed, isOwed, gatewayEnded) == TRUE

nothingLeftToSend(isRecorded, isClosed, isOwed, gatewayEnded) ==
  IF isClosed THEN ~isOwed \/ gatewayEnded ELSE ~isRecorded

(* dropKeptRunKey of a run through via, unless something is left to send.   *)
DropsKey(isClosed) ==
  kept' = (kept /\ ~(Via /\ nothingLeftToSend(record', isClosed, owed', ended # None)))

(* The open lists a walled run among the walled runs going. One that fails  *)
(* may have made its record, and closes the gateway.                        *)
Opens ==
  /\ pc = "open"
  /\ record' = TRUE /\ owed' = TRUE
  /\ Take(IF job.walled THEN {"this run"} ELSE {})
  /\ GoTo("prepare")
  /\ UNCHANGED <<job, engine, signals, due, code, kept, ended, closed, setup, result>>

OpenFails ==
  /\ pc = "open"
  /\ \E made \in BOOLEAN : record' = made /\ owed' = made
  /\ DropsKey(FALSE) /\ Drop({"gateway"}) /\ Exit(1)
  /\ UNCHANGED <<job, engine, signals, due, code, ended, closed, setup, step, failed, res, push>>

-----------------------------------------------------------------------------
(* The preparation: hostWork, imageWork, setupWork, removeSetupWork and     *)
(* recordSetupWork, each under the time limit.                              *)

canPush == job.writes /\ ~job.reads /\ job.listed
Outside == job.walled /\ job.listed /\ ~job.inside

(* The step's state, as inStep ends it.                                     *)
StepEnds(ok) ==
  step' = IF ok THEN "succeeded" ELSE IF Stopped THEN "cancelled" ELSE "failed"

(* The steps of a job, in order.                                            *)
Needs(s) ==
  /\ s \in {"places", "engine", "image", "setup"} => job.walled
  /\ s \in {"fetch", "switch", "setup"} => job.listed
  /\ s = "switch" => job.from = "code"
  /\ s = "engine" => job.engine
  /\ s = "remove setup" => job.reads
  /\ s = "record setup" => Outside /\ canPush
Plan == <<"fetch", "compose", "places", "switch", "engine", "image", "setup", "remove setup", "record setup", "join">>
After(s) ==
  LET at == IF s = "prepare" THEN 0 ELSE CHOOSE i \in DOMAIN Plan : Plan[i] = s
      next == {i \in DOMAIN Plan : i > at /\ Needs(Plan[i])}
  IN Plan[CHOOSE i \in next : \A j \in next : i <= j]

Goes(s) == pc = s /\ GoTo(After(s)) /\ UNCHANGED failed
Fails(s) == pc = s /\ GoTo("join") /\ failed' = TRUE

(* A run stopped or out of time before its session prepares nothing.        *)
Prepares ==
  /\ pc = "prepare"
  /\ GoTo(IF Stopped THEN "join" ELSE After("prepare"))
  /\ UNCHANGED <<job, engine, signals, due, held, outside, result>>

(* The host proxy is open for the fetch alone, the stack proxy for the      *)
(* compose.                                                                 *)
Fetches ==
  /\ (Goes("fetch") /\ StepEnds(TRUE)) \/ (Fails("fetch") /\ StepEnds(FALSE))
  /\ UNCHANGED <<job, engine, signals, due, held, outside, res, push, exit>>

(* readOnlyCheckout stops a reading run that could write all the same.      *)
readOnlyCheckout == job.reads => job.walled /\ ~job.inside /\ ~job.docker

Composes ==
  /\ \/ readOnlyCheckout /\ Goes("compose") /\ StepEnds(TRUE)
     \/ Fails("compose") /\ StepEnds(FALSE)
  /\ UNCHANGED <<job, engine, signals, due, held, outside, res, push, exit>>

(* The push checks are loaded, the agent's environment is wrapped, and the  *)
(* places are recorded under a hold. On an error nothing of it stays held,  *)
(* but what was taken before.                                               *)
PreparesSession ==
  /\ \/ Goes("places") /\ Take({"checks", "agent env", "hold"})
     \/ \E got \in SUBSET {"checks", "agent env"} : Fails("places") /\ Take(got)
  /\ UNCHANGED <<job, engine, signals, due, outside, step, res, push, exit>>

Switches ==
  /\ Goes("switch") \/ Fails("switch")
  /\ UNCHANGED <<job, engine, signals, due, held, outside, step, res, push, exit>>

(* lockEngine polls the lock of the engine proxy file, until it is free or  *)
(* the context ended; a file that cannot be opened or locked is an error    *)
(* at once.                                                                 *)
LocksEngine ==
  /\ \/ ~engine /\ Goes("engine") /\ Take({"engine"})
     \/ Fails("engine") /\ UNCHANGED held
  /\ UNCHANGED <<job, engine, signals, due, outside, step, res, push, exit>>

(* Mutant: the wait ends at the time limit alone.                           *)
LockFailsAtLimit ==
  /\ due /\ Fails("engine")
  /\ UNCHANGED <<job, engine, signals, due, held, outside, step, res, push, exit>>

LockFails ==
  /\ Stopped /\ Fails("engine")
  /\ UNCHANGED <<job, engine, signals, due, held, outside, step, res, push, exit>>

FetchesImage ==
  /\ (Goes("image") /\ StepEnds(TRUE)) \/ (Fails("image") /\ StepEnds(FALSE))
  /\ Drop({"engine"})
  /\ UNCHANGED <<job, engine, signals, due, outside, res, push, exit>>

(* runSetup: outside, the commands run now, in a container that stays; one  *)
(* that fails may stay too. Inside, the session runs them.                  *)
runSetup ==
  /\ \/ Goes("setup") /\ setup' = Outside
     \/ /\ Outside /\ Fails("setup")
        /\ \E stays \in BOOLEAN : setup' = stays
  /\ UNCHANGED <<job, engine, signals, due, held, code, kept, record, owed, ended, closed, step, res, push, exit>>

removeSetup ==
  /\ \/ Goes("remove setup") /\ setup' = FALSE
     \/ Fails("remove setup") /\ UNCHANGED setup
  /\ UNCHANGED <<job, engine, signals, due, held, code, kept, record, owed, ended, closed, step, res, push, exit>>

RecordsSetup ==
  /\ Goes("record setup") \/ Fails("record setup")
  /\ UNCHANGED <<job, engine, signals, due, held, outside, step, res, push, exit>>

-----------------------------------------------------------------------------
(* The session, and the outcome that the run closes with.                   *)

Outcome(state, reason) == [state |-> state, reason |-> reason]
Interrupted == Outcome("cancelled", "interrupted")
TimedOut == Outcome("cancelled", "timeout")
FailedRun == Outcome("failed", None)
Succeeded == Outcome("succeeded", None)

(* Mutant: the runtime's own exit comes before the stop that caused it.     *)
outcomeByExit(how) ==
  IF how \in {"exited 0", "cancelled"} THEN Succeeded
  ELSE IF how = "timed out" THEN TimedOut ELSE FailedRun

sessionOutcome(how) ==
  IF how = "timed out" THEN TimedOut
  ELSE IF how = "cancelled" THEN Interrupted
  ELSE IF how = "exited 0" THEN Succeeded ELSE FailedRun

(* The switch before the join: the signal, the time limit, then the error.  *)
EndsBeforeJoin ==
  /\ pc = "join" /\ (Stopped \/ failed)
  /\ res' = IF signals > 0 THEN "cancelled before" ELSE IF due THEN "timed out before" ELSE "not prepared"
  /\ GoTo("close")
  /\ UNCHANGED <<job, engine, signals, due, held, outside, step, failed, push, exit>>

(* The join registers the session, when the hold on the places is let go,   *)
(* or fails.                                                                *)
Joins ==
  /\ pc = "join" /\ ~Stopped /\ ~failed
  /\ GoTo("session") /\ Drop({"hold"})
  /\ UNCHANGED <<job, engine, signals, due, outside, result>>
JoinFails ==
  /\ pc = "join" /\ ~Stopped /\ ~failed
  /\ GoTo("close") /\ res' = "no session"
  /\ UNCHANGED <<job, engine, signals, due, held, outside, step, failed, push, exit>>

keepsWork == canPush /\ res' \notin {"no session", "run closed"}

(* The runtime exits by itself, or is stopped; the session may see a stop   *)
(* that came at the same time, or not.                                      *)
SessionEnds(how) ==
  /\ pc = "session"
  /\ how = "run closed" => ended # None
  /\ how = "timed out" => due
  /\ how = "cancelled" => signals > 0
  /\ res' = how
  /\ GoTo(IF keepsWork THEN "remove then push" ELSE "close")
  /\ UNCHANGED <<job, engine, signals, due, held, outside, step, failed, push, exit>>
Ways == {"run closed", "timed out", "cancelled", "exited 0", "exited 1"}

(* Mutant: the push step runs beside a setup container that stays.          *)
pushBesideSetup ==
  /\ pc = "remove then push"
  /\ GoTo("push") /\ UNCHANGED <<setup, push>>
  /\ UNCHANGED <<job, engine, signals, due, held, code, kept, record, owed, ended, closed, step, failed, res, exit>>

(* pushContext ends a while after the first stop, at once after the second  *)
(* signal; what runs under it may fail before.                              *)
Failures ==
  {"failed"} \cup (IF signals > 0 THEN {"interrupted"} ELSE IF due THEN {"timeout"} ELSE {})

(* A failed removal of the setup container alone stops the push.            *)
removeThenPush ==
  /\ pc = "remove then push"
  /\ \/ setup' = FALSE /\ GoTo("push") /\ UNCHANGED push
     \/ \E how \in Failures : GoTo("close") /\ push' = how /\ UNCHANGED setup
  /\ UNCHANGED <<job, engine, signals, due, held, code, kept, record, owed, ended, closed, step, failed, res, exit>>

pushWork(how) ==
  /\ pc = "push"
  /\ how \in Failures \cup {"pushed"}
  /\ push' = how
  /\ step' = IF how = "pushed" THEN "succeeded" ELSE IF how = "failed" THEN "failed" ELSE "cancelled"
  /\ GoTo("close")
  /\ UNCHANGED <<job, engine, signals, due, held, outside, failed, res, exit>>

-----------------------------------------------------------------------------
(* The close and the exit status.                                           *)

(* pushEnding.outcome: a failed push changes a session that succeeded alone. *)
pushOutcome ==
  LET session == sessionOutcome(res)
  IN IF session # Succeeded \/ push \in {None, "pushed"} THEN session
     ELSE IF push = "failed" THEN FailedRun
     ELSE IF push = "interrupted" THEN Interrupted ELSE TimedOut

OutcomeOf ==
  IF res = "cancelled before" THEN Interrupted
  ELSE IF res = "timed out before" THEN TimedOut
  ELSE IF res = "not prepared" THEN FailedRun ELSE pushOutcome

(* outcomeOf and agrees: a gateway's end is said when it differs.           *)
agrees(end, exited0) == IF exited0 THEN end.state = "succeeded" ELSE end.state = "failed"
exitCode(end) == IF end.state = "succeeded" THEN 0 ELSE 1

(* runEnded: a run that the gateway closed, the limit, the signal, then the *)
(* runtime's own exit, unless an end that the gateway recorded after it     *)
(* says otherwise.                                                          *)
runEnded(end) ==
  LET own == IF res = "exited 0" THEN 0 ELSE 1
  IN IF res = "run closed" THEN exitCode(ended)
     ELSE IF res = "timed out" THEN 124
     ELSE IF res = "cancelled" THEN 1
     ELSE IF end # None /\ ~agrees(end, own = 0) THEN exitCode(end) ELSE own

(* pushEnding.ended, after a push step that failed.                         *)
pushEnded(end) ==
  IF sessionOutcome(res) # Succeeded THEN runEnded(end)
  ELSE IF push = "timeout" THEN 124 ELSE 1

Status(end) ==
  IF res \in {"cancelled before", "not prepared", "no session"} THEN 1
  ELSE IF res = "timed out before" THEN 124
  ELSE IF push \in {None, "pushed"} THEN runEnded(end) ELSE pushEnded(end)

(* closeRun: the run closes, with the gateway's end when it has one; a      *)
(* close that fails closes nothing. The gateway then delivers what it can.  *)
closeRun ==
  /\ pc = "close"
  /\ \E ok \in BOOLEAN, left \in BOOLEAN :
       /\ closed' = IF ok THEN Append(closed, IF ended # None THEN ended ELSE OutcomeOf) ELSE closed
       /\ owed' = (left \/ ~ok)
       /\ UNCHANGED record
       /\ DropsKey(ok)
       /\ Exit(Status(IF ok THEN ended ELSE None))
       /\ setup' \in {FALSE, setup /\ ~ok}
  /\ Drop({"gateway"})
  /\ UNCHANGED <<job, engine, signals, due, code, ended, step, failed, res, push>>

(* What the process lets go as it returns, in the order of its defers.      *)
ReturnOrder == <<"this run", "gateway", "hold", "agent env", "checks", "run lock", "inputs">>

Returns ==
  /\ pc = "returns"
  /\ LET left == {i \in DOMAIN ReturnOrder : ReturnOrder[i] \in held}
     IN IF left = {} THEN GoTo("over") /\ UNCHANGED held
        ELSE Drop({ReturnOrder[CHOOSE i \in left : \A j \in left : i <= j]}) /\ UNCHANGED pc
  /\ UNCHANGED <<job, engine, signals, due, outside, result>>

-----------------------------------------------------------------------------
(* What happens to a run.                                                   *)

(* signalContext: the first signal ends the context, the second the push.   *)
Signal ==
  /\ Live /\ signals < 2
  /\ signals' = signals + 1
  /\ UNCHANGED <<job, engine, pc, due, held, outside, result>>

LimitPasses ==
  /\ Live /\ job.limit /\ record /\ ~due
  /\ due' = TRUE
  /\ UNCHANGED <<job, engine, pc, signals, held, outside, result>>

(* The gateway, or Qory Apiary through it, ends the run.                    *)
GatewayEnds ==
  /\ record /\ closed = <<>> /\ ended = None /\ job.from # "local"
  /\ \E end \in {Succeeded, FailedRun, Outcome("cancelled", None)} : ended' = end
  /\ UNCHANGED <<job, engine, process, code, kept, record, owed, closed, setup, result>>

(* Another run takes the engine lock, and lets it go, or not.               *)
OthersPull ==
  /\ "engine" \notin held
  /\ engine' = ~engine
  /\ UNCHANGED <<job, process, outside, result>>

(* A kill lets the process's locks go, and leaves its key and its container. *)
Kill ==
  /\ Live
  /\ GoTo("killed") /\ held' = {}
  /\ UNCHANGED <<job, engine, signals, due, outside, result>>

(* qory run resend: what is owed goes, or some of it; the kept key goes     *)
(* once nothing is, or the gateway ended the run; and so do the containers. *)
Resend ==
  /\ ~Live /\ record
  /\ \E left \in BOOLEAN : owed' = (owed /\ left)
  /\ kept' = (kept /\ owed' /\ ended = None)
  /\ setup' = FALSE
  /\ UNCHANGED <<job, engine, process, code, record, ended, closed, result>>

-----------------------------------------------------------------------------
Init ==
  /\ job \in Jobs /\ engine = FALSE
  /\ pc = "checks" /\ signals = 0 /\ due = FALSE
  /\ held = {}
  /\ code = "unused" /\ kept = due /\ record = due /\ owed = due
  /\ ended = None /\ closed = <<>> /\ setup = due
  /\ step = ended /\ failed = due /\ res = ended /\ push = ended /\ exit = ended

Starts == Refused \/ Passes \/ Redeems \/ redeemFailed \/ WritesInputs \/ startRun
             \/ registerThroughVia \/ startGateway \/ Opens \/ OpenFails
Works == Fetches \/ Composes \/ FetchesImage \/ runSetup \/ \E how \in Ways : SessionEnds(how)
Pushes == \E how \in {"pushed", "failed", "interrupted", "timeout"} : pushWork(how)
Goes_on == Prepares \/ PreparesSession \/ Switches \/ LockFails \/ removeSetup \/ RecordsSetup
            \/ EndsBeforeJoin \/ Joins \/ JoinFails \/ removeThenPush \/ closeRun \/ Returns
Happens == Signal \/ LimitPasses \/ GatewayEnds \/ OthersPull \/ Kill \/ Resend

Next == Starts \/ Goes_on \/ LocksEngine \/ Works \/ Pushes \/ Happens

(* The process goes on. What it runs for its job, git, the compose, a pull, *)
(* the setup, the agent and the push, may take for ever, but ends once its  *)
(* context did; the engine lock may be held by another run for ever.        *)
Fairness ==
  WF_vars(Starts) /\ WF_vars(Goes_on) /\ WF_vars(Stopped /\ (Works \/ Pushes))
Spec == Init /\ [][Next]_vars /\ Fairness

-----------------------------------------------------------------------------
Outcomes == [state : {"succeeded", "failed", "cancelled"}, reason : {None, "interrupted", "timeout"}]
Places ==
  {"checks", "redeem", "redeem again", "inputs", "start", "register", "gateway", "open", "prepare", "session",
   "remove then push", "push", "close", "returns", "over", "killed"} \cup {Plan[i] : i \in DOMAIN Plan}

(* Type invariant: the process is at a step of RunE, and what it holds is   *)
(* among what it lets go as it returns, but for the engine lock.            *)
TypeOK ==
  /\ job \in Jobs /\ pc \in Places /\ signals \in 0..2 /\ due \in BOOLEAN
  /\ held \subseteq {ReturnOrder[i] : i \in DOMAIN ReturnOrder} \cup {"engine"}
  /\ code \in {"unused", "used"} /\ kept \in BOOLEAN /\ record \in BOOLEAN /\ owed \in BOOLEAN
  /\ ended \in Outcomes \cup {None} /\ closed \in Seq(Outcomes) /\ setup \in BOOLEAN
  /\ step \in {None, "succeeded", "cancelled", "failed"} /\ failed \in BOOLEAN
  /\ res \in Ways \cup {None, "cancelled before", "timed out before", "not prepared", "no session"}
  /\ push \in {None, "pushed", "failed", "interrupted", "timeout"}
  /\ exit \in {None, 0, 1, 124} /\ engine \in BOOLEAN

(* While something of a run is left to send, and the gateway has not ended  *)
(* it, its run key is kept for qory run resend, whatever failed or was      *)
(* killed.                                                                  *)
KeyKeptWhileOwed ==
  Via /\ record /\ owed /\ ended = None => kept

(* A run that opened is closed once at most, and qory run exits 0 for no    *)
(* other end than succeeded, and for each succeeded end that it closed the  *)
(* run with.                                                                *)
EndsAsRecorded ==
  /\ Len(closed) <= 1
  /\ exit # None /\ closed # <<>> =>
       /\ exit = 0 => closed[1].state = "succeeded"
       /\ closed[1].state = "succeeded" /\ ended = None => exit = 0

(* No container writes the working folder while qory pushes it, and none    *)
(* but the agent's own while the agent of a run that only reads it runs.    *)
WritesAlone ==
  pc = "push" \/ (pc = "session" /\ job.reads) => ~setup /\ (job.reads => job.walled)

(* A run that got a signal, or reached its time limit, ends, beside a run   *)
(* that holds the engine lock for ever too.                                 *)
StoppedRunsEnd == Stopped ~> ~Live
=============================================================================
