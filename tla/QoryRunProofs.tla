---------------------------- MODULE QoryRunProofs ----------------------------
(***************************************************************************)
(* Proofs about QoryRun, for any job: one qory run with the signals, the   *)
(* time limit, the kill, the gateway's end and the resends that may meet   *)
(* it.  One inductive invariant has a part for the key, one for the end    *)
(* and one for the setup container.                                        *)
(***************************************************************************)
EXTENDS QoryRun, TLAPS

PlanSteps == {Plan[i] : i \in DOMAIN Plan}

(* From the open to the close the run has a record and owes its end, and a  *)
(* run through via has its key, which it kept before it opened.             *)
Opened == PlanSteps \cup {"prepare", "session", "remove then push", "push", "close"}
KeyInv ==
  /\ Via /\ pc \in {"gateway", "open"} => kept
  /\ pc \in Opened => record /\ owed /\ (Via => kept)
  /\ KeyKeptWhileOwed

(* Only the last step of RunE closes the run, and an end of the gateway's   *)
(* that the session saw stays.                                              *)
ClosedAs(end) ==
  /\ exit = 0 => end.state = "succeeded"
  /\ end.state = "succeeded" /\ ended = None => exit = 0
EndInv ==
  /\ closed # <<>> => /\ pc \in {"returns", "over", "killed"}
                      /\ Len(closed) = 1 /\ ClosedAs(closed[1])
  /\ pc \in {"remove then push", "push", "close"} /\ res = "run closed" => ended # None

(* Where a setup container may run, and what a reading run has passed.      *)
Ready == pc = "join" /\ ~failed /\ ~Stopped
SetupInv ==
  /\ pc \notin {"remove setup", "record setup", "join", "session", "remove then push", "push", "close",
                "returns", "over", "killed"} => ~setup
  /\ pc = "push" => ~setup
  /\ pc \in {"record setup", "remove then push", "push"} => ~job.reads
  /\ job.reads /\ (Ready \/ pc = "session") => ~setup
  /\ job.reads /\ (Ready \/ pc \in {"session", "places", "switch", "engine", "image", "setup", "remove setup"})
       => job.walled

IInv == TypeOK /\ KeyInv /\ EndInv /\ SetupInv
-----------------------------------------------------------------------------
(* The steps of the plan, by their place.                                   *)
LEMMA PlanIs ==
  /\ DOMAIN Plan = 1..10
  /\ Plan[1] = "fetch" /\ Plan[2] = "compose" /\ Plan[3] = "places" /\ Plan[4] = "switch" /\ Plan[5] = "engine"
  /\ Plan[6] = "image" /\ Plan[7] = "setup" /\ Plan[8] = "remove setup" /\ Plan[9] = "record setup"
  /\ Plan[10] = "join"
BY DEF Plan

(* The places of the plan, one by one.                                      *)
LEMMA OneToTen ==
  \A i \in 1..10 : i = 1 \/ i = 2 \/ i = 3 \/ i = 4 \/ i = 5 \/ i = 6 \/ i = 7 \/ i = 8 \/ i = 9 \/ i = 10
OBVIOUS

(* A set of places with the last one has a first one.                       *)
LEMMA LeastOfTen ==
  ASSUME NEW S, S \subseteq 1..10, 10 \in S
  PROVE  \E i \in S : \A j \in S : i <= j
<1> DEFINE least == IF 1 \in S THEN 1 ELSE IF 2 \in S THEN 2 ELSE IF 3 \in S THEN 3 ELSE IF 4 \in S THEN 4
                    ELSE IF 5 \in S THEN 5 ELSE IF 6 \in S THEN 6 ELSE IF 7 \in S THEN 7
                    ELSE IF 8 \in S THEN 8 ELSE IF 9 \in S THEN 9 ELSE 10
<1>1. least \in S
  OBVIOUS
<1>2. ASSUME NEW j \in S
      PROVE  least <= j
  OBVIOUS
<1> HIDE DEF least
<1> QED
  BY <1>1, <1>2

(* The steps that the job needs, and the first of them after a place of the *)
(* plan.                                                                    *)
Needed == {i \in DOMAIN Plan : Needs(Plan[i])}
Later(at, S) == {i \in S : i > at}
First(at, S) == CHOOSE i \in Later(at, S) : \A j \in Later(at, S) : i <= j
NextOf(at) == Plan[First(at, Needed)]

(* First is the first place of a set after a given one.                     *)
LEMMA FirstOfTen ==
  ASSUME NEW S, S \subseteq 1..10, 10 \in S, NEW at \in 0..9
  PROVE  First(at, S) \in S /\ First(at, S) > at /\ \A k \in S : k > at => First(at, S) <= k
<1> DEFINE next == Later(at, S)
<1>1. next \subseteq 1..10 /\ 10 \in next
  <2>1. next \subseteq S
    BY DEF Later
  <2>2. 10 > at
    OBVIOUS
  <2> QED
    BY <2>1, <2>2, Zenon DEF Later
<1>2. \E i \in next : \A j \in next : i <= j
  <2> HIDE DEF next
  <2> QED
    BY <1>1, LeastOfTen
<1>3. First(at, S) = CHOOSE i \in next : \A j \in next : i <= j
  BY DEF First
<1>4. PICK i \in next : i = First(at, S) /\ \A j \in next : i <= j
  <2> HIDE DEF next
  <2> QED
    BY <1>2, <1>3
<1>5. i \in S /\ i > at /\ \A k \in S : k > at => i <= k
  BY <1>4 DEF Later
<1> QED
  BY <1>4, <1>5

(* The steps that a job needs are of the plan; a job that reads removes its *)
(* setup and does not record it.                                            *)
LEMMA NeededSteps ==
  /\ Needed \subseteq 1..10 /\ 2 \in Needed /\ 10 \in Needed
  /\ job.reads => 8 \in Needed /\ 9 \notin Needed
<1>1. \A i \in 1..10 : i \in Needed <=> Needs(Plan[i])
  BY PlanIs, Zenon DEF Needed
<1>2. Needed \subseteq 1..10
  BY PlanIs, Zenon DEF Needed
<1>3. Needs("compose") /\ Needs("join") /\ (job.reads => Needs("remove setup") /\ ~Needs("record setup"))
  BY DEF Needs, canPush
<1>4. 2 \in 1..10 /\ 8 \in 1..10 /\ 9 \in 1..10 /\ 10 \in 1..10
  OBVIOUS
<1> QED
  BY <1>1, <1>2, <1>3, <1>4, PlanIs, Zenon

(* The next step is the first that the job needs.                           *)
LEMMA NextIsFirst ==
  ASSUME NEW at \in 0..9
  PROVE  \E j \in Needed : NextOf(at) = Plan[j] /\ j > at /\ \A k \in Needed : k > at => j <= k
BY FirstOfTen, NeededSteps DEF NextOf

(* The steps that matter to the setup container and to a reading run.       *)
LEMMA NextOfStep ==
  ASSUME NEW at \in 0..9, NEW x,
         \E j \in Needed : x = Plan[j] /\ j > at /\ \A k \in Needed : k > at => j <= k
  PROVE  /\ x \in PlanSteps
         /\ at = 0 => x \in {"fetch", "compose"}
         /\ at = 1 => x = "compose"
         /\ at = 7 => x \in {"remove setup", "record setup", "join"}
         /\ at = 7 /\ job.reads => x = "remove setup"
         /\ at = 8 => x \in {"record setup", "join"}
         /\ at = 9 => x = "join"
         /\ x = "record setup" => ~job.reads
<1>1. PICK j \in Needed : x = Plan[j] /\ j > at /\ \A k \in Needed : k > at => j <= k
  OBVIOUS
<1>2. j \in 1..10
  BY NeededSteps
<1>3. x \in PlanSteps
  BY <1>1, <1>2, PlanIs DEF PlanSteps
<1>4. /\ at = 0 => j = 1 \/ j = 2
      /\ at = 1 => j = 2
      /\ at = 7 => j = 8 \/ j = 9 \/ j = 10
      /\ at = 7 /\ job.reads => j = 8
      /\ at = 8 => j = 9 \/ j = 10
      /\ at = 9 => j = 10
      /\ job.reads => j # 9
  BY <1>1, <1>2, NeededSteps
<1>5. /\ j = 1 => x = "fetch"
      /\ j = 2 => x = "compose"
      /\ j = 8 => x = "remove setup"
      /\ j = 9 => x = "record setup"
      /\ j = 10 => x = "join"
      /\ x = "record setup" => j = 9
  BY <1>1, <1>2, PlanIs, OneToTen
<1> QED
  BY <1>3, <1>4, <1>5

PlaceOf(s) == IF s = "prepare" THEN 0 ELSE CHOOSE i \in DOMAIN Plan : Plan[i] = s

(* The place of a step of the plan is where it stands.                      *)
LEMMA PlaceOfPlan ==
  PlaceOf("prepare") = 0 /\ \A i \in 1..10 : Plan[i] # "prepare" /\ PlaceOf(Plan[i]) = i
<1>1. \A i, j \in 1..10 : Plan[i] = Plan[j] => i = j
  BY PlanIs, OneToTen, ZenonT(40)
<1>2. \A i \in 1..10 : Plan[i] # "prepare"
  BY PlanIs, OneToTen
<1> QED
  BY <1>1, <1>2, PlanIs DEF PlaceOf

(* What comes after a step is the next one needed.                          *)
LEMMA AfterIsNext ==
  ASSUME NEW s
  PROVE  After(s) = NextOf(PlaceOf(s))
<1>1. {i \in DOMAIN Plan : i > PlaceOf(s) /\ Needs(Plan[i])} = Later(PlaceOf(s), Needed)
  BY Zenon DEF Later, Needed
<1> QED
  BY <1>1, Zenon DEF After, NextOf, PlaceOf, First

(* What can come after each step of the plan.                               *)
LEMMA AfterStep ==
  ASSUME NEW s \in {"prepare"} \cup (PlanSteps \ {"join"})
  PROVE  /\ After(s) \in PlanSteps
         /\ s = "prepare" => After(s) \in {"fetch", "compose"}
         /\ s = "fetch" => After(s) = "compose"
         /\ s = "setup" => After(s) \in {"remove setup", "record setup", "join"}
         /\ s = "setup" /\ job.reads => After(s) = "remove setup"
         /\ s = "remove setup" => After(s) \in {"record setup", "join"}
         /\ s = "record setup" => After(s) = "join"
         /\ After(s) = "record setup" => ~job.reads
<1>1. CASE s = "prepare"
  <2>1. After(s) = NextOf(0)
    BY <1>1, PlaceOfPlan, AfterIsNext
  <2>2. 0 \in 0..9
    OBVIOUS
  <2> QED
    BY <1>1, <2>1, <2>2, NextIsFirst, NextOfStep
<1>2. CASE s # "prepare"
  <2>1. PICK i \in 1..10 : s = Plan[i]
    BY <1>2, PlanIs DEF PlanSteps
  <2>2. i # 10
    BY <1>2, <2>1, PlanIs
  <2>3. After(s) = NextOf(i)
    BY <2>1, PlaceOfPlan, AfterIsNext
  <2>4. i \in 0..9
    BY <2>2
  <2>5. /\ s = "fetch" => i = 1
        /\ s = "setup" => i = 7
        /\ s = "remove setup" => i = 8
        /\ s = "record setup" => i = 9
    BY <2>1, PlanIs, OneToTen
  <2>6. PICK x : x = NextOf(i)
    OBVIOUS
  <2>7. \E j \in Needed : x = Plan[j] /\ j > i /\ \A k \in Needed : k > i => j <= k
    BY <2>4, <2>6, NextIsFirst
  <2>8. /\ x \in PlanSteps
        /\ i = 0 => x \in {"fetch", "compose"}
        /\ i = 1 => x = "compose"
        /\ i = 7 => x \in {"remove setup", "record setup", "join"}
        /\ i = 7 /\ job.reads => x = "remove setup"
        /\ i = 8 => x \in {"record setup", "join"}
        /\ i = 9 => x = "join"
        /\ x = "record setup" => ~job.reads
    BY <2>4, <2>7, NextOfStep, Zenon
  <2> QED
    BY <1>2, <2>3, <2>5, <2>6, <2>8, Zenon
<1> QED
  BY <1>1, <1>2

-----------------------------------------------------------------------------
(* The parts of the state at a step.                                        *)
LEMMA PlanStepsAre ==
  PlanSteps = {"fetch", "compose", "places", "switch", "engine", "image", "setup", "remove setup", "record setup", "join"}
<1> DEFINE named == {"fetch", "compose", "places", "switch", "engine", "image", "setup", "remove setup",
                     "record setup", "join"}
<1>1. ASSUME NEW s \in PlanSteps
      PROVE  s \in named
  <2>1. PICK i \in 1..10 : s = Plan[i]
    BY PlanIs DEF PlanSteps
  <2> QED
    BY <2>1, PlanIs, OneToTen
<1>2. named \subseteq PlanSteps
  <2>1. \A i \in 1..10 : Plan[i] \in PlanSteps
    BY PlanIs DEF PlanSteps
  <2>2. /\ 1 \in 1..10 /\ 2 \in 1..10 /\ 3 \in 1..10 /\ 4 \in 1..10 /\ 5 \in 1..10 /\ 6 \in 1..10
        /\ 7 \in 1..10 /\ 8 \in 1..10 /\ 9 \in 1..10 /\ 10 \in 1..10
    OBVIOUS
  <2> QED
    BY <2>1, <2>2, PlanIs, Zenon
<1> QED
  BY <1>1, <1>2

(* Every step that a run can be at.                                         *)
LEMMA PlacesAre ==
  Places = {"checks", "redeem", "redeem again", "inputs", "start", "register", "gateway", "open", "prepare", "session",
            "remove then push", "push", "close", "returns", "over", "killed"} \cup PlanSteps
BY DEF Places, PlanSteps

Holds == {"this run", "gateway", "hold", "agent env", "checks", "run lock", "inputs"}

(* What qory run gives back when it returns is all that it can hold.        *)
LEMMA HeldAre == {ReturnOrder[i] : i \in DOMAIN ReturnOrder} = Holds
<1>1. /\ DOMAIN ReturnOrder = 1..7
      /\ ReturnOrder[1] = "this run" /\ ReturnOrder[2] = "gateway" /\ ReturnOrder[3] = "hold"
      /\ ReturnOrder[4] = "agent env" /\ ReturnOrder[5] = "checks" /\ ReturnOrder[6] = "run lock"
      /\ ReturnOrder[7] = "inputs"
  BY DEF ReturnOrder
<1>2. \A i \in 1..7 : i = 1 \/ i = 2 \/ i = 3 \/ i = 4 \/ i = 5 \/ i = 6 \/ i = 7
  OBVIOUS
<1>3. /\ 1 \in 1..7 /\ 2 \in 1..7 /\ 3 \in 1..7 /\ 4 \in 1..7 /\ 5 \in 1..7 /\ 6 \in 1..7 /\ 7 \in 1..7
  OBVIOUS
<1>4. ASSUME NEW x \in {ReturnOrder[i] : i \in DOMAIN ReturnOrder}
      PROVE  x \in Holds
  <2>1. PICK i \in 1..7 : x = ReturnOrder[i]
    BY <1>1, Zenon
  <2> QED
    BY <2>1, <1>1, <1>2, Zenon DEF Holds
<1>5. \A i \in 1..7 : ReturnOrder[i] \in {ReturnOrder[j] : j \in DOMAIN ReturnOrder}
  BY <1>1, Zenon
<1>6. Holds \subseteq {ReturnOrder[i] : i \in DOMAIN ReturnOrder}
  BY <1>1, <1>3, <1>5, Zenon DEF Holds
<1> QED
  BY <1>4, <1>6, Zenon

(* The type invariant in four parts, by what the values are.                *)
StateType ==
  /\ job \in Jobs /\ pc \in Places /\ signals \in 0..2 /\ due \in BOOLEAN
  /\ held \subseteq Holds \cup {"engine"}
  /\ code \in {"unused", "used"} /\ kept \in BOOLEAN /\ record \in BOOLEAN /\ owed \in BOOLEAN
  /\ setup \in BOOLEAN /\ failed \in BOOLEAN /\ engine \in BOOLEAN
EndType == ended \in Outcomes \cup {None} /\ closed \in Seq(Outcomes)
WayType ==
  /\ step \in {None, "succeeded", "cancelled", "failed"}
  /\ res \in Ways \cup {None, "cancelled before", "timed out before", "not prepared", "no session"}
  /\ push \in {None, "pushed", "failed", "interrupted", "timeout"}
ExitType == exit \in {None, 0, 1, 124}

(* The type invariant in the parts that the steps are proved for.           *)
LEMMA TypeParts == TypeOK <=> StateType /\ EndType /\ WayType /\ ExitType
BY HeldAre, Zenon DEF TypeOK, StateType, EndType, WayType, ExitType

(* Where the process goes from a step of the plan.                          *)
LEMMA GoesOn ==
  ASSUME NEW s \in PlanSteps \ {"join"}, pc = s, Goes(s) \/ Fails(s)
  PROVE  pc' \in PlanSteps
BY AfterStep, PlanStepsAre DEF Goes, Fails, GoTo

(* The ends that a run decides on are outcomes.                             *)
LEMMA OutcomeType ==
  /\ Succeeded \in Outcomes /\ FailedRun \in Outcomes /\ Interrupted \in Outcomes /\ TimedOut \in Outcomes
  /\ OutcomeOf \in Outcomes /\ Outcome("cancelled", None) \in Outcomes
<1>1. /\ Succeeded \in Outcomes /\ FailedRun \in Outcomes /\ Interrupted \in Outcomes /\ TimedOut \in Outcomes
      /\ Outcome("cancelled", None) \in Outcomes
  BY DEF Succeeded, FailedRun, Interrupted, TimedOut, Outcome, Outcomes
<1>2. sessionOutcome(res) \in Outcomes
  BY <1>1, Zenon DEF sessionOutcome
<1>3. pushOutcome \in Outcomes
  BY <1>1, <1>2, Zenon DEF pushOutcome
<1> QED
  BY <1>1, <1>3, Zenon DEF OutcomeOf

(* The exit status of an end is one of the statuses.                        *)
LEMMA StatusType == \A end : Status(end) \in {0, 1, 124}
<1>1. \A end : exitCode(end) \in {0, 1, 124}
  BY Zenon DEF exitCode
<1>2. \A end : runEnded(end) \in {0, 1, 124}
  BY <1>1, Zenon DEF runEnded
<1>3. \A end : pushEnded(end) \in {0, 1, 124}
  BY <1>2, Zenon DEF pushEnded
<1> QED
  BY <1>2, <1>3, Zenon DEF Status

(* A signal more is still a number of signals.                              *)
LEMMA OneSignalMore == \A n \in 0..2 : n < 2 => n + 1 \in 0..2
OBVIOUS

(* Every step keeps the types of the run and its calls.                     *)
LEMMA NextStateType ==
  ASSUME StateType, [Next]_vars
  PROVE  StateType'
<1> USE PlacesAre, PlanStepsAre DEF StateType, Holds, Exit, GoTo, Take, Drop, Goes, Fails, outside, process, result
<1>1. CASE Refused
  BY <1>1 DEF Refused
<1>2. CASE Passes
  BY <1>2 DEF Passes
<1>3. CASE Redeems
  BY <1>3 DEF Redeems
<1>4. CASE redeemFailed
  BY <1>4 DEF redeemFailed
<1>5. CASE WritesInputs
  BY <1>5 DEF WritesInputs
<1>6. CASE startRun
  BY <1>6 DEF startRun
<1>7. CASE registerThroughVia
  BY <1>7 DEF registerThroughVia
<1>8. CASE startGateway
  BY <1>8 DEF startGateway
<1>9. CASE Opens
  BY <1>9 DEF Opens, DropsKey
<1>10. CASE OpenFails
  BY <1>10 DEF OpenFails, DropsKey
<1>11. CASE Prepares
  BY <1>11, AfterStep DEF Prepares
<1>12. CASE PreparesSession
  BY <1>12, GoesOn DEF PreparesSession
<1>13. CASE Switches
  BY <1>13, GoesOn DEF Switches
<1>14. CASE LockFails
  BY <1>14, GoesOn DEF LockFails
<1>15. CASE removeSetup
  BY <1>15, GoesOn DEF removeSetup
<1>16. CASE RecordsSetup
  BY <1>16, GoesOn DEF RecordsSetup
<1>17. CASE EndsBeforeJoin
  BY <1>17 DEF EndsBeforeJoin
<1>18. CASE Joins
  BY <1>18 DEF Joins
<1>19. CASE JoinFails
  BY <1>19 DEF JoinFails
<1>20. CASE removeThenPush
  BY <1>20 DEF removeThenPush
<1>21. CASE closeRun
  BY <1>21 DEF closeRun, DropsKey
<1>22. CASE Returns
  BY <1>22 DEF Returns
<1>23. CASE LocksEngine
  BY <1>23, GoesOn DEF LocksEngine
<1>24. CASE Fetches
  BY <1>24, GoesOn DEF Fetches
<1>25. CASE Composes
  BY <1>25, GoesOn DEF Composes
<1>26. CASE FetchesImage
  BY <1>26, GoesOn DEF FetchesImage
<1>27. CASE runSetup
  BY <1>27, GoesOn DEF runSetup, Outside
<1>28. CASE \E how \in Ways : SessionEnds(how)
  <2>1. PICK how \in Ways : SessionEnds(how)
    BY <1>28
  <2> QED
    BY <2>1 DEF SessionEnds, keepsWork
<1>29. CASE \E how \in {"pushed", "failed", "interrupted", "timeout"} : pushWork(how)
  <2>1. PICK how \in {"pushed", "failed", "interrupted", "timeout"} : pushWork(how)
    BY <1>29
  <2> QED
    BY <2>1 DEF pushWork
<1>30. CASE Signal
  <2>1. signals \in 0..2 /\ signals < 2 /\ signals' = signals + 1
    BY <1>30, Zenon DEF Signal, StateType
  <2>2. signals' \in 0..2
    BY <2>1, OneSignalMore, Zenon
  <2> QED
    BY <1>30, <2>2, Zenon DEF Signal, StateType
<1>31. CASE LimitPasses
  BY <1>31 DEF LimitPasses
<1>32. CASE GatewayEnds
  BY <1>32 DEF GatewayEnds
<1>33. CASE OthersPull
  BY <1>33 DEF OthersPull
<1>34. CASE Kill
  BY <1>34 DEF Kill
<1>35. CASE Resend
  BY <1>35 DEF Resend
<1>36. CASE UNCHANGED vars
  BY <1>36 DEF vars
<1> QED
  BY <1>1, <1>2, <1>3, <1>4, <1>5, <1>6, <1>7, <1>8, <1>9, <1>10, <1>11, <1>12, <1>13, <1>14, <1>15, <1>16, <1>17, <1>18, <1>19, <1>20, <1>21, <1>22, <1>23, <1>24, <1>25, <1>26, <1>27, <1>28, <1>29, <1>30, <1>31, <1>32, <1>33, <1>34, <1>35, <1>36
     DEF Next, Starts, Works, Pushes, Goes_on, Happens

(* Every step keeps the types of how the run ended.                         *)
LEMMA NextEndType ==
  ASSUME EndType, [Next]_vars
  PROVE  EndType'
<1>1. GatewayEnds \/ closeRun
        \/ UNCHANGED <<ended, closed>>
  BY Zenon DEF Refused, Passes, Redeems, redeemFailed, WritesInputs, startRun, registerThroughVia,
         startGateway, Opens, OpenFails, Prepares, PreparesSession, Switches, LockFails,
         removeSetup, RecordsSetup, EndsBeforeJoin, Joins, JoinFails, removeThenPush, Returns,
         LocksEngine, Fetches, Composes, FetchesImage, runSetup, SessionEnds, pushWork, Signal,
         LimitPasses, OthersPull, Kill, Resend, Starts, Works, Goes_on, Happens, Next, vars,
         outside, result, Pushes
<1>2. CASE GatewayEnds
  BY <1>2, OutcomeType DEF GatewayEnds, EndType
<1>3. CASE closeRun
  BY <1>3, OutcomeType DEF closeRun, EndType
<1>4. CASE UNCHANGED <<ended, closed>>
  BY <1>4 DEF EndType
<1> QED
  BY <1>1, <1>2, <1>3, <1>4

(* Every step keeps the types of what the run is on its way to.             *)
LEMMA NextWayType ==
  ASSUME WayType, [Next]_vars
  PROVE  WayType'
<1>1. Fetches \/ Composes \/ FetchesImage \/ EndsBeforeJoin \/ JoinFails \/ (\E how \in Ways : SessionEnds(how)) \/ removeThenPush \/ Pushes
        \/ UNCHANGED <<step, res, push>>
  BY Zenon DEF Refused, Passes, Redeems, redeemFailed, WritesInputs, startRun, registerThroughVia,
         startGateway, Opens, OpenFails, Prepares, PreparesSession, Switches, LockFails,
         removeSetup, RecordsSetup, Joins, closeRun, Returns, LocksEngine, runSetup, Signal,
         LimitPasses, GatewayEnds, OthersPull, Kill, Resend, Starts, Works, Goes_on, Happens,
         Next, vars, outside, result
<1>2. CASE Fetches
  BY <1>2 DEF Fetches, StepEnds, WayType
<1>3. CASE Composes
  BY <1>3 DEF Composes, StepEnds, WayType
<1>4. CASE FetchesImage
  BY <1>4 DEF FetchesImage, StepEnds, WayType
<1>5. CASE EndsBeforeJoin
  BY <1>5 DEF EndsBeforeJoin, WayType
<1>6. CASE JoinFails
  BY <1>6 DEF JoinFails, WayType
<1>7. CASE \E how \in Ways : SessionEnds(how)
  BY <1>7 DEF SessionEnds, Ways, WayType
<1>8. CASE removeThenPush
  BY <1>8 DEF removeThenPush, Failures, WayType
<1>9. CASE Pushes
  BY <1>9 DEF Pushes, pushWork, Failures, WayType
<1>10. CASE UNCHANGED <<step, res, push>>
  BY <1>10 DEF WayType
<1> QED
  BY <1>1, <1>2, <1>3, <1>4, <1>5, <1>6, <1>7, <1>8, <1>9, <1>10

(* Every step keeps the types of what qory run returns.                     *)
LEMMA NextExitType ==
  ASSUME ExitType, [Next]_vars
  PROVE  ExitType'
<1>1. Refused \/ Redeems \/ redeemFailed \/ WritesInputs \/ startRun \/ registerThroughVia \/ startGateway \/ OpenFails \/ closeRun
        \/ UNCHANGED exit
  BY Zenon DEF Passes, Opens, Prepares, PreparesSession, Switches, LockFails, removeSetup,
         RecordsSetup, EndsBeforeJoin, Joins, JoinFails, removeThenPush, Returns, LocksEngine,
         Fetches, Composes, FetchesImage, runSetup, SessionEnds, pushWork, Signal, LimitPasses,
         GatewayEnds, OthersPull, Kill, Resend, Starts, Works, Goes_on, Happens, Next, vars,
         outside, result, Pushes
<1>2. CASE Refused
  BY <1>2 DEF Refused, Exit, ExitType
<1>3. CASE Redeems
  BY <1>3 DEF Redeems, Exit, ExitType
<1>4. CASE redeemFailed
  BY <1>4 DEF redeemFailed, Exit, ExitType
<1>5. CASE WritesInputs
  BY <1>5 DEF WritesInputs, Exit, ExitType
<1>6. CASE startRun
  BY <1>6 DEF startRun, Exit, ExitType
<1>7. CASE registerThroughVia
  BY <1>7 DEF registerThroughVia, Exit, ExitType
<1>8. CASE startGateway
  BY <1>8 DEF startGateway, Exit, ExitType
<1>9. CASE OpenFails
  BY <1>9 DEF OpenFails, Exit, ExitType
<1>10. CASE closeRun
  BY <1>10, StatusType DEF closeRun, Exit, ExitType
<1>11. CASE UNCHANGED exit
  BY <1>11 DEF ExitType
<1> QED
  BY <1>1, <1>2, <1>3, <1>4, <1>5, <1>6, <1>7, <1>8, <1>9, <1>10, <1>11

-----------------------------------------------------------------------------
(* The run key: it is kept before the run opens, and dropped once nothing   *)
(* is left to send.                                                         *)
LEMMA NextKeyInv ==
  ASSUME StateType, KeyInv, [Next]_vars
  PROVE  KeyInv'
<1> USE PlanStepsAre DEF StateType, KeyInv, KeyKeptWhileOwed, Opened, Via, Live, Exit, GoTo, Goes, Fails, outside, process, result
<1>1. CASE Refused
  BY <1>1 DEF Refused
<1>2. CASE Passes
  BY <1>2 DEF Passes
<1>3. CASE Redeems
  BY <1>3 DEF Redeems
<1>4. CASE redeemFailed
  BY <1>4 DEF redeemFailed
<1>5. CASE WritesInputs
  BY <1>5 DEF WritesInputs
<1>6. CASE startRun
  BY <1>6 DEF startRun, Via
<1>7. CASE registerThroughVia
  BY <1>7 DEF registerThroughVia
<1>8. CASE startGateway
  BY <1>8 DEF startGateway
<1>9. CASE Opens
  BY <1>9 DEF Opens
<1>10. CASE OpenFails
  BY <1>10 DEF OpenFails, DropsKey, nothingLeftToSend, Via
<1>11. CASE Prepares
  BY <1>11, AfterStep DEF Prepares
<1>12. CASE PreparesSession
  BY <1>12, GoesOn DEF PreparesSession
<1>13. CASE Switches
  BY <1>13, GoesOn DEF Switches
<1>14. CASE LockFails
  BY <1>14, GoesOn DEF LockFails
<1>15. CASE removeSetup
  BY <1>15, GoesOn DEF removeSetup
<1>16. CASE RecordsSetup
  BY <1>16, GoesOn DEF RecordsSetup
<1>17. CASE EndsBeforeJoin
  BY <1>17 DEF EndsBeforeJoin
<1>18. CASE Joins
  BY <1>18 DEF Joins
<1>19. CASE JoinFails
  BY <1>19 DEF JoinFails
<1>20. CASE removeThenPush
  BY <1>20 DEF removeThenPush
<1>21. CASE closeRun
  BY <1>21 DEF closeRun, DropsKey, nothingLeftToSend, Via
<1>22. CASE Returns
  BY <1>22 DEF Returns
<1>23. CASE LocksEngine
  BY <1>23, GoesOn DEF LocksEngine
<1>24. CASE Fetches
  BY <1>24, GoesOn DEF Fetches
<1>25. CASE Composes
  BY <1>25, GoesOn DEF Composes
<1>26. CASE FetchesImage
  BY <1>26, GoesOn DEF FetchesImage
<1>27. CASE runSetup
  BY <1>27, GoesOn DEF runSetup
<1>28. CASE \E how \in Ways : SessionEnds(how)
  <2>1. PICK how \in Ways : SessionEnds(how)
    BY <1>28
  <2> QED
    BY <2>1 DEF SessionEnds, keepsWork
<1>29. CASE \E how \in {"pushed", "failed", "interrupted", "timeout"} : pushWork(how)
  <2>1. PICK how \in {"pushed", "failed", "interrupted", "timeout"} : pushWork(how)
    BY <1>29
  <2> QED
    BY <2>1 DEF pushWork
<1>30. CASE Signal
  BY <1>30 DEF Signal
<1>31. CASE LimitPasses
  BY <1>31 DEF LimitPasses
<1>32. CASE GatewayEnds
  BY <1>32 DEF GatewayEnds
<1>33. CASE OthersPull
  BY <1>33 DEF OthersPull
<1>34. CASE Kill
  BY <1>34 DEF Kill
<1>35. CASE Resend
  BY <1>35 DEF Resend
<1>36. CASE UNCHANGED vars
  BY <1>36 DEF vars
<1> QED
  BY <1>1, <1>2, <1>3, <1>4, <1>5, <1>6, <1>7, <1>8, <1>9, <1>10, <1>11, <1>12, <1>13, <1>14, <1>15, <1>16, <1>17, <1>18, <1>19, <1>20, <1>21, <1>22, <1>23, <1>24, <1>25, <1>26, <1>27, <1>28, <1>29, <1>30, <1>31, <1>32, <1>33, <1>34, <1>35, <1>36
     DEF Next, Starts, Works, Pushes, Goes_on, Happens

-----------------------------------------------------------------------------
(* The end: what qory run exits with agrees with what it closed the run     *)
(* with.                                                                    *)
LEMMA OutcomeStates ==
  /\ Succeeded.state = "succeeded" /\ FailedRun.state = "failed"
  /\ Interrupted.state = "cancelled" /\ TimedOut.state = "cancelled"
BY DEF Succeeded, FailedRun, Interrupted, TimedOut, Outcome

(* The exit statuses are different numbers.                                 *)
LEMMA Numbers == 0 # 1 /\ 0 # 124 /\ 1 # 0 /\ 124 # 0
OBVIOUS

(* Status is 0 for an end that is recorded as succeeded, and for no other.  *)
LEMMA StatusAgrees ==
  ASSUME res = "run closed" => ended # None,
         NEW end, end = IF ended # None THEN ended ELSE OutcomeOf
  PROVE  /\ Status(ended) = 0 => end.state = "succeeded"
         /\ end.state = "succeeded" /\ ended = None => Status(ended) = 0
<1>1. \A e : exitCode(e) = 0 <=> e.state = "succeeded"
  BY Numbers, Zenon DEF exitCode
<1>2. CASE ended # None
  <2>1. runEnded(ended) = 0 => ended.state = "succeeded"
    BY <1>1, <1>2, Numbers, Zenon DEF runEnded, agrees
  <2>2. pushEnded(ended) = 0 => ended.state = "succeeded"
    BY <2>1, Numbers, Zenon DEF pushEnded
  <2> QED
    BY <1>2, <2>1, <2>2, Numbers, Zenon DEF Status
<1>3. CASE ended = None
  <2>1. end = OutcomeOf
    BY <1>3, Zenon
  <2>2. runEnded(ended) = 0 <=> res = "exited 0"
    BY <1>3, Numbers, Zenon DEF runEnded
  <2>3. sessionOutcome(res).state = "succeeded" <=> res = "exited 0"
    BY OutcomeStates, Numbers, Zenon DEF sessionOutcome
  <2>4. sessionOutcome(res) = Succeeded <=> res = "exited 0"
    BY OutcomeStates, Numbers, Zenon DEF sessionOutcome
  <2>5. pushOutcome.state = "succeeded" <=> res = "exited 0" /\ push \in {None, "pushed"}
    BY <2>3, <2>4, OutcomeStates, Numbers, Zenon DEF pushOutcome
  <2>6. pushEnded(ended) = 0 <=> res # "exited 0" /\ runEnded(ended) = 0
    BY <2>4, Numbers, Zenon DEF pushEnded
  <2>7. Status(ended) = 0 <=> res = "exited 0" /\ push \in {None, "pushed"}
    BY <2>2, <2>6, Numbers, Zenon DEF Status
  <2>8. OutcomeOf.state = "succeeded" <=> res = "exited 0" /\ push \in {None, "pushed"}
    BY <2>5, OutcomeStates, Numbers, Zenon DEF OutcomeOf
  <2> QED
    BY <2>1, <2>7, <2>8, Zenon
<1> QED
  BY <1>2, <1>3, Zenon

(* The first record of an end is the only one.                              *)
LEMMA OneAppended == \A e : Len(Append(<<>>, e)) = 1 /\ Append(<<>>, e)[1] = e
OBVIOUS

(* Every step keeps the part of the invariant about the end.                *)
LEMMA NextEndInv ==
  ASSUME StateType, EndInv, [Next]_vars
  PROVE  EndInv'
<1> USE PlanStepsAre DEF EndInv, ClosedAs, Live, Exit, GoTo, Goes, Fails, outside, process, result
<1>1. CASE Refused
  BY <1>1, Zenon DEF Refused
<1>2. CASE Passes
  BY <1>2, Zenon DEF Passes
<1>3. CASE Redeems
  BY <1>3, Zenon DEF Redeems
<1>4. CASE redeemFailed
  BY <1>4, Zenon DEF redeemFailed
<1>5. CASE WritesInputs
  BY <1>5, Zenon DEF WritesInputs
<1>6. CASE startRun
  BY <1>6, Zenon DEF startRun
<1>7. CASE registerThroughVia
  BY <1>7, Zenon DEF registerThroughVia
<1>8. CASE startGateway
  BY <1>8, Zenon DEF startGateway
<1>9. CASE Opens
  BY <1>9, Zenon DEF Opens
<1>10. CASE OpenFails
  BY <1>10, Zenon DEF OpenFails
<1>11. CASE Prepares
  BY <1>11, AfterStep, Zenon DEF Prepares
<1>12. CASE PreparesSession
  BY <1>12, GoesOn, Zenon DEF PreparesSession
<1>13. CASE Switches
  BY <1>13, GoesOn, Zenon DEF Switches
<1>14. CASE LockFails
  BY <1>14, GoesOn, Zenon DEF LockFails
<1>15. CASE removeSetup
  BY <1>15, GoesOn, Zenon DEF removeSetup
<1>16. CASE RecordsSetup
  BY <1>16, GoesOn, Zenon DEF RecordsSetup
<1>17. CASE EndsBeforeJoin
  BY <1>17, Zenon DEF EndsBeforeJoin
<1>18. CASE Joins
  BY <1>18, Zenon DEF Joins
<1>19. CASE JoinFails
  BY <1>19, Zenon DEF JoinFails
<1>20. CASE removeThenPush
  BY <1>20, Zenon DEF removeThenPush
<1>21. CASE closeRun
  <2>1. PICK ok \in BOOLEAN :
          /\ closed' = IF ok THEN Append(closed, IF ended # None THEN ended ELSE OutcomeOf) ELSE closed
          /\ exit' = Status(IF ok THEN ended ELSE None)
    BY <1>21, Zenon DEF closeRun
  <2>2. pc = "close" /\ pc' = "returns" /\ closed = <<>> /\ ended' = ended
    BY <1>21, Zenon DEF closeRun
  <2>3. CASE ~ok
    BY <2>1, <2>2, <2>3, Zenon
  <2>4. CASE ok
    <3>1. PICK end : end = IF ended # None THEN ended ELSE OutcomeOf
      OBVIOUS
    <3>2. closed' = Append(<<>>, end) /\ exit' = Status(ended)
      BY <2>1, <2>2, <2>4, <3>1, Zenon
    <3>3. Len(closed') = 1 /\ closed'[1] = end
      BY <3>2, OneAppended, Zenon
    <3>4. /\ Status(ended) = 0 => end.state = "succeeded"
          /\ end.state = "succeeded" /\ ended = None => Status(ended) = 0
      BY <2>2, <3>1, StatusAgrees, Zenon
    <3> QED
      BY <2>2, <3>2, <3>3, <3>4, Zenon
  <2> QED
    BY <2>3, <2>4, Zenon
<1>22. CASE Returns
  BY <1>22, Zenon DEF Returns
<1>23. CASE LocksEngine
  BY <1>23, GoesOn, Zenon DEF LocksEngine
<1>24. CASE Fetches
  BY <1>24, GoesOn, Zenon DEF Fetches
<1>25. CASE Composes
  BY <1>25, GoesOn, Zenon DEF Composes
<1>26. CASE FetchesImage
  BY <1>26, GoesOn, Zenon DEF FetchesImage
<1>27. CASE runSetup
  BY <1>27, GoesOn, Zenon DEF runSetup
<1>28. CASE \E how \in Ways : SessionEnds(how)
  <2>1. PICK how \in Ways : SessionEnds(how)
    BY <1>28
  <2> QED
    BY <2>1, Zenon DEF SessionEnds
<1>29. CASE \E how \in {"pushed", "failed", "interrupted", "timeout"} : pushWork(how)
  <2>1. PICK how \in {"pushed", "failed", "interrupted", "timeout"} : pushWork(how)
    BY <1>29
  <2> QED
    BY <2>1, Zenon DEF pushWork
<1>30. CASE Signal
  BY <1>30, Zenon DEF Signal
<1>31. CASE LimitPasses
  BY <1>31, Zenon DEF LimitPasses
<1>32. CASE GatewayEnds
  BY <1>32, Zenon DEF GatewayEnds
<1>33. CASE OthersPull
  BY <1>33, Zenon DEF OthersPull
<1>34. CASE Kill
  BY <1>34, Zenon DEF Kill
<1>35. CASE Resend
  BY <1>35, Zenon DEF Resend
<1>36. CASE UNCHANGED vars
  BY <1>36 DEF vars
<1> QED
  BY <1>1, <1>2, <1>3, <1>4, <1>5, <1>6, <1>7, <1>8, <1>9, <1>10, <1>11, <1>12, <1>13, <1>14, <1>15, <1>16, <1>17, <1>18, <1>19, <1>20, <1>21, <1>22, <1>23, <1>24, <1>25, <1>26, <1>27, <1>28, <1>29, <1>30, <1>31, <1>32, <1>33, <1>34, <1>35, <1>36
     DEF Next, Starts, Works, Pushes, Goes_on, Happens

-----------------------------------------------------------------------------
(* The setup container.                                                     *)
LEMMA StoppedStays ==
  ASSUME StateType, [Next]_vars, Stopped
  PROVE  Stopped'
<1>1. Signal \/ LimitPasses \/ UNCHANGED <<signals, due>>
  BY Zenon DEF Refused, Passes, Redeems, redeemFailed, WritesInputs, startRun, registerThroughVia,
         startGateway, Opens, OpenFails, Prepares, PreparesSession, Switches, LockFails,
         removeSetup, RecordsSetup, EndsBeforeJoin, Joins, JoinFails, removeThenPush, closeRun,
         Returns, LocksEngine, Fetches, Composes, FetchesImage, runSetup, SessionEnds, pushWork,
         GatewayEnds, OthersPull, Kill, Resend, Starts, Works, Pushes, Goes_on, Happens, Next,
         vars, process
<1>2. CASE Signal
  <2>1. signals \in 0..2 /\ signals' = signals + 1
    BY <1>2, Zenon DEF Signal, StateType
  <2> QED
    BY <2>1 DEF Stopped
<1>3. CASE LimitPasses
  BY <1>3 DEF LimitPasses, Stopped
<1>4. CASE UNCHANGED <<signals, due>>
  BY <1>4 DEF Stopped
<1> QED
  BY <1>1, <1>2, <1>3, <1>4

(* Every step keeps the part about the setup and the working folder.        *)
LEMMA NextSetupInv ==
  ASSUME StateType, SetupInv, [Next]_vars
  PROVE  SetupInv'
<1> USE PlanStepsAre, StoppedStays DEF StateType, SetupInv, Ready, Exit, GoTo, Goes, Fails, outside, process, result
<1>1. CASE Refused
  BY <1>1 DEF Refused
<1>2. CASE Passes
  BY <1>2 DEF Passes
<1>3. CASE Redeems
  BY <1>3 DEF Redeems
<1>4. CASE redeemFailed
  BY <1>4 DEF redeemFailed
<1>5. CASE WritesInputs
  BY <1>5 DEF WritesInputs
<1>6. CASE startRun
  BY <1>6 DEF startRun
<1>7. CASE registerThroughVia
  BY <1>7 DEF registerThroughVia
<1>8. CASE startGateway
  BY <1>8 DEF startGateway
<1>9. CASE Opens
  BY <1>9 DEF Opens
<1>10. CASE OpenFails
  BY <1>10 DEF OpenFails
<1>11. CASE Prepares
  BY <1>11, AfterStep DEF Prepares
<1>12. CASE PreparesSession
  BY <1>12, AfterStep DEF PreparesSession
<1>13. CASE Switches
  BY <1>13, AfterStep DEF Switches
<1>14. CASE LockFails
  BY <1>14, AfterStep DEF LockFails
<1>15. CASE removeSetup
  BY <1>15, AfterStep DEF removeSetup
<1>16. CASE RecordsSetup
  BY <1>16, AfterStep DEF RecordsSetup
<1>17. CASE EndsBeforeJoin
  BY <1>17 DEF EndsBeforeJoin
<1>18. CASE Joins
  BY <1>18 DEF Joins
<1>19. CASE JoinFails
  BY <1>19 DEF JoinFails
<1>20. CASE removeThenPush
  BY <1>20 DEF removeThenPush
<1>21. CASE closeRun
  BY <1>21 DEF closeRun
<1>22. CASE Returns
  BY <1>22 DEF Returns
<1>23. CASE LocksEngine
  BY <1>23, AfterStep DEF LocksEngine
<1>24. CASE Fetches
  BY <1>24, AfterStep DEF Fetches
<1>25. CASE Composes
  BY <1>25, AfterStep DEF Composes, readOnlyCheckout
<1>26. CASE FetchesImage
  BY <1>26, AfterStep DEF FetchesImage
<1>27. CASE runSetup
  BY <1>27, AfterStep DEF runSetup
<1>28. CASE \E how \in Ways : SessionEnds(how)
  <2>1. PICK how \in Ways : SessionEnds(how)
    BY <1>28
  <2> QED
    BY <2>1 DEF SessionEnds, keepsWork, canPush
<1>29. CASE \E how \in {"pushed", "failed", "interrupted", "timeout"} : pushWork(how)
  <2>1. PICK how \in {"pushed", "failed", "interrupted", "timeout"} : pushWork(how)
    BY <1>29
  <2> QED
    BY <2>1 DEF pushWork
<1>30. CASE Signal
  BY <1>30 DEF Signal
<1>31. CASE LimitPasses
  BY <1>31 DEF LimitPasses
<1>32. CASE GatewayEnds
  BY <1>32 DEF GatewayEnds
<1>33. CASE OthersPull
  BY <1>33 DEF OthersPull
<1>34. CASE Kill
  BY <1>34 DEF Kill
<1>35. CASE Resend
  BY <1>35 DEF Resend
<1>36. CASE UNCHANGED vars
  BY <1>36 DEF vars
<1> QED
  BY <1>1, <1>2, <1>3, <1>4, <1>5, <1>6, <1>7, <1>8, <1>9, <1>10, <1>11, <1>12, <1>13, <1>14, <1>15, <1>16, <1>17, <1>18, <1>19, <1>20, <1>21, <1>22, <1>23, <1>24, <1>25, <1>26, <1>27, <1>28, <1>29, <1>30, <1>31, <1>32, <1>33, <1>34, <1>35, <1>36
     DEF Next, Starts, Works, Pushes, Goes_on, Happens

-----------------------------------------------------------------------------
(* The inductive invariant, and what follows from it.                       *)
LEMMA InitIInv == Init => IInv
<1> SUFFICES ASSUME Init
             PROVE  IInv
  OBVIOUS
<1>1. StateType
  <2>1. 0 \in 0..2
    OBVIOUS
  <2> QED
    BY <2>1, PlacesAre, Zenon DEF Init, StateType
<1>2. EndType
  BY DEF Init, EndType
<1>3. WayType /\ ExitType
  BY Zenon DEF Init, WayType, ExitType
<1>4. pc = "checks" /\ setup = FALSE /\ record = FALSE /\ closed = <<>>
  BY DEF Init
<1>5. KeyInv
  BY <1>4, PlanStepsAre DEF KeyInv, Opened, KeyKeptWhileOwed
<1>6. EndInv
  BY <1>4 DEF EndInv
<1>7. SetupInv
  BY <1>4 DEF SetupInv, Ready
<1> QED
  BY <1>1, <1>2, <1>3, <1>5, <1>6, <1>7, TypeParts DEF IInv

(* Every step keeps the invariant.                                          *)
LEMMA NextIInv == IInv /\ [Next]_vars => IInv'
<1> SUFFICES ASSUME IInv, [Next]_vars
             PROVE  IInv'
  OBVIOUS
<1>1. StateType /\ EndType /\ WayType /\ ExitType /\ KeyInv /\ EndInv /\ SetupInv
  BY TypeParts DEF IInv
<1>2. StateType' /\ EndType' /\ WayType' /\ ExitType'
  BY <1>1, NextStateType, NextEndType, NextWayType, NextExitType
<1>3. TypeOK'
  BY <1>2, HeldAre, Zenon DEF TypeOK, StateType, EndType, WayType, ExitType
<1>4. KeyInv' /\ EndInv' /\ SetupInv'
  BY <1>1, NextKeyInv, NextEndInv, NextSetupInv
<1> QED
  BY <1>3, <1>4 DEF IInv

(* The invariant above holds in every state of every run, whatever the job. *)
THEOREM AlwaysIInv == Spec => []IInv
BY InitIInv, NextIInv, PTL DEF Spec

(* Whatever the job, and however the signals, the limit, the gateway's end  *)
(* and a kill fall, a run is at a step of RunE with the values that its     *)
(* variables have there, and holds nothing but what its defers let go.      *)
THEOREM TypeCorrect == Spec => []TypeOK
<1>1. IInv => TypeOK
  BY DEF IInv
<1> QED
  BY <1>1, AlwaysIInv, PTL

(* The run key of a run through via stays beside forager.yaml while the     *)
(* gateway may still be owed something: registerThroughVia keeps it before  *)
(* the open, and closeRun, OpenFails and resend drop it only with nothing   *)
(* left.                                                                    *)
THEOREM KeyStaysWhileOwed == Spec => []KeyKeptWhileOwed
<1>1. IInv => KeyKeptWhileOwed
  BY DEF IInv, KeyInv
<1> QED
  BY <1>1, AlwaysIInv, PTL

(* The close and the exit status of one run agree, for every order of the   *)
(* signal, the limit, the gateway's end, the runtime's exit and the push.   *)
THEOREM EndsTheWayItRecords == Spec => []EndsAsRecorded
<1>1. IInv => EndsAsRecorded
  <2> SUFFICES ASSUME IInv
               PROVE  EndsAsRecorded
    OBVIOUS
  <2>1. EndInv
    BY DEF IInv
  <2>2. closed = <<>> => Len(closed) = 0
    OBVIOUS
  <2>3. 0 <= 1 /\ 1 <= 1
    OBVIOUS
  <2> QED
    BY <2>1, <2>2, <2>3, Zenon DEF EndInv, ClosedAs, EndsAsRecorded
<1> QED
  BY <1>1, AlwaysIInv, PTL

(* No setup container is left beside the push or beside a reading agent:    *)
(* removeThenPush and removeSetup remove it first, and a reading run that   *)
(* could have one that writes stops at the compose.                         *)
THEOREM WritesBesideNone == Spec => []WritesAlone
<1>1. IInv => WritesAlone
  BY DEF IInv, SetupInv, WritesAlone
<1> QED
  BY <1>1, AlwaysIInv, PTL
=============================================================================
