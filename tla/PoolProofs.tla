----------------------------- MODULE PoolProofs -----------------------------
(* Proofs about Pool, for every number of dispatches, slots and crashes.    *)
EXTENDS Pool, RequestTimes, FiniteSetTheorems, TLAPS

(* The inductive invariant, one part per idea.                              *)

(* Nothing is under way before the claim loop, but what replay waits for.   *)
DownIsIdle ==
  main \in {"down", "probe", "replay"} => given = {} /\ \A d \in Dispatches : at[d] = "none"

(* The main goroutine waits for one dispatch, and during replay no other is *)
(* handled.                                                                 *)
Waited(d) == at[d] # "none" /\ caller[d] # "dispatch"
BusyIsOne ==
  \A d \in Dispatches : Waited(d) =>
    /\ main = "busy" /\ at[d] \in {"release", "forget", "clean"}
    /\ \A e \in Dispatches \ {d} : ~Waited(e) /\ (caller[d] = "replay" => at[e] = "none")

(* An answered claim's dispatch is new: no goroutine handles it yet.        *)
GivenIsNew ==
  /\ claim # "idle" => main = "claim"
  /\ given # {} => main \in {"claim", "admit"}
  /\ \A d \in given : /\ at[d] = "none" /\ child[d] = "none" /\ srv[d] # "offered"
                      /\ entries[d] = "none" /\ file[d] = "none"

(* Nothing knows a dispatch Qory Apiary did not lease.                      *)
OfferedIsUnknown ==
  \A d \in Dispatches : srv[d] = "offered" =>
    /\ at[d] = "none" /\ child[d] = "none" /\ d \notin admitted
    /\ entries[d] = "none" /\ file[d] = "none"

(* Started at Qory Apiary: what is past the answer of dispatched, or is     *)
(* journaled as that.                                                       *)
PastStart(d) == srv[d] \in {"started", "over"}
StartedIsAccepted ==
  \A d \in Dispatches :
    \/ PastStart(d)
    \/ /\ child[d] = "none"
       /\ at[d] \notin {"start", "run"}
       /\ file[d] # "dispatched" /\ entries[d] # "dispatched"
       /\ reply[d] = "ok" => at[d] = "release"

AnswersAreTrue ==
  \A d \in Dispatches : reply[d] = "over" => srv[d] \in {"released", "over"}

(* The run a goroutine is about to start is the first one.                  *)
RunIsFirst ==
  \A d \in Dispatches :
    /\ at[d] \in {"prepare", "unlink", "post", "wait", "start"} => child[d] = "none"
    /\ at[d] = "run" <=> child[d] = "running"

(* What is forgotten was given back, or is no lease any more.               *)
ForgottenIsSettled ==
  \A d \in Dispatches :
    /\ at[d] = "release" => d \in gave
    /\ at[d] \in {"forget", "clean"} => d \in gave \/ srv[d] # "leased"

(* The file and, while a program lives, its entries hold every lease that   *)
(* was journaled and not given back.                                        *)
LeaseIsHeld ==
  \A d \in admitted : srv[d] = "leased" /\ d \notin gave =>
    file[d] = "claimed" /\ (main # "down" => entries[d] = "claimed")

(* A dispatch is journaled as dispatched only past the answer, and replay   *)
(* reads the phases that the file has.                                      *)
JournalIsPast ==
  \A d \in Dispatches : "dispatched" \in {file[d], entries[d]} =>
    at[d] \notin {"prepare", "unlink", "post", "wait"}
Replaying == main \in {"probe", "replay"} \/ \E d \in Dispatches : Waited(d) /\ caller[d] = "replay"
ReplayReadsFile ==
  Replaying => \A d \in Dispatches : entries[d] = "claimed" => file[d] # "dispatched"

IInv == /\ TypeOK
        /\ DownIsIdle /\ BusyIsOne /\ GivenIsNew /\ OfferedIsUnknown /\ StartedIsAccepted
        /\ AnswersAreTrue /\ RunIsFirst /\ ForgottenIsSettled /\ LeaseIsHeld
        /\ CodeFileUnlinked /\ JournalIsPast /\ ReplayReadsFile
-----------------------------------------------------------------------------
USE RunsAssumption, LimitsAssumption, FaultsAssumption
USE DEF vars, loopVars, workVars, diskVars, worldVars, histVars,
        Phases, MainPlaces, Places, Callers, Answers, Replies, Requests, ClaimReplies

(* The program starts, on an empty journal, in the invariant.               *)
LEMMA InitIInv == Init => IInv
<1> SUFFICES ASSUME Init PROVE IInv
  OBVIOUS
<1> USE DEF Init
<1>1. TypeOK
  <2>1. entries \in [Dispatches -> Phases] /\ file \in [Dispatches -> Phases]
    OBVIOUS
  <2>2. at \in [Dispatches -> Places] /\ caller \in [Dispatches -> Callers]
    OBVIOUS
  <2>3. limited \in [Dispatches -> 0..MaxRateLimited] /\ reply \in [Dispatches -> Replies]
    OBVIOUS
  <2>4. cancelled \in [Dispatches -> BOOLEAN]
    OBVIOUS
  <2>5. child \in [Dispatches -> {"none", "running", "orphan", "ended"}]
    OBVIOUS
  <2>6. srv \in [Dispatches -> {"offered", "leased", "started", "released", "over"}]
    OBVIOUS
  <2>7. /\ main \in MainPlaces /\ slots \in Int /\ todo \subseteq Dispatches
        /\ claim \in ClaimReplies /\ given \subseteq Dispatches
    OBVIOUS
  <2>8. stop \in BOOLEAN
    BY Zenon
  <2>9. /\ dir \subseteq Dispatches /\ codeFile \subseteq Dispatches /\ net \subseteq Requests
        /\ gave \subseteq Dispatches /\ admitted \subseteq Dispatches /\ crashes \in Nat
    OBVIOUS
  <2> QED
    BY <2>1, <2>2, <2>3, <2>4, <2>5, <2>6, <2>7, <2>8, <2>9 DEF TypeOK
<1>2. DownIsIdle
  BY DEF DownIsIdle
<1>3. BusyIsOne
  BY DEF BusyIsOne, Waited
<1>4. GivenIsNew
  BY DEF GivenIsNew
<1>5. OfferedIsUnknown
  BY DEF OfferedIsUnknown
<1>6. StartedIsAccepted
  BY DEF StartedIsAccepted, PastStart
<1>7. AnswersAreTrue
  BY DEF AnswersAreTrue
<1>8. RunIsFirst
  BY DEF RunIsFirst
<1>9. ForgottenIsSettled
  BY DEF ForgottenIsSettled
<1>10. LeaseIsHeld
  BY DEF LeaseIsHeld
<1>11. CodeFileUnlinked
  BY DEF CodeFileUnlinked
<1>12. JournalIsPast
  BY DEF JournalIsPast
<1>13. ReplayReadsFile
  BY SMTT(30) DEF ReplayReadsFile, Replaying, Waited
<1> QED
  BY <1>1, <1>2, <1>3, <1>4, <1>5, <1>6, <1>7, <1>8, <1>9, <1>10, <1>11, <1>12, <1>13 DEF IInv

(* One step per action: each keeps every part of the invariant.             *)
LEMMA NextIInv == IInv /\ [Next]_vars => IInv'
<1> SUFFICES ASSUME IInv, [Next]_vars PROVE IInv'
  OBVIOUS
<1> USE DEF IInv, TypeOK, DownIsIdle, BusyIsOne, Waited, GivenIsNew,
             OfferedIsUnknown, StartedIsAccepted, PastStart, AnswersAreTrue, RunIsFirst,
             ForgottenIsSettled, LeaseIsHeld, CodeFileUnlinked, JournalIsPast, ReplayReadsFile,
             Replaying
<1>1. CASE ProbePassed
  BY <1>1 DEF ProbePassed
<1>2. CASE ProbeRefused
  BY <1>2, ZenonT(40) DEF ProbeRefused
<1>3. CASE ReplayEnded
  BY <1>3 DEF ReplayEnded
<1>4. CASE AcquireSlot
  BY <1>4 DEF AcquireSlot
<1>5. CASE ClaimLoopStopped
  BY <1>5 DEF ClaimLoopStopped
<1>6. CASE ClaimGivenUp
  BY <1>6 DEF ClaimGivenUp
<1>7. CASE ClaimReturned
  BY <1>7 DEF ClaimReturned
<1>8. CASE BackoffOver
  BY <1>8 DEF BackoffOver
<1>9. CASE Drained
  BY <1>9, ZenonT(40) DEF Drained
<1>10. ASSUME NEW d \in Dispatches, ReplayClaimed(d) PROVE IInv'
  <2>1. TypeOK'
    BY <1>10 DEF ReplayClaimed, Releasing, Sent
  <2>2. DownIsIdle'
    BY <1>10 DEF ReplayClaimed, Releasing, Sent
  <2>3. BusyIsOne'
    BY <1>10 DEF ReplayClaimed, Releasing, Sent
  <2>4. GivenIsNew'
    BY <1>10 DEF ReplayClaimed, Releasing, Sent
  <2>5. OfferedIsUnknown'
    BY <1>10 DEF ReplayClaimed, Releasing, Sent
  <2>6. StartedIsAccepted'
    BY <1>10 DEF ReplayClaimed, Releasing, Sent
  <2>7. AnswersAreTrue'
    BY <1>10 DEF ReplayClaimed, Releasing, Sent
  <2>8. RunIsFirst'
    BY <1>10 DEF ReplayClaimed, Releasing, Sent
  <2>9. ForgottenIsSettled'
    BY <1>10 DEF ReplayClaimed, Releasing, Sent
  <2>10. LeaseIsHeld'
    BY <1>10 DEF ReplayClaimed, Releasing, Sent
  <2>11. CodeFileUnlinked'
    BY <1>10 DEF ReplayClaimed, Releasing, Sent
  <2>12. JournalIsPast'
    BY <1>10 DEF ReplayClaimed, Releasing, Sent
  <2>13. ReplayReadsFile'
    BY <1>10 DEF ReplayClaimed, Releasing, Sent
  <2> QED
    BY <2>1, <2>2, <2>3, <2>4, <2>5, <2>6, <2>7, <2>8, <2>9, <2>10, <2>11, <2>12, <2>13
<1>11. ASSUME NEW d \in Dispatches, ReplayDispatched(d) PROVE IInv'
  <2>1. TypeOK'
    BY <1>11 DEF ReplayDispatched, Forgetting
  <2>2. DownIsIdle'
    BY <1>11 DEF ReplayDispatched, Forgetting
  <2>3. BusyIsOne'
    BY <1>11 DEF ReplayDispatched, Forgetting
  <2>4. GivenIsNew'
    BY <1>11 DEF ReplayDispatched, Forgetting
  <2>5. OfferedIsUnknown'
    BY <1>11 DEF ReplayDispatched, Forgetting
  <2>6. StartedIsAccepted'
    BY <1>11 DEF ReplayDispatched, Forgetting
  <2>7. AnswersAreTrue'
    BY <1>11 DEF ReplayDispatched, Forgetting
  <2>8. RunIsFirst'
    BY <1>11 DEF ReplayDispatched, Forgetting
  <2>9. ForgottenIsSettled'
    BY <1>11 DEF ReplayDispatched, Forgetting
  <2>10. LeaseIsHeld'
    BY <1>11 DEF ReplayDispatched, Forgetting
  <2>11. CodeFileUnlinked'
    BY <1>11 DEF ReplayDispatched, Forgetting
  <2>12. JournalIsPast'
    BY <1>11 DEF ReplayDispatched, Forgetting
  <2>13. ReplayReadsFile'
    BY <1>11 DEF ReplayDispatched, Forgetting
  <2> QED
    BY <2>1, <2>2, <2>3, <2>4, <2>5, <2>6, <2>7, <2>8, <2>9, <2>10, <2>11, <2>12, <2>13
<1>12. ASSUME NEW d \in Dispatches, AdmitJournaled(d) PROVE IInv'
  BY <1>12 DEF AdmitJournaled, JournalWritten, JournalNotWritten, Releasing, Sent
<1>13. ASSUME NEW d \in Dispatches, AdmitNotJournaled(d) PROVE IInv'
  BY <1>13 DEF AdmitNotJournaled, JournalWritten, JournalNotWritten, Releasing, Sent
<1>14. ASSUME NEW d \in Dispatches, PrepareFolder(d) PROVE IInv'
  BY <1>14 DEF PrepareFolder, GoTo
<1>15. ASSUME NEW d \in Dispatches, PrepareFolderFailed(d) PROVE IInv'
  BY <1>15 DEF PrepareFolderFailed, Releasing, Sent
<1>16. ASSUME NEW d \in Dispatches, PrepareUnlink(d) PROVE IInv'
  BY <1>16, SMTT(30) DEF PrepareUnlink, Releasing, Sent, GoTo, SendDispatched
<1>17. ASSUME NEW d \in Dispatches, DispatchedAccepted(d) PROVE IInv'
  <2>1. TypeOK'
    BY <1>17 DEF DispatchedAccepted, JournalWritten, JournalNotWritten, GoTo
  <2>2. DownIsIdle'
    BY <1>17 DEF DispatchedAccepted, JournalWritten, JournalNotWritten, GoTo
  <2>3. BusyIsOne'
    BY <1>17 DEF DispatchedAccepted, JournalWritten, JournalNotWritten, GoTo
  <2>4. GivenIsNew'
    BY <1>17 DEF DispatchedAccepted, JournalWritten, JournalNotWritten, GoTo
  <2>5. OfferedIsUnknown'
    BY <1>17 DEF DispatchedAccepted, JournalWritten, JournalNotWritten, GoTo
  <2>6. StartedIsAccepted'
    BY <1>17 DEF DispatchedAccepted, JournalWritten, JournalNotWritten, GoTo
  <2>7. AnswersAreTrue'
    BY <1>17 DEF DispatchedAccepted, JournalWritten, JournalNotWritten, GoTo
  <2>8. RunIsFirst'
    BY <1>17 DEF DispatchedAccepted, JournalWritten, JournalNotWritten, GoTo
  <2>9. ForgottenIsSettled'
    BY <1>17 DEF DispatchedAccepted, JournalWritten, JournalNotWritten, GoTo
  <2>10. LeaseIsHeld'
    BY <1>17 DEF DispatchedAccepted, JournalWritten, JournalNotWritten, GoTo
  <2>11. CodeFileUnlinked'
    BY <1>17 DEF DispatchedAccepted, JournalWritten, JournalNotWritten, GoTo
  <2>12. JournalIsPast'
    BY <1>17 DEF DispatchedAccepted, JournalWritten, JournalNotWritten, GoTo
  <2>13. ReplayReadsFile'
    BY <1>17 DEF DispatchedAccepted, JournalWritten, JournalNotWritten, GoTo
  <2> QED
    BY <2>1, <2>2, <2>3, <2>4, <2>5, <2>6, <2>7, <2>8, <2>9, <2>10, <2>11, <2>12, <2>13
<1>18. ASSUME NEW d \in Dispatches, DispatchedOver(d) PROVE IInv'
  BY <1>18 DEF DispatchedOver, Forgetting
<1>19. ASSUME NEW d \in Dispatches, DispatchedLimited(d) PROVE IInv'
  BY <1>19 DEF DispatchedLimited, GoTo
<1>20. ASSUME NEW d \in Dispatches, DispatchedFailed(d) PROVE IInv'
  BY <1>20 DEF DispatchedFailed, Releasing, Sent
<1>21. ASSUME NEW d \in Dispatches, DispatchedWaited(d) PROVE IInv'
  BY <1>21 DEF DispatchedWaited, Releasing, Sent, GoTo
<1>22. ASSUME NEW d \in Dispatches, ChildStarts(d) PROVE IInv'
  BY <1>22 DEF ChildStarts, GoTo
<1>23. ASSUME NEW d \in Dispatches, ChildNotStarted(d) PROVE IInv'
  BY <1>23 DEF ChildNotStarted, Forgetting
<1>24. ASSUME NEW d \in Dispatches, ChildStopped(d) PROVE IInv'
  BY <1>24 DEF ChildStopped, ChildWaited, Forgetting
<1>25. ASSUME NEW d \in Dispatches, ReleaseLimited(d) PROVE IInv'
  BY <1>25 DEF ReleaseLimited, Sent
<1>26. ASSUME NEW d \in Dispatches, ReleaseKept(d) PROVE IInv'
  <2>1. TypeOK'
    BY <1>26 DEF ReleaseKept, ReleaseReturned, HandedBack
  <2>2. DownIsIdle'
    BY <1>26 DEF ReleaseKept, ReleaseReturned, HandedBack
  <2>3. BusyIsOne'
    BY <1>26 DEF ReleaseKept, ReleaseReturned, HandedBack
  <2>4. GivenIsNew'
    BY <1>26 DEF ReleaseKept, ReleaseReturned, HandedBack
  <2>5. OfferedIsUnknown'
    BY <1>26 DEF ReleaseKept, ReleaseReturned, HandedBack
  <2>6. StartedIsAccepted'
    BY <1>26 DEF ReleaseKept, ReleaseReturned, HandedBack
  <2>7. AnswersAreTrue'
    BY <1>26 DEF ReleaseKept, ReleaseReturned, HandedBack
  <2>8. RunIsFirst'
    BY <1>26 DEF ReleaseKept, ReleaseReturned, HandedBack
  <2>9. ForgottenIsSettled'
    BY <1>26 DEF ReleaseKept, ReleaseReturned, HandedBack
  <2>10. LeaseIsHeld'
    BY <1>26 DEF ReleaseKept, ReleaseReturned, HandedBack
  <2>11. CodeFileUnlinked'
    BY <1>26 DEF ReleaseKept, ReleaseReturned, HandedBack
  <2>12. JournalIsPast'
    BY <1>26 DEF ReleaseKept, ReleaseReturned, HandedBack
  <2>13. ReplayReadsFile'
    BY <1>26 DEF ReleaseKept, ReleaseReturned, HandedBack
  <2> QED
    BY <2>1, <2>2, <2>3, <2>4, <2>5, <2>6, <2>7, <2>8, <2>9, <2>10, <2>11, <2>12, <2>13
<1>27. ASSUME NEW d \in Dispatches, ReleaseDone(d) PROVE IInv'
  BY <1>27 DEF ReleaseDone, ReleaseReturned, Forgetting
<1>28. ASSUME NEW d \in Dispatches, ForgetEntry(d) PROVE IInv'
  BY <1>28 DEF ForgetEntry, JournalWritten, JournalNotWritten, JournalRemove, GoTo
<1>29. ASSUME NEW d \in Dispatches, ForgetFolder(d) PROVE IInv'
  <2>1. TypeOK'
    BY <1>29 DEF ForgetFolder, HandedBack
  <2>2. DownIsIdle'
    BY <1>29 DEF ForgetFolder, HandedBack
  <2>3. BusyIsOne'
    BY <1>29 DEF ForgetFolder, HandedBack
  <2>4. GivenIsNew'
    BY <1>29 DEF ForgetFolder, HandedBack
  <2>5. OfferedIsUnknown'
    BY <1>29 DEF ForgetFolder, HandedBack
  <2>6. StartedIsAccepted'
    BY <1>29 DEF ForgetFolder, HandedBack
  <2>7. AnswersAreTrue'
    BY <1>29 DEF ForgetFolder, HandedBack
  <2>8. RunIsFirst'
    BY <1>29 DEF ForgetFolder, HandedBack
  <2>9. ForgottenIsSettled'
    BY <1>29 DEF ForgetFolder, HandedBack
  <2>10. LeaseIsHeld'
    BY <1>29 DEF ForgetFolder, HandedBack
  <2>11. CodeFileUnlinked'
    BY <1>29 DEF ForgetFolder, HandedBack
  <2>12. JournalIsPast'
    BY <1>29 DEF ForgetFolder, HandedBack
  <2>13. ReplayReadsFile'
    BY <1>29 DEF ForgetFolder, HandedBack
  <2> QED
    BY <2>1, <2>2, <2>3, <2>4, <2>5, <2>6, <2>7, <2>8, <2>9, <2>10, <2>11, <2>12, <2>13
<1>30. ASSUME NEW d \in Dispatches, RequestFailed(d) PROVE IInv'
  BY <1>30 DEF RequestFailed
<1>31. ASSUME NEW d \in Dispatches, HeartbeatSent(d) PROVE IInv'
  BY <1>31 DEF HeartbeatSent, Sent
<1>32. ASSUME NEW d \in Dispatches, HeartbeatAnswered(d) PROVE IInv'
  BY <1>32 DEF HeartbeatAnswered
<1>33. ASSUME NEW d \in Dispatches, LifetimePassed(d) PROVE IInv'
  BY <1>33 DEF LifetimePassed
<1>34. CASE StartPool
  BY <1>34 DEF StartPool
<1>35. CASE Signalled
  BY <1>35 DEF Signalled
<1>36. CASE Crash
  <2>1. TypeOK'
    <3>1. at' \in [Dispatches -> Places]
      BY <1>36 DEF Crash
    <3>2. reply' \in [Dispatches -> Replies]
      BY <1>36 DEF Crash
    <3>3. cancelled' \in [Dispatches -> BOOLEAN]
      BY <1>36 DEF Crash
    <3>4. child' \in [Dispatches -> {"none", "running", "orphan", "ended"}]
      BY <1>36 DEF Crash
    <3>5. /\ main' \in MainPlaces /\ slots' \in Int /\ todo' \subseteq Dispatches
          /\ claim' \in ClaimReplies /\ given' \subseteq Dispatches /\ crashes' \in Nat
      BY <1>36 DEF Crash
    <3>6. stop' \in BOOLEAN
      BY <1>36, Zenon DEF Crash
    <3>7. UNCHANGED <<entries, caller, limited, diskVars, srv, net, gave, admitted>>
      BY <1>36 DEF Crash
    <3> QED
      BY <3>1, <3>2, <3>3, <3>4, <3>5, <3>6, <3>7
  <2>2. DownIsIdle'
    BY <1>36 DEF Crash
  <2>3. BusyIsOne'
    BY <1>36 DEF Crash
  <2>4. GivenIsNew'
    BY <1>36 DEF Crash
  <2>5. OfferedIsUnknown'
    BY <1>36 DEF Crash
  <2>6. StartedIsAccepted'
    BY <1>36 DEF Crash
  <2>7. AnswersAreTrue'
    BY <1>36 DEF Crash
  <2>8. RunIsFirst'
    BY <1>36 DEF Crash
  <2>9. ForgottenIsSettled'
    BY <1>36 DEF Crash
  <2>10. LeaseIsHeld'
    BY <1>36 DEF Crash
  <2>11. CodeFileUnlinked'
    BY <1>36 DEF Crash
  <2>12. JournalIsPast'
    BY <1>36 DEF Crash
  <2>13. ReplayReadsFile'
    BY <1>36 DEF Crash
  <2> QED
    BY <2>1, <2>2, <2>3, <2>4, <2>5, <2>6, <2>7, <2>8, <2>9, <2>10, <2>11, <2>12, <2>13
<1>37. CASE ApiaryHasNone
  BY <1>37 DEF ApiaryHasNone
<1>38. ASSUME NEW d \in Dispatches, ApiaryLeases(d) PROVE IInv'
  BY <1>38 DEF ApiaryLeases
<1>39. ASSUME NEW d \in Dispatches, ApiaryGetsDispatched(d) PROVE IInv'
  BY <1>39 DEF ApiaryGetsDispatched, Answered
<1>40. ASSUME NEW d \in Dispatches, ApiaryGetsRelease(d) PROVE IInv'
  BY <1>40 DEF ApiaryGetsRelease, Answered
<1>41. ASSUME NEW d \in Dispatches, ApiaryEnds(d) PROVE IInv'
  BY <1>41 DEF ApiaryEnds
<1>42. ASSUME NEW d \in Dispatches, ChildEnds(d) PROVE IInv'
  BY <1>42 DEF ChildEnds, ChildWaited, Forgetting
<1>43. ASSUME NEW d \in Dispatches, OrphanEnds(d) PROVE IInv'
  BY <1>43 DEF OrphanEnds
<1>44. CASE UNCHANGED vars
  BY <1>44
<1> HIDE DEF IInv, TypeOK, DownIsIdle, BusyIsOne, Waited, GivenIsNew,
             OfferedIsUnknown, StartedIsAccepted, PastStart, AnswersAreTrue, RunIsFirst,
             ForgottenIsSettled, LeaseIsHeld, CodeFileUnlinked, JournalIsPast, ReplayReadsFile,
             Replaying
<1> QED
  BY <1>1, <1>2, <1>3, <1>4, <1>5, <1>6, <1>7, <1>8, <1>9, <1>10, <1>11, <1>12,
     <1>13, <1>14, <1>15, <1>16, <1>17, <1>18, <1>19, <1>20, <1>21, <1>22, <1>23, <1>24,
     <1>25, <1>26, <1>27, <1>28, <1>29, <1>30, <1>31, <1>32, <1>33, <1>34, <1>35, <1>36,
     <1>37, <1>38, <1>39, <1>40, <1>41, <1>42, <1>43, <1>44
  DEF Next, LoopStep, DispatchStep, RunStep, WorldStep

(* The invariant holds of every behaviour.                                  *)
LEMMA Inductive == Spec => []IInv
<1> QED
  BY InitIInv, NextIInv, PTL DEF Spec

(* The type invariant holds.                                                *)
THEOREM TypeCorrect == Spec => []TypeOK
<1>1. IInv => TypeOK
  BY DEF IInv
<1> QED
  BY <1>1, Inductive, PTL

(* No crash and no failed write of the journal makes the pool forget a      *)
(* lease it journaled and did not give back.                                *)
THEOREM NoLeaseIsForgotten == Spec => []NoLeaseForgotten
<1>1. IInv => NoLeaseForgotten
  BY DEF IInv, LeaseIsHeld, NoLeaseForgotten
<1> QED
  BY <1>1, Inductive, PTL

(* No name leads to a run code but between prepare's write and its unlink.  *)
THEOREM CodeFilesAreUnlinked == Spec => []CodeFileUnlinked
<1>1. IInv => CodeFileUnlinked
  BY DEF IInv
<1> QED
  BY <1>1, Inductive, PTL

-----------------------------------------------------------------------------
(* A step that is none of these leaves Qory Apiary and the runs alone.      *)
LifeActs(d) == \/ ApiaryLeases(d) \/ ApiaryGetsDispatched(d) \/ ApiaryGetsRelease(d)
               \/ ApiaryEnds(d) \/ ChildEnds(d) \/ OrphanEnds(d)
               \/ ChildStarts(d) \/ ChildStopped(d)

(* The other actions leave the lease and the run of every dispatch alone.   *)
LEMMA OtherStepsAreQuiet ==
  ASSUME [Next]_vars, ~Crash, \A d \in Dispatches : ~LifeActs(d)
  PROVE  UNCHANGED <<srv, child>>
<1>1. CASE UNCHANGED vars
  BY <1>1
<1>2. CASE StartPool \/ Signalled \/ ApiaryHasNone
  BY <1>2 DEF StartPool, Signalled, ApiaryHasNone
<1>3. CASE LoopStep
  BY <1>3 DEF LoopStep, ProbePassed, ProbeRefused, ReplayEnded, AcquireSlot, ClaimLoopStopped,
    ClaimGivenUp, ClaimReturned, BackoffOver, Drained, ReplayClaimed, ReplayDispatched,
    AdmitJournaled, AdmitNotJournaled
<1>4. ASSUME NEW d \in Dispatches, DispatchStep(d) PROVE UNCHANGED <<srv, child>>
  BY <1>4 DEF LifeActs, DispatchStep, PrepareFolder, PrepareFolderFailed, PrepareUnlink,
    DispatchedAccepted, DispatchedOver, DispatchedLimited, DispatchedFailed, DispatchedWaited,
    ChildNotStarted, ReleaseLimited, ReleaseKept, ReleaseDone, ForgetEntry, ForgetFolder,
    RequestFailed
<1>5. ASSUME NEW d \in Dispatches, RunStep(d) PROVE UNCHANGED <<srv, child>>
  BY <1>5 DEF RunStep, HeartbeatSent, HeartbeatAnswered, LifetimePassed
<1> QED
  BY <1>1, <1>2, <1>3, <1>4, <1>5 DEF Next, WorldStep, LifeActs

(* Every step of the pool and of Qory Apiary is one of a dispatch's life,   *)
(* or leaves it as it is.                                                   *)
LEMMA StepIsLifeStep == IInv /\ [Next]_vars => [Life!Next]_(Life!lifeVars)
<1> SUFFICES ASSUME IInv, [Next]_vars PROVE Life!Next \/ UNCHANGED Life!lifeVars
  OBVIOUS
<1> USE DEF Life!lifeVars, runOf
<1>1. CASE Crash
  <2>1. runOf' = runOf
    BY <1>1 DEF Crash, IInv, TypeOK
  <2> QED
    BY <1>1, <2>1 DEF Crash
<1>2. ASSUME NEW d \in Dispatches, LifeActs(d) PROVE Life!Next \/ UNCHANGED Life!lifeVars
  <2> USE DEF IInv, TypeOK, Life!Next, Life!Moves
  <2>1. CASE ApiaryLeases(d)
    BY <2>1 DEF ApiaryLeases, Life!Lease
  <2>2. CASE ApiaryGetsDispatched(d)
    <3>1. CASE srv[d] = "leased" /\ srv' # srv
      BY <2>2, <3>1 DEF ApiaryGetsDispatched, Life!Accept
    <3>2. CASE srv' = srv
      BY <2>2, <3>2 DEF ApiaryGetsDispatched
    <3>3. CASE srv[d] = "started" /\ srv' # srv
      BY <2>2, <3>3 DEF ApiaryGetsDispatched
    <3> QED
      BY <2>2, <3>1, <3>2, <3>3 DEF ApiaryGetsDispatched
  <2>3. CASE ApiaryGetsRelease(d)
    <3>1. CASE srv[d] = "leased" /\ srv' = [srv EXCEPT ![d] = "released"]
      <4>1. child[d] = "none"
        BY <3>1 DEF StartedIsAccepted, PastStart
      <4>2. Life!GiveBack(d)
        BY <2>3, <3>1, <4>1 DEF ApiaryGetsRelease, Life!GiveBack
      <4> QED
        BY <4>2
    <3>2. CASE srv' = srv
      BY <2>3, <3>2 DEF ApiaryGetsRelease
    <3> QED
      BY <2>3, <3>1, <3>2 DEF ApiaryGetsRelease
  <2>4. CASE ApiaryEnds(d)
    BY <2>4 DEF ApiaryEnds, Life!End
  <2>5. CASE ChildEnds(d) \/ ChildStopped(d)
    <3>1. child[d] = "running"
      BY <2>5 DEF ChildEnds, ChildStopped, RunStopped, RunIsFirst
    <3>2. child' = [child EXCEPT ![d] = "ended"] /\ srv' = srv
      BY <2>5 DEF ChildEnds, ChildStopped, ChildWaited
    <3>3. runOf' = [runOf EXCEPT ![d] = "ended"]
      BY <3>1, <3>2
    <3> QED
      BY <3>1, <3>2, <3>3 DEF Life!RunEnds
  <2>6. CASE OrphanEnds(d)
    <3>1. child[d] = "orphan" /\ child' = [child EXCEPT ![d] = "ended"] /\ srv' = srv
      BY <2>6 DEF OrphanEnds
    <3>2. runOf' = [runOf EXCEPT ![d] = "ended"]
      BY <3>1
    <3> QED
      BY <3>1, <3>2 DEF Life!RunEnds
  <2>7. CASE ChildStarts(d)
    <3>1. child[d] = "none" /\ srv[d] \in {"started", "over"}
      BY <2>7 DEF ChildStarts, RunIsFirst, StartedIsAccepted, PastStart
    <3>2. child' = [child EXCEPT ![d] = "running"] /\ srv' = srv
      BY <2>7 DEF ChildStarts
    <3>3. runOf' = [runOf EXCEPT ![d] = "running"]
      BY <3>1, <3>2
    <3> QED
      BY <3>1, <3>2, <3>3 DEF Life!RunStarts
  <2> QED
    BY <1>2, <2>1, <2>2, <2>3, <2>4, <2>5, <2>6, <2>7 DEF LifeActs
<1>3. CASE ~Crash /\ \A d \in Dispatches : ~LifeActs(d)
  <2>1. UNCHANGED <<srv, child>>
    BY <1>3, OtherStepsAreQuiet
  <2> QED
    BY <2>1
<1> QED
  BY <1>1, <1>2, <1>3

(* The pool implements the life of a dispatch: its run starts at most once, *)
(* only after its start was accepted, and never once it was given back,     *)
(* over any crashes, restarts, lost answers and late requests.              *)
THEOREM PoolImplementsLife == Spec => ImplementsLife
<1>1. Init => Life!Init
  BY DEF Init, Life!Init, runOf
<1> QED
  BY <1>1, StepIsLifeStep, Inductive, PTL DEF Spec, ImplementsLife, Life!Spec

-----------------------------------------------------------------------------
(* A release is sent only for a claim: its start was never journaled, and   *)
(* no qory run of this program runs for it.                                 *)
LEMMA ReleaseSteps ==
  ASSUME IInv, [Next]_vars, NEW d \in Dispatches, at'[d] = "release", at[d] # "release"
  PROVE  child[d] # "running" /\ file[d] # "dispatched"
<1> USE DEF IInv, TypeOK
<1>1. at[d] # "run" => child[d] # "running"
  BY DEF RunIsFirst
<1>2. at[d] \in {"prepare", "unlink", "post", "wait"} => file[d] # "dispatched"
  BY DEF JournalIsPast
<1>3. at[d] \in {"prepare", "unlink", "post", "wait"} \/ ReplayClaimed(d)
        \/ AdmitJournaled(d) \/ AdmitNotJournaled(d)
  <2>1. CASE UNCHANGED vars
    BY <2>1
  <2>2. CASE LoopStep
    <3>1. ASSUME NEW e \in Dispatches,
                 \/ ReplayClaimed(e) \/ ReplayDispatched(e)
                 \/ AdmitJournaled(e) \/ AdmitNotJournaled(e)
          PROVE  e = d
      BY <3>1 DEF ReplayClaimed, ReplayDispatched, AdmitJournaled, AdmitNotJournaled, Releasing,
        Forgetting
    <3>2. ~ReplayDispatched(d)
      BY DEF ReplayDispatched, Forgetting
    <3>3. at' # at
      OBVIOUS
    <3> QED
      BY <2>2, <3>1, <3>2, <3>3 DEF LoopStep, ProbePassed, ProbeRefused, ReplayEnded, AcquireSlot,
        ClaimLoopStopped, ClaimGivenUp, ClaimReturned, BackoffOver, Drained
  <2>3. CASE WorldStep
    <3>1. ASSUME NEW e \in Dispatches, ChildEnds(e) PROVE FALSE
      BY <3>1 DEF ChildEnds, ChildWaited, Forgetting
    <3>2. ~Crash
      BY DEF Crash
    <3>3. at' # at
      OBVIOUS
    <3> QED
      BY <2>3, <3>1, <3>2, <3>3 DEF WorldStep, StartPool, Signalled, ApiaryHasNone, ApiaryLeases,
        ApiaryGetsDispatched, ApiaryGetsRelease, ApiaryEnds, OrphanEnds
  <2>4. ASSUME NEW e \in Dispatches, DispatchStep(e)
        PROVE  at[d] \in {"prepare", "unlink", "post", "wait"}
    BY <2>4 DEF DispatchStep, PrepareFolder, PrepareFolderFailed, PrepareUnlink, SendDispatched,
      DispatchedAccepted, DispatchedOver, DispatchedLimited, DispatchedFailed, DispatchedWaited,
      ChildStarts, ChildNotStarted, ChildStopped, ChildWaited, ReleaseLimited, ReleaseKept,
      ReleaseDone, ForgetEntry, ForgetFolder, RequestFailed, Releasing, Forgetting, HandedBack, GoTo
  <2>5. ASSUME NEW e \in Dispatches, RunStep(e) PROVE at'[d] = at[d]
    BY <2>5 DEF RunStep, HeartbeatSent, HeartbeatAnswered, LifetimePassed
  <2> QED
    BY <2>1, <2>2, <2>3, <2>4, <2>5 DEF Next
<1>4. ReplayClaimed(d) => at[d] = "none" /\ file[d] # "dispatched"
  BY DEF ReplayClaimed, DownIsIdle, ReplayReadsFile, Replaying
<1>5. AdmitJournaled(d) \/ AdmitNotJournaled(d) => at[d] = "none" /\ file[d] # "dispatched"
  BY DEF AdmitJournaled, AdmitNotJournaled, GivenIsNew
<1> QED
  BY <1>1, <1>2, <1>3, <1>4, <1>5

(* Stated for every dispatch at every step, from the inductive invariant.   *)
THEOREM ReleasesAreOfClaims == Spec => ReleasesOnlyClaims
<1>1. IInv /\ [Next]_vars =>
        [\A d \in Dispatches : (at'[d] = "release" /\ at[d] # "release")
                                 => child[d] # "running" /\ file[d] # "dispatched"]_vars
  BY ReleaseSteps
<1> QED
  BY <1>1, Inductive, PTL DEF Spec, ReleasesOnlyClaims

-----------------------------------------------------------------------------
(* The slots. A step keeps who works when it neither starts nor ends what   *)
(* handles a dispatch.                                                      *)
Handed(d) == at[d] # "none" /\ caller[d] \in {"admit", "notJournaled"}
SameWork ==
  \A d \in Dispatches : /\ at'[d] = "none" <=> at[d] = "none"
                        /\ at[d] # "none" => caller'[d] = caller[d]

(* The slot of the claim loop: one from the claim until the dispatch it     *)
(* admits is handed over.                                                   *)
LEMMA LoopSlotIs ==
  /\ LoopSlot \in {0, 1}
  /\ LoopSlot = 1 <=> main \in {"claim", "admit"} \/ (main = "busy" /\ \E d \in Dispatches : Handed(d))
BY DEF LoopSlot, Handed

(* The dispatches at work are finitely many, so that they can be counted.   *)
LEMMA WorkingIsFinite == IsFiniteSet(Working) /\ Cardinality(Working) \in Nat
<1>1. Working \subseteq Dispatches
  BY DEF Working
<1> QED
  BY <1>1, DispatchesAssumption, FS_Subset, FS_CardinalityType

(* Where the work is the same, so are the dispatches at work and the one    *)
(* handed over.                                                             *)
LEMMA SameWorkKeeps ==
  ASSUME SameWork
  PROVE  Working' = Working /\ \A d \in Dispatches : Handed(d)' <=> Handed(d)
BY Zenon DEF SameWork, Working, Handed

(* A dispatch that is no goroutine's own is being released or forgotten.    *)
LEMMA OwnGoroutine ==
  ASSUME IInv, NEW d \in Dispatches, at[d] \in {"prepare", "unlink", "post", "wait", "start", "run"}
  PROVE  caller[d] = "dispatch"
BY DEF IInv, BusyIsOne, Waited

(* The steps of the claim loop that neither take nor give back a slot.      *)
LEMMA QuietLoopSteps ==
  ASSUME IInv, ProbePassed \/ ProbeRefused \/ ReplayEnded \/ ClaimLoopStopped
              \/ ClaimGivenUp \/ BackoffOver \/ Drained \/ StartPool \/ Signalled \/ ApiaryHasNone
  PROVE  SameWork /\ slots' = slots /\ (main \in {"claim", "admit", "busy"} <=> main' \in {"claim", "admit", "busy"})
           /\ (main = "busy" <=> main' = "busy")
BY DEF ProbePassed, ProbeRefused, ReplayEnded, ClaimLoopStopped, ClaimGivenUp, BackoffOver, Drained, StartPool, Signalled, ApiaryHasNone, SameWork

(* The steps about a dispatch that leave the slots and main alone. *)
QuietDispatchStep(d) ==
  \/ PrepareFolder(d) \/ PrepareFolderFailed(d) \/ PrepareUnlink(d) \/ DispatchedAccepted(d)
  \/ DispatchedOver(d) \/ DispatchedLimited(d) \/ DispatchedFailed(d) \/ DispatchedWaited(d)
  \/ ChildStarts(d) \/ ChildNotStarted(d) \/ ChildStopped(d) \/ ReleaseLimited(d)
  \/ ReleaseDone(d) \/ ForgetEntry(d) \/ RequestFailed(d) \/ HeartbeatSent(d)
  \/ HeartbeatAnswered(d) \/ LifetimePassed(d) \/ ApiaryLeases(d) \/ ApiaryGetsDispatched(d)
  \/ ApiaryGetsRelease(d) \/ ApiaryEnds(d) \/ ChildEnds(d) \/ OrphanEnds(d)

(* The steps of a dispatch that neither take nor give back a slot.          *)
LEMMA QuietDispatchSteps ==
  ASSUME IInv, NEW d \in Dispatches,
         QuietDispatchStep(d)
  PROVE  SameWork /\ slots' = slots /\ main' = main
<1> USE OwnGoroutine DEF SameWork, IInv, TypeOK
<1>1. CASE PrepareFolder(d)
  BY <1>1 DEF PrepareFolder, GoTo
<1>2. CASE PrepareFolderFailed(d)
  BY <1>2 DEF PrepareFolderFailed, Releasing
<1>3. CASE PrepareUnlink(d)
  BY <1>3 DEF PrepareUnlink, SendDispatched, Releasing, GoTo
<1>4. CASE DispatchedAccepted(d)
  BY <1>4 DEF DispatchedAccepted, GoTo
<1>5. CASE DispatchedOver(d)
  BY <1>5 DEF DispatchedOver, Forgetting
<1>6. CASE DispatchedLimited(d)
  BY <1>6 DEF DispatchedLimited, GoTo
<1>7. CASE DispatchedFailed(d)
  BY <1>7 DEF DispatchedFailed, Releasing
<1>8. CASE DispatchedWaited(d)
  BY <1>8 DEF DispatchedWaited, GoTo, Releasing
<1>9. CASE ChildStarts(d)
  BY <1>9 DEF ChildStarts, GoTo
<1>10. CASE ChildNotStarted(d)
  BY <1>10 DEF ChildNotStarted, Forgetting
<1>11. CASE ChildStopped(d)
  BY <1>11 DEF ChildStopped, ChildWaited, RunStopped, Forgetting
<1>12. CASE ReleaseLimited(d)
  BY <1>12 DEF ReleaseLimited
<1>13. CASE ReleaseDone(d)
  BY <1>13 DEF ReleaseDone, ReleaseReturned, Forgetting
<1>14. CASE ForgetEntry(d)
  BY <1>14 DEF ForgetEntry, GoTo
<1>15. CASE RequestFailed(d)
  BY <1>15 DEF RequestFailed
<1>16. CASE HeartbeatSent(d)
  BY <1>16 DEF HeartbeatSent
<1>17. CASE HeartbeatAnswered(d)
  BY <1>17 DEF HeartbeatAnswered
<1>18. CASE LifetimePassed(d)
  BY <1>18 DEF LifetimePassed
<1>19. CASE ApiaryLeases(d)
  BY <1>19 DEF ApiaryLeases
<1>20. CASE ApiaryGetsDispatched(d)
  BY <1>20 DEF ApiaryGetsDispatched
<1>21. CASE ApiaryGetsRelease(d)
  BY <1>21 DEF ApiaryGetsRelease
<1>22. CASE ApiaryEnds(d)
  BY <1>22 DEF ApiaryEnds
<1>23. CASE ChildEnds(d)
  BY <1>23 DEF ChildEnds, ChildWaited, Forgetting
<1>24. CASE OrphanEnds(d)
  BY <1>24 DEF OrphanEnds
<1> QED
  BY <1>1, <1>2, <1>3, <1>4, <1>5, <1>6, <1>7, <1>8, <1>9, <1>10, <1>11, <1>12, <1>13,
    <1>14, <1>15, <1>16, <1>17, <1>18, <1>19, <1>20, <1>21, <1>22, <1>23, <1>24 DEF QuietDispatchStep

(* Such a step keeps the slots exact.                                       *)
LEMMA SameSlots ==
  ASSUME IInv, SlotsExact, SameWork, slots' = slots,
         main \in {"claim", "admit"} <=> main' \in {"claim", "admit"}, main = "busy" <=> main' = "busy"
  PROVE  SlotsExact'
<1>1. Working' = Working /\ \A d \in Dispatches : Handed(d)' <=> Handed(d)
  BY SameWorkKeeps
<1>2. LoopSlot' = LoopSlot
  BY <1>1, Zenon DEF LoopSlot, Handed
<1> QED
  BY <1>1, <1>2, Zenon DEF SlotsExact

(* A step that takes up or hands back a dispatch, or a slot, moves both     *)
(* sides of the equation alike.                                             *)
LEMMA SlotsMove ==
  ASSUME SlotsExact, NEW i \in {-1, 0, 1}, NEW j \in {-1, 0, 1},
         LoopSlot' = LoopSlot + i, Cardinality(Working') = Cardinality(Working) + j,
         slots' = slots + i + j, slots' <= Runs
  PROVE  SlotsExact'
<1>1. slots' = LoopSlot' + Cardinality(Working')
  BY WorkingIsFinite, LoopSlotIs DEF SlotsExact
<1> QED
  BY <1>1, Zenon DEF SlotsExact

(* Every step keeps the slots exact.                                        *)
LEMMA NextSlotsExact == IInv /\ SlotsExact /\ [Next]_vars => SlotsExact'
<1> SUFFICES ASSUME IInv, SlotsExact, [Next]_vars PROVE SlotsExact'
  OBVIOUS
<1>0. slots \in Int /\ slots <= Runs /\ Runs \in Nat
  BY DEF IInv, TypeOK, SlotsExact
<1>1. CASE ProbePassed \/ ProbeRefused \/ ReplayEnded \/ ClaimLoopStopped \/ ClaimGivenUp \/ BackoffOver \/ Drained \/ StartPool \/ Signalled \/ ApiaryHasNone
  <2>1. /\ SameWork /\ slots' = slots
        /\ main \in {"claim", "admit"} <=> main' \in {"claim", "admit"}
        /\ main = "busy" <=> main' = "busy"
    BY <1>1, QuietLoopSteps
  <2> QED
    BY <2>1, SameSlots
<1>2. ASSUME NEW d \in Dispatches,
             QuietDispatchStep(d)
      PROVE  SlotsExact'
  <2>1. SameWork /\ slots' = slots /\ main' = main
    BY <1>2, QuietDispatchSteps
  <2> QED
    BY <2>1, SameSlots
<1>3. CASE AcquireSlot
  <2>1. SameWork /\ slots' = slots + 1 /\ main = "acquire" /\ main' = "claim" /\ slots < Runs
    BY <1>3 DEF AcquireSlot, SameWork
  <2>2. LoopSlot = 0 /\ LoopSlot' = 1
    BY <2>1 DEF LoopSlot
  <2>3. Working' = Working
    BY <2>1, SameWorkKeeps
  <2> QED
    BY <1>0, <2>1, <2>2, <2>3, WorkingIsFinite, SlotsMove
<1>4. CASE ClaimReturned
  <2>1. /\ SameWork /\ main = "claim"
        /\ \/ main' = "admit" /\ slots' = slots
           \/ main' \in {"drain", "backoff", "acquire"} /\ slots' = slots - 1
    BY <1>4 DEF ClaimReturned, SameWork
  <2>2. CASE main' = "admit" /\ slots' = slots
    BY <2>1, <2>2, SameSlots
  <2>3. CASE main' \in {"drain", "backoff", "acquire"} /\ slots' = slots - 1
    <3>1. LoopSlot = 1 /\ LoopSlot' = 0
      BY <2>1, <2>3 DEF LoopSlot
    <3>2. Working' = Working
      BY <2>1, SameWorkKeeps
    <3>3. slots' <= Runs
      BY <1>0, <2>3
    <3> QED
      BY <1>0, <2>3, <3>1, <3>2, <3>3, WorkingIsFinite, SlotsMove
  <2> QED
    BY <2>1, <2>2, <2>3
<1>5. ASSUME NEW d \in Dispatches, ReplayClaimed(d) \/ ReplayDispatched(d)
      PROVE  SlotsExact'
  <2>1. /\ main = "replay" /\ main' = "busy" /\ slots' = slots /\ at[d] = "none"
        /\ \A e \in Dispatches : at[e] # "none" => caller[e] = "dispatch"
        /\ at' [d] # "none" /\ caller'[d] = "replay"
        /\ \A e \in Dispatches \ {d} : at'[e] = at[e] /\ caller'[e] = caller[e]
    BY <1>5 DEF ReplayClaimed, ReplayDispatched, Releasing, Forgetting, IInv, TypeOK, DownIsIdle, BusyIsOne, Waited
  <2>2. LoopSlot = 0 /\ LoopSlot' = 0
    BY <2>1 DEF LoopSlot
  <2>3. Working' = Working
    BY <2>1 DEF Working
  <2> QED
    BY <1>0, <2>1, <2>2, <2>3, WorkingIsFinite, SlotsMove
<1>6. ASSUME NEW d \in Dispatches, AdmitJournaled(d) \/ AdmitNotJournaled(d)
      PROVE  SlotsExact'
  <2>1. /\ main = "admit" /\ slots' = slots /\ at[d] = "none" /\ at'[d] # "none"
        /\ \/ main' = "acquire" /\ caller'[d] = "dispatch"
           \/ main' = "busy" /\ caller'[d] \in {"admit", "notJournaled"}
        /\ \A e \in Dispatches \ {d} : at'[e] = at[e] /\ caller'[e] = caller[e]
    BY <1>6 DEF AdmitJournaled, AdmitNotJournaled, Releasing, IInv, TypeOK, GivenIsNew
  <2>2. CASE main' = "acquire" /\ caller'[d] = "dispatch"
    <3>1. LoopSlot = 1 /\ LoopSlot' = 0
      BY <2>1, <2>2 DEF LoopSlot
    <3>2. Working' = Working \cup {d} /\ d \notin Working
      BY <2>1, <2>2 DEF Working
    <3>3. Cardinality(Working') = Cardinality(Working) + 1
      BY <3>2, WorkingIsFinite, FS_AddElement
    <3> QED
      BY <1>0, <2>1, <3>1, <3>3, SlotsMove
  <2>3. CASE main' = "busy" /\ caller'[d] \in {"admit", "notJournaled"}
    <3>1. LoopSlot = 1 /\ LoopSlot' = 1
      BY <2>1, <2>3 DEF LoopSlot
    <3>2. Working' = Working
      BY <2>1, <2>3 DEF Working
    <3> QED
      BY <1>0, <2>1, <3>1, <3>2, WorkingIsFinite, SlotsMove
  <2> QED
    BY <2>1, <2>2, <2>3
<1>7. ASSUME NEW d \in Dispatches, ReleaseKept(d) \/ ForgetFolder(d)
      PROVE  SlotsExact'
  <2>1. /\ at[d] \in {"release", "clean"} /\ at'[d] = "none" /\ caller' = caller
        /\ \A e \in Dispatches \ {d} : at'[e] = at[e]
    BY <1>7 DEF ReleaseKept, ReleaseReturned, ForgetFolder, HandedBack, IInv, TypeOK
  <2>2. CASE caller[d] = "dispatch" /\ slots' = slots - 1 /\ main' = main
    <3>1. LoopSlot' = LoopSlot
      BY <2>1, <2>2 DEF LoopSlot
    <3>2. Working' = Working \ {d} /\ d \in Working
      BY <2>1, <2>2 DEF Working
    <3>3. Cardinality(Working') = Cardinality(Working) - 1
      BY <3>2, WorkingIsFinite, FS_RemoveElement
    <3>4. slots' <= Runs
      BY <1>0, <2>2
    <3> QED
      BY <1>0, <2>2, <3>1, <3>3, <3>4, WorkingIsFinite, LoopSlotIs, SlotsMove
  <2>3. CASE caller[d] # "dispatch"
    <3>1. /\ main = "busy" /\ Working' = Working
          /\ \A e \in Dispatches \ {d} : at[e] # "none" => caller[e] = "dispatch"
      BY <2>1, <2>3 DEF IInv, BusyIsOne, Waited, Working
    <3>2. CASE caller[d] \in {"admit", "notJournaled"} /\ slots' = slots - 1 /\ main' = "acquire"
      <4>1. LoopSlot = 1 /\ LoopSlot' = 0
        BY <2>1, <3>1, <3>2 DEF LoopSlot
      <4>2. slots' <= Runs
        BY <1>0, <3>2
      <4> QED
        BY <1>0, <3>1, <3>2, <4>1, <4>2, WorkingIsFinite, SlotsMove
    <3>3. CASE caller[d] = "replay" /\ slots' = slots /\ main' = "replay"
      <4>1. LoopSlot = 0 /\ LoopSlot' = 0
        BY <2>1, <3>1, <3>3 DEF LoopSlot
      <4> QED
        BY <1>0, <3>1, <3>3, <4>1, WorkingIsFinite, SlotsMove
    <3> QED
      BY <1>7, <2>3, <3>2, <3>3 DEF ReleaseKept, ForgetFolder, HandedBack
  <2> QED
    BY <1>7, <2>2, <2>3 DEF ReleaseKept, ForgetFolder, HandedBack
<1>8. CASE Crash
  <2>1. slots' = 0 /\ main' = "down" /\ \A d \in Dispatches : at'[d] = "none"
    BY <1>8 DEF Crash
  <2>2. LoopSlot' = 0 /\ Working' = {}
    BY <2>1 DEF LoopSlot, Working
  <2>3. 0 <= Runs /\ 0 = 0 + 0
    BY <1>0
  <2>4. Cardinality(Working') = 0
    BY <2>2, FS_EmptySet
  <2> QED
    BY <2>1, <2>2, <2>3, <2>4, Zenon DEF SlotsExact
<1>9. CASE UNCHANGED vars
  BY <1>9 DEF SlotsExact, LoopSlot, Working
<1> QED
  BY <1>1, <1>2, <1>3, <1>4, <1>5, <1>6, <1>7, <1>8, <1>9
  DEF Next, LoopStep, DispatchStep, RunStep, WorldStep, QuietDispatchStep

(* Over any crashes and failed writes, the claim loop never starts more     *)
(* than Runs dispatches, and no slot stays taken once nothing uses it.      *)
THEOREM SlotsAreExact == Spec => []SlotsExact
<1>1. Init => SlotsExact
  <2> SUFFICES ASSUME Init PROVE SlotsExact
    OBVIOUS
  <2>1. slots = 0 /\ LoopSlot = 0 /\ Working = {}
    BY DEF Init, LoopSlot, Working
  <2>2. Cardinality(Working) = 0
    BY <2>1, FS_EmptySet
  <2>3. 0 <= Runs /\ 0 = 0 + 0
    BY DispatchesAssumption
  <2> QED
    BY <2>1, <2>2, <2>3, Zenon DEF SlotsExact
<1> QED
  BY <1>1, NextSlotsExact, Inductive, PTL DEF Spec

-----------------------------------------------------------------------------
(* The client that sends the pool's requests (RequestClock), for any number *)
(* of callers, identities, tries and seconds. Until the clock is set back,  *)
(* what was sent is older than the second last pruned, or still kept by the *)
(* client at that second.                                                   *)
CONSTANTS Ids, None, Tries, Ticks, MaxCalls, MaxSecond, MaxWaited, MaxBacks
VARIABLES try, wait, left, tick, last, pruned, calls
C == INSTANCE RequestClock

(* What RequestClock assumes of its constants.                              *)
ClockAssumption ==
  /\ None \notin Ids /\ Tries \in Nat \ {0} /\ Ticks \in Nat \ {0}
  /\ MaxCalls \in Nat /\ MaxSecond \in Nat /\ MaxWaited \in Nat /\ MaxBacks \in Nat

KeptAtPruned == \A x \in last : x[2] = pruned
SentIsOldOrKept ==
  backs = 0 =>
    /\ pruned <= second
    /\ \A x \in sent : x[2] < pruned \/ x \in last

(* A caller that waits to try again has a try left.                         *)
TriesLeft == \A c \in Goroutines : pc[c] = "backoff" => try[c] < Tries

ClockInv == C!TypeOK /\ TriesLeft /\ KeptAtPruned /\ SentIsOldOrKept
-----------------------------------------------------------------------------
USE DEF ClockAssumption, C!vars, C!own, C!clock, C!client, C!GoTo, C!Waits, C!Ends, C!Kept, C!Held

(* Nothing is sent at first.                                                *)
LEMMA InitClock ==
  ASSUME ClockAssumption
  PROVE  C!Init => ClockInv
BY DEF C!Init, ClockInv, C!TypeOK, TriesLeft, KeptAtPruned, SentIsOldOrKept

(* Each step keeps the types, and the tries within their number.            *)
LEMMA NextClock ==
  ASSUME ClockAssumption
  PROVE  C!TypeOK /\ TriesLeft /\ [C!Next]_(C!vars) => C!TypeOK' /\ TriesLeft'
<1> SUFFICES ASSUME C!TypeOK, TriesLeft, [C!Next]_(C!vars) PROVE C!TypeOK' /\ TriesLeft'
  OBVIOUS
<1> USE DEF C!TypeOK, TriesLeft
<1>1. ASSUME NEW c \in Goroutines, NEW i \in Ids, C!Do(c, i) PROVE C!TypeOK' /\ TriesLeft'
  BY <1>1 DEF C!Do
<1>2. ASSUME NEW c \in Goroutines, C!Take(c) PROVE C!TypeOK' /\ TriesLeft'
  BY <1>2 DEF C!Take
<1>3. ASSUME NEW c \in Goroutines, C!TakeWaits(c) PROVE C!TypeOK' /\ TriesLeft'
  BY <1>3 DEF C!TakeWaits
<1>4. ASSUME NEW c \in Goroutines, C!HeldOver(c) \/ C!Finished(c) \/ C!Cancelled(c) PROVE C!TypeOK' /\ TriesLeft'
  BY <1>4 DEF C!HeldOver, C!Finished, C!Cancelled
<1>5. ASSUME NEW c \in Goroutines, C!Failed(c) PROVE C!TypeOK' /\ TriesLeft'
  BY <1>5 DEF C!Failed
<1>6. ASSUME NEW c \in Goroutines, C!TryAgain(c) PROVE C!TypeOK' /\ TriesLeft'
  BY <1>6 DEF C!TryAgain
<1>7. CASE C!Passes
  BY <1>7 DEF C!Passes
<1>8. ASSUME NEW s \in 0..(second - 1), C!SetBack(s) PROVE C!TypeOK' /\ TriesLeft'
  BY <1>8 DEF C!SetBack
<1>9. CASE UNCHANGED C!vars
  BY <1>9
<1> QED
  BY <1>1, <1>2, <1>3, <1>4, <1>5, <1>6, <1>7, <1>8, <1>9 DEF C!Next, C!Step

(* Each step keeps what the client remembers of what was sent.              *)
LEMMA NextKept ==
  ASSUME ClockAssumption
  PROVE  ClockInv /\ [C!Next]_(C!vars) => KeptAtPruned' /\ SentIsOldOrKept'
<1> SUFFICES ASSUME ClockInv, [C!Next]_(C!vars) PROVE KeptAtPruned' /\ SentIsOldOrKept'
  OBVIOUS
<1> USE DEF ClockInv, C!TypeOK, KeptAtPruned, SentIsOldOrKept
<1>1. ASSUME NEW c \in Goroutines, NEW i \in Ids, C!Do(c, i) PROVE KeptAtPruned' /\ SentIsOldOrKept'
  BY <1>1 DEF C!Do
<1>2. ASSUME NEW c \in Goroutines, C!Take(c) PROVE KeptAtPruned' /\ SentIsOldOrKept'
  BY <1>2 DEF C!Take
<1>3. ASSUME NEW c \in Goroutines, C!TakeWaits(c) PROVE KeptAtPruned' /\ SentIsOldOrKept'
  BY <1>3 DEF C!TakeWaits
<1>4. ASSUME NEW c \in Goroutines, C!HeldOver(c) \/ C!Finished(c) \/ C!Cancelled(c) \/ C!Failed(c) \/ C!TryAgain(c)
      PROVE  KeptAtPruned' /\ SentIsOldOrKept'
  BY <1>4 DEF C!HeldOver, C!Finished, C!Cancelled, C!Failed, C!TryAgain
<1>5. CASE C!Passes
  BY <1>5 DEF C!Passes
<1>6. ASSUME NEW s \in 0..(second - 1), C!SetBack(s) PROVE KeptAtPruned' /\ SentIsOldOrKept'
  BY <1>6 DEF C!SetBack
<1>7. CASE UNCHANGED C!vars
  BY <1>7
<1> QED
  BY <1>1, <1>2, <1>3, <1>4, <1>5, <1>6, <1>7 DEF C!Next, C!Step

(* The invariant is inductive.                                              *)
LEMMA ClockInductive ==
  ASSUME ClockAssumption
  PROVE  C!Spec => []ClockInv
<1>1. ClockInv /\ [C!Next]_(C!vars) => ClockInv'
  BY NextClock, NextKept DEF ClockInv
<1> QED
  BY InitClock, <1>1, PTL DEF C!Spec

(* Type invariant: no request has more than its tries (send.go, do).        *)
THEOREM ClockTypeCorrect ==
  ASSUME ClockAssumption
  PROVE  C!Spec => []C!TypeOK
<1>1. ClockInv => C!TypeOK
  BY DEF ClockInv
<1> QED
  BY ClockInductive, <1>1, PTL

(* Until the clock is set back, the same bytes are never sent twice         *)
(* (send.go, take).                                                         *)
THEOREM BytesAreNew ==
  ASSUME ClockAssumption
  PROVE  C!Spec => NeverTwice
<1>1. ClockInv /\ [C!Next]_(C!vars) =>
        [\A c \in Goroutines :
           backs = 0 /\ pc[c] = "time" /\ pc'[c] = "sent"
             => <<request[c], second>> \notin sent]_<<pc, request, second, sent, backs>>
  <2> SUFFICES ASSUME ClockInv, [C!Next]_(C!vars), NEW c \in Goroutines, backs = 0, pc[c] = "time", pc'[c] = "sent"
               PROVE  <<request[c], second>> \notin sent
    OBVIOUS
  <2> USE DEF ClockInv, C!TypeOK, KeptAtPruned, SentIsOldOrKept
  <2>1. CASE C!Take(c)
    BY <2>1 DEF C!Take
  <2>2. CASE ~C!Take(c)
    BY <2>2 DEF C!Next, C!Step, C!Do, C!Take, C!TakeWaits, C!HeldOver, C!Finished, C!Failed, C!TryAgain, C!Cancelled, C!Passes,
                C!SetBack
  <2> QED
    BY <2>1, <2>2
<1> QED
  BY <1>1, ClockInductive, PTL DEF C!Spec, NeverTwice
=============================================================================
