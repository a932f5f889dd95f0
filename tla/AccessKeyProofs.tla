--------------------------- MODULE AccessKeyProofs --------------------------
(***************************************************************************)
(* Proofs about the access key: first about the locks between runs and key *)
(* commands (KeyLocks), for any number of runs, commands and run ids, then *)
(* about what the key commands do to keys and records (Enrol), for any     *)
(* codes, keys and number of stops.                                        *)
(*                                                                         *)
(* The invariant of KeyLocks says who holds the key lock at which step     *)
(* (KeyLockInv), that nothing is locked or written where nothing can be    *)
(* (ReadOnlyInv), that a run's lock file stays its own from the open on    *)
(* (LockFileInv), which key files a run without a wall has seen missing    *)
(* (LookInv), and that Sweep has still to see, or has found, each live run *)
(* without a wall (SweepInv). A run that looks and a command that writes   *)
(* exclude each other by the key lock; a run that is live already is found *)
(* by Sweep. The invariant of Enrol has one part per idea as well.         *)
(***************************************************************************)
EXTENDS Enrol, KeyLocks, TLAPS

LiveSteps == {"live", "settle", "settled", "on"}
Owning == {"truncate", "write", "unlock"} \cup LiveSteps

KeyLockInv ==
  /\ writable => \A p \in Runs : p \in shared <=> at[p] \in Kinds \cup {"open", "flock", "truncate",
     "write", "unlock"}
  /\ \A p \in Runs : p \in exclusive <=> at[p] = "settled"
  /\ \A c \in Commands : c \in exclusive <=> at[c] \in {"sweep", "remove", "work"}

ReadOnlyInv ==
  ~writable => /\ \A p \in Runs : at[p] \in Kinds \cup {"idle", "lockKey", "live"}
               /\ \A c \in Commands : at[c] = "idle"

LockFileInv ==
  writable => \A p \in Runs :
    /\ at[p] \in {"flock"} \cup Owning => p \notin lost /\ entry[id[p]] # "none"
    /\ at[p] \in Owning => holder[id[p]] = p
    /\ at[p] \in {"unlock"} \cup LiveSteps => entry[id[p]] = Word(p)

LookInv ==
  \A p \in Runs : ~walled[p] =>
    /\ at[p] \in {"new", "replaced", "old"} => "secret" \notin files
    /\ at[p] \in {"replaced", "old"} => "new" \notin files
    /\ at[p] = "old" => "replaced" \notin files
    /\ at[p] \in {"open", "flock"} \cup Owning => files = {}
    /\ at[p] \notin {"settle", "settled", "on"}

SweepInv ==
  \A p \in Runs, c \in Commands : at[p] \in LiveSteps /\ ~walled[p] =>
    /\ at[c] \in {"sweep", "remove"} => id[p] \in todo[c] \/ found[c]
    /\ at[c] # "work"

LocksInv == LocksTypeOK /\ KeyLockInv /\ ReadOnlyInv /\ LockFileInv /\ LookInv /\ SweepInv

-----------------------------------------------------------------------------
USE ProcessesAssumption, StartsAssumption
USE DEF lockVars, run, keyLock, lockFiles, sweep, GoTo, Kinds, Word, RunSteps, CommandSteps,
   LiveSteps, Owning

(* No process runs at first.                                                *)
LEMMA LocksInitInv == LocksInit => LocksInv
BY DEF LocksInit, LocksInv, LocksTypeOK, KeyLockInv, ReadOnlyInv, LockFileInv, LookInv, SweepInv

(* One step per action; those that end a hold of the key lock, or write     *)
(* what another part reads, have one step per part.                         *)
LEMMA LocksNextInv == LocksInv /\ [LocksNext]_lockVars => LocksInv'
<1> SUFFICES ASSUME LocksInv, [LocksNext]_lockVars PROVE LocksInv'
  OBVIOUS
<1> USE DEF LocksInv, LocksTypeOK, KeyLockInv, ReadOnlyInv, LockFileInv, LookInv, SweepInv
<1>1. ASSUME NEW p \in Runs, RunLocksKey(p) PROVE LocksInv'
  BY <1>1 DEF RunLocksKey, TakeShared
<1>2. ASSUME NEW p \in Runs, RunLooks(p) PROVE LocksInv'
  BY <1>2 DEF RunLooks, After
<1>3. ASSUME NEW p \in Runs, RunRefused(p) PROVE LocksInv'
  BY <1>3 DEF RunRefused, ReleaseKey
<1>4. ASSUME NEW p \in Runs, RunOpens(p) PROVE LocksInv'
  BY <1>4 DEF RunOpens
<1>5. ASSUME NEW p \in Runs, RunFlocks(p) PROVE LocksInv'
  BY <1>5 DEF RunFlocks
<1>6. ASSUME NEW p \in Runs, RunIsRunning(p) PROVE LocksInv'
  BY <1>6 DEF RunIsRunning, ReleaseKey
<1>7. ASSUME NEW p \in Runs, RunTruncates(p) PROVE LocksInv'
  BY <1>7 DEF RunTruncates, Writes
<1>8. ASSUME NEW p \in Runs, RunWrites(p) PROVE LocksInv'
  BY <1>8 DEF RunWrites, Writes
<1>9. ASSUME NEW p \in Runs, RunUnlocksKey(p) PROVE LocksInv'
  BY <1>9 DEF RunUnlocksKey, ReleaseKey
<1>10. ASSUME NEW p \in Runs, RunSettlesMarker(p) PROVE LocksInv'
  BY <1>10 DEF RunSettlesMarker, TakeExclusive
<1>11. ASSUME NEW p \in Runs, RunSettled(p) PROVE LocksInv'
  BY <1>11 DEF RunSettled, ReleaseKey
<1>12. ASSUME NEW p \in Runs, RunAsks(p) PROVE LocksInv'
  BY <1>12 DEF RunAsks
<1>13. ASSUME NEW p \in Runs, RunEnds(p) PROVE LocksInv'
  BY <1>13 DEF RunEnds, ReleaseKey
<1>14. ASSUME NEW p \in Runs, NEW i \in Ids, NEW w \in BOOLEAN, RunStarts(p, i, w) PROVE LocksInv'
  BY <1>14 DEF RunStarts
<1>15. ASSUME NEW c \in Commands, CommandLocksKey(c) PROVE LocksInv'
  BY <1>15 DEF CommandLocksKey, TakeExclusive
<1>16. ASSUME NEW c \in Commands, NEW i \in Ids, SweepTakes(c, i) PROVE LocksInv'
  BY <1>16 DEF SweepTakes
<1>17. ASSUME NEW c \in Commands, NEW i \in Ids, SweepRemoves(c, i) PROVE LocksInv'
  <2>1. LocksTypeOK'
    BY <1>17 DEF SweepRemoves
  <2>2. KeyLockInv'
    BY <1>17 DEF SweepRemoves
  <2>3. ReadOnlyInv'
    BY <1>17 DEF SweepRemoves
  <2>4. LockFileInv'
    BY <1>17 DEF SweepRemoves
  <2>5. LookInv'
    BY <1>17 DEF SweepRemoves
  <2>6. SweepInv'
    BY <1>17 DEF SweepRemoves
  <2> QED
    BY <2>1, <2>2, <2>3, <2>4, <2>5, <2>6
<1>18. ASSUME NEW c \in Commands, NEW i \in Ids, SweepReads(c, i) PROVE LocksInv'
  BY <1>18 DEF SweepReads
<1>19. ASSUME NEW c \in Commands, CommandGoes(c) PROVE LocksInv'
  BY <1>19 DEF CommandGoes, ReleaseKey
<1>20. ASSUME NEW c \in Commands, CommandStarts(c) PROVE LocksInv'
  BY <1>20 DEF CommandStarts
<1>21. ASSUME NEW c \in Commands, CommandWorks(c) PROVE LocksInv'
  BY <1>21 DEF CommandWorks, FileSteps
<1>22. ASSUME NEW c \in Commands, CommandEnds(c) PROVE LocksInv'
  BY <1>22 DEF CommandEnds, ReleaseKey
<1>23. CASE UNCHANGED lockVars
  BY <1>23
<1> HIDE DEF LocksInv, LocksTypeOK, KeyLockInv, ReadOnlyInv, LockFileInv, LookInv, SweepInv
<1>24. ASSUME NEW p \in Runs,
             RunStep(p) \/ RunAsks(p) \/ RunEnds(p) \/ \E i \in Ids, w \in BOOLEAN :
             RunStarts(p, i, w)
      PROVE  LocksInv'
  BY <1>24, <1>1, <1>2, <1>3, <1>4, <1>5, <1>6, <1>7, <1>8, <1>9, <1>10, <1>11, <1>12, <1>13, <1>14
     DEF RunStep
<1>25. ASSUME NEW c \in Commands,
             KeyCommandStep(c) \/ CommandStarts(c) \/ CommandWorks(c) \/ CommandEnds(c)
      PROVE  LocksInv'
  BY <1>25, <1>15, <1>16, <1>17, <1>18, <1>19, <1>20, <1>21, <1>22 DEF KeyCommandStep, SweepStep
<1> QED
  BY <1>23, <1>24, <1>25 DEF LocksNext

(* The invariant of every state the specification reaches.                  *)
LEMMA LocksInductive == LocksSpec => []LocksInv
<1>1. LocksInit => LocksInv
  BY LocksInitInv
<1>2. LocksInv /\ [LocksNext]_lockVars => LocksInv'
  BY LocksNextInv
<1> QED
  BY <1>1, <1>2, PTL DEF LocksSpec

-----------------------------------------------------------------------------
(* For any number of processes: the types, and the key lock's one exclusive *)
(* holder or several shared ones (LockKey).                                 *)
THEOREM LocksTypeCorrect == LocksSpec => []LocksTypeOK
<1>1. LocksInv => LocksTypeOK
  BY DEF LocksInv
<1> QED
  BY LocksInductive, <1>1, PTL

(* startRun and keyLock keep every run without a wall and every key file    *)
(* apart, whichever came first, and in a directory without locks as well.   *)
THEOREM KeysNeedAWall == LocksSpec => []UnwalledNeverBesideKey
<1>1. LocksInv => UnwalledNeverBesideKey
  BY DEF LocksInv, LocksTypeOK, LookInv, UnwalledNeverBesideKey, Live
<1> QED
  BY LocksInductive, <1>1, PTL

(* LockRun and Sweep: a live run's lock file is never removed, half written *)
(* or another's, so that Sweep cannot miss it.                              *)
THEOREM SweepSeesLiveRuns == LocksSpec => []LiveRunsListed
<1>1. LocksInv => LiveRunsListed
  BY DEF LocksInv, LockFileInv, LiveRunsListed, Live
<1> QED
  BY LocksInductive, <1>1, PTL

(* LockRun: of the runs with one id, at most one is live at a time.         *)
THEOREM RunIdsAreExclusive == LocksSpec => []OneRunPerId
<1>1. LocksInv => OneRunPerId
  BY DEF LocksInv, LockFileInv, OneRunPerId, Live
<1> QED
  BY LocksInductive, <1>1, PTL

-----------------------------------------------------------------------------
HIDE DEF lockVars, run, keyLock, lockFiles, sweep, GoTo, Kinds, Word, RunSteps, CommandSteps,
   LiveSteps, Owning

(* The steps at which the command enrols its key, and at which it finishes. *)
Finishing == {"keep", "place", "unlinkReplaced", "linkReplaced", "swap", "forager", "removeReplaced",
              "removePending", "removeAnswer"}
InHand == {"pendRemove", "pendWrite", "send", "wait", "deleteNew", "discard", "discardLink",
           "discardUnlink"} \cup Finishing

(* Where the command's key is at each of its steps.                         *)
KeyIsHere ==
  /\ pc \in InHand => key \in Keys
  /\ pc \in {"pendRemove", "pendWrite", "send", "wait", "keep", "place"} => key \in {new, secret}
  /\ pc \in {"unlinkReplaced", "linkReplaced", "swap", "discardLink", "discardUnlink"} => key = new
  /\ pc \in {"forager", "removeReplaced", "removePending", "removeAnswer"} => key = secret
  /\ pc \in {"removeReplaced", "removePending", "removeAnswer"} => forager = key

(* What the file operations of one move have done between two of them.      *)
MoveIsSafe ==
  /\ pc = "make" => new = NoKey
  /\ pc \in {"unlinkNew", "discardUnlink"} => new \in aside
  /\ pc \in {"unlinkReplaced", "linkReplaced"} => secret # NoKey
  /\ pc = "linkReplaced" => replaced = NoKey
  /\ pc = "swap" => secret = NoKey \/ replaced = secret

(* The server enrolled each key that is in place, answered for or finished. *)
EnrolledHere ==
  /\ OnlyEnrolled
  /\ \A c \in Codes, k \in Keys : <<c, k>> \in answer => k \in taken
  /\ pc \in Finishing => key \in taken
  /\ pc = "deleteNew" => key \in foreign

(* A code and a key that were ever brought together.                        *)
Together(c, k) ==
  \/ <<c, k>> \in pending \/ <<c, k>> \in answer \/ <<c, k>> \in net \/ usedBy[c] = k
  \/ pc \in InHand /\ c = code /\ k = key

(* Each was made here, for one code, and is enrolled as one kind with it.   *)
OneCodeEach ==
  /\ \A k \in Keys : k \in {key, secret, new} \/ k \in taken \cup foreign => k \in made
  /\ \A c \in Codes, k \in Keys : Together(c, k) => k \in made
  /\ \A c, d \in Codes, k \in Keys : Together(c, k) /\ Together(d, k) => c = d
  /\ \A c \in Codes, k \in taken \cup foreign : Together(c, k) => usedBy[c] = k
  /\ taken \cap foreign = {}

(* A key that is on its way out of .new has no kept answer.                 *)
LeavesUnanswered ==
  /\ pc = "unlinkNew" => ~Answers(new)
  /\ pc \in {"discard", "discardLink", "discardUnlink"} => ~Answers(key)

(* While every answer is kept: the one of a command at work is its own, and *)
(* a command gets to its request only without one.                          *)
AnswerIsKept ==
  ~unkept =>
    /\ KeptKeyStays /\ Finishable
    /\ pc \in Finishing \ {"keep"} => answer = {<<code, key>>}
    /\ pc \in {"unlinkNew", "make", "pendRemove", "pendWrite", "send", "wait"} =>
         \A k \in Keys : <<code, k>> \notin answer

IInv == /\ TypeOK
        /\ KeyIsHere /\ MoveIsSafe /\ EnrolledHere /\ OneCodeEach /\ LeavesUnanswered /\ AnswerIsKept
-----------------------------------------------------------------------------
USE NoKeyAssumption, StopsAssumption
USE DEF vars, command, secrets, records, server, history, MaybeKey, Steps, AtMostOne, InHand, Finishing

(* A machine as enrolment finds it first is in the invariant.               *)
LEMMA InitIInv == Init => IInv
<1> SUFFICES ASSUME Init PROVE IInv
  OBVIOUS
<1> USE DEF Init
<1>1. TypeOK
  BY DEF TypeOK
<1>2. KeyIsHere /\ MoveIsSafe
  BY DEF KeyIsHere, MoveIsSafe
<1>3. EnrolledHere
  BY DEF EnrolledHere, OnlyEnrolled
<1>4. OneCodeEach
  BY DEF OneCodeEach, Together
<1>5. LeavesUnanswered
  BY DEF LeavesUnanswered
<1>6. AnswerIsKept
  BY DEF AnswerIsKept, KeptKeyStays, Finishable
<1> QED
  BY <1>1, <1>2, <1>3, <1>4, <1>5, <1>6 DEF IInv

(* A kept answer that is found is the only one.                             *)
LEMMA AnswerFound ==
  ASSUME TypeOK, AnswerKept # NoKey
  PROVE  answer = {<<code, AnswerKept>>} /\ AnswerKept \in Keys /\ AnswerKept \in {new, secret}
<1>1. <<code, AnswerKept>> \in answer /\ AnswerKept \in {new, secret}
  BY DEF AnswerKept
<1>2. answer = {<<code, AnswerKept>>}
  BY <1>1 DEF TypeOK
<1> QED
  BY <1>1, <1>2 DEF TypeOK

(* While every answer is kept, none found means there is none for the code. *)
LEMMA NoAnswerFound ==
  ASSUME TypeOK, KeptKeyStays, ~unkept, AnswerKept = NoKey
  PROVE  \A k \in Keys : <<code, k>> \notin answer
BY DEF TypeOK, KeptKeyStays, AnswerKept

(* One step per action, and under it one per part that needs a reason.      *)
LEMMA NextIInv == IInv /\ [Next]_vars => IInv'
<1> SUFFICES ASSUME IInv, [Next]_vars PROVE IInv'
  OBVIOUS
<1> USE DEF IInv, TypeOK, KeyIsHere, MoveIsSafe, EnrolledHere, OnlyEnrolled, OneCodeEach, Together,
            LeavesUnanswered, Answers, AnswerIsKept, KeptKeyStays, Finishable
<1>1. CASE FinishKept
  <2>1. TypeOK'
    BY <1>1 DEF FinishKept, AnswerKept
  <2>2. KeyIsHere'
    BY <1>1 DEF FinishKept, AnswerKept
  <2>3. MoveIsSafe'
    BY <1>1 DEF FinishKept, AnswerKept
  <2>4. EnrolledHere'
    BY <1>1 DEF FinishKept, AnswerKept
  <2>5. OneCodeEach'
    BY <1>1 DEF FinishKept, AnswerKept
  <2>6. LeavesUnanswered'
    BY <1>1 DEF FinishKept, AnswerKept
  <2>7. AnswerIsKept'
    BY <1>1, AnswerFound DEF FinishKept
  <2> QED
    BY <2>1, <2>2, <2>3, <2>4, <2>5, <2>6, <2>7
<1>2. CASE RefuseHeld
  <2>1. TypeOK'
    BY <1>2 DEF RefuseHeld, AnswerKept
  <2>2. KeyIsHere'
    BY <1>2 DEF RefuseHeld, AnswerKept
  <2>3. MoveIsSafe'
    BY <1>2 DEF RefuseHeld, AnswerKept
  <2>4. EnrolledHere'
    BY <1>2 DEF RefuseHeld, AnswerKept
  <2>5. OneCodeEach'
    BY <1>2 DEF RefuseHeld, AnswerKept
  <2>6. LeavesUnanswered'
    BY <1>2 DEF RefuseHeld, AnswerKept
  <2>7. AnswerIsKept'
    BY <1>2 DEF RefuseHeld, AnswerKept
  <2> QED
    BY <2>1, <2>2, <2>3, <2>4, <2>5, <2>6, <2>7
<1>3. CASE Retry
  <2>1. TypeOK'
    BY <1>3 DEF Retry, Goes, AnswerKept, PendingOf
  <2>2. KeyIsHere'
    BY <1>3 DEF Retry, Goes, AnswerKept, PendingOf
  <2>3. MoveIsSafe'
    BY <1>3 DEF Retry, Goes, AnswerKept, PendingOf
  <2>4. EnrolledHere'
    BY <1>3 DEF Retry, Goes, AnswerKept, PendingOf
  <2>5. OneCodeEach'
    BY <1>3 DEF Retry, Goes, AnswerKept, PendingOf
  <2>6. LeavesUnanswered'
    BY <1>3 DEF Retry, Goes, AnswerKept, PendingOf
  <2>7. AnswerIsKept'
    BY <1>3, NoAnswerFound DEF Retry, Goes, PendingOf
  <2> QED
    BY <2>1, <2>2, <2>3, <2>4, <2>5, <2>6, <2>7
<1>4. CASE RefuseAnswered
  <2>1. TypeOK'
    BY <1>4 DEF RefuseAnswered, NoRetry, Goes, AnswerKept
  <2>2. KeyIsHere'
    BY <1>4 DEF RefuseAnswered, NoRetry, Goes, AnswerKept
  <2>3. MoveIsSafe'
    BY <1>4 DEF RefuseAnswered, NoRetry, Goes, AnswerKept
  <2>4. EnrolledHere'
    BY <1>4 DEF RefuseAnswered, NoRetry, Goes, AnswerKept
  <2>5. OneCodeEach'
    BY <1>4 DEF RefuseAnswered, NoRetry, Goes, AnswerKept
  <2>6. LeavesUnanswered'
    BY <1>4 DEF RefuseAnswered, NoRetry, Goes, AnswerKept
  <2>7. AnswerIsKept'
    BY <1>4 DEF RefuseAnswered, NoRetry, Goes, AnswerKept
  <2> QED
    BY <2>1, <2>2, <2>3, <2>4, <2>5, <2>6, <2>7
<1>5. CASE LookAside
  <2>1. TypeOK'
    BY <1>5 DEF LookAside, NoRetry, Goes, AnswerKept, LinkAside
  <2>2. KeyIsHere'
    BY <1>5 DEF LookAside, NoRetry, Goes, AnswerKept, LinkAside
  <2>3. MoveIsSafe'
    BY <1>5 DEF LookAside, NoRetry, Goes, AnswerKept, LinkAside
  <2>4. EnrolledHere'
    BY <1>5 DEF LookAside, NoRetry, Goes, AnswerKept, LinkAside
  <2>5. OneCodeEach'
    BY <1>5 DEF LookAside, NoRetry, Goes, AnswerKept, LinkAside
  <2>6. LeavesUnanswered'
    BY <1>5 DEF LookAside, NoRetry, Goes, AnswerKept, LinkAside
  <2>7. AnswerIsKept'
    BY <1>5, NoAnswerFound DEF LookAside, NoRetry, Goes, LinkAside
  <2> QED
    BY <2>1, <2>2, <2>3, <2>4, <2>5, <2>6, <2>7
<1>6. CASE LookNone
  <2>1. TypeOK'
    BY <1>6 DEF LookNone, NoRetry, Goes, AnswerKept
  <2>2. KeyIsHere'
    BY <1>6 DEF LookNone, NoRetry, Goes, AnswerKept
  <2>3. MoveIsSafe'
    BY <1>6 DEF LookNone, NoRetry, Goes, AnswerKept
  <2>4. EnrolledHere'
    BY <1>6 DEF LookNone, NoRetry, Goes, AnswerKept
  <2>5. OneCodeEach'
    BY <1>6 DEF LookNone, NoRetry, Goes, AnswerKept
  <2>6. LeavesUnanswered'
    BY <1>6 DEF LookNone, NoRetry, Goes, AnswerKept
  <2>7. AnswerIsKept'
    BY <1>6, NoAnswerFound DEF LookNone, NoRetry, Goes
  <2> QED
    BY <2>1, <2>2, <2>3, <2>4, <2>5, <2>6, <2>7
<1>7. CASE UnlinkNew
  <2>1. TypeOK'
    BY <1>7 DEF UnlinkNew
  <2>2. KeyIsHere'
    BY <1>7 DEF UnlinkNew
  <2>3. MoveIsSafe'
    BY <1>7 DEF UnlinkNew
  <2>4. EnrolledHere'
    BY <1>7 DEF UnlinkNew
  <2>5. OneCodeEach'
    BY <1>7 DEF UnlinkNew
  <2>6. LeavesUnanswered'
    BY <1>7 DEF UnlinkNew
  <2>7. AnswerIsKept'
    BY <1>7 DEF UnlinkNew
  <2> QED
    BY <2>1, <2>2, <2>3, <2>4, <2>5, <2>6, <2>7
<1>8. ASSUME NEW k \in Keys, MakeKey(k) PROVE IInv'
  <2>1. TypeOK'
    BY <1>8 DEF MakeKey
  <2>2. KeyIsHere'
    BY <1>8 DEF MakeKey
  <2>3. MoveIsSafe'
    BY <1>8 DEF MakeKey
  <2>4. EnrolledHere'
    BY <1>8 DEF MakeKey
  <2>5. OneCodeEach'
    BY <1>8 DEF MakeKey
  <2>6. LeavesUnanswered'
    BY <1>8 DEF MakeKey
  <2>7. AnswerIsKept'
    <3> SUFFICES ASSUME ~unkept PROVE AnswerIsKept'
      BY <1>8 DEF MakeKey
    <3>1. \A d \in Codes, n \in Keys : <<d, n>> \in answer => n = secret
      BY <1>8 DEF MakeKey
    <3>2. KeptKeyStays' /\ Finishable'
      BY <1>8, <3>1 DEF MakeKey
    <3> QED
      BY <1>8, <3>2 DEF MakeKey
  <2> QED
    BY <2>1, <2>2, <2>3, <2>4, <2>5, <2>6, <2>7
<1>9. CASE MakeKeyFails
  <2>1. TypeOK'
    BY <1>9 DEF MakeKeyFails
  <2>2. KeyIsHere'
    BY <1>9 DEF MakeKeyFails
  <2>3. MoveIsSafe'
    BY <1>9 DEF MakeKeyFails
  <2>4. EnrolledHere'
    BY <1>9 DEF MakeKeyFails
  <2>5. OneCodeEach'
    BY <1>9 DEF MakeKeyFails
  <2>6. LeavesUnanswered'
    BY <1>9 DEF MakeKeyFails
  <2>7. AnswerIsKept'
    BY <1>9 DEF MakeKeyFails
  <2> QED
    BY <2>1, <2>2, <2>3, <2>4, <2>5, <2>6, <2>7
<1>10. CASE PendRemove
  <2>1. TypeOK'
    BY <1>10 DEF PendRemove
  <2>2. KeyIsHere'
    BY <1>10 DEF PendRemove
  <2>3. MoveIsSafe'
    BY <1>10 DEF PendRemove
  <2>4. EnrolledHere'
    BY <1>10 DEF PendRemove
  <2>5. OneCodeEach'
    BY <1>10 DEF PendRemove
  <2>6. LeavesUnanswered'
    BY <1>10 DEF PendRemove
  <2>7. AnswerIsKept'
    BY <1>10 DEF PendRemove
  <2> QED
    BY <2>1, <2>2, <2>3, <2>4, <2>5, <2>6, <2>7
<1>11. CASE PendWrite
  <2>1. TypeOK'
    BY <1>11 DEF PendWrite
  <2>2. KeyIsHere'
    BY <1>11 DEF PendWrite
  <2>3. MoveIsSafe'
    BY <1>11 DEF PendWrite
  <2>4. EnrolledHere'
    BY <1>11 DEF PendWrite
  <2>5. OneCodeEach'
    BY <1>11 DEF PendWrite
  <2>6. LeavesUnanswered'
    BY <1>11 DEF PendWrite
  <2>7. AnswerIsKept'
    BY <1>11 DEF PendWrite
  <2> QED
    BY <2>1, <2>2, <2>3, <2>4, <2>5, <2>6, <2>7
<1>12. CASE Send
  <2>1. TypeOK'
    BY <1>12 DEF Send
  <2>2. KeyIsHere'
    BY <1>12 DEF Send
  <2>3. MoveIsSafe'
    BY <1>12 DEF Send
  <2>4. EnrolledHere'
    BY <1>12 DEF Send
  <2>5. OneCodeEach'
    BY <1>12 DEF Send
  <2>6. LeavesUnanswered'
    BY <1>12 DEF Send
  <2>7. AnswerIsKept'
    BY <1>12 DEF Send
  <2> QED
    BY <2>1, <2>2, <2>3, <2>4, <2>5, <2>6, <2>7
<1>13. CASE Enrolled
  <2>1. TypeOK'
    BY <1>13 DEF Enrolled
  <2>2. KeyIsHere'
    BY <1>13 DEF Enrolled
  <2>3. MoveIsSafe'
    BY <1>13 DEF Enrolled
  <2>4. EnrolledHere'
    BY <1>13 DEF Enrolled
  <2>5. OneCodeEach'
    BY <1>13 DEF Enrolled
  <2>6. LeavesUnanswered'
    BY <1>13 DEF Enrolled
  <2>7. AnswerIsKept'
    BY <1>13 DEF Enrolled
  <2> QED
    BY <2>1, <2>2, <2>3, <2>4, <2>5, <2>6, <2>7
<1>14. CASE KindRefused
  <2>1. TypeOK'
    BY <1>14 DEF KindRefused
  <2>2. KeyIsHere'
    BY <1>14 DEF KindRefused
  <2>3. MoveIsSafe'
    BY <1>14 DEF KindRefused
  <2>4. EnrolledHere'
    BY <1>14 DEF KindRefused
  <2>5. OneCodeEach'
    BY <1>14 DEF KindRefused
  <2>6. LeavesUnanswered'
    BY <1>14 DEF KindRefused
  <2>7. AnswerIsKept'
    BY <1>14 DEF KindRefused
  <2> QED
    BY <2>1, <2>2, <2>3, <2>4, <2>5, <2>6, <2>7
<1>15. CASE DeleteNew
  <2>1. TypeOK'
    BY <1>15 DEF DeleteNew
  <2>2. KeyIsHere'
    BY <1>15 DEF DeleteNew
  <2>3. MoveIsSafe'
    BY <1>15 DEF DeleteNew
  <2>4. EnrolledHere'
    BY <1>15 DEF DeleteNew
  <2>5. OneCodeEach'
    BY <1>15 DEF DeleteNew
  <2>6. LeavesUnanswered'
    BY <1>15 DEF DeleteNew
  <2>7. AnswerIsKept'
    BY <1>15, ZenonT(40) DEF DeleteNew
  <2> QED
    BY <2>1, <2>2, <2>3, <2>4, <2>5, <2>6, <2>7
<1>16. CASE EndPending
  <2>1. TypeOK'
    BY <1>16 DEF EndPending
  <2>2. KeyIsHere'
    BY <1>16 DEF EndPending
  <2>3. MoveIsSafe'
    BY <1>16 DEF EndPending
  <2>4. EnrolledHere'
    BY <1>16 DEF EndPending
  <2>5. OneCodeEach'
    BY <1>16 DEF EndPending
  <2>6. LeavesUnanswered'
    BY <1>16 DEF EndPending
  <2>7. AnswerIsKept'
    BY <1>16 DEF EndPending
  <2> QED
    BY <2>1, <2>2, <2>3, <2>4, <2>5, <2>6, <2>7
<1>17. CASE Refused
  <2>1. TypeOK'
    BY <1>17 DEF Refused
  <2>2. KeyIsHere'
    BY <1>17 DEF Refused
  <2>3. MoveIsSafe'
    BY <1>17 DEF Refused
  <2>4. EnrolledHere'
    BY <1>17 DEF Refused
  <2>5. OneCodeEach'
    BY <1>17 DEF Refused
  <2>6. LeavesUnanswered'
    BY <1>17 DEF Refused
  <2>7. AnswerIsKept'
    BY <1>17 DEF Refused
  <2> QED
    BY <2>1, <2>2, <2>3, <2>4, <2>5, <2>6, <2>7
<1>18. CASE Discard
  <2>1. TypeOK'
    BY <1>18 DEF Discard
  <2>2. KeyIsHere'
    BY <1>18 DEF Discard
  <2>3. MoveIsSafe'
    BY <1>18 DEF Discard
  <2>4. EnrolledHere'
    BY <1>18 DEF Discard
  <2>5. OneCodeEach'
    BY <1>18 DEF Discard
  <2>6. LeavesUnanswered'
    BY <1>18 DEF Discard
  <2>7. AnswerIsKept'
    BY <1>18 DEF Discard
  <2> QED
    BY <2>1, <2>2, <2>3, <2>4, <2>5, <2>6, <2>7
<1>19. CASE DiscardLink
  <2>1. TypeOK'
    BY <1>19 DEF DiscardLink, LinkAside
  <2>2. KeyIsHere'
    BY <1>19 DEF DiscardLink, LinkAside
  <2>3. MoveIsSafe'
    BY <1>19 DEF DiscardLink, LinkAside
  <2>4. EnrolledHere'
    BY <1>19 DEF DiscardLink, LinkAside
  <2>5. OneCodeEach'
    BY <1>19 DEF DiscardLink, LinkAside
  <2>6. LeavesUnanswered'
    BY <1>19 DEF DiscardLink, LinkAside
  <2>7. AnswerIsKept'
    BY <1>19 DEF DiscardLink, LinkAside
  <2> QED
    BY <2>1, <2>2, <2>3, <2>4, <2>5, <2>6, <2>7
<1>20. CASE NotCompleted
  <2>1. TypeOK'
    BY <1>20 DEF NotCompleted
  <2>2. KeyIsHere'
    BY <1>20 DEF NotCompleted
  <2>3. MoveIsSafe'
    BY <1>20 DEF NotCompleted
  <2>4. EnrolledHere'
    BY <1>20 DEF NotCompleted
  <2>5. OneCodeEach'
    BY <1>20 DEF NotCompleted
  <2>6. LeavesUnanswered'
    BY <1>20 DEF NotCompleted
  <2>7. AnswerIsKept'
    BY <1>20 DEF NotCompleted
  <2> QED
    BY <2>1, <2>2, <2>3, <2>4, <2>5, <2>6, <2>7
<1>21. CASE Keep
  <2>1. TypeOK'
    <3>1. key \in Keys
      BY <1>21 DEF Keep
    <3>2. CASE answer' = {<<code, key>>} /\ UNCHANGED unkept
      BY <1>21, <3>1, <3>2 DEF Keep
    <3>3. CASE unkept' = TRUE /\ UNCHANGED answer
      BY <1>21, <3>3 DEF Keep
    <3> QED
      BY <1>21, <3>2, <3>3 DEF Keep
  <2>2. KeyIsHere'
    BY <1>21 DEF Keep
  <2>3. MoveIsSafe'
    BY <1>21 DEF Keep
  <2>4. EnrolledHere'
    BY <1>21 DEF Keep
  <2>5. OneCodeEach'
    BY <1>21 DEF Keep
  <2>6. LeavesUnanswered'
    BY <1>21 DEF Keep
  <2>7. AnswerIsKept'
    BY <1>21 DEF Keep
  <2> QED
    BY <2>1, <2>2, <2>3, <2>4, <2>5, <2>6, <2>7
<1>22. CASE Place
  BY <1>22 DEF Place
<1>23. CASE UnlinkReplaced
  BY <1>23 DEF UnlinkReplaced
<1>24. CASE LinkReplaced
  BY <1>24 DEF LinkReplaced
<1>25. CASE Swap
  BY <1>25 DEF Swap
<1>26. CASE WriteForager
  BY <1>26 DEF WriteForager
<1>27. CASE RemoveReplaced
  BY <1>27 DEF RemoveReplaced
<1>28. CASE RemovePending
  BY <1>28 DEF RemovePending
<1>29. CASE RemoveAnswer
  BY <1>29 DEF RemoveAnswer
<1>30. CASE Stop
  <2>1. TypeOK'
    BY <1>30 DEF Stop
  <2>2. KeyIsHere'
    BY <1>30 DEF Stop
  <2>3. MoveIsSafe'
    BY <1>30 DEF Stop
  <2>4. EnrolledHere'
    BY <1>30 DEF Stop
  <2>5. OneCodeEach'
    BY <1>30 DEF Stop
  <2>6. LeavesUnanswered'
    BY <1>30 DEF Stop
  <2>7. AnswerIsKept'
    BY <1>30 DEF Stop
  <2> QED
    BY <2>1, <2>2, <2>3, <2>4, <2>5, <2>6, <2>7
<1>31. ASSUME NEW c \in Codes, NEW r \in BOOLEAN, Begin(c, r) PROVE IInv'
  <2>1. TypeOK'
    BY <1>31 DEF Begin
  <2>2. KeyIsHere'
    BY <1>31 DEF Begin
  <2>3. MoveIsSafe'
    BY <1>31 DEF Begin
  <2>4. EnrolledHere'
    BY <1>31 DEF Begin
  <2>5. OneCodeEach'
    BY <1>31 DEF Begin
  <2>6. LeavesUnanswered'
    BY <1>31 DEF Begin
  <2>7. AnswerIsKept'
    BY <1>31 DEF Begin
  <2> QED
    BY <2>1, <2>2, <2>3, <2>4, <2>5, <2>6, <2>7
<1>32. CASE RunDiscovers
  <2>1. TypeOK'
    BY <1>32 DEF RunDiscovers
  <2>2. KeyIsHere'
    BY <1>32 DEF RunDiscovers
  <2>3. MoveIsSafe'
    BY <1>32 DEF RunDiscovers
  <2>4. EnrolledHere'
    BY <1>32 DEF RunDiscovers
  <2>5. OneCodeEach'
    BY <1>32 DEF RunDiscovers
  <2>6. LeavesUnanswered'
    BY <1>32 DEF RunDiscovers
  <2>7. AnswerIsKept'
    BY <1>32 DEF RunDiscovers
  <2> QED
    BY <2>1, <2>2, <2>3, <2>4, <2>5, <2>6, <2>7
<1>33. CASE RunSettles
  <2>1. TypeOK'
    BY <1>33 DEF RunSettles
  <2>2. KeyIsHere'
    BY <1>33 DEF RunSettles
  <2>3. MoveIsSafe'
    BY <1>33 DEF RunSettles
  <2>4. EnrolledHere'
    BY <1>33 DEF RunSettles
  <2>5. OneCodeEach'
    BY <1>33 DEF RunSettles
  <2>6. LeavesUnanswered'
    BY <1>33 DEF RunSettles
  <2>7. AnswerIsKept'
    BY <1>33 DEF RunSettles
  <2> QED
    BY <2>1, <2>2, <2>3, <2>4, <2>5, <2>6, <2>7
<1>34. CASE PendingExpires
  <2>0. fresh' \in BOOLEAN
    BY <1>34, Zenon DEF PendingExpires
  <2>1. TypeOK'
    BY <1>34, <2>0 DEF PendingExpires
  <2>2. KeyIsHere'
    BY <1>34 DEF PendingExpires
  <2>3. MoveIsSafe'
    BY <1>34 DEF PendingExpires
  <2>4. EnrolledHere'
    BY <1>34 DEF PendingExpires
  <2>5. OneCodeEach'
    BY <1>34 DEF PendingExpires
  <2>6. LeavesUnanswered'
    BY <1>34 DEF PendingExpires
  <2>7. AnswerIsKept'
    BY <1>34 DEF PendingExpires
  <2> QED
    BY <2>1, <2>2, <2>3, <2>4, <2>5, <2>6, <2>7
<1>35. ASSUME NEW c \in Codes, NEW k \in Keys, ServerEnrols(c, k) PROVE IInv'
  <2>1. TypeOK'
    BY <1>35 DEF ServerEnrols
  <2>2. KeyIsHere'
    BY <1>35 DEF ServerEnrols
  <2>3. MoveIsSafe'
    BY <1>35 DEF ServerEnrols
  <2>4. EnrolledHere'
    BY <1>35 DEF ServerEnrols
  <2>5. OneCodeEach'
    BY <1>35 DEF ServerEnrols
  <2>6. LeavesUnanswered'
    BY <1>35 DEF ServerEnrols
  <2>7. AnswerIsKept'
    BY <1>35 DEF ServerEnrols
  <2> QED
    BY <2>1, <2>2, <2>3, <2>4, <2>5, <2>6, <2>7
<1>36. CASE UNCHANGED vars
  <2>1. TypeOK'
    BY <1>36
  <2>2. KeyIsHere'
    BY <1>36
  <2>3. MoveIsSafe'
    BY <1>36
  <2>4. EnrolledHere'
    BY <1>36
  <2>5. OneCodeEach'
    BY <1>36
  <2>6. LeavesUnanswered'
    BY <1>36
  <2>7. AnswerIsKept'
    BY <1>36
  <2> QED
    BY <2>1, <2>2, <2>3, <2>4, <2>5, <2>6, <2>7
<1> HIDE DEF IInv
<1> QED
  BY <1>1, <1>2, <1>3, <1>4, <1>5, <1>6, <1>7, <1>8, <1>9, <1>10, <1>11, <1>12,
     <1>13, <1>14, <1>15, <1>16, <1>17, <1>18, <1>19, <1>20, <1>21, <1>22, <1>23, <1>24,
     <1>25, <1>26, <1>27, <1>28, <1>29, <1>30, <1>31, <1>32, <1>33, <1>34, <1>35, <1>36
  DEF Next, CommandStep

(* The invariant holds of every behaviour.                                  *)
LEMMA Inductive == Spec => []IInv
<1> QED
  BY InitIInv, NextIInv, PTL DEF Spec

(* The type invariant holds: no record ever has two enrolments.             *)
THEOREM TypeCorrect == Spec => []TypeOK
<1>1. IInv => TypeOK
  BY DEF IInv
<1> QED
  BY <1>1, Inductive, PTL

(* Whatever commands ran, stopped, failed to keep their answer or lost it,  *)
(* access-key-secret and forager.yaml hold enrolled keys alone.             *)
THEOREM OnlyEnrolledInPlace == Spec => []OnlyEnrolled
<1>1. IInv => OnlyEnrolled
  BY DEF IInv, EnrolledHere
<1> QED
  BY <1>1, Inductive, PTL

(* While no answer failed to be kept, no command deletes the key that the   *)
(* kept answer names: the answer could not be finished without it.          *)
THEOREM KeptKeyAlwaysStays == Spec => []KeptKeyStays
<1>1. IInv => KeptKeyStays
  BY DEF IInv, AnswerIsKept, KeptKeyStays
<1> QED
  BY <1>1, Inductive, PTL

(* While no answer failed to be kept, a machine whose secret and            *)
(* forager.yaml differ can be finished from it.                             *)
THEOREM AlwaysFinishable == Spec => []Finishable
<1>1. IInv => Finishable
  BY DEF IInv, AnswerIsKept, Finishable
<1> QED
  BY <1>1, Inductive, PTL

(* While no answer failed to be kept, no code with a kept one is sent again.*)
THEOREM NeverSentAgain == Spec => NotSentAgain
<1>1. IInv => (~unkept /\ pc = "send" => \A k \in Keys : <<code, k>> \notin answer)
  BY DEF IInv, AnswerIsKept
<1>2. IInv /\ [Next]_vars => [~unkept /\ pc = "send" => \A k \in Keys : <<code, k>> \notin answer]_vars
  BY <1>1
<1> QED
  BY <1>2, Inductive, PTL DEF Spec, NotSentAgain

(* A step that takes an active key's last copy leaves another one working.  *)
KeyGoes ==
  \A k \in taken : (k \in Held /\ k \notin Held') =>
    /\ secret' \in taken \ {k}
    /\ forager' = secret' \/ \E c \in Codes, n \in {secret', new'} : <<c, n>> \in answer'

(* Only these file operations may: the others keep the secrets as they are. *)
LEMMA KeyGoesSafely == IInv /\ ~unkept /\ [Next]_vars => KeyGoes
<1> SUFFICES ASSUME IInv, ~unkept, [Next]_vars PROVE KeyGoes
  OBVIOUS
<1> USE DEF KeyGoes, Held, IInv, TypeOK, KeyIsHere, MoveIsSafe
<1>1. CASE UNCHANGED secrets
  BY <1>1
<1>2. CASE LookAside
  BY <1>2 DEF LookAside, LinkAside
<1>3. CASE UnlinkNew
  BY <1>3 DEF UnlinkNew
<1>4. ASSUME NEW k \in Keys, MakeKey(k) PROVE KeyGoes
  BY <1>4 DEF MakeKey
<1>5. CASE DeleteNew
  BY <1>5 DEF DeleteNew, EnrolledHere, OneCodeEach
<1>6. CASE DiscardLink
  BY <1>6 DEF DiscardLink, LinkAside
<1>7. CASE UnlinkReplaced
  <2>1. secret' \in taken /\ new' = key /\ <<code, key>> \in answer' /\ secret' = secret
    BY <1>7 DEF UnlinkReplaced, EnrolledHere, OnlyEnrolled, AnswerIsKept
  <2> QED
    BY <2>1
<1>8. CASE LinkReplaced
  BY <1>8 DEF LinkReplaced
<1>9. CASE Swap
  BY <1>9 DEF Swap
<1>10. CASE RemoveReplaced
  BY <1>10 DEF RemoveReplaced, EnrolledHere
<1>11. CASE RunSettles
  <2>1. secret' = secret /\ new' = new /\ replaced' = replaced /\ forager' = forager /\ answer' = answer
    BY <1>11 DEF RunSettles
  <2>2. CASE secret = runKey
    <3>1. secret \in taken
      BY <1>11, <2>2 DEF RunSettles, EnrolledHere, OnlyEnrolled
    <3>2. forager = secret \/ \E c \in Codes, n \in {secret, new} : <<c, n>> \in answer
      BY DEF AnswerIsKept, Finishable
    <3> QED
      BY <2>1, <3>1, <3>2
  <2>3. CASE secret # runKey
    BY <1>11, <2>3 DEF RunSettles
  <2> QED
    BY <2>2, <2>3
<1> HIDE DEF IInv, KeyGoes
<1> QED
  BY <1>1, <1>2, <1>3, <1>4, <1>5, <1>6, <1>7, <1>8, <1>9, <1>10, <1>11
  DEF Next, CommandStep, FinishKept, RefuseHeld, Retry, RefuseAnswered, LookNone, MakeKeyFails,
      PendRemove, PendWrite, Send, Enrolled, KindRefused, EndPending, Refused, Discard, NotCompleted,
      Keep, Place, WriteForager, RemovePending, RemoveAnswer, Stop, Begin, RunDiscovers,
      PendingExpires, ServerEnrols

(* An active key's last copy goes only while another active key is this     *)
(* machine's, or is made so by the command of the kept answer.              *)
THEOREM LeavesAKey == Spec => NeverLeftWithoutKey
<1>1. IInv /\ [Next]_vars => (~unkept => KeyGoes)
  BY KeyGoesSafely
<1>2. IInv /\ [Next]_vars =>
        [\A k \in taken : (~unkept /\ k \in Held /\ k \notin Held') =>
           /\ secret' \in taken \ {k}
           /\ forager' = secret' \/ \E c \in Codes, n \in {secret', new'} : <<c, n>> \in answer']_vars
  BY <1>1 DEF KeyGoes
<1> QED
  BY <1>2, Inductive, PTL DEF Spec, NeverLeftWithoutKey
=============================================================================
