--------------------------- MODULE PrebuildProofs ---------------------------
(***************************************************************************)
(* Proofs about Prebuild, for any definitions: what is reported passed the *)
(* checks, what is shared fits all targets, and nothing stays.             *)
(***************************************************************************)
EXTENDS Prebuild, TLAPS, WellFoundedInduction, FiniteSetTheorems

Early == {"settings", "check", "dir", "open", "policy", "fetch", "commit", "step"}
Late == {"close", "remove", "over"}
Launches == Early \cup {"join", "report"} \cup Late
Afterwards == {"built", "push environment", "digest", "push target", "stored"}
Steps == Building \cup Afterwards \cup {"none", "exited", "dead"}
Errors == {"none", "refused", "failed", "ended", "missing", "built"}
Results == [error : BOOLEAN, missing : BOOLEAN, stopped : {"", "build", "push"}, environment : BOOLEAN, base : {None, baseRef}]

TypeOK ==
  /\ job \in Jobs
  /\ launch \in Launches /\ opened \in {"no", "yes", "ended"}
  /\ failed \in BOOLEAN /\ fetched \in BOOLEAN /\ reported \in BOOLEAN /\ owed \in BOOLEAN /\ dir \in BOOLEAN
  /\ step \in Steps /\ err \in Errors
  /\ registry \subseteq {"environment", "target"}

(* The base that the build found, and what its result may say.              *)
Based == base \in {None, baseRef} /\ result \in Results \cup {None}

(* A build that has come to one of these steps, or is done.                 *)
Past(steps) == step \in steps \/ err = "built"

(* What a pulled environment image, or the built one, brings is fine.       *)
Fits == IF job.pulled = "none" THEN job.asks = {} /\ job.widens = {} ELSE job.pulled = "fine"

(* Each check was passed by what is past it.                                *)
Passed ==
  /\ step \in Building \ {"clean"} => err = "none"
  /\ Past(Building \ {"check", "clean"}) => job.faults = {} /\ ~job.odd
  /\ Past(Building \ {"check", "tmp", "git", "clean"}) => ~\E e \in gitConfigs : gitCredential(e)
  /\ step \in {"standard", "merged", "resolve", "base", "keep"} => job.pulled = "none"
  /\ step = "pull" => job.pulled # "none"
  /\ Past({"keep", "agent", "create", "copy", "seed", "commit", "final"}) => Fits
  /\ Past({"commit", "final"}) => job.occupied = "nobody"
  /\ err = "missing" => job.pulled = "missing"

(* Before the step there is nothing; the engine has what the build tracks,  *)
(* and of a build that is done its images; and an environment image is kept *)
(* by the sharing rule alone.                                               *)
Engine ==
  /\ step = "none" => engine = {} /\ tracked = {} /\ result = None /\ registry = {} /\ err = "none"
  /\ engine \subseteq tracked \cup (IF err = "built" THEN {"target", "environment"} ELSE {})
  /\ step \in {"keep", "push environment"} \/ "environment" \in engine \cup tracked \cup registry => chooseSource

(* The registry gets what a build that is done made, and a result says so.  *)
Result ==
  /\ step \in Afterwards \ {"built"} \/ registry # {} => err = "built"
  /\ step = "stored" => "target" \in registry
  /\ result # None =>
       /\ step = "exited"
       /\ result.error = FALSE => "target" \in registry
       /\ result.missing = TRUE => err = "missing"

(* Where Launch is against the step, and what it has seen of it.            *)
Joined ==
  /\ launch \in Early => step = "none"
  /\ launch # "join" => step \in {"none", "exited", "dead"}
  /\ launch \notin Late => out = Outcome("failed", "") /\ failed = FALSE /\ reported = FALSE
  /\ launch = "close" /\ reported = TRUE => failed = FALSE
  /\ launch = "report" \/ reported = TRUE => result # None /\ result.error = FALSE

(* Where Launch is against the run at the gateway, and the run's directory. *)
Opened ==
  /\ launch \in {"settings", "check", "dir", "open"} => opened = "no"
  /\ launch \in {"policy", "fetch", "commit", "step", "join", "report", "close"} => opened # "no"
  /\ launch \notin {"remove", "over"} => closed = {} /\ owed = FALSE
  /\ launch \in {"remove", "over"} => (opened = "no" <=> closed = {})
Directory ==
  /\ dir = IF launch = "over" THEN (owed = TRUE /\ opened # "ended") ELSE launch \notin {"settings", "check", "dir"}
  /\ launch = "remove" => ~(owed = TRUE /\ opened # "ended")

(* An outcome that says what happened.                                      *)
Went(o) ==
  /\ o.state = "succeeded" <=> reported = TRUE
  /\ o.reason = "interrupted" => Stopped
  /\ o.reason = "timeout" => "fetch" \in ends /\ registry = {} /\ step = "none"
  /\ o.reason = "image_missing" => job.pulled = "missing" /\ registry = {}
Outcomes == Went(out) /\ (closed = {} \/ \E o : closed = {o} /\ Went(o))

IInv == TypeOK /\ Based /\ Passed /\ Engine /\ Result /\ Joined /\ Opened /\ Directory /\ Outcomes
-----------------------------------------------------------------------------
USE JobsAssumption
(* What is read of the job is the same while the job is.                    *)
LEMMA SameJob ==
  ASSUME job' = job
  PROVE  /\ baseRef' = baseRef /\ chooseSource' = chooseSource /\ Results' = Results
         /\ gitConfigs' = gitConfigs /\ Fits' = Fits
<1>1. startOf' = startOf
  BY DEF startOf, Named, First, EndsAt
<1>2. dockerfileBase' = dockerfileBase
  BY <1>1 DEF dockerfileBase, Named, First
<1>3. baseRef' = baseRef
  BY <1>2 DEF baseRef
<1>4. Results' = Results
  BY <1>3 DEF Results
<1> QED
  BY <1>3, <1>4 DEF chooseSource, Context, Given, inDefinition, In, gitConfigs, gitFolder, Fits

(* A failed step says so in its result, if it can write one.                *)
LEMMA FailureWritten ==
  ASSUME NEW m, NEW at, Writes(Failure(m, at))
  PROVE  step' = "exited" /\ (result' = None \/ (result'.error = TRUE /\ result'.missing = m))
<1>1. Failure(m, at).error = TRUE /\ Failure(m, at).missing = m
  BY DEF Failure
<1> QED
  BY <1>1 DEF Writes

(* What the write of the result leaves alone.                               *)
LEMMA StoredWritten ==
  ASSUME stored
  PROVE  /\ step = "stored" /\ step' = "exited"
         /\ result' = None \/ result'.missing = FALSE
         /\ UNCHANGED <<job, outside, ends, base, engine, tracked, err, registry>>
<1>1. CASE Writes(Failure(FALSE, "push"))
  BY <1>1, FailureWritten DEF stored, ReadsBack
<1>2. CASE Writes([error |-> FALSE, missing |-> FALSE, stopped |-> "", environment |-> Kept, base |-> base])
  <2> DEFINE res == [error |-> FALSE, missing |-> FALSE, stopped |-> "", environment |-> Kept, base |-> base]
  <2>1. res.missing = FALSE
    OBVIOUS
  <2> HIDE DEF res
  <2>2. step' = "exited" /\ (result' = None \/ result'.missing = FALSE)
    BY <1>2, <2>1 DEF Writes, res
  <2> QED
    BY <2>2 DEF stored, ReadsBack
<1> QED
  BY <1>1, <1>2 DEF stored, ReadsBack

(* Nothing has happened at first.                                           *)
LEMMA InitIInv == Init => IInv
<1> SUFFICES ASSUME Init PROVE IInv
  OBVIOUS
<1> USE DEF Init, Outcome
<1>1. TypeOK /\ Based
  BY DEF TypeOK, Based, Launches, Early, Late, Steps, Errors
<1>2. Passed /\ Engine /\ Result
  BY DEF Passed, Past, Building, Engine, Result, Afterwards
<1>3. Joined /\ Opened /\ Directory
  BY DEF Joined, Opened, Directory, Early, Late
<1>4. Outcomes
  BY DEF Outcomes, Went
<1> QED
  BY <1>1, <1>2, <1>3, <1>4 DEF IInv

(* A step inside the wall goes on at a step.                                *)
LEMMA InsideTypes ==
  ASSUME TypeOK, UNCHANGED <<job, outside>>, registry' \subseteq {"environment", "target"},
         step' \in Steps, err' \in Errors
  PROVE  TypeOK'
BY DEF TypeOK, outside

(* A program goes on at its next step, or fails.                            *)
LEMMA ProgramTypes ==
  ASSUME TypeOK, NEW at, NEW to \in Steps, NEW makes, NEW why \in Errors \cup {None}, Program(at, to, makes, why)
  PROVE  TypeOK'
<1>1. "clean" \in Steps /\ {"ended", "failed"} \subseteq Errors /\ err \in Errors
  BY DEF TypeOK, Steps, Building, Errors
<1>2. step' \in Steps /\ err' \in Errors
  BY <1>1 DEF Program, Fail
<1>3. UNCHANGED <<job, outside>> /\ registry' = registry
  BY DEF Program
<1> QED
  BY <1>2, <1>3, InsideTypes DEF TypeOK

(* The steps that follow another.                                           *)
LEMMA StepNames ==
  /\ {"tmp", "git", "config", "docker", "proxies", "programs", "pull", "standard", "merged", "resolve", "base", "keep",
      "agent", "create", "copy", "seed", "commit", "final", "clean"} \subseteq Steps
  /\ {"built", "push environment", "digest", "push target", "stored", "exited", "dead"} \subseteq Steps
  /\ {"refused", "failed", "ended", "missing", "built"} \subseteq Errors
BY DEF Steps, Building, Afterwards, Errors

(* Each step keeps the types.                                               *)
LEMMA NextTypeOK == TypeOK /\ [Next]_vars => TypeOK'
<1> SUFFICES ASSUME TypeOK, [Next]_vars PROVE TypeOK'
  OBVIOUS
<1>1. CASE checkConfig
  <2>1. step' \in Steps /\ err' \in Errors /\ UNCHANGED <<job, outside, registry>>
    BY <1>1, StepNames DEF TypeOK, checkConfig, Fail
  <2> QED
    BY <2>1, InsideTypes DEF TypeOK
<1>2. CASE MakesTmp
  <2>1. step' \in Steps /\ err' \in Errors /\ UNCHANGED <<job, outside, registry>>
    BY <1>2, StepNames DEF TypeOK, MakesTmp, Fail
  <2> QED
    BY <2>1, InsideTypes DEF TypeOK
<1>3. CASE checkGitConfig
  BY <1>3, StepNames, ProgramTypes DEF checkGitConfig, RefusedIf
<1>4. CASE writeConfig
  <2>1. step' \in Steps /\ err' \in Errors /\ UNCHANGED <<job, outside, registry>>
    BY <1>4, StepNames DEF TypeOK, writeConfig, Prepares, Fail
  <2> QED
    BY <2>1, InsideTypes DEF TypeOK
<1>5. CASE dockerConfig
  <2>1. step' \in Steps /\ err' \in Errors /\ UNCHANGED <<job, outside, registry>>
    BY <1>5, StepNames DEF TypeOK, dockerConfig, Prepares, Fail
  <2> QED
    BY <2>1, InsideTypes DEF TypeOK
<1>6. CASE wallProxies
  <2>1. step' \in Steps /\ err' \in Errors /\ UNCHANGED <<job, outside, registry>>
    BY <1>6, StepNames DEF TypeOK, wallProxies, Prepares, Fail
  <2> QED
    BY <2>1, InsideTypes DEF TypeOK
<1>7. CASE checkPrograms
  BY <1>7, StepNames, ProgramTypes DEF checkPrograms, Starts
<1>8. CASE takePulled
  BY <1>8, StepNames, ProgramTypes DEF takePulled, RefusedIf
<1>8a. CASE takeStandard
  <2>1. step' \in Steps /\ err' \in Errors /\ UNCHANGED <<job, outside, registry>>
    BY <1>8a, StepNames DEF TypeOK, takeStandard, Fail
  <2> QED
    BY <2>1, InsideTypes DEF TypeOK
<1>9. CASE checkMerged
  BY <1>9, StepNames, ProgramTypes DEF checkMerged, RefusedIf
<1>10. CASE resolveBase
  <2>1. step' \in Steps /\ err' \in Errors /\ UNCHANGED <<job, outside, registry>>
    BY <1>10, StepNames DEF TypeOK, resolveBase, Fail
  <2> QED
    BY <2>1, InsideTypes DEF TypeOK
<1>11. CASE buildBase
  BY <1>11, StepNames, ProgramTypes DEF buildBase, RefusedIf
<1>12. CASE keepEnvironment
  BY <1>12, StepNames, ProgramTypes DEF keepEnvironment
<1>13. CASE addAgent
  BY <1>13, StepNames, ProgramTypes DEF addAgent, dockerBuild
<1>14. CASE createContainer
  BY <1>14, StepNames, ProgramTypes DEF createContainer
<1>15. CASE writeTree
  BY <1>15, StepNames, ProgramTypes DEF writeTree
<1>16. CASE runCommands
  BY <1>16, StepNames, ProgramTypes DEF runCommands, RefusedIf
<1>17. CASE commitContainer
  BY <1>17, StepNames, ProgramTypes DEF commitContainer
<1>18. CASE finish
  <2>1. step' \in Steps /\ err' \in Errors /\ UNCHANGED <<job, outside, registry>>
    BY <1>18, StepNames DEF TypeOK, finish, Fail
  <2> QED
    BY <2>1, InsideTypes DEF TypeOK
<1>19. CASE clean
  <2>1. step' \in Steps /\ err' \in Errors /\ UNCHANGED <<job, outside, registry>>
    BY <1>19, StepNames DEF TypeOK, clean
  <2> QED
    BY <2>1, InsideTypes DEF TypeOK
<1>20. CASE BuildReturns
  <2>1. step' \in Steps /\ err' = err /\ UNCHANGED <<job, outside, registry>>
    BY <1>20, StepNames, FailureWritten DEF BuildReturns
  <2> QED
    BY <2>1, InsideTypes DEF TypeOK
<1>21. CASE pushEnvironment
  <2>1. step' \in Steps /\ err' = err /\ UNCHANGED <<job, outside>>
    BY <1>21, StepNames, FailureWritten DEF pushEnvironment, Pushes
  <2>2. registry' \subseteq {"environment", "target"}
    BY <1>21 DEF TypeOK, pushEnvironment, Pushes
  <2> QED
    BY <2>1, <2>2, InsideTypes DEF TypeOK
<1>22. CASE digest
  <2>1. step' \in Steps /\ err' = err /\ UNCHANGED <<job, outside, registry>>
    BY <1>22, StepNames, FailureWritten DEF digest, ReadsBack
  <2> QED
    BY <2>1, InsideTypes DEF TypeOK
<1>23. CASE pushTarget
  <2>1. step' \in Steps /\ err' = err /\ UNCHANGED <<job, outside>>
    BY <1>23, StepNames, FailureWritten DEF pushTarget, Pushes
  <2>2. registry' \subseteq {"environment", "target"}
    BY <1>23 DEF TypeOK, pushTarget, Pushes
  <2> QED
    BY <2>1, <2>2, InsideTypes DEF TypeOK
<1>24. CASE stored
  BY <1>24, StoredWritten, StepNames, InsideTypes DEF TypeOK
<1> USE DEF TypeOK, vars, outside, inside
<1>25. CASE runCodePrebuild
  BY <1>25 DEF runCodePrebuild, LaunchFails, Launches, Early, Late
<1>26. CASE checkRun
  BY <1>26 DEF checkRun, LaunchFails, Launches, Early, Late
<1>27. CASE makeDir
  BY <1>27 DEF makeDir, LaunchFails, Stopped, Launches, Early, Late
<1>28. CASE Opens
  BY <1>28 DEF Opens, LaunchFails, Launches, Early, Late
<1>29. CASE checkPolicy
  BY <1>29 DEF checkPolicy, LaunchFails, Launches, Early, Late
<1>30. CASE fetch
  BY <1>30 DEF fetch, LaunchFails, Outcome, Interrupted, Stopped, Launches, Early, Late
<1>31. CASE Commit
  BY <1>31 DEF Commit, LaunchFails, Launches, Early, Late
<1>32. CASE Joins
  <2>1. launch' \in Launches
    BY <1>32 DEF Joins, LaunchFails, Launches, Late
  <2>2. step' \in Steps
    BY <1>32 DEF Joins, Steps, Building
  <2> QED
    BY <1>32, <2>1, <2>2 DEF Joins, LaunchFails
<1>33. CASE readsResult
  BY <1>33 DEF readsResult, LaunchFails, StepEnded, readResult, Outcome, Stopped, Launches, Early, Late
<1>34. CASE Built
  BY <1>34 DEF Built, LaunchFails, Outcome, Launches, Early, Late
<1>35. CASE closeRun
  BY <1>35 DEF closeRun, closesWith, Interrupted, Outcome, Stopped, Launches, Early, Late
<1>36. CASE removeDir
  BY <1>36 DEF removeDir, Launches, Early, Late
<1>37. CASE Terminate
  BY <1>37 DEF Terminate, InStep
<1>38. CASE Dies
  BY <1>38 DEF Dies, InStep, Steps, Building, Afterwards
<1>39. CASE Limit
  BY <1>39 DEF Limit
<1>40. CASE FetchLimit
  BY <1>40 DEF FetchLimit
<1>41. CASE Stop
  BY <1>41 DEF Stop, Stopped
<1>42. CASE GatewayEnds
  BY <1>42 DEF GatewayEnds
<1>43. CASE UNCHANGED vars
  BY <1>43
<1> QED
  BY <1>1, <1>2, <1>3, <1>4, <1>5, <1>6, <1>7, <1>8, <1>8a, <1>9, <1>10, <1>11, <1>12, <1>13, <1>14, <1>15, <1>16,
     <1>17, <1>18, <1>19, <1>20, <1>21, <1>22, <1>23, <1>24, <1>25, <1>26, <1>27, <1>28, <1>29, <1>30, <1>31,
     <1>32, <1>33, <1>34, <1>35, <1>36, <1>37, <1>38, <1>39, <1>40, <1>41, <1>42, <1>43 DEF Next, RunStep, Build, Launch

(* The base is the one that the definition names, and the result has that one.*)
LEMMA NextBased == TypeOK /\ Based /\ [Next]_vars => Based'
<1> SUFFICES ASSUME TypeOK, Based, [Next]_vars PROVE Based'
  OBVIOUS
<1> USE DEF Based, vars, outside, inside
<1>1. CASE checkConfig
  BY <1>1, SameJob DEF checkConfig, Fail
<1>2. CASE MakesTmp
  BY <1>2, SameJob DEF MakesTmp, Fail
<1>3. CASE checkGitConfig
  BY <1>3, SameJob DEF checkGitConfig, Program, Fail, RefusedIf
<1>4. CASE writeConfig
  BY <1>4, SameJob DEF writeConfig, Prepares, Fail
<1>5. CASE dockerConfig
  BY <1>5, SameJob DEF dockerConfig, Prepares, Fail
<1>6. CASE wallProxies
  BY <1>6, SameJob DEF wallProxies, Prepares, Fail
<1>7. CASE checkPrograms
  BY <1>7, SameJob DEF checkPrograms, Program, Fail, RefusedIf, Starts
<1>8. CASE takePulled
  BY <1>8, SameJob DEF takePulled, Program, Fail, RefusedIf, imageMissing
<1>8a. CASE takeStandard
  BY <1>8a, SameJob DEF takeStandard, Fail
<1>9. CASE checkMerged
  BY <1>9, SameJob DEF checkMerged, Program, Fail, RefusedIf
<1>10. CASE resolveBase
  BY <1>10, SameJob DEF resolveBase, Fail
<1>11. CASE buildBase
  BY <1>11, SameJob DEF buildBase, Program, Fail, RefusedIf
<1>12. CASE keepEnvironment
  BY <1>12, SameJob DEF keepEnvironment, Program, Fail, RefusedIf
<1>13. CASE addAgent
  BY <1>13, SameJob DEF addAgent, Program, Fail, RefusedIf, dockerBuild
<1>14. CASE createContainer
  BY <1>14, SameJob DEF createContainer, Program, Fail, RefusedIf
<1>15. CASE writeTree
  BY <1>15, SameJob DEF writeTree, Program, Fail, RefusedIf
<1>16. CASE runCommands
  BY <1>16, SameJob DEF runCommands, Program, Fail, RefusedIf
<1>17. CASE commitContainer
  BY <1>17, SameJob DEF commitContainer, Program, Fail, RefusedIf
<1>18. CASE finish
  BY <1>18, SameJob DEF finish, Fail
<1>19. CASE clean
  BY <1>19, SameJob DEF clean
<1>20. CASE BuildReturns
  BY <1>20, SameJob DEF BuildReturns, Results, Writes, Failure, Kept
<1>21. CASE pushEnvironment
  BY <1>21, SameJob DEF pushEnvironment, Pushes, Results, Writes, Failure, Kept
<1>22. CASE digest
  BY <1>22, SameJob DEF digest, ReadsBack, Results, Writes, Failure, Kept
<1>23. CASE pushTarget
  BY <1>23, SameJob DEF pushTarget, Pushes, Results, Writes, Failure, Kept
<1>24. CASE stored
  BY <1>24, SameJob DEF stored, ReadsBack, Results, Writes, Failure, Kept
<1>25. CASE runCodePrebuild
  BY <1>25, SameJob DEF runCodePrebuild, LaunchFails
<1>26. CASE checkRun
  BY <1>26, SameJob DEF checkRun, LaunchFails
<1>27. CASE makeDir
  BY <1>27, SameJob DEF makeDir, LaunchFails, Stopped
<1>28. CASE Opens
  BY <1>28, SameJob DEF Opens, LaunchFails
<1>29. CASE checkPolicy
  BY <1>29, SameJob DEF checkPolicy, LaunchFails
<1>30. CASE fetch
  BY <1>30, SameJob DEF fetch, LaunchFails, Outcome, Interrupted, Stopped
<1>31. CASE Commit
  BY <1>31, SameJob DEF Commit, LaunchFails
<1>32. CASE Joins
  BY <1>32, SameJob DEF Joins, LaunchFails
<1>33. CASE readsResult
  BY <1>33, SameJob DEF readsResult, LaunchFails, StepEnded, readResult, Outcome, Stopped
<1>34. CASE Built
  BY <1>34, SameJob DEF Built, LaunchFails, Outcome
<1>35. CASE closeRun
  BY <1>35, SameJob DEF closeRun, closesWith, Interrupted, Outcome, Stopped
<1>36. CASE removeDir
  BY <1>36, SameJob DEF removeDir
<1>37. CASE Terminate
  BY <1>37, SameJob DEF Terminate, InStep
<1>38. CASE Dies
  BY <1>38, SameJob DEF Dies, InStep
<1>39. CASE Limit
  BY <1>39, SameJob DEF Limit
<1>40. CASE FetchLimit
  BY <1>40, SameJob DEF FetchLimit
<1>41. CASE Stop
  BY <1>41, SameJob DEF Stop, Stopped
<1>42. CASE GatewayEnds
  BY <1>42, SameJob DEF GatewayEnds
<1>43. CASE UNCHANGED vars
  BY <1>43, SameJob
<1> QED
  BY <1>1, <1>2, <1>3, <1>4, <1>5, <1>6, <1>7, <1>8, <1>8a, <1>9, <1>10, <1>11, <1>12, <1>13, <1>14, <1>15, <1>16,
     <1>17, <1>18, <1>19, <1>20, <1>21, <1>22, <1>23, <1>24, <1>25, <1>26, <1>27, <1>28, <1>29, <1>30, <1>31,
     <1>32, <1>33, <1>34, <1>35, <1>36, <1>37, <1>38, <1>39, <1>40, <1>41, <1>42, <1>43 DEF Next, RunStep, Build, Launch

(* Each step goes past a check that it passed only.                         *)
LEMMA NextPassed == IInv /\ [Next]_vars => Passed'
<1> SUFFICES ASSUME IInv, [Next]_vars PROVE Passed'
  OBVIOUS
<1> USE DEF IInv, TypeOK, Passed, Past, Building, Afterwards, vars, outside, inside
<1>1. CASE checkConfig
  <2> job.faults \subseteq Fault
    BY DEF JobType
  <2> QED
    BY <1>1, SameJob DEF checkConfig, Fail, Loads, checkMembers, checkCacheFrom, Expands, CheckHostAccess,
      checkFrontend, Narrow, checkTree, Fault
<1>2. CASE MakesTmp
  BY <1>2, SameJob DEF MakesTmp, Fail
<1>3. CASE checkGitConfig
  BY <1>3, SameJob DEF checkGitConfig, Program, Fail, RefusedIf
<1>4. CASE writeConfig
  BY <1>4, SameJob DEF writeConfig, Prepares, Fail
<1>5. CASE dockerConfig
  BY <1>5, SameJob DEF dockerConfig, Prepares, Fail
<1>6. CASE wallProxies
  BY <1>6, SameJob DEF wallProxies, Prepares, Fail
<1>7. CASE checkPrograms
  BY <1>7, SameJob DEF checkPrograms, Program, Fail, RefusedIf, Starts
<1>8. CASE takePulled
  BY <1>8, SameJob DEF takePulled, Program, Fail, RefusedIf, imageMissing, checkPulled, imageMissing, Fits,
      JobType
<1>8a. CASE takeStandard
  BY <1>8a, SameJob DEF takeStandard, Fail, checkLabel, Fits, JobType
<1>9. CASE checkMerged
  BY <1>9, SameJob DEF checkMerged, Program, Fail, RefusedIf, asksMerged, Part
<1>10. CASE resolveBase
  BY <1>10, SameJob DEF resolveBase, Fail
<1>11. CASE buildBase
  BY <1>11, SameJob DEF buildBase, Program, Fail, RefusedIf, checkLabel, Fits
<1>12. CASE keepEnvironment
  BY <1>12, SameJob DEF keepEnvironment, Program, Fail, RefusedIf
<1>13. CASE addAgent
  BY <1>13, SameJob DEF addAgent, Program, Fail, RefusedIf, dockerBuild
<1>14. CASE createContainer
  BY <1>14, SameJob DEF createContainer, Program, Fail, RefusedIf
<1>15. CASE writeTree
  BY <1>15, SameJob DEF writeTree, Program, Fail, RefusedIf
<1>16. CASE runCommands
  BY <1>16, SameJob DEF runCommands, Program, Fail, RefusedIf, Seed
<1>17. CASE commitContainer
  BY <1>17, SameJob DEF commitContainer, Program, Fail, RefusedIf
<1>18. CASE finish
  BY <1>18, SameJob DEF finish, Fail
<1>19. CASE clean
  BY <1>19, SameJob DEF clean
<1>20. CASE BuildReturns
  BY <1>20, SameJob, FailureWritten DEF BuildReturns
<1>21. CASE pushEnvironment
  BY <1>21, SameJob, FailureWritten DEF pushEnvironment, Pushes
<1>22. CASE digest
  BY <1>22, SameJob, FailureWritten DEF digest, ReadsBack
<1>23. CASE pushTarget
  BY <1>23, SameJob, FailureWritten DEF pushTarget, Pushes
<1>24. CASE stored
  BY <1>24, SameJob, StoredWritten
<1>25. CASE runCodePrebuild
  BY <1>25, SameJob DEF runCodePrebuild, LaunchFails
<1>26. CASE checkRun
  BY <1>26, SameJob DEF checkRun, LaunchFails
<1>27. CASE makeDir
  BY <1>27, SameJob DEF makeDir, LaunchFails, Stopped
<1>28. CASE Opens
  BY <1>28, SameJob DEF Opens, LaunchFails
<1>29. CASE checkPolicy
  BY <1>29, SameJob DEF checkPolicy, LaunchFails
<1>30. CASE fetch
  BY <1>30, SameJob DEF fetch, LaunchFails, Outcome, Interrupted, Stopped
<1>31. CASE Commit
  BY <1>31, SameJob DEF Commit, LaunchFails
<1>32. CASE Joins
  <2>1. CASE UNCHANGED <<step, err>>
    BY <1>32, <2>1, SameJob DEF Joins
  <2>2. CASE step' = "check" /\ err = "none" /\ UNCHANGED err
    BY <1>32, <2>2, SameJob DEF Joins
  <2> QED
    BY <1>32, <2>1, <2>2 DEF Joins, Engine, Joined, Early
<1>33. CASE readsResult
  BY <1>33, SameJob DEF readsResult, LaunchFails, StepEnded, readResult, Outcome, Stopped
<1>34. CASE Built
  BY <1>34, SameJob DEF Built, LaunchFails, Outcome
<1>35. CASE closeRun
  BY <1>35, SameJob DEF closeRun, closesWith, Interrupted, Outcome, Stopped
<1>36. CASE removeDir
  BY <1>36, SameJob DEF removeDir
<1>37. CASE Terminate
  BY <1>37, SameJob DEF Terminate, InStep
<1>38. CASE Dies
  BY <1>38, SameJob DEF Dies, InStep
<1>39. CASE Limit
  BY <1>39, SameJob DEF Limit
<1>40. CASE FetchLimit
  BY <1>40, SameJob DEF FetchLimit
<1>41. CASE Stop
  BY <1>41, SameJob DEF Stop, Stopped
<1>42. CASE GatewayEnds
  BY <1>42, SameJob DEF GatewayEnds
<1>43. CASE UNCHANGED vars
  BY <1>43, SameJob
<1> QED
  BY <1>1, <1>2, <1>3, <1>4, <1>5, <1>6, <1>7, <1>8, <1>8a, <1>9, <1>10, <1>11, <1>12, <1>13, <1>14, <1>15, <1>16,
     <1>17, <1>18, <1>19, <1>20, <1>21, <1>22, <1>23, <1>24, <1>25, <1>26, <1>27, <1>28, <1>29, <1>30, <1>31,
     <1>32, <1>33, <1>34, <1>35, <1>36, <1>37, <1>38, <1>39, <1>40, <1>41, <1>42, <1>43 DEF Next, RunStep, Build, Launch

(* Each step notes what it makes before it may be there.                    *)
LEMMA NextEngine == IInv /\ [Next]_vars => Engine'
<1> SUFFICES ASSUME IInv, [Next]_vars PROVE Engine'
  OBVIOUS
<1> USE DEF IInv, TypeOK, Passed, Engine, Building, Afterwards, Joined, Early, Result, vars, outside, inside
<1>1. CASE checkConfig
  BY <1>1, SameJob DEF checkConfig, Fail
<1>2. CASE MakesTmp
  BY <1>2, SameJob DEF MakesTmp, Fail
<1>3. CASE checkGitConfig
  BY <1>3, SameJob DEF checkGitConfig, Program, Fail, RefusedIf
<1>4. CASE writeConfig
  BY <1>4, SameJob DEF writeConfig, Prepares, Fail
<1>5. CASE dockerConfig
  BY <1>5, SameJob DEF dockerConfig, Prepares, Fail
<1>6. CASE wallProxies
  BY <1>6, SameJob DEF wallProxies, Prepares, Fail
<1>7. CASE checkPrograms
  BY <1>7, SameJob DEF checkPrograms, Program, Fail, RefusedIf, Starts
<1>8. CASE takePulled
  BY <1>8, SameJob DEF takePulled, Program, Fail, RefusedIf, imageMissing
<1>8a. CASE takeStandard
  BY <1>8a, SameJob DEF takeStandard, Fail
<1>9. CASE checkMerged
  BY <1>9, SameJob DEF checkMerged, Program, Fail, RefusedIf
<1>10. CASE resolveBase
  BY <1>10, SameJob DEF resolveBase, Fail
<1>11. CASE buildBase
  BY <1>11, SameJob DEF buildBase, Program, Fail, RefusedIf
<1>12. CASE keepEnvironment
  BY <1>12, SameJob DEF keepEnvironment, Program, Fail, RefusedIf
<1>13. CASE addAgent
  BY <1>13, SameJob DEF addAgent, Program, Fail, RefusedIf, dockerBuild
<1>14. CASE createContainer
  BY <1>14, SameJob DEF createContainer, Program, Fail, RefusedIf
<1>15. CASE writeTree
  BY <1>15, SameJob DEF writeTree, Program, Fail, RefusedIf
<1>16. CASE runCommands
  BY <1>16, SameJob DEF runCommands, Program, Fail, RefusedIf
<1>17. CASE commitContainer
  BY <1>17, SameJob DEF commitContainer, Program, Fail, RefusedIf
<1>18. CASE finish
  BY <1>18, SameJob DEF finish, Fail
<1>19. CASE clean
  BY <1>19, SameJob DEF clean
<1>20. CASE BuildReturns
  BY <1>20, SameJob, FailureWritten DEF BuildReturns, Kept
<1>21. CASE pushEnvironment
  BY <1>21, SameJob, FailureWritten DEF pushEnvironment, Pushes
<1>22. CASE digest
  BY <1>22, SameJob, FailureWritten DEF digest, ReadsBack
<1>23. CASE pushTarget
  BY <1>23, SameJob, FailureWritten DEF pushTarget, Pushes
<1>24. CASE stored
  BY <1>24, SameJob, StoredWritten
<1>25. CASE runCodePrebuild
  BY <1>25, SameJob DEF runCodePrebuild, LaunchFails
<1>26. CASE checkRun
  BY <1>26, SameJob DEF checkRun, LaunchFails
<1>27. CASE makeDir
  BY <1>27, SameJob DEF makeDir, LaunchFails, Stopped
<1>28. CASE Opens
  BY <1>28, SameJob DEF Opens, LaunchFails
<1>29. CASE checkPolicy
  BY <1>29, SameJob DEF checkPolicy, LaunchFails
<1>30. CASE fetch
  BY <1>30, SameJob DEF fetch, LaunchFails, Outcome, Interrupted, Stopped
<1>31. CASE Commit
  BY <1>31, SameJob DEF Commit, LaunchFails
<1>32. CASE Joins
  BY <1>32, SameJob DEF Joins, LaunchFails
<1>33. CASE readsResult
  BY <1>33, SameJob DEF readsResult, LaunchFails, StepEnded, readResult, Outcome, Stopped
<1>34. CASE Built
  BY <1>34, SameJob DEF Built, LaunchFails, Outcome
<1>35. CASE closeRun
  BY <1>35, SameJob DEF closeRun, closesWith, Interrupted, Outcome, Stopped
<1>36. CASE removeDir
  BY <1>36, SameJob DEF removeDir
<1>37. CASE Terminate
  BY <1>37, SameJob DEF Terminate, InStep
<1>38. CASE Dies
  BY <1>38, SameJob DEF Dies, InStep
<1>39. CASE Limit
  BY <1>39, SameJob DEF Limit
<1>40. CASE FetchLimit
  BY <1>40, SameJob DEF FetchLimit
<1>41. CASE Stop
  BY <1>41, SameJob DEF Stop, Stopped
<1>42. CASE GatewayEnds
  BY <1>42, SameJob DEF GatewayEnds
<1>43. CASE UNCHANGED vars
  BY <1>43, SameJob
<1> QED
  BY <1>1, <1>2, <1>3, <1>4, <1>5, <1>6, <1>7, <1>8, <1>8a, <1>9, <1>10, <1>11, <1>12, <1>13, <1>14, <1>15, <1>16,
     <1>17, <1>18, <1>19, <1>20, <1>21, <1>22, <1>23, <1>24, <1>25, <1>26, <1>27, <1>28, <1>29, <1>30, <1>31,
     <1>32, <1>33, <1>34, <1>35, <1>36, <1>37, <1>38, <1>39, <1>40, <1>41, <1>42, <1>43 DEF Next, RunStep, Build, Launch

(* Each step of the push comes after the build.                             *)
LEMMA NextResult == IInv /\ [Next]_vars => Result'
<1> SUFFICES ASSUME IInv, [Next]_vars PROVE Result'
  OBVIOUS
<1> USE DEF IInv, TypeOK, Passed, Engine, Result, Building, Afterwards, Joined, Early, vars, outside, inside
<1>1. CASE checkConfig
  BY <1>1, SameJob DEF checkConfig, Fail
<1>2. CASE MakesTmp
  BY <1>2, SameJob DEF MakesTmp, Fail
<1>3. CASE checkGitConfig
  BY <1>3, SameJob DEF checkGitConfig, Program, Fail, RefusedIf
<1>4. CASE writeConfig
  BY <1>4, SameJob DEF writeConfig, Prepares, Fail
<1>5. CASE dockerConfig
  BY <1>5, SameJob DEF dockerConfig, Prepares, Fail
<1>6. CASE wallProxies
  BY <1>6, SameJob DEF wallProxies, Prepares, Fail
<1>7. CASE checkPrograms
  BY <1>7, SameJob DEF checkPrograms, Program, Fail, RefusedIf, Starts
<1>8. CASE takePulled
  BY <1>8, SameJob DEF takePulled, Program, Fail, RefusedIf, imageMissing
<1>8a. CASE takeStandard
  BY <1>8a, SameJob DEF takeStandard, Fail
<1>9. CASE checkMerged
  BY <1>9, SameJob DEF checkMerged, Program, Fail, RefusedIf
<1>10. CASE resolveBase
  BY <1>10, SameJob DEF resolveBase, Fail
<1>11. CASE buildBase
  BY <1>11, SameJob DEF buildBase, Program, Fail, RefusedIf
<1>12. CASE keepEnvironment
  BY <1>12, SameJob DEF keepEnvironment, Program, Fail, RefusedIf
<1>13. CASE addAgent
  BY <1>13, SameJob DEF addAgent, Program, Fail, RefusedIf, dockerBuild
<1>14. CASE createContainer
  BY <1>14, SameJob DEF createContainer, Program, Fail, RefusedIf
<1>15. CASE writeTree
  BY <1>15, SameJob DEF writeTree, Program, Fail, RefusedIf
<1>16. CASE runCommands
  BY <1>16, SameJob DEF runCommands, Program, Fail, RefusedIf
<1>17. CASE commitContainer
  BY <1>17, SameJob DEF commitContainer, Program, Fail, RefusedIf
<1>18. CASE finish
  BY <1>18, SameJob DEF finish, Fail
<1>19. CASE clean
  BY <1>19, SameJob DEF clean
<1>20. CASE BuildReturns
  BY <1>20, SameJob, FailureWritten DEF BuildReturns
<1>21. CASE pushEnvironment
  BY <1>21, SameJob, FailureWritten DEF pushEnvironment, Pushes
<1>22. CASE digest
  BY <1>22, SameJob, FailureWritten DEF digest, ReadsBack
<1>23. CASE pushTarget
  BY <1>23, SameJob, FailureWritten DEF pushTarget, Pushes
<1>24. CASE stored
  BY <1>24, SameJob, StoredWritten
<1>25. CASE runCodePrebuild
  BY <1>25, SameJob DEF runCodePrebuild, LaunchFails
<1>26. CASE checkRun
  BY <1>26, SameJob DEF checkRun, LaunchFails
<1>27. CASE makeDir
  BY <1>27, SameJob DEF makeDir, LaunchFails, Stopped
<1>28. CASE Opens
  BY <1>28, SameJob DEF Opens, LaunchFails
<1>29. CASE checkPolicy
  BY <1>29, SameJob DEF checkPolicy, LaunchFails
<1>30. CASE fetch
  BY <1>30, SameJob DEF fetch, LaunchFails, Outcome, Interrupted, Stopped
<1>31. CASE Commit
  BY <1>31, SameJob DEF Commit, LaunchFails
<1>32. CASE Joins
  BY <1>32, SameJob DEF Joins, LaunchFails
<1>33. CASE readsResult
  BY <1>33, SameJob DEF readsResult, LaunchFails, StepEnded, readResult, Outcome, Stopped
<1>34. CASE Built
  BY <1>34, SameJob DEF Built, LaunchFails, Outcome
<1>35. CASE closeRun
  BY <1>35, SameJob DEF closeRun, closesWith, Interrupted, Outcome, Stopped
<1>36. CASE removeDir
  BY <1>36, SameJob DEF removeDir
<1>37. CASE Terminate
  BY <1>37, SameJob DEF Terminate, InStep
<1>38. CASE Dies
  BY <1>38, SameJob DEF Dies, InStep
<1>39. CASE Limit
  BY <1>39, SameJob DEF Limit
<1>40. CASE FetchLimit
  BY <1>40, SameJob DEF FetchLimit
<1>41. CASE Stop
  BY <1>41, SameJob DEF Stop, Stopped
<1>42. CASE GatewayEnds
  BY <1>42, SameJob DEF GatewayEnds
<1>43. CASE UNCHANGED vars
  BY <1>43, SameJob
<1> QED
  BY <1>1, <1>2, <1>3, <1>4, <1>5, <1>6, <1>7, <1>8, <1>8a, <1>9, <1>10, <1>11, <1>12, <1>13, <1>14, <1>15, <1>16,
     <1>17, <1>18, <1>19, <1>20, <1>21, <1>22, <1>23, <1>24, <1>25, <1>26, <1>27, <1>28, <1>29, <1>30, <1>31,
     <1>32, <1>33, <1>34, <1>35, <1>36, <1>37, <1>38, <1>39, <1>40, <1>41, <1>42, <1>43 DEF Next, RunStep, Build, Launch

(* Launch and the step are where they should be after each step.            *)
LEMMA NextJoined == IInv /\ [Next]_vars => Joined'
<1> SUFFICES ASSUME IInv, [Next]_vars PROVE Joined'
  OBVIOUS
<1> USE DEF IInv, TypeOK, Result, Joined, vars, outside, inside
<1>1. CASE checkConfig
  BY <1>1 DEF checkConfig, Fail, Building, Afterwards
<1>2. CASE MakesTmp
  BY <1>2 DEF MakesTmp, Fail, Building, Afterwards
<1>3. CASE checkGitConfig
  BY <1>3 DEF checkGitConfig, Program, Fail, RefusedIf, Building, Afterwards
<1>4. CASE writeConfig
  BY <1>4 DEF writeConfig, Prepares, Fail, Building, Afterwards
<1>5. CASE dockerConfig
  BY <1>5 DEF dockerConfig, Prepares, Fail, Building, Afterwards
<1>6. CASE wallProxies
  BY <1>6 DEF wallProxies, Prepares, Fail, Building, Afterwards
<1>7. CASE checkPrograms
  BY <1>7 DEF checkPrograms, Program, Fail, RefusedIf, Starts, Building, Afterwards
<1>8. CASE takePulled
  BY <1>8 DEF takePulled, Program, Fail, RefusedIf, imageMissing, Building, Afterwards
<1>8a. CASE takeStandard
  BY <1>8a DEF takeStandard, Fail, Building, Afterwards
<1>9. CASE checkMerged
  BY <1>9 DEF checkMerged, Program, Fail, RefusedIf, Building, Afterwards
<1>10. CASE resolveBase
  BY <1>10 DEF resolveBase, Fail, Building, Afterwards
<1>11. CASE buildBase
  BY <1>11 DEF buildBase, Program, Fail, RefusedIf, Building, Afterwards
<1>12. CASE keepEnvironment
  BY <1>12 DEF keepEnvironment, Program, Fail, RefusedIf, Building, Afterwards
<1>13. CASE addAgent
  BY <1>13 DEF addAgent, Program, Fail, RefusedIf, dockerBuild, Building, Afterwards
<1>14. CASE createContainer
  BY <1>14 DEF createContainer, Program, Fail, RefusedIf, Building, Afterwards
<1>15. CASE writeTree
  BY <1>15 DEF writeTree, Program, Fail, RefusedIf, Building, Afterwards
<1>16. CASE runCommands
  BY <1>16 DEF runCommands, Program, Fail, RefusedIf, Building, Afterwards
<1>17. CASE commitContainer
  BY <1>17 DEF commitContainer, Program, Fail, RefusedIf, Building, Afterwards
<1>18. CASE finish
  BY <1>18 DEF finish, Fail, Building, Afterwards
<1>19. CASE clean
  BY <1>19 DEF clean, Building, Afterwards
<1>20. CASE BuildReturns
  BY <1>20, FailureWritten DEF BuildReturns, Building, Afterwards
<1>21. CASE pushEnvironment
  BY <1>21, FailureWritten DEF pushEnvironment, Pushes, Building, Afterwards
<1>22. CASE digest
  BY <1>22, FailureWritten DEF digest, ReadsBack, Building, Afterwards
<1>23. CASE pushTarget
  BY <1>23, FailureWritten DEF pushTarget, Pushes, Building, Afterwards
<1>24. CASE stored
  BY <1>24, StoredWritten DEF Building, Afterwards
<1>25. CASE runCodePrebuild
  BY <1>25 DEF runCodePrebuild, LaunchFails, Early, Late
<1>26. CASE checkRun
  BY <1>26 DEF checkRun, LaunchFails, Early, Late
<1>27. CASE makeDir
  BY <1>27 DEF makeDir, LaunchFails, Stopped, Early, Late
<1>28. CASE Opens
  BY <1>28 DEF Opens, LaunchFails, Early, Late
<1>29. CASE checkPolicy
  BY <1>29 DEF checkPolicy, LaunchFails, Early, Late
<1>30. CASE fetch
  BY <1>30 DEF fetch, LaunchFails, Outcome, Interrupted, Stopped, Early, Late
<1>31. CASE Commit
  BY <1>31 DEF Commit, LaunchFails, Early, Late
<1>32. CASE Joins
  BY <1>32 DEF Joins, LaunchFails, Early, Late
<1>33. CASE readsResult
  <2>1. result # None => result.error \in BOOLEAN
    BY DEF Based, Results
  <2>2. CASE launch' = "report" /\ readResult /\ UNCHANGED <<failed, out>>
    BY <1>33, <2>1, <2>2 DEF readsResult, readResult, StepEnded, Early, Late
  <2>3. CASE launch' = "close"
    BY <1>33, <2>3 DEF readsResult, StepEnded, Early, Late
  <2> QED
    BY <1>33, <2>2, <2>3 DEF readsResult, LaunchFails
<1>34. CASE Built
  BY <1>34 DEF Built, LaunchFails, Outcome, Early, Late
<1>35. CASE closeRun
  BY <1>35 DEF closeRun, closesWith, Interrupted, Outcome, Stopped, Early, Late
<1>36. CASE removeDir
  BY <1>36 DEF removeDir, Early, Late
<1>37. CASE Terminate
  BY <1>37 DEF Terminate, InStep, Building, Afterwards
<1>38. CASE Dies
  BY <1>38 DEF Dies, InStep
<1>39. CASE Limit
  BY <1>39 DEF Limit, Building, Afterwards
<1>40. CASE FetchLimit
  BY <1>40 DEF FetchLimit
<1>41. CASE Stop
  BY <1>41 DEF Stop, Stopped
<1>42. CASE GatewayEnds
  BY <1>42 DEF GatewayEnds
<1>43. CASE UNCHANGED vars
  BY <1>43
<1> QED
  BY <1>1, <1>2, <1>3, <1>4, <1>5, <1>6, <1>7, <1>8, <1>8a, <1>9, <1>10, <1>11, <1>12, <1>13, <1>14, <1>15, <1>16,
     <1>17, <1>18, <1>19, <1>20, <1>21, <1>22, <1>23, <1>24, <1>25, <1>26, <1>27, <1>28, <1>29, <1>30, <1>31,
     <1>32, <1>33, <1>34, <1>35, <1>36, <1>37, <1>38, <1>39, <1>40, <1>41, <1>42, <1>43 DEF Next, RunStep, Build, Launch

(* The run is open, and closed, when it should be after each step.          *)
LEMMA NextOpened == IInv /\ [Next]_vars => Opened'
<1> SUFFICES ASSUME IInv, [Next]_vars PROVE Opened'
  OBVIOUS
<1> USE DEF IInv, TypeOK, Opened, vars, outside, inside
<1>1. CASE checkConfig
  BY <1>1 DEF checkConfig, Fail
<1>2. CASE MakesTmp
  BY <1>2 DEF MakesTmp, Fail
<1>3. CASE checkGitConfig
  BY <1>3 DEF checkGitConfig, Program, Fail, RefusedIf
<1>4. CASE writeConfig
  BY <1>4 DEF writeConfig, Prepares, Fail
<1>5. CASE dockerConfig
  BY <1>5 DEF dockerConfig, Prepares, Fail
<1>6. CASE wallProxies
  BY <1>6 DEF wallProxies, Prepares, Fail
<1>7. CASE checkPrograms
  BY <1>7 DEF checkPrograms, Program, Fail, RefusedIf, Starts
<1>8. CASE takePulled
  BY <1>8 DEF takePulled, Program, Fail, RefusedIf, imageMissing
<1>8a. CASE takeStandard
  BY <1>8a DEF takeStandard, Fail
<1>9. CASE checkMerged
  BY <1>9 DEF checkMerged, Program, Fail, RefusedIf
<1>10. CASE resolveBase
  BY <1>10 DEF resolveBase, Fail
<1>11. CASE buildBase
  BY <1>11 DEF buildBase, Program, Fail, RefusedIf
<1>12. CASE keepEnvironment
  BY <1>12 DEF keepEnvironment, Program, Fail, RefusedIf
<1>13. CASE addAgent
  BY <1>13 DEF addAgent, Program, Fail, RefusedIf, dockerBuild
<1>14. CASE createContainer
  BY <1>14 DEF createContainer, Program, Fail, RefusedIf
<1>15. CASE writeTree
  BY <1>15 DEF writeTree, Program, Fail, RefusedIf
<1>16. CASE runCommands
  BY <1>16 DEF runCommands, Program, Fail, RefusedIf
<1>17. CASE commitContainer
  BY <1>17 DEF commitContainer, Program, Fail, RefusedIf
<1>18. CASE finish
  BY <1>18 DEF finish, Fail
<1>19. CASE clean
  BY <1>19 DEF clean
<1>20. CASE BuildReturns
  BY <1>20, FailureWritten DEF BuildReturns
<1>21. CASE pushEnvironment
  BY <1>21, FailureWritten DEF pushEnvironment, Pushes
<1>22. CASE digest
  BY <1>22, FailureWritten DEF digest, ReadsBack
<1>23. CASE pushTarget
  BY <1>23, FailureWritten DEF pushTarget, Pushes
<1>24. CASE stored
  BY <1>24, StoredWritten
<1>25. CASE runCodePrebuild
  BY <1>25 DEF runCodePrebuild, LaunchFails
<1>26. CASE checkRun
  BY <1>26 DEF checkRun, LaunchFails
<1>27. CASE makeDir
  BY <1>27 DEF makeDir, LaunchFails, Stopped
<1>28. CASE Opens
  BY <1>28 DEF Opens, LaunchFails
<1>29. CASE checkPolicy
  BY <1>29 DEF checkPolicy, LaunchFails
<1>30. CASE fetch
  BY <1>30 DEF fetch, LaunchFails, Outcome, Interrupted, Stopped
<1>31. CASE Commit
  BY <1>31 DEF Commit, LaunchFails
<1>32. CASE Joins
  BY <1>32 DEF Joins, LaunchFails
<1>33. CASE readsResult
  BY <1>33 DEF readsResult, LaunchFails, StepEnded, readResult, Outcome, Stopped
<1>34. CASE Built
  BY <1>34 DEF Built, LaunchFails, Outcome
<1>35. CASE closeRun
  BY <1>35 DEF closeRun, closesWith, Interrupted, Outcome, Stopped
<1>36. CASE removeDir
  BY <1>36 DEF removeDir
<1>37. CASE Terminate
  BY <1>37 DEF Terminate, InStep
<1>38. CASE Dies
  BY <1>38 DEF Dies, InStep
<1>39. CASE Limit
  BY <1>39 DEF Limit
<1>40. CASE FetchLimit
  BY <1>40 DEF FetchLimit
<1>41. CASE Stop
  BY <1>41 DEF Stop, Stopped
<1>42. CASE GatewayEnds
  BY <1>42 DEF GatewayEnds
<1>43. CASE UNCHANGED vars
  BY <1>43
<1> QED
  BY <1>1, <1>2, <1>3, <1>4, <1>5, <1>6, <1>7, <1>8, <1>8a, <1>9, <1>10, <1>11, <1>12, <1>13, <1>14, <1>15, <1>16,
     <1>17, <1>18, <1>19, <1>20, <1>21, <1>22, <1>23, <1>24, <1>25, <1>26, <1>27, <1>28, <1>29, <1>30, <1>31,
     <1>32, <1>33, <1>34, <1>35, <1>36, <1>37, <1>38, <1>39, <1>40, <1>41, <1>42, <1>43 DEF Next, RunStep, Build, Launch

(* The directory is there when it should be.                                *)
LEMMA NextDirectory == IInv /\ [Next]_vars => Directory'
<1> SUFFICES ASSUME IInv, [Next]_vars PROVE Directory'
  OBVIOUS
<1> USE DEF IInv, TypeOK, Opened, Directory, vars, outside, inside
<1>1. CASE checkConfig
  BY <1>1 DEF checkConfig, Fail
<1>2. CASE MakesTmp
  BY <1>2 DEF MakesTmp, Fail
<1>3. CASE checkGitConfig
  BY <1>3 DEF checkGitConfig, Program, Fail, RefusedIf
<1>4. CASE writeConfig
  BY <1>4 DEF writeConfig, Prepares, Fail
<1>5. CASE dockerConfig
  BY <1>5 DEF dockerConfig, Prepares, Fail
<1>6. CASE wallProxies
  BY <1>6 DEF wallProxies, Prepares, Fail
<1>7. CASE checkPrograms
  BY <1>7 DEF checkPrograms, Program, Fail, RefusedIf, Starts
<1>8. CASE takePulled
  BY <1>8 DEF takePulled, Program, Fail, RefusedIf, imageMissing
<1>8a. CASE takeStandard
  BY <1>8a DEF takeStandard, Fail
<1>9. CASE checkMerged
  BY <1>9 DEF checkMerged, Program, Fail, RefusedIf
<1>10. CASE resolveBase
  BY <1>10 DEF resolveBase, Fail
<1>11. CASE buildBase
  BY <1>11 DEF buildBase, Program, Fail, RefusedIf
<1>12. CASE keepEnvironment
  BY <1>12 DEF keepEnvironment, Program, Fail, RefusedIf
<1>13. CASE addAgent
  BY <1>13 DEF addAgent, Program, Fail, RefusedIf, dockerBuild
<1>14. CASE createContainer
  BY <1>14 DEF createContainer, Program, Fail, RefusedIf
<1>15. CASE writeTree
  BY <1>15 DEF writeTree, Program, Fail, RefusedIf
<1>16. CASE runCommands
  BY <1>16 DEF runCommands, Program, Fail, RefusedIf
<1>17. CASE commitContainer
  BY <1>17 DEF commitContainer, Program, Fail, RefusedIf
<1>18. CASE finish
  BY <1>18 DEF finish, Fail
<1>19. CASE clean
  BY <1>19 DEF clean
<1>20. CASE BuildReturns
  BY <1>20, FailureWritten DEF BuildReturns
<1>21. CASE pushEnvironment
  BY <1>21, FailureWritten DEF pushEnvironment, Pushes
<1>22. CASE digest
  BY <1>22, FailureWritten DEF digest, ReadsBack
<1>23. CASE pushTarget
  BY <1>23, FailureWritten DEF pushTarget, Pushes
<1>24. CASE stored
  BY <1>24, StoredWritten
<1>25. CASE runCodePrebuild
  BY <1>25 DEF runCodePrebuild, LaunchFails
<1>26. CASE checkRun
  BY <1>26 DEF checkRun, LaunchFails
<1>27. CASE makeDir
  BY <1>27 DEF makeDir, LaunchFails, Stopped
<1>28. CASE Opens
  BY <1>28 DEF Opens, LaunchFails
<1>29. CASE checkPolicy
  BY <1>29 DEF checkPolicy, LaunchFails
<1>30. CASE fetch
  BY <1>30 DEF fetch, LaunchFails, Outcome, Interrupted, Stopped
<1>31. CASE Commit
  BY <1>31 DEF Commit, LaunchFails
<1>32. CASE Joins
  BY <1>32 DEF Joins, LaunchFails
<1>33. CASE readsResult
  BY <1>33 DEF readsResult, LaunchFails, StepEnded, readResult, Outcome, Stopped
<1>34. CASE Built
  BY <1>34 DEF Built, LaunchFails, Outcome
<1>35. CASE closeRun
  BY <1>35 DEF closeRun, closesWith, Interrupted, Outcome, Stopped
<1>36. CASE removeDir
  BY <1>36 DEF removeDir
<1>37. CASE Terminate
  BY <1>37 DEF Terminate, InStep
<1>38. CASE Dies
  BY <1>38 DEF Dies, InStep
<1>39. CASE Limit
  BY <1>39 DEF Limit
<1>40. CASE FetchLimit
  BY <1>40 DEF FetchLimit
<1>41. CASE Stop
  BY <1>41 DEF Stop, Stopped
<1>42. CASE GatewayEnds
  BY <1>42 DEF GatewayEnds
<1>43. CASE UNCHANGED vars
  BY <1>43
<1> QED
  BY <1>1, <1>2, <1>3, <1>4, <1>5, <1>6, <1>7, <1>8, <1>8a, <1>9, <1>10, <1>11, <1>12, <1>13, <1>14, <1>15, <1>16,
     <1>17, <1>18, <1>19, <1>20, <1>21, <1>22, <1>23, <1>24, <1>25, <1>26, <1>27, <1>28, <1>29, <1>30, <1>31,
     <1>32, <1>33, <1>34, <1>35, <1>36, <1>37, <1>38, <1>39, <1>40, <1>41, <1>42, <1>43 DEF Next, RunStep, Build, Launch

-----------------------------------------------------------------------------
(* Which steps change what.                                                 *)
LEMMA RunStepLeaves == RunStep => UNCHANGED <<job, outside, ends>>
<1> USE DEF Program, Prepares, Pushes, ReadsBack
<1>1. Build => UNCHANGED <<job, outside, ends>>
  BY DEF Build, checkConfig, MakesTmp, checkGitConfig, writeConfig, dockerConfig, wallProxies, checkPrograms,
         takePulled, takeStandard, checkMerged, resolveBase, buildBase, keepEnvironment, addAgent, dockerBuild, createContainer,
         writeTree, runCommands, commitContainer, finish, clean
<1> QED
  BY <1>1 DEF RunStep, BuildReturns, pushEnvironment, digest, pushTarget, stored

(* What a step of the launch leaves alone.                                  *)
LEMMA LaunchLeaves ==
  Launch => /\ UNCHANGED <<job, ends, registry>>
            /\ UNCHANGED closed \/ closeRun
            /\ UNCHANGED <<out, reported>> \/ fetch \/ readsResult \/ Built
            /\ UNCHANGED step \/ Joins
BY DEF Launch, LaunchFails, inside, runCodePrebuild, checkRun, makeDir, Opens, checkPolicy, fetch, Commit, Joins,
       readsResult, Built, closeRun, removeDir

(* A run step is taken by a step that is up.                                *)
LEMMA RunStepIsUp == RunStep => step \notin {"none", "exited", "dead"}
<1> USE DEF Program, Prepares, Pushes, ReadsBack
<1>1. Build => step \notin {"none", "exited", "dead"}
  BY DEF Build, checkConfig, MakesTmp, checkGitConfig, writeConfig, dockerConfig, wallProxies, checkPrograms,
         takePulled, takeStandard, checkMerged, resolveBase, buildBase, keepEnvironment, addAgent, dockerBuild, createContainer,
         writeTree, runCommands, commitContainer, finish, clean
<1> QED
  BY <1>1 DEF RunStep, BuildReturns, pushEnvironment, digest, pushTarget, stored

(* What an outcome says of its run stays true once the run is closing.      *)
LEMMA ClosingLasts ==
  ASSUME IInv, [Next]_vars, launch \in Late
  PROVE  /\ UNCHANGED <<job, step, registry, reported, out>> /\ ends \subseteq ends'
         /\ launch' \in Late /\ (UNCHANGED closed \/ closeRun)
<1> USE DEF IInv, Joined, Late, vars, outside, inside
<1>1. step \in {"none", "exited", "dead"} /\ launch \notin {"fetch", "report", "join", "step"}
  OBVIOUS
<1>2. CASE RunStep
  BY <1>1, <1>2, RunStepIsUp
<1>3. CASE Launch
  BY <1>1, <1>3 DEF Launch, LaunchFails, runCodePrebuild, checkRun, makeDir, Opens, checkPolicy, fetch, Commit,
    Joins, readsResult, Built, closeRun, removeDir
<1>4. CASE Terminate \/ Dies \/ Limit \/ FetchLimit \/ Stop \/ GatewayEnds
  BY <1>1, <1>4 DEF Terminate, Dies, InStep, Limit, Building, FetchLimit, Stop, GatewayEnds
<1>5. CASE UNCHANGED vars
  BY <1>5
<1> QED
  BY <1>2, <1>3, <1>4, <1>5 DEF Next

(* What a build was stays so until its run is closed.                       *)
LEMMA WentLasts ==
  ASSUME UNCHANGED <<job, step, registry, reported>>, ends \subseteq ends', NEW o, Went(o)
  PROVE  Went(o)'
BY DEF Went, Stopped

(* Each step leaves the outcome, and the one it closed with, as it went.    *)
LEMMA NextOutcomes == IInv /\ [Next]_vars => Outcomes'
<1> SUFFICES ASSUME IInv, [Next]_vars PROVE Outcomes'
  OBVIOUS
<1>1. CASE launch \in Late
  <2>1. Went(out)'
    BY <1>1, ClosingLasts, WentLasts DEF IInv, Outcomes
  <2>2. CASE UNCHANGED closed
    BY <1>1, <2>1, <2>2, ClosingLasts, WentLasts DEF IInv, Outcomes
  <2>3. CASE closeRun
    <3>1. closed' = {closesWith} /\ launch = "close"
      BY <2>3 DEF closeRun, IInv, Opened
    <3>2. CASE fetched /\ failed /\ Stopped
      <4>1. closesWith = Interrupted
        BY <3>2 DEF closesWith
      <4>2. Went(Interrupted)
        BY <3>1, <3>2 DEF Went, Interrupted, Outcome, IInv, Joined, TypeOK
      <4> QED
        BY <1>1, <2>1, <3>1, <4>1, <4>2, ClosingLasts, WentLasts DEF Outcomes
    <3>3. CASE ~(fetched /\ failed /\ Stopped)
      <4>1. closed' = {out'}
        BY <2>3, <3>1, <3>3 DEF closesWith, closeRun
      <4> QED
        BY <2>1, <4>1 DEF Outcomes
    <3> QED
      BY <3>2, <3>3
  <2> QED
    BY <1>1, <2>2, <2>3, ClosingLasts
<1>2. CASE launch \notin Late
  <2>1. out = Outcome("failed", "") /\ reported = FALSE /\ closed = {}
    BY <1>2 DEF IInv, Joined, Opened, Late
  <2>2. closed' = {}
    BY <1>2, <2>1, RunStepLeaves, LaunchLeaves
    DEF Next, closeRun, Late, vars, outside, Terminate, Dies, Limit, FetchLimit, Stop, GatewayEnds
  <2>3. CASE UNCHANGED <<out, reported>>
    BY <2>1, <2>2, <2>3 DEF Outcomes, Went, Outcome
  <2>4. CASE fetch
    <3>1. launch = "fetch" /\ step' = "none" /\ registry' = {} /\ reported' = FALSE /\ ends' = ends
      BY <2>1, <2>4 DEF fetch, IInv, Joined, Engine, Early, inside
    <3>2. CASE out' = out
      BY <2>1, <2>2, <3>1, <3>2 DEF Outcomes, Went, Outcome
    <3>3. CASE out' = Outcome("cancelled", "timeout") /\ "fetch" \in ends
      BY <2>2, <3>1, <3>3 DEF Outcomes, Went, Outcome
    <3>4. CASE out' = Interrupted /\ Stopped
      BY <2>2, <3>1, <3>4 DEF Outcomes, Went, Outcome, Interrupted, Stopped
    <3> QED
      BY <2>4, <3>2, <3>3, <3>4 DEF fetch
  <2>5. CASE readsResult
    <3>1. reported' = FALSE /\ UNCHANGED <<job, ends, step, registry>>
      BY <2>1, <2>5 DEF readsResult, inside
    <3>2. CASE out' = out
      BY <2>1, <2>2, <3>1, <3>2 DEF Outcomes, Went, Outcome
    <3>3. CASE out' = Outcome("failed", "image_missing") /\ result # None /\ result.missing
      <4>1. result.missing = TRUE
        BY <3>3 DEF IInv, Based, Results
      <4>2. job.pulled = "missing" /\ registry = {}
        BY <3>3, <4>1 DEF IInv, Result, Passed
      <4> QED
        BY <2>2, <3>1, <3>3, <4>2 DEF Outcomes, Went, Outcome
    <3> QED
      BY <2>5, <3>2, <3>3 DEF readsResult
  <2>6. CASE Built
    <3>1. CASE reported' = TRUE /\ out' = Outcome("succeeded", "")
      BY <2>2, <3>1 DEF Outcomes, Went, Outcome
    <3>2. CASE UNCHANGED <<reported, out>>
      BY <2>1, <2>2, <3>2 DEF Outcomes, Went, Outcome
    <3> QED
      BY <2>6, <3>1, <3>2 DEF Built
  <2> QED
    BY <2>3, <2>4, <2>5, <2>6, RunStepLeaves, LaunchLeaves
    DEF Next, vars, outside, Terminate, Dies, Limit, FetchLimit, Stop, GatewayEnds
<1> QED
  BY <1>1, <1>2

-----------------------------------------------------------------------------
(* The base of a Dockerfile: what the recursion over its stages comes to.   *)
LEMMA Least ==
  ASSUME NEW T, T \subseteq Nat, T # {}
  PROVE  \E m \in T : \A k \in T : m <= k
<1>1. PICK m \in T : \A k \in T : ~(<<k, m>> \in OpToRel(<, Nat))
  BY WFMin, NatLessThanWellFounded
<1>2. \A k \in T : ~(k < m)
  BY <1>1 DEF OpToRel
<1> QED
  BY <1>2

(* The stage that a name stands for is one that has it.                     *)
LEMMA FirstOfNamed ==
  ASSUME NEW name, NEW k \in Nat, Named(name, k) # {}
  PROVE  First(Named(name, k)) \in Named(name, k) /\ First(Named(name, k)) \in 1 .. k
<1>1. Named(name, k) \subseteq Nat /\ Named(name, k) \subseteq 1 .. k
  BY DEF Named
<1>2. PICK m \in Named(name, k) : \A j \in Named(name, k) : m <= j
  BY <1>1, Least
<1> QED
  BY <1>1, <1>2 DEF First

(* The recursion is well founded: a stage starts from an earlier one.       *)
StartsAt(f, i) ==
  IF i = 0 THEN None
  ELSE IF EndsAt(job.stages[i].from) THEN None
  ELSE IF Named(job.stages[i].from, i - 1) = {} THEN job.stages[i].from
  ELSE f[First(Named(job.stages[i].from, i - 1))]
FitsTo(f, k) == f = [i \in 0 .. k |-> StartsAt(f, i)]
Unfit == {k \in 0 .. Len(job.stages) : \A f : ~FitsTo(f, k)}

(* What fits the stages up to one reaches over the next one.                *)
LEMMA Further ==
  ASSUME NEW k \in Nat, k # 0, NEW f, FitsTo(f, k - 1)
  PROVE  \E g : FitsTo(g, k)
<1> DEFINE g == [i \in 0 .. k |-> IF i = k THEN StartsAt(f, k) ELSE f[i]]
<1>1. \A i \in 0 .. k - 1 : g[i] = f[i] /\ f[i] = StartsAt(f, i)
  <2>1. \A i \in 0 .. k - 1 : f[i] = StartsAt(f, i)
    BY DEF FitsTo
  <2> QED
    BY <2>1
<1>2. g[k] = StartsAt(f, k) /\ g = [i \in 0 .. k |-> g[i]]
  OBVIOUS
<1> HIDE DEF g
<1>3. \A i \in 0 .. k : StartsAt(g, i) = StartsAt(f, i)
  <2> SUFFICES ASSUME NEW i \in 0 .. k PROVE StartsAt(g, i) = StartsAt(f, i)
    OBVIOUS
  <2>1. CASE i # 0 /\ Named(job.stages[i].from, i - 1) # {}
    <3>1. First(Named(job.stages[i].from, i - 1)) \in 1 .. i - 1
      BY <2>1, FirstOfNamed
    <3>2. g[First(Named(job.stages[i].from, i - 1))] = f[First(Named(job.stages[i].from, i - 1))]
      BY <1>1, <3>1
    <3> QED
      BY <2>1, <3>2 DEF StartsAt
  <2>2. CASE ~(i # 0 /\ Named(job.stages[i].from, i - 1) # {})
    BY <2>2 DEF StartsAt
  <2> QED
    BY <2>1, <2>2
<1>4. \A i \in 0 .. k : g[i] = StartsAt(g, i)
  <2> SUFFICES ASSUME NEW i \in 0 .. k PROVE g[i] = StartsAt(g, i)
    OBVIOUS
  <2>1. i = k \/ i \in 0 .. k - 1
    OBVIOUS
  <2> QED
    BY <2>1, <1>1, <1>2, <1>3
<1>5. [i \in 0 .. k |-> g[i]] = [i \in 0 .. k |-> StartsAt(g, i)]
  BY <1>4
<1> QED
  BY <1>2, <1>5 DEF FitsTo

(* No stage is left without the one that it starts from.                    *)
LEMMA NoneIsUnfit ==
  ASSUME Len(job.stages) \in Nat
  PROVE  Unfit = {}
<1> SUFFICES ASSUME Unfit # {} PROVE FALSE
  OBVIOUS
<1>1. Unfit \subseteq Nat
  BY DEF Unfit
<1>2. PICK k \in Unfit : \A j \in Unfit : k <= j
  BY <1>1, Least
<1>3. CASE k = 0
  <2> DEFINE f == [i \in 0 .. 0 |-> None]
  <2>1. [i \in 0 .. 0 |-> StartsAt(f, i)] = f
    BY DEF StartsAt
  <2>2. FitsTo(f, 0)
    BY <2>1 DEF FitsTo
  <2> QED
    BY <1>2, <1>3, <2>2 DEF Unfit
<1>4. CASE k # 0
  <2>1. k - 1 \in 0 .. Len(job.stages) /\ k - 1 \notin Unfit
    BY <1>1, <1>2, <1>4 DEF Unfit
  <2>2. PICK f : FitsTo(f, k - 1)
    BY <2>1 DEF Unfit
  <2>3. \E g : FitsTo(g, k)
    BY <1>1, <1>4, <2>2, Further
  <2> QED
    BY <2>3 DEF Unfit
<1> QED
  BY <1>3, <1>4

(* startOf is what a stage starts from, for every stage.                    *)
LEMMA StartOfStage ==
  ASSUME Len(job.stages) \in Nat
  PROVE  \A i \in 0 .. Len(job.stages) : startOf[i] = StartsAt(startOf, i)
<1>1. \E f : FitsTo(f, Len(job.stages))
  BY NoneIsUnfit DEF Unfit
<1>2. startOf = CHOOSE f : FitsTo(f, Len(job.stages))
  BY DEF startOf, FitsTo, StartsAt
<1>3. FitsTo(startOf, Len(job.stages))
  BY <1>1, <1>2
<1> QED
  BY <1>3 DEF FitsTo

(* A set of stages that has the ones its members start from has one that    *)
(* starts from the same image, outside the Dockerfile.                      *)
LEMMA EndsInSet ==
  ASSUME Len(job.stages) \in Nat, NEW R, R \subseteq 1 .. Len(job.stages), \A i \in R : Earlier(i) \subseteq R,
         NEW s \in R, startOf[s] # None
  PROVE  \E i \in R : Earlier(i) = {} /\ job.stages[i].from = startOf[s]
<1> DEFINE Wrong == {i \in R : startOf[i] # None /\ ~\E j \in R : Earlier(j) = {} /\ job.stages[j].from = startOf[i]}
<1> SUFFICES ASSUME Wrong # {} PROVE FALSE
  OBVIOUS
<1>0. Wrong \subseteq Nat
  <2>1. Wrong \subseteq R /\ R \subseteq Nat
    OBVIOUS
  <2> QED
    BY <2>1
<1>1. PICK i \in Wrong : \A j \in Wrong : i <= j
  BY <1>0, Least
<1> DEFINE from == job.stages[i].from
<1>2. i \in 1 .. Len(job.stages) /\ startOf[i] # None /\ i \in R
  OBVIOUS
<1>3. startOf[i] = StartsAt(startOf, i) /\ i # 0
  BY <1>2, StartOfStage
<1>4. Earlier(i) = Named(from, i - 1)
  BY DEF Earlier, Named
<1>5. CASE Named(from, i - 1) = {}
  <2>1. startOf[i] = from
    BY <1>2, <1>3, <1>5 DEF StartsAt
  <2> QED
    BY <1>2, <1>4, <1>5, <2>1
<1>6. CASE Named(from, i - 1) # {}
  <2> DEFINE j == First(Named(from, i - 1))
  <2>1. j \in Earlier(i) /\ j \in 1 .. i - 1
    BY <1>2, <1>4, <1>6, FirstOfNamed
  <2>2. startOf[i] = startOf[j]
    BY <1>2, <1>3, <1>6 DEF StartsAt
  <2>3. j \in R /\ j < i
    <3>1. Earlier(i) \subseteq R /\ i \in Nat
      BY <1>2
    <3> QED
      BY <2>1, <3>1
  <2>4. j \notin Wrong
    <3> HIDE DEF Wrong, j
    <3>1. Wrong \subseteq Nat /\ i \in Nat /\ j \in Nat
      BY <1>0, <1>1, <2>3, <2>1
    <3> QED
      BY <1>1, <2>3, <3>1
  <2>5. PICK m \in R : Earlier(m) = {} /\ job.stages[m].from = startOf[j]
    BY <1>2, <2>2, <2>3, <2>4
  <2> QED
    BY <1>2, <2>2, <2>5
<1> QED
  BY <1>5, <1>6

(* The base that a result names is where the target comes from.             *)
LEMMA BaseFollows ==
  ASSUME IInv, result # None
  PROVE  BaseIsTheTargets
<1> SUFFICES ASSUME result.base # None, Given(job.file), NEW R \in SUBSET Stages, Target \subseteq R,
                    \A i \in R : Earlier(i) \subseteq R
             PROVE  \E i \in R : Earlier(i) = {} /\ job.stages[i].from = result.base
  BY DEF BaseIsTheTargets
<1>1. job.stages \in Seq(StageType)
  BY JobsAssumption DEF IInv, TypeOK, JobType
<1>2. Len(job.stages) \in Nat /\ Stages = 1 .. Len(job.stages)
  BY <1>1 DEF Stages
<1>3. result.base = dockerfileBase
  BY DEF IInv, Based, Results, baseRef
<1>4. \E s \in Target : startOf[s] = result.base
  <2>1. CASE job.target = ""
    <3>1. startOf[Len(job.stages)] = result.base
      BY <1>3, <2>1 DEF dockerfileBase
    <3>2. Len(job.stages) # 0
      BY <1>2, <3>1, StartOfStage DEF StartsAt
    <3>3. Len(job.stages) \in Stages
      BY <1>2, <3>2
    <3> QED
      BY <2>1, <3>1, <3>3 DEF Target
  <2>2. CASE job.target # ""
    <3> DEFINE s == First(Named(job.target, Len(job.stages)))
    <3>1. Named(job.target, Len(job.stages)) # {} /\ result.base = startOf[s]
      BY <1>3, <2>2 DEF dockerfileBase
    <3>2. s \in Named(job.target, Len(job.stages))
      BY <1>2, <3>1, FirstOfNamed
    <3>3. s \in Target
      BY <1>2, <2>2, <3>2 DEF Target, Named
    <3> QED
      BY <3>1, <3>3
  <2> QED
    BY <2>1, <2>2
<1>5. PICK s \in R : startOf[s] = result.base
  BY <1>4
<1>6. R \subseteq 1 .. Len(job.stages) /\ startOf[s] # None
  BY <1>2, <1>5
<1>7. PICK i \in R : Earlier(i) = {} /\ job.stages[i].from = startOf[s]
  BY <1>2, <1>6, EndsInSet
<1> QED
  BY <1>5, <1>7

-----------------------------------------------------------------------------
(* Every step keeps the invariant.                                          *)
LEMMA NextIInv == IInv /\ [Next]_vars => IInv'
<1> SUFFICES ASSUME IInv, [Next]_vars PROVE IInv'
  OBVIOUS
<1>1. TypeOK' /\ Based'
  BY NextTypeOK, NextBased DEF IInv
<1> QED
  BY <1>1, NextPassed, NextEngine, NextResult, NextJoined, NextOpened, NextDirectory, NextOutcomes DEF IInv

(* Everything that was checked is fine where the images were reported.      *)
LEMMA Checked == IInv => ReportedIsChecked
<1> SUFFICES ASSUME IInv, reported PROVE ReportedIsChecked
  BY DEF ReportedIsChecked
<1>1. reported = TRUE
  BY DEF IInv, TypeOK
<1>2. result # None /\ result.error = FALSE
  BY <1>1 DEF IInv, Joined
<1>3. "target" \in registry /\ err = "built"
  BY <1>2 DEF IInv, Result
<1>4. /\ job.faults = {} /\ ~job.odd /\ job.occupied = "nobody" /\ Fits
      /\ ~\E e \in gitConfigs : gitCredential(e)
  BY <1>3 DEF IInv, Passed, Past
<1>5. job.git \subseteq GitType /\ job.folder \in {"none", "folder", "inside", "outside"}
  BY JobsAssumption DEF IInv, TypeOK, JobType
<1>6. job.folder \in {"none", "outside"} \/ job.git \subseteq {"ssh user", "nothing"}
  BY <1>4, <1>5 DEF gitConfigs, gitFolder, gitCredential, GitType
<1> QED
  BY <1>2, <1>3, <1>4, <1>6, BaseFollows DEF ReportedIsChecked, Fits

(* The invariant gives SharedFitsAll.                                       *)
LEMMA Shared == IInv => SharedFitsAll
BY DEF IInv, Engine, SharedFitsAll, chooseSource, inDefinition, In, Given, Context

(* The invariant gives EndsClean.                                           *)
LEMMA Clean == IInv => EndsClean
<1> SUFFICES ASSUME IInv PROVE NothingLeft /\ ClosesAsItWent
  BY DEF EndsClean
<1>1. NothingLeft
  BY DEF IInv, Engine, NothingLeft
<1>2. Cardinality(closed) <= 1
  <2>1. closed = {} \/ \E o : closed = {o}
    BY DEF IInv, Outcomes
  <2>2. Cardinality({}) <= 1
    BY FS_EmptySet
  <2>3. \A o : Cardinality({o}) = 1
    BY FS_Singleton, Zenon
  <2>4. CASE \E o : closed = {o}
    <3>1. PICK o : closed = {o}
      BY <2>4
    <3>2. Cardinality(closed) = 1
      BY <2>3, <3>1
    <3> QED
      BY <3>2
  <2> QED
    BY <2>1, <2>2, <2>4
<1>3. \A o \in closed : Went(o)
  BY DEF IInv, Outcomes
<1>4. launch = "over" => (opened # "no") = (closed # {}) /\ dir = (owed /\ opened # "ended")
  BY DEF IInv, TypeOK, Opened, Directory
<1> QED
  BY <1>1, <1>2, <1>3, <1>4 DEF ClosesAsItWent, Went, IInv, TypeOK

(* The invariant that the theorems rest on holds in every state.            *)
THEOREM Invariance == Spec => []IInv
<1>1. Init => IInv
  BY InitIInv
<1>2. IInv /\ [Next]_vars => IInv'
  BY NextIInv
<1> QED
  BY <1>1, <1>2, PTL DEF Spec

(* Type correctness: every state of a prebuild, its result and its base.    *)
THEOREM TypeCorrect == Spec => [](TypeOK /\ Based)
<1>1. IInv => TypeOK /\ Based
  BY DEF IInv
<1> QED
  BY <1>1, Invariance, PTL

(* Launch reports to Qory Apiary only an image that passed every check of   *)
(* the definition, the features, the base and the label (Build and Launch), *)
(* and the base that the target's stages come down to, for any Dockerfile.  *)
THEOREM ReportsAreChecked == Spec => []ReportedIsChecked
<1> QED
  BY Invariance, Checked, PTL

(* An environment image is in the registry for other targets only where     *)
(* chooseSource found its definition to be all that it depends on.          *)
THEOREM SharedImagesFit == Spec => []SharedFitsAll
<1> QED
  BY Invariance, Shared, PTL

(* Whatever a stopped or failed docker command did, what the build made is  *)
(* gone or still tracked, and the run is closed once, as it went.           *)
THEOREM PrebuildsEndClean == Spec => []EndsClean
<1> QED
  BY Invariance, Clean, PTL
=============================================================================
