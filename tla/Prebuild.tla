------------------------------ MODULE Prebuild ------------------------------
(***************************************************************************)
(* One prebuild: Launch of internal/pool/prebuild opens a run, fetches its *)
(* repository, runs a step behind the wall, reports what it pushed and     *)
(* closes the run; the step builds the images with internal/prebuild and   *)
(* pushes them.  The two are processes of their own, and what passes from  *)
(* one to the other is a signal, an exit and the result's file.            *)
(*                                                                         *)
(* External: docker, git and the devcontainer command, each of which may   *)
(* fail, hang, or have its effect though it was stopped; Forager's session *)
(* and the gateway, which may end the run at any time; the registry.       *)
(***************************************************************************)
EXTENDS FiniteSets, Naturals, Sequences

CONSTANTS Jobs,     \* what a prebuild may build, see JobType
          None

Folder == {"definition", "repository", "outside"}
(* A path of the definition: the folder it is written under, and the one    *)
(* that its links lead to.                                                  *)
PathType == [written : Folder, leads : Folder]

(* What an image inherits: from the features, from the image it starts      *)
(* from, and from the Dockerfile's own instructions.                        *)
Part == {"features", "base", "file"}

(* What the build refuses of the configuration as it is written.            *)
Fault == {"compose", "options", "legacy", "cache", "no image", "host variable", "host access", "frontend", "environment"}

(* A stage of the Dockerfile: its name, and what its FROM names, a stage,   *)
(* an image, scratch or a variable that has no value.                       *)
StageType == [name : STRING, from : STRING]

(* What an entry of a configuration file of git in the repository holds.    *)
GitType == {"header", "helper", "password", "token", "ssh user", "include", "nothing"}

JobType ==
  [machine : {"walled", "bare", "keyed"},   \* forager.yaml's wall of a prebuild, or an access key
   valid : BOOLEAN,                         \* the run code's documents fit
   policy : BOOLEAN,                        \* it has the server's policy
   pulled : {"none", "fine", "asks", "widens", "missing"}, \* its environment_image
   standard : BOOLEAN,                      \* its image is one of the registry's shared/
   configuration : {"none", "read", "unread"}, faults : SUBSET Fault,
   odd : BOOLEAN,                           \* the repository has a file of an odd kind
   git : SUBSET GitType, folder : {"none", "folder", "inside", "outside"}, \* where .git leads
   stages : Seq(StageType), target : STRING,
   index : 0 .. 2,                          \* the images of its platform that the push stored
   file : PathType \cup {None}, context : PathType \cup {None}, feature : PathType \cup {None},
   variable : BOOLEAN,                      \* a feature's option has a variable of the host
   asks : SUBSET Part, widens : SUBSET Part,
   home : {"fits", "relative", "in the tree"},
   occupied : {"nobody", "image", "commands"}, \* who puts something at the reserved paths
   big : BOOLEAN]

ASSUME JobsAssumption == Jobs \subseteq JobType /\ None \notin PathType \cup {"refused", "missing"}

VARIABLES
  job,
  launch,    \* the next step of Launch
  opened,    \* the run is open at the gateway: "no", "yes" or "ended"
  out,       \* the outcome that Launch closes the run with
  failed,    \* Launch returns an error
  fetched,   \* the fetch ended well
  closed,    \* the outcomes it was closed with
  reported,  \* dev.qory.run.built was written
  owed,      \* events that the gateway did not get when the run was closed
  dir,       \* the run directory is there
  ends,      \* the contexts that ended: "stop", "fetch", "term" or "limit"
  step,      \* the next step of the process behind the wall
  base,      \* the base image that the build found
  engine,    \* what the build made on the nested Docker, "tmp" included
  tracked,   \* what the build removes at its end
  err,       \* how the build failed
  result,    \* the result's file
  registry   \* the images that the registry got

outside == <<launch, opened, out, failed, fetched, closed, reported, owed, dir>>
inside == <<step, base, engine, tracked, err, result, registry>>
vars == <<job, outside, ends, inside>>

-----------------------------------------------------------------------------
(* What the build does with the definition.                                 *)

(* inside: as written, and with its links followed.                         *)
In(folders, p) == p.written \in folders /\ p.leads \in folders
Given(p) == p # None
InRepository(p) == In({"definition", "repository"}, p)
inDefinition(p) == In({"definition"}, p)

Finds == job.configuration # "none"
Parses == job.configuration = "read"
Loads == Finds /\ Parses

(* confine takes the Dockerfile and the context only in the repository; a   *)
(* context left out is the Dockerfile's folder.                             *)
Context == IF Given(job.context) THEN job.context ELSE job.file
confine == /\ Given(job.file) => InRepository(job.file)
           /\ Given(job.context) => InRepository(job.context)

checkMembers == job.faults \cap {"compose", "options", "legacy", "no image"} = {}
Expands == "host variable" \notin job.faults
Narrow == "environment" \notin job.faults       \* no variable that widens what the agent does
checkCacheFrom == "cache" \notin job.faults
CheckHostAccess == "host access" \notin job.faults
checkFrontend == "frontend" \notin job.faults
checkTree == ~job.odd

(* gitConfigs: .git, or the folder that it leads to in the repository, which*)
(* the image takes; one outside is not taken, and not looked in.            *)
gitFolder == job.folder \in {"folder", "inside"}
gitConfigs == IF gitFolder THEN job.git ELSE {}
gitCredential(e) == e \in {"header", "helper", "password", "token", "include"}

(* dockerfileBase: the image that the target, or the last stage, starts from*)
(* along the stages before it.                                              *)
Stages == DOMAIN job.stages
Named(name, before) == {i \in 1 .. before : job.stages[i].name = name}
First(is) == CHOOSE i \in is : \A j \in is : i <= j
EndsAt(from) == from \in {"scratch", "variable"}
startOf[i \in 0 .. Len(job.stages)] ==
  IF i = 0 THEN None
  ELSE LET from == job.stages[i].from
       IN IF EndsAt(from) THEN None
          ELSE IF Named(from, i - 1) = {} THEN from
          ELSE startOf[First(Named(from, i - 1))]
dockerfileBase ==
  IF job.target = "" THEN startOf[Len(job.stages)]
  ELSE IF Named(job.target, Len(job.stages)) = {} THEN None
  ELSE startOf[First(Named(job.target, Len(job.stages)))]

baseRef == IF Given(job.file) THEN dockerfileBase ELSE "image"

(* asks: what the merged configuration shows, and what the label of the     *)
(* built image shows, which has the Dockerfile's own as well.               *)
asksMerged == job.asks \cap {"features", "base"} # {}
checkLabel == job.asks = {} /\ job.widens = {}
checkPulled == job.pulled \notin {"asks", "widens"}

(* What the target step starts from: the documents' environment image, else *)
(* a standard image that is the definition's, with nothing to build on it,  *)
(* else what the environment step builds.                                   *)
HasFeatures == Given(job.feature) \/ job.variable \/ "features" \in job.asks \cup job.widens
fromStandard == job.standard /\ ~Given(job.file) /\ ~HasFeatures
Starts == IF job.pulled # "none" THEN "pull" ELSE IF fromStandard THEN "standard" ELSE "merged"

(* chooseSource: whether the environment image depends on the definition's  *)
(* bytes alone.                                                             *)
chooseAsWritten ==                         \* mutant: links are not followed
  /\ ~job.variable
  /\ Given(job.feature) => job.feature.written = "definition"
  /\ Given(job.file) => job.file.written = "definition" /\ Context.written = "definition"

chooseSource ==
  /\ ~job.variable
  /\ Given(job.feature) => inDefinition(job.feature)
  /\ Given(job.file) => inDefinition(job.file) /\ inDefinition(Context)

(* Seed: the reserved paths are looked at before the commands and after     *)
(* them, and a HOME that the tree would take is refused.                    *)
inTree == job.home # "fits"
SeedsOnce == job.occupied # "image" /\ ~inTree       \* mutant
Seed == job.occupied = "nobody" /\ ~inTree

-----------------------------------------------------------------------------
(* The build behind the wall.                                               *)

Building == {"check", "tmp", "git", "config", "docker", "proxies", "programs", "pull", "standard", "merged", "resolve",
             "base", "keep", "agent", "create", "copy", "seed", "commit", "final", "clean"}
BuildOver == ends \cap {"term", "limit"} # {}
Fail(why) == step' = "clean" /\ err' = why

(* Mutant: what a command makes is noted once the command ended well.       *)
ProgramThenTracks(at, to, makes, why) ==
  /\ step = at
  /\ \/ /\ ~BuildOver /\ engine' = engine \cup makes /\ tracked' = tracked \cup makes
        /\ IF why = None THEN step' = to /\ UNCHANGED err ELSE Fail(why)
     \/ /\ Fail(IF BuildOver THEN "ended" ELSE "failed")
        /\ UNCHANGED tracked
        /\ \E made \in {{}, makes} : engine' = engine \cup made
  /\ UNCHANGED <<job, outside, ends, base, result, registry>>

(* engine.run: what the command makes is noted before it starts.  A command *)
(* whose context ended failed, whatever it did; why is the refusal of what  *)
(* it showed.                                                               *)
Program(at, to, makes, why) ==
  /\ step = at
  /\ tracked' = tracked \cup makes
  /\ \/ /\ ~BuildOver /\ engine' = engine \cup makes
        /\ IF why = None THEN step' = to /\ UNCHANGED err ELSE Fail(why)
     \/ /\ Fail(IF BuildOver THEN "ended" ELSE "failed")
        /\ \E made \in {{}, makes} : engine' = engine \cup made
  /\ UNCHANGED <<job, outside, ends, base, result, registry>>

RefusedIf(condition) == IF condition THEN "refused" ELSE None

checkConfig ==
  /\ step = "check"
  /\ IF Loads /\ checkMembers /\ checkCacheFrom /\ Expands /\ CheckHostAccess /\ confine /\ checkFrontend
          /\ Narrow /\ checkTree
       THEN step' = "tmp" /\ UNCHANGED err
       ELSE Fail("refused")
  /\ UNCHANGED <<job, outside, ends, base, engine, tracked, result, registry>>

MakesTmp ==
  /\ step = "tmp"
  /\ \/ step' = "git" /\ engine' = engine \cup {"tmp"} /\ tracked' = tracked \cup {"tmp"} /\ UNCHANGED err
     \/ Fail("failed") /\ UNCHANGED <<engine, tracked>>
  /\ UNCHANGED <<job, outside, ends, base, result, registry>>

checkGitConfig ==
  Program("git", "config", {}, RefusedIf(\E e \in gitConfigs : gitCredential(e)))

(* What the temporary folder gets: the definition moved there, a docker     *)
(* configuration without a login, and the wall's proxies.                   *)
Prepares(at, to) ==
  /\ step = at
  /\ \/ step' = to /\ UNCHANGED err
     \/ Fail("failed")
  /\ UNCHANGED <<job, outside, ends, base, engine, tracked, result, registry>>

writeConfig == Prepares("config", "docker")
dockerConfig == Prepares("docker", "proxies")
wallProxies == Prepares("proxies", "programs")

checkPrograms == Program("programs", Starts, {}, None)
imageMissing == job.pulled = "missing"
takePulled == Program("pull", "agent", {}, IF imageMissing THEN "missing" ELSE RefusedIf(~checkPulled))

(* A standard image is checked as a built one, and is the base reported; one*)
(* its registry does not have is a failure as any other.                    *)
takeStandard ==
  /\ step = "standard"
  /\ \/ ~BuildOver /\ checkLabel /\ step' = "agent" /\ base' = baseRef /\ UNCHANGED err
     \/ /\ \E why \in {"failed"} \cup (IF checkLabel THEN {} ELSE {"refused"}) : Fail(IF BuildOver THEN "ended" ELSE why)
        /\ UNCHANGED base
  /\ UNCHANGED <<job, outside, ends, engine, tracked, result, registry>>

checkMerged == Program("merged", "resolve", {}, RefusedIf(asksMerged))

(* resolveBase pulls nothing for an image that it cannot tell.              *)
resolveBase ==
  /\ step = "resolve"
  /\ \/ /\ baseRef = None \/ ~BuildOver
        /\ step' = "base" /\ base' = baseRef /\ UNCHANGED err
     \/ /\ baseRef # None
        /\ Fail(IF BuildOver THEN "ended" ELSE "failed") /\ UNCHANGED base
  /\ UNCHANGED <<job, outside, ends, engine, tracked, result, registry>>

buildBase == Program("base", IF chooseSource THEN "keep" ELSE "agent", {"base"}, RefusedIf(~checkLabel))
keepEnvironment == Program("keep", "agent", {"environment"}, None)
dockerBuild(at, to, makes) == Program(at, to, makes, None)
addAgent == dockerBuild("agent", "create", {"top"})
createContainer == Program("create", "copy", {"container"}, None)
writeTree == Program("copy", "seed", {}, None)
runCommands == Program("seed", "commit", {}, RefusedIf(~Seed))
commitContainer == Program("commit", "final", {"seeded"}, None)

(* finish: the target, and the environment image that the build keeps       *)
(* apart, are the caller's from here on.                                    *)
finish ==
  /\ step = "final"
  /\ \/ /\ ~BuildOver /\ ~job.big /\ step' = "clean" /\ err' = "built"
        /\ engine' = engine \cup {"target"} /\ tracked' = tracked \ {"environment"}
     \/ /\ Fail(IF BuildOver THEN "ended" ELSE IF job.big THEN "refused" ELSE "failed")
        /\ tracked' = tracked \cup {"target"}
        /\ \E made \in {{}, {"target"}} : engine' = engine \cup made
  /\ UNCHANGED <<job, outside, ends, base, result, registry>>

(* clean runs whether or not the context ended, each command of it for two  *)
(* minutes at most; what a command fails to remove stays.                   *)
clean ==
  /\ step = "clean"
  /\ \E stays \in {{}, {"container"}, tracked \ {"tmp"}} : engine' = engine \ (tracked \ stays)
  /\ tracked' = tracked \cap engine'
  /\ step' = "built"
  /\ UNCHANGED <<job, outside, ends, base, err, result, registry>>

-----------------------------------------------------------------------------
(* The rest of the step: RunStep and its result.                            *)

Failure(missing, at) ==
  [error |-> TRUE, missing |-> missing, stopped |-> IF "term" \in ends THEN at ELSE "", environment |-> FALSE, base |-> None]

(* writeResult: a file that cannot be written leaves none.                  *)
Writes(res) == step' = "exited" /\ result' \in {res, None}

(* Build returns ErrLimit or ErrStopped for a failure once its context      *)
(* ended, also in the clean-up after another failure.                       *)
Kept == "environment" \in engine /\ "environment" \notin tracked
BuildReturns ==
  /\ step = "built"
  /\ IF "term" \notin ends /\ err = "built"
       THEN step' = (IF Kept THEN "push environment" ELSE "push target") /\ UNCHANGED result
       ELSE Writes(Failure(err = "missing" /\ ~BuildOver, "build"))
  /\ UNCHANGED <<job, outside, ends, base, engine, tracked, err, registry>>

(* A push that was stopped may have stored its image.                       *)
Pushes(at, image, to) ==
  /\ step = at
  /\ \/ /\ "term" \notin ends
        /\ registry' = registry \cup {image} /\ step' = to /\ UNCHANGED result
     \/ /\ registry' \in {registry, registry \cup {image}}
        /\ Writes(Failure(FALSE, "push"))
  /\ UNCHANGED <<job, outside, ends, base, engine, tracked, err>>

(* An image is read back, by its one digest and the one manifest of its     *)
(* platform.                                                                *)
readManifest == job.index = 1
ReadsBack(at, after) ==
  /\ step = at
  /\ \/ "term" \notin ends /\ readManifest /\ after
     \/ Writes(Failure(FALSE, "push"))
  /\ UNCHANGED <<job, outside, ends, base, engine, tracked, err, registry>>

pushEnvironment == Pushes("push environment", "environment", "digest")
digest == ReadsBack("digest", step' = "push target" /\ UNCHANGED result)
pushTarget == Pushes("push target", "target", "stored")
stored ==
  ReadsBack("stored",
    Writes([error |-> FALSE, missing |-> FALSE, stopped |-> "", environment |-> Kept, base |-> base]))

Stopped == "stop" \in ends
InStep == step \notin {"none", "exited", "dead"}

(* The session sends SIGTERM when Launch's context ended or the run was     *)
(* ended, and kills the step a while later; the wall may fail at any time.  *)
Terminate ==
  /\ InStep /\ (Stopped \/ opened = "ended")
  /\ "term" \notin ends
  /\ ends' = ends \cup {"term"}
  /\ UNCHANGED <<job, outside, inside>>

Dies ==
  /\ InStep
  /\ step' = "dead"
  /\ UNCHANGED <<job, outside, ends, base, engine, tracked, err, result, registry>>

Limit ==
  /\ step \in Building /\ "limit" \notin ends
  /\ ends' = ends \cup {"limit"}
  /\ UNCHANGED <<job, outside, inside>>

-----------------------------------------------------------------------------
(* Launch.                                                                  *)

Outcome(state, reason) == [state |-> state, reason |-> reason]
Interrupted == Outcome("cancelled", "interrupted")
LaunchFails(to) == launch' = to /\ failed' = TRUE

prebuildKeyed == job.machine = "keyed"
runCodePrebuild ==
  /\ launch = "settings"
  /\ IF ~prebuildKeyed /\ job.machine # "bare" THEN launch' = "check" /\ UNCHANGED failed ELSE LaunchFails("over")
  /\ UNCHANGED <<job, opened, out, fetched, closed, reported, owed, dir, ends, inside>>

checkRun ==
  /\ launch = "check"
  /\ IF job.valid THEN launch' = "dir" /\ UNCHANGED failed ELSE LaunchFails("over")
  /\ UNCHANGED <<job, opened, out, fetched, closed, reported, owed, dir, ends, inside>>

makeDir ==
  /\ launch = "dir"
  /\ \/ ~Stopped /\ dir' = TRUE /\ launch' = "open" /\ UNCHANGED failed
     \/ dir' = TRUE /\ LaunchFails("remove")
     \/ dir' = FALSE /\ LaunchFails("over")
  /\ UNCHANGED <<job, opened, out, fetched, closed, reported, owed, ends, inside>>

Opens ==
  /\ launch = "open"
  /\ \/ opened' = "yes" /\ launch' = "policy" /\ UNCHANGED failed
     \/ opened' = "no" /\ LaunchFails("remove")
  /\ UNCHANGED <<job, out, fetched, closed, reported, owed, dir, ends, inside>>

(* The machine step is written, then the policy is read from the record.    *)
checkPolicy ==
  /\ launch = "policy"
  /\ IF job.policy THEN launch' = "fetch" /\ UNCHANGED failed ELSE LaunchFails("close")
  /\ UNCHANGED <<job, opened, out, fetched, closed, reported, owed, dir, ends, inside>>

(* The cause of the fetch's context is what ended it first.                 *)
fetch ==
  /\ launch = "fetch"
  /\ \/ launch' = "commit" /\ fetched' = TRUE /\ UNCHANGED <<failed, out>>
     \/ /\ LaunchFails("close") /\ UNCHANGED fetched
        /\ out' = IF "fetch" \in ends THEN Outcome("cancelled", "timeout")
                  ELSE IF Stopped THEN Interrupted ELSE out
  /\ UNCHANGED <<job, opened, closed, reported, owed, dir, ends, inside>>

FetchLimit ==
  /\ launch \in {"open", "policy", "fetch"} /\ ends = {}
  /\ ends' = {"fetch"}
  /\ UNCHANGED <<job, outside, inside>>

(* Commit reads the fetch's HEAD, of this run's fetch alone.                *)
Commit ==
  /\ launch = "commit"
  /\ \/ launch' = "step" /\ UNCHANGED failed
     \/ LaunchFails("close")
  /\ UNCHANGED <<job, opened, out, fetched, closed, reported, owed, dir, ends, inside>>

(* One session runs the step, with an empty folder for its result; a wall   *)
(* that cannot be put up, or a run that ended, has none.                    *)
Joins ==
  /\ launch = "step"
  /\ \/ opened = "yes" /\ launch' = "join" /\ step' = "check" /\ UNCHANGED failed
     \/ LaunchFails("close") /\ UNCHANGED step
  /\ UNCHANGED <<job, opened, out, fetched, closed, reported, owed, dir, ends, base, engine, tracked, err, result, registry>>

(* step of Launch, with readResult and checkResult: Join returns once the   *)
(* step exited, or was killed.                                              *)
StepEnded == step \in {"exited", "dead"}

readResult == result # None /\ ~result.error
readsResult ==
  /\ launch = "join" /\ StepEnded
  /\ IF ~Stopped /\ step = "exited" /\ readResult
       THEN launch' = "report" /\ UNCHANGED <<failed, out>>
       ELSE /\ LaunchFails("close")
            /\ out' = IF ~Stopped /\ result # None /\ result.missing
                        THEN Outcome("failed", "image_missing") ELSE out
  /\ UNCHANGED <<job, opened, fetched, closed, reported, owed, dir, ends, inside>>

Built ==
  /\ launch = "report"
  /\ \/ reported' = TRUE /\ out' = Outcome("succeeded", "") /\ launch' = "close" /\ UNCHANGED failed
     \/ LaunchFails("close") /\ UNCHANGED <<reported, out>>
  /\ UNCHANGED <<job, opened, fetched, closed, owed, dir, ends, inside>>

closesWith == IF fetched /\ failed /\ Stopped THEN Interrupted ELSE out

(* The end of the run takes the wall with it, and the nested Docker.        *)
closeRun ==
  /\ launch = "close"
  /\ closed' = closed \cup {closesWith}
  /\ owed' \in BOOLEAN
  /\ failed' = (failed \/ owed' \/ opened = "ended")
  /\ launch' = IF owed' /\ opened # "ended" THEN "over" ELSE "remove"
  /\ engine' = {}
  /\ UNCHANGED <<job, opened, out, fetched, reported, dir, ends, step, base, tracked, err, result, registry>>

removeDir ==
  /\ launch = "remove"
  /\ dir' = FALSE /\ launch' = "over"
  /\ UNCHANGED <<job, opened, out, failed, fetched, closed, reported, owed, ends, inside>>

(* Outside: a signal or the end of the claim, and the end by the gateway.   *)
Stop ==
  /\ launch # "over" /\ ~Stopped
  /\ ends' = ends \cup {"stop"}
  /\ UNCHANGED <<job, outside, inside>>

GatewayEnds ==
  /\ opened = "yes" /\ closed = {}
  /\ opened' = "ended"
  /\ UNCHANGED <<job, launch, out, failed, fetched, closed, reported, owed, dir, ends, inside>>

-----------------------------------------------------------------------------
Init ==
  /\ job \in Jobs
  /\ launch = "settings" /\ opened = "no" /\ out = Outcome("failed", "") /\ failed = FALSE /\ fetched = FALSE
  /\ closed = {} /\ reported = FALSE /\ owed = FALSE /\ dir = FALSE /\ ends = {}
  /\ step = "none" /\ base = None /\ engine = {} /\ tracked = {} /\ err = "none" /\ result = None /\ registry = {}

Build ==
  \/ checkConfig \/ MakesTmp \/ checkGitConfig \/ writeConfig \/ dockerConfig \/ wallProxies \/ checkPrograms \/ takePulled
  \/ takeStandard \/ checkMerged \/ resolveBase \/ buildBase \/ keepEnvironment \/ addAgent \/ createContainer
  \/ writeTree \/ runCommands \/ commitContainer \/ finish \/ clean

RunStep == Build \/ BuildReturns \/ pushEnvironment \/ digest \/ pushTarget \/ stored

Launch ==
  \/ runCodePrebuild \/ checkRun \/ makeDir \/ Opens \/ checkPolicy \/ fetch \/ Commit \/ Joins \/ readsResult
  \/ Built \/ closeRun \/ removeDir

Next == RunStep \/ Terminate \/ Dies \/ Limit \/ Launch \/ FetchLimit \/ Stop \/ GatewayEnds

(* A program ends once its context did, by SIGKILL if need be, and until    *)
(* then it may hang, as may the open and the fetch; the clean-up and what   *)
(* Launch does by itself go on.  A session that was stopped ends its step.  *)
Fairness ==
  /\ WF_vars(BuildOver /\ Build)
  /\ WF_vars(clean \/ BuildReturns)
  /\ WF_vars("term" \in ends /\ RunStep)
  /\ WF_vars(Limit) /\ WF_vars(FetchLimit) /\ WF_vars(Terminate)
  /\ WF_vars((Stopped \/ opened = "ended") /\ Dies)
  /\ WF_vars(runCodePrebuild \/ checkRun \/ checkPolicy \/ Commit \/ Joins \/ readsResult \/ Built \/ closeRun \/ removeDir)
  /\ WF_vars(ends # {} /\ (makeDir \/ Opens \/ fetch))

Spec == Init /\ [][Next]_vars /\ Fairness

-----------------------------------------------------------------------------
(* Properties.                                                              *)

(* The base image that is reported is one that the target, or the last      *)
(* stage, comes from: it is among the ends of every set of stages that has  *)
(* the target and the stages that its members start from.                   *)
Target == {i \in Stages : IF job.target = "" THEN i = Len(job.stages) ELSE job.stages[i].name = job.target}
Earlier(i) == {j \in 1 .. i - 1 : job.stages[j].name = job.stages[i].from}
BaseIsTheTargets ==
  result.base # None /\ Given(job.file) =>
    \A R \in SUBSET Stages :
      Target \subseteq R /\ (\A i \in R : Earlier(i) \subseteq R) =>
        \E i \in R : Earlier(i) = {} /\ job.stages[i].from = result.base

(* What Launch reports to Qory Apiary is an image that the registry got,    *)
(* that asks for no access to the host and changes nothing that the agent   *)
(* does, whichever part of its definition, base image, features, Dockerfile *)
(* or environment image, could have brought it, that has no password of     *)
(* git, and nothing at the paths a run mounts or Claude Code reads first;   *)
(* and the base image reported beside it is the target's.                   *)
ReportedIsChecked ==
  reported =>
    /\ "target" \in registry
    /\ IF job.pulled = "none" THEN job.asks = {} /\ job.widens = {} ELSE job.pulled = "fine"
    /\ job.faults = {} /\ ~job.odd
    /\ job.folder \in {"none", "outside"} \/ job.git \subseteq {"ssh user", "nothing"}
    /\ job.occupied = "nobody"
    /\ BaseIsTheTargets

(* An environment image that the registry got for other targets was built   *)
(* from the definition's own folder alone: nothing of it leads elsewhere in *)
(* the repository, through a link either, or depends on the host.           *)
SharedFitsAll ==
  "environment" \in registry =>
    /\ ~job.variable
    /\ \A p \in {job.feature} \cup (IF Given(job.file) THEN {job.file, Context} ELSE {}) :
         Given(p) => p.leads = "definition"

(* Once the build returned, the engine has nothing of it but what it could  *)
(* not remove, and the images that it built well: no image, container or    *)
(* folder of a command that failed, or that its context ended, although it  *)
(* may have had its effect.                                                 *)
NothingLeft ==
  step \notin Building \cup {"none", "dead"} =>
    engine \subseteq tracked \cup (IF err = "built" THEN {"target", "environment"} ELSE {})

(* A run that opened is closed once, as it went: succeeded when and only    *)
(* when the images were reported, as interrupted only when Launch was       *)
(* stopped, at the time limit only for the fetch, and as one whose          *)
(* environment image is missing only when its build found that.  Its        *)
(* directory stays for the events that are still to be sent.                *)
ClosesAsItWent ==
  /\ Cardinality(closed) <= 1
  /\ \A o \in closed :
       /\ (o.state = "succeeded") = reported
       /\ o.reason = "interrupted" => Stopped
       /\ o.reason = "timeout" => "fetch" \in ends /\ registry = {} /\ step = "none"
       /\ o.reason = "image_missing" => job.pulled = "missing" /\ registry = {}
  /\ launch = "over" => /\ (opened # "no") = (closed # {})
                        /\ dir = (owed /\ opened # "ended")

(* How a prebuild ends: with nothing left on the machine, and its run       *)
(* closed as it went.                                                       *)
EndsClean == NothingLeft /\ ClosesAsItWent
=============================================================================
