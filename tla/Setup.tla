------------------------------- MODULE Setup --------------------------------
(***************************************************************************)
(* The setup of a walled run, in a container of its image: qory run prepare *)
(* adds the image's copy of the repository to the working folder and runs  *)
(* the start commands of the repository's configuration, with a file that  *)
(* it copies to the step's output; qory run agent-env then makes the       *)
(* agent's home and starts the agent on its variables.  A program that a   *)
(* command leaves running goes on beside all of it.                        *)
(*                                                                         *)
(* A tree is a function from paths, with every folder above one, to [kind, *)
(* of]: what the entry is, and whether it is the commit's or the copy's.   *)
(* A variable's name stands for its class.  Modes, times, the text of the  *)
(* configuration and of its commands (Prebuild), and failures of single    *)
(* calls that end the setup the same way are left out.                     *)
(***************************************************************************)
EXTENDS Naturals, Sequences, FiniteSets

CONSTANTS Places,     \* where the configuration is looked for, in order
          notCopied,  \* the names at the top of the copy that stay there
          Cases,      \* the commits, copies and containers a setup may start with
          MaxLines    \* how much the commands and what they leave running write

(* A tree has every folder above an entry; the entries of the commit are   *)
(* its own.                                                                *)
Prefixes(p) == {SubSeq(p, 1, n) : n \in 1..(Len(p) - 1)}
Paths == Seq(STRING) \ {<<>>}
TreeOf(tree) ==
  /\ DOMAIN tree \subseteq Paths
  /\ \A p \in DOMAIN tree : \A q \in Prefixes(p) : q \in DOMAIN tree /\ tree[q].kind = "dir"
SetupAssumption ==
  \A s \in Cases :
    /\ TreeOf(s.seed.tree) /\ TreeOf(s.commit) /\ s.removed \subseteq Paths
    /\ \A p \in DOMAIN s.commit : s.commit[p].of = "commit"
    /\ s.imageValue \in {"image", "placeholder"}
    /\ s.managed \in BOOLEAN /\ s.linkAbove \in BOOLEAN /\ s.authority \in BOOLEAN

VARIABLES
  setup,      \* one of Cases
  working, toAdd,   \* the working folder; the copy's entries to add, <<path, how>>
  config,     \* the place whose commands run
  service,    \* a command left a program running
  written, end, reader, copied, done,   \* the file of the output, and its reader
  home,       \* the agent's home in the agent's container
  keeps,      \* the file of the names the agent keeps
  env,        \* name -> whose value the agent has
  stage

copy == <<working, toAdd>>
log == <<written, end, reader, copied, done>>
agent == <<home, keeps, env>>
vars == <<setup, copy, config, service, log, agent, stage>>

Front(p) == SubSeq(p, 1, Len(p) - 1)
Below(p, q) == Len(q) > Len(p) /\ SubSeq(q, 1, Len(p)) = p
Children(tree, p) == {q \in DOMAIN tree : q # <<>> /\ Front(q) = p}
Fails == stage' = "failed"

-----------------------------------------------------------------------------
(* The image's copy.                                                       *)
seed == setup.seed
(* fromSeed takes a folder with a .git of the run's repository.            *)
checkOrigin(s) == s.origins = {"run"}
TakesSeed(s) == s.kind = "dir" /\ s.git /\ checkOrigin(s)
Prepare ==
  /\ stage = "prepare"
  /\ IF seed.kind = "none" THEN stage' = "config" /\ toAdd' = {}
     ELSE IF TakesSeed(seed)
     THEN stage' = "add" /\ toAdd' = {<<p, "add">> : p \in {q \in Children(seed.tree, <<>>) : q[1] \notin notCopied}}
     ELSE Fails /\ toAdd' = {}
  /\ UNCHANGED <<setup, working, config, service, log, agent>>

(* removedByBranch: the files of the target version the commit has no more.*)
removed == setup.removed
(* Not the code: a folder the commit does not have is copied whole.        *)
HoldsNone(p) == FALSE
holdsRemoved(p) == \E q \in removed : Below(p, q)

Put(p) == working' = [q \in DOMAIN working \cup {p} |-> IF q = p THEN seed.tree[p] ELSE working[q]]
Then(e, how) ==
  toAdd' = (toAdd \ {e}) \cup (IF seed.tree[e[1]].kind = "dir" THEN {<<q, how>> : q \in Children(seed.tree, e[1])} ELSE {})

(* copyEntry: a new entry; a folder with all it holds.                     *)
copyEntry(e) ==
  IF seed.tree[e[1]].kind = "other" THEN Fails /\ UNCHANGED <<working, toAdd>>
  ELSE Put(e[1]) /\ Then(e, "copy") /\ UNCHANGED stage
(* addTree: what dir has stays; folders on both sides are gone through, and *)
(* a folder above a removed file is made without it.                       *)
addTree(e) ==
  IF e[1] \in removed THEN toAdd' = toAdd \ {e} /\ UNCHANGED <<working, stage>>
  ELSE IF e[1] \notin DOMAIN working
  THEN IF seed.tree[e[1]].kind = "dir" /\ holdsRemoved(e[1])
       THEN Put(e[1]) /\ Then(e, "add") /\ UNCHANGED stage
       ELSE copyEntry(e)
  ELSE /\ UNCHANGED <<working, stage>>
       /\ IF working[e[1]].kind = "dir" /\ seed.tree[e[1]].kind = "dir" THEN Then(e, "add") ELSE toAdd' = toAdd \ {e}
copySeed ==
  /\ stage = "add"
  /\ IF toAdd = {} THEN stage' = "config" /\ UNCHANGED <<working, toAdd>>
     ELSE \E e \in toAdd : IF e[2] = "copy" THEN copyEntry(e) ELSE addTree(e)
  /\ UNCHANGED <<setup, config, service, log, agent>>

-----------------------------------------------------------------------------
(* The start commands, of the commit's configuration.                      *)
Has(tree, p) == p \in DOMAIN tree
(* trackedFile: "" for none, "no" where a link or another kind is on the way. *)
trackedFile(tree, p) ==
  IF \E n \in 1..Len(p) : LET q == SubSeq(p, 1, n) IN
       Has(tree, q) /\ tree[q].kind # (IF n = Len(p) THEN "file" ELSE "dir")
  THEN "no" ELSE IF Has(tree, p) THEN "file" ELSE ""
ConfigTree == setup.commit
trackedConfig == {i \in DOMAIN Places : trackedFile(ConfigTree, Places[i]) # ""}
First(s) == CHOOSE i \in s : \A k \in s : i <= k
ReadsConfig ==
  /\ stage = "config"
  /\ IF trackedConfig = {} THEN stage' = "ended" /\ UNCHANGED config
     ELSE LET p == Places[First(trackedConfig)] IN
       IF trackedFile(ConfigTree, p) = "file" THEN stage' = "commands" /\ config' = <<p, ConfigTree[p].of>>
       ELSE Fails /\ UNCHANGED config
  /\ UNCHANGED <<setup, copy, service, log, agent>>

(* A command writes, makes what it likes, leaves a program, and ends.      *)
CommandWrites ==
  /\ stage = "commands" \/ service
  /\ written < MaxLines /\ written' = written + 1
  /\ UNCHANGED <<setup, copy, config, service, end, reader, copied, done, agent, stage>>
LeavesService ==
  /\ stage = "commands" /\ ~service /\ service' = TRUE
  /\ UNCHANGED <<setup, copy, config, log, agent, stage>>
InAgents == setup.inside
When == IF stage \in {"env", "agent"} THEN "after" ELSE "before"
ProgramsPut ==
  /\ InAgents /\ (stage = "commands" \/ service) /\ stage # "failed" /\ home.holds = "nothing"
  /\ home' \in {[is |-> "dir", holds |-> "nothing"], [is |-> "dir", holds |-> When], [is |-> "link", holds |-> When]}
  /\ UNCHANGED <<setup, copy, config, service, log, keeps, env, stage>>
CommandsEnd ==
  /\ stage = "commands" /\ stage' = "ended"
  /\ UNCHANGED <<setup, copy, config, service, log, agent>>

(* StartLogged: a goroutine copies the file as it grows, until it finds    *)
(* nothing new and the commands have ended; the rest is copied after it.   *)
Reads ==
  /\ reader = "reads" /\ stage \notin {"prepare", "add"}
  /\ IF copied < written THEN \E n \in (copied + 1)..written : copied' = n /\ UNCHANGED reader
     ELSE reader' = "empty" /\ UNCHANGED copied
  /\ UNCHANGED <<setup, copy, config, service, written, end, done, agent, stage>>
SeesDone ==
  /\ reader = "empty" /\ reader' = IF done THEN "ended" ELSE "reads"
  /\ UNCHANGED <<setup, copy, config, service, written, end, copied, done, agent, stage>>
ClosesDone ==
  /\ stage = "ended" /\ ~done /\ done' = TRUE /\ end' = written
  /\ UNCHANGED <<setup, copy, config, service, written, reader, copied, agent, stage>>
Rest == IF copied < end THEN end ELSE copied
StartLogged ==
  /\ stage = "ended" /\ done /\ reader = "ended"
  /\ copied' = Rest /\ stage' = "prepared"
  /\ UNCHANGED <<setup, copy, config, service, written, end, reader, done, agent>>

-----------------------------------------------------------------------------
(* The agent: its variables and its home.                                  *)
Placeholder == "placeholder"
Dropped(n) == n \in {"prefixed", "prefixed2", "named", "proxy", "ca"}
prefixed(n) == n \in {"prefixed", "prefixed2"}
keptNames == {"proxy"}
(* What Forager sets in the agent's container: the wall's, the authority's *)
(* variables of a run that has one, the run's as resolved, placeholders.   *)
ForagerSets == {"proxy"} \cup (IF setup.authority THEN {"ca"} ELSE {}) \cup setup.resolved \cup setup.placeholders
Container ==
  [n \in setup.image \cup ForagerSets |->
     IF n \notin ForagerSets THEN setup.imageValue ELSE IF n \in setup.placeholders THEN Placeholder ELSE "run"]

(* wrapAgentEnv writes the names it knows, and once the run's variables are *)
(* resolved, theirs; when that write fails the agent starts without them.  *)
wrapAgentEnv ==
  /\ stage = "prepared" /\ stage' = "home"
  /\ \E ok \in BOOLEAN :
       keeps' = [always |-> keptNames \cup (IF ok THEN setup.resolved ELSE {}), ca |-> {"ca"}, ok |-> ok]
  /\ UNCHANGED <<setup, copy, config, service, log, home, env>>

(* freshFolder: nothing at the path, nor a link above it; a new folder that *)
(* is empty once it is open.                                               *)
ChecksHome ==
  /\ stage = "home"
  /\ stage' = IF setup.managed \/ home.is # "none" \/ setup.linkAbove THEN "failed" ELSE "make"
  /\ UNCHANGED <<setup, copy, config, service, log, agent>>
MakesHome ==
  /\ stage = "make"
  /\ IF home.is # "none" THEN Fails /\ UNCHANGED home
     ELSE stage' = "open" /\ home' = [is |-> "dir", holds |-> "nothing"]
  /\ UNCHANGED <<setup, copy, config, service, log, keeps, env>>
IsEmpty == home.is = "dir" /\ home.holds = "nothing"
freshFolder ==
  /\ stage = "open"
  /\ stage' = IF IsEmpty THEN "env" ELSE "failed"
  /\ UNCHANGED <<setup, copy, config, service, log, agent>>

(* KeepFor and AgentEnv: the authority's names are kept when its bundle is *)
(* mounted.                                                                *)
Mounted == setup.authority
KeepFor == keeps.always \cup (IF Mounted THEN keeps.ca ELSE {})
AgentEnv == {n \in DOMAIN Container : ~Dropped(n) \/ n \in KeepFor \/ (prefixed(n) /\ Container[n] = Placeholder)}
StartsAgent ==
  /\ stage = "env" /\ stage' = "agent"
  /\ env' = [n \in AgentEnv |-> Container[n]]
  /\ UNCHANGED <<setup, copy, config, service, log, home, keeps>>

-----------------------------------------------------------------------------
Init ==
  /\ setup \in Cases
  /\ working = setup.commit /\ toAdd = {} /\ config = <<>> /\ service = FALSE
  /\ written = 0 /\ end = 0 /\ reader = "reads" /\ copied = 0 /\ done = FALSE
  /\ home = [is |-> IF setup.home THEN "dir" ELSE "none", holds |-> IF setup.home THEN "before" ELSE "nothing"]
  /\ keeps = [always |-> {}, ca |-> {}, ok |-> TRUE] /\ env = [n \in {} |-> ""] /\ stage = "prepare"

Next ==
  \/ Prepare \/ copySeed \/ ReadsConfig \/ CommandWrites \/ LeavesService \/ ProgramsPut \/ CommandsEnd
  \/ Reads \/ SeesDone \/ ClosesDone \/ StartLogged
  \/ wrapAgentEnv \/ ChecksHome \/ MakesHome \/ freshFolder \/ StartsAgent

Spec == Init /\ [][Next]_vars

-----------------------------------------------------------------------------
(* The copy fills in and changes nothing: what the commit has stays as it  *)
(* is, a file the branch removed does not come back, nothing of the copy's *)
(* .git and .qory is there, and every other entry of the copy is, unless   *)
(* what the commit has in its way is no folder.                            *)
Fits(p) ==
  /\ p[1] \notin notCopied /\ (Prefixes(p) \cup {p}) \cap removed = {}
  /\ \A q \in Prefixes(p) : q \in DOMAIN setup.commit => setup.commit[q].kind = "dir"
CopyFillsIn ==
  stage = "config" =>
    /\ \A p \in DOMAIN setup.commit : working[p] = setup.commit[p]
    /\ \A p \in DOMAIN working \ DOMAIN setup.commit : seed.kind = "dir" /\ Fits(p) /\ working[p] = seed.tree[p]
    /\ seed.kind = "dir" => \A p \in DOMAIN seed.tree : Fits(p) => p \in DOMAIN working

(* The commands that run are the commit's, though the copy may hold another*)
(* configuration in a place that comes first, and whatever order the       *)
(* programs and the reader go in, the step's output has all that the       *)
(* commands wrote before the setup goes on.                                *)
CommandsOfTheCommit ==
  /\ stage = "commands" => config[2] = "commit"
  /\ stage = "prepared" => copied >= end

(* The agent has the run's values of the variables qory watches, but for a *)
(* gateway's placeholder of a dropped name without a prefix, and no value  *)
(* of the image for one of them, and starts on a home with nothing that was*)
(* put there before qory looked into it.                                   *)
AgentStartsClean ==
  stage = "agent" =>
    /\ \A n \in DOMAIN env : Dropped(n) => env[n] # "image"
    /\ keeps.ok => \A n \in ForagerSets :
         \/ n \in setup.placeholders /\ Dropped(n) /\ ~prefixed(n)
         \/ n \in DOMAIN env /\ env[n] = Container[n]
    /\ ~setup.managed /\ ~setup.linkAbove /\ home.holds # "before" /\ (home.is = "dir" \/ home.holds = "after")

(* All three, of every setup.                                              *)
StartsOnTheCommit == CopyFillsIn /\ CommandsOfTheCommit /\ AgentStartsClean
=============================================================================
