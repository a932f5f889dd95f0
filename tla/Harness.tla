------------------------------ MODULE Harness ------------------------------
(***************************************************************************)
(* The harness of a repository's worktrees on the disk: the composed home  *)
(* and its report under .qory, the links of the checkouts into it, and the *)
(* one exclude file that the worktrees share.  qory harness compose        *)
(* (composeHome and write of cmd/harness.go, internal/render) and qory     *)
(* harness remove run step by step, one at a time in a worktree and beside *)
(* those of the other worktrees, and may be killed between two steps; a    *)
(* person edits the checkouts in between, and the agent of a walled run    *)
(* the home.                                                               *)
(*                                                                         *)
(* What a compose makes of the stack's modules is a set of the checkout    *)
(* paths that it has something for.  git is external.                      *)
(***************************************************************************)
EXTENDS Naturals, Sequences

CONSTANTS Worktrees,
          Requests,    \* the composes: [targets, res, force, links]
          Tracked,     \* [Worktrees -> the paths git tracks there]
          Edited,      \* the paths at which a person writes
          Recorded,    \* the worktrees that are recorded places of walled runs
          MaxCommands, MaxUpsets,  \* an upset is an edit or a kill
          None

Runtimes == {"any", "copilot"}

(* The directories the links go into, and the links' own paths.  A         *)
(* directory's entry is the file or the symlink of the checkout's at it.   *)
Dirs == {".agents/skills", ".github", ".github/agents"}
Leaves == {"AGENTS.md", ".agents/skills/review", ".github/agents/rev", ".github/web", "tools"}
Above(p) == CASE p = ".agents/skills/review" -> {".agents/skills"}
              [] p = ".github/agents/rev" -> {".github", ".github/agents"}
              [] p \in {".github/web", ".github/agents"} -> {".github"}
              [] OTHER -> {}
Under(p) == {l \in Leaves : l = p \/ p \in Above(l)}

(* Links(nil) of a runtime; web is a files entry and tools a module's      *)
(* link.                                                                   *)
Agents == [at |-> ".github/agents", soft |-> TRUE]
Skills == [at |-> ".agents/skills", soft |-> FALSE]
Memory == [at |-> "AGENTS.md", soft |-> TRUE]
Declared(rt) == {Skills, Memory} \cup (IF rt = "copilot" THEN {Agents} ELSE {})
(* The links of files entries, which point into the runtime's directory    *)
(* and which Links(nil) does not have.                                     *)
OfFiles(rt) == IF rt = "copilot" THEN {".github/web"} ELSE {}
DeclaredBy(rt) == UNION {Under(l.at) : l \in Declared(rt)}

Paths == Leaves \cup Dirs \cup {".qory"}
Homes == [rts : SUBSET Runtimes, res : SUBSET Leaves]
Reports == [rts : SUBSET Runtimes, res : SUBSET Leaves, replaced : SUBSET Paths]
Lines == [at : Paths, add : BOOLEAN, read : SUBSET Paths]
Removed == [own : SUBSET Leaves, failed : BOOLEAN]
(* A compose is for some runtime; what git tracks at a path is a file or a *)
(* symlink, so it tracks nothing below it.                                 *)
ASSUME HarnessAssumption ==
  /\ \A req \in Requests : req \in [targets : (SUBSET Runtimes) \ {{}}, res : SUBSET Leaves, force : BOOLEAN, links : BOOLEAN]
  /\ \A w \in Worktrees : Tracked[w] \subseteq Leaves \cup Dirs /\ \A p, q \in Tracked[w] : p \notin Above(q)
  /\ Edited \subseteq Leaves \cup Dirs
  /\ None \notin Homes /\ None \notin Reports /\ None \notin Lines /\ None \notin Removed

VARIABLES
  at,        \* [Worktrees -> [path -> "none", "own" (a link of qory's), "tracked" (as git has it), "theirs"]]
  home,      \* the composed tree: its runtimes and its result, or None
  report,    \* the report beside it: runtimes, result and replaced paths, or None
  exclude,   \* the lines of the exclude file
  proc,      \* the command of each worktree
  tampered,  \* the home and its report are not what the place's record holds
  budget     \* what is left of the commands and of the edits and kills
disk == <<at, home, report, exclude, tampered>>

(* What only the properties read. *)
VARIABLES
  sound,     \* the last compose or remove of the worktree went through
  lost,      \* links and replaced paths that a kill, a failed step, a person or an agent made qory lose track of,
             \* and replaced paths whose git checkout line was printed
  raced,     \* two worktrees had the exclude file read at once
  left       \* the last remove that ran to its end: the own links it left, and whether it failed
history == <<sound, lost, raced, left>>
vars == <<disk, proc, budget, history>>

Idle == [pc |-> "idle", op |-> "none", rt |-> "none", rts |-> {}, req |-> None, was |-> None, prev |-> None, todo |-> <<>>,
         line |-> None, replaced |-> {}, removed |-> {}, failed |-> FALSE]

Occupied(w, p) == at[w][p] \in {"tracked", "theirs"}
(* inside: a directory above the path is a symlink.                        *)
Behind(w, p) == \E d \in Above(p) : Occupied(w, d)
OwnLinks(w) == {l \in Leaves : at[w][l] = "own"}
Composed(w) == IF home[w] = None THEN {} ELSE home[w].rts

(* Whether a link at the leaf leads to something in the home h.            *)
Resolves(h, l) == h # None /\ l \in h.res /\ (l \in {".github/agents/rev", ".github/web"} => "copilot" \in h.rts)
-----------------------------------------------------------------------------
(* The steps of a command, each with the runtime whose links it is about.  *)
Task(do, p, soft, rt) == [do |-> do, at |-> p, soft |-> soft, rt |-> rt]
(* One task for each of the leaves, in the order of a walk.                *)
If(here, t) == IF here THEN <<t>> ELSE <<>>
Each(do, S, soft, rt) ==
  LET At1(l) == If(l \in S, Task(do, l, soft, rt))
  IN At1(".agents/skills/review") \o At1(".github/agents/rev") \o At1(".github/web") \o At1("AGENTS.md") \o At1("tools")
Prunes(S, rt) == Each("prune", S, TRUE, rt)
(* Names: the runtimes in their order.                                     *)
ByName(rts, any, copilot) == (IF "any" \in rts THEN any ELSE <<>>) \o (IF "copilot" \in rts THEN copilot ELSE <<>>)

(* LinkInto for one link: a directory is cleared, its entries that the     *)
(* home has are linked and the others pruned.                              *)
OfLink(l, res, rt) ==
  If(l.at \in Dirs, Task("clear", l.at, l.soft, rt))
    \o Each("link", Under(l.at) \cap res, l.soft, rt) \o Prunes(Under(l.at) \ res, rt)
CurrentLinks(res, rt) ==
  <<Task("line", ".qory", FALSE, rt)>>
    \o (IF rt = "copilot" THEN OfLink(Agents, res, rt) ELSE <<>>) \o OfLink(Skills, res, rt) \o OfLink(Memory, res, rt)
    \o Each("link", OfFiles(rt) \cap res, TRUE, rt)
(* takeBack: links into the runtime's directory of the home, wherever they *)
(* stand below the directories of its links, but those kept.               *)
takeBack(rt, keep) == Prunes((OfFiles(rt) \cup (DeclaredBy(rt) \cap {".github/agents/rev"})) \ keep, rt)
LinkInto(res, rt) == CurrentLinks(res, rt) \o takeBack(rt, res \cup DeclaredBy(rt))
(* The module links: those asked for, then those of the last report that   *)
(* are not asked for any more.                                             *)
LinkModules(res, prev) ==
  IF "tools" \in res THEN <<Task("link", "tools", FALSE, "module")>>
  ELSE IF prev # None /\ "tools" \in prev.res THEN Prunes({"tools"}, "module") ELSE <<>>
(* Unlink: no link that another runtime of the home declares, then what    *)
(* takeBack finds.                                                         *)
UnlinkOf(l, rt, others) ==
  IF \E o \in others : l \in Declared(o) THEN <<>>
  ELSE <<Task("unlink", l.at, l.soft, rt)>> \o Prunes(Under(l.at), rt)
Unlink(rt, others) ==
  (IF rt = "copilot" THEN UnlinkOf(Agents, rt, others) ELSE <<>>) \o UnlinkOf(Skills, rt, others) \o UnlinkOf(Memory, rt, others)
    \o takeBack(rt, {})
unlinkRuntimes == ByName(Runtimes, Unlink("any", {}), Unlink("copilot", {}))
unlinkAll == ByName(Runtimes, Unlink("any", {}), Unlink("copilot", {})) \o Prunes({"tools"}, "module")

(* The runtimes of the compose first, then the others of the home.         *)
LinkEach(res, rts) == ByName(rts, LinkInto(res, "any"), LinkInto(res, "copilot"))
Links(req, all, prev) ==
  IF req.links THEN LinkEach(req.res, req.targets) \o LinkEach(req.res, all \ req.targets) \o LinkModules(req.res, prev)
  ELSE <<Task("line", ".qory", FALSE, "none")>> \o unlinkAll
-----------------------------------------------------------------------------
Init ==
  /\ at = [w \in Worktrees |-> [p \in Leaves \cup Dirs \cup {".qory"} |-> IF p \in Tracked[w] THEN "tracked" ELSE "none"]]
  /\ home = [w \in Worktrees |-> None] /\ report = [w \in Worktrees |-> None]
  /\ exclude = {} /\ tampered = {}
  /\ proc = [w \in Worktrees |-> Idle]
  /\ budget = [commands |-> MaxCommands, upsets |-> MaxUpsets]
  /\ sound = [w \in Worktrees |-> TRUE] /\ lost = [w \in Worktrees |-> {}]
  /\ raced = FALSE /\ left = [w \in Worktrees |-> None]

IdleAt(w) == proc[w].pc = "idle"
Spend(what) == budget[what] > 0 /\ budget' = [budget EXCEPT ![what] = @ - 1]
(* The home before the command, which a record has a fingerprint of.       *)
Was(w) == IF w \in Recorded THEN home[w] ELSE None
Put(w, p) == proc' = [proc EXCEPT ![w] = p]
Head1(w) == Head(proc[w].todo)
At(w, do) == proc[w].pc = "tasks" /\ proc[w].line = None /\ proc[w].todo # <<>> /\ Head1(w).do \in do
Next1(w) == [proc[w] EXCEPT !.todo = Tail(@)]
(* Replaced paths whose links go, for the printed git checkout line.       *)
Replaced(r) == IF r = None THEN {} ELSE r.replaced
(* A path that an earlier compose replaced stays replaced.                 *)
Carries(prev) == Replaced(prev)

(* Commands. *)
Compose(w, req) ==
  /\ IdleAt(w) /\ Spend("commands")
  /\ LET prev == IF w \in tampered THEN None ELSE report[w]
     IN /\ Put(w, [Idle EXCEPT !.pc = "clear", !.op = "compose", !.req = req, !.was = Was(w), !.prev = prev,
                               !.replaced = Carries(prev)])
        /\ lost' = [lost EXCEPT ![w] = IF prev = report[w] THEN @ ELSE @ \cup OwnLinks(w) \cup Replaced(report[w])]
  /\ sound' = [sound EXCEPT ![w] = FALSE]
  /\ UNCHANGED <<disk, raced, left>>

(* Build: the staged tree is there; the old home goes and it is renamed.   *)
ClearHome(w) ==
  /\ proc[w].pc = "clear"
  /\ Put(w, [proc[w] EXCEPT !.pc = "build", !.rts = proc[w].req.targets \cup Composed(w)])
  /\ home' = [home EXCEPT ![w] = None] /\ at' = [at EXCEPT ![w][".qory"] = "own"]
  /\ UNCHANGED <<report, exclude, tampered, budget, history>>
Build(w) ==
  /\ proc[w].pc = "build"
  /\ home' = [home EXCEPT ![w] = [rts |-> proc[w].rts, res |-> proc[w].req.res]]
  /\ Put(w, [proc[w] EXCEPT !.pc = "tasks", !.todo = Links(proc[w].req, proc[w].rts, proc[w].prev)])
  /\ UNCHANGED <<at, report, exclude, tampered, budget, history>>

RemoveHarness(w) ==
  /\ IdleAt(w) /\ w \notin tampered /\ Spend("commands")
  /\ Put(w, [Idle EXCEPT !.pc = "tasks", !.op = "remove", !.was = Was(w), !.todo = unlinkAll \o <<Task("dir", ".qory", FALSE, "none")>>])
  /\ sound' = [sound EXCEPT ![w] = FALSE]
  /\ UNCHANGED <<disk, lost, raced, left>>
RemoveRuntime(w, rt) ==
  /\ IdleAt(w) /\ w \notin tampered /\ Spend("commands")
  /\ Put(w, [Idle EXCEPT !.pc = "tasks", !.op = "removeRuntime", !.rt = rt, !.was = Was(w),
             !.todo = Unlink(rt, Composed(w) \ {rt}) \o <<Task("drop", ".qory", FALSE, rt)>>])
  /\ UNCHANGED <<disk, history>>
-----------------------------------------------------------------------------
(* The exclude file, read and later written: a line is added once, and     *)
(* goes unless another worktree has something at its path.                 *)
HeldNowhere(w, p) == FALSE
HeldElsewhere(w, p) == \E o \in Worktrees \ {w} : at'[o][p] # "none"
Reads(w, p, line, add) ==
  LET writes == IF add THEN line \notin exclude ELSE line \in exclude /\ ~HeldElsewhere(w, line)
  IN /\ Put(w, [p EXCEPT !.line = IF writes THEN [at |-> line, add |-> add, read |-> exclude] ELSE None])
     /\ raced' = (raced \/ \E o \in Worktrees \ {w} : proc[o].line # None)
Writes(w) ==
  /\ proc[w].line # None
  /\ LET l == proc[w].line
     IN exclude' = IF l.add THEN l.read \cup {l.at} ELSE l.read \ {l.at}
  /\ Put(w, [proc[w] EXCEPT !.line = None])
  /\ UNCHANGED <<at, home, report, tampered, budget, history>>

PutsLine(w) ==
  /\ At(w, {"line"}) /\ UNCHANGED at /\ Reads(w, Next1(w), Head1(w).at, TRUE)
  /\ UNCHANGED <<home, report, exclude, tampered, budget, sound, lost, left>>

(* link and clearForDir: what stands at the path decides.                  *)
Free(w, t) == ~Behind(w, t.at) /\ ~Occupied(w, t.at)
MakesLink(w) ==
  /\ At(w, {"link"}) /\ Free(w, Head1(w))
  /\ at' = [at EXCEPT ![w][Head1(w).at] = "own"]
  /\ Reads(w, Next1(w), Head1(w).at, TRUE)
  /\ lost' = [lost EXCEPT ![w] = @ \ ({Head1(w).at} \ Tracked[w])]
  /\ UNCHANGED <<home, report, exclude, tampered, budget, sound, left>>
Clears(w) == /\ At(w, {"clear"}) /\ Free(w, Head1(w)) /\ Put(w, Next1(w))
             /\ UNCHANGED <<disk, budget, history>>
(* Restorable: git has it, and as it is.                                   *)
Restorable(w, p) == at[w][p] = "tracked"
Forces(w) ==
  /\ At(w, {"link", "clear"})
  /\ LET p == Head1(w).at
     IN /\ ~Behind(w, p) /\ Occupied(w, p) /\ proc[w].req.force /\ Restorable(w, p)
        /\ at' = [at EXCEPT ![w][p] = "none"]
        /\ Put(w, [proc[w] EXCEPT !.replaced = @ \cup {p}])
        /\ lost' = [lost EXCEPT ![w] = @ \ {p}]
  /\ UNCHANGED <<home, report, exclude, tampered, budget, sound, raced, left>>
Yields(w) ==
  /\ At(w, {"link", "clear"})
  /\ Behind(w, Head1(w).at) \/ (Occupied(w, Head1(w).at) /\ ~proc[w].req.force)
  /\ Head1(w).soft
  /\ Put(w, Next1(w)) /\ UNCHANGED <<disk, budget, history>>
(* A compose that stops: the links before it stay, and the report is       *)
(* written when it has a replaced path.                                    *)
Reported(p) == [rts |-> p.rts, res |-> p.req.res, replaced |-> p.replaced]
Refuses(w) ==
  /\ At(w, {"link", "clear"})
  /\ LET t == Head1(w) p == proc[w]
     IN /\ \/ Behind(w, t.at) /\ ~t.soft
           \/ ~Behind(w, t.at) /\ Occupied(w, t.at) /\ IF p.req.force THEN ~Restorable(w, t.at) ELSE ~t.soft
        /\ report' = [report EXCEPT ![w] = IF p.replaced = {} THEN @ ELSE Reported(p)]
        /\ lost' = [lost EXCEPT ![w] = IF p.replaced = {} \/ "tools" \in p.req.res THEN @ ELSE @ \cup (OwnLinks(w) \cap {"tools"})]
  /\ Put(w, Idle) /\ tampered' = tampered \ {w}
  /\ UNCHANGED <<at, home, exclude, budget, sound, raced, left>>

(* unlinkOwn: a link of qory's goes, anything else stays.                  *)
Prune(w) ==
  /\ At(w, {"prune"})
  /\ LET l == Head1(w).at
     IN IF at[w][l] = "own" /\ ~Behind(w, l)
        THEN /\ at' = [at EXCEPT ![w][l] = "none"]
             /\ Reads(w, [Next1(w) EXCEPT !.removed = @ \cup {l}], l, FALSE)
             /\ lost' = [lost EXCEPT ![w] = @ \ ({l} \ Tracked[w])]
        ELSE Put(w, Next1(w)) /\ UNCHANGED <<at, raced, lost>>
  /\ UNCHANGED <<home, report, exclude, tampered, budget, sound, left>>
(* What is left of a command without the first tasks about a runtime.      *)
After(todo, rt) ==
  LET n == CHOOSE i \in 1..(Len(todo) + 1) : (\A j \in 1..(i - 1) : todo[j].rt = rt) /\ (i <= Len(todo) => todo[i].rt # rt)
  IN SubSeq(todo, n, Len(todo))
(* removeOwnLink at a link's path: a hard link's path that is not qory's   *)
(* ends the runtime's Unlink.                                              *)
Unlinks(w) ==
  /\ At(w, {"unlink"})
  /\ LET t == Head1(w) IN
     IF ~Behind(w, t.at) /\ Occupied(w, t.at) /\ ~t.soft
     THEN Put(w, IF proc[w].op = "removeRuntime" THEN Idle
                 ELSE [proc[w] EXCEPT !.failed = TRUE, !.todo = After(@, t.rt)])
          /\ sound' = IF proc[w].op = "removeRuntime" THEN [sound EXCEPT ![w] = FALSE] ELSE sound
     ELSE Put(w, Next1(w)) /\ UNCHANGED sound
  /\ UNCHANGED <<disk, budget, lost, raced, left>>

(* removeRuntime: its directory goes, and with the last one everything.    *)
Drops(w) ==
  /\ At(w, {"drop"})
  /\ LET p == proc[w] others == Composed(w) \ {p.rt}
         gone == {r \in Replaced(report[w]) : \E l \in p.removed : l = r \/ r \in Above(l)}
     IN /\ home' = IF home[w] = None THEN home ELSE [home EXCEPT ![w].rts = others]
        /\ IF p.rt \notin Composed(w) /\ p.removed = {}
           THEN Put(w, Idle) /\ UNCHANGED <<report, lost>>
           ELSE IF others = {}
           THEN /\ Put(w, [p EXCEPT !.todo = Prunes({"tools"}, "module") \o <<Task("dir", ".qory", FALSE, "none")>>])
                /\ UNCHANGED <<report, lost>>
           ELSE /\ Put(w, Idle) /\ lost' = [lost EXCEPT ![w] = @ \cup gone]
                /\ report' = IF report[w] = None THEN report
                             ELSE [report EXCEPT ![w].replaced = @ \ gone, ![w].rts = others]
  /\ UNCHANGED <<at, exclude, tampered, budget, sound, raced, left>>
(* removeDir: .qory goes with its line.                                    *)
RemovesDir(w) ==
  /\ At(w, {"dir"})
  /\ home' = [home EXCEPT ![w] = None] /\ report' = [report EXCEPT ![w] = None]
  /\ at' = [at EXCEPT ![w][".qory"] = "none"]
  /\ Reads(w, [Next1(w) EXCEPT !.removed = {}], ".qory", FALSE)
  /\ lost' = [lost EXCEPT ![w] = @ \cup Replaced(report[w])]
  /\ UNCHANGED <<exclude, tampered, budget, sound, left>>

(* A command that did all its steps.                                       *)
Ends(w) ==
  /\ proc[w].pc = "tasks" /\ proc[w].todo = <<>> /\ proc[w].line = None
  /\ LET p == proc[w] IN
     /\ IF p.op = "compose" /\ ~p.failed THEN report' = [report EXCEPT ![w] = Reported(p)] ELSE UNCHANGED report
     /\ tampered' = tampered \ {w}
     /\ sound' = [sound EXCEPT ![w] = ~p.failed]
     /\ left' = [left EXCEPT ![w] = IF p.op = "remove" THEN [own |-> OwnLinks(w), failed |-> p.failed] ELSE @]
     /\ lost' = [lost EXCEPT ![w] = IF p.failed THEN @ \cup OwnLinks(w) ELSE @]
  /\ Put(w, Idle) /\ UNCHANGED <<at, home, exclude, budget, raced>>
-----------------------------------------------------------------------------
(* A kill, and what a person and an agent do between the commands.         *)
(* checkHarness after a command that recorded nothing: whether what it left *)
(* is not what the record holds.  A compose may build the same bytes again. *)
Unlike(w) ==
  LET p == proc[w] same == home[w] = p.was
  IN IF w \notin Recorded \/ (home[w] = None /\ report[w] = None) THEN {FALSE}
     ELSE IF p.pc = "clear" \/ (same /\ (p.op # "compose" \/ p.was = None)) THEN {w \in tampered}
     ELSE IF ~same /\ w \notin tampered THEN {TRUE} ELSE BOOLEAN
Kill(w) ==
  /\ ~IdleAt(w) /\ Spend("upsets") /\ Put(w, Idle)
  /\ \E off \in Unlike(w) : tampered' = IF off THEN tampered \cup {w} ELSE tampered \ {w}
  /\ lost' = [lost EXCEPT ![w] = @ \cup OwnLinks(w) \cup proc[w].replaced \cup Replaced(report[w]) \cup Tracked[w]]
  /\ sound' = [sound EXCEPT ![w] = FALSE]
  /\ UNCHANGED <<at, home, report, exclude, raced, left>>

Becomes(w, p, what) == at' = [at EXCEPT ![w] = [q \in DOMAIN @ |-> IF q = p THEN what ELSE IF p \in Above(q) THEN "none" ELSE @[q]]]
Edit(w) ==
  /\ IdleAt(w) /\ Spend("upsets")
  /\ left' = [left EXCEPT ![w] = None]
  /\ \/ \E p \in Edited : ~Behind(w, p) /\ at[w][p] # "theirs" /\ Becomes(w, p, "theirs") /\ UNCHANGED <<home, report, lost>>
     \/ \E p \in Tracked[w] : at[w][p] # "tracked" /\ Becomes(w, p, "tracked")       \* git checkout --
                              /\ lost' = [lost EXCEPT ![w] = @ \ {p}] /\ UNCHANGED <<home, report>>
     \/ \E l \in OwnLinks(w) : Becomes(w, l, "none") /\ UNCHANGED <<home, report, lost>>
     \/ /\ at[w][".qory"] = "own"                                                     \* rm -rf .qory
        /\ Becomes(w, ".qory", "none") /\ home' = [home EXCEPT ![w] = None]
        /\ report' = [report EXCEPT ![w] = None]
        /\ lost' = [lost EXCEPT ![w] = @ \cup OwnLinks(w) \cup Replaced(report[w])]
  /\ UNCHANGED <<exclude, proc, sound, raced>>
  /\ tampered' = IF home'[w] = None /\ report'[w] = None THEN tampered \ {w} ELSE tampered
Tamper(w) ==
  /\ w \in Recorded /\ IdleAt(w) /\ home[w] # None /\ Spend("upsets")
  /\ tampered' = tampered \cup {w}
  /\ UNCHANGED <<at, home, report, exclude, proc, history>>

Step(w) == \/ ClearHome(w) \/ Build(w) \/ Writes(w) \/ PutsLine(w) \/ MakesLink(w) \/ Clears(w) \/ Forces(w)
           \/ Yields(w) \/ Refuses(w) \/ Prune(w) \/ Unlinks(w) \/ Drops(w) \/ RemovesDir(w) \/ Ends(w)
Next == \E w \in Worktrees :
  \/ Step(w) \/ Kill(w) \/ Edit(w) \/ Tamper(w)
  \/ \E req \in Requests : Compose(w, req)
  \/ RemoveHarness(w) \/ \E rt \in Runtimes : RemoveRuntime(w, rt)
Spec == Init /\ [][Next]_vars
-----------------------------------------------------------------------------
(* After a compose or a remove that went through, each link of qory's      *)
(* leads to something in the home: what an earlier compose linked and this *)
(* one does not has gone, for every runtime, files entry and module.       *)
LinksResolve == \A w \in Worktrees : sound[w] /\ IdleAt(w) =>
  \A l \in OwnLinks(w) \ lost[w] : Resolves(home[w], l)

(* A link of qory's and the .qory of a home are kept out of git while they *)
(* are there, whatever the other worktrees of the repository compose and   *)
(* remove, unless two of them changed the exclude file at once.            *)
LinesFollowLinks == \A w \in Worktrees : sound[w] /\ IdleAt(w) /\ ~raced =>
  (OwnLinks(w) \ lost[w]) \cup (IF home[w] # None THEN {".qory"} ELSE {}) \subseteq exclude

(* A remove that ended without an error left no link of qory's.            *)
RemoveTakesAll == \A w \in Worktrees : left[w] # None /\ ~left[w].failed => left[w].own = {}

(* "A path replaced by a previous compose stays replaced: the report keeps *)
(* listing it until remove takes its link" (write of cmd/harness.go): a    *)
(* tracked path of the checkout that gave way to a link is in the report,  *)
(* through composes that fail, that force nothing and that link nothing,   *)
(* and the removal of one runtime of several.                              *)
ReplacedListed == \A w \in Worktrees : IdleAt(w) =>
  \A p \in Tracked[w] \ lost[w] : (at[w][p] # "tracked" /\ Under(p) \cap OwnLinks(w) # {}) => p \in Replaced(report[w])

(* What compose put into a checkout can be undone: remove takes the links,  *)
(* and prints each tracked path that a link replaced.                       *)
RemoveUndoesAll == RemoveTakesAll /\ ReplacedListed
=============================================================================
