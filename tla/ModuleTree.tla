----------------------------- MODULE ModuleTree -----------------------------
(* The files of one module that lies in the checkout, from the compose     *)
(* that reads them to the home that holds a copy, while the checkout goes  *)
(* on changing: a link on the way to the module, or one of its own, may    *)
(* lead elsewhere between any two steps.                                   *)
(*                                                                         *)
(* The tree is a function from absolute paths to nodes, so a file is known *)
(* by where it lies.  What a file says is left out: the objects of the     *)
(* servers, references, tiers, sizes and modes; so are renames, and names  *)
(* of one file other than through a link.  Commands and output styles are  *)
(* read and copied as agents are.  The home is claude's: runtimes that     *)
(* write each agent anew are left out.  A copy sees one tree.              *)
EXTENDS Naturals, Sequences, FiniteSets, FiniteSetsExt, SequencesExt

CONSTANTS
  Composes,    \* [fs, manifest, choice, walled]: the tree a compose finds, from paths to nodes, a node [kind] or
               \* a link [kind, abs, to]; the manifest [variants, default, requires]; what the stack chooses
               \* [forced, runtime, kept], the variant it forces, None for none, and the kinds it keeps
  Edits,       \* what may come to lie at a path: [at, node]
  MaxLinks,    \* the links followed on one path
  MaxEntries,  \* the most entries of a copy
  MaxChanges,  \* bound on the edits of a behaviour
  None

VARIABLES
  fs, changes,             \* the tree, and the edits of it
  manifest, choice, walled,
  root,                    \* the directory the compose opened, None when there was none
  real,                    \* its recorded path, <<>> when the path led elsewhere by then
  entries, left,           \* what was read, and what of it only and exclude left out
  home,                    \* the copied files: [in, to, from, out]
  step, still              \* still: nothing changed since the read

vars == <<fs, changes, manifest, choice, walled, root, real, entries, left, home, step, still>>
world == <<fs, changes, manifest, choice, walled, still>>
opened == <<root, real>>
shipped == <<entries, left>>

Dir == <<"at">>  \* the module's directory as the compose writes it

Dotted == {".git", ".qory"}
Markdown == {"a.md", "b.md", "SKILL.md"}
Servers == {"s.json"}
RuntimeFolders == {"claude", "codex"}
Lower(name) == IF name = <<"X">> THEN <<"x">> ELSE name
Kinds == {"skills", "agents", "hooks", "mcp", "files"}

-----------------------------------------------------------------------------
(* Paths.  Follow walks todo from cur, below floor; how says where a link  *)
(* with an absolute target leads: anywhere (the machine), nowhere (an      *)
(* os.Root), or into the directory whose recorded path it starts with.     *)
Reached(p) == [at |-> p, err |-> ""]
Fails(e) == [at |-> <<>>, err |-> e]
RECURSIVE Follow(_, _, _, _, _)
Follow(floor, how, cur, todo, hops) ==
  IF todo = <<>> THEN Reached(cur)
  ELSE IF Head(todo) = ".."
    THEN IF cur = floor THEN Fails("out") ELSE Follow(floor, how, Front(cur), Tail(todo), hops)
  ELSE LET next == Append(cur, Head(todo)) IN
    IF cur # <<>> /\ fs[cur].kind # "dir" THEN Fails("notdir")
    ELSE IF next \notin DOMAIN fs THEN Fails("none")
    ELSE IF fs[next].kind # "link" THEN Follow(floor, how, next, Tail(todo), hops)
    ELSE IF hops = MaxLinks THEN Fails("loop")
    ELSE LET to == fs[next].to \o Tail(todo) IN
      IF ~fs[next].abs THEN Follow(floor, how, cur, to, hops + 1)
      ELSE IF how = "anywhere" THEN Follow(floor, how, <<>>, to, hops + 1)
      ELSE IF how = "recorded" /\ real # <<>> /\ IsPrefix(real, fs[next].to)
        THEN Follow(floor, how, floor, SubSeq(to, Len(real) + 1, Len(to)), hops + 1)
      ELSE Fails("out")

EvalSymlinks(p) == Follow(<<>>, "anywhere", <<>>, p, 0)
InRoot(rel) == Follow(root, "nowhere", root, rel, 0)
ResolveIn(rel) == Follow(root, "recorded", root, rel, 0)
KindAt(r) == IF r.err = "" THEN fs[r.at].kind ELSE r.err
Stat(p) == KindAt(EvalSymlinks(p))
Missing(p) == EvalSymlinks(p).err # ""
(* The node at p itself: a link there is not followed. *)
Self(p) == Append(EvalSymlinks(Front(p)).at, Last(p))
Lstat(p) == fs[Self(p)].kind
Names(d) == {Last(q) : q \in {q \in DOMAIN fs : Front(q) = d}}
(* What a walk from p sees, as paths below p: it enters no link. *)
Below(p) == IF Lstat(p) # "dir" THEN {}
            ELSE {SubSeq(q, Len(Self(p)) + 1, Len(q)) : q \in {q \in DOMAIN fs : IsStrictPrefix(Self(p), q)}}
RelOf(p) == SubSeq(p, Len(Dir) + 1, Len(p))
inside(p) == ~Missing(p) /\ IsPrefix(EvalSymlinks(Dir).at, EvalSymlinks(p).at)

-----------------------------------------------------------------------------
(* Reading.  A reader finds entries, and reasons to stop; the read returns *)
(* what it found only when there is no reason to stop.                     *)
Found(stops, es) == [stops |-> stops, entries |-> es]
All(rs) == Found(UNION {r.stops : r \in rs}, UNION {r.entries : r \in rs})
Entry(kind, p) == [kind |-> kind, name |-> <<Last(p)>>, path |-> p]
StopIf(b, why) == IF b THEN {why} ELSE {}
(* What lies in the folder at p, nothing when it is not there. *)
Items(p) == IF Stat(p) = "dir" THEN {Append(p, n) : n \in Names(EvalSymlinks(p).at) \ Dotted} ELSE {}
NoFolder(p) == StopIf(Stat(p) \notin {"dir", "none"}, "folder")
Folders(p) == {q \in Items(p) : Stat(q) = "dir"}

(* The files of one folder with names among ns; a folder among them is no  *)
(* entry, or a reason to stop where stop says one.                         *)
Listed(kind, p, ns, stop) ==
  LET ps == {q \in Items(p) : Last(q) \in ns} IN
  Found(NoFolder(p) \cup StopIf(\E q \in ps : Missing(q), "stat") \cup (IF ps \cap Folders(p) # {} THEN stop ELSE {}),
        {Entry(kind, q) : q \in ps \ Folders(p)})
readMarkdown(kind, p) == Listed(kind, p, Markdown, {})
readMCP(p) == Listed("mcp", p, Servers, {})
readHooks(p) == Listed("hooks", p, {Last(q) : q \in Items(p)}, {"hook"})
(* A file at any depth below a runtime's folder, through no link to a      *)
(* folder; the entry's name has the runtime and the path.                  *)
readFiles(p) ==
  LET seen == UNION {{f \o q : q \in {q \in Below(f) : \A i \in DOMAIN q : q[i] \notin Dotted}} : f \in Folders(p)} IN
  Found(NoFolder(p) \cup StopIf(Items(p) # Folders(p), "runtime") \cup StopIf(\E q \in seen : Missing(q), "stat"),
        {[kind |-> "files", name |-> SubSeq(q, Len(p) + 1, Len(q)), path |-> q] : q \in {q \in seen : Stat(q) # "dir"}})
(* The fragments: one file per target file of a runtime. *)
readSettings(p) ==
  LET r == All({Listed("settings", f, {Last(q) : q \in Items(f)}, {"fragment"}) : f \in Folders(p)}) IN
  [r EXCEPT !.stops = @ \cup NoFolder(p) \cup StopIf(\E q \in Items(p) : Missing(q), "stat")]

(* Skills, in groups of any depth.                                         *)
isSkill(p) == ~Missing(Append(p, "SKILL.md"))
variantSkillDirs ==
  {manifest.variants[v]["skills"] : v \in {v \in DOMAIN manifest.variants : "skills" \in DOMAIN manifest.variants[v]}}
notAGroup(p) == RelOf(p) \in variantSkillDirs \/ Last(p) \in RuntimeFolders \/ Lstat(p) # "dir"
RECURSIVE noSkillBelow(_)
noSkillBelow(p) ==
  \A q \in Items(p) : ~Missing(q) /\ (Stat(q) = "dir" => ~isSkill(q) /\ ~notAGroup(q) /\ noSkillBelow(q))
checkGroup(p) == IF notAGroup(p) THEN {"group"} ELSE StopIf(noSkillBelow(p), "empty")
RECURSIVE readFolder(_)
readFolder(p) ==
  LET groups == {q \in Folders(p) : ~isSkill(q)} IN
  All({Found(StopIf(\E q \in Items(p) : Missing(q), "stat") \cup UNION {checkGroup(q) : q \in groups},
             {Entry("skills", q) : q \in Folders(p) \ groups})}
      \cup {readFolder(q) : q \in {q \in groups : checkGroup(q) = {}}})
add(es) == StopIf(\E d, e \in es : d # e /\ Lower(d.name) = Lower(e.name), "twice")
readSkills(p) == LET r == readFolder(p) IN [r EXCEPT !.stops = @ \cup NoFolder(p) \cup add(r.entries)]

(* A skill is shipped whole, so what lies below it is checked as well. *)
insideAll(p) == \A q \in Below(p) : inside(p \o q)
(* The bytes come from the directory that was opened, when one was. *)
ReadThrough(p) == root = None \/ KindAt(ResolveIn(RelOf(p))) = "file"

(* The variant: the one a stack forces, the runtime's, or the default.     *)
SelectVariant ==
  LET vs == DOMAIN manifest.variants
      wanted == IF choice.forced # None THEN {choice.forced} ELSE IF choice.runtime \in vs THEN {choice.runtime} ELSE {manifest.default} IN
  IF vs = {} /\ choice.forced = None THEN {None} ELSE wanted \cap vs
FolderOf(v, kind) ==
  Dir \o IF v # None /\ kind \in DOMAIN manifest.variants[v] THEN manifest.variants[v][kind] ELSE <<kind>>

ReadWith(v) ==
  LET r == All({readSkills(FolderOf(v, "skills")), readMarkdown("agents", FolderOf(v, "agents")), readHooks(FolderOf(v, "hooks")),
                readMCP(FolderOf(v, "mcp")), readFiles(FolderOf(v, "files"))})
      instructions == {Entry("instructions", p) : p \in {p \in {Append(Dir, "AGENTS.md")} : ~Missing(p)}}
      all == All({r, readSettings(Append(Dir, "settings")), Found({}, instructions)}) IN
  [all EXCEPT !.stops = @
     \cup StopIf(\E e \in all.entries : ~inside(e.path) \/ (e.kind = "skills" /\ ~insideAll(e.path)), "outside")
     \cup StopIf(\E e \in all.entries : e.kind \notin {"skills", "agents"} /\ ~ReadThrough(e.path), "read")
     \cup StopIf(\E q \in manifest.requires : \A e \in r.entries : <<e.kind, e.name>> # q, "requires")]

-----------------------------------------------------------------------------
(* Copying, through the directory that was opened.                         *)
openCopier == root # None /\ EvalSymlinks(Dir) = Reached(root)
leave == IF walled THEN {RelOf(e.path) : e \in left} ELSE {}
leaveOut == {ResolveIn(l).at : l \in {l \in leave : ResolveIn(l).err = ""}}
isLeft(rel, at) == rel # <<>> /\ \E l \in leaveOut : at = l \/ (l # root /\ IsPrefix(l, at))
leadsNowhere(rel) ==
  /\ rel # <<>> /\ InRoot(Front(rel)).err = "" /\ InRoot(rel).err = "none"
  /\ LET p == Append(InRoot(Front(rel)).at, Last(rel)) IN p \in DOMAIN fs /\ fs[p].kind = "link"
skip(rel, name, whole) == name = ".git" \/ (whole /\ rel = <<>> /\ name = ".qory") \/ Append(rel, name) \in leave

Copied(ok, n, files) == [ok |-> ok, n |-> n, files |-> files]
RECURSIVE copyAt(_, _, _)
copyAt(rel, above, whole) ==
  LET at == ResolveIn(rel).at
      names == {n \in Names(at) : ~skip(rel, n, whole)}
      parts == [n \in names |-> copyAt(Append(rel, n), above \cup {at}, whole)] IN
  IF whole /\ leadsNowhere(rel) THEN Copied(TRUE, 0, {})
  ELSE IF KindAt(ResolveIn(rel)) \notin {"dir", "file"} THEN Copied(FALSE, 0, {})
  ELSE IF isLeft(rel, at) THEN Copied(TRUE, 0, {})
  ELSE IF fs[at].kind = "file" THEN Copied(TRUE, 0, {[to |-> rel, from |-> at]})
  ELSE IF at \in above THEN Copied(FALSE, 0, {})
  ELSE Copied(\A n \in names : parts[n].ok,
              Cardinality(names) + MapThenSumSet(LAMBDA n : parts[n].n, names),
              UNION {parts[n].files : n \in names})
copy(rel, whole) ==
  LET dirs == {SubSeq(rel, 1, i) : i \in 0..Len(rel) - 1}
      c == copyAt(rel, {ResolveIn(d).at : d \in dirs}, whole) IN
  [c EXCEPT !.ok = c.ok /\ (\A d \in dirs : ResolveIn(d).err = "") /\ c.n <= MaxEntries]
(* An agent that is written is read the way a copy reads it. *)
readEntry(rel) ==
  LET r == ResolveIn(rel) IN
  IF KindAt(r) # "file" THEN Copied(FALSE, 0, {})
  ELSE Copied(TRUE, 0, IF rel \in leave \/ isLeft(rel, r.at) THEN {} ELSE {[to |-> rel, from |-> r.at]})

-----------------------------------------------------------------------------
(* The compose and the build of one module, and the changes beside them.   *)
openRoot ==
  /\ step = "open" /\ step' = "record"
  /\ root' = IF Stat(Dir) = "dir" THEN EvalSymlinks(Dir).at ELSE None
  /\ UNCHANGED <<world, real, shipped, home>>
recordReal ==
  /\ step = "record" /\ step' = "read"
  /\ real' = IF root # None /\ EvalSymlinks(Dir) = Reached(root) THEN root ELSE <<>>
  /\ UNCHANGED <<world, root, shipped, home>>
Read ==
  LET reads == {ReadWith(v) : v \in SelectVariant}
      whole == {r \in reads : r.stops = {}} IN
  /\ step = "read"
  /\ \/ whole = {} /\ step' = "refused" /\ UNCHANGED <<shipped, still>>
     \/ /\ step' = "module" /\ still' = TRUE
        /\ \E r \in whole : entries' = r.entries /\ left' = {e \in r.entries : e.kind \in Kinds \ choice.kept}
  /\ UNCHANGED <<fs, changes, manifest, choice, walled, opened, home>>

(* One more part of the home, or none: a build that fails leaves nothing.  *)
Copies(into, cs, next) ==
  /\ IF openCopier /\ \A c \in cs : c.ok
     THEN step' = next /\ home' = home \cup {[in |-> into, to |-> f.to, from |-> f.from, out |-> leaveOut] : f \in UNION {c.files : c \in cs}}
     ELSE step' = "refused" /\ home' = {}
  /\ UNCHANGED <<world, opened, shipped>>
(* linkModules: modules/<name>, before the entries. *)
copyModule == step = "module" /\ Copies("modules", {copy(<<>>, TRUE)}, "skills")
(* PlaceEntries and linkFiles: a copy of each entry that is kept; servers, *)
(* fragments and instructions go into files that are written.              *)
After == [skills |-> "hooks", hooks |-> "agents", agents |-> "files", files |-> "done"]
Kept(kind) == {RelOf(e.path) : e \in {e \in entries \ left : e.kind = kind}}
copyEntry == step \in DOMAIN After /\ Copies(step, {copy(rel, FALSE) : rel \in Kept(step)}, After[step])
readSource == step = "agents" /\ Copies(step, {readEntry(rel) : rel \in Kept(step)}, After[step])

(* The agent, or the person, changes the checkout. *)
Change(e) ==
  /\ step \notin {"done", "refused"} /\ changes < MaxChanges
  /\ e.at \in DOMAIN fs => fs[e.at] # e.node /\ Names(e.at) = {}
  /\ fs' = [p \in DOMAIN fs \cup {e.at} |-> IF p = e.at THEN e.node ELSE fs[p]]
  /\ changes' = changes + 1 /\ still' = FALSE
  /\ UNCHANGED <<manifest, choice, walled, opened, shipped, home, step>>

Init ==
  /\ \E c \in Composes : fs = c.fs /\ manifest = c.manifest /\ choice = c.choice /\ walled = c.walled
  /\ changes = 0 /\ root = None /\ real = <<>> /\ entries = {} /\ left = {} /\ home = {} /\ step = "open" /\ still = FALSE
Next == openRoot \/ recordReal \/ Read \/ copyModule \/ copyEntry \/ readSource \/ \E e \in Edits : Change(e)
Spec == Init /\ [][Next]_vars

-----------------------------------------------------------------------------
(* Every file of the home lies in the directory that the compose opened,   *)
(* wherever the links in it and on the way to it lead by the time of the   *)
(* copy.                                                                   *)
StaysInModule == \A c \in home : IsPrefix(root, c.from)

(* What the stack leaves out of a walled run reaches the home under no     *)
(* name: neither at its own path nor through a link that leads to it or    *)
(* into it.  An entry that is the module's own directory is left out by    *)
(* its name alone.                                                         *)
LeftOutStays ==
  \A c \in home :
    /\ \A l \in c.out : c.from # l /\ (l # root => ~IsPrefix(l, c.from))
    /\ c.in = "modules" => \A l \in leave : ~IsPrefix(l, c.to)

(* With nothing changed since the read, a finished home has each file of   *)
(* each entry that was kept, both as the entry and in modules/<name>,      *)
(* unless it lies in a left-out entry: its file, or the skill's SKILL.md   *)
(* and everything that was checked below it.                               *)
FilesOf(e) ==
  LET rel == RelOf(e.path)
      below == {rel \o q : q \in {q \in Below(e.path) \cup {<<"SKILL.md">>} : \A i \in DOMAIN q : q[i] # ".git"}} IN
  {f \in (IF e.kind = "skills" THEN below ELSE {rel}) : KindAt(ResolveIn(f)) = "file"}
KeptArrive ==
  step = "done" /\ still =>
    \A e \in entries \ left : e.kind \in DOMAIN After =>
      \A f \in FilesOf(e) :
        \/ \E i \in 1..Len(f) : SubSeq(f, 1, i) \in leave \/ isLeft(SubSeq(f, 1, i), ResolveIn(SubSeq(f, 1, i)).at)
        \/ \A in \in {e.kind, "modules"} : \E c \in home : c.in = in /\ c.to = f /\ c.from = ResolveIn(f).at

(* The stop for a folder with no skill below it is exact: it is made when  *)
(* reading the folder would find no skill and no other reason to stop, and *)
(* a folder that is read on gives a skill or a reason.                     *)
GroupStopsExact ==
  step = "read" =>
    \A p \in {Dir \o <<"skills">> \o q : q \in IF Stat(Append(Dir, "skills")) = "dir" THEN Below(Append(Dir, "skills")) ELSE {}} :
      (\A i \in DOMAIN p : p[i] \notin Dotted) /\ Lstat(p) = "dir" /\ ~isSkill(p) =>
        LET r == readFolder(p) IN noSkillBelow(p) <=> r.entries = {} /\ r.stops \subseteq {"empty"}

(* The home that a compose writes holds the module: all of it that the     *)
(* stack keeps, and nothing else.                                          *)
HomeHoldsTheModule == StaysInModule /\ LeftOutStays /\ KeptArrive /\ GroupStopsExact
=============================================================================
