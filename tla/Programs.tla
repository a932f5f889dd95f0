------------------------------ MODULE Programs ------------------------------
(***************************************************************************)
(* The programs qory starts with the machine's credentials: an integration *)
(* (Forager.Expand), an adapter and a tool (machineCredentials,            *)
(* machineTools), each found and checked once (find) and started later by  *)
(* the path that was checked, while another user of the machine and walled *)
(* runs change what they may write.                                        *)
(*                                                                         *)
(* A path is the sequence of its names below /; a program of one name is   *)
(* looked up on the PATH.  A node of the disk has its owner, its group and *)
(* who may write it, and `by', who wrote it last: "keeper" is root or the  *)
(* user running qory.  A group is "root", "wheel", "admin", or what it is  *)
(* to the node's owner: "own" is the primary group named as the owner,     *)
(* "primary" one named otherwise, "namesake" named so and not primary.     *)
(***************************************************************************)
EXTENDS Naturals, Sequences, SequencesExt, TLC

CONSTANTS
  Cases,        \* [disk, path, workspace, integrations, ...]: the machine
  OthersGroups, \* the groups another user may be in: of "primary", "namesake"
  Planted,      \* what another user or a run may put into a directory
  MaxLinks,     \* maxLinks: the most links a program is followed through
  MaxEdits      \* bound: changes by another user and by runs

VARIABLES
  disk,      \* path -> node
  given,     \* forager.yaml, the PATH, and the places a run may write
  next,      \* the program qory is at, of Todo
  step,      \* the next step of find, "serve" when the gateway runs, "refused"
  found, resolved, hop, checked, links,  \* find's
  followed,  \* who put the links that find followed
  commands,  \* what the gateway may start: [path, settings]
  passed,    \* path -> the file that find checked
  started,   \* the files started: [path, file]
  edits

vars == <<disk, given, next, step, found, resolved, hop, checked, links, followed, commands, passed, started, edits>>
finding == <<found, resolved, hop, checked, links, followed>>
gateway == <<commands, passed, started>>

Gone == <<"/gone">>
Nothing == [by |-> "nobody"]
Dir(p) == Front(p)
Above(p) == {SubSeq(p, 1, n) : n \in 0..Len(p)}
Is(p, kind) == p \in DOMAIN disk /\ disk[p].kind = kind
From(d, link) == IF link.abs THEN link.to ELSE d \o link.to

-----------------------------------------------------------------------------
(* EvalSymlinks: where the path leads; Gone for none.                       *)
RECURSIVE Leads(_, _, _)
Leads(at, rest, left) ==
  IF rest = <<>> THEN at
  ELSE LET p == Append(at, Head(rest)) IN
       IF left = 0 \/ p \notin DOMAIN disk THEN Gone
       ELSE IF disk[p].kind = "link" THEN Leads(<<>>, From(at, disk[p]) \o Tail(rest), left - 1)
       ELSE IF disk[p].kind = "dir" \/ Tail(rest) = <<>> THEN Leads(p, Tail(rest), left)
       ELSE Gone
EvalSymlinks(p) == Leads(<<>>, p, 6)
Executable(p) == Is(EvalSymlinks(p), "file")

Shadowed(g) == {c.name : c \in Range(g.credentials)}
(* expansion: the integrations a run or a gateway describes; qory config    *)
(* describes each.                                                          *)
Only(g, key) == g.config \/ key \in g.selected \ Shadowed(g)
Todo(g) ==
  LET Selected(in) == Only(g, in.key)
      HasAdapter(c) == c.adapter # <<>>
      adapters == SelectSeq(g.credentials, HasAdapter)
  IN [n \in DOMAIN SelectSeq(g.integrations, Selected) |->
        [what |-> "integration"] @@ SelectSeq(g.integrations, Selected)[n]]
     \o IF g.config THEN <<>>
        ELSE [n \in DOMAIN adapters |-> [what |-> "adapter", program |-> adapters[n].adapter]]
             \o [n \in DOMAIN g.tools |-> [what |-> "tool", program |-> g.tools[n]]]
It == Todo(given)[next]

-----------------------------------------------------------------------------
(* find: every reading is a step, and others change the disk between them.  *)

Refused == step' = "refused" /\ UNCHANGED <<disk, given, next, finding, gateway, edits>>

(* LookPath: a relative entry of the PATH that has the program refuses it.  *)
OnPath(name) ==
  LET has == {n \in DOMAIN given.path : Executable(Append(given.path[n].dir, name))}
  IN IF has = {} THEN <<>> ELSE <<given.path[CHOOSE n \in has : \A m \in has : n <= m]>>
LookPath ==
  /\ step = "look" /\ next <= Len(Todo(given))
  /\ LET p == It.program
         entry == OnPath(p[1])
         there == IF Len(p) = 1 THEN entry # <<>> /\ entry[1].abs ELSE Executable(p)
     IN IF ~there THEN Refused
        ELSE /\ found' = IF Len(p) = 1 THEN Append(entry[1].dir, p[1]) ELSE p
             /\ step' = "resolve"
             /\ UNCHANGED <<disk, given, next, resolved, hop, checked, links, followed, gateway, edits>>

Resolve ==
  /\ step = "resolve"
  /\ LET real == EvalSymlinks(found) IN
     IF real = Gone THEN Refused
     ELSE /\ resolved' = real /\ hop' = found /\ checked' = <<real>> /\ links' = <<>> /\ followed' = {}
          /\ step' = "outside"
          /\ UNCHANGED <<disk, given, next, found, gateway, edits>>

(* A place of the workspace that is not there is passed over.               *)
InWorkspace(p) == \E w \in given.workspace : EvalSymlinks(w) \in Above(p)
Outside ==
  /\ step = "outside"
  /\ IF InWorkspace(resolved) THEN Refused
     ELSE step' = "walk" /\ UNCHANGED <<disk, given, next, finding, gateway, edits>>

(* One link on the way, read from the directory it stands in, resolved.     *)
Walk ==
  /\ step = "walk"
  /\ LET d == EvalSymlinks(Dir(hop))
         at == Append(d, Last(hop))
     IN IF at \notin DOMAIN disk \/ (Is(at, "link") /\ Len(links) = MaxLinks) THEN Refused
        ELSE /\ checked' = Append(checked, d)
             /\ IF Is(at, "link")
                THEN links' = Append(links, at) /\ followed' = followed \cup {disk[at].by} /\ hop' = From(d, disk[at]) /\ UNCHANGED step
                ELSE hop' = at /\ step' = "owners" /\ UNCHANGED <<links, followed>>
             /\ UNCHANGED <<disk, given, next, found, resolved, gateway, edits>>

OwnedBy(n) == n.uid \in {"root", "me"}
StickyByRoot(n) == n.kind = "dir" /\ n.uid = "root" /\ n.sticky
Trusted(n) ==
  OwnedBy(n) /\ (StickyByRoot(n) \/ (~n.every /\ n.group \in {"none", "root", "wheel", "admin", "own"}))
ChainTrusted(p) == \A a \in Above(p) : a \in DOMAIN disk /\ Trusted(disk[a])

(* ownersOnly, the next of its paths; then find returns where the program   *)
(* resolves.                                                                *)
OwnersOnly ==
  /\ step = "owners"
  /\ IF checked # <<>> THEN
       IF ~ChainTrusted(Head(checked)) THEN Refused
       ELSE checked' = Tail(checked) /\ UNCHANGED <<disk, given, next, step, found, resolved, hop, links, followed, gateway, edits>>
     ELSE IF links # <<>> THEN
       IF Head(links) \notin DOMAIN disk \/ ~OwnedBy(disk[Head(links)]) THEN Refused
       ELSE links' = Tail(links) /\ UNCHANGED <<disk, given, next, step, found, resolved, hop, checked, followed, gateway, edits>>
     ELSE /\ passed' = (resolved :> IF resolved \in DOMAIN disk THEN disk[resolved] ELSE Nothing) @@ passed
          /\ step' = "found"
          /\ UNCHANGED <<disk, given, next, finding, commands, started, edits>>

-----------------------------------------------------------------------------
Goes(path) ==
  started' = started \cup (IF Executable(path) THEN {[path |-> path, file |-> disk[EvalSymlinks(path)]]} ELSE {})
GoOn == next' = next + 1 /\ step' = "look"

Take ==
  /\ step = "found" /\ It.what # "integration"
  /\ commands' = Append(commands, [path |-> resolved, settings |-> {}, secrets |-> {}])
  /\ GoOn
  /\ UNCHANGED <<disk, given, finding, passed, started, edits>>

(* A file's setting that is a relative path is refused before the program   *)
(* starts.                                                                  *)
Describe ==
  /\ step = "found" /\ It.what = "integration"
  /\ IF It.relative THEN Refused
     ELSE /\ Goes(resolved)
          /\ step' = IF It.answer.reads THEN "described" ELSE "refused"
          /\ UNCHANGED <<disk, given, next, finding, commands, passed, edits>>

(* Where the schema marks a value writeOnly: in the settings' own           *)
(* properties, and nowhere else.                                            *)
Own(at) == Len(at) = 2 /\ at[1] = "properties"
MisplacedWriteOnly(marks) == \E at \in marks : ~Own(at)
Secrets(marks) == {at[2] : at \in {m \in marks : Own(m)}}
SchemaAt(s) == [n \in 1..2 * Len(s) |-> IF n % 2 = 1 THEN "properties" ELSE s[n \div 2]]
Names(settings) == {s[1] : s \in settings}

(* read and CheckSettings; a credential the file defines stands.            *)
Expand ==
  /\ step = "described"
  /\ LET a == It.answer IN
     IF MisplacedWriteOnly(a.marks) \/ Names(It.settings) \cap Secrets(a.marks) # {} \/ ~a.takes \/ ~a.credential THEN Refused
     ELSE /\ commands' = IF It.key \in Shadowed(given) THEN commands
                         ELSE Append(commands, [path |-> resolved, settings |-> It.settings, secrets |-> a.marks])
          /\ GoOn
          /\ UNCHANGED <<disk, given, finding, passed, started, edits>>

Serve ==
  /\ step = "look" /\ next > Len(Todo(given)) /\ ~given.config
  /\ step' = "serve"
  /\ UNCHANGED <<disk, given, next, finding, gateway, edits>>

(* The gateway starts an adapter or a tool, for any run of it.              *)
Start(n) ==
  /\ step = "serve"
  /\ Goes(commands[n].path)
  /\ UNCHANGED <<disk, given, next, step, finding, commands, passed, edits>>

-----------------------------------------------------------------------------
(* The rest of the machine.                                                 *)
MayWrite(n) == n.uid = "other" \/ n.every \/ n.group \in OthersGroups
MayReplace(p) ==
  LET d == disk[Dir(p)] IN
  MayWrite(d) /\ (d.sticky => d.uid = "other" \/ p \notin DOMAIN disk \/ disk[p].uid = "other")
Puts(p, n) ==
  /\ edits < MaxEdits /\ edits' = edits + 1
  /\ disk' = [q \in {q \in DOMAIN disk : p \notin Above(q)} \cup {p} |-> IF q = p THEN n ELSE disk[q]]
  /\ UNCHANGED <<given, next, step, finding, gateway>>

OtherWrites(p) == Is(p, "file") /\ MayWrite(disk[p]) /\ Puts(p, [disk[p] EXCEPT !.by = "other"])
OtherPuts(p, n) == Is(Dir(p), "dir") /\ MayReplace(p) /\ Puts(p, [n EXCEPT !.uid = "other", !.by = "other"])

(* A run writes as the user, and only in its places.                        *)
RunMayWrite(p) == \E w \in given.workspace : EvalSymlinks(w) \in Above(p)
RunWrites(p) == Is(p, "file") /\ RunMayWrite(p) /\ disk[p].by # "run" /\ Puts(p, [disk[p] EXCEPT !.by = "run"])
RunPuts(p, n) == Is(Dir(p), "dir") /\ RunMayWrite(Dir(p)) /\ Puts(p, [n EXCEPT !.uid = "me", !.by = "run"])

Init ==
  /\ \E c \in Cases : disk = c.disk /\ given = c.given
  /\ next = 1 /\ step = "look" /\ found = <<>> /\ resolved = <<>> /\ hop = <<>> /\ checked = <<>> /\ links = <<>> /\ followed = {}
  /\ commands = <<>> /\ passed = <<>> /\ started = {} /\ edits = 0
Next ==
  \/ LookPath \/ Resolve \/ Outside \/ Walk \/ OwnersOnly \/ Take \/ Describe \/ Expand \/ Serve
  \/ \E n \in DOMAIN commands : Start(n)
  \/ \E p \in DOMAIN disk : OtherWrites(p) \/ RunWrites(p)
  \/ \E p \in (DOMAIN disk \ {<<>>}), n \in Planted : OtherPuts(p, n) \/ RunPuts(p, n)

-----------------------------------------------------------------------------
(* find: what is started is the file that was checked, as it was then, and  *)
(* neither another user nor a walled run wrote it; and no link of another   *)
(* user's, in the place of the program, led there.                          *)
StartsChecked ==
  /\ step = "found" => "other" \notin followed
  /\ \A s \in started : s.path \in DOMAIN passed /\ s.file = passed[s.path] /\ s.file.by = "keeper"

(* CheckSettings: no setting that a description marks writeOnly, anywhere,  *)
(* is on a command line of the gateway's adapters.                          *)
NoSecretOnACommandLine ==
  \A n \in DOMAIN commands : \A s \in commands[n].settings : \A at \in commands[n].secrets : ~IsPrefix(at, SchemaAt(s))
=============================================================================
