----------------------------- MODULE Artifacts ------------------------------
(***************************************************************************)
(* The artifacts of a run: qory artifact push and pull and qory run verdict*)
(* in the run, the check that qory run makes of each push before it leaves *)
(* the machine, and the store of the commands; outside a run, the store    *)
(* alone.  A command may be killed at any step, and then its request may go*)
(* on.  The programs of the run send what they like: a body is an object   *)
(* whose members may come twice or in another case, and Qory Apiary may be *)
(* any reader of it.                                                       *)
(*                                                                         *)
(* A file's name is <<folded, form>>: two names with one folded name are   *)
(* one file where the file system ignores case.  The program of a check    *)
(* passes exactly the contents of Good.  Sizes, the names of artifacts     *)
(* (each type has one), the place of the store and what a check reads of   *)
(* other artifacts are left out.                                           *)
(***************************************************************************)
EXTENDS Naturals, Sequences, FiniteSets

CONSTANTS Procs, Types, CheckedTypes, Role, Names, Contents, Good,
          Lists,         \* the names of one push
          Bodies,        \* what another program of the run posts
          Folds,         \* whether the file system of the check's folder ignores case
          MaxVersions, MaxCommands, MaxEdits

VARIABLES
  inRun,     \* the commands are in a run of Qory Apiary
  src,       \* name -> content: the files that are pushed
  server,    \* type -> its versions, each a sequence of <<name, content>>
  approved,  \* type -> the number of the approved version, 0 for none
  store,     \* <<type, number>> -> name -> content
  cmd, req,  \* process -> its command and its request at the gateway
  commands, edits

vars == <<inRun, src, server, approved, store, cmd, req, commands, edits>>

Idle == [pc |-> "idle", type |-> "", names |-> <<>>, all |-> {}, body |-> <<>>, n |-> 0, want |-> {}, pinned |-> [t \in Types |-> 0],
         touched |-> FALSE]
NoRequest == [at |-> "none", body |-> <<>>, n |-> 0]
Largest(s) == CHOOSE x \in s : \A y \in s : y <= x
Smallest(s) == CHOOSE x \in s : \A y \in s : x <= y
Empty == [k \in {} |-> ""]

-----------------------------------------------------------------------------
(* Bodies and who reads them.                                              *)
Member(name, value) == [name |-> name, exact |-> TRUE, value |-> value]
FileOf(f) == <<Member("filename", f[1]), Member("content_base64", f[2])>>
PushBody(type, files) == <<Member("type", type), Member("files", [i \in DOMAIN files |-> FileOf(files[i])])>>
Readers == [any : BOOLEAN, last : BOOLEAN]
Found(obj, name, r) == {i \in DOMAIN obj : obj[i].name = name /\ (r.any \/ obj[i].exact)}
Value(obj, name, r) ==
  LET is == Found(obj, name, r) IN obj[IF r.last THEN Largest(is) ELSE Smallest(is)].value
IsPush(body, r) ==
  /\ Found(body, "type", r) # {} /\ Found(body, "files", r) # {}
  /\ \A i \in DOMAIN Value(body, "files", r) : LET f == Value(body, "files", r)[i] IN
       Found(f, "filename", r) # {} /\ Found(f, "content_base64", r) # {}
FilesOf(body, r) ==
  [i \in DOMAIN Value(body, "files", r) |-> LET f == Value(body, "files", r)[i] IN
     <<Value(f, "filename", r), Value(f, "content_base64", r)>>]
Decoder == [any |-> TRUE, last |-> TRUE]

(* Whether an object can be read one way only, as far as qory goes. *)
membersTwice(obj) == \A i, j \in DOMAIN obj : i # j => obj[i] # obj[j]
members(obj) ==
  /\ \A i \in DOMAIN obj : obj[i].exact
  /\ \A i, j \in DOMAIN obj : i # j => obj[i].name # obj[j].name
readPush(body) ==
  /\ members(body) /\ IsPush(body, Decoder)
  /\ \A i \in DOMAIN Value(body, "files", Decoder) : members(Value(body, "files", Decoder)[i])

(* The names of a version's files, and the folder of the check. *)
LocalFilename(name) == name[1] # ".."
NamesTwice(files) == \E i, j \in DOMAIN files : i # j /\ files[i][1] = files[j][1]
oneFile(files, fold) == \E i, j \in DOMAIN files : i # j /\ (files[i][1] = files[j][1] \/ (fold /\ files[i][1][1] = files[j][1][1]))
Seen(files, fold, i) ==
  files[Largest({j \in DOMAIN files : files[j][1] = files[i][1] \/ (fold /\ files[j][1][1] = files[i][1][1])})][2]

RunAPICheck(body) ==
  IF ~readPush(body) THEN "failed"
  ELSE IF Value(body, "type", Decoder) \notin CheckedTypes THEN "forward"
  ELSE LET files == FilesOf(body, Decoder) IN
       IF NamesTwice(files) \/ (\E i \in DOMAIN files : ~LocalFilename(files[i][1])) THEN "failed" ELSE "check"
Passes(files, fold) == ~oneFile(files, fold) /\ \A i \in DOMAIN files : Seen(files, fold, i) \in Good

-----------------------------------------------------------------------------
(* The gateway: the check of a POST, and Qory Apiary behind it.            *)
At(p, at) == req[p].at = at
Goes(p, at) == req' = [req EXCEPT ![p].at = at]
AsTheCommand == UNCHANGED <<inRun, src, approved, store, cmd, commands, edits>>

Gateway(p) == At(p, "new") /\ Goes(p, RunAPICheck(req[p].body)) /\ AsTheCommand /\ UNCHANGED server
(* Check: the fetch of the artifacts that it reads fails, or the program   *)
(* passes or not, does not start, runs too long, or the engine fails.      *)
Check(p) ==
  /\ At(p, "check") /\ AsTheCommand /\ UNCHANGED server
  /\ \/ Passes(FilesOf(req[p].body, Decoder), Folds) /\ Goes(p, "forward")
     \/ Goes(p, "failed")
(* Qory Apiary stores a push as it reads it, and its answer may be lost.   *)
Accepts(body, r) ==
  /\ IsPush(body, r) /\ Value(body, "type", r) \in Types
  /\ LET files == FilesOf(body, r) IN ~NamesTwice(files) /\ \A i \in DOMAIN files : LocalFilename(files[i][1])
Forward(p) ==
  /\ At(p, "forward") /\ AsTheCommand
  /\ \/ \E r \in Readers :
          /\ Accepts(req[p].body, r)
          /\ LET t == Value(req[p].body, "type", r) IN
               /\ Len(server[t]) < MaxVersions
               /\ server' = [server EXCEPT ![t] = Append(@, FilesOf(req[p].body, r))]
               /\ \/ req' = [req EXCEPT ![p].at = "stored", ![p].n = Len(server[t]) + 1]
                  \/ Goes(p, "failed")
     \/ Goes(p, "failed") /\ UNCHANGED server

-----------------------------------------------------------------------------
(* The store.                                                              *)
Dir(d) == IF d \in DOMAIN store THEN store[d] ELSE Empty
Written(d, name, content) ==
  LET files == [k \in DOMAIN Dir(d) \cup {name} |-> IF k = name THEN content ELSE Dir(d)[k]] IN
  [k \in DOMAIN store \cup {d} |-> IF k = d THEN files ELSE store[k]]
Stored(d) == LET files == server[d[1]][d[2]] IN [k \in {files[i][1] : i \in DOMAIN files} |-> files[CHOOSE i \in DOMAIN files : files[i][1] = k][2]]
Kept(p) == <<cmd[p].type, cmd[p].n>>
nextVersion(t) == 1 + Largest({0} \cup {d[2] : d \in {e \in DOMAIN store : e[1] = t}})
sameFile(d, name) == name \in DOMAIN Dir(d) /\ Dir(d)[name] = Stored(d)[name]

(* The version that a pull takes of a type.                                *)
chosenVersion(t, version, pinned, listed) ==
  LET newest == Len(listed)
      of(n) == IF n \in 1..newest THEN n ELSE 0 IN
  IF version # 0 THEN of(version) ELSE
  CASE Role[t] = "output" -> newest
    [] Role[t] = "input" -> IF pinned[t] # 0 THEN of(pinned[t]) ELSE approved[t]
    [] OTHER -> IF approved[t] # 0 THEN approved[t] ELSE newest

Is(p, pc) == cmd[p].pc = pc
Does(p, c) == cmd' = [cmd EXCEPT ![p] = c]
Starts(p) == cmd[p].pc \in {"idle", "kept", "pulled"} /\ At(p, "none") /\ commands < MaxCommands /\ commands' = commands + 1
OnlyCmd == UNCHANGED <<inRun, src, server, approved, edits>>

readPushSources(names) == [i \in DOMAIN names |-> <<names[i], src[names[i]]>>]
Push(p, t, names) ==
  /\ inRun /\ Starts(p) /\ OnlyCmd /\ UNCHANGED <<store, req>>
  /\ Does(p, [Idle EXCEPT !.pc = "post", !.type = t, !.names = names, !.body = PushBody(t, readPushSources(names))])
(* Outside a run, two commands that push at once are left out. *)
KeepPush(p, t, names) ==
  /\ ~inRun /\ Starts(p) /\ OnlyCmd /\ UNCHANGED <<store, req>>
  /\ \A q \in Procs \ {p} : cmd[q].pc \in {"idle", "kept"}
  /\ Does(p, [Idle EXCEPT !.pc = "keep", !.type = t, !.names = names, !.all = {names[i] : i \in DOMAIN names}, !.n = nextVersion(t)])
Post(p) ==
  /\ Is(p, "post") /\ Does(p, [cmd[p] EXCEPT !.pc = "wait"])
  /\ req' = [req EXCEPT ![p] = [NoRequest EXCEPT !.at = "new", !.body = cmd[p].body]]
  /\ OnlyCmd /\ UNCHANGED <<store, commands>>
(* Another program of the run posts a body of its own. *)
PostOther(p, body) ==
  /\ inRun /\ Starts(p) /\ Does(p, Idle) /\ req' = [req EXCEPT ![p] = [NoRequest EXCEPT !.at = "new", !.body = body]]
  /\ OnlyCmd /\ UNCHANGED store
(* sendPush once it is answered; with no answer that it stored, it ends. *)
Answered(p) ==
  /\ req[p].at \in {"stored", "failed"}
  /\ req' = [req EXCEPT ![p] = NoRequest]
  /\ IF Is(p, "wait") /\ At(p, "stored")
     THEN Does(p, [cmd[p] EXCEPT !.pc = "keep", !.n = req[p].n])
     ELSE Does(p, IF Is(p, "wait") THEN Idle ELSE cmd[p])
  /\ OnlyCmd /\ UNCHANGED <<store, commands>>
(* keep reads each file of the push again, and writes it through a         *)
(* temporary file.                                                         *)
Keep(p) ==
  /\ Is(p, "keep") /\ OnlyCmd /\ UNCHANGED <<req, commands>>
  /\ LET name == Head(cmd[p].names)
         other == inRun /\ Kept(p)[2] <= Len(server[Kept(p)[1]]) /\ name \in DOMAIN Stored(Kept(p))
                  /\ src[name] # Stored(Kept(p))[name]
         rest == Tail(cmd[p].names) IN
     /\ store' = Written(Kept(p), name, src[name])
     /\ cmd' = [q \in Procs |->
          IF q = p THEN [cmd[p] EXCEPT !.names = rest, !.touched = @ \/ other, !.pc = IF rest = <<>> THEN "kept" ELSE "keep"]
          ELSE IF other /\ Kept(p) \in cmd[q].want THEN [cmd[q] EXCEPT !.touched = TRUE] ELSE cmd[q]]

(* A pull reads the work item, then the index, then file after file.       *)
PullItem(p) ==
  /\ inRun /\ Starts(p) /\ Does(p, [Idle EXCEPT !.pc = "item", !.pinned = approved])
  /\ OnlyCmd /\ UNCHANGED <<store, req>>
PullIndex(p, version, types) ==
  /\ Is(p, "item")
  /\ LET n == [t \in Types |-> chosenVersion(t, version, cmd[p].pinned, server[t])] IN
     Does(p, [cmd[p] EXCEPT !.pc = "pull", !.want = {<<t, n[t]>> : t \in {s \in types : n[s] # 0}},
                            !.names = <<>>])
  /\ OnlyCmd /\ UNCHANGED <<store, req, commands>>
Missing(p) == {m \in cmd[p].want \X Names : m[2] \in DOMAIN Stored(m[1]) /\ ~sameFile(m[1], m[2])}
PullFile(p) ==
  /\ Is(p, "pull") /\ Missing(p) # {} /\ UNCHANGED <<cmd, req, commands>> /\ OnlyCmd
  /\ \E m \in Missing(p) : store' = Written(m[1], m[2], Stored(m[1])[m[2]])
PullEnd(p) ==
  /\ Is(p, "pull") /\ Missing(p) = {} /\ Does(p, [cmd[p] EXCEPT !.pc = "pulled"])
  /\ OnlyCmd /\ UNCHANGED <<store, req, commands>>

(* Before it sent or wrote anything, a killed command is one that never was. *)
Kill(p) ==
  /\ cmd[p].pc \in {"wait", "keep", "pull"} /\ Does(p, Idle)
  /\ OnlyCmd /\ UNCHANGED <<store, req, commands>>
Edit(name, content) ==
  /\ edits < MaxEdits /\ edits' = edits + 1 /\ src[name] # content /\ src' = [src EXCEPT ![name] = content]
  /\ UNCHANGED <<inRun, server, approved, store, cmd, req, commands>>
Approve(t) ==
  /\ edits < MaxEdits /\ edits' = edits + 1 /\ approved[t] < Len(server[t])
  /\ approved' = [approved EXCEPT ![t] = Len(server[t])]
  /\ UNCHANGED <<inRun, src, server, store, cmd, req, commands>>

Init ==
  /\ inRun \in BOOLEAN /\ \E c \in Contents : src = [n \in Names |-> c]
  /\ server = [t \in Types |-> <<>>] /\ approved = [t \in Types |-> 0] /\ store = [d \in {} |-> Empty]
  /\ cmd = [p \in Procs |-> Idle] /\ req = [p \in Procs |-> NoRequest] /\ commands = 0 /\ edits = 0
Next ==
  \/ \E p \in Procs :
       \/ Post(p) \/ Gateway(p) \/ Check(p) \/ Forward(p) \/ Answered(p) \/ Keep(p)
       \/ PullItem(p) \/ PullFile(p) \/ PullEnd(p) \/ Kill(p)
       \/ \E t \in Types, l \in Lists : Push(p, t, l) \/ KeepPush(p, t, l)
       \/ \E body \in Bodies : PostOther(p, body)
       \/ \E v \in 0..1, ts \in {Types} \cup {{t} : t \in Types} : PullIndex(p, v, ts)
  \/ \E n \in Names, c \in Contents : Edit(n, c)
  \/ \E t \in Types : Approve(t)
Spec == Init /\ [][Next]_vars

-----------------------------------------------------------------------------
(* What the constants are: a push names files; a body is an object with a  *)
(* list of files, of which only those that stay in the folder have to be   *)
(* known by name.                                                          *)
Listing(s) == Len(s) \in Nat /\ DOMAIN s = 1..Len(s)
NamesFile(member) == member.name = "filename" /\ LocalFilename(member.value) => member.value \in Names
IsBody(body) ==
  /\ Listing(body)
  /\ \A i \in DOMAIN body : body[i].name = "files" =>
       /\ Listing(body[i].value)
       /\ \A j \in DOMAIN body[i].value : LET f == body[i].value[j] IN Listing(f) /\ \A k \in DOMAIN f : NamesFile(f[k])
ArtifactsAssumption ==
  /\ CheckedTypes \subseteq Types
  /\ \A l \in Lists : l \in Seq(Names) /\ l # <<>>
  /\ \A body \in Bodies : IsBody(body)

-----------------------------------------------------------------------------
(* Whoever of the readers Qory Apiary is, every version that it stored of a*)
(* type with a check passes that check, file by file.                      *)
StoredIsChecked ==
  \A t \in CheckedTypes : \A n \in DOMAIN server[t] : \A i \in DOMAIN server[t][n] : server[t][n][i][2] \in Good

(* A command that went through left its versions whole in the store: a pull*)
(* those it chose, whatever killed commands left there, a push its own     *)
(* under the number that Qory Apiary gave it, and outside a run in a folder*)
(* that no other push wrote.  Left out are files that changed between the  *)
(* push and the copy.                                                      *)
DoneMeansKept ==
  \A p \in Procs : ~cmd[p].touched =>
    /\ Is(p, "pulled") => \A d \in cmd[p].want : \A name \in DOMAIN Stored(d) : name \in DOMAIN Dir(d) /\ Dir(d)[name] = Stored(d)[name]
    /\ Is(p, "kept") => IF inRun THEN Dir(Kept(p)) = Stored(Kept(p)) ELSE DOMAIN Dir(Kept(p)) = cmd[p].all

StoredAsDone == StoredIsChecked /\ DoneMeansKept
=============================================================================
