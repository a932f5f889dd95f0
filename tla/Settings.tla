------------------------------ MODULE Settings ------------------------------
(***************************************************************************)
(* Where a command on a checkout takes its configuration and its home from.*)
(* A qory.yaml in the user's directory, in a directory above the checkout  *)
(* and in the checkout's root each set some keys; a document (the harness  *)
(* section of a qory.yaml, or a qory-stack.yaml) is composed alone or on a *)
(* base, and on a base the checkout's own file sets no machine key.  The   *)
(* commands: qory harness compose, qory run, and the verbs that work on    *)
(* what was composed before.                                               *)
(*                                                                         *)
(* A path is a sequence of names; what lies in the checkout starts with    *)
(* "checkout".  A value of a key is known by the directory whose file set  *)
(* it.  Links of the checkout (.qory itself a link) are left out.          *)
(***************************************************************************)
EXTENDS Naturals, Sequences

CONSTANTS Worlds,  \* the files of the machine, see world; most bounds the composes and runs
          Flags    \* what --home is set to, <<>> for nothing

VARIABLES
  world,     \* [user, above, root: the qory.yaml there, stack: the root's qory-stack.yaml, owned, git, open, most]
  composed,  \* home -> does the checkout link into it: the reports on disk
  last,      \* the last compose or run that went through
  commands

vars == <<world, composed, last, commands>>

Dirs == {"user", "above", "root"}
MachineKeys == {"home", "env"}
In == <<"checkout", ".qory/harness">>
Cache == <<"cache">>
Keyed(h) == Append(h, "key")
Within(h) == h[1] = "checkout"
Refused == [ok |-> FALSE, home |-> <<>>, links |-> FALSE]
At(home, links) == [ok |-> TRUE, home |-> home, links |-> links]
NoCommand == [ok |-> FALSE, run |-> FALSE, keyed |-> FALSE, walled |-> FALSE, file |-> "", flag |-> <<>>, noLinks |-> FALSE,
              extends |-> FALSE, home |-> <<>>, links |-> FALSE, env |-> "default", launch |-> "default", from |-> "default"]

-----------------------------------------------------------------------------
(* The files and what they set.                                            *)
Owned(d) == d # "above" \/ world.owned
Discover == {d \in Dirs : world[d].names > 0 /\ Owned(d)}
Loads == (\A d \in Dirs : world[d].names < 2) /\ (\A d \in Discover : ~world[d].bad)
Takes(d, k, own) == k \in world[d].keys /\ (own \/ d # "root" \/ k \notin MachineKeys)
Origin(k, own) ==
  LET s == {d \in Discover : Takes(d, k, own)} IN
  IF "root" \in s THEN "root" ELSE IF "above" \in s THEN "above" ELSE IF "user" \in s THEN "user" ELSE "default"
HomeSet(own) == LET d == Origin("home", own) IN IF d = "default" THEN In ELSE world[d].home
UserHome == IF "home" \in world.user.keys THEN world.user.home ELSE In

(* The documents.                                                          *)
composes(p) == p \cap {"modules", "path", "git", "extensions", "workflows"} # {}
extends(p) == p \cap {"path", "git"} # {}
validate(p) == (extends(p) => "workflows" \notin p) /\ ("modules" \in p \/ extends(p))
Unreadable(d) == world[d].names = 2 \/ (world[d].names = 1 /\ Owned(d) /\ world[d].bad)
Document(d) == world[d].names = 1 /\ Owned(d) /\ composes(world[d].parts)
DiscoverStack ==
  IF Unreadable("root") \/ (world.stack # "none" /\ Document("root")) \/ world.stack = "closed" THEN "error"
  ELSE IF world.stack = "open" THEN "stack"
  ELSE IF Document("root") THEN "root"
  ELSE IF Unreadable("above") THEN "error"
  ELSE IF Document("above") THEN "above" ELSE "none"
LoadStack(f) ==
  \/ f = "stack"
  \/ /\ f \in {"root", "above"}
     /\ LET p == world[f].parts IN composes(p) /\ (extends(p) \/ "target" \in p) /\ validate(p)
ExtendsOf(f) == f \in {"root", "above"} /\ extends(world[f].parts)

(* What -f names ("stack" a stack of this machine, "reference" one that is *)
(* fetched, "document" the checkout's own qory.yaml), and the stack that   *)
(* the compose reads: the checkout's document goes on a stack -f named.    *)
Named(file) == file \in {"stack", "reference"}
OnBase(file) == Named(file) /\ Document("root")
Source(file) == CASE file = "" -> DiscoverStack [] file = "document" -> "root" [] OTHER -> "stack"
ExtendsStack(file) == ExtendsOf(Source(file))
Extends(file) == OnBase(file) \/ ExtendsStack(file)
Readable(file) ==
  /\ LoadStack(Source(file))
  /\ Named(file) => ~Unreadable("root")
  /\ OnBase(file) => "workflows" \notin world.root.parts
  /\ Extends(file) => world.open

-----------------------------------------------------------------------------
(* The home.                                                               *)
placesFor(h, noLinks) ==
  IF ~Within(h) THEN At(Keyed(h), FALSE) ELSE IF h = In /\ world.git THEN At(In, ~noLinks) ELSE Refused
placesFromReport(flag, noLinks) ==
  IF Within(flag) /\ ~world.git THEN Refused ELSE At(flag, flag = In /\ composed[flag] /\ ~noLinks)
Places(flag, noLinks, own) ==
  IF flag \in DOMAIN composed THEN placesFromReport(flag, noLinks)
  ELSE placesFor(IF flag = <<>> THEN HomeSet(own) ELSE flag, noLinks)

(* The verbs other than compose, and a run without a key, read the machine *)
(* keys of the checkout's file as the compose of its document would.       *)
configFor == ~(LoadStack(DiscoverStack) /\ ExtendsOf(DiscoverStack))
locate(flag, noLinks) == Places(flag, noLinks, configFor)

(* A run with a run key: no machine key of the checkout's file, and a home *)
(* outside the checkout.                                                   *)
KeyedHome(flag) ==
  IF flag # <<>> THEN flag ELSE IF Origin("home", FALSE) = "default" THEN Cache ELSE HomeSet(FALSE)
locateKeyed(flag) ==
  IF Within(KeyedHome(flag)) THEN Refused
  ELSE IF flag \in DOMAIN composed THEN placesFromReport(flag, FALSE)
  ELSE placesFor(KeyedHome(flag), FALSE)
(* A walled run's home is a mount, and the files beside the user's own may *)
(* lie where an agent writes.                                              *)
userHome(at, own, keyed) ==
  LET mine == IF keyed /\ "home" \notin world.user.keys THEN Cache ELSE UserHome IN
  Origin("home", own) \in {"default", "user"} \/ (placesFor(mine, FALSE).ok /\ placesFor(mine, FALSE).home = at.home)

-----------------------------------------------------------------------------
(* prepare: the configuration of a compose once its document is known.     *)
OwnOfStack(file, keyed) == ~ExtendsStack(file) /\ ~keyed
Own(file, keyed) == ~Extends(file) /\ ~keyed

Went(cmd, at) ==
  /\ at.ok /\ commands' = commands + 1
  /\ composed' = [h \in DOMAIN composed \cup {at.home} |-> IF h = at.home THEN at.links ELSE composed[h]]
  /\ last' = [cmd EXCEPT !.ok = TRUE, !.home = at.home, !.links = at.links]
  /\ UNCHANGED world

Compose(file, flag, noLinks) ==
  LET own == Own(file, FALSE) IN
  /\ Went([NoCommand EXCEPT !.file = file, !.flag = flag, !.noLinks = noLinks, !.extends = Extends(file),
             !.env = Origin("env", own), !.launch = Origin("env", own),
             !.from = IF flag = <<>> THEN Origin("home", own) ELSE "default"],
          Places(flag, noLinks, own))

Run(file, flag, keyed, walled) ==
  LET at == IF keyed THEN locateKeyed(flag) ELSE locate(flag, FALSE)
      own == ~keyed /\ configFor IN
  /\ walled /\ flag = <<>> => userHome(at, own, keyed)
  /\ Went([NoCommand EXCEPT !.run = TRUE, !.keyed = keyed, !.walled = walled, !.file = file, !.flag = flag, !.extends = Extends(file),
             !.env = Origin("env", Own(file, keyed)), !.launch = Origin("env", own),
             !.from = IF flag = <<>> THEN Origin("home", own) ELSE "default"], at)

Init == world \in Worlds /\ composed = [h \in {} |-> FALSE] /\ last = NoCommand /\ commands = 0
Next ==
  /\ commands < world.most /\ Loads
  /\ \E file \in {"", "document", "stack", "reference"} :
       /\ Readable(file)
       /\ \E flag \in Flags :
            \/ \E noLinks \in BOOLEAN : Compose(file, flag, noLinks)
            \/ \E keyed, walled \in BOOLEAN : Run(file, flag, keyed, walled)
Spec == Init /\ [][Next]_vars

-----------------------------------------------------------------------------
(* Of a compose on a base, and of a run with a run key whatever it         *)
(* composes, no machine key comes from the checkout's own file: neither the*)
(* variables and the launch nor the home.  A run with -f and no key is     *)
(* left out: see the README.                                               *)
RunnerConfigures ==
  last.ok /\ (last.keyed \/ (last.extends /\ ~(last.run /\ last.file # ""))) =>
    "root" \notin {last.env, last.launch, last.from}

(* What a compose or a run wrote is what the verbs that follow it find     *)
(* with the same flags, until a file changes: they decide by themselves    *)
(* whether the checkout's file counts.  Left out are composes with -f and  *)
(* runs with a key, which the verbs cannot know of.                        *)
VerbsFindTheHome ==
  last.ok /\ last.file = "" /\ ~last.keyed =>
    locate(last.flag, last.noLinks) = At(last.home, last.links)

(* The home that a walled run mounts is where the user's own file puts it, *)
(* or the machine's default for the run, whatever the others set.          *)
WalledHomeIsTheUsers ==
  last.ok /\ last.walled /\ last.flag = <<>> =>
    last.home = placesFor(IF last.keyed /\ "home" \notin world.user.keys THEN Cache ELSE UserHome, FALSE).home
=============================================================================
