----------------------------- MODULE MCCompose -----------------------------
(* Harnesses of up to three modules.  Each family enumerates what one part *)
(* of a compose tells apart: roles and only blocks, a base and a checkout, *)
(* collisions, and values.  Beside them, what comes before a compose: where*)
(* its configuration and its home come from (Settings), what a run with a  *)
(* run key may read (InCheckout), and the files of one module on the way to*)
(* the home (ModuleTree).  A behaviour is of one of the four.              *)
EXTENDS Compose

S == <<"skills", "s">>
A == <<"agents", "a">>
B == <<"agents", "b">>
R == <<"agents", "r">>
H == <<"hooks", "h">>
Rule == <<"files", "claude", "rules", "x">>
Private == <<"files", "claude", "rules-private", "x">>
No == <<>>
One(k, v) == [x \in {k} |-> v]
Entries(es) == [NoBlock EXCEPT !.entries = es]

Mod(name) == [name |-> name, listed |-> name, base |-> FALSE, source |-> TRUE, placed |-> FALSE, ships |-> {}, refs |-> No, requires |-> No,
              provides |-> No, inst |-> FALSE, settings |-> No, env |-> {}, checks |-> No,
              exclude |-> NoBlock, only |-> NoBlock, checkout |-> {}]
Free == [kinds |-> {"agents", "skills"}, files |-> {}, inst |-> TRUE, settings |-> {<<"env">>}]
Harness == [base |-> No, own |-> No, extending |-> Free, baseBind |-> No, bind |-> No, workflows |-> {}, decided |-> {}]

(* What s and a refer to, the roles provided, and the blocks of a module   *)
(* that ships s, a and b. *)
References == {No, One(S, {R}), One(S, {A}), One(S, {R}) @@ One(A, {B})}
Provides == {No, One(R, A), One(R, B)}
Blocks == {[only |-> NoBlock, exclude |-> NoBlock], [only |-> NoBlock, exclude |-> Entries({A})],
           [only |-> NoBlock, exclude |-> Entries({A, B})],
           [only |-> Entries({S}), exclude |-> NoBlock], [only |-> Entries({S, B}), exclude |-> NoBlock],
           [only |-> Entries({S, A}), exclude |-> NoBlock], [only |-> Entries({B}), exclude |-> NoBlock],
           [only |-> Entries({S}), exclude |-> Entries({A})], [only |-> Entries({A}), exclude |-> Entries({B})]}
With(m, b) == [m EXCEPT !.only = b.only, !.exclude = b.exclude]
Lead == {With([Mod("core") EXCEPT !.ships = {S, A, B}, !.refs = r, !.provides = p], b) : r \in References, p \in Provides, b \in Blocks}
Sides == {[Mod("web") EXCEPT !.ships = s, !.provides = p, !.exclude = Entries(x), !.requires = q] :
            s \in {{A}, {B}, {A, B}}, p \in Provides, x \in {{}, {A}}, q \in {No, One(B, {A})}}
Side == {m \in Sides : m.exclude.entries \subseteq m.ships /\ DOMAIN m.requires \subseteq m.ships}

RolesAndOnly == {[Harness EXCEPT !.own = <<l, m>>, !.bind = b] : l \in Lead, m \in Side, b \in {No, One(R, B)}}
BaseAndCheckout ==
  {[Harness EXCEPT !.base = <<[l EXCEPT !.listed = n]>>, !.baseBind = bb, !.extending.kinds = k, !.workflows = w,
                   !.own = (IF x = {} THEN <<>> ELSE <<[Mod("core") EXCEPT !.source = FALSE, !.exclude = Entries(x)]>>) \o <<m>>] :
     l \in {y \in Lead : y.exclude = NoBlock}, m \in Side, n \in {"", "core"}, bb \in {No, One(R, A), One(R, B)}, k \in {{}, {"agents"}},
     x \in {{}, {A}, {S}}, w \in {{"s"}}}
(* Three modules with the same entries, or the base's two. *)
Plain(name, es) == [Mod(name) EXCEPT !.ships = es]
Colliding ==
  {[Harness EXCEPT !.base = b, !.own = o \o <<Plain("web", e), With(Plain("app", {S, A, B}), c)>>] :
     b \in {<<>>, <<Plain("core", {A, B, H})>>, <<[Plain("core", {A, B, H}) EXCEPT !.listed = ""]>>, <<Plain("core", {A, H}), Plain("more", {B, S})>>},
     o \in {<<>>, <<[Mod("core") EXCEPT !.source = FALSE, !.exclude = Entries({A})]>>},
     e \in {{A}, {S, A}, {S, B}, {A, B}}, c \in {x \in Blocks : x.only.entries \subseteq {S}}}
(* The files of a base that a checkout excludes and ships, and what it may *)
(* say of a base's module beside an exclude.                               *)
FilesOnBase ==
  {[Harness EXCEPT !.base = <<Plain("core", {S, Rule, Private})>>, !.extending.files = f, !.extending.kinds = k,
                   !.own = (IF x = {} THEN <<>> ELSE <<[Mod("core") EXCEPT !.source = p[1], !.placed = p[2], !.exclude = Entries(x)]>>)
                             \o <<Plain("web", e)>>] :
     f \in {{}, {<<"claude">>}, {<<"claude", "rules">>}, {<<"claude", "rules", "x">>}}, k \in {{}, {"agents"}},
     x \in SUBSET {Rule, Private}, p \in {<<FALSE, FALSE>>, <<TRUE, FALSE>>, <<FALSE, TRUE>>}, e \in {{A}, {A, Rule}, {Private}}}
(* Values: the fragments, variables, instructions and checks of two modules. *)
Fragments == {No, One(<<"model">>, Scalar("m")), One(<<"model">>, Scalar("n")), One(EnvPath("X"), Scalar("1")), One(EnvPath("X"), Exported("core")),
              One(<<"hooks", "on">>, List(<<"h">>)), One(<<"permissions", "allow">>, List(<<"p", "q">>)),
              One(<<"permissions", "allow">>, List(<<"q", "p">>)) @@ One(EnvPath("X"), Scalar("2"))}
Valued(name) == {[Plain(name, {e}) EXCEPT !.settings = s, !.env = v, !.inst = t, !.checks = c, !.exclude = x] :
                   e \in {IF name = "core" THEN A ELSE B}, s \in Fragments, v \in {{}, {"X"}}, t \in BOOLEAN,
                   c \in {No, One("plan", {}), One("plan", {IF name = "core" THEN A ELSE B})}, x \in {NoBlock, [NoBlock EXCEPT !.env = {"X"}], Entries({A})}}
Values == {m \in Valued("core") : m.exclude # NoBlock => m.env = m.exclude.env /\ m.inst}
WebValues == {m \in Valued("web") : m.exclude = NoBlock /\ (m.inst => m.checks = No)}
ValuesMerged == {[Harness EXCEPT !.own = <<m, n>>, !.decided = d] : m \in Values, n \in WebValues, d \in {{}, {"X"}}}
ValuesOnBase ==
  {[Harness EXCEPT !.base = <<m>>, !.own = <<n>>, !.extending = x] : m \in Values, n \in WebValues,
     x \in {Free, [kinds |-> {"agents"}, files |-> {}, inst |-> FALSE, settings |-> {<<"model">>, <<"permissions">>}]}}

MCStacks == <<RolesAndOnly, BaseAndCheckout, Colliding, FilesOnBase, ValuesMerged, ValuesOnBase>>

-----------------------------------------------------------------------------
(* Worlds of Settings: what the qory.yaml of each directory sets and holds. *)
NoFile == [names |-> 0, bad |-> FALSE, keys |-> {}, home |-> <<>>, parts |-> {}]
File(k, h, p) == [names |-> 1, bad |-> FALSE, keys |-> k, home |-> h, parts |-> p]
In == <<"checkout", ".qory/harness">>
Inside == <<"checkout", "other">>
Out1 == <<"out1">>
Out2 == <<"out2">>
Both == {"home", "env"}
DocumentParts == {{}, {"modules", "target"}, {"modules"}, {"path"}, {"git", "modules"}, {"extensions"}, {"path", "workflows"},
                  {"modules", "target", "workflows"}}
Users == {NoFile, File(Both, Out1, {})}
Aboves == {<<NoFile, TRUE>>, <<[NoFile EXCEPT !.names = 2], FALSE>>} \cup
          {<<File(k, Out2, p), o>> : k \in {{}, Both}, p \in {{}, {"modules", "target"}, {"git"}}, o \in BOOLEAN}
Roots == ({NoFile, [NoFile EXCEPT !.names = 2], [NoFile EXCEPT !.names = 1, !.bad = TRUE]} \cup
          {File({}, <<>>, p) : p \in DocumentParts} \cup {File(Both, h, p) : h \in {In, Inside, Out1}, p \in DocumentParts}) \X {"none"}
   \cup {NoFile, File(Both, Out1, {}), File(Both, In, {"modules"}), File(Both, Out1, {"path"})} \X {"open", "closed"}
World(u, a, r, g, x, n) ==
  [user |-> u, above |-> a[1], root |-> r[1], stack |-> r[2], owned |-> a[2], git |-> g, open |-> x, most |-> n]
MCWorlds ==
  {World(u, a, r, g, TRUE, 1) : u \in Users, a \in Aboves, r \in Roots, g \in BOOLEAN}
  \cup {World(u, <<NoFile, TRUE>>, <<File(Both, h, p), s>>, TRUE, x, 2) :
          u \in Users, h \in {In, Out1}, p \in {{}, {"modules"}, {"path"}, {"modules", "target"}}, s \in {"none", "open"}, x \in BOOLEAN}
(* Cases of InCheckout: at most two paths lie outside. *)
Named == {"config", "base", "base/qory.yaml", "base/export", "base/qory-stack.yaml",
          "own", "own/manifest", "own/sub", "own/sub/file", "ofBase", "ofBase/sub", "ofBase/sub/file"}
MCCases ==
  {[doc |-> d, named |-> f, base |-> b, own |-> o, ofBase |-> m, out |-> {x, y}] :
     d \in {"root", "above"}, f \in {"none", "in", "out"}, b \in {"none", "path", "export", "https", "ssh"},
     o \in {"none", "path", "https", "ssh"}, m \in {"path", "https", "ssh"}, x \in Named, y \in Named}
MCOut == {c \in MCCases : c.base = "none" => c.named # "none" \/ c.ofBase = "https"} \cup {[c EXCEPT !.out = {}] : c \in MCCases}

CONSTANT None  \* no directory, and no variant
F == INSTANCE TreeInputs WITH none <- None

VARIABLES fs, changes, manifest, choice, walled, root, real, entries, left, home, step, still
VARIABLES part, world, composed, last, commands, case, at, went
T == INSTANCE Settings WITH Worlds <- MCWorlds, Flags <- {<<>>, In, Out1, <<"out1", "key">>}
K == INSTANCE InCheckout WITH Cases <- MCOut
M == INSTANCE ModuleTree WITH Composes <- F!MCComposes, Edits <- F!MCEdits, MaxLinks <- 4, MaxEntries <- 20, MaxChanges <- 1

settings == <<world, composed, last, commands>>
reading == <<case, at, went>>
files == <<fs, changes, manifest, choice, walled, root, real, entries, left, home, step, still>>
NoWorld == World(NoFile, <<NoFile, TRUE>>, <<NoFile, "none">>, TRUE, TRUE, 0)
NoCase == [doc |-> "above", named |-> "none", base |-> "none", own |-> "none", ofBase |-> "https", out |-> {}]
NoCompose ==
  /\ stack = Harness /\ mods = <<>> /\ i = 0 /\ pc = "none" /\ roles = <<>> /\ res = NoResult /\ out = Nothing
  /\ edit = "none" /\ before = [out |-> Nothing, mods |-> <<>>]
NoSettings == world = NoWorld /\ composed = <<>> /\ last = T!NoCommand /\ commands = 0
NoReading == case = NoCase /\ at = "none" /\ went = {}
NoFiles ==
  /\ fs = <<>> /\ changes = 0 /\ manifest = None /\ choice = None /\ walled = FALSE /\ root = None /\ real = <<>>
  /\ entries = {} /\ left = {} /\ home = {} /\ step = "none" /\ still = FALSE

PartsInit ==
  \/ part = "compose" /\ Init /\ NoSettings /\ NoReading /\ NoFiles
  \/ part = "settings" /\ T!Init /\ NoCompose /\ NoReading /\ NoFiles
  \/ part = "reading" /\ K!Init /\ NoCompose /\ NoSettings /\ NoFiles
  \/ part = "files" /\ M!Init /\ NoCompose /\ NoSettings /\ NoReading
PartsNext ==
  /\ UNCHANGED part
  /\ \/ part = "compose" /\ Next /\ UNCHANGED <<settings, reading, files>>
     \/ part = "settings" /\ T!Next /\ UNCHANGED <<vars, reading, files>>
     \/ part = "reading" /\ K!Next /\ UNCHANGED <<vars, settings, files>>
     \/ part = "files" /\ M!Next /\ UNCHANGED <<vars, settings, reading>>
PartsSpec == PartsInit /\ [][PartsNext]_<<part, vars, settings, reading, files>>

(* What the files of a checkout decide.  Settings: on a base, and with a    *)
(* run key, they set no machine key; the verbs find the home that the last  *)
(* compose wrote; a walled run mounts the home the user's own file sets.    *)
(* InCheckout: what they list is read inside the checkout, or over https.   *)
(* ModuleTree: of a module the home holds all that the stack keeps, and     *)
(* nothing that lies outside of it.                                         *)
CheckoutDecidesItsOwn ==
  /\ T!RunnerConfigures /\ T!VerbsFindTheHome /\ T!WalledHomeIsTheUsers /\ K!StaysInCheckout
  /\ part = "files" => M!HomeHoldsTheModule
=============================================================================
