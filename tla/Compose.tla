------------------------------ MODULE Compose ------------------------------
(***************************************************************************)
(* One compose: the modules of a stack, read in their order, become one    *)
(* tree in which every entry comes from one module (ComposeWith and        *)
(* setRoles of internal/compose, and stack.Extend).  A checkout's qory.yaml*)
(* may compose its modules onto a base stack, which allows it some kinds,  *)
(* settings and instructions, and may exclude entries from the base's      *)
(* modules.  After the first compose somebody edits the harness and        *)
(* composes again: the modules in another order, the excludes that the     *)
(* compose suggested for a collision, or the base with nothing added.      *)
(*                                                                         *)
(* An entry is a pair <<kind, name>>, or <<"files">> and then the segments *)
(* of a path; a role is a pair that no entry has.                          *)
(* A module ships one settings fragment, for one file of one runtime, as   *)
(* its leaves: a path to a value.  Sources are resolved and files parsed   *)
(* (what cannot be ends the compose): the inputs are what was read.        *)
(***************************************************************************)
EXTENDS Naturals, Sequences, FiniteSets, SequencesExt

CONSTANTS Stacks,    \* a sequence of sets of harnesses, those that are composed
          Closed     \* what a base without an extending block has for one

(* A block: what an exclude or an only lists. *)
NoBlock == [entries |-> {}, inst |-> FALSE, settings |-> FALSE, env |-> {}]
(* A value of a settings leaf, and JSON's null. *)
Scalar(v) == [list |-> FALSE, v |-> <<v>>]
List(s) == [list |-> TRUE, v |-> s]
Null == [list |-> FALSE, v |-> <<>>]
Exported(name) == [list |-> FALSE, v |-> <<"$QORY_HARNESS_HOME/modules", name>>]
EnvPath(var) == <<"env", var>>

VARIABLES
  stack,   \* the harness: [base, own (the modules of each), extending, baseBind, bind, workflows, decided]
  mods,    \* the modules to compose, the base's first
  i, pc,   \* the module to read next, and the compose's place
  roles,   \* the roles before the selection
  res,     \* what the modules read so far gave
  out      \* how the compose ended
VARIABLES
  edit,    \* the edit before the second compose, "none" in the first
  before   \* how the first compose ended, and its modules
vars == <<stack, mods, i, pc, roles, res, out, edit, before>>

NoResult == [kept |-> <<>>, left |-> {}, settings |-> <<>>, env |-> <<>>, checks |-> <<>>, declared |-> {}]
Nothing == [ok |-> FALSE, why |-> "not ended"]
extends == stack.base # <<>>

(***************************************************************************)
(* The stack to compose.                                                   *)
(***************************************************************************)
Parts(b) == b.inst \/ b.settings \/ b.env # {}
besideOnly(m) == m.only # NoBlock => ~Parts(m.exclude) /\ m.only.entries \cap m.exclude.entries = {}
(* A module that the checkout's qory.yaml lists by the name of a base's. *)
Lists(m, b) == b.listed # "" /\ m.name = b.listed
ListsBase(m) == \E k \in DOMAIN stack.base : Lists(m, stack.base[k])
(* What the extending block lets a checkout's modules ship and exclude: a  *)
(* file under one of its prefixes, by segment, another entry by its kind.  *)
FileAllowed(path) == \E p \in stack.extending.files : IsPrefix(p, path)
Allowed(e) == IF e[1] = "files" THEN FileAllowed(Tail(e)) ELSE e[1] \in stack.extending.kinds
(* Mutant: an exclude from the base of any entry. *)
excludesAny(m) == ~m.source /\ ~m.placed /\ m.only = NoBlock /\ m.exclude # NoBlock /\ ~Parts(m.exclude)
(* A module is placed when its variant or its link is set. *)
checkoutExclude(m) ==
  /\ ~m.source /\ ~m.placed /\ m.only = NoBlock /\ m.exclude # NoBlock /\ ~Parts(m.exclude)
  /\ \A e \in m.exclude.entries : Allowed(e)
Extended ==
  LET listing(b) == SelectSeq(stack.own, LAMBDA m : Lists(m, b))
      of(b) == IF listing(b) = <<>> THEN {} ELSE Last(listing(b)).exclude.entries
  IN [k \in DOMAIN stack.base |-> [stack.base[k] EXCEPT !.base = TRUE, !.checkout = of(stack.base[k])]]
       \o SelectSeq(stack.own, LAMBDA m : ~ListsBase(m))

(***************************************************************************)
(* Roles: the base's bind, the modules' provides over it, the document's   *)
(* bind over both.                                                         *)
(***************************************************************************)
Providers(r, dropped) == {k \in DOMAIN mods : r \in DOMAIN mods[k].provides /\ mods[k].provides[r] \notin dropped[k]}
Provided(r, dropped) == {mods[k].provides[r] : k \in Providers(r, dropped)}
Unbound == UNION {DOMAIN mods[k].provides : k \in DOMAIN mods} \ DOMAIN stack.bind
TwoNamed(dropped) == {r \in Unbound : Cardinality(Provided(r, dropped)) > 1}
setRoles(dropped) ==
  LET one == {r \in Unbound : Cardinality(Provided(r, dropped)) = 1}
  IN [r \in DOMAIN stack.baseBind \cup DOMAIN stack.bind \cup one |->
        IF r \in DOMAIN stack.bind THEN stack.bind[r]
        ELSE IF r \in one THEN CHOOSE e \in Provided(r, dropped) : TRUE
        ELSE stack.baseBind[r]]
(* Mutant: what the checkout's qory.yaml excludes still provides. *)
excludedHere(m) == m.exclude.entries
excludedBy(m) == m.exclude.entries \cup m.checkout
checkProvides(m) == \A r \in DOMAIN m.provides : r[1] \in stack.extending.kinds

(***************************************************************************)
(* What a module contributes.                                              *)
(***************************************************************************)
Meaning(bound, ref) == IF ref \in DOMAIN bound THEN bound[ref] ELSE ref
Listed(f, e) == IF e \in DOMAIN f THEN f[e] ELSE {}
needs(m, bound, e) == Listed(m.requires, e) \cup {Meaning(bound, ref) : ref \in Listed(m.refs, e)}
(* What an only block brings in: what its entries need from the module,    *)
(* and what that needs.                                                    *)
Follow(m, bound, from) ==
  LET upTo[n \in 0..Cardinality(m.ships)] ==
        IF n = 0 THEN from
        ELSE upTo[n - 1] \cup UNION {needs(m, bound, e) \cap m.ships : e \in upTo[n - 1]}
  IN upTo[Cardinality(m.ships)]
only(m) == m.only # NoBlock
Block(m) == IF only(m) THEN m.only ELSE m.exclude
Pulled(m) == Follow(m, roles, m.only.entries) \ m.only.entries
Matches(m) ==
  LET b == Block(m) IN
  /\ b.entries \subseteq m.ships
  /\ only(m) => m.exclude.entries \subseteq Pulled(m)
  /\ b.inst => m.inst
  /\ b.settings => m.settings # <<>>
  /\ b.env \subseteq m.env
(* Under only what is listed or brought in stays, under exclude what is not listed. *)
applySelection(m) ==
  LET b == Block(m)
      keeps(listed) == listed = only(m)
  IN [entries |-> IF only(m) THEN m.only.entries \cup (Pulled(m) \ m.exclude.entries) ELSE m.ships \ b.entries,
      inst |-> m.inst /\ keeps(b.inst),
      settings |-> IF keeps(b.settings) THEN m.settings ELSE <<>>,
      env |-> {v \in m.env : keeps(v \in b.env)}]
Selected(m) == applySelection(m).entries
Contributes(m) == [applySelection(m) EXCEPT !.entries = @ \ m.checkout]
Left(m) == {[module |-> m.name, entry |-> e] : e \in m.ships \ Contributes(m).entries}

settingAllowed(path) == \E a \in stack.extending.settings : IsPrefix(a, path)
checkExtending(c) ==
  /\ \A e \in c.entries : Allowed(e)
  /\ c.inst => stack.extending.inst
  /\ \A path \in DOMAIN c.settings : settingAllowed(path)

(* Two fragments' values of one leaf.  A list under hooks is appended, and *)
(* one under permissions without what is there; any other value is one.    *)
decide(path, v) == IF \E x \in stack.decided : path = EnvPath(x) THEN Scalar("configured") ELSE v
Combines(path, d, v) == d.list /\ v.list /\ path[1] \in {"hooks", "permissions"}
(* Mutant: the last module that sets a value wins. *)
MergesLast(path, d, v) == TRUE
Merges(path, d, v) == d = Null \/ d = v \/ Combines(path, d, v)
merged(path, d, v) ==
  IF ~Combines(path, d, v) THEN v
  ELSE List(FoldLeft(LAMBDA to, x : IF path[1] = "permissions" /\ x \in ToSet(to) THEN to ELSE Append(to, x), d.v, v.v))
Leaf(settings, path) == IF path \in DOMAIN settings THEN settings[path] ELSE Null
mergeable(from) == \A path \in DOMAIN from : Merges(path, Leaf(res.settings, path), decide(path, from[path]))
mergeFile(from) ==
  [path \in DOMAIN res.settings \cup DOMAIN from |->
     IF path \in DOMAIN from THEN merged(path, Leaf(res.settings, path), decide(path, from[path])) ELSE res.settings[path]]

exports(c) == c.env \ stack.decided
addsTo(f, keys, v) == [k \in DOMAIN f \cup keys |-> IF k \in keys THEN v ELSE f[k]]
(* A check is for a type, and its program in an entry or, {}, in none. *)
addPushChecks(m) ==
  /\ DOMAIN m.checks \cap DOMAIN res.checks = {}
  /\ \A t \in DOMAIN m.checks : m.checks[t] \cap (m.ships \ Contributes(m).entries) = {}

(***************************************************************************)
(* The end of the compose.                                                 *)
(***************************************************************************)
Owners(e) == {k \in DOMAIN res.kept : e \in res.kept[k].entries}
Composed == UNION {res.kept[k].entries : k \in DOMAIN res.kept}
Collisions == {e \in Composed : Cardinality(Owners(e)) > 1}
(* The modules a collision's suggestion excludes the entry from: all but   *)
(* the last.  No exclude resolves one of a base module without a name.     *)
Suggested(e) == {k \in Owners(e) : \E l \in Owners(e) : k < l}
Rename(e) == \E k \in Suggested(e) : mods[k].base /\ mods[k].listed = ""
Suggest == [k \in DOMAIN mods |-> {e \in Collisions : ~Rename(e) /\ k \in Suggested(e)}]
exportsAgainstSettings ==
  \A v \in DOMAIN res.env : EnvPath(v) \in DOMAIN res.settings => res.settings[EnvPath(v)] = Exported(res.env[v])
leftOut == [k \in DOMAIN mods |-> {x.entry : x \in res.left} \ Composed]
(* Mutant: checked against what the modules ship. *)
checkResolvedShipped(bound) ==
  \A k \in DOMAIN mods : \A e \in res.kept[k].entries : needs(mods[k], bound, e) \subseteq UNION {mods[l].ships : l \in DOMAIN mods}
checkResolved(bound) ==
  /\ \A r \in DOMAIN bound : r \notin Composed /\ bound[r] \in Composed
  /\ \A k \in DOMAIN mods : \A e \in res.kept[k].entries :
       needs(mods[k], bound, e) \ {bound[ref] : ref \in Listed(mods[k].refs, e) \cap DOMAIN bound} \subseteq Composed
workflowsShipped == \A w \in stack.workflows : {<<"skills", w>>, <<"commands", w>>} \cap res.declared # {}

(***************************************************************************)
(* The steps.                                                              *)
(***************************************************************************)
Ends(how) == pc' = "ended" /\ out' = how
Fails(why) == Ends([ok |-> FALSE, why |-> why]) /\ UNCHANGED <<roles, res, i>>
kept == UNCHANGED <<stack, edit, before>>

(* stack.validate and Extend. *)
Extend ==
  /\ pc = "extend" /\ kept
  /\ LET fits == /\ \A k \in DOMAIN stack.own : besideOnly(stack.own[k])
                 /\ extends => /\ stack.extending # Closed
                               /\ \A k \in DOMAIN stack.own : ListsBase(stack.own[k]) => checkoutExclude(stack.own[k])
     IN \/ fits /\ mods' = Extended /\ pc' = "open" /\ UNCHANGED <<i, roles, res, out>>
        \/ ~fits /\ Fails("block") /\ UNCHANGED mods

(* Every manifest is read before the first module's entries. *)
Open ==
  /\ pc = "open" /\ kept /\ UNCHANGED mods
  /\ LET fits == /\ \A k, l \in DOMAIN mods : mods[k].name = mods[l].name => k = l
                 /\ extends => \A k \in DOMAIN mods : mods[k].base \/ checkProvides(mods[k])
     IN \/ /\ fits /\ roles' = setRoles([k \in DOMAIN mods |-> excludedBy(mods[k])])
           /\ i' = 1 /\ pc' = "read" /\ UNCHANGED <<res, out>>
        \/ ~fits /\ Fails("manifest")

(* The next module's entries: read, selected, checked and added. *)
Read ==
  /\ pc = "read" /\ i <= Len(mods) /\ kept /\ UNCHANGED <<mods, roles>>
  /\ LET m == mods[i]
         c == Contributes(m)
     IN \/ ~Matches(m) /\ Fails("block")
        \/ Matches(m) /\ ~(m.checkout \subseteq Selected(m)) /\ Fails("block")
        \/ Matches(m) /\ m.checkout \subseteq Selected(m) /\ extends /\ ~m.base /\ ~checkExtending(c) /\ Fails("extending")
        \/ /\ Matches(m) /\ m.checkout \subseteq Selected(m) /\ (extends /\ ~m.base => checkExtending(c))
           /\ \/ (DOMAIN res.env \cap exports(c) # {} \/ ~addPushChecks(m) \/ ~mergeable(c.settings)) /\ Fails("value")
              \/ /\ DOMAIN res.env \cap exports(c) = {} /\ addPushChecks(m) /\ mergeable(c.settings)
                 /\ res' = [kept |-> Append(res.kept, c), left |-> res.left \cup Left(m), settings |-> mergeFile(c.settings),
                            env |-> addsTo(res.env, exports(c), m.name), checks |-> addsTo(res.checks, DOMAIN m.checks, m.name),
                            declared |-> res.declared \cup (IF m.base \/ ~extends THEN Selected(m) ELSE {})]
                 /\ i' = i + 1 /\ UNCHANGED <<pc, out>>

Resolve ==
  /\ pc = "read" /\ i > Len(mods) /\ kept /\ UNCHANGED mods
  /\ LET bound == setRoles(leftOut) IN
     \/ Collisions # {} /\ Ends([ok |-> FALSE, why |-> "collision", excludes |-> Suggest, rename |-> \E e \in Collisions : Rename(e)])
                        /\ UNCHANGED <<roles, res, i>>
     \/ Collisions = {} /\ ~exportsAgainstSettings /\ Fails("value")
     \/ Collisions = {} /\ exportsAgainstSettings /\ TwoNamed(leftOut) # {} /\ Fails("roles")
     \/ Collisions = {} /\ exportsAgainstSettings /\ TwoNamed(leftOut) = {} /\ ~checkResolved(bound) /\ Fails("unresolved")
     \/ Collisions = {} /\ exportsAgainstSettings /\ TwoNamed(leftOut) = {} /\ checkResolved(bound) /\ ~workflowsShipped /\ Fails("workflow")
     \/ /\ Collisions = {} /\ exportsAgainstSettings /\ TwoNamed(leftOut) = {} /\ checkResolved(bound) /\ workflowsShipped
        /\ Ends([ok |-> TRUE, why |-> "composed",
                 entries |-> [e \in Composed |-> mods[CHOOSE k \in Owners(e) : TRUE].name], bind |-> bound,
                 settings |-> res.settings, env |-> res.env, checks |-> res.checks,
                 inst |-> {mods[k].name : k \in {l \in DOMAIN mods : res.kept[l].inst}}])
        /\ UNCHANGED <<roles, res, i>>

(* The edits between the two composes. *)
Again(what, harness) ==
  /\ pc = "ended" /\ edit = "none"
  /\ edit' = what /\ stack' = harness /\ before' = [out |-> out, mods |-> mods]
  /\ mods' = <<>> /\ i' = 0 /\ pc' = "extend" /\ roles' = <<>> /\ res' = NoResult /\ out' = Nothing
Swapped(s) == <<s[2], s[1]>> \o SubSeq(s, 3, Len(s))
Reorder ==
  \/ Len(stack.own) > 1 /\ Again("order", [stack EXCEPT !.own = Swapped(@)])
  \/ Len(stack.base) > 1 /\ Again("order", [stack EXCEPT !.base = Swapped(@)])
(* The base as a checkout composes it that adds nothing. *)
RemoveOwn == extends /\ stack.own # <<>> /\ Again("base", [stack EXCEPT !.own = <<>>, !.bind = <<>>])
(* The whole exclude to write for a base module, what it lists already     *)
(* included; for another module the suggested entries, beside its own.     *)
ExcludeOf(k) == mods[k].checkout \cup out.excludes[k]
TakeSuggestion ==
  /\ pc = "ended" /\ out.why = "collision" /\ \E k \in DOMAIN mods : out.excludes[k] # {}
  /\ LET blocked(k) == [NoBlock EXCEPT !.entries = ExcludeOf(k)]
         toList == SelectSeq([k \in 1..Len(stack.base) |->
                                [mods[k] EXCEPT !.name = mods[k].listed, !.base = FALSE, !.source = FALSE, !.placed = FALSE, !.only = NoBlock,
                                                !.exclude = blocked(k), !.checkout = {}]],
                             LAMBDA m : m.exclude.entries # {})
         edited(m) == LET k == CHOOSE k \in DOMAIN mods : ~mods[k].base /\ mods[k].name = m.name
                      IN [m EXCEPT !.exclude.entries = @ \cup out.excludes[k]]
         rest == SelectSeq(stack.own, LAMBDA m : ~ListsBase(m))
     IN Again("suggestion", [stack EXCEPT !.own = toList \o [k \in DOMAIN rest |-> edited(rest[k])]])

Init ==
  /\ \E n \in DOMAIN Stacks : stack \in Stacks[n]
  /\ mods = <<>> /\ i = 0 /\ pc = "extend" /\ roles = <<>> /\ res = NoResult /\ out = Nothing
  /\ edit = "none" /\ before = [out |-> Nothing, mods |-> <<>>]
Next == Extend \/ Open \/ Read \/ Resolve \/ Reorder \/ RemoveOwn \/ TakeSuggestion
Spec == Init /\ [][Next]_vars
-----------------------------------------------------------------------------
ended == pc = "ended"
Index(name) == CHOOSE k \in DOMAIN mods : mods[k].name = name

(* What a harness that composed says of other entries holds in it: every   *)
(* requirement and every reference of a composed entry, through the role   *)
(* it names, and the program of every push check.  A workflow has its      *)
(* skill or command, unless the checkout excluded it from the base.        *)
(* (checkResolved, addPushChecks and workflowsShipped of compose.go)       *)
EverythingResolves ==
  ended /\ out.ok =>
    LET has == DOMAIN out.entries IN
    /\ \A e \in has : LET m == mods[Index(out.entries[e])] IN
         Listed(m.requires, e) \cup {Meaning(out.bind, ref) : ref \in Listed(m.refs, e)} \subseteq has
    /\ DOMAIN out.bind \cap has = {}
    /\ \A t \in DOMAIN out.checks : \A e \in mods[Index(out.checks[t])].checks[t] : e \in has /\ out.entries[e] = out.checks[t]
    /\ \A w \in stack.workflows : \E e \in has \cup UNION {mods[k].checkout : k \in DOMAIN mods} :
         e \in {<<"skills", w>>, <<"commands", w>>}

(* An only brings in what its entries need, by the roles that the harness  *)
(* has in the end and not those it began with, and nothing else; and no    *)
(* compose ends for a need that an only could have brought in.  As doc.go  *)
(* says, it does not follow a role with two providers, or one whose        *)
(* provider an only left out; nor does it know of an entry that another    *)
(* module than the role's provider excludes or has in its place.           *)
(* (applySelection of compose.go and setRoles of roles.go)                 *)
Settled ==
  /\ \A k, l \in DOMAIN mods : \A r \in DOMAIN mods[k].provides \cap DOMAIN mods[l].provides :
       r \in DOMAIN stack.bind \/ mods[k].provides[r] = mods[l].provides[r]
  /\ \A k \in DOMAIN mods : \A r \in DOMAIN mods[k].provides : LET e == mods[k].provides[r] IN
       (e \in mods[k].exclude.entries \cup mods[k].checkout) = (e \notin Composed /\ \E l \in DOMAIN mods : e \in mods[l].ships)
OnlyBringsItsNeeds ==
  ended /\ out.why \in {"composed", "unresolved"} /\ Settled =>
    \A k \in DOMAIN mods : only(mods[k]) /\ mods[k].exclude = NoBlock =>
      /\ out.ok => Selected(mods[k]) = Follow(mods[k], out.bind, mods[k].only.entries)
      /\ ~out.ok => \A e \in res.kept[k].entries :
                      needs(mods[k], setRoles(leftOut), e) \cap mods[k].ships \subseteq Selected(mods[k])

(* The order of the modules decides nothing of a compose but the order in  *)
(* which instructions and lists are joined: no module wins over another.   *)
(* (collisions, merge, exportEnv, addPushChecks and setRoles; doc.go:43    *)
(* says so of collisions)                                                  *)
Unordered(settings) == [path \in DOMAIN settings |-> IF settings[path].list THEN ToSet(settings[path].v) ELSE settings[path].v]
OrderDecidesNothing ==
  ended /\ edit = "order" =>
    LET was == before.out IN
    /\ out.ok = was.ok
    /\ out.ok => /\ [out EXCEPT !.settings = Unordered(@)] = [was EXCEPT !.settings = Unordered(@)]

(* With the excludes that a collision's message suggests, the harness has  *)
(* no collision any more, and each exclude is one that it takes.  No       *)
(* exclude is suggested that it cannot take, but one of an entry that an   *)
(* only lists, and one that a checkout may not exclude from the base; and  *)
(* an excluded provider may change what an only follows.                   *)
(* (Suggest, ExcludeOf and collisions of compose.go, checkoutExclude and   *)
(* besideOnly of stack.go)                                                 *)
CanTake ==
  /\ ~before.out.rename
  /\ \A k \in DOMAIN before.out.excludes :
       LET m == before.mods[k]
           x == before.out.excludes[k]
       IN /\ x \cap m.only.entries = {}
          /\ m.base => \A e \in x : Allowed(e)
          /\ (\E r \in DOMAIN m.provides : m.provides[r] \in x) => \A l \in DOMAIN mods : ~only(mods[l])
SuggestionResolves == ended /\ edit = "suggestion" /\ CanTake => out.why \notin {"block", "collision"}

(* A harness that composes resolves, and one changed as its collisions      *)
(* suggest has none.                                                        *)
HarnessResolves == EverythingResolves /\ SuggestionResolves

(* What a base composes without the checkout it composes with it: a        *)
(* checkout's modules change and take no more of the base than its         *)
(* extending block says.  Only what an only of the base brings in may      *)
(* follow the checkout's roles.                                            *)
(* (checkExtending of extends.go, checkoutExclude and Extend of stack.go)  *)
BroughtIn(e) == \E k \in DOMAIN before.mods : before.mods[k].base /\ only(before.mods[k]) /\ e \in before.mods[k].ships
                                             /\ e \notin before.mods[k].only.entries
BaseStays ==
  ended /\ edit = "base" /\ out.ok /\ before.out.ok =>
    LET was == before.out
        Of(f) == DOMAIN f \cap DOMAIN was.entries
    IN /\ \A e \in DOMAIN out.entries \cup DOMAIN was.entries :
            \/ e \in Of(out.entries) /\ out.entries[e] = was.entries[e]
            \/ Allowed(e)
            \/ BroughtIn(e)
       /\ \A e \in Of(out.entries) : out.entries[e] # was.entries[e] =>
            \E k \in DOMAIN before.mods : before.mods[k].name = out.entries[e] /\ (e \in before.mods[k].checkout \/ BroughtIn(e))
       /\ \A path \in DOMAIN was.settings : settingAllowed(path) \/ (path \in DOMAIN out.settings /\ was.settings[path] = out.settings[path])
       /\ \A path \in DOMAIN out.settings : /\ path \in DOMAIN was.settings
                                            /\ out.settings[path].list => IsPrefix(out.settings[path].v, was.settings[path].v)
                                            /\ ~out.settings[path].list => was.settings[path] = out.settings[path]
       /\ \A v \in DOMAIN out.env : v \in DOMAIN was.env /\ was.env[v] = out.env[v]
       /\ \A t \in DOMAIN out.checks : t \in DOMAIN was.checks /\ was.checks[t] = out.checks[t]
       /\ out.inst \subseteq was.inst /\ (was.inst # out.inst => stack.extending.inst)
=============================================================================
