------------------------------- MODULE HostGit ------------------------------
(***************************************************************************)
(* Which settings of a checkout git on this machine acts on                *)
(* (internal/hostgit/check.go and record.go), which keys of its qory.yaml  *)
(* qory acts on (internal/acting), and what a person accepts               *)
(* (cmd/accept_checkout.go), while walled runs write the places they bind. *)
(*                                                                         *)
(* One checkout, "repo", in a folder "outer" that a run may bind as a      *)
(* whole; its .git is or names a git directory: "own" inside it, "lib" in  *)
(* another place a run may bind, or "away" in no place. A command's check, *)
(* its git and the hold between them are one step here, and their          *)
(* interleaving with the runs that start is module Places.                 *)
(***************************************************************************)
EXTENDS FiniteSets, Naturals, SequencesExt

CONSTANTS Kinds,             \* the person's checkouts, see Init
          LoadOrder,         \* the places, in the order of their records' files
          Keys, None,        \* acting keys a qory.yaml may set
          MaxRuns, MaxWrites, MaxEdits \* bounds: walled runs, their writes, edits of the person

VARIABLES
  dotgit,    \* the git directory the checkout's .git leads to, "hollow" for none
  commondir, \* the common directory the commondir of "own" names
  has,       \* per git directory: the items of its files, links and folders
  keys,      \* the acting keys of the checkout's qory.yaml
  rec,       \* per place: its record
  bound,     \* the places a walled run binds writable: no two of them overlap
  kept,      \* what the process keeps of its last full check of the checkout
  asked,     \* what accept-checkout showed the person, and waits on
  theirs,    \* history: what the person set, or was shown and accepted
  acted,     \* history: what the last command acted on that is not theirs
  taken,     \* history: an accept took all, and nothing changed since
  runs, writes, edits

files == <<dotgit, commondir, has, keys>>
history == <<theirs, acted, taken>>
bounds == <<runs, writes, edits>>
vars == <<files, rec, bound, kept, asked, history, bounds>>

-----------------------------------------------------------------------------
(* Places and git directories.                                             *)
GitDirs == {"own", "lib", "away"}
Spots == {"repo", "outer", "lib"}
Lies(x) == CASE x \in {"repo", "own"} -> {"repo", "outer"}
             [] x = "away" -> {} [] OTHER -> {x}
Recorded == {p \in Spots : rec[p] # None}
Containing(x) == Lies(x) \cap Recorded
Nearest == IF "repo" \in Recorded THEN "repo" ELSE "outer"
Overlap(p, q) == p \in Lies(q) \/ q \in Lies(p)
InUse(p) == \E q \in bound : Overlap(q, p)

CommonOf(g) == IF g = "own" THEN commondir ELSE g
(* Resolve: the git directory and the common directory of the checkout.    *)
Resolves == dotgit # "hollow"
Common == CommonOf(dotgit)

-----------------------------------------------------------------------------
(* What a git directory holds: settings of its config and its              *)
(* config.worktree, and what git reads beside them.                        *)
Urls == {"url1", "url2"}
WorktreeSettings == {"w:url2"}
Settings == {"fetch", "alias", "user.name", "include", "worktreeConfig"} \cup Urls \cup WorktreeSettings
Extras == {"remotes/x", "alternates", "link"}
Text == "included"        \* of lib: the file that "include" names
Items == Settings \cup Extras \cup {Text}
Written == {"fetch"}
UrlOf == Urls \cup {"w:url2"}

(* readConfigs: the settings of each file, and which of them git reads.    *)
ConfigOf(c) == has[c] \cap (Settings \ WorktreeSettings)
WorktreeOf(g) == has[g] \cap WorktreeSettings
RemoteFiles(c) == has[c] \cap {"remotes/x"}
ObjectFiles(c) == has[c] \cap {"alternates"}
Links(c) == has[c] \cap {"link"}
ExtrasOf(c) == RemoteFiles(c) \cup ObjectFiles(c) \cup Links(c)
WorktreeConfig(c) == "worktreeConfig" \in has[c]
ReadBy(g, c) == ConfigOf(c) \cup (IF WorktreeConfig(c) THEN WorktreeOf(g) ELSE {})
NoURL(g, c) == "fetch" \in ConfigOf(c) /\ ReadBy(g, c) \cap UrlOf = {}

(* What git and qory act on in the checkout: each with where it is from.   *)
(* The file an include names is the check's where the configuration is.    *)
Facts(c, items) == {<<c, i>> : i \in items}
GitReads(identity) ==
  IF ~Resolves THEN {}
  ELSE LET g == dotgit  c == Common IN
       Facts(g, ReadBy(g, c) \cap WorktreeSettings)
         \cup Facts(c, (ConfigOf(c) \ (Written \cup IF identity THEN {"user.name"} ELSE {})) \cup ExtrasOf(c))
         \cup (IF NoURL(g, c) THEN {<<c, "no url">>} ELSE {})
         \cup (IF Containing(c) # {} /\ "include" \in ConfigOf(c) /\ Text \in has["lib"] THEN {<<"lib", Text>>} ELSE {})
KeyFacts(ks) == Facts("qory.yaml", ks)

-----------------------------------------------------------------------------
(* The check of the checkout against the records.                          *)
Fingerprint(g, c, tree) ==
  [tree |-> tree, gitdir |-> g, common |-> c, settings |-> ConfigOf(c),
   worktree |-> WorktreeOf(g), extras |-> ExtrasOf(c)]

(* entry: recorded for the work tree, else for the common directory.       *)
OfTree(e) == e.tree = "repo"
OfCommon(e) == e.common = Common
Entry ==
  LET t == SelectSeq(LoadOrder, LAMBDA p : rec[p] # None /\ \E e \in rec[p].git : OfTree(e))
      c == SelectSeq(LoadOrder, LAMBDA p : rec[p] # None /\ \E e \in rec[p].git : OfCommon(e)) IN
  CASE t # <<>> -> CHOOSE e \in rec[t[1]].git : OfTree(e)
    [] t = <<>> /\ c # <<>> -> CHOOSE e \in rec[c[1]].git : OfCommon(e)
    [] OTHER -> [tree |-> None, gitdir |-> None, common |-> None, settings |-> {}, worktree |-> {}, extras |-> {}]

SamePlaces(fp) == fp.gitdir = dotgit /\ fp.common = Common
Pointer(fp) == OfTree(fp) /\ ~SamePlaces(fp)
(* checked: whether the check reads a configuration file that lies in x.   *)
Checked(fp, x) ==
  \/ Containing(x) # {}
  \/ Containing("repo") \cup Containing(dotgit) # {} /\ ~(OfTree(fp) /\ SamePlaces(fp))
(* accepted: an include also has to name a file outside every place.       *)
Accepted(s, held) ==
  IF s = "include" THEN s \in held /\ "lib" \notin Recorded ELSE s \in Written \cup held
NotAccepted(fp, moved) ==
  LET Of(now, held) == {s \in now : ~Accepted(s, IF moved THEN {} ELSE held)} IN
  (IF Checked(fp, Common) THEN Of(ConfigOf(Common), fp.settings) ELSE {})
    \cup (IF Checked(fp, dotgit) THEN Of(WorktreeOf(dotgit), fp.worktree) ELSE {})
HeldExtras(fp) == IF fp.common = Common THEN fp.extras ELSE {}
RemoteFilesRefused(fp) == Checked(fp, Common) /\ RemoteFiles(Common) # {}
ObjectFilesRefused(fp) == Checked(fp, Common) /\ ~(ObjectFiles(Common) \subseteq HeldExtras(fp))
LinksRefused(fp) == Checked(fp, Common) /\ ~(Links(Common) \subseteq HeldExtras(fp))
ExtrasRefused(fp) == RemoteFilesRefused(fp) \/ ObjectFilesRefused(fp) \/ LinksRefused(fp)
NoURLRefused(fp) ==
  NoURL(dotgit, Common) /\ Checked(fp, Common)

(* The places the check holds, each refused while a run uses it.           *)
Holds == UNION {Containing(x) : x \in {"repo"} \cup IF Resolves THEN {dotgit, Common} ELSE {}}
NoneInUse == \A p \in Holds : ~InUse(p)
FullCheck(identity) ==
  IF ~Resolves THEN Containing("repo") = {}
  ELSE LET fp == Entry IN
       /\ ~Pointer(fp) /\ ~NoURLRefused(fp) /\ ~ExtrasRefused(fp)
       /\ NotAccepted(fp, FALSE) \subseteq IF identity THEN {"user.name"} ELSE {}
(* The sums of every file the full check depends on.                       *)
Nothing == <<>>
Watched == <<dotgit, Common>>
Sums == IF Resolves THEN Watched \o <<has[Common], WorktreeOf(dotgit)>> ELSE Nothing
Same == kept # Nothing /\ kept = Sums

-----------------------------------------------------------------------------
(* A command: the settings check, and git under its hold.                  *)
ActsOn(facts) == acted' = facts \ theirs
GitRuns(identity) ==
  /\ Recorded # {} => NoneInUse
  /\ \/ Recorded = {} /\ UNCHANGED kept
     \/ Recorded # {} /\ Same /\ UNCHANGED kept
     \/ /\ Recorded # {} /\ ~Same /\ FullCheck(identity)
        /\ kept' = IF identity THEN kept ELSE Sums
  /\ ActsOn(GitReads(identity))
  /\ UNCHANGED <<files, rec, bound, asked, theirs, taken, bounds>>

(* acting.Check: a file in a place sets no key its record does not hold.   *)
ChangedKeys == keys \ rec[Nearest].keys
KeysHeld == Containing("repo") # {} => ChangedKeys = {}
QoryReads ==
  /\ KeysHeld /\ ActsOn(KeyFacts(keys))
  /\ UNCHANGED <<files, rec, bound, kept, asked, theirs, taken, bounds>>

-----------------------------------------------------------------------------
(* A walled run: it records the place it binds, writes there and ends.     *)

(* A new record drops what the process keeps: its folder changed.          *)
Kept(r) == IF r = rec THEN kept ELSE Nothing
Recording(r) == rec' = r /\ kept' = Kept(r)

(* Record: a repository at the place is checked against the earlier        *)
(* records, and fingerprinted; with it the qory files of the checkout.     *)
RepositoryAt(p) ==
  CASE p = "repo" /\ Resolves -> {Fingerprint(dotgit, Common, "repo")}
    [] p = "lib" -> {Fingerprint("lib", "lib", "lib")}
    [] OTHER -> {}
KeysAt(p) == IF p = "repo" THEN keys ELSE {}
RecordOf(p) == [git |-> RepositoryAt(p), keys |-> KeysAt(p)]
MayRecord(p) ==
  p = "repo" => /\ KeysHeld
                /\ Recorded # {} /\ Resolves => FullCheck(FALSE) /\ NoneInUse
RunStarts(p) ==
  /\ runs < MaxRuns /\ runs' = runs + 1 /\ ~InUse(p)
  /\ p \in Recorded \/ MayRecord(p)
  /\ Recording(IF p \in Recorded THEN rec ELSE [rec EXCEPT ![p] = RecordOf(p)])
  /\ bound' = bound \cup {p}
  /\ acted' = {} /\ taken' = FALSE
  /\ UNCHANGED <<files, asked, theirs, writes, edits>>

Changes == taken' = FALSE /\ acted' = {}
RunWrites(p) ==
  /\ p \in bound /\ writes < MaxWrites /\ writes' = writes + 1
  /\ \/ \E d \in {d \in GitDirs : p \in Lies(d)}, i \in Items :
          /\ i = Text => d = "lib"
          /\ has' = [has EXCEPT ![d] = IF i \in @ THEN @ \ {i} ELSE @ \cup {i}]
          /\ UNCHANGED <<dotgit, commondir, keys>>
     \/ /\ p \in Lies("repo")
        /\ \/ \E g \in (GitDirs \cup {"hollow"}) \ {dotgit} : dotgit' = g /\ UNCHANGED <<commondir, has, keys>>
           \/ \E c \in GitDirs \ {commondir} : commondir' = c /\ UNCHANGED <<dotgit, has, keys>>
           \/ \E k \in Keys : keys' = (keys \cup {k}) \ (keys \cap {k}) /\ UNCHANGED <<dotgit, commondir, has>>
  /\ Changes /\ UNCHANGED <<rec, bound, kept, asked, theirs, runs, edits>>

RunEnds(p) ==
  /\ p \in bound /\ bound' = bound \ {p} /\ acted' = {}
  /\ UNCHANGED <<files, rec, kept, asked, theirs, taken, bounds>>

(* The person sets or removes something, while no run works beside them.   *)
PersonEdits ==
  /\ edits < MaxEdits /\ edits' = edits + 1
  /\ bound = {}
  /\ \/ \E i \in Items \ {Text} :
          /\ Resolves /\ UNCHANGED <<dotgit, commondir, keys>>
          /\ LET d == IF i \in WorktreeSettings THEN dotgit ELSE Common IN
             /\ has' = [has EXCEPT ![d] = IF i \in @ THEN @ \ {i} ELSE @ \cup {i}]
             /\ theirs' = theirs \cup {<<d, i>>}
                            \cup IF i \in UrlOf \cup {"fetch", "worktreeConfig"} THEN {<<Common, "no url">>} ELSE {}
     \/ \E k \in Keys : /\ keys' = (keys \cup {k}) \ (keys \cap {k}) /\ theirs' = theirs \cup KeyFacts({k})
                        /\ UNCHANGED <<dotgit, commondir, has>>
  /\ Changes /\ UNCHANGED <<rec, bound, kept, asked, runs, writes>>

-----------------------------------------------------------------------------
(* qory setup repo --accept-checkout.                                      *)

(* acceptList: what the checks would refuse, and what an accept takes, from *)
(* the same reads. No accept takes a remote with no URL, or an extra.      *)
Moved(fp) == Pointer(fp)
CanList == Resolves => ~NoURLRefused(Entry) /\ ~ExtrasRefused(Entry)
AcceptList ==
  LET fp == Entry  no == IF Resolves THEN NotAccepted(fp, Moved(fp)) ELSE {}
      includes == IF "lib" \in Recorded THEN no \cap {"include"} ELSE {}
  IN [lines |-> no \ includes, includes |-> includes, moved |-> Resolves /\ Moved(fp),
      fingerprint |-> IF Resolves THEN Fingerprint(dotgit, Common, "repo") ELSE None, new |-> ChangedKeys, keys |-> keys]

AcceptAsks ==
  /\ asked = None /\ Containing("repo") # {} /\ CanList /\ NoneInUse
  /\ LET a == AcceptList IN a.lines # {} \/ a.moved \/ a.new # {}
  /\ asked' = AcceptList /\ acted' = {}
  /\ UNCHANGED <<files, rec, bound, kept, theirs, taken, bounds>>

Shown == Facts(asked.fingerprint.common, asked.lines \ WorktreeSettings)
           \cup Facts(asked.fingerprint.gitdir, asked.lines \cap WorktreeSettings)
AskedAlone == CanList
Unchanged == CanList /\ AcceptList = asked
(* The entry of the work tree or the common directory is replaced.         *)
Takes(r) ==
  LET fp == AcceptList.fingerprint
      old == {e \in r.git : OfTree(e) \/ e.common = fp.common} IN
  [git |-> IF fp = None THEN r.git
           ELSE (r.git \ IF old = {} THEN {} ELSE {CHOOSE e \in old : TRUE}) \cup {fp},
   keys |-> keys]
AcceptTakes ==
  /\ asked # None /\ NoneInUse /\ Unchanged
  /\ Recording([rec EXCEPT ![Nearest] = Takes(@)])
  /\ theirs' = theirs \cup KeyFacts(asked.new) \cup IF asked.fingerprint = None THEN {} ELSE Shown
  /\ taken' = (asked.includes = {} /\ Resolves)
  /\ asked' = None /\ acted' = {}
  /\ UNCHANGED <<files, bound, bounds>>
(* Another answer, no terminal, a checkout that changed, a place in use.   *)
AcceptEnds ==
  /\ asked # None /\ asked' = None /\ acted' = {}
  /\ UNCHANGED <<files, rec, bound, kept, theirs, taken, bounds>>

-----------------------------------------------------------------------------
(* A checkout of the person's: its git directory, what that holds and the  *)
(* keys of its qory.yaml.                                                  *)
Init ==
  /\ \E k \in Kinds :
       /\ dotgit = k.gitdir /\ commondir = "own" /\ keys = k.keys
       /\ has = [d \in GitDirs |-> IF d = k.gitdir THEN k.has ELSE {"fetch", "url1"}]
       /\ theirs = Facts(k.gitdir, k.has) \cup Facts("lib", {"fetch", "url1"}) \cup KeyFacts(k.keys)
  /\ rec = [p \in Spots |-> None] /\ bound = {}
  /\ kept = Nothing /\ asked = None /\ acted = {} /\ taken = FALSE
  /\ runs = 0 /\ writes = 0 /\ edits = 0

Next ==
  \/ \E p \in Spots : RunStarts(p) \/ RunWrites(p) \/ RunEnds(p)
  \/ \E identity \in BOOLEAN : GitRuns(identity)
  \/ QoryReads \/ PersonEdits \/ AcceptAsks \/ AcceptTakes \/ AcceptEnds
Spec == Init /\ [][Next]_vars

-----------------------------------------------------------------------------
(* A command never acts on a setting, a remote's URL, a file, a link or an *)
(* acting key that neither the person set nor accept-checkout showed them  *)
(* before they said yes (hostgit's check, acting.Check).                   *)
ActsOnTheirs == acted = {}

(* An accept has its effect: with nothing changed since, the checks of the *)
(* checkout pass (the texts of RefusedError: "qory setup repo              *)
(* --accept-checkout accepts it"). The nearest record alone holds the      *)
(* checkout: see README on an entry an outer place keeps.                  *)
OneEntry == \A p \in Recorded \ {Nearest} : ~\E e \in rec[p].git : OfTree(e)
AcceptPasses == taken /\ OneEntry => FullCheck(FALSE) /\ KeysHeld
=============================================================================
