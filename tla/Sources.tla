------------------------------ MODULE Sources ------------------------------
(* One git source's cache (internal/source): composes of this machine that  *)
(* resolve one URL at one ref at a time, each with its own memo, and share  *)
(* the clones and the refs file without a lock, while the ref moves on the  *)
(* remote. A clone is kept per commit, made beside its place and renamed    *)
(* there once it is whole.                                                  *)
(*                                                                          *)
(* A clone's files, the exports of its qory.yaml, the texts and the named   *)
(* composes are left out. A pin is the commit it abbreviates. A compose     *)
(* that a failing file operation ends and one that is killed look the same  *)
(* to the others: both are Stop. A half clone comes from outside this code, *)
(* so only the first state has any.                                         *)
EXTENDS FiniteSets, Naturals
CONSTANTS
  Composes,
  Commits,
  None,
  Forms,      \* the forms of ref looked at, of AllForms
  MaxStarts,  \* bound: composes started
  MaxMoves    \* bound: changes of the remote
\* "name" may be a tag or a branch, "hex" an abbreviated commit as well; "heads" and
\* "tags" start with refs/heads/ and refs/tags/; "commit" is a full commit id
AllForms == {"name", "hex", "heads", "tags", "commit"}
ASSUME NoneAssumption == None \notin Commits
ASSUME FormsAssumption == Forms \subseteq AllForms
ASSUME BoundsAssumption == MaxStarts \in Nat /\ MaxMoves \in Nat
MaybeCommit == Commits \cup {None}

VARIABLES
  pc,       \* per compose: its next step
  update,   \* per compose: Options.Update
  pin,      \* per compose: Options.Pin
  memo,     \* per compose: the commit its Memo holds
  read,     \* per compose: the kind and the commit read from the refs file
  cached,   \* per compose: the commit it keeps when the remote is not reached
  found,    \* per compose: the tag and the branch that ls-remote listed
  goal,     \* per compose: what it fetches, and the kind it records
  got,      \* per compose: the commit it landed on
  warned,   \* per compose: whether its result has a warning
  form, id, \* the ref: its form, and the commit of a full commit id
  remote,   \* the tag and the branch of the ref's name on the remote
  clone,    \* per commit: its clone in the cache
  ref,      \* the refs file: a kind and a commit
  since,    \* history: per compose, the commits the ref named since the resolve began
  moved,    \* history: the commits whose whole clone was moved aside
  starts, moves
options == <<update, pin>>
found_ == <<read, cached, found>>
result == <<goal, got, warned>>
cache == <<clone, ref>>
outside == <<form, id, remote>>
history == <<since, moved>>
bounds == <<starts, moves>>
vars == <<pc, options, memo, found_, result, outside, cache, history, bounds>>

GoTo(p, step) == pc' = [pc EXCEPT ![p] = step]
Goes(p, step) ==
  GoTo(p, step) /\ UNCHANGED <<options, memo, found_, result, outside, cache, history, bounds>>
Cloned(c) == c # None /\ clone[c] = "whole"
NoRef == [kind |-> "unknown", commit |-> None]
Nothing == [tag |-> None, branch |-> None]
NoGoal == [what |-> "asWritten", kind |-> "unknown"]

(* What the remote has for the names that lsRemote asks for.                *)
Listed == [tag    |-> IF form = "heads" THEN None ELSE remote.tag,
           branch |-> IF form = "tags" THEN None ELSE remote.branch]
Named == {Listed.tag, Listed.branch} \ {None}

(* The commit a fetch lands on: git takes a tag before a branch of its name.*)
Fetchable(what) ==
  CASE what = "tag" -> {remote.tag} \ {None}
    [] what = "branch" -> {remote.branch} \ {None}
    [] what = "asWritten" /\ form = "commit" -> {id}
    [] OTHER -> IF Listed.tag # None THEN {Listed.tag} ELSE {Listed.branch} \ {None}

-----------------------------------------------------------------------------
(* What a resolve knew, but for its warning, ends with it.                  *)
Forgets(p) ==
  /\ read' = [read EXCEPT ![p] = NoRef] /\ cached' = [cached EXCEPT ![p] = None]
  /\ found' = [found EXCEPT ![p] = Nothing] /\ goal' = [goal EXCEPT ![p] = NoGoal]
  /\ got' = [got EXCEPT ![p] = None] /\ since' = [since EXCEPT ![p] = {}]

(* A compose starts with an empty memo, and ends between two sources, or at *)
(* any step.                                                                *)
Start(p, u, c) ==
  /\ pc[p] = "idle" /\ starts < MaxStarts
  /\ starts' = starts + 1
  /\ GoTo(p, "resolve")
  /\ update' = [update EXCEPT ![p] = u] /\ pin' = [pin EXCEPT ![p] = c]
  /\ UNCHANGED <<memo, found_, result, outside, cache, history, moves>>

Ends(p) ==
  /\ GoTo(p, "idle") /\ Forgets(p)
  /\ update' = [update EXCEPT ![p] = FALSE] /\ pin' = [pin EXCEPT ![p] = None]
  /\ memo' = [memo EXCEPT ![p] = None] /\ warned' = [warned EXCEPT ![p] = FALSE]
  /\ UNCHANGED <<outside, cache, moved, bounds>>

Stop(p) == pc[p] # "idle" /\ Ends(p)

(* resolveGit: the memo answers while its clone is there.                   *)
MemoAnswers(p) ==
  /\ pc[p] = "resolve" /\ Cloned(memo[p])
  /\ GoTo(p, "use") /\ got' = [got EXCEPT ![p] = memo[p]]
  /\ UNCHANGED <<options, memo, found_, goal, warned, outside, cache, history, bounds>>

(* Mutant: the remote is asked for each source.                             *)
MemoUnread(p) ==
  /\ pc[p] = "resolve"
  /\ GoTo(p, "begin") /\ since' = [since EXCEPT ![p] = Named]
  /\ warned' = [warned EXCEPT ![p] = FALSE]
  /\ UNCHANGED <<options, memo, found_, goal, got, outside, cache, moved, bounds>>

MemoMisses(p) ==
  /\ pc[p] = "resolve" /\ ~Cloned(memo[p])
  /\ GoTo(p, "begin") /\ since' = [since EXCEPT ![p] = Named]
  /\ warned' = [warned EXCEPT ![p] = FALSE]
  /\ UNCHANGED <<options, memo, found_, goal, got, outside, cache, moved, bounds>>

(* commitOf: a full commit id is its own answer.                            *)
IdCached(p) ==
  /\ pc[p] = "begin" /\ form = "commit" /\ ~update[p] /\ Cloned(id)
  /\ GoTo(p, "put") /\ got' = [got EXCEPT ![p] = id]
  /\ UNCHANGED <<options, memo, found_, goal, warned, outside, cache, history, bounds>>

FetchNext(p, what, kind) ==
  GoTo(p, "fetch") /\ goal' = [goal EXCEPT ![p] = [what |-> what, kind |-> kind]]

IdMissing(p) ==
  /\ pc[p] = "begin" /\ form = "commit" /\ ~update[p] /\ ~Cloned(id)
  /\ FetchNext(p, "asWritten", "commit")
  /\ UNCHANGED <<options, memo, found_, got, warned, outside, cache, history, bounds>>

(* Any other ref, and an update, reads the refs file.                       *)
ReadRef(p) ==
  /\ pc[p] = "begin" /\ (form # "commit" \/ update[p])
  /\ read' = [read EXCEPT ![p] = ref]
  /\ IF update[p] THEN FetchNext(p, "asWritten", ref.kind)
     ELSE GoTo(p, "cached") /\ UNCHANGED goal
  /\ UNCHANGED <<options, memo, cached, found, got, warned, outside, cache, history, bounds>>

(* The pin's clone first, then the one of the refs file.                    *)
CachedCommit(p) ==
  IF Cloned(pin[p]) THEN pin[p] ELSE IF Cloned(read[p].commit) THEN read[p].commit ELSE None

KeepTag(p) ==
  /\ pc[p] = "cached" /\ read[p].kind = "tag" /\ CachedCommit(p) # None
  /\ GoTo(p, "put")
  /\ got' = [got EXCEPT ![p] = CachedCommit(p)] /\ cached' = [cached EXCEPT ![p] = CachedCommit(p)]
  /\ UNCHANGED <<options, memo, read, found, goal, warned, outside, cache, history, bounds>>

LookUp(p) ==
  /\ pc[p] = "cached" /\ ~(read[p].kind = "tag" /\ CachedCommit(p) # None)
  /\ GoTo(p, "ask") /\ cached' = [cached EXCEPT ![p] = CachedCommit(p)]
  /\ UNCHANGED <<options, memo, read, found, result, outside, cache, history, bounds>>

(* lsRemote; without a cached commit, a failed lookup is a Stop.            *)
Answered(p) ==
  /\ pc[p] = "ask"
  /\ GoTo(p, "answered") /\ found' = [found EXCEPT ![p] = Listed]
  /\ UNCHANGED <<options, memo, read, cached, result, outside, cache, history, bounds>>

Unreached(p) ==
  /\ pc[p] = "ask" /\ cached[p] # None
  /\ GoTo(p, "put")
  /\ got' = [got EXCEPT ![p] = cached[p]] /\ warned' = [warned EXCEPT ![p] = TRUE]
  /\ UNCHANGED <<options, memo, found_, goal, outside, cache, history, bounds>>

-----------------------------------------------------------------------------
(* The remote listed commit c as a kind of ref.                             *)
IsListed(p, kind, c) ==
  \/ kind = "tag" /\ c = found[p].tag
  \/ kind = "branch" /\ found[p].tag = None /\ c = found[p].branch

ListedMissing(p) == \E kind \in {"tag", "branch"}, c \in Commits :
  /\ pc[p] = "answered" /\ IsListed(p, kind, c) /\ ~Cloned(c)
  /\ FetchNext(p, kind, kind)
  /\ UNCHANGED <<options, memo, found_, got, warned, outside, cache, history, bounds>>

(* Mutant: the commit of the refs file is taken while its clone is there.   *)
ListedRecorded(p) == \E kind \in {"tag", "branch"}, c \in Commits :
  /\ pc[p] = "answered" /\ IsListed(p, kind, found[p][kind]) /\ c = read[p].commit /\ Cloned(c)
  /\ GoTo(p, "put") /\ got' = [got EXCEPT ![p] = c]
  /\ UNCHANGED <<options, memo, found_, goal, warned, outside, cache, history, bounds>>

ListedCached(p) == \E kind \in {"tag", "branch"}, c \in Commits :
  /\ pc[p] = "answered" /\ IsListed(p, kind, c) /\ Cloned(c)
  /\ GoTo(p, IF read[p] = [kind |-> kind, commit |-> c] THEN "put" ELSE "write")
  /\ got' = [got EXCEPT ![p] = c]
  /\ goal' = [goal EXCEPT ![p] = [what |-> kind, kind |-> kind]]
  /\ UNCHANGED <<options, memo, found_, warned, outside, cache, history, bounds>>

(* A ref that was never a branch or a tag may abbreviate a commit; any      *)
(* other one is gone.                                                       *)
MayAbbreviate(p) == form = "hex" /\ read[p].kind \notin {"branch", "tag"}
Unlisted(p) == pc[p] = "answered" /\ found[p] = Nothing

Gone(p) ==
  /\ Unlisted(p) /\ ~MayAbbreviate(p) /\ Ends(p)

AbbreviatedCached(p) ==
  /\ Unlisted(p) /\ MayAbbreviate(p) /\ cached[p] # None
  /\ GoTo(p, "put") /\ got' = [got EXCEPT ![p] = cached[p]]
  /\ UNCHANGED <<options, memo, found_, goal, warned, outside, cache, history, bounds>>

AbbreviatedFetched(p) ==
  /\ Unlisted(p) /\ MayAbbreviate(p) /\ cached[p] = None
  /\ FetchNext(p, "asWritten", "unknown")
  /\ UNCHANGED <<options, memo, found_, got, warned, outside, cache, history, bounds>>

-----------------------------------------------------------------------------

(* fetch: into a folder beside the clones, whole before it is named.        *)
Fetch(p) ==
  /\ pc[p] = "fetch"
  /\ \E c \in Fetchable(goal[p].what) : got' = [got EXCEPT ![p] = c]
  /\ GoTo(p, "landed")
  /\ UNCHANGED <<options, memo, found_, goal, warned, outside, cache, history, bounds>>

(* The commit is known only now: a whole clone of it is kept.               *)
KeepClone(p) == pc[p] = "landed" /\ Cloned(got[p]) /\ Goes(p, "write")

NoWholeClone(p) == pc[p] = "landed" /\ ~Cloned(got[p]) /\ Goes(p, "stat")

(* Mutant: whatever is there is taken for the other fetch's clone.          *)
StatCloneTaken(p) ==
  pc[p] = "stat" /\ Goes(p, IF clone[got[p]] = "none" THEN "place" ELSE "write")

StatClone(p) ==
  pc[p] = "stat" /\ Goes(p, IF clone[got[p]] = "none" THEN "place" ELSE "aside")

(* What is there by now is moved aside, whole or not; nothing there is an   *)
(* error, a Stop.                                                           *)
MoveAside(p) ==
  /\ pc[p] = "aside" /\ clone[got[p]] # "none"
  /\ GoTo(p, "place") /\ clone' = [clone EXCEPT ![got[p]] = "none"]
  /\ moved' = IF clone[got[p]] = "whole" THEN moved \cup {got[p]} ELSE moved
  /\ UNCHANGED <<options, memo, found_, result, outside, ref, since, bounds>>

Place(p) ==
  /\ pc[p] = "place" /\ clone[got[p]] = "none"
  /\ GoTo(p, "write") /\ clone' = [clone EXCEPT ![got[p]] = "whole"]
  /\ UNCHANGED <<options, memo, found_, result, outside, ref, history, bounds>>

PlaceRefused(p) == pc[p] = "place" /\ clone[got[p]] # "none" /\ Goes(p, "lost")

(* Another fetch landed first; what is there must be whole.                 *)
UseOther(p) == pc[p] = "lost" /\ Cloned(got[p]) /\ Goes(p, "write")

(* writeRef: one whole file replaces the other.                             *)
WriteRef(p) ==
  /\ pc[p] = "write"
  /\ GoTo(p, "put") /\ ref' = [kind |-> goal[p].kind, commit |-> got[p]]
  /\ UNCHANGED <<options, memo, found_, result, outside, clone, history, bounds>>

(* Memo.put, and the clone's links resolved: a clone that is not there is   *)
(* an error, a Stop.                                                        *)
PutMemo(p) ==
  /\ pc[p] = "put"
  /\ GoTo(p, "use") /\ memo' = [memo EXCEPT ![p] = got[p]]
  /\ UNCHANGED <<options, found_, result, outside, cache, history, bounds>>

Resolved(p) ==
  /\ pc[p] = "use" /\ clone[got[p]] # "none"
  /\ GoTo(p, "resolve") /\ Forgets(p)
  /\ UNCHANGED <<options, memo, warned, outside, cache, moved, bounds>>

-----------------------------------------------------------------------------
(* Someone pushes, or deletes, the tag or the branch.                       *)
Push(t, b) ==
  /\ moves < MaxMoves /\ moves' = moves + 1
  /\ remote' = [tag |-> t, branch |-> b] /\ remote' # remote
  /\ since' = [p \in Composes |-> IF pc[p] \in {"idle", "resolve"} THEN {} ELSE since[p] \cup
                 ({IF form = "heads" THEN None ELSE t, IF form = "tags" THEN None ELSE b} \ {None})]
  /\ UNCHANGED <<pc, options, memo, found_, result, form, id, cache, moved, starts>>

Kinds == {"unknown", "branch", "tag", "commit"}
Whats == {"tag", "branch", "asWritten"}
Init ==
  /\ pc = [p \in Composes |-> "idle"]
  /\ update = [p \in Composes |-> FALSE] /\ pin = [p \in Composes |-> None]
  /\ memo = [p \in Composes |-> None]
  /\ read = [p \in Composes |-> NoRef] /\ cached = [p \in Composes |-> None]
  /\ found = [p \in Composes |-> Nothing]
  /\ goal = [p \in Composes |-> NoGoal]
  /\ got = [p \in Composes |-> None] /\ warned = [p \in Composes |-> FALSE]
  /\ form \in Forms /\ id \in IF form = "commit" THEN Commits ELSE {None}
  /\ remote \in [tag : MaybeCommit, branch : MaybeCommit]
  /\ clone \in [Commits -> {"none", "half"}] /\ ref = NoRef
  /\ since = [p \in Composes |-> {}] /\ moved = {}
  /\ starts = 0 /\ moves = 0

Resolve(p) ==
  \/ MemoAnswers(p) \/ MemoMisses(p) \/ IdCached(p) \/ IdMissing(p) \/ ReadRef(p)
  \/ KeepTag(p) \/ LookUp(p) \/ Answered(p) \/ Unreached(p)
  \/ ListedMissing(p) \/ ListedCached(p) \/ Gone(p) \/ AbbreviatedCached(p) \/ AbbreviatedFetched(p)
Land(p) ==
  \/ Fetch(p) \/ KeepClone(p) \/ NoWholeClone(p) \/ StatClone(p) \/ MoveAside(p)
  \/ Place(p) \/ PlaceRefused(p) \/ UseOther(p) \/ WriteRef(p) \/ PutMemo(p) \/ Resolved(p)

Next ==
  \/ \E p \in Composes : Resolve(p) \/ Land(p) \/ Stop(p)
  \/ \E p \in Composes, u \in BOOLEAN, c \in MaybeCommit : Start(p, u, c)
  \/ \E t, b \in MaybeCommit : Push(t, b)

Spec == Init /\ [][Next]_vars

-----------------------------------------------------------------------------
Steps == {"idle", "resolve", "begin", "cached", "ask", "answered", "fetch", "landed", "stat", "aside",
          "place", "lost", "write", "put", "use"}
Landing == {"landed", "stat", "aside", "place", "lost", "write", "put", "use"}
(* Type invariant: a compose that fetched has a commit.                     *)
TypeOK ==
  /\ pc \in [Composes -> Steps]
  /\ update \in [Composes -> BOOLEAN] /\ pin \in [Composes -> MaybeCommit]
  /\ memo \in [Composes -> MaybeCommit] /\ cached \in [Composes -> MaybeCommit]
  /\ read \in [Composes -> [kind : Kinds, commit : MaybeCommit]]
  /\ found \in [Composes -> [tag : MaybeCommit, branch : MaybeCommit]]
  /\ goal \in [Composes -> [what : Whats, kind : Kinds]]
  /\ got \in [Composes -> MaybeCommit] /\ warned \in [Composes -> BOOLEAN]
  /\ \A p \in Composes : pc[p] \in Landing => got[p] \in Commits
  /\ form \in AllForms /\ id \in MaybeCommit /\ (form = "commit" => id # None)
  /\ remote \in [tag : MaybeCommit, branch : MaybeCommit]
  /\ clone \in [Commits -> {"none", "half", "whole"}]
  /\ ref \in [kind : Kinds, commit : MaybeCommit]
  /\ since \in [Composes -> SUBSET Commits] /\ moved \subseteq Commits
  /\ starts \in Nat /\ moves \in Nat

(* cloned: a clone cut short is never what a resolve lands on, whoever made *)
(* it and whoever lands a clone there meanwhile.                            *)
NoHalfClone ==
  \A p \in Composes : pc[p] \in {"write", "put", "use"} => clone[got[p]] # "half"

(* commitOf: a result without a warning is a commit the ref named at some   *)
(* moment of this resolve, however the ref moved and whichever clones other *)
(* composes left; but a tag the cache knows stays on its commit, and a full *)
(* id, or a cached commit the ref may abbreviate, is not asked for.         *)
Kept(p) == read[p].kind = "tag" /\ ~update[p] /\ got[p] = cached[p]
FollowsTheRemote ==
  \A p \in Composes :
    pc[p] = "put" /\ ~warned[p] /\ ~Kept(p) /\ form # "commit" /\ ~(MayAbbreviate(p) /\ got[p] = cached[p])
      => got[p] \in since[p]

(* writeRef comes after the clone landed: whatever stops a compose, the     *)
(* refs file names a commit whose whole clone is there, unless a fetch of   *)
(* that commit moved it aside.                                              *)
RecordedIsCloned == ref.commit # None => Cloned(ref.commit) \/ ref.commit \in moved

(* Memo: the sources of one compose land on one commit, though the ref      *)
(* moves and other composes fetch, unless the clone of the first one was    *)
(* moved aside.                                                             *)
MemoHolds ==
  [][\A p \in Composes : memo[p] # None /\ memo'[p] \notin {None, memo[p]} => memo[p] \in moved]_vars

=============================================================================
