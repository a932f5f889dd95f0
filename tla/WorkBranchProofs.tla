-------------------------- MODULE WorkBranchProofs --------------------------
(***************************************************************************)
(* Proofs about WorkBranch, for any runs, repositories and stages, any     *)
(* number of tries and any changes an agent or a person makes.  The        *)
(* invariant has a part for what the forge serves, one for where a run     *)
(* goes on from, one for the versions, one for their number and one for    *)
(* what a commit leaves out.                                               *)
(***************************************************************************)
EXTENDS WorkItem, FiniteSetTheorems, WellFoundedInduction, TLAPS

(* What the forge serves: the branches, the versions, what a run read of    *)
(* one and what it pushed.                                                  *)
TipsServed == \A p \in Repos : tip[p] \in served[p] \cup {None} /\ Main \in served[p]
RunServed(r) ==
  \A p \in Repos : /\ version[r][p] \in served[p] \cup {None}
                   /\ start[r][p] \in served[p]
                   /\ p \in pushed[r] => ahead[r][p] \in served[p]
                   /\ pc[r] \in Storing /\ ahead[r][p] # None => p \in pushed[r]
                   /\ pc[r] \notin {"push"} \cup Storing => p \notin pushed[r]

(* A run goes on from the commits of its version.                           *)
GoesOn(r) ==
  /\ approved[r] \in 0..Len(index)
  /\ \A p \in Repos :
       /\ pc[r] \in {"agent", "left", "push"} \cup Storing /\ version[r][p] # None
            => start[r][p] = version[r][p]
       /\ pc[r] \in {"push"} \cup Storing /\ ahead[r][p] # None => IsPrefix(start[r][p], ahead[r][p])

(* What a run's POSTs store does not change from the first one on.          *)
Of(r) == {i \in DOMAIN index : index[i].writer = r}
Settled(r) ==
  /\ posts[r] > 0 => pc[r] \in Storing
  /\ \A i \in Of(r) : pc[r] \in Storing /\ index[i].doc = withCommit(r)

(* A run sends a POST only with none of its versions in the index, but for  *)
(* those served late.                                                       *)
Counted(r) ==
  /\ Cardinality(Of(r)) <= 1 + late[r]
  /\ pc[r] = "store" => Cardinality(Of(r)) <= late[r]
  /\ pc[r] = "stored" => Has(r)

(* No commit on the forge, or to be pushed, has a .qory of its own.         *)
Clean(c) == "qory" \notin Tree(c)
SetupStays(c) == Last(c).own /\ "setup" \in Tree(c) => "setup" \in Tree(Front(c))
ForgeClean == \A p \in Repos : \A c \in served[p] : Clean(c)
Heads(r, p) ==
  {start[r][p]} \cup {Append(start[r][p], Change(r, FALSE, t)) : t \in SUBSET Paths}
    \cup {<<Change(r, FALSE, t)>> : t \in SUBSET Paths}
LeavesOut(r) ==
  \A p \in Repos :
    /\ pc[r] = "left" => head[r][p] \in Heads(r, p)
    /\ pc[r] \in {"push"} \cup Storing /\ ahead[r][p] # None => Clean(ahead[r][p]) /\ SetupStays(ahead[r][p])

RunInv(r) == RunServed(r) /\ GoesOn(r) /\ Settled(r) /\ Counted(r) /\ LeavesOut(r)
IInv == TypeOK /\ TipsServed /\ VersionsArePushed /\ ForgeClean /\ \A r \in Runs : RunInv(r)
-----------------------------------------------------------------------------
(* Commits.                                                                 *)

(* The commit all begin at is one, and no entry is a document.              *)
LEMMA RepositoriesAre == Main \in AnyCommit /\ Tree(Main) = {} /\ Unbegun \in [Repos -> AnyCommit]
        /\ NoEntry \in Docs
BY DEF Main, Tree, Last, AnyCommit, Changes, Paths, Unbegun, NoEntry, Docs

(* A commit on top of another one.                                          *)
LEMMA AppendedCommit ==
  ASSUME NEW c \in Seq(Changes), NEW e \in Changes
  PROVE  /\ Append(c, e) \in AnyCommit /\ Last(Append(c, e)) = e /\ Tree(Append(c, e)) = e.tree
         /\ Front(Append(c, e)) = c
<1>1. /\ Append(c, e) \in Seq(Changes) /\ Len(Append(c, e)) = Len(c) + 1 /\ Len(c) \in Nat
      /\ Append(c, e)[Len(c) + 1] = e
  OBVIOUS
<1>2. Append(c, e) # <<>> /\ Last(Append(c, e)) = e
  BY <1>1 DEF Last
<1>3. SubSeq(Append(c, e), 1, Len(c)) = c
  BY <1>1
<1> QED
  BY <1>1, <1>2, <1>3 DEF AnyCommit, Tree, Front

(* The tree of a commit is a tree.                                          *)
LEMMA TreeOfCommit == ASSUME NEW c \in AnyCommit PROVE Tree(c) \subseteq Paths
<1>1. c \in Seq(Changes) /\ Len(c) \in 1..Len(c) /\ c[Len(c)] \in Changes
  BY DEF AnyCommit
<1> QED
  BY <1>1 DEF Tree, Last, Changes

(* Every commit descends from itself.                                       *)
LEMMA PrefixOfItself == ASSUME NEW c \in AnyCommit PROVE IsPrefix(c, c)
BY DEF AnyCommit, IsPrefix

(* The commit of qory's on what the agent left.                             *)
LEMMA CommitLeftIs ==
  ASSUME TypeOK, NEW r \in Runs, NEW p \in Repos
  PROVE  /\ commitLeft(r, p) \in AnyCommit
         /\ Clean(start[r][p]) => Clean(commitLeft(r, p))
         /\ head[r][p] \in Heads(r, p) /\ commitLeft(r, p) # start[r][p] => SetupStays(commitLeft(r, p))
<1> DEFINE was == Tree(head[r][p])
           changed == {path \in files[r][p] \cup was : (path \in files[r][p]) # (path \in was)}
           taken == {path \in changed : ~leftOut(r, p, path)}
           staged == restoreLeftOut(r, p, (was \ taken) \cup (files[r][p] \cap taken))
           own == Change(r, TRUE, staged)
<1>1. commitLeft(r, p) = IF staged = was THEN head[r][p] ELSE Append(head[r][p], own)
  BY DEF commitLeft
<1>2. head[r][p] \in AnyCommit /\ files[r][p] \subseteq Paths /\ start[r][p] \in AnyCommit
  BY DEF TypeOK, ForgeType, StartedType, FolderType, StepType
<1>3. was \subseteq Paths /\ Tree(start[r][p]) \subseteq Paths
  BY <1>2, TreeOfCommit
<1>4. staged \subseteq Paths
  BY <1>2, <1>3 DEF restoreLeftOut
<1>5. own \in Changes /\ own.tree = staged
  BY <1>4 DEF Change, Changes
<1>6. Append(head[r][p], own) \in AnyCommit /\ Tree(Append(head[r][p], own)) = staged
      /\ Front(Append(head[r][p], own)) = head[r][p]
  BY <1>2, <1>5, AppendedCommit DEF AnyCommit
<1>7. commitLeft(r, p) \in AnyCommit /\ Tree(commitLeft(r, p)) = staged
  BY <1>1, <1>2, <1>6
<1>8. Clean(start[r][p]) => "qory" \notin staged
  BY DEF Clean, restoreLeftOut
<1>9. "setup" \in staged => "setup" \in was
  BY DEF restoreLeftOut, leftOut
<1>10. ASSUME head[r][p] \in Heads(r, p), commitLeft(r, p) # start[r][p] PROVE SetupStays(commitLeft(r, p))
  <2>1. CASE staged # was
    BY <2>1, <1>1, <1>6, <1>7, <1>9 DEF SetupStays
  <2>2. CASE staged = was
    <3>1. head[r][p] # start[r][p]
      BY <1>1, <1>10, <2>2
    <3>2. PICK t \in SUBSET Paths : \/ head[r][p] = Append(start[r][p], Change(r, FALSE, t))
                                    \/ head[r][p] = <<Change(r, FALSE, t)>>
      BY <1>10, <3>1 DEF Heads
    <3>3. Change(r, FALSE, t) \in Changes /\ Change(r, FALSE, t).own = FALSE
      BY DEF Change, Changes
    <3>4. Last(head[r][p]) = Change(r, FALSE, t)
      <4>1. CASE head[r][p] = Append(start[r][p], Change(r, FALSE, t))
        BY <4>1, <3>3, <1>2, AppendedCommit DEF AnyCommit
      <4>2. CASE head[r][p] = <<Change(r, FALSE, t)>>
        BY <4>2 DEF Last
      <4> QED
        BY <3>2, <4>1, <4>2
    <3> QED
      BY <1>1, <2>2, <3>3, <3>4 DEF SetupStays
  <2> QED
    BY <2>1, <2>2
<1> QED
  BY <1>7, <1>8, <1>10 DEF Clean

-----------------------------------------------------------------------------
(* The steps: an end before the first POST, where the forge may have taken  *)
(* a push that failed, and a step that only moves pc.                       *)
Taken(r, p) == tip' = [tip EXCEPT ![p] = ahead[r][p]] /\ served' = [served EXCEPT ![p] = @ \cup {ahead[r][p]}]
Ended(r) ==
  /\ pc[r] \notin Storing
  /\ \E how \in {"stopped", "no branch", "nothing new", "pushed, no version"} : Ends(r, how)
  /\ \/ UNCHANGED forge
     \/ pc[r] = "push" /\ \E p \in Repos : ahead[r][p] # None /\ Taken(r, p)
  /\ UNCHANGED <<index, moves>>
Moved(r) ==
  /\ \/ pc[r] = "idle" /\ GoTo(r, "snapshot")
     \/ pc[r] \in {"store", "ask"} /\ \E to \in {"not stored", "not known"} : GoTo(r, to)
  /\ UNCHANGED <<forge, index, started, folder, step, moves>>
RunStep(r) ==
  \/ Moved(r) \/ Ended(r) \/ ReadsWorkItem(r) \/ ReadsBranch(r) \/ Switches(r) \/ AgentWorks(r) \/ Commits(r)
  \/ (\E p \in Repos : pushTo(r, p)) \/ postBranch(r) \/ branchStored(r) \/ ServedLate(r)

(* A step changes nothing, or is one of a run or of a person.               *)
LEMMA StepIs == TypeOK /\ [Next]_vars => UNCHANGED vars \/ PersonMoves \/ \E r \in Runs : RunStep(r)
<1> SUFFICES ASSUME TypeOK, [Next]_vars PROVE UNCHANGED vars \/ PersonMoves \/ \E r \in Runs : RunStep(r)
  OBVIOUS
<1>1. ASSUME NEW r \in Runs, Starts(r) \/ CheckFails(r) PROVE Moved(r)
  BY <1>1 DEF Starts, CheckFails, Moved
<1>2. ASSUME NEW r \in Runs, PushesNothing(r) PROVE Ended(r)
  BY <1>2 DEF PushesNothing, Ended, Storing
<1>3. ASSUME NEW r \in Runs, FeatureOff(r) \/ StopsBefore(r) \/ NotKept(r) \/ NothingNew(r) PROVE Ended(r)
  BY <1>3 DEF FeatureOff, StopsBefore, NotKept, NothingNew, Ended, Storing
<1>4. ASSUME NEW r \in Runs, NEW p \in Repos, PushFails(r, p) PROVE Ended(r)
  BY <1>4 DEF PushFails, NextToPush, Ended, Taken, Storing
<1>5. ASSUME NEW r \in Runs, Cut(r) PROVE Ended(r) \/ Moved(r)
  BY <1>5 DEF Cut, Ended, Moved, Storing
<1>6. ASSUME NEW r \in Runs, Pushes(r) PROVE RunStep(r)
  BY <1>6, <1>2, <1>3, <1>4 DEF Pushes, NotSafe, LockStays, CommitFails, NotOnTop, RunStep
<1> QED
  BY <1>1, <1>3, <1>5, <1>6 DEF Next, Prepares, Works, Stores, RunStep

-----------------------------------------------------------------------------
(* The index.                                                               *)
LEMMA WithCommitIs == ASSUME TypeOK, NEW r \in Runs PROVE withCommit(r) \in Docs /\ Version(r) \in Versions
BY DEF TypeOK, ForgeType, StartedType, FolderType, StepType, withCommit, Docs, Version, Versions

(* The versions of a run are finitely many.                                 *)
LEMMA OfIsFinite ==
  ASSUME TypeOK, NEW r \in Runs
  PROVE  IsFiniteSet(Of(r)) /\ Cardinality(Of(r)) \in Nat /\ (Of(r) = {} => Cardinality(Of(r)) = 0)
<1>1. Of(r) \subseteq 1..Len(index) /\ Len(index) \in Int
  BY DEF Of, TypeOK, ForgeType, StartedType, FolderType, StepType
<1>2. IsFiniteSet(1..Len(index))
  BY <1>1, FS_Interval
<1>3. IsFiniteSet(Of(r))
  BY <1>1, <1>2, FS_Subset
<1> QED
  BY <1>3, FS_CardinalityType, FS_EmptySet

(* The index after a version was appended.                                  *)
LEMMA IndexGrows ==
  ASSUME TypeOK, NEW v \in Versions, index' = Append(index, v)
  PROVE  /\ DOMAIN index' = DOMAIN index \cup {Len(index) + 1} /\ Len(index) + 1 \notin DOMAIN index
         /\ Len(index') = Len(index) + 1 /\ Len(index) \in Nat
         /\ index'[Len(index) + 1] = v /\ \A i \in DOMAIN index : index'[i] = index[i]
         /\ index' \in Seq(Versions)
BY DEF TypeOK, ForgeType, StartedType, FolderType, StepType

(* The versions of a run after one was appended.                            *)
LEMMA OfGrows ==
  ASSUME TypeOK, NEW v \in Versions, index' = Append(index, v), NEW r \in Runs
  PROVE  /\ v.writer # r => Of(r)' = Of(r)
         /\ v.writer = r => /\ Of(r)' = Of(r) \cup {Len(index) + 1}
                            /\ Cardinality(Of(r)') = Cardinality(Of(r)) + 1
<1>1. v.writer # r => Of(r)' = Of(r)
  BY IndexGrows DEF Of
<1>2. v.writer = r => Of(r)' = Of(r) \cup {Len(index) + 1}
  BY IndexGrows DEF Of
<1>3. Len(index) + 1 \notin Of(r)
  BY IndexGrows DEF Of
<1> QED
  BY <1>1, <1>2, <1>3, OfIsFinite, FS_AddElement

-----------------------------------------------------------------------------
(* A run that takes no part in a step keeps what is said of it.             *)
SameRun(q) ==
  /\ pc'[q] = pc[q] /\ approved'[q] = approved[q] /\ version'[q] = version[q] /\ start'[q] = start[q]
  /\ head'[q] = head[q] /\ ahead'[q] = ahead[q] /\ pushed'[q] = pushed[q]
  /\ posts'[q] = posts[q] /\ late'[q] = late[q]
ForgeGrows == \A p \in Repos : served[p] \subseteq served'[p]

(* What a run stores is the same while its version and its commits are.     *)
LEMMA SameDoc ==
  ASSUME NEW q \in Runs, version'[q] = version[q], ahead'[q] = ahead[q]
  PROVE  withCommit(q)' = withCommit(q)
BY DEF withCommit

(* What holds of a run holds after a step that leaves it alone.             *)
LEMMA OtherRun ==
  ASSUME TypeOK, NEW q \in Runs, RunInv(q), SameRun(q), ForgeGrows,
         index' = index \/ \E v \in Versions : index' = Append(index, v) /\ v.writer # q
  PROVE  RunInv(q)'
<1>1. /\ Of(q)' = Of(q) /\ \A i \in DOMAIN index : i \in DOMAIN index' /\ index'[i] = index[i]
      /\ Len(index) <= Len(index') /\ Len(index) \in Nat /\ Len(index') \in Nat
  <2>1. CASE index' = index
    BY <2>1 DEF Of, TypeOK, ForgeType, StartedType, FolderType, StepType
  <2>2. ASSUME NEW v \in Versions, index' = Append(index, v), v.writer # q
        PROVE  <1>1!1
    BY <2>2, IndexGrows, OfGrows
  <2> QED
    BY <2>1, <2>2
<1>2. withCommit(q)' = withCommit(q)
  BY SameDoc DEF SameRun
<1>3. RunServed(q)'
  BY DEF RunInv, RunServed, SameRun, ForgeGrows
<1>4. GoesOn(q)'
  BY <1>1 DEF RunInv, GoesOn, SameRun, TypeOK, ForgeType, StartedType, FolderType, StepType
<1>5. Settled(q)'
  BY <1>1, <1>2 DEF RunInv, Settled, SameRun, Of
<1>6. Counted(q)'
  <2>1. Has(q) => Has(q)'
    BY <1>1, <1>2 DEF Has
  <2> QED
    BY <1>1, <2>1 DEF RunInv, Counted, SameRun
<1>7. LeavesOut(q)'
  BY DEF RunInv, LeavesOut, SameRun, Heads
<1> QED
  BY <1>3, <1>4, <1>5, <1>6, <1>7 DEF RunInv

-----------------------------------------------------------------------------
(* What a person pushes, and the version a person stores.                   *)
PersonCommit(p) == Append(IF tip[p] = None THEN Main ELSE tip[p], Change("person", FALSE, {"work"}))
PersonPushes(p) ==
  /\ tip' = [tip EXCEPT ![p] = PersonCommit(p)]
  /\ served' = [served EXCEPT ![p] = @ \cup {PersonCommit(p)}]
  /\ UNCHANGED index
Repair == [writer |-> "person", stage |-> None, doc |-> tip]

(* A commit of a person has no .qory.                                       *)
LEMMA PersonsCommit ==
  ASSUME TypeOK, NEW p \in Repos
  PROVE  PersonCommit(p) \in AnyCommit /\ Clean(PersonCommit(p))
<1> DEFINE on == IF tip[p] = None THEN Main ELSE tip[p]
           change == Change("person", FALSE, {"work"})
<1>1. on \in Seq(Changes)
  BY RepositoriesAre DEF TypeOK, ForgeType, Docs, AnyCommit
<1>2. change \in Changes /\ change.tree = {"work"}
  BY DEF Change, Changes, Paths
<1>3. PersonCommit(p) = Append(on, change)
  BY DEF PersonCommit
<1> HIDE DEF on, change
<1> QED
  BY <1>1, <1>2, <1>3, AppendedCommit DEF Clean

(* A person's repair is a version.                                          *)
LEMMA RepairIs == TypeOK => Repair \in Versions
BY DEF Repair, Versions, TypeOK, ForgeType

(* A run reads the version that ReadsWorkItem or the index has for it.      *)
LEMMA ReadIs ==
  ASSUME TypeOK, NEW r \in Runs, GoesOn(r), ReadsBranch(r)
  PROVE  /\ version' = [version EXCEPT ![r] = version'[r]] /\ approved' = [approved EXCEPT ![r] = 0]
         /\ version'[r] = NoEntry \/ \E i \in DOMAIN index : version'[r] = index[i].doc
         /\ version'[r] \in Docs
<1> DEFINE n == chosenBranch(Stage[r], approved[r])
           doc == IF n = 0 THEN NoEntry ELSE index[n].doc
<1>1. n \in 0..Len(index)
  BY DEF chosenBranch, GoesOn, TypeOK, ForgeType
<1>2. version' = [version EXCEPT ![r] = doc] /\ approved' = [approved EXCEPT ![r] = 0]
  BY DEF ReadsBranch
<1>3. version'[r] = doc
  BY <1>2 DEF TypeOK, StartedType
<1>4. n = 0 \/ n \in DOMAIN index
  BY <1>1 DEF TypeOK, ForgeType
<1>5. \A i \in DOMAIN index : index[i].doc \in Docs
  <2> SUFFICES ASSUME NEW i \in DOMAIN index PROVE index[i].doc \in Docs
    OBVIOUS
  <2>1. index[i] \in Versions
    BY DEF TypeOK, ForgeType
  <2> QED
    BY <2>1 DEF Versions
<1> HIDE DEF n
<1> QED
  BY <1>2, <1>3, <1>4, <1>5, RepositoriesAre

(* What the agent may make of a repository's history.                       *)
LEMMA HistoriesAre ==
  ASSUME TypeOK, NEW r \in Runs, NEW p \in Repos
  PROVE  Histories(r, p) \subseteq Heads(r, p)
<1>1. Contents[p] \subseteq SUBSET Paths
  BY ContentsAssumption DEF Repos, Paths
<1> QED
  BY <1>1 DEF Histories, Heads

(* What an agent can leave at the head is a commit.                         *)
LEMMA HeadsAre ==
  ASSUME TypeOK, NEW r \in Runs, NEW p \in Repos
  PROVE  Heads(r, p) \subseteq AnyCommit
<1>1. start[r][p] \in AnyCommit /\ start[r][p] \in Seq(Changes)
  BY DEF TypeOK, StartedType, AnyCommit
<1>2. ASSUME NEW t \in SUBSET Paths PROVE Change(r, FALSE, t) \in Changes
  BY DEF Change, Changes
<1>3. ASSUME NEW t \in SUBSET Paths PROVE Append(start[r][p], Change(r, FALSE, t)) \in AnyCommit
  BY <1>1, <1>2, AppendedCommit
<1>4. ASSUME NEW e \in Changes PROVE <<e>> \in AnyCommit
  BY DEF AnyCommit
<1> QED
  BY <1>1, <1>2, <1>3, <1>4 DEF Heads

-----------------------------------------------------------------------------
(* The type of the state after each step.                                   *)
LEMMA NextTypeOK == TypeOK /\ (\A r \in Runs : GoesOn(r)) /\ [Next]_vars => TypeOK'
<1> SUFFICES ASSUME TypeOK, \A r \in Runs : GoesOn(r), [Next]_vars PROVE TypeOK'
  OBVIOUS
<1> USE DEF TypeOK
<1>1. CASE UNCHANGED vars
  BY <1>1 DEF vars, forge, started, folder, step, ForgeType, StartedType, FolderType, StepType
<1>2. CASE PersonMoves
  <2>1. pc' = pc /\ StartedType' /\ FolderType' /\ StepType'
    BY <1>2 DEF PersonMoves, forge, started, folder, step, StartedType, FolderType, StepType
  <2>2. /\ moves' = moves + 1
        /\ \/ \E p \in Repos : tip' = [tip EXCEPT ![p] = None] /\ UNCHANGED <<served, index>>
           \/ \E p \in Repos : PersonPushes(p)
           \/ index' = Append(index, Repair) /\ UNCHANGED forge
    BY <1>2 DEF PersonMoves, PersonPushes, PersonCommit, Repair
  <2>3. ASSUME NEW p \in Repos, tip' = [tip EXCEPT ![p] = None], UNCHANGED <<served, index>> PROVE ForgeType'
    BY <2>2, <2>3 DEF ForgeType, Docs
  <2>4. ASSUME NEW p \in Repos, PersonPushes(p) PROVE ForgeType'
    BY <2>2, <2>4, PersonsCommit DEF PersonPushes, ForgeType, Docs
  <2>5. ASSUME index' = Append(index, Repair), UNCHANGED forge PROVE ForgeType'
    BY <2>2, <2>5, RepairIs, IndexGrows DEF forge, ForgeType
  <2> QED
    BY <2>1, <2>2, <2>3, <2>4, <2>5
<1>3. ASSUME NEW r \in Runs, Moved(r) PROVE TypeOK'
  <2>1. pc' \in [Runs -> Steps]
    BY <1>3 DEF Moved, GoTo, Steps, Storing
  <2>2. ForgeType'
    BY <1>3 DEF Moved, GoTo, forge, ForgeType
  <2>3. StartedType'
    BY <1>3 DEF Moved, GoTo, started, StartedType
  <2>4. FolderType'
    BY <1>3 DEF Moved, GoTo, folder, FolderType
  <2>5. StepType'
    BY <1>3 DEF Moved, GoTo, step, StepType
  <2> QED
    BY <2>1, <2>2, <2>3, <2>4, <2>5
<1>4. ASSUME NEW r \in Runs, Ended(r) PROVE TypeOK'
  <2>1. pc' \in [Runs -> Steps]
    BY <1>4 DEF Ended, Ends, GoTo, Unbegun, NoFiles, NoEntry, Taken, Steps, Storing
  <2>2. ForgeType'
    <3>1. ASSUME NEW p \in Repos, ahead[r][p] # None PROVE ahead[r][p] \in AnyCommit
      BY <3>1 DEF StepType, Docs
    <3>2. ASSUME NEW p \in Repos, ahead[r][p] # None, Taken(r, p) PROVE tip' \in Docs
                   /\ served' \in [Repos -> SUBSET AnyCommit]
      BY <3>1, <3>2 DEF Taken, ForgeType, Docs
    <3> QED
      BY <1>4, <3>2 DEF Ended, forge, ForgeType
  <2>3. StartedType'
    <3>1. /\ approved' = [approved EXCEPT ![r] = 0] /\ version' = [version EXCEPT ![r] = NoEntry]
          /\ start' = [start EXCEPT ![r] = Unbegun]
      BY <1>4 DEF Ended, Ends
    <3> QED
      BY <3>1, RepositoriesAre DEF StartedType
  <2>4. FolderType'
    <3>1. NoFiles \in [Repos -> SUBSET Paths]
      BY DEF NoFiles
    <3>2. head' = [head EXCEPT ![r] = Unbegun] /\ files' = [files EXCEPT ![r] = NoFiles]
      BY <1>4 DEF Ended, Ends
    <3> QED
      BY <3>1, <3>2, RepositoriesAre DEF FolderType
  <2>5. StepType'
    BY <1>4, RepositoriesAre, ZenonT(40) DEF Ended, Ends, StepType
  <2> QED
    BY <2>1, <2>2, <2>3, <2>4, <2>5
<1>5. ASSUME NEW r \in Runs, ReadsWorkItem(r) PROVE TypeOK'
  <2>1. pc' \in [Runs -> Steps]
    BY <1>5 DEF ReadsWorkItem, GoTo, Steps, Storing
  <2>2. ForgeType'
    BY <1>5 DEF ReadsWorkItem, GoTo, forge, ForgeType
  <2>3. StartedType'
    <3>1. DOMAIN index \subseteq Nat
      BY DEF ForgeType
    <3> QED
      BY <1>5, <3>1 DEF ReadsWorkItem, StartedType
  <2>4. FolderType'
    BY <1>5 DEF ReadsWorkItem, GoTo, folder, FolderType
  <2>5. StepType'
    BY <1>5 DEF ReadsWorkItem, GoTo, step, StepType
  <2> QED
    BY <2>1, <2>2, <2>3, <2>4, <2>5
<1>6. ASSUME NEW r \in Runs, ReadsBranch(r) PROVE TypeOK'
  <2>1. pc' \in [Runs -> Steps]
    BY <1>6 DEF ReadsBranch, GoTo, Steps, Storing
  <2>2. ForgeType'
    BY <1>6 DEF ReadsBranch, GoTo, forge, ForgeType
  <2>3. StartedType'
    BY <1>6, ReadIs DEF ReadsBranch, StartedType
  <2>4. FolderType'
    BY <1>6 DEF ReadsBranch, GoTo, folder, FolderType
  <2>5. StepType'
    BY <1>6 DEF ReadsBranch, GoTo, step, StepType
  <2> QED
    BY <2>1, <2>2, <2>3, <2>4, <2>5
<1>7. ASSUME NEW r \in Runs, Switches(r) PROVE TypeOK'
  <2>1. pc' \in [Runs -> Steps]
    BY <1>7 DEF Switches, GoTo, Steps, Storing
  <2>2. ForgeType'
    BY <1>7 DEF Switches, GoTo, forge, ForgeType
  <2>3. StartedType'
    <3>1. [p \in Repos |-> IF version[r][p] = None THEN Main ELSE version[r][p]] \in [Repos -> AnyCommit]
      BY RepositoriesAre DEF StartedType, Docs
    <3> QED
      BY <1>7, <3>1 DEF Switches, StartedType
  <2>4. FolderType'
    <3>1. start'[r] \in [Repos -> AnyCommit] /\ head' = [head EXCEPT ![r] = start'[r]] /\ files' = files
      BY <1>7, <2>3 DEF Switches, StartedType
    <3> QED
      BY <3>1 DEF FolderType
  <2>5. StepType'
    BY <1>7 DEF Switches, GoTo, step, StepType
  <2> QED
    BY <2>1, <2>2, <2>3, <2>4, <2>5
<1>8. ASSUME NEW r \in Runs, AgentWorks(r) PROVE TypeOK'
  <2>1. pc' \in [Runs -> Steps]
    BY <1>8 DEF AgentWorks, GoTo, Steps, Storing
  <2>2. ForgeType'
    BY <1>8 DEF AgentWorks, GoTo, forge, ForgeType
  <2>3. StartedType'
    BY <1>8 DEF AgentWorks, GoTo, started, StartedType
  <2>4. FolderType'
    <3>1. ASSUME NEW p \in Repos PROVE Histories(r, p) \subseteq AnyCommit
      BY HistoriesAre, HeadsAre
    <3>2. ASSUME NEW p \in Repos PROVE Contents[p] \subseteq SUBSET Paths
      BY ContentsAssumption DEF Repos, Paths
    <3>3. PICK h \in [Repos -> UNION {Histories(r, p) : p \in Repos}],
                 f \in [Repos -> UNION Range(Contents)] :
            /\ \A p \in Repos : h[p] \in Histories(r, p) /\ f[p] \in Contents[p]
            /\ head' = [head EXCEPT ![r] = h] /\ files' = [files EXCEPT ![r] = f]
      BY <1>8 DEF AgentWorks
    <3>4. h \in [Repos -> AnyCommit] /\ f \in [Repos -> SUBSET Paths]
      BY <3>1, <3>2, <3>3
    <3> QED
      BY <3>3, <3>4 DEF FolderType
  <2>5. StepType'
    BY <1>8 DEF AgentWorks, GoTo, step, StepType
  <2> QED
    BY <2>1, <2>2, <2>3, <2>4, <2>5
<1>9. ASSUME NEW r \in Runs, Commits(r) PROVE TypeOK'
  <2>1. pc' \in [Runs -> Steps]
    BY <1>9 DEF Commits, GoTo, Steps, Storing
  <2>2. ForgeType'
    BY <1>9 DEF Commits, GoTo, forge, ForgeType
  <2>3. StartedType'
    BY <1>9 DEF Commits, GoTo, started, StartedType
  <2>4. FolderType'
    <3>1. [p \in Repos |-> commitLeft(r, p)] \in [Repos -> AnyCommit]
      BY CommitLeftIs
    <3>2. NoFiles \in [Repos -> SUBSET Paths]
      BY DEF NoFiles
    <3> QED
      BY <1>9, <3>1, <3>2 DEF Commits, FolderType
  <2>5. StepType'
    <3> DEFINE new == [p \in Repos |-> commitLeft(r, p)]
               past == [p \in Repos |-> IF new[p] = start[r][p] THEN None ELSE new[p]]
    <3>1. past \in Docs
      BY CommitLeftIs DEF Docs
    <3>2. ahead' = [ahead EXCEPT ![r] = past] /\ UNCHANGED <<pushed, tries, posts, late>>
      BY <1>9 DEF Commits
    <3> HIDE DEF past
    <3> QED
      BY <3>1, <3>2 DEF StepType
  <2> QED
    BY <2>1, <2>2, <2>3, <2>4, <2>5
<1>10. ASSUME NEW r \in Runs, NEW p \in Repos, pushTo(r, p) PROVE TypeOK'
  <2>1. pc' \in [Runs -> Steps]
    BY <1>10 DEF pushTo, GoTo, Steps, Storing
  <2>2. ForgeType'
    <3>1. ahead[r][p] \in AnyCommit
      BY <1>10 DEF pushTo, NextToPush, StepType, Docs
    <3> QED
      BY <1>10, <3>1 DEF pushTo, ForgeType, Docs
  <2>3. StartedType'
    BY <1>10 DEF pushTo, GoTo, started, StartedType
  <2>4. FolderType'
    BY <1>10 DEF pushTo, GoTo, folder, FolderType
  <2>5. StepType'
    BY <1>10 DEF pushTo, GoTo, step, StepType
  <2> QED
    BY <2>1, <2>2, <2>3, <2>4, <2>5
<1>11. ASSUME NEW r \in Runs, postBranch(r) PROVE TypeOK'
  <2>1. pc' \in [Runs -> Steps]
    BY <1>11 DEF postBranch, GoTo, Steps, Storing
  <2>2. ForgeType'
    <3>1. UNCHANGED <<forge, moves>> /\ (index' = index \/ index' = Append(index, Version(r)))
      BY <1>11 DEF postBranch
    <3> QED
      BY <3>1, WithCommitIs, IndexGrows DEF ForgeType, forge
  <2>3. StartedType'
    BY <1>11 DEF postBranch, GoTo, started, StartedType
  <2>4. FolderType'
    BY <1>11 DEF postBranch, GoTo, folder, FolderType
  <2>5. StepType'
    <3>1. /\ UNCHANGED <<ahead, pushed, late>> /\ tries' = [tries EXCEPT ![r] = @ + 1]
          /\ posts' = posts \/ posts' = [posts EXCEPT ![r] = @ + 1]
      BY <1>11 DEF postBranch
    <3> QED
      BY <3>1 DEF StepType
  <2> QED
    BY <2>1, <2>2, <2>3, <2>4, <2>5
<1>12. ASSUME NEW r \in Runs, branchStored(r) PROVE TypeOK'
  <2>1. pc' \in [Runs -> Steps]
    BY <1>12 DEF branchStored, GoTo, Steps, Storing
  <2>2. ForgeType'
    BY <1>12 DEF branchStored, GoTo, forge, ForgeType
  <2>3. StartedType'
    BY <1>12 DEF branchStored, GoTo, started, StartedType
  <2>4. FolderType'
    BY <1>12 DEF branchStored, GoTo, folder, FolderType
  <2>5. StepType'
    BY <1>12 DEF branchStored, GoTo, step, StepType
  <2> QED
    BY <2>1, <2>2, <2>3, <2>4, <2>5
<1>13. ASSUME NEW r \in Runs, ServedLate(r) PROVE TypeOK'
  <2>1. pc' \in [Runs -> Steps]
    BY <1>13 DEF ServedLate, Steps, Storing
  <2>2. ForgeType'
    BY <1>13, WithCommitIs, IndexGrows DEF ServedLate, ForgeType, forge
  <2>3. StartedType'
    BY <1>13 DEF ServedLate, started, StartedType
  <2>4. FolderType'
    BY <1>13 DEF ServedLate, folder, FolderType
  <2>5. StepType'
    BY <1>13 DEF ServedLate, step, StepType
  <2> QED
    BY <2>1, <2>2, <2>3, <2>4, <2>5
<1> QED
  BY <1>1, <1>2, <1>3, <1>4, <1>5, <1>6, <1>7, <1>8, <1>9, <1>10, <1>11, <1>12, <1>13, StepIs DEF RunStep

-----------------------------------------------------------------------------
(* What a step of a run does to the forge and the index, and to the others. *)
LEMMA StepGrows ==
  ASSUME IInv, NEW r \in Runs, RunStep(r)
  PROVE  /\ \/ UNCHANGED forge
            \/ pc[r] = "push" /\ \E p \in Repos : ahead[r][p] # None /\ Taken(r, p)
         /\ index' = index \/ (pc[r] \in Storing /\ index' = Append(index, Version(r)))
<1>1. posts[r] > 0 => pc[r] \in Storing
  BY DEF IInv, RunInv, Settled
<1>2. CASE Moved(r) \/ Ended(r)
  BY <1>2 DEF Moved, Ended, forge
<1>3. CASE ReadsWorkItem(r) \/ ReadsBranch(r) \/ Switches(r) \/ AgentWorks(r) \/ Commits(r) \/ branchStored(r)
  BY <1>3 DEF ReadsWorkItem, ReadsBranch, Switches, AgentWorks, Commits, branchStored, forge
<1>4. ASSUME NEW p \in Repos, pushTo(r, p) PROVE pc[r] = "push" /\ ahead[r][p] # None /\ Taken(r, p)
               /\ index' = index
  BY <1>4 DEF pushTo, NextToPush, Taken
<1>5. CASE postBranch(r)
  BY <1>5 DEF postBranch, forge, Storing
<1>6. CASE ServedLate(r)
  BY <1>1, <1>6 DEF ServedLate, forge
<1> QED
  BY <1>2, <1>3, <1>4, <1>5, <1>6 DEF RunStep

(* A step of one run leaves the others as they were.                        *)
LEMMA OthersStay ==
  ASSUME TypeOK, NEW r \in Runs, RunStep(r), NEW q \in Runs, q # r
  PROVE  SameRun(q)
<1> USE DEF SameRun, TypeOK, StartedType, FolderType, StepType, started, folder, step, GoTo
<1>1. CASE Moved(r)
  BY <1>1 DEF Moved
<1>2. CASE Ended(r)
  BY <1>2 DEF Ended, Ends
<1>3. CASE ReadsWorkItem(r) \/ ReadsBranch(r) \/ Switches(r)
  BY <1>3 DEF ReadsWorkItem, ReadsBranch, Switches
<1>4. CASE AgentWorks(r)
  BY <1>4 DEF AgentWorks
<1>5. CASE Commits(r)
  BY <1>5 DEF Commits
<1>6. ASSUME NEW p \in Repos, pushTo(r, p) PROVE SameRun(q)
  BY <1>6 DEF pushTo
<1>7. CASE postBranch(r)
  BY <1>7 DEF postBranch
<1>8. CASE branchStored(r) \/ ServedLate(r)
  BY <1>8 DEF branchStored, ServedLate
<1> QED
  BY <1>1, <1>2, <1>3, <1>4, <1>5, <1>6, <1>7, <1>8 DEF RunStep

(* The forge keeps what it serves, and a push adds a commit that has no     *)
(* .qory of its own.                                                        *)
LEMMA PushKeepsForge ==
  ASSUME IInv, NEW r \in Runs, NEW p \in Repos, pc[r] = "push", ahead[r][p] # None, Taken(r, p)
  PROVE  ForgeGrows /\ TipsServed' /\ ForgeClean'
<1>1. served' = [served EXCEPT ![p] = @ \cup {ahead[r][p]}] /\ tip' = [tip EXCEPT ![p] = ahead[r][p]]
  BY DEF Taken
<1>2. \A q \in Repos : served'[q] = IF q = p THEN served[q] \cup {ahead[r][p]} ELSE served[q]
  BY <1>1 DEF IInv, TypeOK, ForgeType
<1>3. \A q \in Repos : tip'[q] = IF q = p THEN ahead[r][p] ELSE tip[q]
  BY <1>1 DEF IInv, TypeOK, ForgeType, Docs
<1>4. Clean(ahead[r][p])
  BY DEF IInv, RunInv, LeavesOut
<1>5. ForgeGrows
  BY <1>2 DEF ForgeGrows
<1>6. TipsServed'
  BY <1>2, <1>3 DEF IInv, TipsServed
<1>7. ForgeClean'
  BY <1>2, <1>4 DEF IInv, ForgeClean, Clean
<1> QED
  BY <1>5, <1>6, <1>7

(* A step that leaves the forge alone keeps what holds of it.               *)
LEMMA SameForge == ASSUME IInv, UNCHANGED forge PROVE ForgeGrows /\ TipsServed' /\ ForgeClean'
BY DEF IInv, forge, ForgeGrows, TipsServed, ForgeClean, Clean

(* A version of a run names what the run pushed, or what its own version    *)
(* named.                                                                   *)
LEMMA VersionServed ==
  ASSUME IInv, NEW r \in Runs, pc[r] \in Storing, NEW p \in Repos
  PROVE  Version(r).doc[p] \in served[p] \cup {None}
<1>1. RunServed(r)
  BY DEF IInv, RunInv
<1>2. Version(r).doc[p] = IF ahead[r][p] = None THEN version[r][p] ELSE ahead[r][p]
  BY DEF Version, withCommit
<1> QED
  BY <1>1, <1>2 DEF RunServed

(* Every version names commits that the forge serves after one more of that *)
(* kind.                                                                    *)
LEMMA IndexServed ==
  ASSUME IInv, ForgeGrows, NEW v \in Versions, index' = index \/ index' = Append(index, v),
         index' # index => \A p \in Repos : v.doc[p] \in served[p] \cup {None}
  PROVE  VersionsArePushed'
<1>1. CASE index' = index
  BY <1>1 DEF IInv, VersionsArePushed, ForgeGrows
<1>2. CASE index' = Append(index, v) /\ index' # index
  <2> SUFFICES ASSUME NEW i \in DOMAIN index', NEW p \in Repos PROVE index'[i].doc[p]
                        \in served'[p] \cup {None}
    BY DEF VersionsArePushed
  <2>1. CASE i \in DOMAIN index
    <3>1. index'[i] = index[i]
      BY <1>2, <2>1, IndexGrows DEF IInv
    <3> QED
      BY <2>1, <3>1 DEF IInv, VersionsArePushed, ForgeGrows
  <2>2. CASE i = Len(index) + 1
    <3>1. index'[i] = v
      BY <1>2, <2>2, IndexGrows DEF IInv
    <3> QED
      BY <1>2, <3>1 DEF ForgeGrows
  <2> QED
    BY <1>2, <2>1, <2>2, IndexGrows DEF IInv
<1> QED
  BY <1>1, <1>2

(* Every step of a run keeps what holds of the forge.                       *)
LEMMA StepForge ==
  ASSUME IInv, NEW r \in Runs, RunStep(r)
  PROVE  ForgeGrows /\ TipsServed' /\ ForgeClean' /\ VersionsArePushed'
<1>1. ForgeGrows /\ TipsServed' /\ ForgeClean'
  BY StepGrows, PushKeepsForge, SameForge
<1>2. Version(r) \in Versions
  BY WithCommitIs DEF IInv
<1> QED
  BY <1>1, <1>2, StepGrows, VersionServed, IndexServed

(* So does every step of a person.                                          *)
LEMMA PersonForge ==
  ASSUME IInv, PersonMoves
  PROVE  ForgeGrows /\ TipsServed' /\ ForgeClean' /\ VersionsArePushed'
<1>1. \/ \E p \in Repos : tip' = [tip EXCEPT ![p] = None] /\ UNCHANGED <<served, index>>
      \/ \E p \in Repos : PersonPushes(p)
      \/ index' = Append(index, Repair) /\ UNCHANGED forge
  BY DEF PersonMoves, PersonPushes, PersonCommit, Repair
<1>2. Repair \in Versions /\ \A p \in Repos : Repair.doc[p] \in served[p] \cup {None}
  BY RepairIs DEF Repair, IInv, TipsServed
<1>3. ASSUME NEW p \in Repos, tip' = [tip EXCEPT ![p] = None], UNCHANGED <<served, index>>
      PROVE  ForgeGrows /\ TipsServed' /\ ForgeClean' /\ index' = index
  <2>1. \A q \in Repos : tip'[q] = IF q = p THEN None ELSE tip[q]
    BY <1>3 DEF IInv, TypeOK, ForgeType, Docs
  <2> QED
    BY <1>3, <2>1 DEF IInv, ForgeGrows, TipsServed, ForgeClean, Clean
<1>4. ASSUME NEW p \in Repos, PersonPushes(p)
      PROVE  ForgeGrows /\ TipsServed' /\ ForgeClean' /\ index' = index
  <2>1. \A q \in Repos : tip'[q] = IF q = p THEN PersonCommit(p) ELSE tip[q]
    BY <1>4 DEF PersonPushes, IInv, TypeOK, ForgeType, Docs
  <2>2. \A q \in Repos : served'[q] = IF q = p THEN served[q] \cup {PersonCommit(p)} ELSE served[q]
    BY <1>4 DEF PersonPushes, IInv, TypeOK, ForgeType
  <2>3. Clean(PersonCommit(p)) /\ index' = index
    BY <1>4, PersonsCommit DEF IInv, PersonPushes
  <2>4. ForgeGrows /\ TipsServed'
    BY <2>1, <2>2 DEF IInv, ForgeGrows, TipsServed
  <2>5. ForgeClean'
    BY <2>2, <2>3 DEF IInv, ForgeClean, Clean
  <2> QED
    BY <2>3, <2>4, <2>5
<1> QED
  BY <1>1, <1>2, <1>3, <1>4, SameForge, IndexServed

-----------------------------------------------------------------------------
(* What is said of the run that takes a step.                               *)

(* A run that only goes to another step keeps what holds of it.             *)
LEMMA MovedRun == ASSUME IInv, ForgeGrows, NEW r \in Runs, Moved(r) PROVE RunInv(r)'
<1> USE DEF IInv, TypeOK
<1>1. /\ UNCHANGED <<index, started, folder, step>>
      /\ \/ pc[r] = "idle" /\ pc'[r] = "snapshot"
         \/ pc[r] \in {"store", "ask"} /\ pc'[r] \in {"not stored", "not known"}
  BY DEF Moved, GoTo
<1>2. RunServed(r)'
  BY <1>1 DEF RunInv, RunServed, ForgeGrows, started, step, Storing
<1>3. GoesOn(r)'
  BY <1>1 DEF RunInv, GoesOn, started, step, Storing
<1>4. Settled(r)'
  <2>1. Settled(r) /\ withCommit(r)' = withCommit(r) /\ Of(r)' = Of(r) /\ UNCHANGED <<index, posts>>
    BY <1>1 DEF RunInv, Of, withCommit, started, step
  <2>2. pc[r] \in Storing => pc'[r] \in Storing
    BY <1>1 DEF Storing
  <2> HIDE DEF IInv, TypeOK
  <2> QED
    BY <2>1, <2>2 DEF Settled
<1>5. Counted(r)'
  BY <1>1 DEF RunInv, Counted, Of, step
<1>6. LeavesOut(r)'
  BY <1>1 DEF RunInv, LeavesOut, started, step, Storing
<1> QED
  BY <1>2, <1>3, <1>4, <1>5, <1>6 DEF RunInv

(* So does one that ends.                                                   *)
LEMMA EndedRun == ASSUME IInv, ForgeGrows, TipsServed', NEW r \in Runs, Ended(r) PROVE RunInv(r)'
<1>0. index \in Seq(Versions)
  BY DEF IInv, TypeOK, ForgeType
<1> USE DEF IInv, TypeOK
<1>1. /\ pc[r] \notin Storing /\ pc'[r] \in {"stopped", "no branch", "nothing new", "pushed, no version"}
      /\ approved'[r] = 0 /\ version'[r] = NoEntry /\ start'[r] = Unbegun /\ pushed'[r] = {}
      /\ UNCHANGED <<index, tries, posts, late>>
  BY DEF Ended, Ends, GoTo, StartedType, StepType
<1>2. pc'[r] \notin {"agent", "left", "push"} \cup Storing
  BY <1>1 DEF Storing
<1>3. RunServed(r)'
  BY <1>1, <1>2 DEF RunServed, TipsServed, NoEntry, Unbegun
<1>4. GoesOn(r)'
  <2> HIDE DEF IInv, TypeOK
  <2>1. Len(index) \in Nat /\ 0 \in 0..Len(index)
    BY <1>0
  <2>2. approved'[r] \in 0..Len(index')
    BY <1>1, <2>1
  <2> QED
    BY <1>2, <2>2, Zenon DEF GoesOn
<1>5. Settled(r)'
  <2>1. Settled(r) /\ Of(r)' = Of(r)
    BY <1>1 DEF RunInv, Of
  <2> QED
    BY <2>1, <1>1, Zenon DEF Settled
<1>6. Counted(r)'
  BY <1>1 DEF RunInv, Counted, Of
<1>7. LeavesOut(r)'
  BY <1>2 DEF LeavesOut
<1> QED
  BY <1>3, <1>4, <1>5, <1>6, <1>7 DEF RunInv

(* Before the agent, a run has no version stored, nothing pushed and no     *)
(* head to push.                                                            *)
LEMMA EarlyRun ==
  ASSUME IInv, NEW r \in Runs, pc[r] \notin Storing, pc'[r] \notin {"push"} \cup Storing,
         UNCHANGED <<index, posts, late>>,
         UNCHANGED served, pushed'[r] = pushed[r], pc[r] # "push",
         \A p \in Repos : version'[r][p] \in served[p] \cup {None} /\ start'[r][p] \in served[p],
         approved'[r] \in 0..Len(index), pc'[r] \in {"agent", "left"} =>
            \A p \in Repos : version'[r][p] # None => start'[r][p] = version'[r][p],
         pc'[r] = "left" => \A p \in Repos : head'[r][p] \in Heads(r, p)'
  PROVE  RunInv(r)'
<1>0. RunServed(r) /\ Settled(r) /\ Counted(r) /\ Of(r)' = Of(r)
  BY DEF IInv, RunInv, Of
<1>1. RunServed(r)'
  BY <1>0 DEF RunServed
<1>2. GoesOn(r)'
  <2>1. approved'[r] \in 0..Len(index')
    OBVIOUS
  <2>2. pc'[r] \in {"agent", "left", "push"} \cup Storing => pc'[r] \in {"agent", "left"}
    OBVIOUS
  <2> QED
    BY <2>1, <2>2, Zenon DEF GoesOn
<1>3. Settled(r)'
  BY <1>0, Zenon DEF Settled
<1>4. Counted(r)'
  BY <1>0 DEF Counted, Storing
<1>5. LeavesOut(r)'
  BY DEF LeavesOut
<1> QED
  BY <1>1, <1>2, <1>3, <1>4, <1>5 DEF RunInv

(* So do the steps up to the agent.                                         *)
LEMMA ReadingRun ==
  ASSUME IInv, NEW r \in Runs, ReadsWorkItem(r) \/ ReadsBranch(r) \/ Switches(r) \/ AgentWorks(r)
  PROVE  RunInv(r)'
<1>0. TypeOK /\ RunServed(r) /\ GoesOn(r)
  BY DEF IInv, RunInv
<1> USE <1>0 DEF TypeOK, GoTo, Storing
<1>1. CASE ReadsWorkItem(r)
  <2>1. /\ pc[r] = "snapshot" /\ pc'[r] = "index" /\ UNCHANGED <<index, posts, late, served, pushed, version,
             start>>
        /\ approved'[r] \in 0..Len(index)
    BY <1>1 DEF ReadsWorkItem, StartedType, ForgeType, forge, step
  <2> QED
    BY <2>1, EarlyRun DEF RunServed
<1>2. CASE ReadsBranch(r)
  <2>1. /\ pc[r] = "index" /\ pc'[r] = "fetch" /\ UNCHANGED <<index, posts, late, served, pushed, start>>
        /\ approved'[r] = 0 /\ 0 \in 0..Len(index)
    BY <1>2 DEF ReadsBranch, StartedType, ForgeType, forge, step
  <2>2. ASSUME NEW p \in Repos PROVE version'[r][p] \in served[p] \cup {None}
    BY <1>2, ReadIs DEF NoEntry, IInv, VersionsArePushed
  <2> QED
    BY <2>1, <2>2, EarlyRun DEF RunServed
<1>3. CASE Switches(r)
  <2>1. /\ pc[r] = "fetch" /\ pc'[r] = "agent" /\ UNCHANGED <<index, posts, late, served, pushed, version,
             approved>>
        /\ \A p \in Repos : start'[r][p] = IF version[r][p] = None THEN Main ELSE version[r][p]
    BY <1>3 DEF Switches, StartedType, forge, step
  <2> QED
    BY <2>1, EarlyRun DEF RunServed, GoesOn, IInv, TipsServed
<1>4. CASE AgentWorks(r)
  <2>1. /\ pc[r] = "agent" /\ pc'[r] = "left" /\ UNCHANGED <<index, posts, late, served, pushed, version,
             approved, start>>
    BY <1>4 DEF AgentWorks, forge, started, step
  <2>2. PICK h \in [Repos -> UNION {Histories(r, p) : p \in Repos}] :
          (\A p \in Repos : h[p] \in Histories(r, p)) /\ head' = [head EXCEPT ![r] = h]
    BY <1>4 DEF AgentWorks
  <2>3. ASSUME NEW p \in Repos PROVE head'[r][p] \in Heads(r, p)'
    <3>1. head'[r] = h
      BY <2>2 DEF FolderType
    <3>2. h[p] \in Heads(r, p)
      BY <2>2, HistoriesAre
    <3>3. Heads(r, p)' = Heads(r, p)
      BY <2>1 DEF Heads
    <3> QED
      BY <3>1, <3>2, <3>3
  <2> QED
    BY <2>1, <2>3, EarlyRun DEF RunServed, GoesOn
<1> QED
  BY <1>1, <1>2, <1>3, <1>4

(* So do the steps that commit what the agent left.                         *)
LEMMA CommittingRun == ASSUME IInv, NEW r \in Runs, Commits(r) PROVE RunInv(r)'
<1>0. TypeOK /\ RunServed(r) /\ GoesOn(r) /\ Settled(r) /\ Counted(r) /\ LeavesOut(r)
  BY DEF IInv, RunInv
<1>1. /\ pc[r] = "left" /\ pc'[r] = "push"
      /\ UNCHANGED <<index, posts, late, served, pushed, version, approved, start>>
  BY <1>0 DEF Commits, GoTo, TypeOK, forge, started
<1>2. ASSUME NEW p \in Repos
      PROVE  /\ OnTop(r, p, commitLeft(r, p))
             /\ ahead'[r][p] = IF commitLeft(r, p) = start[r][p] THEN None ELSE commitLeft(r, p)
  BY <1>0, <1>2 DEF Commits, TypeOK, StepType
<1>3. ASSUME NEW p \in Repos, ahead'[r][p] # None
      PROVE  IsPrefix(start'[r][p], ahead'[r][p]) /\ Clean(ahead'[r][p]) /\ SetupStays(ahead'[r][p])
  <2>1. ahead'[r][p] = commitLeft(r, p) /\ commitLeft(r, p) # start[r][p]
          /\ IsPrefix(start[r][p], commitLeft(r, p))
    BY <1>2, <1>3 DEF OnTop
  <2>2. Clean(start[r][p]) /\ head[r][p] \in Heads(r, p)
    BY <1>0, <1>1 DEF RunServed, LeavesOut, IInv, ForgeClean
  <2> QED
    BY <2>1, <2>2, <1>0, <1>1, CommitLeftIs
<1>4. "left" \notin {"push"} \cup Storing /\ "push" \notin Storing
  BY DEF Storing
<1>5. RunServed(r)'
  BY <1>0, <1>1, <1>4 DEF RunServed
<1>6. GoesOn(r)'
  BY <1>0, <1>1, <1>3, <1>4 DEF GoesOn
<1>7. Settled(r)'
  BY <1>0, <1>1, <1>4 DEF Settled, Of
<1>8. Counted(r)'
  BY <1>0, <1>1 DEF Counted, Of
<1>9. LeavesOut(r)'
  BY <1>1, <1>3 DEF LeavesOut, Clean, SetupStays
<1> QED
  BY <1>5, <1>6, <1>7, <1>8, <1>9 DEF RunInv

(* So does a push.                                                          *)
LEMMA PushingRun == ASSUME IInv, ForgeGrows, NEW r \in Runs, NEW p \in Repos, pushTo(r, p) PROVE RunInv(r)'
<1>0. TypeOK /\ RunServed(r) /\ GoesOn(r) /\ Settled(r) /\ Counted(r) /\ LeavesOut(r)
  BY DEF IInv, RunInv
<1>1. /\ pc[r] = "push" /\ UNCHANGED <<index, posts, late, version, approved, start, ahead>>
      /\ pushed'[r] = pushed[r] \cup {p} /\ served' = [served EXCEPT ![p] = @ \cup {ahead[r][p]}]
      /\ pc'[r] \in {"push", "store"}
      /\ pc'[r] = "store" => \A q \in Repos : ahead[r][q] # None => q \in pushed'[r]
  BY <1>0 DEF pushTo, GoTo, TypeOK, StepType, started
<1>2. ahead[r][p] \in served'[p]
  BY <1>0, <1>1 DEF TypeOK, ForgeType
<1>3. "push" \notin Storing /\ "store" \in Storing
  BY DEF Storing
<1>4. RunServed(r)'
  BY <1>0, <1>1, <1>2, <1>3 DEF RunServed, ForgeGrows
<1>5. GoesOn(r)'
  BY <1>0, <1>1, <1>3 DEF GoesOn
<1>6. Settled(r)'
  BY <1>0, <1>1, <1>3 DEF Settled, Of
<1>7. Counted(r)'
  <2>1. Of(r) = {} /\ Of(r)' = Of(r)
    BY <1>0, <1>1, <1>3 DEF Settled, Of
  <2>2. Cardinality(Of(r)') = 0 /\ late[r] \in Nat /\ late' = late
    BY <2>1, <1>0, <1>1, OfIsFinite DEF TypeOK, StepType
  <2> QED
    BY <2>2, <1>1 DEF Counted
<1>8. LeavesOut(r)'
  BY <1>0, <1>1, <1>3 DEF LeavesOut
<1> QED
  BY <1>4, <1>5, <1>6, <1>7, <1>8 DEF RunInv

(* What stores a version or asks for it changes pc, the index and the       *)
(* counts alone.                                                            *)
LEMMA StoringRun ==
  ASSUME IInv, NEW r \in Runs, pc[r] \in Storing, pc'[r] \in Storing,
         UNCHANGED <<forge, started, folder, ahead, pushed>>,
         index' = index \/ index' = Append(index, Version(r)), Counted(r)'
  PROVE  RunInv(r)'
<1>0. TypeOK /\ RunServed(r) /\ GoesOn(r) /\ Settled(r) /\ LeavesOut(r)
  BY DEF IInv, RunInv
<1>1. UNCHANGED <<served, version, approved, start, head>> /\ withCommit(r)' = withCommit(r)
  BY DEF forge, started, folder, withCommit
<1>2. Version(r) \in Versions /\ Version(r).doc = withCommit(r)
  BY <1>0, WithCommitIs DEF Version
<1>3. pc[r] \notin {"left"} /\ pc'[r] \notin {"left"}
  BY DEF Storing
<1>4. RunServed(r)'
  BY <1>0, <1>1 DEF RunServed
<1>5. GoesOn(r)'
  <2>1. Len(index) \in Nat /\ Len(index') \in Nat /\ Len(index) <= Len(index')
    BY <1>0, <1>2, IndexGrows DEF TypeOK, ForgeType
  <2> QED
    BY <2>1, <1>0, <1>1 DEF GoesOn
<1>6. Settled(r)'
  <2>1. ASSUME NEW i \in Of(r)' PROVE index'[i].doc = withCommit(r)'
    <3>1. CASE index' = index
      BY <3>1, <2>1, <1>0, <1>1 DEF Settled, Of
    <3>2. CASE index' = Append(index, Version(r))
      BY <3>2, <2>1, <1>0, <1>1, <1>2, IndexGrows DEF Settled, Of
    <3> QED
      BY <3>1, <3>2
  <2> QED
    BY <2>1 DEF Settled
<1>7. LeavesOut(r)'
  BY <1>0, <1>1, <1>3 DEF LeavesOut
<1> QED
  BY <1>4, <1>5, <1>6, <1>7 DEF RunInv

(* So does a POST of the version.                                           *)
LEMMA PostingRun == ASSUME IInv, NEW r \in Runs, postBranch(r) PROVE RunInv(r)'
<1>0. TypeOK /\ Counted(r) /\ Cardinality(Of(r)) \in Nat
  BY OfIsFinite DEF IInv, RunInv
<1>1. /\ pc[r] = "store" /\ UNCHANGED <<forge, started, folder, ahead, pushed, late>>
      /\ \/ index' = index /\ pc'[r] \in {"store", "not stored", "ask"}
         \/ index' = Append(index, Version(r)) /\ pc'[r] \in {"stored", "ask"}
  BY <1>0 DEF postBranch, GoTo, TypeOK
<1>2. pc[r] \in Storing /\ pc'[r] \in Storing
  BY <1>1 DEF Storing
<1>3. CASE index' = index
  <2>1. Of(r)' = Of(r) /\ pc'[r] # "stored" /\ late[r] \in Nat
    BY <1>0, <1>1, <1>3, IndexGrows, WithCommitIs DEF Of, TypeOK, StepType, ForgeType
  <2>2. Counted(r)'
    BY <2>1, <1>0, <1>1 DEF Counted
  <2> QED
    BY <2>2, <1>1, <1>2, StoringRun
<1>4. CASE index' = Append(index, Version(r)) /\ pc'[r] \in {"stored", "ask"}
  <2>1. Version(r) \in Versions /\ Version(r).writer = r /\ Version(r).doc = withCommit(r)
    BY <1>0, WithCommitIs DEF Version
  <2>2. Cardinality(Of(r)') = Cardinality(Of(r)) + 1
    BY <2>1, <1>0, <1>4, OfGrows
  <2>3. Has(r)'
    <3>1. withCommit(r)' = withCommit(r)
      BY <1>1 DEF started, withCommit
    <3> QED
      BY <3>1, <2>1, <1>0, <1>4, IndexGrows DEF Has
  <2>4. Counted(r)'
    <3>1. late[r] \in Nat /\ late'[r] = late[r]
      BY <1>0, <1>1 DEF TypeOK, StepType
    <3>2. pc'[r] # "store" /\ Cardinality(Of(r)) <= late[r]
      BY <1>0, <1>1, <1>4 DEF Counted
    <3>3. Cardinality(Of(r)') <= 1 + late'[r]
      BY <3>1, <3>2, <2>2, <1>0
    <3> QED
      BY <3>2, <3>3, <2>3 DEF Counted
  <2> QED
    BY <2>4, <1>1, <1>2, StoringRun
<1> QED
  BY <1>1, <1>3, <1>4

(* So does a look at the index after a POST without an answer.              *)
LEMMA AskingRun == ASSUME IInv, NEW r \in Runs, branchStored(r) PROVE RunInv(r)'
<1>0. TypeOK /\ Counted(r) /\ Settled(r)
  BY DEF IInv, RunInv
<1>1. /\ pc[r] = "ask" /\ UNCHANGED <<forge, index, started, folder, step>>
      /\ \/ Has(r) /\ pc'[r] = "stored"
         \/ ~Has(r) /\ pc'[r] \in {"store", "not stored"}
         \/ pc'[r] = "not known"
  BY <1>0 DEF branchStored, GoTo, TypeOK
<1>2. pc[r] \in Storing /\ pc'[r] \in Storing
  BY <1>1 DEF Storing
<1>3. Of(r)' = Of(r) /\ Has(r)' = Has(r) /\ late' = late
  BY <1>1 DEF Of, Has, withCommit, started, step
<1>4. ~Has(r) => Cardinality(Of(r)) = 0
  <2>1. ~Has(r) => Of(r) = {}
    BY <1>0 DEF Settled, Has, Of
  <2> QED
    BY <2>1, <1>0, OfIsFinite
<1>5. Counted(r)'
  <2>1. late[r] \in Nat
    BY <1>0 DEF TypeOK, StepType
  <2> QED
    <3>1. Cardinality(Of(r)') <= 1 + late'[r]
      BY <1>0, <1>3 DEF Counted
    <3>2. pc'[r] = "store" => Cardinality(Of(r)') <= late'[r]
      BY <2>1, <1>1, <1>3, <1>4
    <3>3. pc'[r] = "stored" => Has(r)'
      BY <1>1, <1>3
    <3> QED
      BY <3>1, <3>2, <3>3 DEF Counted
<1> QED
  BY <1>1, <1>2, <1>5, StoringRun DEF step

(* So does a POST that is served late.                                      *)
LEMMA LateRun == ASSUME IInv, NEW r \in Runs, ServedLate(r) PROVE RunInv(r)'
<1>0. TypeOK /\ Counted(r) /\ Settled(r) /\ Cardinality(Of(r)) \in Nat
  BY OfIsFinite DEF IInv, RunInv
<1>1. /\ UNCHANGED <<forge, pc, started, folder, ahead, pushed>> /\ index' = Append(index, Version(r))
      /\ posts[r] > 0 /\ late'[r] = late[r] + 1 /\ late[r] \in Nat
  BY <1>0 DEF ServedLate, TypeOK, StepType
<1>2. pc[r] \in Storing
  BY <1>0, <1>1 DEF Settled
<1>3. Version(r) \in Versions /\ Version(r).writer = r
  BY <1>0, WithCommitIs DEF Version
<1>4. Cardinality(Of(r)') = Cardinality(Of(r)) + 1
  BY <1>0, <1>1, <1>3, OfGrows
<1>5. Has(r) => Has(r)'
  <2>1. withCommit(r)' = withCommit(r)
    BY <1>1 DEF started, withCommit
  <2> QED
    BY <2>1, <1>0, <1>1, <1>3, IndexGrows DEF Has
<1>6. Counted(r)'
  BY <1>0, <1>1, <1>4, <1>5 DEF Counted
<1> QED
  BY <1>1, <1>2, <1>6, StoringRun

-----------------------------------------------------------------------------
(* Every step of a run keeps what holds of it.                              *)
LEMMA RunNext == ASSUME IInv, ForgeGrows, TipsServed', NEW r \in Runs, RunStep(r) PROVE RunInv(r)'
<1>1. ASSUME NEW p \in Repos, pushTo(r, p) PROVE RunInv(r)'
  BY <1>1, PushingRun
<1> QED
  BY <1>1, MovedRun, EndedRun, ReadingRun, CommittingRun, PostingRun, AskingRun, LateRun DEF RunStep

(* Every step keeps the invariant.                                          *)
LEMMA NextIInv == IInv /\ [Next]_vars => IInv'
<1> SUFFICES ASSUME IInv, [Next]_vars PROVE IInv'
  OBVIOUS
<1>1. TypeOK'
  BY NextTypeOK DEF IInv, RunInv
<1>2. CASE UNCHANGED vars
  <2>1. UNCHANGED forge /\ index' = index /\ \A q \in Runs : SameRun(q)
    BY <1>2 DEF vars, forge, started, folder, step, SameRun
  <2>2. ForgeGrows /\ TipsServed' /\ ForgeClean'
    BY <2>1, SameForge
  <2>3. VersionsArePushed'
    BY <2>1, <2>2 DEF IInv, VersionsArePushed, ForgeGrows
  <2>4. ASSUME NEW q \in Runs PROVE RunInv(q)'
    BY <2>1, <2>2, OtherRun DEF IInv
  <2> QED
    BY <1>1, <2>2, <2>3, <2>4 DEF IInv
<1>3. CASE PersonMoves
  <2>1. ForgeGrows /\ TipsServed' /\ ForgeClean' /\ VersionsArePushed'
    BY <1>3, PersonForge
  <2>2. /\ index' = index \/ index' = Append(index, Repair)
        /\ \A q \in Runs : SameRun(q)
    BY <1>3 DEF PersonMoves, Repair, forge, started, folder, step, SameRun
  <2>3. Repair \in Versions /\ \A q \in Runs : Repair.writer # q
    BY RepairIs, RunsAssumption DEF IInv, Repair
  <2>4. ASSUME NEW q \in Runs PROVE RunInv(q)'
    BY <2>1, <2>2, <2>3, OtherRun DEF IInv
  <2> QED
    BY <1>1, <2>1, <2>4 DEF IInv
<1>4. ASSUME NEW r \in Runs, RunStep(r) PROVE IInv'
  <2>1. ForgeGrows /\ TipsServed' /\ ForgeClean' /\ VersionsArePushed'
    BY <1>4, StepForge
  <2>2. index' = index \/ index' = Append(index, Version(r))
    BY <1>4, StepGrows
  <2>3. Version(r) \in Versions /\ Version(r).writer = r
    BY WithCommitIs DEF IInv, Version
  <2>4. ASSUME NEW q \in Runs, q # r PROVE RunInv(q)'
    <3>1. SameRun(q)
      BY <1>4, <2>4, OthersStay DEF IInv
    <3> QED
      BY <2>1, <2>2, <2>3, <2>4, <3>1, OtherRun DEF IInv
  <2>5. RunInv(r)'
    BY <1>4, <2>1, RunNext
  <2> QED
    BY <1>1, <2>1, <2>4, <2>5 DEF IInv
<1> QED
  BY <1>2, <1>3, <1>4, StepIs DEF IInv

(* The first states have the invariant.                                     *)
LEMMA InitIInv == Init => IInv
<1> SUFFICES ASSUME Init PROVE IInv
  OBVIOUS
<1>1. /\ tip = NoEntry /\ served = [p \in Repos |-> {Main}] /\ index = <<>> /\ DOMAIN index = {}
           /\ Len(index) = 0
      /\ \A r \in Runs : /\ pc[r] = "idle" /\ approved[r] = 0 /\ version[r] = NoEntry /\ start[r] = Unbegun
                         /\ pushed[r] = {} /\ posts[r] = 0 /\ late[r] = 0
  BY DEF Init
<1>2. TypeOK
  <2>1. [r \in Runs |-> NoFiles] \in [Runs -> [Repos -> SUBSET Paths]]
    BY DEF NoFiles
  <2>2. pc \in [Runs -> Steps]
    BY DEF Init, Steps
  <2>3. ForgeType
    BY <1>1, RepositoriesAre DEF Init, ForgeType
  <2>4. StartedType /\ FolderType /\ StepType
    BY <2>1, RepositoriesAre DEF Init, StartedType, FolderType, StepType
  <2> QED
    BY <2>2, <2>3, <2>4 DEF TypeOK
<1>3. TipsServed /\ ForgeClean /\ VersionsArePushed
  BY <1>1, RepositoriesAre DEF TipsServed, ForgeClean, VersionsArePushed, Clean, NoEntry
<1>4. ASSUME NEW r \in Runs PROVE RunInv(r)
  <2>1. Of(r) = {} /\ Cardinality(Of(r)) = 0
    BY <1>1, FS_EmptySet DEF Of
  <2>2. "idle" \notin {"agent", "left", "push", "store", "stored"} \cup Storing
    BY DEF Storing
  <2>3. RunServed(r)
    BY <1>1, <2>2 DEF RunServed, NoEntry, Unbegun
  <2>4. GoesOn(r)
    BY <1>1, <2>2 DEF GoesOn
  <2>5. Settled(r)
    BY <1>1, <2>1, <2>2 DEF Settled
  <2>6. Counted(r)
    BY <1>1, <2>1, <2>2 DEF Counted
  <2>7. LeavesOut(r)
    BY <1>1, <2>2 DEF LeavesOut
  <2> QED
    BY <2>3, <2>4, <2>5, <2>6, <2>7 DEF RunInv
<1> QED
  BY <1>2, <1>3, <1>4 DEF IInv

(* The invariant holds of every behaviour.                                  *)
LEMMA Inductive == Spec => []IInv
  BY InitIInv, NextIInv, PTL DEF Spec

(* The type invariant of the branch, its index and each run of it.          *)
THEOREM TypeCorrect == Spec => []TypeOK
<1>1. IInv => TypeOK
  BY DEF IInv
<1> QED
  BY <1>1, Inductive, PTL

(* storeBranch: whatever was cut, lost, served late or repaired by a person,*)
(* each commit that a version names is on the forge.                        *)
THEOREM EveryVersionIsPushed == Spec => []VersionsArePushed
<1>1. IInv => VersionsArePushed
  BY DEF IInv
<1> QED
  BY <1>1, Inductive, PTL

(* headPast: each commit of a run's version descends from the one that the  *)
(* run started at, for any history that its agent leaves.                   *)
THEOREM EveryVersionGoesOn == Spec => []VersionsGoOn
<1>1. IInv => VersionsGoOn
  <2> SUFFICES ASSUME IInv, NEW i \in DOMAIN index, index[i].writer \in Runs, NEW p \in Repos,
                        index[i].doc[p] # None
               PROVE  IsPrefix(start[index[i].writer][p], index[i].doc[p])
    BY DEF VersionsGoOn
  <2> DEFINE r == index[i].writer
  <2>1. Settled(r) /\ GoesOn(r)
    BY DEF IInv, RunInv
  <2>2. pc[r] \in Storing /\ index[i].doc[p] = IF ahead[r][p] = None THEN version[r][p] ELSE ahead[r][p]
    BY <2>1 DEF Settled, Of, withCommit
  <2>3. CASE ahead[r][p] # None
    BY <2>1, <2>2, <2>3 DEF GoesOn
  <2>4. CASE ahead[r][p] = None
    <3>1. start[r][p] = index[i].doc[p]
      BY <2>1, <2>2, <2>4 DEF GoesOn
    <3>2. start[r][p] \in AnyCommit
      BY DEF IInv, TypeOK, StartedType
    <3> QED
      BY <3>1, <3>2, PrefixOfItself
  <2> QED
    BY <2>3, <2>4
<1> QED
  BY <1>1, Inductive, PTL

(* postBranch and branchStored: a step that says it stored has its version  *)
(* in the index, once, however many POSTs were sent, but for those that     *)
(* were served after the run had read the index.                            *)
THEOREM EveryVersionIsStoredOnce == Spec => []StoredOnce
<1>1. IInv => StoredOnce
  BY DEF IInv, RunInv, Counted, StoredOnce, Of
<1> QED
  BY <1>1, Inductive, PTL

(* restoreLeftOut and leftOut: whatever the agent committed or staged, what *)
(* is pushed has no .qory of its own, and a commit of qory's adds no path   *)
(* that the setup alone made.                                               *)
THEOREM EveryPushLeavesOut == Spec => []LeftOutStays
<1>1. IInv => LeftOutStays
  <2> SUFFICES ASSUME IInv, NEW r \in Runs, NEW p \in Repos, pc[r] \in {"push", "store", "stored"},
                        ahead[r][p] # None
               PROVE  Clean(ahead[r][p]) /\ SetupStays(ahead[r][p])
    BY DEF LeftOutStays, Clean, SetupStays
  <2>1. LeavesOut(r) /\ pc[r] \in {"push"} \cup Storing
    BY DEF IInv, RunInv, Storing
  <2> QED
    BY <2>1 DEF LeavesOut
<1> QED
  BY <1>1, Inductive, PTL

-----------------------------------------------------------------------------
(* The artifacts of a run (Artifacts): for any types, files and bodies, any  *)
(* reader behind the gateway, any number of commands and whichever are       *)
(* killed.  The invariant: a body that the gateway lets through is read in   *)
(* one way by every reader, and passed its check; who has the number of a    *)
(* version has it alone; in a run the store holds files of versions and      *)
(* nothing else; and a version that a push keeps lacks only what the push    *)
(* has left to keep.                                                         *)
AllFiles == Seq(Names \X Texts)
AllBodies == {<<>>} \cup Bodies \cup {A!PushBody(t, listed) : t \in Types, listed \in AllFiles}
StoredVersions == {A!FilesOf(b, r) : b \in AllBodies, r \in A!Readers}
CommandSteps == {"idle", "post", "wait", "keep", "kept", "item", "pull", "pulled"}
RequestSteps == {"none", "new", "check", "forward", "stored", "failed"}
Commands == [pc : CommandSteps, type : Types \cup {""}, names : Seq(Names), all : SUBSET Names, body :
  AllBodies,
             n : Nat, want : SUBSET (Types \X Nat), pinned : [Types -> Nat], touched : BOOLEAN]
Requests == [at : RequestSteps, body : AllBodies, n : Nat]
AFunction(f) == f = [k \in DOMAIN f |-> f[k]]

StoreTypeOK ==
  /\ inRun \in BOOLEAN /\ src \in [Names -> Texts]
  /\ server \in [Types -> Seq(StoredVersions)] /\ gated \in [Types -> Nat]
  /\ DOMAIN store \subseteq Types \X Nat /\ \A d \in DOMAIN store : AFunction(store[d])
  /\ cmd \in [Procs -> Commands] /\ req \in [Procs -> Requests] /\ commands \in Nat

NamesIn(names) == {names[i] : i \in DOMAIN names}
FileNames(listed) == {listed[i][1] : i \in DOMAIN listed}
Valid(d) == d \in Types \X Nat /\ d[2] \in 1..Len(server[d[1]])

(* What Qory Apiary has.                                                    *)
ServerInv ==
  /\ A!StoredIsChecked
  /\ \A t \in Types : gated[t] <= Len(server[t]) /\ \A n \in DOMAIN server[t] :
       FileNames(server[t][n]) \subseteq Names

(* What the gateway lets through is read in one way, and was checked.       *)
GateInv ==
  \A p \in Procs :
    /\ req[p].at \in {"check", "forward"} => A!readPush(req[p].body)
    /\ req[p].at = "forward" /\ A!Value(req[p].body, "type", A!Decoder) \in CheckedTypes
         => A!Passes(A!FilesOf(req[p].body, A!Decoder), Folds)

(* What a command sends, and what it is told.                               *)
Sending(p) ==
  /\ cmd[p].pc \notin {"idle", "wait"} => req[p].at = "none"
  /\ cmd[p].pc = "wait" => req[p].at # "none" /\ req[p].body = cmd[p].body
  /\ cmd[p].pc \in {"post", "wait"} =>
       /\ cmd[p].type \in Types
       /\ \E listed \in AllFiles : cmd[p].body = A!PushBody(cmd[p].type, listed)
            /\ FileNames(listed) = NamesIn(cmd[p].names)
  /\ cmd[p].pc = "wait" /\ req[p].at = "stored" =>
       Valid(<<cmd[p].type, req[p].n>>) /\ DOMAIN A!Stored(<<cmd[p].type, req[p].n>>) = NamesIn(cmd[p].names)
  /\ cmd[p].pc \in {"post", "wait", "keep"} => cmd[p].names # <<>>
  /\ cmd[p].pc = "kept" => cmd[p].names = <<>>
SendInv == \A p \in Procs : Sending(p)

(* Outside a run there is no gateway and no version, and one push at a time.*)
AloneInv ==
  inRun = FALSE =>
    /\ \A t \in Types : server[t] = <<>>
    /\ \A p \in Procs : cmd[p].pc \in {"idle", "keep", "kept"} /\ req[p].at = "none"
    /\ \A p, q \in Procs : cmd[p].pc = "keep" /\ cmd[q].pc = "keep" => p = q
    /\ \A d \in DOMAIN store : d[2] \in 1..commands

(* In a run the store holds nothing but files of versions.                  *)
StoreInv == inRun = TRUE => \A d \in DOMAIN store : Valid(d) /\ DOMAIN store[d] \subseteq DOMAIN A!Stored(d)

(* What a push has still to keep, and what it has kept.                     *)
Left(p, k) == k \in NamesIn(cmd[p].names)
KeepsVersion(p) ==
  /\ Valid(A!Kept(p)) /\ NamesIn(cmd[p].names) \subseteq DOMAIN A!Stored(A!Kept(p))
  /\ \A k \in DOMAIN A!Stored(A!Kept(p)) :
       Left(p, k) \/ (k \in DOMAIN A!Dir(A!Kept(p)) /\ (cmd[p].touched = FALSE
         => A!Dir(A!Kept(p))[k] = A!Stored(A!Kept(p))[k]))
KeepsOwn(p) ==
  /\ A!Kept(p) \in Types \X Nat /\ cmd[p].n \in 1..commands
  /\ DOMAIN A!Dir(A!Kept(p)) \cup NamesIn(cmd[p].names) = cmd[p].all
  /\ cmd[p].pc = "kept" => A!Kept(p) \in DOMAIN store
KeepInv ==
  \A p \in Procs : cmd[p].pc \in {"keep", "kept"} => (inRun = TRUE => KeepsVersion(p)) /\ (inRun = FALSE
    => KeepsOwn(p))

(* No two pushes keep one version.                                          *)
Holds(p) == cmd[p].pc \in {"keep", "kept"} \/ (cmd[p].pc = "wait" /\ req[p].at = "stored")
Number(p) == IF cmd[p].pc = "wait" THEN <<cmd[p].type, req[p].n>> ELSE A!Kept(p)
OwnersInv == \A p, q \in Procs : p # q /\ Holds(p) /\ Holds(q) => Number(p) # Number(q)

(* What a pull takes, and has when it ends.                                 *)
PullInv ==
  \A p \in Procs : cmd[p].pc \in {"pull", "pulled"} =>
    /\ inRun = TRUE /\ \A d \in cmd[p].want : Valid(d)
    /\ cmd[p].pc = "pulled" /\ cmd[p].touched = FALSE =>
         \A d \in cmd[p].want : \A name \in DOMAIN A!Stored(d) : A!sameFile(d, name)

StoreIInv == StoreTypeOK /\ ServerInv /\ GateInv /\ SendInv /\ AloneInv /\ StoreInv /\ KeepInv /\ OwnersInv
  /\ PullInv

-----------------------------------------------------------------------------
(* The largest and the smallest of a finite set of numbers. *)

(* A set of numbers has a least one.                                        *)
LEMMA LeastNumber ==
  ASSUME NEW T, T \subseteq Nat, T # {}
  PROVE  \E m \in T : \A k \in T : m <= k
<1>1. PICK m \in T : \A k \in T : ~(<<k, m>> \in OpToRel(<, Nat))
  BY WFMin, NatLessThanWellFounded
<1>2. \A k \in T : ~(k < m)
  BY <1>1 DEF OpToRel
<1> QED
  BY <1>2

(* Smallest is the least of a set of numbers.                               *)
LEMMA SmallestIs ==
  ASSUME NEW T, T \subseteq Nat, T # {}
  PROVE  A!Smallest(T) \in T
BY LeastNumber DEF A!Smallest

(* Largest is the greatest of a finite set of numbers.                      *)
LEMMA LargestIs ==
  ASSUME NEW n \in Nat, NEW T, T \subseteq 0..n, T # {}
  PROVE  A!Largest(T) \in T /\ \A x \in T : x <= A!Largest(T)
<1> DEFINE Rest == {m \in 0..n : n - m \in T}
<1>0. PICK z \in T : TRUE
  OBVIOUS
<1>1. Rest \subseteq Nat /\ n - z \in Rest
  <2>1. z \in 0..n /\ n - z \in 0..n /\ n - (n - z) = z
    BY <1>0
  <2> QED
    BY <1>0, <2>1
<1>2. PICK m \in Rest : \A k \in Rest : m <= k
  <2> HIDE DEF Rest
  <2> QED
    BY <1>1, LeastNumber
<1>3. PICK x \in T : x = n - m
  BY <1>2
<1>4. \A y \in T : n - y \in Rest
  <2> TAKE y \in T
  <2>1. y \in 0..n /\ n - y \in 0..n /\ n - (n - y) = y
    OBVIOUS
  <2> QED
    BY <2>1
<1>5. \A y \in T : y <= x
  <2> TAKE y \in T
  <2>1. m <= n - y /\ m \in 0..n /\ y \in 0..n
    BY <1>2, <1>4
  <2> QED
    BY <1>3, <2>1
<1> QED
  BY <1>5 DEF A!Largest

(* Of a set of one number both are that number.                             *)
LEMMA Single ==
  ASSUME NEW i \in Nat
  PROVE  A!Largest({i}) = i /\ A!Smallest({i}) = i
BY DEF A!Largest, A!Smallest

-----------------------------------------------------------------------------
(* How a body is read. *)

(* The readers are records of two Booleans.                                 *)
LEMMA ReadersAre == \A r \in A!Readers : r.any \in BOOLEAN /\ r.last \in BOOLEAN
BY DEF A!Readers
(* qory's own reader is one of the readers.                                 *)
LEMMA DecoderIs == A!Decoder \in A!Readers
BY DEF A!Decoder, A!Readers

(* A value that a reader finds is one that the object has under that name.  *)
LEMMA ValueIs ==
  ASSUME NEW obj, A!Listing(obj), NEW x, NEW r \in A!Readers, A!Found(obj, x, r) # {}
  PROVE  \E k \in DOMAIN obj : obj[k].name = x /\ A!Value(obj, x, r) = obj[k].value
<1> DEFINE is == A!Found(obj, x, r)
<1>1. is \subseteq DOMAIN obj /\ \A k \in is : obj[k].name = x
  BY DEF A!Found
<1>2. is \subseteq 0..Len(obj) /\ is \subseteq Nat /\ Len(obj) \in Nat
  BY <1>1 DEF A!Listing
<1>3. A!Largest(is) \in is /\ A!Smallest(is) \in is
  BY <1>2, LargestIs, SmallestIs
<1>4. A!Value(obj, x, r) = obj[IF r.last THEN A!Largest(is) ELSE A!Smallest(is)].value
  BY DEF A!Value
<1> HIDE DEF is
<1>5. CASE r.last
  BY <1>1, <1>3, <1>4, <1>5
<1>6. CASE ~r.last
  BY <1>1, <1>3, <1>4, <1>6
<1> QED
  BY <1>5, <1>6

(* In an object with no name twice and none in another case, all readers    *)
(* find the same.                                                           *)
LEMMA OneValue ==
  ASSUME NEW obj, A!Listing(obj), A!members(obj), NEW x, NEW r \in A!Readers, NEW s \in A!Readers
  PROVE  /\ A!Found(obj, x, r) = A!Found(obj, x, s)
         /\ A!Found(obj, x, r) # {} => A!Value(obj, x, r) = A!Value(obj, x, s)
<1>1. A!Found(obj, x, r) = {i \in DOMAIN obj : obj[i].name = x}
        /\ A!Found(obj, x, s) = {i \in DOMAIN obj : obj[i].name = x}
  BY DEF A!Found, A!members
<1>2. ASSUME A!Found(obj, x, r) # {}
      PROVE  A!Value(obj, x, r) = A!Value(obj, x, s)
  <2>1. PICK i \in DOMAIN obj : i \in A!Found(obj, x, r)
    BY <1>1, <1>2
  <2>2. A!Found(obj, x, r) = {i}
    BY <1>1, <2>1 DEF A!members
  <2>3. i \in Nat
    BY <2>1 DEF A!Listing
  <2>4. A!Largest({i}) = i /\ A!Smallest({i}) = i
    BY <2>3, Single
  <2>5. A!Found(obj, x, s) = {i}
    BY <1>1, <2>2
  <2>6. A!Value(obj, x, r) = obj[i].value
    BY <2>2, <2>4 DEF A!Value
  <2>7. A!Value(obj, x, s) = obj[i].value
    BY <2>5, <2>4 DEF A!Value
  <2> QED
    BY <2>6, <2>7
<1> QED
  BY <1>1, <1>2

(* An object of two members with different names, as every reader reads it. *)
LEMMA OneOfTwo ==
  ASSUME NEW x, NEW y, NEW v, NEW w, x # y, NEW r \in A!Readers, NEW obj, obj = <<A!Member(x, v),
         A!Member(y, w)>>
  PROVE  /\ A!Listing(obj) /\ DOMAIN obj = {1, 2} /\ obj[1].name = x /\ obj[2].name = y /\ obj[1].value = v
            /\ obj[2].value = w
         /\ A!Value(obj, x, r) = v /\ A!Value(obj, y, r) = w
<1>1. Len(obj) = 2 /\ DOMAIN obj = 1..2 /\ obj[1] = A!Member(x, v) /\ obj[2] = A!Member(y, w) /\ 1..2 = {1, 2}
  OBVIOUS
<1>2. \A i \in {1, 2} : obj[i].exact = TRUE /\ obj[i].name = (IF i = 1 THEN x ELSE y)
        /\ obj[i].value = (IF i = 1 THEN v ELSE w)
  BY <1>1 DEF A!Member
<1>3. A!Found(obj, x, r) = {1} /\ A!Found(obj, y, r) = {2}
  BY <1>1, <1>2 DEF A!Found
<1>4. A!Value(obj, x, r) = obj[1].value /\ A!Value(obj, y, r) = obj[2].value
  BY <1>3, Single DEF A!Value
<1> QED
  BY <1>1, <1>2, <1>4 DEF A!Listing

(* A file as qory writes it is read back as it was, by every reader.        *)
LEMMA FileIs ==
  ASSUME NEW f \in Names \X Texts, NEW r \in A!Readers
  PROVE  /\ A!Listing(A!FileOf(f)) /\ \A k \in DOMAIN A!FileOf(f) : A!NamesFile(A!FileOf(f)[k])
         /\ <<A!Value(A!FileOf(f), "filename", r), A!Value(A!FileOf(f), "content_base64", r)>> = f
<1>1. A!FileOf(f) = <<A!Member("filename", f[1]), A!Member("content_base64", f[2])>> /\ f[1] \in Names
        /\ f = <<f[1], f[2]>>
  BY DEF A!FileOf
<1>2. /\ A!Listing(A!FileOf(f)) /\ DOMAIN A!FileOf(f) = {1, 2} /\ A!FileOf(f)[1].name = "filename"
           /\ A!FileOf(f)[2].name = "content_base64"
      /\ A!FileOf(f)[1].value = f[1]
      /\ A!Value(A!FileOf(f), "filename", r) = f[1] /\ A!Value(A!FileOf(f), "content_base64", r) = f[2]
  BY <1>1, OneOfTwo
<1>3. \A k \in DOMAIN A!FileOf(f) : A!NamesFile(A!FileOf(f)[k])
  BY <1>1, <1>2 DEF A!NamesFile
<1> QED
  BY <1>1, <1>2, <1>3

(* A body as qory writes it is read back as it was, by every reader.        *)
LEMMA PushIs ==
  ASSUME NEW t, NEW listed \in AllFiles, NEW r \in A!Readers
  PROVE  /\ A!IsBody(A!PushBody(t, listed))
         /\ A!Value(A!PushBody(t, listed), "type", r) = t /\ A!FilesOf(A!PushBody(t, listed), r) = listed
<1> DEFINE b == A!PushBody(t, listed)
           fs == [i \in DOMAIN listed |-> A!FileOf(listed[i])]
<1>0. listed \in Seq(Names \X Texts) /\ DOMAIN listed = 1..Len(listed) /\ Len(listed) \in Nat
  BY DEF AllFiles
<1>1. b = <<A!Member("type", t), A!Member("files", fs)>>
  BY DEF A!PushBody
<1> HIDE DEF b
<1>2. /\ A!Listing(b) /\ DOMAIN b = {1, 2} /\ b[1].name = "type" /\ b[2].name = "files" /\ b[2].value = fs
      /\ A!Value(b, "type", r) = t /\ A!Value(b, "files", r) = fs
  BY <1>1, OneOfTwo
<1>3. A!Listing(fs)
  BY <1>0 DEF A!Listing
<1>4. \A j \in DOMAIN fs : fs[j] = A!FileOf(listed[j]) /\ listed[j] \in Names \X Texts
  BY <1>0
<1>5. \A j \in DOMAIN fs : A!Listing(fs[j]) /\ \A k \in DOMAIN fs[j] : A!NamesFile(fs[j][k])
  BY <1>4, FileIs
<1>6. \A j \in DOMAIN fs : <<A!Value(fs[j], "filename", r), A!Value(fs[j], "content_base64", r)>> = listed[j]
  BY <1>4, FileIs
<1>7. A!FilesOf(b, r) = [j \in DOMAIN fs |-> <<A!Value(fs[j], "filename", r), A!Value(fs[j],
        "content_base64", r)>>]
  BY <1>2 DEF A!FilesOf
<1>8. DOMAIN fs = DOMAIN listed /\ listed = [j \in DOMAIN listed |-> listed[j]]
  BY <1>0
<1> HIDE DEF fs
<1>9. A!FilesOf(b, r) = listed
  BY <1>6, <1>7, <1>8
<1>10. A!IsBody(b)
  BY <1>2, <1>3, <1>5 DEF A!IsBody
<1> QED
  BY <1>2, <1>9, <1>10 DEF b

(* Every body is an object with a list of files. *)
LEMMA BodiesAre ==
  ASSUME A!ArtifactsAssumption
  PROVE  \A b \in AllBodies : A!IsBody(b)
<1>1. A!IsBody(<<>>)
  BY DEF A!IsBody, A!Listing
<1>2. \A b \in Bodies : A!IsBody(b)
  BY DEF A!ArtifactsAssumption
<1>3. \A t \in Types, listed \in AllFiles : A!IsBody(A!PushBody(t, listed))
  BY PushIs, DecoderIs
<1> QED
  BY <1>1, <1>2, <1>3 DEF AllBodies

(* What a reader finds in a body that is a push to it. *)
LEMMA FilesAre ==
  ASSUME NEW b, A!IsBody(b), NEW r \in A!Readers, A!IsPush(b, r)
  PROVE  /\ A!Listing(A!Value(b, "files", r)) /\ DOMAIN A!FilesOf(b, r) = DOMAIN A!Value(b, "files", r)
         /\ \A i \in DOMAIN A!FilesOf(b, r) : A!Listing(A!Value(b, "files", r)[i])
              /\ \A k \in DOMAIN A!Value(b, "files", r)[i] : A!NamesFile(A!Value(b, "files", r)[i][k])
         /\ \A i \in DOMAIN A!FilesOf(b, r) : A!LocalFilename(A!FilesOf(b, r)[i][1])
              => A!FilesOf(b, r)[i][1] \in Names
<1> DEFINE fs == A!Value(b, "files", r)
<1>1. PICK m \in DOMAIN b : b[m].name = "files" /\ fs = b[m].value
  BY ValueIs DEF A!IsBody, A!IsPush
<1>2. A!Listing(fs) /\ \A i \in DOMAIN fs : A!Listing(fs[i]) /\ \A k \in DOMAIN fs[i] : A!NamesFile(fs[i][k])
  BY <1>1 DEF A!IsBody
<1>3. A!FilesOf(b, r) = [i \in DOMAIN fs |-> <<A!Value(fs[i], "filename", r), A!Value(fs[i],
        "content_base64", r)>>]
  BY DEF A!FilesOf
<1>4. \A i \in DOMAIN fs : A!Found(fs[i], "filename", r) # {}
  BY DEF A!IsPush
<1> HIDE DEF fs
<1>5. ASSUME NEW i \in DOMAIN fs
      PROVE  A!LocalFilename(A!FilesOf(b, r)[i][1]) => A!FilesOf(b, r)[i][1] \in Names
  <2>1. PICK k \in DOMAIN fs[i] : fs[i][k].name = "filename" /\ A!Value(fs[i], "filename", r) = fs[i][k].value
    BY <1>2, <1>4, ValueIs
  <2>2. A!FilesOf(b, r)[i][1] = fs[i][k].value
    BY <1>3, <2>1
  <2> QED
    BY <1>2, <2>1, <2>2 DEF A!NamesFile
<1> QED
  BY <1>2, <1>3, <1>5 DEF fs

(* A body that qory takes is the same push to every reader. *)
LEMMA OneReading ==
  ASSUME NEW b, A!IsBody(b), A!readPush(b), NEW r \in A!Readers
  PROVE  A!Value(b, "type", r) = A!Value(b, "type", A!Decoder) /\ A!FilesOf(b, r) = A!FilesOf(b, A!Decoder)
<1> DEFINE fs == A!Value(b, "files", A!Decoder)
<1>1. A!Listing(b) /\ A!members(b) /\ A!IsPush(b, A!Decoder) /\ A!Decoder \in A!Readers
  BY DecoderIs DEF A!readPush, A!IsBody
<1>2. \A i \in DOMAIN fs : A!Listing(fs[i]) /\ A!members(fs[i])
  BY <1>1, FilesAre DEF A!readPush
<1>3. A!Found(b, "type", A!Decoder) # {} /\ A!Found(b, "files", A!Decoder) # {}
      /\ \A i \in DOMAIN fs : A!Found(fs[i], "filename", A!Decoder) # {}
           /\ A!Found(fs[i], "content_base64", A!Decoder) # {}
  BY <1>1 DEF A!IsPush
<1>4. A!Value(b, "type", r) = A!Value(b, "type", A!Decoder) /\ A!Value(b, "files", r) = fs
  BY <1>1, <1>3, OneValue
<1>5. \A i \in DOMAIN fs : /\ A!Value(fs[i], "filename", r) = A!Value(fs[i], "filename", A!Decoder)
                            /\ A!Value(fs[i], "content_base64", r) = A!Value(fs[i], "content_base64",
                                 A!Decoder)
  BY <1>1, <1>2, <1>3, OneValue
<1>6. A!FilesOf(b, r) = [i \in DOMAIN fs |-> <<A!Value(fs[i], "filename", r), A!Value(fs[i],
        "content_base64", r)>>]
  BY <1>4 DEF A!FilesOf
<1>7. A!FilesOf(b, A!Decoder) = [i \in DOMAIN fs |-> <<A!Value(fs[i], "filename", A!Decoder), A!Value(fs[i],
        "content_base64", A!Decoder)>>]
  BY DEF A!FilesOf
<1> HIDE DEF fs
<1> QED
  BY <1>4, <1>5, <1>6, <1>7

(* Where no two names are one file, the folder of the check has each file as *)
(* it is in the push.                                                       *)
LEMMA PassedIsGood ==
  ASSUME NEW listed, DOMAIN listed \subseteq Nat, NEW fold, A!Passes(listed, fold)
  PROVE  \A i \in DOMAIN listed : listed[i][2] \in Good
<1> SUFFICES ASSUME NEW i \in DOMAIN listed PROVE listed[i][2] \in Good
  OBVIOUS
<1>1. {j \in DOMAIN listed : listed[j][1] = listed[i][1] \/ (fold /\ listed[j][1][1] = listed[i][1][1])} = {i}
  BY DEF A!Passes, A!oneFile
<1>2. i \in Nat
  OBVIOUS
<1>3. A!Seen(listed, fold, i) = listed[i][2]
  BY <1>1, <1>2, Single DEF A!Seen
<1> QED
  BY <1>3 DEF A!Passes

-----------------------------------------------------------------------------
(* Types.                                                                   *)

(* A command stays a command when a step changes its fields.                *)
LEMMA Fields ==
  ASSUME NEW c \in Commands
  PROVE  /\ \A x \in CommandSteps : [c EXCEPT !.pc = x] \in Commands
         /\ [c EXCEPT !.touched = TRUE] \in Commands
         /\ \A n \in Nat : [c EXCEPT !.pc = "keep", !.n = n] \in Commands
         /\ \A want \in SUBSET (Types \X Nat) : [c EXCEPT !.pc = "pull", !.want = want,
              !.names = <<>>] \in Commands
<1>1. \A x \in CommandSteps : [c EXCEPT !.pc = x] \in Commands
  BY DEF Commands
<1>2. [c EXCEPT !.touched = TRUE] \in Commands
  BY DEF Commands
<1>3. \A n \in Nat : [c EXCEPT !.pc = "keep", !.n = n] \in Commands
  BY DEF Commands, CommandSteps
<1>4. ASSUME NEW want \in SUBSET (Types \X Nat)
      PROVE  [c EXCEPT !.pc = "pull", !.want = want, !.names = <<>>] \in Commands
  <2> DEFINE Wants == SUBSET (Types \X Nat)
             NamesLists == Seq(Names)
  <2>1. <<>> \in NamesLists /\ want \in Wants
    OBVIOUS
  <2>2. Commands = [pc : CommandSteps, type : Types \cup {""}, names : NamesLists, all : SUBSET Names, body :
          AllBodies,
                    n : Nat, want : Wants, pinned : [Types -> Nat], touched : BOOLEAN]
    BY DEF Commands
  <2> HIDE DEF Wants, NamesLists
  <2> QED
    BY <2>1, <2>2 DEF CommandSteps
<1> QED
  BY <1>1, <1>2, <1>3, <1>4

(* And when a push goes on to the next file.                                *)
LEMMA KeptFields ==
  ASSUME NEW c \in Commands, NEW l \in Seq(Names), NEW x \in CommandSteps, NEW y \in BOOLEAN
  PROVE  [c EXCEPT !.names = l, !.touched = y, !.pc = x] \in Commands
<1> DEFINE Wants == SUBSET (Types \X Nat)
           NamesLists == Seq(Names)
           All == SUBSET Names
           Kinds == Types \cup {""}
           Pins == [Types -> Nat]
<1>1. Commands = [pc : CommandSteps, type : Kinds, names : NamesLists, all : All, body : AllBodies,
                  n : Nat, want : Wants, pinned : Pins, touched : BOOLEAN]
  BY DEF Commands
<1>2. l \in NamesLists
  OBVIOUS
<1> HIDE DEF Wants, NamesLists, All, Kinds, Pins
<1> QED
  BY <1>1, <1>2

(* A request stays a request when a step changes its fields.                *)
LEMMA RequestFields ==
  ASSUME NEW c \in Requests, NEW x \in RequestSteps
  PROVE  /\ [c EXCEPT !.at = x] \in Requests
         /\ \A n \in Nat : [c EXCEPT !.at = x, !.n = n] \in Requests
BY DEF Requests

(* An idle command and no request are of the types.                         *)
LEMMA IdleIs == A!Idle \in Commands /\ A!NoRequest \in Requests
<1>1. A!Idle \in Commands
  BY DEF A!Idle, Commands, CommandSteps, AllBodies
<1>2. A!NoRequest \in Requests
  BY DEF A!NoRequest, Requests, RequestSteps, AllBodies
<1> QED
  BY <1>1, <1>2

(* The body of a push is one of the bodies, with the files that it names.   *)
LEMMA PushedIs ==
  ASSUME A!ArtifactsAssumption, StoreTypeOK, NEW t \in Types, NEW l \in Lists
  PROVE  /\ A!readPushSources(l) \in AllFiles /\ FileNames(A!readPushSources(l)) = NamesIn(l)
         /\ A!PushBody(t, A!readPushSources(l)) \in AllBodies
<1>1. l \in Seq(Names) /\ src \in [Names -> Texts]
  BY DEF A!ArtifactsAssumption, StoreTypeOK
<1>2. A!readPushSources(l) = [i \in 1..Len(l) |-> <<l[i], src[l[i]]>>] /\ Len(l) \in Nat
        /\ DOMAIN l = 1..Len(l)
  BY <1>1 DEF A!readPushSources
<1>3. \A i \in 1..Len(l) : <<l[i], src[l[i]]>> \in Names \X Texts
  BY <1>1
<1>4. A!readPushSources(l) \in Seq(Names \X Texts)
  BY <1>2, <1>3
<1>5. FileNames(A!readPushSources(l)) = NamesIn(l)
  BY <1>2 DEF FileNames, NamesIn
<1> QED
  BY <1>4, <1>5 DEF AllFiles, AllBodies

(* chosenVersion: a pull takes a version that Qory Apiary has, or none.     *)
LEMMA ChosenIs ==
  ASSUME StoreTypeOK, ServerInv, NEW t \in Types, NEW asked \in Nat, NEW p \in Procs
  PROVE  A!chosenVersion(t, asked, cmd[p].pinned, server[t]) \in 0..Len(server[t])
<1>1. Len(server[t]) \in Nat /\ gated[t] \in 0..Len(server[t])
  BY DEF StoreTypeOK, ServerInv
<1>2. cmd[p].pinned[t] \in Nat
  BY DEF StoreTypeOK, Commands
<1> QED
  BY <1>1, <1>2 DEF A!chosenVersion

(* A command that starts, as Starts and the actions write it.               *)
LEMMA StartedIs ==
  ASSUME A!ArtifactsAssumption, StoreTypeOK, ServerInv, NEW t \in Types, NEW l \in Lists
  PROVE  /\ [A!Idle EXCEPT !.pc = "post", !.type = t, !.names = l, !.body = A!PushBody(t,
            A!readPushSources(l))] \in Commands
         /\ \A n \in Nat : [A!Idle EXCEPT !.pc = "keep", !.type = t, !.names = l, !.all = {l[i] :
              i \in DOMAIN l}, !.n = n] \in Commands
<1>1. A!PushBody(t, A!readPushSources(l)) \in AllBodies /\ l \in Seq(Names)
  BY PushedIs DEF A!ArtifactsAssumption
<1>2. {l[i] : i \in DOMAIN l} \in SUBSET Names
  BY <1>1
<1> HIDE DEF A!PushBody
<1>3. [A!Idle EXCEPT !.pc = "post", !.type = t, !.names = l, !.body = A!PushBody(t,
        A!readPushSources(l))] \in Commands
  BY <1>1, IdleIs DEF Commands, CommandSteps
<1>4. \A n \in Nat : [A!Idle EXCEPT !.pc = "keep", !.type = t, !.names = l, !.all = {l[i] :
        i \in DOMAIN l}, !.n = n] \in Commands
  BY <1>1, <1>2, IdleIs DEF Commands, CommandSteps
<1> QED
  BY <1>3, <1>4

(* A pull that starts is a command.                                         *)
LEMMA PullStarts ==
  ASSUME StoreTypeOK
  PROVE  [A!Idle EXCEPT !.pc = "item", !.pinned = gated] \in Commands
<1>1. gated \in [Types -> Nat]
  BY DEF StoreTypeOK
<1> QED
  BY <1>1, IdleIs DEF Commands, CommandSteps

(* Outside a run a new push gets a number that no folder has.               *)
LEMMA NextIsNew ==
  ASSUME StoreTypeOK, AloneInv, inRun = FALSE, NEW t \in Types
  PROVE  A!nextVersion(t) \in 1..(commands + 1) /\ <<t, A!nextVersion(t)>> \notin DOMAIN store
<1> DEFINE ns == {0} \cup {d[2] : d \in {e \in DOMAIN store : e[1] = t}}
<1>1. commands \in Nat /\ \A d \in DOMAIN store : d[2] \in 1..commands
  BY DEF StoreTypeOK, AloneInv
<1>2. ns \subseteq 0..commands /\ ns # {}
  BY <1>1
<1>3. A!nextVersion(t) = 1 + A!Largest(ns)
  BY DEF A!nextVersion
<1>4. \A d \in DOMAIN store : d[1] = t => d[2] \in ns
  OBVIOUS
<1> HIDE DEF ns
<1>5. A!Largest(ns) \in 0..commands /\ \A x \in ns : x <= A!Largest(ns)
  BY <1>1, <1>2, LargestIs
<1>6. ASSUME <<t, A!nextVersion(t)>> \in DOMAIN store PROVE FALSE
  <2>1. A!nextVersion(t) \in ns
    BY <1>4, <1>6
  <2> QED
    BY <1>1, <1>3, <1>5, <2>1
<1> QED
  BY <1>1, <1>3, <1>5, <1>6

(* What Qory Apiary stores is what qory read.                               *)
LEMMA Forwarded ==
  ASSUME A!ArtifactsAssumption, StoreTypeOK, GateInv, NEW p \in Procs, A!Forward(p)
  PROVE  \/ server' = server /\ req' = [req EXCEPT ![p].at = "failed"]
         \/ \E t \in Types, v \in StoredVersions :
              /\ t = A!Value(req[p].body, "type", A!Decoder) /\ v = A!FilesOf(req[p].body, A!Decoder)
              /\ server' = [server EXCEPT ![t] = Append(server[t], v)]
              /\ FileNames(v) \subseteq Names /\ (t \in CheckedTypes => \A i \in DOMAIN v : v[i][2] \in Good)
              /\ \/ req' = [req EXCEPT ![p].at = "stored", ![p].n = Len(server[t]) + 1]
                 \/ req' = [req EXCEPT ![p].at = "failed"]
<1> DEFINE b == req[p].body
<1>1. b \in AllBodies /\ A!IsBody(b) /\ A!readPush(b) /\ A!IsPush(b, A!Decoder)
  BY BodiesAre DEF StoreTypeOK, Requests, GateInv, A!Forward, A!At, A!readPush
<1>2. CASE server' = server /\ req' = [req EXCEPT ![p].at = "failed"]
  BY <1>2
<1>3. ASSUME NEW r \in A!Readers, A!Accepts(b, r),
             server' = [server EXCEPT ![A!Value(b, "type", r)] = Append(@, A!FilesOf(b, r))],
             \/ req' = [req EXCEPT ![p].at = "stored", ![p].n = Len(server[A!Value(b, "type", r)]) + 1]
             \/ req' = [req EXCEPT ![p].at = "failed"]
      PROVE  \E t \in Types, v \in StoredVersions :
              /\ t = A!Value(b, "type", A!Decoder) /\ v = A!FilesOf(b, A!Decoder)
              /\ server' = [server EXCEPT ![t] = Append(server[t], v)]
              /\ FileNames(v) \subseteq Names /\ (t \in CheckedTypes => \A i \in DOMAIN v : v[i][2] \in Good)
              /\ \/ req' = [req EXCEPT ![p].at = "stored", ![p].n = Len(server[t]) + 1]
                 \/ req' = [req EXCEPT ![p].at = "failed"]
  <2> DEFINE t == A!Value(b, "type", r)
             v == A!FilesOf(b, r)
  <2>1. t = A!Value(b, "type", A!Decoder) /\ v = A!FilesOf(b, A!Decoder)
    BY <1>1, OneReading
  <2>2. t \in Types /\ v \in StoredVersions /\ \A i \in DOMAIN v : A!LocalFilename(v[i][1])
    BY <1>1, <1>3 DEF A!Accepts, StoredVersions
  <2>3. FileNames(v) \subseteq Names
    <3>1. A!IsPush(b, r)
      BY <1>3 DEF A!Accepts
    <3>2. \A i \in DOMAIN v : v[i][1] \in Names
      BY <1>1, <2>2, <3>1, FilesAre
    <3> QED
      BY <3>2 DEF FileNames
  <2>4. DOMAIN v \subseteq Nat
    BY <1>1, <2>1, FilesAre, DecoderIs DEF A!Listing
  <2>5. t \in CheckedTypes => A!Passes(v, Folds)
    BY <2>1 DEF GateInv, A!Forward, A!At
  <2>6. t \in CheckedTypes => \A i \in DOMAIN v : v[i][2] \in Good
    BY <2>4, <2>5, PassedIsGood
  <2>7. server' = [server EXCEPT ![t] = Append(server[t], v)]
    BY <1>3, <2>2 DEF StoreTypeOK
  <2> HIDE DEF t, v
  <2>8. \/ req' = [req EXCEPT ![p].at = "stored", ![p].n = Len(server[t]) + 1]
        \/ req' = [req EXCEPT ![p].at = "failed"]
    BY <1>3 DEF t
  <2> QED
    BY <2>1, <2>2, <2>3, <2>6, <2>7, <2>8
<1>4. \/ server' = server /\ req' = [req EXCEPT ![p].at = "failed"]
      \/ \E r \in A!Readers : /\ A!Accepts(b, r)
                            /\ server' = [server EXCEPT ![A!Value(b, "type", r)] = Append(@, A!FilesOf(b, r))]
                            /\ \/ req' = [req EXCEPT ![p].at = "stored", ![p].n = Len(server[A!Value(b,
                                    "type", r)]) + 1]
                               \/ req' = [req EXCEPT ![p].at = "failed"]
  BY DEF A!Forward, A!Goes
<1> QED
  BY <1>2, <1>3, <1>4

-----------------------------------------------------------------------------
(* The steps.                                                               *)

(* A folder of the store after a file was written.                          *)
LEMMA WrittenIs ==
  ASSUME NEW d, NEW name, NEW content, store' = A!Written(d, name, content)
  PROVE  /\ DOMAIN store' = DOMAIN store \cup {d} /\ AFunction(store'[d])
         /\ A!Dir(d)' = store'[d] /\ DOMAIN store'[d] = DOMAIN A!Dir(d) \cup {name}
              /\ store'[d][name] = content
         /\ \A k \in DOMAIN A!Dir(d) \ {name} : store'[d][k] = A!Dir(d)[k]
         /\ \A e : e # d => A!Dir(e)' = A!Dir(e)
         /\ \A e \in DOMAIN store : e # d => store'[e] = store[e]
<1> DEFINE listed == [k \in DOMAIN A!Dir(d) \cup {name} |-> IF k = name THEN content ELSE A!Dir(d)[k]]
<1>1. store' = [k \in DOMAIN store \cup {d} |-> IF k = d THEN listed ELSE store[k]]
  BY DEF A!Written
<1>2. AFunction(listed) /\ DOMAIN listed = DOMAIN A!Dir(d) \cup {name} /\ listed[name] = content
      /\ \A k \in DOMAIN A!Dir(d) \ {name} : listed[k] = A!Dir(d)[k]
  BY DEF AFunction
<1> HIDE DEF listed
<1>3. DOMAIN store' = DOMAIN store \cup {d} /\ store'[d] = listed /\ \A e \in DOMAIN store : e # d
        => store'[e] = store[e]
  BY <1>1
<1>4. A!Dir(d)' = store'[d] /\ \A e : e # d => A!Dir(e)' = A!Dir(e)
  BY <1>1, <1>3 DEF A!Dir
<1> QED
  BY <1>2, <1>3, <1>4

(* The store keeps its type when a file is written.                         *)
LEMMA WrittenType ==
  ASSUME StoreTypeOK, NEW d \in Types \X Nat, NEW name, NEW content, store' = A!Written(d, name, content)
  PROVE  DOMAIN store' \subseteq Types \X Nat /\ \A e \in DOMAIN store' : AFunction(store'[e])
<1>1. DOMAIN store \subseteq Types \X Nat /\ \A e \in DOMAIN store : AFunction(store[e])
  BY DEF StoreTypeOK
<1>2. /\ DOMAIN store' = DOMAIN store \cup {d} /\ AFunction(store'[d])
      /\ \A e \in DOMAIN store : e # d => store'[e] = store[e]
  BY WrittenIs, SMTT(30)
<1>3. ASSUME NEW e \in DOMAIN store' PROVE AFunction(store'[e])
  BY <1>1, <1>2
<1> QED
  BY <1>1, <1>2, <1>3

(* What a push keeps has a type and a number.                               *)
LEMMA KeptIs ==
  ASSUME StoreTypeOK, KeepInv, NEW p \in Procs, cmd[p].pc \in {"keep", "kept"}
  PROVE  A!Kept(p) \in Types \X Nat
BY DEF StoreTypeOK, KeepInv, KeepsVersion, KeepsOwn, Valid

(* Every step keeps the types.                                              *)
LEMMA TypesStay ==
  ASSUME A!ArtifactsAssumption, StoreTypeOK, ServerInv, GateInv, SendInv, AloneInv, KeepInv, [A!Next]_(A!vars)
  PROVE  StoreTypeOK'
<1>1. ASSUME NEW p \in Procs, A!Post(p)
      PROVE  StoreTypeOK'
  <2>1. [cmd[p] EXCEPT !.pc = "wait"] \in Commands
    BY Fields DEF StoreTypeOK, CommandSteps
  <2>2. [A!NoRequest EXCEPT !.at = "new", !.body = cmd[p].body] \in Requests
    BY IdleIs DEF StoreTypeOK, Commands, Requests, RequestSteps
  <2> QED
    BY <1>1, <2>1, <2>2 DEF StoreTypeOK, A!Post, A!Does, A!OnlyCmd
<1>2. ASSUME NEW p \in Procs, A!Gateway(p)
      PROVE  StoreTypeOK'
  <2>1. A!RunAPICheck(req[p].body) \in RequestSteps
    BY DEF A!RunAPICheck, RequestSteps
  <2>2. [req[p] EXCEPT !.at = A!RunAPICheck(req[p].body)] \in Requests
    BY <2>1, RequestFields DEF StoreTypeOK
  <2> QED
    BY <1>2, <2>2 DEF StoreTypeOK, A!Gateway, A!Goes, A!AsTheCommand
<1>3. ASSUME NEW p \in Procs, A!Check(p)
      PROVE  StoreTypeOK'
  <2>1. \A x \in {"forward", "failed"} : [req[p] EXCEPT !.at = x] \in Requests
    BY RequestFields DEF StoreTypeOK, RequestSteps
  <2> QED
    BY <1>3, <2>1 DEF StoreTypeOK, A!Check, A!Goes, A!AsTheCommand
<1>4. ASSUME NEW p \in Procs, A!Forward(p)
      PROVE  StoreTypeOK'
  <2>1. [req[p] EXCEPT !.at = "failed"] \in Requests /\ \A n \in Nat :
          [req[p] EXCEPT !.at = "stored", !.n = n] \in Requests
    BY RequestFields DEF StoreTypeOK, RequestSteps
  <2>2. UNCHANGED <<inRun, src, gated, store, cmd, commands>>
    BY <1>4 DEF A!Forward, A!AsTheCommand
  <2>3. CASE server' = server /\ req' = [req EXCEPT ![p].at = "failed"]
    BY <2>1, <2>2, <2>3 DEF StoreTypeOK
  <2>4. ASSUME NEW t \in Types, NEW v \in StoredVersions, server' = [server EXCEPT ![t] = Append(server[t],
                 v)],
               \/ req' = [req EXCEPT ![p].at = "stored", ![p].n = Len(server[t]) + 1]
               \/ req' = [req EXCEPT ![p].at = "failed"]
        PROVE  StoreTypeOK'
    <3>1. server' \in [Types -> Seq(StoredVersions)] /\ Len(server[t]) + 1 \in Nat
      BY <2>4 DEF StoreTypeOK
    <3>2. req' \in [Procs -> Requests]
      BY <2>1, <2>4, <3>1 DEF StoreTypeOK
    <3> QED
      BY <2>2, <3>1, <3>2 DEF StoreTypeOK
  <2> QED
    BY <1>4, <2>3, <2>4, Forwarded
<1>5. ASSUME NEW p \in Procs, A!Answered(p)
      PROVE  StoreTypeOK'
  <2>0. cmd[p] \in Commands /\ req[p] \in Requests
    BY DEF StoreTypeOK
  <2>1. [cmd[p] EXCEPT !.pc = "keep", !.n = req[p].n] \in Commands
    BY <2>0, Fields DEF Requests
  <2> QED
    BY <1>5, <2>1, IdleIs DEF StoreTypeOK, A!Answered, A!Does, A!OnlyCmd
<1>6. ASSUME NEW p \in Procs, A!Keep(p)
      PROVE  StoreTypeOK'
  <2>1. cmd[p].names \in Seq(Names) /\ cmd[p].names # <<>> /\ cmd[p].touched \in BOOLEAN
          /\ A!Kept(p) \in Types \X Nat
    BY <1>6, KeptIs DEF StoreTypeOK, Commands, SendInv, Sending, A!Keep, A!Is
  <2>2. Tail(cmd[p].names) \in Seq(Names)
    BY <2>1
  <2>3. \A x \in {"kept", "keep"}, y \in BOOLEAN : [cmd[p] EXCEPT !.names = Tail(cmd[p].names),
          !.touched = y, !.pc = x] \in Commands
    <3>1. PICK c, rest : c = cmd[p] /\ rest = Tail(cmd[p].names)
      OBVIOUS
    <3>2. c \in Commands /\ rest \in Seq(Names)
      BY <2>2, <3>1 DEF StoreTypeOK
    <3>3. \A x \in {"kept", "keep"}, y \in BOOLEAN : [c EXCEPT !.names = rest, !.touched = y,
            !.pc = x] \in Commands
      BY <3>2, KeptFields, ZenonT(40) DEF CommandSteps
    <3> QED
      BY <3>1, <3>3
  <2>4. \A q \in Procs : [cmd[q] EXCEPT !.touched = TRUE] \in Commands
    BY Fields DEF StoreTypeOK
  <2>5. cmd' \in [Procs -> Commands]
    BY <1>6, <2>1, <2>3, <2>4, ZenonT(40) DEF A!Keep, StoreTypeOK
  <2>6. DOMAIN store' \subseteq Types \X Nat /\ \A d \in DOMAIN store' : AFunction(store'[d])
    BY <1>6, <2>1, WrittenType, Zenon DEF A!Keep
  <2> QED
    BY <1>6, <2>5, <2>6, Zenon DEF StoreTypeOK, A!Keep, A!OnlyCmd
<1>7. ASSUME NEW p \in Procs, A!PullItem(p)
      PROVE  StoreTypeOK'
  BY <1>7, PullStarts DEF StoreTypeOK, A!PullItem, A!Starts, A!Does, A!OnlyCmd
<1>8. ASSUME NEW p \in Procs, A!PullFile(p)
      PROVE  StoreTypeOK'
  <2>1. cmd[p].want \subseteq Types \X Nat
    BY DEF StoreTypeOK, Commands
  <2>2. PICK m \in cmd[p].want \X Names : store' = A!Written(m[1], m[2], A!Stored(m[1])[m[2]])
    BY <1>8 DEF A!PullFile, A!Missing
  <2>3. m[1] \in Types \X Nat
    BY <2>1
  <2>4. DOMAIN store' \subseteq Types \X Nat /\ \A d \in DOMAIN store' : AFunction(store'[d])
    BY <2>2, <2>3, WrittenType
  <2> QED
    BY <1>8, <2>4 DEF StoreTypeOK, A!PullFile, A!OnlyCmd
<1>9. ASSUME NEW p \in Procs, A!PullEnd(p)
      PROVE  StoreTypeOK'
  <2>1. [cmd[p] EXCEPT !.pc = "pulled"] \in Commands
    BY Fields DEF StoreTypeOK, CommandSteps
  <2> QED
    BY <1>9, <2>1 DEF StoreTypeOK, A!PullEnd, A!Does, A!OnlyCmd
<1>10. ASSUME NEW p \in Procs, A!Kill(p)
      PROVE  StoreTypeOK'
  BY <1>10, IdleIs DEF StoreTypeOK, A!Kill, A!Does, A!OnlyCmd
<1>11. ASSUME NEW p \in Procs, NEW t \in Types, NEW l \in Lists, A!Push(p, t, l)
      PROVE  StoreTypeOK'
  <2>1. [A!Idle EXCEPT !.pc = "post", !.type = t, !.names = l, !.body = A!PushBody(t,
          A!readPushSources(l))] \in Commands
    BY StartedIs
  <2> QED
    BY <1>11, <2>1 DEF StoreTypeOK, A!Push, A!Starts, A!Does, A!OnlyCmd
<1>12. ASSUME NEW p \in Procs, NEW t \in Types, NEW l \in Lists, A!KeepPush(p, t, l)
      PROVE  StoreTypeOK'
  <2>1. A!nextVersion(t) \in Nat
    <3>1. inRun = FALSE /\ commands \in Nat
      BY <1>12 DEF A!KeepPush, StoreTypeOK
    <3>2. A!nextVersion(t) \in 1..(commands + 1)
      BY <3>1, NextIsNew
    <3> HIDE DEF A!nextVersion
    <3> QED
      BY <3>1, <3>2
  <2>2. [A!Idle EXCEPT !.pc = "keep", !.type = t, !.names = l, !.all = {l[i] :
          i \in DOMAIN l}, !.n = A!nextVersion(t)] \in Commands
    BY <2>1, StartedIs
  <2> QED
    BY <1>12, <2>2 DEF StoreTypeOK, A!KeepPush, A!Starts, A!Does, A!OnlyCmd
<1>13. ASSUME NEW p \in Procs, NEW body \in Bodies, A!PostOther(p, body)
      PROVE  StoreTypeOK'
  <2>0. body \in AllBodies
    BY DEF AllBodies
  <2>1. [A!NoRequest EXCEPT !.at = "new", !.body = body] \in Requests
    BY <2>0, IdleIs DEF Requests, RequestSteps
  <2> QED
    BY <1>13, <2>1, IdleIs DEF StoreTypeOK, A!PostOther, A!Starts, A!Does, A!OnlyCmd
<1>14. ASSUME NEW p \in Procs, NEW asked \in 0..1, NEW types \in {Types} \cup {{t} :
                t \in Types}, A!PullIndex(p, asked, types)
      PROVE  StoreTypeOK'
  <2> DEFINE n == [u \in Types |-> A!chosenVersion(u, asked, cmd[p].pinned, server[u])]
             want == {<<u, n[u]>> : u \in {v \in types : n[v] # 0}}
  <2>1. \A u \in Types : n[u] \in Nat
    <3>1. asked \in Nat /\ \A u \in Types : Len(server[u]) \in Nat
      BY DEF StoreTypeOK
    <3>2. \A u \in Types : A!chosenVersion(u, asked, cmd[p].pinned, server[u]) \in 0..Len(server[u])
      BY <3>1, ChosenIs
    <3> QED
      BY <3>1, <3>2
  <2>2. types \subseteq Types
    OBVIOUS
  <2>3. want \in SUBSET (Types \X Nat)
    <3> HIDE DEF n
    <3> QED
      BY <2>1, <2>2
  <2>4. cmd' = [cmd EXCEPT ![p] = [cmd[p] EXCEPT !.pc = "pull", !.want = want, !.names = <<>>]]
    BY <1>14 DEF A!PullIndex, A!Does
  <2> HIDE DEF want
  <2>5. cmd[p] \in Commands
    BY DEF StoreTypeOK
  <2>6. [cmd[p] EXCEPT !.pc = "pull", !.want = want, !.names = <<>>] \in Commands
    BY <2>3, <2>5, Fields
  <2> QED
    BY <1>14, <2>4, <2>6 DEF StoreTypeOK, A!PullIndex, A!OnlyCmd
<1>15. ASSUME NEW n \in Names, NEW c \in Texts, A!Edit(n, c)
      PROVE  StoreTypeOK'
  BY <1>15 DEF StoreTypeOK, A!Edit
<1>16. ASSUME NEW t \in Types, A!Approve(t)
      PROVE  StoreTypeOK'
  BY <1>16 DEF StoreTypeOK, A!Approve
<1>17. CASE UNCHANGED A!vars
  BY <1>17 DEF A!vars, StoreTypeOK
<1> QED
  BY <1>1, <1>2, <1>3, <1>4, <1>5, <1>6, <1>7, <1>8, <1>9, <1>10, <1>11, <1>12, <1>13, <1>14, <1>15, <1>16,
     <1>17 DEF A!Next

(* The versions of a type after one was appended.                           *)
LEMMA Appended ==
  ASSUME StoreTypeOK, NEW t \in Types, NEW v \in StoredVersions,
         server' = [server EXCEPT ![t] = Append(server[t], v)]
  PROVE  /\ Len(server'[t]) = Len(server[t]) + 1 /\ server'[t][Len(server[t]) + 1] = v
         /\ \A n \in 1..Len(server[t]) : server'[t][n] = server[t][n]
         /\ \A u \in Types : u # t => server'[u] = server[u]
<1>1. server[t] \in Seq(StoredVersions) /\ server'[t] = Append(server[t], v) /\ \A u \in Types : u # t
        => server'[u] = server[u]
  BY DEF StoreTypeOK
<1> QED
  BY <1>1

(* Qory Apiary keeps what it stored.                                        *)
LEMMA Grows ==
  ASSUME A!ArtifactsAssumption, StoreTypeOK, GateInv, [A!Next]_(A!vars)
  PROVE  \A u \in Types : Len(server[u]) \in Nat /\ Len(server'[u]) \in Nat
         /\ Len(server[u]) <= Len(server'[u]) /\ \A n \in 1..Len(server[u]) : server'[u][n] = server[u][n]
<1> DEFINE Grown == \A u \in Types : Len(server[u]) \in Nat /\ Len(server'[u]) \in Nat
             /\ Len(server[u]) <= Len(server'[u]) /\ \A n \in 1..Len(server[u]) : server'[u][n] = server[u][n]
<1>0. \A u \in Types : Len(server[u]) \in Nat
  BY DEF StoreTypeOK
<1>1. ASSUME NEW p \in Procs, A!Post(p)
      PROVE  Grown
  BY <1>0, <1>1 DEF A!Post, A!OnlyCmd
<1>2. ASSUME NEW p \in Procs, A!Gateway(p)
      PROVE  Grown
  BY <1>0, <1>2 DEF A!Gateway, A!AsTheCommand
<1>3. ASSUME NEW p \in Procs, A!Check(p)
      PROVE  Grown
  BY <1>0, <1>3 DEF A!Check, A!AsTheCommand
<1>4. ASSUME NEW p \in Procs, A!Forward(p)
      PROVE  Grown
  <2>1. CASE server' = server
    BY <1>0, <2>1
  <2>2. ASSUME NEW t \in Types, NEW v \in StoredVersions, server' = [server EXCEPT ![t] = Append(server[t],
                 v)]
        PROVE  Grown
    BY <1>0, <2>2, Appended
  <2> QED
    BY <1>4, <2>1, <2>2, Forwarded
<1>5. ASSUME NEW p \in Procs, A!Answered(p)
      PROVE  Grown
  BY <1>0, <1>5 DEF A!Answered, A!OnlyCmd
<1>6. ASSUME NEW p \in Procs, A!Keep(p)
      PROVE  Grown
  <2>1. server' = server
    BY <1>6, Zenon DEF A!Keep, A!OnlyCmd
  <2> QED
    BY <1>0, <2>1, SMTT(30)
<1>7. ASSUME NEW p \in Procs, A!PullItem(p)
      PROVE  Grown
  BY <1>0, <1>7 DEF A!PullItem, A!OnlyCmd
<1>8. ASSUME NEW p \in Procs, A!PullFile(p)
      PROVE  Grown
  BY <1>0, <1>8 DEF A!PullFile, A!OnlyCmd
<1>9. ASSUME NEW p \in Procs, A!PullEnd(p)
      PROVE  Grown
  BY <1>0, <1>9 DEF A!PullEnd, A!OnlyCmd
<1>10. ASSUME NEW p \in Procs, A!Kill(p)
      PROVE  Grown
  BY <1>0, <1>10 DEF A!Kill, A!OnlyCmd
<1>11. ASSUME NEW p \in Procs, NEW t \in Types, NEW l \in Lists, A!Push(p, t, l)
      PROVE  Grown
  BY <1>0, <1>11 DEF A!Push, A!OnlyCmd
<1>12. ASSUME NEW p \in Procs, NEW t \in Types, NEW l \in Lists, A!KeepPush(p, t, l)
      PROVE  Grown
  BY <1>0, <1>12 DEF A!KeepPush, A!OnlyCmd
<1>13. ASSUME NEW p \in Procs, NEW body \in Bodies, A!PostOther(p, body)
      PROVE  Grown
  BY <1>0, <1>13 DEF A!PostOther, A!OnlyCmd
<1>14. ASSUME NEW p \in Procs, NEW asked \in 0..1, NEW types \in {Types} \cup {{t} :
                t \in Types}, A!PullIndex(p, asked, types)
      PROVE  Grown
  BY <1>0, <1>14 DEF A!PullIndex, A!OnlyCmd
<1>15. ASSUME NEW n \in Names, NEW c \in Texts, A!Edit(n, c)
      PROVE  Grown
  BY <1>0, <1>15 DEF A!Edit
<1>16. ASSUME NEW t \in Types, A!Approve(t)
      PROVE  Grown
  BY <1>0, <1>16 DEF A!Approve
<1>17. CASE UNCHANGED A!vars
  BY <1>0, <1>17 DEF A!vars
<1> QED
  BY <1>1, <1>2, <1>3, <1>4, <1>5, <1>6, <1>7, <1>8, <1>9, <1>10, <1>11, <1>12, <1>13, <1>14, <1>15, <1>16,
     <1>17 DEF A!Next


(* A version stays what it is.                                              *)
LEMMA StaysValid ==
  ASSUME A!ArtifactsAssumption, StoreTypeOK, GateInv, [A!Next]_(A!vars)
  PROVE  \A d : Valid(d) => Valid(d)' /\ A!Stored(d)' = A!Stored(d)
<1> SUFFICES ASSUME NEW d, Valid(d) PROVE Valid(d)' /\ A!Stored(d)' = A!Stored(d)
  OBVIOUS
<1>1. d[1] \in Types /\ d[2] \in 1..Len(server[d[1]])
  BY DEF Valid
<1>2. Len(server[d[1]]) \in Nat /\ Len(server'[d[1]]) \in Nat /\ Len(server[d[1]]) <= Len(server'[d[1]])
  BY <1>1, Grows
<1>3. server'[d[1]][d[2]] = server[d[1]][d[2]]
  BY <1>1, Grows
<1>4. d[2] \in 1..Len(server'[d[1]])
  BY <1>1, <1>2
<1> QED
  BY <1>3, <1>4 DEF Valid, A!Stored

(* Every step keeps what Qory Apiary has checked, approved no further than  *)
(* it goes, and of known names.                                             *)
LEMMA ServerStays ==
  ASSUME A!ArtifactsAssumption, StoreTypeOK, ServerInv, GateInv, [A!Next]_(A!vars)
  PROVE  ServerInv'
<1>1. ASSUME NEW p \in Procs, A!Post(p)
      PROVE  ServerInv'
  BY <1>1 DEF A!Post, A!OnlyCmd, ServerInv, A!StoredIsChecked
<1>2. ASSUME NEW p \in Procs, A!Gateway(p)
      PROVE  ServerInv'
  BY <1>2 DEF A!Gateway, A!AsTheCommand, ServerInv, A!StoredIsChecked
<1>3. ASSUME NEW p \in Procs, A!Check(p)
      PROVE  ServerInv'
  BY <1>3 DEF A!Check, A!AsTheCommand, ServerInv, A!StoredIsChecked
<1>4. ASSUME NEW p \in Procs, A!Forward(p)
      PROVE  ServerInv'
  <2>0. gated' = gated
    BY <1>4 DEF A!Forward, A!AsTheCommand
  <2>1. CASE server' = server
    BY <2>0, <2>1 DEF ServerInv, A!StoredIsChecked
  <2>2. ASSUME NEW t \in Types, NEW v \in StoredVersions, server' = [server EXCEPT ![t] = Append(server[t],
                 v)],
               FileNames(v) \subseteq Names, t \in CheckedTypes => \A i \in DOMAIN v : v[i][2] \in Good
        PROVE  ServerInv'
    <3>1. /\ Len(server'[t]) = Len(server[t]) + 1 /\ server'[t][Len(server[t]) + 1] = v
          /\ \A n \in 1..Len(server[t]) : server'[t][n] = server[t][n]
          /\ \A u \in Types : u # t => server'[u] = server[u]
      BY <2>2, Appended
    <3>2. /\ Len(server[t]) \in Nat /\ gated \in [Types -> Nat]
          /\ DOMAIN server[t] = 1..Len(server[t]) /\ DOMAIN server'[t] = 1..Len(server'[t])
      BY <2>2 DEF StoreTypeOK
    <3>3. \A n \in DOMAIN server'[t] : (n \in DOMAIN server[t]
            /\ server'[t][n] = server[t][n]) \/ server'[t][n] = v
      BY <3>1, <3>2
    <3>4. \A n \in DOMAIN server'[t] : FileNames(server'[t][n]) \subseteq Names
      BY <2>2, <3>3 DEF ServerInv
    <3>5. gated[t] <= Len(server'[t])
      BY <3>1, <3>2 DEF ServerInv
    <3>6. \A u \in Types : gated'[u] <= Len(server'[u]) /\ \A n \in DOMAIN server'[u] :
            FileNames(server'[u][n]) \subseteq Names
      BY <2>0, <3>1, <3>4, <3>5 DEF ServerInv
    <3>7. ASSUME NEW u \in CheckedTypes, NEW n \in DOMAIN server'[u], NEW i \in DOMAIN server'[u][n]
          PROVE  server'[u][n][i][2] \in Good
      <4>1. u \in Types
        BY DEF A!ArtifactsAssumption
      <4>2. CASE u # t
        BY <3>1, <4>1, <4>2 DEF ServerInv, A!StoredIsChecked
      <4>3. CASE u = t
        BY <2>2, <3>3, <4>3 DEF ServerInv, A!StoredIsChecked
      <4> QED
        BY <4>2, <4>3
    <3> QED
      BY <3>6, <3>7 DEF ServerInv, A!StoredIsChecked
  <2> QED
    BY <1>4, <2>1, <2>2, Forwarded
<1>5. ASSUME NEW p \in Procs, A!Answered(p)
      PROVE  ServerInv'
  BY <1>5, SMTT(30) DEF A!Answered, A!OnlyCmd, ServerInv, A!StoredIsChecked
<1>6. ASSUME NEW p \in Procs, A!Keep(p)
      PROVE  ServerInv'
  BY <1>6 DEF A!Keep, A!OnlyCmd, ServerInv, A!StoredIsChecked
<1>7. ASSUME NEW p \in Procs, A!PullItem(p)
      PROVE  ServerInv'
  BY <1>7 DEF A!PullItem, A!OnlyCmd, ServerInv, A!StoredIsChecked
<1>8. ASSUME NEW p \in Procs, A!PullFile(p)
      PROVE  ServerInv'
  BY <1>8 DEF A!PullFile, A!OnlyCmd, ServerInv, A!StoredIsChecked
<1>9. ASSUME NEW p \in Procs, A!PullEnd(p)
      PROVE  ServerInv'
  BY <1>9 DEF A!PullEnd, A!OnlyCmd, ServerInv, A!StoredIsChecked
<1>10. ASSUME NEW p \in Procs, A!Kill(p)
      PROVE  ServerInv'
  BY <1>10 DEF A!Kill, A!OnlyCmd, ServerInv, A!StoredIsChecked
<1>11. ASSUME NEW p \in Procs, NEW t \in Types, NEW l \in Lists, A!Push(p, t, l)
      PROVE  ServerInv'
  BY <1>11 DEF A!Push, A!OnlyCmd, ServerInv, A!StoredIsChecked
<1>12. ASSUME NEW p \in Procs, NEW t \in Types, NEW l \in Lists, A!KeepPush(p, t, l)
      PROVE  ServerInv'
  BY <1>12 DEF A!KeepPush, A!OnlyCmd, ServerInv, A!StoredIsChecked
<1>13. ASSUME NEW p \in Procs, NEW body \in Bodies, A!PostOther(p, body)
      PROVE  ServerInv'
  BY <1>13 DEF A!PostOther, A!OnlyCmd, ServerInv, A!StoredIsChecked
<1>14. ASSUME NEW p \in Procs, NEW asked \in 0..1, NEW types \in {Types} \cup {{t} :
                t \in Types}, A!PullIndex(p, asked, types)
      PROVE  ServerInv'
  BY <1>14 DEF A!PullIndex, A!OnlyCmd, ServerInv, A!StoredIsChecked
<1>15. ASSUME NEW n \in Names, NEW c \in Texts, A!Edit(n, c)
      PROVE  ServerInv'
  BY <1>15 DEF A!Edit, ServerInv, A!StoredIsChecked
<1>16. ASSUME NEW t \in Types, A!Approve(t)
      PROVE  ServerInv'
  <2>1. \A u \in Types : gated'[u] <= Len(server[u])
    BY <1>16 DEF A!Approve, StoreTypeOK, ServerInv
  <2> QED
    BY <1>16, <2>1 DEF A!Approve, ServerInv, A!StoredIsChecked
<1>17. CASE UNCHANGED A!vars
  BY <1>17 DEF A!vars, ServerInv, A!StoredIsChecked
<1> QED
  BY <1>1, <1>2, <1>3, <1>4, <1>5, <1>6, <1>7, <1>8, <1>9, <1>10, <1>11, <1>12, <1>13, <1>14, <1>15, <1>16,
     <1>17 DEF A!Next

(* Every step keeps it that what the gateway lets through is read in one    *)
(* way, and was checked.                                                    *)
LEMMA GateStays ==
  ASSUME A!ArtifactsAssumption, StoreTypeOK, GateInv, [A!Next]_(A!vars)
  PROVE  GateInv'
<1>1. ASSUME NEW p \in Procs, A!Post(p)
      PROVE  GateInv'
  BY <1>1 DEF A!Post, A!OnlyCmd, GateInv, StoreTypeOK, A!NoRequest
<1>2. ASSUME NEW p \in Procs, A!Gateway(p)
      PROVE  GateInv'
  <2>1. /\ req'[p].body = req[p].body /\ req'[p].at = A!RunAPICheck(req[p].body)
        /\ \A q \in Procs : q # p => req'[q] = req[q]
    BY <1>2 DEF A!Gateway, A!Goes, StoreTypeOK, Requests
  <2>2. /\ A!RunAPICheck(req[p].body) \in {"check", "forward"} => A!readPush(req[p].body)
        /\ A!RunAPICheck(req[p].body) = "forward" => A!Value(req[p].body, "type",
             A!Decoder) \notin CheckedTypes
    BY DEF A!RunAPICheck
  <2> QED
    BY <2>1, <2>2 DEF GateInv
<1>3. ASSUME NEW p \in Procs, A!Check(p)
      PROVE  GateInv'
  <2>1. /\ req'[p].body = req[p].body /\ req'[p].at \in {"forward", "failed"}
        /\ (req'[p].at = "forward" => A!Passes(A!FilesOf(req[p].body, A!Decoder), Folds))
        /\ \A q \in Procs : q # p => req'[q] = req[q]
    BY <1>3 DEF A!Check, A!Goes, StoreTypeOK, Requests
  <2>2. req[p].at = "check"
    BY <1>3 DEF A!Check, A!At
  <2> QED
    BY <2>1, <2>2 DEF GateInv
<1>4. ASSUME NEW p \in Procs, A!Forward(p)
      PROVE  GateInv'
  <2>1. req'[p].at \in {"stored", "failed"} /\ \A q \in Procs : q # p => req'[q] = req[q]
    BY <1>4 DEF A!Forward, A!Goes, StoreTypeOK, Requests
  <2> QED
    BY <2>1 DEF GateInv
<1>5. ASSUME NEW p \in Procs, A!Answered(p)
      PROVE  GateInv'
  BY <1>5, SMTT(30) DEF A!Answered, A!OnlyCmd, GateInv, StoreTypeOK, A!NoRequest
<1>6. ASSUME NEW p \in Procs, A!Keep(p)
      PROVE  GateInv'
  BY <1>6, Zenon DEF A!Keep, A!OnlyCmd, GateInv
<1>7. ASSUME NEW p \in Procs, A!PullItem(p)
      PROVE  GateInv'
  BY <1>7 DEF A!PullItem, A!OnlyCmd, GateInv
<1>8. ASSUME NEW p \in Procs, A!PullFile(p)
      PROVE  GateInv'
  BY <1>8 DEF A!PullFile, A!OnlyCmd, GateInv
<1>9. ASSUME NEW p \in Procs, A!PullEnd(p)
      PROVE  GateInv'
  BY <1>9 DEF A!PullEnd, A!OnlyCmd, GateInv
<1>10. ASSUME NEW p \in Procs, A!Kill(p)
      PROVE  GateInv'
  BY <1>10 DEF A!Kill, A!OnlyCmd, GateInv
<1>11. ASSUME NEW p \in Procs, NEW t \in Types, NEW l \in Lists, A!Push(p, t, l)
      PROVE  GateInv'
  BY <1>11 DEF A!Push, A!OnlyCmd, GateInv
<1>12. ASSUME NEW p \in Procs, NEW t \in Types, NEW l \in Lists, A!KeepPush(p, t, l)
      PROVE  GateInv'
  BY <1>12 DEF A!KeepPush, A!OnlyCmd, GateInv
<1>13. ASSUME NEW p \in Procs, NEW body \in Bodies, A!PostOther(p, body)
      PROVE  GateInv'
  BY <1>13 DEF A!PostOther, A!OnlyCmd, GateInv, StoreTypeOK, A!NoRequest
<1>14. ASSUME NEW p \in Procs, NEW asked \in 0..1, NEW types \in {Types} \cup {{t} :
                t \in Types}, A!PullIndex(p, asked, types)
      PROVE  GateInv'
  BY <1>14 DEF A!PullIndex, A!OnlyCmd, GateInv
<1>15. ASSUME NEW n \in Names, NEW c \in Texts, A!Edit(n, c)
      PROVE  GateInv'
  BY <1>15 DEF A!Edit, GateInv
<1>16. ASSUME NEW t \in Types, A!Approve(t)
      PROVE  GateInv'
  BY <1>16 DEF A!Approve, GateInv
<1>17. CASE UNCHANGED A!vars
  BY <1>17 DEF A!vars, GateInv
<1> QED
  BY <1>1, <1>2, <1>3, <1>4, <1>5, <1>6, <1>7, <1>8, <1>9, <1>10, <1>11, <1>12, <1>13, <1>14, <1>15, <1>16,
     <1>17 DEF A!Next

-----------------------------------------------------------------------------
(* A step is one command's, or leaves the commands alone; and what a step   *)
(* leaves of another command.                                               *)
ActsOf(p) ==
  \/ A!Post(p) \/ A!Gateway(p) \/ A!Check(p) \/ A!Forward(p) \/ A!Answered(p) \/ A!Keep(p)
  \/ A!PullItem(p) \/ A!PullFile(p) \/ A!PullEnd(p) \/ A!Kill(p)
  \/ \E t \in Types, l \in Lists : A!Push(p, t, l) \/ A!KeepPush(p, t, l)
  \/ \E body \in Bodies : A!PostOther(p, body)
  \/ \E asked \in 0..1, types \in {Types} \cup {{t} : t \in Types} : A!PullIndex(p, asked, types)
FilesOrApproval == UNCHANGED <<inRun, server, cmd, req, store, commands>>
SameCommand(q) ==
  /\ cmd'[q].pc = cmd[q].pc /\ cmd'[q].type = cmd[q].type /\ cmd'[q].names = cmd[q].names
       /\ cmd'[q].n = cmd[q].n
  /\ cmd'[q].all = cmd[q].all /\ cmd'[q].body = cmd[q].body /\ cmd'[q].want = cmd[q].want
  /\ cmd'[q].touched = FALSE => cmd[q].touched = FALSE
  /\ req'[q] = req[q]

(* A step changes the files or the approved versions alone, or is one of a  *)
(* command.                                                                 *)
LEMMA StoreStepIs ==
  ASSUME [A!Next]_(A!vars)
  PROVE  FilesOrApproval \/ \E p \in Procs : ActsOf(p)
<1>1. ASSUME NEW n \in Names, NEW c \in Texts, A!Edit(n, c)
      PROVE  FilesOrApproval
  BY <1>1 DEF A!Edit, FilesOrApproval
<1>2. ASSUME NEW t \in Types, A!Approve(t)
      PROVE  FilesOrApproval
  BY <1>2 DEF A!Approve, FilesOrApproval
<1>3. CASE UNCHANGED A!vars
  BY <1>3 DEF A!vars, FilesOrApproval
<1> QED
  BY <1>1, <1>2, <1>3 DEF A!Next, ActsOf

(* A step of one command leaves the others as they were, or marks their     *)
(* pulls as touched.                                                        *)
LEMMA OtherCommands ==
  ASSUME StoreTypeOK, NEW p \in Procs, ActsOf(p)
  PROVE  \A q \in Procs : q # p => SameCommand(q)
<1>0. cmd \in [Procs -> Commands] /\ req \in [Procs -> Requests]
  BY DEF StoreTypeOK
<1>1. CASE A!Post(p)
  BY <1>0, <1>1 DEF A!Post, A!Does, A!OnlyCmd, SameCommand
<1>2. CASE A!Gateway(p)
  BY <1>0, <1>2 DEF A!Gateway, A!Goes, A!AsTheCommand, SameCommand
<1>3. CASE A!Check(p)
  BY <1>0, <1>3 DEF A!Check, A!Goes, A!AsTheCommand, SameCommand
<1>4. CASE A!Forward(p)
  <2>1. cmd' = cmd /\ \A q \in Procs : q # p => req'[q] = req[q]
    BY <1>0, <1>4 DEF A!Forward, A!Goes, A!AsTheCommand
  <2> QED
    BY <2>1 DEF SameCommand
<1>5. CASE A!Answered(p)
  BY <1>0, <1>5 DEF A!Answered, A!Does, A!OnlyCmd, SameCommand
<1>6. CASE A!Keep(p)
  <2>1. req' = req /\ \A q \in Procs : q # p => cmd'[q] \in {cmd[q], [cmd[q] EXCEPT !.touched = TRUE]}
    BY <1>6, Zenon DEF A!Keep
  <2>2. \A q \in Procs : q # p => SameCommand(q)
    <3> SUFFICES ASSUME NEW q \in Procs, q # p PROVE SameCommand(q)
      OBVIOUS
    <3>1. cmd[q] \in Commands
      BY DEF StoreTypeOK
    <3>2. CASE cmd'[q] = cmd[q]
      BY <2>1, <3>2 DEF SameCommand
    <3>3. CASE cmd'[q] = [cmd[q] EXCEPT !.touched = TRUE]
      BY <2>1, <3>1, <3>3 DEF SameCommand, Commands
    <3> QED
      BY <2>1, <3>2, <3>3
  <2> QED
    BY <2>2, SMTT(30)
<1>7. CASE A!PullItem(p)
  BY <1>0, <1>7 DEF A!PullItem, A!Does, SameCommand
<1>8. CASE A!PullFile(p)
  BY <1>0, <1>8 DEF A!PullFile, A!OnlyCmd, SameCommand
<1>9. CASE A!PullEnd(p)
  BY <1>0, <1>9 DEF A!PullEnd, A!Does, SameCommand
<1>10. CASE A!Kill(p)
  BY <1>0, <1>10 DEF A!Kill, A!Does, SameCommand
<1>11. ASSUME NEW t \in Types, NEW l \in Lists, A!Push(p, t, l)
      PROVE  \A q \in Procs : q # p => SameCommand(q)
  BY <1>0, <1>11 DEF A!Push, A!Does, SameCommand
<1>12. ASSUME NEW t \in Types, NEW l \in Lists, A!KeepPush(p, t, l)
      PROVE  \A q \in Procs : q # p => SameCommand(q)
  BY <1>0, <1>12 DEF A!KeepPush, A!Does, SameCommand
<1>13. ASSUME NEW body \in Bodies, A!PostOther(p, body)
      PROVE  \A q \in Procs : q # p => SameCommand(q)
  BY <1>0, <1>13 DEF A!PostOther, A!Does, SameCommand
<1>14. ASSUME NEW asked \in 0..1, NEW types \in {Types} \cup {{t} : t \in Types}, A!PullIndex(p, asked, types)
      PROVE  \A q \in Procs : q # p => SameCommand(q)
  BY <1>0, <1>14 DEF A!PullIndex, A!Does, SameCommand
<1> QED
  BY <1>1, <1>2, <1>3, <1>4, <1>5, <1>6, <1>7, <1>8, <1>9, <1>10, <1>11, <1>12, <1>13, <1>14 DEF ActsOf

(* What a command sends stays right while others step.                      *)
LEMMA SendingSame ==
  ASSUME A!ArtifactsAssumption, StoreTypeOK, GateInv, [A!Next]_(A!vars), NEW q \in Procs, SameCommand(q),
         Sending(q)
  PROVE  Sending(q)'
<1>1. PICK d : d = <<cmd[q].type, req[q].n>>
  OBVIOUS
<1>2. d = <<cmd'[q].type, req'[q].n>>
  BY <1>1 DEF SameCommand
<1>3. cmd[q].pc = "wait" /\ req[q].at = "stored" => Valid(d) /\ DOMAIN A!Stored(d) = NamesIn(cmd[q].names)
  BY <1>1 DEF Sending
<1>4. Valid(d) => Valid(d)' /\ A!Stored(d)' = A!Stored(d)
  BY StaysValid
<1>5. cmd'[q].pc = "wait" /\ req'[q].at = "stored" => Valid(d)'
        /\ DOMAIN A!Stored(d)' = NamesIn(cmd'[q].names)
  BY <1>3, <1>4 DEF SameCommand
<1>6. (cmd[q].pc = "wait" /\ req[q].at = "stored" =>
         Valid(<<cmd[q].type, req[q].n>>) /\ DOMAIN A!Stored(<<cmd[q].type,
           req[q].n>>) = NamesIn(cmd[q].names))'
  <2>1. d[1] = cmd'[q].type /\ d[2] = req'[q].n
    BY <1>2
  <2>2. Valid(d)' => Valid(<<cmd[q].type, req[q].n>>)'
    BY <1>2 DEF Valid
  <2>3. A!Stored(<<cmd[q].type, req[q].n>>)' = A!Stored(d)'
    BY <1>2, <2>1 DEF A!Stored
  <2>4. cmd'[q].pc = "wait" /\ req'[q].at = "stored" =>
          Valid(<<cmd[q].type, req[q].n>>)' /\ DOMAIN A!Stored(<<cmd[q].type,
            req[q].n>>)' = NamesIn(cmd'[q].names)
    BY <1>5, <2>2, <2>3
  <2>5. NamesIn(cmd'[q].names) = NamesIn(cmd[q].names)'
    BY DEF NamesIn
  <2> QED
    BY <2>4, <2>5
<1>7. (cmd[q].pc \in {"post", "wait"} => \E listed \in AllFiles :
        cmd[q].body = A!PushBody(cmd[q].type, listed) /\ FileNames(listed) = NamesIn(cmd[q].names))'
  BY DEF SameCommand, Sending
<1> QED
  BY <1>6, <1>7 DEF SameCommand, Sending

(* The fields of an idle command, and of a request that starts.             *)
LEMMA IdleHas ==
  /\ A!Idle.pc = "idle" /\ A!Idle.names = <<>> /\ A!Idle.want = {} /\ A!Idle.touched = FALSE
       /\ A!NoRequest.at = "none"
  /\ \A b : LET r == [A!NoRequest EXCEPT !.at = "new", !.body = b] IN r.at = "new" /\ r.body = b
BY DEF A!Idle, A!NoRequest

(* A command that goes to another step keeps its other fields.              *)
LEMMA SetPc ==
  ASSUME NEW c \in Commands, NEW x, NEW d, d = [c EXCEPT !.pc = x]
  PROVE  /\ d.pc = x /\ d.type = c.type /\ d.names = c.names /\ d.body = c.body /\ d.n = c.n
         /\ d.all = c.all /\ d.want = c.want /\ d.touched = c.touched
BY DEF Commands

(* A push that was stored takes its number and keeps its other fields.      *)
LEMMA SetNumber ==
  ASSUME NEW c \in Commands, NEW n, NEW d, d = [c EXCEPT !.pc = "keep", !.n = n]
  PROVE  d.pc = "keep" /\ d.type = c.type /\ d.names = c.names /\ d.n = n /\ d.want = c.want
         /\ d.touched = c.touched
BY DEF Commands

(* What a command sends is right after each of its own steps.               *)
LEMMA SendingActs ==
  ASSUME A!ArtifactsAssumption, StoreTypeOK, GateInv, SendInv, [A!Next]_(A!vars), NEW p \in Procs, ActsOf(p)
  PROVE  Sending(p)'
<1>0. cmd \in [Procs -> Commands] /\ req \in [Procs -> Requests]
  BY DEF StoreTypeOK
<1>00. Sending(p)
  BY DEF SendInv
<1>1. CASE A!Post(p)
  <2>1. /\ cmd[p].pc = "post" /\ cmd'[p] = [cmd[p] EXCEPT !.pc = "wait"]
        /\ req'[p].at = "new" /\ req'[p].body = cmd[p].body
    BY <1>0, <1>1, IdleHas DEF A!Post, A!Is, A!Does
  <2>2. /\ cmd'[p].pc = "wait" /\ cmd'[p].type = cmd[p].type /\ cmd'[p].names = cmd[p].names
             /\ cmd'[p].body = cmd[p].body
    <3>1. cmd[p] \in Commands
      BY <1>0
    <3> QED
      BY <2>1, <3>1, SetPc
  <2> QED
    BY <2>1, <2>2, <1>00 DEF Sending
<1>2. CASE A!Gateway(p)
  <2>1. /\ cmd' = cmd /\ req[p].at \in {"new", "check"} /\ req'[p].body = req[p].body
        /\ req'[p].at \in {"check", "forward", "failed"}
    BY <1>0, <1>2 DEF A!Gateway, A!At, A!Goes, A!AsTheCommand, A!RunAPICheck, Requests
  <2> QED
    BY <2>1, <1>00 DEF Sending
<1>3. CASE A!Check(p)
  <2>1. /\ cmd' = cmd /\ req[p].at \in {"new", "check"} /\ req'[p].body = req[p].body
        /\ req'[p].at \in {"check", "forward", "failed"}
    BY <1>0, <1>3 DEF A!Check, A!At, A!Goes, A!AsTheCommand, A!RunAPICheck, Requests
  <2> QED
    BY <2>1, <1>00 DEF Sending
<1>4. CASE A!Forward(p)
  <2>1. /\ cmd' = cmd /\ req[p].at = "forward"
    BY <1>4 DEF A!Forward, A!At, A!AsTheCommand
  <2>2. CASE server' = server /\ req' = [req EXCEPT ![p].at = "failed"]
    <3>1. req'[p].body = req[p].body /\ req'[p].at = "failed"
      BY <1>0, <2>2 DEF Requests
    <3> QED
      BY <2>1, <3>1, <1>00 DEF Sending
  <2>3. ASSUME NEW t \in Types, NEW v \in StoredVersions, t = A!Value(req[p].body, "type", A!Decoder),
                 v = A!FilesOf(req[p].body, A!Decoder),
               server' = [server EXCEPT ![t] = Append(server[t], v)],
               \/ req' = [req EXCEPT ![p].at = "stored", ![p].n = Len(server[t]) + 1]
               \/ req' = [req EXCEPT ![p].at = "failed"]
        PROVE  Sending(p)'
    <3>1. /\ req'[p].body = req[p].body /\ req'[p].at \in {"stored", "failed"}
          /\ (req'[p].at = "stored" => req'[p].n = Len(server[t]) + 1)
      BY <1>0, <2>3 DEF Requests
    <3>2. ASSUME cmd'[p].pc = "wait", req'[p].at = "stored"
          PROVE  Valid(<<cmd[p].type, req[p].n>>)' /\ DOMAIN A!Stored(<<cmd[p].type,
                 req[p].n>>)' = NamesIn(cmd'[p].names)
      <4>1. req[p].body = cmd[p].body /\ cmd[p].type \in Types
        BY <1>00, <2>1, <3>2 DEF Sending
      <4>2. PICK listed \in AllFiles : cmd[p].body = A!PushBody(cmd[p].type, listed)
                   /\ FileNames(listed) = NamesIn(cmd[p].names)
        BY <1>00, <2>1, <3>2 DEF Sending
      <4>3. t = cmd[p].type /\ v = listed
        BY <2>3, <4>1, <4>2, PushIs, DecoderIs
      <4>4. Len(server'[t]) = Len(server[t]) + 1 /\ server'[t][Len(server[t]) + 1] = v
              /\ Len(server[t]) \in Nat
        BY <2>3, Appended DEF StoreTypeOK
      <4>5. cmd'[p].type = t /\ req'[p].n = Len(server[t]) + 1
        BY <2>1, <3>1, <3>2, <4>3
      <4>6. <<cmd'[p].type, req'[p].n>> \in Types \X Nat /\ req'[p].n \in 1..Len(server'[t])
        BY <4>4, <4>5
      <4>7. Valid(<<cmd[p].type, req[p].n>>)'
        BY <4>5, <4>6 DEF Valid
      <4>8. DOMAIN A!Stored(<<cmd[p].type, req[p].n>>)' = {v[i][1] : i \in DOMAIN v}
        BY <4>4, <4>5 DEF A!Stored
      <4> QED
        BY <2>1, <4>2, <4>3, <4>7, <4>8 DEF FileNames
    <3>3. NamesIn(cmd'[p].names) = NamesIn(cmd[p].names)'
      BY DEF NamesIn
    <3> QED
      BY <2>1, <3>1, <3>2, <3>3, <1>00 DEF Sending
  <2> QED
    BY <1>4, <2>2, <2>3, Forwarded
<1>5. CASE A!Answered(p)
  <2>1. req'[p].at = "none" /\ req[p].at \in {"stored", "failed"}
    BY <1>0, <1>5, IdleHas DEF A!Answered
  <2>2. CASE cmd[p].pc = "wait" /\ req[p].at = "stored"
    <3>1. cmd'[p] = [cmd[p] EXCEPT !.pc = "keep", !.n = req[p].n]
      BY <1>0, <1>5, <2>2 DEF A!Answered, A!Is, A!At, A!Does
    <3>2. cmd'[p].pc = "keep" /\ cmd'[p].names = cmd[p].names
      <4>1. cmd[p] \in Commands
        BY <1>0
      <4>2. PICK c, d, m : c = cmd[p] /\ d = cmd'[p] /\ m = req[p].n
        OBVIOUS
      <4>3. c \in Commands /\ d = [c EXCEPT !.pc = "keep", !.n = m]
        BY <3>1, <4>1, <4>2
      <4>4. d.pc = "keep" /\ d.names = c.names
        BY <4>3 DEF Commands
      <4> QED
        BY <4>2, <4>4
    <3> QED
      BY <2>1, <2>2, <3>2, <1>00 DEF Sending
  <2>3. CASE ~(cmd[p].pc = "wait" /\ req[p].at = "stored")
    <3>1. cmd'[p].pc = "idle"
      BY <1>0, <1>00, <1>5, <2>1, <2>3, IdleHas DEF A!Answered, A!Is, A!At, A!Does, Sending
    <3> QED
      BY <2>1, <3>1 DEF Sending
  <2> QED
    BY <2>2, <2>3
<1>6. CASE A!Keep(p)
  <2>1. cmd[p].pc = "keep" /\ req' = req
    BY <1>6, ZenonT(40) DEF A!Keep, A!Is
  <2>2. cmd'[p].names = Tail(cmd[p].names) /\ cmd'[p].pc = IF Tail(cmd[p].names) = <<>> THEN "kept"
          ELSE "keep"
    BY <1>0, <1>6 DEF A!Keep, Commands
  <2> QED
    BY <1>00, <2>1, <2>2, SMTT(30) DEF Sending
<1>7. CASE A!PullItem(p)
  <2>1. cmd'[p].pc = "item" /\ req'[p] = req[p] /\ req[p].at = "none"
    BY <1>0, <1>7 DEF A!PullItem, A!Does, A!Starts, A!At, A!Idle
  <2> QED
    BY <2>1 DEF Sending
<1>8. CASE A!PullFile(p)
  <2>1. SameCommand(p)
    BY <1>8 DEF A!PullFile, A!OnlyCmd, SameCommand
  <2> QED
    BY <1>00, <2>1, SendingSame
<1>9. CASE A!PullEnd(p)
  <2>1. cmd'[p].pc = "pulled" /\ cmd[p].pc = "pull" /\ req' = req
    BY <1>0, <1>9 DEF A!PullEnd, A!Is, A!Does, Commands
  <2> QED
    BY <1>00, <2>1 DEF Sending
<1>10. CASE A!Kill(p)
  <2>1. cmd'[p].pc = "idle"
    BY <1>0, <1>10, IdleHas DEF A!Kill, A!Does
  <2> QED
    BY <2>1 DEF Sending
<1>11. ASSUME NEW t \in Types, NEW l \in Lists, A!Push(p, t, l)
      PROVE  Sending(p)'
  <2>1. req'[p].at = "none" /\ cmd'[p] = [A!Idle EXCEPT !.pc = "post", !.type = t, !.names = l,
          !.body = A!PushBody(t, A!readPushSources(l))]
    BY <1>0, <1>11 DEF A!Push, A!Starts, A!At, A!Does
  <2>2. cmd'[p].pc = "post" /\ cmd'[p].type = t /\ cmd'[p].names = l
          /\ cmd'[p].body = A!PushBody(t, A!readPushSources(l))
    BY <2>1 DEF A!Idle
  <2>3. A!readPushSources(l) \in AllFiles /\ FileNames(A!readPushSources(l)) = NamesIn(l) /\ l # <<>>
    BY PushedIs DEF A!ArtifactsAssumption
  <2>4. (\E listed \in AllFiles : cmd[p].body = A!PushBody(cmd[p].type, listed)
          /\ FileNames(listed) = NamesIn(cmd[p].names))'
    <3>1. \E listed \in AllFiles : cmd'[p].body = A!PushBody(cmd'[p].type, listed)
            /\ FileNames(listed) = NamesIn(cmd'[p].names)
      BY <2>2, <2>3
    <3> QED
      BY <3>1 DEF AllFiles, A!PushBody, FileNames, NamesIn, A!FileOf, A!Member
  <2>5. /\ cmd'[p].pc \notin {"idle", "wait", "kept"} /\ cmd'[p].type \in Types /\ cmd'[p].names # <<>>
    BY <2>2, <2>3
  <2> QED
    BY <2>1, <2>4, <2>5 DEF Sending
<1>12. ASSUME NEW t \in Types, NEW l \in Lists, A!KeepPush(p, t, l)
      PROVE  Sending(p)'
  <2>1. req'[p].at = "none" /\ cmd'[p].pc = "keep" /\ cmd'[p].names = l
    BY <1>0, <1>12 DEF A!KeepPush, A!Starts, A!At, A!Does, A!Idle
  <2>2. l # <<>>
    BY DEF A!ArtifactsAssumption
  <2> QED
    BY <2>1, <2>2 DEF Sending
<1>13. ASSUME NEW body \in Bodies, A!PostOther(p, body)
      PROVE  Sending(p)'
  <2>1. cmd'[p].pc = "idle"
    BY <1>0, <1>13, IdleHas DEF A!PostOther, A!Does
  <2> QED
    BY <2>1 DEF Sending
<1>14. ASSUME NEW asked \in 0..1, NEW types \in {Types} \cup {{t} : t \in Types}, A!PullIndex(p, asked, types)
      PROVE  Sending(p)'
  <2>1. cmd'[p].pc = "pull" /\ cmd[p].pc = "item" /\ req' = req
    BY <1>0, <1>14 DEF A!PullIndex, A!Is, A!Does, Commands
  <2> QED
    BY <1>00, <2>1 DEF Sending
<1> QED
  BY <1>1, <1>2, <1>3, <1>4, <1>5, <1>6, <1>7, <1>8, <1>9, <1>10, <1>11, <1>12, <1>13, <1>14 DEF ActsOf

(* Every step keeps what the commands send right.                           *)
LEMMA SendStays ==
  ASSUME A!ArtifactsAssumption, StoreTypeOK, GateInv, SendInv, [A!Next]_(A!vars)
  PROVE  SendInv'
<1>1. CASE FilesOrApproval
  <2>1. \A q \in Procs : SameCommand(q)
    BY <1>1 DEF FilesOrApproval, SameCommand
  <2> QED
    BY <2>1, SendingSame DEF SendInv
<1>2. ASSUME NEW p \in Procs, ActsOf(p)
      PROVE  SendInv'
  <2>1. \A q \in Procs : q # p => Sending(q)'
    BY <1>2, OtherCommands, SendingSame DEF SendInv
  <2>2. Sending(p)'
    BY <1>2, SendingActs
  <2> QED
    BY <2>1, <2>2 DEF SendInv
<1> QED
  BY <1>1, <1>2, StoreStepIs

-----------------------------------------------------------------------------
(* The store.                                                               *)

(* The files that a push has left, without the first one.                   *)
LEMMA TailNames ==
  ASSUME NEW s \in Seq(Names), s # <<>>
  PROVE  Head(s) \in Names /\ NamesIn(s) = {Head(s)} \cup NamesIn(Tail(s))
<1>1. /\ Len(s) \in Nat /\ Len(s) > 0 /\ DOMAIN s = 1..Len(s) /\ Head(s) = s[1] /\ Tail(s) \in Seq(Names)
      /\ Len(Tail(s)) = Len(s) - 1 /\ \A i \in 1..(Len(s) - 1) : Tail(s)[i] = s[i + 1]
  OBVIOUS
<1>2. DOMAIN Tail(s) = 1..(Len(s) - 1)
  BY <1>1
<1>3. \A i \in 1..Len(s) : i = 1 \/ (i - 1 \in 1..(Len(s) - 1) /\ s[i] = Tail(s)[i - 1])
  BY <1>1
<1>4. \A i \in 1..(Len(s) - 1) : i + 1 \in 1..Len(s)
  BY <1>1
<1> DEFINE tail == Tail(s)
<1> HIDE DEF tail
<1>5. NamesIn(s) \subseteq {s[1]} \cup NamesIn(tail)
  <2>1. \A i \in 1..Len(s) : s[i] \in {s[1]} \cup NamesIn(tail)
    BY <1>2, <1>3 DEF NamesIn, tail
  <2> QED
    BY <1>1, <2>1 DEF NamesIn
<1>6. s[1] \in NamesIn(s) /\ s[1] \in Names
  <2>1. 1 \in 1..Len(s)
    BY <1>1
  <2> QED
    BY <1>1, <2>1 DEF NamesIn
<1>7. NamesIn(tail) \subseteq NamesIn(s)
  <2>1. \A i \in 1..(Len(s) - 1) : tail[i] \in NamesIn(s)
    BY <1>1, <1>4 DEF NamesIn, tail
  <2> QED
    BY <1>2, <2>1 DEF NamesIn, tail
<1> QED
  BY <1>1, <1>5, <1>6, <1>7 DEF tail

(* What the step of a command leaves alone.                                 *)
LEMMA Leaves ==
  ASSUME StoreTypeOK, NEW p \in Procs, ActsOf(p)
  PROVE  inRun' = inRun /\ src' = src /\ (store' = store \/ A!Keep(p) \/ A!PullFile(p))
<1>1. CASE A!Post(p)
  BY <1>1 DEF A!Post, A!OnlyCmd
<1>2. CASE A!Gateway(p)
  BY <1>2 DEF A!Gateway, A!AsTheCommand
<1>3. CASE A!Check(p)
  BY <1>3 DEF A!Check, A!AsTheCommand
<1>4. CASE A!Forward(p)
  BY <1>4 DEF A!Forward, A!AsTheCommand
<1>5. CASE A!Answered(p)
  BY <1>5 DEF A!Answered, A!OnlyCmd
<1>6. CASE A!Keep(p)
  <2>1. inRun' = inRun /\ src' = src
    BY <1>6, Zenon DEF A!Keep, A!OnlyCmd
  <2> QED
    BY <1>6, <2>1, SMTT(30)
<1>7. CASE A!PullItem(p)
  BY <1>7 DEF A!PullItem, A!OnlyCmd
<1>8. CASE A!PullFile(p)
  <2>1. inRun' = inRun /\ src' = src
    BY <1>8 DEF A!PullFile, A!OnlyCmd
  <2> QED
    BY <1>8, <2>1
<1>9. CASE A!PullEnd(p)
  BY <1>9 DEF A!PullEnd, A!OnlyCmd
<1>10. CASE A!Kill(p)
  BY <1>10 DEF A!Kill, A!OnlyCmd
<1>11. ASSUME NEW t \in Types, NEW l \in Lists, A!Push(p, t, l)
      PROVE  inRun' = inRun /\ src' = src /\ (store' = store \/ A!Keep(p) \/ A!PullFile(p))
  BY <1>11 DEF A!Push, A!OnlyCmd
<1>12. ASSUME NEW t \in Types, NEW l \in Lists, A!KeepPush(p, t, l)
      PROVE  inRun' = inRun /\ src' = src /\ (store' = store \/ A!Keep(p) \/ A!PullFile(p))
  BY <1>12 DEF A!KeepPush, A!OnlyCmd
<1>13. ASSUME NEW body \in Bodies, A!PostOther(p, body)
      PROVE  inRun' = inRun /\ src' = src /\ (store' = store \/ A!Keep(p) \/ A!PullFile(p))
  BY <1>13 DEF A!PostOther, A!OnlyCmd
<1>14. ASSUME NEW asked \in 0..1, NEW types \in {Types} \cup {{t} : t \in Types}, A!PullIndex(p, asked, types)
      PROVE  inRun' = inRun /\ src' = src /\ (store' = store \/ A!Keep(p) \/ A!PullFile(p))
  BY <1>14 DEF A!PullIndex, A!OnlyCmd
<1> QED
  BY <1>1, <1>2, <1>3, <1>4, <1>5, <1>6, <1>7, <1>8, <1>9, <1>10, <1>11, <1>12, <1>13, <1>14 DEF ActsOf

(* A step that keeps a file.                                                *)
LEMMA KeepIs ==
  ASSUME StoreTypeOK, SendInv, NEW p \in Procs, A!Keep(p)
  PROVE  /\ cmd[p].pc = "keep" /\ cmd[p].names # <<>> /\ cmd[p].names \in Seq(Names)
         /\ store' = A!Written(A!Kept(p), Head(cmd[p].names), src[Head(cmd[p].names)])
         /\ cmd'[p].type = cmd[p].type /\ cmd'[p].n = cmd[p].n /\ cmd'[p].all = cmd[p].all
         /\ cmd'[p].names = Tail(cmd[p].names) /\ cmd'[p].pc = (IF Tail(cmd[p].names) = <<>> THEN "kept"
              ELSE "keep")
         /\ server' = server /\ req' = req /\ commands' = commands
<1>1. cmd[p].pc = "keep" /\ server' = server /\ req' = req /\ commands' = commands
  BY DEF A!Keep, A!Is, A!OnlyCmd
<1>2. cmd[p].names # <<>> /\ cmd[p].names \in Seq(Names)
  BY <1>1, ZenonT(40) DEF SendInv, Sending, StoreTypeOK, Commands
<1>3. PICK y : cmd'[p] = [cmd[p] EXCEPT !.names = Tail(cmd[p].names), !.touched = y,
             !.pc = IF Tail(cmd[p].names) = <<>> THEN "kept" ELSE "keep"]
  BY Zenon DEF A!Keep
<1>4. /\ cmd'[p].type = cmd[p].type /\ cmd'[p].n = cmd[p].n /\ cmd'[p].all = cmd[p].all
      /\ cmd'[p].names = Tail(cmd[p].names) /\ cmd'[p].pc = (IF Tail(cmd[p].names) = <<>> THEN "kept"
           ELSE "keep")
  <2>1. PICK c, d, t : c = cmd[p] /\ d = cmd'[p] /\ t = Tail(c.names)
    BY ZenonT(40)
  <2>2. c \in Commands /\ d = [c EXCEPT !.names = t, !.touched = y,
          !.pc = IF t = <<>> THEN "kept" ELSE "keep"]
    BY <1>3, <2>1 DEF StoreTypeOK
  <2>3. /\ d.type = c.type /\ d.n = c.n /\ d.all = c.all /\ d.names = t
             /\ d.pc = (IF t = <<>> THEN "kept" ELSE "keep")
    BY <2>2 DEF Commands
  <2> QED
    BY <2>1, <2>3
<1>5. store' = A!Written(A!Kept(p), Head(cmd[p].names), src[Head(cmd[p].names)])
  BY Zenon DEF A!Keep
<1> QED
  BY <1>1, <1>2, <1>4, <1>5, SMTT(30)

(* A push that writes another content than the version has is one whose     *)
(* files changed, and so is a pull that wants the version.                  *)
LEMMA KeepTouches ==
  ASSUME StoreTypeOK, NEW p \in Procs, A!Keep(p), inRun = TRUE, Valid(A!Kept(p)),
         Head(cmd[p].names) \in DOMAIN A!Stored(A!Kept(p))
  PROVE  /\ cmd'[p].touched = FALSE => cmd[p].touched = FALSE
            /\ src[Head(cmd[p].names)] = A!Stored(A!Kept(p))[Head(cmd[p].names)]
         /\ \A q \in Procs \ {p} : A!Kept(p) \in cmd[q].want /\ cmd'[q].touched = FALSE =>
               src[Head(cmd[p].names)] = A!Stored(A!Kept(p))[Head(cmd[p].names)]
<1> DEFINE name == Head(cmd[p].names)
           other == inRun /\ A!Kept(p)[2] <= Len(server[A!Kept(p)[1]]) /\ name \in DOMAIN A!Stored(A!Kept(p))
             /\ src[name] # A!Stored(A!Kept(p))[name]
<1>1. other \in BOOLEAN /\ cmd \in [Procs -> Commands]
  BY DEF StoreTypeOK
<1>2. A!Kept(p)[2] <= Len(server[A!Kept(p)[1]])
  BY DEF Valid
<1>3. ~other => src[name] = A!Stored(A!Kept(p))[name]
  BY <1>2
<1>4. cmd' = [q \in Procs |->
         IF q = p THEN [cmd[p] EXCEPT !.names = Tail(cmd[p].names), !.touched = @ \/ other,
                                      !.pc = IF Tail(cmd[p].names) = <<>> THEN "kept" ELSE "keep"]
         ELSE IF other /\ A!Kept(p) \in cmd[q].want THEN [cmd[q] EXCEPT !.touched = TRUE] ELSE cmd[q]]
  BY ZenonT(40) DEF A!Keep
<1> HIDE DEF other
<1>5. cmd'[p].touched = (cmd[p].touched \/ other)
  BY <1>1, <1>4 DEF Commands
<1>6. cmd[p].touched \in BOOLEAN
  BY <1>1 DEF Commands
<1>7. ASSUME NEW q \in Procs \ {p}, A!Kept(p) \in cmd[q].want, other
      PROVE  cmd'[q].touched = TRUE
  BY <1>1, <1>4, <1>7 DEF Commands
<1> QED
  BY <1>1, <1>3, <1>5, <1>6, <1>7

(* A step that pulls a file.                                                *)
LEMMA PullFileIs ==
  ASSUME StoreTypeOK, PullInv, NEW p \in Procs, A!PullFile(p)
  PROVE  /\ \E d \in cmd[p].want, name \in Names :
               Valid(d) /\ name \in DOMAIN A!Stored(d) /\ store' = A!Written(d, name, A!Stored(d)[name])
         /\ inRun = TRUE /\ server' = server /\ cmd' = cmd /\ req' = req /\ commands' = commands
              /\ cmd[p].pc = "pull"
<1>1. cmd[p].pc = "pull" /\ server' = server /\ cmd' = cmd /\ req' = req /\ commands' = commands
  BY DEF A!PullFile, A!Is, A!OnlyCmd
<1>2. PICK m \in cmd[p].want \X Names : m[2] \in DOMAIN A!Stored(m[1])
             /\ store' = A!Written(m[1], m[2], A!Stored(m[1])[m[2]])
  BY DEF A!PullFile, A!Missing
<1>3. m[1] \in cmd[p].want /\ m[2] \in Names
  BY <1>2
<1>4. inRun = TRUE /\ Valid(m[1])
  BY <1>1, <1>3 DEF PullInv
<1> QED
  BY <1>1, <1>2, <1>3, <1>4

(* What a step leaves of a folder that no other push keeps.                 *)
LEMMA FolderStays ==
  ASSUME StoreTypeOK, SendInv, PullInv, NEW p \in Procs, ActsOf(p), NEW d, A!Keep(p) => A!Kept(p) # d
  PROVE  /\ DOMAIN A!Dir(d) \subseteq DOMAIN A!Dir(d)'
         /\ \A k \in DOMAIN A!Dir(d) : A!Dir(d)'[k] = A!Dir(d)[k] \/ A!Dir(d)'[k] = A!Stored(d)[k]
<1>1. CASE store' = store
  BY <1>1 DEF A!Dir
<1>2. ASSUME NEW e, NEW name, NEW content, store' = A!Written(e, name, content), e = d
               => content = A!Stored(d)[name]
      PROVE  /\ DOMAIN A!Dir(d) \subseteq DOMAIN A!Dir(d)'
             /\ \A k \in DOMAIN A!Dir(d) : A!Dir(d)'[k] = A!Dir(d)[k] \/ A!Dir(d)'[k] = A!Stored(d)[k]
  <2>1. CASE e # d
    <3>1. A!Dir(d)' = A!Dir(d)
      BY <1>2, <2>1, WrittenIs
    <3> QED
      BY <3>1
  <2>2. CASE e = d
    <3>1. store' = A!Written(d, name, content)
      BY <1>2, <2>2
    <3>2. /\ A!Dir(d)' = store'[d] /\ DOMAIN store'[d] = DOMAIN A!Dir(d) \cup {name}
               /\ store'[d][name] = content
          /\ \A k \in DOMAIN A!Dir(d) \ {name} : store'[d][k] = A!Dir(d)[k]
      <4>1. A!Dir(d)' = store'[d]
        BY <3>1, WrittenIs
      <4>2. DOMAIN store'[d] = DOMAIN A!Dir(d) \cup {name}
        BY <3>1, WrittenIs
      <4>3. store'[d][name] = content
        BY <3>1 DEF A!Written
      <4>4. \A k \in DOMAIN A!Dir(d) \ {name} : store'[d][k] = A!Dir(d)[k]
        BY <3>1, WrittenIs
      <4> QED
        BY <4>1, <4>2, <4>3, <4>4
    <3> QED
      BY <1>2, <2>2, <3>2
  <2> QED
    BY <2>1, <2>2
<1>3. CASE A!Keep(p)
  BY <1>2, <1>3, KeepIs
<1>4. CASE A!PullFile(p)
  <2>1. PICK e, name : store' = A!Written(e, name, A!Stored(e)[name])
    BY <1>4, PullFileIs
  <2> QED
    BY <1>2, <2>1
<1> QED
  BY <1>1, <1>3, <1>4, Leaves

(* Outside a run there are only pushes that keep files.                     *)
LEMMA AloneActs ==
  ASSUME StoreTypeOK, AloneInv, inRun = FALSE, NEW p \in Procs, ActsOf(p)
  PROVE  A!Kill(p) \/ A!Keep(p) \/ \E u \in Types, m \in Lists : A!KeepPush(p, u, m)
<1>0. cmd[p].pc \in {"idle", "keep", "kept"} /\ req[p].at = "none"
  BY DEF AloneInv
<1>1. CASE A!Post(p)
  BY <1>0, <1>1 DEF A!Post, A!Is
<1>2. CASE A!Gateway(p)
  BY <1>0, <1>2 DEF A!Gateway, A!At
<1>3. CASE A!Check(p)
  BY <1>0, <1>3 DEF A!Check, A!At
<1>4. CASE A!Forward(p)
  BY <1>0, <1>4 DEF A!Forward, A!At
<1>5. CASE A!Answered(p)
  BY <1>0, <1>5 DEF A!Answered, A!At
<1>6. CASE A!Keep(p)
  BY <1>6
<1>7. CASE A!PullItem(p)
  BY <1>0, <1>7 DEF A!PullItem, A!Is
<1>8. CASE A!PullFile(p)
  BY <1>0, <1>8 DEF A!PullFile, A!Is
<1>9. CASE A!PullEnd(p)
  BY <1>0, <1>9 DEF A!PullEnd, A!Is
<1>10. CASE A!Kill(p)
  BY <1>10
<1>11. ASSUME NEW t \in Types, NEW l \in Lists, A!Push(p, t, l)
      PROVE  A!Kill(p) \/ A!Keep(p) \/ \E u \in Types, m \in Lists : A!KeepPush(p, u, m)
  BY <1>0, <1>11 DEF A!Push, A!Is
<1>12. ASSUME NEW t \in Types, NEW l \in Lists, A!KeepPush(p, t, l)
      PROVE  A!Kill(p) \/ A!Keep(p) \/ \E u \in Types, m \in Lists : A!KeepPush(p, u, m)
  BY <1>12
<1>13. ASSUME NEW body \in Bodies, A!PostOther(p, body)
      PROVE  A!Kill(p) \/ A!Keep(p) \/ \E u \in Types, m \in Lists : A!KeepPush(p, u, m)
  BY <1>0, <1>13 DEF A!PostOther, A!Is
<1>14. ASSUME NEW asked \in 0..1, NEW types \in {Types} \cup {{t} : t \in Types}, A!PullIndex(p, asked, types)
      PROVE  A!Kill(p) \/ A!Keep(p) \/ \E u \in Types, m \in Lists : A!KeepPush(p, u, m)
  BY <1>0, <1>14 DEF A!PullIndex, A!Is
<1> QED
  BY <1>1, <1>2, <1>3, <1>4, <1>5, <1>6, <1>7, <1>8, <1>9, <1>10, <1>11, <1>12, <1>13, <1>14 DEF ActsOf

(* A push outside a run starts alone.                                       *)
LEMMA KeepPushIs ==
  ASSUME StoreTypeOK, NEW p \in Procs, NEW t \in Types, NEW l \in Lists, A!KeepPush(p, t, l)
  PROVE  /\ inRun = FALSE /\ req' = req /\ server' = server /\ store' = store /\ commands' = commands + 1
         /\ \A q \in Procs : q # p => cmd[q].pc \in {"idle", "kept"}
BY DEF A!KeepPush, A!Starts, A!OnlyCmd, StoreTypeOK

(* The command of a push that starts outside a run.                         *)
LEMMA KeepPushHas ==
  ASSUME StoreTypeOK, NEW p \in Procs, NEW t \in Types, NEW l \in Lists, A!KeepPush(p, t, l)
  PROVE  cmd'[p].pc = "keep" /\ cmd'[p].type = t /\ cmd'[p].names = l /\ cmd'[p].all = NamesIn(l)
         /\ cmd'[p].n = A!nextVersion(t)
<1>2. PICK m : m = A!nextVersion(t)
  OBVIOUS
<1>3. cmd'[p] = [A!Idle EXCEPT !.pc = "keep", !.type = t, !.names = l, !.all = {l[i] :
        i \in DOMAIN l}, !.n = m]
  BY <1>2 DEF A!KeepPush, A!Does, StoreTypeOK
<1>4. cmd'[p].pc = "keep" /\ cmd'[p].type = t /\ cmd'[p].names = l /\ cmd'[p].all = {l[i] : i \in DOMAIN l}
        /\ cmd'[p].n = m
  BY <1>3 DEF A!Idle
<1> QED
  BY <1>2, <1>4 DEF NamesIn

(* A killed command is idle, and leaves its request and the store.          *)
LEMMA KillIs ==
  ASSUME StoreTypeOK, NEW p \in Procs, A!Kill(p)
  PROVE  cmd'[p].pc = "idle" /\ req' = req /\ server' = server /\ store' = store /\ commands' = commands
BY IdleHas DEF A!Kill, A!Does, A!OnlyCmd, StoreTypeOK

(* Every step keeps it that outside a run there is no gateway, no version,  *)
(* and one push at a time.                                                  *)
LEMMA AloneStays ==
  ASSUME A!ArtifactsAssumption, StoreTypeOK, SendInv, AloneInv, KeepInv, [A!Next]_(A!vars)
  PROVE  AloneInv'
<1>1. CASE FilesOrApproval
  BY <1>1 DEF FilesOrApproval, AloneInv
<1>2. ASSUME NEW p \in Procs, ActsOf(p), inRun' = FALSE
      PROVE  AloneInv'
  <2>0. inRun = FALSE /\ \A q \in Procs : q # p => SameCommand(q)
    BY <1>2, Leaves, OtherCommands
  <2>1. /\ \A t \in Types : server[t] = <<>>
        /\ \A q \in Procs : cmd[q].pc \in {"idle", "keep", "kept"} /\ req[q].at = "none"
        /\ \A q, r \in Procs : cmd[q].pc = "keep" /\ cmd[r].pc = "keep" => q = r
        /\ \A d \in DOMAIN store : d[2] \in 1..commands
        /\ commands \in Nat
    BY <2>0 DEF AloneInv, StoreTypeOK
  <2>2. \A q \in Procs : q # p => cmd'[q].pc = cmd[q].pc
    BY <2>0 DEF SameCommand
  <2>3. CASE A!Kill(p)
    BY <2>1, <2>2, <2>3, KillIs DEF AloneInv
  <2>4. CASE A!Keep(p)
    <3>1. /\ cmd[p].pc = "keep" /\ cmd'[p].pc \in {"keep", "kept"} /\ server' = server /\ req' = req
               /\ commands' = commands
      BY <2>4, KeepIs
    <3>2. DOMAIN store' = DOMAIN store \cup {A!Kept(p)}
      <4>1. PICK d, name, content : store' = A!Written(d, name, content) /\ d = A!Kept(p)
        BY <2>4, KeepIs
      <4> QED
        BY <4>1, WrittenIs
    <3>3. A!Kept(p)[2] \in 1..commands
      BY <2>0, <3>1 DEF KeepInv, KeepsOwn, A!Kept
    <3>4. \A d \in DOMAIN store' : d[2] \in 1..commands'
      BY <2>1, <3>1, <3>2, <3>3
    <3>5. \A q \in Procs : cmd'[q].pc \in {"idle", "keep", "kept"} /\ req'[q].at = "none"
      BY <2>1, <2>2, <3>1
    <3>6. \A q, r \in Procs : cmd'[q].pc = "keep" /\ cmd'[r].pc = "keep" => q = r
      BY <2>1, <2>2, <3>1
    <3> QED
      BY <2>1, <3>1, <3>4, <3>5, <3>6 DEF AloneInv
  <2>5. ASSUME NEW t \in Types, NEW l \in Lists, A!KeepPush(p, t, l)
        PROVE  AloneInv'
    <3>1. /\ req' = req /\ server' = server /\ store' = store /\ commands' = commands + 1
          /\ cmd'[p].pc = "keep" /\ \A q \in Procs : q # p => cmd[q].pc \in {"idle", "kept"}
      BY <2>5, KeepPushIs, KeepPushHas
    <3>2. \A d \in DOMAIN store' : d[2] \in 1..commands'
      BY <2>1, <3>1
    <3>3. \A q \in Procs : cmd'[q].pc \in {"idle", "keep", "kept"} /\ req'[q].at = "none"
      BY <2>1, <2>2, <3>1
    <3>4. \A q, r \in Procs : cmd'[q].pc = "keep" /\ cmd'[r].pc = "keep" => q = r
      BY <2>2, <3>1
    <3> QED
      BY <2>1, <3>1, <3>2, <3>3, <3>4 DEF AloneInv
  <2> QED
    BY <1>2, <2>0, <2>3, <2>4, <2>5, AloneActs
<1>3. CASE inRun' # FALSE
  BY <1>3 DEF AloneInv
<1> QED
  BY <1>1, <1>2, <1>3, StoreStepIs

(* Every step keeps the store, in a run, to files of versions.              *)
LEMMA StoreStays ==
  ASSUME A!ArtifactsAssumption, StoreTypeOK, GateInv, SendInv, StoreInv, KeepInv, PullInv, [A!Next]_(A!vars)
  PROVE  StoreInv'
<1>0. SUFFICES ASSUME inRun' = TRUE, NEW d \in DOMAIN store'
      PROVE  Valid(d)' /\ DOMAIN store'[d] \subseteq DOMAIN A!Stored(d)'
  BY DEF StoreInv
<1>1. inRun = TRUE
  BY <1>0, StoreStepIs, Leaves DEF FilesOrApproval
<1>2. \A e : Valid(e) => Valid(e)' /\ A!Stored(e)' = A!Stored(e)
  BY StaysValid
<1>3. \A e \in DOMAIN store : Valid(e) /\ DOMAIN store[e] \subseteq DOMAIN A!Stored(e)
  BY <1>1 DEF StoreInv
<1>4. CASE store' = store
  BY <1>0, <1>2, <1>3, <1>4
<1>5. ASSUME NEW e, NEW name, NEW content, store' = A!Written(e, name, content), Valid(e),
               name \in DOMAIN A!Stored(e)
      PROVE  Valid(d)' /\ DOMAIN store'[d] \subseteq DOMAIN A!Stored(d)'
  <2>1. /\ DOMAIN store' = DOMAIN store \cup {e} /\ DOMAIN store'[e] = DOMAIN A!Dir(e) \cup {name}
        /\ \A f \in DOMAIN store : f # e => store'[f] = store[f]
    BY <1>5, WrittenIs
  <2>2. DOMAIN A!Dir(e) \subseteq DOMAIN A!Stored(e)
    BY <1>3 DEF A!Dir, A!Empty
  <2>3. CASE d = e
    BY <1>2, <1>5, <2>1, <2>2, <2>3
  <2>4. CASE d # e
    BY <1>0, <1>2, <1>3, <2>1, <2>4
  <2> QED
    BY <2>3, <2>4
<1>6. ASSUME NEW p \in Procs, A!Keep(p)
      PROVE  Valid(d)' /\ DOMAIN store'[d] \subseteq DOMAIN A!Stored(d)'
  <2>1. /\ cmd[p].pc = "keep" /\ cmd[p].names # <<>> /\ cmd[p].names \in Seq(Names)
        /\ store' = A!Written(A!Kept(p), Head(cmd[p].names), src[Head(cmd[p].names)])
    BY <1>6, KeepIs
  <2>2. Valid(A!Kept(p)) /\ NamesIn(cmd[p].names) \subseteq DOMAIN A!Stored(A!Kept(p))
    BY <1>1, <2>1 DEF KeepInv, KeepsVersion
  <2>3. Head(cmd[p].names) \in DOMAIN A!Stored(A!Kept(p))
    BY <2>1, <2>2, TailNames
  <2>4. PICK e, name, content : e = A!Kept(p) /\ name = Head(cmd[p].names)
               /\ content = src[Head(cmd[p].names)]
    OBVIOUS
  <2>5. store' = A!Written(e, name, content) /\ Valid(e) /\ name \in DOMAIN A!Stored(e)
    BY <2>1, <2>2, <2>3, <2>4
  <2> QED
    BY <1>5, <2>5
<1>7. ASSUME NEW p \in Procs, A!PullFile(p)
      PROVE  Valid(d)' /\ DOMAIN store'[d] \subseteq DOMAIN A!Stored(d)'
  <2>1. PICK e, name, content : Valid(e) /\ name \in DOMAIN A!Stored(e)
               /\ store' = A!Written(e, name, content)
    BY <1>7, PullFileIs
  <2> QED
    BY <1>5, <2>1
<1> QED
  BY <1>4, <1>6, <1>7, StoreStepIs, Leaves DEF FilesOrApproval

(* A push goes on when its request was stored, under the number that it was *)
(* stored with.                                                             *)
LEMMA AnsweredIs ==
  ASSUME StoreTypeOK, NEW p \in Procs, A!Answered(p), cmd'[p].pc \in {"keep", "kept", "wait"}, SendInv
  PROVE  /\ cmd[p].pc = "wait" /\ req[p].at = "stored" /\ cmd'[p].pc = "keep"
         /\ cmd'[p].type = cmd[p].type /\ cmd'[p].names = cmd[p].names /\ cmd'[p].n = req[p].n
         /\ server' = server /\ store' = store /\ commands' = commands /\ inRun' = inRun
<1>0. cmd \in [Procs -> Commands] /\ Sending(p)
  BY DEF StoreTypeOK, SendInv
<1>1. server' = server /\ store' = store /\ commands' = commands /\ inRun' = inRun
        /\ req[p].at \in {"stored", "failed"}
  BY DEF A!Answered, A!OnlyCmd
<1>2. CASE cmd[p].pc = "wait" /\ req[p].at = "stored"
  <2>1. cmd'[p] = [cmd[p] EXCEPT !.pc = "keep", !.n = req[p].n]
    BY <1>0, <1>2 DEF A!Answered, A!Is, A!At, A!Does
  <2>2. PICK c, d, m : c = cmd[p] /\ d = cmd'[p] /\ m = req[p].n
    OBVIOUS
  <2>3. c \in Commands /\ d = [c EXCEPT !.pc = "keep", !.n = m]
    BY <1>0, <2>1, <2>2
  <2>4. d.pc = "keep" /\ d.names = c.names /\ d.type = c.type /\ d.n = m
    BY <2>3 DEF Commands
  <2> QED
    BY <1>1, <1>2, <2>2, <2>4
<1>3. CASE ~(cmd[p].pc = "wait" /\ req[p].at = "stored")
  <2>1. cmd'[p].pc = "idle"
    BY <1>0, <1>1, <1>3, IdleHas DEF A!Answered, A!Is, A!At, A!Does, Sending
  <2> QED
    BY <2>1
<1> QED
  BY <1>2, <1>3

(* What a command did that keeps files, or pulls, after a step.             *)
StillKeeps(p) == A!Keep(p) \/ A!Answered(p) \/ \E t \in Types, l \in Lists : A!KeepPush(p, t, l)
StillPulls(p) ==
  \/ A!PullFile(p) \/ A!PullEnd(p)
  \/ \E asked \in 0..1, types \in {Types} \cup {{t} : t \in Types} : A!PullIndex(p, asked, types)

(* Who keeps files after a step.                                            *)
LEMMA KeepersAre ==
  ASSUME A!ArtifactsAssumption, StoreTypeOK, SendInv, NEW p \in Procs, ActsOf(p), cmd'[p].pc \in {"keep",
         "kept"}
  PROVE  StillKeeps(p)
<1>0. cmd \in [Procs -> Commands] /\ Sending(p)
  BY DEF StoreTypeOK, SendInv
<1>1. CASE A!Post(p)
  <2>1. cmd'[p].pc = "wait"
    BY <1>0, <1>1 DEF A!Post, A!Does, Commands
  <2> QED
    BY <2>1
<1>2. CASE A!Gateway(p)
  <2>1. cmd' = cmd /\ req[p].at \in {"new", "check", "forward"}
    BY <1>2 DEF A!Gateway, A!At, A!AsTheCommand
  <2> QED
    BY <1>0, <2>1 DEF Sending
<1>3. CASE A!Check(p)
  <2>1. cmd' = cmd /\ req[p].at \in {"new", "check", "forward"}
    BY <1>3 DEF A!Check, A!At, A!AsTheCommand
  <2> QED
    BY <1>0, <2>1 DEF Sending
<1>4. CASE A!Forward(p)
  <2>1. cmd' = cmd /\ req[p].at \in {"new", "check", "forward"}
    BY <1>4 DEF A!Forward, A!At, A!AsTheCommand
  <2> QED
    BY <1>0, <2>1 DEF Sending
<1>5. CASE A!Answered(p)
  BY <1>5 DEF StillKeeps
<1>6. CASE A!Keep(p)
  BY <1>6 DEF StillKeeps
<1>7. CASE A!PullItem(p)
  <2>1. cmd'[p].pc = "item"
    BY <1>0, <1>7 DEF A!PullItem, A!Does, A!Idle, Commands
  <2> QED
    BY <2>1
<1>8. CASE A!PullFile(p)
  BY <1>8 DEF A!PullFile, A!Is
<1>9. CASE A!PullEnd(p)
  <2>1. cmd'[p].pc = "pulled"
    BY <1>0, <1>9 DEF A!PullEnd, A!Does, Commands
  <2> QED
    BY <2>1
<1>10. CASE A!Kill(p)
  BY <1>10, KillIs
<1>11. ASSUME NEW t \in Types, NEW l \in Lists, A!Push(p, t, l)
      PROVE  StillKeeps(p)
  <2>1. cmd'[p].pc = "post"
    BY <1>0, <1>11 DEF A!Push, A!Does, A!Idle, Commands
  <2> QED
    BY <2>1
<1>12. ASSUME NEW t \in Types, NEW l \in Lists, A!KeepPush(p, t, l)
      PROVE  StillKeeps(p)
  BY <1>12 DEF StillKeeps
<1>13. ASSUME NEW body \in Bodies, A!PostOther(p, body)
      PROVE  StillKeeps(p)
  BY <1>0, <1>13, IdleHas DEF A!PostOther, A!Does
<1>14. ASSUME NEW asked \in 0..1, NEW types \in {Types} \cup {{t} : t \in Types}, A!PullIndex(p, asked, types)
      PROVE  StillKeeps(p)
  <2>1. cmd'[p].pc = "pull"
    BY <1>0, <1>14 DEF A!PullIndex, A!Does, Commands
  <2> QED
    BY <2>1
<1> QED
  BY <1>1, <1>2, <1>3, <1>4, <1>5, <1>6, <1>7, <1>8, <1>9, <1>10, <1>11, <1>12, <1>13, <1>14 DEF ActsOf

(* A push with the same type and number keeps the same version.             *)
LEMMA KeptSame ==
  ASSUME NEW q, cmd'[q].type = cmd[q].type, cmd'[q].n = cmd[q].n
  PROVE  A!Kept(q)' = A!Kept(q)
BY DEF A!Kept

(* What a push has left to keep stays right while another command steps.    *)
LEMMA KeepOthers ==
  ASSUME A!ArtifactsAssumption, StoreTypeOK, ServerInv, GateInv, SendInv, AloneInv, StoreInv, KeepInv,
         OwnersInv, PullInv, [A!Next]_(A!vars),
         NEW p \in Procs, ActsOf(p), NEW q \in Procs, q # p, cmd'[q].pc \in {"keep", "kept"}
  PROVE  (inRun = TRUE => KeepsVersion(q)) ' /\ (inRun = FALSE => KeepsOwn(q))'
<1>0. /\ SameCommand(q) /\ inRun' = inRun /\ cmd[q].pc \in {"keep", "kept"}
  BY OtherCommands, Leaves DEF SameCommand
<1>1. PICK d : d = A!Kept(q)
  OBVIOUS
<1>2. A!Kept(q)' = d /\ NamesIn(cmd'[q].names) = NamesIn(cmd[q].names)
        /\ NamesIn(cmd[q].names)' = NamesIn(cmd[q].names)
  BY <1>0, <1>1, KeptSame DEF SameCommand, NamesIn
<1>3. A!Keep(p) => A!Kept(p) # d
  BY <1>0, <1>1, KeepIs DEF OwnersInv, Holds, Number
<1>4. CASE inRun = TRUE
  <2>1. /\ Valid(d) /\ NamesIn(cmd[q].names) \subseteq DOMAIN A!Stored(d)
        /\ \A k \in DOMAIN A!Stored(d) :
             Left(q, k) \/ (k \in DOMAIN A!Dir(d) /\ (cmd[q].touched = FALSE => A!Dir(d)[k] = A!Stored(d)[k]))
    BY <1>0, <1>1, <1>4 DEF KeepInv, KeepsVersion
  <2>2. Valid(d)' /\ A!Stored(d)' = A!Stored(d)
    BY <2>1, StaysValid
  <2>3. /\ DOMAIN A!Dir(d) \subseteq DOMAIN A!Dir(d)'
        /\ \A k \in DOMAIN A!Dir(d) : A!Dir(d)'[k] = A!Dir(d)[k] \/ A!Dir(d)'[k] = A!Stored(d)[k]
    BY <1>3, FolderStays
  <2>4. \A k : Left(q, k)' <=> Left(q, k)
    BY <1>2 DEF Left
  <2>5. \A k \in DOMAIN A!Stored(d) :
             Left(q, k)' \/ (k \in DOMAIN A!Dir(d)' /\ (cmd'[q].touched = FALSE
               => A!Dir(d)'[k] = A!Stored(d)[k]))
    BY <1>0, <2>1, <2>3, <2>4 DEF SameCommand
  <2>6. KeepsVersion(q)'
    BY <1>2, <2>1, <2>2, <2>5 DEF KeepsVersion
  <2> QED
    BY <1>0, <1>4, <2>6
<1>5. CASE inRun = FALSE
  <2>1. /\ d \in Types \X Nat /\ cmd[q].n \in 1..commands
        /\ DOMAIN A!Dir(d) \cup NamesIn(cmd[q].names) = cmd[q].all
        /\ cmd[q].pc = "kept" => d \in DOMAIN store
    BY <1>0, <1>1, <1>5 DEF KeepInv, KeepsOwn
  <2>2. CASE store' = store /\ commands' \in {commands, commands + 1}
    <3>1. A!Dir(d)' = A!Dir(d)
      BY <2>2 DEF A!Dir
    <3>2. cmd'[q].n \in 1..commands'
      BY <1>0, <2>1, <2>2 DEF SameCommand, StoreTypeOK
    <3>3. KeepsOwn(q)'
      BY <1>0, <1>2, <2>1, <2>2, <3>1, <3>2 DEF KeepsOwn, SameCommand
    <3> QED
      BY <1>0, <1>5, <3>3
  <2>3. CASE A!Keep(p)
    <3>1. PICK e, name, content : store' = A!Written(e, name, content) /\ e # d
      BY <1>3, <2>3, KeepIs
    <3>2. A!Dir(d)' = A!Dir(d) /\ DOMAIN store' = DOMAIN store \cup {e}
      BY <3>1, WrittenIs
    <3>3. cmd'[q].n \in 1..commands'
      BY <1>0, <2>1, <2>3, KeepIs DEF SameCommand
    <3>4. KeepsOwn(q)'
      BY <1>0, <1>2, <2>1, <3>2, <3>3 DEF KeepsOwn, SameCommand
    <3> QED
      BY <1>0, <1>5, <3>4
  <2> QED
    BY <1>5, <2>2, <2>3, AloneActs, KillIs, KeepPushIs
<1> QED
  BY <1>0, <1>4, <1>5 DEF StoreTypeOK

(* What a push has left to keep is right after each of its own steps.       *)
LEMMA KeepOwn ==
  ASSUME A!ArtifactsAssumption, StoreTypeOK, ServerInv, GateInv, SendInv, AloneInv, StoreInv, KeepInv,
         OwnersInv, PullInv, [A!Next]_(A!vars),
         NEW p \in Procs, ActsOf(p), cmd'[p].pc \in {"keep", "kept"}
  PROVE  (inRun = TRUE => KeepsVersion(p))' /\ (inRun = FALSE => KeepsOwn(p))'
<1>1. CASE A!Keep(p)
  <2>1. /\ cmd[p].pc = "keep" /\ cmd[p].names # <<>> /\ cmd[p].names \in Seq(Names)
        /\ cmd'[p].type = cmd[p].type /\ cmd'[p].n = cmd[p].n /\ cmd'[p].all = cmd[p].all
        /\ cmd'[p].names = Tail(cmd[p].names) /\ commands' = commands /\ inRun' = inRun
    BY <1>1, KeepIs, Leaves
  <2>2. PICK d, name, content : d = A!Kept(p) /\ name = Head(cmd[p].names)
               /\ content = src[Head(cmd[p].names)]
    OBVIOUS
  <2>3. store' = A!Written(d, name, content) /\ A!Kept(p)' = d
    BY <1>1, <2>1, <2>2, KeepIs, KeptSame
  <2>4. DOMAIN A!Dir(d)' = DOMAIN A!Dir(d) \cup {name} /\ \A k \in DOMAIN A!Dir(d) \ {name} :
          A!Dir(d)'[k] = A!Dir(d)[k]
    <3>1. A!Dir(d)' = store'[d]
      BY <2>3, WrittenIs
    <3>2. DOMAIN store'[d] = DOMAIN A!Dir(d) \cup {name}
      BY <2>3, WrittenIs
    <3>3. \A k \in DOMAIN A!Dir(d) \ {name} : store'[d][k] = A!Dir(d)[k]
      BY <2>3 DEF A!Written
    <3> QED
      BY <3>1, <3>2, <3>3
  <2>5. A!Dir(d)' = store'[d] /\ d \in DOMAIN store' /\ store'[d][name] = content
    <3>0. DOMAIN store' = DOMAIN store \cup {d}
      BY <2>3, WrittenIs
    <3>1. A!Dir(d)' = store'[d] /\ d \in DOMAIN store'
      BY <3>0 DEF A!Dir
    <3>2. store'[d][name] = content
      BY <2>3 DEF A!Written
    <3> QED
      BY <3>1, <3>2
  <2>6. /\ NamesIn(cmd[p].names) = {name} \cup NamesIn(cmd'[p].names)
        /\ NamesIn(cmd[p].names)' = NamesIn(cmd'[p].names)
    BY <2>1, <2>2, TailNames DEF NamesIn
  <2>7. CASE inRun = TRUE
    <3>1. /\ Valid(d) /\ NamesIn(cmd[p].names) \subseteq DOMAIN A!Stored(d)
          /\ \A k \in DOMAIN A!Stored(d) :
               Left(p, k) \/ (k \in DOMAIN A!Dir(d) /\ (cmd[p].touched = FALSE
                 => A!Dir(d)[k] = A!Stored(d)[k]))
      BY <2>1, <2>2, <2>7 DEF KeepInv, KeepsVersion
    <3>2. Valid(d)' /\ A!Stored(d)' = A!Stored(d)
      BY <3>1, StaysValid
    <3>3. cmd'[p].touched = FALSE => cmd[p].touched = FALSE /\ content = A!Stored(d)[name]
      BY <1>1, <2>2, <2>6, <2>7, <3>1, KeepTouches
    <3>4. \A k : (Left(p, k) <=> k = name \/ k \in NamesIn(cmd'[p].names))
            /\ (Left(p, k)' <=> k \in NamesIn(cmd'[p].names))
      BY <2>6 DEF Left
    <3>5. \A k \in DOMAIN A!Stored(d) :
               Left(p, k)' \/ (k \in DOMAIN A!Dir(d)' /\ (cmd'[p].touched = FALSE
                 => A!Dir(d)'[k] = A!Stored(d)[k]))
      <4> TAKE k \in DOMAIN A!Stored(d)
      <4>1. CASE k = name
        BY <2>4, <2>5, <3>3, <4>1
      <4>2. CASE k # name
        BY <2>4, <3>1, <3>3, <3>4, <4>2
      <4> QED
        BY <4>1, <4>2
    <3>6. KeepsVersion(p)'
      BY <2>3, <2>6, <3>1, <3>2, <3>5 DEF KeepsVersion
    <3> QED
      BY <2>1, <2>7, <3>6
  <2>8. CASE inRun = FALSE
    <3>1. /\ d \in Types \X Nat /\ cmd[p].n \in 1..commands
          /\ DOMAIN A!Dir(d) \cup NamesIn(cmd[p].names) = cmd[p].all
      BY <2>1, <2>2, <2>8 DEF KeepInv, KeepsOwn
    <3>2. DOMAIN A!Dir(d)' \cup NamesIn(cmd'[p].names) = cmd'[p].all
      BY <2>1, <2>4, <2>6, <3>1
    <3>3. KeepsOwn(p)'
      BY <2>1, <2>3, <2>5, <2>6, <3>1, <3>2 DEF KeepsOwn
    <3> QED
      BY <2>1, <2>8, <3>3
  <2> QED
    BY <2>7, <2>8 DEF StoreTypeOK
<1>2. CASE A!Answered(p)
  <2>1. /\ cmd[p].pc = "wait" /\ req[p].at = "stored" /\ cmd'[p].pc = "keep" /\ inRun' = inRun
        /\ cmd'[p].type = cmd[p].type /\ cmd'[p].names = cmd[p].names /\ cmd'[p].n = req[p].n
    BY <1>2, AnsweredIs
  <2>2. inRun = TRUE
    BY <2>1 DEF AloneInv, StoreTypeOK
  <2>3. PICK d : d = <<cmd[p].type, req[p].n>>
    OBVIOUS
  <2>4. A!Kept(p)' = d
    BY <2>1, <2>3 DEF A!Kept
  <2>5. Valid(d) /\ DOMAIN A!Stored(d) = NamesIn(cmd[p].names)
    BY <2>1, <2>3 DEF SendInv, Sending
  <2>6. Valid(d)' /\ A!Stored(d)' = A!Stored(d)
    BY <2>5, StaysValid
  <2>7. NamesIn(cmd[p].names)' = NamesIn(cmd[p].names)
    BY <2>1 DEF NamesIn
  <2>8. \A k \in DOMAIN A!Stored(d) : Left(p, k)'
    BY <2>5, <2>7 DEF Left
  <2>9. KeepsVersion(p)'
    BY <2>4, <2>5, <2>6, <2>7, <2>8 DEF KeepsVersion
  <2> QED
    BY <2>1, <2>2, <2>9
<1>3. ASSUME NEW t \in Types, NEW l \in Lists, A!KeepPush(p, t, l)
      PROVE  (inRun = TRUE => KeepsVersion(p))' /\ (inRun = FALSE => KeepsOwn(p))'
  <2>1. /\ inRun = FALSE /\ store' = store /\ commands' = commands + 1
        /\ cmd'[p].pc = "keep" /\ cmd'[p].type = t /\ cmd'[p].names = l /\ cmd'[p].all = NamesIn(l)
             /\ cmd'[p].n = A!nextVersion(t)
        /\ A!nextVersion(t) \in 1..(commands + 1) /\ <<t, A!nextVersion(t)>> \notin DOMAIN store
    <3>1. inRun = FALSE /\ store' = store /\ commands' = commands + 1
      BY <1>3, KeepPushIs
    <3>2. /\ cmd'[p].pc = "keep" /\ cmd'[p].type = t /\ cmd'[p].names = l /\ cmd'[p].all = NamesIn(l)
               /\ cmd'[p].n = A!nextVersion(t)
      BY <1>3, KeepPushHas
    <3>3. A!nextVersion(t) \in 1..(commands + 1) /\ <<t, A!nextVersion(t)>> \notin DOMAIN store
      BY <3>1, NextIsNew
    <3> QED
      BY <3>1, <3>2, <3>3
  <2>2. inRun' = inRun /\ commands \in Nat
    BY Leaves DEF StoreTypeOK
  <2>3. PICK m : m = A!nextVersion(t)
    OBVIOUS
  <2>4. A!Kept(p)' = <<t, m>> /\ m \in 1..(commands + 1) /\ <<t, m>> \notin DOMAIN store /\ cmd'[p].n = m
    BY <2>1, <2>3 DEF A!Kept
  <2>5. DOMAIN A!Dir(<<t, m>>)' = {}
    BY <2>1, <2>4 DEF A!Dir, A!Empty
  <2>6. NamesIn(cmd[p].names)' = NamesIn(l)
    BY <2>1 DEF NamesIn
  <2>7. DOMAIN A!Dir(A!Kept(p))' = {}
    BY <2>4, <2>5 DEF A!Dir
  <2>8. KeepsOwn(p)'
    BY <2>1, <2>2, <2>4, <2>6, <2>7 DEF KeepsOwn
  <2> QED
    BY <2>1, <2>2, <2>8
<1> QED
  BY <1>1, <1>2, <1>3, KeepersAre DEF StillKeeps

(* Every step keeps it right.                                               *)
LEMMA KeepStays ==
  ASSUME A!ArtifactsAssumption, StoreTypeOK, ServerInv, GateInv, SendInv, AloneInv, StoreInv, KeepInv,
         OwnersInv, PullInv, [A!Next]_(A!vars)
  PROVE  KeepInv'
<1>1. CASE FilesOrApproval
  <2>1. /\ inRun' = inRun /\ cmd' = cmd /\ store' = store /\ server' = server /\ commands' = commands
    BY <1>1 DEF FilesOrApproval
  <2>2. \A q \in Procs : (KeepsVersion(q)' <=> KeepsVersion(q)) /\ (KeepsOwn(q)' <=> KeepsOwn(q))
    BY <2>1 DEF KeepsVersion, KeepsOwn, A!Kept, Valid, A!Stored, A!Dir, Left, NamesIn
  <2> QED
    BY <2>1, <2>2 DEF KeepInv
<1>2. ASSUME NEW p \in Procs, ActsOf(p)
      PROVE  KeepInv'
  BY <1>2, KeepOthers, KeepOwn DEF KeepInv
<1> QED
  BY <1>1, <1>2, StoreStepIs

-----------------------------------------------------------------------------
(* The numbers of pushes.                                                   *)

(* A command that stays the same has the same number.                       *)
LEMMA NumberSame ==
  ASSUME NEW q, SameCommand(q)
  PROVE  Number(q)' = Number(q) /\ (Holds(q)' <=> Holds(q))
BY DEF SameCommand, Number, Holds, A!Kept

(* In a run whoever has a number has a version of it.                       *)
LEMMA HeldIsValid ==
  ASSUME SendInv, KeepInv, inRun = TRUE, NEW q \in Procs, Holds(q)
  PROVE  Valid(Number(q))
BY DEF SendInv, Sending, KeepInv, KeepsVersion, Holds, Number, A!Kept

(* Who holds a number after a step: who held it before, a push that was     *)
(* stored, or one that starts outside a run.                                *)
LEMMA HoldersAre ==
  ASSUME A!ArtifactsAssumption, StoreTypeOK, SendInv, NEW p \in Procs, ActsOf(p), Holds(p)'
  PROVE  \/ Holds(p) /\ Number(p)' = Number(p)
         \/ A!Forward(p) /\ cmd[p].pc = "wait" /\ cmd' = cmd /\ req'[p].at = "stored"
         \/ \E t \in Types, l \in Lists : A!KeepPush(p, t, l)
<1> DEFINE Goal == \/ Holds(p) /\ Number(p)' = Number(p)
                   \/ A!Forward(p) /\ cmd[p].pc = "wait" /\ cmd' = cmd /\ req'[p].at = "stored"
                   \/ \E t \in Types, l \in Lists : A!KeepPush(p, t, l)
<1> SUFFICES Goal
  OBVIOUS
<1>0. cmd \in [Procs -> Commands] /\ req \in [Procs -> Requests] /\ Sending(p)
  BY DEF StoreTypeOK, SendInv
<1> HIDE DEF Goal
<1>1. CASE A!Post(p)
  <2>1. cmd'[p] = [cmd[p] EXCEPT !.pc = "wait"]
    BY <1>0, <1>1 DEF A!Post, A!Does
  <2>2. req'[p] = [A!NoRequest EXCEPT !.at = "new", !.body = cmd[p].body]
    BY <1>0, <1>1 DEF A!Post
  <2>3. cmd'[p].pc = "wait"
    BY <1>0, <2>1 DEF Commands
  <2>4. req'[p].at = "new"
    BY <2>2 DEF A!NoRequest
  <2> QED
    BY <2>3, <2>4 DEF Holds
<1>2. CASE A!Gateway(p)
  <2>1. cmd' = cmd /\ req[p].at \in {"new", "check"} /\ req'[p].at \in {"check", "forward", "failed"}
    BY <1>0, <1>2 DEF A!Gateway, A!At, A!Goes, A!AsTheCommand, A!RunAPICheck, Requests
  <2> QED
    BY <1>0, <2>1 DEF Sending, Holds
<1>3. CASE A!Check(p)
  <2>1. cmd' = cmd /\ req[p].at \in {"new", "check"} /\ req'[p].at \in {"check", "forward", "failed"}
    BY <1>0, <1>3 DEF A!Check, A!At, A!Goes, A!AsTheCommand, A!RunAPICheck, Requests
  <2> QED
    BY <1>0, <2>1 DEF Sending, Holds
<1>4. CASE A!Forward(p)
  <2>1. cmd' = cmd /\ req[p].at = "forward"
    BY <1>4 DEF A!Forward, A!At, A!AsTheCommand
  <2> QED
    BY <1>0, <1>4, <2>1 DEF Sending, Holds, Goal
<1>5. CASE A!Answered(p)
  <2>1. cmd'[p].pc \in {"keep", "kept", "wait"}
    BY DEF Holds
  <2>2. /\ cmd[p].pc = "wait" /\ req[p].at = "stored" /\ cmd'[p].pc = "keep"
        /\ cmd'[p].type = cmd[p].type /\ cmd'[p].n = req[p].n
    BY <1>5, <2>1, AnsweredIs
  <2>3. Number(p) = <<cmd[p].type, req[p].n>>
    BY <2>2 DEF Number
  <2>4. Number(p)' = <<cmd[p].type, req[p].n>>
    BY <2>2 DEF Number, A!Kept
  <2>5. Holds(p)
    BY <2>2 DEF Holds
  <2>6. Holds(p) /\ Number(p)' = Number(p)
    BY <2>3, <2>4, <2>5
  <2> QED
    BY <2>6 DEF Goal
<1>6. CASE A!Keep(p)
  <2>1. /\ cmd[p].pc = "keep" /\ cmd'[p].type = cmd[p].type /\ cmd'[p].n = cmd[p].n
             /\ cmd'[p].pc \in {"keep", "kept"}
    BY <1>6, KeepIs
  <2>2. Number(p) = <<cmd[p].type, cmd[p].n>>
    BY <2>1 DEF Number, A!Kept
  <2>3. Number(p)' = <<cmd[p].type, cmd[p].n>>
    BY <2>1 DEF Number, A!Kept
  <2>4. Holds(p)
    BY <2>1 DEF Holds
  <2>5. Holds(p) /\ Number(p)' = Number(p)
    BY <2>2, <2>3, <2>4
  <2> QED
    BY <2>5 DEF Goal
<1>7. CASE A!PullItem(p)
  <2>1. cmd'[p].pc = "item"
    BY <1>0, <1>7 DEF A!PullItem, A!Does, A!Idle, Commands
  <2> QED
    BY <2>1 DEF Holds
<1>8. CASE A!PullFile(p)
  <2>1. cmd'[p].pc = "pull"
    BY <1>8 DEF A!PullFile, A!Is
  <2> QED
    BY <2>1 DEF Holds
<1>9. CASE A!PullEnd(p)
  <2>1. cmd'[p].pc = "pulled"
    BY <1>0, <1>9 DEF A!PullEnd, A!Does, Commands
  <2> QED
    BY <2>1 DEF Holds
<1>10. CASE A!Kill(p)
  BY <1>10, KillIs DEF Holds
<1>11. ASSUME NEW t \in Types, NEW l \in Lists, A!Push(p, t, l)
      PROVE  Goal
  <2>1. cmd'[p].pc = "post"
    BY <1>0, <1>11 DEF A!Push, A!Does, A!Idle, Commands
  <2> QED
    BY <2>1 DEF Holds
<1>12. ASSUME NEW t \in Types, NEW l \in Lists, A!KeepPush(p, t, l)
      PROVE  Goal
  BY <1>12 DEF Goal
<1>13. ASSUME NEW body \in Bodies, A!PostOther(p, body)
      PROVE  Goal
  <2>1. cmd'[p].pc = "idle"
    BY <1>0, <1>13, IdleHas DEF A!PostOther, A!Does
  <2> QED
    BY <2>1 DEF Holds
<1>14. ASSUME NEW asked \in 0..1, NEW types \in {Types} \cup {{t} : t \in Types}, A!PullIndex(p, asked, types)
      PROVE  Goal
  <2>1. cmd'[p].pc = "pull"
    BY <1>0, <1>14 DEF A!PullIndex, A!Does, Commands
  <2> QED
    BY <2>1 DEF Holds
<1> QED
  BY <1>1, <1>2, <1>3, <1>4, <1>5, <1>6, <1>7, <1>8, <1>9, <1>10, <1>11, <1>12, <1>13, <1>14 DEF ActsOf

(* The number that a step gives is one that no other push has.              *)
LEMMA NumberIsNew ==
  ASSUME A!ArtifactsAssumption, StoreTypeOK, ServerInv, GateInv, SendInv, AloneInv, StoreInv, KeepInv,
         OwnersInv, PullInv, [A!Next]_(A!vars),
         NEW p \in Procs, ActsOf(p), Holds(p)', NEW q \in Procs, q # p, Holds(q)
  PROVE  Number(p)' # Number(q)
<1>1. CASE Holds(p) /\ Number(p)' = Number(p)
  BY <1>1 DEF OwnersInv
<1>2. CASE A!Forward(p) /\ cmd[p].pc = "wait" /\ cmd' = cmd /\ req'[p].at = "stored"
  <2>1. inRun = TRUE
    BY <1>2 DEF AloneInv, StoreTypeOK
  <2>2. Valid(Number(q))
    BY <2>1, HeldIsValid
  <2>3. req' # [req EXCEPT ![p].at = "failed"]
    BY <1>2 DEF StoreTypeOK, Requests
  <2>4. PICK t \in Types : /\ t = A!Value(req[p].body, "type", A!Decoder)
                           /\ req' = [req EXCEPT ![p].at = "stored", ![p].n = Len(server[t]) + 1]
    BY <1>2, <2>3, Forwarded
  <2>5. req'[p].n = Len(server[t]) + 1
    BY <2>4 DEF StoreTypeOK, Requests
  <2>6. req[p].body = cmd[p].body /\ cmd[p].type \in Types
    BY <1>2 DEF SendInv, Sending
  <2>7. PICK listed \in AllFiles : cmd[p].body = A!PushBody(cmd[p].type, listed)
    BY <1>2 DEF SendInv, Sending
  <2>8. t = cmd[p].type
    BY <2>4, <2>6, <2>7, PushIs, DecoderIs
  <2>9. Number(p)' = <<t, Len(server[t]) + 1>>
    BY <1>2, <2>5, <2>8 DEF Number
  <2>10. PICK d : d = Number(q)
    OBVIOUS
  <2>11. d[1] = t => d[2] <= Len(server[t])
    BY <2>2, <2>10 DEF Valid
  <2>12. Len(server[t]) \in Nat
    BY DEF StoreTypeOK
  <2> QED
    BY <2>9, <2>10, <2>11, <2>12
<1>3. ASSUME NEW t \in Types, NEW l \in Lists, A!KeepPush(p, t, l)
      PROVE  Number(p)' # Number(q)
  <2>1. inRun = FALSE /\ cmd[q].pc \in {"idle", "kept"}
    BY <1>3, KeepPushIs
  <2>2. cmd[q].pc = "kept" /\ Number(q) = A!Kept(q)
    BY <2>1 DEF Holds, Number
  <2>3. A!Kept(q) \in DOMAIN store
    BY <2>1, <2>2 DEF KeepInv, KeepsOwn
  <2>4. <<t, A!nextVersion(t)>> \notin DOMAIN store
    BY <2>1, NextIsNew
  <2>5. PICK m : m = A!nextVersion(t)
    OBVIOUS
  <2>6. cmd'[p].pc = "keep" /\ cmd'[p].type = t /\ cmd'[p].n = m
    BY <1>3, <2>5, KeepPushHas
  <2>7. Number(p)' = <<t, m>>
    BY <2>6 DEF Number, A!Kept
  <2> QED
    BY <2>2, <2>3, <2>4, <2>5, <2>7
<1> QED
  BY <1>1, <1>2, <1>3, HoldersAre

(* Every step keeps the numbers apart.                                      *)
LEMMA OwnersStay ==
  ASSUME A!ArtifactsAssumption, StoreTypeOK, ServerInv, GateInv, SendInv, AloneInv, StoreInv, KeepInv,
         OwnersInv, PullInv, [A!Next]_(A!vars)
  PROVE  OwnersInv'
<1>1. CASE FilesOrApproval
  BY <1>1 DEF FilesOrApproval, OwnersInv, Holds, Number, A!Kept
<1>2. ASSUME NEW p \in Procs, ActsOf(p)
      PROVE  OwnersInv'
  <2>1. \A q \in Procs : q # p => Number(q)' = Number(q) /\ (Holds(q)' <=> Holds(q))
    BY <1>2, OtherCommands, NumberSame
  <2>2. \A q \in Procs : q # p /\ Holds(p)' /\ Holds(q) => Number(p)' # Number(q)
    BY <1>2, NumberIsNew
  <2>3. \A q, r \in Procs : q # r /\ Holds(q) /\ Holds(r) => Number(q) # Number(r)
    BY DEF OwnersInv
  <2>4. \A q, r \in Procs : q # r /\ Holds(q)' /\ Holds(r)' => Number(q)' # Number(r)'
    BY <2>1, <2>2, <2>3
  <2> QED
    BY <2>4 DEF OwnersInv
<1> QED
  BY <1>1, <1>2, StoreStepIs

-----------------------------------------------------------------------------
(* Pulls.                                                                   *)

(* A pull takes versions that Qory Apiary has.                              *)
LEMMA WantedAre ==
  ASSUME A!ArtifactsAssumption, StoreTypeOK, ServerInv, NEW p \in Procs, NEW asked \in 0..1,
         NEW types \in {Types} \cup {{t} : t \in Types}, A!PullIndex(p, asked, types)
  PROVE  cmd'[p].pc = "pull" /\ server' = server /\ \A d \in cmd'[p].want : Valid(d)
<1> DEFINE n == [u \in Types |-> A!chosenVersion(u, asked, cmd[p].pinned, server[u])]
           want == {<<u, n[u]>> : u \in {v \in types : n[v] # 0}}
<1>1. asked \in Nat /\ types \subseteq Types /\ \A u \in Types : Len(server[u]) \in Nat
  BY DEF StoreTypeOK
<1>2. \A u \in Types : n[u] \in 0..Len(server[u])
  BY <1>1, ChosenIs
<1>3. \A d \in want : Valid(d)
  <2> HIDE DEF n
  <2>1. ASSUME NEW u \in types, n[u] # 0 PROVE Valid(<<u, n[u]>>)
    <3>1. n[u] \in 1..Len(server[u]) /\ u \in Types /\ n[u] \in Nat
      BY <1>1, <1>2, <2>1
    <3> QED
      BY <3>1 DEF Valid
  <2> QED
    BY <2>1
<1>4. cmd' = [cmd EXCEPT ![p] = [cmd[p] EXCEPT !.pc = "pull", !.want = want, !.names = <<>>]]
        /\ server' = server
  BY DEF A!PullIndex, A!Does, A!OnlyCmd
<1> HIDE DEF want
<1>5. cmd[p] \in Commands /\ cmd \in [Procs -> Commands]
  BY DEF StoreTypeOK
<1>6. cmd'[p].pc = "pull" /\ cmd'[p].want = want
  BY <1>4, <1>5 DEF Commands
<1> QED
  BY <1>3, <1>4, <1>6

(* What a command that pulls after a step did.                              *)
LEMMA PullersAre ==
  ASSUME A!ArtifactsAssumption, StoreTypeOK, SendInv, NEW p \in Procs, ActsOf(p), cmd'[p].pc \in {"pull",
         "pulled"}
  PROVE  StillPulls(p)
<1>0. cmd \in [Procs -> Commands] /\ Sending(p)
  BY DEF StoreTypeOK, SendInv
<1>1. CASE A!Post(p)
  <2>1. cmd'[p].pc = "wait"
    BY <1>0, <1>1 DEF A!Post, A!Does, Commands
  <2> QED
    BY <2>1
<1>2. CASE A!Gateway(p)
  <2>1. cmd' = cmd /\ req[p].at \in {"new", "check", "forward"}
    BY <1>2 DEF A!Gateway, A!At, A!AsTheCommand
  <2> QED
    BY <1>0, <2>1 DEF Sending
<1>3. CASE A!Check(p)
  <2>1. cmd' = cmd /\ req[p].at \in {"new", "check", "forward"}
    BY <1>3 DEF A!Check, A!At, A!AsTheCommand
  <2> QED
    BY <1>0, <2>1 DEF Sending
<1>4. CASE A!Forward(p)
  <2>1. cmd' = cmd /\ req[p].at \in {"new", "check", "forward"}
    BY <1>4 DEF A!Forward, A!At, A!AsTheCommand
  <2> QED
    BY <1>0, <2>1 DEF Sending
<1>5. CASE A!Answered(p)
  <2>1. req[p].at \in {"stored", "failed"}
    BY <1>5 DEF A!Answered
  <2>2. CASE cmd[p].pc = "wait" /\ req[p].at = "stored"
    <3>1. cmd'[p] = [cmd[p] EXCEPT !.pc = "keep", !.n = req[p].n]
      BY <1>0, <1>5, <2>2 DEF A!Answered, A!Is, A!At, A!Does
    <3>2. PICK c, d, m : c = cmd[p] /\ d = cmd'[p] /\ m = req[p].n
      OBVIOUS
    <3>3. c \in Commands /\ d = [c EXCEPT !.pc = "keep", !.n = m]
      BY <1>0, <3>1, <3>2
    <3>4. d.pc = "keep"
      BY <3>3 DEF Commands
    <3> QED
      BY <3>2, <3>4
  <2>3. CASE ~(cmd[p].pc = "wait" /\ req[p].at = "stored")
    <3>1. cmd'[p].pc = "idle"
      BY <1>0, <1>5, <2>1, <2>3, IdleHas DEF A!Answered, A!Is, A!At, A!Does, Sending
    <3> QED
      BY <3>1
  <2> QED
    BY <2>2, <2>3
<1>6. CASE A!Keep(p)
  BY <1>6, KeepIs
<1>7. CASE A!PullItem(p)
  <2>1. cmd'[p].pc = "item"
    BY <1>0, <1>7 DEF A!PullItem, A!Does, A!Idle, Commands
  <2> QED
    BY <2>1
<1>8. CASE A!PullFile(p)
  BY <1>8 DEF StillPulls
<1>9. CASE A!PullEnd(p)
  BY <1>9 DEF StillPulls
<1>10. CASE A!Kill(p)
  BY <1>10, KillIs
<1>11. ASSUME NEW t \in Types, NEW l \in Lists, A!Push(p, t, l)
      PROVE  StillPulls(p)
  <2>1. cmd'[p].pc = "post"
    BY <1>0, <1>11 DEF A!Push, A!Does, A!Idle, Commands
  <2> QED
    BY <2>1
<1>12. ASSUME NEW t \in Types, NEW l \in Lists, A!KeepPush(p, t, l)
      PROVE  StillPulls(p)
  <2>1. cmd'[p].pc = "keep"
    BY <1>0, <1>12 DEF A!KeepPush, A!Does, A!Idle, Commands
  <2> QED
    BY <2>1
<1>13. ASSUME NEW body \in Bodies, A!PostOther(p, body)
      PROVE  StillPulls(p)
  BY <1>0, <1>13, IdleHas DEF A!PostOther, A!Does
<1>14. ASSUME NEW asked \in 0..1, NEW types \in {Types} \cup {{t} : t \in Types}, A!PullIndex(p, asked, types)
      PROVE  StillPulls(p)
  BY <1>14 DEF StillPulls
<1> QED
  BY <1>1, <1>2, <1>3, <1>4, <1>5, <1>6, <1>7, <1>8, <1>9, <1>10, <1>11, <1>12, <1>13, <1>14 DEF ActsOf

(* A file of a version that is in its folder stays, or the pulls of that    *)
(* version are touched.                                                     *)
LEMMA FileStays ==
  ASSUME A!ArtifactsAssumption, StoreTypeOK, ServerInv, GateInv, SendInv, AloneInv, StoreInv, KeepInv,
         OwnersInv, PullInv, [A!Next]_(A!vars),
         inRun = TRUE, NEW p \in Procs, ActsOf(p), NEW q \in Procs, NEW d, A!Keep(p)
           => q # p, d \in cmd[q].want, Valid(d),
         cmd'[q].touched = FALSE, NEW name, name \in DOMAIN A!Stored(d), A!sameFile(d, name)
  PROVE  A!sameFile(d, name)'
<1>1. A!Stored(d)' = A!Stored(d)
  BY StaysValid
<1>2. name \in DOMAIN A!Dir(d) /\ A!Dir(d)[name] = A!Stored(d)[name]
  BY DEF A!sameFile
<1>3. CASE A!Keep(p) => A!Kept(p) # d
  <2>1. name \in DOMAIN A!Dir(d)' /\ (A!Dir(d)'[name] = A!Dir(d)[name] \/ A!Dir(d)'[name] = A!Stored(d)[name])
    BY <1>2, <1>3, FolderStays
  <2> QED
    BY <1>1, <1>2, <2>1 DEF A!sameFile
<1>4. CASE A!Keep(p) /\ A!Kept(p) = d
  <2>1. cmd[p].pc = "keep" /\ cmd[p].names # <<>> /\ cmd[p].names \in Seq(Names)
        /\ store' = A!Written(A!Kept(p), Head(cmd[p].names), src[Head(cmd[p].names)])
    BY <1>4, KeepIs
  <2>2. PICK x, content : x = Head(cmd[p].names) /\ content = src[Head(cmd[p].names)]
    OBVIOUS
  <2>3. store' = A!Written(d, x, content)
    BY <1>4, <2>1, <2>2
  <2>4. x \in DOMAIN A!Stored(d)
    BY <1>4, <2>1, <2>2, TailNames DEF KeepInv, KeepsVersion
  <2>5. content = A!Stored(d)[x]
    BY <1>4, <2>2, <2>4, KeepTouches
  <2>6. d \in DOMAIN store' /\ store'[d][x] = content /\ \A k \in DOMAIN A!Dir(d) \ {x} :
          k \in DOMAIN store'[d] /\ store'[d][k] = A!Dir(d)[k]
    BY <2>3 DEF A!Written
  <2>7. A!Dir(d)' = store'[d] /\ DOMAIN store'[d] = DOMAIN A!Dir(d) \cup {x}
    BY <2>3, <2>6 DEF A!Written, A!Dir
  <2>8. name \in DOMAIN A!Dir(d)' /\ A!Dir(d)'[name] = A!Stored(d)[name]
    BY <1>2, <2>5, <2>6, <2>7
  <2> QED
    BY <1>1, <2>8 DEF A!sameFile
<1> QED
  BY <1>3, <1>4

(* Every step keeps it that a pull that ended has its versions whole, unless*)
(* it is touched.                                                           *)
LEMMA PullStays ==
  ASSUME A!ArtifactsAssumption, StoreTypeOK, ServerInv, GateInv, SendInv, AloneInv, StoreInv, KeepInv,
         OwnersInv, PullInv, [A!Next]_(A!vars)
  PROVE  PullInv'
<1>0. \A d : Valid(d) => Valid(d)' /\ A!Stored(d)' = A!Stored(d)
  BY StaysValid
<1>1. CASE FilesOrApproval
  <2>1. inRun' = inRun /\ server' = server /\ cmd' = cmd /\ store' = store
    BY <1>1 DEF FilesOrApproval
  <2>2. \A d, name : A!sameFile(d, name)' <=> A!sameFile(d, name)
    BY <2>1 DEF A!sameFile, A!Dir, A!Stored
  <2>3. ASSUME NEW q \in Procs, cmd[q].pc \in {"pull", "pulled"}
        PROVE  /\ inRun' = TRUE /\ \A d \in cmd[q].want : Valid(d)'
               /\ cmd[q].pc = "pulled" /\ cmd[q].touched = FALSE =>
                    \A d \in cmd[q].want : \A name \in DOMAIN A!Stored(d)' : A!sameFile(d, name)'
    <3>1. /\ inRun = TRUE /\ \A d \in cmd[q].want : Valid(d)
          /\ cmd[q].pc = "pulled" /\ cmd[q].touched = FALSE => \A d \in cmd[q].want :
               \A name \in DOMAIN A!Stored(d) : A!sameFile(d, name)
      BY <2>3 DEF PullInv
    <3> QED
      BY <1>0, <2>1, <2>2, <3>1
  <2> QED
    BY <2>1, <2>3 DEF PullInv
<1>2. ASSUME NEW p \in Procs, ActsOf(p)
      PROVE  PullInv'
  <2>0. inRun' = inRun
    BY <1>2, Leaves
  <2>1. ASSUME NEW q \in Procs, SameCommand(q), A!Keep(p) => q # p, cmd'[q].pc \in {"pull", "pulled"}
        PROVE  /\ inRun' = TRUE /\ \A d \in cmd'[q].want : Valid(d)'
               /\ cmd'[q].pc = "pulled" /\ cmd'[q].touched = FALSE =>
                    \A d \in cmd'[q].want : \A name \in DOMAIN A!Stored(d)' : A!sameFile(d, name)'
    <3>1. /\ cmd[q].pc = cmd'[q].pc /\ cmd'[q].want = cmd[q].want /\ (cmd'[q].touched = FALSE
               => cmd[q].touched = FALSE)
      BY <2>1 DEF SameCommand
    <3>2. /\ inRun = TRUE /\ \A d \in cmd[q].want : Valid(d)
          /\ cmd[q].pc = "pulled" /\ cmd[q].touched = FALSE => \A d \in cmd[q].want :
               \A name \in DOMAIN A!Stored(d) : A!sameFile(d, name)
      BY <2>1, <3>1 DEF PullInv
    <3>3. ASSUME cmd'[q].pc = "pulled", cmd'[q].touched = FALSE, NEW d \in cmd[q].want,
                   NEW name \in DOMAIN A!Stored(d)'
          PROVE  A!sameFile(d, name)'
      <4>1. Valid(d) /\ name \in DOMAIN A!Stored(d) /\ A!sameFile(d, name)
        BY <1>0, <3>1, <3>2, <3>3
      <4> QED
        BY <1>2, <2>1, <3>2, <3>3, <4>1, FileStays
    <3> QED
      BY <1>0, <2>0, <3>1, <3>2, <3>3
  <2>2. ASSUME cmd'[p].pc \in {"pull", "pulled"}
        PROVE  /\ inRun' = TRUE /\ \A d \in cmd'[p].want : Valid(d)'
               /\ cmd'[p].pc = "pulled" /\ cmd'[p].touched = FALSE =>
                    \A d \in cmd'[p].want : \A name \in DOMAIN A!Stored(d)' : A!sameFile(d, name)'
    <3>1. CASE A!PullFile(p)
      <4>1. SameCommand(p) /\ ~A!Keep(p)
        BY <3>1 DEF A!PullFile, A!Keep, A!Is, A!OnlyCmd, SameCommand
      <4> QED
        BY <2>1, <2>2, <4>1
    <3>2. CASE A!PullEnd(p)
      <4>1. cmd[p].pc = "pull" /\ store' = store /\ server' = server /\ A!Missing(p) = {}
              /\ cmd' = [cmd EXCEPT ![p] = [cmd[p] EXCEPT !.pc = "pulled"]]
        BY <3>2 DEF A!PullEnd, A!Is, A!OnlyCmd, A!Does
      <4>2. cmd'[p].want = cmd[p].want
        BY <4>1 DEF StoreTypeOK, Commands
      <4>3. inRun = TRUE /\ \A d \in cmd[p].want : Valid(d)
        BY <4>1 DEF PullInv
      <4>4. ASSUME NEW d \in cmd[p].want, NEW name \in DOMAIN A!Stored(d)
            PROVE  A!sameFile(d, name)
        <5>1. d[1] \in Types /\ d[2] \in DOMAIN server[d[1]]
          BY <4>3 DEF Valid, StoreTypeOK
        <5>2. FileNames(server[d[1]][d[2]]) \subseteq Names
          BY <5>1 DEF ServerInv
        <5>3. name \in Names
          BY <5>2 DEF A!Stored, FileNames
        <5>4. PICK m : m = <<d, name>>
          OBVIOUS
        <5>5. m \in cmd[p].want \X Names /\ m[1] = d /\ m[2] = name
          BY <5>3, <5>4
        <5> QED
          BY <4>1, <5>5 DEF A!Missing
      <4>5. \A d, name : A!sameFile(d, name)' <=> A!sameFile(d, name)
        BY <4>1 DEF A!sameFile, A!Dir, A!Stored
      <4> QED
        BY <1>0, <2>0, <4>2, <4>3, <4>4, <4>5
    <3>3. ASSUME NEW asked \in 0..1, NEW types \in {Types} \cup {{t} :
                   t \in Types}, A!PullIndex(p, asked, types)
          PROVE  cmd'[p].pc = "pull" /\ inRun' = TRUE /\ \A d \in cmd'[p].want : Valid(d)'
      <4>1. cmd'[p].pc = "pull" /\ server' = server /\ \A d \in cmd'[p].want : Valid(d)
        BY <3>3, WantedAre
      <4>2. cmd[p].pc = "item"
        BY <3>3 DEF A!PullIndex, A!Is
      <4>3. inRun = TRUE
        BY <4>2 DEF AloneInv, StoreTypeOK
      <4> QED
        BY <1>0, <2>0, <4>1, <4>3
    <3> QED
      BY <1>2, <2>2, <3>1, <3>2, <3>3, PullersAre DEF StillPulls
  <2>3. ASSUME NEW q \in Procs, q # p, cmd'[q].pc \in {"pull", "pulled"}
        PROVE  /\ inRun' = TRUE /\ \A d \in cmd'[q].want : Valid(d)'
               /\ cmd'[q].pc = "pulled" /\ cmd'[q].touched = FALSE =>
                    \A d \in cmd'[q].want : \A name \in DOMAIN A!Stored(d)' : A!sameFile(d, name)'
    BY <1>2, <2>1, <2>3, OtherCommands
  <2> QED
    BY <2>2, <2>3 DEF PullInv
<1> QED
  BY <1>1, <1>2, StoreStepIs

-----------------------------------------------------------------------------
(* The invariant and the theorem.                                           *)

(* The first states have the invariant.                                     *)
LEMMA StoreIInvStarts ==
  ASSUME A!ArtifactsAssumption, A!Init
  PROVE  StoreIInv
<1>0. /\ inRun \in BOOLEAN /\ src \in [Names -> Texts] /\ server = [t \in Types |-> <<>>]
           /\ gated = [t \in Types |-> 0]
      /\ DOMAIN store = {} /\ cmd = [p \in Procs |-> A!Idle] /\ req = [p \in Procs |-> A!NoRequest]
           /\ commands = 0
  BY DEF A!Init
<1>1. StoreTypeOK
  <2>1. server \in [Types -> Seq(StoredVersions)] /\ gated \in [Types -> Nat]
    BY <1>0
  <2>2. cmd \in [Procs -> Commands] /\ req \in [Procs -> Requests]
    BY <1>0, IdleIs
  <2> QED
    BY <1>0, <2>1, <2>2 DEF StoreTypeOK
<1>2. \A p \in Procs : cmd[p].pc = "idle" /\ req[p].at = "none"
  BY <1>0, IdleHas
<1>3. ServerInv /\ StoreInv
  <2>1. \A t \in Types : server[t] = <<>> /\ gated[t] = 0 /\ Len(server[t]) = 0 /\ DOMAIN server[t] = {}
    BY <1>0
  <2>2. \A t \in Types : gated[t] <= Len(server[t])
    BY <2>1
  <2>3. CheckedTypes \subseteq Types
    BY DEF A!ArtifactsAssumption
  <2> QED
    BY <1>0, <2>1, <2>2, <2>3 DEF ServerInv, A!StoredIsChecked, StoreInv
<1>4. GateInv /\ SendInv /\ KeepInv /\ OwnersInv /\ PullInv
  BY <1>2 DEF GateInv, SendInv, Sending, KeepInv, OwnersInv, Holds, PullInv
<1>5. AloneInv
  BY <1>0, <1>2 DEF AloneInv
<1> QED
  BY <1>1, <1>3, <1>4, <1>5 DEF StoreIInv


(* Every step keeps the invariant.                                          *)
LEMMA StoreIInvStays ==
  ASSUME A!ArtifactsAssumption, StoreIInv, [A!Next]_(A!vars)
  PROVE  StoreIInv'
<1>1. StoreTypeOK /\ ServerInv /\ GateInv /\ SendInv /\ AloneInv /\ StoreInv /\ KeepInv /\ OwnersInv
        /\ PullInv
  BY DEF StoreIInv
<1>2. StoreTypeOK' /\ ServerInv' /\ GateInv'
  BY <1>1, TypesStay, ServerStays, GateStays
<1>3. SendInv' /\ AloneInv' /\ StoreInv'
  BY <1>1, SendStays, AloneStays, StoreStays
<1>4. KeepInv' /\ OwnersInv' /\ PullInv'
  BY <1>1, KeepStays, OwnersStay, PullStays
<1> QED
  BY <1>2, <1>3, <1>4 DEF StoreIInv

(* A version as the store would hold it is a function.                      *)
LEMMA StoredIsWhole ==
  ASSUME NEW d
  PROVE  AFunction(A!Stored(d))
<1> DEFINE listed == server[d[1]][d[2]]
           of(k) == listed[CHOOSE i \in DOMAIN listed : listed[i][1] = k][2]
           names == {listed[i][1] : i \in DOMAIN listed}
<1>1. A!Stored(d) = [k \in names |-> of(k)]
  BY DEF A!Stored
<1> HIDE DEF of, names
<1> QED
  BY <1>1 DEF AFunction

(* The invariant gives the property.                                        *)
LEMMA StoreIInvSuffices ==
  ASSUME A!ArtifactsAssumption, StoreIInv
  PROVE  A!StoredAsDone
<1>1. StoreTypeOK /\ ServerInv /\ GateInv /\ SendInv /\ AloneInv /\ StoreInv /\ KeepInv /\ OwnersInv
        /\ PullInv
  BY DEF StoreIInv
<1>2. A!StoredIsChecked
  BY <1>1 DEF ServerInv
<1>3. ASSUME NEW p \in Procs, ~cmd[p].touched, A!Is(p, "pulled")
      PROVE  \A d \in cmd[p].want : \A name \in DOMAIN A!Stored(d) : name \in DOMAIN A!Dir(d)
             /\ A!Dir(d)[name] = A!Stored(d)[name]
  <2>1. cmd[p].touched = FALSE /\ cmd[p].pc = "pulled"
    BY <1>1, <1>3 DEF StoreTypeOK, Commands, A!Is
  <2>2. \A d \in cmd[p].want : \A name \in DOMAIN A!Stored(d) : A!sameFile(d, name)
    BY <1>1, <2>1 DEF PullInv
  <2> QED
    BY <2>2 DEF A!sameFile
<1>4. ASSUME NEW p \in Procs, ~cmd[p].touched, A!Is(p, "kept"), inRun = TRUE
      PROVE  A!Dir(A!Kept(p)) = A!Stored(A!Kept(p))
  <2>1. cmd[p].touched = FALSE /\ cmd[p].pc = "kept"
    BY <1>1, <1>4 DEF StoreTypeOK, Commands, A!Is
  <2>2. cmd[p].names = <<>>
    BY <1>1, <2>1 DEF SendInv, Sending
  <2>3. \A k : ~Left(p, k)
    BY <2>2 DEF Left, NamesIn
  <2>4. \A k \in DOMAIN A!Stored(A!Kept(p)) : k \in DOMAIN A!Dir(A!Kept(p))
          /\ A!Dir(A!Kept(p))[k] = A!Stored(A!Kept(p))[k]
    BY <1>1, <1>4, <2>1, <2>3 DEF KeepInv, KeepsVersion
  <2>5. PICK dir, stored : dir = A!Dir(A!Kept(p)) /\ stored = A!Stored(A!Kept(p))
    OBVIOUS
  <2>6. DOMAIN dir \subseteq DOMAIN stored
    <3>1. CASE A!Kept(p) \in DOMAIN store
      BY <1>1, <1>4, <2>5, <3>1 DEF StoreInv, A!Dir
    <3>2. CASE A!Kept(p) \notin DOMAIN store
      BY <2>5, <3>2 DEF A!Dir, A!Empty
    <3> QED
      BY <3>1, <3>2
  <2>7. AFunction(dir)
    <3>1. CASE A!Kept(p) \in DOMAIN store
      BY <1>1, <2>5, <3>1 DEF StoreTypeOK, A!Dir
    <3>2. CASE A!Kept(p) \notin DOMAIN store
      BY <2>5, <3>2 DEF A!Dir, A!Empty, AFunction
    <3> QED
      BY <3>1, <3>2
  <2>8. AFunction(stored)
    BY <2>5, StoredIsWhole
  <2>9. DOMAIN dir = DOMAIN stored /\ \A k \in DOMAIN dir : dir[k] = stored[k]
    BY <2>4, <2>5, <2>6
  <2>10. dir = stored
    BY <2>7, <2>8, <2>9 DEF AFunction
  <2> QED
    BY <2>5, <2>10
<1>5. ASSUME NEW p \in Procs, A!Is(p, "kept"), inRun = FALSE
      PROVE  DOMAIN A!Dir(A!Kept(p)) = cmd[p].all
  <2>1. cmd[p].names = <<>> /\ cmd[p].pc = "kept"
    BY <1>1, <1>5 DEF SendInv, Sending, A!Is
  <2>2. NamesIn(cmd[p].names) = {}
    BY <2>1 DEF NamesIn
  <2> QED
    BY <1>1, <1>5, <2>1, <2>2 DEF KeepInv, KeepsOwn
<1>6. inRun \in BOOLEAN
  BY <1>1 DEF StoreTypeOK
<1>7. A!DoneMeansKept
  BY <1>3, <1>4, <1>5, <1>6 DEF A!DoneMeansKept
<1> QED
  BY <1>2, <1>7 DEF A!StoredAsDone

(* checkedPush, sendPush, keep and fetch: whoever of the readers Qory Apiary*)
(* is, every version it stored of a type with a check passed that check; and*)
(* whatever commands were killed and whatever requests went on, a pull that *)
(* ended left the versions it chose whole in the store, and a push its own  *)
(* under the number it was given.                                           *)
THEOREM CommandsKeepVersions == PartsSpec => []StoredAsDone
<1> DEFINE Inv == part = "store" => StoreIInv
<1>1. PartsInit => Inv
  BY StoreIInvStarts, ListsAndBodies DEF PartsInit
<1>2. Inv /\ [PartsNext]_parts => Inv'
  <2> SUFFICES ASSUME Inv, [PartsNext]_parts, part' = "store" PROVE StoreIInv'
    OBVIOUS
  <2>1. part = "store" /\ [A!Next]_(A!vars)
    BY DEF PartsNext, parts, artifacts, A!vars
  <2> QED
    BY <2>1, StoreIInvStays, ListsAndBodies
<1>3. StoreIInv => A!StoredAsDone
  BY StoreIInvSuffices, ListsAndBodies
<1>4. Inv => StoredAsDone
  BY <1>3 DEF StoredAsDone
<1> QED
  BY <1>1, <1>2, <1>4, PTL DEF PartsSpec
=============================================================================
