--------------------------- MODULE SourcesProofs ---------------------------
(* Proofs about what qory gets onto this machine for a run: the sources of  *)
(* its harness (Sources), its own repositories (Fetch) and what the setup   *)
(* adds to them (Setup).                                                    *)
(*                                                                          *)
(* Sources, for any number of composes, commits and moves: the inductive    *)
(* invariant says of each commit a compose or the refs file holds that its  *)
(* clone is whole or was moved aside while it was, and of what a compose    *)
(* read from the remote that the ref named it since the resolve began.      *)
EXTENDS RunInputs, Sequences, TLAPS

(* A commit that was cloned once: a clone there is whole, and one that is   *)
(* not there was moved aside.                                               *)
Good(c) == clone[c] # "half" /\ (clone[c] = "whole" \/ c \in moved)

(* Every commit held for later is good.                                     *)
HeldAreGood ==
  /\ ref.commit # None => Good(ref.commit)
  /\ \A p \in Composes :
       /\ memo[p] # None => Good(memo[p])
       /\ cached[p] # None => Good(cached[p])
       /\ pc[p] \in {"write", "put", "use"} => Good(got[p])

(* A compose resolves again only what it lost.                              *)
Resolving == Steps \ {"idle", "resolve", "use"}
MemoLost ==
  \A p \in Composes :
    pc[p] \in Resolving /\ memo[p] # None => memo[p] \in moved

(* What a compose asked the remote for, the ref named since it began.       *)
AskedSince ==
  \A p \in Composes :
    /\ pc[p] \notin {"idle", "resolve"} /\ pc[p] # "use" => Named \subseteq since[p]
    /\ pc[p] \in {"cached", "ask", "answered"} => ~update[p]
    /\ pc[p] \in {"idle", "resolve", "begin", "cached", "ask"} => found[p] = Nothing
    /\ found[p].tag # None => form # "heads" /\ found[p].tag \in since[p]
    /\ found[p].branch # None => form # "tags" /\ found[p].branch \in since[p]
    /\ goal[p].what = "tag" => form # "heads"
    /\ goal[p].what = "branch" => form # "tags"
    /\ pc[p] \in {"landed", "stat", "aside", "place", "lost", "write"} /\ form # "commit"
         => got[p] \in since[p]

IInv == TypeOK /\ HeldAreGood /\ MemoLost /\ AskedSince /\ FollowsTheRemote
-----------------------------------------------------------------------------
USE NoneAssumption, FormsAssumption, BoundsAssumption
USE DEF vars, options, found_, result, cache, outside, history, bounds, MaybeCommit, GoTo, NoRef, Nothing,
        NoGoal, Kinds, Whats, Steps, Landing

(* The first state is in the invariant.                                     *)
LEMMA InitIInv == Init => IInv
<1> SUFFICES ASSUME Init PROVE IInv
  OBVIOUS
<1>1. TypeOK
  BY DEF Init, TypeOK, AllForms
<1>2. HeldAreGood /\ MemoLost
  BY DEF Init, HeldAreGood, MemoLost, Resolving
<1>3. AskedSince /\ FollowsTheRemote
  BY DEF Init, AskedSince, FollowsTheRemote
<1> QED
  BY <1>1, <1>2, <1>3 DEF IInv

(* Reading the refs file goes to the fetch or to the cache.                 *)
LEMMA ReadRefSteps ==
  ASSUME NEW p, ReadRef(p)
  PROVE  /\ pc[p] = "begin"
         /\ \/ /\ update[p] /\ pc' = [pc EXCEPT ![p] = "fetch"]
               /\ goal' = [goal EXCEPT ![p] = [what |-> "asWritten", kind |-> ref.kind]]
            \/ ~update[p] /\ pc' = [pc EXCEPT ![p] = "cached"] /\ goal' = goal
  BY DEF ReadRef, FetchNext

(* What it goes to fetch is a goal.                                         *)
LEMMA ReadRefGoal ==
  ASSUME NEW p \in Composes, ReadRef(p), ref.kind \in Kinds, goal \in [Composes -> [what : Whats, kind : Kinds]]
  PROVE  goal' \in [Composes -> [what : Whats, kind : Kinds]]
<1>1. "asWritten" \in Whats
  OBVIOUS
<1> DEFINE G == [what : Whats, kind : Kinds]
           g == [what |-> "asWritten", kind |-> ref.kind]
<1> HIDE DEF Whats, Kinds
<1>2. g \in G /\ goal \in [Composes -> G]
  BY <1>1
<1>3. goal' = [goal EXCEPT ![p] = g] \/ goal' = goal
  BY ReadRefSteps
<1> HIDE DEF G, g
<1>4. goal' \in [Composes -> G]
  BY <1>2, <1>3
<1> QED
  BY <1>4 DEF G

(* And it still resolves only what it lost.                                 *)
LEMMA ReadRefMemo == ASSUME NEW p \in Composes, ReadRef(p), MemoLost, pc \in [Composes -> Steps] PROVE MemoLost'
<1>1. "begin" \in Resolving
  BY DEF Resolving
<1> HIDE DEF Steps
<1>2. pc[p] = "begin" /\ \E n : pc' = [pc EXCEPT ![p] = n]
  BY ReadRefSteps
<1>3. memo' = memo /\ moved' = moved
  BY DEF ReadRef
<1>4. memo[p] # None => memo[p] \in moved
  BY <1>1, <1>2 DEF MemoLost
<1> QED
  BY <1>2, <1>3, <1>4 DEF MemoLost, Resolving

(* Every step keeps the types, one step per action.                         *)
LEMMA NextTypeOK == IInv /\ [Next]_vars => TypeOK'
<1> SUFFICES ASSUME IInv, [Next]_vars PROVE TypeOK'
  OBVIOUS
<1> USE DEF IInv, TypeOK, Cloned, Listed, Fetchable
<1>1. ASSUME NEW p \in Composes, MemoAnswers(p) PROVE TypeOK'
  BY <1>1 DEF MemoAnswers
<1>2. ASSUME NEW p \in Composes, MemoMisses(p) PROVE TypeOK'
  BY <1>2 DEF MemoMisses, Named
<1>3. ASSUME NEW p \in Composes, IdCached(p) PROVE TypeOK'
  BY <1>3 DEF IdCached
<1>4. ASSUME NEW p \in Composes, IdMissing(p) PROVE TypeOK'
  BY <1>4 DEF IdMissing, FetchNext
<1>5. ASSUME NEW p \in Composes, ReadRef(p) PROVE TypeOK'
  <2>1. read' \in [Composes -> [kind : Kinds, commit : MaybeCommit]]
    BY <1>5 DEF ReadRef
  <2>3. goal' \in [Composes -> [what : Whats, kind : Kinds]]
    BY <1>5, ReadRefGoal
  <2>4. CASE update[p]
    <3>1. pc' = [pc EXCEPT ![p] = "fetch"]
      BY <1>5, <2>4, ReadRefSteps
    <3> QED
      BY <1>5, <2>1, <2>3, <3>1 DEF ReadRef
  <2>5. CASE ~update[p]
    <3>1. pc' = [pc EXCEPT ![p] = "cached"]
      BY <1>5, <2>5, ReadRefSteps
    <3> QED
      BY <1>5, <2>1, <2>3, <3>1 DEF ReadRef
  <2> QED
    BY <2>4, <2>5
<1>6. ASSUME NEW p \in Composes, KeepTag(p) PROVE TypeOK'
  BY <1>6 DEF KeepTag, CachedCommit
<1>7. ASSUME NEW p \in Composes, LookUp(p) PROVE TypeOK'
  BY <1>7 DEF LookUp, CachedCommit
<1>8. ASSUME NEW p \in Composes, Answered(p) PROVE TypeOK'
  BY <1>8 DEF Answered
<1>9. ASSUME NEW p \in Composes, Unreached(p) PROVE TypeOK'
  BY <1>9 DEF Unreached
<1>10. ASSUME NEW p \in Composes, ListedMissing(p) PROVE TypeOK'
  BY <1>10 DEF ListedMissing, FetchNext, IsListed
<1>11. ASSUME NEW p \in Composes, ListedCached(p) PROVE TypeOK'
  BY <1>11 DEF ListedCached, IsListed
<1>12. ASSUME NEW p \in Composes, Gone(p) PROVE TypeOK'
  BY <1>12 DEF Gone, Unlisted, MayAbbreviate, Ends, Forgets
<1>13. ASSUME NEW p \in Composes, AbbreviatedCached(p) PROVE TypeOK'
  BY <1>13 DEF AbbreviatedCached, Unlisted, MayAbbreviate
<1>14. ASSUME NEW p \in Composes, AbbreviatedFetched(p) PROVE TypeOK'
  BY <1>14 DEF AbbreviatedFetched, FetchNext, Unlisted, MayAbbreviate
<1>15. ASSUME NEW p \in Composes, Fetch(p) PROVE TypeOK'
  BY <1>15 DEF Fetch
<1>16. ASSUME NEW p \in Composes, KeepClone(p) PROVE TypeOK'
  BY <1>16 DEF KeepClone, Goes
<1>17. ASSUME NEW p \in Composes, NoWholeClone(p) PROVE TypeOK'
  BY <1>17 DEF NoWholeClone, Goes
<1>18. ASSUME NEW p \in Composes, StatClone(p) PROVE TypeOK'
  BY <1>18 DEF StatClone, Goes
<1>19. ASSUME NEW p \in Composes, MoveAside(p) PROVE TypeOK'
  BY <1>19 DEF MoveAside
<1>20. ASSUME NEW p \in Composes, Place(p) PROVE TypeOK'
  BY <1>20 DEF Place
<1>21. ASSUME NEW p \in Composes, PlaceRefused(p) PROVE TypeOK'
  BY <1>21 DEF PlaceRefused, Goes
<1>22. ASSUME NEW p \in Composes, UseOther(p) PROVE TypeOK'
  BY <1>22 DEF UseOther, Goes
<1>23. ASSUME NEW p \in Composes, WriteRef(p) PROVE TypeOK'
  BY <1>23 DEF WriteRef
<1>24. ASSUME NEW p \in Composes, PutMemo(p) PROVE TypeOK'
  BY <1>24 DEF PutMemo
<1>25. ASSUME NEW p \in Composes, Resolved(p) PROVE TypeOK'
  BY <1>25 DEF Resolved, Forgets
<1>26. ASSUME NEW p \in Composes, Stop(p) PROVE TypeOK'
  BY <1>26 DEF Stop, Ends, Forgets
<1>27. ASSUME NEW p \in Composes, NEW u \in BOOLEAN, NEW c \in MaybeCommit, Start(p, u, c) PROVE TypeOK'
  BY <1>27 DEF Start
<1>28. ASSUME NEW t \in MaybeCommit, NEW b \in MaybeCommit, Push(t, b) PROVE TypeOK'
  BY <1>28 DEF Push
<1>29. CASE UNCHANGED vars
  BY <1>29
<1> HIDE DEF TypeOK, Cloned, Listed, Fetchable
<1> QED
  BY <1>1, <1>2, <1>3, <1>4, <1>5, <1>6, <1>7, <1>8, <1>9, <1>10, <1>11, <1>12, <1>13, <1>14, <1>15,
     <1>16, <1>17, <1>18, <1>19, <1>20, <1>21, <1>22, <1>23, <1>24, <1>25, <1>26, <1>27, <1>28,
     <1>29 DEF Next, Resolve, Land

(* No step leaves a held commit without its clone and unmoved.              *)
LEMMA NextHeld == IInv /\ [Next]_vars => HeldAreGood'
<1> SUFFICES ASSUME IInv, [Next]_vars PROVE HeldAreGood'
  OBVIOUS
<1> USE DEF IInv, TypeOK, HeldAreGood, Good, Cloned
<1>1. ASSUME NEW p \in Composes, MemoAnswers(p) PROVE HeldAreGood'
  BY <1>1 DEF MemoAnswers
<1>2. ASSUME NEW p \in Composes, MemoMisses(p) PROVE HeldAreGood'
  BY <1>2 DEF MemoMisses
<1>3. ASSUME NEW p \in Composes, IdCached(p) PROVE HeldAreGood'
  BY <1>3 DEF IdCached
<1>4. ASSUME NEW p \in Composes, IdMissing(p) PROVE HeldAreGood'
  BY <1>4 DEF IdMissing, FetchNext
<1>5. ASSUME NEW p \in Composes, ReadRef(p) PROVE HeldAreGood'
  BY <1>5 DEF ReadRef, FetchNext
<1>6. ASSUME NEW p \in Composes, KeepTag(p) PROVE HeldAreGood'
  BY <1>6 DEF KeepTag, CachedCommit
<1>7. ASSUME NEW p \in Composes, LookUp(p) PROVE HeldAreGood'
  BY <1>7 DEF LookUp, CachedCommit
<1>8. ASSUME NEW p \in Composes, Answered(p) PROVE HeldAreGood'
  BY <1>8 DEF Answered
<1>9. ASSUME NEW p \in Composes, Unreached(p) PROVE HeldAreGood'
  BY <1>9 DEF Unreached
<1>10. ASSUME NEW p \in Composes, ListedMissing(p) PROVE HeldAreGood'
  BY <1>10 DEF ListedMissing, FetchNext, IsListed
<1>11. ASSUME NEW p \in Composes, ListedCached(p) PROVE HeldAreGood'
  BY <1>11 DEF ListedCached, IsListed
<1>12. ASSUME NEW p \in Composes, Gone(p) PROVE HeldAreGood'
  BY <1>12 DEF Gone, Unlisted, MayAbbreviate, Ends, Forgets
<1>13. ASSUME NEW p \in Composes, AbbreviatedCached(p) PROVE HeldAreGood'
  BY <1>13 DEF AbbreviatedCached, Unlisted, MayAbbreviate
<1>14. ASSUME NEW p \in Composes, AbbreviatedFetched(p) PROVE HeldAreGood'
  BY <1>14 DEF AbbreviatedFetched, FetchNext, Unlisted, MayAbbreviate
<1>15. ASSUME NEW p \in Composes, Fetch(p) PROVE HeldAreGood'
  BY <1>15 DEF Fetch
<1>16. ASSUME NEW p \in Composes, KeepClone(p) PROVE HeldAreGood'
  BY <1>16 DEF KeepClone, Goes
<1>17. ASSUME NEW p \in Composes, NoWholeClone(p) PROVE HeldAreGood'
  BY <1>17 DEF NoWholeClone, Goes
<1>18. ASSUME NEW p \in Composes, StatClone(p) PROVE HeldAreGood'
  BY <1>18 DEF StatClone, Goes
<1>19. ASSUME NEW p \in Composes, MoveAside(p) PROVE HeldAreGood'
  BY <1>19 DEF MoveAside
<1>20. ASSUME NEW p \in Composes, Place(p) PROVE HeldAreGood'
  BY <1>20 DEF Place
<1>21. ASSUME NEW p \in Composes, PlaceRefused(p) PROVE HeldAreGood'
  BY <1>21 DEF PlaceRefused, Goes
<1>22. ASSUME NEW p \in Composes, UseOther(p) PROVE HeldAreGood'
  BY <1>22 DEF UseOther, Goes
<1>23. ASSUME NEW p \in Composes, WriteRef(p) PROVE HeldAreGood'
  BY <1>23 DEF WriteRef
<1>24. ASSUME NEW p \in Composes, PutMemo(p) PROVE HeldAreGood'
  BY <1>24 DEF PutMemo
<1>25. ASSUME NEW p \in Composes, Resolved(p) PROVE HeldAreGood'
  BY <1>25 DEF Resolved, Forgets
<1>26. ASSUME NEW p \in Composes, Stop(p) PROVE HeldAreGood'
  BY <1>26 DEF Stop, Ends, Forgets
<1>27. ASSUME NEW p \in Composes, NEW u \in BOOLEAN, NEW c \in MaybeCommit, Start(p, u, c) PROVE HeldAreGood'
  BY <1>27 DEF Start
<1>28. ASSUME NEW t \in MaybeCommit, NEW b \in MaybeCommit, Push(t, b) PROVE HeldAreGood'
  BY <1>28 DEF Push
<1>29. CASE UNCHANGED vars
  BY <1>29
<1> HIDE DEF IInv, TypeOK, HeldAreGood, Good, Cloned
<1> QED
  BY <1>1, <1>2, <1>3, <1>4, <1>5, <1>6, <1>7, <1>8, <1>9, <1>10, <1>11, <1>12, <1>13, <1>14, <1>15,
     <1>16, <1>17, <1>18, <1>19, <1>20, <1>21, <1>22, <1>23, <1>24, <1>25, <1>26, <1>27, <1>28,
     <1>29 DEF Next, Resolve, Land

(* A memo is asked past only once its clone was moved.                      *)
LEMMA NextMemoLost == IInv /\ [Next]_vars => MemoLost'
<1> SUFFICES ASSUME IInv, [Next]_vars PROVE MemoLost'
  OBVIOUS
<1> USE DEF IInv, TypeOK, HeldAreGood, Good, MemoLost, Resolving, Cloned
<1>1. ASSUME NEW p \in Composes, MemoAnswers(p) PROVE MemoLost'
  BY <1>1 DEF MemoAnswers
<1>2. ASSUME NEW p \in Composes, MemoMisses(p) PROVE MemoLost'
  BY <1>2 DEF MemoMisses
<1>3. ASSUME NEW p \in Composes, IdCached(p) PROVE MemoLost'
  BY <1>3 DEF IdCached
<1>4. ASSUME NEW p \in Composes, IdMissing(p) PROVE MemoLost'
  BY <1>4 DEF IdMissing, FetchNext
<1>5. ASSUME NEW p \in Composes, ReadRef(p) PROVE MemoLost'
  BY <1>5, ReadRefMemo
<1>6. ASSUME NEW p \in Composes, KeepTag(p) PROVE MemoLost'
  BY <1>6 DEF KeepTag, CachedCommit
<1>7. ASSUME NEW p \in Composes, LookUp(p) PROVE MemoLost'
  BY <1>7 DEF LookUp, CachedCommit
<1>8. ASSUME NEW p \in Composes, Answered(p) PROVE MemoLost'
  BY <1>8 DEF Answered
<1>9. ASSUME NEW p \in Composes, Unreached(p) PROVE MemoLost'
  BY <1>9 DEF Unreached
<1>10. ASSUME NEW p \in Composes, ListedMissing(p) PROVE MemoLost'
  BY <1>10 DEF ListedMissing, FetchNext, IsListed
<1>11. ASSUME NEW p \in Composes, ListedCached(p) PROVE MemoLost'
  BY <1>11 DEF ListedCached, IsListed
<1>12. ASSUME NEW p \in Composes, Gone(p) PROVE MemoLost'
  BY <1>12 DEF Gone, Unlisted, MayAbbreviate, Ends, Forgets
<1>13. ASSUME NEW p \in Composes, AbbreviatedCached(p) PROVE MemoLost'
  BY <1>13 DEF AbbreviatedCached, Unlisted, MayAbbreviate
<1>14. ASSUME NEW p \in Composes, AbbreviatedFetched(p) PROVE MemoLost'
  BY <1>14 DEF AbbreviatedFetched, FetchNext, Unlisted, MayAbbreviate
<1>15. ASSUME NEW p \in Composes, Fetch(p) PROVE MemoLost'
  BY <1>15 DEF Fetch
<1>16. ASSUME NEW p \in Composes, KeepClone(p) PROVE MemoLost'
  BY <1>16 DEF KeepClone, Goes
<1>17. ASSUME NEW p \in Composes, NoWholeClone(p) PROVE MemoLost'
  BY <1>17 DEF NoWholeClone, Goes
<1>18. ASSUME NEW p \in Composes, StatClone(p) PROVE MemoLost'
  BY <1>18 DEF StatClone, Goes
<1>19. ASSUME NEW p \in Composes, MoveAside(p) PROVE MemoLost'
  BY <1>19 DEF MoveAside
<1>20. ASSUME NEW p \in Composes, Place(p) PROVE MemoLost'
  BY <1>20 DEF Place
<1>21. ASSUME NEW p \in Composes, PlaceRefused(p) PROVE MemoLost'
  BY <1>21 DEF PlaceRefused, Goes
<1>22. ASSUME NEW p \in Composes, UseOther(p) PROVE MemoLost'
  BY <1>22 DEF UseOther, Goes
<1>23. ASSUME NEW p \in Composes, WriteRef(p) PROVE MemoLost'
  BY <1>23 DEF WriteRef
<1>24. ASSUME NEW p \in Composes, PutMemo(p) PROVE MemoLost'
  BY <1>24 DEF PutMemo
<1>25. ASSUME NEW p \in Composes, Resolved(p) PROVE MemoLost'
  BY <1>25 DEF Resolved, Forgets
<1>26. ASSUME NEW p \in Composes, Stop(p) PROVE MemoLost'
  BY <1>26 DEF Stop, Ends, Forgets
<1>27. ASSUME NEW p \in Composes, NEW u \in BOOLEAN, NEW c \in MaybeCommit, Start(p, u, c) PROVE MemoLost'
  BY <1>27 DEF Start
<1>28. ASSUME NEW t \in MaybeCommit, NEW b \in MaybeCommit, Push(t, b) PROVE MemoLost'
  BY <1>28 DEF Push
<1>29. CASE UNCHANGED vars
  BY <1>29
<1> HIDE DEF IInv, TypeOK, HeldAreGood, Good, MemoLost, Resolving, Cloned
<1> QED
  BY <1>1, <1>2, <1>3, <1>4, <1>5, <1>6, <1>7, <1>8, <1>9, <1>10, <1>11, <1>12, <1>13, <1>14, <1>15,
     <1>16, <1>17, <1>18, <1>19, <1>20, <1>21, <1>22, <1>23, <1>24, <1>25, <1>26, <1>27, <1>28,
     <1>29 DEF Next, Resolve, Land

(* What was asked for stays within what the ref named.                      *)
LEMMA NextAsked == IInv /\ [Next]_vars => AskedSince'
<1> SUFFICES ASSUME IInv, [Next]_vars PROVE AskedSince'
  OBVIOUS
<1> USE DEF IInv, TypeOK, AskedSince, Cloned, Listed, Named, Fetchable
<1>1. ASSUME NEW p \in Composes, MemoAnswers(p) PROVE AskedSince'
  BY <1>1 DEF MemoAnswers
<1>2. ASSUME NEW p \in Composes, MemoMisses(p) PROVE AskedSince'
  BY <1>2 DEF MemoMisses
<1>3. ASSUME NEW p \in Composes, IdCached(p) PROVE AskedSince'
  BY <1>3 DEF IdCached
<1>4. ASSUME NEW p \in Composes, IdMissing(p) PROVE AskedSince'
  BY <1>4 DEF IdMissing, FetchNext
<1>5. ASSUME NEW p \in Composes, ReadRef(p) PROVE AskedSince'
  BY <1>5 DEF ReadRef, FetchNext
<1>6. ASSUME NEW p \in Composes, KeepTag(p) PROVE AskedSince'
  BY <1>6 DEF KeepTag, CachedCommit
<1>7. ASSUME NEW p \in Composes, LookUp(p) PROVE AskedSince'
  BY <1>7 DEF LookUp, CachedCommit
<1>8. ASSUME NEW p \in Composes, Answered(p) PROVE AskedSince'
  BY <1>8 DEF Answered
<1>9. ASSUME NEW p \in Composes, Unreached(p) PROVE AskedSince'
  BY <1>9 DEF Unreached
<1>10. ASSUME NEW p \in Composes, ListedMissing(p) PROVE AskedSince'
  BY <1>10 DEF ListedMissing, FetchNext, IsListed
<1>11. ASSUME NEW p \in Composes, ListedCached(p) PROVE AskedSince'
  BY <1>11 DEF ListedCached, IsListed
<1>12. ASSUME NEW p \in Composes, Gone(p) PROVE AskedSince'
  BY <1>12 DEF Gone, Unlisted, MayAbbreviate, Ends, Forgets
<1>13. ASSUME NEW p \in Composes, AbbreviatedCached(p) PROVE AskedSince'
  BY <1>13 DEF AbbreviatedCached, Unlisted, MayAbbreviate
<1>14. ASSUME NEW p \in Composes, AbbreviatedFetched(p) PROVE AskedSince'
  BY <1>14 DEF AbbreviatedFetched, FetchNext, Unlisted, MayAbbreviate
<1>15. ASSUME NEW p \in Composes, Fetch(p) PROVE AskedSince'
  BY <1>15 DEF Fetch
<1>16. ASSUME NEW p \in Composes, KeepClone(p) PROVE AskedSince'
  BY <1>16 DEF KeepClone, Goes
<1>17. ASSUME NEW p \in Composes, NoWholeClone(p) PROVE AskedSince'
  BY <1>17 DEF NoWholeClone, Goes
<1>18. ASSUME NEW p \in Composes, StatClone(p) PROVE AskedSince'
  BY <1>18 DEF StatClone, Goes
<1>19. ASSUME NEW p \in Composes, MoveAside(p) PROVE AskedSince'
  BY <1>19 DEF MoveAside
<1>20. ASSUME NEW p \in Composes, Place(p) PROVE AskedSince'
  BY <1>20 DEF Place
<1>21. ASSUME NEW p \in Composes, PlaceRefused(p) PROVE AskedSince'
  BY <1>21 DEF PlaceRefused, Goes
<1>22. ASSUME NEW p \in Composes, UseOther(p) PROVE AskedSince'
  BY <1>22 DEF UseOther, Goes
<1>23. ASSUME NEW p \in Composes, WriteRef(p) PROVE AskedSince'
  BY <1>23 DEF WriteRef
<1>24. ASSUME NEW p \in Composes, PutMemo(p) PROVE AskedSince'
  BY <1>24 DEF PutMemo
<1>25. ASSUME NEW p \in Composes, Resolved(p) PROVE AskedSince'
  BY <1>25 DEF Resolved, Forgets
<1>26. ASSUME NEW p \in Composes, Stop(p) PROVE AskedSince'
  BY <1>26 DEF Stop, Ends, Forgets
<1>27. ASSUME NEW p \in Composes, NEW u \in BOOLEAN, NEW c \in MaybeCommit, Start(p, u, c) PROVE AskedSince'
  BY <1>27 DEF Start
<1>28. ASSUME NEW t \in MaybeCommit, NEW b \in MaybeCommit, Push(t, b) PROVE AskedSince'
  BY <1>28 DEF Push
<1>29. CASE UNCHANGED vars
  BY <1>29
<1> HIDE DEF IInv, TypeOK, AskedSince, Cloned, Listed, Named, Fetchable
<1> QED
  BY <1>1, <1>2, <1>3, <1>4, <1>5, <1>6, <1>7, <1>8, <1>9, <1>10, <1>11, <1>12, <1>13, <1>14, <1>15,
     <1>16, <1>17, <1>18, <1>19, <1>20, <1>21, <1>22, <1>23, <1>24, <1>25, <1>26, <1>27, <1>28,
     <1>29 DEF Next, Resolve, Land

(* Each way to a result goes by the remote, or is one that need not.        *)
LEMMA NextFollows == IInv /\ [Next]_vars => FollowsTheRemote'
<1> SUFFICES ASSUME IInv, [Next]_vars PROVE FollowsTheRemote'
  OBVIOUS
<1> USE DEF IInv, TypeOK, AskedSince, FollowsTheRemote, Kept, MayAbbreviate, Cloned
<1>1. ASSUME NEW p \in Composes, MemoAnswers(p) PROVE FollowsTheRemote'
  BY <1>1 DEF MemoAnswers
<1>2. ASSUME NEW p \in Composes, MemoMisses(p) PROVE FollowsTheRemote'
  BY <1>2 DEF MemoMisses
<1>3. ASSUME NEW p \in Composes, IdCached(p) PROVE FollowsTheRemote'
  BY <1>3 DEF IdCached
<1>4. ASSUME NEW p \in Composes, IdMissing(p) PROVE FollowsTheRemote'
  BY <1>4 DEF IdMissing, FetchNext
<1>5. ASSUME NEW p \in Composes, ReadRef(p) PROVE FollowsTheRemote'
  BY <1>5 DEF ReadRef, FetchNext
<1>6. ASSUME NEW p \in Composes, KeepTag(p) PROVE FollowsTheRemote'
  BY <1>6 DEF KeepTag
<1>7. ASSUME NEW p \in Composes, LookUp(p) PROVE FollowsTheRemote'
  BY <1>7 DEF LookUp, CachedCommit
<1>8. ASSUME NEW p \in Composes, Answered(p) PROVE FollowsTheRemote'
  BY <1>8 DEF Answered
<1>9. ASSUME NEW p \in Composes, Unreached(p) PROVE FollowsTheRemote'
  BY <1>9 DEF Unreached
<1>10. ASSUME NEW p \in Composes, ListedMissing(p) PROVE FollowsTheRemote'
  BY <1>10 DEF ListedMissing, FetchNext, IsListed
<1>11. ASSUME NEW p \in Composes, ListedCached(p) PROVE FollowsTheRemote'
  BY <1>11 DEF ListedCached, IsListed
<1>12. ASSUME NEW p \in Composes, Gone(p) PROVE FollowsTheRemote'
  BY <1>12 DEF Gone, Unlisted, MayAbbreviate, Ends, Forgets
<1>13. ASSUME NEW p \in Composes, AbbreviatedCached(p) PROVE FollowsTheRemote'
  BY <1>13 DEF AbbreviatedCached, Unlisted, MayAbbreviate
<1>14. ASSUME NEW p \in Composes, AbbreviatedFetched(p) PROVE FollowsTheRemote'
  BY <1>14 DEF AbbreviatedFetched, FetchNext, Unlisted, MayAbbreviate
<1>15. ASSUME NEW p \in Composes, Fetch(p) PROVE FollowsTheRemote'
  BY <1>15 DEF Fetch
<1>16. ASSUME NEW p \in Composes, KeepClone(p) PROVE FollowsTheRemote'
  BY <1>16 DEF KeepClone, Goes
<1>17. ASSUME NEW p \in Composes, NoWholeClone(p) PROVE FollowsTheRemote'
  BY <1>17 DEF NoWholeClone, Goes
<1>18. ASSUME NEW p \in Composes, StatClone(p) PROVE FollowsTheRemote'
  BY <1>18 DEF StatClone, Goes
<1>19. ASSUME NEW p \in Composes, MoveAside(p) PROVE FollowsTheRemote'
  BY <1>19 DEF MoveAside
<1>20. ASSUME NEW p \in Composes, Place(p) PROVE FollowsTheRemote'
  BY <1>20 DEF Place
<1>21. ASSUME NEW p \in Composes, PlaceRefused(p) PROVE FollowsTheRemote'
  BY <1>21 DEF PlaceRefused, Goes
<1>22. ASSUME NEW p \in Composes, UseOther(p) PROVE FollowsTheRemote'
  BY <1>22 DEF UseOther, Goes
<1>23. ASSUME NEW p \in Composes, WriteRef(p) PROVE FollowsTheRemote'
  BY <1>23 DEF WriteRef
<1>24. ASSUME NEW p \in Composes, PutMemo(p) PROVE FollowsTheRemote'
  BY <1>24 DEF PutMemo
<1>25. ASSUME NEW p \in Composes, Resolved(p) PROVE FollowsTheRemote'
  BY <1>25 DEF Resolved, Forgets
<1>26. ASSUME NEW p \in Composes, Stop(p) PROVE FollowsTheRemote'
  BY <1>26 DEF Stop, Ends, Forgets
<1>27. ASSUME NEW p \in Composes, NEW u \in BOOLEAN, NEW c \in MaybeCommit, Start(p, u, c)
      PROVE FollowsTheRemote'
  BY <1>27 DEF Start
<1>28. ASSUME NEW t \in MaybeCommit, NEW b \in MaybeCommit, Push(t, b) PROVE FollowsTheRemote'
  BY <1>28 DEF Push
<1>29. CASE UNCHANGED vars
  BY <1>29
<1> HIDE DEF IInv, TypeOK, AskedSince, FollowsTheRemote, Kept, MayAbbreviate, Cloned
<1> QED
  BY <1>1, <1>2, <1>3, <1>4, <1>5, <1>6, <1>7, <1>8, <1>9, <1>10, <1>11, <1>12, <1>13, <1>14, <1>15,
     <1>16, <1>17, <1>18, <1>19, <1>20, <1>21, <1>22, <1>23, <1>24, <1>25, <1>26, <1>27, <1>28,
     <1>29 DEF Next, Resolve, Land

(* The invariant is inductive.                                              *)
LEMMA Inductive == Spec => []IInv
<1>1. IInv /\ [Next]_vars => IInv'
  BY NextTypeOK, NextHeld, NextMemoLost, NextAsked, NextFollows DEF IInv
<1> QED
  BY InitIInv, <1>1, PTL DEF Spec

(* Type invariant (source.go's commitOf and fetch).                         *)
THEOREM TypeCorrect == Spec => []TypeOK
<1>1. IInv => TypeOK
  BY DEF IInv
<1> QED
  BY Inductive, <1>1, PTL

(* A clone cut short is never what a resolve lands on (source.go, cloned).  *)
THEOREM ResultsAreWhole == Spec => []NoHalfClone
<1>1. IInv => NoHalfClone
  BY DEF IInv, HeldAreGood, Good, NoHalfClone
<1> QED
  BY Inductive, <1>1, PTL

(* A result without a warning follows the remote (source.go, commitOf).     *)
THEOREM BranchesFollow == Spec => []FollowsTheRemote
<1>1. IInv => FollowsTheRemote
  BY DEF IInv
<1> QED
  BY Inductive, <1>1, PTL

(* A recorded commit has its clone, unless it was moved (writeRef, fetch).  *)
THEOREM RecordsHaveClones == Spec => []RecordedIsCloned
<1>1. IInv => RecordedIsCloned
  BY DEF IInv, HeldAreGood, Good, RecordedIsCloned, Cloned
<1> QED
  BY Inductive, <1>1, PTL

(* One compose lands on one commit, unless its clone was moved (Memo).      *)
THEOREM ComposesAgree == Spec => MemoHolds
<1>1. IInv /\ [Next]_vars =>
        [\A p \in Composes : memo[p] # None /\ memo'[p] \notin {None, memo[p]} => memo[p] \in moved]_vars
  <2> SUFFICES ASSUME IInv, [Next]_vars, NEW q \in Composes, memo[q] # None, memo'[q] \notin {None, memo[q]}
               PROVE  memo[q] \in moved
    OBVIOUS
  <2> USE DEF IInv, TypeOK
  <2>1. ASSUME NEW p \in Composes, PutMemo(p) PROVE memo[q] \in moved
    BY <2>1 DEF PutMemo, MemoLost, Resolving
  <2>2. ASSUME NEW p \in Composes, Resolve(p) PROVE memo'[q] \in {None, memo[q]}
    BY <2>2 DEF Resolve, MemoAnswers, MemoMisses, IdCached, IdMissing, ReadRef, KeepTag, LookUp, Answered,
                Unreached, ListedMissing, ListedCached, Gone, Ends, AbbreviatedCached, AbbreviatedFetched
  <2>3. ASSUME NEW p \in Composes, Land(p), ~PutMemo(p) PROVE memo'[q] = memo[q]
    BY <2>3 DEF Land, Fetch, KeepClone, NoWholeClone, StatClone, MoveAside, Place, PlaceRefused, UseOther,
                WriteRef, Resolved, Goes
  <2>4. ASSUME NEW p \in Composes, Stop(p) PROVE memo'[q] \in {None, memo[q]}
    BY <2>4 DEF Stop, Ends
  <2>5. ASSUME NEW p \in Composes, NEW u \in BOOLEAN, NEW c \in MaybeCommit, Start(p, u, c)
        PROVE  memo'[q] = memo[q]
    BY <2>5 DEF Start
  <2>6. ASSUME NEW t \in MaybeCommit, NEW b \in MaybeCommit, Push(t, b) PROVE memo'[q] = memo[q]
    BY <2>6 DEF Push
  <2> QED
    BY <2>1, <2>2, <2>3, <2>4, <2>5, <2>6 DEF Next
<1> QED
  BY <1>1, Inductive, PTL DEF Spec, MemoHolds
-----------------------------------------------------------------------------
(* The run's own repositories (Fetch): whatever the list, the remotes and   *)
(* the folder, and however often another walled run and the setup's         *)
(* programs write in it.  The invariant: the folder is held from the look   *)
(* at the keys to the last clone, no walled run is in it while it is, so    *)
(* what was looked at is as it was found; and the list was taken, and is    *)
(* fetched in order.                                                        *)

Fetching == {"remote", "fetch", "keep", "exclude", "clone"}
Fetched == {"fetched", "copied", "status", "recorded"}
FetchSteps == {"list", "tree", "init", "making", "files", "hold", "keys", "top"} \cup Fetching \cup Fetched
              \cup {"nothing", "refused", "failed"}
FetchTypeOK ==
  /\ job \in F!JobType /\ folder \in F!FolderType /\ step \in FetchSteps
  /\ walled \in BOOLEAN /\ hold \in BOOLEAN /\ at \in Nat
  /\ DOMAIN clones = DOMAIN job.paths /\ DOMAIN remotes = DOMAIN job.paths
  /\ \A i \in DOMAIN remotes : remotes[i].qory \in F!AtQory

(* While the run holds the folder no walled run is in it, and it holds it   *)
(* from its look at the keys on.                                            *)
HoldInv ==
  /\ hold => ~walled
  /\ step \in {"making", "keys", "top"} \cup Fetching => hold

(* What was looked at under the hold is as it was found.                    *)
CleanInv ==
  /\ step \in {"top"} \cup Fetching => F!gitFiles(folder) /\ F!keysIn(folder.keys, TRUE)
  /\ step \in Fetching => F!gitParts(folder) /\ ~folder.commits
  /\ step = "status" => F!keysIn(private, TRUE)

(* The list was taken, and what was fetched of it so far.                   *)
Taken == step \notin {"list", "nothing", "refused"} => F!Check(job) /\ F!TargetTaken(job) /\ job.paths # <<>>
RunsOwn == step \in {"keep", "exclude", "clone"} \cup Fetched => clones[1] = F!Wanted(1)
Keeping == /\ step \in {"exclude", "clone"} => folder.qory \in {F!Absent, "dir"}
           /\ step \in {"keep", "exclude", "clone"} => F!Further # {}
           /\ step = "clone" => folder.excluded = TRUE
Cloning == step = "clone" => at \in F!Further /\ \A i \in F!Further : i < at => clones[i] = "tip"
AllCloned == step \in Fetched => \A i \in F!Further : clones[i] = "tip"
AllKept == step \in Fetched /\ F!Further # {} => folder.excluded = TRUE /\ folder.qory \in {F!Absent, "dir"}
ListedInv == Taken /\ RunsOwn /\ Keeping /\ Cloning /\ AllCloned /\ AllKept

(* The inductive invariant of the fetch.                                   *)
FetchInv == FetchTypeOK /\ HoldInv /\ CleanInv /\ ListedInv
-----------------------------------------------------------------------------
(* No further repository's folder is the folder of another one, or above    *)
(* it, whatever the list that Check took.                                   *)
LEMMA Apart ==
  ASSUME job \in F!JobType, F!Check(job), NEW i \in F!Further, NEW k \in F!Further \ {i},
         NEW n \in 0 .. Len(job.paths[i])
  PROVE  F!Folded(job.github, SubSeq(job.paths[i], 1, n)) # F!Folded(job.github, job.paths[k])
<1> SUFFICES ASSUME F!Folded(job.github, SubSeq(job.paths[i], 1, n)) = F!Folded(job.github, job.paths[k]) PROVE FALSE
  OBVIOUS
<1> DEFINE p == job.paths[i]
           q == job.paths[k]
<1>1. /\ job.paths \in Seq(F!Path) /\ job.github \in BOOLEAN /\ Len(job.paths) \in Nat
      /\ i \in 2 .. Len(job.paths) /\ k \in 2 .. Len(job.paths) /\ p \in F!Path /\ q \in F!Path
  BY DEF F!JobType, F!Further, F!Path
<1> HIDE DEF p, q
<1>2. Len(p) \in Nat /\ Len(q) \in Nat /\ DOMAIN p = 1 .. Len(p) /\ DOMAIN q = 1 .. Len(q)
  BY <1>1 DEF F!Path
<1>3. SubSeq(p, 1, n) \in F!Path /\ DOMAIN SubSeq(p, 1, n) = 1 .. n
  BY <1>1, <1>2 DEF F!Path, p
<1> USE DEF p, q
<1>4. n = Len(q)
  <2>1. DOMAIN F!Folded(job.github, SubSeq(p, 1, n)) = 1 .. n
    BY <1>3 DEF F!Folded
  <2>2. DOMAIN F!Folded(job.github, q) = 1 .. Len(q)
    BY <1>2 DEF F!Folded
  <2> QED
    BY <1>2, <2>1, <2>2
<1>5. ~F!sameRepository(job.github, p, q) /\ ~F!inside(job.github, p, q)
  <2>1. CASE k < i
    BY <1>1, <2>1 DEF F!Check, F!sameRepository
  <2>2. CASE i < k
    BY <1>1, <2>2 DEF F!Check, F!sameRepository
  <2> QED
    BY <1>1, <2>1, <2>2
<1>6. CASE n = Len(p)
  <2>1. SubSeq(p, 1, n) = p
    BY <1>1, <1>2, <1>6 DEF F!Path
  <2> QED
    BY <1>5, <2>1 DEF F!sameRepository
<1>7. CASE n # Len(p)
  BY <1>2, <1>4, <1>5, <1>7 DEF F!inside, F!sameRepository
<1> QED
  BY <1>6, <1>7
-----------------------------------------------------------------------------
(* The first state is in the invariant.                                     *)
LEMMA InitFetchInv == F!FetchAssumption /\ F!Init => FetchInv
<1> SUFFICES ASSUME F!FetchAssumption, F!Init PROVE FetchInv
  OBVIOUS
<1>1. job \in F!JobType /\ folder \in F!FolderType
  BY DEF F!Init, F!FetchAssumption
<1>2. /\ DOMAIN clones = DOMAIN job.paths /\ DOMAIN remotes = DOMAIN job.paths
      /\ \A i \in DOMAIN remotes : remotes[i].qory \in F!AtQory
  <2>1. PICK first \in F!Remotes, further \in Heads :
          remotes = [i \in DOMAIN job.paths |->
                       IF i = 1 THEN first ELSE [head |-> further, serves |-> TRUE, qory |-> F!Absent]]
    BY DEF F!Init
  <2>2. first.qory \in F!AtQory
    BY DEF F!Remotes, F!AtQory
  <2>3. \A i \in DOMAIN remotes : remotes[i].qory \in F!AtQory
    BY <2>1, <2>2 DEF F!Absent, F!AtQory
  <2> QED
    BY <2>1, <2>3 DEF F!Init
<1>3. /\ step \in FetchSteps /\ walled \in BOOLEAN /\ hold \in BOOLEAN /\ at \in Nat
  BY DEF F!Init, FetchSteps
<1>4. HoldInv /\ CleanInv /\ ListedInv
  BY DEF F!Init, HoldInv, CleanInv, ListedInv, Taken, RunsOwn, Keeping, Cloning, AllCloned, AllKept,
     Fetching, Fetched
<1> QED
  BY <1>1, <1>2, <1>3, <1>4 DEF FetchInv, FetchTypeOK

(* One change of a folder leaves it a folder.                               *)
LEMMA OneChange ==
  ASSUME NEW f \in F!FolderType
  PROVE  /\ \A K \in SUBSET F!KeyNames : [f EXCEPT !.keys = K] \in F!FolderType
         /\ \A q \in F!AtQory : [f EXCEPT !.qory = q] \in F!FolderType
         /\ [f EXCEPT !.links = TRUE] \in F!FolderType /\ [f EXCEPT !.parts = TRUE] \in F!FolderType
         /\ [f EXCEPT !.parts = FALSE] \in F!FolderType /\ [f EXCEPT !.commits = TRUE] \in F!FolderType
         /\ [f EXCEPT !.entries = TRUE] \in F!FolderType /\ [f EXCEPT !.excluded = TRUE] \in F!FolderType
         /\ [f EXCEPT !.git = "dir"] \in F!FolderType
  BY DEF F!FolderType

(* What another program writes, and what git writes, is a folder.           *)
LEMMA GitInitStays ==
  ASSUME folder \in F!FolderType
  PROVE  /\ F!GitInit(folder) \in F!FolderType
         /\ F!GitInit(folder).qory = folder.qory /\ F!GitInit(folder).excluded = folder.excluded
<1>1. F!GitInit(folder) = [[[folder EXCEPT !.git = "dir"] EXCEPT !.parts = TRUE] EXCEPT !.keys = {"init"}]
  BY DEF F!GitInit
<1>2. {"init"} \in SUBSET F!KeyNames
  BY DEF F!KeyNames
<1>3. [folder EXCEPT !.git = "dir"] \in F!FolderType
  BY OneChange, <1>2
<1>4. [[folder EXCEPT !.git = "dir"] EXCEPT !.parts = TRUE] \in F!FolderType
  BY OneChange, <1>2, <1>3
<1>5. [[[folder EXCEPT !.git = "dir"] EXCEPT !.parts = TRUE] EXCEPT !.keys = {"init"}] \in F!FolderType
  BY OneChange, <1>2, <1>4
<1>6. F!GitInit(folder) \in F!FolderType
  BY <1>1, <1>5
<1> QED
  BY <1>6 DEF F!FolderType, F!GitInit

(* A folder stays a folder when the step writes to it.                      *)
LEMMA FoldersStay ==
  ASSUME folder \in F!FolderType
  PROVE  /\ [folder EXCEPT !.keys = @ \cup F!FetchKeys] \in F!FolderType
         /\ [folder EXCEPT !.excluded = TRUE] \in F!FolderType
         /\ \A q \in F!AtQory : [folder EXCEPT !.qory = q] \in F!FolderType
<1>1. folder.keys \cup F!FetchKeys \in SUBSET F!KeyNames
  BY DEF F!FolderType, F!FetchKeys, F!KeyNames
<1>3. [folder EXCEPT !.keys = folder.keys \cup F!FetchKeys] \in F!FolderType
  BY <1>1, OneChange
<1>4. [folder EXCEPT !.excluded = TRUE] \in F!FolderType /\ \A q \in F!AtQory : [folder EXCEPT !.qory = q] \in F!FolderType
  BY DEF F!FolderType
<1> QED
  BY <1>3, <1>4

(* What programs write leaves the folder's .qory and its exclude line.      *)
LEMMA WritesStay ==
  ASSUME folder \in F!FolderType, NEW f \in F!Writes(folder)
  PROVE  f \in F!FolderType /\ f.qory = folder.qory /\ f.excluded = folder.excluded
<1>a. /\ folder.keys \cup {"other"} \in SUBSET F!KeyNames /\ folder.keys \cup {"remote"} \in SUBSET F!KeyNames
      /\ {"init", "other"} \in SUBSET F!KeyNames
  BY DEF F!FolderType, F!KeyNames
<1>b. F!GitInit(folder) \in F!FolderType
  BY GitInitStays
<1>1. CASE f = [folder EXCEPT !.entries = TRUE]
  <2>1. f \in F!FolderType
    BY <1>1, <1>a, OneChange
  <2> QED
    BY <1>1, <2>1 DEF F!FolderType
<1>2. CASE f = F!GitInit(folder)
  BY <1>2, GitInitStays
<1>3. CASE f = [F!GitInit(folder) EXCEPT !.keys = {"init", "other"}]
  <2>1. f \in F!FolderType
    BY <1>3, <1>a, <1>b, OneChange
  <2>2. f.qory = F!GitInit(folder).qory /\ f.excluded = F!GitInit(folder).excluded
    BY <1>3, <1>b DEF F!FolderType
  <2> QED
    BY <2>1, <2>2, GitInitStays
<1>4. CASE f = [folder EXCEPT !.links = TRUE]
  <2>1. f \in F!FolderType
    BY <1>4, <1>a, OneChange
  <2> QED
    BY <1>4, <2>1 DEF F!FolderType
<1>5. CASE f = [folder EXCEPT !.parts = FALSE]
  <2>1. f \in F!FolderType
    BY <1>5, <1>a, OneChange
  <2> QED
    BY <1>5, <2>1 DEF F!FolderType
<1>6. CASE f = [folder EXCEPT !.commits = TRUE]
  <2>1. f \in F!FolderType
    BY <1>6, <1>a, OneChange
  <2> QED
    BY <1>6, <2>1 DEF F!FolderType
<1>7. CASE f = [folder EXCEPT !.keys = @ \cup {"other"}]
  <2>1. f \in F!FolderType
    BY <1>7, <1>a, OneChange
  <2> QED
    BY <1>7, <2>1 DEF F!FolderType
<1>8. CASE f = [folder EXCEPT !.keys = @ \cup {"remote"}]
  <2>1. f \in F!FolderType
    BY <1>8, <1>a, OneChange
  <2> QED
    BY <1>8, <2>1 DEF F!FolderType
<1> QED
  BY <1>1, <1>2, <1>3, <1>4, <1>5, <1>6, <1>7, <1>8 DEF F!Writes

(* Every step keeps the job, and the folder a folder.                       *)
LEMMA NextFolder ==
  ASSUME FetchTypeOK, Taken, [F!Next]_(F!vars)
  PROVE  job' = job /\ remotes' = remotes /\ folder' \in F!FolderType
<1> USE DEF FetchTypeOK, F!Goes, F!Stop, F!Same
<1>1. CASE F!TakesList
  BY <1>1 DEF F!TakesList
<1>2. CASE F!ReadsTree
  BY <1>2 DEF F!ReadsTree
<1>3. CASE F!HoldsForInit
  BY <1>3 DEF F!HoldsForInit
<1>4. CASE F!initFolder
  BY <1>4, GitInitStays, FoldersStay, WritesStay DEF F!initFolder
<1>5. CASE F!ChecksFiles
  BY <1>5 DEF F!ChecksFiles
<1>6. CASE F!TakesHold
  BY <1>6 DEF F!TakesHold
<1>7. CASE F!ChecksKeys
  BY <1>7 DEF F!ChecksKeys
<1>8. CASE F!ReadsTop
  BY <1>8 DEF F!ReadsTop
<1>9. CASE F!AddsRemote
  BY <1>9, GitInitStays, FoldersStay, WritesStay DEF F!AddsRemote
<1>10. CASE F!FetchesRun
  <2>1. step = "fetch" /\ Taken => remotes[1].qory \in F!AtQory
    <3>1. job.paths # <<>> => 1 \in DOMAIN job.paths
      BY DEF F!JobType
    <3> QED
      BY <3>1 DEF Taken
  <2> QED
    BY <1>10, <2>1, FoldersStay DEF F!FetchesRun
<1>11. CASE F!keepRepositories
  BY <1>11 DEF F!keepRepositories
<1>12. CASE F!exclude
  BY <1>12, GitInitStays, FoldersStay, WritesStay DEF F!exclude
<1>13. CASE F!Clones
  BY <1>13 DEF F!Clones
<1>14. CASE F!GitFails
  BY <1>14 DEF F!GitFails
<1>15. CASE F!privateGitDir
  BY <1>15 DEF F!privateGitDir
<1>16. CASE F!ChecksCopies
  BY <1>16 DEF F!ChecksCopies
<1>17. CASE F!setupPaths
  BY <1>17 DEF F!setupPaths
<1>18. CASE F!WalledStarts
  BY <1>18 DEF F!WalledStarts
<1>19. CASE F!WalledEnds
  BY <1>19 DEF F!WalledEnds
<1>20. CASE F!OthersWrite
  BY <1>20, GitInitStays, FoldersStay, WritesStay DEF F!OthersWrite
<1>21. CASE UNCHANGED F!vars
  BY <1>21 DEF F!vars
<1> QED
  BY <1>1, <1>2, <1>3, <1>4, <1>5, <1>6, <1>7, <1>8, <1>9, <1>10, <1>11, <1>12, <1>13, <1>14,
     <1>15, <1>16, <1>17, <1>18, <1>19, <1>20, <1>21 DEF F!Next, F!vars

(* Every step is to a step of the fetch, and keeps the other types.         *)
LEMMA NextFetchRest ==
  ASSUME FetchTypeOK, [F!Next]_(F!vars)
  PROVE  /\ step' \in FetchSteps /\ walled' \in BOOLEAN /\ hold' \in BOOLEAN
         /\ at' \in Nat /\ DOMAIN clones' = DOMAIN clones
<1> USE DEF FetchTypeOK, FetchSteps, Fetching, Fetched, F!Goes, F!Stop, F!Same
<1>1. CASE F!TakesList
  BY <1>1 DEF F!TakesList
<1>2. CASE F!ReadsTree
  BY <1>2 DEF F!ReadsTree
<1>3. CASE F!HoldsForInit
  BY <1>3 DEF F!HoldsForInit
<1>4. CASE F!initFolder
  BY <1>4 DEF F!initFolder
<1>5. CASE F!ChecksFiles
  BY <1>5 DEF F!ChecksFiles
<1>6. CASE F!TakesHold
  BY <1>6 DEF F!TakesHold
<1>7. CASE F!ChecksKeys
  BY <1>7 DEF F!ChecksKeys
<1>8. CASE F!ReadsTop
  BY <1>8 DEF F!ReadsTop
<1>9. CASE F!AddsRemote
  BY <1>9 DEF F!AddsRemote
<1>10. CASE F!FetchesRun
  BY <1>10 DEF F!FetchesRun
<1>11. CASE F!keepRepositories
  BY <1>11 DEF F!keepRepositories
<1>12. CASE F!exclude
  BY <1>12 DEF F!exclude
<1>13. CASE F!Clones
  <2>1. step' \in FetchSteps /\ walled' \in BOOLEAN /\ hold' \in BOOLEAN
    BY <1>13 DEF F!Clones
  <2>2. at' \in Nat
    BY <1>13 DEF F!Clones
  <2>3. DOMAIN clones' = DOMAIN clones
    <3> HIDE DEF FetchTypeOK
    <3> QED
      BY <1>13 DEF F!Clones
  <2> QED
    BY <2>1, <2>2, <2>3
<1>14. CASE F!GitFails
  BY <1>14 DEF F!GitFails
<1>15. CASE F!privateGitDir
  BY <1>15 DEF F!privateGitDir
<1>16. CASE F!ChecksCopies
  BY <1>16 DEF F!ChecksCopies
<1>17. CASE F!setupPaths
  BY <1>17 DEF F!setupPaths
<1>18. CASE F!WalledStarts
  BY <1>18 DEF F!WalledStarts
<1>19. CASE F!WalledEnds
  BY <1>19 DEF F!WalledEnds
<1>20. CASE F!OthersWrite
  BY <1>20 DEF F!OthersWrite
<1>21. CASE UNCHANGED F!vars
  BY <1>21 DEF F!vars
<1> QED
  BY <1>1, <1>2, <1>3, <1>4, <1>5, <1>6, <1>7, <1>8, <1>9, <1>10, <1>11, <1>12, <1>13, <1>14,
     <1>15, <1>16, <1>17, <1>18, <1>19, <1>20, <1>21 DEF F!Next, F!vars

(* Every step keeps the hold.                                               *)
LEMMA NextHoldInv ==
  ASSUME FetchTypeOK, HoldInv, [F!Next]_(F!vars)
  PROVE  HoldInv'
<1> USE DEF HoldInv, Fetching, F!Holds, F!Goes, F!Stop, F!Same
<1>1. CASE F!TakesList
  BY <1>1 DEF F!TakesList
<1>2. CASE F!ReadsTree
  BY <1>2 DEF F!ReadsTree
<1>3. CASE F!HoldsForInit
  BY <1>3 DEF F!HoldsForInit
<1>4. CASE F!initFolder
  BY <1>4 DEF F!initFolder
<1>5. CASE F!ChecksFiles
  BY <1>5 DEF F!ChecksFiles
<1>6. CASE F!TakesHold
  BY <1>6 DEF F!TakesHold
<1>7. CASE F!ChecksKeys
  BY <1>7 DEF F!ChecksKeys
<1>8. CASE F!ReadsTop
  BY <1>8 DEF F!ReadsTop
<1>9. CASE F!AddsRemote
  BY <1>9 DEF F!AddsRemote
<1>10. CASE F!FetchesRun
  BY <1>10 DEF F!FetchesRun
<1>11. CASE F!keepRepositories
  BY <1>11 DEF F!keepRepositories
<1>12. CASE F!exclude
  BY <1>12 DEF F!exclude
<1>13. CASE F!Clones
  BY <1>13 DEF F!Clones
<1>14. CASE F!GitFails
  BY <1>14 DEF F!GitFails
<1>15. CASE F!privateGitDir
  BY <1>15 DEF F!privateGitDir
<1>16. CASE F!ChecksCopies
  BY <1>16 DEF F!ChecksCopies
<1>17. CASE F!setupPaths
  BY <1>17 DEF F!setupPaths
<1>18. CASE F!WalledStarts
  BY <1>18 DEF F!WalledStarts
<1>19. CASE F!WalledEnds
  BY <1>19 DEF F!WalledEnds
<1>20. CASE F!OthersWrite
  BY <1>20 DEF F!OthersWrite
<1>21. CASE UNCHANGED F!vars
  BY <1>21 DEF F!vars
<1> QED
  BY <1>1, <1>2, <1>3, <1>4, <1>5, <1>6, <1>7, <1>8, <1>9, <1>10, <1>11, <1>12, <1>13, <1>14,
     <1>15, <1>16, <1>17, <1>18, <1>19, <1>20, <1>21 DEF F!Next, F!vars

(* Every step keeps what was looked at.                                     *)
LEMMA NextCleanInv ==
  ASSUME FetchTypeOK, HoldInv, CleanInv, [F!Next]_(F!vars)
  PROVE  CleanInv'
<1> USE DEF CleanInv, HoldInv, Fetching, F!Goes, F!Stop, F!Same
<1>1. CASE F!TakesList
  BY <1>1 DEF F!TakesList
<1>2. CASE F!ReadsTree
  BY <1>2 DEF F!ReadsTree
<1>3. CASE F!HoldsForInit
  BY <1>3 DEF F!HoldsForInit
<1>4. CASE F!initFolder
  BY <1>4 DEF F!initFolder
<1>5. CASE F!ChecksFiles
  BY <1>5 DEF F!ChecksFiles
<1>6. CASE F!TakesHold
  BY <1>6 DEF F!TakesHold
<1>7. CASE F!ChecksKeys
  BY <1>7 DEF F!ChecksKeys, F!UnderHold, F!keysOf, F!gitFiles, F!Unsafe, F!keysIn, F!FetchKeys
<1>8. CASE F!ReadsTop
  BY <1>8 DEF F!ReadsTop, F!gitFiles, F!Unsafe, F!keysIn, F!FetchKeys
<1>9. CASE F!AddsRemote
  BY <1>9 DEF F!AddsRemote, F!gitFiles, F!Unsafe, F!gitParts, F!keysIn, F!FetchKeys, F!FolderType, FetchTypeOK
<1>10. CASE F!FetchesRun
  BY <1>10 DEF F!FetchesRun, F!gitFiles, F!Unsafe, F!gitParts, F!FolderType, FetchTypeOK
<1>11. CASE F!keepRepositories
  BY <1>11 DEF F!keepRepositories
<1>12. CASE F!exclude
  BY <1>12 DEF F!exclude, F!gitFiles, F!Unsafe, F!gitParts, F!FolderType, FetchTypeOK
<1>13. CASE F!Clones
  BY <1>13 DEF F!Clones
<1>14. CASE F!GitFails
  BY <1>14 DEF F!GitFails
<1>15. CASE F!privateGitDir
  BY <1>15 DEF F!privateGitDir
<1>16. CASE F!ChecksCopies
  BY <1>16 DEF F!ChecksCopies
<1>17. CASE F!setupPaths
  BY <1>17 DEF F!setupPaths
<1>18. CASE F!WalledStarts
  BY <1>18 DEF F!WalledStarts
<1>19. CASE F!WalledEnds
  BY <1>19 DEF F!WalledEnds
<1>20. CASE F!OthersWrite
  BY <1>20 DEF F!OthersWrite
<1>21. CASE UNCHANGED F!vars
  BY <1>21 DEF F!vars
<1> QED
  BY <1>1, <1>2, <1>3, <1>4, <1>5, <1>6, <1>7, <1>8, <1>9, <1>10, <1>11, <1>12, <1>13, <1>14,
     <1>15, <1>16, <1>17, <1>18, <1>19, <1>20, <1>21 DEF F!Next, F!vars

(* Every step keeps the list taken.                                         *)
LEMMA NextTaken ==
  ASSUME FetchTypeOK, Taken, [F!Next]_(F!vars)
  PROVE  Taken'
<1> USE DEF Taken, F!Goes, F!Stop, F!Same
<1>1. CASE F!TakesList
  BY <1>1 DEF F!TakesList
<1>2. CASE F!ReadsTree
  BY <1>2 DEF F!ReadsTree
<1>3. CASE F!HoldsForInit
  BY <1>3 DEF F!HoldsForInit
<1>4. CASE F!initFolder
  BY <1>4 DEF F!initFolder
<1>5. CASE F!ChecksFiles
  BY <1>5 DEF F!ChecksFiles
<1>6. CASE F!TakesHold
  BY <1>6 DEF F!TakesHold
<1>7. CASE F!ChecksKeys
  BY <1>7 DEF F!ChecksKeys
<1>8. CASE F!ReadsTop
  BY <1>8 DEF F!ReadsTop
<1>9. CASE F!AddsRemote
  BY <1>9 DEF F!AddsRemote
<1>10. CASE F!FetchesRun
  BY <1>10 DEF F!FetchesRun
<1>11. CASE F!keepRepositories
  BY <1>11 DEF F!keepRepositories
<1>12. CASE F!exclude
  BY <1>12 DEF F!exclude
<1>13. CASE F!Clones
  BY <1>13 DEF F!Clones
<1>14. CASE F!GitFails
  BY <1>14 DEF F!GitFails, F!Final
<1>15. CASE F!privateGitDir
  BY <1>15 DEF F!privateGitDir
<1>16. CASE F!ChecksCopies
  BY <1>16 DEF F!ChecksCopies
<1>17. CASE F!setupPaths
  BY <1>17 DEF F!setupPaths
<1>18. CASE F!WalledStarts
  BY <1>18 DEF F!WalledStarts
<1>19. CASE F!WalledEnds
  BY <1>19 DEF F!WalledEnds
<1>20. CASE F!OthersWrite
  BY <1>20 DEF F!OthersWrite
<1>21. CASE UNCHANGED F!vars
  BY <1>21 DEF F!vars
<1> QED
  BY <1>1, <1>2, <1>3, <1>4, <1>5, <1>6, <1>7, <1>8, <1>9, <1>10, <1>11, <1>12, <1>13, <1>14,
     <1>15, <1>16, <1>17, <1>18, <1>19, <1>20, <1>21 DEF F!Next, F!vars

(* Every step keeps the run's own repository fetched.                       *)
LEMMA NextRunsOwn ==
  ASSUME FetchTypeOK, Taken, RunsOwn, Cloning, [F!Next]_(F!vars)
  PROVE  RunsOwn'
<1> USE DEF RunsOwn, Fetched, F!Wanted, F!Goes, F!Stop, F!Same
<1>1. CASE F!TakesList
  BY <1>1 DEF F!TakesList
<1>2. CASE F!ReadsTree
  BY <1>2 DEF F!ReadsTree
<1>3. CASE F!HoldsForInit
  BY <1>3 DEF F!HoldsForInit
<1>4. CASE F!initFolder
  BY <1>4 DEF F!initFolder
<1>5. CASE F!ChecksFiles
  BY <1>5 DEF F!ChecksFiles
<1>6. CASE F!TakesHold
  BY <1>6 DEF F!TakesHold
<1>7. CASE F!ChecksKeys
  BY <1>7 DEF F!ChecksKeys
<1>8. CASE F!ReadsTop
  BY <1>8 DEF F!ReadsTop
<1>9. CASE F!AddsRemote
  BY <1>9 DEF F!AddsRemote
<1>10. CASE F!FetchesRun
  BY <1>10 DEF F!FetchesRun, FetchTypeOK, Taken, F!JobType
<1>11. CASE F!keepRepositories
  BY <1>11 DEF F!keepRepositories
<1>12. CASE F!exclude
  BY <1>12 DEF F!exclude
<1>13. CASE F!Clones
  <2>1. step = "clone" /\ at \in DOMAIN clones /\ at # 1
    BY <1>13 DEF F!Clones, Cloning, FetchTypeOK, F!Further
  <2>2. 1 \in DOMAIN clones
    BY <2>1 DEF FetchTypeOK, F!JobType
  <2>3. job' = job /\ (clones' = clones \/ clones' = [clones EXCEPT ![at] = F!Wanted(at)])
    BY <1>13 DEF F!Clones
  <2>4. clones'[1] = clones[1]
    <3> HIDE DEF F!Wanted
    <3> QED
      BY <2>1, <2>2, <2>3
  <2> QED
    BY <2>1, <2>3, <2>4
<1>14. CASE F!GitFails
  BY <1>14 DEF F!GitFails
<1>15. CASE F!privateGitDir
  BY <1>15 DEF F!privateGitDir
<1>16. CASE F!ChecksCopies
  BY <1>16 DEF F!ChecksCopies
<1>17. CASE F!setupPaths
  BY <1>17 DEF F!setupPaths
<1>18. CASE F!WalledStarts
  BY <1>18 DEF F!WalledStarts
<1>19. CASE F!WalledEnds
  BY <1>19 DEF F!WalledEnds
<1>20. CASE F!OthersWrite
  BY <1>20 DEF F!OthersWrite
<1>21. CASE UNCHANGED F!vars
  BY <1>21 DEF F!vars
<1> QED
  BY <1>1, <1>2, <1>3, <1>4, <1>5, <1>6, <1>7, <1>8, <1>9, <1>10, <1>11, <1>12, <1>13, <1>14,
     <1>15, <1>16, <1>17, <1>18, <1>19, <1>20, <1>21 DEF F!Next, F!vars

(* Every step keeps the folders of the further ones.                        *)
LEMMA NextKeeping ==
  ASSUME FetchTypeOK, HoldInv, Keeping, [F!Next]_(F!vars)
  PROVE  Keeping'
<1> USE DEF Keeping, F!Further, F!Goes, F!Stop, F!Same
<1>1. CASE F!TakesList
  BY <1>1 DEF F!TakesList
<1>2. CASE F!ReadsTree
  BY <1>2 DEF F!ReadsTree
<1>3. CASE F!HoldsForInit
  BY <1>3 DEF F!HoldsForInit
<1>4. CASE F!initFolder
  BY <1>4 DEF F!initFolder
<1>5. CASE F!ChecksFiles
  BY <1>5 DEF F!ChecksFiles
<1>6. CASE F!TakesHold
  BY <1>6 DEF F!TakesHold
<1>7. CASE F!ChecksKeys
  BY <1>7 DEF F!ChecksKeys
<1>8. CASE F!ReadsTop
  BY <1>8 DEF F!ReadsTop
<1>9. CASE F!AddsRemote
  BY <1>9 DEF F!AddsRemote
<1>10. CASE F!FetchesRun
  BY <1>10 DEF F!FetchesRun
<1>11. CASE F!keepRepositories
  BY <1>11 DEF F!keepRepositories
<1>12. CASE F!exclude
  BY <1>12 DEF F!exclude, FetchTypeOK, F!FolderType
<1>13. CASE F!Clones
  BY <1>13 DEF F!Clones
<1>14. CASE F!GitFails
  BY <1>14 DEF F!GitFails
<1>15. CASE F!privateGitDir
  BY <1>15 DEF F!privateGitDir
<1>16. CASE F!ChecksCopies
  BY <1>16 DEF F!ChecksCopies
<1>17. CASE F!setupPaths
  BY <1>17 DEF F!setupPaths
<1>18. CASE F!WalledStarts
  BY <1>18 DEF F!WalledStarts
<1>19. CASE F!WalledEnds
  BY <1>19 DEF F!WalledEnds
<1>20. CASE F!OthersWrite
  BY <1>20 DEF F!OthersWrite, HoldInv, Fetching
<1>21. CASE UNCHANGED F!vars
  BY <1>21 DEF F!vars
<1> QED
  BY <1>1, <1>2, <1>3, <1>4, <1>5, <1>6, <1>7, <1>8, <1>9, <1>10, <1>11, <1>12, <1>13, <1>14,
     <1>15, <1>16, <1>17, <1>18, <1>19, <1>20, <1>21 DEF F!Next, F!vars

(* Every step keeps the further ones cloned in their order.                 *)
LEMMA NextCloning ==
  ASSUME FetchTypeOK, Keeping, Cloning, [F!Next]_(F!vars)
  PROVE  Cloning'
<1> USE DEF Cloning, F!Further, F!Goes, F!Stop, F!Same
<1>1. CASE F!TakesList
  BY <1>1 DEF F!TakesList
<1>2. CASE F!ReadsTree
  BY <1>2 DEF F!ReadsTree
<1>3. CASE F!HoldsForInit
  BY <1>3 DEF F!HoldsForInit
<1>4. CASE F!initFolder
  BY <1>4 DEF F!initFolder
<1>5. CASE F!ChecksFiles
  BY <1>5 DEF F!ChecksFiles
<1>6. CASE F!TakesHold
  BY <1>6 DEF F!TakesHold
<1>7. CASE F!ChecksKeys
  BY <1>7 DEF F!ChecksKeys
<1>8. CASE F!ReadsTop
  BY <1>8 DEF F!ReadsTop
<1>9. CASE F!AddsRemote
  BY <1>9 DEF F!AddsRemote
<1>10. CASE F!FetchesRun
  BY <1>10 DEF F!FetchesRun
<1>11. CASE F!keepRepositories
  BY <1>11 DEF F!keepRepositories
<1>12. CASE F!exclude
  BY <1>12 DEF F!exclude, Keeping, FetchTypeOK, F!JobType
<1>13. CASE F!Clones
  BY <1>13 DEF F!Clones, FetchTypeOK, F!JobType, F!Wanted
<1>14. CASE F!GitFails
  BY <1>14 DEF F!GitFails
<1>15. CASE F!privateGitDir
  BY <1>15 DEF F!privateGitDir
<1>16. CASE F!ChecksCopies
  BY <1>16 DEF F!ChecksCopies
<1>17. CASE F!setupPaths
  BY <1>17 DEF F!setupPaths
<1>18. CASE F!WalledStarts
  BY <1>18 DEF F!WalledStarts
<1>19. CASE F!WalledEnds
  BY <1>19 DEF F!WalledEnds
<1>20. CASE F!OthersWrite
  BY <1>20 DEF F!OthersWrite
<1>21. CASE UNCHANGED F!vars
  BY <1>21 DEF F!vars
<1> QED
  BY <1>1, <1>2, <1>3, <1>4, <1>5, <1>6, <1>7, <1>8, <1>9, <1>10, <1>11, <1>12, <1>13, <1>14,
     <1>15, <1>16, <1>17, <1>18, <1>19, <1>20, <1>21 DEF F!Next, F!vars

(* Every step keeps all cloned.                                             *)
LEMMA NextAllCloned ==
  ASSUME FetchTypeOK, Cloning, AllCloned, [F!Next]_(F!vars)
  PROVE  AllCloned'
<1> USE DEF AllCloned, Fetched, F!Further, F!Goes, F!Stop, F!Same
<1>1. CASE F!TakesList
  BY <1>1 DEF F!TakesList
<1>2. CASE F!ReadsTree
  BY <1>2 DEF F!ReadsTree
<1>3. CASE F!HoldsForInit
  BY <1>3 DEF F!HoldsForInit
<1>4. CASE F!initFolder
  BY <1>4 DEF F!initFolder
<1>5. CASE F!ChecksFiles
  BY <1>5 DEF F!ChecksFiles
<1>6. CASE F!TakesHold
  BY <1>6 DEF F!TakesHold
<1>7. CASE F!ChecksKeys
  BY <1>7 DEF F!ChecksKeys
<1>8. CASE F!ReadsTop
  BY <1>8 DEF F!ReadsTop
<1>9. CASE F!AddsRemote
  BY <1>9 DEF F!AddsRemote
<1>10. CASE F!FetchesRun
  BY <1>10 DEF F!FetchesRun
<1>11. CASE F!keepRepositories
  BY <1>11 DEF F!keepRepositories
<1>12. CASE F!exclude
  BY <1>12 DEF F!exclude
<1>13. CASE F!Clones
  BY <1>13 DEF F!Clones, Cloning, FetchTypeOK, F!JobType, F!Wanted
<1>14. CASE F!GitFails
  BY <1>14 DEF F!GitFails
<1>15. CASE F!privateGitDir
  BY <1>15 DEF F!privateGitDir
<1>16. CASE F!ChecksCopies
  BY <1>16 DEF F!ChecksCopies
<1>17. CASE F!setupPaths
  BY <1>17 DEF F!setupPaths
<1>18. CASE F!WalledStarts
  BY <1>18 DEF F!WalledStarts
<1>19. CASE F!WalledEnds
  BY <1>19 DEF F!WalledEnds
<1>20. CASE F!OthersWrite
  BY <1>20 DEF F!OthersWrite
<1>21. CASE UNCHANGED F!vars
  BY <1>21 DEF F!vars
<1> QED
  BY <1>1, <1>2, <1>3, <1>4, <1>5, <1>6, <1>7, <1>8, <1>9, <1>10, <1>11, <1>12, <1>13, <1>14,
     <1>15, <1>16, <1>17, <1>18, <1>19, <1>20, <1>21 DEF F!Next, F!vars

(* Every step keeps the further ones out of git status.                     *)
LEMMA NextAllKept ==
  ASSUME FetchTypeOK, Keeping, AllKept, [F!Next]_(F!vars)
  PROVE  AllKept'
<1> USE DEF AllKept, Fetched, F!Further, F!Goes, F!Stop, F!Same
<1>1. CASE F!TakesList
  BY <1>1 DEF F!TakesList
<1>2. CASE F!ReadsTree
  BY <1>2 DEF F!ReadsTree
<1>3. CASE F!HoldsForInit
  BY <1>3 DEF F!HoldsForInit
<1>4. CASE F!initFolder
  BY <1>4 DEF F!initFolder
<1>5. CASE F!ChecksFiles
  BY <1>5 DEF F!ChecksFiles
<1>6. CASE F!TakesHold
  BY <1>6 DEF F!TakesHold
<1>7. CASE F!ChecksKeys
  BY <1>7 DEF F!ChecksKeys
<1>8. CASE F!ReadsTop
  BY <1>8 DEF F!ReadsTop
<1>9. CASE F!AddsRemote
  BY <1>9 DEF F!AddsRemote
<1>10. CASE F!FetchesRun
  BY <1>10 DEF F!FetchesRun, F!Further
<1>11. CASE F!keepRepositories
  BY <1>11 DEF F!keepRepositories
<1>12. CASE F!exclude
  BY <1>12 DEF F!exclude
<1>13. CASE F!Clones
  BY <1>13 DEF F!Clones, Keeping, F!Further
<1>14. CASE F!GitFails
  BY <1>14 DEF F!GitFails
<1>15. CASE F!privateGitDir
  BY <1>15 DEF F!privateGitDir
<1>16. CASE F!ChecksCopies
  BY <1>16 DEF F!ChecksCopies
<1>17. CASE F!setupPaths
  BY <1>17 DEF F!setupPaths
<1>18. CASE F!WalledStarts
  BY <1>18 DEF F!WalledStarts
<1>19. CASE F!WalledEnds
  BY <1>19 DEF F!WalledEnds
<1>20. CASE F!OthersWrite
  <2>1. folder'.qory = folder.qory /\ folder'.excluded = folder.excluded
    BY <1>20, WritesStay DEF F!OthersWrite, FetchTypeOK
  <2> QED
    BY <1>20, <2>1 DEF F!OthersWrite
<1>21. CASE UNCHANGED F!vars
  BY <1>21 DEF F!vars
<1> QED
  BY <1>1, <1>2, <1>3, <1>4, <1>5, <1>6, <1>7, <1>8, <1>9, <1>10, <1>11, <1>12, <1>13, <1>14,
     <1>15, <1>16, <1>17, <1>18, <1>19, <1>20, <1>21 DEF F!Next, F!vars

-----------------------------------------------------------------------------
(* Every step keeps the invariant.                                          *)
LEMMA NextFetchInv == F!FetchAssumption /\ FetchInv /\ [F!Next]_(F!vars) => FetchInv'
<1> SUFFICES ASSUME F!FetchAssumption, FetchInv, [F!Next]_(F!vars) PROVE FetchInv'
  OBVIOUS
<1> USE DEF FetchInv, ListedInv
<1>1. job' = job /\ remotes' = remotes /\ folder' \in F!FolderType
  BY NextFolder
<1>2. FetchTypeOK'
  BY <1>1, NextFetchRest DEF FetchTypeOK
<1>3. HoldInv' /\ CleanInv'
  BY NextHoldInv, NextCleanInv
<1>4. Taken' /\ RunsOwn' /\ Keeping'
  BY NextTaken, NextRunsOwn, NextKeeping
<1>5. Cloning' /\ AllCloned' /\ AllKept'
  BY NextCloning, NextAllCloned, NextAllKept
<1> QED
  BY <1>2, <1>3, <1>4, <1>5

(* What git acts on was looked at under the hold.                           *)
LEMMA ReadsChecked == FetchInv => F!GitReadsCheckedKeys
  BY DEF FetchInv, CleanInv, Fetching, F!GitReadsCheckedKeys, F!StatusReads

(* What is fetched is the list that Check took.                             *)
LEMMA AsListed == FetchInv => F!FetchedAsListed
<1> SUFFICES ASSUME FetchInv, step \in Fetched PROVE F!FetchedAsListed
  BY DEF F!FetchedAsListed, Fetched
<1>1. /\ job \in F!JobType /\ F!Check(job) /\ F!TargetTaken(job) /\ job.paths # <<>>
      /\ clones[1] = F!Wanted(1) /\ \A i \in F!Further : clones[i] = "tip"
      /\ F!Further # {} => folder.excluded /\ folder.qory \in {F!Absent, "dir"}
  BY DEF FetchInv, FetchTypeOK, ListedInv, Taken, RunsOwn, AllCloned, AllKept, Fetched
<1>2. F!Versioned(job) => clones[1] = "version" /\ F!sameRepository(job.github, job.paths[1], job.target)
  BY <1>1 DEF F!Wanted, F!TargetTaken, F!targetIn
<1>3. ASSUME NEW i \in F!Further, NEW k \in F!Further \ {i}, NEW n \in 0 .. Len(job.paths[i])
      PROVE  F!Folded(job.github, SubSeq(job.paths[i], 1, n)) # F!Folded(job.github, job.paths[k])
  BY <1>1, <1>3, Apart
<1> QED
  BY <1>1, <1>2, <1>3 DEF F!FetchedAsListed

(* Whatever another walled run and the setup's programs write in the folder,*)
(* git acts on configuration that was checked alone; and what is fetched is *)
(* what the list and the documents say, each repository in its own folder.  *)
THEOREM FetchesChecked == PartsSpec => []FetchesAsListed
<1> DEFINE Inv == part = "fetch" => FetchInv
<1>1. PartsInit => Inv
  BY InitFetchInv, JobsAreLists DEF PartsInit
<1>2. Inv /\ [PartsNext]_parts => Inv'
  <2> SUFFICES ASSUME Inv, [PartsNext]_parts, part' = "fetch" PROVE FetchInv'
    OBVIOUS
  <2>1. part = "fetch" /\ [F!Next]_(F!vars)
    BY DEF PartsNext, parts, fetch, F!vars
  <2> QED
    BY <2>1, NextFetchInv, JobsAreLists
<1>3. Inv => FetchesAsListed
  BY ReadsChecked, AsListed DEF FetchesAsListed, F!FetchesAsListed
<1> QED
  BY <1>1, <1>2, <1>3, PTL DEF PartsSpec
-----------------------------------------------------------------------------
(* What the setup adds to them (Setup), of any commit, copy and container.  *)
(* While the copy is added: what is in the folder is the commit's or may be *)
(* added, what is copied whole is beside the commit and holds nothing that  *)
(* was removed, and whatever fits is there or has an entry above it that is *)
(* still to be gone through, so that nothing is missed at the end.          *)

(* Where the copy is added: what is in the working folder is the commit's   *)
(* or fits; what is to be added may be; an entry that is copied whole is    *)
(* beside what the commit has and holds nothing that was removed; and an    *)
(* entry that fits is there, or is to be added with a folder above it.      *)
CommitStays == \A p \in DOMAIN setup.commit : p \in DOMAIN working /\ working[p] = setup.commit[p]
OnlyFitting ==
  \A p \in DOMAIN working \ DOMAIN setup.commit :
    S!seed.kind = "dir" /\ S!Fits(p) /\ p \in DOMAIN S!seed.tree /\ working[p] = S!seed.tree[p]
MayBeAdded(p) ==
  /\ p \in DOMAIN S!seed.tree /\ p[1] \notin notCopied /\ S!Prefixes(p) \cap S!removed = {}
  /\ \A q \in S!Prefixes(p) : q \in DOMAIN setup.commit => setup.commit[q].kind = "dir"
Whole(p) == p \notin S!removed /\ p \notin DOMAIN setup.commit /\ (S!seed.tree[p].kind = "dir" => ~S!holdsRemoved(p))
ToAddFits ==
  \A e \in toAdd : e = <<e[1], e[2]>> /\ MayBeAdded(e[1]) /\ (e[2] = "copy" => Whole(e[1]))
OnItsWay(p) == p \in DOMAIN working \/ \E e \in toAdd : e[1] \in S!Prefixes(p) \cup {p}
NothingMissed == S!seed.kind = "dir" => \A p \in DOMAIN S!seed.tree : S!Fits(p) => OnItsWay(p)
CopyInv ==
  /\ stage = "prepare" => working = setup.commit
  /\ stage = "add" => S!seed.kind = "dir" /\ CommitStays /\ OnlyFitting /\ ToAddFits /\ NothingMissed
  /\ stage = "config" => S!CopyFillsIn

(* The commands are the commit's, and the output has all they wrote.        *)
LogInv ==
  /\ written \in Nat /\ end \in Nat /\ copied \in Nat
  /\ stage = "prepared" => copied >= end

(* The names that are kept, the home and the variables of the agent.        *)
KeepsInv ==
  stage \in {"home", "make", "open", "env", "agent"} =>
    \E ok \in BOOLEAN :
      keeps = [always |-> S!keptNames \cup (IF ok THEN setup.resolved ELSE {}), ca |-> {"ca"}, ok |-> ok]
HomeInv ==
  /\ stage \in {"make", "open", "env", "agent"} => setup.managed = FALSE /\ setup.linkAbove = FALSE
  /\ stage \in {"env", "agent"} => home.holds # "before" /\ (home.is = "dir" \/ home.holds = "after")
EnvInv == stage = "agent" => env = [n \in S!AgentEnv |-> S!Container[n]]
SetupInv ==
  /\ setup \in Cases /\ CopyInv /\ (stage = "commands" => config[2] = "commit") /\ LogInv
  /\ KeepsInv /\ HomeInv /\ EnvInv
-----------------------------------------------------------------------------
(* Paths.                                                                   *)
LEMMA PrefixIsPath ==
  ASSUME NEW p \in S!Paths, NEW q \in S!Prefixes(p)
  PROVE  q \in S!Paths /\ Len(q) \in 1 .. (Len(p) - 1) /\ q[1] = p[1] /\ q = SubSeq(p, 1, Len(q))
  BY DEF S!Prefixes, S!Paths

(* What is above an entry is what is above its folder, and the folder.      *)
LEMMA ChildPrefixes ==
  ASSUME NEW p \in S!Paths, NEW q \in S!Paths, S!Front(q) = p
  PROVE  /\ Len(q) = Len(p) + 1 /\ q[1] = p[1] /\ p = SubSeq(q, 1, Len(p))
         /\ S!Prefixes(q) = S!Prefixes(p) \cup {p}
<1>1. Len(p) \in Nat \ {0} /\ Len(q) \in Nat \ {0}
  BY DEF S!Paths
<1>2. Len(q) = Len(p) + 1 /\ p = SubSeq(q, 1, Len(p))
  BY <1>1 DEF S!Front, S!Paths
<1>3. q[1] = p[1]
  BY <1>1, <1>2 DEF S!Paths
<1>4. \A n \in 1 .. Len(p) : SubSeq(q, 1, n) = SubSeq(p, 1, n)
  BY <1>1, <1>2 DEF S!Paths
<1>5. SubSeq(p, 1, Len(p)) = p
  BY <1>1 DEF S!Paths
<1>6. S!Prefixes(q) = {SubSeq(p, 1, n) : n \in 1 .. Len(p)}
  BY <1>1, <1>2, <1>4 DEF S!Prefixes
<1>7. S!Prefixes(q) = S!Prefixes(p) \cup {p}
  <2>1. ASSUME NEW r \in S!Prefixes(q) PROVE r \in S!Prefixes(p) \cup {p}
    <3>1. PICK n \in 1 .. Len(p) : r = SubSeq(p, 1, n)
      BY <1>6, <2>1
    <3>2. n = Len(p) \/ n \in 1 .. (Len(p) - 1)
      BY <1>1
    <3>3. CASE n = Len(p)
      BY <1>5, <3>1, <3>3, Zenon
    <3>4. CASE n \in 1 .. (Len(p) - 1)
      BY <3>1, <3>4, Zenon DEF S!Prefixes
    <3> QED
      BY <3>2, <3>3, <3>4
  <2>2. ASSUME NEW r \in S!Prefixes(p) PROVE r \in S!Prefixes(q)
    <3>1. PICK n \in 1 .. (Len(p) - 1) : r = SubSeq(p, 1, n)
      BY <2>2, Zenon DEF S!Prefixes
    <3>2. n \in 1 .. Len(p)
      BY <1>1, <3>1
    <3> QED
      BY <1>6, <3>1, <3>2, Zenon
  <2>3. p \in S!Prefixes(q)
    <3>1. Len(p) \in 1 .. Len(p)
      BY <1>1
    <3> QED
      BY <1>5, <1>6, <3>1
  <2> QED
    BY <2>1, <2>2, <2>3
<1> QED
  BY <1>2, <1>3, <1>7

(* The folder of an entry that is not at the top is an entry.               *)
LEMMA FrontOf == ASSUME NEW p \in S!Paths PROVE Len(p) \in Nat /\ Len(p) >= 1 /\ Len(S!Front(p)) = Len(p) - 1
<1>1. p \in Seq(STRING) /\ Len(p) \in Nat /\ Len(p) >= 1
  BY DEF S!Paths
<1> DEFINE m == Len(p) - 1
<1>2. m \in 0 .. Len(p) /\ m \in Nat
  BY <1>1
<1>3. Len(SubSeq(p, 1, m)) = m
  <2> HIDE DEF m
  <2> QED
    BY <1>1, <1>2
<1> QED
  BY <1>1, <1>3 DEF S!Front

(* The first one on the way to a path.                                      *)
LEMMA FirstOnTheWay ==
  ASSUME NEW p \in S!Paths
  PROVE  \E t \in S!Prefixes(p) \cup {p} : t \in S!Paths /\ S!Front(t) = <<>> /\ t[1] = p[1]
<1> DEFINE t == SubSeq(p, 1, 1)
<1>1. p \in Seq(STRING) /\ Len(p) \in Nat /\ Len(p) >= 1
  BY DEF S!Paths
<1>2. t \in S!Paths /\ Len(t) = 1 /\ t[1] = p[1]
  BY <1>1 DEF S!Paths
<1>3. S!Front(t) = <<>>
  BY <1>2 DEF S!Front, S!Paths
<1>4. CASE Len(p) = 1
  <2>1. t = p
    BY <1>1, <1>4
  <2> QED
    BY <1>2, <1>3, <2>1
<1>5. CASE Len(p) # 1
  <2>1. \A n \in Nat : n >= 1 /\ n # 1 => 1 \in 1 .. (n - 1)
    OBVIOUS
  <2>2. t \in S!Prefixes(p)
    BY <1>1, <1>5, <2>1 DEF S!Prefixes
  <2> QED
    BY <1>2, <1>3, <2>2
<1> QED
  BY <1>4, <1>5

(* The next one on the way from a prefix to a path.                         *)
LEMMA NextOnTheWay ==
  ASSUME NEW p \in S!Paths, NEW q \in S!Prefixes(p)
  PROVE  \E r \in S!Prefixes(p) \cup {p} : r \in S!Paths /\ S!Front(r) = q
<1>1. PICK n \in 1 .. (Len(p) - 1) : q = SubSeq(p, 1, n)
  BY DEF S!Prefixes
<1>2. Len(p) \in Nat /\ n + 1 \in 1 .. Len(p) /\ n \in Nat
  BY DEF S!Paths
<1> DEFINE r == SubSeq(p, 1, n + 1)
<1>3. r \in S!Paths /\ Len(r) = n + 1
  BY <1>2 DEF S!Paths
<1>4. S!Front(r) = q
  BY <1>1, <1>2, <1>3 DEF S!Front, S!Paths
<1>5. r \in S!Prefixes(p) \cup {p}
  <2>1. CASE n + 1 = Len(p)
    BY <1>2, <2>1 DEF S!Paths
  <2>2. CASE n + 1 # Len(p)
    BY <1>2, <2>2 DEF S!Prefixes
  <2> QED
    BY <2>1, <2>2
<1> QED
  BY <1>3, <1>4, <1>5

(* An entry is below another one where the other is above it.               *)
LEMMA BelowIsPrefix ==
  ASSUME NEW p \in S!Paths, NEW q \in S!Paths
  PROVE  S!Below(p, q) <=> p \in S!Prefixes(q)
  BY DEF S!Below, S!Prefixes, S!Paths
-----------------------------------------------------------------------------
(* What a case is.                                                          *)
Case == setup \in Cases /\ S!TreeOf(S!seed.tree) /\ S!TreeOf(setup.commit) /\ S!removed \subseteq S!Paths

(* Each of the cases is one that the proofs are about.                      *)
LEMMA CaseHolds == ASSUME S!SetupAssumption, setup \in Cases PROVE Case
  BY DEF S!SetupAssumption, Case, S!seed, S!removed

(* An entry of the commit has none above it that the commit does not have.  *)
LEMMA OffTheCommit ==
  ASSUME Case, NEW p \in S!Paths, p \notin DOMAIN setup.commit, NEW q \in S!Paths, p \in S!Prefixes(q)
  PROVE  q \notin DOMAIN setup.commit
  BY DEF Case, S!TreeOf

(* The entries of a folder that is copied whole are copied whole.           *)
LEMMA ChildrenWhole ==
  ASSUME Case, NEW p \in DOMAIN S!seed.tree, S!seed.tree[p].kind = "dir", Whole(p), MayBeAdded(p),
         NEW q \in S!Children(S!seed.tree, p)
  PROVE  Whole(q) /\ MayBeAdded(q)
<1>1. p \in S!Paths /\ q \in S!Paths /\ S!Front(q) = p /\ q \in DOMAIN S!seed.tree
  BY DEF Case, S!TreeOf, S!Children
<1>2. /\ q[1] = p[1] /\ S!Prefixes(q) = S!Prefixes(p) \cup {p}
  BY <1>1, ChildPrefixes
<1>3. q \notin DOMAIN setup.commit
  BY <1>1, <1>2, OffTheCommit DEF Whole
<1>4. q \notin S!removed
  <2>1. S!Below(p, q)
    BY <1>1, <1>2, BelowIsPrefix
  <2> QED
    BY <2>1 DEF Whole, S!holdsRemoved
<1>5. ~S!holdsRemoved(q)
  <2> SUFFICES ASSUME NEW r \in S!removed, S!Below(q, r) PROVE FALSE
    BY DEF S!holdsRemoved
  <2>1. r \in S!Paths /\ q \in S!Prefixes(r)
    BY <1>1, BelowIsPrefix DEF Case
  <2>2. p \in S!Prefixes(r)
    BY <1>1, <2>1, PrefixIsPath, ChildPrefixes DEF S!Prefixes, S!Paths
  <2> QED
    BY <1>1, <2>1, <2>2, BelowIsPrefix DEF Whole, S!holdsRemoved
<1>6. MayBeAdded(q)
  BY <1>1, <1>2 DEF MayBeAdded, Whole
<1> QED
  BY <1>3, <1>4, <1>5, <1>6 DEF Whole

(* The entries of a folder on both sides, or above a removed file, may be   *)
(* added.                                                                   *)
LEMMA ChildrenMayBeAdded ==
  ASSUME Case, NEW p \in DOMAIN S!seed.tree, p \notin S!removed, MayBeAdded(p),
         NEW q \in S!Children(S!seed.tree, p),
         p \in DOMAIN setup.commit => setup.commit[p].kind = "dir"
  PROVE  MayBeAdded(q)
<1>1. p \in S!Paths /\ q \in S!Paths /\ S!Front(q) = p /\ q \in DOMAIN S!seed.tree
  BY DEF Case, S!TreeOf, S!Children
<1>2. /\ q[1] = p[1] /\ S!Prefixes(q) = S!Prefixes(p) \cup {p}
  BY <1>1, ChildPrefixes
<1> QED
  BY <1>1, <1>2 DEF MayBeAdded

(* What is new among what is to be added fits.                              *)
LEMMA MayFits == ASSUME NEW p, MayBeAdded(p), p \notin S!removed PROVE S!Fits(p)
  BY DEF MayBeAdded, S!Fits

(* An entry that is done with leaves everything that fits on its way.       *)
LEMMA StillOnItsWay ==
  ASSUME Case, NothingMissed, S!seed.kind = "dir", NEW e \in toAdd, NEW how,
         DOMAIN working \subseteq DOMAIN working',
         setup' = setup,
         \/ S!Then(e, how) /\ e[1] \in DOMAIN working'
         \/ toAdd' = toAdd \ {e} /\ e[1] \in S!removed
         \/ /\ toAdd' = toAdd \ {e} /\ e[1] \in DOMAIN working'
            /\ \A p \in DOMAIN S!seed.tree : S!Fits(p) => e[1] \notin S!Prefixes(p)
  PROVE  NothingMissed'
<1> SUFFICES ASSUME NEW p \in DOMAIN S!seed.tree, S!Fits(p) PROVE OnItsWay(p)'
  BY DEF NothingMissed, S!Fits, S!seed, S!removed
<1>1. OnItsWay(p)
  BY DEF NothingMissed
<1>2. CASE p \in DOMAIN working
  BY <1>2 DEF OnItsWay
<1>3. ASSUME NEW d \in toAdd, d # e, d[1] \in S!Prefixes(p) \cup {p} PROVE OnItsWay(p)'
  <2>1. d \in toAdd'
    BY <1>3 DEF S!Then
  <2> QED
    BY <1>3, <2>1 DEF OnItsWay
<1>4. CASE e[1] = p
  BY <1>4 DEF OnItsWay, S!Fits
<1>5. CASE e[1] \in S!Prefixes(p)
  <2>1. p \in S!Paths /\ S!seed.tree[e[1]].kind = "dir"
    BY <1>5 DEF Case, S!TreeOf
  <2>2. e[1] \notin S!removed
    BY <1>5 DEF S!Fits
  <2>3. S!Then(e, how)
    BY <1>5, <2>2
  <2>4. PICK r \in S!Prefixes(p) \cup {p} : r \in S!Paths /\ S!Front(r) = e[1]
    BY <1>5, <2>1, NextOnTheWay
  <2>5. r \in S!Children(S!seed.tree, e[1])
    BY <2>1, <2>4 DEF S!Children, Case, S!TreeOf, S!Paths
  <2>6. <<r, how>> \in toAdd'
    BY <2>1, <2>3, <2>5 DEF S!Then
  <2> QED
    BY <2>4, <2>6 DEF OnItsWay
<1> QED
  BY <1>1, <1>2, <1>3, <1>4, <1>5 DEF OnItsWay
-----------------------------------------------------------------------------
(* What an added entry leaves of the working folder.                        *)
LEMMA PutFits ==
  ASSUME S!seed.kind = "dir", CommitStays, OnlyFitting, ToAddFits, NEW e \in toAdd, S!Put(e[1]),
         setup' = setup,
         e[1] \notin DOMAIN setup.commit, e[1] \notin S!removed
  PROVE  CommitStays' /\ OnlyFitting' /\ DOMAIN working \subseteq DOMAIN working' /\ e[1] \in DOMAIN working'
<1>1. /\ DOMAIN working' = DOMAIN working \cup {e[1]} /\ working'[e[1]] = S!seed.tree[e[1]]
      /\ \A q \in DOMAIN working \ {e[1]} : working'[q] = working[q]
  BY DEF S!Put
<1>2. CommitStays'
  BY <1>1 DEF CommitStays
<1>3. S!Fits(e[1]) /\ e[1] \in DOMAIN S!seed.tree
  BY MayFits DEF ToAddFits, MayBeAdded
<1>4. OnlyFitting'
  <2> SUFFICES ASSUME NEW p \in DOMAIN working' \ DOMAIN setup.commit
               PROVE  S!Fits(p) /\ p \in DOMAIN S!seed.tree /\ working'[p] = S!seed.tree[p]
    BY DEF OnlyFitting, S!seed, S!Fits, S!removed
  <2>1. CASE p = e[1]
    BY <1>1, <1>3, <2>1
  <2>2. CASE p # e[1]
    BY <1>1, <2>2 DEF OnlyFitting
  <2> QED
    BY <2>1, <2>2
<1> QED
  BY <1>1, <1>2, <1>4

(* What is to be added after an entry.                                      *)
LEMMA ThenFits ==
  ASSUME Case, ToAddFits, NEW e \in toAdd, NEW how \in {"add", "copy"}, S!Then(e, how), setup' = setup,
         e[1] \notin S!removed,
         e[1] \in DOMAIN setup.commit => setup.commit[e[1]].kind = "dir", how = "copy" => Whole(e[1])
  PROVE  ToAddFits'
<1> SUFFICES ASSUME NEW d \in toAdd' PROVE d = <<d[1], d[2]>> /\ MayBeAdded(d[1]) /\ (d[2] = "copy" => Whole(d[1]))
  BY DEF ToAddFits, MayBeAdded, Whole, S!seed, S!removed, S!holdsRemoved
<1>1. CASE d \in toAdd
  BY <1>1 DEF ToAddFits
<1>2. ASSUME NEW q \in S!Children(S!seed.tree, e[1]), d = <<q, how>>, S!seed.tree[e[1]].kind = "dir"
      PROVE  MayBeAdded(q) /\ (how = "copy" => Whole(q))
  <2>1. MayBeAdded(e[1]) /\ e[1] \in DOMAIN S!seed.tree
    BY DEF ToAddFits, MayBeAdded
  <2> QED
    BY <1>2, <2>1, ChildrenWhole, ChildrenMayBeAdded
<1>3. d \in toAdd \/ \E q \in S!Children(S!seed.tree, e[1]) : d = <<q, how>> /\ S!seed.tree[e[1]].kind = "dir"
  BY DEF S!Then
<1> QED
  BY <1>1, <1>2, <1>3

(* copyEntry keeps all of it, of an entry that is copied whole.             *)
LEMMA CopyEntryFits ==
  ASSUME Case, S!seed.kind = "dir", CommitStays, OnlyFitting, ToAddFits, NothingMissed, NEW e \in toAdd,
         Whole(e[1]),
         S!copyEntry(e), stage = "add", setup' = setup
  PROVE  stage' = "failed" \/ (stage' = "add" /\ CommitStays' /\ OnlyFitting' /\ ToAddFits' /\ NothingMissed')
<1>1. CASE S!seed.tree[e[1]].kind = "other"
  BY <1>1 DEF S!copyEntry, S!Fails
<1>2. CASE S!seed.tree[e[1]].kind # "other"
  <2>1. S!Put(e[1]) /\ S!Then(e, "copy") /\ stage' = "add" /\ e[1] \notin S!removed /\ e[1] \notin DOMAIN setup.commit
    BY <1>2 DEF S!copyEntry, Whole
  <2>2. CommitStays' /\ OnlyFitting' /\ DOMAIN working \subseteq DOMAIN working' /\ e[1] \in DOMAIN working'
    BY <2>1, PutFits
  <2>3. ToAddFits'
    BY <2>1, ThenFits
  <2>4. NothingMissed'
    BY <2>1, <2>2, StillOnItsWay
  <2> QED
    BY <2>1, <2>2, <2>3, <2>4
<1> QED
  BY <1>1, <1>2

(* addTree keeps all of it.                                                 *)
LEMMA AddTreeFits ==
  ASSUME Case, S!seed.kind = "dir", CommitStays, OnlyFitting, ToAddFits, NothingMissed, NEW e \in toAdd,
         S!addTree(e), stage = "add", setup' = setup
  PROVE  stage' = "failed" \/ (stage' = "add" /\ CommitStays' /\ OnlyFitting' /\ ToAddFits' /\ NothingMissed')
<1> DEFINE p == e[1]
<1>p. MayBeAdded(p) /\ p \in DOMAIN S!seed.tree
  BY DEF ToAddFits, MayBeAdded
<1>1. CASE p \in S!removed
  <2>1. toAdd' = toAdd \ {e} /\ working' = working /\ stage' = "add"
    BY <1>1 DEF S!addTree
  <2>2. CommitStays' /\ OnlyFitting'
    BY <2>1 DEF CommitStays, OnlyFitting, S!Fits, S!seed, S!removed
  <2>3. ToAddFits'
    BY <2>1 DEF ToAddFits, MayBeAdded, Whole, S!seed, S!removed, S!holdsRemoved
  <2>4. NothingMissed'
    BY <1>1, <2>1, StillOnItsWay DEF S!Fits
  <2> QED
    BY <2>1, <2>2, <2>3, <2>4
<1>2. CASE p \notin S!removed /\ p \notin DOMAIN working /\ S!seed.tree[p].kind = "dir" /\ S!holdsRemoved(p)
  <2>1. S!Put(p) /\ S!Then(e, "add") /\ stage' = "add" /\ p \notin DOMAIN setup.commit
    BY <1>2 DEF S!addTree, CommitStays
  <2>2. CommitStays' /\ OnlyFitting' /\ DOMAIN working \subseteq DOMAIN working' /\ p \in DOMAIN working'
    BY <1>2, <2>1, PutFits
  <2>3. ToAddFits'
    BY <1>2, <2>1, ThenFits
  <2>4. NothingMissed'
    BY <2>1, <2>2, StillOnItsWay
  <2> QED
    BY <2>1, <2>2, <2>3, <2>4
<1>3. CASE p \notin S!removed /\ p \notin DOMAIN working /\ ~(S!seed.tree[p].kind = "dir" /\ S!holdsRemoved(p))
  <2>1. S!copyEntry(e) /\ Whole(p)
    BY <1>3 DEF S!addTree, CommitStays, Whole
  <2> QED
    BY <2>1, CopyEntryFits
<1>4. CASE p \notin S!removed /\ p \in DOMAIN working /\ working[p].kind = "dir" /\ S!seed.tree[p].kind = "dir"
  <2>1. S!Then(e, "add") /\ working' = working /\ stage' = "add"
    BY <1>4 DEF S!addTree
  <2>2. CommitStays' /\ OnlyFitting'
    BY <2>1 DEF CommitStays, OnlyFitting, S!Fits, S!seed, S!removed
  <2>3. ToAddFits'
    BY <1>4, <2>1, ThenFits DEF CommitStays
  <2>4. NothingMissed'
    BY <1>4, <2>1, StillOnItsWay
  <2> QED
    BY <2>1, <2>2, <2>3, <2>4
<1>5. CASE p \notin S!removed /\ p \in DOMAIN working /\ ~(working[p].kind = "dir" /\ S!seed.tree[p].kind = "dir")
  <2>1. toAdd' = toAdd \ {e} /\ working' = working /\ stage' = "add"
    BY <1>5 DEF S!addTree
  <2>2. CommitStays' /\ OnlyFitting'
    BY <2>1 DEF CommitStays, OnlyFitting, S!Fits, S!seed, S!removed
  <2>3. ToAddFits'
    BY <2>1 DEF ToAddFits, MayBeAdded, Whole, S!seed, S!removed, S!holdsRemoved
  <2>4. ASSUME NEW q \in DOMAIN S!seed.tree, S!Fits(q), p \in S!Prefixes(q) PROVE FALSE
    <3>1. S!seed.tree[p].kind = "dir"
      BY <2>4 DEF Case, S!TreeOf
    <3>2. working[p].kind = "dir"
      BY <1>5, <2>4, <3>1 DEF S!Fits, CommitStays, OnlyFitting
    <3> QED
      BY <1>5, <3>1, <3>2
  <2>5. NothingMissed'
    BY <1>5, <2>1, <2>4, StillOnItsWay
  <2> QED
    BY <2>1, <2>2, <2>3, <2>5
<1> QED
  BY <1>1, <1>2, <1>3, <1>4, <1>5
-----------------------------------------------------------------------------
(* The first states have the invariant of Setup.                            *)
LEMMA InitSetupInv == ASSUME S!SetupAssumption, S!Init PROVE SetupInv
  BY DEF S!Init, SetupInv, CopyInv, LogInv, KeepsInv, HomeInv, EnvInv

(* A setup is of one case.                                                  *)
LEMMA OneCase == ASSUME setup \in Cases, [S!Next]_(S!vars) PROVE setup' = setup
  BY DEF S!Next, S!vars, S!copy, S!log, S!agent, S!Prepare, S!copySeed, S!ReadsConfig, S!CommandWrites,
     S!LeavesService, S!ProgramsPut, S!CommandsEnd, S!Reads, S!SeesDone, S!ClosesDone, S!StartLogged,
     S!wrapAgentEnv, S!ChecksHome, S!MakesHome, S!freshFolder, S!StartsAgent

(* The image's copy, from the first entry to the last.                      *)
LEMMA NextPrepare == ASSUME Case, CopyInv, S!Prepare PROVE CopyInv'
<1>1. CASE S!seed.kind = "none"
  <2>1. stage' = "config" /\ working' = working /\ setup' = setup /\ working = setup.commit
    BY <1>1 DEF S!Prepare, CopyInv
  <2> QED
    BY <1>1, <2>1 DEF CopyInv, S!CopyFillsIn, S!seed
<1>2. CASE S!seed.kind # "none" /\ S!TakesSeed(S!seed)
  <2> DEFINE top == {q \in S!Children(S!seed.tree, <<>>) : q[1] \notin notCopied}
  <2>1. /\ stage' = "add" /\ toAdd' = {<<p, "add">> : p \in top} /\ setup' = setup
        /\ working' = working /\ working = setup.commit /\ S!seed.kind = "dir"
    BY <1>2 DEF S!Prepare, CopyInv, S!copy, S!TakesSeed
  <2>2. CommitStays' /\ OnlyFitting'
    BY <2>1 DEF CommitStays, OnlyFitting
  <2>3. ASSUME NEW p \in top PROVE MayBeAdded(p)
    <3>1. p \in S!Paths /\ S!Front(p) = <<>> /\ p \in DOMAIN S!seed.tree
      BY <2>3 DEF S!Children, Case, S!TreeOf
    <3>2. Len(p) = 1
      <4>1. Len(p) \in Nat /\ Len(p) >= 1 /\ Len(S!Front(p)) = Len(p) - 1
        BY <3>1, FrontOf
      <4>2. Len(S!Front(p)) = 0
        BY <3>1
      <4> QED
        BY <4>1, <4>2
    <3>3. S!Prefixes(p) = {}
      BY <3>2 DEF S!Prefixes
    <3> QED
      BY <2>3, <3>1, <3>3 DEF MayBeAdded
  <2>4. ToAddFits'
    BY <2>1, <2>3 DEF ToAddFits, MayBeAdded, Whole, S!seed, S!removed
  <2>5. ASSUME NEW p \in DOMAIN S!seed.tree, S!Fits(p) PROVE \E t \in top : t \in S!Prefixes(p) \cup {p}
    <3>1. p \in S!Paths /\ p[1] \notin notCopied
      BY <2>5 DEF Case, S!TreeOf, S!Fits
    <3>2. PICK t \in S!Prefixes(p) \cup {p} : t \in S!Paths /\ S!Front(t) = <<>> /\ t[1] = p[1]
      BY <3>1, FirstOnTheWay
    <3>3. t \in DOMAIN S!seed.tree
      BY <3>2 DEF Case, S!TreeOf
    <3> QED
      BY <3>1, <3>2, <3>3 DEF S!Children, S!Paths
  <2>6. NothingMissed'
    <3>1. ASSUME NEW p \in DOMAIN S!seed.tree, S!Fits(p) PROVE \E e \in toAdd' : e[1] \in S!Prefixes(p) \cup {p}
      <4>1. PICK t \in top : t \in S!Prefixes(p) \cup {p}
        BY <2>5, <3>1
      <4>2. <<t, "add">> \in toAdd' /\ <<t, "add">>[1] = t
        BY <2>1
      <4> QED
        BY <4>1, <4>2
    <3> QED
      BY <2>1, <3>1 DEF NothingMissed, OnItsWay, S!Fits, S!seed, S!removed
  <2> QED
    BY <2>1, <2>2, <2>4, <2>6 DEF CopyInv, S!seed
<1>3. CASE S!seed.kind # "none" /\ ~S!TakesSeed(S!seed)
  BY <1>3 DEF S!Prepare, CopyInv, S!CopyFillsIn, S!Fails
<1> QED
  BY <1>1, <1>2, <1>3

(* A step of the copy keeps its part of the invariant.                      *)
LEMMA NextCopySeed == ASSUME Case, CopyInv, S!copySeed PROVE CopyInv'
<1>1. /\ stage = "add" /\ setup' = setup /\ S!seed.kind = "dir"
      /\ CommitStays /\ OnlyFitting /\ ToAddFits /\ NothingMissed
  BY DEF S!copySeed, CopyInv
<1>2. CASE toAdd = {}
  <2>1. stage' = "config" /\ working' = working
    BY <1>2 DEF S!copySeed
  <2>2. S!CopyFillsIn'
    BY <1>1, <1>2, <2>1 DEF S!CopyFillsIn, CommitStays, OnlyFitting, NothingMissed, OnItsWay, S!Fits,
       S!seed, S!removed
  <2> QED
    BY <2>1, <2>2 DEF CopyInv
<1>3. CASE toAdd # {}
  <2>1. PICK e \in toAdd : IF e[2] = "copy" THEN S!copyEntry(e) ELSE S!addTree(e)
    BY <1>3 DEF S!copySeed
  <2>2. stage' = "failed" \/ (stage' = "add" /\ CommitStays' /\ OnlyFitting' /\ ToAddFits' /\ NothingMissed')
    <3>1. CASE e[2] = "copy"
      BY <1>1, <2>1, <3>1, CopyEntryFits DEF ToAddFits
    <3>2. CASE e[2] # "copy"
      BY <1>1, <2>1, <3>2, AddTreeFits
    <3> QED
      BY <3>1, <3>2
  <2> QED
    BY <1>1, <2>2 DEF CopyInv, S!CopyFillsIn, S!seed
<1> QED
  BY <1>2, <1>3

(* Every step keeps the copy.                                               *)
LEMMA NextCopyInv ==
  ASSUME Case, CopyInv, [S!Next]_(S!vars)
  PROVE  CopyInv'
<1> USE DEF CopyInv, S!CopyFillsIn, CommitStays, OnlyFitting, ToAddFits, NothingMissed, MayBeAdded, Whole,
            OnItsWay, S!Fits, S!seed, S!removed, S!holdsRemoved, S!copy, S!Fails
<1>1. CASE S!Prepare
  BY <1>1, NextPrepare
<1>2. CASE S!copySeed
  BY <1>2, NextCopySeed
<1>3. CASE S!ReadsConfig
  BY <1>3 DEF S!ReadsConfig
<1>4. CASE S!CommandWrites
  BY <1>4 DEF S!CommandWrites
<1>5. CASE S!LeavesService
  BY <1>5 DEF S!LeavesService
<1>6. CASE S!ProgramsPut
  BY <1>6 DEF S!ProgramsPut
<1>7. CASE S!CommandsEnd
  BY <1>7 DEF S!CommandsEnd
<1>8. CASE S!Reads
  BY <1>8 DEF S!Reads
<1>9. CASE S!SeesDone
  BY <1>9 DEF S!SeesDone
<1>10. CASE S!ClosesDone
  BY <1>10 DEF S!ClosesDone
<1>11. CASE S!StartLogged
  BY <1>11 DEF S!StartLogged
<1>12. CASE S!wrapAgentEnv
  BY <1>12 DEF S!wrapAgentEnv
<1>13. CASE S!ChecksHome
  BY <1>13 DEF S!ChecksHome
<1>14. CASE S!MakesHome
  BY <1>14 DEF S!MakesHome
<1>15. CASE S!freshFolder
  BY <1>15 DEF S!freshFolder
<1>16. CASE S!StartsAgent
  BY <1>16 DEF S!StartsAgent
<1>17. CASE UNCHANGED S!vars
  BY <1>17 DEF S!vars
<1> HIDE DEF CopyInv, S!CopyFillsIn, CommitStays, OnlyFitting, ToAddFits, NothingMissed, MayBeAdded, Whole,
            OnItsWay, S!Fits, S!seed, S!removed, S!holdsRemoved, S!copy, S!Fails
<1> QED
  BY <1>1, <1>2, <1>3, <1>4, <1>5, <1>6, <1>7, <1>8, <1>9, <1>10, <1>11, <1>12, <1>13, <1>14, <1>15, <1>16,
     <1>17 DEF S!Next, S!vars

(* Every step keeps the commands the commit's.                              *)
LEMMA NextConfig ==
  ASSUME S!SetupAssumption, setup \in Cases, (stage = "commands" => config[2] = "commit"), [S!Next]_(S!vars)
  PROVE  (stage = "commands" => config[2] = "commit")'
<1> USE DEF S!copy, S!Fails
<1>1. CASE S!Prepare
  BY <1>1 DEF S!Prepare
<1>2. CASE S!copySeed
  BY <1>2 DEF S!copySeed, S!copyEntry, S!addTree
<1>3. CASE S!ReadsConfig
  <2> DEFINE p == Places[S!First(S!trackedConfig)]
  <2>1. CASE stage' = "commands"
    <3>1. config' = <<p, S!ConfigTree[p].of>> /\ S!trackedFile(S!ConfigTree, p) = "file"
      BY <1>3, <2>1 DEF S!ReadsConfig
    <3>2. p \in DOMAIN setup.commit
      BY <3>1 DEF S!trackedFile, S!Has, S!ConfigTree
    <3> QED
      BY <3>1, <3>2 DEF S!SetupAssumption, S!ConfigTree
  <2>2. CASE stage' # "commands"
    BY <2>2
  <2> QED
    BY <2>1, <2>2
<1>4. CASE S!CommandWrites
  BY <1>4 DEF S!CommandWrites
<1>5. CASE S!LeavesService
  BY <1>5 DEF S!LeavesService
<1>6. CASE S!ProgramsPut
  BY <1>6 DEF S!ProgramsPut
<1>7. CASE S!CommandsEnd
  BY <1>7 DEF S!CommandsEnd
<1>8. CASE S!Reads
  BY <1>8 DEF S!Reads
<1>9. CASE S!SeesDone
  BY <1>9 DEF S!SeesDone
<1>10. CASE S!ClosesDone
  BY <1>10 DEF S!ClosesDone
<1>11. CASE S!StartLogged
  BY <1>11 DEF S!StartLogged
<1>12. CASE S!wrapAgentEnv
  BY <1>12 DEF S!wrapAgentEnv
<1>13. CASE S!ChecksHome
  BY <1>13 DEF S!ChecksHome
<1>14. CASE S!MakesHome
  BY <1>14 DEF S!MakesHome
<1>15. CASE S!freshFolder
  BY <1>15 DEF S!freshFolder
<1>16. CASE S!StartsAgent
  BY <1>16 DEF S!StartsAgent
<1>17. CASE UNCHANGED S!vars
  BY <1>17 DEF S!vars
<1> QED
  BY <1>1, <1>2, <1>3, <1>4, <1>5, <1>6, <1>7, <1>8, <1>9, <1>10, <1>11, <1>12, <1>13, <1>14, <1>15, <1>16,
     <1>17 DEF S!Next, S!vars

(* Every step keeps the output.                                             *)
LEMMA NextLogInv ==
  ASSUME LogInv, [S!Next]_(S!vars)
  PROVE  LogInv'
<1> USE DEF LogInv, S!log, S!Fails
<1>1. CASE S!Prepare
  BY <1>1 DEF S!Prepare
<1>2. CASE S!copySeed
  BY <1>2 DEF S!copySeed, S!copyEntry, S!addTree
<1>3. CASE S!ReadsConfig
  BY <1>3 DEF S!ReadsConfig
<1>4. CASE S!CommandWrites
  BY <1>4 DEF S!CommandWrites
<1>5. CASE S!LeavesService
  BY <1>5 DEF S!LeavesService
<1>6. CASE S!ProgramsPut
  BY <1>6 DEF S!ProgramsPut
<1>7. CASE S!CommandsEnd
  BY <1>7 DEF S!CommandsEnd
<1>8. CASE S!Reads
  BY <1>8 DEF S!Reads
<1>9. CASE S!SeesDone
  BY <1>9 DEF S!SeesDone
<1>10. CASE S!ClosesDone
  BY <1>10 DEF S!ClosesDone
<1>11. CASE S!StartLogged
  BY <1>11 DEF S!StartLogged, S!Rest
<1>12. CASE S!wrapAgentEnv
  BY <1>12 DEF S!wrapAgentEnv
<1>13. CASE S!ChecksHome
  BY <1>13 DEF S!ChecksHome
<1>14. CASE S!MakesHome
  BY <1>14 DEF S!MakesHome
<1>15. CASE S!freshFolder
  BY <1>15 DEF S!freshFolder
<1>16. CASE S!StartsAgent
  BY <1>16 DEF S!StartsAgent
<1>17. CASE UNCHANGED S!vars
  BY <1>17 DEF S!vars
<1> QED
  BY <1>1, <1>2, <1>3, <1>4, <1>5, <1>6, <1>7, <1>8, <1>9, <1>10, <1>11, <1>12, <1>13, <1>14, <1>15, <1>16,
     <1>17 DEF S!Next, S!vars

(* Every step keeps the names.                                              *)
LEMMA NextKeepsInv ==
  ASSUME KeepsInv, [S!Next]_(S!vars)
  PROVE  KeepsInv'
<1> USE DEF KeepsInv, S!agent, S!Fails
<1>1. CASE S!Prepare
  BY <1>1 DEF S!Prepare
<1>2. CASE S!copySeed
  BY <1>2 DEF S!copySeed, S!copyEntry, S!addTree
<1>3. CASE S!ReadsConfig
  BY <1>3 DEF S!ReadsConfig
<1>4. CASE S!CommandWrites
  BY <1>4 DEF S!CommandWrites
<1>5. CASE S!LeavesService
  BY <1>5 DEF S!LeavesService
<1>6. CASE S!ProgramsPut
  BY <1>6 DEF S!ProgramsPut
<1>7. CASE S!CommandsEnd
  BY <1>7 DEF S!CommandsEnd
<1>8. CASE S!Reads
  BY <1>8 DEF S!Reads
<1>9. CASE S!SeesDone
  BY <1>9 DEF S!SeesDone
<1>10. CASE S!ClosesDone
  BY <1>10 DEF S!ClosesDone
<1>11. CASE S!StartLogged
  BY <1>11 DEF S!StartLogged
<1>12. CASE S!wrapAgentEnv
  BY <1>12 DEF S!wrapAgentEnv
<1>13. CASE S!ChecksHome
  BY <1>13 DEF S!ChecksHome
<1>14. CASE S!MakesHome
  BY <1>14 DEF S!MakesHome
<1>15. CASE S!freshFolder
  BY <1>15 DEF S!freshFolder
<1>16. CASE S!StartsAgent
  BY <1>16 DEF S!StartsAgent
<1>17. CASE UNCHANGED S!vars
  BY <1>17 DEF S!vars
<1> QED
  BY <1>1, <1>2, <1>3, <1>4, <1>5, <1>6, <1>7, <1>8, <1>9, <1>10, <1>11, <1>12, <1>13, <1>14, <1>15, <1>16,
     <1>17 DEF S!Next, S!vars

(* Every step keeps the home.                                               *)
LEMMA NextHomeInv ==
  ASSUME S!SetupAssumption, setup \in Cases, HomeInv, [S!Next]_(S!vars)
  PROVE  HomeInv'
<1> USE DEF HomeInv, S!agent, S!Fails
<1>1. CASE S!Prepare
  BY <1>1 DEF S!Prepare
<1>2. CASE S!copySeed
  BY <1>2 DEF S!copySeed, S!copyEntry, S!addTree
<1>3. CASE S!ReadsConfig
  BY <1>3 DEF S!ReadsConfig
<1>4. CASE S!CommandWrites
  BY <1>4 DEF S!CommandWrites
<1>5. CASE S!LeavesService
  BY <1>5 DEF S!LeavesService
<1>6. CASE S!ProgramsPut
  BY <1>6 DEF S!ProgramsPut, S!When
<1>7. CASE S!CommandsEnd
  BY <1>7 DEF S!CommandsEnd
<1>8. CASE S!Reads
  BY <1>8 DEF S!Reads
<1>9. CASE S!SeesDone
  BY <1>9 DEF S!SeesDone
<1>10. CASE S!ClosesDone
  BY <1>10 DEF S!ClosesDone
<1>11. CASE S!StartLogged
  BY <1>11 DEF S!StartLogged
<1>12. CASE S!wrapAgentEnv
  BY <1>12 DEF S!wrapAgentEnv
<1>13. CASE S!ChecksHome
  BY <1>13 DEF S!ChecksHome, S!SetupAssumption
<1>14. CASE S!MakesHome
  BY <1>14 DEF S!MakesHome
<1>15. CASE S!freshFolder
  BY <1>15 DEF S!freshFolder, S!IsEmpty
<1>16. CASE S!StartsAgent
  BY <1>16 DEF S!StartsAgent
<1>17. CASE UNCHANGED S!vars
  BY <1>17 DEF S!vars
<1> QED
  BY <1>1, <1>2, <1>3, <1>4, <1>5, <1>6, <1>7, <1>8, <1>9, <1>10, <1>11, <1>12, <1>13, <1>14, <1>15, <1>16,
     <1>17 DEF S!Next, S!vars

(* Every step keeps the agent's variables.                                  *)
LEMMA NextEnvInv ==
  ASSUME EnvInv, [S!Next]_(S!vars)
  PROVE  EnvInv'
<1> USE DEF EnvInv, S!AgentEnv, S!Container, S!ForagerSets, S!KeepFor, S!Mounted, S!agent, S!Fails
<1>1. CASE S!Prepare
  BY <1>1 DEF S!Prepare
<1>2. CASE S!copySeed
  BY <1>2 DEF S!copySeed, S!copyEntry, S!addTree
<1>3. CASE S!ReadsConfig
  BY <1>3 DEF S!ReadsConfig
<1>4. CASE S!CommandWrites
  BY <1>4 DEF S!CommandWrites
<1>5. CASE S!LeavesService
  BY <1>5 DEF S!LeavesService
<1>6. CASE S!ProgramsPut
  <2>1. UNCHANGED <<setup, keeps, env, stage>>
    BY <1>6 DEF S!ProgramsPut
  <2> QED
    BY <2>1
<1>7. CASE S!CommandsEnd
  BY <1>7 DEF S!CommandsEnd
<1>8. CASE S!Reads
  BY <1>8 DEF S!Reads
<1>9. CASE S!SeesDone
  BY <1>9 DEF S!SeesDone
<1>10. CASE S!ClosesDone
  BY <1>10 DEF S!ClosesDone
<1>11. CASE S!StartLogged
  BY <1>11 DEF S!StartLogged
<1>12. CASE S!wrapAgentEnv
  BY <1>12 DEF S!wrapAgentEnv
<1>13. CASE S!ChecksHome
  BY <1>13 DEF S!ChecksHome
<1>14. CASE S!MakesHome
  BY <1>14 DEF S!MakesHome
<1>15. CASE S!freshFolder
  BY <1>15 DEF S!freshFolder
<1>16. CASE S!StartsAgent
  BY <1>16 DEF S!StartsAgent
<1>17. CASE UNCHANGED S!vars
  BY <1>17 DEF S!vars
<1> QED
  BY <1>1, <1>2, <1>3, <1>4, <1>5, <1>6, <1>7, <1>8, <1>9, <1>10, <1>11, <1>12, <1>13, <1>14, <1>15, <1>16,
     <1>17 DEF S!Next, S!vars

(* Every step keeps the invariant.                                          *)
LEMMA NextSetupInv == ASSUME S!SetupAssumption, SetupInv, [S!Next]_(S!vars) PROVE SetupInv'
<1> USE DEF SetupInv
<1>1. setup' \in Cases
  BY OneCase
<1>2. CopyInv'
  BY CaseHolds, NextCopyInv
<1>3. (stage = "commands" => config[2] = "commit")' /\ LogInv'
  BY NextConfig, NextLogInv
<1>4. KeepsInv' /\ HomeInv' /\ EnvInv'
  BY NextKeepsInv, NextHomeInv, NextEnvInv
<1> QED
  BY <1>1, <1>2, <1>3, <1>4

(* The variables and the home an agent starts with.                         *)
LEMMA Clean == ASSUME S!SetupAssumption, SetupInv PROVE S!AgentStartsClean
<1> SUFFICES ASSUME stage = "agent" PROVE S!AgentStartsClean
  BY DEF S!AgentStartsClean
<1>1. PICK ok \in BOOLEAN :
        keeps = [always |-> S!keptNames \cup (IF ok THEN setup.resolved ELSE {}), ca |-> {"ca"}, ok |-> ok]
  BY DEF SetupInv, KeepsInv
<1>2. env = [n \in S!AgentEnv |-> S!Container[n]] /\ setup.imageValue \in {"image", S!Placeholder}
  BY DEF SetupInv, EnvInv, S!SetupAssumption, S!Placeholder
<1>3. ~setup.managed /\ ~setup.linkAbove /\ home.holds # "before" /\ (home.is = "dir" \/ home.holds = "after")
  BY DEF SetupInv, HomeInv
<1>4. S!KeepFor \subseteq S!ForagerSets
  BY <1>1 DEF S!KeepFor, S!ForagerSets, S!keptNames, S!Mounted
<1>5. ASSUME NEW n \in DOMAIN env, S!Dropped(n) PROVE env[n] # "image"
  <2>1. n \in DOMAIN S!Container /\ env[n] = S!Container[n] /\ (n \in S!KeepFor \/ S!Container[n] = S!Placeholder)
    BY <1>2, <1>5 DEF S!AgentEnv
  <2> QED
    BY <1>4, <2>1 DEF S!Container, S!Placeholder
<1>6. ASSUME keeps.ok, NEW n \in S!ForagerSets
      PROVE  (n \in setup.placeholders /\ S!Dropped(n) /\ ~S!prefixed(n)) \/ (n \in DOMAIN env /\ env[n] = S!Container[n])
  <2>1. n \in DOMAIN S!Container
    BY DEF S!Container
  <2>2. n \in S!KeepFor \/ n \in setup.placeholders
    BY <1>1, <1>6 DEF S!KeepFor, S!ForagerSets, S!keptNames, S!Mounted
  <2>3. n \in setup.placeholders => S!Container[n] = S!Placeholder
    BY <2>1 DEF S!Container
  <2> QED
    BY <1>2, <2>1, <2>2, <2>3 DEF S!AgentEnv
<1> QED
  BY <1>3, <1>5, <1>6 DEF S!AgentStartsClean

(* Whatever the commit, the image's copy, the commands and what they leave  *)
(* running do: the copy fills in what the commit does not have, the commands*)
(* are the commit's and their output is whole, and the agent starts on the  *)
(* run's values and a home nothing was put into.                            *)
THEOREM SetupStarts == PartsSpec => []StartsOnTheCommit
<1> DEFINE Inv == part = "setup" => SetupInv
<1>1. PartsInit => Inv
  BY InitSetupInv, CasesAreTrees DEF PartsInit
<1>2. Inv /\ [PartsNext]_parts => Inv'
  <2> SUFFICES ASSUME Inv, [PartsNext]_parts, part' = "setup" PROVE SetupInv'
    OBVIOUS
  <2>1. part = "setup" /\ [S!Next]_(S!vars)
    BY DEF PartsNext, parts, container, S!vars, S!copy, S!log, S!agent
  <2> QED
    BY <2>1, NextSetupInv, CasesAreTrees
<1>3. SetupInv => S!StartsOnTheCommit
  BY Clean, CasesAreTrees DEF SetupInv, CopyInv, LogInv, S!StartsOnTheCommit, S!CopyFillsIn, S!CommandsOfTheCommit
<1>4. Inv => StartsOnTheCommit
  BY <1>3 DEF StartsOnTheCommit
<1> QED
  BY <1>1, <1>2, <1>4, PTL DEF PartsSpec
=============================================================================
