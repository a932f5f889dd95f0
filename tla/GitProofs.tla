------------------------------ MODULE GitProofs ------------------------------
(***************************************************************************)
(* What holds of git on this machine, for any number of worktrees, places  *)
(* and processes.                                                          *)
(*                                                                         *)
(* Worktree: no command loses what a person wrote.  A commit is a sequence *)
(* of changes, so this rests on what is common to two sequences (ForkIs),  *)
(* on what one has past another (NothingPast, LandedHolds) and on what a   *)
(* rebase copies (Ranks, RebaseHolds).  The invariant has a part for the   *)
(* refs (RefsOK), one for what an add and a remove know at each of their   *)
(* steps (AddOK, RemoveOK), and LossOK: whatever a command is about to     *)
(* take is somewhere else, or was let go.                                  *)
(*                                                                         *)
(* Places: a run holds each lock it has taken until its container starts   *)
(* (HoldInv), is listed before it writes (ListedInv), and a run that holds *)
(* a place, or a check that has looked at one it holds, has seen every run *)
(* that writes there (AloneInv, CheckInv).  A run listed at a place that    *)
(* overlaps one a check has looked at was listed since (SinceInv).         *)
(***************************************************************************)
EXTENDS Places, Worktree, FiniteSetTheorems, WellFoundedInduction, TLAPS

WorktreeSteps == {"idle", "fetch", "attach", "base", "place", "make", "record", "upstream", "forward", "onto", "answer", "move",
                  "abort", "bring", "find", "look", "count", "fetchBase", "land", "ask", "push", "run", "delete"}
Finds == [at : Names \cup {Nil}, ref : Bases \cup {Nil}, old : Bases \cup {Nil}, n : Nat, existed : BOOLEAN, waslocal : BOOLEAN]
WorktreeTypeOK ==
  /\ origin \in BOOLEAN
  /\ local \in [Refs -> Commits \cup {Nil}] /\ tracked \in [Refs -> Commits \cup {Nil}]
  /\ remote \in [Refs -> Commits \cup {Nil}] /\ cfg \in [Refs -> Bases \cup {Nil}]
  /\ wt \in [Names -> Trees \cup {Nil}] /\ edits \in [Names -> SUBSET Words]
  /\ step \in WorktreeSteps /\ job \in Jobs /\ found \in Finds
  /\ used \subseteq Patches /\ letGo \subseteq Words

(* The branches that are always there, what the remote has of what was     *)
(* fetched, and a branch for each worktree.                                *)
RefsOK ==
  /\ local["main"] # Nil
  /\ origin => tracked["main"] # Nil /\ remote["main"] # Nil
  /\ \A r \in Refs : Holds(tracked[r]) \subseteq Pushed
  /\ \A w \in Names : wt[w] # Nil => local[wt[w].branch] # Nil
  /\ \A b \in Names : cfg[b] \notin OfItself(b)

(* An add between two of its steps.                                        *)
AddOK ==
  /\ step \in {"fetch", "attach"} => job \in Requests /\ job.op = "add"
  /\ step \in {"base", "place", "make", "upstream", "forward", "onto", "record", "answer", "move"} /\ job.attach # "no" =>
       tracked[job.branch] # Nil
  /\ step = "base" => job.branch \in Names /\ job.base \notin OfItself(job.branch)
  /\ step \in {"place", "make", "upstream", "forward", "onto", "record", "answer", "move"} =>
       /\ job.branch \in Names /\ found.ref \in Bases \ OfItself(job.branch)
       /\ CommitOf(found.ref, Nil) # Nil
  /\ step = "make" => found.at \in Names
  /\ step = "forward" => job.attach # "no"
  /\ step \in {"upstream", "forward", "onto", "record", "answer", "move", "abort"} =>
       found.at \in Names /\ wt[found.at] # Nil /\ job.branch = wt[found.at].branch

(* A remove between two of its steps.                                      *)
RemoveOK ==
  /\ step \in {"look", "count", "fetchBase", "land", "ask", "push", "run"} =>
       /\ found.at \in Names /\ wt[found.at] # Nil
       /\ job.branch # Nil => job.branch = wt[found.at].branch
  /\ step \in {"fetchBase", "land", "ask", "push", "delete"} => Deletes

(* What goes is still somewhere else, or was let go.                       *)
Safe(b) == letGo \cup Pushed \cup (UNION {Holds(local[r]) : r \in Refs \ {b}}) \cup {"root"}
LossOK ==
  /\ Looked => edits[found.at] \subseteq letGo
  /\ step \in {"answer", "move"} =>
       /\ found.old \in Bases \ OfItself(job.branch)
       /\ found.n = 0 => Holds(Tip) \subseteq Safe(job.branch)
  /\ step \in {"count", "fetchBase", "land", "ask", "push", "run"} /\ Deletes /\ job.drop => Holds(Tip) \subseteq letGo
  /\ step \in {"run", "delete"} /\ Deletes => Holds(Tip) \subseteq Safe(job.branch)

WorktreeInv == WorktreeTypeOK /\ RefsOK /\ AddOK /\ RemoveOK /\ LossOK /\ NothingLost
-----------------------------------------------------------------------------
USE NamesAssumption, NilAssumption

LEMMA LeastNumber ==
  ASSUME NEW S, S \subseteq Nat, S # {}
  PROVE  \E n \in S : \A m \in S : n <= m
<1>1. PICK n \in S : \A m \in S : ~(<<m, n>> \in OpToRel(<, Nat))
  BY WFMin, NatLessThanWellFounded
<1>2. \A m \in S : ~(m < n)
  BY <1>1 DEF OpToRel
<1> QED
  BY <1>2

(* What a commit holds is in one of its changes.                           *)
LEMMA CommitIs ==
  ASSUME NEW c \in Commits
  PROVE  c \in Seq(SUBSET Words) /\ Len(c) \in Nat \ {0} /\ c # Nil /\ \A n \in 1..Len(c) : c[n] \subseteq Words
<1>1. c \in Seq(SUBSET Words) /\ c # <<>> /\ c # Nil  BY DEF Commits
<1> QED  BY <1>1

LEMMA HoldsIs ==
  ASSUME NEW c \in Seq(SUBSET Words), c # Nil
  PROVE  \A x : x \in Holds(c) <=> \E n \in 1..Len(c) : x \in c[n]
<1>1. DOMAIN c = 1..Len(c)  OBVIOUS
<1> QED  BY <1>1 DEF Holds, ToSet

LEMMA SetIs ==
  ASSUME NEW c \in Seq(SUBSET Words)
  PROVE  \A x : /\ x \in UNION ToSet(c) <=> \E n \in 1..Len(c) : x \in c[n]
                /\ x \in ToSet(c) <=> \E n \in 1..Len(c) : x = c[n]
<1>1. DOMAIN c = 1..Len(c)  OBVIOUS
<1> QED  BY <1>1 DEF ToSet

LEMMA HoldsWords ==
  ASSUME NEW c \in Commits \cup {Nil}
  PROVE  Holds(c) \subseteq Words
BY CommitIs, HoldsIs DEF Holds

LEMMA PrefixIs ==
  ASSUME NEW s \in Seq(SUBSET Words), NEW t \in Seq(SUBSET Words), IsPrefix(s, t)
  PROVE  Len(s) <= Len(t) /\ \A n \in 1..Len(s) : s[n] = t[n]
<1>1. Len(s) \in Nat /\ Len(t) \in Nat /\ Len(s) <= Len(t) /\ SubSeq(s, 1, Len(s)) = SubSeq(t, 1, Len(s))  BY DEF IsPrefix
<1>2. \A n \in 1..Len(s) : SubSeq(s, 1, Len(s))[n] = s[n] /\ SubSeq(t, 1, Len(s))[n] = t[n]  BY <1>1
<1> QED  BY <1>1, <1>2

LEMMA PrefixHolds ==
  ASSUME NEW s \in Commits, NEW t \in Commits, IsPrefix(s, t)
  PROVE  Holds(s) \subseteq Holds(t)
<1>1. Len(s) \in Nat /\ Len(t) \in Nat /\ Len(s) <= Len(t) /\ \A n \in 1..Len(s) : s[n] = t[n]  BY PrefixIs, CommitIs
<1> QED  BY <1>1, CommitIs, HoldsIs

LEMMA SubFacts ==
  ASSUME NEW c \in Seq(SUBSET Words), NEW m \in 1..(Len(c) + 1), NEW n \in 0..Len(c)
  PROVE  /\ SubSeq(c, m, n) \in Seq(SUBSET Words) /\ Len(SubSeq(c, m, n)) = IF m <= n THEN n - m + 1 ELSE 0
         /\ \A i \in 1..Len(SubSeq(c, m, n)) : i + m - 1 \in m..n /\ SubSeq(c, m, n)[i] = c[i + m - 1]
         /\ \A i \in m..n : i - m + 1 \in 1..Len(SubSeq(c, m, n)) /\ c[i] = SubSeq(c, m, n)[i - m + 1]
OBVIOUS

LEMMA AppendHolds ==
  ASSUME NEW c \in Commits, NEW change \in SUBSET Words
  PROVE  Append(c, change) \in Commits /\ Holds(Append(c, change)) = Holds(c) \cup change
<1> DEFINE d == Append(c, change)
<1>1. c \in Seq(SUBSET Words) /\ Len(c) \in Nat \ {0}  BY CommitIs
<1>2. /\ d \in Seq(SUBSET Words) /\ Len(d) = Len(c) + 1 /\ d[Len(c) + 1] = change
      /\ \A n \in 1..Len(c) : d[n] = c[n]
  BY <1>1
<1>3. d \in Commits
  <2>1. Len(d) # 0  BY <1>1, <1>2
  <2>2. d # <<>>  BY <2>1
  <2> QED  BY <1>2, <2>2 DEF Commits
<1> HIDE DEF d
<1>4. \A x : x \in Holds(d) <=> \E n \in 1..Len(d) : x \in d[n]  BY <1>3, CommitIs, HoldsIs
<1>5. \A x : x \in Holds(c) <=> \E n \in 1..Len(c) : x \in c[n]  BY CommitIs, HoldsIs
<1>6. 1..Len(d) = (1..Len(c)) \cup {Len(c) + 1}  BY <1>1, <1>2
<1>7. Holds(d) = Holds(c) \cup change  BY <1>2, <1>4, <1>5, <1>6
<1> QED  BY <1>3, <1>7 DEF d

LEMMA ConcatHolds ==
  ASSUME NEW c \in Commits, NEW s \in Seq(SUBSET Words)
  PROVE  c \o s \in Commits /\ Holds(c \o s) = Holds(c) \cup UNION ToSet(s)
<1> DEFINE d == c \o s
<1>1. c \in Seq(SUBSET Words) /\ Len(c) \in Nat \ {0} /\ Len(s) \in Nat  BY CommitIs
<1>2. /\ d \in Seq(SUBSET Words) /\ Len(d) = Len(c) + Len(s)
      /\ \A n \in 1..Len(c) : n \in 1..Len(d) /\ d[n] = c[n]
      /\ \A n \in 1..Len(s) : n + Len(c) \in 1..Len(d) /\ d[n + Len(c)] = s[n]
  BY <1>1
<1>3. d \in Commits
  <2>1. Len(d) # 0  BY <1>1, <1>2
  <2>2. d # <<>>  BY <2>1
  <2> QED  BY <1>2, <2>2 DEF Commits
<1> HIDE DEF d
<1>4. \A x : x \in Holds(d) <=> \E n \in 1..Len(d) : x \in d[n]  BY <1>3, CommitIs, HoldsIs
<1>5. \A x : x \in Holds(c) <=> \E n \in 1..Len(c) : x \in c[n]  BY CommitIs, HoldsIs
<1>6. \A x : x \in UNION ToSet(s) <=> \E n \in 1..Len(s) : x \in s[n]  BY SetIs
<1>7. \A n \in 1..Len(d) : n \in 1..Len(c) \/ (n - Len(c) \in 1..Len(s) /\ d[n] = s[n - Len(c)])
  <2> SUFFICES ASSUME NEW n \in 1..Len(d), n \notin 1..Len(c)  PROVE n - Len(c) \in 1..Len(s) /\ d[n] = s[n - Len(c)]
    OBVIOUS
  <2>1. n - Len(c) \in 1..Len(s)  BY <1>1, <1>2
  <2>2. (n - Len(c)) + Len(c) = n  BY <1>1
  <2> QED  BY <1>2, <2>1, <2>2
<1>8. Holds(d) = Holds(c) \cup UNION ToSet(s)  BY <1>2, <1>4, <1>5, <1>6, <1>7, ZenonT(40)
<1> QED  BY <1>3, <1>8 DEF d

-----------------------------------------------------------------------------
(* How far two commits are the same, and what one has past the other.      *)
LEMMA ForkIs ==
  ASSUME NEW c \in Seq(SUBSET Words), NEW d \in Seq(SUBSET Words)
  PROVE  /\ Fork(c, d) \in 0..Len(c) /\ Fork(c, d) <= Len(d)
         /\ \A n \in 1..Fork(c, d) : c[n] = d[n]
<1> DEFINE Alike(n) == IsPrefix(SubSeq(c, 1, n), d)
           Differ == {n \in 0..Len(c) : ~Alike(n)}
<1>1. Len(c) \in Nat /\ Len(d) \in Nat  OBVIOUS
<1>2. Alike(0)
  <2>1. SubSeq(c, 1, 0) = <<>> /\ Len(SubSeq(c, 1, 0)) = 0  BY SubFacts
  <2>2. SubSeq(d, 1, 0) = <<>>  OBVIOUS
  <2> QED  BY <1>1, <2>1, <2>2 DEF IsPrefix
<1> HIDE DEF Alike
<1>3. \E n \in 0..Len(c) : Alike(n) /\ (n = Len(c) \/ ~Alike(n + 1))
  <2>1. CASE Differ = {}
    <3>1. Len(c) \in 0..Len(c)  BY <1>1
    <3> QED  BY <2>1, <3>1
  <2>2. CASE Differ # {}
    <3>1. Differ \subseteq Nat  BY <1>1
    <3>2. PICK m \in Differ : \A k \in Differ : m <= k  BY <2>2, <3>1, LeastNumber
    <3>3. m \in Nat /\ m # 0 /\ m <= Len(c) /\ ~Alike(m)  BY <1>1, <1>2, <3>2
    <3>4. m - 1 \in 0..Len(c) /\ (m - 1) + 1 = m /\ m - 1 < m  BY <1>1, <3>3
    <3>5. Alike(m - 1)  BY <3>1, <3>2, <3>4
    <3> QED  BY <3>3, <3>4, <3>5
  <2> QED  BY <2>1, <2>2
<1> DEFINE f == Fork(c, d)
<1>4. f \in 0..Len(c) /\ Alike(f)  BY <1>3 DEF Fork, Alike
<1> HIDE DEF f
<1>5. /\ SubSeq(c, 1, f) \in Seq(SUBSET Words) /\ Len(SubSeq(c, 1, f)) = f
      /\ \A n \in 1..f : SubSeq(c, 1, f)[n] = c[n]
  <2>1. f \in Nat /\ 1 \in 1..(Len(c) + 1)  BY <1>1, <1>4
  <2>2. /\ SubSeq(c, 1, f) \in Seq(SUBSET Words) /\ Len(SubSeq(c, 1, f)) = IF 1 <= f THEN f - 1 + 1 ELSE 0
        /\ \A n \in 1..Len(SubSeq(c, 1, f)) : SubSeq(c, 1, f)[n] = c[n + 1 - 1]
    BY <1>4, <2>1, SubFacts
  <2>3. Len(SubSeq(c, 1, f)) = f  BY <2>1, <2>2
  <2>4. \A n \in 1..f : n + 1 - 1 = n  BY <2>1
  <2> QED  BY <2>2, <2>3, <2>4
<1>6. IsPrefix(SubSeq(c, 1, f), d)  BY <1>4 DEF Alike
<1>7. f <= Len(d) /\ \A n \in 1..f : SubSeq(c, 1, f)[n] = d[n]  BY <1>5, <1>6, PrefixIs, ZenonT(40)
<1>8. \A n \in 1..f : c[n] = d[n]  BY <1>5, <1>7
<1> QED  BY <1>4, <1>7, <1>8 DEF f

LEMMA SinceIs ==
  ASSUME NEW c \in Seq(SUBSET Words), NEW d \in Seq(SUBSET Words)
  PROVE  /\ Since(c, d) \in Seq(SUBSET Words)
         /\ ToSet(Since(c, d)) = {c[n] : n \in Fork(c, d) + 1 .. Len(c)}
<1>1. Len(c) \in Nat /\ Fork(c, d) \in 0..Len(c)  BY ForkIs
<1>2. Fork(c, d) + 1 \in 1..(Len(c) + 1) /\ Len(c) \in 0..Len(c)  BY <1>1
<1> DEFINE m == Fork(c, d) + 1
           s == Since(c, d)
<1>3. /\ s \in Seq(SUBSET Words)
      /\ \A i \in 1..Len(s) : i + m - 1 \in m..Len(c) /\ s[i] = c[i + m - 1]
      /\ \A i \in m..Len(c) : i - m + 1 \in 1..Len(s) /\ c[i] = s[i - m + 1]
  <2>1. m \in 1..(Len(c) + 1) /\ s = SubSeq(c, m, Len(c))  BY <1>2 DEF Since
  <2> HIDE DEF m, s
  <2>2. /\ SubSeq(c, m, Len(c)) \in Seq(SUBSET Words)
        /\ \A i \in 1..Len(SubSeq(c, m, Len(c))) : i + m - 1 \in m..Len(c) /\ SubSeq(c, m, Len(c))[i] = c[i + m - 1]
        /\ \A i \in m..Len(c) :
              i - m + 1 \in 1..Len(SubSeq(c, m, Len(c))) /\ c[i] = SubSeq(c, m, Len(c))[i - m + 1]
    BY <1>2, <2>1, SubFacts
  <2> QED  BY <2>1, <2>2
<1> HIDE DEF m, s
<1>4. ToSet(s) = {s[n] : n \in 1..Len(s)}
  <2>1. DOMAIN s = 1..Len(s)  BY <1>3
  <2> QED  BY <2>1, Zenon DEF ToSet
<1>5. ToSet(s) = {c[n] : n \in m..Len(c)}
  <2>1. ASSUME NEW n \in 1..Len(s)  PROVE \E k \in m..Len(c) : s[n] = c[k]  BY <1>3
  <2>2. ASSUME NEW k \in m..Len(c)  PROVE \E n \in 1..Len(s) : s[n] = c[k]  BY <1>3
  <2> DEFINE A == {s[n] : n \in 1..Len(s)}
             B == {c[n] : n \in m..Len(c)}
  <2>3. \A x \in A : x \in B
    <3> SUFFICES ASSUME NEW x \in A  PROVE x \in B  OBVIOUS
    <3>1. PICK n \in 1..Len(s) : x = s[n]  OBVIOUS
    <3> QED  BY <2>1, <3>1
  <2>4. \A x \in B : x \in A
    <3> SUFFICES ASSUME NEW x \in B  PROVE x \in A  OBVIOUS
    <3>1. PICK k \in m..Len(c) : x = c[k]  OBVIOUS
    <3>2. PICK n \in 1..Len(s) : s[n] = c[k]  BY <2>2
    <3> QED  BY <3>1, <3>2
  <2>5. A = B
    <3> HIDE DEF A, B
    <3> QED  BY <2>3, <2>4
  <2> QED  BY <1>4, <2>5
<1> QED  BY <1>3, <1>5 DEF m, s

LEMMA SinceHolds ==
  ASSUME NEW c \in Commits, NEW d \in Commits
  PROVE  /\ Holds(c) \subseteq Holds(d) \cup UNION ToSet(Since(c, d))
         /\ \A change \in ToSet(Since(c, d)) : change \subseteq Holds(c)
<1>1. /\ c \in Seq(SUBSET Words) /\ d \in Seq(SUBSET Words) /\ c # Nil /\ d # Nil /\ Len(c) \in Nat /\ Len(d) \in Nat
  BY CommitIs
<1>2. /\ Fork(c, d) \in 0..Len(c) /\ Fork(c, d) <= Len(d)
      /\ \A n \in 1..Fork(c, d) : c[n] = d[n]
  BY <1>1, ForkIs
<1>3. ToSet(Since(c, d)) = {c[n] : n \in Fork(c, d) + 1 .. Len(c)}  BY <1>1, SinceIs
<1>4. \A x : /\ x \in Holds(c) <=> \E n \in 1..Len(c) : x \in c[n]
             /\ x \in Holds(d) <=> \E n \in 1..Len(d) : x \in d[n]
  BY <1>1, HoldsIs
<1>5. ASSUME NEW x \in Holds(c)  PROVE x \in Holds(d) \cup UNION ToSet(Since(c, d))
  <2>1. PICK n \in 1..Len(c) : x \in c[n]  BY <1>4, <1>5
  <2>2. CASE n <= Fork(c, d)
    <3>1. n \in 1..Fork(c, d) /\ n \in 1..Len(d)  BY <1>1, <1>2, <2>2
    <3> QED  BY <1>2, <1>4, <2>1, <3>1
  <2>3. CASE ~(n <= Fork(c, d))
    <3>1. n \in Fork(c, d) + 1 .. Len(c)  BY <1>1, <1>2, <2>3
    <3> QED  BY <1>3, <2>1, <3>1
  <2> QED  BY <2>2, <2>3
<1>6. \A n \in Fork(c, d) + 1 .. Len(c) : n \in 1..Len(c)  BY <1>1, <1>2
<1>7. \A change \in ToSet(Since(c, d)) : change \subseteq Holds(c)  BY <1>3, <1>4, <1>6
<1> QED  BY <1>5, <1>7

(* A branch that has landed on its base has nothing that the base has not. *)
LEMMA LandedHolds ==
  ASSUME NEW b, NEW base, local[b] \in Commits, CommitOf(base, local[b]) \in Commits, landed(b, base)
  PROVE  Holds(local[b]) \subseteq Holds(CommitOf(base, local[b]))
<1> DEFINE c == local[b]
           d == CommitOf(base, local[b])
<1>1. ToSet(Since(c, d)) \subseteq ToSet(Since(d, c)) \/ UNION ToSet(Since(c, d)) \in ToSet(Since(d, c))
  BY DEF landed
<1>2. c \in Commits /\ d \in Commits  OBVIOUS
<1> HIDE DEF c, d
<1>3. /\ Holds(c) \subseteq Holds(d) \cup UNION ToSet(Since(c, d))
      /\ \A change \in ToSet(Since(d, c)) : change \subseteq Holds(d)
  BY <1>2, SinceHolds
<1>4. UNION ToSet(Since(c, d)) \subseteq Holds(d)
  <2>1. CASE ToSet(Since(c, d)) \subseteq ToSet(Since(d, c))  BY <1>3, <2>1
  <2>2. CASE UNION ToSet(Since(c, d)) \in ToSet(Since(d, c))  BY <1>3, <2>2
  <2> QED  BY <1>1, <2>1, <2>2
<1> QED  BY <1>3, <1>4 DEF c, d

(* Where nothing of a commit is past others, one of them has all of it.    *)
LEMMA NothingPast ==
  ASSUME NEW c \in Commits, NEW those \in SUBSET (Commits \cup {Nil}), Past(c, those) = {}
  PROVE  \E d \in those \ {Nil} : Holds(c) \subseteq Holds(d)
<1>1. c \in Seq(SUBSET Words) /\ Len(c) \in Nat \ {0}  BY CommitIs
<1>2. Len(c) \in 1..Len(c) /\ SubSeq(c, 1, Len(c)) = c  BY <1>1
<1>3. PICK d \in those \ {Nil} : IsPrefix(c, d)
  <2> DEFINE Of(n, d) == IsPrefix(SubSeq(c, 1, n), d)
  <2>1. \A d : Of(Len(c), d) <=> IsPrefix(c, d)  BY <1>2
  <2>2. ~\A d \in those \ {Nil} : ~Of(Len(c), d)
    <3>1. Past(c, those) = {n \in 1..Len(c) : \A d \in those \ {Nil} : ~Of(n, d)}  BY DEF Past
    <3> HIDE DEF Of
    <3> QED  BY <1>2, <3>1
  <2> QED  BY <2>1, <2>2
<1>4. Holds(c) \subseteq Holds(d)  BY <1>3, PrefixHolds
<1> QED  BY <1>4

LEMMA NoneIsNothing ==
  ASSUME NEW c \in Commits, NEW those, Cardinality(Past(c, those)) = 0
  PROVE  Past(c, those) = {}
<1>1. Len(c) \in Nat  BY CommitIs
<1>2. IsFiniteSet(1..Len(c))  BY <1>1, FS_Interval
<1>3. Past(c, those) \in SUBSET (1..Len(c))  BY DEF Past
<1>4. IsFiniteSet(Past(c, those))  BY <1>2, <1>3, FS_Subset
<1> QED  BY <1>4, FS_EmptySet

-----------------------------------------------------------------------------
(* Rebase: each commit that is copied has a place of its own.              *)
LEMMA Ranks ==
  ASSUME NEW S \in SUBSET Nat, IsFiniteSet(S)
  PROVE  /\ \A i \in 1..Cardinality(S) : Nth(S, i) \in S
         /\ \A k \in S : \E i \in 1..Cardinality(S) : Nth(S, i) = k
<1> DEFINE UpTo(k) == {m \in S : m <= k}
           rank == [k \in S |-> Cardinality(UpTo(k))]
           N == Cardinality(S)
<1>1. \A k \in S : /\ UpTo(k) \in SUBSET S /\ IsFiniteSet(UpTo(k)) /\ Cardinality(UpTo(k)) \in Nat
                   /\ Cardinality(UpTo(k)) <= N
  <2> SUFFICES ASSUME NEW k \in S
               PROVE  /\ UpTo(k) \in SUBSET S /\ IsFiniteSet(UpTo(k)) /\ Cardinality(UpTo(k)) \in Nat
                      /\ Cardinality(UpTo(k)) <= N
    OBVIOUS
  <2>1. UpTo(k) \in SUBSET S  OBVIOUS
  <2> HIDE DEF UpTo
  <2>2. IsFiniteSet(UpTo(k)) /\ Cardinality(UpTo(k)) <= N  BY <2>1, FS_Subset
  <2>3. Cardinality(UpTo(k)) \in Nat  BY <2>2, FS_CardinalityType
  <2> QED  BY <2>1, <2>2, <2>3
<1>2. \A k \in S : Cardinality(UpTo(k)) # 0
  <2> SUFFICES ASSUME NEW k \in S  PROVE Cardinality(UpTo(k)) # 0  OBVIOUS
  <2>1. k \in UpTo(k)  OBVIOUS
  <2> HIDE DEF UpTo
  <2> QED  BY <1>1, <2>1, FS_EmptySet
<1>3. N \in Nat  BY FS_CardinalityType
<1>4. \A k \in S : Cardinality(UpTo(k)) \in 1..N
  <2> SUFFICES ASSUME NEW k \in S  PROVE Cardinality(UpTo(k)) \in 1..N  OBVIOUS
  <2> HIDE DEF UpTo, N
  <2> QED  BY <1>1, <1>2, <1>3
<1>5. \A k, l \in S : Cardinality(UpTo(k)) = Cardinality(UpTo(l)) => k = l
  <2>1. \A k, l \in S : k < l => Cardinality(UpTo(k)) # Cardinality(UpTo(l))
    <3> SUFFICES ASSUME NEW k \in S, NEW l \in S, k < l, Cardinality(UpTo(k)) = Cardinality(UpTo(l))  PROVE FALSE
      OBVIOUS
    <3>1. k \in Nat /\ l \in Nat  OBVIOUS
    <3>2. UpTo(k) \in SUBSET UpTo(l)
      <4> SUFFICES ASSUME NEW m \in S, m <= k  PROVE m <= l  OBVIOUS
      <4>1. m \in Nat  OBVIOUS
      <4> QED  BY <3>1, <4>1
    <3>3. l \in UpTo(l)  BY <3>1
    <3>4. l \notin UpTo(k)  BY <3>1
    <3> HIDE DEF UpTo
    <3>5. UpTo(l) = UpTo(k)  BY <1>1, <3>2, FS_Subset
    <3> QED  BY <3>3, <3>4, <3>5
  <2> HIDE DEF UpTo
  <2>2. \A k, l \in S : k \in Nat /\ l \in Nat /\ (k = l \/ k < l \/ l < k)  OBVIOUS
  <2> QED  BY <2>1, <2>2
<1>6. rank \in Injection(S, 1..N)
  <2> HIDE DEF UpTo, N
  <2>1. rank \in [S -> 1..N]  BY <1>4
  <2>2. \A k, l \in S : rank[k] = rank[l] => k = l  BY <1>5
  <2> QED  BY <2>1, <2>2 DEF Injection, IsInjective
<1>7. Cardinality(1..N) = N /\ IsFiniteSet(1..N)
  <2> HIDE DEF N
  <2>1. IsFiniteSet(1..N) /\ Cardinality(1..N) = IF 1 > N THEN 0 ELSE N - 1 + 1  BY <1>3, FS_Interval
  <2> QED  BY <1>3, <2>1
<1>8. rank \in Surjection(S, 1..N)
  <2> HIDE DEF rank
  <2> QED  BY <1>6, <1>7, FS_Injection
<1>9. \A i \in 1..N : \E k \in S : Cardinality(UpTo(k)) = i
  <2>1. \A i \in 1..N : \E k \in S : rank[k] = i
    <3> HIDE DEF rank
    <3> QED  BY <1>8 DEF Surjection
  <2> HIDE DEF UpTo
  <2> QED  BY <2>1
<1>10. \A i \in 1..N : Nth(S, i) \in S /\ Cardinality(UpTo(Nth(S, i))) = i
  <2> SUFFICES ASSUME NEW i \in 1..N  PROVE Nth(S, i) \in S /\ Cardinality(UpTo(Nth(S, i))) = i  OBVIOUS
  <2>1. Nth(S, i) = CHOOSE n \in S : Cardinality(UpTo(n)) = i  BY DEF Nth
  <2> HIDE DEF UpTo
  <2> QED  BY <1>9, <2>1
<1>11. ASSUME NEW k \in S  PROVE \E i \in 1..N : Nth(S, i) = k
  <2> HIDE DEF UpTo, N
  <2>1. Cardinality(UpTo(k)) \in 1..N  BY <1>4
  <2>2. Nth(S, Cardinality(UpTo(k))) = k  BY <1>5, <1>10, <2>1
  <2> QED  BY <2>1, <2>2
<1> QED  BY <1>10, <1>11

(* What a rebase leaves behind is in the old base, or in the new one.      *)
LEMMA RebaseHolds ==
  ASSUME NEW c \in Commits, NEW old \in Commits, NEW new \in Commits
  PROVE  /\ Rebased(c, old, new) \in Commits /\ Holds(new) \subseteq Holds(Rebased(c, old, new))
         /\ Holds(c) \subseteq Holds(old) \cup Holds(Rebased(c, old, new))
<1> DEFINE those == Copies(c, old, new)
           N == Cardinality(those)
           f == [i \in 1..N |-> c[Nth(those, i)]]
<1>1. /\ c \in Seq(SUBSET Words) /\ old \in Seq(SUBSET Words) /\ Len(c) \in Nat \ {0}
      /\ \A n \in 1..Len(c) : c[n] \subseteq Words
  BY CommitIs
<1>2. Fork(c, old) \in 0..Len(c)  BY <1>1, ForkIs
<1>3. those \in SUBSET (1..Len(c))
  <2>1. \A n \in Fork(c, old) + 1 .. Len(c) : n \in 1..Len(c)  BY <1>1, <1>2
  <2> QED  BY <2>1 DEF Copies
<1>4. \A n \in Fork(c, old) + 1 .. Len(c) : n \in those \/ c[n] \in ToSet(Since(old, c)) \/ c[n] \subseteq Holds(new)
  BY DEF Copies
<1> HIDE DEF those
<1>5. IsFiniteSet(those) /\ those \in SUBSET Nat /\ N \in Nat
  <2>1. IsFiniteSet(1..Len(c))  BY <1>1, FS_Interval
  <2>2. IsFiniteSet(those)  BY <1>3, <2>1, FS_Subset
  <2> QED  BY <1>3, <2>2, FS_CardinalityType
<1>6. /\ \A i \in 1..N : Nth(those, i) \in those
      /\ \A k \in those : \E i \in 1..N : Nth(those, i) = k
  BY <1>5, Ranks
<1> HIDE DEF N
<1>7. \A i \in 1..N : c[Nth(those, i)] \in SUBSET Words  BY <1>1, <1>3, <1>6
<1>8. f \in Seq(SUBSET Words) /\ Len(f) = N /\ DOMAIN f = 1..N  BY <1>5, <1>7
<1>9. \A k \in those : c[k] \in ToSet(f)
  <2> SUFFICES ASSUME NEW k \in those  PROVE c[k] \in ToSet(f)  OBVIOUS
  <2>1. PICK i \in 1..N : Nth(those, i) = k  BY <1>6
  <2>2. f[i] = c[k]  BY <2>1
  <2> QED  BY <1>8, <2>1, <2>2 DEF ToSet
<1>10. Rebased(c, old, new) = new \o f  BY DEF Rebased, those, N
<1> HIDE DEF f
<1>11. new \o f \in Commits /\ Holds(new \o f) = Holds(new) \cup UNION ToSet(f)  BY <1>8, ConcatHolds
<1>12. /\ Holds(c) \subseteq Holds(old) \cup UNION ToSet(Since(c, old))
       /\ \A change \in ToSet(Since(old, c)) : change \subseteq Holds(old)
  BY SinceHolds
<1>13. ToSet(Since(c, old)) = {c[n] : n \in Fork(c, old) + 1 .. Len(c)}  BY <1>1, SinceIs
<1>14. ASSUME NEW x \in Holds(c)  PROVE x \in Holds(old) \cup Holds(new \o f)
  <2> SUFFICES ASSUME x \notin Holds(old)  PROVE x \in Holds(new \o f)  OBVIOUS
  <2>1. PICK n \in Fork(c, old) + 1 .. Len(c) : x \in c[n]  BY <1>12, <1>13, <1>14
  <2>2. CASE n \in those  BY <1>9, <1>11, <2>1, <2>2
  <2>3. CASE c[n] \in ToSet(Since(old, c))  BY <1>12, <2>1, <2>3
  <2>4. CASE c[n] \subseteq Holds(new)  BY <1>11, <2>1, <2>4
  <2> QED  BY <1>4, <2>1, <2>2, <2>3, <2>4
<1> QED  BY <1>10, <1>11, <1>14

-----------------------------------------------------------------------------
(* What a base is, and that it is kept when the branch goes.               *)
LEMMA RootIs == Root \in Commits /\ Holds(Root) = {"root"}
<1>1. Root \in Seq(SUBSET Words) /\ Len(Root) = 1 /\ Root[1] = {"root"}  BY DEF Root, Words
<1>2. Root # <<>>  BY <1>1
<1>3. Root \in Commits  BY <1>1, <1>2 DEF Commits
<1> HIDE DEF Root
<1>4. \A x : x \in Holds(Root) <=> \E n \in 1..Len(Root) : x \in Root[n]  BY <1>3, CommitIs, HoldsIs
<1> QED  BY <1>1, <1>3, <1>4

LEMMA NamesAre ==
  /\ "main" \in Refs /\ "pr" \in Refs /\ Names \subseteq Refs /\ "main" \notin Names
  /\ "HEAD" \notin Refs /\ "v1" \notin Refs /\ "root" \notin Patches
BY DEF Names, Refs

LEMMA CommitOfIs ==
  ASSUME WorktreeTypeOK, NEW base \in Bases, NEW head \in Commits \cup {Nil}
  PROVE  CommitOf(base, head) \in Commits \cup {Nil}
BY RootIs DEF WorktreeTypeOK, CommitOf, Bases

LEMMA NotOfItself ==
  ASSUME NEW b \in Names, NEW base \in Bases \ OfItself(b)
  PROVE  \A c, d : CommitOf(base, c) = CommitOf(base, d)
BY NamesAre DEF CommitOf, Bases, OfItself

LEMMA BaseSafe ==
  ASSUME WorktreeTypeOK, RefsOK, NEW b \in Names, NEW base \in Bases \ OfItself(b), NEW head
  PROVE  Holds(CommitOf(base, head)) \subseteq Safe(b)
<1>1. CASE base[1] = "remote"
  <2>1. base[2] \in Refs  BY <1>1 DEF Bases
  <2> QED  BY <1>1, <2>1 DEF CommitOf, RefsOK, Safe
<1>2. CASE base[1] # "remote"
  <2>1. base[2] # "HEAD" /\ base[2] # b /\ base[2] \in Refs \cup {"v1"}  BY <1>2, NamesAre DEF Bases, OfItself
  <2>2. CASE base[2] = "v1"
    <3>1. CommitOf(base, head) = Root  BY <1>2, <2>2 DEF CommitOf
    <3>2. Holds(CommitOf(base, head)) = {"root"}  BY <3>1, RootIs
    <3>3. "root" \in Safe(b)  BY DEF Safe
    <3> QED  BY <3>2, <3>3
  <2>3. CASE base[2] # "v1"
    <3>1. CommitOf(base, head) = local[base[2]]  BY <1>2, <2>1, <2>3 DEF CommitOf
    <3> QED  BY <2>1, <2>3, <3>1 DEF Safe
  <2> QED  BY <2>2, <2>3
<1> QED  BY <1>1, <1>2

LEMMA ResolvedIs ==
  ASSUME WorktreeTypeOK, RefsOK, NEW b \in Names, NEW given \in (Bases \cup {Nil}) \ OfItself(b), resolveBase(given) # Nil
  PROVE  /\ resolveBase(given) \in Bases \ OfItself(b)
         /\ \A head : CommitOf(resolveBase(given), head) # Nil
<1> DEFINE base == resolveBase(given)
<1>1. base \in Bases \ OfItself(b) /\ CommitOf(base, local["main"]) # Nil
  <2>1. CASE given = Nil
    <3>1. base = DefaultBase  BY <2>1 DEF resolveBase
    <3> QED  BY <3>1, NamesAre DEF DefaultBase, Bases, OfItself, CommitOf, RefsOK
  <2>2. CASE given # Nil /\ given[1] = "bare" /\ OnRemote(given[2])
    <3>1. base = <<"remote", IF given[2] = "HEAD" THEN "main" ELSE given[2]>>  BY <2>2 DEF resolveBase
    <3>2. base[2] \in Refs /\ tracked[base[2]] # Nil  BY <2>2, <3>1, NamesAre DEF OnRemote, RefsOK
    <3> QED  BY <3>1, <3>2 DEF Bases, OfItself, CommitOf
  <2>3. CASE given # Nil /\ ~(given[1] = "bare" /\ OnRemote(given[2]))
    <3>1. base = given /\ resolves(given)  BY <2>3 DEF resolveBase
    <3> QED  BY <2>3, <3>1 DEF resolves
  <2> QED  BY <2>1, <2>2, <2>3
<1> HIDE DEF base
<1>2. \A head : CommitOf(base, head) # Nil  BY <1>1, NotOfItself
<1> QED  BY <1>1, <1>2 DEF base

LEMMA RecordedIs ==
  ASSUME WorktreeTypeOK, RefsOK, NEW b \in Names
  PROVE  recordedBase(b) \in (Bases \cup {Nil}) \ OfItself(b)
<1>1. cfg[b] \in Bases \cup {Nil} /\ cfg[b] \notin OfItself(b)  BY NamesAre DEF WorktreeTypeOK, RefsOK
<1>2. Nil \notin OfItself(b)  BY NamesAre DEF OfItself, Bases
<1> QED  BY <1>1, <1>2 DEF recordedBase

(* A branch without anything of its own, or that has landed, can go.       *)
LEMMA OwnSafe ==
  ASSUME WorktreeTypeOK, RefsOK, NEW b \in Names, local[b] # Nil, own(b) = {}
  PROVE  Holds(local[b]) \subseteq Safe(b)
<1> DEFINE base == recordedBase(b)
           those == Elsewhere(b, IF base = Nil THEN {} ELSE {CommitOf(base, local[b])})
<1>1. local[b] \in Commits  BY NamesAre DEF WorktreeTypeOK
<1>2. base \in (Bases \cup {Nil}) \ OfItself(b)  BY RecordedIs
<1>3. base # Nil => CommitOf(base, local[b]) \in Commits \cup {Nil}  BY <1>1, <1>2, CommitOfIs
<1>4. those \in SUBSET (Commits \cup {Nil})  BY <1>3, NamesAre DEF Elsewhere, WorktreeTypeOK
<1>5. Past(local[b], those) = {}  BY DEF own
<1>6. \A d \in those : Holds(d) \subseteq Safe(b)
  <2>1. Holds(local["main"]) \subseteq Safe(b)  BY NamesAre DEF Safe
  <2>2. \A r \in Refs : Holds(tracked[r]) \subseteq Safe(b)  BY DEF Safe, RefsOK
  <2>3. base # Nil => Holds(CommitOf(base, local[b])) \subseteq Safe(b)  BY <1>2, BaseSafe
  <2> QED  BY <2>1, <2>2, <2>3 DEF Elsewhere
<1> HIDE DEF those
<1>7. \E d \in those \ {Nil} : Holds(local[b]) \subseteq Holds(d)  BY <1>1, <1>4, <1>5, NothingPast
<1> QED  BY <1>6, <1>7

LEMMA LandedSafe ==
  ASSUME WorktreeTypeOK, RefsOK, NEW b \in Names, local[b] # Nil,
         landingBase(b) # Nil, landed(b, landingBase(b))
  PROVE  Holds(local[b]) \subseteq Safe(b)
<1> DEFINE base == landingBase(b)
<1>1. local[b] \in Commits  BY NamesAre DEF WorktreeTypeOK
<1>2. base \in Bases \ OfItself(b) /\ CommitOf(base, local[b]) # Nil  BY RecordedIs, ResolvedIs DEF landingBase
<1> HIDE DEF base
<1>3. CommitOf(base, local[b]) \in Commits  BY <1>1, <1>2, CommitOfIs
<1>4. landed(b, base)  BY DEF base
<1>5. Holds(local[b]) \subseteq Holds(CommitOf(base, local[b]))  BY <1>1, <1>3, <1>4, LandedHolds
<1> QED  BY <1>2, <1>5, BaseSafe

-----------------------------------------------------------------------------
(* Steps that change no ref and no worktree.                               *)
LEMMA WorktreeInitInv == ASSUME WorktreeInit  PROVE WorktreeInv
<1> USE DEF WorktreeInit, Nowhere, Idle, Nothing
<1>1. Append(Root, {"v"}) \in Commits /\ Append(Root, {"u"}) \in Commits /\ Root \in Commits
  BY RootIs, AppendHolds DEF Words
<1>2. /\ local \in [Refs -> Commits \cup {Nil}] /\ tracked \in [Refs -> Commits \cup {Nil}]
      /\ remote \in [Refs -> Commits \cup {Nil}]
  <2>1. local \in [Refs -> Commits \cup {Nil}]  BY <1>1, NamesAre
  <2>2. tracked \in [Refs -> Commits \cup {Nil}]  BY <2>1
  <2>3. CASE origin
    <3>1. PICK b \in Branches, c \in {Nil, Append(Root, {"u"})} :
            remote = [tracked EXCEPT !["pr"] = Append(Root, {"v"}), ![b] = c]
      BY <2>3
    <3>2. c \in Commits \cup {Nil}  BY <1>1
    <3> HIDE DEF WorktreeInit
    <3>3. remote \in [Refs -> Commits \cup {Nil}]  BY <1>1, <2>2, <3>1, <3>2
    <3> QED  BY <2>1, <2>2, <3>3
  <2>4. CASE ~origin
    <3>1. remote = tracked  BY <2>4
    <3> QED  BY <2>1, <2>2, <3>1
  <2> QED  BY <2>3, <2>4
<1>3. job \in Jobs /\ found \in Finds  BY DEF Jobs, Finds
<1>4. WorktreeTypeOK  BY <1>2, <1>3 DEF WorktreeTypeOK, WorktreeSteps
<1>5. RefsOK
  <2>1. local["main"] # Nil  BY <1>1, NamesAre, CommitIs
  <2>2. origin => tracked["main"] # Nil /\ remote["main"] # Nil
    <3> SUFFICES ASSUME origin  PROVE tracked["main"] # Nil /\ remote["main"] # Nil  OBVIOUS
    <3>1. tracked = local  OBVIOUS
    <3>2. remote["main"] = tracked["main"]  BY NamesAre DEF Names
    <3> QED  BY <2>1, <3>1, <3>2
  <2>3. ASSUME NEW r \in Refs  PROVE Holds(tracked[r]) \subseteq Pushed
    <3>1. tracked[r] = Nil \/ (r = "main" /\ tracked[r] = remote[r])  BY NamesAre DEF Names
    <3> QED  BY <3>1 DEF Holds, Pushed
  <2>4. \A w \in Names : wt[w] = Nil  OBVIOUS
  <2>5. \A b \in Names : cfg[b] \notin OfItself(b)  BY NamesAre DEF OfItself, Bases
  <2> QED  BY <2>1, <2>2, <2>3, <2>4, <2>5 DEF RefsOK
<1>6. AddOK /\ RemoveOK /\ LossOK  BY DEF AddOK, RemoveOK, LossOK, Looked
<1>7. NothingLost  BY DEF NothingLost
<1> QED  BY <1>4, <1>5, <1>6, <1>7 DEF WorktreeInv

LEMMA Still ==
  ASSUME RefsOK, NothingLost, UNCHANGED <<origin, refs, config, places, used>>, letGo \subseteq letGo'
  PROVE  RefsOK' /\ NothingLost'
<1>1. RefsOK'  BY DEF RefsOK, Pushed, refs, config, places
<1>2. Kept' = Kept  BY DEF Kept, Pushed, refs, places
<1> QED  BY <1>1, <1>2 DEF NothingLost

LEMMA StartStep == ASSUME WorktreeInv, NEW q \in Requests, Start(q)  PROVE WorktreeInv'
<1>1. RefsOK' /\ NothingLost'  BY Still DEF WorktreeInv, Start, history
<1>2. q \in Jobs /\ q.op \in {"add", "remove", "none"} /\ Nothing \in Finds
  BY RequestsAssumption DEF Jobs, Nothing, Finds
<1>3. job' = q /\ found' = Nothing /\ step' \in {"fetch", "find"} /\ (step' = "fetch" => q.op = "add")
      /\ UNCHANGED <<origin, refs, config, places, history>>
  BY DEF Start
<1>4. WorktreeTypeOK'
  BY <1>2, <1>3 DEF WorktreeInv, WorktreeTypeOK, WorktreeSteps, refs, config, places, history
<1>5. AddOK' /\ RemoveOK' /\ LossOK'  BY <1>3 DEF AddOK, RemoveOK, LossOK, Looked
<1> QED  BY <1>1, <1>4, <1>5 DEF WorktreeInv

LEMMA EndsIs == ASSUME Ends  PROVE /\ step' = "idle" /\ job' \in Jobs /\ found' \in Finds /\ UNCHANGED origin
                                   /\ AddOK' /\ RemoveOK' /\ LossOK'
<1>1. step' = "idle" /\ UNCHANGED origin  BY DEF Ends, Goes
<1>2. AddOK' /\ RemoveOK' /\ LossOK'  BY <1>1 DEF AddOK, RemoveOK, LossOK, Looked
<1>3. job' \in Jobs /\ found' \in Finds  BY DEF Ends, Idle, Nothing, Jobs, Finds
<1> QED  BY <1>1, <1>2, <1>3

LEMMA StopsStep == ASSUME WorktreeInv, Stops \/ Prepares  PROVE WorktreeInv'
<1>1. Ends /\ UNCHANGED <<refs, config, places, history>>  BY DEF Stops, Prepares
<1>2. RefsOK' /\ NothingLost'  BY <1>1, EndsIs, Still DEF WorktreeInv, history
<1>3. WorktreeTypeOK'
  BY <1>1, EndsIs DEF WorktreeInv, WorktreeTypeOK, WorktreeSteps, refs, config, places, history
<1> QED  BY <1>1, <1>2, <1>3, EndsIs DEF WorktreeInv

LEMMA ResolvesStep == ASSUME WorktreeInv, Resolves  PROVE WorktreeInv'
<1>0. PICK base : base = resolveBase(job.base)  OBVIOUS
<1>1. /\ step = "base" /\ base # Nil /\ found' = [found EXCEPT !.ref = base] /\ step' = "place"
      /\ UNCHANGED <<origin, refs, config, places, job, history>>
  BY <1>0 DEF Resolves, Goes
<1>2. WorktreeTypeOK /\ RefsOK /\ AddOK /\ job \in Jobs /\ found \in Finds  BY DEF WorktreeInv, WorktreeTypeOK
<1>3. job.branch \in Names /\ job.base \in (Bases \cup {Nil}) \ OfItself(job.branch)
  BY <1>1, <1>2 DEF AddOK, Jobs
<1>4. base \in Bases \ OfItself(job.branch) /\ CommitOf(base, Nil) # Nil  BY <1>0, <1>1, <1>2, <1>3, ResolvedIs
<1>5. RefsOK' /\ NothingLost'  BY <1>1, Still DEF WorktreeInv, history
<1>6. found' \in Finds /\ found'.ref = base  BY <1>1, <1>2, <1>4 DEF Finds
<1>7. WorktreeTypeOK'
  BY <1>1, <1>6 DEF WorktreeInv, WorktreeTypeOK, WorktreeSteps, refs, config, places, history
<1>8. AddOK'
  <2>1. CommitOf(base, Nil)' = CommitOf(base, Nil)  BY <1>1 DEF CommitOf, refs
  <2> QED  BY <1>1, <1>2, <1>3, <1>4, <1>6, <2>1 DEF AddOK, refs
<1>9. RemoveOK' /\ LossOK'  BY <1>1 DEF RemoveOK, LossOK, Looked
<1> QED  BY <1>5, <1>7, <1>8, <1>9 DEF WorktreeInv

LEMMA SafeStays ==
  ASSUME NEW b, local' = local, Pushed \subseteq Pushed', letGo \subseteq letGo'
  PROVE  Safe(b) \subseteq Safe(b)'
BY DEF Safe

LEMMA CommitOfStays ==
  ASSUME NEW base, NEW head, local' = local, tracked' = tracked
  PROVE  CommitOf(base, head)' = CommitOf(base, head)
BY DEF CommitOf

LEMMA TypesAre ==
  ASSUME WorktreeInv
  PROVE  /\ WorktreeTypeOK /\ RefsOK /\ AddOK /\ RemoveOK /\ LossOK /\ NothingLost
         /\ job \in Jobs /\ found \in Finds /\ job.branch \in Names \cup {Nil} /\ Nil \notin Names
         /\ job.base \in Bases \cup {Nil} /\ found.at \in Names \cup {Nil} /\ found.n \in Nat
         /\ \A w \in Names : wt[w] \in Trees \cup {Nil} /\ (wt[w] # Nil => wt[w].branch \in Names /\ local[wt[w].branch] \in Commits)
BY NamesAre DEF WorktreeInv, WorktreeTypeOK, Jobs, Finds, Trees, RefsOK

LEMMA ShownIs ==
  ASSUME WorktreeInv, NEW w \in Names, NEW b \in Names, Shown(w) = b
  PROVE  wt[w] # Nil /\ wt[w].branch = b
BY TypesAre DEF Shown

LEMMA FindPlaceStep == ASSUME WorktreeInv, FindPlace  PROVE WorktreeInv'
<1>1. PICK w \in Names :
        /\ wt[w] # Nil => Shown(w) = job.branch
        /\ found' = [found EXCEPT !.at = w] /\ step' = IF wt[w] = Nil THEN "make" ELSE "upstream"
        /\ UNCHANGED <<origin, refs, config, places, job, history>> /\ step = "place"
  BY DEF FindPlace, Goes
<1>2. PICK b, base : b = job.branch /\ base = found.ref  OBVIOUS
<1>3. b \in Names /\ base \in Bases \ OfItself(b) /\ CommitOf(base, Nil) # Nil /\ (job.attach # "no" => tracked[b] # Nil)
  BY <1>1, <1>2, TypesAre DEF AddOK
<1>4. wt[w] # Nil => wt[w].branch = b  BY <1>1, <1>2, <1>3, ShownIs
<1>5. found' \in Finds /\ found'.at = w /\ found'.ref = base /\ job'.branch = b
  BY <1>1, <1>2, TypesAre DEF Finds
<1>6. RefsOK' /\ NothingLost'  BY <1>1, TypesAre, Still DEF history
<1>7. WorktreeTypeOK'
  BY <1>1, <1>5, TypesAre DEF WorktreeTypeOK, WorktreeSteps, refs, config, places, history
<1>8. AddOK'
  <2>1. CommitOf(base, Nil)' = CommitOf(base, Nil)  BY <1>1, CommitOfStays DEF refs
  <2> QED  BY <1>1, <1>2, <1>3, <1>4, <1>5, <2>1 DEF AddOK, refs, places
<1>9. RemoveOK' /\ LossOK'  BY <1>1 DEF RemoveOK, LossOK, Looked
<1> QED  BY <1>6, <1>7, <1>8, <1>9 DEF WorktreeInv

LEMMA FindStep == ASSUME WorktreeInv, Find  PROVE WorktreeInv'
<1>1. PICK w \in Names :
        /\ wt[w] # Nil /\ found' = [found EXCEPT !.at = w] /\ job' = [job EXCEPT !.branch = Shown(w)] /\ step' = "look"
        /\ UNCHANGED <<origin, refs, config, places, history>>
  BY DEF Find, Goes
<1>2. Shown(w) \in Names \cup {Nil} /\ (Shown(w) # Nil => Shown(w) = wt[w].branch)  BY TypesAre DEF Shown
<1>3. found' \in Finds /\ found'.at = w  BY <1>1, TypesAre DEF Finds
<1>4. job' \in Jobs /\ job'.branch = Shown(w)
  <2> HIDE DEF Shown
  <2> QED  BY <1>1, <1>2, TypesAre DEF Jobs
<1>6. RefsOK' /\ NothingLost'  BY <1>1, TypesAre, Still DEF history
<1>7. WorktreeTypeOK'
  BY <1>1, <1>3, <1>4, TypesAre DEF WorktreeTypeOK, WorktreeSteps, refs, config, places, history
<1>8. AddOK' /\ LossOK'  BY <1>1 DEF AddOK, LossOK, Looked
<1>9. RemoveOK'  BY <1>1, <1>2, <1>3, <1>4 DEF RemoveOK, places
<1> QED  BY <1>6, <1>7, <1>8, <1>9 DEF WorktreeInv

(* runner.onto looks only where nothing is uncommitted.                    *)
LEMMA OntoLooksStep == ASSUME WorktreeInv, OntoLooks  PROVE WorktreeInv'
<1> DEFINE Frame == UNCHANGED <<origin, refs, config, places, job, history>>
<1>0. PICK b, w, base, old : b = job.branch /\ w = found.at /\ base = found.ref /\ old = Old(job.branch)  OBVIOUS
<1>1. step = "onto" /\ Frame /\ step' \in {"bring", "record", "answer"}
      /\ (step' \in {"bring", "record"} => found' = found)
      /\ (step' = "answer" => /\ edits[w] = {}
                              /\ found' = [found EXCEPT !.old = old, !.n = Cardinality(Past(local[b], {CommitOf(old, local[b])}))])
  BY <1>0 DEF OntoLooks, Goes, Tip
<1>2. /\ b \in Names /\ base \in Bases \ OfItself(b) /\ CommitOf(base, Nil) # Nil
      /\ w \in Names /\ wt[w] # Nil /\ b = wt[w].branch /\ local[b] \in Commits
      /\ (job.attach # "no" => tracked[b] # Nil)
  BY <1>0, <1>1, TypesAre DEF AddOK
<1>3. old \in Bases \ OfItself(b) /\ CommitOf(old, local[b]) \in Commits
  <2>1. Nil \notin OfItself(b)  BY <1>2, NamesAre DEF OfItself, Bases
  <2>2. resolveBase(Nil) # Nil
    <3>1. DefaultBase \in Bases  BY NamesAre DEF DefaultBase, Bases
    <3> QED  BY <3>1 DEF resolveBase
  <2>3. resolveBase(Nil) \in Bases \ OfItself(b) /\ \A head : CommitOf(resolveBase(Nil), head) # Nil
    BY <1>2, <2>1, <2>2, TypesAre, ResolvedIs
  <2>4. recordedBase(b) \in (Bases \cup {Nil}) \ OfItself(b)  BY <1>2, TypesAre, RecordedIs
  <2>5. recordedBase(b) # Nil => CommitOf(recordedBase(b), local["main"]) # Nil  BY DEF recordedBase, resolves
  <2>6. old \in Bases \ OfItself(b) /\ \E head : CommitOf(old, head) # Nil  BY <1>0, <2>3, <2>4, <2>5 DEF Old
  <2>7. CommitOf(old, local[b]) # Nil  BY <1>2, <2>6, NotOfItself
  <2>8. CommitOf(old, local[b]) \in Commits \cup {Nil}  BY <1>2, <2>6, TypesAre, CommitOfIs
  <2> QED  BY <2>6, <2>7, <2>8
<1> DEFINE n == Cardinality(Past(local[b], {CommitOf(old, local[b])}))
<1>4. n \in Nat /\ (n = 0 => Holds(local[b]) \subseteq Safe(b))
  <2> DEFINE past == Past(local[b], {CommitOf(old, local[b])})
  <2>1. past \in SUBSET (1..Len(local[b]))  BY DEF Past
  <2>2. IsFiniteSet(1..Len(local[b]))
    <3>1. Len(local[b]) \in Nat  BY <1>2, CommitIs
    <3> QED  BY <3>1, FS_Interval
  <2> HIDE DEF past
  <2>3. Cardinality(past) \in Nat  BY <2>1, <2>2, FS_Subset, FS_CardinalityType
  <2>4. ASSUME Cardinality(past) = 0  PROVE Holds(local[b]) \subseteq Safe(b)
    <3>1. past = {}  BY <1>2, <2>4, NoneIsNothing DEF past
    <3>2. \E d \in {CommitOf(old, local[b])} \ {Nil} : Holds(local[b]) \subseteq Holds(d)
      BY <1>2, <1>3, <3>1, NothingPast DEF past
    <3>3. Holds(local[b]) \subseteq Holds(CommitOf(old, local[b]))  BY <3>2
    <3>4. Holds(CommitOf(old, local[b])) \subseteq Safe(b)  BY <1>2, <1>3, TypesAre, BaseSafe
    <3> QED  BY <3>3, <3>4
  <2> QED  BY <2>3, <2>4 DEF past
<1> HIDE DEF n
<1>5. PICK k : k = n  OBVIOUS
<1>6. /\ found' \in Finds /\ found'.at = w /\ found'.ref = base /\ job' = job /\ job.branch = b
      /\ (step' = "answer" => found'.old = old /\ found'.n = k)
  <2>1. CASE step' = "answer"
    <3>1. found' = [found EXCEPT !.old = old, !.n = k]  BY <1>1, <1>5, <2>1 DEF n
    <3> QED  BY <1>0, <1>1, <1>3, <1>4, <1>5, <3>1, TypesAre DEF Finds
  <2>2. CASE step' # "answer"  BY <1>0, <1>1, <2>2, TypesAre
  <2> QED  BY <2>1, <2>2
<1>7. RefsOK' /\ NothingLost'  BY <1>1, TypesAre, Still DEF history
<1>8. WorktreeTypeOK'
  BY <1>1, <1>6, TypesAre DEF WorktreeTypeOK, WorktreeSteps, refs, config, places, history
<1>9. AddOK'
  <2>1. CommitOf(base, Nil)' = CommitOf(base, Nil)  BY <1>1, CommitOfStays DEF refs
  <2> QED  BY <1>1, <1>2, <1>6, <2>1 DEF AddOK, refs, places
<1>10. RemoveOK'  BY <1>1 DEF RemoveOK
<1>11. LossOK'
  <2>1. Safe(b) \subseteq Safe(b)'  BY <1>1, SafeStays DEF refs, history, Pushed
  <2> QED  BY <1>1, <1>3, <1>4, <1>5, <1>6, <2>1 DEF LossOK, Looked, Tip, refs, places, history
<1> QED  BY <1>7, <1>8, <1>9, <1>10, <1>11 DEF WorktreeInv

LEMMA OntoAsksStep == ASSUME WorktreeInv, OntoAsks  PROVE WorktreeInv'
<1>0. PICK b, base : b = job.branch /\ base = found.ref  OBVIOUS
<1>1. /\ step = "answer" /\ step' \in {"move", "bring"}
      /\ UNCHANGED <<origin, refs, config, places, job, found, history>>
  BY DEF OntoAsks, Goes, command
<1>2. RefsOK' /\ NothingLost'  BY <1>1, TypesAre, Still DEF history
<1>3. WorktreeTypeOK'
  BY <1>1, TypesAre DEF WorktreeTypeOK, WorktreeSteps, refs, config, places, history
<1>4. b \in Names /\ base \in Bases \ OfItself(b)  BY <1>0, <1>1, TypesAre DEF AddOK
<1>5. AddOK'
  <2>1. CommitOf(base, Nil)' = CommitOf(base, Nil)  BY <1>1, <1>4, CommitOfStays DEF refs
  <2> QED  BY <1>0, <1>1, <2>1, TypesAre DEF AddOK, refs, places
<1>6. RemoveOK'  BY <1>1 DEF RemoveOK
<1>7. LossOK'
  <2>1. Safe(b) \subseteq Safe(b)'  BY <1>1, SafeStays DEF refs, history, Pushed
  <2> QED  BY <1>0, <1>1, <2>1, TypesAre DEF LossOK, Looked, Tip, refs, places, history
<1> QED  BY <1>2, <1>3, <1>5, <1>6, <1>7 DEF WorktreeInv

(* From its look on, a remove takes no edit that was not let go.           *)
LEMMA LooksStep == ASSUME WorktreeInv, Looks  PROVE WorktreeInv'
<1>0. PICK b, w : b = job.branch /\ w = found.at  OBVIOUS
<1>1. /\ step = "look" /\ step' = "count" /\ (job.force \/ edits[w] = {})
      /\ letGo' = letGo \cup (IF job.force THEN edits[w] ELSE {}) \cup (IF Deletes /\ job.drop THEN Holds(Tip) ELSE {})
      /\ UNCHANGED <<origin, refs, config, places, job, found, used>>
  BY <1>0 DEF Looks, Goes, command
<1>2. w \in Names /\ wt[w] # Nil /\ (b # Nil => b = wt[w].branch)  BY <1>0, <1>1, TypesAre DEF RemoveOK
<1>3. edits[w] \subseteq letGo' /\ letGo \subseteq letGo' /\ (Deletes /\ job.drop => Holds(Tip) \subseteq letGo')
  BY <1>1
<1>4. letGo' \subseteq Words
  <2>1. edits[w] \subseteq Words /\ letGo \subseteq Words  BY <1>2, TypesAre DEF WorktreeTypeOK
  <2>2. Deletes => Holds(Tip) \subseteq Words
    BY <1>0, TypesAre, NamesAre, HoldsWords DEF Deletes, Tip, WorktreeTypeOK
  <2> QED  BY <1>1, <2>1, <2>2
<1>5. RefsOK' /\ NothingLost'  BY <1>1, <1>3, TypesAre, Still
<1>6. WorktreeTypeOK'
  BY <1>1, <1>4, TypesAre DEF WorktreeTypeOK, WorktreeSteps, refs, config, places
<1>7. AddOK'  BY <1>1 DEF AddOK
<1>8. RemoveOK'  BY <1>0, <1>1, <1>2 DEF RemoveOK, refs, places
<1>9. LossOK'  BY <1>0, <1>1, <1>3 DEF LossOK, Looked, Deletes, Tip, refs, places
<1> QED  BY <1>5, <1>6, <1>7, <1>8, <1>9 DEF WorktreeInv

LEMMA CountsStep == ASSUME WorktreeInv, Counts  PROVE WorktreeInv'
<1>0. PICK b, w : b = job.branch /\ w = found.at  OBVIOUS
<1>1. /\ step = "count" /\ step' = (IF ~Deletes \/ OwnNow = {} THEN "run" ELSE "fetchBase")
      /\ UNCHANGED <<origin, refs, config, places, job, found, history>>
  BY DEF Counts, Goes, command
<1>2. w \in Names /\ wt[w] # Nil /\ (b # Nil => b = wt[w].branch)  BY <1>0, <1>1, TypesAre DEF RemoveOK
<1>3. step' = "run" /\ Deletes => Holds(local[b]) \subseteq Safe(b)
  <2> SUFFICES ASSUME step' = "run", Deletes  PROVE Holds(local[b]) \subseteq Safe(b)  OBVIOUS
  <2>1. b # Nil /\ b \in Names /\ OwnNow = {}  BY <1>0, <1>1, TypesAre DEF Deletes
  <2>2. own(b) = {}  BY <1>0, <2>1 DEF OwnNow
  <2>3. local[b] # Nil  BY <1>2, <2>1, TypesAre, CommitIs
  <2> QED  BY <2>1, <2>2, <2>3, TypesAre, OwnSafe
<1>4. RefsOK' /\ NothingLost'  BY <1>1, TypesAre, Still DEF history
<1>5. WorktreeTypeOK'
  BY <1>1, TypesAre DEF WorktreeTypeOK, WorktreeSteps, refs, config, places, history
<1>6. AddOK'  BY <1>1 DEF AddOK
<1>7. RemoveOK'  BY <1>0, <1>1, <1>2 DEF RemoveOK, Deletes, refs, places
<1>8. LossOK'
  <2>1. Safe(b) \subseteq Safe(b)'  BY <1>1, SafeStays DEF refs, history, Pushed
  <2> QED  BY <1>0, <1>1, <1>3, <2>1, TypesAre DEF LossOK, Looked, Deletes, Tip, refs, places, history
<1> QED  BY <1>4, <1>5, <1>6, <1>7, <1>8 DEF WorktreeInv

LEMMA LandsStep == ASSUME WorktreeInv, Lands  PROVE WorktreeInv'
<1>0. PICK b, w : b = job.branch /\ w = found.at  OBVIOUS
<1>1. /\ step = "land" /\ step' \in {"run", "ask"}
      /\ (step' = "run" => OwnNow = {} \/ (landingBase(b) # Nil /\ landed(b, landingBase(b))) \/ job.drop)
      /\ UNCHANGED <<origin, refs, config, places, job, found, history>>
  BY <1>0 DEF Lands, Goes, command
<1>2. w \in Names /\ wt[w] # Nil /\ (b # Nil => b = wt[w].branch) /\ Deletes
  BY <1>0, <1>1, TypesAre DEF RemoveOK
<1>3. b \in Names /\ b # Nil /\ local[b] # Nil  BY <1>0, <1>2, TypesAre, CommitIs DEF Deletes
<1>4. step' = "run" => Holds(local[b]) \subseteq Safe(b)
  <2>1. CASE OwnNow = {}
    <3>1. own(b) = {}  BY <1>0, <1>3, <2>1 DEF OwnNow
    <3> QED  BY <1>3, <3>1, TypesAre, OwnSafe
  <2>2. CASE landingBase(b) # Nil /\ landed(b, landingBase(b))  BY <1>3, <2>2, TypesAre, LandedSafe
  <2>3. CASE job.drop
    <3>1. Holds(local[b]) \subseteq letGo  BY <1>0, <1>1, <1>2, <2>3, TypesAre DEF LossOK, Tip
    <3> QED  BY <3>1 DEF Safe
  <2> QED  BY <1>1, <2>1, <2>2, <2>3
<1>5. RefsOK' /\ NothingLost'  BY <1>1, TypesAre, Still DEF history
<1>6. WorktreeTypeOK'
  BY <1>1, TypesAre DEF WorktreeTypeOK, WorktreeSteps, refs, config, places, history
<1>7. AddOK'  BY <1>1 DEF AddOK
<1>8. RemoveOK'  BY <1>0, <1>1, <1>2 DEF RemoveOK, Deletes, refs, places
<1>9. LossOK'
  <2>1. Safe(b) \subseteq Safe(b)'  BY <1>1, SafeStays DEF refs, history, Pushed
  <2> QED  BY <1>0, <1>1, <1>2, <1>4, <2>1, TypesAre DEF LossOK, Looked, Deletes, Tip, refs, places, history
<1> QED  BY <1>5, <1>6, <1>7, <1>8, <1>9 DEF WorktreeInv

LEMMA AsksStep == ASSUME WorktreeInv, Asks  PROVE WorktreeInv'
<1>0. PICK b, w : b = job.branch /\ w = found.at  OBVIOUS
<1>1. /\ step = "ask" /\ step' \in {"push", "run"}
      /\ \/ step' = "push" /\ UNCHANGED <<job, letGo>>
         \/ job' = [job EXCEPT !.keep = TRUE] /\ step' = "run" /\ UNCHANGED letGo
         \/ letGo' = letGo \cup Holds(Tip) /\ step' = "run" /\ UNCHANGED job
      /\ UNCHANGED <<origin, refs, config, places, found, used>>
  BY DEF Asks, Goes
<1>2. w \in Names /\ wt[w] # Nil /\ (b # Nil => b = wt[w].branch) /\ Deletes
  BY <1>0, <1>1, TypesAre DEF RemoveOK
<1>3. b \in Names /\ b # Nil /\ local[b] # Nil /\ ~job.keep  BY <1>0, <1>2, TypesAre, CommitIs DEF Deletes
<1>4. letGo \subseteq letGo' /\ letGo' \subseteq Words
  <2>1. letGo \subseteq Words  BY TypesAre DEF WorktreeTypeOK
  <2>2. Holds(Tip) \subseteq Words
    BY <1>0, <1>3, TypesAre, NamesAre, HoldsWords DEF Tip, WorktreeTypeOK
  <2> QED  BY <1>1, <2>1, <2>2
<1>5. job' \in Jobs /\ job'.branch = b /\ job'.drop = job.drop /\ (job' = job \/ job'.keep)
  BY <1>0, <1>1, TypesAre DEF Jobs
<1>6. RefsOK' /\ NothingLost'  BY <1>1, <1>4, TypesAre, Still
<1>7. WorktreeTypeOK'
  BY <1>1, <1>4, <1>5, TypesAre DEF WorktreeTypeOK, WorktreeSteps, refs, config, places
<1>8. AddOK'  BY <1>1 DEF AddOK
<1>9. RemoveOK'
  <2>1. step' = "push" => Deletes'  BY <1>1, <1>2 DEF Deletes
  <2> QED  BY <1>0, <1>1, <1>2, <1>5, <2>1 DEF RemoveOK, refs, places
<1>10. LossOK'
  <2>1. Safe(b) \subseteq Safe(b)'  BY <1>1, <1>4, SafeStays DEF refs, Pushed
  <2>2. letGo' \subseteq Safe(b)'  BY DEF Safe
  <2>3. edits[w] \subseteq letGo  BY <1>0, <1>1, TypesAre DEF LossOK, Looked
  <2>4. (Looked => edits[found.at] \subseteq letGo)'  BY <1>0, <1>1, <1>4, <2>3 DEF places
  <2>5. job.drop => Holds(Tip) \subseteq letGo  BY <1>1, <1>2, TypesAre DEF LossOK
  <2>6. Deletes' => job' = job  BY <1>5 DEF Deletes
  <2>7. Tip' = local[b] /\ Tip = local[b]  BY <1>0, <1>1, <1>5 DEF Tip, refs
  <2>8. Deletes' /\ job'.drop => Holds(Tip)' \subseteq letGo'  BY <1>4, <2>5, <2>6, <2>7
  <2>9. step' = "run" /\ Deletes' => Holds(Tip)' \subseteq letGo'
    <3> SUFFICES ASSUME step' = "run", Deletes'  PROVE Holds(local[b]) \subseteq letGo'  BY <2>7
    <3>1. ~job'.keep /\ job' = job  BY <2>6 DEF Deletes
    <3>2. job' # [job EXCEPT !.keep = TRUE]
      <4>1. [job EXCEPT !.keep = TRUE].keep  BY TypesAre DEF Jobs
      <4> QED  BY <3>1, <4>1
    <3>3. letGo' = letGo \cup Holds(Tip)  BY <1>1, <3>2
    <3> QED  BY <2>7, <3>3
  <2> QED  BY <1>1, <1>5, <2>2, <2>4, <2>8, <2>9 DEF LossOK
<1> QED  BY <1>6, <1>7, <1>8, <1>9, <1>10 DEF WorktreeInv

-----------------------------------------------------------------------------
(* Steps that fetch: a branch that was fetched is the remote's.            *)
LEMMA Fetches ==
  ASSUME WorktreeInv, UNCHANGED <<origin, local, remote, config, places, history>>,
         tracked' \in [Refs -> Commits \cup {Nil}],
         \A r \in Refs : tracked'[r] = tracked[r] \/ (tracked'[r] = remote[r] /\ remote[r] # Nil)
  PROVE  RefsOK' /\ NothingLost' /\ \A r \in Refs : tracked[r] # Nil => tracked'[r] # Nil
<1>1. \A r \in Refs : tracked[r] # Nil => tracked'[r] # Nil  OBVIOUS
<1>2. Pushed' = Pushed /\ Kept' = Kept  BY DEF Pushed, Kept, places
<1>3. \A r \in Refs : Holds(remote[r]) \subseteq Pushed  BY DEF Pushed
<1>4. RefsOK'  BY <1>1, <1>2, <1>3, NamesAre, TypesAre DEF RefsOK, config, places
<1>5. NothingLost'  BY <1>2, TypesAre DEF NothingLost, history
<1> QED  BY <1>1, <1>4, <1>5

LEMMA FetchStep == ASSUME WorktreeInv, Fetch  PROVE WorktreeInv'
<1>1. /\ step = "fetch" /\ step' = "attach" /\ tracked' \in {tracked, Fetched}
      /\ UNCHANGED <<origin, local, remote, config, places, job, found, history>>
  BY DEF Fetch, Goes, command
<1>2. /\ tracked' \in [Refs -> Commits \cup {Nil}]
      /\ \A r \in Refs : tracked'[r] = tracked[r] \/ (tracked'[r] = remote[r] /\ remote[r] # Nil)
  <2>1. tracked \in [Refs -> Commits \cup {Nil}] /\ remote \in [Refs -> Commits \cup {Nil}]
    BY TypesAre DEF WorktreeTypeOK
  <2>2. /\ Fetched \in [Refs -> Commits \cup {Nil}]
        /\ \A r \in Refs : Fetched[r] = tracked[r] \/ (Fetched[r] = remote[r] /\ remote[r] # Nil)
    BY <2>1 DEF Fetched
  <2> HIDE DEF Fetched
  <2> QED  BY <1>1, <2>1, <2>2
<1>3. RefsOK' /\ NothingLost'  BY <1>1, <1>2, Fetches
<1>4. WorktreeTypeOK'
  BY <1>1, <1>2, TypesAre DEF WorktreeTypeOK, WorktreeSteps, config, places, history
<1>5. AddOK' /\ RemoveOK' /\ LossOK'  BY <1>1, TypesAre DEF AddOK, RemoveOK, LossOK, Looked
<1> QED  BY <1>3, <1>4, <1>5 DEF WorktreeInv

LEMMA AttachesStep == ASSUME WorktreeInv, Attaches  PROVE WorktreeInv'
<1>1. step = "attach" /\ step' = "base" /\ UNCHANGED <<origin, local, remote, config, places, found, history>>
  BY DEF Attaches, Goes
<1>2. PICK b \in Names :
        \/ job.attach = "no" /\ b = job.branch /\ UNCHANGED <<tracked, job>>
        \/ /\ remote[b] # Nil /\ (b = job.branch \/ job.attach = "pull")
           /\ tracked' = [tracked EXCEPT ![b] = remote[b]] /\ job' = [job EXCEPT !.branch = b]
  BY DEF Attaches
<1>3. b \in Refs /\ tracked \in [Refs -> Commits \cup {Nil}] /\ remote \in [Refs -> Commits \cup {Nil}]
  BY NamesAre, TypesAre DEF WorktreeTypeOK
<1>4. /\ tracked' \in [Refs -> Commits \cup {Nil}]
      /\ \A r \in Refs : tracked'[r] = tracked[r] \/ (tracked'[r] = remote[r] /\ remote[r] # Nil)
  BY <1>2, <1>3
<1>5. job' \in Jobs /\ job'.branch = b /\ job'.base = job.base /\ job'.attach = job.attach
  BY <1>2, TypesAre DEF Jobs
<1>6. job.base \notin OfItself(b)
  <2>1. job \in Requests /\ job.op = "add"  BY <1>1, TypesAre DEF AddOK
  <2> QED  BY <1>2, <2>1, RequestsAssumption
<1>7. job'.attach # "no" => tracked'[b] # Nil  BY <1>2, <1>3, <1>5
<1>8. RefsOK' /\ NothingLost'  BY <1>1, <1>4, Fetches
<1>9. WorktreeTypeOK'
  BY <1>1, <1>4, <1>5, TypesAre DEF WorktreeTypeOK, WorktreeSteps, config, places, history
<1>10. AddOK'  BY <1>1, <1>5, <1>6, <1>7 DEF AddOK
<1>11. RemoveOK' /\ LossOK'  BY <1>1 DEF RemoveOK, LossOK, Looked
<1> QED  BY <1>8, <1>9, <1>10, <1>11 DEF WorktreeInv

LEMMA FetchBaseStep == ASSUME WorktreeInv, FetchBase  PROVE WorktreeInv'
<1>0. PICK b, w, base : b = job.branch /\ w = found.at /\ base = landingBase(job.branch)  OBVIOUS
<1>1. /\ step = "fetchBase" /\ step' = "land"
      /\ \/ tracked' = tracked
         \/ /\ base # Nil /\ base[1] = "remote" /\ remote[base[2]] # Nil
            /\ tracked' = [tracked EXCEPT ![base[2]] = remote[base[2]]]
      /\ UNCHANGED <<origin, local, remote, config, places, job, found, history>>
  BY <1>0 DEF FetchBase, Goes, command
<1>2. w \in Names /\ wt[w] # Nil /\ (b # Nil => b = wt[w].branch) /\ Deletes
  BY <1>0, <1>1, TypesAre DEF RemoveOK
<1>3. tracked \in [Refs -> Commits \cup {Nil}] /\ remote \in [Refs -> Commits \cup {Nil}]
  BY TypesAre DEF WorktreeTypeOK
<1>4. /\ tracked' \in [Refs -> Commits \cup {Nil}]
      /\ \A r \in Refs : tracked'[r] = tracked[r] \/ (tracked'[r] = remote[r] /\ remote[r] # Nil)
  <2>1. b \in Names  BY <1>0, <1>2, TypesAre DEF Deletes
  <2>2. base # Nil => base \in Bases  BY <1>0, <2>1, TypesAre, RecordedIs, ResolvedIs DEF landingBase
  <2>3. base # Nil /\ base[1] = "remote" => base[2] \in Refs  BY <2>2 DEF Bases
  <2> QED  BY <1>1, <1>3, <2>3
<1>5. RefsOK' /\ NothingLost'  BY <1>1, <1>4, Fetches
<1>6. WorktreeTypeOK'
  BY <1>1, <1>4, TypesAre DEF WorktreeTypeOK, WorktreeSteps, config, places, history
<1>7. AddOK'  BY <1>1 DEF AddOK
<1>8. RemoveOK'  BY <1>0, <1>1, <1>2 DEF RemoveOK, Deletes, places
<1>9. LossOK'  BY <1>0, <1>1, <1>2, TypesAre DEF LossOK, Looked, Deletes, Tip, places, history
<1> QED  BY <1>5, <1>6, <1>7, <1>8, <1>9 DEF WorktreeInv

-----------------------------------------------------------------------------
(* Steps of an add that make or move a branch.                             *)
LEMMA CommitOfKept ==
  ASSUME NEW base \in Bases, CommitOf(base, Nil) # Nil,
         \A r \in Refs : (local[r] # Nil => local'[r] # Nil) /\ (tracked[r] # Nil => tracked'[r] # Nil)
  PROVE  CommitOf(base, Nil)' # Nil
<1>1. base[1] = "remote" => base[2] \in Refs  BY DEF Bases
<1>2. base[1] # "remote" => base[2] \in Refs \cup {"HEAD", "v1"}  BY DEF Bases
<1>3. Root # Nil  BY RootIs, CommitIs
<1> QED  BY <1>1, <1>2, <1>3, NamesAre DEF CommitOf

(* A branch moves, or goes, and what only it held is not lost.             *)
LEMMA BranchMoves ==
  ASSUME WorktreeInv, NEW b \in Names, NEW c, local' = [local EXCEPT ![b] = c],
         Holds(local[b]) \subseteq Safe(b) \cup Holds(c),
         UNCHANGED <<remote, used, letGo>>, \A w \in Names : edits[w] \subseteq edits'[w] \cup letGo
  PROVE  Pushed' = Pushed /\ NothingLost'
<1>1. Pushed' = Pushed  BY DEF Pushed
<1>2. local'[b] = c /\ b \in Refs /\ \A r \in Refs \ {b} : local'[r] = local[r]
  BY NamesAre, TypesAre DEF WorktreeTypeOK
<1>3. ASSUME NEW x \in used  PROVE x \in Kept' \cup letGo'
  <2>1. x \in Kept \cup letGo /\ x # "root"  BY <1>3, TypesAre, NamesAre DEF NothingLost, WorktreeTypeOK
  <2> SUFFICES ASSUME x \notin letGo, x \notin Pushed  PROVE x \in Kept'  BY <1>1 DEF Kept
  <2>2. CASE \E w \in Names : x \in edits[w]
    <3>1. \E w \in Names : x \in edits'[w]  BY <2>2
    <3> QED  BY <3>1 DEF Kept
  <2>3. CASE \E r \in Refs : x \in Holds(local[r])
    <3>1. \E r \in Refs : x \in Holds(local'[r])
      <4>1. CASE \E r \in Refs \ {b} : x \in Holds(local[r])  BY <1>2, <4>1
      <4>2. CASE x \in Holds(local[b])
        <5>1. x \in Holds(c) \/ x \in Safe(b)  BY <4>2
        <5>2. x \in Safe(b) => \E r \in Refs \ {b} : x \in Holds(local[r])  BY <2>1 DEF Safe
        <5> QED  BY <1>2, <5>1, <5>2
      <4> QED  BY <2>3, <4>1, <4>2
    <3> QED  BY <3>1 DEF Kept
  <2> QED  BY <2>1, <2>2, <2>3 DEF Kept
<1> QED  BY <1>1, <1>3 DEF NothingLost

LEMMA MakeStep == ASSUME WorktreeInv, Make  PROVE WorktreeInv'
<1>0. PICK b, w, base : b = job.branch /\ w = found.at /\ base = found.ref  OBVIOUS
<1>1. /\ step = "make" /\ local' = [local EXCEPT ![b] = StartOf(b)]
      /\ UNCHANGED <<origin, tracked, remote, config, edits, history>>
      /\ \/ /\ wt' = [wt EXCEPT ![w] = [branch |-> b, stopped |-> FALSE]]
            /\ found' = [found EXCEPT !.existed = ~IsNew(b), !.waslocal = local[b] # Nil] /\ UNCHANGED job
            /\ step' \in {"record", "upstream"}
         \/ Ends /\ UNCHANGED wt
  BY <1>0 DEF Make, Goes, Ends
<1>2. /\ b \in Names /\ w \in Names /\ base \in Bases \ OfItself(b) /\ CommitOf(base, Nil) # Nil
      /\ (job.attach # "no" => tracked[b] # Nil)
  BY <1>0, <1>1, TypesAre DEF AddOK
<1>3. b \in Refs /\ b # "main" /\ local \in [Refs -> Commits \cup {Nil}] /\ tracked \in [Refs -> Commits \cup {Nil}]
  BY <1>2, NamesAre, TypesAre DEF WorktreeTypeOK
<1>4. PICK c \in Commits : c = StartOf(b) /\ (local[b] # Nil => c = local[b])
  <2>1. CASE local[b] # Nil
    <3>1. StartOf(b) = local[b]  BY <2>1 DEF StartOf, IsNew
    <3> QED  BY <1>3, <2>1, <3>1
  <2>2. CASE local[b] = Nil /\ IsNew(b)
    <3>1. StartOf(b) = CommitOf(base, local["main"])  BY <1>0, <2>2 DEF StartOf
    <3>2. CommitOf(base, local["main"]) # Nil  BY <1>2, NotOfItself
    <3>3. CommitOf(base, local["main"]) \in Commits \cup {Nil}  BY <1>2, <1>3, NamesAre, TypesAre, CommitOfIs
    <3> QED  BY <2>2, <3>1, <3>2, <3>3
  <2>3. CASE local[b] = Nil /\ ~IsNew(b)
    <3>1. StartOf(b) = tracked[b]  BY <2>3 DEF StartOf
    <3>2. tracked[b] # Nil
      <4>1. job.attach # "no" \/ OnRemote(b)  BY <2>3 DEF IsNew
      <4> QED  BY <1>2, <1>3, <4>1, NamesAre DEF OnRemote
    <3> QED  BY <1>3, <2>3, <3>1, <3>2
  <2> QED  BY <2>1, <2>2, <2>3
<1>5. /\ local' \in [Refs -> Commits \cup {Nil}] /\ local'[b] = c /\ c # Nil
      /\ \A r \in Refs : local[r] # Nil => local'[r] # Nil
  BY <1>1, <1>3, <1>4, CommitIs
<1>6. Pushed' = Pushed /\ NothingLost'
  <2>1. Holds(local[b]) \subseteq Holds(c)  BY <1>4 DEF Holds
  <2> QED  BY <1>1, <1>2, <1>4, <2>1, BranchMoves DEF history
<1>7. CASE Ends /\ UNCHANGED wt
  <2>1. RefsOK'  BY <1>1, <1>3, <1>5, <1>6, <1>7, NamesAre, TypesAre DEF RefsOK, config
  <2>2. WorktreeTypeOK'
    BY <1>1, <1>5, <1>7, EndsIs, TypesAre DEF WorktreeTypeOK, WorktreeSteps, config, history
  <2> QED  BY <1>6, <1>7, <2>1, <2>2, EndsIs DEF WorktreeInv
<1>8. CASE ~(Ends /\ UNCHANGED wt)
  <2>1. PICK old, new \in BOOLEAN :
          /\ wt' = [wt EXCEPT ![w] = [branch |-> b, stopped |-> FALSE]]
          /\ found' = [found EXCEPT !.existed = old, !.waslocal = new] /\ UNCHANGED job
          /\ step' \in {"record", "upstream"}
    <3> DEFINE old == ~IsNew(b)
               new == local[b] # Nil
    <3>1. old \in BOOLEAN /\ new \in BOOLEAN  BY DEF IsNew
    <3>2. /\ found' = [found EXCEPT !.existed = old, !.waslocal = new] /\ UNCHANGED job
          /\ wt' = [wt EXCEPT ![w] = [branch |-> b, stopped |-> FALSE]] /\ step' \in {"record", "upstream"}
      BY <1>1, <1>8
    <3> HIDE DEF old, new
    <3> QED  BY <3>1, <3>2
  <2>2. found' \in Finds /\ found'.ref = base /\ found'.at = w /\ job'.branch = b
    BY <1>0, <2>1, TypesAre DEF Finds
  <2>3. /\ wt' \in [Names -> Trees \cup {Nil}] /\ wt'[w] # Nil /\ wt'[w].branch = b
        /\ \A v \in Names \ {w} : wt'[v] = wt[v]
    <3>1. PICK t \in Trees : t = [branch |-> b, stopped |-> FALSE]  BY <1>2 DEF Trees
    <3>2. t # Nil /\ t.branch = b  BY <3>1, NilAssumption
    <3> QED  BY <1>2, <2>1, <3>1, <3>2, TypesAre DEF WorktreeTypeOK
  <2>4. RefsOK'
    <3>1. \A v \in Names : wt'[v] # Nil => local'[wt'[v].branch] # Nil  BY <1>3, <1>5, <2>3, NamesAre, TypesAre DEF RefsOK
    <3> QED  BY <1>1, <1>3, <1>5, <1>6, <3>1, NamesAre, TypesAre DEF RefsOK, config
  <2>5. WorktreeTypeOK'
    BY <1>1, <1>5, <2>1, <2>2, <2>3, TypesAre DEF WorktreeTypeOK, WorktreeSteps, config, history
  <2>6. CommitOf(base, Nil)' # Nil  BY <1>1, <1>2, <1>5, CommitOfKept
  <2>7. AddOK'  BY <1>1, <1>2, <2>1, <2>2, <2>3, <2>6 DEF AddOK
  <2>8. RemoveOK' /\ LossOK'  BY <2>1 DEF RemoveOK, LossOK, Looked
  <2> QED  BY <1>6, <2>4, <2>5, <2>7, <2>8 DEF WorktreeInv
<1> QED  BY <1>7, <1>8

LEMMA RecordStep == ASSUME WorktreeInv, Record  PROVE WorktreeInv'
<1>0. PICK b, w, base : b = job.branch /\ w = found.at /\ base = found.ref  OBVIOUS
<1>1. /\ step = "record" /\ cfg' = [cfg EXCEPT ![b] = base] /\ step' \in {"bring", "upstream"}
      /\ UNCHANGED <<origin, refs, places, job, found, history>>
  BY <1>0 DEF Record, Goes, command
<1>2. /\ b \in Names /\ base \in Bases \ OfItself(b) /\ CommitOf(base, Nil) # Nil
      /\ w \in Names /\ wt[w] # Nil /\ b = wt[w].branch
  BY <1>0, <1>1, TypesAre DEF AddOK
<1>3. cfg \in [Refs -> Bases \cup {Nil}] /\ b \in Refs  BY <1>2, NamesAre, TypesAre DEF WorktreeTypeOK
<1>4. cfg' \in [Refs -> Bases \cup {Nil}] /\ \A r \in Refs : cfg'[r] = IF r = b THEN base ELSE cfg[r]
  BY <1>1, <1>2, <1>3
<1>5. Pushed' = Pushed /\ Kept' = Kept  BY <1>1 DEF Pushed, Kept, refs, places
<1>6. RefsOK'  BY <1>1, <1>2, <1>4, <1>5, NamesAre, TypesAre DEF RefsOK, refs, places
<1>7. NothingLost'  BY <1>1, <1>5, TypesAre DEF NothingLost, history
<1>8. WorktreeTypeOK'
  BY <1>1, <1>4, TypesAre DEF WorktreeTypeOK, WorktreeSteps, refs, places, history
<1>9. AddOK'
  <2>1. CommitOf(base, Nil)' = CommitOf(base, Nil)  BY <1>1, CommitOfStays DEF refs
  <2> QED  BY <1>0, <1>1, <1>2, <2>1, TypesAre DEF AddOK, refs, places
<1>10. RemoveOK' /\ LossOK'  BY <1>1 DEF RemoveOK, LossOK, Looked
<1> QED  BY <1>6, <1>7, <1>8, <1>9, <1>10 DEF WorktreeInv

LEMMA UpstreamStep == ASSUME WorktreeInv, Upstream  PROVE WorktreeInv'
<1>0. PICK b, base : b = job.branch /\ base = found.ref  OBVIOUS
<1>1. /\ step = "upstream" /\ step' \in {"forward", "onto"} /\ (step' = "forward" => job.attach # "no")
      /\ UNCHANGED <<origin, refs, cfg, places, job, found, history>>
  BY DEF Upstream, Goes, command
<1>2. b \in Names /\ base \in Bases \ OfItself(b)  BY <1>0, <1>1, TypesAre DEF AddOK
<1>3. Pushed' = Pushed /\ Kept' = Kept  BY <1>1 DEF Pushed, Kept, refs, places
<1>4. RefsOK' /\ NothingLost'  BY <1>1, <1>3, TypesAre DEF RefsOK, NothingLost, refs, places, history
<1>5. WorktreeTypeOK'  BY <1>1, TypesAre DEF WorktreeTypeOK, WorktreeSteps, refs, places, history
<1>6. AddOK'
  <2>1. CommitOf(base, Nil)' = CommitOf(base, Nil)  BY <1>1, CommitOfStays DEF refs
  <2> QED  BY <1>0, <1>1, <1>2, <2>1, TypesAre DEF AddOK, refs, places
<1>7. RemoveOK' /\ LossOK'  BY <1>1 DEF RemoveOK, LossOK, Looked
<1> QED  BY <1>4, <1>5, <1>6, <1>7 DEF WorktreeInv

LEMMA FastForwardStep == ASSUME WorktreeInv, FastForward  PROVE WorktreeInv'
<1>0. PICK b, w, base : b = job.branch /\ w = found.at /\ base = found.ref  OBVIOUS
<1>1. /\ step = "forward" /\ step' = "onto"
      /\ \/ Has(tracked[b], local[b]) /\ local' = [local EXCEPT ![b] = tracked[b]]
         \/ UNCHANGED local
      /\ UNCHANGED <<origin, tracked, remote, config, places, job, found, history>>
  BY <1>0 DEF FastForward, Goes, command
<1>2. /\ b \in Names /\ w \in Names /\ base \in Bases \ OfItself(b) /\ CommitOf(base, Nil) # Nil
      /\ wt[w] # Nil /\ b = wt[w].branch /\ tracked[b] # Nil
  BY <1>0, <1>1, TypesAre DEF AddOK
<1>3. b \in Refs /\ b # "main" /\ local \in [Refs -> Commits \cup {Nil}] /\ tracked[b] \in Commits
  BY <1>2, NamesAre, TypesAre DEF WorktreeTypeOK
<1>4. PICK c \in Commits : local' = [local EXCEPT ![b] = c] /\ Holds(local[b]) \subseteq Holds(c)
  <2>1. local[b] \in Commits  BY <1>2, TypesAre
  <2>2. CASE Has(tracked[b], local[b]) /\ local' = [local EXCEPT ![b] = tracked[b]]
    <3>1. Holds(local[b]) \subseteq Holds(tracked[b])  BY <1>3, <2>1, <2>2, PrefixHolds DEF Has
    <3> QED  BY <1>3, <2>2, <3>1
  <2>3. CASE UNCHANGED local
    <3>1. local' = [local EXCEPT ![b] = local[b]]  BY <1>3, <2>3
    <3> QED  BY <2>1, <3>1
  <2> QED  BY <1>1, <2>2, <2>3
<1>5. /\ local' \in [Refs -> Commits \cup {Nil}] /\ local'[b] = c /\ c # Nil
      /\ \A r \in Refs : local[r] # Nil => local'[r] # Nil
  BY <1>3, <1>4, CommitIs
<1>6. Pushed' = Pushed /\ NothingLost'  BY <1>1, <1>2, <1>4, BranchMoves DEF history, places
<1>7. RefsOK'  BY <1>1, <1>5, <1>6, NamesAre, TypesAre DEF RefsOK, config, places
<1>8. WorktreeTypeOK'
  BY <1>1, <1>5, TypesAre DEF WorktreeTypeOK, WorktreeSteps, config, places, history
<1>9. CommitOf(base, Nil)' # Nil  BY <1>1, <1>2, <1>5, CommitOfKept
<1>10. AddOK'  BY <1>0, <1>1, <1>2, <1>9 DEF AddOK, places
<1>11. RemoveOK' /\ LossOK'  BY <1>1 DEF RemoveOK, LossOK, Looked
<1> QED  BY <1>6, <1>7, <1>8, <1>10, <1>11 DEF WorktreeInv

LEMMA TreeStops ==
  ASSUME NEW t \in Trees, NEW s \in BOOLEAN
  PROVE  [t EXCEPT !.stopped = s] \in Trees /\ [t EXCEPT !.stopped = s].branch = t.branch
BY DEF Trees

(* The three ways in which onto moves a branch or fails to.                *)
LEMMA OntoMovesStep == ASSUME WorktreeInv, OntoMoves  PROVE WorktreeInv'
<1>0. PICK b, w, base, of : b = job.branch /\ w = found.at /\ base = found.ref /\ of = found.old  OBVIOUS
<1>1. /\ step = "move" /\ step' \in {"record", "abort"}
      /\ UNCHANGED <<origin, tracked, remote, config, job, found, history>>
      /\ \/ /\ found.n = 0 /\ edits' = [edits EXCEPT ![w] = {}] /\ local' = [local EXCEPT ![b] = CommitOf(base, local[b])]
            /\ step' = "record" /\ UNCHANGED wt
         \/ /\ CommitOf(of, local[b]) # Nil /\ step' = "record" /\ UNCHANGED <<edits, wt>>
            /\ local' = [local EXCEPT ![b] = Rebased(local[b], CommitOf(of, local[b]), CommitOf(base, local[b]))]
         \/ wt' = [wt EXCEPT ![w].stopped = TRUE] /\ step' = "abort" /\ UNCHANGED <<edits, local>>
  BY <1>0 DEF OntoMoves, Goes, Resets, Tip, command
<1>2. /\ b \in Names /\ w \in Names /\ base \in Bases \ OfItself(b) /\ CommitOf(base, Nil) # Nil
      /\ wt[w] # Nil /\ b = wt[w].branch /\ (job.attach # "no" => tracked[b] # Nil)
  BY <1>0, <1>1, TypesAre DEF AddOK
<1>3. /\ of \in Bases \ OfItself(b) /\ (found.n = 0 => Holds(local[b]) \subseteq Safe(b))
      /\ edits[w] \subseteq letGo
  BY <1>0, <1>1, TypesAre DEF LossOK, Looked, Tip
<1>4. /\ b \in Refs /\ b # "main" /\ local \in [Refs -> Commits \cup {Nil}] /\ local[b] \in Commits
      /\ edits \in [Names -> SUBSET Words] /\ wt \in [Names -> Trees \cup {Nil}]
  BY <1>2, NamesAre, TypesAre DEF WorktreeTypeOK
<1>5. CommitOf(base, local[b]) \in Commits
  <2>1. CommitOf(base, local[b]) # Nil  BY <1>2, NotOfItself
  <2> QED  BY <1>2, <1>4, <2>1, TypesAre, CommitOfIs
<1>6. CASE step' = "abort"
  <2>1. wt' = [wt EXCEPT ![w].stopped = TRUE] /\ UNCHANGED <<edits, local>>  BY <1>1, <1>6
  <2>2. PICK t \in Trees : t = [wt[w] EXCEPT !.stopped = TRUE] /\ t.branch = b
    <3>1. wt[w] \in Trees  BY <1>2, <1>4
    <3>2. [wt[w] EXCEPT !.stopped = TRUE] \in Trees /\ [wt[w] EXCEPT !.stopped = TRUE].branch = b  BY <1>2, <3>1, TreeStops
    <3> QED  BY <3>2, Zenon
  <2>3. wt' = [wt EXCEPT ![w] = t]  BY <1>2, <1>4, <2>1, <2>2
  <2>4. t # Nil  BY NilAssumption
  <2>5. /\ wt' \in [Names -> Trees \cup {Nil}] /\ wt'[w] # Nil /\ wt'[w].branch = b
        /\ \A v \in Names \ {w} : wt'[v] = wt[v]
    BY <1>2, <1>4, <2>2, <2>3, <2>4
  <2>6. Pushed' = Pushed /\ Kept' = Kept  BY <1>1, <2>1 DEF Pushed, Kept
  <2>7. RefsOK'
    <3>1. \A v \in Names : wt'[v] # Nil => local[wt'[v].branch] # Nil  BY <1>2, <2>5, TypesAre DEF RefsOK
    <3> QED  BY <1>1, <2>1, <2>6, <3>1, TypesAre DEF RefsOK, config
  <2>8. NothingLost'  BY <1>1, <2>6, TypesAre DEF NothingLost, history
  <2>9. WorktreeTypeOK'
    BY <1>1, <2>1, <2>5, TypesAre DEF WorktreeTypeOK, WorktreeSteps, config, history
  <2>10. AddOK' /\ RemoveOK'  BY <1>0, <1>1, <1>2, <1>6, <2>5 DEF AddOK, RemoveOK
  <2>11. LossOK'  BY <1>0, <1>1, <1>3, <1>6, <2>1 DEF LossOK, Looked, history
  <2> QED  BY <2>7, <2>8, <2>9, <2>10, <2>11 DEF WorktreeInv
<1>7. CASE step' = "record"
  <2>1. PICK c \in Commits :
          /\ local' = [local EXCEPT ![b] = c] /\ Holds(local[b]) \subseteq Safe(b) \cup Holds(c) /\ UNCHANGED wt
          /\ \/ edits' = [edits EXCEPT ![w] = {}]
             \/ edits' = edits
    <3>1. CASE found.n = 0 /\ edits' = [edits EXCEPT ![w] = {}] /\ local' = [local EXCEPT ![b] = CommitOf(base, local[b])]
               /\ UNCHANGED wt
      BY <1>3, <1>5, <3>1
    <3>2. CASE /\ CommitOf(of, local[b]) # Nil /\ UNCHANGED <<edits, wt>>
               /\ local' = [local EXCEPT ![b] = Rebased(local[b], CommitOf(of, local[b]), CommitOf(base, local[b]))]
      <4> DEFINE old == CommitOf(of, local[b])
                 new == CommitOf(base, local[b])
      <4>1. old \in Commits  BY <1>3, <1>4, <3>2, TypesAre, CommitOfIs
      <4>2. Holds(old) \subseteq Safe(b)  BY <1>2, <1>3, TypesAre, BaseSafe
      <4>3. new \in Commits  BY <1>5
      <4> HIDE DEF old, new
      <4>4. /\ Rebased(local[b], old, new) \in Commits
            /\ Holds(local[b]) \subseteq Holds(old) \cup Holds(Rebased(local[b], old, new))
        BY <1>4, <4>1, <4>3, RebaseHolds
      <4>5. local' = [local EXCEPT ![b] = Rebased(local[b], old, new)]  BY <3>2 DEF old, new
      <4> QED  BY <3>2, <4>2, <4>4, <4>5
    <3> QED  BY <1>1, <1>7, <3>1, <3>2
  <2>2. /\ local' \in [Refs -> Commits \cup {Nil}] /\ local'[b] = c /\ c # Nil
        /\ \A r \in Refs : local[r] # Nil => local'[r] # Nil
    BY <1>4, <2>1, CommitIs
  <2>3. edits' \in [Names -> SUBSET Words] /\ \A v \in Names : edits[v] \subseteq edits'[v] \cup letGo
    <3>1. CASE edits' = edits  BY <1>4, <3>1
    <3>2. CASE edits' = [edits EXCEPT ![w] = {}]  BY <1>2, <1>3, <1>4, <3>2
    <3> QED  BY <2>1, <3>1, <3>2
  <2>4. Pushed' = Pushed /\ NothingLost'  BY <1>1, <1>2, <2>1, <2>3, BranchMoves DEF history
  <2>5. RefsOK'  BY <1>1, <1>4, <2>1, <2>2, <2>4, NamesAre, TypesAre DEF RefsOK, config
  <2>6. WorktreeTypeOK'
    BY <1>1, <1>7, <2>1, <2>2, <2>3, TypesAre DEF WorktreeTypeOK, WorktreeSteps, config, history
  <2>7. CommitOf(base, Nil)' # Nil  BY <1>1, <1>2, <2>2, CommitOfKept
  <2>8. AddOK'  BY <1>0, <1>1, <1>2, <1>7, <2>1, <2>7 DEF AddOK
  <2>9. RemoveOK' /\ LossOK'  BY <1>7 DEF RemoveOK, LossOK, Looked
  <2> QED  BY <2>4, <2>5, <2>6, <2>8, <2>9 DEF WorktreeInv
<1> QED  BY <1>1, <1>6, <1>7

LEMMA OntoAbortsStep == ASSUME WorktreeInv, OntoAborts  PROVE WorktreeInv'
<1>0. PICK w : w = found.at  OBVIOUS
<1>1. /\ step = "abort" /\ wt' = [wt EXCEPT ![w].stopped = FALSE] /\ Ends /\ UNCHANGED <<refs, config, edits, history>>
  BY <1>0 DEF OntoAborts
<1>2. w \in Names /\ wt[w] # Nil  BY <1>0, <1>1, TypesAre DEF AddOK
<1>3. wt \in [Names -> Trees \cup {Nil}]  BY TypesAre DEF WorktreeTypeOK
<1>4. PICK t \in Trees : t = [wt[w] EXCEPT !.stopped = FALSE] /\ t.branch = wt[w].branch
  <2>1. wt[w] \in Trees  BY <1>2, <1>3
  <2>2. /\ [wt[w] EXCEPT !.stopped = FALSE] \in Trees
        /\ [wt[w] EXCEPT !.stopped = FALSE].branch = wt[w].branch
    BY <2>1, TreeStops
  <2> QED  BY <2>2, Zenon
<1>5. wt' = [wt EXCEPT ![w] = t] /\ t # Nil  BY <1>1, <1>2, <1>3, <1>4, NilAssumption
<1>6. /\ wt' \in [Names -> Trees \cup {Nil}] /\ wt'[w].branch = wt[w].branch
      /\ \A v \in Names \ {w} : wt'[v] = wt[v]
  BY <1>2, <1>3, <1>4, <1>5
<1>7. Pushed' = Pushed /\ Kept' = Kept  BY <1>1 DEF Pushed, Kept, refs
<1>8. RefsOK'
  <2>1. \A v \in Names : wt'[v] # Nil => local[wt'[v].branch] # Nil  BY <1>2, <1>6, TypesAre DEF RefsOK
  <2> QED  BY <1>1, <1>7, <2>1, EndsIs, TypesAre DEF RefsOK, config, refs
<1>9. NothingLost'  BY <1>1, <1>7, TypesAre DEF NothingLost, history
<1>10. WorktreeTypeOK'
  BY <1>1, <1>6, EndsIs, TypesAre DEF WorktreeTypeOK, WorktreeSteps, refs, config, history
<1> QED  BY <1>1, <1>8, <1>9, <1>10, EndsIs DEF WorktreeInv

-----------------------------------------------------------------------------
(* The last steps of a remove.                                             *)
LEMMA RemoteGrows ==
  ASSUME WorktreeInv, UNCHANGED <<origin, cfg, wt>>, Pushed \subseteq Pushed',
         origin => tracked'["main"] # Nil /\ remote'["main"] # Nil,
         \A r \in Refs : Holds(tracked'[r]) \subseteq Pushed',
         local' = local
  PROVE  RefsOK'
BY TypesAre DEF RefsOK

LEMMA PushesIs ==
  ASSUME WorktreeInv, NEW b \in Names, local[b] \in Commits, PushesTo(b)
  PROVE  /\ tracked' \in [Refs -> Commits \cup {Nil}] /\ remote' \in [Refs -> Commits \cup {Nil}]
         /\ Pushed \subseteq Pushed' /\ Holds(local[b]) \subseteq Pushed'
         /\ \A r \in Refs : Holds(tracked'[r]) \subseteq Pushed' /\ (tracked[r] # Nil => tracked'[r] # Nil)
         /\ origin => tracked'["main"] # Nil /\ remote'["main"] # Nil
<1>1. /\ remote' = [remote EXCEPT ![b] = local[b]] /\ tracked' = [tracked EXCEPT ![b] = local[b]]
      /\ (remote[b] = Nil \/ Has(local[b], remote[b]))
  BY DEF PushesTo
<1>2. /\ remote \in [Refs -> Commits \cup {Nil}] /\ tracked \in [Refs -> Commits \cup {Nil}]
      /\ b \in Refs /\ b # "main" /\ "main" \in Refs /\ local[b] # Nil
  BY NamesAre, TypesAre, CommitIs DEF WorktreeTypeOK
<1>3. Holds(remote[b]) \subseteq Holds(local[b])
  <2>1. CASE remote[b] = Nil  BY <2>1 DEF Holds
  <2>2. CASE remote[b] # Nil
    <3>1. remote[b] \in Commits /\ IsPrefix(remote[b], local[b])  BY <1>1, <1>2, <2>2 DEF Has
    <3> QED  BY <3>1, PrefixHolds
  <2> QED  BY <2>1, <2>2
<1>4. /\ \A r \in Refs : remote'[r] = IF r = b THEN local[b] ELSE remote[r]
      /\ \A r \in Refs : tracked'[r] = IF r = b THEN local[b] ELSE tracked[r]
      /\ tracked' \in [Refs -> Commits \cup {Nil}] /\ remote' \in [Refs -> Commits \cup {Nil}]
  BY <1>1, <1>2
<1>5. \A r \in Refs : Holds(remote'[r]) \subseteq Pushed'  BY DEF Pushed
<1>6. Holds(local[b]) \subseteq Pushed'  BY <1>2, <1>4, <1>5
<1>7. \A r \in Refs : Holds(remote[r]) \subseteq Pushed'  BY <1>3, <1>4, <1>5, <1>6
<1>8. Pushed \subseteq Pushed'
  <2> DEFINE P == Pushed'
  <2>1. \A r \in Refs : Holds(remote[r]) \subseteq P  BY <1>7
  <2> HIDE DEF P
  <2>2. Pushed \subseteq P  BY <2>1 DEF Pushed
  <2> QED  BY <2>2 DEF P
<1>9. \A r \in Refs : Holds(tracked'[r]) \subseteq Pushed'  BY <1>4, <1>6, <1>8, TypesAre DEF RefsOK
<1> QED  BY <1>2, <1>4, <1>6, <1>8, <1>9, TypesAre DEF RefsOK

LEMMA KeptGrows ==
  ASSUME NothingLost, Pushed \subseteq Pushed', \A r \in Refs : Holds(local[r]) \subseteq Holds(local'[r]),
         UNCHANGED <<edits, history>>
  PROVE  NothingLost'
<1>1. /\ Kept = (UNION {Holds(local[r]) : r \in Refs}) \cup Pushed \cup (UNION {edits[w] : w \in Names})
      /\ Kept' = (UNION {Holds(local'[r]) : r \in Refs}) \cup Pushed' \cup (UNION {edits[w] : w \in Names})
  BY DEF Kept
<1>2. Kept \subseteq Kept'  BY <1>1
<1> QED  BY <1>2 DEF NothingLost, history

LEMMA PushesStep == ASSUME WorktreeInv, Pushes  PROVE WorktreeInv'
<1>0. PICK b, w : b = job.branch /\ w = found.at  OBVIOUS
<1>1. /\ step = "push" /\ PushesTo(b) /\ step' = "run"
      /\ UNCHANGED <<origin, local, cfg, places, job, found, history>>
  BY <1>0 DEF Pushes, Goes, command
<1>2. w \in Names /\ wt[w] # Nil /\ (b # Nil => b = wt[w].branch) /\ Deletes
  BY <1>0, <1>1, TypesAre DEF RemoveOK
<1>3. b \in Names /\ local[b] \in Commits  BY <1>0, <1>2, TypesAre DEF Deletes
<1>4. /\ tracked' \in [Refs -> Commits \cup {Nil}] /\ remote' \in [Refs -> Commits \cup {Nil}]
      /\ Pushed \subseteq Pushed' /\ Holds(local[b]) \subseteq Pushed'
      /\ \A r \in Refs : Holds(tracked'[r]) \subseteq Pushed'
      /\ origin => tracked'["main"] # Nil /\ remote'["main"] # Nil
  BY <1>1, <1>3, PushesIs
<1>5. RefsOK'  BY <1>1, <1>4, RemoteGrows DEF places
<1>6. NothingLost'  BY <1>1, <1>4, TypesAre, KeptGrows DEF places
<1>7. WorktreeTypeOK'
  BY <1>1, <1>4, TypesAre DEF WorktreeTypeOK, WorktreeSteps, places, history
<1>8. AddOK'  BY <1>1 DEF AddOK
<1>9. RemoveOK'  BY <1>0, <1>1, <1>2 DEF RemoveOK, places
<1>10. LossOK'
  <2>1. Holds(local[b]) \subseteq Safe(b)'  BY <1>4 DEF Safe
  <2>2. Tip' = local[b] /\ Tip = local[b] /\ job'.branch = b  BY <1>0, <1>1 DEF Tip
  <2>3. edits'[found'.at] \subseteq letGo'  BY <1>1, TypesAre DEF LossOK, Looked, places, history
  <2>4. job'.drop => Holds(Tip)' \subseteq letGo'  BY <1>1, <1>2, <2>2, TypesAre DEF LossOK, history
  <2> QED  BY <1>1, <2>1, <2>2, <2>3, <2>4 DEF LossOK
<1> QED  BY <1>5, <1>6, <1>7, <1>8, <1>9, <1>10 DEF WorktreeInv

LEMMA RemovesTreeStep == ASSUME WorktreeInv, RemovesTree  PROVE WorktreeInv'
<1>0. PICK b, w : b = job.branch /\ w = found.at  OBVIOUS
<1>1. /\ step = "run" /\ wt' = [wt EXCEPT ![w] = Nil] /\ edits' = [edits EXCEPT ![w] = {}]
      /\ UNCHANGED <<refs, config, history>>
      /\ \/ Deletes /\ step' = "delete" /\ UNCHANGED <<origin, job, found>>
         \/ Ends
  BY <1>0 DEF RemovesTree, Goes, command
<1>2. w \in Names /\ edits[w] \subseteq letGo  BY <1>0, <1>1, TypesAre DEF RemoveOK, LossOK, Looked
<1>3. /\ wt \in [Names -> Trees \cup {Nil}] /\ edits \in [Names -> SUBSET Words]
      /\ local \in [Refs -> Commits \cup {Nil}]
  BY TypesAre DEF WorktreeTypeOK
<1>4. /\ wt' \in [Names -> Trees \cup {Nil}] /\ edits' \in [Names -> SUBSET Words]
      /\ \A v \in Names : (wt'[v] # Nil => wt'[v] = wt[v]) /\ edits[v] \subseteq edits'[v] \cup letGo
  BY <1>1, <1>2, <1>3
<1>5. UNCHANGED origin  BY <1>1, EndsIs
<1>6. Pushed' = Pushed /\ NothingLost'
  <2>1. local' = [local EXCEPT ![w] = local[w]]  BY <1>1, <1>2, <1>3, NamesAre DEF refs
  <2> QED  BY <1>1, <1>2, <1>4, <2>1, BranchMoves DEF refs, history
<1>7. RefsOK'  BY <1>1, <1>4, <1>5, <1>6, TypesAre DEF RefsOK, refs, config
<1>8. CASE Ends
  <2>1. WorktreeTypeOK'
    BY <1>1, <1>4, <1>8, EndsIs, TypesAre DEF WorktreeTypeOK, WorktreeSteps, refs, config, history
  <2> QED  BY <1>6, <1>7, <1>8, <2>1, EndsIs DEF WorktreeInv
<1>9. CASE Deletes /\ step' = "delete" /\ UNCHANGED <<origin, job, found>>
  <2>1. WorktreeTypeOK'
    BY <1>1, <1>4, <1>9, TypesAre DEF WorktreeTypeOK, WorktreeSteps, refs, config, history
  <2>2. AddOK'  BY <1>9 DEF AddOK
  <2>3. RemoveOK'  BY <1>9 DEF RemoveOK, Deletes
  <2>4. LossOK'
    <3>1. Safe(b) \subseteq Safe(b)'  BY <1>1, SafeStays DEF refs, history, Pushed
    <3>2. Holds(local[b]) \subseteq Safe(b)  BY <1>0, <1>1, <1>9, TypesAre DEF LossOK, Tip
    <3> QED  BY <1>0, <1>1, <1>9, <3>1, <3>2 DEF LossOK, Looked, Tip, refs
  <2> QED  BY <1>6, <1>7, <2>1, <2>2, <2>3, <2>4 DEF WorktreeInv
<1> QED  BY <1>1, <1>8, <1>9

LEMMA DeletesBranchStep == ASSUME WorktreeInv, DeletesBranch  PROVE WorktreeInv'
<1>0. PICK b : b = job.branch  OBVIOUS
<1>1. /\ step = "delete" /\ local[b] # Nil /\ ~\E w \in Names : wt[w] # Nil /\ wt[w].branch = b
      /\ local' = [local EXCEPT ![b] = Nil] /\ cfg' = [cfg EXCEPT ![b] = Nil]
      /\ Ends /\ UNCHANGED <<tracked, remote, places, history>>
  BY <1>0 DEF DeletesBranch
<1>2. Deletes  BY <1>1, TypesAre DEF RemoveOK
<1>3. b \in Names /\ Holds(local[b]) \subseteq Safe(b)
  BY <1>0, <1>1, <1>2, TypesAre DEF Deletes, LossOK, Tip
<1>4. b \in Refs /\ b # "main" /\ local \in [Refs -> Commits \cup {Nil}] /\ cfg \in [Refs -> Bases \cup {Nil}]
  BY <1>3, NamesAre, TypesAre DEF WorktreeTypeOK
<1>5. /\ local' \in [Refs -> Commits \cup {Nil}] /\ cfg' \in [Refs -> Bases \cup {Nil}]
      /\ \A r \in Refs \ {b} : local'[r] = local[r] /\ cfg'[r] = cfg[r]
      /\ cfg'[b] = Nil
  BY <1>1, <1>4
<1>6. Pushed' = Pushed /\ NothingLost'  BY <1>1, <1>3, BranchMoves DEF places, history
<1>7. UNCHANGED origin  BY <1>1, EndsIs
<1>8. RefsOK'
  <2>1. Nil \notin OfItself(b)  BY <1>3, NamesAre DEF OfItself, Bases
  <2>2. \A c \in Names : cfg'[c] \notin OfItself(c)  BY <1>5, <2>1, NamesAre, TypesAre DEF RefsOK
  <2>3. \A w \in Names : wt'[w] # Nil => local'[wt'[w].branch] # Nil  BY <1>1, <1>5, NamesAre, TypesAre DEF RefsOK, places
  <2>4. local'["main"] # Nil  BY <1>4, <1>5, NamesAre, TypesAre DEF RefsOK
  <2> QED  BY <1>1, <1>6, <1>7, <2>2, <2>3, <2>4, TypesAre DEF RefsOK
<1>9. WorktreeTypeOK'
  BY <1>1, <1>5, EndsIs, TypesAre DEF WorktreeTypeOK, WorktreeSteps, places, history
<1> QED  BY <1>1, <1>6, <1>8, <1>9, EndsIs DEF WorktreeInv

-----------------------------------------------------------------------------
(* Beside a command: the person, and others on the remote.                 *)
LEMMA Beside ==
  ASSUME WorktreeInv, UNCHANGED <<step, job, found>>,
         \A r \in Refs : (local[r] # Nil => local'[r] # Nil) /\ (tracked[r] # Nil => tracked'[r] # Nil),
         \A w \in Names : wt[w] # Nil => wt'[w] # Nil /\ wt'[w].branch = wt[w].branch
  PROVE  AddOK' /\ RemoveOK'
<1>0. PICK b, w, base : b = job.branch /\ w = found.at /\ base = found.ref  OBVIOUS
<1>1. AddOK'
  <2>1. /\ base \in Bases /\ CommitOf(base, Nil) # Nil => CommitOf(base, Nil)' # Nil
        /\ b \in Names => b \in Refs
    BY CommitOfKept, NamesAre
  <2>2. step \in {"base", "place", "make", "upstream", "forward", "onto", "record", "answer", "move"} =>
          b \in Names /\ (job.attach # "no" => tracked[b] # Nil)
    BY <1>0, TypesAre DEF AddOK
  <2> QED  BY <1>0, <2>1, <2>2, TypesAre DEF AddOK
<1>2. RemoveOK'  BY <1>0, TypesAre DEF RemoveOK, Deletes
<1> QED  BY <1>1, <1>2

(* A remote that grows, with the local branches as they are.               *)
LEMMA RemoteMoves ==
  ASSUME WorktreeInv, UNCHANGED <<origin, step, job, found, local, cfg, places, history>>,
         Pushed \subseteq Pushed', tracked' \in [Refs -> Commits \cup {Nil}], remote' \in [Refs -> Commits \cup {Nil}],
         origin => tracked'["main"] # Nil /\ remote'["main"] # Nil,
         \A r \in Refs : Holds(tracked'[r]) \subseteq Pushed' /\ (tracked[r] # Nil => tracked'[r] # Nil)
  PROVE  WorktreeInv'
<1>0. PICK b : b = job.branch  OBVIOUS
<1>1. RefsOK'  BY RemoteGrows DEF places
<1>2. NothingLost'  BY TypesAre, KeptGrows DEF places
<1>3. WorktreeTypeOK'  BY TypesAre DEF WorktreeTypeOK, places, history
<1>4. AddOK' /\ RemoveOK'  BY Beside DEF places
<1>5. LossOK'
  <2>1. Safe(b) \subseteq Safe(b)'  BY SafeStays DEF history
  <2>2. Tip' = Tip /\ Deletes' = Deletes /\ Looked' = Looked  BY DEF Tip, Deletes, Looked
  <2> QED  BY <1>0, <2>1, <2>2, TypesAre DEF LossOK, places, history
<1> QED  BY <1>1, <1>2, <1>3, <1>4, <1>5 DEF WorktreeInv

LEMMA EditStep == ASSUME WorktreeInv, NEW w \in Names, NEW p \in Patches, Edit(w, p)  PROVE WorktreeInv'
<1>1. /\ wt[w] # Nil /\ edits' = [edits EXCEPT ![w] = @ \cup {p}] /\ used' = used \cup {p}
      /\ letGo' = (IF Looked THEN letGo \cup {p} ELSE letGo) /\ (Looked => found.at = w)
      /\ UNCHANGED <<origin, step, job, found, refs, config, wt>>
  BY DEF Edit, Same, At, command, Looked
<1>2. edits \in [Names -> SUBSET Words] /\ p \in Words  BY TypesAre DEF WorktreeTypeOK, Words
<1>3. /\ edits' \in [Names -> SUBSET Words] /\ edits'[w] = edits[w] \cup {p}
      /\ \A v \in Names \ {w} : edits'[v] = edits[v]
  BY <1>1, <1>2
<1>4. letGo \subseteq letGo' /\ letGo' \subseteq letGo \cup {p} /\ (Looked => p \in letGo')  BY <1>1
<1>5. Pushed' = Pushed  BY <1>1 DEF Pushed, refs
<1>6. RefsOK'  BY <1>1, <1>5, TypesAre DEF RefsOK, refs, config
<1>7. NothingLost'
  <2>1. ASSUME NEW x \in used'  PROVE x \in Kept' \cup letGo'
    <3>1. CASE x = p
      <4>1. p \in edits'[w]  BY <1>3
      <4> QED  BY <3>1, <4>1 DEF Kept
    <3>2. CASE x # p
      <4>1. x \in Kept \cup letGo  BY <1>1, <2>1, <3>2, TypesAre DEF NothingLost
      <4>2. x \in Kept => x \in Kept'
        <5>1. (\E v \in Names : x \in edits[v]) => \E v \in Names : x \in edits'[v]  BY <1>3
        <5> QED  BY <1>1, <1>5, <5>1 DEF Kept, refs
      <4> QED  BY <1>4, <4>1, <4>2
    <3> QED  BY <3>1, <3>2
  <2> QED  BY <2>1 DEF NothingLost
<1>8. WorktreeTypeOK'
  <2>1. letGo' \subseteq Words /\ used' \subseteq Patches  BY <1>1, <1>2, <1>4, TypesAre DEF WorktreeTypeOK
  <2> QED  BY <1>1, <1>3, <2>1, TypesAre DEF WorktreeTypeOK, refs, config
<1>9. AddOK' /\ RemoveOK'  BY <1>1, Beside DEF refs
<1>10. LossOK'
  <2>0. PICK b : b = job.branch  OBVIOUS
  <2>1. Safe(b) \subseteq Safe(b)'  BY <1>1, <1>4, <1>5, SafeStays DEF refs
  <2>2. Tip' = Tip /\ Deletes' = Deletes /\ Looked' = Looked  BY <1>1 DEF Tip, Deletes, Looked, refs
  <2>3. Looked => edits'[found.at] \subseteq letGo'  BY <1>1, <1>3, <1>4, TypesAre DEF LossOK
  <2> QED  BY <1>1, <1>4, <2>0, <2>1, <2>2, <2>3, TypesAre DEF LossOK
<1> QED  BY <1>6, <1>7, <1>8, <1>9, <1>10 DEF WorktreeInv

LEMMA CommitStep == ASSUME WorktreeInv, NEW w \in Names, Commit(w)  PROVE WorktreeInv'
<1>0. PICK b : b = wt[w].branch  OBVIOUS
<1>1. /\ wt[w] # Nil /\ local' = [local EXCEPT ![b] = Append(local[b], edits[w])] /\ edits' = [edits EXCEPT ![w] = {}]
      /\ (Looked => found.at = w)
      /\ UNCHANGED <<origin, step, job, found, tracked, remote, config, wt, history>>
  BY <1>0 DEF Commit, Same, At, command, Looked
<1>2. b \in Names /\ local[b] \in Commits  BY <1>0, <1>1, TypesAre
<1>3. /\ edits \in [Names -> SUBSET Words] /\ local \in [Refs -> Commits \cup {Nil}] /\ b \in Refs /\ b # "main"
  BY <1>2, NamesAre, TypesAre DEF WorktreeTypeOK
<1>4. PICK c \in Commits : c = Append(local[b], edits[w]) /\ Holds(c) = Holds(local[b]) \cup edits[w]
  <2>1. edits[w] \in SUBSET Words  BY <1>3
  <2> QED  BY <1>2, <2>1, AppendHolds
<1>5. /\ local' = [local EXCEPT ![b] = c] /\ local' \in [Refs -> Commits \cup {Nil}] /\ local'[b] = c /\ c # Nil
      /\ \A r \in Refs \ {b} : local'[r] = local[r]
  BY <1>1, <1>3, <1>4, CommitIs
<1>6. /\ edits' \in [Names -> SUBSET Words] /\ edits'[w] = {} /\ \A v \in Names \ {w} : edits'[v] = edits[v]
  BY <1>1, <1>3
<1>7. Pushed' = Pushed  BY <1>1 DEF Pushed
<1>8. NothingLost'
  <2>1. ASSUME NEW x \in used'  PROVE x \in Kept' \cup letGo'
    <3>1. x \in Kept \cup letGo  BY <1>1, <2>1, TypesAre DEF NothingLost, history
    <3> SUFFICES ASSUME x \in Kept  PROVE x \in Kept'  BY <1>1, <3>1 DEF history
    <3>2. CASE x \in Pushed  BY <1>7, <3>2 DEF Kept
    <3>3. CASE \E v \in Names \ {w} : x \in edits[v]
      <4>1. \E v \in Names : x \in edits'[v]  BY <1>6, <3>3
      <4> QED  BY <4>1 DEF Kept
    <3>4. CASE x \in edits[w] \/ \E r \in Refs : x \in Holds(local[r])
      <4>1. \E r \in Refs : x \in Holds(local'[r])  BY <1>3, <1>4, <1>5, <3>4
      <4> QED  BY <4>1 DEF Kept
    <3> QED  BY <3>2, <3>3, <3>4 DEF Kept
  <2> QED  BY <2>1 DEF NothingLost
<1>9. RefsOK'  BY <1>1, <1>3, <1>5, <1>7, NamesAre, TypesAre DEF RefsOK, config
<1>10. WorktreeTypeOK'  BY <1>1, <1>5, <1>6, TypesAre DEF WorktreeTypeOK, config, history
<1>11. AddOK' /\ RemoveOK'  BY <1>1, <1>5, Beside
<1>12. LossOK'
  <2>0. PICK d : d = job.branch  OBVIOUS
  <2>1. Deletes' = Deletes /\ Looked' = Looked  BY <1>1 DEF Deletes, Looked
  <2>2. CASE ~Looked
    <3>1. ~Looked' /\ step' = step  BY <1>1, <2>1, <2>2
    <3>2. step # "delete"  BY <1>1, <2>2 DEF Commit, At
    <3> QED  BY <2>2, <3>1, <3>2 DEF LossOK, Looked
  <2>3. CASE Looked
    <3>1. found.at = w /\ edits[w] \subseteq letGo  BY <1>1, <2>3, TypesAre DEF LossOK
    <3>2. step \in {"answer", "move"} \/ Deletes => d = b
      BY <1>0, <2>0, <2>3, <3>1, TypesAre DEF AddOK, RemoveOK, Looked, Deletes
    <3>3. Safe(b)' = Safe(b)  BY <1>1, <1>5, <1>7 DEF Safe, history
    <3>4. edits[w] \subseteq Safe(b)  BY <3>1 DEF Safe
    <3>5. d = b => Tip = local[b] /\ Tip' = c  BY <1>1, <1>5, <2>0 DEF Tip
    <3>6. step \in {"answer", "move"} => found.old \in Bases \ OfItself(d) /\ (found.n = 0 => Holds(c) \subseteq Safe(b)')
      BY <1>4, <2>0, <3>2, <3>3, <3>4, <3>5, TypesAre DEF LossOK
    <3>7. step \in {"count", "fetchBase", "land", "ask", "push", "run"} /\ Deletes /\ job.drop => Holds(c) \subseteq letGo
      BY <1>4, <3>1, <3>2, <3>5, TypesAre DEF LossOK
    <3>8. step \in {"run", "delete"} /\ Deletes => Holds(c) \subseteq Safe(b)'
      BY <1>4, <2>0, <3>2, <3>3, <3>4, <3>5, TypesAre DEF LossOK
    <3> QED  BY <1>1, <1>6, <2>0, <2>1, <3>1, <3>2, <3>5, <3>6, <3>7, <3>8 DEF LossOK, history
  <2> QED  BY <2>2, <2>3
<1> QED  BY <1>8, <1>9, <1>10, <1>11, <1>12 DEF WorktreeInv

LEMMA PushStep == ASSUME WorktreeInv, NEW w \in Names, Push(w)  PROVE WorktreeInv'
<1>1. Shown(w) # Nil /\ PushesTo(Shown(w)) /\ UNCHANGED <<origin, step, job, found, local, config, places, history>>
  BY DEF Push, Same, command
<1>2. wt[w] # Nil /\ Shown(w) = wt[w].branch  BY <1>1 DEF Shown
<1>3. PICK b \in Names : b = Shown(w) /\ local[b] \in Commits  BY <1>2, TypesAre
<1>4. PushesTo(b)  BY <1>1, <1>3
<1>5. /\ tracked' \in [Refs -> Commits \cup {Nil}] /\ remote' \in [Refs -> Commits \cup {Nil}]
      /\ Pushed \subseteq Pushed' /\ Holds(local[b]) \subseteq Pushed'
      /\ \A r \in Refs : Holds(tracked'[r]) \subseteq Pushed' /\ (tracked[r] # Nil => tracked'[r] # Nil)
      /\ origin => tracked'["main"] # Nil /\ remote'["main"] # Nil
  BY <1>3, <1>4, PushesIs
<1> QED  BY <1>1, <1>5, RemoteMoves DEF config

LEMMA AbortsRebaseStep == ASSUME WorktreeInv, NEW w \in Names, AbortsRebase(w)  PROVE WorktreeInv'
<1>1. /\ wt[w] # Nil /\ step = "idle" /\ wt' = [wt EXCEPT ![w].stopped = FALSE]
      /\ UNCHANGED <<origin, step, job, found, refs, config, edits, history>>
  BY DEF AbortsRebase, Same, command
<1>2. wt \in [Names -> Trees \cup {Nil}]  BY TypesAre DEF WorktreeTypeOK
<1>3. PICK t \in Trees : t = [wt[w] EXCEPT !.stopped = FALSE] /\ t.branch = wt[w].branch
  <2>1. wt[w] \in Trees  BY <1>1, <1>2
  <2>2. /\ [wt[w] EXCEPT !.stopped = FALSE] \in Trees
        /\ [wt[w] EXCEPT !.stopped = FALSE].branch = wt[w].branch
    BY <2>1, TreeStops
  <2> QED  BY <2>2, Zenon
<1>4. wt' = [wt EXCEPT ![w] = t] /\ t # Nil  BY <1>1, <1>2, <1>3, NilAssumption
<1>5. /\ wt' \in [Names -> Trees \cup {Nil}] /\ wt'[w].branch = wt[w].branch
      /\ \A v \in Names \ {w} : wt'[v] = wt[v]
  BY <1>2, <1>3, <1>4
<1>6. Pushed' = Pushed /\ Kept' = Kept  BY <1>1 DEF Pushed, Kept, refs
<1>7. RefsOK'
  <2>1. \A v \in Names : wt'[v] # Nil => local[wt'[v].branch] # Nil  BY <1>1, <1>5, TypesAre DEF RefsOK
  <2> QED  BY <1>1, <1>6, <2>1, TypesAre DEF RefsOK, config, refs
<1>8. NothingLost'  BY <1>1, <1>6, TypesAre DEF NothingLost, history
<1>9. WorktreeTypeOK'  BY <1>1, <1>5, TypesAre DEF WorktreeTypeOK, refs, config, history
<1>10. AddOK' /\ RemoveOK' /\ LossOK'  BY <1>1 DEF AddOK, RemoveOK, LossOK, Looked
<1> QED  BY <1>7, <1>8, <1>9, <1>10 DEF WorktreeInv

LEMMA MergesHereStep == ASSUME WorktreeInv, NEW b \in Names, MergesHere(b)  PROVE WorktreeInv'
<1>1. /\ local[b] # Nil /\ Has(local[b], local["main"]) /\ local' = [local EXCEPT !["main"] = local[b]]
      /\ UNCHANGED <<origin, step, job, found, tracked, remote, config, places, history>>
  BY DEF MergesHere, Same, command
<1>2. local \in [Refs -> Commits \cup {Nil}] /\ "main" \in Refs /\ b \in Refs /\ Names \subseteq Refs \ {"main"}
  BY NamesAre, TypesAre DEF WorktreeTypeOK
<1>3. local["main"] \in Commits /\ local[b] \in Commits  BY <1>1, <1>2, TypesAre DEF RefsOK
<1>4. Holds(local["main"]) \subseteq Holds(local[b])  BY <1>1, <1>3, PrefixHolds DEF Has
<1>5. /\ local' \in [Refs -> Commits \cup {Nil}] /\ local'["main"] = local[b]
      /\ \A r \in Refs \ {"main"} : local'[r] = local[r]
  BY <1>1, <1>2
<1>6. \A r \in Refs : Holds(local[r]) \subseteq Holds(local'[r]) /\ (local[r] # Nil => local'[r] # Nil)
  BY <1>1, <1>4, <1>5
<1>7. Pushed' = Pushed  BY <1>1 DEF Pushed
<1>8. NothingLost'  BY <1>1, <1>6, <1>7, TypesAre, KeptGrows DEF places
<1>9. RefsOK'  BY <1>1, <1>2, <1>6, <1>7, TypesAre DEF RefsOK, config, places
<1>10. WorktreeTypeOK'  BY <1>1, <1>5, TypesAre DEF WorktreeTypeOK, config, places, history
<1>11. AddOK' /\ RemoveOK'  BY <1>1, <1>6, Beside DEF places
<1>12. LossOK'
  <2>0. PICK d : d = job.branch  OBVIOUS
  <2>1. Deletes' = Deletes /\ Looked' = Looked  BY <1>1 DEF Deletes, Looked
  <2>2. d \in Names => Tip' = Tip /\ Safe(d) \subseteq Safe(d)'
    <3> SUFFICES ASSUME d \in Names  PROVE Tip' = Tip /\ Safe(d) \subseteq Safe(d)'  OBVIOUS
    <3>1. Tip' = Tip  BY <1>1, <1>2, <1>5, <2>0 DEF Tip
    <3> DEFINE S == Safe(d)'
    <3>2. letGo \subseteq S /\ Pushed \subseteq S /\ "root" \in S /\ \A r \in Refs \ {d} : Holds(local'[r]) \subseteq S
      BY <1>1, <1>7 DEF Safe, history
    <3> HIDE DEF S
    <3>3. \A r \in Refs \ {d} : Holds(local[r]) \subseteq S  BY <1>6, <3>2
    <3>4. Safe(d) \subseteq S  BY <3>2, <3>3 DEF Safe
    <3> QED  BY <3>1, <3>4 DEF S
  <2>3. step \in {"answer", "move"} \/ Deletes => d \in Names  BY <2>0, TypesAre DEF AddOK, Deletes
  <2> QED  BY <1>1, <2>0, <2>1, <2>2, <2>3, TypesAre DEF LossOK, places, history
<1> QED  BY <1>8, <1>9, <1>10, <1>11, <1>12 DEF WorktreeInv

LEMMA MovesIs ==
  ASSUME WorktreeInv, NEW next, Moves(next), next \in [Refs -> Commits \cup {Nil}],
         origin => next["main"] # Nil, \A r \in Refs : Holds(remote[r]) \subseteq Holds(next[r]) \cup Holds(next["main"])
  PROVE  WorktreeInv'
<1>1. remote' = next /\ UNCHANGED <<origin, step, job, found, local, tracked, config, places, history>>
  BY DEF Moves, Same, command
<1> DEFINE P == Pushed'
<1>2. \A r \in Refs : Holds(next[r]) \subseteq P  BY <1>1 DEF Pushed
<1> HIDE DEF P
<1>3. \A r \in Refs : Holds(remote[r]) \subseteq P  BY <1>2, NamesAre
<1>4. Pushed \subseteq P  BY <1>3 DEF Pushed
<1>5. \A r \in Refs : Holds(tracked[r]) \subseteq P  BY <1>4, TypesAre DEF RefsOK
<1>6. tracked \in [Refs -> Commits \cup {Nil}] /\ (origin => tracked["main"] # Nil)  BY TypesAre DEF WorktreeTypeOK, RefsOK
<1> USE DEF P
<1> QED  BY <1>1, <1>4, <1>5, <1>6, RemoteMoves DEF config

LEMMA OthersCommitStep == ASSUME WorktreeInv, NEW r \in Refs, OthersCommit(r)  PROVE WorktreeInv'
<1>1. origin /\ remote[r] # Nil /\ Moves([remote EXCEPT ![r] = Append(remote[r], {"u"})])  BY DEF OthersCommit
<1>2. remote \in [Refs -> Commits \cup {Nil}] /\ remote["main"] # Nil  BY <1>1, TypesAre DEF WorktreeTypeOK, RefsOK
<1>3. remote[r] \in Commits /\ {"u"} \in SUBSET Words  BY <1>1, <1>2 DEF Words
<1>4. PICK c \in Commits : c = Append(remote[r], {"u"}) /\ Holds(remote[r]) \subseteq Holds(c)
  BY <1>3, AppendHolds
<1>5. PICK next : next = [remote EXCEPT ![r] = c]  OBVIOUS
<1>6. /\ next \in [Refs -> Commits \cup {Nil}] /\ next[r] = c /\ c # Nil
      /\ \A q \in Refs \ {r} : next[q] = remote[q]
  BY <1>2, <1>4, <1>5, CommitIs
<1>7. next["main"] # Nil /\ \A q \in Refs : Holds(remote[q]) \subseteq Holds(next[q]) \cup Holds(next["main"])
  BY <1>2, <1>4, <1>6, NamesAre
<1>8. Moves(next)  BY <1>1, <1>4, <1>5
<1> QED  BY <1>6, <1>7, <1>8, MovesIs

LEMMA OthersMergeStep == ASSUME WorktreeInv, NEW b \in Names, OthersMerge(b)  PROVE WorktreeInv'
<1>0. PICK main, c, mine : main = remote["main"] /\ c = remote[b] /\ mine = Since(c, main)  OBVIOUS
<1>1. PICK merged \in {main \o mine, Append(main, UNION ToSet(mine))}, kept \in {c, Nil} :
        Moves([remote EXCEPT !["main"] = merged, ![b] = kept])
  BY <1>0 DEF OthersMerge
<1>2. origin /\ c # Nil  BY <1>0 DEF OthersMerge
<1>3. /\ remote \in [Refs -> Commits \cup {Nil}] /\ "main" \in Refs /\ b \in Refs /\ b # "main"
      /\ main \in Commits /\ c \in Commits
  BY <1>0, <1>2, NamesAre, TypesAre DEF WorktreeTypeOK, RefsOK
<1>4. /\ main \in Seq(SUBSET Words) /\ c \in Seq(SUBSET Words)
  BY <1>3, CommitIs
<1>5. mine \in Seq(SUBSET Words)  BY <1>0, <1>4, SinceIs
<1>6. Holds(c) \subseteq Holds(main) \cup UNION ToSet(mine)  BY <1>0, <1>3, SinceHolds
<1>7. UNION ToSet(mine) \subseteq Words
  <2>1. \A change \in ToSet(mine) : change \subseteq Holds(c)  BY <1>0, <1>3, SinceHolds
  <2>2. Holds(c) \subseteq Words  BY <1>3, HoldsWords
  <2> QED  BY <2>1, <2>2
<1>8. merged \in Commits /\ Holds(merged) = Holds(main) \cup UNION ToSet(mine)
  <2>1. CASE merged = main \o mine  BY <1>3, <1>5, <2>1, ConcatHolds
  <2>2. CASE merged = Append(main, UNION ToSet(mine))  BY <1>3, <1>7, <2>2, AppendHolds
  <2> QED  BY <1>1, <2>1, <2>2
<1>9. PICK next : next = [remote EXCEPT !["main"] = merged, ![b] = kept]  OBVIOUS
<1>10. /\ next \in [Refs -> Commits \cup {Nil}] /\ next["main"] = merged /\ merged # Nil
       /\ \A q \in Refs \ {"main", b} : next[q] = remote[q]
  BY <1>1, <1>3, <1>8, <1>9, CommitIs
<1>11. \A q \in Refs : Holds(remote[q]) \subseteq Holds(next[q]) \cup Holds(next["main"])
  BY <1>0, <1>6, <1>8, <1>10
<1>12. Moves(next)  BY <1>1, <1>9
<1> QED  BY <1>10, <1>11, <1>12, MovesIs

-----------------------------------------------------------------------------
(* No interleaving of commands, the person and the remote breaks the       *)
(* invariant.                                                              *)
LEMMA WorktreeStepInv == ASSUME WorktreeInv, [WorktreeNext]_worktreeVars  PROVE WorktreeInv'
<1>1. ASSUME NEW q \in Requests, Start(q)  PROVE WorktreeInv'  BY <1>1, StartStep
<1>2. ASSUME Adds  PROVE WorktreeInv'
  BY <1>2, FetchStep, AttachesStep, ResolvesStep, FindPlaceStep, MakeStep, RecordStep, UpstreamStep, FastForwardStep,
     OntoLooksStep, OntoAsksStep, OntoMovesStep, OntoAbortsStep, StopsStep, Zenon
     DEF Adds
<1>3. ASSUME Removes  PROVE WorktreeInv'
  BY <1>3, FindStep, LooksStep, CountsStep, FetchBaseStep, LandsStep, AsksStep, PushesStep, RemovesTreeStep,
     DeletesBranchStep, Zenon
     DEF Removes
<1>4. ASSUME Stops  PROVE WorktreeInv'  BY <1>4, StopsStep
<1>5. ASSUME Person  PROVE WorktreeInv'
  BY <1>5, CommitStep, PushStep, AbortsRebaseStep, EditStep, MergesHereStep, Zenon DEF Person
<1>6. ASSUME Others  PROVE WorktreeInv'
  <2>1. Refs \ {"pr"} \subseteq Refs  OBVIOUS
  <2> QED  BY <1>6, <2>1, OthersCommitStep, OthersMergeStep, Zenon DEF Others
<1>7. ASSUME UNCHANGED worktreeVars  PROVE WorktreeInv'
  <2>1. RefsOK' /\ NothingLost'  BY <1>7, TypesAre, Still DEF worktreeVars, history
  <2>2. WorktreeTypeOK'
    BY <1>7, TypesAre DEF worktreeVars, WorktreeTypeOK, refs, config, places, command, history
  <2>3. AddOK' /\ RemoveOK'
    <3>1. UNCHANGED <<step, job, found, local, tracked, wt>>  BY <1>7 DEF worktreeVars, refs, places, command
    <3> QED  BY <3>1, Beside
  <2>4. LossOK'
    BY <1>7, TypesAre DEF worktreeVars, LossOK, Looked, Deletes, Tip, Safe, Pushed, refs, places, command, history
  <2> QED  BY <2>1, <2>2, <2>3, <2>4 DEF WorktreeInv
<1> QED  BY <1>1, <1>2, <1>3, <1>4, <1>5, <1>6, <1>7 DEF WorktreeNext

LEMMA WorktreeAlways == WorktreeSpec => []WorktreeInv
<1>1. WorktreeInit => WorktreeInv  BY WorktreeInitInv
<1>2. WorktreeInv /\ [WorktreeNext]_worktreeVars => WorktreeInv'  BY WorktreeStepInv
<1> QED  BY <1>1, <1>2, PTL DEF WorktreeSpec

(* Commits, bases, worktrees and requests keep their types.                *)
THEOREM WorktreeTypeCorrect == WorktreeSpec => []WorktreeTypeOK
<1>1. WorktreeInv => WorktreeTypeOK  BY DEF WorktreeInv
<1> QED  BY <1>1, WorktreeAlways, PTL

(* Nothing a person wrote is lost to a remove, to a branch moved onto      *)
(* another base, or to a stop, a failure or the remote in between.         *)
THEOREM NothingIsLost == WorktreeSpec => []NothingLost
<1>1. WorktreeInv => NothingLost  BY DEF WorktreeInv
<1> QED  BY <1>1, WorktreeAlways, PTL

-----------------------------------------------------------------------------
(* Places: the invariant.                                                  *)
HoldInv ==
  /\ \A r \in Runs : pc[r] = "lock" =>
       todo[r] \subseteq want[r] /\ \A p \in want[r] \ todo[r] : excl[p] = r
  /\ \A r \in Runs, p \in Places :
       pc[r] \in {"going", "record", "registered"} /\ p \in want[r] => excl[p] = r

ListedInv == \A r \in Runs : pc[r] \in {"registered", "live", "left"} => r \in listed

AloneInv ==
  \A r, o \in Runs, p \in Places : r # o /\ Writes(o) /\ p \in want[r] /\ p \in want[o] =>
    /\ pc[r] = "going" => p \in todo[r]
    /\ pc[r] \notin {"record", "registered"}

CheckInv ==
  \A c \in Checks, p \in Places : c \in held[p] =>
    /\ pc[c] \in {"hold", "git"}
    /\ pc[c] = "git" \/ p \notin todo[c] => \A r \in Runs : Writes(r) => p \notin want[r]

(* A listed run that overlaps what a check has looked at came after it.     *)
SinceInv ==
  /\ \A r \in Runs : pc[r] = "idle" => r \notin listed
  /\ \A c \in Checks, p \in Places, r \in Runs :
       Answered(c, p) /\ r \in listed /\ OverlapsRun(p, r) => <<p, r>> \in since[c]

GuardInv == TypeOK /\ HoldInv /\ ListedInv /\ AloneInv /\ CheckInv
IInv == GuardInv /\ SinceInv

-----------------------------------------------------------------------------
USE PlacesAssumption, WithinAssumption, ProcessesAssumption, StartsAssumption
USE DEF vars, locks, request, GoTo, Writes, RunSteps, CheckSteps

(* No process has started at first.                                         *)
LEMMA InitIInv == Init => IInv
BY DEF Init, IInv, GuardInv, SinceInv, Answered, TypeOK, HoldInv, ListedInv, AloneInv, CheckInv

(* What the listing of a run and the release of a check leave typed.        *)
LEMMA ListsIs == ASSUME TypeOK, NEW r \in Runs, Lists(r)
                 PROVE  /\ listed' = listed \cup {r} /\ since' \in [Checks -> SUBSET (Places \X Runs)]
                        /\ \A c \in Checks : since[c] \subseteq since'[c]
                        /\ r \notin listed => \A c \in Checks, p \in Places : Answered(c, p) => <<p, r>> \in since'[c]
BY DEF Lists, TypeOK

(* One step per action.                                                     *)
LEMMA NextGuardInv == GuardInv /\ [Next]_vars => GuardInv'
<1> SUFFICES ASSUME GuardInv, [Next]_vars PROVE GuardInv'
  OBVIOUS
<1> USE DEF GuardInv, TypeOK, HoldInv, ListedInv, AloneInv, CheckInv
<1>1. ASSUME NEW r \in Runs, RunLocks(r) PROVE GuardInv'
  BY <1>1 DEF RunLocks
<1>2. ASSUME NEW r \in Runs, RunHolds(r) PROVE GuardInv'
  BY <1>2 DEF RunHolds
<1>3. ASSUME NEW r \in Runs, NEW p \in Places, RunFindsNone(r, p) PROVE GuardInv'
  BY <1>3 DEF RunFindsNone, Going, Overlap
<1>4. ASSUME NEW r \in Runs, NEW p \in Places, RunRefused(r, p) PROVE GuardInv'
  BY <1>4 DEF RunRefused, HoldReleased
<1>5. ASSUME NEW r \in Runs, RunAlone(r) PROVE GuardInv'
  BY <1>5 DEF RunAlone
<1>6. ASSUME NEW r \in Runs, NEW p \in Places, RunRecords(r, p) PROVE GuardInv'
  BY <1>6 DEF RunRecords
<1>7. ASSUME NEW r \in Runs, RunRegisters(r) PROVE GuardInv'
  BY <1>7, ListsIs DEF RunRegisters
<1>8. ASSUME NEW r \in Runs, RunGoes(r) PROVE GuardInv'
  <2>1. TypeOK'
    BY <1>8 DEF RunGoes, HoldReleased
  <2>2. HoldInv'
    BY <1>8 DEF RunGoes, HoldReleased
  <2>3. ListedInv'
    BY <1>8 DEF RunGoes, HoldReleased
  <2>4. AloneInv'
    BY <1>8 DEF RunGoes, HoldReleased
  <2>5. CheckInv'
    BY <1>8, SMTT(40) DEF RunGoes, HoldReleased
  <2> QED
    BY <2>1, <2>2, <2>3, <2>4, <2>5
<1>9. ASSUME NEW r \in Runs, RunEnds(r) PROVE GuardInv'
  <2>1. TypeOK'
    BY <1>9 DEF RunEnds, HoldReleased
  <2>2. HoldInv'
    BY <1>9 DEF RunEnds, HoldReleased
  <2>3. ListedInv'
    BY <1>9 DEF RunEnds, HoldReleased
  <2>4. AloneInv'
    BY <1>9 DEF RunEnds, HoldReleased
  <2>5. CheckInv'
    BY <1>9 DEF RunEnds, HoldReleased
  <2> QED
    BY <2>1, <2>2, <2>3, <2>4, <2>5
<1>10. ASSUME NEW r \in Runs, RunKilled(r) PROVE GuardInv'
  BY <1>10 DEF RunKilled
<1>11. ASSUME NEW r \in Runs, NEW ps \in SUBSET Places, RunOpens(r, ps) PROVE GuardInv'
  <2>0. listed' \subseteq Runs /\ listed \subseteq listed' /\ since' \in [Checks -> SUBSET (Places \X Runs)]
    BY <1>11, ListsIs DEF RunOpens
  <2>1. TypeOK'
    BY <1>11, <2>0 DEF RunOpens
  <2>2. HoldInv'
    BY <1>11, <2>0 DEF RunOpens
  <2>3. ListedInv'
    BY <1>11, <2>0 DEF RunOpens
  <2>4. AloneInv'
    BY <1>11, <2>0 DEF RunOpens
  <2>5. CheckInv'
    BY <1>11, <2>0 DEF RunOpens
  <2> QED
    BY <2>1, <2>2, <2>3, <2>4, <2>5
<1>12. ASSUME NEW c \in Checks, GitStarts(c) PROVE GuardInv'
  BY <1>12 DEF GitStarts
<1>13. ASSUME NEW c \in Checks, GitEnds(c) PROVE GuardInv'
  BY <1>13 DEF GitEnds, CheckReleased
<1>14. ASSUME NEW c \in Checks, RecordDropped(c) PROVE GuardInv'
  BY <1>14, ZenonT(40) DEF RecordDropped
<1>15. ASSUME NEW c \in Checks, NEW p \in Places, CheckShares(c, p) PROVE GuardInv'
  BY <1>15 DEF CheckShares
<1>16. ASSUME NEW c \in Checks, NEW p \in Places, CheckFindsNone(c, p) PROVE GuardInv'
  BY <1>16, SMTT(30) DEF CheckFindsNone, Going, Overlap
<1>17. ASSUME NEW c \in Checks, NEW p \in Places, CheckRefused(c, p) PROVE GuardInv'
  BY <1>17 DEF CheckRefused, CheckReleased
<1>18. ASSUME NEW c \in Checks, NEW d \in Places, NEW a \in {"git", "hold", "remove"},
             CheckStarts(c, d, a) PROVE GuardInv'
  BY <1>18 DEF CheckStarts, Containing
<1>19. CASE UNCHANGED vars
  BY <1>19
<1>20. ASSUME NEW r \in Runs, RunStep(r) PROVE GuardInv'
  BY <1>20, <1>1, <1>2, <1>3, <1>4, <1>5, <1>6, <1>7, <1>8, <1>9, Zenon DEF RunStep
<1>21. ASSUME NEW c \in Checks, CheckStep(c) PROVE GuardInv'
  BY <1>21, <1>12, <1>13, <1>14, <1>15, <1>16, <1>17, Zenon DEF CheckStep
<1> HIDE DEF GuardInv, vars, Writes
<1> QED
  BY <1>9, <1>10, <1>11, <1>18, <1>19, <1>20, <1>21 DEF Next

(* A run is listed once, with every check that has looked noted; a check    *)
(* that has just looked saw no listed run.                                  *)
LEMMA NextSinceInv == IInv /\ [Next]_vars => SinceInv'
<1> SUFFICES ASSUME IInv, [Next]_vars PROVE SinceInv'
  OBVIOUS
<1> USE DEF IInv, GuardInv, TypeOK, CheckInv, SinceInv, Answered, OverlapsRun
<1>1. ASSUME NEW r \in Runs, RunLocks(r) PROVE SinceInv'
  BY <1>1 DEF RunLocks
<1>2. ASSUME NEW r \in Runs, RunHolds(r) PROVE SinceInv'
  BY <1>2 DEF RunHolds
<1>3. ASSUME NEW r \in Runs, NEW p \in Places, RunFindsNone(r, p) PROVE SinceInv'
  BY <1>3 DEF RunFindsNone
<1>4. ASSUME NEW r \in Runs, NEW p \in Places, RunRefused(r, p) PROVE SinceInv'
  BY <1>4 DEF RunRefused
<1>5. ASSUME NEW r \in Runs, RunAlone(r) PROVE SinceInv'
  BY <1>5 DEF RunAlone
<1>6. ASSUME NEW r \in Runs, NEW p \in Places, RunRecords(r, p) PROVE SinceInv'
  BY <1>6 DEF RunRecords
<1>7. ASSUME NEW r \in Runs, RunRegisters(r) PROVE SinceInv'
  BY <1>7, ListsIs DEF RunRegisters
<1>8. ASSUME NEW r \in Runs, RunGoes(r) PROVE SinceInv'
  BY <1>8 DEF RunGoes
<1>9. ASSUME NEW r \in Runs, RunEnds(r) PROVE SinceInv'
  BY <1>9 DEF RunEnds
<1>10. ASSUME NEW r \in Runs, RunKilled(r) PROVE SinceInv'
  BY <1>10 DEF RunKilled
<1>11. ASSUME NEW r \in Runs, NEW ps \in SUBSET Places, RunOpens(r, ps) PROVE SinceInv'
  <2>1. CASE Lists(r)
    BY <1>11, <2>1, ListsIs DEF RunOpens
  <2>2. CASE UNCHANGED <<listed, since>>
    BY <1>11, <2>2 DEF RunOpens
  <2> QED
    BY <1>11, <2>1, <2>2 DEF RunOpens
<1>12. ASSUME NEW c \in Checks, GitStarts(c) PROVE SinceInv'
  BY <1>12 DEF GitStarts
<1>13. ASSUME NEW c \in Checks, GitEnds(c) PROVE SinceInv'
  BY <1>13 DEF GitEnds, CheckReleased
<1>14. ASSUME NEW c \in Checks, RecordDropped(c) PROVE SinceInv'
  BY <1>14 DEF RecordDropped
<1>15. ASSUME NEW c \in Checks, NEW p \in Places, CheckShares(c, p) PROVE SinceInv'
  BY <1>15 DEF CheckShares
<1>16. ASSUME NEW c \in Checks, NEW p \in Places, CheckFindsNone(c, p) PROVE SinceInv'
  BY <1>16, SMTT(30) DEF CheckFindsNone, Going
<1>17. ASSUME NEW c \in Checks, NEW p \in Places, CheckRefused(c, p) PROVE SinceInv'
  BY <1>17 DEF CheckRefused, CheckReleased
<1>18. ASSUME NEW c \in Checks, NEW d \in Places, NEW a \in {"git", "hold", "remove"},
             CheckStarts(c, d, a) PROVE SinceInv'
  BY <1>18 DEF CheckStarts, Containing
<1>19. CASE UNCHANGED vars
  BY <1>19
<1>20. ASSUME NEW r \in Runs, RunStep(r) PROVE SinceInv'
  BY <1>20, <1>1, <1>2, <1>3, <1>4, <1>5, <1>6, <1>7, <1>8, <1>9, Zenon DEF RunStep
<1>21. ASSUME NEW c \in Checks, CheckStep(c) PROVE SinceInv'
  BY <1>21, <1>12, <1>13, <1>14, <1>15, <1>16, <1>17, Zenon DEF CheckStep
<1> HIDE DEF IInv, SinceInv, vars, Writes
<1> QED
  BY <1>9, <1>10, <1>11, <1>18, <1>19, <1>20, <1>21 DEF Next

(* The invariant of every state the specification reaches.                  *)
LEMMA Inductive == Spec => []IInv
<1>1. IInv /\ [Next]_vars => IInv'
  BY NextGuardInv, NextSinceInv, Zenon DEF IInv
<1> QED
  BY <1>1, InitIInv, PTL DEF Spec

(* The type invariant, and with it that no place is held exclusive and      *)
(* shared at a time, for any places, runs and checks.                       *)
THEOREM TypeCorrect == Spec => []TypeOK
<1>1. IInv => TypeOK
  BY DEF IInv, GuardInv
<1> QED
  BY <1>1, Inductive, PTL

(* While a run records its places no other run writes to one of them, so    *)
(* what recordPlaces records is not another run's, for any number of runs   *)
(* and any places, one inside the other or not.                             *)
THEOREM RecordsAreThePersons == Spec => []RecordedAlone
<1>1. IInv => RecordedAlone
  BY DEF IInv, GuardInv, TypeOK, AloneInv, RecordedAlone
<1> QED
  BY <1>1, Inductive, PTL

(* Git and a container are never at a place the check holds at once, as     *)
(* hostgit promises, however the places lie in each other and for any       *)
(* number of processes.  A run whose place lies inside a held one, or       *)
(* around it, writes beside git only when it was listed after the check had *)
(* looked at the held one: every run listed by then was seen and refused.   *)
THEOREM GitWaits == Spec => []GitBesideNoRun
<1>1. IInv => GitBesideNoRun
  <2> SUFFICES ASSUME IInv, NEW c \in Checks, NEW p \in Places, NEW r \in Runs,
                      pc[c] = "git", c \in held[p], Writes(r), OverlapsRun(p, r)
               PROVE  p \notin want[r] /\ <<p, r>> \in since[c]
    BY DEF GitBesideNoRun
  <2>1. p \notin want[r]
    BY DEF IInv, GuardInv, CheckInv
  <2>2. r \in listed
    BY DEF IInv, GuardInv, ListedInv
  <2> QED
    BY <2>1, <2>2 DEF IInv, SinceInv, Answered
<1> QED
  BY <1>1, Inductive, PTL
=============================================================================
