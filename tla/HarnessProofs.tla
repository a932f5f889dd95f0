---------------------------- MODULE HarnessProofs ----------------------------
(***************************************************************************)
(* What every interleaving of composes, removes, kills and edits keeps of  *)
(* the harness of any number of worktrees.                                 *)
(*                                                                         *)
(* The invariant has a part for the exclude file, which all worktrees share *)
(* (LinesOK: until two of them have it read at once, each line a worktree  *)
(* needs is there or about to be written, and no line on its way out is    *)
(* one that another needs), and parts for each worktree (Local): what the  *)
(* command's tasks can be (ProcOK), when .qory is there (QoryOK), that no  *)
(* link stands behind a symlink (Reach), that the links of copilot and of  *)
(* a module have their trace in the home and the report, for the command   *)
(* that will have to find them (OfCopilot, OfModule), that each link which *)
(* is to go has a task that takes it (Pruning), what is right once a       *)
(* command is done (Resolving, LeftOK), and that a tracked path which gave *)
(* way is known to the command or the report (Listed).                     *)
(***************************************************************************)
EXTENDS Harness, WellFoundedInduction, TLAPS

Tasks == [do : {"line", "link", "clear", "prune", "unlink", "drop", "dir"}, at : Paths, soft : BOOLEAN,
          rt : Runtimes \cup {"none", "module"}]
Procs == [pc : {"idle", "clear", "build", "tasks"}, op : {"none", "compose", "remove", "removeRuntime"},
          rt : Runtimes \cup {"none"}, rts : SUBSET Runtimes, req : Requests \cup {None},
          was : Homes \cup {None}, prev : Reports \cup {None},
          todo : Seq(Tasks), line : Lines \cup {None}, replaced : SUBSET Paths, removed : SUBSET Leaves, failed : BOOLEAN]
TypeOK ==
  /\ at \in [Worktrees -> [Paths -> {"none", "own", "tracked", "theirs"}]]
  /\ home \in [Worktrees -> Homes \cup {None}] /\ report \in [Worktrees -> Reports \cup {None}]
  /\ exclude \in SUBSET Paths /\ tampered \in SUBSET Worktrees
  /\ proc \in [Worktrees -> Procs]
  /\ sound \in [Worktrees -> BOOLEAN] /\ lost \in [Worktrees -> SUBSET Paths]
  /\ raced \in BOOLEAN /\ left \in [Worktrees -> Removed \cup {None}]

(* What a command is about, and what a link of it leads to.                *)
Composes(w) == proc[w].op = "compose"
Tasking(w) == proc[w].pc = "tasks"
Deep == {".github/agents/rev", ".github/web"}
Linkable(p, l) == l \in p.req.res /\ (l \in Deep => "copilot" \in p.rts)

(* Which tasks a command has; a module's link and the end come last.       *)
Legal(p) == {t \in Tasks :
  /\ t.do \in {"line", "drop", "dir"} => t.at = ".qory"
  /\ t.do = "line" => p.op = "compose" /\ (~p.req.links => t.rt = "none")
  /\ t.do = "link" => p.op = "compose" /\ p.req.links /\ t.at \in Leaves /\ Linkable(p, t.at)
  /\ t.do = "clear" => p.op = "compose" /\ p.req.links /\ t.at \in Dirs
  /\ t.do = "prune" => t.at \in Leaves
  /\ t.do = "unlink" => t.rt \in Runtimes /\ (p.op = "compose" => ~p.req.links)
  /\ t.do = "drop" => p.op = "removeRuntime"
  /\ t.do = "dir" => p.op \in {"remove", "removeRuntime"} /\ t.rt = "none"}
Last(t) == t.do \in {"drop", "dir"} \/ (t.do = "link" /\ t.at = "tools")
Has(s, do, p) == \E i \in DOMAIN s : s[i].do = do /\ s[i].at = p

(* A command between two of its steps.                                     *)
ProcOK(w) ==
  LET p == proc[w] IN
  /\ p.pc = "idle" => p = Idle
  /\ p.pc # "idle" => p.op # "none"
  /\ p.pc \in {"clear", "build"} => p.op = "compose" /\ p.todo = <<>> /\ p.line = None /\ ~p.failed
  /\ p.op = "compose" => p.req \in Requests /\ (p.prev # None => p.prev = report[w])
  /\ p.op = "compose" /\ (p.pc \in {"clear", "build"} \/ ~p.req.links) => p.replaced = Replaced(p.prev)
  /\ p.op = "compose" /\ p.pc \in {"build", "tasks"} => p.req.targets \subseteq p.rts
  /\ p.op = "compose" /\ p.pc = "tasks" => home[w] = [rts |-> p.rts, res |-> p.req.res]
  /\ p.op = "removeRuntime" => p.rt \in Runtimes /\ ~p.failed
  /\ p.failed /\ p.op = "compose" => ~p.req.links
  /\ sound[w] => p.op \in {"none", "removeRuntime"}
  /\ p.todo \in Seq(Legal(p))
  /\ \A i \in DOMAIN p.todo : Last(p.todo[i]) => i = Len(p.todo)

(* A home stands in a .qory, which a remove has still to take or has taken. *)
QoryOK(w) ==
  /\ at[w][".qory"] \in {"none", "own"}
  /\ home[w] # None \/ proc[w].pc = "build" => at[w][".qory"] = "own"
  /\ proc[w].op \in {"remove", "removeRuntime"} =>
       Has(proc[w].todo, "dir", ".qory") \/ (proc[w].op = "removeRuntime" /\ Has(proc[w].todo, "drop", ".qory"))
       \/ at[w][".qory"] = "none"

(* The line that a worktree is about to write of those it has read.        *)
Adds(w, p) == proc[w].line # None /\ proc[w].line.add /\ proc[w].line.at = p
Takes(w, p) == proc[w].line # None /\ ~proc[w].line.add /\ proc[w].line.at = p
Linked(w) == OwnLinks(w) \ lost[w]
LineToCome(w) == Has(proc[w].todo, "line", ".qory")
(* The line of .qory is due once a compose wrote it.                       *)
QoryDue(w) == sound[w] \/ (Composes(w) /\ Tasking(w) /\ ~LineToCome(w))
(* Nobody else has the file read, what was read is still what it says,     *)
(* what w needs is in it, and v is not about to take that from it.         *)
Alone(v, w) == v # w => proc[v].line = None \/ proc[w].line = None
Fresh(w) == proc[w].line # None => proc[w].line.read = exclude
Covered(w) == /\ \A l \in Linked(w) : l \in exclude \/ Adds(w, l)
              /\ at[w][".qory"] = "own" /\ QoryDue(w) => ".qory" \in exclude \/ Adds(w, ".qory")
Harmless(v, w) == /\ \A l \in Leaves : Takes(v, l) => at[w][l] # "own"
                  /\ Takes(v, ".qory") /\ at[w][".qory"] = "own" => ~QoryDue(w)
LinesOK == ~raced => \A v, w \in Worktrees : Alone(v, w) /\ Fresh(w) /\ Covered(w) /\ Harmless(v, w)

(* Where a link's trace is, so that the command that has to take it does.  *)
Prunable(w, l) == Has(proc[w].todo, "prune", l)
Reach(w) == \A l \in OwnLinks(w) : ~Behind(w, l)
OfCopilot(w) == ~proc[w].failed => \A l \in Linked(w) \cap Deep :
  "copilot" \in IF proc[w].pc = "build" THEN proc[w].rts ELSE Composed(w)
InReport(r) == r # None /\ "tools" \in r.res
OfModule(w) == ~proc[w].failed /\ "tools" \in Linked(w) =>
  IF Composes(w) THEN InReport(proc[w].prev) \/ (Tasking(w) /\ proc[w].todo = <<>> /\ "tools" \in proc[w].req.res)
  ELSE InReport(report[w])
TakesAll(w) == proc[w].op = "remove" \/ (Composes(w) /\ ~proc[w].req.links)
Dropping(w) == Has(proc[w].todo, "drop", ".qory")
Pruning(w) == Tasking(w) /\ ~proc[w].failed =>
  /\ TakesAll(w) => \A l \in OwnLinks(w) : Prunable(w, l)
  /\ Composes(w) /\ proc[w].req.links => \A l \in Linked(w) : Linkable(proc[w], l) \/ Prunable(w, l)
  /\ proc[w].op = "removeRuntime" /\ Dropping(w) => \A l \in Linked(w) :
       (proc[w].rt = "copilot" /\ l \in Deep) \/ (Composed(w) \subseteq {proc[w].rt} /\ l \in Leaves \ (Deep \cup {"tools"}))
         => Prunable(w, l)
  /\ proc[w].op = "removeRuntime" /\ ~Dropping(w) => \A l \in Linked(w) : Prunable(w, l)
Resolving(w) == sound[w] /\ (IdleAt(w) \/ Dropping(w)) => \A l \in Linked(w) : Resolves(home[w], l)

(* What the command will report, or the report says, of replaced paths.    *)
Known(w) == IF Composes(w) THEN proc[w].replaced ELSE Replaced(report[w])
Listed(w) ==
  /\ \A p \in Paths : at[w][p] = "tracked" => p \in Tracked[w]
  /\ \A p \in Tracked[w] \ lost[w] : at[w][p] \in {"none", "own"} => p \in Known(w) \/ Behind(w, p)
LeftOK(w) == left[w] # None /\ ~left[w].failed => left[w].own = {}
Local(w) == ProcOK(w) /\ QoryOK(w) /\ Reach(w) /\ OfCopilot(w) /\ OfModule(w) /\ Pruning(w) /\ Resolving(w) /\ Listed(w)
              /\ LeftOK(w)
IInv == TypeOK /\ LinesOK /\ \A w \in Worktrees : Local(w)

(* Tasks that others may follow, and a sequence whose last is its only end. *)
Plain(p) == {t \in Legal(p) : ~Last(t)}
LastOK(s) == \A i \in DOMAIN s : Last(s[i]) => i = Len(s)
-----------------------------------------------------------------------------
(* The sequences of tasks that the commands make.                          *)
LEMMA HasConcat ==
  ASSUME NEW T, NEW a \in Seq(T), NEW b \in Seq(T), NEW do, NEW p
  PROVE  Has(a \o b, do, p) <=> Has(a, do, p) \/ Has(b, do, p)
<1>1. Has(a, do, p) => Has(a \o b, do, p)  BY DEF Has
<1>2. ASSUME Has(b, do, p)  PROVE Has(a \o b, do, p)
  <2>1. PICK i \in DOMAIN b : b[i].do = do /\ b[i].at = p  BY <1>2 DEF Has
  <2>2. i + Len(a) \in DOMAIN (a \o b) /\ (a \o b)[i + Len(a)] = b[i]  BY <2>1
  <2> QED  BY <2>1, <2>2 DEF Has
<1>3. ASSUME Has(a \o b, do, p)  PROVE Has(a, do, p) \/ Has(b, do, p)
  <2>1. PICK i \in DOMAIN (a \o b) : (a \o b)[i].do = do /\ (a \o b)[i].at = p  BY <1>3 DEF Has
  <2>2. CASE i <= Len(a)  BY <2>1, <2>2 DEF Has
  <2>3. CASE i > Len(a)
    <3>1. i - Len(a) \in DOMAIN b /\ (a \o b)[i] = b[i - Len(a)]  BY <2>1, <2>3
    <3> QED  BY <2>1, <3>1 DEF Has
  <2> QED  BY <2>1, <2>2, <2>3
<1> QED  BY <1>1, <1>2, <1>3

LEMMA HasEither ==
  ASSUME NEW T, NEW a \in Seq(T), NEW b \in Seq(T), NEW do, NEW p, Has(a, do, p) \/ Has(b, do, p)
  PROVE  Has(a \o b, do, p)
BY HasConcat

LEMMA HasOne == ASSUME NEW t, NEW do, NEW p  PROVE Has(<<t>>, do, p) <=> t.do = do /\ t.at = p
<1>1. DOMAIN <<t>> = {1} /\ <<t>>[1] = t  OBVIOUS
<1> QED  BY <1>1 DEF Has

LEMMA HasNone == \A do, p : ~Has(<<>>, do, p)
<1>1. DOMAIN <<>> = {}  OBVIOUS
<1> QED  BY <1>1 DEF Has

LEMMA OneType == ASSUME NEW T, NEW t \in T  PROVE <<t>> \in Seq(T)
OBVIOUS

LEMMA IfType == ASSUME NEW T, NEW here, NEW t, here => t \in T  PROVE If(here, t) \in Seq(T)
BY DEF If

LEMMA EachType ==
  ASSUME NEW T, NEW do, NEW S, NEW soft, NEW rt, \A l \in S \cap Leaves : Task(do, l, soft, rt) \in T
  PROVE  Each(do, S, soft, rt) \in Seq(T)
<1> DEFINE A(l) == If(l \in S, Task(do, l, soft, rt))
<1>1. \A l \in Leaves : A(l) \in Seq(T)  BY IfType
<1>2. A(".agents/skills/review") \in Seq(T) /\ A(".github/agents/rev") \in Seq(T) /\ A(".github/web") \in Seq(T)
        /\ A("AGENTS.md") \in Seq(T) /\ A("tools") \in Seq(T)
  BY <1>1 DEF Leaves
<1>3. Each(do, S, soft, rt) = A(".agents/skills/review") \o A(".github/agents/rev") \o A(".github/web") \o A("AGENTS.md") \o A("tools")
  BY DEF Each
<1> HIDE DEF A
<1> QED  BY <1>2, <1>3

LEMMA EachHas ==
  ASSUME NEW do, NEW S, NEW soft, NEW rt, NEW p \in S \cap Leaves
  PROVE  Has(Each(do, S, soft, rt), do, p)
<1> DEFINE T == {Task(do, l, soft, rt) : l \in Leaves}
           A(l) == If(l \in S, Task(do, l, soft, rt))
<1>1. \A l \in Leaves : A(l) \in Seq(T)  BY IfType
<1>2. A(".agents/skills/review") \in Seq(T) /\ A(".github/agents/rev") \in Seq(T) /\ A(".github/web") \in Seq(T)
        /\ A("AGENTS.md") \in Seq(T) /\ A("tools") \in Seq(T)
  BY <1>1 DEF Leaves
<1>3. Each(do, S, soft, rt) = A(".agents/skills/review") \o A(".github/agents/rev") \o A(".github/web") \o A("AGENTS.md") \o A("tools")
  BY DEF Each
<1>4. Has(A(p), do, p)
  <2>1. A(p) = <<Task(do, p, soft, rt)>>  BY DEF If
  <2> QED  BY <2>1, HasOne DEF Task
<1>5. p \in {".agents/skills/review", ".github/agents/rev", ".github/web", "AGENTS.md", "tools"}  BY DEF Leaves
<1> HIDE DEF A, T
<1>6. \A a, b \in Seq(T) : a \o b \in Seq(T) /\ (Has(a, do, p) \/ Has(b, do, p) => Has(a \o b, do, p))
  BY HasConcat
<1> DEFINE a == A(".agents/skills/review")  b == A(".github/agents/rev")  c == A(".github/web")
           d == A("AGENTS.md")  e == A("tools")
<1>7. Has(a, do, p) \/ Has(b, do, p) \/ Has(c, do, p) \/ Has(d, do, p) \/ Has(e, do, p)  BY <1>4, <1>5
<1>8. Each(do, S, soft, rt) = a \o b \o c \o d \o e  BY <1>3
<1> HIDE DEF a, b, c, d, e
<1>9. a \in Seq(T) /\ b \in Seq(T) /\ c \in Seq(T) /\ d \in Seq(T) /\ e \in Seq(T)  BY <1>2 DEF a, b, c, d, e
<1>10. Has(a \o b, do, p) \/ Has(c, do, p) \/ Has(d, do, p) \/ Has(e, do, p)  BY <1>6, <1>7, <1>9
<1>11. Has(a \o b \o c, do, p) \/ Has(d, do, p) \/ Has(e, do, p)  BY <1>6, <1>9, <1>10
<1>12. Has(a \o b \o c \o d, do, p) \/ Has(e, do, p)  BY <1>6, <1>9, <1>11
<1>13. a \o b \o c \o d \in Seq(T)  BY <1>6, <1>9
<1>14. Has(a \o b \o c \o d \o e, do, p)  BY <1>6, <1>9, <1>12, <1>13
<1> QED  BY <1>8, <1>14, Zenon

LEMMA TailFacts ==
  ASSUME NEW T, NEW s \in Seq(T), s # <<>>
  PROVE  /\ Tail(s) \in Seq(T) /\ Head(s) \in T
         /\ \A do, p : /\ Has(Tail(s), do, p) => Has(s, do, p)
                       /\ Has(s, do, p) => Has(Tail(s), do, p) \/ (Head(s).do = do /\ Head(s).at = p)
         /\ LastOK(s) => LastOK(Tail(s)) /\ (Last(Head(s)) => Tail(s) = <<>>)
<1>1. Tail(s) \in Seq(T) /\ Head(s) \in T /\ Len(Tail(s)) = Len(s) - 1 /\ Len(s) \in Nat \ {0} /\ Head(s) = s[1]
  OBVIOUS
<1>2. \A i \in DOMAIN Tail(s) : i + 1 \in DOMAIN s /\ Tail(s)[i] = s[i + 1]  OBVIOUS
<1>3. \A i \in DOMAIN s : i = 1 \/ (i - 1 \in DOMAIN Tail(s) /\ Tail(s)[i - 1] = s[i])  OBVIOUS
<1>4. \A do, p : /\ Has(Tail(s), do, p) => Has(s, do, p)
                 /\ Has(s, do, p) => Has(Tail(s), do, p) \/ (Head(s).do = do /\ Head(s).at = p)
  <2> SUFFICES ASSUME NEW do, NEW p
               PROVE  /\ Has(Tail(s), do, p) => Has(s, do, p)
                      /\ Has(s, do, p) => Has(Tail(s), do, p) \/ (Head(s).do = do /\ Head(s).at = p)
    OBVIOUS
  <2>1. Has(Tail(s), do, p) => Has(s, do, p)  BY <1>2, Zenon DEF Has
  <2>2. Has(s, do, p) => Has(Tail(s), do, p) \/ (s[1].do = do /\ s[1].at = p)  BY <1>3, Zenon DEF Has
  <2> QED  BY <2>1, <2>2, <1>1
<1>5. ASSUME LastOK(s)  PROVE LastOK(Tail(s)) /\ (Last(Head(s)) => Tail(s) = <<>>)
  <2>1. \A i \in DOMAIN Tail(s) : Last(Tail(s)[i]) => i + 1 = Len(s)  BY <1>2, <1>5 DEF LastOK
  <2>2. \A i \in DOMAIN Tail(s) : i \in Nat  OBVIOUS
  <2>3. LastOK(Tail(s))  BY <2>1, <2>2, <1>1 DEF LastOK
  <2>4. Last(Head(s)) => Len(s) = 1
    <3>1. 1 \in DOMAIN s  BY <1>1
    <3> QED  BY <3>1, <1>1, <1>5 DEF LastOK
  <2>5. Len(s) = 1 => Tail(s) = <<>>
    <3> DEFINE t == Tail(s)
    <3>1. t \in Seq(T) /\ (Len(s) = 1 => Len(t) = 0)  BY <1>1
    <3> HIDE DEF t
    <3>2. Len(t) = 0 => t = <<>>  BY <3>1
    <3>3. t = Tail(s)  BY DEF t
    <3> QED  BY <3>1, <3>2, <3>3, Zenon
  <2> QED  BY <2>3, <2>4, <2>5
<1> QED  BY <1>1, <1>4, <1>5

(* Tasks that may stand anywhere, and one that must be the last.           *)
LEMMA LastConcat ==
  ASSUME NEW p, NEW a \in Seq(Plain(p)), NEW b \in Seq(Legal(p)), Len(b) <= 1 \/ b \in Seq(Plain(p))
  PROVE  a \o b \in Seq(Legal(p)) /\ LastOK(a \o b)
<1>1. a \in Seq(Legal(p))  BY DEF Plain
<1>2. \A i \in DOMAIN a : ~Last(a[i])  BY DEF Plain
<1>3. \A i \in DOMAIN (a \o b) : Last((a \o b)[i]) => i = Len(a \o b)
  <2> SUFFICES ASSUME NEW i \in DOMAIN (a \o b), Last((a \o b)[i])  PROVE i = Len(a \o b)
    OBVIOUS
  <2>1. CASE i <= Len(a)  BY <2>1, <1>2
  <2>2. CASE i > Len(a)
    <3>1. i - Len(a) \in DOMAIN b /\ (a \o b)[i] = b[i - Len(a)]  BY <2>2
    <3>2. b \notin Seq(Plain(p))  BY <3>1 DEF Plain
    <3> QED  BY <3>1, <3>2
  <2> QED  BY <2>1, <2>2
<1> QED  BY <1>1, <1>3 DEF LastOK

LEMMA LeastNumber ==
  ASSUME NEW S, S \subseteq Nat, S # {}
  PROVE  \E n \in S : \A m \in S : n <= m
<1>1. PICK n \in S : \A m \in S : ~(<<m, n>> \in OpToRel(<, Nat))
  BY WFMin, NatLessThanWellFounded
<1>2. \A m \in S : ~(m < n)
  BY <1>1 DEF OpToRel
<1> QED
  BY <1>2

(* What After leaves: each task about another runtime.                     *)
LEMMA AfterFacts ==
  ASSUME NEW T, NEW s \in Seq(T), NEW rt
  PROVE  /\ After(s, rt) \in Seq(T) /\ (LastOK(s) => LastOK(After(s, rt)))
         /\ \A do, p : /\ Has(After(s, rt), do, p) => Has(s, do, p)
                       /\ (\E i \in DOMAIN s : s[i].do = do /\ s[i].at = p /\ s[i].rt # rt) => Has(After(s, rt), do, p)
<1> DEFINE Right(i) == i \in 1..(Len(s) + 1) /\ (\A j \in 1..(i - 1) : s[j].rt = rt) /\ (i <= Len(s) => s[i].rt # rt)
           Other == {i \in 1..(Len(s) + 1) : i <= Len(s) => s[i].rt # rt}
           n == CHOOSE i \in 1..(Len(s) + 1) : (\A j \in 1..(i - 1) : s[j].rt = rt) /\ (i <= Len(s) => s[i].rt # rt)
<1>1. \E i \in 1..(Len(s) + 1) : Right(i)
  <2>1. Other \subseteq Nat /\ Len(s) + 1 \in Other  OBVIOUS
  <2>2. PICK i \in Other : \A m \in Other : i <= m  BY <2>1, LeastNumber
  <2>3. \A j \in 1..(i - 1) : j \notin Other /\ j \in 1..(Len(s) + 1) /\ j <= Len(s)  BY <2>2
  <2>4. \A j \in 1..(i - 1) : s[j].rt = rt  BY <2>3
  <2> QED  BY <2>2, <2>4
<1>2. Right(n)  BY <1>1
<1>3. After(s, rt) = SubSeq(s, n, Len(s))  BY DEF After
<1> HIDE DEF n
<1> DEFINE a == SubSeq(s, n, Len(s))
<1>4. /\ n \in 1..(Len(s) + 1) /\ a \in Seq(T) /\ Len(a) = Len(s) - n + 1
      /\ \A i \in DOMAIN a : i + n - 1 \in DOMAIN s /\ a[i] = s[i + n - 1]
  BY <1>2
<1>5. \A i \in DOMAIN s : i >= n => i - n + 1 \in DOMAIN a /\ a[i - n + 1] = s[i]  BY <1>4
<1>6. \A i \in DOMAIN s : i < n => s[i].rt = rt
  <2>1. \A i \in DOMAIN s : i < n => i \in 1..(n - 1)  BY <1>4
  <2> QED  BY <2>1, <1>2
<1> HIDE DEF a, Right
<1>7. LastOK(s) => LastOK(a)
  <2>1. SUFFICES ASSUME LastOK(s), NEW i \in DOMAIN a, Last(a[i])  PROVE i = Len(a)
    BY DEF LastOK
  <2>2. i + n - 1 = Len(s)  BY <2>1, <1>4 DEF LastOK
  <2>3. i \in Nat  BY <1>4
  <2> QED  BY <2>2, <2>3, <1>4
<1>8. \A do, p : Has(a, do, p) => Has(s, do, p)  BY <1>4, Zenon DEF Has
<1>9. ASSUME NEW do, NEW p, NEW i \in DOMAIN s, s[i].do = do, s[i].at = p, s[i].rt # rt  PROVE Has(a, do, p)
  <2>1. i >= n  BY <1>4, <1>6, <1>9
  <2>2. i - n + 1 \in DOMAIN a /\ a[i - n + 1] = s[i]  BY <2>1, <1>5
  <2> QED  BY <2>2, <1>9 DEF Has
<1>10. After(s, rt) = a  BY <1>3 DEF a
<1> QED  BY <1>4, <1>7, <1>8, <1>9, <1>10

(* The paths, one by one.                                                  *)
LEMMA AboveIs ==
  /\ Above(".agents/skills/review") = {".agents/skills"} /\ Above(".github/agents/rev") = {".github", ".github/agents"}
  /\ Above(".github/web") = {".github"} /\ Above(".github/agents") = {".github"}
  /\ Above("AGENTS.md") = {} /\ Above("tools") = {} /\ Above(".agents/skills") = {} /\ Above(".github") = {}
  /\ Above(".qory") = {}
BY DEF Above

LEMMA AboveFacts ==
  /\ \A p \in Paths : Above(p) \subseteq Dirs /\ p \notin Above(p) /\ \A d \in Above(p) : Above(d) \subseteq Above(p)
  /\ \A p \in Leaves \cup {".qory"} : p \notin Dirs
<1>1. \A p \in Paths : p \in {".agents/skills/review", ".github/agents/rev", ".github/web", "AGENTS.md", "tools",
                            ".agents/skills", ".github", ".github/agents", ".qory"}
  BY DEF Paths, Leaves, Dirs
<1>2. \A p \in Leaves \cup {".qory"} : p \notin Dirs  BY DEF Leaves, Dirs
<1>3. \A p \in Paths : Above(p) \subseteq Dirs  BY <1>1, AboveIs DEF Dirs
<1>4. \A p \in Paths : p \notin Above(p)  BY <1>1, AboveIs
<1>5. \A p \in Paths : \A d \in Above(p) : Above(d) \subseteq Above(p)  BY <1>1, AboveIs
<1> QED  BY <1>2, <1>3, <1>4, <1>5

LEMMA UnderIs ==
  /\ Under(Skills.at) = {".agents/skills/review"} /\ Under(Agents.at) = {".github/agents/rev"}
  /\ Under(Memory.at) = {"AGENTS.md"}
<1>1. Skills.at = ".agents/skills" /\ Agents.at = ".github/agents" /\ Memory.at = "AGENTS.md"
  BY DEF Skills, Agents, Memory
<1>2. \A l \in Leaves : l \in {".agents/skills/review", ".github/agents/rev", ".github/web", "AGENTS.md", "tools"}
  BY DEF Leaves
<1>3. Under(".agents/skills") = {".agents/skills/review"}  BY AboveIs DEF Under, Leaves
<1>4. Under(".github/agents") = {".github/agents/rev"}  BY AboveIs DEF Under, Leaves
<1>5. Under("AGENTS.md") = {"AGENTS.md"}  BY AboveIs DEF Under, Leaves
<1> QED  BY <1>1, <1>3, <1>4, <1>5

LEMMA LinkIs ==
  /\ \A l \in {Agents, Skills, Memory} : l.soft \in BOOLEAN /\ l.at \in Leaves \cup Dirs
  /\ Agents # Skills /\ Agents # Memory /\ Skills # Memory
<1>1. Skills.at = ".agents/skills" /\ Agents.at = ".github/agents" /\ Memory.at = "AGENTS.md"
        /\ Skills.soft \in BOOLEAN /\ Agents.soft \in BOOLEAN /\ Memory.soft \in BOOLEAN
  BY DEF Skills, Agents, Memory
<1>2. Skills.at # Agents.at /\ Skills.at # Memory.at /\ Agents.at # Memory.at
        /\ {Skills.at, Agents.at, Memory.at} \subseteq Leaves \cup Dirs
  BY <1>1 DEF Leaves, Dirs
<1> QED  BY <1>1, <1>2

(* The tasks are ones that their command may have.                         *)
LEMMA LegalSame ==
  ASSUME NEW p, NEW q, p.op = q.op, p.req = q.req, p.rts = q.rts
  PROVE  Legal(p) = Legal(q) /\ Plain(p) = Plain(q)
BY DEF Legal, Plain, Linkable

LEMMA LinkIntoParts ==
  ASSUME NEW p, p.op = "compose", p.req.links = TRUE, NEW rt \in Runtimes \cap p.rts
  PROVE  /\ Task("line", ".qory", FALSE, rt) \in Plain(p)
         /\ \A l \in Declared(rt) : /\ OfLink(l, p.req.res, rt) \in Seq(Plain(p))
                                   /\ \A x \in Under(l.at) \ p.req.res : Has(OfLink(l, p.req.res, rt), "prune", x)
         /\ Each("link", OfFiles(rt) \cap p.req.res, TRUE, rt) \in Seq(Plain(p))
         /\ \A S : Prunes(S, rt) \in Seq(Plain(p))
<1> DEFINE res == p.req.res
           Soft == BOOLEAN
<1>1. \A l \in Leaves \ {"tools"}, soft \in BOOLEAN : l \in res /\ (l \in Deep => rt = "copilot") => Task("link", l, soft, rt) \in Plain(p)
  BY DEF Plain, Legal, Task, Tasks, Paths, Linkable, Last, Deep
<1>2. \A l \in Leaves : Task("prune", l, TRUE, rt) \in Plain(p)
  BY DEF Plain, Legal, Task, Tasks, Paths, Last
<1>3. Task("line", ".qory", FALSE, rt) \in Plain(p)
  BY DEF Plain, Legal, Task, Tasks, Paths, Last
<1>4. \A l \in Dirs, soft \in BOOLEAN : Task("clear", l, soft, rt) \in Plain(p)
  BY DEF Plain, Legal, Task, Tasks, Paths, Last
<1>5. \A S : Prunes(S, rt) \in Seq(Plain(p))  BY <1>2, EachType DEF Prunes
<1>6. ASSUME NEW l \in Declared(rt)
      PROVE  OfLink(l, res, rt) \in Seq(Plain(p)) /\ \A x \in Under(l.at) \ res : Has(OfLink(l, res, rt), "prune", x)
  <2>1. l.soft \in BOOLEAN /\ \A x \in Under(l.at) : x \in Leaves \ {"tools"} /\ (x \in Deep => rt = "copilot")
    <3>1. l \in {Agents, Skills, Memory} /\ (l = Agents => rt = "copilot")  BY LinkIs DEF Declared
    <3>2. \A x \in Under(l.at) : x \in Leaves \ {"tools"} /\ (x \in Deep => l = Agents)
      BY <3>1, UnderIs DEF Leaves, Deep
    <3> QED  BY <3>1, <3>2, LinkIs
  <2> DEFINE a == If(l.at \in Dirs, Task("clear", l.at, l.soft, rt))
             b == Each("link", Under(l.at) \cap res, l.soft, rt)
             c == Prunes(Under(l.at) \ res, rt)
  <2>2. a \in Seq(Plain(p))  BY <1>4, <2>1, IfType
  <2>3. b \in Seq(Plain(p))
    <3>1. \A x \in (Under(l.at) \cap res) \cap Leaves : Task("link", x, l.soft, rt) \in Plain(p)  BY <1>1, <2>1
    <3> QED  BY <3>1, EachType
  <2>4. c \in Seq(Plain(p))  BY <1>5
  <2>5. \A x \in Under(l.at) \ res : Has(c, "prune", x)  BY <2>1, EachHas DEF Prunes
  <2>6. OfLink(l, res, rt) = a \o b \o c  BY DEF OfLink
  <2> HIDE DEF a, b, c
  <2>7. a \o b \in Seq(Plain(p)) /\ a \o b \o c \in Seq(Plain(p))  BY <2>2, <2>3, <2>4
  <2>8. \A x \in Under(l.at) \ res : Has(a \o b \o c, "prune", x)  BY <2>4, <2>5, <2>7, HasConcat
  <2> QED  BY <2>6, <2>7, <2>8
<1>7. Each("link", OfFiles(rt) \cap res, TRUE, rt) \in Seq(Plain(p))
  <2>1. \A x \in (OfFiles(rt) \cap res) \cap Leaves : Task("link", x, TRUE, rt) \in Plain(p)
    BY <1>1 DEF OfFiles, Leaves
  <2> QED  BY <2>1, EachType
<1> QED  BY <1>3, <1>5, <1>6, <1>7

LEMMA LinkIntoFacts ==
  ASSUME NEW p, p.op = "compose", p.req.links = TRUE, NEW rt \in Runtimes \cap p.rts
  PROVE  /\ LinkInto(p.req.res, rt) \in Seq(Plain(p))
         /\ Has(LinkInto(p.req.res, rt), "line", ".qory")
         /\ \A l \in Leaves \ (p.req.res \cup {"tools"}) :
              (l \in Deep => rt = "copilot") => Has(LinkInto(p.req.res, rt), "prune", l)
<1> DEFINE T == Plain(p)
           res == p.req.res
           t == Task("line", ".qory", FALSE, rt)
           a == IF rt = "copilot" THEN OfLink(Agents, res, rt) ELSE <<>>
           b == OfLink(Skills, res, rt)
           c == OfLink(Memory, res, rt)
           d == Each("link", OfFiles(rt) \cap res, TRUE, rt)
           e == takeBack(rt, res \cup DeclaredBy(rt))
<1>1. t \in T /\ a \in Seq(T) /\ b \in Seq(T) /\ c \in Seq(T) /\ d \in Seq(T) /\ e \in Seq(T)
  <2>1. t \in T /\ d \in Seq(T)  BY LinkIntoParts
  <2>2. b \in Seq(T) /\ c \in Seq(T)
    <3>1. Skills \in Declared(rt) /\ Memory \in Declared(rt)  BY DEF Declared
    <3> QED  BY <3>1, LinkIntoParts
  <2>3. a \in Seq(T)
    <3>1. rt = "copilot" => Agents \in Declared(rt)  BY DEF Declared
    <3>2. rt = "copilot" => OfLink(Agents, res, rt) \in Seq(T)  BY <3>1, LinkIntoParts
    <3> QED  BY <3>2
  <2>4. e \in Seq(T)  BY LinkIntoParts DEF takeBack
  <2> QED  BY <2>1, <2>2, <2>3, <2>4
<1>2. LinkInto(res, rt) = <<t>> \o a \o b \o c \o d \o e  BY DEF LinkInto, CurrentLinks
<1>3. Has(<<t>>, "line", ".qory")  BY HasOne DEF Task
<1>4. ASSUME NEW l \in Leaves \ (res \cup {"tools"}), l \in Deep => rt = "copilot"
      PROVE  Has(a, "prune", l) \/ Has(b, "prune", l) \/ Has(c, "prune", l) \/ Has(e, "prune", l)
  <2>1. l \in {".agents/skills/review", ".github/agents/rev", ".github/web", "AGENTS.md"}  BY DEF Leaves
  <2>2. CASE l = ".agents/skills/review"
    <3>1. Skills \in Declared(rt) /\ l \in Under(Skills.at) \ res  BY <2>2, UnderIs DEF Declared
    <3> QED  BY <3>1, LinkIntoParts
  <2>3. CASE l = "AGENTS.md"
    <3>1. Memory \in Declared(rt) /\ l \in Under(Memory.at) \ res  BY <2>3, UnderIs DEF Declared
    <3> QED  BY <3>1, LinkIntoParts
  <2>4. CASE l = ".github/agents/rev"
    <3>0. rt = "copilot"  BY <2>4, <1>4 DEF Deep
    <3>1. Agents \in Declared(rt) /\ l \in Under(Agents.at) \ res  BY <2>4, <3>0, UnderIs DEF Declared
    <3> QED  BY <3>0, <3>1, LinkIntoParts
  <2>5. CASE l = ".github/web"
    <3>1. rt = "copilot"  BY <2>5, <1>4 DEF Deep
    <3>2. l \in OfFiles(rt)  BY <2>5, <3>1 DEF OfFiles
    <3>3. l \notin DeclaredBy(rt)
      <4>1. \A x \in Declared(rt) : x \in {Agents, Skills, Memory}  BY DEF Declared
      <4>2. \A x \in Declared(rt) : l \notin Under(x.at)  BY <4>1, <2>5, UnderIs
      <4> QED  BY <4>2 DEF DeclaredBy
    <3>4. l \in (OfFiles(rt) \cup (DeclaredBy(rt) \cap {".github/agents/rev"})) \ (res \cup DeclaredBy(rt))
      BY <3>2, <3>3
    <3> QED  BY <3>4, EachHas DEF takeBack, Prunes
  <2> QED  BY <2>1, <2>2, <2>3, <2>4, <2>5
<1> HIDE DEF T, res, t, a, b, c, d, e
<1>5. /\ <<t>> \in Seq(T) /\ <<t>> \o a \in Seq(T) /\ <<t>> \o a \o b \in Seq(T) /\ <<t>> \o a \o b \o c \in Seq(T)
      /\ <<t>> \o a \o b \o c \o d \in Seq(T) /\ <<t>> \o a \o b \o c \o d \o e \in Seq(T)
  BY <1>1, OneType
<1>6. ASSUME NEW do, NEW x,
             Has(<<t>>, do, x) \/ Has(a, do, x) \/ Has(b, do, x) \/ Has(c, do, x) \/ Has(e, do, x)
      PROVE  Has(<<t>> \o a \o b \o c \o d \o e, do, x)
  <2>1. Has(<<t>> \o a, do, x) \/ Has(b, do, x) \/ Has(c, do, x) \/ Has(e, do, x)  BY <1>1, <1>5, <1>6, HasEither
  <2>2. Has(<<t>> \o a \o b, do, x) \/ Has(c, do, x) \/ Has(e, do, x)  BY <1>1, <1>5, <2>1, HasEither
  <2>3. Has(<<t>> \o a \o b \o c, do, x) \/ Has(e, do, x)  BY <1>1, <1>5, <2>2, HasEither
  <2>4. Has(<<t>> \o a \o b \o c \o d, do, x) \/ Has(e, do, x)  BY <1>1, <1>5, <2>3, HasEither
  <2> QED  BY <1>1, <1>5, <2>4, HasEither
<1> QED  BY <1>2, <1>3, <1>4, <1>5, <1>6 DEF T, res

LEMMA UnlinkLegal ==
  ASSUME NEW p, p.op = "removeRuntime" \/ p.op = "remove" \/ (p.op = "compose" /\ p.req.links = FALSE)
  PROVE  /\ \A rt \in Runtimes : \A others : Unlink(rt, others) \in Seq(Plain(p))
         /\ Prunes({"tools"}, "module") \in Seq(Plain(p)) /\ unlinkAll \in Seq(Plain(p))
<1>1. ASSUME NEW rt \in Runtimes \cup {"module"}, NEW S  PROVE Prunes(S, rt) \in Seq(Plain(p))
  <2>1. \A l \in Leaves : Task("prune", l, TRUE, rt) \in Plain(p)
    BY DEF Plain, Legal, Task, Tasks, Paths, Last
  <2> QED  BY <2>1, EachType DEF Prunes
<1>2. ASSUME NEW rt \in Runtimes, NEW others, NEW l \in {Agents, Skills, Memory}  PROVE UnlinkOf(l, rt, others) \in Seq(Plain(p))
  <2>1. l.soft \in BOOLEAN /\ l.at \in Leaves \cup Dirs  BY LinkIs
  <2>2. Task("unlink", l.at, l.soft, rt) \in Plain(p)
    BY <2>1 DEF Plain, Legal, Task, Tasks, Paths, Last
  <2>3. Prunes(Under(l.at), rt) \in Seq(Plain(p))  BY <1>1
  <2> QED  BY <2>2, <2>3 DEF UnlinkOf
<1>3. ASSUME NEW rt \in Runtimes, NEW others  PROVE Unlink(rt, others) \in Seq(Plain(p))
  <2>1. takeBack(rt, {}) \in Seq(Plain(p))  BY <1>1 DEF takeBack
  <2>2. (IF rt = "copilot" THEN UnlinkOf(Agents, rt, others) ELSE <<>>) \in Seq(Plain(p))  BY <1>2
  <2>3. UnlinkOf(Skills, rt, others) \in Seq(Plain(p)) /\ UnlinkOf(Memory, rt, others) \in Seq(Plain(p))  BY <1>2
  <2> QED  BY <2>1, <2>2, <2>3 DEF Unlink
<1>4. unlinkAll \in Seq(Plain(p))
  <2>1. Unlink("any", {}) \in Seq(Plain(p)) /\ Unlink("copilot", {}) \in Seq(Plain(p))  BY <1>3 DEF Runtimes
  <2>2. Prunes({"tools"}, "module") \in Seq(Plain(p))  BY <1>1
  <2>3. ByName(Runtimes, Unlink("any", {}), Unlink("copilot", {})) \in Seq(Plain(p))  BY <2>1 DEF ByName
  <2> QED  BY <2>2, <2>3 DEF unlinkAll
<1> QED  BY <1>1, <1>3, <1>4

(* Each leaf that a command is to leave without a link has its prune.      *)
LEMMA UnlinkHas ==
  ASSUME NEW p, p.op = "removeRuntime" \/ p.op = "remove" \/ (p.op = "compose" /\ p.req.links = FALSE),
         NEW rt \in Runtimes, NEW others
  PROVE  /\ rt = "copilot" => \A l \in Deep : Has(Unlink(rt, others), "prune", l)
         /\ others = {} => \A l \in Leaves \ (Deep \cup {"tools"}) : Has(Unlink(rt, others), "prune", l)
<1> DEFINE T == Plain(p)
           a == IF rt = "copilot" THEN UnlinkOf(Agents, rt, others) ELSE <<>>
           b == UnlinkOf(Skills, rt, others)
           c == UnlinkOf(Memory, rt, others)
           d == takeBack(rt, {})
<1>1. ASSUME NEW S, NEW r \in Runtimes \cup {"module"}  PROVE Prunes(S, r) \in Seq(T)
  <2>1. \A l \in Leaves : Task("prune", l, TRUE, r) \in T
    BY DEF Plain, Legal, Task, Tasks, Paths, Last
  <2> QED  BY <2>1, EachType DEF Prunes
<1>2. ASSUME NEW l \in {Agents, Skills, Memory}  PROVE UnlinkOf(l, rt, others) \in Seq(T)
  <2>1. l.soft \in BOOLEAN /\ l.at \in Leaves \cup Dirs  BY LinkIs
  <2>2. Task("unlink", l.at, l.soft, rt) \in T
    BY <2>1 DEF Plain, Legal, Task, Tasks, Paths, Last
  <2>3. Prunes(Under(l.at), rt) \in Seq(T)  BY <1>1
  <2> QED  BY <2>2, <2>3 DEF UnlinkOf
<1>3. a \in Seq(T) /\ b \in Seq(T) /\ c \in Seq(T)  BY <1>2
<1>4. d \in Seq(T)  BY <1>1 DEF takeBack
<1>5. Unlink(rt, others) = a \o b \o c \o d  BY DEF Unlink
<1>6. ASSUME rt = "copilot", NEW l \in Deep  PROVE Has(d, "prune", l)
  <2>1. l \in (OfFiles(rt) \cup (DeclaredBy(rt) \cap {".github/agents/rev"})) \ {}
    BY <1>6, UnderIs DEF OfFiles, DeclaredBy, Declared, Deep
  <2>2. l \in Leaves  BY <1>6 DEF Deep, Leaves
  <2> QED  BY <2>1, <2>2, EachHas DEF takeBack, Prunes
<1>7. ASSUME others = {}, NEW l \in {Skills, Memory}, NEW x \in Under(l.at)  PROVE Has(UnlinkOf(l, rt, others), "prune", x)
  <2>1. x \in Leaves  BY DEF Under
  <2>2. Has(Prunes(Under(l.at), rt), "prune", x)  BY <1>7, <2>1, EachHas DEF Prunes
  <2>3. Prunes(Under(l.at), rt) \in Seq(T)  BY <1>1
  <2> DEFINE t == Task("unlink", l.at, l.soft, rt)
  <2>4. <<t>> \in Seq(T)
    <3>1. l.soft \in BOOLEAN /\ l.at \in Leaves \cup Dirs  BY LinkIs
    <3>2. t \in T
      BY <3>1 DEF Plain, Legal, Task, Tasks, Paths, Last
    <3> HIDE DEF t
    <3> QED  BY <3>2, OneType
  <2>5. UnlinkOf(l, rt, others) = <<t>> \o Prunes(Under(l.at), rt)  BY <1>7 DEF UnlinkOf
  <2> HIDE DEF t, T
  <2> QED  BY <2>2, <2>3, <2>4, <2>5, HasEither
<1>8. \A l \in Leaves \ (Deep \cup {"tools"}) : l \in Under(Skills.at) \/ l \in Under(Memory.at)
  BY UnderIs DEF Leaves, Deep
<1>9. others = {} => \A l \in Leaves \ (Deep \cup {"tools"}) : Has(b, "prune", l) \/ Has(c, "prune", l)  BY <1>7, <1>8
<1> HIDE DEF T, a, b, c, d
<1>10. a \o b \in Seq(T) /\ a \o b \o c \in Seq(T)  BY <1>3
<1>11. \A l : Has(b, "prune", l) \/ Has(c, "prune", l) \/ Has(d, "prune", l) => Has(a \o b \o c \o d, "prune", l)
  <2> SUFFICES ASSUME NEW l, Has(b, "prune", l) \/ Has(c, "prune", l) \/ Has(d, "prune", l)
               PROVE Has(a \o b \o c \o d, "prune", l)
    OBVIOUS
  <2>1. Has(a \o b, "prune", l) \/ Has(c, "prune", l) \/ Has(d, "prune", l)  BY <1>3, HasEither
  <2>2. Has(a \o b \o c, "prune", l) \/ Has(d, "prune", l)  BY <2>1, <1>3, <1>10, HasEither
  <2> QED  BY <2>2, <1>4, <1>10, HasEither
<1> QED  BY <1>5, <1>6, <1>9, <1>11

LEMMA UnlinkAllHas ==
  ASSUME NEW p, p.op = "remove" \/ (p.op = "compose" /\ p.req.links = FALSE), NEW l \in Leaves
  PROVE  Has(unlinkAll, "prune", l)
<1> DEFINE T == Plain(p)
           a == Unlink("any", {})
           b == Unlink("copilot", {})
           c == Prunes({"tools"}, "module")
<1>1. a \in Seq(T) /\ b \in Seq(T) /\ c \in Seq(T)
  BY UnlinkLegal DEF Runtimes
<1>2. unlinkAll = a \o b \o c  BY DEF unlinkAll, ByName, Runtimes
<1>3. l \in Deep => Has(b, "prune", l)  BY UnlinkHas DEF Runtimes
<1>4. l \in Leaves \ (Deep \cup {"tools"}) => Has(a, "prune", l)  BY UnlinkHas DEF Runtimes
<1>5. l = "tools" => Has(c, "prune", l)  BY EachHas DEF Prunes
<1> HIDE DEF T, a, b, c
<1>6. Has(a, "prune", l) \/ Has(b, "prune", l) => Has(a \o b, "prune", l)  BY <1>1, HasEither
<1>7. a \o b \in Seq(T)  BY <1>1
<1>8. Has(a \o b, "prune", l) \/ Has(c, "prune", l) => Has(a \o b \o c, "prune", l)  BY <1>1, <1>7, HasEither
<1> QED  BY <1>2, <1>3, <1>4, <1>5, <1>6, <1>8

LEMMA LinkEachFacts ==
  ASSUME NEW p, p.op = "compose", p.req.links = TRUE, NEW S, S \subseteq Runtimes \cap p.rts
  PROVE  /\ LinkEach(p.req.res, S) \in Seq(Plain(p))
         /\ S # {} => Has(LinkEach(p.req.res, S), "line", ".qory")
         /\ \A l \in Leaves \ (p.req.res \cup {"tools"}) :
              (IF l \in Deep THEN "copilot" \in S ELSE S # {}) => Has(LinkEach(p.req.res, S), "prune", l)
<1> DEFINE T == Plain(p)
           a == IF "any" \in S THEN LinkInto(p.req.res, "any") ELSE <<>>
           b == IF "copilot" \in S THEN LinkInto(p.req.res, "copilot") ELSE <<>>
<1>1. LinkEach(p.req.res, S) = a \o b  BY DEF LinkEach, ByName
<1>2. a \in Seq(T) /\ b \in Seq(T)
  <2>1. "any" \in S => LinkInto(p.req.res, "any") \in Seq(T)  BY LinkIntoFacts
  <2>2. "copilot" \in S => LinkInto(p.req.res, "copilot") \in Seq(T)  BY LinkIntoFacts
  <2> QED  BY <2>1, <2>2
<1>3. S # {} => "any" \in S \/ "copilot" \in S  BY DEF Runtimes
<1>4. S # {} => Has(a, "line", ".qory") \/ Has(b, "line", ".qory")  BY <1>3, LinkIntoFacts
<1>5. \A l \in Leaves \ (p.req.res \cup {"tools"}) :
        (IF l \in Deep THEN "copilot" \in S ELSE S # {}) => Has(a, "prune", l) \/ Has(b, "prune", l)
  BY <1>3, LinkIntoFacts
<1> HIDE DEF T, a, b
<1> QED  BY <1>1, <1>2, <1>4, <1>5, HasConcat DEF T

LEMMA LinksFacts ==
  ASSUME NEW p, p.op = "compose", p.req \in Requests, p.req.targets \subseteq p.rts, p.rts \subseteq Runtimes, NEW prev
  PROVE  /\ Links(p.req, p.rts, prev) \in Seq(Legal(p)) /\ LastOK(Links(p.req, p.rts, prev))
         /\ Has(Links(p.req, p.rts, prev), "line", ".qory")
         /\ ~p.req.links => \A l \in Leaves : Has(Links(p.req, p.rts, prev), "prune", l)
         /\ p.req.links => \A l \in Leaves \ p.req.res :
              (l \in Deep => "copilot" \in p.rts) /\ (l = "tools" => InReport(prev)) => Has(Links(p.req, p.rts, prev), "prune", l)
<1> DEFINE T == Plain(p)
<1>0. p.req.targets \in (SUBSET Runtimes) \ {{}} /\ p.req.links \in BOOLEAN  BY HarnessAssumption
<1>1. CASE p.req.links = TRUE
  <2> DEFINE a == LinkEach(p.req.res, p.req.targets)
             b == LinkEach(p.req.res, p.rts \ p.req.targets)
             c == LinkModules(p.req.res, prev)
  <2>1. Links(p.req, p.rts, prev) = a \o b \o c  BY <1>1 DEF Links
  <2>2. a \in Seq(T) /\ b \in Seq(T)  BY <1>0, <1>1, LinkEachFacts
  <2>3. c \in Seq(Legal(p)) /\ (Len(c) <= 1 \/ c \in Seq(T))
    <3>1. CASE "tools" \in p.req.res
      <4>1. Task("link", "tools", FALSE, "module") \in Legal(p)
        BY <1>1, <3>1 DEF Legal, Task, Tasks, Paths, Linkable, Deep, Leaves
      <4>2. c = <<Task("link", "tools", FALSE, "module")>>  BY <3>1 DEF LinkModules
      <4> HIDE DEF c
      <4>3. c \in Seq(Legal(p))  BY <4>1, <4>2, OneType
      <4>4. Len(c) = 1  BY <4>2
      <4> QED  BY <4>3, <4>4
    <3>2. CASE "tools" \notin p.req.res
      <4>1. \A l \in Leaves : Task("prune", l, TRUE, "module") \in T
        BY DEF Plain, Legal, Task, Tasks, Paths, Last
      <4>2. Prunes({"tools"}, "module") \in Seq(T)  BY <4>1, EachType DEF Prunes
      <4>3. c \in Seq(T)  BY <3>2, <4>2 DEF LinkModules
      <4>4. T \subseteq Legal(p)  BY DEF Plain
      <4>5. c \in Seq(Legal(p))
        <5> HIDE DEF c, T
        <5> QED  BY <4>3, <4>4
      <4> QED  BY <4>3, <4>5
    <3> QED  BY <3>1, <3>2
  <2>4. Has(a, "line", ".qory")  BY <1>0, <1>1, LinkEachFacts
  <2>5. ASSUME NEW l \in Leaves \ p.req.res, l \in Deep => "copilot" \in p.rts, l = "tools" => InReport(prev)
        PROVE  Has(a, "prune", l) \/ Has(b, "prune", l) \/ Has(c, "prune", l)
    <3>1. CASE l = "tools"
      <4>1. c = Prunes({"tools"}, "module")  BY <2>5, <3>1 DEF LinkModules, InReport
      <4>2. Has(Prunes({"tools"}, "module"), "prune", l)  BY <3>1, EachHas DEF Prunes
      <4> QED  BY <4>1, <4>2
    <3>2. CASE l \in Deep /\ "copilot" \in p.req.targets  BY <1>0, <1>1, <2>5, <3>2, LinkEachFacts DEF Deep
    <3>3. CASE l \in Deep /\ "copilot" \notin p.req.targets
      <4>1. l # "tools"  BY <3>3 DEF Deep
      <4>2. "copilot" \in p.rts \ p.req.targets  BY <2>5, <3>3
      <4>3. Has(b, "prune", l)  BY <1>0, <1>1, <2>5, <3>3, <4>1, <4>2, LinkEachFacts
      <4> QED  BY <4>3
    <3>4. CASE l \notin Deep \cup {"tools"}
      <4>1. Has(a, "prune", l)  BY <1>0, <1>1, <2>5, <3>4, LinkEachFacts
      <4> QED  BY <4>1
    <3> QED  BY <3>1, <3>2, <3>3, <3>4
  <2> HIDE DEF a, b, c, T
  <2>6. a \o b \in Seq(T) /\ T \subseteq Legal(p)  BY <2>2 DEF T, Plain
  <2>7. a \o b \o c \in Seq(Legal(p)) /\ LastOK(a \o b \o c)  BY <2>3, <2>6, LastConcat DEF T
  <2>8. a \o b \in Seq(Legal(p))  BY <2>6
  <2>9. \A do, x : Has(a, do, x) \/ Has(b, do, x) \/ Has(c, do, x) => Has(a \o b \o c, do, x)
    BY <2>2, <2>3, <2>8, HasConcat
  <2> QED  BY <1>1, <2>1, <2>4, <2>5, <2>7, <2>9
<1>2. CASE p.req.links = FALSE
  <2> DEFINE t == Task("line", ".qory", FALSE, "none")
  <2>1. t \in T
    BY DEF Plain, Legal, Task, Tasks, Paths, Last
  <2>2. Has(<<t>>, "line", ".qory")  BY HasOne DEF Task
  <2>3. Links(p.req, p.rts, prev) = <<t>> \o unlinkAll  BY <1>2 DEF Links
  <2>4. unlinkAll \in Seq(T) /\ \A l \in Leaves : Has(unlinkAll, "prune", l)  BY <1>2, UnlinkLegal, UnlinkAllHas
  <2> HIDE DEF t, T
  <2>5. <<t>> \in Seq(T) /\ T \subseteq Legal(p)  BY <2>1, OneType DEF T, Plain
  <2>6. unlinkAll \in Seq(Legal(p))  BY <2>4, <2>5
  <2>7. <<t>> \o unlinkAll \in Seq(Legal(p)) /\ LastOK(<<t>> \o unlinkAll)  BY <2>4, <2>5, <2>6, LastConcat DEF T
  <2>8. \A do, x : Has(<<t>>, do, x) \/ Has(unlinkAll, do, x) => Has(<<t>> \o unlinkAll, do, x)
    BY <2>4, <2>5, HasConcat
  <2> QED  BY <1>2, <2>2, <2>3, <2>4, <2>7, <2>8
<1> QED  BY <1>0, <1>1, <1>2
-----------------------------------------------------------------------------
(* What a step of one worktree leaves alone, and what it may do to the     *)
(* lines.                                                                  *)
Same(v) == /\ at'[v] = at[v] /\ home'[v] = home[v] /\ report'[v] = report[v] /\ proc'[v] = proc[v]
           /\ sound'[v] = sound[v] /\ lost'[v] = lost[v] /\ left'[v] = left[v]
Others(w) == \A v \in Worktrees \ {w} : Same(v)
Quiet(w) ==
  /\ exclude' = exclude /\ raced' = raced /\ proc'[w].line = None
  /\ \A l \in Linked(w)' : l \in Linked(w) /\ ~Adds(w, l)
  /\ \A l \in Leaves : at'[w][l] = "own" => at[w][l] = "own"
  /\ at'[w][".qory"] = "own" /\ QoryDue(w)' => at[w][".qory"] = "own" /\ QoryDue(w) /\ ~Adds(w, ".qory")
ReadsFor(w, p, add) ==
  /\ exclude' = exclude /\ raced' = (raced \/ \E o \in Worktrees \ {w} : proc[o].line # None)
  /\ proc[w].line = None
  /\ proc'[w].line = IF IF add THEN p \notin exclude ELSE p \in exclude /\ ~HeldElsewhere(w, p)
                     THEN [at |-> p, add |-> add, read |-> exclude] ELSE None

LEMMA TypesOf ==
  ASSUME TypeOK, NEW w \in Worktrees
  PROVE  /\ at[w] \in [Paths -> {"none", "own", "tracked", "theirs"}]
         /\ home[w] \in Homes \cup {None} /\ report[w] \in Reports \cup {None}
         /\ proc[w] \in Procs /\ sound[w] \in BOOLEAN /\ lost[w] \in SUBSET Paths /\ left[w] \in Removed \cup {None}
BY DEF TypeOK

LEMMA SameLocal ==
  ASSUME NEW w, Local(w), Same(w)
  PROVE  Local(w)'
<1> USE DEF Same
<1>1. ProcOK(w)'  BY DEF Local, ProcOK, Legal, Linkable, Last, Replaced
<1>2. QoryOK(w)'  BY DEF Local, QoryOK
<1>3. Reach(w)'  BY DEF Local, Reach, OwnLinks, Behind, Occupied
<1>4. OfCopilot(w)'  BY DEF Local, OfCopilot, Linked, OwnLinks, Composed
<1>5. OfModule(w)'  BY DEF Local, OfModule, Linked, OwnLinks, Composes, Tasking
<1>6. Pruning(w)'  BY DEF Local, Pruning, Tasking, TakesAll, Composes, Linked, OwnLinks, Prunable, Linkable, Dropping, Composed
<1>7. Resolving(w)'  BY DEF Local, Resolving, IdleAt, Dropping, Linked, OwnLinks
<1>8. Listed(w)'  BY DEF Local, Listed, Known, Composes, Behind, Occupied, Replaced
<1>9. LeftOK(w)'  BY DEF Local, LeftOK
<1> QED  BY <1>1, <1>2, <1>3, <1>4, <1>5, <1>6, <1>7, <1>8, <1>9 DEF Local

(* The lines, over each kind of step.                                      *)
LEMMA SameLines ==
  ASSUME NEW v, Same(v), TypeOK
  PROVE  /\ Linked(v)' = Linked(v) /\ QoryDue(v)' = QoryDue(v) /\ at'[v] = at[v] /\ proc'[v].line = proc[v].line
         /\ \A p : Adds(v, p)' = Adds(v, p) /\ Takes(v, p)' = Takes(v, p)
BY DEF Same, Linked, OwnLinks, QoryDue, Composes, Tasking, LineToCome, Adds, Takes

LEMMA LinesQuiet ==
  ASSUME NEW w \in Worktrees, TypeOK, LinesOK, Others(w), Quiet(w)
  PROVE  LinesOK'
<1> SUFFICES ASSUME ~raced', NEW v \in Worktrees, NEW u \in Worktrees
             PROVE (Alone(v, u) /\ Fresh(u) /\ Covered(u) /\ Harmless(v, u))'
  BY DEF LinesOK
<1>1. Alone(v, u) /\ Fresh(u) /\ Covered(u) /\ Harmless(v, u)  BY DEF LinesOK, Quiet
<1>2. v # w => Same(v)  BY DEF Others
<1>3. u # w => Same(u)  BY DEF Others
<1>4. Alone(v, u)'  BY <1>1, <1>2, <1>3 DEF Alone, Quiet, Same
<1>5. Fresh(u)'  BY <1>1, <1>3 DEF Fresh, Quiet, Same
<1>6. Covered(u)'
  <2>1. CASE u = w  BY <2>1, <1>1 DEF Covered, Quiet
  <2>2. CASE u # w  BY <2>2, <1>1, <1>3, SameLines DEF Covered, Quiet
  <2> QED  BY <2>1, <2>2
<1>7. Harmless(v, u)'
  <2>0. \A p : Takes(v, p)' => Takes(v, p)
    <3>1. CASE v = w  BY <3>1 DEF Takes, Quiet
    <3>2. CASE v # w  BY <3>2, <1>2, SameLines
    <3> QED  BY <3>1, <3>2
  <2>1. CASE u = w  BY <2>0, <2>1, <1>1 DEF Harmless, Quiet
  <2>2. CASE u # w  BY <2>0, <2>2, <1>1, <1>3, SameLines DEF Harmless
  <2> QED  BY <2>1, <2>2
<1> QED  BY <1>4, <1>5, <1>6, <1>7

LEMMA LinesAdded ==
  ASSUME NEW w \in Worktrees, TypeOK, LinesOK, Others(w), NEW p \in Paths, ReadsFor(w, p, TRUE),
         \A l \in Linked(w)' : l \in Linked(w) \/ l = p,
         at'[w][".qory"] = "own" /\ QoryDue(w)' => p = ".qory" \/ (at[w][".qory"] = "own" /\ QoryDue(w))
  PROVE  LinesOK'
<1> SUFFICES ASSUME ~raced', NEW v \in Worktrees, NEW u \in Worktrees
             PROVE (Alone(v, u) /\ Fresh(u) /\ Covered(u) /\ Harmless(v, u))'
  BY DEF LinesOK
<1>1. ~raced /\ (\A o \in Worktrees : proc[o].line = None) /\ exclude' = exclude  BY DEF ReadsFor
<1>2. Covered(u)  BY <1>1 DEF LinesOK
<1>3. \A o \in Worktrees \ {w} : Same(o) /\ proc'[o].line = None  BY <1>1 DEF Others, Same
<1>4. proc'[w].line = None \/ proc'[w].line = [at |-> p, add |-> TRUE, read |-> exclude]  BY DEF ReadsFor
<1>5. p \in exclude \/ Adds(w, p)'
  <2>1. CASE p \notin exclude
    <3>1. proc'[w].line = [at |-> p, add |-> TRUE, read |-> exclude]  BY <2>1 DEF ReadsFor
    <3>2. [at |-> p, add |-> TRUE, read |-> exclude] # None
      <4>1. exclude \in SUBSET Paths  BY DEF TypeOK
      <4>2. [at |-> p, add |-> TRUE, read |-> exclude] \in Lines  BY <4>1 DEF Lines
      <4>3. None \notin Lines  BY HarnessAssumption
      <4> HIDE DEF Lines
      <4> QED  BY <4>2, <4>3, Zenon
    <3> QED  BY <3>1, <3>2 DEF Adds
  <2> QED  BY <2>1
<1>6. Covered(u)'
  <2>1. CASE u = w  BY <2>1, <1>1, <1>2, <1>5 DEF Covered, Adds
  <2>2. CASE u # w  BY <2>2, <1>1, <1>2, <1>3, SameLines DEF Covered, Adds
  <2> QED  BY <2>1, <2>2
<1>7. Harmless(v, u)'  BY <1>3, <1>4 DEF Harmless, Takes
<1>8. Alone(v, u)' /\ Fresh(u)'  BY <1>1, <1>3, <1>4 DEF Alone, Fresh
<1> QED  BY <1>6, <1>7, <1>8

LEMMA LinesTaken ==
  ASSUME NEW w \in Worktrees, TypeOK, LinesOK, Others(w), NEW p \in Paths, ReadsFor(w, p, FALSE),
         at'[w][p] = "none",
         \A l \in Linked(w)' : l \in Linked(w),
         at'[w][".qory"] = "own" /\ QoryDue(w)' => at[w][".qory"] = "own" /\ QoryDue(w)
  PROVE  LinesOK'
<1> SUFFICES ASSUME ~raced', NEW v \in Worktrees, NEW u \in Worktrees
             PROVE (Alone(v, u) /\ Fresh(u) /\ Covered(u) /\ Harmless(v, u))'
  BY DEF LinesOK
<1>1. ~raced /\ (\A o \in Worktrees : proc[o].line = None) /\ exclude' = exclude  BY DEF ReadsFor
<1>2. Covered(u)  BY <1>1 DEF LinesOK
<1>3. \A o \in Worktrees \ {w} : Same(o) /\ proc'[o].line = None  BY <1>1 DEF Others, Same
<1>4. \/ proc'[w].line = None
      \/ proc'[w].line = [at |-> p, add |-> FALSE, read |-> exclude] /\ ~HeldElsewhere(w, p)
  BY DEF ReadsFor
<1>5. Covered(u)'
  <2>1. CASE u = w  BY <2>1, <1>1, <1>2 DEF Covered, Adds
  <2>2. CASE u # w  BY <2>2, <1>1, <1>2, <1>3, SameLines DEF Covered, Adds
  <2> QED  BY <2>1, <2>2
<1>6. Harmless(v, u)'
  <2>1. SUFFICES ASSUME NEW x, Takes(v, x)'  PROVE at'[u][x] = "none"
    BY DEF Harmless
  <2>2. v = w /\ x = p /\ ~HeldElsewhere(w, p)  BY <2>1, <1>3, <1>4 DEF Takes
  <2> QED  BY <2>2 DEF HeldElsewhere
<1>7. Alone(v, u)' /\ Fresh(u)'  BY <1>1, <1>3, <1>4 DEF Alone, Fresh
<1> QED  BY <1>5, <1>6, <1>7

LEMMA LinesWritten ==
  ASSUME NEW w \in Worktrees, TypeOK, LinesOK, Writes(w)
  PROVE  LinesOK'
<1> SUFFICES ASSUME ~raced', NEW v \in Worktrees, NEW u \in Worktrees
             PROVE (Alone(v, u) /\ Fresh(u) /\ Covered(u) /\ Harmless(v, u))'
  BY DEF LinesOK
<1>1. ~raced /\ at' = at /\ sound' = sound /\ lost' = lost /\ proc[w].line # None  BY DEF Writes, history
<1>2. proc' = [proc EXCEPT ![w] = [proc[w] EXCEPT !.line = None]]  BY DEF Writes, Put
<1>3. \A o \in Worktrees : /\ proc'[o] = (IF o = w THEN [proc[w] EXCEPT !.line = None] ELSE proc[o])
                           /\ proc[o] \in Procs
  BY <1>2 DEF TypeOK
<1>4. \A o \in Worktrees : /\ proc'[o].line = None
                           /\ proc'[o].pc = proc[o].pc /\ proc'[o].op = proc[o].op /\ proc'[o].todo = proc[o].todo
  <2>1. \A o \in Worktrees : o # w => proc[o].line = None  BY <1>1 DEF LinesOK, Alone
  <2> QED  BY <1>3, <2>1 DEF Procs
<1>5. Linked(u)' = Linked(u) /\ QoryDue(u)' = QoryDue(u) /\ at'[u] = at[u]
  BY <1>1, <1>4 DEF Linked, OwnLinks, QoryDue, Composes, Tasking, LineToCome
<1>6. Covered(u) /\ Harmless(w, u) /\ Fresh(w)  BY <1>1 DEF LinesOK
<1>7. exclude' = IF proc[w].line.add THEN exclude \cup {proc[w].line.at} ELSE exclude \ {proc[w].line.at}
  BY <1>1, <1>6 DEF Writes, Fresh
<1>8. Covered(u)'
  <2>0. proc[w].line.add \in BOOLEAN  BY <1>1, <1>3 DEF Procs, Lines
  <2>1. ASSUME NEW l, l \in exclude \/ Adds(u, l), ~Takes(w, l)  PROVE l \in exclude'
    <3>1. Adds(u, l) => u = w  BY <1>1 DEF LinesOK, Alone, Adds
    <3> QED  BY <2>0, <2>1, <3>1, <1>1, <1>7 DEF Adds, Takes
  <2>2. \A l \in Linked(u) : l \in Leaves /\ at[u][l] = "own"  BY DEF Linked, OwnLinks
  <2>3. \A l \in Linked(u) : l \in exclude'  BY <2>1, <2>2, <1>6 DEF Covered, Harmless
  <2>4. at[u][".qory"] = "own" /\ QoryDue(u) => ".qory" \in exclude'  BY <2>1, <1>6 DEF Covered, Harmless
  <2> QED  BY <2>3, <2>4, <1>5 DEF Covered
<1> QED  BY <1>4, <1>8 DEF Alone, Fresh, Harmless, Takes
-----------------------------------------------------------------------------
(* The tasks of a command, one after the other.                            *)
TailStep(w) ==
  LET p == proc[w] q == proc'[w] IN
  /\ p.pc = "tasks" /\ p.todo # <<>> /\ q.todo = Tail(p.todo)
  /\ q.pc = p.pc /\ q.op = p.op /\ q.rt = p.rt /\ q.rts = p.rts /\ q.req = p.req /\ q.prev = p.prev /\ q.failed = p.failed
  /\ q.replaced = p.replaced
Calm(w) == home'[w] = home[w] /\ report'[w] = report[w] /\ sound'[w] = sound[w] /\ left'[w] = left[w]

LEMMA TodoFacts ==
  ASSUME NEW w \in Worktrees, TypeOK, ProcOK(w), proc[w].todo # <<>>
  PROVE  LET p == proc[w] IN
         /\ p.todo \in Seq(Legal(p)) /\ LastOK(p.todo) /\ Head(p.todo) \in Legal(p) /\ Head(p.todo) \in Tasks
         /\ Tail(p.todo) \in Seq(Legal(p)) /\ LastOK(Tail(p.todo)) /\ Tail(p.todo) \in Seq(Tasks)
         /\ Last(Head(p.todo)) => Tail(p.todo) = <<>>
         /\ \A do, x : /\ Has(Tail(p.todo), do, x) => Has(p.todo, do, x)
                       /\ Has(p.todo, do, x) => Has(Tail(p.todo), do, x) \/ (Head(p.todo).do = do /\ Head(p.todo).at = x)
<1>1. proc[w].todo \in Seq(Legal(proc[w])) /\ LastOK(proc[w].todo)  BY DEF ProcOK, LastOK
<1>2. Legal(proc[w]) \subseteq Tasks  BY DEF Legal
<1>3. Tail(proc[w].todo) \in Seq(Legal(proc[w])) /\ Head(proc[w].todo) \in Legal(proc[w])  BY <1>1, TailFacts
<1>4. Tail(proc[w].todo) \in Seq(Tasks)
  <2> DEFINE t == Tail(proc[w].todo)
             L == Legal(proc[w])
  <2>1. t \in Seq(L) /\ L \subseteq Tasks  BY <1>2, <1>3
  <2> HIDE DEF t, L
  <2>2. t \in Seq(Tasks)  BY <2>1
  <2> QED  BY <2>2 DEF t
<1> HIDE DEF LastOK, Legal, Has, Last
<1> QED  BY <1>1, <1>2, <1>3, <1>4, TailFacts, Zenon

LEMMA TailProcOK ==
  ASSUME NEW w \in Worktrees, TypeOK, ProcOK(w), TailStep(w), sound'[w] = sound[w],
         proc[w].op = "compose" => home'[w] = home[w] /\ report'[w] = report[w]
  PROVE  ProcOK(w)'
<1>1. Legal(proc'[w]) = Legal(proc[w])  BY LegalSame DEF TailStep
<1>2. proc'[w].todo \in Seq(Legal(proc'[w])) /\ LastOK(proc'[w].todo)  BY <1>1, TodoFacts DEF TailStep
<1>3. \A i \in DOMAIN proc'[w].todo : Last(proc'[w].todo[i]) => i = Len(proc'[w].todo)  BY <1>2 DEF LastOK
<1>4. proc'[w].op = "compose" => home'[w] = [rts |-> proc'[w].rts, res |-> proc'[w].req.res]  BY DEF ProcOK, TailStep
<1> HIDE DEF Legal, Last
<1> QED  BY <1>2, <1>3, <1>4 DEF ProcOK, TailStep, Replaced

(* What one more task done means for the links, when it gives the worktree *)
(* no link that the command is to take.                                    *)
New(p, l) == /\ p.op = "compose" /\ p.req.links /\ Linkable(p, l) /\ (l = "tools" => Tail(p.todo) = <<>>)
LEMMA TailLinks ==
  ASSUME NEW w \in Worktrees, TypeOK, Local(w), TailStep(w), Calm(w),
         Head1(w).do \notin {"drop", "dir"},
         Head1(w).do = "prune" => Head1(w).at \notin OwnLinks(w)',
         \A l \in OwnLinks(w)' : l \in OwnLinks(w) \/ New(proc[w], l),
         \A l \in Linked(w)' : l \in Linked(w) \/ New(proc[w], l)
  PROVE  OfCopilot(w)' /\ OfModule(w)' /\ Pruning(w)' /\ Resolving(w)'
<1>1. ProcOK(w) /\ OfCopilot(w) /\ OfModule(w) /\ Pruning(w) /\ Resolving(w)  BY DEF Local
<1>2. /\ \A l : Prunable(w, l) => Prunable(w, l)' \/ l \notin OwnLinks(w)'
      /\ Dropping(w)' = Dropping(w)
  <2>1. proc'[w].todo = Tail(proc[w].todo) /\ proc[w].todo # <<>>  BY DEF TailStep
  <2>2. \A do, x : /\ Has(Tail(proc[w].todo), do, x) => Has(proc[w].todo, do, x)
                   /\ Has(proc[w].todo, do, x) =>
                        Has(Tail(proc[w].todo), do, x) \/ (Head(proc[w].todo).do = do /\ Head(proc[w].todo).at = x)
    BY <1>1, <2>1, TodoFacts
  <2>3. \A l : Prunable(w, l) => Prunable(w, l)' \/ l \notin OwnLinks(w)'  BY <2>1, <2>2 DEF Prunable, Head1
  <2>4. Dropping(w)' = Dropping(w)
    <3>1. Has(proc'[w].todo, "drop", ".qory") <=> Has(proc[w].todo, "drop", ".qory")  BY <2>1, <2>2 DEF Head1
    <3>2. Has(proc'[w].todo, "drop", ".qory") \in BOOLEAN /\ Has(proc[w].todo, "drop", ".qory") \in BOOLEAN  BY DEF Has
    <3> QED  BY <3>1, <3>2 DEF Dropping
  <2> QED  BY <2>3, <2>4
<1>3. OfCopilot(w)'
  <2>1. proc[w].op = "compose" => Composed(w) = proc[w].rts
    <3>1. proc[w].op = "compose" => home[w] = [rts |-> proc[w].rts, res |-> proc[w].req.res]  BY <1>1 DEF ProcOK, TailStep
    <3>2. proc[w].op = "compose" => [rts |-> proc[w].rts, res |-> proc[w].req.res] \in Homes
      BY <1>1, HarnessAssumption DEF ProcOK, TypeOK, Procs, Homes
    <3> QED  BY <3>1, <3>2, HarnessAssumption DEF Composed
  <2>2. Composed(w)' = Composed(w)  BY DEF Composed, Calm
  <2> QED  BY <1>1, <2>1, <2>2 DEF OfCopilot, TailStep, New, Linkable
<1>4. OfModule(w)'  BY <1>1 DEF OfModule, TailStep, Calm, New, Linkable, Composes, Tasking
<1>5. Pruning(w)'
  <2>1. Linkable(proc'[w], "x") = Linkable(proc[w], "x")  BY DEF Linkable, TailStep
  <2>2. \A l : Linkable(proc'[w], l) = Linkable(proc[w], l)  BY DEF Linkable, TailStep
  <2>3. Composed(w)' = Composed(w) /\ TakesAll(w)' = TakesAll(w)  BY DEF Composed, Calm, TakesAll, TailStep, Composes
  <2>4. OwnLinks(w)' \subseteq Leaves /\ Linked(w)' \subseteq OwnLinks(w)'  BY DEF Linked, OwnLinks
  <2>5. proc'[w].req = proc[w].req /\ proc'[w].op = proc[w].op /\ proc'[w].rt = proc[w].rt /\ proc'[w].failed = proc[w].failed
          /\ proc[w].pc = "tasks"
    BY DEF TailStep
  <2>6. SUFFICES ASSUME ~proc[w].failed
                 PROVE  /\ TakesAll(w) => \A l \in OwnLinks(w)' : Prunable(w, l)'
                        /\ Composes(w) /\ proc[w].req.links => \A l \in Linked(w)' : Linkable(proc[w], l) \/ Prunable(w, l)'
                        /\ proc[w].op = "removeRuntime" /\ Dropping(w) => \A l \in Linked(w)' :
                             \/ proc[w].rt = "copilot" /\ l \in Deep
                             \/ Composed(w) \subseteq {proc[w].rt} /\ l \in Leaves \ (Deep \cup {"tools"})
                             => Prunable(w, l)'
                        /\ proc[w].op = "removeRuntime" /\ ~Dropping(w) => \A l \in Linked(w)' : Prunable(w, l)'
    BY <1>2, <2>2, <2>3, <2>5 DEF Pruning, Composes
  <2>7. /\ TakesAll(w) => \A l \in OwnLinks(w) : Prunable(w, l)
        /\ Composes(w) /\ proc[w].req.links => \A l \in Linked(w) : Linkable(proc[w], l) \/ Prunable(w, l)
        /\ proc[w].op = "removeRuntime" /\ Dropping(w) => \A l \in Linked(w) :
             \/ proc[w].rt = "copilot" /\ l \in Deep
             \/ Composed(w) \subseteq {proc[w].rt} /\ l \in Leaves \ (Deep \cup {"tools"})
             => Prunable(w, l)
        /\ proc[w].op = "removeRuntime" /\ ~Dropping(w) => \A l \in Linked(w) : Prunable(w, l)
    BY <1>1, <2>5, <2>6 DEF Pruning, Tasking
  <2>8. \A l : New(proc[w], l) => proc[w].op = "compose" /\ proc[w].req.links /\ Linkable(proc[w], l)  BY DEF New
  <2>9. TakesAll(w) => \A l \in OwnLinks(w)' : Prunable(w, l)'  BY <1>2, <2>7, <2>8 DEF TakesAll, Composes
  <2>10. Composes(w) /\ proc[w].req.links => \A l \in Linked(w)' : Linkable(proc[w], l) \/ Prunable(w, l)'
    BY <1>2, <2>4, <2>7, <2>8
  <2>11. proc[w].op = "removeRuntime" => \A l \in Linked(w)' : l \in Linked(w) /\ l \in OwnLinks(w)'  BY <2>4, <2>8
  <2> QED  BY <1>2, <2>7, <2>9, <2>10, <2>11
<1>6. Resolving(w)'
  <2>1. sound[w] => \A l : ~New(proc[w], l)  BY <1>1 DEF ProcOK, New
  <2> QED  BY <1>1, <1>2, <2>1 DEF Resolving, IdleAt, TailStep, Calm
<1> QED  BY <1>3, <1>4, <1>5, <1>6

LEMMA DiskSame ==
  ASSUME NEW w, Reach(w), Listed(w), at'[w] = at[w], lost[w] \subseteq lost'[w], Known(w) \subseteq Known(w)'
  PROVE  Reach(w)' /\ Listed(w)' /\ OwnLinks(w)' = OwnLinks(w) /\ Linked(w)' \subseteq Linked(w)
<1>1. OwnLinks(w)' = OwnLinks(w) /\ \A p : Behind(w, p)' = Behind(w, p)  BY DEF OwnLinks, Behind, Occupied
<1>2. Linked(w)' \subseteq Linked(w)  BY <1>1 DEF Linked
<1> QED  BY <1>1, <1>2 DEF Reach, Listed

LEMMA TailLocal ==
  ASSUME NEW w \in Worktrees, TypeOK, Local(w), TailStep(w), Calm(w),
         Head1(w).do \notin {"drop", "dir"},
         Head1(w).do = "prune" => Head1(w).at \notin OwnLinks(w)',
         \A l \in OwnLinks(w)' : l \in OwnLinks(w) \/ New(proc[w], l),
         \A l \in Linked(w)' : l \in Linked(w) \/ New(proc[w], l),
         at'[w][".qory"] = at[w][".qory"], Reach(w)', Listed(w)'
  PROVE  Local(w)'
<1>1. ProcOK(w)'  BY TailProcOK DEF Local, Calm
<1>2. OfCopilot(w)' /\ OfModule(w)' /\ Pruning(w)' /\ Resolving(w)'  BY TailLinks
<1>3. LeftOK(w)'  BY DEF Local, LeftOK, Calm
<1>4. QoryOK(w)'
  <2>1. QoryOK(w) /\ ProcOK(w)  BY DEF Local
  <2>2. proc'[w].todo = Tail(proc[w].todo) /\ proc[w].todo # <<>>  BY DEF TailStep
  <2>3. \A do \in {"dir", "drop"} : Has(proc[w].todo, do, ".qory") => Has(proc'[w].todo, do, ".qory")
    <3>1. \A do, x : Has(proc[w].todo, do, x) =>
            Has(Tail(proc[w].todo), do, x) \/ (Head(proc[w].todo).do = do /\ Head(proc[w].todo).at = x)
      BY <2>1, <2>2, TodoFacts
    <3> QED  BY <2>2, <3>1 DEF Head1
  <2> QED  BY <2>1, <2>3 DEF QoryOK, TailStep, Calm
<1> QED  BY <1>1, <1>2, <1>3, <1>4 DEF Local

(* The processes after a step.                                             *)
LEMMA PutFacts ==
  ASSUME NEW w \in Worktrees, TypeOK, NEW q \in Procs, Put(w, q)
  PROVE  proc' \in [Worktrees -> Procs] /\ proc'[w] = q /\ \A v \in Worktrees \ {w} : proc'[v] = proc[v]
BY DEF Put, TypeOK

LEMMA IdleType == Idle \in Procs
BY DEF Idle, Procs, Runtimes

LEMMA WasType == ASSUME NEW w \in Worktrees, TypeOK  PROVE Was(w) \in Homes \cup {None}
BY DEF Was, TypeOK

LEMMA Next1Facts ==
  ASSUME NEW w \in Worktrees, TypeOK, ProcOK(w), proc[w].todo # <<>>
  PROVE  LET p == proc[w] q == Next1(w) IN
         /\ q \in Procs /\ q.todo = Tail(p.todo) /\ q.line = p.line /\ q.replaced = p.replaced /\ q.removed = p.removed
         /\ q.pc = p.pc /\ q.op = p.op /\ q.rt = p.rt /\ q.rts = p.rts /\ q.req = p.req /\ q.prev = p.prev /\ q.failed = p.failed
<1>1. proc[w] \in Procs  BY DEF TypeOK
<1>2. Tail(proc[w].todo) \in Seq(Tasks)  BY TodoFacts
<1> QED  BY <1>1, <1>2 DEF Next1, Procs

LEMMA ReadsFacts ==
  ASSUME NEW w \in Worktrees, TypeOK, NEW q \in Procs, NEW x \in Paths, NEW add \in BOOLEAN,
         Reads(w, q, x, add), exclude' = exclude, proc[w].line = None
  PROVE  /\ proc' \in [Worktrees -> Procs] /\ (\A v \in Worktrees \ {w} : proc'[v] = proc[v])
         /\ LET r == proc'[w] IN
            /\ r.todo = q.todo /\ r.pc = q.pc /\ r.op = q.op /\ r.rt = q.rt /\ r.rts = q.rts /\ r.req = q.req /\ r.prev = q.prev
            /\ r.failed = q.failed /\ r.replaced = q.replaced /\ r.removed = q.removed
         /\ raced' \in BOOLEAN /\ ReadsFor(w, x, add)
<1> DEFINE writes == IF add THEN x \notin exclude ELSE x \in exclude /\ ~HeldElsewhere(w, x)
           line == IF writes THEN [at |-> x, add |-> add, read |-> exclude] ELSE None
           r == [q EXCEPT !.line = line]
<1>1. Put(w, r) /\ raced' = (raced \/ \E o \in Worktrees \ {w} : proc[o].line # None)  BY DEF Reads
<1>2. line \in Lines \cup {None}
  <2>1. exclude \in SUBSET Paths  BY DEF TypeOK
  <2>2. [at |-> x, add |-> add, read |-> exclude] \in Lines  BY <2>1 DEF Lines
  <2> QED  BY <2>2
<1> HIDE DEF line
<1>3. r \in Procs /\ r.line = line /\ r.todo = q.todo /\ r.pc = q.pc /\ r.op = q.op /\ r.rt = q.rt /\ r.rts = q.rts /\ r.req = q.req
        /\ r.prev = q.prev /\ r.failed = q.failed /\ r.replaced = q.replaced /\ r.removed = q.removed
  BY <1>2 DEF Procs
<1> HIDE DEF r
<1>4. proc' \in [Worktrees -> Procs] /\ proc'[w] = r /\ \A v \in Worktrees \ {w} : proc'[v] = proc[v]  BY <1>1, <1>3, PutFacts
<1>5. ReadsFor(w, x, add)  BY <1>1, <1>3, <1>4 DEF ReadsFor, line
<1> QED  BY <1>1, <1>3, <1>4, <1>5

LEMMA DoPutsLine ==
  ASSUME NEW w \in Worktrees, TypeOK, LinesOK, Local(w), PutsLine(w)
  PROVE  TypeOK' /\ LinesOK' /\ Local(w)' /\ Others(w)
<1> DEFINE x == Head1(w).at
<1>1. ProcOK(w) /\ proc[w].todo # <<>> /\ proc[w].line = None /\ proc[w].pc = "tasks" /\ Head1(w).do = "line"
  BY DEF Local, PutsLine, At
<1>2. x = ".qory" /\ x \in Paths /\ proc[w].op = "compose"  BY <1>1, TodoFacts DEF Head1, Legal, Paths
<1>3. /\ at' = at /\ home' = home /\ report' = report /\ exclude' = exclude /\ tampered' = tampered
      /\ sound' = sound /\ lost' = lost /\ left' = left /\ Reads(w, Next1(w), x, TRUE)
  BY DEF PutsLine
<1> HIDE DEF x
<1>4. Next1(w) \in Procs /\ Next1(w).todo = Tail(proc[w].todo)  BY <1>1, Next1Facts
<1>5. /\ proc' \in [Worktrees -> Procs] /\ (\A v \in Worktrees \ {w} : proc'[v] = proc[v])
      /\ raced' \in BOOLEAN /\ ReadsFor(w, x, TRUE)
  BY <1>1, <1>2, <1>3, <1>4, ReadsFacts
<1>6. TailStep(w) /\ Calm(w) /\ Others(w)
  <2>1. Calm(w) /\ Others(w)  BY <1>3, <1>5 DEF Calm, Others, Same
  <2>2. TailStep(w)
    <3>1. LET p == proc[w] q == Next1(w) IN
          /\ q.todo = Tail(p.todo) /\ q.replaced = p.replaced
          /\ q.pc = p.pc /\ q.op = p.op /\ q.rt = p.rt /\ q.rts = p.rts /\ q.req = p.req /\ q.prev = p.prev /\ q.failed = p.failed
      BY <1>1, Next1Facts
    <3>2. LET r == proc'[w] q == Next1(w) IN
          /\ r.todo = q.todo /\ r.pc = q.pc /\ r.op = q.op /\ r.rt = q.rt /\ r.rts = q.rts /\ r.req = q.req /\ r.prev = q.prev
          /\ r.failed = q.failed /\ r.replaced = q.replaced
      BY <1>1, <1>2, <1>3, <1>4, ReadsFacts
    <3>3. proc[w].pc = "tasks" /\ proc[w].todo # <<>>  BY <1>1
    <3> HIDE DEF Next1
    <3> QED  BY <3>1, <3>2, <3>3 DEF TailStep
  <2> QED  BY <2>1, <2>2
<1>7. TypeOK'  BY <1>3, <1>5 DEF TypeOK
<1>8. Reach(w)' /\ Listed(w)' /\ OwnLinks(w)' = OwnLinks(w) /\ Linked(w)' \subseteq Linked(w)
  BY <1>3, <1>6, DiskSame DEF Local, Known, Composes, TailStep, Replaced
<1>9. Local(w)'  BY <1>1, <1>3, <1>6, <1>8, TailLocal
<1>10. LinesOK'  BY <1>2, <1>5, <1>6, <1>8, LinesAdded
<1> QED  BY <1>6, <1>7, <1>9, <1>10

(* A task at which nothing is done.                                        *)
LEMMA Passes ==
  ASSUME NEW w \in Worktrees, TypeOK, LinesOK, Local(w),
         proc[w].pc = "tasks", proc[w].line = None, proc[w].todo # <<>>, Put(w, Next1(w)),
         Head1(w).do \notin {"line", "drop", "dir"}, Head1(w).do = "prune" => Head1(w).at \notin OwnLinks(w),
         at' = at, home' = home, report' = report, exclude' = exclude, tampered' = tampered,
         sound' = sound, lost' = lost, raced' = raced, left' = left
  PROVE  TypeOK' /\ LinesOK' /\ Local(w)' /\ Others(w)
<1>1. ProcOK(w)  BY DEF Local
<1>2. Next1(w) \in Procs  BY <1>1, Next1Facts
<1>3. proc' \in [Worktrees -> Procs] /\ proc'[w] = Next1(w) /\ \A v \in Worktrees \ {w} : proc'[v] = proc[v]
  BY <1>2, PutFacts
<1>4. TypeOK'  BY <1>3 DEF TypeOK
<1>5. Others(w) /\ Calm(w)  BY <1>3 DEF Others, Same, Calm
<1>6. TailStep(w) /\ proc'[w].line = None  BY <1>1, <1>3, Next1Facts DEF TailStep
<1>7. Reach(w)' /\ Listed(w)' /\ OwnLinks(w)' = OwnLinks(w) /\ Linked(w)' \subseteq Linked(w)
  BY <1>6, DiskSame DEF Local, Known, Composes, TailStep, Replaced
<1>8. Local(w)'  BY <1>5, <1>6, <1>7, TailLocal
<1>9. QoryDue(w)' => QoryDue(w)
  <2>1. \A do, x : Has(proc[w].todo, do, x) =>
          Has(Tail(proc[w].todo), do, x) \/ (Head(proc[w].todo).do = do /\ Head(proc[w].todo).at = x)
    BY <1>1, TodoFacts
  <2>2. LineToCome(w) => LineToCome(w)'  BY <1>6, <2>1 DEF LineToCome, Head1, TailStep
  <2> QED  BY <1>6, <2>2 DEF QoryDue, TailStep, Composes, Tasking
<1>10. Quiet(w)  BY <1>6, <1>7, <1>9 DEF Quiet, Adds
<1>11. LinesOK'  BY <1>5, <1>10, LinesQuiet
<1> QED  BY <1>4, <1>5, <1>8, <1>11

LEMMA DoClearsYields ==
  ASSUME NEW w \in Worktrees, TypeOK, LinesOK, Local(w), Clears(w) \/ Yields(w)
  PROVE  TypeOK' /\ LinesOK' /\ Local(w)' /\ Others(w)
<1>1. /\ proc[w].pc = "tasks" /\ proc[w].line = None /\ proc[w].todo # <<>> /\ Put(w, Next1(w))
      /\ Head1(w).do \in {"link", "clear"}
      /\ at' = at /\ home' = home /\ report' = report /\ exclude' = exclude /\ tampered' = tampered
      /\ sound' = sound /\ lost' = lost /\ raced' = raced /\ left' = left
  BY DEF Clears, Yields, At, disk, history
<1> QED  BY <1>1, Passes

(* A path of the checkout gets a new entry, and the paths below it stay.   *)
LEMMA DoMakesLink ==
  ASSUME NEW w \in Worktrees, TypeOK, LinesOK, Local(w), MakesLink(w)
  PROVE  TypeOK' /\ LinesOK' /\ Local(w)' /\ Others(w)
<1> DEFINE x == Head1(w).at
<1>1. ProcOK(w) /\ proc[w].todo # <<>> /\ proc[w].line = None /\ proc[w].pc = "tasks" /\ Head1(w).do = "link"
  BY DEF Local, MakesLink, At
<1>2. x \in Leaves /\ New(proc[w], x)
  <2>1. Head(proc[w].todo) \in Legal(proc[w]) /\ (Last(Head(proc[w].todo)) => Tail(proc[w].todo) = <<>>)
    BY <1>1, TodoFacts
  <2> QED  BY <1>1, <2>1 DEF Head1, Legal, New, Last
<1>3. /\ home' = home /\ report' = report /\ exclude' = exclude /\ tampered' = tampered
      /\ sound' = sound /\ left' = left /\ Reads(w, Next1(w), x, TRUE)
      /\ at' = [at EXCEPT ![w][x] = "own"] /\ lost' = [lost EXCEPT ![w] = @ \ ({x} \ Tracked[w])]
      /\ ~Behind(w, x) /\ ~Occupied(w, x)
  BY DEF MakesLink, Free
<1> HIDE DEF x
<1>4. x \in Paths  BY <1>2 DEF Paths
<1>5. Next1(w) \in Procs /\ Next1(w).todo = Tail(proc[w].todo)  BY <1>1, Next1Facts
<1>6. /\ proc' \in [Worktrees -> Procs] /\ (\A v \in Worktrees \ {w} : proc'[v] = proc[v])
      /\ raced' \in BOOLEAN /\ ReadsFor(w, x, TRUE)
  BY <1>1, <1>3, <1>4, <1>5, ReadsFacts
<1>7. /\ at' \in [Worktrees -> [Paths -> {"none", "own", "tracked", "theirs"}]]
      /\ \A p \in Paths : at'[w][p] = IF p = x THEN "own" ELSE at[w][p]
      /\ \A v \in Worktrees \ {w} : at'[v] = at[v]
  BY <1>3, <1>4, TypesOf DEF TypeOK
<1>8. /\ lost' \in [Worktrees -> SUBSET Paths] /\ lost'[w] = lost[w] \ ({x} \ Tracked[w])
      /\ \A v \in Worktrees \ {w} : lost'[v] = lost[v]
  BY <1>3 DEF TypeOK
<1>9. TypeOK'  BY <1>3, <1>6, <1>7, <1>8 DEF TypeOK
<1>10. Others(w) /\ Calm(w)  BY <1>3, <1>6, <1>7, <1>8 DEF Others, Same, Calm
<1>11. TailStep(w)
  <2>1. LET p == proc[w] q == Next1(w) IN
        /\ q.todo = Tail(p.todo) /\ q.replaced = p.replaced
        /\ q.pc = p.pc /\ q.op = p.op /\ q.rt = p.rt /\ q.rts = p.rts /\ q.req = p.req /\ q.prev = p.prev /\ q.failed = p.failed
    BY <1>1, Next1Facts
  <2>2. LET r == proc'[w] q == Next1(w) IN
        /\ r.todo = q.todo /\ r.pc = q.pc /\ r.op = q.op /\ r.rt = q.rt /\ r.rts = q.rts /\ r.req = q.req /\ r.prev = q.prev
        /\ r.failed = q.failed /\ r.replaced = q.replaced
    BY <1>1, <1>3, <1>4, <1>5, ReadsFacts
  <2>3. proc[w].pc = "tasks" /\ proc[w].todo # <<>>  BY <1>1
  <2> HIDE DEF Next1
  <2> QED  BY <2>1, <2>2, <2>3 DEF TailStep
<1>12. /\ \A l \in OwnLinks(w)' : l \in OwnLinks(w) \/ l = x
       /\ \A l \in Linked(w)' : l \in Linked(w) \/ l = x
  BY <1>7, <1>8 DEF OwnLinks, Linked, Paths
<1>13. \A p \in Paths : Behind(w, p)' <=> Behind(w, p)
  <2>1. \A p \in Paths : \A d \in Above(p) : d \in Paths /\ d # x  BY <1>2, AboveFacts DEF Paths
  <2> QED  BY <1>7, <2>1 DEF Behind, Occupied
<1>14. Reach(w)'  BY <1>3, <1>4, <1>12, <1>13 DEF Local, Reach, OwnLinks, Paths
<1>15. Listed(w)'
  <2>1. Known(w)' = Known(w)
    <3>1. proc'[w].replaced = proc[w].replaced /\ proc'[w].op = proc[w].op  BY <1>11 DEF TailStep
    <3> QED  BY <1>3, <3>1 DEF Known, Composes, Replaced
  <2>2. \A p \in Paths : at'[w][p] = "tracked" => p \in Tracked[w]  BY <1>7 DEF Local, Listed
  <2>3. ASSUME NEW p \in Tracked[w] \ lost'[w], at'[w][p] \in {"none", "own"}  PROVE p \in Known(w) \/ Behind(w, p)
    <3>1. p \in Paths /\ p \notin lost[w]  BY <1>8, <2>3, HarnessAssumption DEF Paths
    <3>2. at[w][p] \in {"none", "own"}  BY <1>3, <1>7, <2>3, <3>1, TypesOf DEF Occupied
    <3> QED  BY <2>3, <3>1, <3>2 DEF Local, Listed
  <2>4. \A p \in Tracked[w] : p \in Paths  BY HarnessAssumption DEF Paths
  <2> QED  BY <1>13, <2>1, <2>2, <2>3, <2>4 DEF Listed
<1>16. at'[w][".qory"] = at[w][".qory"]  BY <1>2, <1>7 DEF Paths, Leaves
<1>17. Local(w)'  BY <1>1, <1>2, <1>10, <1>11, <1>12, <1>14, <1>15, <1>16, TailLocal
<1>18. QoryDue(w)' => QoryDue(w)
  <2>1. \A do, y : Has(proc[w].todo, do, y) =>
          Has(Tail(proc[w].todo), do, y) \/ (Head(proc[w].todo).do = do /\ Head(proc[w].todo).at = y)
    BY <1>1, TodoFacts
  <2>2. LineToCome(w) => LineToCome(w)'  BY <1>1, <1>11, <2>1 DEF LineToCome, Head1, TailStep
  <2> QED  BY <1>3, <1>11, <2>2 DEF QoryDue, TailStep, Composes, Tasking
<1>19. LinesOK'  BY <1>4, <1>6, <1>10, <1>12, <1>16, <1>18, LinesAdded
<1> QED  BY <1>9, <1>10, <1>17, <1>19

LEMMA DoForces ==
  ASSUME NEW w \in Worktrees, TypeOK, LinesOK, Local(w), Forces(w)
  PROVE  TypeOK' /\ LinesOK' /\ Local(w)' /\ Others(w)
<1> DEFINE x == Head1(w).at
           q == [proc[w] EXCEPT !.replaced = @ \cup {x}]
<1>1. ProcOK(w) /\ proc[w].todo # <<>> /\ proc[w].line = None /\ proc[w].pc = "tasks" /\ Head1(w).do \in {"link", "clear"}
  BY DEF Local, Forces, At
<1>2. x \in Leaves \cup Dirs /\ proc[w].op = "compose" /\ proc[w].req.links
  BY <1>1, TodoFacts DEF Head1, Legal
<1>3. /\ home' = home /\ report' = report /\ exclude' = exclude /\ tampered' = tampered
      /\ sound' = sound /\ left' = left /\ raced' = raced /\ Put(w, q)
      /\ at' = [at EXCEPT ![w][x] = "none"] /\ lost' = [lost EXCEPT ![w] = @ \ {x}]
      /\ ~Behind(w, x) /\ at[w][x] = "tracked"
  BY DEF Forces, Restorable
<1>4. /\ q \in Procs /\ q.todo = proc[w].todo /\ q.line = proc[w].line /\ q.replaced = proc[w].replaced \cup {x}
      /\ q.pc = proc[w].pc /\ q.op = proc[w].op /\ q.rt = proc[w].rt /\ q.rts = proc[w].rts /\ q.req = proc[w].req
      /\ q.prev = proc[w].prev /\ q.failed = proc[w].failed
  <2>1. x \in Paths /\ proc[w] \in Procs  BY <1>2 DEF Paths, TypeOK
  <2> HIDE DEF x
  <2> QED  BY <2>1 DEF Procs
<1> HIDE DEF x, q
<1>5. x \in Paths  BY <1>2 DEF Paths
<1>6. proc' \in [Worktrees -> Procs] /\ proc'[w] = q /\ \A v \in Worktrees \ {w} : proc'[v] = proc[v]
  BY <1>3, <1>4, PutFacts
<1>7. /\ at' \in [Worktrees -> [Paths -> {"none", "own", "tracked", "theirs"}]]
      /\ \A p \in Paths : at'[w][p] = IF p = x THEN "none" ELSE at[w][p]
      /\ \A v \in Worktrees \ {w} : at'[v] = at[v]
  BY <1>3, <1>5, TypesOf DEF TypeOK
<1>8. /\ lost' \in [Worktrees -> SUBSET Paths] /\ lost'[w] = lost[w] \ {x}
      /\ \A v \in Worktrees \ {w} : lost'[v] = lost[v]
  BY <1>3 DEF TypeOK
<1>9. TypeOK'  BY <1>3, <1>6, <1>7, <1>8 DEF TypeOK
<1>10. Others(w)  BY <1>3, <1>6, <1>7, <1>8 DEF Others, Same
<1>11. OwnLinks(w)' = OwnLinks(w) /\ Linked(w)' = Linked(w)
  <2>1. OwnLinks(w)' = OwnLinks(w)  BY <1>3, <1>7 DEF OwnLinks, Paths
  <2>2. x \notin OwnLinks(w)  BY <1>3 DEF OwnLinks
  <2> QED  BY <2>1, <2>2, <1>8 DEF Linked
<1>12. ProcOK(w)'
  <2>1. Legal(proc'[w]) = Legal(proc[w])  BY <1>4, <1>6, LegalSame
  <2> HIDE DEF Legal, Last
  <2> QED  BY <1>1, <1>2, <1>3, <1>4, <1>6, <2>1 DEF ProcOK
<1>13. QoryOK(w)'
  <2>1. at'[w][".qory"] = at[w][".qory"]  BY <1>2, <1>7, AboveFacts DEF Paths, Leaves, Dirs
  <2> QED  BY <1>3, <1>4, <1>6, <2>1 DEF Local, QoryOK
<1>14. OfCopilot(w)' /\ OfModule(w)'
  BY <1>3, <1>4, <1>6, <1>11 DEF Local, OfCopilot, OfModule, Composed, Composes, Tasking
<1>15. Pruning(w)' /\ Resolving(w)'
  BY <1>3, <1>4, <1>6, <1>11
  DEF Local, Pruning, Resolving, Tasking, TakesAll, Composes, Prunable, Linkable, Dropping, Composed, IdleAt
<1>16. LeftOK(w)'  BY <1>3 DEF Local, LeftOK
<1>17. \A p \in Paths : Behind(w, p)' => Behind(w, p)
  <2>1. \A p \in Paths : \A d \in Above(p) : d \in Paths  BY AboveFacts DEF Paths
  <2> QED  BY <1>7, <2>1 DEF Behind, Occupied
<1>18. Reach(w)'
  <2>1. \A l \in OwnLinks(w) : l \in Paths  BY DEF OwnLinks, Paths
  <2> QED  BY <1>11, <1>17, <2>1 DEF Local, Reach
<1>19. Listed(w)'
  <2>1. Known(w)' = Known(w) \cup {x}  BY <1>2, <1>4, <1>6 DEF Known, Composes
  <2>2. \A p \in Paths : at'[w][p] = "tracked" => p \in Tracked[w]  BY <1>7 DEF Local, Listed
  <2>3. x \in Tracked[w]  BY <1>3, <1>5 DEF Local, Listed
  <2>4. \A p \in Tracked[w] : p \in Paths /\ x \notin Above(p)  BY <2>3, HarnessAssumption DEF Paths
  <2>5. ASSUME NEW p \in Tracked[w], p # x, Behind(w, p)  PROVE Behind(w, p)'
    <3>1. PICK d \in Above(p) : Occupied(w, d)  BY <2>5 DEF Behind
    <3>2. d # x /\ d \in Paths  BY <2>4, <3>1, AboveFacts DEF Paths
    <3>3. at'[w][d] = at[w][d]  BY <3>2, <1>7
    <3> QED  BY <3>1, <3>3 DEF Behind, Occupied
  <2>6. ASSUME NEW p \in Tracked[w] \ lost'[w], at'[w][p] \in {"none", "own"}  PROVE p \in Known(w)' \/ Behind(w, p)'
    <3>1. CASE p = x  BY <3>1, <2>1
    <3>2. CASE p # x  BY <3>2, <1>7, <1>8, <2>1, <2>4, <2>5, <2>6 DEF Local, Listed
    <3> QED  BY <3>1, <3>2
  <2> QED  BY <2>2, <2>6 DEF Listed
<1>20. Local(w)'  BY <1>12, <1>13, <1>14, <1>15, <1>16, <1>18, <1>19 DEF Local
<1>21. Quiet(w)
  <2>1. QoryDue(w)' => QoryDue(w)  BY <1>3, <1>4, <1>6 DEF QoryDue, Composes, Tasking, LineToCome
  <2>2. \A p \in Paths : at'[w][p] = "own" => at[w][p] = "own"  BY <1>7
  <2> QED  BY <1>1, <1>3, <1>4, <1>6, <1>11, <2>1, <2>2 DEF Quiet, Adds, Paths
<1>22. LinesOK'  BY <1>10, <1>21, LinesQuiet
<1> QED  BY <1>9, <1>10, <1>20, <1>22

(* A link of qory's goes.                                                  *)
LEMMA DoPrune ==
  ASSUME NEW w \in Worktrees, TypeOK, LinesOK, Local(w), Prune(w)
  PROVE  TypeOK' /\ LinesOK' /\ Local(w)' /\ Others(w)
<1> DEFINE x == Head1(w).at
           q == [Next1(w) EXCEPT !.removed = @ \cup {x}]
<1>1. ProcOK(w) /\ proc[w].todo # <<>> /\ proc[w].line = None /\ proc[w].pc = "tasks" /\ Head1(w).do = "prune"
  BY DEF Local, Prune, At
<1>2. x \in Leaves  BY <1>1, TodoFacts DEF Head1, Legal
<1>3. /\ home' = home /\ report' = report /\ exclude' = exclude /\ tampered' = tampered
      /\ sound' = sound /\ left' = left
  BY DEF Prune
<1>4. CASE at[w][x] = "own" /\ ~Behind(w, x)
  <2>1. /\ at' = [at EXCEPT ![w][x] = "none"] /\ lost' = [lost EXCEPT ![w] = @ \ ({x} \ Tracked[w])]
        /\ Reads(w, q, x, FALSE)
    BY <1>4 DEF Prune
  <2>2. /\ q \in Procs /\ q.todo = Tail(proc[w].todo) /\ q.replaced = proc[w].replaced
        /\ q.pc = proc[w].pc /\ q.op = proc[w].op /\ q.rt = proc[w].rt /\ q.rts = proc[w].rts /\ q.req = proc[w].req
        /\ q.prev = proc[w].prev /\ q.failed = proc[w].failed
    BY <1>1, <1>2, Next1Facts, ZenonT(40) DEF Procs
  <2>3. x \in Paths  BY <1>2 DEF Paths
  <2> HIDE DEF x, q
  <2>4. /\ proc' \in [Worktrees -> Procs] /\ (\A v \in Worktrees \ {w} : proc'[v] = proc[v])
        /\ raced' \in BOOLEAN /\ ReadsFor(w, x, FALSE)
    BY <1>1, <1>3, <2>1, <2>2, <2>3, ReadsFacts
  <2>5. TailStep(w)  BY <1>1, <1>3, <2>1, <2>2, <2>3, ReadsFacts DEF TailStep
  <2>6. /\ at' \in [Worktrees -> [Paths -> {"none", "own", "tracked", "theirs"}]]
        /\ \A p \in Paths : at'[w][p] = IF p = x THEN "none" ELSE at[w][p]
        /\ \A v \in Worktrees \ {w} : at'[v] = at[v]
    BY <2>1, <2>3, TypesOf DEF TypeOK
  <2>7. /\ lost' \in [Worktrees -> SUBSET Paths] /\ lost'[w] = lost[w] \ ({x} \ Tracked[w])
        /\ \A v \in Worktrees \ {w} : lost'[v] = lost[v]
    BY <2>1 DEF TypeOK
  <2>8. TypeOK'  BY <1>3, <2>4, <2>6, <2>7 DEF TypeOK
  <2>9. Others(w) /\ Calm(w)  BY <1>3, <2>4, <2>6, <2>7 DEF Others, Same, Calm
  <2>10. /\ OwnLinks(w)' = OwnLinks(w) \ {x} /\ Linked(w)' \subseteq Linked(w)
    <3>1. OwnLinks(w)' = OwnLinks(w) \ {x}  BY <2>6 DEF OwnLinks, Paths
    <3> QED  BY <3>1, <2>7 DEF Linked
  <2>11. \A p \in Paths : Behind(w, p)' <=> Behind(w, p)
    <3>1. \A p \in Paths : \A d \in Above(p) : d \in Paths /\ d # x  BY <1>2, AboveFacts DEF Paths, x
    <3> QED  BY <2>6, <3>1 DEF Behind, Occupied
  <2>12. Reach(w)'
    <3>1. \A l \in OwnLinks(w) : l \in Paths  BY DEF OwnLinks, Paths
    <3> QED  BY <2>10, <2>11, <3>1 DEF Local, Reach
  <2>13. Listed(w)'
    <3>1. Known(w)' = Known(w)
      <4>1. proc'[w].replaced = proc[w].replaced /\ proc'[w].op = proc[w].op  BY <2>5 DEF TailStep
      <4> QED  BY <1>3, <4>1 DEF Known, Composes, Replaced
    <3>2. \A p \in Paths : at'[w][p] = "tracked" => p \in Tracked[w]  BY <2>6 DEF Local, Listed
    <3>3. \A p \in Tracked[w] : p \in Paths  BY HarnessAssumption DEF Paths
    <3>4. ASSUME NEW p \in Tracked[w] \ lost'[w], at'[w][p] \in {"none", "own"}  PROVE p \in Known(w) \/ Behind(w, p)
      <4>1. p \in Paths /\ p \notin lost[w]  BY <2>7, <3>3, <3>4
      <4>2. at[w][p] \in {"none", "own"}  BY <1>4, <2>6, <3>4, <4>1 DEF x
      <4> QED  BY <3>4, <4>1, <4>2 DEF Local, Listed
    <3> QED  BY <2>11, <3>1, <3>2, <3>3, <3>4 DEF Listed
  <2>14. at'[w][".qory"] = at[w][".qory"]
    <3>1. x # ".qory" /\ ".qory" \in Paths  BY <1>2 DEF Paths, Leaves, x
    <3> QED  BY <3>1, <2>6
  <2>15. Local(w)'  BY <1>1, <2>5, <2>9, <2>10, <2>12, <2>13, <2>14, TailLocal DEF x
  <2>16. QoryDue(w)' => QoryDue(w)
    <3>1. \A do, y : Has(proc[w].todo, do, y) =>
            Has(Tail(proc[w].todo), do, y) \/ (Head(proc[w].todo).do = do /\ Head(proc[w].todo).at = y)
      BY <1>1, TodoFacts
    <3>2. LineToCome(w) => LineToCome(w)'  BY <1>1, <2>5, <3>1 DEF LineToCome, Head1, TailStep
    <3> QED  BY <1>3, <2>5, <3>2 DEF QoryDue, TailStep, Composes, Tasking
  <2>17. at'[w][x] = "none"  BY <2>3, <2>6
  <2>18. LinesOK'  BY <2>3, <2>4, <2>9, <2>10, <2>14, <2>16, <2>17, LinesTaken
  <2> QED  BY <2>8, <2>9, <2>15, <2>18
<1>5. CASE ~(at[w][x] = "own" /\ ~Behind(w, x))
  <2>1. Put(w, Next1(w)) /\ at' = at /\ raced' = raced /\ lost' = lost  BY <1>5 DEF Prune
  <2>2. x \notin OwnLinks(w)  BY <1>5 DEF Local, Reach, OwnLinks
  <2> QED  BY <1>1, <1>3, <2>1, <2>2, Passes
<1> QED  BY <1>4, <1>5

(* A command that ends, of one worktree.                                   *)
LEMMA IdleLocal ==
  ASSUME NEW w \in Worktrees, TypeOK, TypeOK', proc'[w] = Idle,
         at'[w][".qory"] \in {"none", "own"}, home'[w] # None => at'[w][".qory"] = "own",
         Reach(w)', Listed(w)', LeftOK(w)',
         \A l \in Linked(w)' \cap Deep : "copilot" \in Composed(w)',
         "tools" \in Linked(w)' => InReport(report'[w]),
         sound'[w] => \A l \in Linked(w)' : Resolves(home'[w], l)
  PROVE  Local(w)'
<1>1. /\ Idle.pc = "idle" /\ Idle.op = "none" /\ Idle.todo = <<>> /\ Idle.failed = FALSE /\ Idle.line = None
  BY DEF Idle
<1>2. ProcOK(w)'
  <2>1. DOMAIN proc'[w].todo = {} /\ proc'[w].todo \in Seq(Legal(proc'[w]))  BY <1>1
  <2> HIDE DEF Legal, Last
  <2> QED  BY <1>1, <2>1 DEF ProcOK
<1>3. QoryOK(w)'  BY <1>1 DEF QoryOK
<1>4. OfCopilot(w)' /\ OfModule(w)'  BY <1>1 DEF OfCopilot, OfModule, Composes
<1>5. Pruning(w)' /\ Resolving(w)'  BY <1>1 DEF Pruning, Tasking, Resolving
<1> QED  BY <1>2, <1>3, <1>4, <1>5 DEF Local

LEMMA DoRefuses ==
  ASSUME NEW w \in Worktrees, TypeOK, LinesOK, Local(w), Refuses(w)
  PROVE  TypeOK' /\ LinesOK' /\ Local(w)' /\ Others(w)
<1> DEFINE p == proc[w]
           gone == IF p.replaced = {} \/ "tools" \in p.req.res THEN {} ELSE OwnLinks(w) \cap {"tools"}
           rep == IF p.replaced = {} THEN report[w] ELSE Reported(p)
<1>1. ProcOK(w) /\ p.todo # <<>> /\ p.line = None /\ p.pc = "tasks" /\ Head1(w).do \in {"link", "clear"}
  BY DEF Local, Refuses, At
<1>2. p.op = "compose" /\ p.req.links /\ p.req \in Requests /\ ~p.failed
  <2>1. p.op = "compose" /\ p.req.links  BY <1>1, TodoFacts DEF Head1, Legal
  <2> QED  BY <1>1, <2>1 DEF ProcOK
<1>3. /\ at' = at /\ home' = home /\ exclude' = exclude /\ tampered' = tampered \ {w} /\ sound' = sound /\ raced' = raced
      /\ left' = left /\ Put(w, Idle) /\ report' = [report EXCEPT ![w] = rep]
  BY DEF Refuses
<1>4. lost' = [lost EXCEPT ![w] = @ \cup gone]
  <2>1. lost' = [lost EXCEPT ![w] = IF p.replaced = {} \/ "tools" \in p.req.res THEN @ ELSE @ \cup (OwnLinks(w) \cap {"tools"})]
    BY DEF Refuses
  <2> QED  BY <2>1 DEF TypeOK
<1>5. rep \in Reports \cup {None} /\ (p.replaced # {} => rep \in Reports /\ rep = Reported(p))
  <2>1. p \in Procs /\ p.req.res \in SUBSET Leaves  BY <1>2, HarnessAssumption DEF TypeOK
  <2>2. Reported(p) \in Reports  BY <2>1 DEF Reported, Reports, Procs
  <2> QED  BY <2>2, TypesOf
<1>6. gone \subseteq Paths /\ gone \subseteq {"tools"}  BY DEF Paths, Leaves
<1>7. proc' \in [Worktrees -> Procs] /\ proc'[w] = Idle /\ \A v \in Worktrees \ {w} : proc'[v] = proc[v]
  BY <1>3, IdleType, PutFacts
<1>8. lost'[w] = lost[w] \cup gone /\ report'[w] = rep  BY <1>3, <1>4 DEF TypeOK
<1>9. TypeOK'
  <2> HIDE DEF gone, rep
  <2> QED  BY <1>3, <1>4, <1>5, <1>6, <1>7 DEF TypeOK
<1>10. Others(w)  BY <1>3, <1>4, <1>7 DEF Others, Same, TypeOK
<1>11. Known(w) \subseteq Known(w)'
  <2>1. Known(w) = p.replaced  BY <1>2 DEF Known, Composes
  <2>2. Known(w)' = Replaced(rep)  BY <1>7, <1>8 DEF Known, Composes, Idle, Replaced
  <2>3. CASE p.replaced # {}
    <3>1. rep # None  BY <1>5, <2>3, HarnessAssumption
    <3> QED  BY <1>5, <2>1, <2>2, <2>3, <3>1 DEF Replaced, Reported
  <2> QED  BY <2>1, <2>3
<1>12. Reach(w)' /\ Listed(w)' /\ OwnLinks(w)' = OwnLinks(w) /\ Linked(w)' \subseteq Linked(w)
  BY <1>3, <1>8, <1>11, DiskSame DEF Local
<1>13. "tools" \in Linked(w)' => InReport(report'[w])
  <2>1. SUFFICES ASSUME "tools" \in Linked(w)'  PROVE InReport(rep)
    BY <1>8
  <2>2. "tools" \in Linked(w) /\ "tools" \notin gone  BY <1>8, <1>12, <2>1 DEF Linked
  <2>3. InReport(p.prev)  BY <1>1, <1>2, <2>2 DEF Local, OfModule, Composes
  <2>4. CASE p.replaced = {}  BY <1>1, <1>2, <2>3, <2>4 DEF ProcOK, InReport
  <2>5. CASE p.replaced # {}
    <3>1. "tools" \in p.req.res  BY <2>2, <2>5 DEF Linked
    <3> QED  BY <1>5, <2>5, <3>1, HarnessAssumption DEF InReport, Reported
  <2> QED  BY <2>4, <2>5
<1>14. Local(w)'
  <2>1. ~sound'[w]  BY <1>1, <1>2, <1>3 DEF ProcOK
  <2>2. \A l \in Linked(w)' \cap Deep : "copilot" \in Composed(w)'
    BY <1>1, <1>2, <1>3, <1>12 DEF Local, OfCopilot, Composed
  <2>3. LeftOK(w)'  BY <1>3 DEF Local, LeftOK
  <2> QED  BY <1>3, <1>7, <1>9, <1>12, <1>13, <2>1, <2>2, <2>3, IdleLocal DEF Local, QoryOK
<1>15. Quiet(w)
  <2>1. ~QoryDue(w)'  BY <1>1, <1>2, <1>3, <1>7 DEF ProcOK, QoryDue, Composes, Idle
  <2> QED  BY <1>1, <1>3, <1>7, <1>12, <2>1 DEF Quiet, Adds, Idle
<1>16. LinesOK'  BY <1>10, <1>15, LinesQuiet
<1> QED  BY <1>9, <1>10, <1>14, <1>16

LEMMA DoUnlinks ==
  ASSUME NEW w \in Worktrees, TypeOK, LinesOK, Local(w), Unlinks(w)
  PROVE  TypeOK' /\ LinesOK' /\ Local(w)' /\ Others(w)
<1> DEFINE p == proc[w]
           t == Head1(w)
           stops == ~Behind(w, t.at) /\ Occupied(w, t.at) /\ ~t.soft
<1>1. ProcOK(w) /\ p.todo # <<>> /\ p.line = None /\ p.pc = "tasks" /\ t.do = "unlink"
  BY DEF Local, Unlinks, At
<1>2. /\ at' = at /\ home' = home /\ report' = report /\ exclude' = exclude /\ tampered' = tampered
      /\ lost' = lost /\ raced' = raced /\ left' = left
  BY DEF Unlinks, disk
<1>3. CASE ~stops
  <2>1. Put(w, Next1(w)) /\ sound' = sound  BY <1>3 DEF Unlinks
  <2> QED  BY <1>1, <1>2, <2>1, Passes
<1>4. CASE stops /\ p.op = "removeRuntime"
  <2>1. Put(w, Idle) /\ sound' = [sound EXCEPT ![w] = FALSE]  BY <1>4 DEF Unlinks
  <2>2. proc' \in [Worktrees -> Procs] /\ proc'[w] = Idle /\ \A v \in Worktrees \ {w} : proc'[v] = proc[v]
    BY <2>1, IdleType, PutFacts
  <2>3. /\ sound' \in [Worktrees -> BOOLEAN] /\ sound'[w] = FALSE /\ \A v \in Worktrees \ {w} : sound'[v] = sound[v]
    BY <2>1 DEF TypeOK
  <2>4. TypeOK' /\ Others(w)  BY <1>2, <2>2, <2>3 DEF TypeOK, Others, Same
  <2>5. Known(w)' = Known(w)  BY <1>2, <1>4, <2>2 DEF Known, Composes, Idle, Replaced
  <2>6. Reach(w)' /\ Listed(w)' /\ OwnLinks(w)' = OwnLinks(w) /\ Linked(w)' \subseteq Linked(w)
    BY <1>2, <2>5, DiskSame DEF Local
  <2>7. ~p.failed  BY <1>1, <1>4 DEF ProcOK
  <2>8. \A l \in Linked(w)' \cap Deep : "copilot" \in Composed(w)'
    BY <1>1, <1>2, <2>6, <2>7 DEF Local, OfCopilot, Composed
  <2>9. "tools" \in Linked(w)' => InReport(report'[w])
    BY <1>2, <1>4, <2>6, <2>7 DEF Local, OfModule, Composes
  <2>10. Local(w)'
    <3>1. LeftOK(w)'  BY <1>2 DEF Local, LeftOK
    <3> QED  BY <1>2, <2>2, <2>3, <2>4, <2>6, <2>8, <2>9, <3>1, IdleLocal DEF Local, QoryOK
  <2>11. Quiet(w)
    <3>1. ~QoryDue(w)'  BY <2>2, <2>3 DEF QoryDue, Composes, Idle
    <3> QED  BY <1>1, <1>2, <2>2, <2>6, <3>1 DEF Quiet, Adds, Idle
  <2> QED  BY <2>4, <2>10, <2>11, LinesQuiet
<1>5. CASE stops /\ p.op # "removeRuntime"
  <2> DEFINE rest == After(p.todo, t.rt)
             q == [p EXCEPT !.failed = TRUE, !.todo = rest]
  <2>1. Put(w, q) /\ sound' = sound  BY <1>5 DEF Unlinks
  <2>2. p.todo \in Seq(Legal(p)) /\ LastOK(p.todo) /\ t \in Legal(p)  BY <1>1, TodoFacts DEF Head1
  <2>3. t.rt \in Runtimes /\ (p.op = "compose" => ~p.req.links)  BY <1>1, <2>2 DEF Legal
  <2>4. rest \in Seq(Legal(p)) /\ LastOK(rest)  BY <2>2, AfterFacts
  <2>5. /\ p.op = "compose" => (LineToCome(w) => Has(rest, "line", ".qory"))
        /\ Has(p.todo, "dir", ".qory") => Has(rest, "dir", ".qory")
    <3>1. "none" # t.rt  BY <2>3 DEF Runtimes
    <3>2. \A i \in DOMAIN p.todo : p.todo[i] \in Legal(p)  BY <2>2
    <3>3. \A i \in DOMAIN p.todo : p.todo[i].do = "dir" => p.todo[i].rt = "none"  BY <3>2 DEF Legal
    <3>4. p.op = "compose" => \A i \in DOMAIN p.todo : p.todo[i].do = "line" => p.todo[i].rt = "none"
      BY <2>3, <3>2 DEF Legal
    <3>5. \A do, y : (\E i \in DOMAIN p.todo : p.todo[i].do = do /\ p.todo[i].at = y /\ p.todo[i].rt # t.rt) => Has(rest, do, y)
      BY <2>2, AfterFacts
    <3> QED  BY <3>1, <3>3, <3>4, <3>5 DEF LineToCome, Has
  <2>6. rest \in Seq(Tasks)
    <3>1. Legal(p) \subseteq Tasks  BY DEF Legal
    <3> HIDE DEF rest, Legal
    <3> QED  BY <2>4, <3>1
  <2> HIDE DEF rest, stops
  <2>7. /\ q \in Procs /\ q.todo = rest /\ q.line = p.line /\ q.replaced = p.replaced /\ q.failed = TRUE
        /\ q.pc = p.pc /\ q.op = p.op /\ q.rt = p.rt /\ q.rts = p.rts /\ q.req = p.req /\ q.prev = p.prev
    BY <2>6, TypesOf, ZenonT(40) DEF Procs
  <2> HIDE DEF q
  <2>8. proc' \in [Worktrees -> Procs] /\ proc'[w] = q /\ \A v \in Worktrees \ {w} : proc'[v] = proc[v]
    BY <2>1, <2>7, PutFacts
  <2>9. TypeOK' /\ Others(w)  BY <1>2, <2>1, <2>8 DEF TypeOK, Others, Same
  <2>10. Known(w)' = Known(w)  BY <1>2, <2>7, <2>8 DEF Known, Composes, Replaced
  <2>11. Reach(w)' /\ Listed(w)' /\ OwnLinks(w)' = OwnLinks(w) /\ Linked(w)' \subseteq Linked(w)
    BY <1>2, <2>10, DiskSame DEF Local
  <2>12. ~sound[w]  BY <1>1, <1>5 DEF ProcOK
  <2>13. ProcOK(w)'
    <3>1. Legal(proc'[w]) = Legal(p)  BY <2>7, <2>8, LegalSame
    <3>2. \A i \in DOMAIN rest : Last(rest[i]) => i = Len(rest)  BY <2>4 DEF LastOK
    <3> HIDE DEF Legal, Last
    <3> QED  BY <1>1, <1>2, <1>5, <2>1, <2>3, <2>4, <2>7, <2>8, <2>12, <3>1, <3>2 DEF ProcOK, Replaced
  <2>14. QoryOK(w)'  BY <1>2, <1>5, <2>5, <2>7, <2>8 DEF Local, QoryOK
  <2>15. OfCopilot(w)' /\ OfModule(w)' /\ Pruning(w)' /\ Resolving(w)'
    BY <2>1, <2>7, <2>8, <2>12 DEF OfCopilot, OfModule, Pruning, Resolving
  <2>16. LeftOK(w)'  BY <1>2 DEF Local, LeftOK
  <2>17. Local(w)'  BY <2>11, <2>13, <2>14, <2>15, <2>16 DEF Local
  <2>18. Quiet(w)
    <3>1. QoryDue(w)' => QoryDue(w)
      BY <2>1, <2>5, <2>7, <2>8 DEF QoryDue, Composes, Tasking, LineToCome
    <3> QED  BY <1>1, <1>2, <2>7, <2>8, <2>11, <3>1 DEF Quiet, Adds
  <2> QED  BY <2>9, <2>17, <2>18, LinesQuiet
<1> QED  BY <1>3, <1>4, <1>5

(* The end of a task list.                                                 *)
LEMMA LastTask ==
  ASSUME NEW w \in Worktrees, TypeOK, ProcOK(w), proc[w].todo # <<>>, Head1(w).do \in {"drop", "dir"}
  PROVE  /\ Tail(proc[w].todo) = <<>>
         /\ \A l : ~Prunable(w, l)
         /\ Dropping(w) => Head1(w).do = "drop"
         /\ ~LineToCome(w)
<1>1. Tail(proc[w].todo) = <<>>  BY TodoFacts DEF Head1, Last
<1>2. \A do, x : Has(proc[w].todo, do, x) =>
        Has(Tail(proc[w].todo), do, x) \/ (Head(proc[w].todo).do = do /\ Head(proc[w].todo).at = x)
  BY TodoFacts
<1>3. \A do, x : Has(proc[w].todo, do, x) => Head1(w).do = do  BY <1>1, <1>2, HasNone DEF Head1
<1> QED  BY <1>1, <1>3 DEF Prunable, Dropping, LineToCome

LEMMA DoRemovesDir ==
  ASSUME NEW w \in Worktrees, TypeOK, LinesOK, Local(w), RemovesDir(w)
  PROVE  TypeOK' /\ LinesOK' /\ Local(w)' /\ Others(w)
<1> DEFINE p == proc[w]
           q == [Next1(w) EXCEPT !.removed = {}]
           x == ".qory"
<1>1. ProcOK(w) /\ p.todo # <<>> /\ p.line = None /\ p.pc = "tasks" /\ Head1(w).do = "dir"
  BY DEF Local, RemovesDir, At
<1>2. p.op \in {"remove", "removeRuntime"}
  <2>1. Head(p.todo) \in Legal(p)  BY <1>1, TodoFacts
  <2> QED  BY <1>1, <2>1 DEF Head1, Legal
<1>3. /\ exclude' = exclude /\ tampered' = tampered /\ sound' = sound /\ left' = left
      /\ home' = [home EXCEPT ![w] = None] /\ report' = [report EXCEPT ![w] = None]
      /\ at' = [at EXCEPT ![w][x] = "none"] /\ lost' = [lost EXCEPT ![w] = @ \cup Replaced(report[w])]
      /\ Reads(w, q, x, FALSE)
  BY DEF RemovesDir
<1>4. /\ q \in Procs /\ q.todo = Tail(p.todo) /\ q.replaced = p.replaced
      /\ q.pc = p.pc /\ q.op = p.op /\ q.rt = p.rt /\ q.rts = p.rts /\ q.req = p.req /\ q.prev = p.prev /\ q.failed = p.failed
  BY <1>1, Next1Facts, ZenonT(40) DEF Procs
<1> HIDE DEF q
<1>5. x \in Paths  BY DEF Paths
<1>6. /\ proc' \in [Worktrees -> Procs] /\ (\A v \in Worktrees \ {w} : proc'[v] = proc[v])
      /\ raced' \in BOOLEAN /\ ReadsFor(w, x, FALSE)
  BY <1>1, <1>3, <1>4, <1>5, ReadsFacts
<1>7. TailStep(w) /\ Tail(p.todo) = <<>> /\ (\A l : ~Prunable(w, l)) /\ ~Dropping(w) /\ ~LineToCome(w)
  <2>1. TailStep(w)  BY <1>1, <1>3, <1>4, <1>5, ReadsFacts DEF TailStep
  <2> QED  BY <1>1, <2>1, LastTask
<1>8. /\ at' \in [Worktrees -> [Paths -> {"none", "own", "tracked", "theirs"}]]
      /\ \A y \in Paths : at'[w][y] = IF y = x THEN "none" ELSE at[w][y]
      /\ \A v \in Worktrees \ {w} : at'[v] = at[v]
  BY <1>3, <1>5, TypesOf DEF TypeOK
<1>9. Replaced(report[w]) \subseteq Paths
  BY TypesOf DEF Replaced, Reports
<1>10. /\ lost' \in [Worktrees -> SUBSET Paths] /\ lost'[w] = lost[w] \cup Replaced(report[w])
       /\ \A v \in Worktrees \ {w} : lost'[v] = lost[v]
  BY <1>3, <1>9 DEF TypeOK
<1>11. home'[w] = None /\ report'[w] = None  BY <1>3 DEF TypeOK
<1>12. TypeOK'  BY <1>3, <1>6, <1>8, <1>10 DEF TypeOK
<1>13. Others(w)  BY <1>3, <1>6, <1>8, <1>10 DEF Others, Same, TypeOK
<1>14. OwnLinks(w)' = OwnLinks(w) /\ Linked(w)' \subseteq Linked(w)
  <2>1. OwnLinks(w)' = OwnLinks(w)  BY <1>8 DEF OwnLinks, Paths, Leaves
  <2> QED  BY <2>1, <1>10 DEF Linked
<1>15. \A y \in Paths : Behind(w, y)' <=> Behind(w, y)
  <2>1. \A y \in Paths : \A d \in Above(y) : d \in Paths /\ d # x  BY AboveFacts DEF Paths, Dirs
  <2> QED  BY <1>8, <2>1 DEF Behind, Occupied
<1>16. Reach(w)'
  <2>1. \A l \in OwnLinks(w) : l \in Paths  BY DEF OwnLinks, Paths
  <2> QED  BY <1>14, <1>15, <2>1 DEF Local, Reach
<1>17. Listed(w)'
  <2>1. \A y \in Paths : at'[w][y] = "tracked" => y \in Tracked[w]  BY <1>8 DEF Local, Listed
  <2>2. \A y \in Tracked[w] : y \in Paths /\ y # x
    <3>1. x \notin Leaves \cup Dirs  BY DEF Leaves, Dirs
    <3> QED  BY <3>1, HarnessAssumption DEF Paths
  <2>3. Known(w) = Replaced(report[w])  BY <1>2 DEF Known, Composes
  <2>4. ASSUME NEW y \in Tracked[w] \ lost'[w], at'[w][y] \in {"none", "own"}  PROVE Behind(w, y)
    <3>1. y \in Paths /\ y # x /\ y \notin lost[w] /\ y \notin Known(w)  BY <1>10, <2>2, <2>3, <2>4
    <3>2. at[w][y] \in {"none", "own"}  BY <1>8, <2>4, <3>1
    <3> QED  BY <2>4, <3>1, <3>2 DEF Local, Listed
  <2> QED  BY <1>15, <2>1, <2>2, <2>4 DEF Listed
<1>18. proc[w].failed \/ Linked(w) = {}
  <2>1. SUFFICES ASSUME ~p.failed  PROVE Linked(w) = {}
    OBVIOUS
  <2>2. p.op = "remove" => OwnLinks(w) = {}  BY <1>1, <1>7, <2>1 DEF Local, Pruning, Tasking, TakesAll
  <2>3. p.op = "removeRuntime" => Linked(w) = {}  BY <1>1, <1>7, <2>1 DEF Local, Pruning, Tasking
  <2> QED  BY <1>2, <2>2, <2>3 DEF Linked
<1>19. ProcOK(w)'  BY <1>1, <1>2, <1>3, <1>7, TailProcOK
<1>20. QoryOK(w)'
  <2>1. at'[w][x] = "none" /\ proc'[w].pc = "tasks"  BY <1>1, <1>5, <1>7, <1>8 DEF TailStep
  <2> QED  BY <1>11, <2>1 DEF QoryOK
<1>21. proc'[w].todo = <<>> /\ proc'[w].failed = p.failed /\ proc'[w].op = p.op /\ proc'[w].pc = "tasks"
  BY <1>1, <1>7 DEF TailStep
<1>22. OfCopilot(w)' /\ OfModule(w)'  BY <1>14, <1>18, <1>21 DEF OfCopilot, OfModule
<1>23. Pruning(w)'
  <2>1. p.op = "remove" /\ ~p.failed => OwnLinks(w) = {}  BY <1>1, <1>7 DEF Local, Pruning, Tasking, TakesAll
  <2>2. ~p.failed => Linked(w)' = {}  BY <1>14, <1>18
  <2> QED  BY <1>2, <1>14, <1>21, <2>1, <2>2 DEF Pruning, TakesAll, Composes
<1>24. Resolving(w)'  BY <1>21, HasNone DEF Resolving, IdleAt, Dropping
<1>25. LeftOK(w)'  BY <1>3 DEF Local, LeftOK
<1>26. Local(w)'  BY <1>16, <1>17, <1>19, <1>20, <1>22, <1>23, <1>24, <1>25 DEF Local
<1>27. at'[w][x] = "none"  BY <1>5, <1>8
<1>28. LinesOK'  BY <1>5, <1>6, <1>13, <1>14, <1>27, LinesTaken
<1> QED  BY <1>12, <1>13, <1>26, <1>28

LEMMA DoDrops ==
  ASSUME NEW w \in Worktrees, TypeOK, LinesOK, Local(w), Drops(w)
  PROVE  TypeOK' /\ LinesOK' /\ Local(w)' /\ Others(w)
<1> DEFINE p == proc[w]
           others == Composed(w) \ {p.rt}
           gone == {r \in Replaced(report[w]) : \E l \in p.removed : l = r \/ r \in Above(l)}
           new == IF home[w] = None THEN None ELSE [home[w] EXCEPT !.rts = others]
           rep == [report[w] EXCEPT !.replaced = @ \ gone, !.rts = others]
           t == Task("dir", ".qory", FALSE, "none")
           rest == Prunes({"tools"}, "module") \o <<t>>
           q == [p EXCEPT !.todo = rest]
<1>1. ProcOK(w) /\ p.todo # <<>> /\ p.line = None /\ p.pc = "tasks" /\ Head1(w).do = "drop"
  BY DEF Local, Drops, At
<1>2. p.op = "removeRuntime" /\ p.rt \in Runtimes /\ ~p.failed
  <2>1. Head(p.todo) \in Legal(p)  BY <1>1, TodoFacts
  <2> QED  BY <1>1, <2>1 DEF Head1, Legal, ProcOK
<1>3. /\ at' = at /\ exclude' = exclude /\ tampered' = tampered /\ sound' = sound /\ raced' = raced /\ left' = left
      /\ home' = IF home[w] = None THEN home ELSE [home EXCEPT ![w].rts = others]
  BY DEF Drops
<1>4. Tail(p.todo) = <<>> /\ (\A l : ~Prunable(w, l)) /\ Dropping(w) /\ ~LineToCome(w)
  <2>1. Head(p.todo) \in Legal(p) /\ p.todo \in Seq(Legal(p))  BY <1>1, TodoFacts
  <2>2. Head(p.todo).at = ".qory"  BY <1>1, <2>1 DEF Legal, Head1
  <2>3. 1 \in DOMAIN p.todo /\ p.todo[1] = Head(p.todo)  BY <1>1, <2>1
  <2>4. Dropping(w)  BY <1>1, <2>2, <2>3 DEF Dropping, Has, Head1
  <2> QED  BY <1>1, <2>4, LastTask
<1>5. /\ home'[w] = new /\ (\A v \in Worktrees \ {w} : home'[v] = home[v])
      /\ home' \in [Worktrees -> Homes \cup {None}] /\ new \in Homes \cup {None}
      /\ Composed(w) \subseteq Runtimes
  <2>1. home[w] \in Homes \cup {None}  BY TypesOf
  <2>0. Composed(w) \subseteq Runtimes /\ others \subseteq Runtimes  BY <2>1 DEF Homes, Composed
  <2>2. new \in Homes \cup {None}
    <3> HIDE DEF others
    <3> QED  BY <2>0, <2>1 DEF Homes, new
  <2>3. home' = [home EXCEPT ![w] = new]
    <3>1. CASE home[w] = None  BY <1>3, <3>1 DEF TypeOK
    <3>2. CASE home[w] # None  BY <1>3, <3>2 DEF TypeOK
    <3> QED  BY <3>1, <3>2
  <2> HIDE DEF new
  <2> QED  BY <2>0, <2>2, <2>3 DEF TypeOK
<1>6. /\ Composed(w)' = others
      /\ \A l \in Linked(w) : Resolves(home[w], l) /\ (l \in Deep => p.rt # "copilot") => Resolves(new, l)
  <2>1. home[w] \in Homes \cup {None}  BY TypesOf
  <2>2. CASE home[w] = None
    <3>1. home'[w] = None  BY <1>5, <2>2
    <3> QED  BY <2>2, <3>1 DEF Composed, Resolves
  <2>3. CASE home[w] # None
    <3>1. new \in Homes /\ new.rts = others /\ new.res = home[w].res  BY <2>1, <2>3, <1>5, HarnessAssumption DEF Homes
    <3>2. new # None  BY <3>1, HarnessAssumption
    <3>3. Composed(w)' = others  BY <1>5, <3>1, <3>2 DEF Composed
    <3>4. ASSUME NEW l \in Linked(w), Resolves(home[w], l), l \in Deep => p.rt # "copilot"  PROVE Resolves(new, l)
      <4> HIDE DEF new
      <4> QED  BY <2>3, <3>1, <3>2, <3>4 DEF Resolves, Composed, Deep
    <3> QED  BY <3>3, <3>4
  <2> QED  BY <2>2, <2>3
<1>7. \A l \in Linked(w) : l \in Deep => p.rt # "copilot" /\ "copilot" \in others
  BY <1>1, <1>2, <1>4 DEF Local, Pruning, OfCopilot, Tasking, Deep
<1>8. sound[w] => \A l \in Linked(w) : Resolves(new, l)  BY <1>4, <1>6, <1>7 DEF Local, Resolving
<1>9. "tools" \in Linked(w) => InReport(report[w])  BY <1>2 DEF Local, OfModule, Composes
<1>10. home[w] = None <=> new = None
  <2>1. home[w] \in Homes \cup {None}  BY TypesOf
  <2>2. home[w] # None => new \in Homes  BY <1>5, <2>1 DEF Homes
  <2> QED  BY <2>2, HarnessAssumption
<1>11. LeftOK(w)'  BY <1>3 DEF Local, LeftOK
<1>12. Known(w) = Replaced(report[w])  BY <1>2 DEF Known, Composes
<1>13. ASSUME Put(w, Idle), NEW S, S \subseteq Paths, lost' = [lost EXCEPT ![w] = @ \cup S], report' \in [Worktrees -> Reports \cup {None}],
              \A v \in Worktrees \ {w} : report'[v] = report[v], Replaced(report[w]) \subseteq Replaced(report[w])' \cup S,
              InReport(report[w]) => InReport(report'[w])
       PROVE  TypeOK' /\ LinesOK' /\ Local(w)' /\ Others(w)
  <2>1. proc' \in [Worktrees -> Procs] /\ proc'[w] = Idle /\ \A v \in Worktrees \ {w} : proc'[v] = proc[v]
    BY <1>13, IdleType, PutFacts
  <2>2. /\ lost' \in [Worktrees -> SUBSET Paths] /\ lost'[w] = lost[w] \cup S
        /\ \A v \in Worktrees \ {w} : lost'[v] = lost[v]
    BY <1>13 DEF TypeOK
  <2>3. TypeOK'  BY <1>3, <1>5, <1>13, <2>1, <2>2 DEF TypeOK
  <2>4. Others(w)  BY <1>3, <1>5, <1>13, <2>1, <2>2 DEF Others, Same
  <2>5. OwnLinks(w)' = OwnLinks(w) /\ \A x : Behind(w, x)' = Behind(w, x)  BY <1>3 DEF OwnLinks, Behind, Occupied
  <2>6. Linked(w)' \subseteq Linked(w)  BY <2>2, <2>5 DEF Linked
  <2>7. Known(w)' = Replaced(report[w])'  BY <2>1 DEF Known, Composes, Idle
  <2>8. Listed(w)'
    <3>1. \A x \in Paths : at'[w][x] = "tracked" => x \in Tracked[w]  BY <1>3 DEF Local, Listed
    <3>2. ASSUME NEW x \in Tracked[w] \ lost'[w], at'[w][x] \in {"none", "own"}  PROVE x \in Known(w)' \/ Behind(w, x)'
      <4>1. x \in Known(w) \/ Behind(w, x)  BY <1>3, <2>2, <3>2 DEF Local, Listed
      <4> QED  BY <4>1, <1>12, <1>13, <2>2, <2>5, <2>7, <3>2
    <3> QED  BY <3>1, <3>2 DEF Listed
  <2>9. Reach(w)'  BY <2>5 DEF Local, Reach
  <2>10. Local(w)'
    <3>1. home'[w] # None => at'[w][".qory"] = "own"  BY <1>3, <1>5, <1>10 DEF Local, QoryOK
    <3>2. at'[w][".qory"] \in {"none", "own"}  BY <1>3 DEF Local, QoryOK
    <3>3. \A l \in Linked(w)' \cap Deep : "copilot" \in Composed(w)'  BY <1>6, <1>7, <2>6
    <3>4. "tools" \in Linked(w)' => InReport(report'[w])  BY <1>9, <1>13, <2>6
    <3>5. sound'[w] => \A l \in Linked(w)' : Resolves(home'[w], l)  BY <1>3, <1>5, <1>8, <2>6
    <3> QED  BY <1>11, <2>1, <2>3, <2>8, <2>9, <3>1, <3>2, <3>3, <3>4, <3>5, IdleLocal
  <2>11. Quiet(w)
    <3>1. QoryDue(w)' => QoryDue(w)  BY <1>3, <2>1 DEF QoryDue, Composes, Idle
    <3> QED  BY <1>1, <1>3, <2>1, <2>6, <3>1 DEF Quiet, Adds, Idle
  <2> QED  BY <2>3, <2>4, <2>10, <2>11, LinesQuiet
<1>14. CASE p.rt \notin Composed(w) /\ p.removed = {}
  <2>1. Put(w, Idle) /\ report' = report /\ lost' = lost  BY <1>14 DEF Drops
  <2>2. lost' = [lost EXCEPT ![w] = @ \cup {}]  BY <2>1 DEF TypeOK
  <2>3. report' \in [Worktrees -> Reports \cup {None}] /\ report'[w] = report[w] /\ \A v \in Worktrees \ {w} : report'[v] = report[v]
    BY <2>1 DEF TypeOK
  <2>4. Replaced(report[w])' = Replaced(report[w])  BY <2>3 DEF Replaced
  <2> DEFINE S == {}
  <2>5. S \subseteq Paths /\ lost' = [lost EXCEPT ![w] = @ \cup S] /\ Replaced(report[w]) \subseteq Replaced(report[w])' \cup S
    BY <2>2, <2>4
  <2>6. InReport(report[w]) => InReport(report'[w])  BY <2>3
  <2> HIDE DEF S
  <2> QED  BY <1>13, <2>1, <2>3, <2>5, <2>6
<1>15. CASE ~(p.rt \notin Composed(w) /\ p.removed = {}) /\ others # {}
  <2>1. /\ Put(w, Idle) /\ lost' = [lost EXCEPT ![w] = @ \cup gone]
        /\ report' = IF report[w] = None THEN report ELSE [report EXCEPT ![w].replaced = @ \ gone, ![w].rts = others]
    BY <1>15 DEF Drops
  <2>2. gone \subseteq Paths /\ report[w] \in Reports \cup {None}
    <3>1. report[w] \in Reports \cup {None}  BY TypesOf
    <3> QED  BY <3>1 DEF Replaced, Reports
  <2>3. CASE report[w] = None
    <3>1. report' = report  BY <2>1, <2>3
    <3> HIDE DEF gone
    <3> QED  BY <1>13, <2>1, <2>2, <3>1 DEF TypeOK, Replaced
  <2>4. CASE report[w] # None
    <3>1. rep \in Reports /\ rep.replaced = report[w].replaced \ gone /\ rep.res = report[w].res
      BY <1>5, <2>2, <2>4 DEF Reports
    <3>2. report' = [report EXCEPT ![w] = rep]  BY <2>1, <2>4 DEF TypeOK
    <3> HIDE DEF rep, gone
    <3>3. /\ report' \in [Worktrees -> Reports \cup {None}] /\ report'[w] = rep
          /\ \A v \in Worktrees \ {w} : report'[v] = report[v]
      BY <3>1, <3>2 DEF TypeOK
    <3>4. rep # None  BY <3>1, HarnessAssumption
    <3>5. Replaced(report[w]) \subseteq Replaced(report[w])' \cup gone  BY <2>4, <3>1, <3>3, <3>4 DEF Replaced
    <3>6. InReport(report[w]) => InReport(report'[w])  BY <3>1, <3>3, <3>4 DEF InReport
    <3> QED  BY <1>13, <2>1, <2>2, <3>3, <3>5, <3>6
  <2> QED  BY <2>3, <2>4
<1>16. CASE ~(p.rt \notin Composed(w) /\ p.removed = {}) /\ others = {}
  <2>1. Put(w, q) /\ report' = report /\ lost' = lost  BY <1>16 DEF Drops
  <2>2. t \in Legal(p) /\ Prunes({"tools"}, "module") \in Seq(Plain(p))
    <3>1. t \in Legal(p)  BY <1>2 DEF Legal, Task, Tasks, Paths
    <3> QED  BY <1>2, <3>1, UnlinkLegal
  <2>3. Has(Prunes({"tools"}, "module"), "prune", "tools")  BY EachHas DEF Prunes, Leaves
  <2>4. t.do = "dir" /\ t.at = ".qory"  BY DEF Task
  <2>5. \A x : ~Has(Prunes({"tools"}, "module"), "drop", x)
    <3>1. \A l \in {"tools"} \cap Leaves : Task("prune", l, TRUE, "module") \in {s \in Tasks : s.do = "prune"}
      BY DEF Task, Tasks, Paths
    <3>2. Prunes({"tools"}, "module") \in Seq({s \in Tasks : s.do = "prune"})  BY <3>1, EachType DEF Prunes
    <3> QED  BY <3>2 DEF Has
  <2> HIDE DEF t
  <2>6. <<t>> \in Seq(Legal(p)) /\ Len(<<t>>) = 1  BY <2>2, OneType
  <2>7. rest \in Seq(Legal(p)) /\ LastOK(rest)
    <3> DEFINE a == Prunes({"tools"}, "module")
               b == <<t>>
    <3>1. a \in Seq(Plain(p)) /\ b \in Seq(Legal(p)) /\ Len(b) <= 1 /\ rest = a \o b  BY <2>2, <2>6
    <3> HIDE DEF a, b, rest, q
    <3>2. a \o b \in Seq(Legal(p)) /\ LastOK(a \o b)  BY <3>1, LastConcat
    <3> QED  BY <3>1, <3>2
  <2>8. Has(rest, "prune", "tools") /\ Has(rest, "dir", ".qory") /\ ~Has(rest, "drop", ".qory")
    <3>1. Prunes({"tools"}, "module") \in Seq(Legal(p))
      <4>1. Plain(p) \subseteq Legal(p)  BY DEF Plain
      <4> DEFINE a == Prunes({"tools"}, "module")
                 L == Legal(p)
                 N == Plain(p)
      <4>2. a \in Seq(N) /\ N \subseteq L  BY <2>2, <4>1
      <4> HIDE DEF a, L, N
      <4>3. a \in Seq(L)  BY <4>2
      <4> QED  BY <4>3 DEF a, L
    <3>2. \A do, x : Has(rest, do, x) <=> Has(Prunes({"tools"}, "module"), do, x) \/ Has(<<t>>, do, x)
      BY <2>6, <3>1, HasConcat
    <3> QED  BY <2>3, <2>4, <2>5, <3>2, HasOne
  <2> HIDE DEF rest
  <2>9. rest \in Seq(Tasks)
    <3> DEFINE L == Legal(p)
    <3>1. L \subseteq Tasks /\ rest \in Seq(L)  BY <2>7 DEF Legal
    <3> HIDE DEF L
    <3> QED  BY <3>1
  <2>10. /\ q \in Procs /\ q.todo = rest /\ q.line = p.line /\ q.replaced = p.replaced /\ q.failed = p.failed
         /\ q.pc = p.pc /\ q.op = p.op /\ q.rt = p.rt /\ q.rts = p.rts /\ q.req = p.req /\ q.prev = p.prev
    BY <2>9, TypesOf, ZenonT(40) DEF Procs
  <2> HIDE DEF q
  <2>11. proc' \in [Worktrees -> Procs] /\ proc'[w] = q /\ \A v \in Worktrees \ {w} : proc'[v] = proc[v]
    BY <2>1, <2>10, PutFacts
  <2>12. TypeOK' /\ Others(w)  BY <1>3, <1>5, <2>1, <2>11 DEF TypeOK, Others, Same
  <2>13. Known(w) \subseteq Known(w)'  BY <1>2, <2>1, <2>10, <2>11 DEF Known, Composes, Replaced
  <2>14. Reach(w)' /\ Listed(w)' /\ OwnLinks(w)' = OwnLinks(w) /\ Linked(w)' \subseteq Linked(w)
    BY <1>3, <2>1, <2>13, DiskSame DEF Local
  <2>15. ProcOK(w)'
    <3>1. Legal(proc'[w]) = Legal(p)  BY <2>10, <2>11, LegalSame
    <3>2. \A i \in DOMAIN rest : Last(rest[i]) => i = Len(rest)  BY <2>7 DEF LastOK
    <3> HIDE DEF Legal, Last
    <3> QED  BY <1>1, <1>2, <1>3, <2>7, <2>10, <2>11, <3>1, <3>2 DEF ProcOK
  <2>16. QoryOK(w)'  BY <1>1, <1>3, <1>5, <1>10, <2>8, <2>10, <2>11 DEF Local, QoryOK
  <2>17. Linked(w)' \subseteq {"tools"}
    <3>1. Composed(w) \subseteq {p.rt}  BY <1>16
    <3>2. ASSUME NEW l \in Linked(w)  PROVE l = "tools"
      <4>1. l \in Leaves  BY DEF Linked, OwnLinks
      <4>2. l \notin Deep  BY <1>7, <1>16
      <4> QED  BY <1>1, <1>2, <1>4, <3>1, <4>1, <4>2 DEF Local, Pruning, Tasking
    <3> QED  BY <2>14, <3>2
  <2>18. OfCopilot(w)'  BY <2>17 DEF OfCopilot, Deep
  <2>19. OfModule(w)'  BY <1>2, <1>9, <2>1, <2>10, <2>11, <2>14 DEF OfModule, Composes
  <2>20. Pruning(w)'  BY <1>2, <2>8, <2>10, <2>11, <2>17 DEF Pruning, TakesAll, Composes, Prunable, Dropping
  <2>21. Resolving(w)'  BY <1>1, <2>8, <2>10, <2>11 DEF Resolving, IdleAt, Dropping
  <2>22. Local(w)'  BY <1>11, <2>14, <2>15, <2>16, <2>18, <2>19, <2>20, <2>21 DEF Local
  <2>23. Quiet(w)
    <3>1. QoryDue(w)' => QoryDue(w)  BY <1>2, <1>3, <2>10, <2>11 DEF QoryDue, Composes
    <3> QED  BY <1>1, <1>3, <2>10, <2>11, <2>14, <3>1 DEF Quiet, Adds
  <2> QED  BY <2>12, <2>22, <2>23, LinesQuiet
<1> QED  BY <1>14, <1>15, <1>16

LEMMA DoEnds ==
  ASSUME NEW w \in Worktrees, TypeOK, LinesOK, Local(w), Ends(w)
  PROVE  TypeOK' /\ LinesOK' /\ Local(w)' /\ Others(w)
<1> DEFINE p == proc[w]
           rep == IF p.op = "compose" /\ ~p.failed THEN Reported(p) ELSE report[w]
           gone == IF p.failed THEN OwnLinks(w) ELSE {}
           lft == IF p.op = "remove" THEN [own |-> OwnLinks(w), failed |-> p.failed] ELSE left[w]
<1>1. ProcOK(w) /\ p.todo = <<>> /\ p.line = None /\ p.pc = "tasks"
  BY DEF Local, Ends
<1>2. /\ at' = at /\ home' = home /\ exclude' = exclude /\ tampered' = tampered \ {w} /\ raced' = raced
      /\ Put(w, Idle) /\ sound' = [sound EXCEPT ![w] = ~p.failed]
  BY DEF Ends
<1>3. p.failed \in BOOLEAN /\ p.op \in {"compose", "remove", "removeRuntime"}
  BY <1>1, TypesOf DEF Procs, ProcOK
<1>4. OwnLinks(w) \in SUBSET Leaves /\ OwnLinks(w) \subseteq Paths  BY DEF OwnLinks, Paths
<1>5. report' \in [Worktrees -> Reports \cup {None}] /\ report'[w] = rep /\ \A v \in Worktrees \ {w} : report'[v] = report[v]
  <2>1. report' = [report EXCEPT ![w] = rep]
    <3>1. CASE p.op = "compose" /\ ~p.failed  BY <3>1 DEF Ends
    <3>2. CASE ~(p.op = "compose" /\ ~p.failed)  BY <3>2 DEF Ends, TypeOK
    <3> QED  BY <3>1, <3>2
  <2>2. rep \in Reports \cup {None}
    <3>1. ASSUME p.op = "compose"  PROVE Reported(p) \in Reports
      <4>1. p \in Procs /\ p.req \in Requests  BY <1>1, <3>1, TypesOf DEF ProcOK
      <4>2. p.req.res \in SUBSET Leaves  BY <4>1, HarnessAssumption
      <4> QED  BY <4>1, <4>2 DEF Reported, Reports, Procs
    <3> QED  BY <3>1, TypesOf
  <2> HIDE DEF rep
  <2> QED  BY <2>1, <2>2 DEF TypeOK
<1>6. lost' \in [Worktrees -> SUBSET Paths] /\ lost'[w] = lost[w] \cup gone /\ \A v \in Worktrees \ {w} : lost'[v] = lost[v]
  <2>1. lost' = [lost EXCEPT ![w] = IF p.failed THEN @ \cup OwnLinks(w) ELSE @]  BY DEF Ends
  <2> HIDE DEF p
  <2> QED  BY <2>1, <1>4 DEF TypeOK
<1>7. left' \in [Worktrees -> Removed \cup {None}] /\ left'[w] = lft /\ \A v \in Worktrees \ {w} : left'[v] = left[v]
  <2>1. left' = [left EXCEPT ![w] = lft]  BY DEF Ends
  <2>2. [own |-> OwnLinks(w), failed |-> p.failed] \in Removed  BY <1>3, <1>4 DEF Removed
  <2>3. lft \in Removed \cup {None}  BY <2>2, TypesOf
  <2> HIDE DEF lft
  <2> QED  BY <2>1, <2>3 DEF TypeOK
<1>8. sound' \in [Worktrees -> BOOLEAN] /\ sound'[w] = ~p.failed /\ \A v \in Worktrees \ {w} : sound'[v] = sound[v]
  BY <1>2, <1>3 DEF TypeOK
<1>9. proc' \in [Worktrees -> Procs] /\ proc'[w] = Idle /\ \A v \in Worktrees \ {w} : proc'[v] = proc[v]
  BY <1>2, IdleType, PutFacts
<1> HIDE DEF rep, gone, lft
<1>10. TypeOK'  BY <1>2, <1>5, <1>6, <1>7, <1>8, <1>9 DEF TypeOK
<1>11. Others(w)  BY <1>2, <1>5, <1>6, <1>7, <1>8, <1>9 DEF Others, Same
<1>12. Known(w) \subseteq Known(w)'
  <2>1. Known(w)' = Replaced(rep)  BY <1>5, <1>9 DEF Known, Composes, Idle, Replaced
  <2>2. CASE p.op = "compose" /\ ~p.failed
    <3>1. rep = Reported(p) /\ Known(w) = p.replaced  BY <2>2 DEF rep, Known, Composes
    <3>2. Reported(p) \in Reports
      <4>1. p \in Procs /\ p.req \in Requests  BY <1>1, <2>2, TypesOf DEF ProcOK
      <4>2. p.req.res \in SUBSET Leaves  BY <4>1, HarnessAssumption
      <4> QED  BY <4>1, <4>2 DEF Reported, Reports, Procs
    <3> QED  BY <2>1, <3>1, <3>2, HarnessAssumption DEF Replaced, Reported
  <2>3. CASE p.op = "compose" /\ p.failed
    <3>1. rep = report[w] /\ Known(w) = p.replaced  BY <2>3 DEF rep, Known, Composes
    <3>2. p.replaced = Replaced(p.prev) /\ (p.prev # None => p.prev = report[w])  BY <1>1, <2>3 DEF ProcOK
    <3> QED  BY <2>1, <3>1, <3>2 DEF Replaced
  <2>4. CASE p.op # "compose"  BY <2>1, <2>4 DEF rep, Known, Composes
  <2> QED  BY <2>2, <2>3, <2>4
<1>13. Reach(w)' /\ Listed(w)' /\ OwnLinks(w)' = OwnLinks(w) /\ Linked(w)' \subseteq Linked(w)
  BY <1>2, <1>6, <1>12, DiskSame DEF Local
<1>14. p.failed => Linked(w)' = {}  BY <1>6, <1>13 DEF Linked, gone
<1>15. \A l : ~Prunable(w, l)  BY <1>1, HasNone DEF Prunable
<1>16. ~Dropping(w) /\ ~LineToCome(w)  BY <1>1, HasNone DEF Dropping, LineToCome
<1>17. ~p.failed /\ TakesAll(w) => OwnLinks(w) = {} /\ Linked(w) = {}
  BY <1>1, <1>15 DEF Local, Pruning, Tasking, Linked
<1>18. ~p.failed /\ p.op = "compose" /\ p.req.links => \A l \in Linked(w) : Linkable(p, l)
  BY <1>1, <1>15 DEF Local, Pruning, Tasking, Composes
<1>19. ~p.failed /\ p.op = "removeRuntime" => Linked(w) = {}
  BY <1>1, <1>15, <1>16 DEF Local, Pruning, Tasking
<1>20. LeftOK(w)'
  <2>1. CASE p.op = "remove"
    <3>1. lft = [own |-> OwnLinks(w), failed |-> p.failed]  BY <2>1 DEF lft
    <3>2. ~p.failed => OwnLinks(w) = {}  BY <2>1, <1>17 DEF TakesAll
    <3> QED  BY <3>1, <3>2, <1>7 DEF LeftOK
  <2>2. CASE p.op # "remove"  BY <2>2, <1>7 DEF Local, LeftOK, lft
  <2> QED  BY <2>1, <2>2
<1>21. \A l \in Linked(w)' \cap Deep : "copilot" \in Composed(w)'
  BY <1>1, <1>2, <1>13, <1>14 DEF Local, OfCopilot, Composed
<1>22. "tools" \in Linked(w)' => InReport(report'[w])
  <2>1. SUFFICES ASSUME "tools" \in Linked(w)'  PROVE InReport(rep)
    BY <1>5
  <2>2. ~p.failed /\ "tools" \in Linked(w)  BY <1>13, <1>14, <2>1
  <2>3. CASE p.op = "compose"
    <3>1. p.req.links  BY <1>17, <2>2, <2>3 DEF TakesAll, Composes
    <3>2. "tools" \in p.req.res  BY <1>18, <2>2, <2>3, <3>1 DEF Linkable
    <3>3. rep = Reported(p)  BY <2>2, <2>3 DEF rep
    <3>4. Reported(p) \in Reports
      <4>1. p \in Procs /\ p.req \in Requests  BY <1>1, <2>3, TypesOf DEF ProcOK
      <4>2. p.req.res \in SUBSET Leaves  BY <4>1, HarnessAssumption
      <4> QED  BY <4>1, <4>2 DEF Reported, Reports, Procs
    <3> QED  BY <3>2, <3>3, <3>4, HarnessAssumption DEF InReport, Reported
  <2>4. CASE p.op # "compose"  BY <2>2, <2>4 DEF Local, OfModule, Composes, rep
  <2> QED  BY <2>3, <2>4
<1>23. sound'[w] => \A l \in Linked(w)' : Resolves(home'[w], l)
  <2>1. SUFFICES ASSUME ~p.failed, NEW l \in Linked(w)  PROVE Resolves(home[w], l)
    BY <1>2, <1>8, <1>13
  <2>2. p.op = "compose" /\ p.req.links  BY <1>3, <1>17, <1>19, <2>1 DEF TakesAll, Composes
  <2>3. Linkable(p, l)  BY <1>18, <2>1, <2>2
  <2>4. home[w] = [rts |-> p.rts, res |-> p.req.res] /\ p.req \in Requests  BY <1>1, <2>2 DEF ProcOK
  <2>5. home[w] # None
    <3>1. p.rts \in SUBSET Runtimes /\ p.req.res \in SUBSET Leaves  BY <2>4, TypesOf, HarnessAssumption DEF Procs
    <3>2. [rts |-> p.rts, res |-> p.req.res] \in Homes  BY <3>1 DEF Homes
    <3> QED  BY <2>4, <3>2, HarnessAssumption
  <2> QED  BY <2>3, <2>4, <2>5 DEF Resolves, Linkable, Deep
<1>24. Local(w)'
  BY <1>2, <1>9, <1>10, <1>13, <1>20, <1>21, <1>22, <1>23, IdleLocal DEF Local, QoryOK
<1>25. Quiet(w)
  <2>1. at[w][".qory"] = "own" /\ QoryDue(w)' => QoryDue(w)
    <3>1. SUFFICES ASSUME at[w][".qory"] = "own"  PROVE QoryDue(w)
      OBVIOUS
    <3>2. ~(\E do, x : Has(p.todo, do, x))  BY <1>1, HasNone
    <3>3. p.op = "compose"  BY <1>3, <3>1, <3>2 DEF Local, QoryOK
    <3> QED  BY <1>1, <1>16, <3>3 DEF QoryDue, Composes, Tasking
  <2> QED  BY <1>1, <1>2, <1>9, <1>13, <2>1 DEF Quiet, Adds, Idle
<1>26. LinesOK'  BY <1>11, <1>25, LinesQuiet
<1> QED  BY <1>10, <1>11, <1>24, <1>26

LEMMA DoWrites ==
  ASSUME NEW w \in Worktrees, TypeOK, LinesOK, Local(w), Writes(w)
  PROVE  TypeOK' /\ LinesOK' /\ Local(w)' /\ Others(w)
<1> DEFINE p == proc[w]
           q == [p EXCEPT !.line = None]
<1>1. /\ at' = at /\ home' = home /\ report' = report /\ tampered' = tampered /\ sound' = sound /\ lost' = lost
      /\ raced' = raced /\ left' = left /\ Put(w, q) /\ p.line # None
      /\ exclude' = IF p.line.add THEN p.line.read \cup {p.line.at} ELSE p.line.read \ {p.line.at}
  BY DEF Writes, history
<1>2. /\ q \in Procs /\ q.todo = p.todo /\ q.replaced = p.replaced /\ q.failed = p.failed
      /\ q.pc = p.pc /\ q.op = p.op /\ q.rt = p.rt /\ q.rts = p.rts /\ q.req = p.req /\ q.prev = p.prev
  BY TypesOf, ZenonT(40) DEF Procs
<1> HIDE DEF q
<1>3. proc' \in [Worktrees -> Procs] /\ proc'[w] = q /\ \A v \in Worktrees \ {w} : proc'[v] = proc[v]
  BY <1>1, <1>2, PutFacts
<1>4. exclude' \in SUBSET Paths
  <2>1. p.line \in Lines  BY <1>1, TypesOf DEF Procs
  <2> QED  BY <1>1, <2>1 DEF Lines
<1>5. TypeOK' /\ Others(w)  BY <1>1, <1>3, <1>4 DEF TypeOK, Others, Same
<1>6. ProcOK(w)'
  <2>1. Legal(proc'[w]) = Legal(p)  BY <1>2, <1>3, LegalSame
  <2>2. ProcOK(w) /\ p.pc # "idle" /\ p.pc \notin {"clear", "build"}
    <3>1. ProcOK(w)  BY DEF Local
    <3>2. Idle.line = None  BY DEF Idle
    <3> HIDE DEF Legal, Last
    <3> QED  BY <1>1, <3>1, <3>2 DEF ProcOK
  <2> HIDE DEF Legal, Last
  <2> QED  BY <1>1, <1>2, <1>3, <2>1, <2>2 DEF ProcOK
<1>7. Reach(w)' /\ Listed(w)' /\ OwnLinks(w)' = OwnLinks(w)
  BY <1>1, <1>2, <1>3, DiskSame DEF Local, Known, Composes, Replaced
<1>8. Linked(w)' = Linked(w)  BY <1>1, <1>7 DEF Linked
<1>9. QoryOK(w)' /\ LeftOK(w)'  BY <1>1, <1>2, <1>3 DEF Local, QoryOK, LeftOK
<1>10. OfCopilot(w)' /\ OfModule(w)'
  BY <1>1, <1>2, <1>3, <1>8 DEF Local, OfCopilot, OfModule, Composed, Composes, Tasking
<1>11. Pruning(w)' /\ Resolving(w)'
  BY <1>1, <1>2, <1>3, <1>7, <1>8
  DEF Local, Pruning, Resolving, Tasking, TakesAll, Composes, Prunable, Linkable, Dropping, Composed, IdleAt
<1>12. Local(w)'  BY <1>6, <1>7, <1>9, <1>10, <1>11 DEF Local
<1> QED  BY <1>5, <1>12, LinesWritten

LEMMA DoKill ==
  ASSUME NEW w \in Worktrees, TypeOK, LinesOK, Local(w), Kill(w)
  PROVE  TypeOK' /\ LinesOK' /\ Local(w)' /\ Others(w)
<1> DEFINE gone == OwnLinks(w) \cup proc[w].replaced \cup Replaced(report[w]) \cup Tracked[w]
<1>1. /\ at' = at /\ home' = home /\ report' = report /\ exclude' = exclude /\ tampered' \in SUBSET Worktrees
      /\ raced' = raced /\ left' = left /\ Put(w, Idle) /\ sound' = [sound EXCEPT ![w] = FALSE]
  BY DEF Kill, TypeOK
<1>2. gone \subseteq Paths
  <2>1. OwnLinks(w) \subseteq Paths /\ Tracked[w] \subseteq Paths  BY HarnessAssumption DEF OwnLinks, Paths
  <2>2. proc[w].replaced \subseteq Paths /\ Replaced(report[w]) \subseteq Paths  BY TypesOf DEF Procs, Reports, Replaced
  <2> QED  BY <2>1, <2>2
<1>3. lost' = [lost EXCEPT ![w] = @ \cup gone]
  <2>1. lost' = [lost EXCEPT ![w] = @ \cup OwnLinks(w) \cup proc[w].replaced \cup Replaced(report[w]) \cup Tracked[w]]
    BY DEF Kill
  <2> QED  BY <2>1 DEF TypeOK
<1>4. OwnLinks(w) \subseteq gone /\ Tracked[w] \subseteq gone  OBVIOUS
<1> HIDE DEF gone
<1>5. lost' \in [Worktrees -> SUBSET Paths] /\ lost'[w] = lost[w] \cup gone /\ \A v \in Worktrees \ {w} : lost'[v] = lost[v]
  BY <1>2, <1>3 DEF TypeOK
<1>6. sound' \in [Worktrees -> BOOLEAN] /\ sound'[w] = FALSE /\ \A v \in Worktrees \ {w} : sound'[v] = sound[v]
  BY <1>1 DEF TypeOK
<1>7. proc' \in [Worktrees -> Procs] /\ proc'[w] = Idle /\ \A v \in Worktrees \ {w} : proc'[v] = proc[v]
  BY <1>1, IdleType, PutFacts
<1>8. TypeOK' /\ Others(w)  BY <1>1, <1>5, <1>6, <1>7 DEF TypeOK, Others, Same
<1>9. Linked(w)' = {}  BY <1>1, <1>4, <1>5 DEF Linked, OwnLinks
<1>10. Listed(w)'
  <2>1. \A x \in Paths : at'[w][x] = "tracked" => x \in Tracked[w]  BY <1>1 DEF Local, Listed
  <2>2. Tracked[w] \ lost'[w] = {}  BY <1>4, <1>5
  <2> QED  BY <2>1, <2>2 DEF Listed
<1>11. Reach(w)' /\ LeftOK(w)'  BY <1>1 DEF Local, Reach, OwnLinks, Behind, Occupied, LeftOK
<1>12. Local(w)'  BY <1>1, <1>6, <1>7, <1>8, <1>9, <1>10, <1>11, IdleLocal DEF Local, QoryOK
<1>13. Quiet(w)
  <2>1. ~QoryDue(w)'  BY <1>6, <1>7 DEF QoryDue, Composes, Idle
  <2> QED  BY <1>1, <1>7, <1>9, <2>1 DEF Quiet, Idle
<1> QED  BY <1>8, <1>12, <1>13, LinesQuiet

(* What a person does at a path: the entries of the directory that gave    *)
(* way are gone.                                                           *)
LEMMA BecomesFacts ==
  ASSUME NEW w \in Worktrees, TypeOK, NEW p \in Paths, NEW what \in {"none", "tracked", "theirs"}, Becomes(w, p, what),
         Reach(w)
  PROVE  /\ at' \in [Worktrees -> [Paths -> {"none", "own", "tracked", "theirs"}]]
         /\ \A q \in Paths : at'[w][q] = IF q = p THEN what ELSE IF p \in Above(q) THEN "none" ELSE at[w][q]
         /\ \A v \in Worktrees \ {w} : at'[v] = at[v]
         /\ OwnLinks(w)' \subseteq OwnLinks(w) \ {p} /\ Reach(w)'
         /\ \A q \in Paths : p \notin Above(q) /\ Behind(w, q) => Behind(w, q)'
<1> DEFINE new == [q \in Paths |-> IF q = p THEN what ELSE IF p \in Above(q) THEN "none" ELSE at[w][q]]
<1>1. at' = [at EXCEPT ![w] = new]
  <2>1. DOMAIN at[w] = Paths  BY TypesOf
  <2>2. at' = [at EXCEPT ![w] = [q \in DOMAIN @ |-> IF q = p THEN what ELSE IF p \in Above(q) THEN "none" ELSE @[q]]]
    BY DEF Becomes
  <2>3. at' = [at EXCEPT ![w] = [q \in DOMAIN at[w] |-> IF q = p THEN what ELSE IF p \in Above(q) THEN "none" ELSE at[w][q]]]
    BY <2>2 DEF TypeOK
  <2> QED  BY <2>1, <2>3
<1>2. new \in [Paths -> {"none", "own", "tracked", "theirs"}]  BY TypesOf
<1>3. /\ at' \in [Worktrees -> [Paths -> {"none", "own", "tracked", "theirs"}]] /\ at'[w] = new
      /\ \A v \in Worktrees \ {w} : at'[v] = at[v]
  <2> HIDE DEF new
  <2> QED  BY <1>1, <1>2 DEF TypeOK
<1>4. \A q \in Paths : at'[w][q] = IF q = p THEN what ELSE IF p \in Above(q) THEN "none" ELSE at[w][q]
  BY <1>3
<1>5. \A l \in OwnLinks(w)' : l \in OwnLinks(w) /\ l # p /\ p \notin Above(l) /\ l \in Paths
  BY <1>4 DEF OwnLinks, Paths
<1>6. \A q \in Paths : \A d \in Above(q) : d \in Paths /\ Above(d) \subseteq Above(q)  BY AboveFacts DEF Paths
<1>7. ASSUME NEW q \in Paths, p \notin Above(q)  PROVE Behind(w, q)' <=> Behind(w, q)
  <2>1. \A d \in Above(q) : d # p /\ p \notin Above(d) /\ d \in Paths  BY <1>6, <1>7
  <2>2. \A d \in Above(q) : at'[w][d] = at[w][d]  BY <1>4, <2>1
  <2> QED  BY <2>2 DEF Behind, Occupied
<1>8. Reach(w)'
  <2>1. SUFFICES ASSUME NEW l \in OwnLinks(w)'  PROVE ~Behind(w, l)'
    BY DEF Reach
  <2> QED  BY <2>1, <1>5, <1>7 DEF Reach
<1> QED  BY <1>3, <1>4, <1>5, <1>7, <1>8

(* What an edit leaves: the links that are left lead where they led.       *)
LEMMA Edited1 ==
  ASSUME NEW w \in Worktrees, TypeOK, LinesOK, Local(w), TypeOK', Others(w), proc[w] = Idle, proc'[w] = Idle,
         exclude' = exclude, raced' = raced, sound'[w] = sound[w], left'[w] = None,
         Linked(w)' \subseteq Linked(w), \A l \in Leaves : at'[w][l] = "own" => at[w][l] = "own", Reach(w)', Listed(w)',
         \/ Linked(w)' = {} /\ home'[w] = None /\ at'[w][".qory"] = "none"
         \/ home'[w] = home[w] /\ report'[w] = report[w] /\ at'[w][".qory"] = at[w][".qory"]
  PROVE  TypeOK' /\ LinesOK' /\ Local(w)' /\ Others(w)
<1>1. Idle.pc = "idle" /\ Idle.op = "none" /\ Idle.failed = FALSE /\ Idle.line = None /\ Idle.todo = <<>>  BY DEF Idle
<1>2. at'[w][".qory"] \in {"none", "own"} /\ (home'[w] # None => at'[w][".qory"] = "own")  BY DEF Local, QoryOK
<1>3. LeftOK(w)'  BY DEF LeftOK
<1>4. \A l \in Linked(w)' \cap Deep : "copilot" \in Composed(w)'  BY <1>1 DEF Local, OfCopilot, Composed
<1>5. "tools" \in Linked(w)' => InReport(report'[w])  BY <1>1 DEF Local, OfModule, Composes
<1>6. sound'[w] => \A l \in Linked(w)' : Resolves(home'[w], l)  BY <1>1 DEF Local, Resolving, IdleAt
<1>7. Local(w)'  BY <1>2, <1>3, <1>4, <1>5, <1>6, IdleLocal
<1>8. Quiet(w)
  <2>1. QoryDue(w)' => QoryDue(w)  BY <1>1 DEF QoryDue, Composes
  <2> QED  BY <1>1, <2>1 DEF Quiet, Adds
<1> QED  BY <1>7, <1>8, LinesQuiet

LEMMA DoEdit ==
  ASSUME NEW w \in Worktrees, TypeOK, LinesOK, Local(w), Edit(w)
  PROVE  TypeOK' /\ LinesOK' /\ Local(w)' /\ Others(w)
<1> DEFINE gone == OwnLinks(w) \cup Replaced(report[w])
           A == \E p \in Edited : ~Behind(w, p) /\ at[w][p] # "theirs" /\ Becomes(w, p, "theirs") /\ UNCHANGED <<home, report, lost>>
           B == \E p \in Tracked[w] : /\ at[w][p] # "tracked" /\ Becomes(w, p, "tracked")
                                      /\ lost' = [lost EXCEPT ![w] = @ \ {p}] /\ UNCHANGED <<home, report>>
           C == \E l \in OwnLinks(w) : Becomes(w, l, "none") /\ UNCHANGED <<home, report, lost>>
           D == /\ at[w][".qory"] = "own"
                /\ Becomes(w, ".qory", "none") /\ home' = [home EXCEPT ![w] = None]
                /\ report' = [report EXCEPT ![w] = None]
                /\ lost' = [lost EXCEPT ![w] = @ \cup OwnLinks(w) \cup Replaced(report[w])]
<1>1. /\ IdleAt(w) /\ left' = [left EXCEPT ![w] = None]
      /\ exclude' = exclude /\ proc' = proc /\ sound' = sound /\ raced' = raced
      /\ tampered' = IF home'[w] = None /\ report'[w] = None THEN tampered \ {w} ELSE tampered
      /\ A \/ B \/ C \/ D
  BY DEF Edit
<1> HIDE DEF A, B, C, D
<1>2. proc[w] = Idle /\ proc'[w] = Idle  BY <1>1 DEF IdleAt, Local, ProcOK
<1>3. left' \in [Worktrees -> Removed \cup {None}] /\ left'[w] = None /\ \A v \in Worktrees \ {w} : left'[v] = left[v]
  BY <1>1 DEF TypeOK
<1>4. tampered' \in SUBSET Worktrees  BY <1>1 DEF TypeOK
<1>5. Reach(w) /\ Known(w) = Replaced(report[w])
  <2>1. proc[w].op = "none"  BY <1>2 DEF Idle
  <2> QED  BY <2>1 DEF Local, Known, Composes
<1>6. \A p \in Paths : ".qory" # p => p \notin Above(".qory")  BY AboveIs
<1>7. ASSUME NEW p \in Leaves \cup Dirs, NEW what \in {"none", "tracked", "theirs"}, Becomes(w, p, what), home' = home, report' = report,
             lost' \in [Worktrees -> SUBSET Paths], \A v \in Worktrees \ {w} : lost'[v] = lost[v],
             lost'[w] = lost[w] \/ lost'[w] = lost[w] \ {p},
             what = "tracked" => p \in Tracked[w],
             what = "none" => p \in OwnLinks(w),
             p \in Tracked[w] => what = "tracked" \/ lost'[w] = lost[w]
      PROVE  TypeOK' /\ LinesOK' /\ Local(w)' /\ Others(w)
  <2>1. p \in Paths /\ p # ".qory"  BY <1>7 DEF Paths, Leaves, Dirs
  <2>2. /\ at' \in [Worktrees -> [Paths -> {"none", "own", "tracked", "theirs"}]]
        /\ \A q \in Paths : at'[w][q] = IF q = p THEN what ELSE IF p \in Above(q) THEN "none" ELSE at[w][q]
        /\ \A v \in Worktrees \ {w} : at'[v] = at[v]
        /\ OwnLinks(w)' \subseteq OwnLinks(w) \ {p} /\ Reach(w)'
        /\ \A q \in Paths : p \notin Above(q) /\ Behind(w, q) => Behind(w, q)'
    BY <2>1, <1>5, <1>7, BecomesFacts
  <2>3. TypeOK' /\ Others(w)  BY <1>1, <1>3, <1>4, <1>7, <2>2 DEF TypeOK, Others, Same
  <2>4. at'[w][".qory"] = at[w][".qory"]
    <3>1. ".qory" \in Paths  BY DEF Paths
    <3> QED  BY <1>6, <2>1, <2>2, <3>1
  <2>5. Linked(w)' \subseteq Linked(w)  BY <1>7, <2>2 DEF Linked
  <2>6. \A l \in Leaves : at'[w][l] = "own" => at[w][l] = "own"  BY <2>2 DEF OwnLinks
  <2>7. Listed(w)'
    <3>1. Known(w)' = Known(w)  BY <1>1, <1>2, <1>7 DEF Known, Composes, Replaced
    <3>2. \A q \in Tracked[w] : q \in Paths  BY HarnessAssumption DEF Paths
    <3>3. \A q \in Paths : at'[w][q] = "tracked" => q \in Tracked[w]  BY <1>7, <2>2 DEF Local, Listed
    <3>4. ASSUME NEW q \in Tracked[w] \ lost'[w], at'[w][q] \in {"none", "own"}  PROVE q \in Known(w)' \/ Behind(w, q)'
      <4>1. q \in Paths  BY <3>2
      <4>2. CASE q = p
        <5>1. what = "none"  BY <1>7, <2>2, <3>4, <4>1, <4>2
        <5>2. at[w][q] = "own" /\ lost'[w] = lost[w]  BY <1>7, <4>2, <5>1 DEF OwnLinks
        <5>3. q \in Known(w) \/ Behind(w, q)  BY <3>4, <5>2 DEF Local, Listed
        <5>4. p \notin Above(q)  BY <4>1, <4>2, AboveFacts
        <5> QED  BY <2>2, <3>1, <4>1, <5>3, <5>4
      <4>3. CASE q # p /\ p \notin Above(q)
        <5>1. at[w][q] = at'[w][q] /\ q \notin lost[w]  BY <1>7, <2>2, <3>4, <4>1, <4>3
        <5>2. q \in Known(w) \/ Behind(w, q)  BY <3>4, <5>1 DEF Local, Listed
        <5> QED  BY <2>2, <3>1, <4>1, <4>3, <5>2
      <4>4. CASE p \in Above(q)
        <5>1. p \notin Tracked[w]  BY <3>4, <4>4, HarnessAssumption
        <5>2. p \in Dirs  BY <4>1, <4>4, AboveFacts
        <5>3. p \notin Leaves  BY <5>2 DEF Dirs, Leaves
        <5>4. what = "theirs"  BY <1>7, <5>1, <5>3 DEF OwnLinks
        <5>5. at'[w][p] = "theirs"  BY <2>1, <2>2, <5>4
        <5> QED  BY <4>4, <5>5 DEF Behind, Occupied
      <4> QED  BY <4>2, <4>3, <4>4
    <3> QED  BY <3>3, <3>4 DEF Listed
  <2> QED  BY <1>1, <1>2, <1>3, <1>7, <2>2, <2>3, <2>4, <2>5, <2>6, <2>7, Edited1
<1>8. CASE A
  <2>1. PICK p \in Edited : Becomes(w, p, "theirs") /\ home' = home /\ report' = report /\ lost' = lost  BY <1>8 DEF A
  <2>2. p \in Leaves \cup Dirs  BY HarnessAssumption
  <2>3. lost \in [Worktrees -> SUBSET Paths]  BY DEF TypeOK
  <2> QED  BY <1>7, <2>1, <2>2, <2>3
<1>9. CASE B
  <2>1. PICK p \in Tracked[w] : Becomes(w, p, "tracked") /\ home' = home /\ report' = report /\ lost' = [lost EXCEPT ![w] = @ \ {p}]
    BY <1>9 DEF B
  <2>2. p \in Leaves \cup Dirs  BY HarnessAssumption
  <2>3. /\ lost' \in [Worktrees -> SUBSET Paths] /\ lost'[w] = lost[w] \ {p}
        /\ \A v \in Worktrees \ {w} : lost'[v] = lost[v]
    BY <2>1 DEF TypeOK
  <2> QED  BY <1>7, <2>1, <2>2, <2>3
<1>10. CASE C
  <2>1. PICK p \in OwnLinks(w) : Becomes(w, p, "none") /\ home' = home /\ report' = report /\ lost' = lost  BY <1>10 DEF C
  <2>2. p \in Leaves \cup Dirs  BY DEF OwnLinks
  <2>3. lost \in [Worktrees -> SUBSET Paths]  BY DEF TypeOK
  <2> QED  BY <1>7, <2>1, <2>2, <2>3
<1>11. CASE D
  <2>1. /\ Becomes(w, ".qory", "none") /\ home' = [home EXCEPT ![w] = None] /\ report' = [report EXCEPT ![w] = None]
        /\ lost' = [lost EXCEPT ![w] = @ \cup gone]
    <3>1. lost' = [lost EXCEPT ![w] = @ \cup OwnLinks(w) \cup Replaced(report[w])]  BY <1>11 DEF D
    <3> QED  BY <1>11, <3>1 DEF D, TypeOK
  <2>2. ".qory" \in Paths /\ \A q \in Paths : ".qory" \notin Above(q)
    <3>1. ".qory" \in Paths /\ ".qory" \notin Dirs  BY DEF Paths, Dirs
    <3> QED  BY <3>1, AboveFacts
  <2>3. /\ at' \in [Worktrees -> [Paths -> {"none", "own", "tracked", "theirs"}]]
        /\ \A q \in Paths : at'[w][q] = IF q = ".qory" THEN "none" ELSE at[w][q]
        /\ \A v \in Worktrees \ {w} : at'[v] = at[v]
        /\ OwnLinks(w)' \subseteq OwnLinks(w) /\ Reach(w)'
        /\ \A q \in Paths : Behind(w, q) => Behind(w, q)'
    BY <2>1, <2>2, <1>5, BecomesFacts
  <2>4. gone \subseteq Paths
    <3>1. Replaced(report[w]) \subseteq Paths  BY TypesOf DEF Reports, Replaced
    <3> QED  BY <3>1 DEF OwnLinks, Paths
  <2>5. OwnLinks(w) \subseteq gone /\ Known(w) \subseteq gone  BY <1>5
  <2> HIDE DEF gone
  <2>6. lost' \in [Worktrees -> SUBSET Paths] /\ lost'[w] = lost[w] \cup gone /\ \A v \in Worktrees \ {w} : lost'[v] = lost[v]
    BY <2>1, <2>4 DEF TypeOK
  <2>7. TypeOK' /\ Others(w) /\ home'[w] = None
    <3>1. /\ home' \in [Worktrees -> Homes \cup {None}] /\ home'[w] = None /\ \A v \in Worktrees \ {w} : home'[v] = home[v]
      BY <2>1 DEF TypeOK
    <3>2. /\ report' \in [Worktrees -> Reports \cup {None}] /\ \A v \in Worktrees \ {w} : report'[v] = report[v]
      BY <2>1 DEF TypeOK
    <3> QED  BY <1>1, <1>3, <1>4, <2>3, <2>6, <3>1, <3>2 DEF TypeOK, Others, Same
  <2>8. Linked(w)' = {}  BY <2>3, <2>5, <2>6 DEF Linked
  <2>9. Listed(w)'
    <3>1. \A q \in Tracked[w] : q \in Paths /\ q # ".qory"
      <4>1. ".qory" \notin Leaves \cup Dirs  BY DEF Leaves, Dirs
      <4> QED  BY <4>1, HarnessAssumption DEF Paths
    <3>2. \A q \in Paths : at'[w][q] = "tracked" => q \in Tracked[w]  BY <2>3 DEF Local, Listed
    <3>3. ASSUME NEW q \in Tracked[w] \ lost'[w], at'[w][q] \in {"none", "own"}  PROVE Behind(w, q)'
      <4>1. q \in Paths /\ q \notin lost[w] /\ q \notin Known(w) /\ at[w][q] = at'[w][q]  BY <2>3, <2>5, <2>6, <3>1, <3>3
      <4>2. Behind(w, q)  BY <3>3, <4>1 DEF Local, Listed
      <4> QED  BY <2>3, <4>1, <4>2
    <3> QED  BY <3>2, <3>3 DEF Listed
  <2>10. at'[w][".qory"] = "none" /\ \A l \in Leaves : at'[w][l] = "own" => at[w][l] = "own"
    BY <2>2, <2>3 DEF OwnLinks
  <2> QED  BY <1>1, <1>2, <1>3, <2>3, <2>7, <2>8, <2>9, <2>10, Edited1
<1> QED  BY <1>1, <1>8, <1>9, <1>10, <1>11

LEMMA DoTamper ==
  ASSUME NEW w \in Worktrees, TypeOK, LinesOK, Local(w), Tamper(w)
  PROVE  TypeOK' /\ LinesOK' /\ Local(w)' /\ Others(w)
<1>1. /\ at' = at /\ home' = home /\ report' = report /\ exclude' = exclude /\ tampered' = tampered \cup {w} /\ raced' = raced
      /\ left' = left /\ proc' = proc /\ sound' = sound /\ lost' = lost /\ IdleAt(w)
  BY DEF Tamper, history
<1>2. TypeOK'  BY <1>1 DEF TypeOK
<1>3. Same(w) /\ Others(w)  BY <1>1 DEF Same, Others
<1>4. Local(w)'  BY <1>3, SameLocal
<1>5. proc[w].line = None  BY <1>1 DEF Local, ProcOK, IdleAt, Idle
<1>6. Quiet(w)
  <2>1. Linked(w)' = Linked(w) /\ QoryDue(w)' = QoryDue(w)  BY <1>3, SameLines
  <2> QED  BY <1>1, <1>5, <2>1 DEF Quiet, Adds
<1> QED  BY <1>2, <1>3, <1>4, <1>6, LinesQuiet
-----------------------------------------------------------------------------
(* The commands.                                                           *)
(* A command's first step, and a compose's until its tasks.                *)
LEMMA StartQuiet ==
  ASSUME NEW w \in Worktrees, exclude' = exclude, raced' = raced, proc'[w].line = None, at' = at, proc[w].line = None,
         lost[w] \subseteq lost'[w], QoryDue(w)' => QoryDue(w)
  PROVE  Quiet(w)
<1>1. OwnLinks(w)' = OwnLinks(w)  BY DEF OwnLinks
<1> QED  BY <1>1 DEF Quiet, Adds, Linked

LEMMA DoCompose ==
  ASSUME NEW w \in Worktrees, NEW req \in Requests, TypeOK, LinesOK, Local(w), Compose(w, req)
  PROVE  TypeOK' /\ LinesOK' /\ Local(w)' /\ Others(w)
<1> DEFINE prev == IF w \in tampered THEN None ELSE report[w]
           gone == IF prev = report[w] THEN {} ELSE OwnLinks(w) \cup Replaced(report[w])
           q == [Idle EXCEPT !.pc = "clear", !.op = "compose", !.req = req, !.was = Was(w), !.prev = prev, !.replaced = Carries(prev)]
<1>1. /\ IdleAt(w) /\ Put(w, q) /\ sound' = [sound EXCEPT ![w] = FALSE]
      /\ at' = at /\ home' = home /\ report' = report /\ exclude' = exclude /\ tampered' = tampered /\ raced' = raced
      /\ left' = left
  BY DEF Compose, disk
<1>2. lost' = [lost EXCEPT ![w] = @ \cup gone]
  <2>1. lost' = [lost EXCEPT ![w] = IF prev = report[w] THEN @ ELSE @ \cup OwnLinks(w) \cup Replaced(report[w])]
    BY DEF Compose
  <2> HIDE DEF prev
  <2> QED  BY <2>1 DEF TypeOK
<1>3. prev \in Reports \cup {None} /\ (prev = None \/ prev = report[w])  BY TypesOf
<1> HIDE DEF prev
<1>4. proc[w] = Idle  BY <1>1 DEF IdleAt, Local, ProcOK
<1>5. Replaced(prev) \subseteq Paths /\ Replaced(report[w]) \subseteq Paths  BY <1>3, TypesOf DEF Reports, Replaced
<1>6. /\ q \in Procs /\ q.pc = "clear" /\ q.op = "compose" /\ q.req = req /\ q.prev = prev /\ q.replaced = Replaced(prev)
      /\ q.todo = <<>> /\ q.line = None /\ q.failed = FALSE
  <2>1. Idle \in Procs /\ Idle.todo = <<>> /\ Idle.line = None /\ Idle.failed = FALSE  BY IdleType DEF Idle
  <2> QED  BY <1>3, <1>5, <2>1, WasType DEF Procs, Carries
<1> HIDE DEF q
<1>7. proc' \in [Worktrees -> Procs] /\ proc'[w] = q /\ \A v \in Worktrees \ {w} : proc'[v] = proc[v]
  BY <1>1, <1>6, PutFacts
<1>8. gone \subseteq Paths  BY <1>5 DEF OwnLinks, Paths
<1>9. prev # report[w] => OwnLinks(w) \subseteq gone /\ Replaced(report[w]) \subseteq gone  OBVIOUS
<1> HIDE DEF gone
<1>10. lost' \in [Worktrees -> SUBSET Paths] /\ lost'[w] = lost[w] \cup gone /\ \A v \in Worktrees \ {w} : lost'[v] = lost[v]
  BY <1>2, <1>8 DEF TypeOK
<1>11. sound' \in [Worktrees -> BOOLEAN] /\ sound'[w] = FALSE /\ \A v \in Worktrees \ {w} : sound'[v] = sound[v]
  BY <1>1 DEF TypeOK
<1>12. TypeOK' /\ Others(w)  BY <1>1, <1>7, <1>10, <1>11 DEF TypeOK, Others, Same
<1>13. OwnLinks(w)' = OwnLinks(w) /\ Linked(w)' \subseteq Linked(w) /\ (prev # report[w] => Linked(w)' = {})
  BY <1>1, <1>9, <1>10 DEF OwnLinks, Linked
<1>14. Idle.op = "none" /\ Idle.line = None /\ Idle.failed = FALSE /\ Idle.pc = "idle"  BY DEF Idle
<1>15. Listed(w)'
  <2>1. \A x \in Paths : at'[w][x] = "tracked" => x \in Tracked[w]  BY <1>1 DEF Local, Listed
  <2>2. Known(w)' = Replaced(prev) /\ Known(w) = Replaced(report[w])  BY <1>4, <1>6, <1>7, <1>14 DEF Known, Composes
  <2>3. ASSUME NEW x \in Tracked[w] \ lost'[w], at'[w][x] \in {"none", "own"}  PROVE x \in Known(w)' \/ Behind(w, x)'
    <3>1. x \in Replaced(report[w]) \/ Behind(w, x)  BY <1>1, <1>10, <2>2, <2>3 DEF Local, Listed
    <3>2. x \notin gone  BY <1>10, <2>3
    <3>3. Behind(w, x)' = Behind(w, x)  BY <1>1 DEF Behind, Occupied
    <3> QED  BY <1>9, <2>2, <3>1, <3>2, <3>3
  <2> QED  BY <2>1, <2>3 DEF Listed
<1>16. ProcOK(w)'
  <2>0. proc'[w].todo = <<>>  BY <1>6, <1>7
  <2>1. DOMAIN proc'[w].todo = {} /\ proc'[w].todo \in Seq(Legal(proc'[w]))  BY <2>0
  <2> HIDE DEF Legal, Last
  <2> QED  BY <1>1, <1>3, <1>6, <1>7, <1>11, <2>1 DEF ProcOK
<1>17. QoryOK(w)' /\ Reach(w)' /\ LeftOK(w)'
  BY <1>1, <1>6, <1>7 DEF Local, QoryOK, Reach, OwnLinks, Behind, Occupied, LeftOK
<1>18. OfCopilot(w)'  BY <1>1, <1>4, <1>6, <1>7, <1>13, <1>14 DEF Local, OfCopilot, Composed
<1>19. OfModule(w)'
  <2>1. "tools" \in Linked(w)' => prev = report[w] /\ "tools" \in Linked(w)  BY <1>13
  <2>2. "tools" \in Linked(w)' => InReport(prev)  BY <1>4, <1>14, <2>1 DEF Local, OfModule, Composes
  <2> QED  BY <1>6, <1>7, <2>2 DEF OfModule, Composes
<1>20. Pruning(w)' /\ Resolving(w)'  BY <1>6, <1>7, <1>11 DEF Pruning, Tasking, Resolving
<1>21. Local(w)'  BY <1>15, <1>16, <1>17, <1>18, <1>19, <1>20 DEF Local
<1>22. Quiet(w)
  <2>1. ~QoryDue(w)'  BY <1>6, <1>7, <1>11 DEF QoryDue, Tasking
  <2> QED  BY <1>1, <1>4, <1>6, <1>7, <1>10, <1>14, <2>1, StartQuiet
<1> QED  BY <1>12, <1>21, <1>22, LinesQuiet

LEMMA DoClearHome ==
  ASSUME NEW w \in Worktrees, TypeOK, LinesOK, Local(w), ClearHome(w)
  PROVE  TypeOK' /\ LinesOK' /\ Local(w)' /\ Others(w)
<1> DEFINE p == proc[w]
           q == [p EXCEPT !.pc = "build", !.rts = p.req.targets \cup Composed(w)]
<1>1. /\ p.pc = "clear" /\ Put(w, q)
      /\ home' = [home EXCEPT ![w] = None] /\ at' = [at EXCEPT ![w][".qory"] = "own"]
      /\ report' = report /\ exclude' = exclude /\ tampered' = tampered /\ raced' = raced
      /\ left' = left /\ sound' = sound /\ lost' = lost
  BY DEF ClearHome, history
<1>2. ProcOK(w) /\ p.op = "compose" /\ p.todo = <<>> /\ p.line = None /\ ~p.failed /\ p.req \in Requests
        /\ p.replaced = Replaced(p.prev) /\ ~sound[w]
  <2>1. ProcOK(w)  BY DEF Local
  <2> HIDE DEF Legal, Last
  <2> QED  BY <1>1, <2>1 DEF ProcOK
<1>3. p.req.targets \subseteq Runtimes /\ Composed(w) \subseteq Runtimes
  BY <1>2, TypesOf, HarnessAssumption DEF Composed, Homes
<1>4. /\ q \in Procs /\ q.pc = "build" /\ q.op = p.op /\ q.req = p.req /\ q.prev = p.prev /\ q.replaced = p.replaced
      /\ q.todo = p.todo /\ q.line = p.line /\ q.failed = p.failed /\ q.rts = p.req.targets \cup Composed(w)
  BY <1>3, TypesOf, ZenonT(40) DEF Procs
<1> HIDE DEF q
<1>5. proc' \in [Worktrees -> Procs] /\ proc'[w] = q /\ \A v \in Worktrees \ {w} : proc'[v] = proc[v]
  BY <1>1, <1>4, PutFacts
<1>6. /\ at' \in [Worktrees -> [Paths -> {"none", "own", "tracked", "theirs"}]]
      /\ \A x \in Paths : at'[w][x] = IF x = ".qory" THEN "own" ELSE at[w][x]
      /\ \A v \in Worktrees \ {w} : at'[v] = at[v]
  BY <1>1, TypesOf DEF TypeOK, Paths
<1>7. /\ home' \in [Worktrees -> Homes \cup {None}] /\ home'[w] = None /\ \A v \in Worktrees \ {w} : home'[v] = home[v]
  BY <1>1 DEF TypeOK
<1>8. TypeOK' /\ Others(w)  BY <1>1, <1>5, <1>6, <1>7 DEF TypeOK, Others, Same
<1>9. \A x \in Leaves \cup Dirs : at'[w][x] = at[w][x]  BY <1>6 DEF Leaves, Dirs, Paths
<1>10. OwnLinks(w)' = OwnLinks(w) /\ Linked(w)' = Linked(w)  BY <1>1, <1>9 DEF OwnLinks, Linked
<1>11. \A x \in Paths : Behind(w, x)' = Behind(w, x)
  <2>1. \A x \in Paths : \A d \in Above(x) : d \in Dirs  BY AboveFacts
  <2> QED  BY <1>9, <2>1 DEF Behind, Occupied
<1>12. Reach(w)'
  <2>1. \A l \in OwnLinks(w) : l \in Paths  BY DEF OwnLinks, Paths
  <2> QED  BY <1>10, <1>11, <2>1 DEF Local, Reach
<1>13. Listed(w)'
  <2>1. Known(w)' = Known(w)  BY <1>2, <1>4, <1>5 DEF Known, Composes
  <2>2. \A x \in Tracked[w] : x \in Leaves \cup Dirs /\ x \in Paths  BY HarnessAssumption DEF Paths
  <2>3. \A x \in Paths : at'[w][x] = "tracked" => x \in Tracked[w]  BY <1>6 DEF Local, Listed
  <2> QED  BY <1>1, <1>9, <1>11, <2>1, <2>2, <2>3 DEF Local, Listed
<1>14. ProcOK(w)'
  <2>0. proc'[w].todo = <<>>  BY <1>2, <1>4, <1>5
  <2>1. DOMAIN proc'[w].todo = {} /\ proc'[w].todo \in Seq(Legal(proc'[w]))  BY <2>0
  <2> HIDE DEF Legal, Last
  <2> QED  BY <1>1, <1>2, <1>4, <1>5, <2>1 DEF ProcOK
<1>15. QoryOK(w)'
  <2>1. at'[w][".qory"] = "own"  BY <1>6 DEF Paths
  <2> QED  BY <1>2, <1>4, <1>5, <2>1 DEF QoryOK
<1>16. LeftOK(w)'  BY <1>1 DEF Local, LeftOK
<1>17. OfCopilot(w)'  BY <1>1, <1>2, <1>4, <1>5, <1>10 DEF Local, OfCopilot
<1>18. OfModule(w)'  BY <1>1, <1>2, <1>4, <1>5, <1>10 DEF Local, OfModule, Composes, Tasking
<1>19. Pruning(w)' /\ Resolving(w)'  BY <1>1, <1>2, <1>4, <1>5 DEF Pruning, Tasking, Resolving
<1>20. Local(w)'  BY <1>12, <1>13, <1>14, <1>15, <1>16, <1>17, <1>18, <1>19 DEF Local
<1>21. Quiet(w)
  <2>1. ~QoryDue(w)'  BY <1>1, <1>2, <1>4, <1>5 DEF QoryDue, Tasking
  <2>2. \A l \in Leaves : at'[w][l] = "own" => at[w][l] = "own"  BY <1>9
  <2> QED  BY <1>1, <1>2, <1>4, <1>5, <1>10, <2>1, <2>2 DEF Quiet, Adds
<1> QED  BY <1>8, <1>20, <1>21, LinesQuiet

LEMMA DoBuild ==
  ASSUME NEW w \in Worktrees, TypeOK, LinesOK, Local(w), Build(w)
  PROVE  TypeOK' /\ LinesOK' /\ Local(w)' /\ Others(w)
<1> DEFINE p == proc[w]
           tasks == Links(p.req, p.rts, p.prev)
           new == [rts |-> p.rts, res |-> p.req.res]
           q == [p EXCEPT !.pc = "tasks", !.todo = tasks]
<1>1. /\ p.pc = "build" /\ Put(w, q) /\ home' = [home EXCEPT ![w] = new] /\ at' = at
      /\ report' = report /\ exclude' = exclude /\ tampered' = tampered /\ raced' = raced
      /\ left' = left /\ sound' = sound /\ lost' = lost
  BY DEF Build, history
<1>2. ProcOK(w) /\ p.op = "compose" /\ p.todo = <<>> /\ p.line = None /\ ~p.failed /\ p.req \in Requests
        /\ p.replaced = Replaced(p.prev) /\ ~sound[w] /\ p.req.targets \subseteq p.rts /\ (p.prev # None => p.prev = report[w])
  <2>1. ProcOK(w)  BY DEF Local
  <2> HIDE DEF Legal, Last
  <2> QED  BY <1>1, <2>1 DEF ProcOK
<1>3. p.rts \in SUBSET Runtimes /\ p.req.res \in SUBSET Leaves /\ p.req.links \in BOOLEAN
  BY <1>2, TypesOf, HarnessAssumption DEF Procs
<1>4. /\ tasks \in Seq(Legal(p)) /\ LastOK(tasks) /\ Has(tasks, "line", ".qory")
      /\ ~p.req.links => \A l \in Leaves : Has(tasks, "prune", l)
      /\ p.req.links => \A l \in Leaves \ p.req.res :
           (l \in Deep => "copilot" \in p.rts) /\ (l = "tools" => InReport(p.prev)) => Has(tasks, "prune", l)
  BY <1>2, <1>3, LinksFacts
<1> HIDE DEF tasks
<1>5. tasks \in Seq(Tasks)
  <2> DEFINE L == Legal(p)
  <2>1. L \subseteq Tasks /\ tasks \in Seq(L)  BY <1>4 DEF Legal
  <2> HIDE DEF L
  <2> QED  BY <2>1
<1>6. /\ q \in Procs /\ q.pc = "tasks" /\ q.op = p.op /\ q.req = p.req /\ q.prev = p.prev /\ q.replaced = p.replaced
      /\ q.todo = tasks /\ q.line = p.line /\ q.failed = p.failed /\ q.rts = p.rts
  BY <1>5, TypesOf, ZenonT(40) DEF Procs
<1> HIDE DEF q
<1>7. proc' \in [Worktrees -> Procs] /\ proc'[w] = q /\ \A v \in Worktrees \ {w} : proc'[v] = proc[v]
  BY <1>1, <1>6, PutFacts
<1>8. new \in Homes /\ new # None /\ new.rts = p.rts
  <2>1. new \in Homes  BY <1>3 DEF Homes
  <2> QED  BY <2>1, HarnessAssumption
<1>9. home' \in [Worktrees -> Homes \cup {None}] /\ home'[w] = new /\ \A v \in Worktrees \ {w} : home'[v] = home[v]
  <2> HIDE DEF new
  <2> QED  BY <1>1, <1>8 DEF TypeOK
<1>10. TypeOK' /\ Others(w)  BY <1>1, <1>7, <1>9 DEF TypeOK, Others, Same
<1>11. Reach(w)' /\ Listed(w)' /\ OwnLinks(w)' = OwnLinks(w)
  <2>1. Known(w)' = Known(w)  BY <1>2, <1>6, <1>7 DEF Known, Composes
  <2> QED  BY <1>1, <2>1, DiskSame DEF Local
<1>12. Linked(w)' = Linked(w) /\ Composed(w)' = p.rts  BY <1>1, <1>8, <1>9, <1>11 DEF Linked, Composed
<1>13. ProcOK(w)'
  <2>1. Legal(proc'[w]) = Legal(p)  BY <1>6, <1>7, LegalSame
  <2>2. \A i \in DOMAIN tasks : Last(tasks[i]) => i = Len(tasks)  BY <1>4 DEF LastOK
  <2> HIDE DEF Legal, Last
  <2> QED  BY <1>1, <1>2, <1>4, <1>6, <1>7, <1>9, <2>1, <2>2 DEF ProcOK
<1>14. QoryOK(w)'
  BY <1>1, <1>2, <1>6, <1>7 DEF Local, QoryOK
<1>15. LeftOK(w)'  BY <1>1 DEF Local, LeftOK
<1>16. \A l \in Linked(w) : (l \in Deep => "copilot" \in p.rts) /\ (l = "tools" => InReport(p.prev)) /\ l \in Leaves
  <2>1. \A l \in Linked(w) \cap Deep : "copilot" \in p.rts  BY <1>1, <1>2 DEF Local, OfCopilot
  <2>2. "tools" \in Linked(w) => InReport(p.prev)  BY <1>1, <1>2 DEF Local, OfModule, Composes, Tasking
  <2>3. \A l \in Linked(w) : l \in Leaves  BY DEF Linked, OwnLinks
  <2> QED  BY <2>1, <2>2, <2>3
<1>17. OfCopilot(w)'  BY <1>6, <1>7, <1>12, <1>16 DEF OfCopilot
<1>18. OfModule(w)'  BY <1>2, <1>6, <1>7, <1>12, <1>16 DEF OfModule, Composes
<1>19. Pruning(w)'
  <2>1. p.req.links => \A l \in Linked(w) : Linkable(p, l) \/ Has(tasks, "prune", l)
    BY <1>4, <1>16 DEF Linkable
  <2>2. ~p.req.links => \A l \in OwnLinks(w) : Has(tasks, "prune", l)  BY <1>4 DEF OwnLinks
  <2> QED  BY <1>2, <1>6, <1>7, <1>11, <1>12, <2>1, <2>2 DEF Pruning, TakesAll, Composes, Prunable, Linkable
<1>20. Resolving(w)'  BY <1>1, <1>2 DEF Resolving
<1>21. Local(w)'  BY <1>11, <1>13, <1>14, <1>15, <1>17, <1>18, <1>19, <1>20 DEF Local
<1>22. Quiet(w)
  <2>1. ~QoryDue(w)'  BY <1>1, <1>2, <1>4, <1>6, <1>7 DEF QoryDue, LineToCome
  <2> QED  BY <1>1, <1>2, <1>6, <1>7, <2>1, StartQuiet
<1> QED  BY <1>10, <1>21, <1>22, LinesQuiet

(* A remove begins: its tasks take what they are to take.                  *)
LEMMA RemoveTasks ==
  ASSUME NEW p, p.op \in {"remove", "removeRuntime"}, NEW t \in Legal(p), NEW a \in Seq(Plain(p))
  PROVE  /\ a \o <<t>> \in Seq(Legal(p)) /\ a \o <<t>> \in Seq(Tasks) /\ LastOK(a \o <<t>>)
         /\ \A do, x : Has(a \o <<t>>, do, x) <=> Has(a, do, x) \/ (t.do = do /\ t.at = x)
<1> DEFINE L == Legal(p)
           N == Plain(p)
           b == <<t>>
<1>1. b \in Seq(L) /\ Len(b) <= 1  BY OneType
<1>2. N \subseteq L /\ L \subseteq Tasks /\ a \in Seq(N)  BY DEF Plain, Legal
<1>3. \A do, x : Has(b, do, x) <=> t.do = do /\ t.at = x  BY HasOne
<1> HIDE DEF b
<1>4. a \o b \in Seq(L) /\ LastOK(a \o b)  BY <1>1, LastConcat
<1> HIDE DEF L, N
<1>5. a \in Seq(L) /\ a \o b \in Seq(Tasks)  BY <1>2, <1>4
<1>6. \A do, x : Has(a \o b, do, x) <=> Has(a, do, x) \/ Has(b, do, x)  BY <1>1, <1>5, HasConcat
<1> QED  BY <1>3, <1>4, <1>5, <1>6 DEF b, L

LEMMA DoRemoveHarness ==
  ASSUME NEW w \in Worktrees, TypeOK, LinesOK, Local(w), RemoveHarness(w)
  PROVE  TypeOK' /\ LinesOK' /\ Local(w)' /\ Others(w)
<1> DEFINE t == Task("dir", ".qory", FALSE, "none")
           tasks == unlinkAll \o <<t>>
           q == [Idle EXCEPT !.pc = "tasks", !.op = "remove", !.was = Was(w), !.todo = tasks]
           r == [op |-> "remove"]
<1>1. /\ IdleAt(w) /\ Put(w, q) /\ sound' = [sound EXCEPT ![w] = FALSE]
      /\ at' = at /\ home' = home /\ report' = report /\ exclude' = exclude /\ tampered' = tampered /\ raced' = raced
      /\ left' = left /\ lost' = lost
  BY DEF RemoveHarness, disk
<1>2. proc[w] = Idle  BY <1>1 DEF IdleAt, Local, ProcOK
<1>3. r.op = "remove" /\ t \in Legal(r)  BY DEF Legal, Task, Tasks, Paths
<1>4. unlinkAll \in Seq(Plain(r)) /\ \A l \in Leaves : Has(unlinkAll, "prune", l)
  BY <1>3, UnlinkLegal, UnlinkAllHas
<1>5. t.do = "dir" /\ t.at = ".qory"  BY DEF Task
<1> HIDE DEF t, r
<1>6. /\ tasks \in Seq(Legal(r)) /\ tasks \in Seq(Tasks) /\ LastOK(tasks) /\ Has(tasks, "dir", ".qory")
      /\ \A l \in Leaves : Has(tasks, "prune", l)
  BY <1>3, <1>4, <1>5, RemoveTasks
<1> HIDE DEF tasks
<1>7. /\ q \in Procs /\ q.pc = "tasks" /\ q.op = "remove" /\ q.todo = tasks /\ q.line = None /\ q.failed = FALSE
  BY <1>6, IdleType, WasType DEF Procs, Idle
<1>8. Legal(q) = Legal(r)  BY <1>3, <1>7 DEF Legal
<1> HIDE DEF q
<1>9. proc' \in [Worktrees -> Procs] /\ proc'[w] = q /\ \A v \in Worktrees \ {w} : proc'[v] = proc[v]
  BY <1>1, <1>7, PutFacts
<1>10. sound' \in [Worktrees -> BOOLEAN] /\ sound'[w] = FALSE /\ \A v \in Worktrees \ {w} : sound'[v] = sound[v]
  BY <1>1 DEF TypeOK
<1>11. TypeOK' /\ Others(w)  BY <1>1, <1>9, <1>10 DEF TypeOK, Others, Same
<1>12. Idle.op = "none" /\ Idle.line = None /\ Idle.failed = FALSE /\ Idle.pc = "idle"  BY DEF Idle
<1>13. Reach(w)' /\ Listed(w)' /\ OwnLinks(w)' = OwnLinks(w)
  <2>1. Known(w)' = Known(w)  BY <1>1, <1>2, <1>7, <1>9, <1>12 DEF Known, Composes, Replaced
  <2> QED  BY <1>1, <2>1, DiskSame DEF Local
<1>14. Linked(w)' = Linked(w) /\ Composed(w)' = Composed(w)  BY <1>1, <1>13 DEF Linked, Composed
<1>15. ProcOK(w)'
  <2>1. \A i \in DOMAIN tasks : Last(tasks[i]) => i = Len(tasks)  BY <1>6 DEF LastOK
  <2> HIDE DEF Legal, Last
  <2> QED  BY <1>6, <1>7, <1>8, <1>9, <1>10, <2>1 DEF ProcOK
<1>16. QoryOK(w)' /\ LeftOK(w)'  BY <1>1, <1>6, <1>7, <1>9 DEF Local, QoryOK, LeftOK
<1>17. OfCopilot(w)' /\ OfModule(w)'
  BY <1>1, <1>2, <1>7, <1>9, <1>12, <1>14 DEF Local, OfCopilot, OfModule, Composes
<1>18. Pruning(w)'
  <2>1. \A l \in OwnLinks(w) : Has(tasks, "prune", l)  BY <1>6 DEF OwnLinks
  <2> QED  BY <1>7, <1>9, <1>13, <2>1 DEF Pruning, TakesAll, Composes, Prunable
<1>19. Resolving(w)'  BY <1>10 DEF Resolving
<1>20. Local(w)'  BY <1>13, <1>15, <1>16, <1>17, <1>18, <1>19 DEF Local
<1>21. Quiet(w)
  <2>1. ~QoryDue(w)'  BY <1>7, <1>9, <1>10 DEF QoryDue, Composes
  <2> QED  BY <1>1, <1>2, <1>7, <1>9, <1>12, <2>1, StartQuiet
<1> QED  BY <1>11, <1>20, <1>21, LinesQuiet

LEMMA DoRemoveRuntime ==
  ASSUME NEW w \in Worktrees, NEW rt \in Runtimes, TypeOK, LinesOK, Local(w), RemoveRuntime(w, rt)
  PROVE  TypeOK' /\ LinesOK' /\ Local(w)' /\ Others(w)
<1> DEFINE others == Composed(w) \ {rt}
           t == Task("drop", ".qory", FALSE, rt)
           tasks == Unlink(rt, others) \o <<t>>
           q == [Idle EXCEPT !.pc = "tasks", !.op = "removeRuntime", !.rt = rt, !.was = Was(w), !.todo = tasks]
           r == [op |-> "removeRuntime"]
<1>1. /\ IdleAt(w) /\ Put(w, q) /\ sound' = sound
      /\ at' = at /\ home' = home /\ report' = report /\ exclude' = exclude /\ tampered' = tampered /\ raced' = raced
      /\ left' = left /\ lost' = lost
  BY DEF RemoveRuntime, disk, history
<1>2. proc[w] = Idle  BY <1>1 DEF IdleAt, Local, ProcOK
<1>3. r.op = "removeRuntime" /\ t \in Legal(r)  BY DEF Legal, Task, Tasks, Paths
<1>4. /\ Unlink(rt, others) \in Seq(Plain(r))
      /\ rt = "copilot" => \A l \in Deep : Has(Unlink(rt, others), "prune", l)
      /\ others = {} => \A l \in Leaves \ (Deep \cup {"tools"}) : Has(Unlink(rt, others), "prune", l)
  BY <1>3, UnlinkLegal, UnlinkHas
<1>5. t.do = "drop" /\ t.at = ".qory"  BY DEF Task
<1> HIDE DEF t, r, others
<1>6. /\ tasks \in Seq(Legal(r)) /\ tasks \in Seq(Tasks) /\ LastOK(tasks) /\ Has(tasks, "drop", ".qory")
      /\ rt = "copilot" => \A l \in Deep : Has(tasks, "prune", l)
      /\ others = {} => \A l \in Leaves \ (Deep \cup {"tools"}) : Has(tasks, "prune", l)
  <2>1. /\ tasks \in Seq(Legal(r)) /\ tasks \in Seq(Tasks) /\ LastOK(tasks)
        /\ \A do, x : Has(tasks, do, x) <=> Has(Unlink(rt, others), do, x) \/ (t.do = do /\ t.at = x)
    BY <1>3, <1>4, RemoveTasks
  <2> HIDE DEF tasks
  <2> QED  BY <1>4, <1>5, <2>1
<1> HIDE DEF tasks
<1>7. /\ q \in Procs /\ q.pc = "tasks" /\ q.op = "removeRuntime" /\ q.todo = tasks /\ q.line = None /\ q.failed = FALSE /\ q.rt = rt
  BY <1>6, IdleType, WasType DEF Procs, Idle
<1>8. Legal(q) = Legal(r)  BY <1>3, <1>7 DEF Legal
<1> HIDE DEF q
<1>9. proc' \in [Worktrees -> Procs] /\ proc'[w] = q /\ \A v \in Worktrees \ {w} : proc'[v] = proc[v]
  BY <1>1, <1>7, PutFacts
<1>10. TypeOK' /\ Others(w)  BY <1>1, <1>9 DEF TypeOK, Others, Same
<1>11. Idle.op = "none" /\ Idle.line = None /\ Idle.failed = FALSE /\ Idle.pc = "idle"  BY DEF Idle
<1>12. Reach(w)' /\ Listed(w)' /\ OwnLinks(w)' = OwnLinks(w)
  <2>1. Known(w)' = Known(w)  BY <1>1, <1>2, <1>7, <1>9, <1>11 DEF Known, Composes, Replaced
  <2> QED  BY <1>1, <2>1, DiskSame DEF Local
<1>13. Linked(w)' = Linked(w) /\ Composed(w)' = Composed(w)  BY <1>1, <1>12 DEF Linked, Composed
<1>14. ProcOK(w)'
  <2>1. \A i \in DOMAIN tasks : Last(tasks[i]) => i = Len(tasks)  BY <1>6 DEF LastOK
  <2> HIDE DEF Legal, Last
  <2> QED  BY <1>6, <1>7, <1>8, <1>9, <2>1 DEF ProcOK
<1>15. QoryOK(w)' /\ LeftOK(w)'  BY <1>1, <1>6, <1>7, <1>9 DEF Local, QoryOK, LeftOK
<1>16. OfCopilot(w)' /\ OfModule(w)'
  BY <1>1, <1>2, <1>7, <1>9, <1>11, <1>13 DEF Local, OfCopilot, OfModule, Composes
<1>17. Dropping(w)'  BY <1>6, <1>7, <1>9 DEF Dropping
<1>18. Pruning(w)'
  <2>1. Composed(w) \subseteq {rt} => others = {}  BY DEF others
  <2>2. \A l \in Linked(w) :
          (rt = "copilot" /\ l \in Deep) \/ (Composed(w) \subseteq {rt} /\ l \in Leaves \ (Deep \cup {"tools"}))
            => Has(tasks, "prune", l)
    BY <1>6, <2>1
  <2> QED  BY <1>7, <1>9, <1>13, <1>17, <2>2 DEF Pruning, TakesAll, Composes, Prunable
<1>19. Resolving(w)'  BY <1>1, <1>13 DEF Local, Resolving
<1>20. Local(w)'  BY <1>12, <1>14, <1>15, <1>16, <1>18, <1>19 DEF Local
<1>21. Quiet(w)
  <2>1. QoryDue(w)' => QoryDue(w)  BY <1>1, <1>7, <1>9 DEF QoryDue, Composes
  <2> QED  BY <1>1, <1>2, <1>7, <1>9, <1>11, <2>1, StartQuiet
<1> QED  BY <1>10, <1>20, <1>21, LinesQuiet
-----------------------------------------------------------------------------
LEMMA InitIInv == Init => IInv
<1> SUFFICES ASSUME Init  PROVE IInv
  OBVIOUS
<1>1. /\ at = [w \in Worktrees |-> [p \in Paths |-> IF p \in Tracked[w] THEN "tracked" ELSE "none"]]
      /\ home = [w \in Worktrees |-> None] /\ report = [w \in Worktrees |-> None]
      /\ exclude = {} /\ tampered = {} /\ proc = [w \in Worktrees |-> Idle]
      /\ sound = [w \in Worktrees |-> TRUE] /\ lost = [w \in Worktrees |-> {}] /\ raced = FALSE /\ left = [w \in Worktrees |-> None]
  BY DEF Init, Paths
<1>2. TypeOK  BY <1>1, IdleType DEF TypeOK
<1>3. Idle.pc = "idle" /\ Idle.op = "none" /\ Idle.failed = FALSE /\ Idle.line = None /\ Idle.todo = <<>>  BY DEF Idle
<1>4. \A w \in Worktrees : OwnLinks(w) = {} /\ Linked(w) = {}  BY <1>1 DEF OwnLinks, Linked, Paths
<1>5. \A w \in Worktrees : at[w][".qory"] = "none"
  <2>1. \A w \in Worktrees : ".qory" \notin Tracked[w]
    <3>1. ".qory" \notin Leaves \cup Dirs  BY DEF Leaves, Dirs
    <3> QED  BY <3>1, HarnessAssumption
  <2> QED  BY <1>1, <2>1 DEF Paths
<1>6. LinesOK  BY <1>1, <1>3, <1>4, <1>5 DEF LinesOK, Alone, Fresh, Covered, Harmless, Takes
<1>7. ASSUME NEW w \in Worktrees  PROVE Local(w)
  <2>1. ProcOK(w)
    <3>1. proc[w] = Idle  BY <1>1
    <3>2. proc[w].todo = <<>>  BY <1>3, <3>1
    <3>3. DOMAIN proc[w].todo = {} /\ proc[w].todo \in Seq(Legal(proc[w]))  BY <3>2
    <3> HIDE DEF Legal, Last
    <3> QED  BY <1>3, <3>1, <3>3 DEF ProcOK
  <2>2. QoryOK(w)  BY <1>1, <1>3, <1>5 DEF QoryOK
  <2>3. Reach(w) /\ OfCopilot(w) /\ OfModule(w)  BY <1>4 DEF Reach, OfCopilot, OfModule
  <2>4. Pruning(w) /\ Resolving(w)  BY <1>1, <1>3, <1>4 DEF Pruning, Resolving, Tasking
  <2>5. Listed(w)
    <3>1. \A p \in Tracked[w] : at[w][p] = "tracked"  BY <1>1, HarnessAssumption DEF Paths
    <3> QED  BY <1>1, <3>1 DEF Listed
  <2>6. LeftOK(w)  BY <1>1 DEF LeftOK
  <2> QED  BY <2>1, <2>2, <2>3, <2>4, <2>5, <2>6 DEF Local
<1> QED  BY <1>2, <1>6, <1>7 DEF IInv

(* One step per action: what it does of its own worktree is in the lemmas  *)
(* above, and the others of the repository it leaves as they are.          *)
LEMMA NextIInv == IInv /\ [Next]_vars => IInv'
<1> SUFFICES ASSUME IInv, [Next]_vars  PROVE IInv'
  OBVIOUS
<1>1. TypeOK /\ LinesOK /\ \A w \in Worktrees : Local(w)  BY DEF IInv
<1>2. ASSUME NEW w \in Worktrees, TypeOK' /\ LinesOK' /\ Local(w)' /\ Others(w)  PROVE IInv'
  <2>1. \A v \in Worktrees \ {w} : Local(v)'  BY <1>1, <1>2, SameLocal DEF Others
  <2> QED  BY <1>2, <2>1 DEF IInv
<1>3. CASE UNCHANGED vars
  <2>1. /\ at' = at /\ home' = home /\ report' = report /\ exclude' = exclude /\ tampered' = tampered /\ proc' = proc
        /\ sound' = sound /\ lost' = lost /\ raced' = raced /\ left' = left
    BY <1>3 DEF vars, disk, history
  <2>2. \A w : Same(w)  BY <2>1 DEF Same
  <2>3. \A w \in Worktrees : Local(w)'  BY <1>1, <2>2, SameLocal
  <2>4. TypeOK'  BY <1>1, <2>1 DEF TypeOK
  <2>5. LinesOK'
    <3>1. \A v : /\ Linked(v)' = Linked(v) /\ QoryDue(v)' = QoryDue(v) /\ \A p : Adds(v, p)' = Adds(v, p) /\ Takes(v, p)' = Takes(v, p)
      BY <1>1, <2>2, SameLines
    <3> QED  BY <1>1, <2>1, <3>1 DEF LinesOK, Alone, Fresh, Covered, Harmless
  <2> QED  BY <2>3, <2>4, <2>5 DEF IInv
<1>4. ASSUME NEW w \in Worktrees, Step(w)  PROVE IInv'
  <2>0. TypeOK /\ LinesOK /\ Local(w)  BY <1>1
  <2>1. CASE ClearHome(w)  BY <2>0, <2>1, <1>2, DoClearHome
  <2>2. CASE Build(w)  BY <2>0, <2>2, <1>2, DoBuild
  <2>3. CASE Writes(w)  BY <2>0, <2>3, <1>2, DoWrites
  <2>4. CASE PutsLine(w)  BY <2>0, <2>4, <1>2, DoPutsLine
  <2>5. CASE MakesLink(w)  BY <2>0, <2>5, <1>2, DoMakesLink
  <2>6. CASE Clears(w) \/ Yields(w)  BY <2>0, <2>6, <1>2, DoClearsYields
  <2>7. CASE Forces(w)  BY <2>0, <2>7, <1>2, DoForces
  <2>8. CASE Refuses(w)  BY <2>0, <2>8, <1>2, DoRefuses
  <2>9. CASE Prune(w)  BY <2>0, <2>9, <1>2, DoPrune
  <2>10. CASE Unlinks(w)  BY <2>0, <2>10, <1>2, DoUnlinks
  <2>11. CASE Drops(w)  BY <2>0, <2>11, <1>2, DoDrops
  <2>12. CASE RemovesDir(w)  BY <2>0, <2>12, <1>2, DoRemovesDir
  <2>13. CASE Ends(w)  BY <2>0, <2>13, <1>2, DoEnds
  <2> QED  BY <1>4, <2>1, <2>2, <2>3, <2>4, <2>5, <2>6, <2>7, <2>8, <2>9, <2>10, <2>11, <2>12, <2>13, Zenon DEF Step
<1>5. ASSUME NEW w \in Worktrees, Kill(w)  PROVE IInv'  BY <1>1, <1>2, <1>5, DoKill
<1>6. ASSUME NEW w \in Worktrees, Edit(w)  PROVE IInv'  BY <1>1, <1>2, <1>6, DoEdit
<1>7. ASSUME NEW w \in Worktrees, Tamper(w)  PROVE IInv'  BY <1>1, <1>2, <1>7, DoTamper
<1>8. ASSUME NEW w \in Worktrees, NEW req \in Requests, Compose(w, req)  PROVE IInv'  BY <1>1, <1>2, <1>8, DoCompose
<1>9. ASSUME NEW w \in Worktrees, RemoveHarness(w)  PROVE IInv'  BY <1>1, <1>2, <1>9, DoRemoveHarness
<1>10. ASSUME NEW w \in Worktrees, NEW rt \in Runtimes, RemoveRuntime(w, rt)  PROVE IInv'
  BY <1>1, <1>2, <1>10, DoRemoveRuntime
<1> QED  BY <1>3, <1>4, <1>5, <1>6, <1>7, <1>8, <1>9, <1>10, Zenon DEF Next

(* The invariant that the theorems rest on holds in every state.            *)
THEOREM Invariance == Spec => []IInv
<1> QED  BY InitIInv, NextIInv, PTL DEF Spec

(* Type correctness: the disk, the report, the exclude file and the steps  *)
(* left of each worktree's command.                                        *)
THEOREM TypeCorrect == Spec => []TypeOK
<1>1. IInv => TypeOK  BY DEF IInv
<1> QED  BY <1>1, Invariance, PTL

(* After every compose or remove that went through, whatever others came   *)
(* before it, failed or were killed, a link of qory's that qory keeps      *)
(* track of leads to something in the home: the composes prune what the    *)
(* stack dropped (LinkInto, takeBack and LinkModules).                     *)
THEOREM LinksAlwaysResolve == Spec => []LinksResolve
<1>1. IInv => LinksResolve
  BY DEF IInv, Local, Resolving, Linked, LinksResolve
<1> QED  BY <1>1, Invariance, PTL

(* With any number of worktrees that compose and remove at a time, links   *)
(* and homes are kept out of git (ensureExcluded and dropExcluded), unless *)
(* two of them had read the one exclude file before either wrote it.       *)
THEOREM LinesAlwaysFollow == Spec => []LinesFollowLinks
<1>1. IInv => LinesFollowLinks
  <2> SUFFICES ASSUME IInv, NEW w \in Worktrees, sound[w], IdleAt(w), ~raced
               PROVE  (OwnLinks(w) \ lost[w]) \cup (IF home[w] # None THEN {".qory"} ELSE {}) \subseteq exclude
    BY DEF LinesFollowLinks
  <2>1. Covered(w) /\ Local(w)  BY DEF IInv, LinesOK
  <2>2. proc[w].line = None  BY <2>1 DEF Local, ProcOK, IdleAt, Idle
  <2>3. Linked(w) \subseteq exclude  BY <2>1, <2>2 DEF Covered, Adds
  <2>4. home[w] # None => ".qory" \in exclude  BY <2>1, <2>2 DEF Covered, Adds, Local, QoryOK, QoryDue
  <2> QED  BY <2>3, <2>4 DEF Linked
<1> QED  BY <1>1, Invariance, PTL

(* A remove that ends without an error leaves no link of qory's, and what  *)
(* of git's gave way to a link stays in the report until its link goes,    *)
(* over composes that fail half way and removes of one runtime.            *)
THEOREM RemoveAlwaysUndoes == Spec => []RemoveUndoesAll
<1>1. IInv => RemoveTakesAll
  BY DEF IInv, Local, LeftOK, RemoveTakesAll
<1>2. IInv => ReplacedListed
  <2> SUFFICES ASSUME IInv, NEW w \in Worktrees, IdleAt(w), NEW p \in Tracked[w] \ lost[w], at[w][p] # "tracked",
                      NEW l \in Under(p) \cap OwnLinks(w)
               PROVE  p \in Replaced(report[w])
    BY DEF ReplacedListed
  <2>1. Local(w) /\ TypeOK  BY DEF IInv
  <2>2. p \in Paths /\ l \in Paths  BY HarnessAssumption DEF Paths, OwnLinks
  <2>3. (l = p \/ p \in Above(l)) /\ ~Behind(w, l) /\ at[w][l] = "own"
    BY <2>1 DEF Under, Local, Reach, OwnLinks
  <2>4. at[w][p] \in {"none", "own"}
    <3>1. at[w][p] \in {"none", "own", "tracked", "theirs"}  BY <2>1, <2>2, TypesOf
    <3> QED  BY <2>3, <3>1 DEF Behind, Occupied
  <2>5. ~Behind(w, p)
    <3>1. Above(p) \subseteq Above(l)  BY <2>2, <2>3, AboveFacts
    <3> QED  BY <2>3, <3>1 DEF Behind
  <2>6. p \in Known(w)  BY <2>1, <2>4, <2>5 DEF Local, Listed
  <2>7. proc[w].op = "none"  BY <2>1 DEF Local, ProcOK, IdleAt, Idle
  <2> QED  BY <2>6, <2>7 DEF Known, Composes
<1> QED  BY <1>1, <1>2, Invariance, PTL DEF RemoveUndoesAll
=============================================================================
