----------------------------- MODULE MCWorktree -----------------------------
(* TLC's instances of Worktree: adds and removes of two branches. *)
EXTENDS Worktree, TLC

MCSymmetry == Permutations(Patches)
Add(b, n, base, at, off) ==
  [Idle EXCEPT !.op = "add", !.branch = b, !.name = n, !.base = base, !.onto = base # Nil, !.attach = at,
               !.offline = off, !.tty = TRUE]
Rem(n, k, f, d, off, t) ==
  [Idle EXCEPT !.op = "remove", !.name = n, !.keep = k, !.force = f, !.drop = d, !.offline = off, !.tty = t]
MCRequests ==
  {Add("f", Nil, base, "no", FALSE) : base \in {Nil, <<"heads", "g">>}}
  \cup {Add("g", "f", Nil, "branch", FALSE), Add("pr", Nil, Nil, "pull", FALSE)}
  \cup {Rem(n, FALSE, FALSE, FALSE, FALSE, TRUE) : n \in {"f", "g"}}
  \cup {Rem("f", TRUE, TRUE, FALSE, TRUE, FALSE)}
=============================================================================
