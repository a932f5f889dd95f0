----------------------------- MODULE TreeInputs -----------------------------
(* Trees of files with one module for ModuleTree: the module at m, which a *)
(* link leads to, another directory n beside it, and what may lie among the*)
(* entries: files, folders and links of each way they may lead.            *)
EXTENDS Sequences, TLC

CONSTANT none  \* no variant that the stack forces

Node(kind) == [kind |-> kind]
Link(to) == [kind |-> "link", abs |-> FALSE, to |-> to]
Absolute(to) == [kind |-> "link", abs |-> TRUE, to |-> to]
Folder == Node("dir")
File == Node("file")
In(names) == <<"m">> \o names
SkillFile == In(<<"skills", "g", "x", "SKILL.md">>)

Base ==
  [p \in {In(<<>>), In(<<"skills">>), In(<<"skills", "g">>), In(<<"skills", "g", "x">>), In(<<"agents">>), In(<<"hooks">>), In(<<"files">>),
          In(<<"files", "claude">>), In(<<".git">>), In(<<".qory">>), <<"n">>, <<"n", "skills">>, <<"n", "skills", "y">>} |-> Folder]
  @@ [p \in {SkillFile, In(<<"agents", "a.md">>), In(<<"hooks", "h">>), In(<<"files", "claude", "f">>),
             In(<<".git", "c">>), In(<<".qory", "r">>), <<"n", "skills", "y", "SKILL.md">>, <<"o">>} |-> File]
  @@ (<<"at">> :> Link(<<"m">>))
With(p, n) == (p :> n) @@ Base

(* Beside the skills, inside a skill, and beside the hooks. *)
BesideSkills == {File, Folder, Link(<<"g", "x">>), Link(<<"..", "agents">>), Link(<<"..">>), Link(<<"..", "..", "n", "skills", "y">>),
                 Absolute(In(<<"skills", "g", "x">>)), Absolute(<<"n", "skills", "y">>), Link(<<"gone">>)}
InSkill == {Node("pipe"), Link(<<"..", "..", "..", "agents", "a.md">>), Link(<<"..">>), Link(<<"..", "..", "..", "hooks">>), Link(<<"gone">>),
            Absolute(In(<<"hooks", "h">>)), Absolute(<<"o">>)}
Hook(to) == In(<<"hooks", "i">>) :> to
MCTrees ==
  {Base}
  \cup {With(In(<<"skills", "g", "z">>), n) : n \in BesideSkills}
  \cup {Hook(Link(<<"..", "skills", "g", "x", "SKILL.md">>)) @@ With(In(<<"skills", "z">>), n) : n \in BesideSkills}
  \cup {h @@ With(In(<<"skills", "g", "x", "X">>), n) : n \in InSkill, h \in {Hook(Link(<<"..", "agents", "a.md">>)), Hook(Link(<<"h">>))}}
  \cup {Hook(Absolute(<<"o">>)) @@ Base}
  \cup {(In(<<"skills", "z", "l">>) :> n) @@ With(In(<<"skills", "z">>), Folder) : n \in {Folder, Link(<<"..", "..", "agents">>)}}
MCEdits ==
  [at : {In(<<"agents", "a.md">>)}, node : {Absolute(<<"o">>), Link(<<"..", "hooks", "h">>)}]
  \cup [at : {<<"at">>}, node : {Link(<<"n">>)}]
  \cup [at : {In(<<"skills", "g", "x", "b.md">>)}, node : {File, Absolute(<<"o">>)}]
  \cup [at : {SkillFile}, node : {Link(<<"..", "..", "..", "agents", "a.md">>)}]

(* What the manifest and the stack choose. *)
Kinds == {"skills", "agents", "hooks", "mcp", "files"}
Composed(variants, kept, walled) ==
  [fs : MCTrees, manifest : {[variants |-> variants, default |-> "fail", requires |-> {}]},
   choice : {[forced |-> none, runtime |-> "claude", kept |-> kept]}, walled : {walled}]
MCComposes ==
  Composed(<<>>, Kinds, FALSE) \cup Composed(<<>>, Kinds \ {"agents"}, TRUE) \cup Composed(<<>>, Kinds \ {"skills"}, TRUE)
  \cup Composed("claude" :> ("skills" :> <<"skills", "g">>), Kinds, TRUE)
=============================================================================
