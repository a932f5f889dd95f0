---------------------------- MODULE MCHarness ----------------------------
(* Harness with two worktrees, one of which tracks AGENTS.md and a symlink *)
(* at .agents/skills, and five composes: everything and nothing of what    *)
(* the modules may ship, forced, for one runtime, and without links.       *)
EXTENDS Harness
CONSTANTS w1, w2
All == Leaves
Request(targets, res, force, links) == [targets |-> targets, res |-> res, force |-> force, links |-> links]
MCRequests == { Request({"copilot"}, All, TRUE, TRUE), Request({"any"}, All, FALSE, TRUE),
                Request({"any"}, {".agents/skills/review"}, FALSE, TRUE), Request({"copilot"}, All, FALSE, FALSE) }
MCTracked == [w \in {w1, w2} |-> IF w = w1 THEN {"AGENTS.md", ".agents/skills"} ELSE {}]
MCEdited == {".github"}
MCRecorded == {w1}
=============================================================================
