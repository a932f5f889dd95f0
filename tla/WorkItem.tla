------------------------------ MODULE WorkItem ------------------------------
(* What a run leaves for the next one of its work item: the branch of the   *)
(* work item and its index (WorkBranch), and the artifacts its commands     *)
(* push, keep and pull (Artifacts).  They share no state, and a behaviour   *)
(* is of one of the two.                                                    *)
EXTENDS WorkBranch

CONSTANTS Procs, Types, CheckedTypes, Role, Names, Texts, Good, Lists, Bodies, Folds,  \* Artifacts'
          MaxVersions, MaxCommands, MaxEdits
VARIABLES inRun, src, server, gated, store, cmd, req, commands, edits
artifacts == <<inRun, src, server, gated, store, cmd, req, commands, edits>>
A == INSTANCE Artifacts WITH Contents <- Texts, approved <- gated
ASSUME ListsAndBodies == A!ArtifactsAssumption

VARIABLE part  \* the one of the two a behaviour is of
-----------------------------------------------------------------------------
NoStore ==
  /\ inRun = TRUE /\ src = <<>> /\ server = <<>> /\ gated = <<>> /\ store = <<>> /\ cmd = <<>> /\ req = <<>>
  /\ commands = 0 /\ edits = 0

PartsInit == Init /\ ((part = "branch" /\ NoStore) \/ (part = "store" /\ A!Init))
PartsNext ==
  /\ UNCHANGED part
  /\ \/ part = "branch" /\ Next /\ UNCHANGED artifacts
     \/ part = "store" /\ A!Next /\ UNCHANGED vars
parts == <<part, vars, artifacts>>
PartsSpec == PartsInit /\ [][PartsNext]_parts

(* Artifacts: every version that is stored of a type with a check passes it, *)
(* and a command that went through left its versions whole.                  *)
StoredAsDone == part = "store" => A!StoredAsDone
=============================================================================
