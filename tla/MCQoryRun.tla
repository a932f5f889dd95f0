----------------------------- MODULE MCQoryRun -----------------------------
(* QoryRun with the jobs that differ in their steps: a run code's that      *)
(* writes, or only reads, walled or not, with the setup outside or inside   *)
(* and with nested Docker; a run through via, and runs with a gateway of    *)
(* their own or a run key.                                                  *)
EXTENDS QoryRun
OfCode == {j \in JobType : j.from = "code" /\ j.listed /\ j.engine = j.walled /\ j.limit
                           /\ (j.writes => ~j.docker) /\ (~j.walled => ~j.docker /\ ~j.inside)}
Others == {j \in JobType : /\ j.from # "code" /\ j.from = "via" => j.walled
                           /\ ~j.writes /\ ~j.reads /\ ~j.listed /\ ~j.inside /\ ~j.docker
                           /\ j.engine = j.walled /\ j.limit = j.walled}
MCJobs == OfCode \cup Others
=============================================================================
