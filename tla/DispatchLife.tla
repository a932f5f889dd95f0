---------------------------- MODULE DispatchLife ----------------------------
(***************************************************************************)
(* What the pool and Qory Apiary promise together of one dispatch, as the  *)
(* comments of internal/pool/pool.go and internal/provisioner say it: it   *)
(* is leased once, its qory run starts at most once and only after Qory    *)
(* Apiary accepted its start, and one that was given back never runs.      *)
(***************************************************************************)
CONSTANT Dispatches

VARIABLES lease,  \* per dispatch: "offered", "leased", "started", "released", "over"
          run     \* per dispatch: its qory run, "none", "running" or "ended"

lifeVars == <<lease, run>>

Init == /\ lease = [d \in Dispatches |-> "offered"]
        /\ run = [d \in Dispatches |-> "none"]

Moves(d, from, to) == lease[d] = from /\ lease' = [lease EXCEPT ![d] = to] /\ UNCHANGED run

Lease(d) == Moves(d, "offered", "leased")
Accept(d) == Moves(d, "leased", "started")

(* The lease passed, or a dispatch that started ended.                      *)
End(d) == Moves(d, "leased", "over") \/ Moves(d, "started", "over")

(* A release ends a lease, never a dispatch that started or ran.            *)
GiveBack(d) == run[d] = "none" /\ Moves(d, "leased", "released")

RunStarts(d) == /\ lease[d] \in {"started", "over"} /\ run[d] = "none"
                /\ run' = [run EXCEPT ![d] = "running"]
                /\ UNCHANGED lease

RunEnds(d) == /\ run[d] = "running"
              /\ run' = [run EXCEPT ![d] = "ended"]
              /\ UNCHANGED lease

Next == \E d \in Dispatches :
          Lease(d) \/ Accept(d) \/ End(d) \/ GiveBack(d) \/ RunStarts(d) \/ RunEnds(d)

Spec == Init /\ [][Next]_lifeVars

=============================================================================
