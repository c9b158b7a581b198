--------------------------- MODULE EvaluationDuty ---------------------------
(***************************************************************************)
(* What the background jobs owe the lots: whatever is registered is        *)
(* evaluated in the end, and an evaluation is never taken back.            *)
(***************************************************************************)
CONSTANT Lots
VARIABLE lots   \* per lot: "none", "stale" (not evaluated), "current"

Init == lots = [l \in Lots |-> "none"]

Register(l) == lots[l] = "none" /\ lots' = [lots EXCEPT ![l] = "stale"]
Evaluate(l) == lots[l] = "stale" /\ lots' = [lots EXCEPT ![l] = "current"]

Next == \E l \in Lots : Register(l) \/ Evaluate(l)

Duty == Init /\ [][Next]_lots
Diligence == \A l \in Lots : WF_lots(Evaluate(l))
Spec == Duty /\ Diligence
=============================================================================
