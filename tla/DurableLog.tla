----------------------------- MODULE DurableLog -----------------------------
(***************************************************************************)
(* What the store promises its callers: a log of transactions that only    *)
(* grows.  A transaction acknowledged with ok is in it at once and for     *)
(* ever; one that was declined never is; one that returned an error, or    *)
(* whose answer was lost, may still turn up at a restart, once, as the     *)
(* next entry.                                                             *)
(***************************************************************************)
EXTENDS Sequences, SequencesExt

CONSTANT Tx

VARIABLES log, outcome

logVars == <<log, outcome>>

LogInit == log = <<>> /\ outcome = [t \in Tx |-> "none"]

Becomes(t, old, new) == outcome[t] = old /\ outcome' = [outcome EXCEPT ![t] = new]

Refuse(t) == Becomes(t, "none", "declined") /\ UNCHANGED log
Submit(t) == Becomes(t, "none", "running") /\ UNCHANGED log
Ack(t)    == Becomes(t, "running", "ok") /\ log' = Append(log, t)
Error(t)  == Becomes(t, "running", "error") /\ UNCHANGED log

Lose ==
  /\ outcome' = [t \in Tx |-> IF outcome[t] = "running" THEN "unknown" ELSE outcome[t]]
  /\ UNCHANGED log

Resurface(t) ==
  /\ outcome[t] \in {"error", "unknown"} /\ ~Contains(log, t)
  /\ log' = Append(log, t)
  /\ UNCHANGED outcome

LogNext ==
  \/ \E t \in Tx : Refuse(t) \/ Submit(t) \/ Ack(t) \/ Error(t) \/ Resurface(t)
  \/ Lose

LogSpec == LogInit /\ [][LogNext]_logVars

=============================================================================
