------------------------------- MODULE FailFast -------------------------------
(***************************************************************************)
(* What a runbook run promises (ADR-014): its steps are passed strictly in *)
(* order, one at a time; the first failure ends the run, with no retry and *)
(* no later step; and the run completes only when every step was passed.   *)
(***************************************************************************)
EXTENDS Naturals

CONSTANT MaxSteps       \* RUNBOOK_MAX_STEPS

VARIABLES total, passed, verdict

promise == <<total, passed, verdict>>

Init ==
    /\ total \in 1..MaxSteps
    /\ passed = 0
    /\ verdict = "running"

Pass ==
    /\ verdict = "running" /\ passed < total
    /\ passed' = passed + 1
    /\ UNCHANGED <<total, verdict>>

Fail ==
    /\ verdict = "running" /\ passed < total
    /\ verdict' = "failed"
    /\ UNCHANGED <<total, passed>>

Complete ==
    /\ verdict = "running" /\ passed = total
    /\ verdict' = "completed"
    /\ UNCHANGED <<total, passed>>

Next == Pass \/ Fail \/ Complete

Spec == Init /\ [][Next]_promise
=============================================================================
