------------------------------- MODULE BoundedRun -------------------------------
(***************************************************************************)
(* What one execution promises (ADR-009, ADR-012): it calls the executor's *)
(* model, then perhaps the challenger's, then perhaps the executor's once  *)
(* more, and ends once, with a result or with a failure, for good.         *)
(***************************************************************************)
EXTENDS Naturals, Sequences

VARIABLES calls, verdict

bounded == <<calls, verdict>>

Order == <<"executor", "challenger", "executor">>

Init == calls = <<>> /\ verdict = "running"

Call ==
    /\ verdict = "running"
    /\ Len(calls) < Len(Order)
    /\ calls' = Append(calls, Order[Len(calls) + 1])
    /\ UNCHANGED verdict

End ==
    /\ verdict = "running"
    /\ verdict' \in {"result", "failure"}
    /\ UNCHANGED calls

Next == Call \/ End

Spec == Init /\ [][Next]_bounded
=============================================================================
