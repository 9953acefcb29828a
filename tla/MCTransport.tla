------------------------------ MODULE MCTransport ------------------------------
(***************************************************************************)
(* Transport with a gate that fires after every turn of a steward session  *)
(* and a ceiling of two turns.                                             *)
(***************************************************************************)
EXTENDS Transport

EveryTurn == [step_count |-> 1, token_budget |-> 0, capability_classes |-> {}]
=============================================================================
