------------------------------ MODULE MCSession ------------------------------
(***************************************************************************)
(* DialogueSession on small instances.                                     *)
(***************************************************************************)
EXTENDS DialogueSession, TLC

(* step_count: 2 in runtime.yaml, and nothing else declared.               *)
EveryTwo == [step_count |-> 2, token_budget |-> 0, capability_classes |-> {}]
(* step_count: 1: every turn needs an approval.                            *)
EveryOne == [step_count |-> 1, token_budget |-> 0, capability_classes |-> {}]
(* token_budget: 1, and nothing else declared.                             *)
BudgetOne == [step_count |-> 0, token_budget |-> 1, capability_classes |-> {}]

Symmetry == Permutations(Clients)
=============================================================================
