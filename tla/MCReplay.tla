------------------------------- MODULE MCReplay -------------------------------
(***************************************************************************)
(* ReplayResume on small instances. The run_ids of invocations are         *)
(* interchangeable; the original run is not one of them.                   *)
(***************************************************************************)
EXTENDS ReplayResume, TLC

Symmetry == Permutations(Runs)
=============================================================================
