----------------------------- MODULE StewardGate -----------------------------
(***************************************************************************)
(* The steward approval gate of core/session_mode.py: the thresholds an    *)
(* operator declares, and the decision the gate takes at a step boundary.  *)
(* Pure operators; the modules that run turns decide what to pass in.      *)
(***************************************************************************)
EXTENDS Naturals

SessionMode == {"work", "steward"}

(***************************************************************************)
(* StewardThresholds. An undeclared step_count or token_budget (None in    *)
(* the code) is written 0: load_steward_thresholds rejects a declared      *)
(* value that is not positive, so 0 stands for nothing else.               *)
(***************************************************************************)
Declared(bound) == bound > 0

ThresholdKey == {"step_count", "token_budget", "capability_classes"}
NoPause == "none"

(* Mutant: fires once the count is exceeded.                               *)
StepCountExceeded(thresholds, step_index) ==
    /\ Declared(thresholds.step_count)
    /\ step_index + 1 > thresholds.step_count

StepCountFires(thresholds, step_index) ==
    /\ Declared(thresholds.step_count)
    /\ (step_index + 1) % thresholds.step_count = 0

TokenBudgetFires(thresholds, cumulative_tokens) ==
    /\ Declared(thresholds.token_budget)
    /\ cumulative_tokens > thresholds.token_budget

CapabilityFires(thresholds, invoked) ==
    invoked \cap thresholds.capability_classes # {}

(* The first threshold that fires wins, in the order the code tests them.  *)
EvaluateThresholds(thresholds, step_index, cumulative_tokens, invoked) ==
    IF StepCountFires(thresholds, step_index) THEN "step_count"
    ELSE IF TokenBudgetFires(thresholds, cumulative_tokens) THEN "token_budget"
    ELSE IF CapabilityFires(thresholds, invoked) THEN "capability_classes"
    ELSE NoPause

(* StewardGate.check: open in work mode, whatever the thresholds say.      *)
GateCheck(mode, thresholds, step_index, cumulative_tokens, invoked) ==
    IF mode # "steward" THEN NoPause
    ELSE EvaluateThresholds(thresholds, step_index, cumulative_tokens, invoked)
=============================================================================
