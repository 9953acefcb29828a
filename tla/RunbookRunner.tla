---------------------------- MODULE RunbookRunner ----------------------------
(***************************************************************************)
(* One execution of a runbook (core/runbook_runner.py): run for a Runbook, *)
(* run_with_context for a ConditionalRunbook, whose steps may carry a      *)
(* condition on the session's context. A step is one orchestrator.run      *)
(* call, which returns or raises; the exception may carry a RuntimeFailure *)
(* or none.                                                                *)
(***************************************************************************)
EXTENDS Naturals, Sequences, FiniteSets

CONSTANTS
    MaxSteps,       \* RUNBOOK_MAX_STEPS
    Values,         \* values of a context field, and of a condition
    Failures,       \* RuntimeFailure envelopes
    NoFailure,      \* an exception without one, or no exception
    Always,         \* when = None: the step has no condition
    NoIndex,        \* an event or a result without a step index
    NoResult        \* the runner has not returned

ASSUME MaxStepsAssumption == MaxSteps \in Nat \ {0}
ASSUME NoIndexAssumption == NoIndex \notin Nat

ContextKey == {"session_mode", "persona_mode"}
WhenContext == [ContextKey -> Values]
WhenCondition == [key : ContextKey, op : {"eq", "neq"}, value : Values]

ASSUME AlwaysAssumption == Always \notin WhenCondition

StepKind == {"runbook_step_started", "runbook_step_completed",
             "runbook_step_skipped", "runbook_step_failed"}
Terminal == {"runbook_completed", "runbook_terminated"}
EventKind == StepKind \cup Terminal \cup {"runbook_started"}
Event == [event : EventKind, step_index : Nat \cup {NoIndex}]

Outcome == [step_index : Nat, success : BOOLEAN, failure : Failures \cup {NoFailure}]
Result == [steps_completed : Nat, steps_skipped : Nat,
           failed_step_index : Nat \cup {NoIndex}, terminated_early : BOOLEAN]

ASSUME NoResultAssumption == NoResult \notin Result

VARIABLES
    conditional,    \* run_with_context, rather than run
    steps,          \* the condition of each step
    context,        \* the WhenContext, fixed for the run
    i,              \* the step the loop stands at, from 0
    pc,             \* "loop", "step" (inside orchestrator.run) or "returned"
    outcomes,       \* step_outcomes
    events,         \* the lifecycle projection
    skipped,        \* steps_skipped
    result          \* what the runner returned

vars == <<conditional, steps, context, i, pc, outcomes, events, skipped, result>>
input == <<conditional, steps, context>>

evaluate_when(condition, ctx) ==
    IF condition.op = "eq" THEN ctx[condition.key] = condition.value
    ELSE ctx[condition.key] # condition.value

Executes(when) == IF when = Always THEN TRUE ELSE evaluate_when(when, context)

StepEvent(kind, index) == [event |-> kind, step_index |-> index]
RunEvent(kind) == [event |-> kind, step_index |-> NoIndex]

(* Mutant: the outcomes are counted before the failed one is recorded.     *)
CompletedBeforeRecord(recorded) == Len(outcomes) - 1

(* Mutant: the skipped steps count as completed.                           *)
CompletedCountsSkipped == Len(steps)

(* steps_completed of a failed run: run counts by its loop index,          *)
(* run_with_context by the outcomes it recorded, the failed one excluded.  *)
CompletedAtFailure(recorded) ==
    IF conditional THEN Len(recorded) - 1 ELSE i

(* steps_completed of a run that reached its end.                          *)
CompletedAtEnd == IF conditional THEN Len(outcomes) ELSE Len(steps)

Init ==
    /\ conditional \in BOOLEAN
    /\ \E n \in 1..MaxSteps :
           steps \in [1..n -> IF conditional THEN WhenCondition \cup {Always}
                              ELSE {Always}]
    /\ context \in WhenContext
    /\ i = 0 /\ pc = "loop"
    /\ outcomes = <<>> /\ skipped = 0
    /\ events = <<RunEvent("runbook_started")>>
    /\ result = NoResult

(* Mutant: the step is announced before its condition is evaluated.        *)
SkipAfterStarted ==
    /\ pc = "loop" /\ i < Len(steps)
    /\ ~Executes(steps[i + 1])
    /\ skipped' = skipped + 1
    /\ events' = Append(Append(events, StepEvent("runbook_step_started", i)),
                        StepEvent("runbook_step_skipped", i))
    /\ i' = i + 1
    /\ UNCHANGED <<input, pc, outcomes, result>>

SkipStep ==
    /\ pc = "loop" /\ i < Len(steps)
    /\ ~Executes(steps[i + 1])
    /\ skipped' = skipped + 1
    /\ events' = Append(events, StepEvent("runbook_step_skipped", i))
    /\ i' = i + 1
    /\ UNCHANGED <<input, pc, outcomes, result>>

StartStep ==
    /\ pc = "loop" /\ i < Len(steps)
    /\ Executes(steps[i + 1])
    /\ events' = Append(events, StepEvent("runbook_step_started", i))
    /\ pc' = "step"
    /\ UNCHANGED <<input, i, outcomes, skipped, result>>

StepCompletes ==
    /\ pc = "step"
    /\ outcomes' = Append(outcomes,
           [step_index |-> i, success |-> TRUE, failure |-> NoFailure])
    /\ events' = Append(events, StepEvent("runbook_step_completed", i))
    /\ i' = i + 1
    /\ pc' = "loop"
    /\ UNCHANGED <<input, skipped, result>>

(* Mutant: the loop goes on after a failed step.                           *)
StepRaisesContinues(failure) ==
    /\ pc = "step"
    /\ outcomes' = Append(outcomes,
           [step_index |-> i, success |-> FALSE, failure |-> failure])
    /\ events' = Append(events, StepEvent("runbook_step_failed", i))
    /\ i' = i + 1
    /\ pc' = "loop"
    /\ UNCHANGED <<input, skipped, result>>

(* Mutant: terminated_early is left at its default.                        *)
StepRaisesNotEarly(failure) ==
    /\ pc = "step"
    /\ outcomes' = Append(outcomes,
           [step_index |-> i, success |-> FALSE, failure |-> failure])
    /\ events' = Append(Append(events, StepEvent("runbook_step_failed", i)),
                        RunEvent("runbook_terminated"))
    /\ result' = [steps_completed |-> CompletedAtFailure(outcomes'),
                  steps_skipped |-> skipped,
                  failed_step_index |-> i, terminated_early |-> FALSE]
    /\ pc' = "returned"
    /\ UNCHANGED <<input, i, skipped>>

StepRaises(failure) ==
    /\ pc = "step"
    /\ outcomes' = Append(outcomes,
           [step_index |-> i, success |-> FALSE, failure |-> failure])
    /\ events' = Append(Append(events, StepEvent("runbook_step_failed", i)),
                        RunEvent("runbook_terminated"))
    /\ result' = [steps_completed |-> CompletedAtFailure(outcomes'),
                  steps_skipped |-> skipped,
                  failed_step_index |-> i, terminated_early |-> TRUE]
    /\ pc' = "returned"
    /\ UNCHANGED <<input, i, skipped>>

(* Mutant: the run completes past its last step, which it never reaches.   *)
RunCompletesPastEnd ==
    /\ pc = "loop" /\ i > Len(steps)
    /\ events' = Append(events, RunEvent("runbook_completed"))
    /\ result' = [steps_completed |-> CompletedAtEnd,
                  steps_skipped |-> skipped,
                  failed_step_index |-> NoIndex, terminated_early |-> FALSE]
    /\ pc' = "returned"
    /\ UNCHANGED <<input, i, outcomes, skipped>>

RunCompletes ==
    /\ pc = "loop" /\ i = Len(steps)
    /\ events' = Append(events, RunEvent("runbook_completed"))
    /\ result' = [steps_completed |-> CompletedAtEnd,
                  steps_skipped |-> skipped,
                  failed_step_index |-> NoIndex, terminated_early |-> FALSE]
    /\ pc' = "returned"
    /\ UNCHANGED <<input, i, outcomes, skipped>>

Next ==
    \/ SkipStep
    \/ StartStep
    \/ StepCompletes
    \/ \E failure \in Failures \cup {NoFailure} : StepRaises(failure)
    \/ RunCompletes

(* The runner is one loop in one thread, and an orchestrator call returns  *)
(* or raises: as long as it can take a step it does.                       *)
Fairness == WF_vars(Next)

Spec == Init /\ [][Next]_vars
FairSpec == Spec /\ Fairness

-----------------------------------------------------------------------------
(* Properties.                                                             *)

(* Every variable has its type.                                            *)
TypeOK ==
    /\ conditional \in BOOLEAN
    /\ steps \in Seq(WhenCondition \cup {Always})
    /\ Len(steps) \in 1..MaxSteps
    /\ context \in WhenContext
    /\ i \in 0..Len(steps)
    /\ pc \in {"loop", "step", "returned"}
    /\ outcomes \in Seq(Outcome)
    /\ events \in Seq(Event)
    /\ skipped \in Nat
    /\ result \in Result \cup {NoResult}

Emitted(kind) == {k \in 1..Len(events) : events[k].event = kind}

(* What the runner reports is what it emitted: the counts of completed and *)
(* skipped steps are the numbers of their events, and together with the    *)
(* failed step they account for every step up to where the run ended. Both *)
(* runners are covered; they count steps_completed in different ways.      *)
ResultMatchesEvents ==
    result # NoResult =>
        /\ result.steps_completed = Cardinality(Emitted("runbook_step_completed"))
        /\ result.steps_skipped = Cardinality(Emitted("runbook_step_skipped"))
        /\ result.steps_completed + result.steps_skipped =
               IF result.terminated_early THEN result.failed_step_index
               ELSE Len(steps)

(* ADR-015's order of lifecycle events, as a relation between an event and *)
(* the next one: a started step completes or fails before anything else is *)
(* emitted, steps come in declared order, and a terminal event comes last. *)
Reaches(e, index) ==
    \/ e.event = "runbook_started" /\ index = 0
    \/ /\ e.event \in {"runbook_step_completed", "runbook_step_skipped"}
       /\ index = e.step_index + 1

MayFollow(e, f) ==
    \/ /\ f.event \in {"runbook_step_started", "runbook_step_skipped"}
       /\ f.step_index < Len(steps) /\ Reaches(e, f.step_index)
    \/ /\ f.event \in {"runbook_step_completed", "runbook_step_failed"}
       /\ e = StepEvent("runbook_step_started", f.step_index)
    \/ f.event = "runbook_completed" /\ Reaches(e, Len(steps))
    \/ f.event = "runbook_terminated" /\ e.event = "runbook_step_failed"

(* The projection is ordered as ADR-015 says, and it ends with a terminal  *)
(* event exactly when the runner has returned.                             *)
EventsInOrder ==
    /\ events[1] = RunEvent("runbook_started")
    /\ \A k \in 1..(Len(events) - 1) : MayFollow(events[k], events[k + 1])
    /\ events[Len(events)].event \in Terminal <=> result # NoResult

(* Nothing a step returns or raises decides which steps run: the executed  *)
(* steps are those the context selects, in order, up to where the run      *)
(* stands; only the last one may have failed.                              *)
ContextDecides ==
    /\ \A k \in 1..i : Executes(steps[k])
           <=> \E o \in 1..Len(outcomes) : outcomes[o].step_index = k - 1
                                           /\ outcomes[o].success
    /\ \A o \in 1..Len(outcomes) :
           /\ Executes(steps[outcomes[o].step_index + 1])
           /\ o < Len(outcomes) =>
                  /\ outcomes[o].success
                  /\ outcomes[o].step_index < outcomes[o + 1].step_index

(* The run keeps ADR-014's promise.                                        *)
Promise ==
    INSTANCE FailFast WITH
        total <- Len(steps),
        passed <- i,
        verdict <- IF result = NoResult THEN "running"
                   ELSE IF result.terminated_early THEN "failed" ELSE "completed"

(* The runner implements the fail-fast promise of ADR-014.                 *)
KeepsPromise == Promise!Spec

(* Every run returns.                                                      *)
Returns == <>(pc = "returned")
=============================================================================
