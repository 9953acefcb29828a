----------------------------- MODULE ReplayResume -----------------------------
(***************************************************************************)
(* Replay and resume of runbook runs from their checkpoints                *)
(* (core/replay_resume.py). Each invocation is a CLI process with a fresh  *)
(* run_id: it reads and validates the source run's checkpoint, executes    *)
(* the steps from its start index through runbook_runner.run, and writes   *)
(* one terminal checkpoint under its own run_id. Invocations may overlap   *)
(* and may be killed at any point.                                         *)
(*                                                                         *)
(* Nothing in the repository writes the checkpoint of an original run: it  *)
(* is any file ADR-019 allows, or none, or a damaged one.                  *)
(***************************************************************************)
EXTENDS Naturals, FiniteSets

CONSTANTS
    Runs,           \* run_ids of replay and resume invocations
    Original,       \* run_id of the original run
    TotalSteps,     \* steps of the runbook
    Failures,       \* RuntimeFailure envelopes
    NoFailure,      \* an exception without one, or no exception
    NoStep,         \* None, where a step index may stand
    NoRun,          \* no run_id
    Absent,         \* no checkpoint file
    Damaged         \* a file that fails the checks on schema and identity

ASSUME TotalStepsAssumption == TotalSteps \in Nat \ {0}
ASSUME RunsAssumption == Original \notin Runs /\ NoRun \notin Runs \cup {Original}
ASSUME NoStepAssumption == NoStep \notin Nat
ASSUME NoFailureAssumption == NoFailure \notin Failures

AllRuns == Runs \cup {Original}
StepIndex == 0..(TotalSteps - 1)

Checkpoint ==
    [status : {"in_progress", "completed", "failed"},
     steps_completed : 0..TotalSteps,
     last_completed : StepIndex \cup {NoStep},
     failed_step : StepIndex \cup {NoStep},
     failure : Failures \cup {NoFailure}]

ASSUME CheckpointAssumption == {Absent, Damaged} \cap Checkpoint = {}
                               /\ Absent # Damaged

VARIABLES
    ckpt,       \* the checkpoint file of each run
    pc,         \* where each invocation stands
    mode,       \* "replay" or "resume"
    source,     \* source_run_id
    start,      \* start_index
    done,       \* steps this invocation completed
    failure,    \* the failure of the step that raised
    outcome,    \* what the invocation reported
    covered     \* history: steps completed by a run or by those it resumes

vars == <<ckpt, pc, mode, source, start, done, failure, outcome, covered>>

PC == {"unused", "running", "failed", "completed", "ended"}
ErrorCode == {"CHECKPOINT_NOT_FOUND", "CHECKPOINT_INTEGRITY_ERROR",
              "RESUME_INVALID_STATE"}
ReportOf == ErrorCode \cup {"none", "success", "error", "raised"}

-----------------------------------------------------------------------------
LastOf(count) == IF count = 0 THEN NoStep ELSE count - 1

(* The checks of _load_and_validate_checkpoint on progress and failure     *)
(* fields; Damaged stands for a file that fails an earlier one.            *)
ProgressConsistent(c) ==
    IF c.steps_completed = 0 THEN c.last_completed = NoStep
    ELSE c.last_completed \in StepIndex

FailureConsistent(c) ==
    c.status = "failed" => c.failure # NoFailure /\ c.failed_step # NoStep

Valid(c) == c \in Checkpoint /\ ProgressConsistent(c) /\ FailureConsistent(c)

(* What an original run may have left: ADR-019's progress and failure      *)
(* fields after some number of steps.                                      *)
InProgress(k) ==
    [status |-> "in_progress", steps_completed |-> k, last_completed |-> LastOf(k),
     failed_step |-> NoStep, failure |-> NoFailure]
FailedAt(k, f) ==
    [status |-> "failed", steps_completed |-> k, last_completed |-> LastOf(k),
     failed_step |-> k, failure |-> f]
Completed ==
    [status |-> "completed", steps_completed |-> TotalSteps,
     last_completed |-> TotalSteps - 1, failed_step |-> NoStep, failure |-> NoFailure]

OriginalLeaves ==
    {Absent, Damaged, Completed}
        \cup {InProgress(k) : k \in 0..TotalSteps}
        \cup {FailedAt(k, f) : k \in StepIndex, f \in Failures}

Init ==
    /\ \E c \in OriginalLeaves :
           /\ ckpt = [r \in AllRuns |-> IF r = Original THEN c ELSE Absent]
           /\ covered = [r \in AllRuns |->
                 IF r = Original /\ c \in Checkpoint
                 THEN {k \in StepIndex : k < c.steps_completed} ELSE {}]
    /\ pc = [r \in Runs |-> "unused"]
    /\ mode = [r \in Runs |-> "replay"]
    /\ source = [r \in Runs |-> NoRun]
    /\ start = [r \in Runs |-> 0]
    /\ done = [r \in Runs |-> 0]
    /\ failure = [r \in Runs |-> NoFailure]
    /\ outcome = [r \in Runs |-> "none"]

-----------------------------------------------------------------------------
(* Mutant: a failed step is not attempted again.                           *)
ResumeAfterFailedStep(c) ==
    IF c.status = "failed" THEN c.failed_step + 1
    ELSE IF c.last_completed = NoStep THEN 0 ELSE c.last_completed + 1

(* resume: the step after the last completed one of the source run.        *)
ResumeIndex(c) == IF c.last_completed = NoStep THEN 0 ELSE c.last_completed + 1

StartIndex(m, c) == IF m = "replay" THEN 0 ELSE ResumeIndex(c)

(* Why the checkpoint of the source run is refused before any step runs.   *)
Refusal(m, c) ==
    IF c = Absent THEN "CHECKPOINT_NOT_FOUND"
    ELSE IF ~Valid(c) THEN "CHECKPOINT_INTEGRITY_ERROR"
    ELSE IF m = "resume" /\ c.status = "completed" THEN "RESUME_INVALID_STATE"
    ELSE "none"

Refused(r, m, src) ==
    /\ pc[r] = "unused" /\ src # r
    /\ Refusal(m, ckpt[src]) # "none"
    /\ pc' = [pc EXCEPT ![r] = "ended"]
    /\ mode' = [mode EXCEPT ![r] = m]
    /\ source' = [source EXCEPT ![r] = src]
    /\ outcome' = [outcome EXCEPT ![r] = Refusal(m, ckpt[src])]
    /\ UNCHANGED <<ckpt, start, done, failure, covered>>

(* The source checkpoint is accepted. A resume after the last step has an  *)
(* empty slice, and does not call the runner.                              *)
Begin(r, m, src) ==
    /\ pc[r] = "unused" /\ src # r
    /\ Refusal(m, ckpt[src]) = "none"
    /\ mode' = [mode EXCEPT ![r] = m]
    /\ source' = [source EXCEPT ![r] = src]
    /\ start' = [start EXCEPT ![r] = StartIndex(m, ckpt[src])]
    /\ pc' = [pc EXCEPT ![r] =
                 IF start'[r] < TotalSteps THEN "running" ELSE "completed"]
    /\ covered' = [covered EXCEPT ![r] = IF m = "resume" THEN covered[src] ELSE {}]
    /\ UNCHANGED <<ckpt, done, failure, outcome>>

(* runbook_runner.run on the slice, one step at a time.                    *)
StepCompletes(r) ==
    /\ pc[r] = "running"
    /\ done' = [done EXCEPT ![r] = done[r] + 1]
    /\ covered' = [covered EXCEPT ![r] = covered[r] \cup {start[r] + done[r]}]
    /\ pc' = [pc EXCEPT ![r] =
                 IF start[r] + done[r] + 1 < TotalSteps THEN "running" ELSE "completed"]
    /\ UNCHANGED <<ckpt, mode, source, start, failure, outcome>>

StepRaises(r, f) ==
    /\ pc[r] = "running"
    /\ failure' = [failure EXCEPT ![r] = f]
    /\ pc' = [pc EXCEPT ![r] = "failed"]
    /\ UNCHANGED <<ckpt, mode, source, start, done, outcome, covered>>

(* Mutant: the index of the step after the last completed one.             *)
LastCompletedPastEnd(r) == IF done[r] = 0 THEN NoStep ELSE start[r] + done[r]

(* Mutant: the progress of the resumed run is carried over.                *)
LastCompletedInherited(r) ==
    IF start[r] + done[r] = 0 THEN NoStep ELSE start[r] + done[r] - 1

(* Mutant: the index within the slice, not within the runbook.             *)
LastCompletedOfSlice(r) == IF done[r] = 0 THEN NoStep ELSE done[r] - 1

(* The terminal checkpoint: steps_completed counts this run's own steps,   *)
(* the indices are those of the whole runbook.                             *)
LastCompletedIndex(r) == IF done[r] = 0 THEN NoStep ELSE start[r] + done[r] - 1

TerminalCheckpoint(r) ==
    [status |-> pc[r],
     steps_completed |-> done[r],
     last_completed |-> LastCompletedIndex(r),
     failed_step |-> IF pc[r] = "failed" THEN start[r] + done[r] ELSE NoStep,
     failure |-> failure[r]]

(* Mutant: the checkpoint is written under source_run_id.                  *)
WriteToSource(r) ==
    /\ pc[r] \in {"failed", "completed"}
    /\ ckpt' = [ckpt EXCEPT ![source[r]] = TerminalCheckpoint(r)]
    /\ outcome' = [outcome EXCEPT ![r] = IF pc[r] = "completed" THEN "success" ELSE "error"]
    /\ pc' = [pc EXCEPT ![r] = "ended"]
    /\ UNCHANGED <<mode, source, start, done, failure, covered>>

(* _write_checkpoint_atomic writes a temporary file of its own and renames *)
(* it: the checkpoint appears whole or not at all.                         *)
WriteCheckpoint(r) ==
    /\ pc[r] \in {"failed", "completed"}
    /\ ckpt' = [ckpt EXCEPT ![r] = TerminalCheckpoint(r)]
    /\ outcome' = [outcome EXCEPT ![r] = IF pc[r] = "completed" THEN "success" ELSE "error"]
    /\ pc' = [pc EXCEPT ![r] = "ended"]
    /\ UNCHANGED <<mode, source, start, done, failure, covered>>

(* Mutant: a failed write is ignored and the run reported.                 *)
WriteFailsSilently(r) ==
    /\ pc[r] \in {"failed", "completed"}
    /\ outcome' = [outcome EXCEPT ![r] = IF pc[r] = "completed" THEN "success" ELSE "error"]
    /\ pc' = [pc EXCEPT ![r] = "ended"]
    /\ UNCHANGED <<ckpt, mode, source, start, done, failure, covered>>

(* The storage root is missing or full: the exception escapes the command. *)
WriteFails(r) ==
    /\ pc[r] \in {"failed", "completed"}
    /\ outcome' = [outcome EXCEPT ![r] = "raised"]
    /\ pc' = [pc EXCEPT ![r] = "ended"]
    /\ UNCHANGED <<ckpt, mode, source, start, done, failure, covered>>

(* The process is killed, in a step or before its checkpoint is in place.  *)
Killed(r) ==
    /\ pc[r] \in {"running", "failed", "completed"}
    /\ pc' = [pc EXCEPT ![r] = "ended"]
    /\ UNCHANGED <<ckpt, mode, source, start, done, failure, outcome, covered>>

Invoke(r) ==
    \E m \in {"replay", "resume"}, src \in AllRuns :
        Refused(r, m, src) \/ Begin(r, m, src)

Execute(r) ==
    \/ StepCompletes(r)
    \/ \E f \in Failures \cup {NoFailure} : StepRaises(r, f)
    \/ WriteCheckpoint(r)
    \/ WriteFails(r)

Next == \E r \in Runs : Invoke(r) \/ Execute(r) \/ Killed(r)

Spec == Init /\ [][Next]_vars

-----------------------------------------------------------------------------
(* Properties.                                                             *)

(* Every variable has its type.                                            *)
TypeOK ==
    /\ ckpt \in [AllRuns -> Checkpoint \cup {Absent, Damaged}]
    /\ pc \in [Runs -> PC]
    /\ mode \in [Runs -> {"replay", "resume"}]
    /\ source \in [Runs -> AllRuns \cup {NoRun}]
    /\ start \in [Runs -> 0..TotalSteps]
    /\ done \in [Runs -> 0..TotalSteps]
    /\ failure \in [Runs -> Failures \cup {NoFailure}]
    /\ outcome \in [Runs -> ReportOf]
    /\ covered \in [AllRuns -> SUBSET StepIndex]

(* ADR-020 7.3: a run that reports success has completed every step of the *)
(* runbook, itself or through the chain of runs it resumed, however often  *)
(* the chain was broken by failures, kills and failed writes.              *)
CompletedCoversRunbook ==
    \A r \in Runs : outcome[r] = "success" => covered[r] = StepIndex

(* A checkpoint never promises more progress than was made: a resume of    *)
(* it skips no step that no run of the chain completed.                    *)
ResumeSkipsNothing ==
    \A r \in AllRuns :
        ckpt[r] \in Checkpoint =>
            \A k \in StepIndex : k < ResumeIndex(ckpt[r]) => k \in covered[r]

(* A resumed run that failed at its first step. Its checkpoint counts no   *)
(* completed step and has no last one.                                     *)
Barren(r) ==
    /\ ckpt[r] # Absent /\ ckpt[r].status = "failed"
    /\ start[r] > 0 /\ done[r] = 0

(* A resume goes on exactly where its chain of runs stands: it skips no    *)
(* step that is missing and executes none again that was completed. Only   *)
(* a barren resume can change that: one of it begins the runbook anew.     *)
ResumeContinues ==
    [][\A r \in Runs :
         (/\ pc[r] = "unused" /\ pc'[r] \in {"running", "completed"}
          /\ mode'[r] = "resume"
          /\ \A q \in Runs : ~Barren(q))
         => covered[source'[r]] = {k \in StepIndex : k < start'[r]}]_vars

(* An invocation that began and has no checkpoint: it is under way, was    *)
(* killed, or could not write one.                                         *)
Unrecorded(r) == pc[r] # "unused" /\ outcome[r] \in {"none", "raised"} /\ ckpt[r] = Absent

(* What a kill or a failed write loses is lost for this invocation only:   *)
(* whatever other invocations did meanwhile, the source is still accepted, *)
(* and another attempt starts no earlier than the lost one did.            *)
RetriesLoseNothing ==
    \A r \in Runs :
        Unrecorded(r) =>
            /\ Refusal("replay", ckpt[source[r]]) = "none"
            /\ start[r] <= StartIndex(mode[r], ckpt[source[r]])

(* A checkpoint whose run failed with a RuntimeFailure, or not at all, is  *)
(* accepted by the reader: it can be replayed, and resumed unless it is    *)
(* completed.                                                              *)
ClassifiedCheckpointsLoad ==
    \A r \in Runs :
        ckpt[r] # Absent /\ (ckpt[r].status = "failed" => ckpt[r].failure # NoFailure)
            => Valid(ckpt[r])

(* A run is known to have ended well or badly only if its checkpoint says  *)
(* the same: a reported outcome is never lost.                             *)
ReportedIsRecorded ==
    \A r \in Runs :
        /\ outcome[r] = "success" => ckpt[r] # Absent /\ ckpt[r].status = "completed"
        /\ outcome[r] = "error" => ckpt[r] # Absent /\ ckpt[r].status = "failed"

(* A resume of a failed run re-attempts the step that failed.              *)
ResumeRetriesFailedStep ==
    [][\A r \in Runs :
         (/\ pc[r] = "unused" /\ pc'[r] # pc[r] /\ mode'[r] = "resume"
          /\ pc'[r] # "ended"
          /\ ckpt[source'[r]].status = "failed")
         => start'[r] = ckpt[source'[r]].failed_step]_vars
=============================================================================
