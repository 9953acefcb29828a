----------------------------- MODULE ExecutionTrace -----------------------------
(***************************************************************************)
(* The execution trace of one run (execution_trace.py): a status with four *)
(* values, two of them terminal, and the stages recorded so far.           *)
(***************************************************************************)
EXTENDS Sequences

CONSTANT Stages     \* names of stages

TraceStatus == {"created", "running", "completed", "failed"}
Trace == [status : TraceStatus, steps : Seq(Stages)]

NewTrace == [status |-> "created", steps |-> <<>>]

PermittedNext(status) ==
    CASE status = "created" -> {"running", "failed"}
      [] status = "running" -> {"completed", "failed"}
      [] OTHER -> {}

(* step() records nothing on a terminal trace.                             *)
CanStep(trace) == trace.status \in {"created", "running"}

(* The step starts a trace that is not running yet, and is recorded        *)
(* whether its body returns or raises.                                     *)
Begun(trace) == [trace EXCEPT !.status = "running"]
Recorded(trace, stage) ==
    [trace EXCEPT !.status = "running", !.steps = Append(@, stage)]

Completed(trace) == [trace EXCEPT !.status = "completed"]

Failed(trace) ==
    IF "failed" \in PermittedNext(trace.status) THEN [trace EXCEPT !.status = "failed"]
    ELSE trace
=============================================================================
