--------------------------------- MODULE Engine ---------------------------------
(***************************************************************************)
(* One governed run: engine.run and its three callers, the orchestrator    *)
(* and the commands run and capability. A run resolves its route, may      *)
(* invoke one capability in a thread of its own under a timeout, calls the *)
(* executor's model, may have it audited by the challenger and revised     *)
(* once, and returns a result or raises. The trace, the lifecycle events,  *)
(* the failure envelope and the metadata record tell what happened.        *)
(***************************************************************************)
EXTENDS Routing, FailureModel, Sequences, FiniteSets

CONSTANTS
    Tasks,          \* what callers ask for
    Configs,        \* routing tables and enabled providers
    NoExc,          \* no exception in flight
    NoFailure,      \* an exception without an envelope
    NoOutcome       \* the run has not ended

Stage == {"capability_execution", "provider_run", "context_assembly",
          "provider_inference", "challenger_audit", "revision_inference"}

Tr == INSTANCE ExecutionTrace WITH Stages <- Stage

Caller == {"orchestrator", "run", "capability"}

(* capabilities is the number declared; the booleans say whether the       *)
(* payload is a JSON object, whether the integrity check and the health    *)
(* check are asked for, and whether the provider is reachable then.        *)
Task == [caller : Caller, audit : BOOLEAN, capabilities : 0..2, payload_ok : BOOLEAN,
         checked : BOOLEAN, health_check : BOOLEAN, reachable : BOOLEAN]

ASSUME TasksAssumption ==
    /\ Tasks \subseteq Task
    /\ \A t \in Tasks : /\ t.caller = "capability" => t.capabilities = 1 /\ ~t.audit
                        /\ t.caller = "run" => t.capabilities \in 0..1
ASSUME ConfigsAssumption == Configs \subseteq Config

MAX_AUDIT_PASSES == 1
MAX_REVISION_PASSES == 1

(* A challenger may put any verdict in its JSON object.                    *)
Verdict == {"none", "pass", "needs_work", "other"}
AuditGate == [audit_passes : Nat, revision_passes : Nat,
              audit_verdict : Verdict, revised : BOOLEAN]

EventKind == {"engine_run_started", "route_resolved", "provider_execution_complete",
              "challenger_audit_complete", "revision_complete", "output_emitted",
              "engine_run_complete", "engine_run_failed"}

Result == [provider : {"null", "ollama"}, audit : AuditGate, trace : Tr!Trace]
Outcome == [ok : {TRUE}, result : Result]
           \cup [ok : {FALSE}, failure : Failure \cup {NoFailure}]

ASSUME NoOutcomeAssumption == NoOutcome \notin Outcome
ASSUME NoExcAssumption == NoExc \notin Exc
ASSUME NoFailureAssumption == NoFailure \notin Failure

VARIABLES
    task, cfg,      \* what was asked for, and under which configuration
    pc,             \* where the run stands
    phase,          \* _phase, the hint for the classification
    trace,          \* the TraceRecorder
    events,         \* the EngineObservabilityLog
    thread,         \* the capability's thread: "none", "running" or "over"
    capMeta,        \* capability_meta: "none", "clean" or "forbidden"
    calls,          \* the model calls made, by role
    audit,          \* audit_passes, revision_passes and audit_meta
    exc,            \* the exception on its way to the handler
    outcome,        \* what the caller of the run gets
    log             \* statuses of the run's metadata records

input == <<task, cfg>>
report == <<trace, events>>
vars == <<task, cfg, pc, phase, trace, events, thread, capMeta, calls, audit,
          exc, outcome, log>>

(* A capability-only run takes the null provider without a route.          *)
route ==
    IF task.caller = "capability"
    THEN [NullRoute EXCEPT !.fallback_used = FALSE]
    ELSE resolve_route(cfg, "executor")

challenger_route == resolve_route(cfg, "challenger")

NoAudit == [audit_passes |-> 0, revision_passes |-> 0,
            audit_verdict |-> "none", revised |-> FALSE]

Init ==
    /\ task \in Tasks /\ cfg \in Configs
    /\ pc = "called" /\ phase = "setup"
    /\ trace = Tr!NewTrace /\ events = <<>>
    /\ thread = "none" /\ capMeta = "none"
    /\ calls = <<>> /\ audit = NoAudit
    /\ exc = NoExc /\ outcome = NoOutcome
    /\ log = <<>>

-----------------------------------------------------------------------------
(* Callers.                                                                *)

(* What each caller checks before it hands the run to the engine.          *)
OrchestratorAccepts == task.capabilities <= 1 /\ ~route.error

HealthCheckFails == route.provider = "ollama" /\ task.health_check /\ ~task.reachable

(* Mutant: the table is only checked together with the provider's health.  *)
RunAcceptsWithHealthOnly ==
    /\ task.checked /\ task.health_check => ConstellationOK(cfg)
    /\ ~route.error /\ ~HealthCheckFails
    /\ task.capabilities = 1 => task.payload_ok

RunAccepts ==
    /\ task.checked => ConstellationOK(cfg)
    /\ ~route.error /\ ~HealthCheckFails
    /\ task.capabilities = 1 => task.payload_ok

CapabilityAccepts == task.payload_ok

Accepted ==
    CASE task.caller = "orchestrator" -> OrchestratorAccepts
      [] task.caller = "run" -> RunAccepts
      [] task.caller = "capability" -> CapabilityAccepts

(* The command run records an unreachable provider; nothing else that is   *)
(* refused before the engine runs leaves a record.                         *)
Unreachable ==
    /\ task.caller = "run"
    /\ task.checked => ConstellationOK(cfg)
    /\ ~route.error /\ HealthCheckFails

EngineRuns ==
    /\ pc = "called" /\ Accepted
    /\ pc' = IF task.capabilities = 1 THEN "capability" ELSE "dispatch"
    /\ events' = <<"engine_run_started">>
    /\ UNCHANGED <<input, phase, trace, thread, capMeta, calls, audit, exc, outcome, log>>

Refuses ==
    /\ pc = "called" /\ ~Accepted
    /\ pc' = "over"
    /\ outcome' = [ok |-> FALSE, failure |-> NoFailure]
    /\ log' = IF Unreachable THEN <<"error">> ELSE <<>>
    /\ UNCHANGED <<input, phase, report, thread, capMeta, calls, audit, exc>>

-----------------------------------------------------------------------------
(* The capability block.                                                   *)

Raise(type, code, place) ==
    /\ exc' = [type |-> type, code |-> code, at |-> place]
    /\ pc' = "except"

(* The payload is checked before the trace step begins.                    *)
PayloadInvalid ==
    /\ pc = "capability" /\ ~task.payload_ok
    /\ phase' = "capability"
    /\ Raise("ValueError", "CAPABILITY", "payload")
    /\ UNCHANGED <<input, report, thread, capMeta, calls, audit, outcome, log>>

(* The capability is not registered, or its input is too long for it.      *)
LookupFails(type) ==
    /\ pc = "capability" /\ task.payload_ok
    /\ phase' = "capability"
    /\ trace' = Tr!Recorded(trace, "capability_execution")
    /\ Raise(type, "CAPABILITY", "lookup")
    /\ UNCHANGED <<input, events, thread, capMeta, calls, audit, outcome, log>>

InvokeCapability ==
    /\ pc = "capability" /\ task.payload_ok
    /\ phase' = "capability"
    /\ trace' = Tr!Begun(trace)
    /\ thread' = "running"
    /\ pc' = "waiting"
    /\ UNCHANGED <<input, events, capMeta, calls, audit, exc, outcome, log>>

(* The capability's own thread ends; what it left is read by the engine.   *)
CapabilityEnds ==
    /\ thread = "running"
    /\ thread' = "over"
    /\ UNCHANGED <<input, pc, phase, report, capMeta, calls, audit, exc, outcome, log>>

CapabilityReturns(output) ==
    /\ pc = "waiting" /\ thread = "over"
    /\ trace' = Tr!Recorded(trace, "capability_execution")
    /\ capMeta' = output
    /\ pc' = "dispatch"
    /\ UNCHANGED <<input, phase, events, thread, calls, audit, exc, outcome, log>>

(* The capability raised, or its output is too long.                       *)
CapabilityFails(type, code) ==
    /\ pc = "waiting" /\ thread = "over"
    /\ trace' = Tr!Recorded(trace, "capability_execution")
    /\ Raise(type, code, "capability")
    /\ UNCHANGED <<input, phase, events, thread, capMeta, calls, audit, outcome, log>>

(* fut.result gave up; the executor is left only when its thread has ended,*)
(* and what the capability then returns is dropped.                        *)
TimesOut ==
    /\ pc = "waiting" /\ thread = "running"
    /\ pc' = "leaving"
    /\ UNCHANGED <<input, phase, report, thread, capMeta, calls, audit, exc, outcome, log>>

(* Mutant: a run goes on without the capability that timed out.            *)
LeavesExecutorQuietly ==
    /\ pc = "leaving" /\ thread = "over"
    /\ trace' = Tr!Recorded(trace, "capability_execution")
    /\ pc' = "dispatch"
    /\ UNCHANGED <<input, phase, events, thread, capMeta, calls, audit, exc, outcome, log>>

LeavesExecutor ==
    /\ pc = "leaving" /\ thread = "over"
    /\ trace' = Tr!Recorded(trace, "capability_execution")
    /\ Raise("ValueError", "CAPABILITY", "timeout")
    /\ UNCHANGED <<input, phase, events, thread, capMeta, calls, audit, outcome, log>>

-----------------------------------------------------------------------------
(* Dispatch, the null provider and the executor's call.                    *)

(* Mutant: the phase is not reset after the capability block.              *)
DispatchKeepsPhase ==
    /\ pc = "dispatch"
    /\ events' = Append(events, "route_resolved")
    /\ pc' = IF route.provider = "ollama" THEN "prepare" ELSE "null"
    /\ UNCHANGED <<input, phase, trace, thread, capMeta, calls, audit, exc, outcome, log>>

Dispatch ==
    /\ pc = "dispatch"
    /\ phase' = "setup"
    /\ events' = Append(events, "route_resolved")
    /\ pc' = IF route.provider = "ollama" THEN "prepare" ELSE "null"
    /\ UNCHANGED <<input, trace, thread, capMeta, calls, audit, exc, outcome, log>>

NullProviderRuns ==
    /\ pc = "null"
    /\ trace' = Tr!Recorded(trace, "provider_run")
    /\ events' = Append(events, "provider_execution_complete")
    /\ pc' = "finish"
    /\ UNCHANGED <<input, phase, thread, capMeta, calls, audit, exc, outcome, log>>

(* The provider is built, the context assembled and its size checked.      *)
Prepares ==
    /\ pc = "prepare"
    /\ trace' = Tr!Recorded(trace, "context_assembly")
    /\ pc' = "provider"
    /\ UNCHANGED <<input, phase, events, thread, capMeta, calls, audit, exc, outcome, log>>

(* The provider cannot be built: no step is recorded.                      *)
PrepareFails ==
    /\ pc = "prepare"
    /\ Raise("Exception", "none", "prepare")
    /\ UNCHANGED <<input, phase, report, thread, capMeta, calls, audit, outcome, log>>

(* The assembled context is over the limit.                                *)
LimitExceeded ==
    /\ pc = "prepare"
    /\ trace' = Tr!Recorded(trace, "context_assembly")
    /\ Raise("ValueError", "CONTEXT", "limit")
    /\ UNCHANGED <<input, phase, events, thread, capMeta, calls, audit, outcome, log>>

(* What a model call may raise.                                            *)
ProviderFailure ==
    {<<"ProviderError", "PROVIDER_UNAVAILABLE">>, <<"ProviderError", "PROVIDER_OTHER">>,
     <<"Exception", "none">>}

(* Mutant: the first answer is dropped and the model asked again.          *)
ProviderAsksAgain ==
    /\ pc = "provider"
    /\ phase' = "provider"
    /\ calls' = calls \o <<"executor", "executor">>
    /\ trace' = Tr!Recorded(trace, "provider_inference")
    /\ events' = Append(events, "provider_execution_complete")
    /\ pc' = IF task.audit THEN "audit" ELSE "finish"
    /\ UNCHANGED <<input, thread, capMeta, audit, exc, outcome, log>>

ProviderAnswers ==
    /\ pc = "provider"
    /\ phase' = "provider"
    /\ calls' = Append(calls, "executor")
    /\ trace' = Tr!Recorded(trace, "provider_inference")
    /\ events' = Append(events, "provider_execution_complete")
    /\ pc' = IF task.audit THEN "audit" ELSE "finish"
    /\ UNCHANGED <<input, thread, capMeta, audit, exc, outcome, log>>

ProviderFails(f) ==
    /\ pc = "provider"
    /\ phase' = "provider"
    /\ calls' = Append(calls, "executor")
    /\ trace' = Tr!Recorded(trace, "provider_inference")
    /\ Raise(f[1], f[2], "provider")
    /\ UNCHANGED <<input, events, thread, capMeta, audit, outcome, log>>

-----------------------------------------------------------------------------
(* Audit and revision.                                                     *)

ChallengerCalled ==
    ~challenger_route.error /\ challenger_route.provider = "ollama"

(* The pass that _do_challenger_pass reports; the limit is tested before,  *)
(* and only a verdict of needs_work asks for a revision.                   *)
Audited(verdict) ==
    /\ audit' = [audit EXCEPT !.audit_passes = @ + 1, !.audit_verdict = verdict]
    /\ trace' = Tr!Recorded(trace, "challenger_audit")
    /\ events' = Append(events, "challenger_audit_complete")
    /\ pc' = IF verdict = "needs_work" THEN "revise" ELSE "finish"

(* Mutant: a pass without a call is reported and not counted.              *)
ChallengerSkippedUncounted ==
    /\ pc = "audit" /\ audit.audit_passes < MAX_AUDIT_PASSES
    /\ ~challenger_route.error /\ challenger_route.provider # "ollama"
    /\ phase' = "audit"
    /\ events' = Append(events, "challenger_audit_complete")
    /\ pc' = "finish"
    /\ UNCHANGED <<input, trace, thread, capMeta, calls, audit, exc, outcome, log>>

(* No model for the challenger: the draft passes without a call.           *)
ChallengerSkipped ==
    /\ pc = "audit" /\ audit.audit_passes < MAX_AUDIT_PASSES
    /\ ~challenger_route.error /\ challenger_route.provider # "ollama"
    /\ phase' = "audit"
    /\ Audited("pass")
    /\ UNCHANGED <<input, thread, capMeta, calls, exc, outcome, log>>

(* The challenger's answer; one that is no JSON object passes the draft.   *)
ChallengerAnswers(verdict) ==
    /\ pc = "audit" /\ audit.audit_passes < MAX_AUDIT_PASSES
    /\ ChallengerCalled
    /\ phase' = "audit"
    /\ calls' = Append(calls, "challenger")
    /\ Audited(verdict)
    /\ UNCHANGED <<input, thread, capMeta, exc, outcome, log>>

(* Its route cannot be resolved, or its model call raises: neither is      *)
(* inside the try that passes the draft.                                   *)
ChallengerFails(f) ==
    /\ pc = "audit" /\ audit.audit_passes < MAX_AUDIT_PASSES
    /\ \/ challenger_route.error /\ f = <<"ValueError", "none">> /\ UNCHANGED calls
       \/ ChallengerCalled /\ f \in ProviderFailure /\ calls' = Append(calls, "challenger")
    /\ phase' = "audit"
    /\ audit' = [audit EXCEPT !.audit_passes = @ + 1]
    /\ trace' = Tr!Recorded(trace, "challenger_audit")
    /\ Raise(f[1], f[2], "challenger")
    /\ UNCHANGED <<input, events, thread, capMeta, outcome, log>>

(* Mutant: the revised text goes back to the challenger.                   *)
RevisesAndAudits ==
    /\ pc = "revise" /\ audit.revision_passes < MAX_REVISION_PASSES
    /\ phase' = "revision"
    /\ calls' = Append(calls, "executor")
    /\ audit' = [audit EXCEPT !.revision_passes = @ + 1, !.revised = TRUE]
    /\ trace' = Tr!Recorded(trace, "revision_inference")
    /\ events' = Append(events, "revision_complete")
    /\ pc' = "audit"
    /\ UNCHANGED <<input, thread, capMeta, exc, outcome, log>>

Revises ==
    /\ pc = "revise" /\ audit.revision_passes < MAX_REVISION_PASSES
    /\ phase' = "revision"
    /\ calls' = Append(calls, "executor")
    /\ audit' = [audit EXCEPT !.revision_passes = @ + 1, !.revised = TRUE]
    /\ trace' = Tr!Recorded(trace, "revision_inference")
    /\ events' = Append(events, "revision_complete")
    /\ pc' = "finish"
    /\ UNCHANGED <<input, thread, capMeta, exc, outcome, log>>

RevisionFails(f) ==
    /\ pc = "revise" /\ audit.revision_passes < MAX_REVISION_PASSES
    /\ phase' = "revision"
    /\ calls' = Append(calls, "executor")
    /\ audit' = [audit EXCEPT !.revision_passes = @ + 1]
    /\ trace' = Tr!Recorded(trace, "revision_inference")
    /\ Raise(f[1], f[2], "revision")
    /\ UNCHANGED <<input, events, thread, capMeta, outcome, log>>

-----------------------------------------------------------------------------
(* The end of a run.                                                       *)

(* assert_no_forbidden_keys raises on what the capability returned.        *)
Forbidden == capMeta = "forbidden"

(* validate_session_state accepts the returned state.                      *)
SessionStateOK(gate) ==
    /\ gate.audit_passes <= MAX_AUDIT_PASSES
    /\ gate.revision_passes <= MAX_REVISION_PASSES

Finishes ==
    /\ pc = "finish" /\ ~Forbidden
    /\ trace' = Tr!Completed(trace)
    /\ events' = events \o <<"output_emitted", "engine_run_complete">>
    /\ outcome' = [ok |-> TRUE,
                   result |-> [provider |-> route.provider, audit |-> audit,
                               trace |-> Tr!Completed(trace)]]
    /\ pc' = "back"
    /\ UNCHANGED <<input, phase, thread, capMeta, calls, audit, exc, log>>

(* Mutant: the output is announced before its last check.                  *)
ResultEmittedForbidden ==
    /\ pc = "finish" /\ Forbidden
    /\ trace' = Tr!Completed(trace)
    /\ events' = Append(events, "output_emitted")
    /\ Raise("ValueError", "none", "result")
    /\ UNCHANGED <<input, phase, thread, capMeta, calls, audit, outcome, log>>

(* The trace is completed before the result's last check raises.           *)
ResultForbidden ==
    /\ pc = "finish" /\ Forbidden
    /\ trace' = Tr!Completed(trace)
    /\ Raise("ValueError", "none", "result")
    /\ UNCHANGED <<input, phase, events, thread, capMeta, calls, audit, outcome, log>>

(* Mutant: the handler leaves the trace as it is.                          *)
HandlesWithoutTrace ==
    /\ pc = "except"
    /\ events' = Append(events, "engine_run_failed")
    /\ outcome' = [ok |-> FALSE, failure |-> classify_exception(exc, phase)]
    /\ pc' = "back"
    /\ UNCHANGED <<input, phase, trace, thread, capMeta, calls, audit, exc, log>>

HandlesException ==
    /\ pc = "except"
    /\ trace' = Tr!Failed(trace)
    /\ events' = Append(events, "engine_run_failed")
    /\ outcome' = [ok |-> FALSE, failure |-> classify_exception(exc, phase)]
    /\ pc' = "back"
    /\ UNCHANGED <<input, phase, thread, capMeta, calls, audit, exc, log>>

OrchestratorEnds ==
    /\ pc = "back" /\ task.caller = "orchestrator"
    /\ outcome.ok => SessionStateOK(outcome.result.audit)
    /\ pc' = "over"
    /\ UNCHANGED <<input, phase, report, thread, capMeta, calls, audit, exc, outcome, log>>

(* Mutant: a command records the status it began with.                     *)
CommandRecordsOk(caller) ==
    /\ pc = "back" /\ task.caller = caller
    /\ log' = Append(log, "ok")
    /\ pc' = "over"
    /\ UNCHANGED <<input, phase, report, thread, capMeta, calls, audit, exc, outcome>>

(* A command appends its metadata record, and prints a result.             *)
CommandEnds(caller) ==
    /\ pc = "back" /\ task.caller = caller
    /\ outcome.ok => SessionStateOK(outcome.result.audit)
    /\ log' = Append(log, IF outcome.ok THEN "ok" ELSE "error")
    /\ pc' = "over"
    /\ UNCHANGED <<input, phase, report, thread, capMeta, calls, audit, exc, outcome>>

RunCommandEnds == CommandEnds("run")
CapabilityCommandEnds == CommandEnds("capability")

(* A command cannot print its answer: its handler adds a second record.    *)
PrintFails ==
    /\ pc = "back" /\ outcome.ok /\ SessionStateOK(outcome.result.audit)
    /\ task.caller # "orchestrator"
    /\ log' = log \o <<"ok", "error">>
    /\ outcome' = [ok |-> FALSE, failure |-> NoFailure]
    /\ pc' = "over"
    /\ UNCHANGED <<input, phase, report, thread, capMeta, calls, audit, exc>>

CapabilityFailure ==
    {<<"ValueError", "CAPABILITY">>, <<"ValueError", "none">>, <<"Exception", "none">>}

Engine ==
    \/ EngineRuns \/ Refuses
    \/ PayloadInvalid \/ InvokeCapability \/ TimesOut \/ LeavesExecutor
    \/ \E type \in {"ValueError", "Exception"} : LookupFails(type)
    \/ \E output \in {"clean", "forbidden"} : CapabilityReturns(output)
    \/ \E f \in CapabilityFailure : CapabilityFails(f[1], f[2])
    \/ Dispatch \/ NullProviderRuns \/ Prepares \/ PrepareFails \/ LimitExceeded
    \/ ProviderAnswers \/ ChallengerSkipped \/ Revises
    \/ \E f \in ProviderFailure : ProviderFails(f) \/ RevisionFails(f)
    \/ \E verdict \in Verdict \ {"none"} : ChallengerAnswers(verdict)
    \/ \E f \in ProviderFailure \cup {<<"ValueError", "none">>} : ChallengerFails(f)
    \/ Finishes \/ ResultForbidden \/ HandlesException
    \/ OrchestratorEnds \/ RunCommandEnds \/ CapabilityCommandEnds \/ PrintFails

Next == Engine \/ CapabilityEnds

(* The engine is one thread and its model calls end (they have a timeout). *)
(* Nothing makes a capability end: its thread cannot be stopped.           *)
Fairness == WF_vars(Engine)

Spec == Init /\ [][Next]_vars
FairSpec == Spec /\ Fairness

-----------------------------------------------------------------------------
(* Properties.                                                             *)

(* Every variable has its type; the counters stay within their limits.     *)
TypeOK ==
    /\ task \in Tasks /\ cfg \in Configs
    /\ pc \in {"called", "capability", "waiting", "leaving", "dispatch", "null",
               "prepare", "provider", "audit", "revise", "finish", "except",
               "back", "over"}
    /\ phase \in Phase
    /\ trace \in Tr!Trace
    /\ events \in Seq(EventKind)
    /\ thread \in {"none", "running", "over"}
    /\ capMeta \in {"none", "clean", "forbidden"}
    /\ calls \in Seq(Mode)
    /\ audit \in AuditGate
    /\ exc \in Exc \cup {NoExc}
    /\ outcome \in Outcome \cup {NoOutcome}
    /\ log \in Seq({"ok", "error"})

Terminal == {"engine_run_complete", "engine_run_failed"}
Emitted(kind) == {k \in 1..Len(events) : events[k] = kind}
Steps(stage) == {k \in 1..Len(trace.steps) : trace.steps[k] = stage}
Last == events[Len(events)]
EngineOver == pc \in {"back", "over"} /\ events # <<>>

(* ADR-013's order of lifecycle events.                                    *)
MayFollow(e, f) ==
    CASE f = "engine_run_started" -> FALSE
      [] f = "route_resolved" -> e = "engine_run_started"
      [] f = "provider_execution_complete" -> e = "route_resolved"
      [] f = "challenger_audit_complete" -> e = "provider_execution_complete"
      [] f = "revision_complete" -> e = "challenger_audit_complete"
      [] f = "output_emitted" -> e \in {"provider_execution_complete",
                                        "challenger_audit_complete", "revision_complete"}
      [] f = "engine_run_complete" -> e = "output_emitted"
      [] OTHER -> e \notin Terminal \cup {"output_emitted"}

(* Whatever a run goes through, its events come in order, and exactly one  *)
(* of the two terminal events is emitted, when the engine is done.         *)
EventsInOrder ==
    /\ events # <<>> => events[1] = "engine_run_started"
    /\ \A k \in 1..(Len(events) - 1) : MayFollow(events[k], events[k + 1])
    /\ EngineOver <=> events # <<>> /\ Last \in Terminal

(* The stage whose completion an event reports.                            *)
Reports(stage) ==
    CASE stage = "challenger_audit" -> Emitted("challenger_audit_complete")
      [] stage = "revision_inference" -> Emitted("revision_complete")
      [] OTHER -> Emitted("provider_execution_complete")

(* A result agrees with what was emitted: every model step of its trace    *)
(* has its event, the counters of the session state are the numbers of     *)
(* those steps, and the model was called once for each of them, but for a  *)
(* challenger that had no model. The state passes validation.              *)
ResultMatchesRecords ==
    pc = "back" /\ outcome.ok =>
        LET done == outcome.result.audit IN
        /\ outcome.result.trace = trace
        /\ \A stage \in {"challenger_audit", "revision_inference"} :
               Cardinality(Steps(stage)) = Cardinality(Reports(stage))
        /\ Cardinality(Steps("provider_run") \cup Steps("provider_inference"))
               = Cardinality(Reports("provider_inference"))
        /\ done.audit_passes = Cardinality(Steps("challenger_audit"))
        /\ done.revision_passes = Cardinality(Steps("revision_inference"))
        /\ done.revised <=> done.audit_verdict = "needs_work"
        /\ Len(calls) = Cardinality(Steps("provider_inference")) + done.revision_passes
                        + (IF ChallengerCalled THEN done.audit_passes ELSE 0)
        /\ SessionStateOK(done)

(* The engine leaves no trace open, whichever way it ends: it is completed *)
(* when there is a result, and failed with every exception raised before   *)
(* the result was there. ExceptionsFailTrace is about the others.          *)
TraceTells ==
    EngineOver =>
        /\ trace.status \in {"completed", "failed"}
        /\ exc = NoExc => trace.status = "completed"
        /\ exc # NoExc /\ exc.at # "result" => trace.status = "failed"

(* What a failure at a place has to be put down to, before there is a      *)
(* result.                                                                 *)
Blamed(place) ==
    CASE place \in {"payload", "lookup", "capability", "timeout"} -> "capability"
      [] place = "prepare" -> "internal"
      [] place = "limit" -> "contract_violation"
      [] place = "provider" -> "provider_execution"
      [] place \in {"challenger", "revision"} ->
             IF exc.type = "ProviderError" THEN "provider_execution" ELSE "audit_challenger"

(* Every exception of the engine reaches its caller with an envelope. It   *)
(* names the place it was raised at, whatever the phase variable went      *)
(* through, unless a finished result was refused, which is put down to     *)
(* whichever phase was the last, and only a model call is retryable.       *)
FailureNamesPlace ==
    EngineOver /\ exc # NoExc =>
        /\ ~outcome.ok /\ outcome.failure # NoFailure
        /\ exc.at # "result" => outcome.failure.kind = Blamed(exc.at)
        /\ outcome.failure.retryable => exc.at \in {"provider", "challenger", "revision"}

(* A declared capability comes first: no model is called before it gave    *)
(* its output, late or failed outputs never reach a model call or a        *)
(* result, and no run is over while its thread is still at work.           *)
CapabilityFirst ==
    /\ task.capabilities = 1 /\ calls # <<>> => capMeta # "none"
    /\ pc = "back" /\ outcome.ok => capMeta =
           IF task.capabilities = 1 THEN "clean" ELSE "none"
    /\ pc \in {"back", "over"} => thread # "running"

(* The metadata records of a command end with the status it ended with; a  *)
(* run is recorded once, unless its answer could not be printed.           *)
LogTellsOutcome ==
    pc = "over" /\ task.caller # "orchestrator" =>
        /\ outcome.ok => log = <<"ok">>
        /\ ~outcome.ok => log \in {<<>>, <<"error">>, <<"ok", "error">>}
        /\ log = <<>> => events = <<>>
        /\ log = <<"ok", "error">> => Last = "engine_run_complete"

Bound ==
    INSTANCE BoundedRun WITH
        verdict <- IF events # <<>> /\ Last = "engine_run_complete" THEN "result"
                   ELSE IF outcome # NoOutcome THEN "failure" ELSE "running"

(* The run keeps the bounds of ADR-009 and ADR-012.                        *)
KeepsBounds == Bound!Spec

(* Every run ends, unless its capability never does.                       *)
EndsUnlessStuck == []<>(thread # "running") => <>(pc = "over")

(* What the check of the table is good for: it reads the configured first  *)
(* choices long before the routes of the two roles are resolved, and where *)
(* neither role fell back, the model that audits is not the one that       *)
(* answered, though the roles need not name their targets alike. Model     *)
(* names are those resolve_route reads: without blanks around them, which  *)
(* the check does not remove.                                              *)
OnlyFallbacksCollapse ==
    task.caller = "run" /\ task.checked /\ "challenger" \in {calls[k] : k \in 1..Len(calls)}
        /\ ~route.fallback_used /\ ~challenger_route.fallback_used
        => route.target.model # challenger_route.target.model

(* constellation.py:36: executor and challenger must not resolve to the    *)
(* same model, where the command run checked it.                           *)
ReviewIsAdversarial ==
    task.caller = "run" /\ task.checked /\ "challenger" \in {calls[k] : k \in 1..Len(calls)}
        => route.target.model # challenger_route.target.model

(* engine.py:394, ADR-013: on any exception the trace reaches 'failed'.    *)
ExceptionsFailTrace == EngineOver /\ exc # NoExc => trace.status = "failed"
=============================================================================
