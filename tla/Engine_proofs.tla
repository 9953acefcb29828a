----------------------------- MODULE Engine_proofs -----------------------------
(***************************************************************************)
(* Theorems about Engine, for every set of tasks, every routing table and  *)
(* whatever capabilities, models and challengers do.                       *)
(***************************************************************************)
EXTENDS Engine, SequenceTheorems, FiniteSetTheorems, TLAPS

Ended == {"back", "over"}

InOrder == \A k \in 1..(Len(events) - 1) : MayFollow(events[k], events[k + 1])

(* The last event is one of S.                                             *)
LastIn(S) == events # <<>> /\ Last \in S

(* The last event at every point of a run.                                 *)
EventsInv ==
    /\ events # <<>> => events[1] = "engine_run_started"
    /\ InOrder
    /\ pc = "called" => events = <<>>
    /\ pc \in {"capability", "waiting", "leaving", "dispatch"} =>
           LastIn({"engine_run_started"})
    /\ pc \in {"null", "prepare", "provider"} => LastIn({"route_resolved"})
    /\ pc = "audit" => LastIn({"provider_execution_complete"})
    /\ pc = "revise" => LastIn({"challenger_audit_complete"})
    /\ pc = "finish" => LastIn({"provider_execution_complete",
                                "challenger_audit_complete", "revision_complete"})
    /\ pc = "except" => LastIn(EventKind \ (Terminal \cup {"output_emitted"}))
    /\ pc = "back" => LastIn(IF outcome.ok THEN {"engine_run_complete"}
                             ELSE {"engine_run_failed"})
    /\ pc = "over" => events = <<>> \/ LastIn(Terminal)

(* The exception in flight is put down to the place it was raised at.      *)
RightlyClassified ==
    /\ exc.at # "result" => KindOf(exc, phase) = Blamed(exc.at)
    /\ classify_exception(exc, phase).retryable
           => exc.at \in {"provider", "challenger", "revision"}

(* The exception, the outcome and the trace at every point of a run.       *)
EndInv ==
    /\ pc \notin Ended \cup {"except"} => exc = NoExc
    /\ pc \notin Ended => outcome = NoOutcome
    /\ pc = "except" => exc # NoExc /\ RightlyClassified
    /\ pc \in Ended => outcome # NoOutcome
    /\ pc \in Ended /\ exc # NoExc =>
           /\ ~outcome.ok /\ outcome.failure = classify_exception(exc, phase)
           /\ RightlyClassified
    /\ pc = "back" /\ exc = NoExc => outcome.ok
    /\ pc \in {"called", "capability"} => trace.status = "created"
    /\ pc \in {"dispatch", "null", "prepare"} => trace.status \in {"created", "running"}
    /\ pc \in {"waiting", "leaving", "provider", "audit", "revise", "finish"} =>
           trace.status = "running"
    /\ pc = "except" => IF exc.at = "result" THEN trace.status = "completed"
                        ELSE trace.status \in {"created", "running"}
    /\ pc \in Ended /\ events # <<>> =>
           trace.status = IF exc = NoExc \/ exc.at = "result" THEN "completed"
                          ELSE "failed"

(* The phase and the calls made at every point of a run.                   *)
CallsInv ==
    /\ pc \in {"called", "capability", "waiting", "leaving", "dispatch", "null",
               "prepare", "provider"} => calls = <<>>
    /\ pc = "audit" => Len(calls) = 1 /\ task.audit
    /\ pc = "revise" => Len(calls) = 2 /\ task.audit
    /\ pc \in {"waiting", "leaving"} => phase = "capability"
    /\ pc \in {"null", "prepare", "provider"} => phase = "setup"
    /\ pc = "finish" =>
           /\ calls = <<>> => phase = "setup"
           /\ calls # <<>> => phase \in IF task.audit THEN {"audit", "revision"}
                                       ELSE {"provider"}

(* The capability at every point of a run.                                 *)
CapabilityInv ==
    /\ pc \in {"called", "capability"} => thread = "none"
    /\ pc \notin {"waiting", "leaving"} => thread # "running"
    /\ pc \in {"called", "capability", "waiting", "leaving"} => capMeta = "none"
    /\ pc \in {"capability", "waiting", "leaving"} => task.capabilities = 1
    /\ pc \in {"dispatch", "null", "prepare", "provider", "audit", "revise", "finish"}
           => (task.capabilities = 1 <=> capMeta # "none")
    /\ calls # <<>> => (task.capabilities = 1 => capMeta # "none")
    /\ pc = "back" /\ outcome.ok =>
           capMeta = IF task.capabilities = 1 THEN "clean" ELSE "none"

(* The metadata records at every point of a run.                           *)
LogInv ==
    /\ pc # "over" => log = <<>>
    /\ LogTellsOutcome

Inv == TypeOK /\ EventsInv /\ EndInv /\ CallsInv /\ CapabilityInv /\ LogInv

-----------------------------------------------------------------------------
(* Operators.                                                              *)

LEMMA AppendOK ==
    ASSUME NEW S, NEW q \in Seq(S), NEW e \in S
    PROVE  /\ Append(q, e) \in Seq(S)
           /\ Append(q, e) # <<>>
           /\ Len(Append(q, e)) = Len(q) + 1
           /\ Append(q, e)[Len(q) + 1] = e
           /\ \A i \in 1..Len(q) : Append(q, e)[i] = q[i]
  OBVIOUS

(* Whatever the configuration says, a run calls one of the two providers.  *)
LEMMA RouteSupported == route.provider \in Supported
  BY DEF route, resolve_route, Fallback, Selected, NullRoute, RouteError,
         Usable, Supported

(* Recording a step keeps a trace a trace.                                 *)
LEMMA TraceOK ==
    ASSUME NEW t \in Tr!Trace, NEW stage \in Stage
    PROVE  /\ Tr!Recorded(t, stage) \in Tr!Trace
           /\ Tr!Recorded(t, stage).status = "running"
           /\ Tr!Begun(t) \in Tr!Trace /\ Tr!Begun(t).status = "running"
           /\ Tr!Completed(t) \in Tr!Trace /\ Tr!Completed(t).status = "completed"
           /\ Tr!Failed(t) \in Tr!Trace
           /\ t.status \in {"created", "running"} => Tr!Failed(t).status = "failed"
           /\ t.status = "completed" => Tr!Failed(t).status = "completed"
  <1>1. /\ t.status \in Tr!TraceStatus /\ t.steps \in Seq(Stage)
        /\ Append(t.steps, stage) \in Seq(Stage)
    BY DEF Tr!Trace
  <1> QED
    BY <1>1 DEF Tr!Trace, Tr!TraceStatus, Tr!Recorded, Tr!Begun, Tr!Completed,
                Tr!Failed, Tr!PermittedNext

(* What an exception raised at a place is put down to.                     *)
LEMMA ClassifyOK ==
    ASSUME NEW e \in Exc, NEW p \in Phase
    PROVE  classify_exception(e, p) \in Failure
  BY DEF classify_exception, KindOf, Failure, Kind, Exc, Code

(* What a counted pass or revision makes of the audit's state.             *)
LEMMA AuditOK ==
    ASSUME NEW a \in AuditGate, NEW v \in Verdict
    PROVE  /\ [a EXCEPT !.audit_passes = @ + 1] \in AuditGate
           /\ [a EXCEPT !.audit_passes = @ + 1, !.audit_verdict = v] \in AuditGate
           /\ [a EXCEPT !.revision_passes = @ + 1] \in AuditGate
           /\ [a EXCEPT !.revision_passes = @ + 1, !.revised = TRUE] \in AuditGate
  <1> DEFINE p == [a EXCEPT !.audit_passes = @ + 1]
             r == [a EXCEPT !.revision_passes = @ + 1]
  <1>1. p \in AuditGate /\ r \in AuditGate
    BY DEF AuditGate
  <1>2. /\ [a EXCEPT !.audit_passes = @ + 1, !.audit_verdict = v]
              = [p EXCEPT !.audit_verdict = v]
        /\ [a EXCEPT !.revision_passes = @ + 1, !.revised = TRUE]
              = [r EXCEPT !.revised = TRUE]
    OBVIOUS
  <1>3. [p EXCEPT !.audit_verdict = v] \in AuditGate
    <2> HIDE DEF p
    <2> QED
      BY <1>1 DEF AuditGate
  <1>4. [r EXCEPT !.revised = TRUE] \in AuditGate
    <2> HIDE DEF r
    <2> QED
      BY <1>1 DEF AuditGate
  <1> QED
    BY <1>1, <1>2, <1>3, <1>4

(* What Raise puts on its way to the handler.                              *)
LEMMA RaiseOK ==
    ASSUME NEW type \in ExcType, NEW code \in Code, NEW place \in Place,
           Raise(type, code, place)
    PROVE  /\ exc' \in Exc /\ exc' # NoExc /\ pc' = "except"
           /\ exc'.type = type /\ exc'.code = code /\ exc'.at = place
  BY NoExcAssumption DEF Raise, Exc

LEMMA FailureOK ==
    ASSUME NEW f \in Failure \cup {NoFailure}
    PROVE  [ok |-> FALSE, failure |-> f] \in Outcome \ {NoOutcome}
  <1>1. [ok |-> FALSE, failure |-> f] \in Outcome
    BY DEF Outcome
  <1> QED
    BY <1>1, NoOutcomeAssumption

LEMMA ResultOK ==
    ASSUME NEW gate \in AuditGate, NEW t \in Tr!Trace
    PROVE  [ok |-> TRUE, result |-> [provider |-> route.provider, audit |-> gate,
                                     trace |-> t]] \in Outcome \ {NoOutcome}
  <1>1. [provider |-> route.provider, audit |-> gate, trace |-> t] \in Result
    BY RouteSupported DEF Result, Supported
  <1>2. [ok |-> TRUE, result |-> [provider |-> route.provider, audit |-> gate,
                                  trace |-> t]] \in Outcome
    BY <1>1 DEF Outcome
  <1> QED
    BY <1>2, NoOutcomeAssumption

(* One more event, where it may follow the last.                           *)
LEMMA EventStep ==
    ASSUME NEW q \in Seq(EventKind), q # <<>>, q[1] = "engine_run_started",
           \A k \in 1..(Len(q) - 1) : MayFollow(q[k], q[k + 1]),
           NEW e \in EventKind, MayFollow(q[Len(q)], e)
    PROVE  LET r == Append(q, e)
           IN  /\ r \in Seq(EventKind) /\ r # <<>> /\ r[1] = "engine_run_started"
               /\ \A k \in 1..(Len(r) - 1) : MayFollow(r[k], r[k + 1])
               /\ r[Len(r)] = e
  <1> DEFINE r == Append(q, e)
  <1>1. /\ r \in Seq(EventKind) /\ r # <<>> /\ Len(r) = Len(q) + 1 /\ r[Len(q) + 1] = e
        /\ \A k \in 1..Len(q) : r[k] = q[k]
        /\ Len(q) \in Nat /\ Len(q) > 0
    BY AppendOK, EmptySeq
  <1> HIDE DEF r
  <1>2. \A k \in 1..(Len(r) - 1) : MayFollow(r[k], r[k + 1])
    <2> TAKE k \in 1..(Len(r) - 1)
    <2>1. CASE k = Len(q)
      BY <1>1, <2>1
    <2>2. CASE k # Len(q)
      <3>1. k \in 1..(Len(q) - 1) /\ k \in 1..Len(q) /\ k + 1 \in 1..Len(q)
        BY <1>1, <2>2
      <3> QED
        BY <1>1, <3>1
    <2> QED
      BY <2>1, <2>2
  <1> QED
    BY <1>1, <1>2 DEF r

(* Every exception is put down to the place it was raised at.              *)
LEMMA RaisedEnds ==
    ASSUME EndInv, pc \notin Ended \cup {"except"}, UNCHANGED outcome,
           NEW type \in ExcType, NEW code \in Code, NEW place \in Place,
           Raise(type, code, place), RightlyClassified',
           IF place = "result" THEN trace'.status = "completed"
           ELSE trace'.status \in {"created", "running"}
    PROVE  EndInv'
  BY RaiseOK DEF EndInv, Ended

-----------------------------------------------------------------------------
(* Every action keeps the invariant.                                       *)

LEMMA EngineRunsInv ==
    ASSUME Inv, EngineRuns
    PROVE  Inv'
  <1>1. TypeOK'
    BY AppendOK DEF EngineRuns, input, Inv, TypeOK, EventKind
  <1>2. EventsInv'
    BY AppendOK
       DEF EngineRuns, Inv, EventsInv, InOrder, LastIn, Last, MayFollow
  <1>3. EndInv'
    BY DEF EngineRuns, Inv, TypeOK, EndInv, Ended, Stage
  <1>4. CallsInv'
    BY DEF EngineRuns, input, Inv, CallsInv
  <1>5. CapabilityInv'
    BY DEF EngineRuns, input, Inv, CapabilityInv
  <1>6. LogInv'
    BY DEF EngineRuns, Inv, LogInv, LogTellsOutcome
  <1> QED
    BY <1>1, <1>2, <1>3, <1>4, <1>5, <1>6 DEF Inv

LEMMA RefusesInv ==
    ASSUME Inv, Refuses
    PROVE  Inv'
  <1>1. TypeOK'
    <2>1. outcome' \in Outcome
      BY FailureOK DEF Refuses
    <2>2. log' \in Seq({"ok", "error"})
      <3>1. <<"error">> \in Seq({"ok", "error"}) /\ <<>> \in Seq({"ok", "error"})
        OBVIOUS
      <3> QED
        BY <3>1 DEF Refuses
    <2> QED
      BY <2>1, <2>2 DEF Refuses, input, report, Inv, TypeOK
  <1>2. EventsInv'
    BY DEF Refuses, report, Inv, EventsInv, InOrder, LastIn, Last
  <1>3. EndInv'
    BY FailureOK DEF Refuses, input, report, Inv, EndInv, EventsInv, Ended
  <1>4. CallsInv'
    BY DEF Refuses, input, Inv, CallsInv
  <1>5. CapabilityInv'
    BY DEF Refuses, input, report, Inv, CapabilityInv
  <1>6. LogInv'
    BY DEF Refuses, input, report, Inv, TypeOK, LogInv, LogTellsOutcome,
           EndInv, Ended, EventsInv, Last
  <1> QED
    BY <1>1, <1>2, <1>3, <1>4, <1>5, <1>6 DEF Inv

LEMMA PayloadInvalidInv ==
    ASSUME Inv, PayloadInvalid
    PROVE  Inv'
  <1>1. TypeOK'
    BY DEF PayloadInvalid, Raise, input, report, Inv, TypeOK, Phase, Exc,
           ExcType, Code, Place
  <1>2. EventsInv'
    BY DEF PayloadInvalid, Raise, report, Inv, EventsInv, InOrder, LastIn,
           Last, EventKind, Terminal
  <1>3. EndInv'
    <2>1. "ValueError" \in ExcType /\ "CAPABILITY" \in Code /\ "payload" \in Place
      BY DEF ExcType, Code, Place
    <2>2. /\ Raise("ValueError", "CAPABILITY", "payload") /\ UNCHANGED outcome
          /\ pc \notin Ended \cup {"except"}
      BY DEF PayloadInvalid, Ended
    <2>3. RightlyClassified'
      BY <2>1, <2>2, RaiseOK
         DEF PayloadInvalid, input, RightlyClassified, Blamed, KindOf, classify_exception,
             Inv, CallsInv, EndInv
    <2>4. trace'.status \in {"created", "running"}
      BY DEF PayloadInvalid, report, Inv, TypeOK, EndInv, Stage
    <2> QED
      BY <2>1, <2>2, <2>3, <2>4, RaisedEnds DEF Inv
  <1>4. CallsInv'
    BY DEF PayloadInvalid, Raise, input, Inv, CallsInv
  <1>5. CapabilityInv'
    BY DEF PayloadInvalid, Raise, input, report, Inv, CapabilityInv
  <1>6. LogInv'
    BY DEF PayloadInvalid, Raise, Inv, LogInv, LogTellsOutcome
  <1> QED
    BY <1>1, <1>2, <1>3, <1>4, <1>5, <1>6 DEF Inv

LEMMA LookupFailsInv ==
    ASSUME Inv, NEW type \in {"ValueError", "Exception"}, LookupFails(type)
    PROVE  Inv'
  <1>1. TypeOK'
    BY TraceOK
       DEF LookupFails, Raise, input, Inv, TypeOK, Stage, Phase, Exc,
           ExcType, Code, Place
  <1>2. EventsInv'
    BY DEF LookupFails, Raise, Inv, EventsInv, InOrder, LastIn, Last,
           EventKind, Terminal
  <1>3. EndInv'
    <2>1. type \in ExcType /\ "CAPABILITY" \in Code /\ "lookup" \in Place
      BY DEF ExcType, Code, Place
    <2>2. /\ Raise(type, "CAPABILITY", "lookup") /\ UNCHANGED outcome
          /\ pc \notin Ended \cup {"except"}
      BY DEF LookupFails, Ended
    <2>3. RightlyClassified'
      BY <2>1, <2>2, RaiseOK
         DEF LookupFails, input, RightlyClassified, Blamed, KindOf, classify_exception,
             Inv, CallsInv, EndInv
    <2>4. trace'.status \in {"created", "running"}
      BY TraceOK DEF LookupFails, report, Inv, TypeOK, EndInv, Stage
    <2> QED
      BY <2>1, <2>2, <2>3, <2>4, RaisedEnds DEF Inv
  <1>4. CallsInv'
    BY DEF LookupFails, Raise, input, Inv, CallsInv
  <1>5. CapabilityInv'
    BY DEF LookupFails, Raise, input, Inv, CapabilityInv
  <1>6. LogInv'
    BY DEF LookupFails, Raise, Inv, LogInv, LogTellsOutcome
  <1> QED
    BY <1>1, <1>2, <1>3, <1>4, <1>5, <1>6 DEF Inv

LEMMA InvokeCapabilityInv ==
    ASSUME Inv, InvokeCapability
    PROVE  Inv'
  <1>1. TypeOK'
    BY TraceOK DEF InvokeCapability, input, Inv, TypeOK, Stage, Phase
  <1>2. EventsInv'
    BY DEF InvokeCapability, Inv, EventsInv, InOrder, LastIn, Last
  <1>3. EndInv'
    BY TraceOK DEF InvokeCapability, Inv, TypeOK, EndInv, Ended, Stage
  <1>4. CallsInv'
    BY DEF InvokeCapability, input, Inv, CallsInv
  <1>5. CapabilityInv'
    BY DEF InvokeCapability, input, Inv, CapabilityInv, EndInv, Ended
  <1>6. LogInv'
    BY DEF InvokeCapability, Inv, LogInv, LogTellsOutcome
  <1> QED
    BY <1>1, <1>2, <1>3, <1>4, <1>5, <1>6 DEF Inv

LEMMA CapabilityEndsInv ==
    ASSUME Inv, CapabilityEnds
    PROVE  Inv'
  <1>1. TypeOK'
    BY DEF CapabilityEnds, input, report, Inv, TypeOK
  <1>2. EventsInv'
    BY DEF CapabilityEnds, report, Inv, EventsInv, InOrder, LastIn, Last
  <1>3. EndInv'
    BY DEF CapabilityEnds, input, report, Inv, TypeOK, EndInv, Ended,
           RightlyClassified, Blamed, KindOf, classify_exception, CallsInv,
           Stage
  <1>4. CallsInv'
    BY DEF CapabilityEnds, input, Inv, CallsInv
  <1>5. CapabilityInv'
    BY DEF CapabilityEnds, input, report, Inv, CapabilityInv
  <1>6. LogInv'
    BY DEF CapabilityEnds, input, report, Inv, TypeOK, LogInv,
           LogTellsOutcome, EndInv, Ended, EventsInv, Last
  <1> QED
    BY <1>1, <1>2, <1>3, <1>4, <1>5, <1>6 DEF Inv

LEMMA CapabilityReturnsInv ==
    ASSUME Inv, NEW output \in {"clean", "forbidden"}, CapabilityReturns(output)
    PROVE  Inv'
  <1>1. TypeOK'
    BY TraceOK DEF CapabilityReturns, input, Inv, TypeOK, Stage
  <1>2. EventsInv'
    BY DEF CapabilityReturns, Inv, EventsInv, InOrder, LastIn, Last
  <1>3. EndInv'
    BY TraceOK DEF CapabilityReturns, Inv, TypeOK, EndInv, Ended, Stage
  <1>4. CallsInv'
    BY DEF CapabilityReturns, input, Inv, CallsInv
  <1>5. CapabilityInv'
    BY DEF CapabilityReturns, input, Inv, CapabilityInv
  <1>6. LogInv'
    BY DEF CapabilityReturns, Inv, LogInv, LogTellsOutcome
  <1> QED
    BY <1>1, <1>2, <1>3, <1>4, <1>5, <1>6 DEF Inv

LEMMA CapabilityFailsInv ==
    ASSUME Inv, NEW f \in CapabilityFailure, CapabilityFails(f[1], f[2])
    PROVE  Inv'
  <1>1. TypeOK'
    BY TraceOK
       DEF CapabilityFails, Raise, input, CapabilityFailure, Inv, TypeOK,
           Stage, Exc, ExcType, Code, Place
  <1>2. EventsInv'
    BY DEF CapabilityFails, Raise, Inv, EventsInv, InOrder, LastIn, Last,
           EventKind, Terminal
  <1>3. EndInv'
    <2>1. f[1] \in ExcType /\ f[2] \in Code /\ "capability" \in Place
      BY DEF ExcType, Code, Place, CapabilityFailure
    <2>2. /\ Raise(f[1], f[2], "capability") /\ UNCHANGED outcome
          /\ pc \notin Ended \cup {"except"}
      BY DEF CapabilityFails, Ended
    <2>3. phase = "capability" /\ f[1] \in {"ValueError", "Exception"}
      BY DEF CapabilityFails, CapabilityFailure, Inv, CallsInv
    <2>4. RightlyClassified'
      BY <2>1, <2>2, <2>3, RaiseOK
         DEF CapabilityFails, input, RightlyClassified, Blamed, KindOf, classify_exception
    <2>5. trace'.status \in {"created", "running"}
      BY TraceOK DEF CapabilityFails, report, Inv, TypeOK, EndInv, Stage
    <2> QED
      BY <2>1, <2>2, <2>4, <2>5, RaisedEnds DEF Inv
  <1>4. CallsInv'
    BY DEF CapabilityFails, Raise, input, Inv, CallsInv
  <1>5. CapabilityInv'
    BY DEF CapabilityFails, Raise, input, Inv, CapabilityInv
  <1>6. LogInv'
    BY DEF CapabilityFails, Raise, Inv, LogInv, LogTellsOutcome
  <1> QED
    BY <1>1, <1>2, <1>3, <1>4, <1>5, <1>6 DEF Inv

LEMMA TimesOutInv ==
    ASSUME Inv, TimesOut
    PROVE  Inv'
  <1>1. TypeOK'
    BY DEF TimesOut, input, report, Inv, TypeOK
  <1>2. EventsInv'
    BY DEF TimesOut, report, Inv, EventsInv, InOrder, LastIn, Last
  <1>3. EndInv'
    BY DEF TimesOut, report, Inv, TypeOK, EndInv, Ended, Stage
  <1>4. CallsInv'
    BY DEF TimesOut, input, Inv, CallsInv
  <1>5. CapabilityInv'
    BY DEF TimesOut, input, report, Inv, CapabilityInv
  <1>6. LogInv'
    BY DEF TimesOut, Inv, LogInv, LogTellsOutcome
  <1> QED
    BY <1>1, <1>2, <1>3, <1>4, <1>5, <1>6 DEF Inv

LEMMA LeavesExecutorInv ==
    ASSUME Inv, LeavesExecutor
    PROVE  Inv'
  <1>1. TypeOK'
    BY TraceOK
       DEF LeavesExecutor, Raise, input, Inv, TypeOK, Stage, Exc, ExcType,
           Code, Place
  <1>2. EventsInv'
    BY DEF LeavesExecutor, Raise, Inv, EventsInv, InOrder, LastIn, Last,
           EventKind, Terminal
  <1>3. EndInv'
    <2>1. "ValueError" \in ExcType /\ "CAPABILITY" \in Code /\ "timeout" \in Place
      BY DEF ExcType, Code, Place
    <2>2. /\ Raise("ValueError", "CAPABILITY", "timeout") /\ UNCHANGED outcome
          /\ pc \notin Ended \cup {"except"}
      BY DEF LeavesExecutor, Ended
    <2>3. RightlyClassified'
      BY <2>1, <2>2, RaiseOK
         DEF LeavesExecutor, input, RightlyClassified, Blamed, KindOf, classify_exception,
             Inv, CallsInv, EndInv
    <2>4. trace'.status \in {"created", "running"}
      BY TraceOK DEF LeavesExecutor, report, Inv, TypeOK, EndInv, Stage
    <2> QED
      BY <2>1, <2>2, <2>3, <2>4, RaisedEnds DEF Inv
  <1>4. CallsInv'
    BY DEF LeavesExecutor, Raise, input, Inv, CallsInv
  <1>5. CapabilityInv'
    BY DEF LeavesExecutor, Raise, input, Inv, CapabilityInv
  <1>6. LogInv'
    BY DEF LeavesExecutor, Raise, Inv, LogInv, LogTellsOutcome
  <1> QED
    BY <1>1, <1>2, <1>3, <1>4, <1>5, <1>6 DEF Inv

LEMMA DispatchInv ==
    ASSUME Inv, Dispatch
    PROVE  Inv'
  <1>1. TypeOK'
    BY AppendOK DEF Dispatch, input, Inv, TypeOK, Phase, EventKind
  <1>2. EventsInv'
    BY AppendOK DEF Dispatch, Inv, EventsInv, InOrder, LastIn, Last, MayFollow
  <1>3. EndInv'
    BY DEF Dispatch, Inv, TypeOK, EndInv, Ended, Stage
  <1>4. CallsInv'
    BY DEF Dispatch, input, Inv, CallsInv
  <1>5. CapabilityInv'
    BY DEF Dispatch, input, Inv, CapabilityInv
  <1>6. LogInv'
    BY DEF Dispatch, Inv, LogInv, LogTellsOutcome
  <1> QED
    BY <1>1, <1>2, <1>3, <1>4, <1>5, <1>6 DEF Inv

LEMMA NullProviderRunsInv ==
    ASSUME Inv, NullProviderRuns
    PROVE  Inv'
  <1>1. TypeOK'
    BY TraceOK, AppendOK
       DEF NullProviderRuns, input, Inv, TypeOK, Stage, EventKind
  <1>2. EventsInv'
    <2>1. events # <<>> /\ MayFollow(Last, "provider_execution_complete") /\ events' = Append(events, "provider_execution_complete")
      BY DEF NullProviderRuns, Inv, EventsInv, LastIn, MayFollow, Terminal
    <2>2. /\ events' # <<>> /\ events'[1] = "engine_run_started"
          /\ InOrder' /\ Last' = "provider_execution_complete"
      BY <2>1, EventStep DEF Inv, TypeOK, EventsInv, InOrder, Last, EventKind
    <2> QED
      BY <2>2 DEF NullProviderRuns, EventsInv, LastIn
  <1>3. EndInv'
    BY TraceOK DEF NullProviderRuns, Inv, TypeOK, EndInv, Ended, Stage
  <1>4. CallsInv'
    BY DEF NullProviderRuns, input, Inv, CallsInv
  <1>5. CapabilityInv'
    BY DEF NullProviderRuns, input, Inv, CapabilityInv
  <1>6. LogInv'
    BY DEF NullProviderRuns, Inv, LogInv, LogTellsOutcome
  <1> QED
    BY <1>1, <1>2, <1>3, <1>4, <1>5, <1>6 DEF Inv

LEMMA PreparesInv ==
    ASSUME Inv, Prepares
    PROVE  Inv'
  <1>1. TypeOK'
    BY TraceOK DEF Prepares, input, Inv, TypeOK, Stage
  <1>2. EventsInv'
    BY DEF Prepares, Inv, EventsInv, InOrder, LastIn, Last
  <1>3. EndInv'
    BY TraceOK DEF Prepares, Inv, TypeOK, EndInv, Ended, Stage
  <1>4. CallsInv'
    BY DEF Prepares, input, Inv, CallsInv
  <1>5. CapabilityInv'
    BY DEF Prepares, input, Inv, CapabilityInv
  <1>6. LogInv'
    BY DEF Prepares, Inv, LogInv, LogTellsOutcome
  <1> QED
    BY <1>1, <1>2, <1>3, <1>4, <1>5, <1>6 DEF Inv

LEMMA PrepareFailsInv ==
    ASSUME Inv, PrepareFails
    PROVE  Inv'
  <1>1. TypeOK'
    BY DEF PrepareFails, Raise, input, report, Inv, TypeOK, Exc, ExcType,
           Code, Place
  <1>2. EventsInv'
    BY DEF PrepareFails, Raise, report, Inv, EventsInv, InOrder, LastIn,
           Last, EventKind, Terminal
  <1>3. EndInv'
    <2>1. "Exception" \in ExcType /\ "none" \in Code /\ "prepare" \in Place
      BY DEF ExcType, Code, Place
    <2>2. /\ Raise("Exception", "none", "prepare") /\ UNCHANGED outcome
          /\ pc \notin Ended \cup {"except"}
      BY DEF PrepareFails, Ended
    <2>3. RightlyClassified'
      BY <2>1, <2>2, RaiseOK
         DEF PrepareFails, input, RightlyClassified, Blamed, KindOf, classify_exception,
             Inv, CallsInv, EndInv
    <2>4. trace'.status \in {"created", "running"}
      BY DEF PrepareFails, report, Inv, TypeOK, EndInv, Stage
    <2> QED
      BY <2>1, <2>2, <2>3, <2>4, RaisedEnds DEF Inv
  <1>4. CallsInv'
    BY DEF PrepareFails, Raise, input, Inv, CallsInv
  <1>5. CapabilityInv'
    BY DEF PrepareFails, Raise, input, report, Inv, CapabilityInv
  <1>6. LogInv'
    BY DEF PrepareFails, Raise, Inv, LogInv, LogTellsOutcome
  <1> QED
    BY <1>1, <1>2, <1>3, <1>4, <1>5, <1>6 DEF Inv

LEMMA LimitExceededInv ==
    ASSUME Inv, LimitExceeded
    PROVE  Inv'
  <1>1. TypeOK'
    BY TraceOK
       DEF LimitExceeded, Raise, input, Inv, TypeOK, Stage, Exc, ExcType,
           Code, Place
  <1>2. EventsInv'
    BY DEF LimitExceeded, Raise, Inv, EventsInv, InOrder, LastIn, Last,
           EventKind, Terminal
  <1>3. EndInv'
    <2>1. "ValueError" \in ExcType /\ "CONTEXT" \in Code /\ "limit" \in Place
      BY DEF ExcType, Code, Place
    <2>2. /\ Raise("ValueError", "CONTEXT", "limit") /\ UNCHANGED outcome
          /\ pc \notin Ended \cup {"except"}
      BY DEF LimitExceeded, Ended
    <2>3. RightlyClassified'
      BY <2>1, <2>2, RaiseOK
         DEF LimitExceeded, input, RightlyClassified, Blamed, KindOf, classify_exception,
             Inv, CallsInv, EndInv
    <2>4. trace'.status \in {"created", "running"}
      BY TraceOK DEF LimitExceeded, report, Inv, TypeOK, EndInv, Stage
    <2> QED
      BY <2>1, <2>2, <2>3, <2>4, RaisedEnds DEF Inv
  <1>4. CallsInv'
    BY DEF LimitExceeded, Raise, input, Inv, CallsInv
  <1>5. CapabilityInv'
    BY DEF LimitExceeded, Raise, input, Inv, CapabilityInv
  <1>6. LogInv'
    BY DEF LimitExceeded, Raise, Inv, LogInv, LogTellsOutcome
  <1> QED
    BY <1>1, <1>2, <1>3, <1>4, <1>5, <1>6 DEF Inv

LEMMA ProviderAnswersInv ==
    ASSUME Inv, ProviderAnswers
    PROVE  Inv'
  <1>1. TypeOK'
    BY TraceOK, AppendOK
       DEF ProviderAnswers, input, Inv, TypeOK, Stage, Phase, EventKind, Mode
  <1>2. EventsInv'
    <2>1. events # <<>> /\ MayFollow(Last, "provider_execution_complete") /\ events' = Append(events, "provider_execution_complete")
      BY DEF ProviderAnswers, Inv, EventsInv, LastIn, MayFollow, Terminal
    <2>2. /\ events' # <<>> /\ events'[1] = "engine_run_started"
          /\ InOrder' /\ Last' = "provider_execution_complete"
      BY <2>1, EventStep DEF Inv, TypeOK, EventsInv, InOrder, Last, EventKind
    <2> QED
      BY <2>2 DEF ProviderAnswers, EventsInv, LastIn
  <1>3. EndInv'
    BY TraceOK DEF ProviderAnswers, Inv, TypeOK, EndInv, Ended, Stage
  <1>4. CallsInv'
    BY DEF ProviderAnswers, input, Inv, CallsInv
  <1>5. CapabilityInv'
    BY DEF ProviderAnswers, input, Inv, CapabilityInv
  <1>6. LogInv'
    BY DEF ProviderAnswers, Inv, LogInv, LogTellsOutcome
  <1> QED
    BY <1>1, <1>2, <1>3, <1>4, <1>5, <1>6 DEF Inv

LEMMA ProviderFailsInv ==
    ASSUME Inv, NEW f \in ProviderFailure, ProviderFails(f)
    PROVE  Inv'
  <1>1. TypeOK'
    BY TraceOK, AppendOK
       DEF ProviderFails, Raise, input, ProviderFailure, Inv, TypeOK, Stage,
           Phase, Mode, Exc, ExcType, Code, Place
  <1>2. EventsInv'
    BY DEF ProviderFails, Raise, Inv, EventsInv, InOrder, LastIn, Last,
           EventKind, Terminal
  <1>3. EndInv'
    <2>1. f[1] \in ExcType /\ f[2] \in Code /\ "provider" \in Place
      BY DEF ExcType, Code, Place, ProviderFailure
    <2>2. /\ Raise(f[1], f[2], "provider") /\ UNCHANGED outcome
          /\ pc \notin Ended \cup {"except"}
      BY DEF ProviderFails, Ended
    <2>3. RightlyClassified'
      BY <2>1, <2>2, RaiseOK
         DEF ProviderFails, input, RightlyClassified, Blamed, KindOf, classify_exception,
             Inv, CallsInv, EndInv, ProviderFailure
    <2>4. trace'.status \in {"created", "running"}
      BY TraceOK DEF ProviderFails, report, Inv, TypeOK, EndInv, Stage
    <2> QED
      BY <2>1, <2>2, <2>3, <2>4, RaisedEnds DEF Inv
  <1>4. CallsInv'
    BY DEF ProviderFails, Raise, input, Inv, CallsInv
  <1>5. CapabilityInv'
    BY DEF ProviderFails, Raise, input, Inv, CapabilityInv
  <1>6. LogInv'
    BY DEF ProviderFails, Raise, Inv, LogInv, LogTellsOutcome
  <1> QED
    BY <1>1, <1>2, <1>3, <1>4, <1>5, <1>6 DEF Inv

LEMMA ChallengerSkippedInv ==
    ASSUME Inv, ChallengerSkipped
    PROVE  Inv'
  <1>1. TypeOK'
    BY TraceOK, AppendOK, AuditOK
       DEF ChallengerSkipped, Audited, input, Inv, TypeOK, Stage, Phase,
           EventKind, AuditGate, Verdict
  <1>2. EventsInv'
    BY AppendOK
       DEF ChallengerSkipped, Audited, Inv, EventsInv, InOrder, LastIn, Last,
           MayFollow
  <1>3. EndInv'
    BY TraceOK
       DEF ChallengerSkipped, Audited, Inv, TypeOK, EndInv, Ended, Stage
  <1>4. CallsInv'
    <2>1. calls # <<>>
      <3>1. Len(calls) = 1
        BY DEF ChallengerSkipped, Inv, CallsInv
      <3> QED
        BY <3>1
    <2>2. /\ pc' = "finish" /\ phase' = "audit" /\ task.audit
          /\ UNCHANGED <<task, calls>>
      BY DEF ChallengerSkipped, Audited, input, Inv, CallsInv
    <2> QED
      BY <2>1, <2>2 DEF CallsInv
  <1>5. CapabilityInv'
    BY DEF ChallengerSkipped, Audited, input, Inv, CapabilityInv
  <1>6. LogInv'
    BY DEF ChallengerSkipped, Audited, Inv, LogInv, LogTellsOutcome
  <1> QED
    BY <1>1, <1>2, <1>3, <1>4, <1>5, <1>6 DEF Inv

LEMMA ChallengerAnswersInv ==
    ASSUME Inv, NEW verdict \in Verdict \ {"none"}, ChallengerAnswers(verdict)
    PROVE  Inv'
  <1>1. TypeOK'
    BY TraceOK, AppendOK, AuditOK
       DEF ChallengerAnswers, Audited, input, Inv, TypeOK, Stage, Phase,
           EventKind, Mode, AuditGate, Verdict
  <1>2. EventsInv'
    BY AppendOK
       DEF ChallengerAnswers, Audited, Inv, EventsInv, InOrder, LastIn, Last,
           MayFollow
  <1>3. EndInv'
    BY TraceOK
       DEF ChallengerAnswers, Audited, Inv, TypeOK, EndInv, Ended, Stage
  <1>4. CallsInv'
    <2>1. /\ pc' \in {"finish", "revise"} /\ phase' = "audit" /\ task.audit
          /\ calls' = Append(calls, "challenger") /\ Len(calls) = 1 /\ UNCHANGED task
      BY DEF ChallengerAnswers, Audited, input, Inv, CallsInv
    <2>2. calls \in Seq(Mode) /\ "challenger" \in Mode
      BY DEF Inv, TypeOK, Mode
    <2>3. Len(calls') = 2 /\ calls' # <<>>
      <3>1. Len(Append(calls, "challenger")) = Len(calls) + 1
            /\ Append(calls, "challenger") # <<>>
        BY <2>2, AppendOK
      <3> QED
        BY <2>1, <3>1
    <2> QED
      BY <2>1, <2>3 DEF CallsInv
  <1>5. CapabilityInv'
    BY DEF ChallengerAnswers, Audited, input, Inv, CapabilityInv
  <1>6. LogInv'
    BY DEF ChallengerAnswers, Audited, Inv, LogInv, LogTellsOutcome
  <1> QED
    BY <1>1, <1>2, <1>3, <1>4, <1>5, <1>6 DEF Inv

LEMMA ChallengerFailsInv ==
    ASSUME Inv, NEW f \in ProviderFailure \cup {<<"ValueError", "none">>}, ChallengerFails(f)
    PROVE  Inv'
  <1>1. TypeOK'
    <2>1. exc' \in Exc
      <3>1. /\ f[1] \in ExcType /\ f[2] \in Code /\ "challenger" \in Place
            /\ Raise(f[1], f[2], "challenger")
        BY DEF ChallengerFails, ProviderFailure, ExcType, Code, Place
      <3> QED
        BY <3>1, RaiseOK
    <2>2. trace' \in Tr!Trace /\ audit' \in AuditGate
      BY TraceOK, AuditOK DEF ChallengerFails, Inv, TypeOK, Stage, Verdict
    <2>3. calls' \in Seq(Mode)
      BY AppendOK DEF ChallengerFails, Inv, TypeOK, Mode
    <2> QED
      BY <2>1, <2>2, <2>3
         DEF ChallengerFails, Raise, input, Inv, TypeOK, Phase
  <1>2. EventsInv'
    BY DEF ChallengerFails, Raise, Inv, EventsInv, InOrder, LastIn, Last,
           EventKind, Terminal
  <1>3. EndInv'
    <2>1. f[1] \in ExcType /\ f[2] \in Code /\ "challenger" \in Place
      BY DEF ExcType, Code, Place, ProviderFailure
    <2>2. /\ Raise(f[1], f[2], "challenger") /\ UNCHANGED outcome
          /\ pc \notin Ended \cup {"except"}
      BY DEF ChallengerFails, Ended
    <2>3. RightlyClassified'
      BY <2>1, <2>2, RaiseOK
         DEF ChallengerFails, input, RightlyClassified, Blamed, KindOf, classify_exception,
             Inv, CallsInv, EndInv, ProviderFailure
    <2>4. trace'.status \in {"created", "running"}
      BY TraceOK DEF ChallengerFails, report, Inv, TypeOK, EndInv, Stage
    <2> QED
      BY <2>1, <2>2, <2>3, <2>4, RaisedEnds DEF Inv
  <1>4. CallsInv'
    BY DEF ChallengerFails, Raise, input, Inv, CallsInv
  <1>5. CapabilityInv'
    BY DEF ChallengerFails, Raise, input, Inv, CapabilityInv
  <1>6. LogInv'
    BY DEF ChallengerFails, Raise, Inv, LogInv, LogTellsOutcome
  <1> QED
    BY <1>1, <1>2, <1>3, <1>4, <1>5, <1>6 DEF Inv

LEMMA RevisesInv ==
    ASSUME Inv, Revises
    PROVE  Inv'
  <1>1. TypeOK'
    BY TraceOK, AppendOK, AuditOK
       DEF Revises, input, Inv, TypeOK, Stage, Phase, EventKind, Mode,
           AuditGate, Verdict
  <1>2. EventsInv'
    <2>1. events # <<>> /\ MayFollow(Last, "revision_complete") /\ events' = Append(events, "revision_complete")
      BY DEF Revises, Inv, EventsInv, LastIn, MayFollow, Terminal
    <2>2. /\ events' # <<>> /\ events'[1] = "engine_run_started"
          /\ InOrder' /\ Last' = "revision_complete"
      BY <2>1, EventStep DEF Inv, TypeOK, EventsInv, InOrder, Last, EventKind
    <2> QED
      BY <2>2 DEF Revises, EventsInv, LastIn
  <1>3. EndInv'
    BY TraceOK DEF Revises, Inv, TypeOK, EndInv, Ended, Stage
  <1>4. CallsInv'
    <2>1. calls \in Seq(Mode) /\ "executor" \in Mode
      BY DEF Inv, TypeOK, Mode
    <2>2. calls' # <<>>
      BY <2>1, AppendOK DEF Revises
    <2>3. pc' = "finish" /\ phase' = "revision" /\ task.audit /\ UNCHANGED task
      BY DEF Revises, input, Inv, CallsInv
    <2> QED
      BY <2>2, <2>3 DEF CallsInv
  <1>5. CapabilityInv'
    BY DEF Revises, input, Inv, CapabilityInv
  <1>6. LogInv'
    BY DEF Revises, Inv, LogInv, LogTellsOutcome
  <1> QED
    BY <1>1, <1>2, <1>3, <1>4, <1>5, <1>6 DEF Inv

LEMMA RevisionFailsInv ==
    ASSUME Inv, NEW f \in ProviderFailure, RevisionFails(f)
    PROVE  Inv'
  <1>1. TypeOK'
    <2>1. exc' \in Exc
      <3>1. /\ f[1] \in ExcType /\ f[2] \in Code /\ "revision" \in Place
            /\ Raise(f[1], f[2], "revision")
        BY DEF RevisionFails, ProviderFailure, ExcType, Code, Place
      <3> QED
        BY <3>1, RaiseOK
    <2>2. trace' \in Tr!Trace /\ audit' \in AuditGate
      BY TraceOK, AuditOK DEF RevisionFails, Inv, TypeOK, Stage, Verdict
    <2>3. calls' \in Seq(Mode)
      BY AppendOK DEF RevisionFails, Inv, TypeOK, Mode
    <2> QED
      BY <2>1, <2>2, <2>3 DEF RevisionFails, Raise, input, Inv, TypeOK, Phase
  <1>2. EventsInv'
    BY DEF RevisionFails, Raise, Inv, EventsInv, InOrder, LastIn, Last,
           EventKind, Terminal
  <1>3. EndInv'
    <2>1. f[1] \in ExcType /\ f[2] \in Code /\ "revision" \in Place
      BY DEF ExcType, Code, Place, ProviderFailure
    <2>2. /\ Raise(f[1], f[2], "revision") /\ UNCHANGED outcome
          /\ pc \notin Ended \cup {"except"}
      BY DEF RevisionFails, Ended
    <2>3. RightlyClassified'
      BY <2>1, <2>2, RaiseOK
         DEF RevisionFails, input, RightlyClassified, Blamed, KindOf, classify_exception,
             Inv, CallsInv, EndInv, ProviderFailure
    <2>4. trace'.status \in {"created", "running"}
      BY TraceOK DEF RevisionFails, report, Inv, TypeOK, EndInv, Stage
    <2> QED
      BY <2>1, <2>2, <2>3, <2>4, RaisedEnds DEF Inv
  <1>4. CallsInv'
    BY DEF RevisionFails, Raise, input, Inv, CallsInv
  <1>5. CapabilityInv'
    BY DEF RevisionFails, Raise, input, Inv, CapabilityInv
  <1>6. LogInv'
    BY DEF RevisionFails, Raise, Inv, LogInv, LogTellsOutcome
  <1> QED
    BY <1>1, <1>2, <1>3, <1>4, <1>5, <1>6 DEF Inv

LEMMA FinishesInv ==
    ASSUME Inv, Finishes
    PROVE  Inv'
  <1>1. TypeOK'
    <2>1. trace' \in Tr!Trace
      BY TraceOK DEF Finishes, Inv, TypeOK, Stage
    <2>2. outcome' \in Outcome
      BY <2>1, ResultOK DEF Finishes, Inv, TypeOK
    <2>3. events' \in Seq(EventKind)
      BY DEF Finishes, Inv, TypeOK, EventKind
    <2> QED
      BY <2>1, <2>2, <2>3 DEF Finishes, input, Inv, TypeOK
  <1>2. EventsInv'
    <2> DEFINE q == Append(events, "output_emitted")
    <2>1. events # <<>> /\ MayFollow(Last, "output_emitted")
      BY DEF Finishes, Inv, EventsInv, LastIn, MayFollow
    <2>2. /\ q \in Seq(EventKind) /\ q # <<>> /\ q[1] = "engine_run_started"
          /\ \A k \in 1..(Len(q) - 1) : MayFollow(q[k], q[k + 1])
          /\ q[Len(q)] = "output_emitted"
      BY <2>1, EventStep DEF Inv, TypeOK, EventsInv, InOrder, Last, EventKind
    <2>3. events' = Append(q, "engine_run_complete")
      <3>1. events \in Seq(EventKind)
        BY DEF Inv, TypeOK
      <3>2. events \o <<"output_emitted", "engine_run_complete">>
                = Append(q, "engine_run_complete")
        BY <3>1 DEF EventKind
      <3> QED
        BY <3>2 DEF Finishes
    <2>4. MayFollow(q[Len(q)], "engine_run_complete")
      BY <2>2 DEF MayFollow
    <2> HIDE DEF q
    <2>5. /\ events' # <<>> /\ events'[1] = "engine_run_started"
          /\ InOrder' /\ Last' = "engine_run_complete"
      BY <2>2, <2>3, <2>4, EventStep DEF InOrder, Last, EventKind
    <2>6. pc' = "back" /\ outcome'.ok
      BY DEF Finishes
    <2> QED
      BY <2>5, <2>6 DEF EventsInv, LastIn
  <1>3. EndInv'
    <2>1. outcome' # NoOutcome /\ outcome'.ok /\ trace'.status = "completed"
      BY TraceOK, ResultOK DEF Finishes, Inv, TypeOK, Stage
    <2> QED
      BY <2>1 DEF Finishes, Inv, EndInv, Ended
  <1>4. CallsInv'
    BY DEF Finishes, input, Inv, CallsInv
  <1>5. CapabilityInv'
    <2>1. capMeta = IF task.capabilities = 1 THEN "clean" ELSE "none"
      BY DEF Finishes, Inv, TypeOK, CapabilityInv, Forbidden
    <2> QED
      BY <2>1 DEF Finishes, input, Inv, CapabilityInv
  <1>6. LogInv'
    BY DEF Finishes, Inv, LogInv, LogTellsOutcome
  <1> QED
    BY <1>1, <1>2, <1>3, <1>4, <1>5, <1>6 DEF Inv

LEMMA ResultForbiddenInv ==
    ASSUME Inv, ResultForbidden
    PROVE  Inv'
  <1>1. TypeOK'
    BY TraceOK
       DEF ResultForbidden, Raise, input, Inv, TypeOK, Stage, Exc, ExcType,
           Code, Place
  <1>2. EventsInv'
    BY DEF ResultForbidden, Raise, Inv, EventsInv, InOrder, LastIn, Last,
           EventKind, Terminal
  <1>3. EndInv'
    <2>1. "ValueError" \in ExcType /\ "none" \in Code /\ "result" \in Place
      BY DEF ExcType, Code, Place
    <2>2. /\ Raise("ValueError", "none", "result") /\ UNCHANGED outcome
          /\ pc \notin Ended \cup {"except"}
      BY DEF ResultForbidden, Ended
    <2>3. RightlyClassified'
      BY <2>1, <2>2, RaiseOK
         DEF ResultForbidden, input, RightlyClassified, Blamed, KindOf, classify_exception,
             Inv, CallsInv, EndInv
    <2>4. trace'.status \in {"completed"}
      BY TraceOK DEF ResultForbidden, report, Inv, TypeOK, EndInv, Stage
    <2> QED
      BY <2>1, <2>2, <2>3, <2>4, RaisedEnds DEF Inv
  <1>4. CallsInv'
    BY DEF ResultForbidden, Raise, input, Inv, CallsInv
  <1>5. CapabilityInv'
    BY DEF ResultForbidden, Raise, input, Inv, CapabilityInv
  <1>6. LogInv'
    BY DEF ResultForbidden, Raise, Inv, LogInv, LogTellsOutcome
  <1> QED
    BY <1>1, <1>2, <1>3, <1>4, <1>5, <1>6 DEF Inv

LEMMA HandlesExceptionInv ==
    ASSUME Inv, HandlesException
    PROVE  Inv'
  <1>1. TypeOK'
    <2>1. outcome' \in Outcome
      BY ClassifyOK, FailureOK DEF HandlesException, Inv, TypeOK, EndInv
    <2>2. events' \in Seq(EventKind)
      BY AppendOK DEF HandlesException, Inv, TypeOK, EventKind
    <2>3. trace' \in Tr!Trace
      BY TraceOK DEF HandlesException, Inv, TypeOK, Stage
    <2> QED
      BY <2>1, <2>2, <2>3 DEF HandlesException, input, Inv, TypeOK
  <1>2. EventsInv'
    BY AppendOK
       DEF HandlesException, Inv, EventsInv, InOrder, LastIn, Last, MayFollow
  <1>3. EndInv'
    <2>1. exc \in Exc /\ exc # NoExc /\ RightlyClassified
      BY DEF HandlesException, Inv, TypeOK, EndInv
    <2>2. /\ outcome' # NoOutcome /\ ~outcome'.ok
          /\ outcome'.failure = classify_exception(exc, phase)
      BY <2>1, ClassifyOK, FailureOK DEF HandlesException, Inv, TypeOK
    <2>3. trace'.status = IF exc.at = "result" THEN "completed" ELSE "failed"
      BY TraceOK DEF HandlesException, Inv, TypeOK, EndInv, Stage
    <2>4. RightlyClassified' /\ classify_exception(exc, phase)' = classify_exception(exc, phase)
      BY <2>1 DEF HandlesException, input, RightlyClassified, Blamed, KindOf,
                  classify_exception
    <2> QED
      BY <2>1, <2>2, <2>3, <2>4 DEF HandlesException, EndInv, Ended
  <1>4. CallsInv'
    BY DEF HandlesException, input, Inv, CallsInv
  <1>5. CapabilityInv'
    BY DEF HandlesException, input, Inv, CapabilityInv
  <1>6. LogInv'
    BY DEF HandlesException, Inv, LogInv, LogTellsOutcome
  <1> QED
    BY <1>1, <1>2, <1>3, <1>4, <1>5, <1>6 DEF Inv

LEMMA OrchestratorEndsInv ==
    ASSUME Inv, OrchestratorEnds
    PROVE  Inv'
  <1>1. TypeOK'
    BY DEF OrchestratorEnds, input, report, Inv, TypeOK
  <1>2. EventsInv'
    BY DEF OrchestratorEnds, input, report, Inv, TypeOK, EventsInv, InOrder,
           LastIn, Last, EventKind, Terminal
  <1>3. EndInv'
    BY DEF OrchestratorEnds, input, report, Inv, TypeOK, EndInv, Ended,
           RightlyClassified, Blamed, KindOf, classify_exception, CallsInv,
           Stage
  <1>4. CallsInv'
    BY DEF OrchestratorEnds, input, Inv, CallsInv
  <1>5. CapabilityInv'
    BY DEF OrchestratorEnds, input, report, Inv, CapabilityInv
  <1>6. LogInv'
    BY DEF OrchestratorEnds, input, report, Inv, TypeOK, LogInv,
           LogTellsOutcome, EndInv, Ended, EventsInv, Last
  <1> QED
    BY <1>1, <1>2, <1>3, <1>4, <1>5, <1>6 DEF Inv

LEMMA CommandEndsInv ==
    ASSUME Inv, NEW caller \in Caller \ {"orchestrator"}, CommandEnds(caller)
    PROVE  Inv'
  <1>1. TypeOK'
    BY DEF CommandEnds, input, report, Inv, TypeOK
  <1>2. EventsInv'
    BY DEF CommandEnds, input, report, Inv, TypeOK, EventsInv, InOrder,
           LastIn, Last, EventKind, Terminal
  <1>3. EndInv'
    BY DEF CommandEnds, input, report, Inv, TypeOK, EndInv, Ended,
           RightlyClassified, Blamed, KindOf, classify_exception, CallsInv,
           Stage
  <1>4. CallsInv'
    BY DEF CommandEnds, input, Inv, CallsInv
  <1>5. CapabilityInv'
    BY DEF CommandEnds, input, report, Inv, CapabilityInv
  <1>6. LogInv'
    <2>1. log' = (IF outcome.ok THEN <<"ok">> ELSE <<"error">>)
      BY DEF CommandEnds, Inv, LogInv
    <2>2. <<"ok">> # <<>> /\ <<"error">> # <<>> /\ <<"error">> # <<"ok", "error">>
      OBVIOUS
    <2>3. outcome' = outcome /\ pc' = "over"
      BY DEF CommandEnds
    <2> QED
      BY <2>1, <2>2, <2>3 DEF LogInv, LogTellsOutcome
  <1> QED
    BY <1>1, <1>2, <1>3, <1>4, <1>5, <1>6 DEF Inv

LEMMA PrintFailsInv ==
    ASSUME Inv, PrintFails
    PROVE  Inv'
  <1>1. TypeOK'
    <2>1. outcome' \in Outcome
      BY FailureOK DEF PrintFails
    <2>2. log' \in Seq({"ok", "error"})
      BY DEF PrintFails, Inv, TypeOK
    <2> QED
      BY <2>1, <2>2 DEF PrintFails, input, report, Inv, TypeOK
  <1>2. EventsInv'
    BY DEF PrintFails, input, report, Inv, TypeOK, EventsInv, InOrder,
           LastIn, Last, EventKind, Terminal
  <1>3. EndInv'
    <2>1. outcome' # NoOutcome
      BY FailureOK DEF PrintFails
    <2>2. exc = NoExc
      BY DEF PrintFails, Inv, EndInv, Ended
    <2> QED
      BY <2>1, <2>2 DEF PrintFails, input, report, Inv, EndInv, Ended
  <1>4. CallsInv'
    BY DEF PrintFails, input, Inv, CallsInv
  <1>5. CapabilityInv'
    BY DEF PrintFails, input, report, Inv, CapabilityInv
  <1>6. LogInv'
    <2>1. log' = <<"ok", "error">> /\ ~outcome'.ok /\ pc' = "over"
      BY DEF PrintFails, Inv, LogInv
    <2>2. events # <<>> /\ Last = "engine_run_complete"
      BY DEF PrintFails, Inv, EventsInv, LastIn
    <2>3. log' # <<>>
      BY <2>1
    <2> QED
      BY <2>1, <2>2, <2>3
         DEF PrintFails, report, LogInv, LogTellsOutcome, Last
  <1> QED
    BY <1>1, <1>2, <1>3, <1>4, <1>5, <1>6 DEF Inv

LEMMA InitInv == Init => Inv
  <1> SUFFICES ASSUME Init PROVE Inv
    OBVIOUS
  <1>1. TypeOK
    BY DEF Init, TypeOK, Phase, Tr!NewTrace, Tr!Trace, Tr!TraceStatus,
           NoAudit,
           AuditGate, Verdict
  <1>2. EventsInv /\ CapabilityInv /\ LogInv
    BY DEF Init, EventsInv, InOrder, CapabilityInv, LogInv, LogTellsOutcome
  <1>3. EndInv /\ CallsInv
    BY DEF Init, EndInv, CallsInv, Ended, Tr!NewTrace
  <1> QED
    BY <1>1, <1>2, <1>3 DEF Inv

LEMMA NextInv == Inv /\ [Next]_vars => Inv'
  <1> SUFFICES ASSUME Inv, [Next]_vars PROVE Inv'
    OBVIOUS
  <1>1. CASE EngineRuns \/ Refuses \/ PayloadInvalid \/ InvokeCapability
             \/ TimesOut \/ LeavesExecutor \/ CapabilityEnds
    BY <1>1, EngineRunsInv, RefusesInv, PayloadInvalidInv,
       InvokeCapabilityInv,
       TimesOutInv, LeavesExecutorInv, CapabilityEndsInv
  <1>2. ASSUME NEW type \in {"ValueError", "Exception"}, LookupFails(type)
        PROVE  Inv'
    BY <1>2, LookupFailsInv
  <1>3. ASSUME NEW output \in {"clean", "forbidden"}, CapabilityReturns(output)
        PROVE  Inv'
    BY <1>3, CapabilityReturnsInv
  <1>4. ASSUME NEW f \in CapabilityFailure, CapabilityFails(f[1], f[2])
        PROVE  Inv'
    BY <1>4, CapabilityFailsInv
  <1>5. CASE Dispatch \/ NullProviderRuns \/ Prepares \/ PrepareFails \/ LimitExceeded
             \/ ProviderAnswers \/ ChallengerSkipped \/ Revises
    BY <1>5, DispatchInv, NullProviderRunsInv, PreparesInv, PrepareFailsInv,
       LimitExceededInv, ProviderAnswersInv, ChallengerSkippedInv, RevisesInv
  <1>6. ASSUME NEW f \in ProviderFailure, ProviderFails(f) \/ RevisionFails(f)
        PROVE  Inv'
    BY <1>6, ProviderFailsInv, RevisionFailsInv
  <1>7. ASSUME NEW verdict \in Verdict \ {"none"}, ChallengerAnswers(verdict)
        PROVE  Inv'
    BY <1>7, ChallengerAnswersInv
  <1>8. ASSUME NEW f \in ProviderFailure \cup {<<"ValueError", "none">>},
               ChallengerFails(f)
        PROVE  Inv'
    BY <1>8, ChallengerFailsInv
  <1>9. CASE Finishes \/ ResultForbidden \/ HandlesException \/ OrchestratorEnds
             \/ PrintFails
    BY <1>9, FinishesInv, ResultForbiddenInv, HandlesExceptionInv,
       OrchestratorEndsInv, PrintFailsInv
  <1>10. CASE RunCommandEnds \/ CapabilityCommandEnds
    <2>1. "run" \in Caller \ {"orchestrator"} /\ "capability" \in Caller \ {"orchestrator"}
      BY DEF Caller
    <2> QED
      BY <1>10, <2>1, CommandEndsInv DEF RunCommandEnds, CapabilityCommandEnds
  <1>11. CASE UNCHANGED vars
    <2>1. /\ UNCHANGED <<task, cfg, pc, phase, trace, events, thread>>
          /\ UNCHANGED <<capMeta, calls, audit, exc, outcome, log>>
      BY <1>11 DEF vars
    <2>2. TypeOK' /\ EventsInv'
      BY <2>1 DEF Inv, TypeOK, EventsInv, InOrder, LastIn, Last
    <2>3. RightlyClassified' = RightlyClassified
      BY <2>1 DEF RightlyClassified, Blamed, classify_exception, KindOf
    <2>4. classify_exception(exc, phase)' = classify_exception(exc, phase)
      BY <2>1 DEF classify_exception, KindOf
    <2>5. EndInv'
      BY <2>1, <2>3, <2>4 DEF Inv, EndInv, Ended
    <2>6. CallsInv' /\ CapabilityInv' /\ LogInv'
      BY <2>1 DEF Inv, CallsInv, CapabilityInv, LogInv, LogTellsOutcome, Last
    <2> QED
      BY <2>2, <2>5, <2>6 DEF Inv
  <1> QED
    BY <1>1, <1>2, <1>3, <1>4, <1>5, <1>6, <1>7, <1>8, <1>9, <1>10, <1>11
       DEF Next, Engine

LEMMA Invariance == Spec => []Inv
  BY InitInv, NextInv, PTL DEF Spec

-----------------------------------------------------------------------------
(* Every variable keeps its type, and the audit's counters stay numbers,   *)
(* through every path of a run.                                            *)
THEOREM TypeCorrect == Spec => []TypeOK
  BY Invariance, PTL DEF Inv

(* The events of a run come in ADR-013's order, and the engine is done     *)
(* exactly when one of the two terminal events is the last.                *)
THEOREM EventsStayInOrder == Spec => []EventsInOrder
  <1>1. Inv => EventsInOrder
    <2> SUFFICES ASSUME Inv PROVE EventsInOrder
      OBVIOUS
    <2>1. EngineOver => events # <<>> /\ Last \in Terminal
      BY DEF Inv, EventsInv, EngineOver, LastIn, Terminal
    <2>2. ASSUME events # <<>>, Last \in Terminal PROVE EngineOver
      BY <2>2 DEF Inv, TypeOK, EventsInv, EngineOver, LastIn, Terminal
    <2> QED
      BY <2>1, <2>2 DEF Inv, EventsInv, InOrder, EventsInOrder, EngineOver
  <1> QED
    BY <1>1, Invariance, PTL

(* No run leaves its trace open, and the trace's last status tells whether *)
(* the run raised before it had a result.                                  *)
THEOREM TracesTell == Spec => []TraceTells
  <1>1. Inv => TraceTells
    BY DEF Inv, EndInv, Ended, TraceTells, EngineOver
  <1> QED
    BY <1>1, Invariance, PTL

(* The envelope of a run that failed before it had a result names the      *)
(* place the exception came from, although it is computed from the         *)
(* engine's phase variable.                                                *)
THEOREM FailuresNamePlace == Spec => []FailureNamesPlace
  <1>1. Inv => FailureNamesPlace
    <2> SUFFICES ASSUME Inv, EngineOver, exc # NoExc
                 PROVE  /\ ~outcome.ok /\ outcome.failure # NoFailure
                        /\ exc.at # "result" => outcome.failure.kind = Blamed(exc.at)
                        /\ outcome.failure.retryable
                               => exc.at \in {"provider", "challenger", "revision"}
      BY DEF FailureNamesPlace
    <2>1. /\ ~outcome.ok /\ outcome.failure = classify_exception(exc, phase)
          /\ RightlyClassified
      BY DEF Inv, EndInv, Ended, EngineOver
    <2>2. classify_exception(exc, phase) # NoFailure
      BY ClassifyOK, NoFailureAssumption DEF Inv, TypeOK
    <2>3. classify_exception(exc, phase).kind = KindOf(exc, phase)
      BY DEF classify_exception
    <2> QED
      BY <2>1, <2>2, <2>3 DEF RightlyClassified
  <1> QED
    BY <1>1, Invariance, PTL

(* No model is called before a declared capability gave its output, and no *)
(* run is over while the capability's thread is at work.                   *)
THEOREM CapabilityComesFirst == Spec => []CapabilityFirst
  <1>1. Inv => CapabilityFirst
    BY DEF Inv, CapabilityInv, CapabilityFirst
  <1> QED
    BY <1>1, Invariance, PTL

(* The metadata records of a command agree with how it ended.              *)
THEOREM LogsTellOutcome == Spec => []LogTellsOutcome
  <1>1. Inv => LogTellsOutcome
    BY DEF Inv, LogInv
  <1> QED
    BY <1>1, Invariance, PTL

-----------------------------------------------------------------------------
(* The run keeps its bounds.                                               *)

RunVerdict ==
    IF events # <<>> /\ Last = "engine_run_complete" THEN "result"
    ELSE IF outcome # NoOutcome THEN "failure" ELSE "running"

LEMMA VerdictAtPoint ==
    ASSUME Inv
    PROVE  /\ pc \notin Ended => RunVerdict = "running"
           /\ pc \in Ended => RunVerdict \in {"result", "failure"}
  BY DEF Inv, TypeOK, EventsInv, EndInv, Ended, LastIn, Terminal, RunVerdict

(* A model is called where BoundedRun expects the next call.               *)
LEMMA CallStep ==
    ASSUME Inv, [Next]_vars, calls' # calls
    PROVE  /\ pc \notin Ended /\ pc' \notin Ended
           /\ Len(calls) < 3 /\ calls' = Append(calls, Bound!Order[Len(calls) + 1])
  <1>1. CASE ProviderAnswers \/ \E f \in ProviderFailure : ProviderFails(f)
    <2>1. calls = <<>> /\ calls' = Append(calls, "executor")
          /\ pc \notin Ended /\ pc' \notin Ended
      BY <1>1 DEF ProviderAnswers, ProviderFails, Raise, Inv, CallsInv, Ended
    <2> QED
      BY <2>1 DEF Bound!Order
  <1>2. CASE \/ \E verdict \in Verdict \ {"none"} : ChallengerAnswers(verdict)
             \/ \E f \in ProviderFailure \cup {<<"ValueError", "none">>} :
                    ChallengerFails(f)
    <2>1. Len(calls) = 1 /\ calls' = Append(calls, "challenger")
          /\ pc \notin Ended /\ pc' \notin Ended
      BY <1>2
         DEF ChallengerAnswers, ChallengerFails, Audited, Raise, Inv,
             CallsInv, Ended
    <2> QED
      BY <2>1 DEF Bound!Order
  <1>3. CASE Revises \/ \E f \in ProviderFailure : RevisionFails(f)
    <2>1. Len(calls) = 2 /\ calls' = Append(calls, "executor")
          /\ pc \notin Ended /\ pc' \notin Ended
      BY <1>3 DEF Revises, RevisionFails, Raise, Inv, CallsInv, Ended
    <2> QED
      BY <2>1 DEF Bound!Order
  <1> QED
    BY <1>1, <1>2, <1>3
       DEF Next, Engine, vars, EngineRuns, Refuses, PayloadInvalid, InvokeCapability,
           TimesOut, LeavesExecutor, LookupFails, CapabilityReturns, CapabilityFails,
           Dispatch, NullProviderRuns, Prepares, PrepareFails, LimitExceeded,
           ChallengerSkipped, Finishes, ResultForbidden, HandlesException,
           OrchestratorEnds, RunCommandEnds, CapabilityCommandEnds, CommandEnds,
           PrintFails, CapabilityEnds

(* What ends a run ends it for good.                                       *)
LEMMA EndedStep ==
    ASSUME Inv, [Next]_vars, pc \in Ended
    PROVE  pc' \in Ended /\ UNCHANGED events
  BY DEF Ended, Next, Engine, vars, EngineRuns, Refuses, PayloadInvalid,
         InvokeCapability, TimesOut, LeavesExecutor, LookupFails, CapabilityReturns,
         CapabilityFails, Dispatch, NullProviderRuns, Prepares, PrepareFails,
         LimitExceeded, ProviderAnswers, ProviderFails, ChallengerSkipped,
         ChallengerAnswers, ChallengerFails, Revises, RevisionFails, Finishes,
         ResultForbidden, HandlesException, OrchestratorEnds, RunCommandEnds,
         CapabilityCommandEnds, CommandEnds, PrintFails, CapabilityEnds, report

LEMMA BoundedStep ==
    ASSUME Inv, Inv', [Next]_vars
    PROVE  [Bound!Next]_(Bound!bounded)
  <1>1. /\ pc \notin Ended => RunVerdict = "running"
        /\ pc \in Ended => RunVerdict \in {"result", "failure"}
    BY VerdictAtPoint
  <1>2. /\ pc' \notin Ended => RunVerdict' = "running"
        /\ pc' \in Ended => RunVerdict' \in {"result", "failure"}
    BY DEF Inv, TypeOK, EventsInv, EndInv, Ended, LastIn, Terminal, RunVerdict
  <1>3. CASE calls' # calls
    <2>1. /\ RunVerdict = "running" /\ RunVerdict' = "running"
          /\ Len(calls) < 3 /\ calls' = Append(calls, Bound!Order[Len(calls) + 1])
      BY <1>1, <1>2, <1>3, CallStep
    <2>2. Bound!Call
      BY <2>1 DEF Bound!Call, Bound!Order, RunVerdict
    <2> QED
      BY <2>2 DEF Bound!Next
  <1>4. CASE calls' = calls /\ pc \in Ended
    <2>1. pc' \in Ended /\ UNCHANGED events
      BY <1>4, EndedStep
    <2>2. outcome # NoOutcome /\ outcome' # NoOutcome
      BY <1>4, <2>1 DEF Inv, EndInv, Ended
    <2>3. RunVerdict' = RunVerdict
      BY <2>1, <2>2 DEF RunVerdict, Last
    <2> QED
      BY <1>4, <2>3 DEF Bound!bounded, RunVerdict
  <1>5. CASE calls' = calls /\ pc \notin Ended
    <2>1. RunVerdict = "running" /\ RunVerdict' \in {"running", "result", "failure"}
      BY <1>1, <1>2, <1>5
    <2>2. CASE RunVerdict' = "running"
      BY <1>5, <2>1, <2>2 DEF Bound!bounded, RunVerdict
    <2>3. CASE RunVerdict' \in {"result", "failure"}
      BY <1>5, <2>1, <2>3 DEF Bound!Next, Bound!End, RunVerdict
    <2> QED
      BY <2>1, <2>2, <2>3
  <1> QED
    BY <1>3, <1>4, <1>5

(* Every run calls the executor's model, then perhaps the challenger's,    *)
(* then perhaps the executor's again, and ends once, for good.             *)
THEOREM BoundsAreKept == Spec => KeepsBounds
  <1>1. Init => Bound!Init
    BY DEF Init, Bound!Init
  <1>2. Inv /\ Inv' /\ [Next]_vars => [Bound!Next]_(Bound!bounded)
    BY BoundedStep
  <1> QED
    BY <1>1, <1>2, Invariance, PTL DEF Spec, KeepsBounds, Bound!Spec
-----------------------------------------------------------------------------
(* A result agrees with what was recorded on the way.                      *)

(* How many elements of a sequence are in S.                               *)
CountIn(q, S) == Cardinality({k \in 1..Len(q) : q[k] \in S})

Drafted == {"provider_run", "provider_inference"}

(* The steps of the trace, the events, the counters and the calls agree.   *)
Agree ==
    /\ CountIn(trace.steps, Drafted) = CountIn(events, {"provider_execution_complete"})
    /\ CountIn(trace.steps, {"challenger_audit"}) = audit.audit_passes
    /\ CountIn(events, {"challenger_audit_complete"}) = audit.audit_passes
    /\ CountIn(trace.steps, {"revision_inference"}) = audit.revision_passes
    /\ CountIn(events, {"revision_complete"}) = audit.revision_passes
    /\ Len(calls) = CountIn(trace.steps, {"provider_inference"}) + audit.revision_passes
                    + (IF ChallengerCalled THEN audit.audit_passes ELSE 0)

(* How far audit and revision are at the points before the end of a run.   *)
AuditInv ==
    /\ pc \in {"called", "capability", "waiting", "leaving", "dispatch", "null",
               "prepare", "provider", "audit"} => audit = NoAudit
    /\ pc = "revise" => audit = [NoAudit EXCEPT !.audit_passes = 1,
                                                !.audit_verdict = "needs_work"]
    /\ pc = "finish" => /\ SessionStateOK(audit)
                        /\ audit.revised <=> audit.audit_verdict = "needs_work"

(* They agree until the run fails, and so they do when it has returned.    *)
RecordsInv ==
    /\ pc \notin Ended \cup {"except"} => Agree /\ AuditInv
    /\ pc = "back" /\ outcome.ok =>
           /\ Agree /\ SessionStateOK(audit)
           /\ audit.revised <=> audit.audit_verdict = "needs_work"
           /\ outcome.result.audit = audit /\ outcome.result.trace = trace

LEMMA CountEmpty == \A S : CountIn(<<>>, S) = 0
  <1>1. \A S : {k \in 1..Len(<<>>) : <<>>[k] \in S} = {}
    OBVIOUS
  <1> QED
    BY <1>1, FS_EmptySet DEF CountIn

(* How many elements are in a set after one more.                          *)
LEMMA CountAppend ==
    ASSUME NEW T, NEW q \in Seq(T), NEW e \in T, NEW S
    PROVE  /\ CountIn(q, S) \in Nat
           /\ CountIn(Append(q, e), S) = CountIn(q, S) + (IF e \in S THEN 1 ELSE 0)
  <1> DEFINE r == Append(q, e)
             A == {k \in 1..Len(q) : q[k] \in S}
             B == {k \in 1..Len(r) : r[k] \in S}
             n == Len(q) + 1
  <1>1. /\ Len(r) = n /\ r[n] = e /\ Len(q) \in Nat
        /\ \A k \in 1..Len(q) : r[k] = q[k]
    BY AppendOK
  <1>2. IsFiniteSet(A) /\ n \notin A /\ Cardinality(A) \in Nat
    <2>1. IsFiniteSet(1..Len(q)) /\ A \subseteq 1..Len(q)
      BY <1>1, FS_Interval
    <2>2. IsFiniteSet(A)
      BY <2>1, FS_Subset
    <2> QED
      BY <1>1, <2>2, FS_CardinalityType
  <1> HIDE DEF r
  <1>3. B = IF e \in S THEN A \cup {n} ELSE A
    BY <1>1
  <1>4. CountIn(q, S) = Cardinality(A) /\ CountIn(Append(q, e), S) = Cardinality(B)
    BY DEF CountIn, r
  <1> HIDE DEF A, B, n
  <1>5. CASE e \in S
    <2>1. Cardinality(A \cup {n}) = Cardinality(A) + 1
      BY <1>2, FS_AddElement
    <2> QED
      BY <1>2, <1>3, <1>4, <1>5, <2>1
  <1>6. CASE e \notin S
    BY <1>2, <1>3, <1>4, <1>6
  <1> QED
    BY <1>5, <1>6

(* A step changes none of what Agree compares.                             *)
LEMMA AgreeSame ==
    ASSUME Agree, trace'.steps = trace.steps, UNCHANGED <<cfg, events, calls, audit>>
    PROVE  Agree'
  BY DEF Agree, ChallengerCalled, challenger_route

(* What a step and an event do to the counts.                              *)
LEMMA StepCounts ==
    ASSUME TypeOK, NEW stage \in Stage
    PROVE  LET t == Tr!Recorded(trace, stage)
           IN  \A S : /\ CountIn(trace.steps, S) \in Nat
                      /\ CountIn(t.steps, S)
                             = CountIn(trace.steps, S) + (IF stage \in S THEN 1 ELSE 0)
  <1>1. trace.steps \in Seq(Stage) /\ trace \in Tr!Trace
    BY DEF TypeOK, Tr!Trace
  <1>2. Tr!Recorded(trace, stage).steps = Append(trace.steps, stage)
    BY <1>1 DEF Tr!Recorded, Tr!Trace
  <1> QED
    BY <1>1, <1>2, CountAppend

LEMMA EventCounts ==
    ASSUME TypeOK, NEW e \in EventKind
    PROVE  \A S : /\ CountIn(events, S) \in Nat
                  /\ CountIn(Append(events, e), S)
                         = CountIn(events, S) + (IF e \in S THEN 1 ELSE 0)
  BY CountAppend DEF TypeOK

(* A failed run has nothing to agree with.                                 *)
LEMMA FailedRecords ==
    ASSUME \/ pc' \in {"except", "over"}
           \/ pc' = "back" /\ ~outcome'.ok
    PROVE  RecordsInv'
  BY DEF RecordsInv, Ended

(* The points before the first model call.                                 *)
LEMMA EarlyRecords ==
    ASSUME Inv, RecordsInv,
           EngineRuns \/ InvokeCapability \/ CapabilityEnds \/ TimesOut \/ Dispatch
             \/ Prepares \/ \E output \in {"clean", "forbidden"} : CapabilityReturns(output)
    PROVE  RecordsInv'
  <1>1. CASE EngineRuns
    <2>1. events = <<>> /\ events' = Append(events, "engine_run_started")
      BY <1>1 DEF EngineRuns, Inv, EventsInv
    <2>2. "engine_run_started" \in EventKind
      BY DEF EventKind
    <2>3. Agree'
      BY <1>1, <2>1, <2>2, EventCounts
         DEF EngineRuns, input, Inv, RecordsInv, Ended, Agree, ChallengerCalled,
             challenger_route
    <2> QED
      BY <1>1, <2>3 DEF EngineRuns, input, RecordsInv, AuditInv, Ended
  <1>2. CASE InvokeCapability \/ CapabilityEnds \/ TimesOut
    <2>1. trace'.steps = trace.steps
      BY <1>2 DEF InvokeCapability, CapabilityEnds, TimesOut, report, Tr!Begun,
                  Inv, TypeOK, Tr!Trace
    <2>2. UNCHANGED <<cfg, events, calls, audit, outcome>>
      BY <1>2 DEF InvokeCapability, CapabilityEnds, TimesOut, input, report
    <2>3. CASE pc \in Ended
      <3>1. UNCHANGED <<pc, trace>>
        BY <1>2, <2>3 DEF Ended, InvokeCapability, CapabilityEnds, TimesOut, report
      <3> QED
        BY <2>1, <2>2, <2>3, <3>1, AgreeSame
           DEF RecordsInv, AuditInv, Ended, SessionStateOK
    <2>4. CASE pc \notin Ended
      <3>1. /\ pc \notin {"except"} => Agree'
            /\ pc' = pc \/ pc' \in {"waiting", "leaving"}
            /\ pc' # pc => pc \in {"capability", "waiting"}
        BY <1>2, <2>1, <2>2, <2>4, AgreeSame
           DEF RecordsInv, Ended, InvokeCapability, CapabilityEnds, TimesOut
      <3> QED
        BY <2>1, <2>2, <2>4, <3>1 DEF RecordsInv, AuditInv, Ended, SessionStateOK
    <2> QED
      BY <2>3, <2>4
  <1>3. CASE Dispatch
    <2>1. "route_resolved" \in EventKind
      BY DEF EventKind
    <2>2. Agree'
      BY <1>3, <2>1, EventCounts
         DEF Dispatch, input, Inv, RecordsInv, Ended, Agree, ChallengerCalled,
             challenger_route
    <2> QED
      BY <1>3, <2>2 DEF Dispatch, input, RecordsInv, AuditInv, Ended
  <1>4. CASE Prepares
    <2>1. "context_assembly" \in Stage
      BY DEF Stage
    <2>2. Agree'
      BY <1>4, <2>1, StepCounts
         DEF Prepares, input, Inv, RecordsInv, Ended, Agree, ChallengerCalled,
             challenger_route, Drafted
    <2> QED
      BY <1>4, <2>2 DEF Prepares, input, RecordsInv, AuditInv, Ended
  <1>5. ASSUME NEW output \in {"clean", "forbidden"}, CapabilityReturns(output)
        PROVE  RecordsInv'
    <2>1. "capability_execution" \in Stage
      BY DEF Stage
    <2>2. Agree'
      BY <1>5, <2>1, StepCounts
         DEF CapabilityReturns, input, Inv, RecordsInv, Ended, Agree, ChallengerCalled,
             challenger_route, Drafted
    <2> QED
      BY <1>5, <2>2 DEF CapabilityReturns, input, RecordsInv, AuditInv, Ended
  <1> QED
    BY <1>1, <1>2, <1>3, <1>4, <1>5

(* What a model step and its event do to the counts.                       *)
Moved(drafted, inferred, audited, revised) ==
    /\ \A S : CountIn(trace.steps, S) \in Nat /\ CountIn(events, S) \in Nat
    /\ CountIn(trace'.steps, Drafted) = CountIn(trace.steps, Drafted) + drafted
    /\ CountIn(events', {"provider_execution_complete"})
           = CountIn(events, {"provider_execution_complete"}) + drafted
    /\ CountIn(trace'.steps, {"provider_inference"})
           = CountIn(trace.steps, {"provider_inference"}) + inferred
    /\ CountIn(trace'.steps, {"challenger_audit"})
           = CountIn(trace.steps, {"challenger_audit"}) + audited
    /\ CountIn(events', {"challenger_audit_complete"})
           = CountIn(events, {"challenger_audit_complete"}) + audited
    /\ CountIn(trace'.steps, {"revision_inference"})
           = CountIn(trace.steps, {"revision_inference"}) + revised
    /\ CountIn(events', {"revision_complete"})
           = CountIn(events, {"revision_complete"}) + revised

LEMMA ReportedStep ==
    ASSUME TypeOK, NEW stage \in Stage, NEW e \in EventKind,
           trace' = Tr!Recorded(trace, stage), events' = Append(events, e)
    PROVE  /\ stage = "provider_run" /\ e = "provider_execution_complete"
                  => Moved(1, 0, 0, 0)
           /\ stage = "provider_inference" /\ e = "provider_execution_complete"
                  => Moved(1, 1, 0, 0)
           /\ stage = "challenger_audit" /\ e = "challenger_audit_complete"
                  => Moved(0, 0, 1, 0)
           /\ stage = "revision_inference" /\ e = "revision_complete"
                  => Moved(0, 0, 0, 1)
  <1>1. \A S : CountIn(trace'.steps, S) = CountIn(trace.steps, S) + (IF stage \in S THEN 1 ELSE 0)
    BY StepCounts
  <1>2. \A S : CountIn(events', S) = CountIn(events, S) + (IF e \in S THEN 1 ELSE 0)
    BY EventCounts
  <1>3. \A S : CountIn(trace.steps, S) \in Nat /\ CountIn(events, S) \in Nat
    BY StepCounts, EventCounts
  <1>4. "challenger_audit" \notin Drafted /\ "revision_inference" \notin Drafted
        /\ "provider_run" \in Drafted /\ "provider_inference" \in Drafted
    BY DEF Drafted
  <1> QED
    BY <1>1, <1>2, <1>3, <1>4 DEF Moved

LEMMA ReportedKinds ==
    /\ {"provider_run", "provider_inference", "challenger_audit", "revision_inference"}
           \subseteq Stage
    /\ {"provider_execution_complete", "challenger_audit_complete", "revision_complete"}
           \subseteq EventKind
  BY DEF Stage, EventKind

LEMMA Regroup ==
    ASSUME NEW x \in Nat, NEW y \in Nat, NEW z \in Nat,
           NEW u \in Nat, NEW v \in Nat, NEW w \in Nat
    PROVE  (x + y + z) + u + v + w = (x + u) + (y + v) + (z + w)
  OBVIOUS

LEMMA MovedAgrees ==
    ASSUME Agree, cfg' = cfg, audit \in AuditGate,
           NEW d \in Nat, NEW i \in Nat, NEW a \in Nat, NEW r \in Nat, Moved(d, i, a, r),
           audit'.audit_passes = audit.audit_passes + a,
           audit'.revision_passes = audit.revision_passes + r,
           Len(calls') = Len(calls) + i + r + (IF ChallengerCalled THEN a ELSE 0)
    PROVE  Agree'
  <1>1. ChallengerCalled' = ChallengerCalled
    BY DEF ChallengerCalled, challenger_route
  <1>2. PICK n \in Nat, y \in Nat, c \in Nat, ca \in Nat :
            /\ n = CountIn(trace.steps, {"provider_inference"})
            /\ y = audit.revision_passes
            /\ c = IF ChallengerCalled THEN audit.audit_passes ELSE 0
            /\ ca = IF ChallengerCalled THEN a ELSE 0
    <2>1. audit.audit_passes \in Nat /\ audit.revision_passes \in Nat
      BY DEF AuditGate
    <2>2. CountIn(trace.steps, {"provider_inference"}) \in Nat
      BY DEF Moved
    <2> QED
      BY <2>1, <2>2
  <1>3. (IF ChallengerCalled THEN audit'.audit_passes ELSE 0) = c + ca
    BY <1>2
  <1>4. Len(calls) = n + y + c
    BY <1>2 DEF Agree
  <1>5. Len(calls') = (n + y + c) + i + r + ca
    BY <1>2, <1>4
  <1>6. (n + y + c) + i + r + ca = (n + i) + (y + r) + (c + ca)
    BY Regroup
  <1>7. Len(calls') = (n + i) + (y + r) + (c + ca)
    BY <1>5, <1>6, Zenon
  <1>8. Len(calls') = CountIn(trace'.steps, {"provider_inference"}) + audit'.revision_passes
                      + (IF ChallengerCalled' THEN audit'.audit_passes ELSE 0)
    BY <1>1, <1>2, <1>3, <1>7 DEF Moved
  <1> QED
    BY <1>8 DEF Agree, Moved

(* The executor's draft, by either provider.                               *)
LEMMA DraftRecords ==
    ASSUME Inv, RecordsInv, NullProviderRuns \/ ProviderAnswers
    PROVE  RecordsInv'
  <1>1. pc \notin Ended \cup {"except"} /\ Agree /\ audit = NoAudit /\ audit' = audit
        /\ TypeOK /\ cfg' = cfg
    BY DEF NullProviderRuns, ProviderAnswers, RecordsInv, AuditInv, Ended, Inv, input
  <1>2. Agree'
    <2>1. audit \in AuditGate /\ audit'.audit_passes = audit.audit_passes + 0
          /\ audit'.revision_passes = audit.revision_passes + 0
          /\ Len(calls) \in Nat
      BY <1>1 DEF TypeOK, AuditGate
    <2>2. CASE NullProviderRuns
      <3>1. Moved(1, 0, 0, 0)
        BY <1>1, <2>2, ReportedStep, ReportedKinds DEF NullProviderRuns
      <3>2. Len(calls') = Len(calls) + 0 + 0 + (IF ChallengerCalled THEN 0 ELSE 0)
        BY <2>1, <2>2 DEF NullProviderRuns
      <3> QED
        BY <1>1, <2>1, <3>1, <3>2, MovedAgrees
    <2>3. CASE ProviderAnswers
      <3>1. Moved(1, 1, 0, 0)
        BY <1>1, <2>3, ReportedStep, ReportedKinds DEF ProviderAnswers
      <3>2. Len(calls') = Len(calls) + 1 + 0 + (IF ChallengerCalled THEN 0 ELSE 0)
        BY <1>1, <2>3 DEF ProviderAnswers, TypeOK, Mode
      <3> QED
        BY <1>1, <2>1, <3>1, <3>2, MovedAgrees
    <2> QED
      BY <2>2, <2>3
  <1>3. pc' \in {"audit", "finish"}
    BY DEF NullProviderRuns, ProviderAnswers
  <1> QED
    BY <1>1, <1>2, <1>3
       DEF RecordsInv, AuditInv, Ended, NoAudit, SessionStateOK, MAX_AUDIT_PASSES,
           MAX_REVISION_PASSES

(* The challenger's pass, called or skipped.                               *)
LEMMA AuditedRecords ==
    ASSUME Inv, RecordsInv,
           ChallengerSkipped
             \/ \E verdict \in Verdict \ {"none"} : ChallengerAnswers(verdict)
    PROVE  RecordsInv'
  <1>1. pc \notin Ended \cup {"except"} /\ Agree /\ audit = NoAudit /\ TypeOK /\ cfg' = cfg
    BY DEF ChallengerSkipped, ChallengerAnswers, RecordsInv, AuditInv, Ended, Inv, input
  <1>2. PICK verdict \in Verdict \ {"none"} :
            /\ Audited(verdict)
            /\ Len(calls') = Len(calls) + 0 + 0 + (IF ChallengerCalled THEN 1 ELSE 0)
    <2>1. CASE ChallengerSkipped
      <3>1. Audited("pass") /\ calls' = calls /\ ~ChallengerCalled
        BY <2>1 DEF ChallengerSkipped, ChallengerCalled
      <3> QED
        BY <1>1, <3>1 DEF Verdict, TypeOK
    <2>2. ASSUME NEW v \in Verdict \ {"none"}, ChallengerAnswers(v)
          PROVE  /\ Audited(v)
                 /\ Len(calls') = Len(calls) + 0 + 0 + (IF ChallengerCalled THEN 1 ELSE 0)
      BY <1>1, <2>2 DEF ChallengerAnswers, TypeOK, Mode
    <2> QED
      BY <2>1, <2>2
  <1>3. /\ audit' = [NoAudit EXCEPT !.audit_passes = 1, !.audit_verdict = verdict]
        /\ pc' = IF verdict = "needs_work" THEN "revise" ELSE "finish"
    BY <1>1, <1>2 DEF Audited, NoAudit
  <1>4. /\ audit'.audit_passes = 1 /\ audit'.revision_passes = 0
        /\ audit'.audit_verdict = verdict /\ audit'.revised = FALSE
        /\ audit.audit_passes = 0 /\ audit.revision_passes = 0 /\ audit \in AuditGate
    BY <1>1, <1>3 DEF NoAudit, TypeOK
  <1>5. Agree'
    <2>1. Moved(0, 0, 1, 0)
      BY <1>1, <1>2, ReportedStep, ReportedKinds DEF Audited
    <2> QED
      BY <1>1, <1>2, <1>4, <2>1, MovedAgrees
  <1>6. CASE verdict = "needs_work"
    BY <1>3, <1>5, <1>6 DEF RecordsInv, AuditInv, Ended
  <1>7. CASE verdict # "needs_work"
    BY <1>3, <1>4, <1>5, <1>7
       DEF RecordsInv, AuditInv, Ended, SessionStateOK, MAX_AUDIT_PASSES,
           MAX_REVISION_PASSES
  <1> QED
    BY <1>6, <1>7

LEMMA RevisedRecords ==
    ASSUME Inv, RecordsInv, Revises
    PROVE  RecordsInv'
  <1>1. /\ pc = "revise" /\ Agree /\ TypeOK /\ cfg' = cfg
        /\ audit = [NoAudit EXCEPT !.audit_passes = 1, !.audit_verdict = "needs_work"]
    BY DEF Revises, RecordsInv, AuditInv, Ended, Inv, input
  <1>2. /\ audit.audit_passes = 1 /\ audit.revision_passes = 0 /\ audit \in AuditGate
        /\ audit.audit_verdict = "needs_work"
    BY <1>1 DEF NoAudit, TypeOK
  <1>3. /\ audit'.audit_passes = 1 /\ audit'.revision_passes = 1
        /\ audit'.audit_verdict = "needs_work" /\ audit'.revised = TRUE
        /\ pc' = "finish"
    BY <1>1, <1>2 DEF Revises, TypeOK, AuditGate
  <1>4. Agree'
    <2>1. Moved(0, 0, 0, 1)
      BY <1>1, ReportedStep, ReportedKinds DEF Revises
    <2>2. Len(calls') = Len(calls) + 0 + 1 + (IF ChallengerCalled THEN 0 ELSE 0)
      BY <1>1 DEF Revises, TypeOK, Mode
    <2> QED
      BY <1>1, <1>2, <1>3, <2>1, <2>2, MovedAgrees
  <1> QED
    BY <1>3, <1>4
       DEF RecordsInv, AuditInv, Ended, SessionStateOK, MAX_AUDIT_PASSES,
           MAX_REVISION_PASSES

LEMMA FinishedRecords ==
    ASSUME Inv, RecordsInv, Finishes
    PROVE  RecordsInv'
  <1>1. /\ pc = "finish" /\ Agree /\ TypeOK /\ UNCHANGED <<cfg, calls, audit>>
        /\ SessionStateOK(audit)
        /\ audit.revised <=> audit.audit_verdict = "needs_work"
    BY DEF Finishes, RecordsInv, AuditInv, Ended, Inv, input
  <1>2. /\ trace'.steps = trace.steps /\ pc' = "back"
        /\ outcome'.result.audit = audit /\ outcome'.result.trace = trace'
    BY <1>1 DEF Finishes, Tr!Completed, TypeOK, Tr!Trace
  <1>3. \A S : "output_emitted" \notin S /\ "engine_run_complete" \notin S
                   => CountIn(events', S) = CountIn(events, S)
    <2> DEFINE q == Append(events, "output_emitted")
    <2>1. q \in Seq(EventKind) /\ events' = Append(q, "engine_run_complete")
      BY <1>1 DEF Finishes, TypeOK, EventKind
    <2>2. \A S : /\ CountIn(events, S) \in Nat
                 /\ CountIn(q, S) = CountIn(events, S) + (IF "output_emitted" \in S THEN 1 ELSE 0)
      BY <1>1, EventCounts DEF EventKind
    <2> HIDE DEF q
    <2>3. \A S : CountIn(events', S)
                     = CountIn(q, S) + (IF "engine_run_complete" \in S THEN 1 ELSE 0)
      BY <2>1, CountAppend DEF EventKind
    <2> QED
      BY <2>2, <2>3
  <1>4. Agree'
    BY <1>1, <1>2, <1>3 DEF Agree, ChallengerCalled, challenger_route
  <1> QED
    BY <1>1, <1>2, <1>4 DEF RecordsInv, Ended, SessionStateOK

LEMMA InitRecords == Init => RecordsInv
  <1> SUFFICES ASSUME Init PROVE RecordsInv
    OBVIOUS
  <1>1. trace.steps = <<>> /\ events = <<>> /\ calls = <<>> /\ audit = NoAudit
    BY DEF Init, Tr!NewTrace
  <1>2. Agree
    BY <1>1, CountEmpty DEF Agree, NoAudit
  <1> QED
    BY <1>1, <1>2 DEF Init, RecordsInv, AuditInv, Ended

LEMMA NextRecords == Inv /\ RecordsInv /\ [Next]_vars => RecordsInv'
  <1> SUFFICES ASSUME Inv, RecordsInv, [Next]_vars PROVE RecordsInv'
    OBVIOUS
  <1>1. CASE EngineRuns \/ InvokeCapability \/ CapabilityEnds \/ TimesOut \/ Dispatch
               \/ Prepares \/ \E output \in {"clean", "forbidden"} : CapabilityReturns(output)
    BY <1>1, EarlyRecords
  <1>2. CASE NullProviderRuns \/ ProviderAnswers
    BY <1>2, DraftRecords
  <1>3. CASE ChallengerSkipped
               \/ \E verdict \in Verdict \ {"none"} : ChallengerAnswers(verdict)
    BY <1>3, AuditedRecords
  <1>4. CASE Revises \/ Finishes
    BY <1>4, RevisedRecords, FinishedRecords
  <1>5. CASE \/ PayloadInvalid \/ LeavesExecutor \/ PrepareFails \/ LimitExceeded
             \/ ResultForbidden
             \/ \E type \in {"ValueError", "Exception"} : LookupFails(type)
             \/ \E f \in CapabilityFailure : CapabilityFails(f[1], f[2])
             \/ \E f \in ProviderFailure : ProviderFails(f) \/ RevisionFails(f)
             \/ \E f \in ProviderFailure \cup {<<"ValueError", "none">>} : ChallengerFails(f)
    BY <1>5, FailedRecords
       DEF PayloadInvalid, LeavesExecutor, PrepareFails, LimitExceeded, ResultForbidden,
           LookupFails, CapabilityFails, ProviderFails, RevisionFails, ChallengerFails,
           Raise
  <1>6. CASE \/ Refuses \/ HandlesException \/ OrchestratorEnds \/ RunCommandEnds
             \/ CapabilityCommandEnds \/ PrintFails
    BY <1>6, FailedRecords
       DEF Refuses, HandlesException, OrchestratorEnds, RunCommandEnds,
           CapabilityCommandEnds, CommandEnds, PrintFails
  <1>7. CASE UNCHANGED vars
    <2>1. UNCHANGED <<cfg, pc, trace, events, calls, audit, outcome>>
      BY <1>7 DEF vars
    <2> QED
      BY <2>1, AgreeSame DEF RecordsInv, AuditInv, SessionStateOK
  <1> QED
    BY <1>1, <1>2, <1>3, <1>4, <1>5, <1>6, <1>7 DEF Next, Engine

(* Whatever path a run took, the result it returns agrees with its trace,  *)
(* its events, its counters and the model calls it made.                   *)
THEOREM ResultsMatch == Spec => []ResultMatchesRecords
  <1>1. Inv /\ RecordsInv => ResultMatchesRecords
    <2> SUFFICES ASSUME Inv, RecordsInv, pc = "back", outcome.ok
                 PROVE  ResultMatchesRecords
      BY DEF ResultMatchesRecords
    <2>1. /\ Agree /\ SessionStateOK(audit)
          /\ audit.revised <=> audit.audit_verdict = "needs_work"
          /\ outcome.result.audit = audit /\ outcome.result.trace = trace
      BY DEF RecordsInv
    <2>2. /\ \A stage : Cardinality(Steps(stage)) = CountIn(trace.steps, {stage})
          /\ \A kind : Cardinality(Emitted(kind)) = CountIn(events, {kind})
          /\ Cardinality(Steps("provider_run") \cup Steps("provider_inference"))
                 = CountIn(trace.steps, Drafted)
      <3>1. /\ \A stage : Steps(stage)
                   = {k \in 1..Len(trace.steps) : trace.steps[k] \in {stage}}
            /\ \A kind : Emitted(kind)
                   = {k \in 1..Len(events) : events[k] \in {kind}}
            /\ Steps("provider_run") \cup Steps("provider_inference")
                   = {k \in 1..Len(trace.steps) : trace.steps[k] \in Drafted}
        BY DEF Steps, Emitted, Drafted
      <3> QED
        BY <3>1 DEF CountIn
    <2>3. Len(calls) = Cardinality(Steps("provider_inference")) + audit.revision_passes
                       + (IF ChallengerCalled THEN audit.audit_passes ELSE 0)
      BY <2>1, <2>2 DEF Agree
    <2> QED
      BY <2>1, <2>2, <2>3 DEF ResultMatchesRecords, Agree, Reports
  <1>2. Spec => []RecordsInv
    BY InitRecords, NextRecords, Invariance, PTL DEF Spec
  <1> QED
    BY <1>1, <1>2, Invariance, PTL

-----------------------------------------------------------------------------
(* Which models a run calls.                                               *)
Called == {calls[k] : k \in 1..Len(calls)}

(* What a run has checked, and which providers it calls.                   *)
RolesInv ==
    /\ task.caller = "run" /\ pc \notin {"called", "over"} => RunAccepts
    /\ calls # <<>> => (task.caller = "run" => RunAccepts)
    /\ calls # <<>> \/ pc \in {"prepare", "provider"} => route.provider = "ollama"
    /\ "challenger" \in Called => ChallengerCalled

(* They depend on the input of the run only.                               *)
LEMMA InputDecides ==
    ASSUME UNCHANGED input
    PROVE  /\ task' = task /\ RunAccepts' = RunAccepts /\ route' = route
           /\ ChallengerCalled' = ChallengerCalled
  <1>1. task' = task /\ cfg' = cfg
    BY DEF input
  <1>2. route' = route /\ challenger_route' = challenger_route
    BY <1>1 DEF route, challenger_route
  <1> QED
    BY <1>1, <1>2 DEF RunAccepts, HealthCheckFails, ChallengerCalled

LEMMA CalledGrows ==
    ASSUME TypeOK, NEW role \in Mode, calls' = Append(calls, role)
    PROVE  calls' # <<>> /\ Called' = Called \cup {role}
  <1>1. /\ calls' # <<>> /\ Len(calls') = Len(calls) + 1 /\ Len(calls) \in Nat
        /\ calls'[Len(calls) + 1] = role
        /\ \A i \in 1..Len(calls) : calls'[i] = calls[i]
    BY AppendOK DEF TypeOK
  <1>2. ASSUME NEW k \in 1..Len(calls') PROVE calls'[k] \in Called \cup {role}
    <2>1. CASE k = Len(calls) + 1
      BY <1>1, <2>1
    <2>2. CASE k # Len(calls) + 1
      <3>1. k \in 1..Len(calls)
        BY <1>1, <2>2
      <3> QED
        BY <1>1, <3>1 DEF Called
    <2> QED
      BY <2>1, <2>2
  <1>3. ASSUME NEW k \in 1..Len(calls) PROVE calls[k] \in Called'
    <2>1. k \in 1..Len(calls') /\ calls'[k] = calls[k]
      BY <1>1
    <2> QED
      BY <2>1 DEF Called
  <1>4. role \in Called'
    <2>1. Len(calls) + 1 \in 1..Len(calls')
      BY <1>1
    <2> QED
      BY <1>1, <2>1 DEF Called
  <1> QED
    BY <1>1, <1>2, <1>3, <1>4 DEF Called

(* A model call is made where the role's provider is the local one.        *)
LEMMA CallRoles ==
    ASSUME Inv, RolesInv, [Next]_vars, calls' # calls
    PROVE  RolesInv'
  <1>1. CASE \/ ProviderAnswers \/ Revises
             \/ \E f \in ProviderFailure : ProviderFails(f) \/ RevisionFails(f)
    <2>1. /\ UNCHANGED input /\ calls' = Append(calls, "executor")
          /\ pc \in {"provider", "revise"} /\ pc' \notin {"prepare", "provider"}
      BY <1>1 DEF ProviderAnswers, Revises, ProviderFails, RevisionFails, Raise
    <2>2. calls' # <<>> /\ Called' = Called \cup {"executor"}
      BY <2>1, CalledGrows DEF Inv, Mode
    <2>3. pc = "revise" => calls # <<>>
      BY DEF Inv, CallsInv
    <2> QED
      BY <2>1, <2>2, <2>3, InputDecides DEF RolesInv
  <1>2. CASE \/ \E verdict \in Verdict \ {"none"} : ChallengerAnswers(verdict)
             \/ \E f \in ProviderFailure \cup {<<"ValueError", "none">>} :
                    ChallengerFails(f)
    <2>1. /\ UNCHANGED input /\ calls' = Append(calls, "challenger") /\ ChallengerCalled
          /\ pc = "audit" /\ pc' \notin {"prepare", "provider"}
      BY <1>2 DEF ChallengerAnswers, ChallengerFails, Audited, Raise
    <2>2. calls' # <<>> /\ Called' = Called \cup {"challenger"}
      BY <2>1, CalledGrows DEF Inv, Mode
    <2>3. calls # <<>>
      BY <2>1 DEF Inv, CallsInv
    <2> QED
      BY <2>1, <2>2, <2>3, InputDecides DEF RolesInv
  <1> QED
    BY <1>1, <1>2
       DEF Next, Engine, vars, EngineRuns, Refuses, PayloadInvalid, InvokeCapability,
           TimesOut, LeavesExecutor, LookupFails, CapabilityReturns, CapabilityFails,
           Dispatch, NullProviderRuns, Prepares, PrepareFails, LimitExceeded,
           ChallengerSkipped, Finishes, ResultForbidden, HandlesException,
           OrchestratorEnds, RunCommandEnds, CapabilityCommandEnds, CommandEnds,
           PrintFails, CapabilityEnds

(* Other steps keep the calls; a run leaves "called" only when accepted.   *)
LEMMA OtherRoles ==
    ASSUME Inv, RolesInv, [Next]_vars, calls' = calls
    PROVE  RolesInv'
  <1>1. UNCHANGED input
    BY DEF Next, Engine, vars, EngineRuns, Refuses, PayloadInvalid, InvokeCapability,
           TimesOut, LeavesExecutor, LookupFails, CapabilityReturns, CapabilityFails,
           Dispatch, NullProviderRuns, Prepares, PrepareFails, LimitExceeded,
           ProviderAnswers, ProviderFails, ChallengerSkipped, ChallengerAnswers,
           ChallengerFails, Revises, RevisionFails, Finishes,
           ResultForbidden, HandlesException, OrchestratorEnds, RunCommandEnds,
           CapabilityCommandEnds, CommandEnds, PrintFails, CapabilityEnds, input
  <1>2. Called' = Called
    BY DEF Called
  <1>3. task.caller = "run" /\ pc' \notin {"called", "over"} => RunAccepts
    <2>1. CASE pc = "called"
      <3>1. CASE EngineRuns
        BY <3>1 DEF EngineRuns, Accepted
      <3>2. CASE ~EngineRuns
        BY <2>1, <3>2
           DEF Next, Engine, vars, Refuses, PayloadInvalid, InvokeCapability,
               TimesOut, LeavesExecutor, LookupFails, CapabilityReturns, CapabilityFails,
               Dispatch, NullProviderRuns, Prepares, PrepareFails, LimitExceeded,
               ProviderAnswers, ProviderFails, ChallengerSkipped, ChallengerAnswers,
               ChallengerFails, Revises, RevisionFails, Finishes,
               ResultForbidden, HandlesException, OrchestratorEnds, RunCommandEnds,
               CapabilityCommandEnds, CommandEnds, PrintFails, CapabilityEnds
      <3> QED
        BY <3>1, <3>2
    <2>2. CASE pc = "over"
      <3>1. pc' = "over"
        BY <2>2
           DEF Next, Engine, vars, EngineRuns, Refuses, PayloadInvalid, InvokeCapability,
               TimesOut, LeavesExecutor, LookupFails, CapabilityReturns, CapabilityFails,
               Dispatch, NullProviderRuns, Prepares, PrepareFails, LimitExceeded,
               ProviderAnswers, ProviderFails, ChallengerSkipped, ChallengerAnswers,
               ChallengerFails, Revises, RevisionFails, Finishes,
               ResultForbidden, HandlesException, OrchestratorEnds, RunCommandEnds,
               CapabilityCommandEnds, CommandEnds, PrintFails, CapabilityEnds
      <3> QED
        BY <3>1
    <2> QED
      BY <2>1, <2>2 DEF RolesInv
  <1>4. pc' \in {"prepare", "provider"} => route.provider = "ollama"
    BY DEF RolesInv, Next, Engine, vars, EngineRuns, Refuses, PayloadInvalid,
           InvokeCapability,
           TimesOut, LeavesExecutor, LookupFails, CapabilityReturns, CapabilityFails,
           Dispatch, NullProviderRuns, Prepares, PrepareFails, LimitExceeded,
           ProviderAnswers, ProviderFails, ChallengerSkipped, ChallengerAnswers,
           ChallengerFails, Revises, RevisionFails, Finishes, Audited, Raise,
           ResultForbidden, HandlesException, OrchestratorEnds, RunCommandEnds,
           CapabilityCommandEnds, CommandEnds, PrintFails, CapabilityEnds
  <1> QED
    BY <1>1, <1>2, <1>3, <1>4, InputDecides DEF RolesInv

(* A route that neither failed nor fell back is the configured first       *)
(* choice.                                                                 *)
LEMMA FirstChoice ==
    ASSUME NEW c, NEW mode \in Mode, ~resolve_route(c, mode).error,
           ~resolve_route(c, mode).fallback_used
    PROVE  /\ c.modes[mode] # Missing /\ c.modes[mode].primary # Malformed
           /\ resolve_route(c, mode).target = c.modes[mode].primary
  BY DEF resolve_route, RouteError, Selected, Fallback, NullRoute

(* Whatever the table says, a checked run is only reviewed by the model    *)
(* that answered if one of the two roles fell back.                        *)
THEOREM ReviewersDiffer == Spec => []OnlyFallbacksCollapse
  <1>1. Init => RolesInv
    BY DEF Init, RolesInv, Called
  <1>2. Inv /\ RolesInv /\ [Next]_vars => RolesInv'
    BY CallRoles, OtherRoles
  <1>3. RolesInv => OnlyFallbacksCollapse
    <2> SUFFICES ASSUME RolesInv, task.caller = "run", task.checked,
                        "challenger" \in Called,
                        ~route.fallback_used, ~challenger_route.fallback_used
                 PROVE  route.target.model # challenger_route.target.model
      BY DEF OnlyFallbacksCollapse, Called
    <2>1. calls # <<>>
      BY DEF Called
    <2>2. RunAccepts /\ ChallengerCalled
      BY <2>1 DEF RolesInv
    <2>3. /\ route = resolve_route(cfg, "executor") /\ ~route.error
          /\ ~challenger_route.error /\ ConstellationOK(cfg)
      BY <2>2 DEF RunAccepts, ChallengerCalled, route
    <2>4. /\ \A mode \in Mode : cfg.modes[mode] # Missing
                               /\ cfg.modes[mode].primary # Malformed
          /\ route.target = cfg.modes["executor"].primary
          /\ challenger_route.target = cfg.modes["challenger"].primary
      BY <2>3, FirstChoice DEF Mode, challenger_route
    <2> QED
      BY <2>3, <2>4 DEF ConstellationOK, extract_model, Mode
  <1> QED
    BY <1>1, <1>2, <1>3, Invariance, PTL DEF Spec
-----------------------------------------------------------------------------
(* A run ends: what the limits and the fairness cannot say.                *)

(* The moves a run has left at most, with the end of its thread.           *)
Distance ==
    CASE pc = "called" -> 12
      [] pc = "capability" -> 11
      [] pc = "waiting" -> 10
      [] pc = "leaving" -> 9
      [] pc = "dispatch" -> 8
      [] pc \in {"null", "prepare"} -> 7
      [] pc = "provider" -> 6
      [] pc = "audit" -> 5
      [] pc = "revise" -> 4
      [] pc = "finish" -> 3
      [] pc = "except" -> 2
      [] pc = "back" -> 1
      [] OTHER -> 0

MovesLeft == 2 * Distance + (IF thread = "running" THEN 1 ELSE 0)

(* ADR-009 knows no loop and no retry: every move of a run, and the end of *)
(* its capability, brings it nearer to its end, whatever was asked for,    *)
(* whichever call fails and however the challenger judges.                 *)
Advances == [][MovesLeft' \in Nat /\ MovesLeft' < MovesLeft]_vars

(* Where a move of the engine depends on a limit, on the state to be       *)
(* returned or on the thread, the condition holds: the limits of engine.py *)
(* :649 and :672 and the validation of the result never end a run, and it  *)
(* waits for nothing but a capability that was started.                    *)
NeverStuck ==
    /\ pc \in {"waiting", "leaving"} => thread # "none"
    /\ pc = "audit" => audit.audit_passes < MAX_AUDIT_PASSES
    /\ pc = "revise" => audit.revision_passes < MAX_REVISION_PASSES
    /\ pc = "back" /\ outcome.ok => SessionStateOK(outcome.result.audit)

(* An exception leads to the handler.                                      *)
LEMMA RaisedMoves ==
    ASSUME pc' = "except", UNCHANGED thread,
           pc \in {"capability", "waiting", "leaving", "prepare", "provider", "audit",
                   "revise", "finish"}
    PROVE  MovesLeft' \in Nat /\ MovesLeft' < MovesLeft
  BY DEF MovesLeft, Distance

LEMMA CapabilityMoves ==
    ASSUME Inv, \/ EngineRuns \/ Refuses \/ InvokeCapability \/ CapabilityEnds \/ TimesOut
                \/ \E output \in {"clean", "forbidden"} : CapabilityReturns(output)
    PROVE  MovesLeft' \in Nat /\ MovesLeft' < MovesLeft
  <1>1. CASE EngineRuns
    BY <1>1 DEF EngineRuns, MovesLeft, Distance
  <1>2. CASE Refuses
    BY <1>2 DEF Refuses, MovesLeft, Distance
  <1>3. CASE InvokeCapability
    BY <1>3 DEF InvokeCapability, MovesLeft, Distance
  <1>4. CASE CapabilityEnds
    <2>1. Distance \in Nat /\ Distance' = Distance
      BY <1>4 DEF CapabilityEnds, Distance
    <2> QED
      BY <1>4, <2>1 DEF CapabilityEnds, MovesLeft
  <1>5. CASE TimesOut
    BY <1>5 DEF TimesOut, MovesLeft, Distance
  <1>6. CASE \E output \in {"clean", "forbidden"} : CapabilityReturns(output)
    BY <1>6 DEF CapabilityReturns, MovesLeft, Distance
  <1> QED
    BY <1>1, <1>2, <1>3, <1>4, <1>5, <1>6

LEMMA ModelMoves ==
    ASSUME \/ Dispatch \/ NullProviderRuns \/ Prepares \/ ProviderAnswers
           \/ ChallengerSkipped \/ Revises
           \/ \E verdict \in Verdict \ {"none"} : ChallengerAnswers(verdict)
    PROVE  MovesLeft' \in Nat /\ MovesLeft' < MovesLeft
  <1>1. CASE Dispatch
    BY <1>1 DEF Dispatch, MovesLeft, Distance
  <1>2. CASE NullProviderRuns
    BY <1>2 DEF NullProviderRuns, MovesLeft, Distance
  <1>3. CASE Prepares
    BY <1>3 DEF Prepares, MovesLeft, Distance
  <1>4. CASE ProviderAnswers
    BY <1>4 DEF ProviderAnswers, MovesLeft, Distance
  <1>5. CASE ChallengerSkipped
    BY <1>5 DEF ChallengerSkipped, Audited, MovesLeft, Distance
  <1>6. CASE Revises
    BY <1>6 DEF Revises, MovesLeft, Distance
  <1>7. CASE \E verdict \in Verdict \ {"none"} : ChallengerAnswers(verdict)
    <2>1. pc = "audit" /\ pc' \in {"revise", "finish"} /\ UNCHANGED thread
      BY <1>7 DEF ChallengerAnswers, Audited
    <2> QED
      BY <2>1 DEF MovesLeft, Distance
  <1> QED
    BY <1>1, <1>2, <1>3, <1>4, <1>5, <1>6, <1>7

LEMMA EndMoves ==
    ASSUME \/ Finishes \/ HandlesException
           \/ OrchestratorEnds \/ RunCommandEnds \/ CapabilityCommandEnds \/ PrintFails
    PROVE  MovesLeft' \in Nat /\ MovesLeft' < MovesLeft
  <1>1. CASE Finishes
    BY <1>1 DEF Finishes, MovesLeft, Distance
  <1>2. CASE HandlesException
    BY <1>2 DEF HandlesException, MovesLeft, Distance
  <1>3. CASE \/ OrchestratorEnds \/ RunCommandEnds \/ CapabilityCommandEnds \/ PrintFails
    <2>1. pc = "back" /\ pc' = "over" /\ thread' = thread
      BY <1>3 DEF OrchestratorEnds, RunCommandEnds, CapabilityCommandEnds, CommandEnds,
                  PrintFails
    <2> QED
      BY <2>1 DEF MovesLeft, Distance
  <1> QED
    BY <1>1, <1>2, <1>3

(* No run goes on for ever: it is over after a number of moves that was    *)
(* known when it began.                                                    *)
THEOREM RunsAdvance == Spec => Advances
  <1>1. Inv /\ [Next]_vars => [MovesLeft' \in Nat /\ MovesLeft' < MovesLeft]_vars
    <2> SUFFICES ASSUME Inv, Next PROVE MovesLeft' \in Nat /\ MovesLeft' < MovesLeft
      OBVIOUS
    <2>1. CASE \/ EngineRuns \/ Refuses \/ InvokeCapability \/ CapabilityEnds \/ TimesOut
               \/ \E output \in {"clean", "forbidden"} : CapabilityReturns(output)
      BY <2>1, CapabilityMoves
    <2>2. CASE \/ Dispatch \/ NullProviderRuns \/ Prepares \/ ProviderAnswers
               \/ ChallengerSkipped \/ Revises
               \/ \E verdict \in Verdict \ {"none"} : ChallengerAnswers(verdict)
      BY <2>2, ModelMoves
    <2>3. CASE \/ Finishes \/ HandlesException
               \/ OrchestratorEnds \/ RunCommandEnds \/ CapabilityCommandEnds \/ PrintFails
      BY <2>3, EndMoves
    <2>4. CASE \/ PayloadInvalid \/ LeavesExecutor \/ PrepareFails \/ LimitExceeded
               \/ ResultForbidden
               \/ \E type \in {"ValueError", "Exception"} : LookupFails(type)
               \/ \E f \in CapabilityFailure : CapabilityFails(f[1], f[2])
               \/ \E f \in ProviderFailure : ProviderFails(f) \/ RevisionFails(f)
               \/ \E f \in ProviderFailure \cup {<<"ValueError", "none">>} : ChallengerFails(f)
      <3>1. /\ pc' = "except" /\ UNCHANGED thread
            /\ pc \in {"capability", "waiting", "leaving", "prepare", "provider", "audit",
                       "revise", "finish"}
        BY <2>4 DEF PayloadInvalid, LeavesExecutor, PrepareFails, LimitExceeded,
                    ResultForbidden, LookupFails, CapabilityFails, ProviderFails,
                    RevisionFails, ChallengerFails, Raise
      <3> QED
        BY <3>1, RaisedMoves
    <2> QED
      BY <2>1, <2>2, <2>3, <2>4 DEF Next, Engine
  <1> QED
    BY <1>1, Invariance, PTL DEF Spec, Advances

(* A run waits for a thread that was started.                              *)
ThreadInv == pc \in {"waiting", "leaving"} => thread # "none"

LEMMA NextThread == Inv /\ ThreadInv /\ [Next]_vars => ThreadInv'
  <1> SUFFICES ASSUME Inv, ThreadInv, [Next]_vars PROVE ThreadInv'
    OBVIOUS
  <1>1. CASE InvokeCapability
    BY <1>1 DEF InvokeCapability, ThreadInv
  <1>2. CASE CapabilityEnds
    BY <1>2 DEF CapabilityEnds, ThreadInv
  <1>3. CASE TimesOut
    BY <1>3 DEF TimesOut, ThreadInv
  <1>4. CASE UNCHANGED vars
    BY <1>4 DEF vars, ThreadInv
  <1>5. CASE \/ EngineRuns \/ Refuses \/ Dispatch \/ NullProviderRuns \/ Prepares
             \/ ProviderAnswers \/ ChallengerSkipped \/ Revises \/ Finishes
             \/ HandlesException \/ OrchestratorEnds \/ RunCommandEnds
             \/ CapabilityCommandEnds \/ PrintFails
             \/ \E output \in {"clean", "forbidden"} : CapabilityReturns(output)
             \/ \E verdict \in Verdict \ {"none"} : ChallengerAnswers(verdict)
    <2>1. pc' \notin {"waiting", "leaving"}
      BY <1>5 DEF EngineRuns, Refuses, Dispatch, NullProviderRuns, Prepares,
                  ProviderAnswers, ChallengerSkipped, Revises, Finishes, HandlesException,
                  OrchestratorEnds, RunCommandEnds, CapabilityCommandEnds, CommandEnds,
                  PrintFails, CapabilityReturns, ChallengerAnswers, Audited
    <2> QED
      BY <2>1 DEF ThreadInv
  <1>6. CASE \/ PayloadInvalid \/ LeavesExecutor \/ PrepareFails \/ LimitExceeded
             \/ ResultForbidden
             \/ \E type \in {"ValueError", "Exception"} : LookupFails(type)
             \/ \E f \in CapabilityFailure : CapabilityFails(f[1], f[2])
             \/ \E f \in ProviderFailure : ProviderFails(f) \/ RevisionFails(f)
             \/ \E f \in ProviderFailure \cup {<<"ValueError", "none">>} : ChallengerFails(f)
    <2>1. pc' = "except"
      BY <1>6 DEF PayloadInvalid, LeavesExecutor, PrepareFails, LimitExceeded,
                  ResultForbidden, LookupFails, CapabilityFails, ProviderFails,
                  RevisionFails, ChallengerFails, Raise
    <2> QED
      BY <2>1 DEF ThreadInv
  <1> QED
    BY <1>1, <1>2, <1>3, <1>4, <1>5, <1>6 DEF Next, Engine

(* Until it is over a run can always move, or waits for its capability.    *)
THEOREM EnginesNeverStick == Spec => []NeverStuck
  <1>1. Inv /\ RecordsInv /\ ThreadInv => NeverStuck
    <2> SUFFICES ASSUME RecordsInv, ThreadInv PROVE NeverStuck
      OBVIOUS
    <2>1. ASSUME pc = "audit" PROVE audit.audit_passes < MAX_AUDIT_PASSES
      BY <2>1 DEF RecordsInv, AuditInv, Ended, NoAudit, MAX_AUDIT_PASSES
    <2>2. ASSUME pc = "revise" PROVE audit.revision_passes < MAX_REVISION_PASSES
      <3>1. audit = [NoAudit EXCEPT !.audit_passes = 1, !.audit_verdict = "needs_work"]
        BY <2>2 DEF RecordsInv, AuditInv, Ended
      <3>2. audit.revision_passes = 0
        BY <3>1 DEF NoAudit
      <3> QED
        BY <3>2 DEF MAX_REVISION_PASSES
    <2>3. ASSUME pc = "back", outcome.ok PROVE SessionStateOK(outcome.result.audit)
      BY <2>3 DEF RecordsInv
    <2> QED
      BY <2>1, <2>2, <2>3 DEF NeverStuck, ThreadInv
  <1>2. Init => ThreadInv
    BY DEF Init, ThreadInv
  <1> QED
    BY <1>1, <1>2, NextThread, InitRecords, NextRecords, Invariance, PTL DEF Spec
=============================================================================
