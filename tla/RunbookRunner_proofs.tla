------------------------- MODULE RunbookRunner_proofs -------------------------
(***************************************************************************)
(* Theorems about RunbookRunner, for every bound on steps, every set of    *)
(* context values and every set of failures.                               *)
(***************************************************************************)
EXTENDS RunbookRunner, FiniteSetTheorems, SequenceTheorems, TLAPS

LastEvent == events[Len(events)]

(* A projection in ADR-015's order, and the positions of one kind in it.   *)
Ordered(s) ==
    /\ Len(s) > 0
    /\ s[1] = RunEvent("runbook_started")
    /\ \A k \in 1..(Len(s) - 1) : MayFollow(s[k], s[k + 1])

EmittedIn(s, kind) == {k \in 1..Len(s) : s[k].event = kind}
Completions == Cardinality(EmittedIn(events, "runbook_step_completed"))
Skips == Cardinality(EmittedIn(events, "runbook_step_skipped"))

(* Where the loop stands is told by the last event.                        *)
LoopOK ==
    /\ Ordered(events)
    /\ result # NoResult <=> pc = "returned"
    /\ pc = "loop" => Reaches(LastEvent, i)
    /\ pc = "step" => /\ i < Len(steps) /\ Executes(steps[i + 1])
                      /\ LastEvent = StepEvent("runbook_step_started", i)
    /\ pc = "returned" => LastEvent.event \in Terminal

(* The counters agree with the events.                                     *)
CountOK ==
    /\ ~conditional => \A k \in 1..Len(steps) : steps[k] = Always
    /\ ~conditional => skipped = 0
    /\ skipped = Skips
    /\ i = Completions + skipped
    /\ pc # "returned" => Len(outcomes) = Completions

(* The outcomes recorded so far lie before the step the loop stands at.    *)
OutcomesOK ==
    pc # "returned" =>
        \A o \in 1..Len(outcomes) : outcomes[o].success /\ outcomes[o].step_index < i

(* The inductive invariant.                                                *)
Inv == TypeOK /\ LoopOK /\ CountOK /\ OutcomesOK /\ ContextDecides /\ ResultMatchesEvents

-----------------------------------------------------------------------------
(* The operators.                                                          *)

(* The elements of a sequence to which one is appended.                    *)
LEMMA AppendElements ==
    ASSUME NEW S, NEW s \in Seq(S), NEW e \in S
    PROVE  /\ Append(s, e) \in Seq(S)
           /\ Len(Append(s, e)) = Len(s) + 1
           /\ \A k \in 1..Len(s) : Append(s, e)[k] = s[k]
           /\ Append(s, e)[Len(s) + 1] = e
  OBVIOUS

LEMMA EventOK ==
    /\ \A kind \in EventKind : RunEvent(kind) \in Event
    /\ \A kind \in EventKind, k \in Nat : StepEvent(kind, k) \in Event
  BY DEF RunEvent, StepEvent, Event

(* An event that may follow the last one keeps the order.                  *)
LEMMA AppendOrdered ==
    ASSUME NEW s \in Seq(Event), NEW e \in Event,
           Ordered(s), MayFollow(s[Len(s)], e)
    PROVE  Ordered(Append(s, e))
  <1> DEFINE t == Append(s, e)
  <1>1. /\ t \in Seq(Event) /\ Len(t) = Len(s) + 1
        /\ \A k \in 1..Len(s) : t[k] = s[k]
        /\ t[Len(s) + 1] = e
    BY AppendElements
  <1> HIDE DEF t
  <1>2. Len(s) \in Nat /\ Len(s) > 0
    BY DEF Ordered
  <1>3. t[1] = RunEvent("runbook_started")
    BY <1>1, <1>2 DEF Ordered
  <1>4. ASSUME NEW k \in 1..(Len(t) - 1)
        PROVE  MayFollow(t[k], t[k + 1])
    <2>1. CASE k = Len(s)
      BY <2>1, <1>1, <1>2
    <2>2. CASE k # Len(s)
      <3>1. k \in 1..(Len(s) - 1) /\ k \in 1..Len(s) /\ k + 1 \in 1..Len(s)
        BY <2>2, <1>1, <1>2
      <3> QED
        BY <3>1, <1>1 DEF Ordered
    <2> QED
      BY <2>1, <2>2
  <1> QED
    BY <1>1, <1>2, <1>3, <1>4 DEF Ordered, t

(* How many events of a kind there are after one more.                     *)
LEMMA AppendEmitted ==
    ASSUME NEW s \in Seq(Event), NEW e \in Event, NEW kind
    PROVE  /\ Cardinality(EmittedIn(s, kind)) \in Nat
           /\ Cardinality(EmittedIn(Append(s, e), kind)) =
                  Cardinality(EmittedIn(s, kind)) + (IF e.event = kind THEN 1 ELSE 0)
  <1> DEFINE t == Append(s, e)
             A == EmittedIn(s, kind)
             n == Len(s) + 1
  <1>1. /\ Len(t) = n
        /\ \A k \in 1..Len(s) : t[k] = s[k]
        /\ t[n] = e
    BY AppendElements
  <1>2. Len(s) \in Nat
    OBVIOUS
  <1>3. IsFiniteSet(A) /\ n \notin A /\ Cardinality(A) \in Nat
    <2>1. IsFiniteSet(1..Len(s))
      BY <1>2, FS_Interval
    <2>2. A \subseteq 1..Len(s)
      BY DEF EmittedIn
    <2>3. IsFiniteSet(A)
      BY <2>1, <2>2, FS_Subset
    <2> QED
      BY <2>2, <2>3, <1>2, FS_CardinalityType
  <1> HIDE DEF t
  <1>4. CASE e.event = kind
    <2>1. EmittedIn(t, kind) = A \cup {n}
      BY <1>1, <1>2, <1>4 DEF EmittedIn
    <2>2. Cardinality(A \cup {n}) = Cardinality(A) + 1
      BY <1>3, FS_AddElement
    <2> QED
      BY <2>1, <2>2, <1>3, <1>4 DEF t
  <1>5. CASE e.event # kind
    <2>1. EmittedIn(t, kind) = A
      BY <1>1, <1>2, <1>5 DEF EmittedIn
    <2> QED
      BY <2>1, <1>3, <1>5 DEF t
  <1> QED
    BY <1>4, <1>5

(* What one more event does to the order and to the counts.                *)
LEMMA EmitOne ==
    ASSUME Inv, NEW e \in Event, events' = Append(events, e),
           UNCHANGED input, MayFollow(LastEvent, e)
    PROVE  /\ events' \in Seq(Event)
           /\ LastEvent' = e
           /\ Ordered(events)'
           /\ Completions' = Completions
                 + (IF e.event = "runbook_step_completed" THEN 1 ELSE 0)
           /\ Skips' = Skips + (IF e.event = "runbook_step_skipped" THEN 1 ELSE 0)
           /\ Completions \in Nat /\ Skips \in Nat
  <1>1. events \in Seq(Event) /\ Ordered(events)
    BY DEF Inv, TypeOK, LoopOK
  <1>2. /\ events' \in Seq(Event) /\ Len(events') = Len(events) + 1
        /\ events'[Len(events) + 1] = e
    BY <1>1, AppendElements
  <1>3. LastEvent' = e
    BY <1>2 DEF LastEvent
  <1>4. Ordered(events')
    BY <1>1, AppendOrdered DEF LastEvent
  <1>5. steps' = steps
    BY DEF input
  <1>6. Ordered(events)'
    BY <1>4, <1>5 DEF Ordered, MayFollow, Reaches, RunEvent, StepEvent
  <1>7. /\ Completions \in Nat
        /\ Completions' = Completions
              + (IF e.event = "runbook_step_completed" THEN 1 ELSE 0)
    <2> DEFINE k == "runbook_step_completed"
    <2>1. EmittedIn(events, k)' = EmittedIn(Append(events, e), k)
      BY DEF EmittedIn
    <2>2. /\ Cardinality(EmittedIn(events, k)) \in Nat
          /\ Cardinality(EmittedIn(Append(events, e), k)) =
                 Cardinality(EmittedIn(events, k)) + (IF e.event = k THEN 1 ELSE 0)
      BY <1>1, AppendEmitted
    <2> QED
      BY <2>1, <2>2 DEF Completions
  <1>8. /\ Skips \in Nat
        /\ Skips' = Skips + (IF e.event = "runbook_step_skipped" THEN 1 ELSE 0)
    <2> DEFINE k == "runbook_step_skipped"
    <2>1. EmittedIn(events, k)' = EmittedIn(Append(events, e), k)
      BY DEF EmittedIn
    <2>2. /\ Cardinality(EmittedIn(events, k)) \in Nat
          /\ Cardinality(EmittedIn(Append(events, e), k)) =
                 Cardinality(EmittedIn(events, k)) + (IF e.event = k THEN 1 ELSE 0)
      BY <1>1, AppendEmitted
    <2> QED
      BY <2>1, <2>2 DEF Skips
  <1> QED
    BY <1>2, <1>3, <1>6, <1>7, <1>8

(* Conditions on unchanged input stay what they are.                       *)
LEMMA InputKept ==
    ASSUME UNCHANGED input
    PROVE  /\ conditional' = conditional /\ steps' = steps /\ context' = context
           /\ \A k : Executes(steps[k])' = Executes(steps[k])
  BY DEF input, Executes, evaluate_when

LEMMA OutcomeTypes ==
    ASSUME Inv
    PROVE  /\ outcomes \in Seq(Outcome) /\ Len(outcomes) \in Nat
           /\ \A o \in 1..Len(outcomes) : outcomes[o].step_index \in Nat
  <1>1. outcomes \in Seq(Outcome) /\ Len(outcomes) \in Nat
    BY DEF Inv, TypeOK
  <1>2. \A o \in 1..Len(outcomes) : outcomes[o] \in Outcome
    BY <1>1
  <1>3. \A x \in Outcome : x.step_index \in Nat
    BY DEF Outcome
  <1> QED
    BY <1>1, <1>2, <1>3

-----------------------------------------------------------------------------
(* One lemma per action.                                                   *)

LEMMA InitInv == Init => Inv
  <1> SUFFICES ASSUME Init PROVE Inv
    OBVIOUS
  <1>1. PICK n \in 1..MaxSteps :
            steps \in [1..n -> IF conditional THEN WhenCondition \cup {Always}
                               ELSE {Always}]
    BY DEF Init
  <1>2. /\ steps \in Seq(WhenCondition \cup {Always}) /\ Len(steps) = n
        /\ ~conditional => \A k \in 1..Len(steps) : steps[k] = Always
    BY <1>1, MaxStepsAssumption
  <1>3. /\ events \in Seq(Event) /\ Len(events) = 1
        /\ events[1] = RunEvent("runbook_started")
    BY EventOK DEF Init, EventKind
  <1>4. TypeOK
    BY <1>2, <1>3, MaxStepsAssumption DEF Init, TypeOK
  <1>5. LoopOK
    BY <1>3 DEF Init, LoopOK, Ordered, LastEvent, Reaches, RunEvent
  <1>6. Completions = 0 /\ Skips = 0
    <2>1. /\ EmittedIn(events, "runbook_step_completed") = {}
          /\ EmittedIn(events, "runbook_step_skipped") = {}
      BY <1>3 DEF EmittedIn, RunEvent
    <2> QED
      BY <2>1, FS_EmptySet DEF Completions, Skips
  <1>7. CountOK
    BY <1>2, <1>6 DEF Init, CountOK
  <1>8. OutcomesOK /\ ContextDecides /\ ResultMatchesEvents
    BY <1>2 DEF Init, OutcomesOK, ContextDecides, ResultMatchesEvents
  <1> QED
    BY <1>4, <1>5, <1>7, <1>8 DEF Inv

LEMMA SkipInv == Inv /\ SkipStep => Inv'
  <1> SUFFICES ASSUME Inv, SkipStep PROVE Inv'
    OBVIOUS
  <1> DEFINE e == StepEvent("runbook_step_skipped", i)
  <1>1. /\ pc = "loop" /\ pc' = "loop" /\ i < Len(steps) /\ i' = i + 1
        /\ ~Executes(steps[i + 1])
        /\ skipped' = skipped + 1 /\ events' = Append(events, e)
        /\ outcomes' = outcomes /\ result' = result /\ UNCHANGED input
    BY DEF SkipStep
  <1>2. i \in Nat /\ Len(steps) \in Nat /\ i' \in 0..Len(steps) /\ skipped \in Nat
    BY <1>1, MaxStepsAssumption DEF Inv, TypeOK
  <1>3. e \in Event /\ e.event = "runbook_step_skipped" /\ e.step_index = i
    BY <1>2, EventOK DEF StepEvent, EventKind, StepKind
  <1>4. MayFollow(LastEvent, e)
    BY <1>1, <1>3 DEF Inv, LoopOK, MayFollow
  <1> HIDE DEF e
  <1>5. /\ events' \in Seq(Event) /\ LastEvent' = e /\ Ordered(events)'
        /\ Completions' = Completions /\ Skips' = Skips + 1
        /\ Completions \in Nat /\ Skips \in Nat
    BY <1>1, <1>3, <1>4, EmitOne
  <1>6. TypeOK'
    BY <1>1, <1>2, <1>5, InputKept DEF Inv, TypeOK
  <1>7. LoopOK'
    BY <1>1, <1>2, <1>3, <1>5 DEF Inv, LoopOK, Reaches
  <1>8. conditional
    BY <1>1, <1>2 DEF Inv, CountOK, Executes, TypeOK
  <1>9. CountOK'
    BY <1>1, <1>2, <1>5, <1>8, InputKept DEF Inv, CountOK
  <1>10. OutcomesOK'
    <2>1. \A o \in 1..Len(outcomes) :
              outcomes[o].success /\ outcomes[o].step_index < i
      BY <1>1 DEF Inv, OutcomesOK
    <2>2. \A o \in 1..Len(outcomes) : outcomes[o].step_index \in Nat
      BY OutcomeTypes
    <2> QED
      BY <1>1, <1>2, <2>1, <2>2 DEF OutcomesOK
  <1>11. ContextDecides'
    BY <1>1, <1>2, InputKept DEF Inv, ContextDecides, OutcomesOK
  <1>12. ResultMatchesEvents'
    BY <1>1 DEF Inv, LoopOK, ResultMatchesEvents
  <1> QED
    BY <1>6, <1>7, <1>9, <1>10, <1>11, <1>12 DEF Inv

LEMMA StartInv == Inv /\ StartStep => Inv'
  <1> SUFFICES ASSUME Inv, StartStep PROVE Inv'
    OBVIOUS
  <1> DEFINE e == StepEvent("runbook_step_started", i)
  <1>1. /\ pc = "loop" /\ pc' = "step" /\ i < Len(steps) /\ i' = i
        /\ Executes(steps[i + 1])
        /\ skipped' = skipped /\ events' = Append(events, e)
        /\ outcomes' = outcomes /\ result' = result /\ UNCHANGED input
    BY DEF StartStep
  <1>2. i \in Nat /\ Len(steps) \in Nat
    BY <1>1, MaxStepsAssumption DEF Inv, TypeOK
  <1>3. e \in Event /\ e.event = "runbook_step_started" /\ e.step_index = i
    BY <1>2, EventOK DEF StepEvent, EventKind, StepKind
  <1>4. MayFollow(LastEvent, e)
    BY <1>1, <1>3 DEF Inv, LoopOK, MayFollow
  <1> HIDE DEF e
  <1>5. /\ events' \in Seq(Event) /\ LastEvent' = e /\ Ordered(events)'
        /\ Completions' = Completions /\ Skips' = Skips
    BY <1>1, <1>3, <1>4, EmitOne
  <1>6. TypeOK'
    BY <1>1, <1>2, <1>5, InputKept DEF Inv, TypeOK
  <1>7. LoopOK'
    BY <1>1, <1>5, InputKept DEF Inv, LoopOK, StepEvent, e
  <1>8. CountOK'
    BY <1>1, <1>5, InputKept DEF Inv, CountOK
  <1>9. OutcomesOK' /\ ContextDecides'
    BY <1>1, InputKept DEF Inv, OutcomesOK, ContextDecides
  <1>10. ResultMatchesEvents'
    BY <1>1 DEF Inv, LoopOK, ResultMatchesEvents
  <1> QED
    BY <1>6, <1>7, <1>8, <1>9, <1>10 DEF Inv

LEMMA CompletesInv == Inv /\ StepCompletes => Inv'
  <1> SUFFICES ASSUME Inv, StepCompletes PROVE Inv'
    OBVIOUS
  <1> DEFINE e == StepEvent("runbook_step_completed", i)
             x == [step_index |-> i, success |-> TRUE, failure |-> NoFailure]
  <1>1. /\ pc = "step" /\ pc' = "loop" /\ i < Len(steps) /\ i' = i + 1
        /\ Executes(steps[i + 1])
        /\ LastEvent = StepEvent("runbook_step_started", i)
        /\ skipped' = skipped /\ events' = Append(events, e)
        /\ outcomes' = Append(outcomes, x) /\ result' = result /\ UNCHANGED input
    BY DEF StepCompletes, Inv, LoopOK
  <1>2. i \in Nat /\ Len(steps) \in Nat /\ i' \in 0..Len(steps)
    BY <1>1, MaxStepsAssumption DEF Inv, TypeOK
  <1>3. e \in Event /\ e.event = "runbook_step_completed" /\ e.step_index = i
    BY <1>2, EventOK DEF StepEvent, EventKind, StepKind
  <1>4. MayFollow(LastEvent, e)
    BY <1>1, <1>3 DEF MayFollow
  <1>5. x \in Outcome /\ x.success /\ x.step_index = i
    BY <1>2 DEF Outcome
  <1> HIDE DEF e, x
  <1>6. /\ events' \in Seq(Event) /\ LastEvent' = e /\ Ordered(events)'
        /\ Completions' = Completions + 1 /\ Skips' = Skips
        /\ Completions \in Nat /\ Skips \in Nat
    BY <1>1, <1>3, <1>4, EmitOne
  <1>7. /\ outcomes' \in Seq(Outcome) /\ Len(outcomes') = Len(outcomes) + 1
        /\ \A o \in 1..Len(outcomes) : outcomes'[o] = outcomes[o]
        /\ outcomes'[Len(outcomes) + 1] = x
        /\ Len(outcomes) \in Nat
    BY <1>1, <1>5, OutcomeTypes, AppendElements
  <1>8. TypeOK'
    BY <1>1, <1>2, <1>6, <1>7, InputKept DEF Inv, TypeOK
  <1>9. LoopOK'
    BY <1>1, <1>2, <1>3, <1>6 DEF Inv, LoopOK, Reaches
  <1>10. CountOK'
    BY <1>1, <1>2, <1>6, <1>7, InputKept DEF Inv, CountOK, TypeOK
  <1>11. \A o \in 1..Len(outcomes) :
            outcomes[o].success /\ outcomes[o].step_index < i
                                /\ outcomes[o].step_index \in Nat
    BY <1>1, OutcomeTypes DEF Inv, OutcomesOK
  <1>12. OutcomesOK'
    BY <1>1, <1>2, <1>5, <1>7, <1>11 DEF OutcomesOK
  <1>13. ContextDecides'
    <2>1. ASSUME NEW k \in 1..i'
          PROVE  Executes(steps[k])' <=>
                    \E o \in 1..Len(outcomes') : outcomes'[o].step_index = k - 1
                                                  /\ outcomes'[o].success
      <3>1. CASE k = i + 1
        BY <3>1, <1>1, <1>2, <1>5, <1>7, InputKept
      <3>2. CASE k # i + 1
        <4>1. k \in 1..i
          BY <3>2, <1>1, <1>2
        <4>2. Executes(steps[k]) <=>
                 \E o \in 1..Len(outcomes) : outcomes[o].step_index = k - 1
                                              /\ outcomes[o].success
          BY <4>1 DEF Inv, ContextDecides
        <4>3. (\E o \in 1..Len(outcomes) : outcomes[o].step_index = k - 1
                                             /\ outcomes[o].success)
              <=> (\E o \in 1..Len(outcomes') : outcomes'[o].step_index = k - 1
                                                 /\ outcomes'[o].success)
          BY <4>1, <1>2, <1>5, <1>7
        <4> QED
          BY <4>2, <4>3, <1>1, InputKept
      <3> QED
        BY <3>1, <3>2
    <2>2. ASSUME NEW o \in 1..Len(outcomes')
          PROVE  /\ Executes(steps[outcomes[o].step_index + 1])'
                 /\ o < Len(outcomes') =>
                        /\ outcomes'[o].success
                        /\ outcomes'[o].step_index < outcomes'[o + 1].step_index
      <3>1. CASE o = Len(outcomes) + 1
        <4>1. outcomes'[o].step_index = i
          BY <3>1, <1>5, <1>7
        <4> QED
          BY <4>1, <3>1, <1>1, <1>7, InputKept DEF Executes, evaluate_when, input
      <3>2. CASE o # Len(outcomes) + 1
        <4>1. o \in 1..Len(outcomes) /\ outcomes'[o] = outcomes[o]
          BY <3>2, <1>7
        <4>2. Executes(steps[outcomes[o].step_index + 1])
          BY <4>1 DEF Inv, ContextDecides
        <4>3. Executes(steps[outcomes[o].step_index + 1])'
          BY <4>1, <4>2, <1>1 DEF Executes, evaluate_when, input
        <4>4. outcomes'[o].success
              /\ outcomes'[o].step_index < outcomes'[o + 1].step_index
          <5>1. CASE o = Len(outcomes)
            BY <5>1, <4>1, <1>5, <1>7, <1>11
          <5>2. CASE o # Len(outcomes)
            <6>1. o + 1 \in 1..Len(outcomes) /\ outcomes'[o + 1] = outcomes[o + 1]
                  /\ o < Len(outcomes)
              BY <5>2, <4>1, <1>7
            <6> QED
              BY <6>1, <4>1, <1>11 DEF Inv, ContextDecides
          <5> QED
            BY <5>1, <5>2
        <4> QED
          BY <4>3, <4>4
      <3> QED
        BY <3>1, <3>2
    <2> QED
      BY <2>1, <2>2 DEF ContextDecides
  <1>14. ResultMatchesEvents'
    BY <1>1 DEF Inv, LoopOK, ResultMatchesEvents
  <1> QED
    BY <1>8, <1>9, <1>10, <1>12, <1>13, <1>14 DEF Inv

LEMMA RaisesInv ==
    ASSUME Inv, NEW failure \in Failures \cup {NoFailure}, StepRaises(failure)
    PROVE  Inv'
  <1> DEFINE e == StepEvent("runbook_step_failed", i)
             z == RunEvent("runbook_terminated")
             x == [step_index |-> i, success |-> FALSE, failure |-> failure]
             n == CompletedAtFailure(outcomes')
  <1>1. /\ pc = "step" /\ pc' = "returned" /\ i < Len(steps) /\ i' = i
        /\ Executes(steps[i + 1])
        /\ LastEvent = StepEvent("runbook_step_started", i)
        /\ skipped' = skipped /\ events' = Append(Append(events, e), z)
        /\ outcomes' = Append(outcomes, x) /\ UNCHANGED input
        /\ result' = [steps_completed |-> n, steps_skipped |-> skipped,
                      failed_step_index |-> i, terminated_early |-> TRUE]
    BY DEF StepRaises, Inv, LoopOK
  <1>2. i \in Nat /\ Len(steps) \in Nat /\ skipped \in Nat /\ conditional \in BOOLEAN
    BY <1>1, MaxStepsAssumption DEF Inv, TypeOK
  <1>3. /\ e \in Event /\ e.event = "runbook_step_failed" /\ e.step_index = i
        /\ z \in Event /\ z.event = "runbook_terminated"
    BY <1>2, EventOK DEF StepEvent, RunEvent, EventKind, StepKind, Terminal
  <1>4. MayFollow(LastEvent, e) /\ MayFollow(e, z)
    BY <1>1, <1>3 DEF MayFollow
  <1>5. x \in Outcome /\ ~x.success /\ x.step_index = i
    BY <1>2 DEF Outcome
  <1> HIDE DEF e, x, z
  <1>6. /\ events' \in Seq(Event) /\ LastEvent' = z /\ Ordered(events)'
        /\ Completions' = Completions /\ Skips' = Skips
        /\ Completions \in Nat /\ Skips \in Nat
    <2> DEFINE s == Append(events, e)
               C == "runbook_step_completed"
               K == "runbook_step_skipped"
    <2>1. events \in Seq(Event) /\ Ordered(events)
      BY DEF Inv, TypeOK, LoopOK
    <2>2. /\ s \in Seq(Event) /\ Len(s) = Len(events) + 1 /\ s[Len(events) + 1] = e
          /\ Len(events) \in Nat
      BY <2>1, <1>3, AppendElements
    <2>3. Ordered(s)
      BY <2>1, <1>3, <1>4, AppendOrdered DEF LastEvent
    <2>4. /\ Cardinality(EmittedIn(s, C)) = Cardinality(EmittedIn(events, C))
          /\ Cardinality(EmittedIn(s, K)) = Cardinality(EmittedIn(events, K))
          /\ Cardinality(EmittedIn(events, C)) \in Nat
          /\ Cardinality(EmittedIn(events, K)) \in Nat
      BY <2>1, <1>3, AppendEmitted
    <2> HIDE DEF s
    <2>5. /\ Append(s, z) \in Seq(Event) /\ Len(Append(s, z)) = Len(s) + 1
          /\ Append(s, z)[Len(s) + 1] = z
      BY <2>2, <1>3, AppendElements
    <2>6. events' = Append(s, z)
      BY <1>1 DEF s
    <2>7. Ordered(events')
      BY <2>2, <2>3, <2>6, <1>3, <1>4, AppendOrdered
    <2>8. Ordered(events)'
      BY <2>7, <1>1 DEF Ordered, MayFollow, Reaches, RunEvent, StepEvent, input
    <2>9. /\ Cardinality(EmittedIn(Append(s, z), C)) = Cardinality(EmittedIn(s, C))
          /\ Cardinality(EmittedIn(Append(s, z), K)) = Cardinality(EmittedIn(s, K))
      BY <2>2, <2>4, <1>3, AppendEmitted
    <2>10. /\ EmittedIn(events, C)' = EmittedIn(Append(s, z), C)
           /\ EmittedIn(events, K)' = EmittedIn(Append(s, z), K)
      BY <2>6 DEF EmittedIn
    <2>11. LastEvent' = z
      BY <2>2, <2>5, <2>6 DEF LastEvent
    <2> QED
      BY <2>4, <2>5, <2>6, <2>8, <2>9, <2>10, <2>11 DEF Completions, Skips
  <1>7. /\ outcomes' \in Seq(Outcome) /\ Len(outcomes') = Len(outcomes) + 1
        /\ \A o \in 1..Len(outcomes) : outcomes'[o] = outcomes[o]
        /\ outcomes'[Len(outcomes) + 1] = x
        /\ Len(outcomes) \in Nat
    BY <1>1, <1>5, OutcomeTypes, AppendElements
  <1>8. n = Completions /\ i = Completions + skipped /\ skipped = Skips
    BY <1>1, <1>2, <1>6, <1>7 DEF Inv, CountOK, CompletedAtFailure
  <1> HIDE DEF n
  <1>9. result' \in Result /\ result' # NoResult
    <2>1. n \in Nat
      BY <1>1, <1>2, <1>6, <1>8
    <2>2. result' \in Result
      BY <2>1, <1>1, <1>2 DEF Result
    <2> QED
      BY <2>2, NoResultAssumption
  <1>10. TypeOK'
    BY <1>1, <1>2, <1>6, <1>7, <1>9, InputKept DEF Inv, TypeOK
  <1>11. LoopOK'
    BY <1>1, <1>3, <1>6, <1>9 DEF Inv, LoopOK, Terminal
  <1>12. CountOK'
    BY <1>1, <1>6, InputKept DEF Inv, CountOK
  <1>13. OutcomesOK'
    BY <1>1 DEF OutcomesOK
  <1>14. \A o \in 1..Len(outcomes) :
            outcomes[o].success /\ outcomes[o].step_index < i
                                /\ outcomes[o].step_index \in Nat
    BY <1>1, OutcomeTypes DEF Inv, OutcomesOK
  <1>15. ContextDecides'
    <2>1. ASSUME NEW k \in 1..i
          PROVE  Executes(steps[k])' <=>
                    \E o \in 1..Len(outcomes') : outcomes'[o].step_index = k - 1
                                                  /\ outcomes'[o].success
      <3>1. Executes(steps[k]) <=>
               \E o \in 1..Len(outcomes) : outcomes[o].step_index = k - 1
                                            /\ outcomes[o].success
        BY DEF Inv, ContextDecides
      <3>2. (\E o \in 1..Len(outcomes) : outcomes[o].step_index = k - 1
                                           /\ outcomes[o].success)
            <=> (\E o \in 1..Len(outcomes') : outcomes'[o].step_index = k - 1
                                               /\ outcomes'[o].success)
        BY <1>2, <1>5, <1>7
      <3> QED
        BY <3>1, <3>2, <1>1, InputKept
    <2>2. ASSUME NEW o \in 1..Len(outcomes')
          PROVE  /\ Executes(steps[outcomes[o].step_index + 1])'
                 /\ o < Len(outcomes') =>
                        /\ outcomes'[o].success
                        /\ outcomes'[o].step_index < outcomes'[o + 1].step_index
      <3>1. CASE o = Len(outcomes) + 1
        <4>1. outcomes'[o].step_index = i
          BY <3>1, <1>5, <1>7
        <4> QED
          BY <4>1, <3>1, <1>1, <1>7, InputKept DEF Executes, evaluate_when, input
      <3>2. CASE o # Len(outcomes) + 1
        <4>1. o \in 1..Len(outcomes) /\ outcomes'[o] = outcomes[o]
          BY <3>2, <1>7
        <4>2. Executes(steps[outcomes[o].step_index + 1])
          BY <4>1 DEF Inv, ContextDecides
        <4>3. Executes(steps[outcomes[o].step_index + 1])'
          BY <4>1, <4>2, <1>1 DEF Executes, evaluate_when, input
        <4>4. outcomes'[o].success
              /\ outcomes'[o].step_index < outcomes'[o + 1].step_index
          <5>1. CASE o = Len(outcomes)
            BY <5>1, <4>1, <1>5, <1>7, <1>14
          <5>2. CASE o # Len(outcomes)
            <6>1. o + 1 \in 1..Len(outcomes) /\ outcomes'[o + 1] = outcomes[o + 1]
                  /\ o < Len(outcomes)
              BY <5>2, <4>1, <1>7
            <6> QED
              BY <6>1, <4>1, <1>14 DEF Inv, ContextDecides
          <5> QED
            BY <5>1, <5>2
        <4> QED
          BY <4>3, <4>4
      <3> QED
        BY <3>1, <3>2
    <2> QED
      BY <2>1, <2>2, <1>1 DEF ContextDecides
  <1>16. ResultMatchesEvents'
    BY <1>1, <1>6, <1>8 DEF ResultMatchesEvents, Emitted, Completions, Skips, EmittedIn
  <1> QED
    BY <1>10, <1>11, <1>12, <1>13, <1>15, <1>16 DEF Inv

LEMMA RunCompletesInv == Inv /\ RunCompletes => Inv'
  <1> SUFFICES ASSUME Inv, RunCompletes PROVE Inv'
    OBVIOUS
  <1> DEFINE z == RunEvent("runbook_completed")
             n == CompletedAtEnd
  <1>1. /\ pc = "loop" /\ pc' = "returned" /\ i = Len(steps) /\ i' = i
        /\ skipped' = skipped /\ events' = Append(events, z)
        /\ outcomes' = outcomes /\ UNCHANGED input
        /\ result' = [steps_completed |-> n, steps_skipped |-> skipped,
                      failed_step_index |-> NoIndex, terminated_early |-> FALSE]
    BY DEF RunCompletes
  <1>2. /\ i \in Nat /\ Len(steps) \in Nat /\ skipped \in Nat
        /\ conditional \in BOOLEAN
    BY <1>1, MaxStepsAssumption DEF Inv, TypeOK
  <1>3. z \in Event /\ z.event = "runbook_completed"
    BY EventOK DEF RunEvent, EventKind, Terminal
  <1>4. MayFollow(LastEvent, z)
    BY <1>1, <1>3 DEF Inv, LoopOK, MayFollow
  <1> HIDE DEF z
  <1>5. /\ events' \in Seq(Event) /\ LastEvent' = z /\ Ordered(events)'
        /\ Completions' = Completions /\ Skips' = Skips
        /\ Completions \in Nat /\ Skips \in Nat
    BY <1>1, <1>3, <1>4, EmitOne
  <1>6. n = Completions /\ i = Completions + skipped /\ skipped = Skips
    BY <1>1, <1>2, <1>5 DEF Inv, CountOK, CompletedAtEnd
  <1> HIDE DEF n
  <1>7. result' \in Result /\ result' # NoResult
    <2>1. n \in Nat
      BY <1>1, <1>2, <1>5, <1>6
    <2>2. result' \in Result
      BY <2>1, <1>1, <1>2 DEF Result
    <2> QED
      BY <2>2, NoResultAssumption
  <1>8. TypeOK'
    BY <1>1, <1>2, <1>5, <1>7, InputKept DEF Inv, TypeOK
  <1>9. LoopOK'
    BY <1>1, <1>3, <1>5, <1>7 DEF Inv, LoopOK, Terminal
  <1>10. CountOK' /\ OutcomesOK'
    BY <1>1, <1>5, InputKept DEF Inv, CountOK, OutcomesOK
  <1>11. ContextDecides'
    BY <1>1, InputKept DEF Inv, ContextDecides
  <1>12. ResultMatchesEvents'
    BY <1>1, <1>5, <1>6, InputKept
       DEF ResultMatchesEvents, Emitted, Completions, Skips, EmittedIn
  <1> QED
    BY <1>8, <1>9, <1>10, <1>11, <1>12 DEF Inv

LEMMA NextInv == Inv /\ [Next]_vars => Inv'
  <1> SUFFICES ASSUME Inv, [Next]_vars PROVE Inv'
    OBVIOUS
  <1>1. CASE SkipStep
    BY <1>1, SkipInv
  <1>2. CASE StartStep
    BY <1>2, StartInv
  <1>3. CASE StepCompletes
    BY <1>3, CompletesInv
  <1>4. CASE \E failure \in Failures \cup {NoFailure} : StepRaises(failure)
    BY <1>4, RaisesInv
  <1>5. CASE RunCompletes
    BY <1>5, RunCompletesInv
  <1>6. CASE UNCHANGED vars
    <2>1. /\ UNCHANGED input /\ i' = i /\ pc' = pc /\ outcomes' = outcomes
          /\ events' = events /\ skipped' = skipped /\ result' = result
      BY <1>6 DEF vars, input
    <2>2. TypeOK' /\ OutcomesOK' /\ ContextDecides'
      BY <2>1, InputKept DEF Inv, TypeOK, OutcomesOK, ContextDecides
    <2>3. Completions' = Completions /\ Skips' = Skips
      BY <2>1 DEF Completions, Skips, EmittedIn
    <2>4. LoopOK' /\ CountOK'
      BY <2>1, <2>3, InputKept
         DEF Inv, LoopOK, CountOK, LastEvent, Reaches, Ordered, MayFollow
    <2>5. ResultMatchesEvents'
      BY <2>1, InputKept DEF Inv, ResultMatchesEvents, Emitted
    <2> QED
      BY <2>2, <2>4, <2>5 DEF Inv
  <1> QED
    BY <1>1, <1>2, <1>3, <1>4, <1>5, <1>6 DEF Next

-----------------------------------------------------------------------------
LEMMA Invariance == Spec => []Inv
  BY InitInv, NextInv, PTL DEF Spec

(* Every variable has its type.                                            *)
THEOREM TypeCorrect == Spec => []TypeOK
  <1>1. Inv => TypeOK
    BY DEF Inv
  <1> QED
    BY <1>1, Invariance, PTL

(* The lifecycle events come in ADR-015's order, and a terminal one is the *)
(* last one exactly when the runner has returned.                          *)
THEOREM RunsInOrder == Spec => []EventsInOrder
  <1>1. Inv => EventsInOrder
    <2> SUFFICES ASSUME Inv PROVE EventsInOrder
      OBVIOUS
    <2>1. Ordered(events) /\ (result # NoResult <=> pc = "returned")
      BY DEF Inv, LoopOK
    <2>2. pc # "returned" => LastEvent.event \notin Terminal
      <3>1. CASE pc = "loop"
        BY <3>1 DEF Inv, LoopOK, Reaches, Terminal
      <3>2. CASE pc = "step"
        BY <3>2 DEF Inv, LoopOK, StepEvent, Terminal
      <3> QED
        BY <3>1, <3>2 DEF Inv, TypeOK
    <2>3. pc = "returned" => LastEvent.event \in Terminal
      BY DEF Inv, LoopOK
    <2> QED
      BY <2>1, <2>2, <2>3 DEF EventsInOrder, Ordered, LastEvent
  <1> QED
    BY <1>1, Invariance, PTL

(* The counters of the result are the numbers of the emitted events, for   *)
(* run and for run_with_context, which count in different ways.            *)
THEOREM CountsAgree == Spec => []ResultMatchesEvents
  <1>1. Inv => ResultMatchesEvents
    BY DEF Inv
  <1> QED
    BY <1>1, Invariance, PTL

(* The steps that were executed are those the context selects, in order,   *)
(* and only the last one may have failed.                                  *)
THEOREM StepsFollowContext == Spec => []ContextDecides
  <1>1. Inv => ContextDecides
    BY DEF Inv
  <1> QED
    BY <1>1, Invariance, PTL

(* The runner implements the fail-fast promise of ADR-014.                 *)
THEOREM ImplementsFailFast == Spec => KeepsPromise
  <1>1. Init => Promise!Init
    <2> SUFFICES ASSUME Init PROVE Promise!Init
      OBVIOUS
    <2>1. Len(steps) \in 1..MaxSteps
      BY MaxStepsAssumption DEF Init
    <2> QED
      BY <2>1 DEF Init, Promise!Init
  <1>2. Inv /\ [Next]_vars => [Promise!Next]_(Promise!promise)
    <2> SUFFICES ASSUME Inv, [Next]_vars
                 PROVE  [Promise!Next]_(Promise!promise)
      OBVIOUS
    <2> USE DEF Promise!Next, Promise!promise
    <2>1. result = NoResult <=> pc # "returned"
      BY DEF Inv, LoopOK
    <2>2. CASE SkipStep
      BY <2>1, <2>2, InputKept DEF SkipStep, Promise!Pass
    <2>3. CASE StartStep
      BY <2>3, InputKept DEF StartStep
    <2>4. CASE StepCompletes
      BY <2>1, <2>4, InputKept DEF StepCompletes, Promise!Pass, Inv, LoopOK
    <2>5. CASE \E failure \in Failures \cup {NoFailure} : StepRaises(failure)
      <3>1. result' # NoResult
        BY <2>5, RaisesInv DEF Inv, LoopOK, StepRaises
      <3> QED
        BY <3>1, <2>1, <2>5, InputKept DEF StepRaises, Promise!Fail, Inv, LoopOK
    <2>6. CASE RunCompletes
      <3>1. result' # NoResult
        BY <2>6, RunCompletesInv DEF Inv, LoopOK, RunCompletes
      <3> QED
        BY <3>1, <2>1, <2>6, InputKept DEF RunCompletes, Promise!Complete
    <2>7. CASE UNCHANGED vars
      BY <2>7 DEF vars
    <2> QED
      BY <2>2, <2>3, <2>4, <2>5, <2>6, <2>7 DEF Next
  <1> QED
    BY <1>1, <1>2, Invariance, PTL DEF Spec, KeepsPromise, Promise!Spec

-----------------------------------------------------------------------------
(* How many moves a run has left at most: two for every step the loop has  *)
(* not passed, to start it and to hear of it, and one to return.           *)
MovesLeft ==
    CASE pc = "loop" -> 2 * (Len(steps) - i) + 1
      [] pc = "step" -> 2 * (Len(steps) - i)
      [] OTHER -> 0

(* ADR-014 knows no retry and no loop: every move brings the run nearer to *)
(* its end, so that a runbook of n steps is over after 2n + 1 of them,     *)
(* whatever its steps return or raise and whatever is skipped.             *)
Advances == [][MovesLeft' \in Nat /\ MovesLeft' < MovesLeft]_vars

(* A run of any length is over after at most two moves per step and one    *)
(* more: no move leaves as many to go as there were before it.             *)
THEOREM RunsAdvance == Spec => Advances
  <1>1. Inv /\ [Next]_vars => [MovesLeft' \in Nat /\ MovesLeft' < MovesLeft]_vars
    <2> SUFFICES ASSUME Inv, Next PROVE MovesLeft' \in Nat /\ MovesLeft' < MovesLeft
      OBVIOUS
    <2>1. /\ Len(steps) \in Nat /\ i \in 0..Len(steps)
          /\ pc \in {"loop", "step", "returned"} /\ pc = "step" => i < Len(steps)
      BY DEF Inv, TypeOK, LoopOK
    <2>2. CASE SkipStep
      BY <2>1, <2>2 DEF SkipStep, input, MovesLeft
    <2>3. CASE StartStep
      BY <2>1, <2>3 DEF StartStep, input, MovesLeft
    <2>4. CASE StepCompletes
      BY <2>1, <2>4 DEF StepCompletes, input, MovesLeft
    <2>5. CASE \E failure \in Failures \cup {NoFailure} : StepRaises(failure)
      BY <2>1, <2>5 DEF StepRaises, input, MovesLeft
    <2>6. CASE RunCompletes
      BY <2>1, <2>6 DEF RunCompletes, input, MovesLeft
    <2> QED
      BY <2>2, <2>3, <2>4, <2>5, <2>6 DEF Next
  <1> QED
    BY <1>1, Invariance, PTL DEF Spec, Advances
=============================================================================
