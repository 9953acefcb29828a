-------------------------- MODULE ReplayResume_proofs --------------------------
(***************************************************************************)
(* Theorems about ReplayResume, for every number of steps and every set of *)
(* replay and resume invocations.                                          *)
(***************************************************************************)
EXTENDS ReplayResume, TLAPS

Live == {"running", "failed", "completed"}

(* The steps before the one a run stands at are all completed, by it or by *)
(* the runs it resumes.                                                    *)
Covers(r, n) == \A k \in StepIndex : k < n => k \in covered[r]

(* Where a run stands: one that has ended has written its last word, and   *)
(* one that is live has written none.                                      *)
RunOK(r) ==
    /\ pc[r] \in {"unused"} \cup Live => ckpt[r] = Absent /\ outcome[r] = "none"
    /\ pc[r] = "unused" => done[r] = 0
    /\ pc[r] \in Live => start[r] + done[r] <= TotalSteps /\ Covers(r, start[r] + done[r])
    /\ pc[r] \in {"running", "failed"} => start[r] + done[r] < TotalSteps
    /\ pc[r] = "completed" => start[r] + done[r] = TotalSteps
    /\ outcome[r] = "success" => Covers(r, TotalSteps)
    /\ outcome[r] = "success" => ckpt[r] # Absent /\ ckpt[r].status = "completed"
    /\ outcome[r] = "error" => ckpt[r] # Absent /\ ckpt[r].status = "failed"

(* What a checkpoint promises is covered.                                  *)
FileOK(r) ==
    ckpt[r] \in Checkpoint => Covers(r, ResumeIndex(ckpt[r]))

(* The inductive invariant.                                                *)
Inv ==
    /\ TypeOK
    /\ \A r \in Runs : RunOK(r)
    /\ \A r \in AllRuns : FileOK(r)

-----------------------------------------------------------------------------
LEMMA ConstantFacts ==
    /\ TotalSteps \in Nat /\ TotalSteps > 0
    /\ Original \in AllRuns /\ Runs \subseteq AllRuns
    /\ \A r \in Runs : r # Original
    /\ Absent \notin Checkpoint /\ Damaged \notin Checkpoint
    /\ StepIndex \subseteq Nat /\ NoStep \notin StepIndex
    /\ \A k \in Nat : k \in StepIndex <=> k < TotalSteps
  BY TotalStepsAssumption, RunsAssumption, NoStepAssumption, CheckpointAssumption
     DEF AllRuns, StepIndex

(* The checkpoints an original run may leave promise what it completed.    *)
LEMMA OriginalCheckpoints ==
    /\ Completed \in Checkpoint /\ ResumeIndex(Completed) = TotalSteps
    /\ \A k \in 0..TotalSteps :
           InProgress(k) \in Checkpoint /\ ResumeIndex(InProgress(k)) = k
    /\ \A k \in StepIndex, f \in Failures :
           FailedAt(k, f) \in Checkpoint /\ ResumeIndex(FailedAt(k, f)) = k
  <1>1. Completed \in Checkpoint /\ ResumeIndex(Completed) = TotalSteps
    BY TotalStepsAssumption, NoStepAssumption
       DEF Completed, Checkpoint, ResumeIndex, StepIndex
  <1>2. ASSUME NEW k \in 0..TotalSteps
        PROVE  InProgress(k) \in Checkpoint /\ ResumeIndex(InProgress(k)) = k
    BY TotalStepsAssumption, NoStepAssumption
       DEF InProgress, Checkpoint, ResumeIndex, LastOf, StepIndex
  <1>3. ASSUME NEW k \in StepIndex, NEW f \in Failures
        PROVE  FailedAt(k, f) \in Checkpoint /\ ResumeIndex(FailedAt(k, f)) = k
    BY TotalStepsAssumption, NoStepAssumption
       DEF FailedAt, Checkpoint, ResumeIndex, LastOf, StepIndex
  <1> QED
    BY <1>1, <1>2, <1>3

LEMMA InitInv == Init => Inv
  <1> SUFFICES ASSUME Init PROVE Inv
    OBVIOUS
  <1>1. PICK c \in OriginalLeaves :
           /\ ckpt = [r \in AllRuns |-> IF r = Original THEN c ELSE Absent]
           /\ covered = [r \in AllRuns |->
                 IF r = Original /\ c \in Checkpoint
                 THEN {k \in StepIndex : k < c.steps_completed} ELSE {}]
    BY DEF Init
  <1>2. /\ c \in Checkpoint \cup {Absent, Damaged}
        /\ c \in Checkpoint => ResumeIndex(c) = c.steps_completed
    <2>1. CASE c = Completed
      BY <2>1, OriginalCheckpoints DEF Completed
    <2>2. ASSUME NEW k \in 0..TotalSteps, c = InProgress(k)
          PROVE  c \in Checkpoint /\ ResumeIndex(c) = c.steps_completed
      BY <2>2, OriginalCheckpoints DEF InProgress
    <2>3. ASSUME NEW k \in StepIndex, NEW f \in Failures, c = FailedAt(k, f)
          PROVE  c \in Checkpoint /\ ResumeIndex(c) = c.steps_completed
      BY <2>3, OriginalCheckpoints DEF FailedAt
    <2>4. CASE c \in {Absent, Damaged}
      BY <2>4, ConstantFacts
    <2> QED
      BY <2>1, <2>2, <2>3, <2>4 DEF OriginalLeaves
  <1>3. TypeOK
    <2>1. ckpt \in [AllRuns -> Checkpoint \cup {Absent, Damaged}]
      BY <1>1, <1>2
    <2>2. covered \in [AllRuns -> SUBSET StepIndex]
      BY <1>1
    <2> QED
      BY <2>1, <2>2, ConstantFacts DEF Init, TypeOK, PC, ReportOf
  <1>4. \A r \in Runs : RunOK(r)
    BY <1>1, ConstantFacts DEF Init, RunOK, Live
  <1>5. \A r \in AllRuns : FileOK(r)
    BY <1>1, <1>2, ConstantFacts DEF FileOK, Covers
  <1> QED
    BY <1>3, <1>4, <1>5 DEF Inv

-----------------------------------------------------------------------------
(* A run that an action leaves alone stays as good as it was.              *)
LEMMA RunKept ==
    ASSUME NEW r \in Runs, RunOK(r),
           ckpt'[r] = ckpt[r], pc'[r] = pc[r], start'[r] = start[r],
           done'[r] = done[r], outcome'[r] = outcome[r], covered'[r] = covered[r]
    PROVE  RunOK(r)'
  BY DEF RunOK, Covers

LEMMA FileKept ==
    ASSUME NEW r \in AllRuns, FileOK(r),
           ckpt'[r] = ckpt[r], covered[r] \subseteq covered'[r]
    PROVE  FileOK(r)'
  BY DEF FileOK, Covers

(* The start index of an accepted invocation is one the source covers.     *)
LEMMA StartCovered ==
    ASSUME Inv, NEW m \in {"replay", "resume"}, NEW src \in AllRuns,
           Refusal(m, ckpt[src]) = "none"
    PROVE  /\ StartIndex(m, ckpt[src]) \in 0..TotalSteps
           /\ m = "resume" => Covers(src, StartIndex(m, ckpt[src]))
           /\ m = "replay" => StartIndex(m, ckpt[src]) = 0
  <1>1. ckpt[src] \in Checkpoint
    BY DEF Refusal, Valid
  <1>2. ResumeIndex(ckpt[src]) \in 0..TotalSteps
    BY <1>1, TotalStepsAssumption DEF Checkpoint, ResumeIndex, StepIndex
  <1>3. 0 \in 0..TotalSteps
    BY ConstantFacts
  <1> QED
    BY <1>1, <1>2, <1>3 DEF Inv, FileOK, StartIndex

LEMMA RefusedInv ==
    ASSUME Inv, NEW r \in Runs, NEW m \in {"replay", "resume"}, NEW src \in AllRuns,
           Refused(r, m, src)
    PROVE  Inv'
  <1>1. Refusal(m, ckpt[src]) \in ErrorCode
    BY DEF Refused, Refusal, ErrorCode
  <1>2. TypeOK'
    BY <1>1 DEF Inv, TypeOK, Refused, PC, ReportOf
  <1>3. ASSUME NEW q \in Runs PROVE RunOK(q)'
    <2>1. CASE q = r
      BY <1>1, <2>1 DEF Inv, TypeOK, Refused, RunOK, Live, ErrorCode
    <2>2. CASE q # r
      BY <2>2, RunKept DEF Inv, TypeOK, Refused
    <2> QED
      BY <2>1, <2>2
  <1>4. ASSUME NEW q \in AllRuns PROVE FileOK(q)'
    BY FileKept DEF Inv, Refused
  <1> QED
    BY <1>2, <1>3, <1>4 DEF Inv

LEMMA BeginInv ==
    ASSUME Inv, NEW r \in Runs, NEW m \in {"replay", "resume"}, NEW src \in AllRuns,
           Begin(r, m, src)
    PROVE  Inv'
  <1> DEFINE n == StartIndex(m, ckpt[src])
  <1>1. /\ n \in 0..TotalSteps
        /\ m = "resume" => Covers(src, n)
        /\ m = "replay" => n = 0
    BY StartCovered DEF Begin
  <1>2. /\ start' = [start EXCEPT ![r] = n]
        /\ pc' = [pc EXCEPT ![r] = IF n < TotalSteps THEN "running" ELSE "completed"]
        /\ covered' = [covered EXCEPT ![r] = IF m = "resume" THEN covered[src] ELSE {}]
    BY DEF Begin, Inv, TypeOK
  <1> HIDE DEF n
  <1>3. r \in AllRuns /\ pc[r] = "unused" /\ done[r] = 0 /\ ckpt[r] = Absent
    BY ConstantFacts DEF Begin, Inv, RunOK
  <1>4. TypeOK'
    <2>1. covered' \in [AllRuns -> SUBSET StepIndex]
      BY <1>2, <1>3 DEF Inv, TypeOK
    <2>2. start' \in [Runs -> 0..TotalSteps] /\ pc' \in [Runs -> PC]
      BY <1>1, <1>2 DEF Inv, TypeOK, PC
    <2> QED
      BY <2>1, <2>2 DEF Inv, TypeOK, Begin
  <1>5. ASSUME NEW q \in Runs PROVE RunOK(q)'
    <2>1. CASE q = r
      <3>1. /\ start'[r] = n /\ done'[r] = 0 /\ ckpt'[r] = Absent /\ outcome'[r] = "none"
            /\ pc'[r] = IF n < TotalSteps THEN "running" ELSE "completed"
        BY <1>2, <1>3 DEF Inv, TypeOK, Begin, RunOK
      <3>2. \A k \in StepIndex : k < n => k \in covered'[r]
        BY <1>1, <1>2, <1>3, ConstantFacts DEF Inv, TypeOK, Covers
      <3>3. n + 0 = n /\ (~(n < TotalSteps) => n = TotalSteps) /\ n <= TotalSteps
        BY <1>1, ConstantFacts
      <3>4. RunOK(r)'
        BY <3>1, <3>2, <3>3 DEF RunOK, Live, Covers, StepIndex
      <3> QED
        BY <2>1, <3>4
    <2>2. CASE q # r
      BY <1>2, <2>2, RunKept, ConstantFacts DEF Inv, TypeOK, Begin
    <2> QED
      BY <2>1, <2>2
  <1>6. ASSUME NEW q \in AllRuns PROVE FileOK(q)'
    <2>1. CASE q = r
      BY <1>3, <2>1, ConstantFacts DEF FileOK, Begin
    <2>2. CASE q # r
      BY <1>2, <2>2, FileKept DEF Inv, TypeOK, Begin
    <2> QED
      BY <2>1, <2>2
  <1> QED
    BY <1>4, <1>5, <1>6 DEF Inv

LEMMA StepCompletesInv ==
    ASSUME Inv, NEW r \in Runs, StepCompletes(r)
    PROVE  Inv'
  <1> DEFINE n == start[r] + done[r]
  <1>1. /\ r \in AllRuns /\ n < TotalSteps /\ Covers(r, n)
        /\ start[r] \in Nat /\ done[r] \in Nat /\ n \in StepIndex
        /\ ckpt[r] = Absent /\ outcome[r] = "none"
    BY ConstantFacts DEF Inv, TypeOK, RunOK, Live, StepCompletes
  <1>2. TypeOK'
    <2>1. covered' \in [AllRuns -> SUBSET StepIndex]
      BY <1>1 DEF Inv, TypeOK, StepCompletes
    <2>2. done[r] + 1 \in 0..TotalSteps
      BY <1>1, ConstantFacts
    <2> QED
      BY <2>1, <2>2 DEF Inv, TypeOK, PC, StepCompletes
  <1>3. ASSUME NEW q \in Runs PROVE RunOK(q)'
    <2>1. CASE q = r
      <3>1. /\ start'[r] = start[r] /\ done'[r] = done[r] + 1
            /\ ckpt'[r] = Absent /\ outcome'[r] = "none"
            /\ pc'[r] = IF n + 1 < TotalSteps THEN "running" ELSE "completed"
        BY <1>1 DEF Inv, TypeOK, StepCompletes
      <3>2. start[r] + (done[r] + 1) = n + 1 /\ n + 1 <= TotalSteps
            /\ (~(n + 1 < TotalSteps) => n + 1 = TotalSteps)
        BY <1>1, ConstantFacts
      <3>3. \A k \in StepIndex : k < n + 1 => k \in covered'[r]
        <4>1. covered'[r] = covered[r] \cup {n}
          BY <1>1 DEF Inv, TypeOK, StepCompletes
        <4>2. \A k \in StepIndex : k < n + 1 => k < n \/ k = n
          BY <1>1, ConstantFacts
        <4> QED
          BY <1>1, <4>1, <4>2 DEF Covers
      <3> HIDE DEF n
      <3>4. RunOK(r)'
        BY <3>1, <3>2, <3>3 DEF RunOK, Live, Covers, StepIndex
      <3> QED
        BY <2>1, <3>4
    <2>2. CASE q # r
      BY <2>2, RunKept, ConstantFacts DEF Inv, TypeOK, StepCompletes
    <2> QED
      BY <2>1, <2>2
  <1>4. ASSUME NEW q \in AllRuns PROVE FileOK(q)'
    BY <1>1, FileKept DEF Inv, TypeOK, StepCompletes
  <1> QED
    BY <1>2, <1>3, <1>4 DEF Inv

LEMMA StepRaisesInv ==
    ASSUME Inv, NEW r \in Runs, NEW f \in Failures \cup {NoFailure}, StepRaises(r, f)
    PROVE  Inv'
  <1>1. TypeOK'
    BY DEF Inv, TypeOK, PC, StepRaises
  <1>2. ASSUME NEW q \in Runs PROVE RunOK(q)'
    <2>1. CASE q = r
      BY <2>1 DEF Inv, TypeOK, StepRaises, RunOK, Live, Covers
    <2>2. CASE q # r
      BY <2>2, RunKept DEF Inv, TypeOK, StepRaises
    <2> QED
      BY <2>1, <2>2
  <1>3. ASSUME NEW q \in AllRuns PROVE FileOK(q)'
    BY FileKept DEF Inv, StepRaises
  <1> QED
    BY <1>1, <1>2, <1>3 DEF Inv

(* The terminal checkpoint of a run promises exactly what it stands on, or *)
(* nothing.                                                                *)
LEMMA TerminalOK ==
    ASSUME Inv, NEW r \in Runs, pc[r] \in {"failed", "completed"}
    PROVE  /\ TerminalCheckpoint(r) \in Checkpoint
           /\ ResumeIndex(TerminalCheckpoint(r)) \in {0, start[r] + done[r]}
           /\ TerminalCheckpoint(r).status = pc[r]
  <1> DEFINE last == LastCompletedIndex(r)
             failedAt == IF pc[r] = "failed" THEN start[r] + done[r] ELSE NoStep
  <1>1. /\ start[r] \in Nat /\ done[r] \in 0..TotalSteps
        /\ start[r] + done[r] <= TotalSteps
        /\ pc[r] = "failed" => start[r] + done[r] < TotalSteps
        /\ failure[r] \in Failures \cup {NoFailure}
    BY ConstantFacts DEF Inv, TypeOK, RunOK, Live
  <1>2. /\ last \in StepIndex \cup {NoStep}
        /\ last # NoStep => last + 1 = start[r] + done[r]
    <2>1. CASE done[r] = 0
      BY <2>1 DEF LastCompletedIndex
    <2>2. CASE done[r] # 0
      BY <1>1, <2>2, ConstantFacts DEF LastCompletedIndex
    <2> QED
      BY <2>1, <2>2
  <1>3. failedAt \in StepIndex \cup {NoStep}
    BY <1>1, ConstantFacts
  <1> HIDE DEF last, failedAt
  <1>4. TerminalCheckpoint(r) =
           [status |-> pc[r], steps_completed |-> done[r], last_completed |-> last,
            failed_step |-> failedAt, failure |-> failure[r]]
    BY DEF TerminalCheckpoint, last, failedAt
  <1> QED
    BY <1>1, <1>2, <1>3, <1>4 DEF Checkpoint, ResumeIndex

LEMMA WriteCheckpointInv ==
    ASSUME Inv, NEW r \in Runs, WriteCheckpoint(r)
    PROVE  Inv'
  <1>1. /\ TerminalCheckpoint(r) \in Checkpoint
        /\ ResumeIndex(TerminalCheckpoint(r)) \in {0, start[r] + done[r]}
        /\ TerminalCheckpoint(r).status = pc[r]
        /\ r \in AllRuns
    BY TerminalOK, ConstantFacts DEF WriteCheckpoint
  <1>2. ckpt'[r] = TerminalCheckpoint(r) /\ \A q \in AllRuns : q # r => ckpt'[q] = ckpt[q]
    BY <1>1 DEF Inv, TypeOK, WriteCheckpoint
  <1>3. TypeOK'
    BY <1>1 DEF Inv, TypeOK, WriteCheckpoint, PC, ReportOf
  <1>4. Covers(r, start[r] + done[r]) /\ (pc[r] = "completed" => Covers(r, TotalSteps))
    BY DEF Inv, RunOK, Live, WriteCheckpoint
  <1>5. ASSUME NEW q \in Runs PROVE RunOK(q)'
    <2>1. CASE q = r
      <3>1. /\ pc'[r] = "ended"
            /\ outcome'[r] = IF pc[r] = "completed" THEN "success" ELSE "error"
            /\ pc[r] \in {"failed", "completed"}
            /\ covered' = covered
        BY DEF Inv, TypeOK, WriteCheckpoint
      <3>2. ckpt'[r] # Absent /\ ckpt'[r].status = pc[r]
        BY <1>1, <1>2, ConstantFacts
      <3>3. pc[r] = "completed" => Covers(r, TotalSteps)'
        BY <1>4, <3>1 DEF Covers
      <3> QED
        BY <2>1, <3>1, <3>2, <3>3 DEF RunOK, Live
    <2>2. CASE q # r
      BY <1>2, <2>2, RunKept, ConstantFacts DEF Inv, TypeOK, WriteCheckpoint
    <2> QED
      BY <2>1, <2>2
  <1>6. ASSUME NEW q \in AllRuns PROVE FileOK(q)'
    <2>1. CASE q = r
      <3>1. Covers(r, 0)
        BY ConstantFacts DEF Covers, StepIndex
      <3>2. Covers(r, ResumeIndex(TerminalCheckpoint(r)))
        BY <1>1, <1>4, <3>1
      <3>3. covered' = covered
        BY DEF WriteCheckpoint
      <3> QED
        BY <1>2, <2>1, <3>2, <3>3 DEF FileOK, Covers
    <2>2. CASE q # r
      BY <1>2, <2>2, FileKept DEF Inv, WriteCheckpoint
    <2> QED
      BY <2>1, <2>2
  <1> QED
    BY <1>3, <1>5, <1>6 DEF Inv

LEMMA WriteFailsInv ==
    ASSUME Inv, NEW r \in Runs, WriteFails(r)
    PROVE  Inv'
  <1>1. TypeOK'
    BY DEF Inv, TypeOK, PC, ReportOf, WriteFails
  <1>2. ASSUME NEW q \in Runs PROVE RunOK(q)'
    <2>1. CASE q = r
      BY <2>1 DEF Inv, TypeOK, WriteFails, RunOK, Live
    <2>2. CASE q # r
      BY <2>2, RunKept DEF Inv, TypeOK, WriteFails
    <2> QED
      BY <2>1, <2>2
  <1>3. ASSUME NEW q \in AllRuns PROVE FileOK(q)'
    BY FileKept DEF Inv, WriteFails
  <1> QED
    BY <1>1, <1>2, <1>3 DEF Inv

LEMMA KilledInv ==
    ASSUME Inv, NEW r \in Runs, Killed(r)
    PROVE  Inv'
  <1>1. TypeOK'
    BY DEF Inv, TypeOK, PC, Killed
  <1>2. ASSUME NEW q \in Runs PROVE RunOK(q)'
    <2>1. CASE q = r
      BY <2>1 DEF Inv, TypeOK, Killed, RunOK, Live
    <2>2. CASE q # r
      BY <2>2, RunKept DEF Inv, TypeOK, Killed
    <2> QED
      BY <2>1, <2>2
  <1>3. ASSUME NEW q \in AllRuns PROVE FileOK(q)'
    BY FileKept DEF Inv, Killed
  <1> QED
    BY <1>1, <1>2, <1>3 DEF Inv

-----------------------------------------------------------------------------
LEMMA NextInv == Inv /\ [Next]_vars => Inv'
  <1> SUFFICES ASSUME Inv, [Next]_vars PROVE Inv'
    OBVIOUS
  <1>1. ASSUME NEW r \in Runs, Invoke(r) PROVE Inv'
    BY <1>1, RefusedInv, BeginInv DEF Invoke
  <1>2. ASSUME NEW r \in Runs, Execute(r) PROVE Inv'
    BY <1>2, StepCompletesInv, StepRaisesInv, WriteCheckpointInv, WriteFailsInv
       DEF Execute
  <1>3. ASSUME NEW r \in Runs, Killed(r) PROVE Inv'
    BY <1>3, KilledInv
  <1>4. CASE UNCHANGED vars
    BY <1>4 DEF vars, Inv, TypeOK, RunOK, FileOK, Covers
  <1> QED
    BY <1>1, <1>2, <1>3, <1>4 DEF Next

LEMMA Invariance == Spec => []Inv
  BY InitInv, NextInv, PTL DEF Spec

(* Every variable has its type in every reachable state.                   *)
THEOREM TypeCorrect == Spec => []TypeOK
  <1>1. Inv => TypeOK
    BY DEF Inv
  <1> QED
    BY <1>1, Invariance, PTL

(* However a chain of resumes was broken by failures, kills and failed     *)
(* writes, a run that reports success leaves no step of the runbook        *)
(* uncompleted (ADR-020 7.3).                                              *)
THEOREM SuccessCoversRunbook == Spec => []CompletedCoversRunbook
  <1>1. Inv => CompletedCoversRunbook
    BY ConstantFacts DEF Inv, TypeOK, RunOK, Covers, CompletedCoversRunbook
  <1> QED
    BY <1>1, Invariance, PTL

(* No checkpoint, of the original run or of any later one, promises a step *)
(* that nobody completed.                                                  *)
THEOREM CheckpointsPromiseNoMore == Spec => []ResumeSkipsNothing
  <1>1. Inv => ResumeSkipsNothing
    BY DEF Inv, FileOK, Covers, ResumeSkipsNothing
  <1> QED
    BY <1>1, Invariance, PTL

(* What an invocation reported is what its checkpoint says.                *)
THEOREM ReportsAreRecorded == Spec => []ReportedIsRecorded
  <1>1. Inv => ReportedIsRecorded
    BY DEF Inv, RunOK, ReportedIsRecorded
  <1> QED
    BY <1>1, Invariance, PTL

(* A checkpoint, once written, is never touched again: a run writes its    *)
(* own one, while it is live.                                              *)
LEMMA FilesStay ==
    ASSUME Inv, [Next]_vars, NEW q \in AllRuns, ckpt[q] # Absent
    PROVE  ckpt'[q] = ckpt[q]
  <1>1. CASE UNCHANGED ckpt
    BY <1>1
  <1>2. CASE ckpt' # ckpt
    <2>1. PICK r \in Runs : WriteCheckpoint(r)
      BY <1>2 DEF Next, Invoke, Execute, Refused, Begin, StepCompletes, StepRaises,
             WriteFails, Killed, vars
    <2>2. ckpt[r] = Absent
      BY <2>1 DEF Inv, RunOK, Live, WriteCheckpoint
    <2> QED
      BY <2>1, <2>2 DEF Inv, TypeOK, WriteCheckpoint
  <1> QED
    BY <1>1, <1>2

(* Where an invocation without a checkpoint came from: a source that is    *)
(* accepted still, and would make it begin where it did.                   *)
Derived(r) ==
    Unrecorded(r) =>
        /\ source[r] \in AllRuns
        /\ Refusal("replay", ckpt[source[r]]) = "none"
        /\ start[r] = StartIndex(mode[r], ckpt[source[r]])

LEMMA RefusalIsTold ==
    ASSUME NEW m, NEW c, Refusal(m, c) # "none"
    PROVE  Refusal(m, c) \notin {"none", "raised"}
  BY DEF Refusal

LEMMA AcceptedByReplay ==
    ASSUME NEW m, NEW c, Refusal(m, c) = "none"
    PROVE  Refusal("replay", c) = "none"
  BY DEF Refusal

LEMMA DerivedKept ==
    ASSUME Inv, [Next]_vars, NEW r \in Runs, Derived(r), Unrecorded(r),
           source'[r] = source[r], start'[r] = start[r], mode'[r] = mode[r]
    PROVE  Derived(r)'
  <1>1. source[r] \in AllRuns /\ Refusal("replay", ckpt[source[r]]) = "none"
    BY DEF Derived
  <1>2. ckpt[source[r]] # Absent
    BY <1>1 DEF Refusal
  <1>3. ckpt'[source[r]] = ckpt[source[r]]
    BY <1>1, <1>2, FilesStay
  <1> QED
    BY <1>1, <1>3 DEF Derived

LEMMA NextDerived ==
    ASSUME Inv, [Next]_vars, \A r \in Runs : Derived(r), NEW q \in Runs
    PROVE  Derived(q)'
  <1> USE DEF Inv, TypeOK
  <1>1. SUFFICES ASSUME Unrecorded(q)' PROVE Derived(q)'
    BY DEF Derived
  <1>2. ASSUME NEW r \in Runs, NEW m \in {"replay", "resume"}, NEW src \in AllRuns,
               Refused(r, m, src)
        PROVE  Derived(q)'
    <2>1. q # r
      BY <1>1, <1>2, RefusalIsTold DEF Refused, Unrecorded
    <2>2. Unrecorded(q) /\ source'[q] = source[q] /\ start'[q] = start[q] /\ mode'[q] = mode[q]
      BY <1>1, <1>2, <2>1 DEF Refused, Unrecorded
    <2> QED
      BY <2>2, DerivedKept
  <1>3. ASSUME NEW r \in Runs, NEW m \in {"replay", "resume"}, NEW src \in AllRuns,
               Begin(r, m, src)
        PROVE  Derived(q)'
    <2>1. CASE q = r
      BY <1>3, <2>1, AcceptedByReplay DEF Begin, Derived
    <2>2. CASE q # r
      <3>1. Unrecorded(q) /\ source'[q] = source[q] /\ start'[q] = start[q]
            /\ mode'[q] = mode[q]
        BY <1>1, <1>3, <2>2 DEF Begin, Unrecorded
      <3> QED
        BY <3>1, DerivedKept
    <2> QED
      BY <2>1, <2>2
  <1>4. ASSUME NEW r \in Runs, Execute(r) \/ Killed(r)
        PROVE  Derived(q)'
    <2>1. pc[r] # "unused" /\ (q = r => outcome[r] \in {"none", "raised"})
      BY <1>4 DEF Execute, StepCompletes, StepRaises, WriteCheckpoint, WriteFails, Killed,
                  RunOK, Live
    <2>2. ckpt[q] = Absent
      BY <1>1, FilesStay DEF Unrecorded, AllRuns
    <2>3. Unrecorded(q)
      BY <1>1, <1>4, <2>1, <2>2
         DEF Execute, StepCompletes, StepRaises, WriteCheckpoint, WriteFails, Killed, Unrecorded
    <2>4. source' = source /\ start' = start /\ mode' = mode
      BY <1>4 DEF Execute, StepCompletes, StepRaises, WriteCheckpoint, WriteFails, Killed
    <2> QED
      BY <2>3, <2>4, DerivedKept
  <1>5. CASE UNCHANGED vars
    BY <1>1, <1>5, DerivedKept DEF vars, Unrecorded
  <1> QED
    BY <1>2, <1>3, <1>4, <1>5 DEF Next, Invoke

(* However many invocations of a chain are killed or fail to write, and    *)
(* whatever others did meanwhile, each can be tried again.                 *)
THEOREM RetriesRemain == Spec => []RetriesLoseNothing
  <1>1. Init => \A r \in Runs : Derived(r)
    BY DEF Init, Derived, Unrecorded
  <1>2. Inv /\ (\A r \in Runs : Derived(r)) /\ [Next]_vars => (\A r \in Runs : Derived(r))'
    BY NextDerived
  <1>3. Inv /\ (\A r \in Runs : Derived(r)) => RetriesLoseNothing
    <2> SUFFICES ASSUME Inv, NEW r \in Runs, Derived(r), Unrecorded(r)
                 PROVE  /\ Refusal("replay", ckpt[source[r]]) = "none"
                        /\ start[r] <= StartIndex(mode[r], ckpt[source[r]])
      BY DEF RetriesLoseNothing
    <2>1. start[r] \in Nat
      BY ConstantFacts DEF Inv, TypeOK
    <2> QED
      BY <2>1 DEF Derived
  <1> QED
    BY <1>1, <1>2, <1>3, Invariance, PTL DEF Spec

-----------------------------------------------------------------------------
(* What the file of a replay or resume is like, once it is there: the      *)
(* reader's checks on progress pass, and a failed run names its step.      *)
LoadOK(r) ==
    ckpt[r] # Absent =>
        /\ ckpt[r] \in Checkpoint /\ ProgressConsistent(ckpt[r])
        /\ ckpt[r].status = "failed" => ckpt[r].failed_step # NoStep

FilesLoad == \A r \in Runs : LoadOK(r)

LEMMA TerminalLoads ==
    ASSUME Inv, NEW r \in Runs, pc[r] \in {"failed", "completed"}
    PROVE  /\ TerminalCheckpoint(r) \in Checkpoint
           /\ ProgressConsistent(TerminalCheckpoint(r))
           /\ TerminalCheckpoint(r).status = "failed"
                 => TerminalCheckpoint(r).failed_step # NoStep
  <1>1. /\ start[r] \in Nat /\ done[r] \in Nat
        /\ start[r] + done[r] <= TotalSteps
        /\ pc[r] = "failed" => start[r] + done[r] \in Nat
    BY ConstantFacts DEF Inv, TypeOK, RunOK, Live
  <1>2. done[r] # 0 => start[r] + done[r] - 1 \in StepIndex
    BY <1>1, ConstantFacts
  <1>3. ProgressConsistent(TerminalCheckpoint(r))
    BY <1>2 DEF ProgressConsistent, TerminalCheckpoint, LastCompletedIndex
  <1>4. pc[r] = "failed" => TerminalCheckpoint(r).failed_step # NoStep
    BY <1>1, NoStepAssumption DEF TerminalCheckpoint
  <1> QED
    BY <1>3, <1>4, TerminalOK

LEMMA InitLoads == Init => FilesLoad
  BY ConstantFacts DEF Init, LoadOK, FilesLoad

LEMMA NextLoads == Inv /\ FilesLoad /\ [Next]_vars => FilesLoad'
  <1> SUFFICES ASSUME Inv, FilesLoad, [Next]_vars, NEW q \in Runs
               PROVE  LoadOK(q)'
    BY DEF FilesLoad
  <1>1. CASE ckpt'[q] = ckpt[q]
    BY <1>1 DEF LoadOK, FilesLoad
  <1>2. CASE ckpt'[q] # ckpt[q]
    <2>1. PICK r \in Runs : WriteCheckpoint(r)
      BY <1>2 DEF Next, Invoke, Execute, Refused, Begin, StepCompletes, StepRaises,
             WriteFails, Killed, vars
    <2>2. ckpt'[q] = TerminalCheckpoint(r) /\ q = r
      BY <1>2, <2>1, ConstantFacts DEF Inv, TypeOK, WriteCheckpoint
    <2> QED
      BY <2>1, <2>2, TerminalLoads DEF LoadOK, WriteCheckpoint
  <1> QED
    BY <1>1, <1>2

(* Whatever chain of runs it stands in, a checkpoint that replay or resume *)
(* wrote is accepted by them, unless its step raised without an envelope.  *)
THEOREM ClassifiedCheckpointsAreAccepted == Spec => []ClassifiedCheckpointsLoad
  <1>1. FilesLoad => ClassifiedCheckpointsLoad
    BY DEF FilesLoad, LoadOK, ClassifiedCheckpointsLoad, Valid, FailureConsistent
  <1> QED
    BY <1>1, Invariance, InitLoads, NextLoads, PTL DEF Spec
-----------------------------------------------------------------------------
(* As long as there is no barren resume, what is covered is known exactly: *)
(* by a live run the steps before the one it stands at, by the chain of a  *)
(* checkpoint that can be resumed those before its resume index.           *)
Prefix(n) == {k \in StepIndex : k < n}

ExactRun(r) == pc[r] \in Live => covered[r] = Prefix(start[r] + done[r])

ExactFile(r) ==
    ckpt[r] \in Checkpoint /\ ckpt[r].status # "completed"
        => covered[r] = Prefix(ResumeIndex(ckpt[r]))

Exact ==
    (\A r \in Runs : ~Barren(r)) =>
        /\ \A r \in Runs : ExactRun(r)
        /\ \A r \in AllRuns : ExactFile(r)

LEMMA PrefixZero == Prefix(0) = {}
  <1>1. ASSUME NEW k \in StepIndex PROVE ~(k < 0)
    BY ConstantFacts
  <1> QED
    BY <1>1 DEF Prefix

LEMMA PrefixNext ==
    ASSUME NEW n \in StepIndex
    PROVE  Prefix(n) \cup {n} = Prefix(n + 1)
  <1>1. ASSUME NEW k \in StepIndex PROVE k < n + 1 <=> k < n \/ k = n
    BY ConstantFacts
  <1> QED
    BY <1>1 DEF Prefix

LEMMA InitExact == Init => Exact
  <1> SUFFICES ASSUME Init PROVE Exact
    OBVIOUS
  <1>1. PICK c \in OriginalLeaves :
           /\ ckpt = [r \in AllRuns |-> IF r = Original THEN c ELSE Absent]
           /\ covered = [r \in AllRuns |->
                 IF r = Original /\ c \in Checkpoint
                 THEN {k \in StepIndex : k < c.steps_completed} ELSE {}]
    BY DEF Init
  <1>2. c \in Checkpoint /\ c.status # "completed" => ResumeIndex(c) = c.steps_completed
    <2>1. CASE c \in {Absent, Damaged, Completed}
      BY <2>1, ConstantFacts DEF Completed
    <2>2. ASSUME NEW k \in 0..TotalSteps, c = InProgress(k)
          PROVE  ResumeIndex(c) = c.steps_completed
      BY <2>2, OriginalCheckpoints DEF InProgress
    <2>3. ASSUME NEW k \in StepIndex, NEW f \in Failures, c = FailedAt(k, f)
          PROVE  ResumeIndex(c) = c.steps_completed
      BY <2>3, OriginalCheckpoints DEF FailedAt
    <2> QED
      BY <2>1, <2>2, <2>3 DEF OriginalLeaves
  <1>3. \A r \in AllRuns : ExactFile(r)
    BY <1>1, <1>2, ConstantFacts DEF ExactFile, Prefix
  <1>4. \A r \in Runs : ExactRun(r)
    BY DEF Init, ExactRun, Live
  <1> QED
    BY <1>3, <1>4 DEF Exact

(* A barren resume stays one: its file is written and its run is over.     *)
LEMMA BarrenStays ==
    ASSUME Inv, [Next]_vars, NEW q \in Runs, Barren(q)
    PROVE  Barren(q)'
  <1>1. ckpt[q] # Absent /\ pc[q] = "ended"
    BY DEF Inv, TypeOK, PC, RunOK, Live, Barren
  <1>2. ckpt'[q] = ckpt[q]
    <2>1. CASE \E r \in Runs : WriteCheckpoint(r)
      BY <1>1, <2>1 DEF Inv, TypeOK, WriteCheckpoint
    <2> QED
      BY <2>1 DEF Next, Invoke, Execute, Refused, Begin, StepCompletes, StepRaises,
                  WriteFails, Killed, vars
  <1>3. start'[q] = start[q]
    <2>1. CASE \E r \in Runs, m \in {"replay", "resume"}, src \in AllRuns : Begin(r, m, src)
      BY <1>1, <2>1 DEF Inv, TypeOK, Begin
    <2> QED
      BY <2>1 DEF Next, Invoke, Execute, Refused, StepCompletes, StepRaises,
                  WriteCheckpoint, WriteFails, Killed, vars
  <1>4. done'[q] = done[q]
    <2>1. CASE \E r \in Runs : StepCompletes(r)
      BY <1>1, <2>1 DEF Inv, TypeOK, StepCompletes
    <2> QED
      BY <2>1 DEF Next, Invoke, Execute, Refused, Begin, StepRaises,
                  WriteCheckpoint, WriteFails, Killed, vars
  <1> QED
    BY <1>2, <1>3, <1>4 DEF Barren

LEMMA BeginExact ==
    ASSUME Inv, NEW r \in Runs, NEW m \in {"replay", "resume"}, NEW src \in AllRuns,
           Begin(r, m, src),
           \A q \in Runs : ExactRun(q), \A q \in AllRuns : ExactFile(q)
    PROVE  /\ \A q \in Runs : ExactRun(q)'
           /\ \A q \in AllRuns : ExactFile(q)'
           /\ m = "resume" => covered[src] = Prefix(start'[r])
  <1> DEFINE n == StartIndex(m, ckpt[src])
  <1>1. /\ ckpt[src] \in Checkpoint
        /\ m = "resume" => ckpt[src].status # "completed" /\ n = ResumeIndex(ckpt[src])
        /\ m = "replay" => n = 0
    BY DEF Begin, Refusal, Valid, StartIndex
  <1>2. /\ start'[r] = n /\ done'[r] = 0 /\ r \in AllRuns /\ n \in 0..TotalSteps
        /\ ckpt[r] = Absent /\ ckpt' = ckpt
        /\ covered'[r] = IF m = "resume" THEN covered[src] ELSE {}
    BY StartCovered, ConstantFacts DEF Begin, Inv, TypeOK, RunOK
  <1>3. \A q \in Runs : q # r => /\ pc'[q] = pc[q] /\ start'[q] = start[q]
                                /\ done'[q] = done[q]
    BY DEF Begin, Inv, TypeOK
  <1>4. \A q \in AllRuns : q # r => covered'[q] = covered[q]
    BY DEF Begin, Inv, TypeOK
  <1> HIDE DEF n
  <1>5. covered'[r] = Prefix(n) /\ n + 0 = n
    <2>1. CASE m = "resume"
      BY <1>1, <1>2, <2>1 DEF ExactFile
    <2>2. CASE m = "replay"
      BY <1>1, <1>2, <2>2, PrefixZero
    <2> QED
      BY <2>1, <2>2
  <1>6. \A q \in Runs : ExactRun(q)'
    BY <1>2, <1>3, <1>4, <1>5, ConstantFacts DEF ExactRun, Prefix
  <1>7. \A q \in AllRuns : ExactFile(q)'
    BY <1>2, <1>4, ConstantFacts DEF ExactFile, Prefix
  <1>8. m = "resume" => covered[src] = Prefix(start'[r])
    BY <1>1, <1>2 DEF ExactFile
  <1> QED
    BY <1>6, <1>7, <1>8

LEMMA StepCompletesExact ==
    ASSUME Inv, NEW r \in Runs, StepCompletes(r),
           \A q \in Runs : ExactRun(q), \A q \in AllRuns : ExactFile(q)
    PROVE  (\A q \in Runs : ExactRun(q)') /\ (\A q \in AllRuns : ExactFile(q)')
  <1> DEFINE n == start[r] + done[r]
  <1>1. /\ n \in StepIndex /\ start[r] \in Nat /\ done[r] \in Nat
        /\ ckpt[r] = Absent /\ r \in AllRuns /\ pc[r] = "running"
    BY ConstantFacts DEF Inv, TypeOK, RunOK, Live, StepCompletes
  <1>2. /\ start' = start /\ ckpt' = ckpt /\ done'[r] = done[r] + 1
        /\ covered'[r] = covered[r] \cup {n}
        /\ \A q \in Runs : q # r => pc'[q] = pc[q] /\ done'[q] = done[q]
        /\ \A q \in AllRuns : q # r => covered'[q] = covered[q]
    BY <1>1 DEF Inv, TypeOK, StepCompletes
  <1>3. covered'[r] = Prefix(start'[r] + done'[r])
    <2>1. covered[r] = Prefix(n)
      BY <1>1 DEF ExactRun, Live
    <2>2. start'[r] + done'[r] = n + 1
      BY <1>1, <1>2
    <2>3. Prefix(n) \cup {n} = Prefix(n + 1)
      BY <1>1, PrefixNext
    <2> QED
      BY <1>2, <2>1, <2>2, <2>3
  <1>4. ASSUME NEW q \in Runs PROVE ExactRun(q)'
    <2>1. CASE q = r
      BY <1>3, <2>1 DEF ExactRun, Prefix
    <2>2. CASE q # r
      BY <1>2, <2>2, ConstantFacts DEF ExactRun, Prefix
    <2> QED
      BY <2>1, <2>2
  <1>5. ASSUME NEW q \in AllRuns PROVE ExactFile(q)'
    BY <1>1, <1>2, ConstantFacts DEF ExactFile, Prefix
  <1> QED
    BY <1>4, <1>5

(* The checkpoint a run writes resumes at the step the run stands at, or   *)
(* is that of a barren resume.                                             *)
LEMMA WriteExact ==
    ASSUME Inv, NEW r \in Runs, WriteCheckpoint(r), ~Barren(r)',
           \A q \in Runs : ExactRun(q), \A q \in AllRuns : ExactFile(q)
    PROVE  (\A q \in Runs : ExactRun(q)') /\ (\A q \in AllRuns : ExactFile(q)')
  <1>1. /\ TerminalCheckpoint(r) \in Checkpoint
        /\ TerminalCheckpoint(r).status = pc[r] /\ pc[r] \in {"failed", "completed"}
        /\ r \in AllRuns /\ start[r] \in Nat /\ done[r] \in Nat
    BY TerminalOK, ConstantFacts DEF WriteCheckpoint, Inv, TypeOK
  <1>2. /\ ckpt'[r] = TerminalCheckpoint(r)
        /\ \A q \in AllRuns : q # r => ckpt'[q] = ckpt[q]
        /\ covered' = covered /\ start' = start /\ done' = done
        /\ pc'[r] = "ended" /\ \A q \in Runs : q # r => pc'[q] = pc[q]
    BY <1>1 DEF Inv, TypeOK, WriteCheckpoint
  <1>3. pc[r] = "failed" => ResumeIndex(TerminalCheckpoint(r)) = start[r] + done[r]
    <2> SUFFICES ASSUME pc[r] = "failed"
                 PROVE  ResumeIndex(TerminalCheckpoint(r)) = start[r] + done[r]
      OBVIOUS
    <2>1. CASE done[r] = 0
      <3>1. start[r] = 0
        BY <1>1, <1>2, <2>1, ConstantFacts DEF Barren
      <3> QED
        BY <2>1, <3>1 DEF ResumeIndex, TerminalCheckpoint, LastCompletedIndex
    <2>2. CASE done[r] # 0
      <3>1. start[r] + done[r] - 1 \in Nat /\ (start[r] + done[r] - 1) + 1 = start[r] + done[r]
        BY <1>1, <2>2
      <3> QED
        BY <2>2, <3>1, NoStepAssumption DEF ResumeIndex, TerminalCheckpoint, LastCompletedIndex
    <2> QED
      BY <2>1, <2>2
  <1>4. covered[r] = Prefix(start[r] + done[r])
    BY <1>1 DEF ExactRun, Live
  <1>5. ASSUME NEW q \in Runs PROVE ExactRun(q)'
    BY <1>2 DEF ExactRun, Prefix, Live
  <1>6. ASSUME NEW q \in AllRuns PROVE ExactFile(q)'
    <2>1. CASE q = r
      BY <1>1, <1>2, <1>3, <1>4, <2>1 DEF ExactFile, Prefix
    <2>2. CASE q # r
      BY <1>2, <2>2 DEF ExactFile, Prefix
    <2> QED
      BY <2>1, <2>2
  <1> QED
    BY <1>5, <1>6

LEMMA NextExact == Inv /\ Exact /\ [Next]_vars => Exact'
  <1> SUFFICES ASSUME Inv, Exact, [Next]_vars, \A q \in Runs : ~Barren(q)'
               PROVE  (\A q \in Runs : ExactRun(q)') /\ (\A q \in AllRuns : ExactFile(q)')
    BY DEF Exact
  <1>1. (\A q \in Runs : ExactRun(q)) /\ (\A q \in AllRuns : ExactFile(q))
    BY BarrenStays DEF Exact
  <1>2. ASSUME NEW r \in Runs, NEW m \in {"replay", "resume"}, NEW src \in AllRuns,
               Begin(r, m, src)
        PROVE  (\A q \in Runs : ExactRun(q)') /\ (\A q \in AllRuns : ExactFile(q)')
    BY <1>1, <1>2, BeginExact
  <1>3. ASSUME NEW r \in Runs, StepCompletes(r)
        PROVE  (\A q \in Runs : ExactRun(q)') /\ (\A q \in AllRuns : ExactFile(q)')
    BY <1>1, <1>3, StepCompletesExact
  <1>4. ASSUME NEW r \in Runs, WriteCheckpoint(r)
        PROVE  (\A q \in Runs : ExactRun(q)') /\ (\A q \in AllRuns : ExactFile(q)')
    BY <1>1, <1>4, WriteExact
  <1>5. ASSUME ckpt' = ckpt, covered' = covered, start' = start, done' = done,
               \A q \in Runs : pc'[q] \in Live => pc[q] \in Live
        PROVE  (\A q \in Runs : ExactRun(q)') /\ (\A q \in AllRuns : ExactFile(q)')
    BY <1>1, <1>5 DEF ExactRun, ExactFile, Prefix
  <1>6. ASSUME NEW r \in Runs, NEW m \in {"replay", "resume"}, NEW src \in AllRuns,
               Refused(r, m, src)
        PROVE  \A q \in Runs : pc'[q] \in Live => pc[q] \in Live
    BY <1>6 DEF Inv, TypeOK, Refused, Live
  <1>7. ASSUME NEW r \in Runs,
               (\E f \in Failures \cup {NoFailure} : StepRaises(r, f))
                   \/ WriteFails(r) \/ Killed(r)
        PROVE  \A q \in Runs : pc'[q] \in Live => pc[q] \in Live
    BY <1>7 DEF Inv, TypeOK, StepRaises, WriteFails, Killed, Live
  <1>8. CASE UNCHANGED vars
    BY <1>5, <1>8 DEF vars
  <1>9. ASSUME NEW r \in Runs, Invoke(r)
        PROVE  (\A q \in Runs : ExactRun(q)') /\ (\A q \in AllRuns : ExactFile(q)')
    <2>1. PICK m \in {"replay", "resume"}, src \in AllRuns :
              Refused(r, m, src) \/ Begin(r, m, src)
      BY <1>9 DEF Invoke
    <2>2. CASE Refused(r, m, src)
      BY <1>5, <1>6, <2>2 DEF Refused
    <2> QED
      BY <1>2, <2>1, <2>2
  <1>10. ASSUME NEW r \in Runs, Execute(r) \/ Killed(r)
         PROVE  (\A q \in Runs : ExactRun(q)') /\ (\A q \in AllRuns : ExactFile(q)')
    <2>1. CASE (\E f \in Failures \cup {NoFailure} : StepRaises(r, f))
                   \/ WriteFails(r) \/ Killed(r)
      BY <1>5, <1>7, <2>1 DEF StepRaises, WriteFails, Killed
    <2> QED
      BY <1>3, <1>4, <1>10, <2>1 DEF Execute
  <1> QED
    BY <1>8, <1>9, <1>10 DEF Next

(* In a chain of any length, a resume neither skips a step that is missing *)
(* nor repeats one that was completed, unless a barren resume came before. *)
THEOREM ResumesContinue == Spec => ResumeContinues
  <1>1. Inv /\ Exact /\ [Next]_vars =>
            [\A r \in Runs :
                (/\ pc[r] = "unused" /\ pc'[r] \in {"running", "completed"}
                 /\ mode'[r] = "resume"
                 /\ \A q \in Runs : ~Barren(q))
                => covered[source'[r]] = {k \in StepIndex : k < start'[r]}]_vars
    <2> SUFFICES ASSUME Inv, Exact, Next, NEW r \in Runs, pc[r] = "unused",
                        pc'[r] \in {"running", "completed"}, mode'[r] = "resume",
                        \A q \in Runs : ~Barren(q)
                 PROVE  covered[source'[r]] = {k \in StepIndex : k < start'[r]}
      BY DEF vars
    <2>1. PICK q \in Runs, m \in {"replay", "resume"}, src \in AllRuns : Begin(q, m, src)
      BY DEF Next, Invoke, Execute, Refused, StepCompletes, StepRaises,
             WriteCheckpoint, WriteFails, Killed, Inv, TypeOK
    <2>2. q = r /\ m = "resume" /\ source'[r] = src
      BY <2>1 DEF Begin, Inv, TypeOK
    <2>3. covered[src] = Prefix(start'[r])
      BY <2>1, <2>2, BeginExact DEF Exact
    <2> QED
      BY <2>2, <2>3 DEF Prefix
  <1> QED
    BY <1>1, Invariance, InitExact, NextExact, PTL DEF Spec, ResumeContinues
=============================================================================
