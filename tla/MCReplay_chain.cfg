SPECIFICATION Spec
SYMMETRY Symmetry
CONSTANTS
    Runs = {r1, r2, r3}
    Original = r0
    TotalSteps = 3
    Failures = {timeout}
    NoFailure = NoFailure
    NoStep = NoStep
    NoRun = NoRun
    Absent = Absent
    Damaged = Damaged
INVARIANTS
    TypeOK
    CompletedCoversRunbook
    ClassifiedCheckpointsLoad
    ReportedIsRecorded
    RetriesLoseNothing
PROPERTIES
    ResumeContinues
CHECK_DEADLOCK FALSE
