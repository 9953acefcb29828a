SPECIFICATION Spec
CONSTANTS
    Runs = {r1, r2}
    Original = r0
    TotalSteps = 3
    Failures = {timeout}
    NoFailure = NoFailure
    NoStep = NoStep
    NoRun = NoRun
    Absent = Absent
    Damaged = Damaged
PROPERTIES
    ResumeRetriesFailedStep
CHECK_DEADLOCK FALSE
