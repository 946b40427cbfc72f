CONSTANTS
    StepCount = 1
    StartupTime = 2
    StepTime = 1
    TeardownTime = 3
    ExitTime = 2
    MaxDelay = 2
    MaxRuns = 2
    None = None
SPECIFICATION FairSpec
INVARIANTS TypeOK KillIsDue BlameIsRight SuccessIsEarned
PROPERTY RunsEnd
