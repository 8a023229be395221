CONSTANTS
    Ops = {"agent", "verify", "candidate", "baseline"}
    Verifiers = {"verify"}
    Candidate = "candidate"
    Baseline = "baseline"
    MaxLives = 2
    MaxWorking = 1
    MaxFaults = 2
    MaxRuns = 3
    MaxAppFaults = 3
SPECIFICATION MCSpec
INVARIANTS RuntimeSafety AppSafety
PROPERTIES NothingAfterClose ServiceMovedAside DeploymentsEnd
CHECK_DEADLOCK FALSE
