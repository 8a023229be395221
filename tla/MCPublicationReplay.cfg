CONSTANTS
    Runs = {r1, r2}
    MaxFaults = 1
    None = None
SPECIFICATION Spec
INVARIANTS SourceKeptUntilPublished
CHECK_DEADLOCK FALSE
