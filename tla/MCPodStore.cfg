CONSTANTS
    EventTypes = {"event"}
    MaxAttempts = 1
    MaxEvents = 3
    MaxRecords = 1
    MaxQueue = 2
    MaxFaults = 1
    Runs = {1, 2, 3}
    KeepTerminalRuns = 1
    Clis = {c1, c2}
    DeployKinds = {"organizer", "pod"}
    Runtimes = {opencode, pi}
    Targets = {"local", "remote"}
    Nothing = Nothing
SPECIFICATION MCSpec
SYMMETRY Symmetry
INVARIANTS StoreSafety CleanRunReopens RecordsSafety DeploySafety
PROPERTIES TerminalFrozen ImplementsLifecycle
CHECK_DEADLOCK FALSE
