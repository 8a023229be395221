CONSTANTS
    Paths = {"a1", "a2", "b", "q", "readme"}
    Scope <- MCScope
    Contents = {"old", "new", "secret"}
    Old = "old"
    Secret = {"secret"}
    MaxFiles = 1
    MaxAttempts = 2
    MaxWrites = 4
    Runs = {r1, r2}
    MaxFaults = 2
    Lower <- MCLower
    File = "f"
    RunBases <- MCRunBases
    Requirements = {R1, R2}
    Criteria = {A1, A2}
    MaxPaths = 2
    Pods = {"p", "q"}
    Requests = {m1}
    Limit = 3
    MaxSessions = 3
    MaxCommands = 3
    MaxKills = 1
    NoOne = NoOne
SPECIFICATION MCSpec
CONSTRAINTS OnePathAgain FullBeforeLast
INVARIANTS IntegrationSafety ResourcesSafety ContractSafety FactorySafety
PROPERTIES OthersKept FactorySteps
CHECK_DEADLOCK FALSE
