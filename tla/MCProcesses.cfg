CONSTANTS
    Kinds = {"docker", "git", "cli", "publisher", "agent", "verify", "source", "engine"}
    Files = {"index", "page"}
    Contents <- MCContents
    Size <- MCSize
    Marked <- MCMarked
    SmokeFile = "index"
    MaxBytes = 3
    MaxWrites = 2
    Requests = {r1, r2, r3}
    MaxRequests = 2
    MaxConcurrency = 1
    MaxChunks = 1
    Logs = {1, 2}
    MaxLine = 2
    MaxSize = 3
    MaxFaults = 1
SPECIFICATION MCSpec
INVARIANTS RunnerSafety VerificationSafety ProxySafety FollowSafety
PROPERTIES ArtifactKept ProcessesEnd
CHECK_DEADLOCK FALSE
