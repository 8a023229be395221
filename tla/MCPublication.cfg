CONSTANTS
    Runs = {r1, r2}
    MaxFaults = 2
    None = None
SPECIFICATION Spec
INVARIANTS PublicationSafety
PROPERTIES ForeignHeadKept ClosedPullNotReplaced EventuallyPublished
CHECK_DEADLOCK FALSE
