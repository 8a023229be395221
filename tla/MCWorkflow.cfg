CONSTANTS
    Roles = {"plan", "build", "check"}
    Start = "plan"
    MaxSteps = 2
    MaxFaults = 2
    Templates = {"t1", "t2"}
SPECIFICATION MCSpec
INVARIANTS WorkflowSafety OrganizerSafety
PROPERTIES NothingAfterSignal ControllersEnd
CHECK_DEADLOCK FALSE
