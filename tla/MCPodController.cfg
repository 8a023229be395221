SPECIFICATION Spec
CONSTANTS
    MaxAttempts = 2
    PromptsFit = FALSE
CONSTRAINT FailAlike
INVARIANTS ControllerSafety ReadyIsReviewed
PROPERTIES NoWorkAfterSignal RunEnds
CHECK_DEADLOCK FALSE
