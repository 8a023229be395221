SPECIFICATION Spec
CONSTANTS
    MaxAttempts = 2
    PromptsFit = FALSE
INVARIANTS
    AttemptsDoNotOverlap
CHECK_DEADLOCK FALSE
