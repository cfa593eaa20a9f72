CONSTANT
    MaxAttempts = 1000
SPECIFICATION Spec
INVARIANT
    BackoffCapped
CHECK_DEADLOCK FALSE
