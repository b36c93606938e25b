SPECIFICATION Spec
CONSTANTS
    Anchors = 7
    MaxRepairs = 3
    MaxRetries = 3
CHECK_DEADLOCK FALSE
INVARIANTS
    DriftIsDrift
