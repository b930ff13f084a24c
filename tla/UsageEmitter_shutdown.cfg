\* The promise of the module's docstring about aclose.
SPECIFICATION Spec
CONSTANTS
    e1 = e1
    e2 = e2
    Events = {e1, e2}
    MaxAttempts = 2
    QueueCap = 2
    MaxPending = 1
CHECK_DEADLOCK FALSE
INVARIANT ShutdownCountsEverything
