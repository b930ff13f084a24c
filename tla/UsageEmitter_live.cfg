\* Liveness of the emitter under the fairness of its event loop.
SPECIFICATION FairSpec
CONSTANTS
    e1 = e1
    e2 = e2
    Events = {e1, e2}
    MaxAttempts = 2
    QueueCap = 1
    MaxPending = 1
CHECK_DEADLOCK FALSE
PROPERTIES
    EveryRecordSettles
    ShutdownCompletes
