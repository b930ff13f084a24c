\* Safety of the emitter: three interchangeable records, a queue of two.
SPECIFICATION Spec
CONSTANTS
    e1 = e1
    e2 = e2
    e3 = e3
    Events = {e1, e2, e3}
    MaxAttempts = 2
    QueueCap = 2
    MaxPending = 1
SYMMETRY Symmetry
CHECK_DEADLOCK FALSE
INVARIANTS
    TypeOK
    OneCopy
    LostCountsEventsOnce
    RecoveredExact
    ParkedHasDrainer
PROPERTY
    LedgerSpec
