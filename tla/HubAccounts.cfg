\* Two accounts, two providers, two background tasks at a time, no crash: what
\* crashes and uncaught exceptions do is in HubAccounts_settle.cfg.
SPECIFICATION Spec
CONSTANTS
    NoJob = NoJob
    NoProvider = NoProvider
    Accounts = {a1, a2}
    Providers = {p1, p2}
    Jobs = {j1, j2}
    MaxPolls = 1
    MaxFaults = 0
SYMMETRY Symmetry
CHECK_DEADLOCK FALSE
INVARIANTS
    TypeOK
    PooledHubLives
    ReadyIsPooledUnlessBumped
