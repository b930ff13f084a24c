\* An account deleted while its deployment runs.
SPECIFICATION Spec
CONSTANTS
    NoJob = NoJob
    NoProvider = NoProvider
    Accounts = {a1}
    Providers = {p1}
    Jobs = {j1, j2}
    MaxPolls = 1
    MaxFaults = 0
CHECK_DEADLOCK FALSE
INVARIANT NothingStranded
