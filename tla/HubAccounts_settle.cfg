\* One account, polled twice at a time; the other accounts' part is in the
\* failures any call to the pools may meet.
SPECIFICATION FairSpec
CONSTANTS
    NoJob = NoJob
    NoProvider = NoProvider
    Accounts = {a1}
    Providers = {p1, p2}
    Jobs = {j1, j2}
    MaxPolls = 2
    MaxFaults = 1
CHECK_DEADLOCK FALSE
INVARIANT GoneIsClean
PROPERTY StatusSettles
