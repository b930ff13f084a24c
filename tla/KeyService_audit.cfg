\* One tenant, two keys, no failing call: decisions about auditing race.
SPECIFICATION Spec
CONSTANTS
    k1 = k1
    k2 = k2
    k3 = k3
    p1 = p1
    p2 = p2
    t1 = t1
    t2 = t2
    b1 = b1
    r1 = r1
    r2 = r2
    Nil = Nil
    Requests = {r1, r2}
    Keys = {k1, k2, k3}
    Capacity = 3
    EtagVisible = TRUE
    Tenants = {t1, t2}
    Projects = {p1, p2}
    Budgets = {b1}
    Founded = {t1}
    TenantOf <- MCTenantOf
    ProjectOf <- MCProjectOf
    Limited = {k1, k3}
    Scope <- MCScope
    Blocking = {b1}
    Limit = 1
    MaxStarts = 3
    MaxFaults = 0
CHECK_DEADLOCK FALSE
INVARIANT AuditAgrees
