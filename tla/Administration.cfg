\* Two handlers at a time, four in all, on users, routes or hub logins; two
\* requests at a time on a hub's tokens.
SPECIFICATION MCSpec
CONSTANTS
    Nil = Nil
    Unknown = Unknown
    Requests = {r1, r2}
    MaxStarts = 4
    Usernames = {root, ann}
    Root = root
    UserTenants = {t1}
    Models = {m1, m2}
    Legacy = {m1}
    Accounts = {a1, a2}
    MaxAnswers = 3
    Coroutines = {c1, c2}
    MaxLogins = 3
SYMMETRY Symmetry
CHECK_DEADLOCK FALSE
INVARIANTS
    TypeOK
    AdminRemains
    RegistrationComplete
    HealthIsAnAnswer
    VaultFollowsHub
    ServesNewestLogin
