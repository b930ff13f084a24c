\* Two tenants, one of them without a key at first, the other with two in the end;
\* hours of two ticks, days of two hours.  The caps are small enough to be hit.
SPECIFICATION Spec
CONSTANTS
    k1 = k1
    k2 = k2
    k3 = k3
    t1 = t1
    t2 = t2
    h1 = h1
    m1 = m1
    m2 = m2
    openai = openai
    google = google
    Null = Null
    Unknown = Unknown
    Platform = Platform
    Markup <- MCMarkup
    HourTicks = 2
    DayHours = 2
    MonthTicks = 5
    Calls <- MCCalls
    Legacy <- MCLegacy
    Keys = {k1, k2, k3}
    Tenants = {t1, t2}
    TenantOf <- MCTenantOf
    Windows = {Null, 0, 9}
    Dimensions = {"hub", "subscription", "nonsense"}
    PageSizes = {0, 9}
    MaxPageSize = 2
    MaxWindow = 3
    HourlyMax = 2
    MaxRows = 3
    MaxGroups = 1
    SummaryRows = 3
    Start = 7
    MaxTime = 8
CHECK_DEADLOCK FALSE
INVARIANTS
    TypeOK
    OneDocumentPerCall
    TenantIsolation
    HeadlineIsWhole
    TrendCoversRecent
    PagerMissesNothing
    PagerOffersNoEmptyPage
    TelemetryAddsUp
