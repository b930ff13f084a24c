---------------------------- MODULE UsageReports ----------------------------
(***************************************************************************)
(* The usage reports of app/api/usage.py over the documents the importer   *)
(* writes to Cosmos, and the gateway telemetry of App Insights.            *)
(*                                                                         *)
(* A report is one HTTP request.  It reads the tenant's keys from the      *)
(* database, fixes the start of its window, then sends several queries to  *)
(* Cosmos one after the other; imports, new and deleted keys and the clock *)
(* go on in between.  Requests only read, so one reader stands for all of  *)
(* them.  The reader of the call log turns its pages, each a new request.  *)
(*                                                                         *)
(* Cosmos and App Insights are modelled as the code uses them: a query     *)
(* sees every document stored at that time, documents with the same id in  *)
(* one partition replace each other, and App Insights has every request    *)
(* the gateway answered so far, the rejected ones included.                *)
(***************************************************************************)
EXTENDS UsageDocuments

CONSTANTS
    Calls,        \* the requests the gateway answers; those with an id make an event
    Legacy,       \* documents of the retired gateway policy
    Keys,         \* virtual keys
    Tenants,
    TenantOf,     \* the tenant of a key's project
    Platform,     \* the scope of a report over all tenants
    Windows,      \* values of the `hours` parameter; Null for all time
    Dimensions,   \* values of the `by` parameter
    PageSizes,    \* values of the `page_size` parameter
    MaxPageSize,  \* the most documents of one page
    MaxWindow,    \* _MAX_WINDOW_HOURS
    HourlyMax,    \* _HOURLY_MAX_HOURS
    MaxRows,      \* _MAX_ROWS
    MaxGroups,    \* _MAX_GROUPS
    SummaryRows,  \* the default `limit` of query_by_subscriptions
    Start,        \* the time of the first step
    MaxTime       \* bound of the clock

ASSUME ReportsAssumption ==
    /\ TenantOf \in [Keys -> Tenants]
    /\ Platform \notin Tenants
    /\ Windows \subseteq Int \cup {Null} /\ PageSizes \subseteq Int
    /\ {MaxPageSize, MaxWindow, HourlyMax, MaxRows, MaxGroups, SummaryRows} \subseteq Nat \ {0}
    /\ Start \in Nat /\ MaxTime \in Nat /\ Start <= MaxTime
    /\ Null \notin Int /\ \A K \in SUBSET Keys : K # Null

(* A request has its own id, and its event is stamped with the time it was
   made, or malformed.  A price is a natural number.  By any time there were
   finitely many requests, and the retired documents were there at the start. *)
ASSUME CallsAssumption ==
    /\ \A c \in Calls : c.id # Null =>
          /\ c.id \in Int /\ c.at \in Int
          /\ c.ts # Null => c.ts.local - c.ts.offset = c.at
          /\ \A d \in Calls : d.id = c.id => d = c
          /\ Priced(c.aiu) => c.aiu.total \in Nat
    /\ \A t \in Start..MaxTime : IsFiniteSet({c \in Calls : c.at <= t})
    /\ IsFiniteSet(Legacy)
    /\ \A d \in Legacy :
          /\ d.id \in Int /\ d.ts \in Int /\ d.ts <= Start /\ d.cost \in Nat
          /\ \A e \in Legacy : e.id = d.id => e = d
          /\ \A c \in Calls : c.id # d.id

VARIABLES
    now,       \* the present
    docs,      \* the documents in the usage container
    live,      \* keys that have a row
    retired,   \* keys whose row has been deleted; ids are not used again
    report     \* the report being made

world == <<now, docs, live, retired>>
vars == <<world, report>>

Idle == [stage |-> "idle"]

(* The sum of field(f[x]) over the domain of f. *)
SumOver(field(_), f) == SumFunction([x \in DOMAIN f |-> field(f[x])])

(* A record with some of its fields set, new ones perhaps. *)
Update(r, fields) ==
    [f \in DOMAIN r \cup DOMAIN fields |-> IF f \in DOMAIN fields THEN fields[f] ELSE r[f]]

Clamp(low, x, high) == Max({low, Min({x, high})})

(* _window_since; the callers that need a number clamp it themselves first. *)
Since(hours) ==
    IF hours = Null THEN Null ELSE now - Clamp(1, hours, MaxWindow) * HourTicks

(* _tenant_key_ids; Null is the whole platform. *)
KeysOf(scope) ==
    IF scope = Platform THEN Null ELSE {k \in live : TenantOf[k] = scope}

-----------------------------------------------------------------------------
(* Queries.  An empty list of keys filters nothing; the callers must not    *)
(* let one get here.                                                        *)

Matching(keys, since) ==
    {d \in docs :
        /\ keys = Null \/ keys = {} \/ d.sub \in keys
        /\ since = Null \/ d.ts >= since}

(* Mutant of Scoped: an empty list of keys is not caught. *)
ScopedUncaught(keys, since) == Matching(keys, since)

(* Each query of UsageStore returns nothing for a tenant without keys. *)
Scoped(keys, since) == IF keys = {} THEN {} ELSE Matching(keys, since)

(* _fetch_agg_rows: the newest of them, up to the cap. *)
AggregateRows(r) == Slice(Scoped(r.keys, r.since), 0, MaxRows)

(* _AGG_DIMS and the aliases; anything else is grouped by model. *)
Canonical(by) ==
    CASE by \in {"hub", "backend"} -> "backend"
      [] by = "subscription"       -> "subscription"
      [] OTHER                     -> "model"

GroupOf(d, by) ==
    CASE by = "backend"      -> Or(d.hub, Unknown)
      [] by = "subscription" -> d.sub
      [] OTHER               -> d.route

(* cost_breakdown: the costliest groups, up to the cap; groups of one cost
   may come in any order. *)
Groups(S, by) ==
    LET names == {GroupOf(d, by) : d \in S}
        bill[g \in names] == Aggregate({d \in S : GroupOf(d, by) = g})
    IN  {[g \in shown |-> bill[g]] : shown \in
            {G \in SUBSET names :
                /\ Cardinality(G) = Min({Cardinality(names), MaxGroups})
                /\ \A g \in G, h \in names \ G : bill[g].cost >= bill[h].cost}}

(* Mutant of Slots: the number of days is rounded down. *)
SlotsRoundedDown(hours) ==
    IF hours <= HourlyMax
    THEN {StartOf(now, HourTicks) - i * HourTicks : i \in 0..(hours - 1)}
    ELSE LET day == DayHours * HourTicks
         IN  {StartOf(now, day) - i * day : i \in 0..(Max({hours \div DayHours, 1}) - 1)}

(* The buckets of cost_trend, by their start: as many hours as the window has,
   or as many days, rounded up, the last of which is the present one. *)
Slots(hours) ==
    IF hours <= HourlyMax
    THEN {StartOf(now, HourTicks) - i * HourTicks : i \in 0..(hours - 1)}
    ELSE LET day == DayHours * HourTicks
         IN  {StartOf(now, day) - i * day : i \in 0..((hours + DayHours - 1) \div DayHours - 1)}

StepOf(hours) == IF hours <= HourlyMax THEN HourTicks ELSE DayHours * HourTicks

(* cost_trend, zero-filled. *)
Trend(S, hours) ==
    [s \in Slots(hours) |->
        LET bill == Aggregate({d \in S : StartOf(d.ts, StepOf(hours)) = s})
        IN  [calls |-> bill.calls, cost |-> bill.cost,
             tokens |-> SumFunction(bill.tok)]]

-----------------------------------------------------------------------------
(* The world goes on.                                                       *)

Tick ==
    /\ now < MaxTime
    /\ now' = now + 1
    /\ UNCHANGED <<docs, live, retired, report>>

(* History: the documents changed while a report was being made. *)
Disturbed(changed) ==
    IF "quiet" \in DOMAIN report
    THEN [report EXCEPT !.quiet = @ /\ ~changed]
    ELSE report

(* The importer upserts the document of an event, perhaps once more; an event
   without a request id is dropped. *)
Import(e) ==
    /\ e.id # Null /\ e.at <= now
    /\ e.sub \in Keys => e.sub \in live \cup retired
    /\ LET new == Document(e, now)
       IN  docs' = {d \in docs : <<d.id, d.pk>> # <<new.id, new.pk>>} \cup {new}
    /\ report' = Disturbed(docs' # docs)
    /\ UNCHANGED <<now, live, retired>>

(* create_key and delete_key, as far as the reports see them. *)
IssueKey(k) ==
    /\ k \notin live \cup retired
    /\ live' = live \cup {k}
    /\ UNCHANGED <<now, docs, retired, report>>

(* Mutant of DeleteKey: the row stays. *)
DeleteKeyKeepingRow(k) ==
    /\ k \in live
    /\ retired' = retired \cup {k}
    /\ UNCHANGED <<now, docs, live, report>>

DeleteKey(k) ==
    /\ k \in live
    /\ live' = live \ {k}
    /\ retired' = retired \cup {k}
    /\ UNCHANGED <<now, docs, report>>

-----------------------------------------------------------------------------
(* The breakdown: keys and window, groups, trend, totals, labels.           *)

AskBreakdown(scope, hours, by) ==
    /\ report = Idle /\ hours # Null
    /\ report' = [stage |-> "groups", scope |-> scope, keys |-> KeysOf(scope),
                  hours |-> Clamp(1, hours, MaxWindow), since |-> Since(hours),
                  by |-> Canonical(by), quiet |-> TRUE]
    /\ UNCHANGED world

AskGroups ==
    /\ report.stage = "groups"
    /\ \E g \in Groups(AggregateRows(report), report.by) :
          report' = Update(report, [stage |-> "trend", groups |-> g])
    /\ UNCHANGED world

AskTrend ==
    /\ report.stage = "trend"
    /\ report' = Update(report,
                  [stage |-> "totals", trendAt |-> now,
                   trend |-> Trend(AggregateRows(report), report.hours)])
    /\ UNCHANGED world

(* Mutant of AskTotals: the headline is the sum of the groups. *)
AskTotalsOfGroups ==
    /\ report.stage = "totals"
    /\ report' = Update(report,
                  [stage |-> "labels",
                   totals |-> [Aggregate({}) EXCEPT
                       !.calls = SumOver(LAMBDA b : b.calls, report.groups),
                       !.cost = SumOver(LAMBDA b : b.cost, report.groups)]])
    /\ UNCHANGED world

AskTotals ==
    /\ report.stage = "totals"
    /\ report' = Update(report,
                  [stage |-> "labels", totals |-> Aggregate(AggregateRows(report))])
    /\ UNCHANGED world

(* _label_groups.  A key's project is known while the key has a row; accounts
   come and go elsewhere, so any of the logins may be known. *)
AskLabels ==
    /\ report.stage = "labels"
    /\ \E known \in CASE report.by = "backend"      -> SUBSET DOMAIN report.groups
                       [] report.by = "subscription" -> {DOMAIN report.groups \cap live}
                       [] OTHER                      -> {{}} :
          report' = Update(report, [stage |-> "breakdown", labelled |-> known])
    /\ UNCHANGED world

-----------------------------------------------------------------------------
(* The summary of a tenant, my_usage and tenant_usage.                      *)

AskSummary(scope, hours) ==
    /\ report = Idle /\ scope # Platform
    /\ report' = [stage |-> "rows", scope |-> scope, keys |-> KeysOf(scope),
                  since |-> Since(hours), quiet |-> TRUE]
    /\ UNCHANGED world

AskRows ==
    /\ report.stage = "rows"
    /\ report' = Update(report,
                  [stage |-> "summary",
                   summary |-> Summary(Slice(Scoped(report.keys, report.since), 0, SummaryRows))])
    /\ UNCHANGED world

-----------------------------------------------------------------------------
(* The call log of a tenant, tenant_usage_records: a page, the owners of    *)
(* its keys, the number of all documents.  Each page is a request of its    *)
(* own.                                                                     *)

Page(r, n) ==
    Update(r, [stage |-> "items", page |-> n, keys |-> KeysOf(r.scope),
               met |-> r.met \cup KeysOf(r.scope), since |-> Since(r.hours), quiet |-> TRUE])

AskPage(scope, hours, size) ==
    /\ report = Idle /\ scope # Platform
    /\ report' = Page([scope |-> scope, hours |-> hours,
                       size |-> Clamp(1, size, MaxPageSize),
                       seen |-> docs, first |-> KeysOf(scope), met |-> {},
                       shown |-> {}], 1)
    /\ UNCHANGED world

AskItems ==
    /\ report.stage = "items"
    /\ LET items == Slice(Scoped(report.keys, report.since),
                          (report.page - 1) * report.size, report.size)
       IN  report' = Update(report, [stage |-> "owners", items |-> items,
                                     shown |-> report.shown \cup items])
    /\ UNCHANGED world

(* _key_project_map, then _to_record_view of each document. *)
AskOwners ==
    /\ report.stage = "owners"
    /\ report' = [report EXCEPT !.stage = "count",
                     !.items = {RecordView(d, d.sub \in KeysOf(report.scope)) : d \in @}]
    /\ UNCHANGED world

(* Mutant of AskCount: the window is forgotten. *)
AskCountOfAll ==
    /\ report.stage = "count"
    /\ report' = Update(report,
                  [stage |-> "log", total |-> Cardinality(Scoped(report.keys, Null))])
    /\ UNCHANGED world

AskCount ==
    /\ report.stage = "count"
    /\ report' = Update(report,
                  [stage |-> "log", total |-> Cardinality(Scoped(report.keys, report.since))])
    /\ UNCHANGED world

(* There is a next page as long as the total says so. *)
TurnPage ==
    /\ report.stage = "log" /\ report.page * report.size < report.total
    /\ report' = Page([f \in DOMAIN report \ {"items", "total"} |-> report[f]], report.page + 1)
    /\ UNCHANGED world

-----------------------------------------------------------------------------
(* Gateway telemetry, request_telemetry: four queries, each best-effort.    *)

(* The requests App Insights returns for a window. *)
Traffic(hours) == {c \in Calls : c.at \in (now - hours * HourTicks)..now}

(* _run_kql gives nothing when the query fails. *)
Kql(rows) == {rows, {}}

(* A result code that is no number is not counted as a failure. *)
Rejected(S) == {c \in S : c.status # Null /\ c.status >= 400}

AskTelemetry(hours) ==
    /\ report = Idle /\ hours # Null
    /\ report' = [stage |-> "base", hours |-> Clamp(1, hours, MaxWindow)]
    /\ UNCHANGED world

NoTelemetry ==
    [stage |-> "telemetry", byApi |-> <<>>, byStatus |-> <<>>, series |-> <<>>,
     calls |-> 0, ok |-> 0, failures |-> 0]

(* Calls, failures and latencies by API; without an answer the report is empty. *)
AskBase ==
    /\ report.stage = "base"
    /\ \E rows \in Kql(Traffic(report.hours)) :
          IF rows = {} THEN report' = NoTelemetry
          ELSE report' = [stage |-> "split", hours |-> report.hours, basedAt |-> now,
                          byApi |-> [a \in {c.api : c \in rows} |->
                              [calls |-> Cardinality({c \in rows : c.api = a}),
                               failures |-> Cardinality(Rejected({c \in rows : c.api = a})),
                               split |-> FALSE]]]
    /\ UNCHANGED world

(* Gateway and backend time, null for the APIs the query does not return. *)
AskSplit ==
    /\ report.stage = "split"
    /\ \E rows \in Kql(Traffic(report.hours)) :
          report' = [report EXCEPT !.stage = "codes",
                        !.byApi = [a \in DOMAIN @ |->
                            [@[a] EXCEPT !.split = \E c \in rows : c.api = a]]]
    /\ UNCHANGED world

AskCodes ==
    /\ report.stage = "codes"
    /\ \E rows \in Kql(Traffic(report.hours)) :
          report' = Update(report,
                        [stage |-> "series", codesAt |-> IF rows = {} THEN Null ELSE now,
                         byStatus |-> [s \in {c.status : c \in rows} |->
                                          Cardinality({c \in rows : c.status = s})]])
    /\ UNCHANGED world

(* Mutant of AskSeries: the headline is the sum of the status codes. *)
AskSeriesByCodes ==
    /\ report.stage = "series"
    /\ LET calls == SumOver(LAMBDA n : n, report.byStatus)
           failures == SumOver(LAMBDA b : b.failures, report.byApi)
       IN  report' = Update(report,
                         [stage |-> "telemetry", series |-> <<>>,
                          calls |-> calls, failures |-> failures, ok |-> calls - failures])
    /\ UNCHANGED world

(* make-series from the start of the window, zero-filled unless the query
   fails, and the totals, which are taken from the table of APIs. *)
AskSeries ==
    /\ report.stage = "series"
    /\ LET step  == StepOf(report.hours)
           bins  == (report.hours * HourTicks + step - 1) \div step
           from  == now - report.hours * HourTicks
           calls == SumOver(LAMBDA b : b.calls, report.byApi)
           failures == SumOver(LAMBDA b : b.failures, report.byApi)
           bin(i) == {c \in Traffic(report.hours) : (c.at - from) \div step = i - 1}
       IN  \E series \in {<<>>, [i \in 1..bins |-> Cardinality(bin(i))]} :
              report' = Update(report,
                            [stage |-> "telemetry", series |-> series,
                             calls |-> calls, failures |-> failures, ok |-> calls - failures])
    /\ UNCHANGED world

-----------------------------------------------------------------------------
Answered == {"breakdown", "summary", "log", "telemetry"}

(* The answer has been read. *)
Leave ==
    /\ report.stage \in Answered
    /\ report' = Idle
    /\ UNCHANGED world

Init ==
    /\ now = Start
    /\ docs = Legacy
    /\ live = Keys \cap {d.sub : d \in Legacy}
    /\ retired = {}
    /\ report = Idle

World ==
    \/ Tick
    \/ \E c \in Calls : Import(c)
    \/ \E k \in Keys : IssueKey(k) \/ DeleteKey(k)

Ask ==
    \/ \E scope \in Tenants \cup {Platform}, hours \in Windows :
          \/ \E by \in Dimensions : AskBreakdown(scope, hours, by)
          \/ AskSummary(scope, hours)
          \/ \E size \in PageSizes : AskPage(scope, hours, size)
    \/ \E hours \in Windows : AskTelemetry(hours)

Answer ==
    \/ AskGroups \/ AskTrend \/ AskTotals \/ AskLabels
    \/ AskRows
    \/ AskItems \/ AskOwners \/ AskCount \/ TurnPage
    \/ AskBase \/ AskSplit \/ AskCodes \/ AskSeries

Next == World \/ Ask \/ Answer \/ Leave

Spec == Init /\ [][Next]_vars

-----------------------------------------------------------------------------
(* Properties.                                                              *)

(* Every variable has its type; an answer has a place for each query. *)
TypeOK ==
    /\ now \in Start..MaxTime
    /\ \A d \in docs : d \in Legacy \/ d.id \in {c.id : c \in Calls}
    /\ live \subseteq Keys /\ retired \subseteq Keys \ live
    /\ CASE report.stage = "breakdown" ->
               {"groups", "trend", "totals", "labelled"} \subseteq DOMAIN report
         [] report.stage = "log" -> {"items", "total"} \subseteq DOMAIN report
         [] report.stage = "summary" -> report.summary.cost \in Nat
         [] report.stage = "telemetry" -> report.calls \in Nat
         [] OTHER ->
               report.stage \in {"idle", "groups", "trend", "totals", "labels", "rows", "items",
                                "owners", "count", "base", "split", "codes", "series"}

(* However often and in whatever order events are imported, a call whose
   timestamp is well-formed has at most one document, in the partition of its
   month and at the instant it was made whatever offset it was stamped with
   (the window filter compares the stored strings), with upstream's price, and
   flagged when there is none. *)
OneDocumentPerCall ==
    \A c \in Calls : c.id # Null /\ c.ts # Null =>
        LET stored == {d \in docs : d.id = c.id}
        IN  /\ Cardinality(stored) <= 1
            /\ \A d \in stored :
                  /\ d.ts = c.at /\ d.pk[2] = MonthOf(c.at)
                  /\ d.source = "unpriced" => d.cost = 0
                  /\ (d.source = "unpriced") = (c.aiu = Null \/ c.aiu.total = Null)

(* The documents a report is about. *)
InScope(r) ==
    {d \in docs : /\ r.keys = Null \/ d.sub \in r.keys
                  /\ r.since = Null \/ d.ts >= r.since}

(* "Enforces the tenant-isolation red line": whatever a tenant is shown comes
   from the documents of its own keys, also when it has no key or when keys come
   and go between the queries of a report. *)
TenantIsolation ==
    (report.stage \in {"breakdown", "summary", "log"} /\ report.scope # Platform) =>
        LET own == {d \in docs : d.sub \in Keys /\ TenantOf[d.sub] = report.scope}
        IN  CASE report.stage = "breakdown" ->
                   /\ DOMAIN report.groups \subseteq {GroupOf(d, report.by) : d \in own}
                   /\ report.totals.calls <= Cardinality(own)
                   /\ report.totals.cost <= TotalOf(LAMBDA d : d.cost, own)
              [] report.stage = "summary" ->
                   report.summary.cost <= TotalOf(LAMBDA d : d.cost, own)
              [] report.stage = "log" ->
                   /\ \A i \in report.items : i.sub \in Keys /\ TenantOf[i.sub] = report.scope
                   /\ report.total <= Cardinality(own)

(* The headline is asked for after the groups and the chart: it is never below
   either of them, imports in between or not, and it is whole when the list of
   groups was cut off, as long as the window fits under the cap on rows. *)
HeadlineIsWhole ==
    report.stage = "breakdown" =>
        /\ report.totals.calls >= SumOver(LAMBDA b : b.calls, report.groups)
        /\ report.totals.calls >= SumOver(LAMBDA b : b.calls, report.trend)
        /\ (report.quiet /\ Cardinality(InScope(report)) <= MaxRows) =>
              /\ report.totals.cost = TotalOf(LAMBDA d : d.cost, InScope(report))
              /\ report.totals.billed = TotalOf(LAMBDA d : d.billed, InScope(report))

(* What cost_trend rounds up for: the chart leaves out no call that is newer
   than the window less one bucket, wherever in its hour or day the request was
   made and however the clock moved on since the window was fixed. *)
TrendCoversRecent ==
    (report.stage = "breakdown" /\ report.quiet /\ Cardinality(InScope(report)) <= MaxRows) =>
        LET step   == StepOf(report.hours)
            recent == {d \in InScope(report) :
                          d.ts > report.trendAt - report.hours * HourTicks + step}
        IN  SumOver(LAMBDA b : b.calls, report.trend) >= Cardinality(recent)

(* Turning the pages of the call log to the end shows every document that was
   in it at the start and still is, while newer and older calls are imported,
   keys are issued and the window moves on; unless the tenant lost a key that
   one of the pages was made with. *)
PagerMissesNothing ==
    ( /\ report.stage = "log"
      /\ report.page * report.size >= report.total
      /\ report.met \subseteq report.keys ) =>
        \A d \in report.seen \cap InScope(report) : d.sub \in report.first => d \in report.shown

(* "The count applies the same window as the page query - otherwise the pager
   offers pages that come back empty". *)
PagerOffersNoEmptyPage ==
    report.stage = "log" =>
        LET skip == (report.page - 1) * report.size
        IN  /\ report.items # {} => report.total >= skip + Cardinality(report.items)
            /\ report.quiet =>
                  Cardinality(report.items) = Clamp(0, report.total - skip, report.size)

(* "The headline still holds if the codes query is the one that degrades": the
   totals add up whichever of the queries failed, and where both came back at
   one time the codes reconcile with them. *)
TelemetryAddsUp ==
    report.stage = "telemetry" =>
        /\ report.ok + report.failures = report.calls /\ report.ok >= 0
        /\ report.calls = SumOver(LAMBDA b : b.calls, report.byApi)
        /\ ("codesAt" \in DOMAIN report /\ report.codesAt = report.basedAt) =>
              /\ report.calls = SumOver(LAMBDA n : n, report.byStatus)
              /\ report.failures = SumFunctionOnSet(report.byStatus,
                     {s \in DOMAIN report.byStatus : s # Null /\ s >= 400})
=============================================================================
