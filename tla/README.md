# Token Foundry: TLA+ specifications

These specifications model the parts of Token Foundry in which several actors change shared state: the
usage-record emitter of a hub and the tokens it runs on; the importer that turns Capture blobs into billing
documents, the documents themselves and the reports made of them; the life of the GitHub accounts behind the
gateway with the backend pools their hubs join; virtual keys with the one named value that holds the limits of
all of them, tenants, projects and budgets; users, model routes and the recorded health of hubs. TLC
model-checks them on small instances; all of their safety properties, and two refinements of abstract
specifications, are also proved with TLAPS for any values of the constants. Paths below are relative to the
repository.

## 1. The system

Token Foundry is an LLM gateway: a control plane (FastAPI, several replicas of one Container App) on top of
Azure API Management (APIM), and one *hub* process per GitHub account that forwards requests to GitHub
Copilot. The control plane configures APIM over ARM REST calls, starts GitHub Actions that run terraform, and
keeps its metadata in PostgreSQL and its secrets in Key Vault. Every request a hub serves yields one usage
record: it goes to Event Hub, Capture writes it into a blob, the importer of the control plane turns it into a
priced Cosmos document, and the portal's reports fold those documents.

| Component | State it keeps | Operations | What is hard | What makes it correct |
|---|---|---|---|---|
| Usage-record emitter (`vendored/gitmodel-hub/hub/eventhub.py`, callers in `hub/server.py`) | producer and its two flags, retry queue, drainer task, counters, the emit tasks, the SDK's buffer | `_spawn_emit`, `_emit_usage`, `emit`, `_on_success`, `_on_error`, `_requeue`, `_drain_once`, `_drain_loop`, `_maybe_reinit`, `drain_emits`, `aclose` | one event loop, many suspension points: callbacks, drain passes, cancellations and shutdown meet in one queue | no record is forked, no record of a serving process vanishes uncounted, each loss is counted once, retries end |
| Usage import (`app/services/usage_capture_import.py`, timer in `app/main.py`) | watermark row, Cosmos documents | `run_once`, `_read_watermark`, `_write_watermark`, `_route_markups`, `event_to_document`, `UsageStore.upsert` | every replica runs it with no lease; blobs appear late; passes fail half-way | no blob falls behind the watermark, the watermark only rests on landed blobs, the import catches up, one document per call |
| Usage queries and reports (`app/services/usage_ingest.py`, `app/api/usage.py`, `billing.py`) | none | breakdown, summary, call log, telemetry | one report is several queries under a moving store and clock, each with a cap | tenants are isolated, headlines are whole, pagers have no gaps |
| GitHub accounts and pools (`app/api/github_accounts.py`, pool half of `app/services/apim_provisioner.py`, `app/services/terraform_runner.py`) | account rows, background tasks, APIM pools and policies, Azure resources | device flow, deploy, delete, teardown, resync, re-login | requests and background tasks interleave at each slow call; pools are shared by all accounts; runs time out and finish later | traffic only goes to hubs that exist, nothing is stranded, statuses settle |
| Virtual keys, limits and audit flags (`apim_provisioner.py`, `app/api/keys.py`, `app/api/tenants.py`, `keyvault.py`) | rows of tenants, projects and keys, APIM subscriptions, Key Vault secrets, one named value for all keys | issue, suspend, revoke, audit toggle, tenant and project creation and deletion | read-merge-write by several requests, retries, partial failure, cascades | no lost update, no served key without a row, suspended keys stay off |
| Budgets (`app/services/budget_enforcer.py`, `app/api/budgets.py`) | `spent_usd` | `add_spend`, enforcement | read-modify-write without a lock, next to suspensions | a BLOCK budget that is reached blocks |
| Model routes (`app/api/routes.py`, `_register_hub_catalog`) | `model_routes`, a partial unique index | add, rename, delete, registration with backfill and prune | one commit for a whole registration, computed from rows read before it | a registered model has a route |
| Users and login (`app/api/users.py`, `auth.py`, `login.py`, `init_db.py`) | `users`, tokens that outlive their row | create, update, delete, login, seed | guards evaluated long before the commit, roles inside tokens | an admin remains |
| Hub status poller (`app/services/hub_status_poller.py`, `hub_client.py`) | recorded health on account rows | `poll_once` | one commit for all rows after slow calls, on every replica | what is recorded was answered |
| Copilot token cache of a hub (`hub/copilot_client.py`) | OAuth token, API token and its expiry | exchange, install with roll-back, device flow, logout | the cache is cleared outside the lock an exchange holds | a hub serves with the login that last succeeded |
| Audit archive of a hub (`hub/audit.py`) | in-flight uploads, counters | submit, upload, close | bounded tasks, shutdown | bounded, everything counted |
| Gateway requests of a hub, deployment configuration, schema, infrastructure, portal | none of their own, or outside the program | translation, sequential calls, declarations | - | - |

How they interact: a request handler of a hub hands a record to the emitter (call or task); Event Hub and
Capture are the only link from the emitter to the importer (at-least-once, delayed, batched); the importer
reads `model_routes` for its markups; the reports read its documents and the tenant's keys; account tasks talk
to ARM and GitHub and share the pools; a re-login installs a token on a hub and then stores it in Key Vault;
issuing and revoking keys and the audit toggle share one named value at the gateway; the portal drives all of
it over HTTP. `PROJECT.json` lists the hazards of each part at their lines, the ones no property covers with the
reason.

## 2. Modules

| Module | What it is |
|---|---|
| `UsageLedger` | abstract specification of the emitter's promise: a record is open until it is acknowledged or counted as lost |
| `UsageEmitter`, `UsageEmitter_proofs` | the emitter of one hub process with the refinement of `UsageLedger`; TLAPS proofs |
| `UsageImport`, `UsageImport_proofs` | the importer of every replica, the watermark and the Capture container; TLAPS proofs |
| `UsageDocuments` | pure: `event_to_document`, prices and tokens, markup, and how reports read and fold documents |
| `UsageReports`, `UsageReports_proofs` | the reports as sequences of queries over a store that changes between them; EXTENDS `UsageDocuments`; TLAPS proofs |
| `HubAccounts`, `HubAccounts_proofs` | accounts, their background tasks, the pools and the policies that name them; TLAPS proofs |
| `LimitsMap` | abstract specification of the limits named value: a map that each caller changes at its own keys only |
| `KeyLimits`, `KeyLimits_proofs` | the read-merge-write loops on that named value, which implement `LimitsMap`; TLAPS proofs |
| `KeyService`, `KeyService_proofs`, `KeyRows_proofs` | the handlers of keys, projects, tenants and budgets around those loops; EXTENDS `KeyLimits`; TLAPS proofs |
| `Handlers` | what handlers with a database session have in common: entering, rows held, the UPDATE of changed columns |
| `Users`, `HubCatalog`, `HubHealth` | users; model routes; recorded health and re-login. Each EXTENDS `Handlers` |
| `TokenCache` | the OAuth and API token of one hub process |
| `Administration`, `Administration_proofs` | the composition of the four; TLAPS proofs |
| `MC...` | symmetry sets and constant values of the runs; `MCAdministration` also picks the part a behaviour is about |

### UsageEmitter

An asyncio loop runs one piece of code at a time, so an action is the code between two suspension points.

| Code | Actions |
|---|---|
| `_spawn_emit`, `_emit_usage` | `SpawnEmit`, `EmitInline` |
| `emit` up to its `await send_event`, and its outcome | `EmitStart`/`EmitBody`, `EmitSendOk`, `EmitSendFail` |
| `_get_producer` (no await in it) | the helper `GetProducer`, part of its callers' actions |
| `_requeue` with the eviction of the oldest event and `_ensure_drainer` | the helper `FailAndPark`, part of `EmitSendFail`, `OnError`, `DrainSendFail` |
| the SDK's acknowledgement, its failed batch, one round of `_on_error` | `OnSuccess`, `BatchFails`, `OnError` |
| the backoff of an event ends | `Ripen` |
| `_drain_loop`/`_drain_once`: snapshot, one item after the other, no producer | `DrainBegin`, `DrainSendOk`, `DrainSendFail`, `DrainNoProducer` |
| `_maybe_reinit` | `MaybeReinit` |
| `server._shutdown`, `drain_emits`, `aclose` | `BeginShutdown`, `CancelDrainer`, `FinalBegin`, `FinalEnd`, `CloseProducer` |
| the end of the process | `ProcessEnds` |

`_on_error` does not await, so while `handback` is not empty only `OnError` is enabled (`Quiet`). A
cancellation inside `send_event` (`CutPass`) may or may not find the event in the SDK's buffer. A callback that
`close()` makes can revive the drainer, which then builds a second producer (generation 2): it is modelled, and
nothing closes it. Times are abstracted to "the backoff is over"; of the order of `_retry_q` only the oldest
matters (`parkedAt`). `attempts` stands for both `_Pending.attempts` and the `tf-attempt` property of an event,
which are the same number on every path. The five failure counters are summed, as `dropped_count` does.

### UsageImport

`Begin` is `_read_watermark` and `_route_markups`; `List` the listing, sort and cap; `Upsert` one event;
`CloseBlob` the end of a blob, where `high_water` moves; `Abort` the `except` of `run_once`; `Save`
`_write_watermark`, last write wins; `LoopDies` the read of the watermark that is outside the `try`. `Tick`,
`Publish` and `Restart` are the environment. Here `event_to_document` is abstracted to one document per request
id that remembers the markup it was priced with, the only thing a document takes from outside its event; what
a document contains is in `UsageDocuments`.

### UsageDocuments and UsageReports

`UsageDocuments` is arithmetic: `Document` is `event_to_document` (`ParseTs`, `EventTokens`, `Priced`, `Billed`
are `_parse_ts`, the upstream split with its fallback, `cost_source` and the markup), `ExtractTokens` and
`ColumnTokens` the two ways of reading a document, of which only the first knows the retired nested shape, and
the folds the aggregates are made of. Instants are ticks of UTC, money is counted in nano-AIU.

`UsageReports` adds the store (`docs`), the clock and the keys, and one report at a time. Reports only read, so
one reader stands for all of them.

| Code | Actions |
|---|---|
| `usage_breakdown` with its three queries and the labels | `AskBreakdown`, `AskGroups`, `AskTrend`, `AskTotals`, `AskLabels` |
| `my_usage`, `tenant_usage` | `AskSummary`, `AskRows` |
| the call log: page, owners, count, the next page | `AskPage`, `AskItems`, `AskOwners`, `AskCount`, `TurnPage` |
| the telemetry of App Insights, each query of which may degrade to an empty answer | `AskTelemetry`, `AskBase`, `AskSplit`, `AskCodes`, `AskSeries` |
| what goes on meanwhile | `Tick`, `Import`, `IssueKey`, `DeleteKey` |

`Scoped` is `query_by_subscriptions` and its siblings with their empty-list rule; `Slots` the buckets of
`cost_trend`; `Clamp` the bounds of the query parameters. In `report`, `quiet` (nothing was imported since the
page), `seen` and `first` (what the first page could have shown, and its keys), `shown` (the documents of the pages so
far) and `met` (the keys any of those pages was made with) are history. `CallsAssumption` is what the reports
may take for granted of calls: APIM gives every request its own id, a hub stamps an event with its own clock
unless the timestamp is malformed, GitHub's price of a call is not negative, by any time there were finitely many
requests, and the documents of the retired policy, which no longer writes, are older than the start.

### HubAccounts

Requests are `DeviceStart`, `PollBegin` and its three outcomes, `Delete`, `Resync`; a background task is a
record in `job` whose `at` names its next call. Each `Pool` operation of the provisioner is two actions: the GET
(`ReadPoolToJoin`, `ReadPoolToLeave`) and the PUT or DELETE (`JoinPool`, `LeavePool`, `Detach`, `DropPool`),
each of which may be refused, be carried out with its answer lost, or fail (`JoinAnswerLost`,
`LeaveAnswerLost`, `DeployFails`, `PoolGateFails`). An ETag is represented by the content it was given for,
which is the weaker check: a pool that changed and changed back would be refused by ARM and is accepted here.
The order of the providers is left free, and a pool's members are accounts. The apply and destroy runs of
GitHub Actions are external; an apply run that `_poll_run` gave up on, or that a restart left behind, is in `late`
and may still create the hub, a destroy run is in `doomed` and may still remove it. `Uncaught` is an exception that
leaves the task: Key Vault before the destroy run, or a database error, which makes the handler's `db.get`
(`github_accounts.py:620`) raise as well, so that the status stays as it was.
`mixed` and `bumped` are history variables used by the properties only.

### LimitsMap, KeyLimits and KeyService

`KeyLimits` is the JSON named value with the limits and audit flags of all keys, and the loops of
`apim_provisioner.py` on it: `ReadLimits` is the GET with everything computed from it (nothing to do, over the
4096 characters that `Capacity` stands for), `WriteLimits`, `WriteAnswerLost`, `WriteRefused`,
`LimitsCallFails` the conditional PUT, three attempts in all. `Merge` has one case per caller: `limits`,
`audit`, `remove`, `ensure`.

| Code | Actions of `KeyService` |
|---|---|
| `create_key`: subscription, secret, limits, flag, row, each undone when a later one fails | `CreateKey`, `Subscribe`, `StoreSecret`, `LimitsLoop`, `FlagNewKey`, `InsertRow`, `IssueFails`, `UndoSubscription`, `UndoSecret` |
| `suspend_key` and the suspension by a budget: GET, PUT, row | `SuspendKey`, `GetSubscription`, `PutState`, `PutStateFails`, `MarkSuspended` |
| `delete_key` | `DeleteKey`, `DropSubscription`, `KeepSubscription`, `DropSecret`, `LimitsLoop`, `DropRow` |
| the audit toggle of `update_tenant` | `ToggleAudit`, `RecordAudit`, `ToggleRefused` |
| tenants and projects, deletion with cascade | `CreateTenant`, `EnsureTenantProduct`, `CreateProject`, `DeleteTenant`, `DeleteProject`, `Cascade` |
| `BudgetEnforcer.add_spend` | `AddSpend`, `PostSpend`, `BlockKey` |
| start-up of a replica | `EnsureNamedValue`, `NamedValueEnsured` |

A request stops between any two calls; each call may fail, at most `MaxFaults` times, and a failed write may
have been carried out. `lapsed`, `contested`, `overwritten` and `later` (the keys the last charge committed for their
budget did not look at) are history.

### Handlers, Users, HubCatalog, HubHealth, TokenCache and Administration

`Handlers` has what the SQLAlchemy session does: a handler keeps the rows it loaded, reads do not lock, and
`Save` writes only the columns that differ from what was loaded. The number a handler enters with stands for
the ids it draws.

| Code | Actions |
|---|---|
| `create_user`, `update_user`, `delete_user` with its count of admins, the seeded admin | `CreateUser`, `InsertUser`, `UpdateUser`, `WriteUser`, `DeleteUser`, `CountAdmins`, `DropUser`, `SeedAdmin` |
| login, expiry, a deleted tenant | `Login`, `TokenExpires`, `TenantLeaves` |
| `_register_hub_catalog`: pools wired, routes read, one commit | `RegisterHub`, `ReadRoutes`, `WiringFails`, `StoreCatalog` |
| `add_route`, `update_route`, `delete_route`, the cascade of a tenant | `AddRoute`, `InsertRoute`, `RenameRoute`, `WriteRoute`, `DeleteRoute`, `DropRoute`, `CascadeRoutes` |
| `poll_once` | `PollOnce`, `FetchStatus`, `Unreachable`, `CommitPass` |
| `relogin_start`, `relogin_poll`: code, GitHub, hub, Key Vault, code cleared | `ReloginStart`, `KeepCode`, `ReloginPoll`, `Redeem`, `InstallToken`, `StoreToken`, `ClearCode` and their failures |
| on the hub: `get_api_token` | `NeedToken`, `FindsToken`, `StartExchange`, `ExchangeOk`, `ExchangeFails` |
| on the hub: `install_oauth_token` | `AskInstall`, `TryToken`, `TokenWorks`, `TokenRefused` |
| on the hub: device flow, logout, expiry, restart | `PortalLogin`, `PortalLogout`, `ApiTokenExpires`, `HubRestarts` |

`HubHealth` sees a hub as the one token it runs on; `TokenCache` is what `InstallToken` is at the other end.
A token is the number of the login it comes from, so "newer" is not compared, only "the same".

## 3. Runs

| Run | Question | Bounds |
|---|---|---|
| `emitter` | type, `OneCopy`, `LostCountsEventsOnce`, `RecoveredExact`, `ParkedHasDrainer`, and refinement of `UsageLedger` | 3 records, 2 attempts, queue of 2, 1 pending task |
| `emitter_live` | every record settles (`EveryRecordSettles`), shutdown ends (`ShutdownCompletes`) | 2 records, 2 attempts, queue of 1 |
| `emitter_shutdown` | a statement of the source, refuted (section 6) | 2 records |
| `import` | `NothingLeftBehind`, `WatermarkOnLandedBlob`, `ImportCatchesUp` | 2 replicas, 3 blobs sharing an event, clock of 3, cap of 2 blobs, 1 fault |
| `import_loop` | a statement of the source, refuted | as `import` |
| `accounts` | `PooledHubLives`, `ReadyIsPooledUnlessBumped` | 2 accounts, 2 providers, 2 tasks, 1 poll at a time, no crash |
| `accounts_settle` | `GoneIsClean`, and statuses settle (`StatusSettles`) | 1 account, 2 providers, 2 tasks, 2 polls at a time, 1 crash |
| `accounts_stranded` | a statement of the source, refuted | 1 account, 1 provider |
| `keys` | no update of the named value is lost and each is one caller's (`NoLostUpdate`, `OneChangeAtATime`); limits, subscriptions, secrets, flags follow the rows (`LimitsFollowRow`, `ServedHasRow`, `RevokedIsClean`, `AuditAgreesUnlessRaced`); `SuspendedIsOff`, `BlockEnforced` | 2 requests, 3 handlers in all, 3 keys of 2 tenants, room for 2 entries, 1 budget, 1 failing call |
| `keys_audit` | a statement of the source, refuted | as `keys`, no failing call |
| `reports` | `OneDocumentPerCall`, `TenantIsolation`, `HeadlineIsWhole`, `TrendCoversRecent`, `PagerMissesNothing`, `PagerOffersNoEmptyPage`, `TelemetryAddsUp` | 4 calls and a retired document, 3 keys of 2 tenants, a clock of two instants, hours of 2 ticks, days of 2 hours, months of 5 ticks, windows and page sizes below, at and above their caps |
| `admin` | `AdminRemains`, `RegistrationComplete`, `HealthIsAnAnswer`, `VaultFollowsHub`, `ServesNewestLogin` | 2 handlers at a time, 4 in all; 2 usernames, 1 tenant; 2 models; 2 accounts, 3 answers; 2 requests and 3 logins of a hub |

Why the bounds are enough. *Emitter*: three records fill a queue of two and evict, while one is in a drain pass
or in the SDK's hands; two attempts are enough to be parked, resent, handed back, parked again and given up.
Records differ by name only, hence the symmetry; liveness runs use none. *Import*: two replicas are needed for
one to overwrite the other's watermark, three blobs for one more than the cap, a clock of three for a blob to
leave the overlap window. *Accounts*: two accounts are needed for one to change a pool under the other's read,
two providers for a teardown to stop half-way, two tasks for an overlap. A crash is only in the run of one account:
to the pools it is a task that fails where it is, which `accounts` has at every call, and the proofs allow any number.
*Keys*: two requests for one to write
under the other's read, three handlers for issue, suspend and revoke of one key, three keys for one too many for
the named value, two tenants for a toggle that must not touch the other's keys, and a key without limits of its
own. *Reports*: the ticks are as coarse as they can be while an hour, a day and a month still differ; the calls
are one stamped with an offset, one that upstream refused, one with a malformed timestamp and one that never
reached a hub; one tenant has no key at first, and every cap (rows, groups, page, window) can be hit. One tenant has
two keys, for a page made with a key that is gone by the next one; the clock's two instants lie in one month, so
that the malformed event, imported again, replaces its document instead of adding one.
*Admin*: two handlers for each race, four for a second admin to be made and two of them to remove each other;
three answers for two passes that overlap; three logins for one on trial, one crossing it and one more. Its parts touch
no common row, so that `MCAdministration` keeps a behaviour to one of them. `MaxPolls`, `MaxFaults`, `MaxTime`,
`MaxStarts`, `MaxAnswers`, `MaxLogins` bound counters that have no bound in the code; accounts, providers, job
and request slots are interchangeable.

Deadlock checking is off because each system may really stop: all records are handled, the clock is at its
bound and every loop has died, every account is gone, all handlers that the bound admits have ended.

Each property has a mutant: a definition changed the way a plausible bug would change the code (an unconditional PUT, a
queue not cleared after the snapshot, an attempt count that does not ride the event, a token stored before the hub
has proved it), kept beside the original and not used by it. With the mutant in place the run finds the property
violated.

## 4. Fairness and exceptions

* `UsageEmitter!FairSpec`: the event loop runs ready tasks; every `send_event` has `timeout=`; the SDK settles
  what it accepted one way or the other, its flush runs every `max_wait_time`; `aclose` limits its pass with
  `wait_for`. No assumption is made on which way a hand-off goes. The only one on an outcome is that a
  construction `_maybe_reinit` retries for ever succeeds in the end; requests, shutdown and kills are not fair.
* `UsageImport!FairSpec`: the thread of a pass runs on and the timer of a live loop fires again. Faults are
  bounded, so in the end passes succeed; publishing, the clock, faults and restarts are not fair.
* `HubAccounts!FairSpec`: a background task goes on, because each of its HTTP calls has a timeout and
  `_poll_run` has a deadline. Which outcome a call has is open; requests are not fair.
* Keys, reports and administration state safety only: what must follow in the end there is what one handler does
  by itself, and a handler that is cut off is not resumed by anything.

Exceptions the properties state openly, each of which TLC shows to be needed:

* `StatusSettles` does not cover a crash or an uncaught exception (`faults`), since nothing resumes a background
  task; `ImportCatchesUp` does not cover an overlap window that by itself fills the cap of a pass (`Jammed`), nor
  all loops dead; `NothingLeftBehind` rests on `ImportAssumption`: a blob becomes visible with a lag shorter than
  `_OVERLAP`.
* `PooledHubLives`, `GoneIsClean` and `ReadyIsPooledUnlessBumped` except an account whose deployment and teardown
  overlapped, runs that nobody waits for included (`mixed`), the last one also an account thrown out by another's creation of a pool (`bumped`),
  which the unconditional first PUT of `_pool_add_service` allows.
* `NoLostUpdate` needs `EtagVisible`: the SDK's contract of a named value may carry no ETag
  (`getattr(..., None)`, `apim_provisioner.py:872`), and then the PUT is unconditional; and `provisioned`: the
  first write to a named value that does not exist is unconditional as well. `overwritten` marks such a write.
* `lapsed`: keys a call or a commit for which failed, where the handlers log and go on. `contested`: tenants whose
  audit decision was raced by an issuance or by another toggle (`keys_audit` shows that case).
* `AdminRemains` excepts `stale`: a commit with the token of someone who is no longer an enabled admin.
* `BlockEnforced` excepts `later`: a charge suspends the keys it finds when it starts, so that one issued meanwhile
  stays on until the next charge, and of two charges that overlap the one that commits last decides what was found.
* `PagerMissesNothing` is about a reader whose tenant still has, at the last page, every key any page was made with
  (`met`): documents of a deleted key leave the list, and the offset of the next page skips as many others.
* `RegistrationComplete` is about names nobody removed since the registration read the routes (`missed`).
* `HealthIsAnAnswer` excepts `skewed`: a pass that commits over another pass's answer, column by column.
* `VaultFollowsHub` excepts `apart`: the hub's answer was lost, Key Vault failed, or two re-logins of one account
  were between hub and Key Vault at once.
* `ServesNewestLogin` excepts `crossed`: the hub's own device flow or logout while the lock was held.

## 5. Proofs

Each theorem rests on the `ASSUME`s of its module alone, which say what the constants are and which the runs
evaluate. Each invariant named below is what its property needs to become inductive.

`UsageEmitter_proofs` proves, from `EmitterAssumption` alone (finitely many records, limits that are natural
numbers):

* `TypeCorrect == Spec => []TypeOK`. `TypeOK` is inductive. It contains `attempts \in [Events -> 0..MaxAttempts]`:
  no path re-sends an event more often than configured.
* `OneCopyAlways == Spec => []OneCopy`. `OneCopy` is not inductive by itself: a record that is handed over must
  not be in the emitter yet, and only parked events ripen. The invariant is `PlaceInv`: every two places of a
  record are disjoint, acknowledged and given-up records included (`Exclusive`), whatever is in a place was
  accepted (`Owned`), and `ripe \subseteq retryQ`. `FailAndParkPlaces` says what `_requeue` does to the places;
  `PlaceNext` has one step per action.
* `LostIsExact == Spec => []LostCountsEventsOnce`. From `PlaceInv`, every step writes off nothing or records that
  were not written off before (`StepWritesOff`), so the counter moves by exactly their number
  (`WriteOffCounts`, with the cardinality facts of the library).
* `ParkedEventsAreDrained == Spec => []ParkedHasDrainer`, which is inductive: every step starts the drain task, or adds
  nothing to the queue or the pass while the task lives on, or ends the serving (`KeepsDrainer`).
* `RecoveriesAreCounted == Spec => []RecoveredExact`. `_on_success` looks at the attempts of a batch only when
  `_retried` is not zero; `RetryInv` says why that misses nothing: a record with a failed hand-off behind it reaches the
  SDK only through a drain pass that has counted a retry, and one still with its emit task has none behind it.
* `EmitterImplementsLedger == Spec => LedgerSpec`. Under the mapping of `UsageEmitter`, every step is one of
  `Accept`, `Refuse`, `Settle`, `Ignore`, `WriteOff`, `Stop`, or a stutter. It needs `PlaceInv`, and that only an
  unconfigured hub is disabled for good (`OnlyUnconfiguredIsDisabled`), since `emit` then drops without counting.

`UsageImport_proofs` proves, for any replicas, blobs and events:

* `ImportTypes == Spec => []TypeOK`, `ImportLeavesNothingBehind == Spec => []NothingLeftBehind` and
  `WatermarkIsALandedBlob == Spec => []WatermarkOnLandedBlob`. `ImportInv` says of each replica's pass what the others may
  not break: nothing unimported is too far below its own `high_water` (`Safe`), its list is cut off so that whatever is
  not on it is imported or newer (`Ordered`), and what it has written is stored. The last write of the mark wins, yet
  each mark that can be written is safe; `StaysAhead` is where `Lag < Overlap` is used.

`HubAccounts_proofs` proves, for any accounts, providers and tasks:

* `AccountTypes == Spec => []TypeOK`, `PoolsNameLiveHubs == Spec => []PooledHubLives`,
  `GoneRowsAreClean == Spec => []GoneIsClean`, `ReadyAccountsArePooled == Spec => []ReadyIsPooledUnlessBumped`.
  `AccountsInv` has a part for each live task (`DeployOK`, `TeardownOK`: what it has done by the step it is at, and that
  a pool about to be detached or dropped was read with this one member) and one for each account (`AccountOK`: while it
  is torn down nothing builds it up, late runs included, and a destroy run left behind hits an account in no pool).

`KeyLimits_proofs` proves for the loops alone, any number of requests, any keys and any capacity:

* `LoopsLoseNoUpdate == LimitsSpec => []NoLostUpdate` and `LoopsImplementMap == LimitsSpec => OneChangeAtATime`.
  The invariant is `LimitsInv`: an ETag that is still current goes with the map as it stands, and where the named
  value has always existed no write goes out without an ETag.

`KeyService_proofs` carries that to the handlers and adds what they keep:

* `TypesHold`, `NoUpdateIsLost`, `HandlersImplementMap`: the type invariant with the shape of what each handler
  carries (`Inv`), and the two facts above when the loops are entered and left by issuance, revocation and
  toggles.
* `SuspendedStaysOff == Spec => []SuspendedIsOff` and `ServedKeysHaveRows == Spec => []ServedHasRow`. Neither is
  inductive: `KeyInv` adds that a key being issued has no row yet and one request that issues it, that what is
  about to be recorded as suspended is off and stays off, and that what loses its row is off or has failed.

`KeyRows_proofs` proves where limits, secrets and flags stand, for any keys, tenants and requests:

* `RowsHaveTheirLimits == Spec => []LimitsFollowRow`, `RevokedKeysAreClean == Spec => []RevokedIsClean` and
  `AuditFollowsTenant == Spec => []AuditAgreesUnlessRaced`. `RowsInv` has three parts: `GoalsInv`, what the loop of each
  handler was entered for; `DecisionsInv`, which audit decisions can be at work together for a tenant nobody contested,
  and what setting an issuance goes by; `PlacesInv`, where limits, secret and flag of a key stand at each step of
  the handler that works on it and once its row says it is issued or gone.
* `BlockedBudgetsStayBlocked == Spec => []BlockEnforced`, from `ChargesInv`: a charge suspends whatever was active among
  the rows it found. A first statement, which took a key as found once any charge had looked at it, could not be proved,
  and is false with more requests than the run has: sums are lost updates, so a charge that stays below the limit may look
  at a new key, and an older one, which started before the key was issued, then commits a sum at the limit. `later` now
  goes by the charge that committed last.

`Administration_proofs` proves, for any users, accounts, requests and bounds:

* `AnAdminRemains == Spec => []AdminRemains`. The invariant is `UsersInv`: ids are drawn once and belong to one
  name, what a handler loaded agrees with the row's name and id as long as the row lives, a row about to be
  inserted is not in the table, and the actor's own row is never the one it demotes, disables or deletes. A commit
  made for a governing admin then leaves that admin's row alone. `Elsewhere` is a step of the other parts.
* `VaultHoldsHubToken == Spec => []VaultFollowsHub`. `VaultInv`: of an account that has not come apart at most one
  re-login is between hub and Key Vault, and it carries the token the hub runs on. `Quiet` covers the steps that
  neither open nor close that gap, `GapMove` the ones that do.
* `HubServesNewestLogin == Spec => []ServesNewestLogin`. `TokenInv`: the lock has one holder, which is the one
  request that waits for GitHub; unless crossed, an exchange is for the newest login, and an installation keeps aside
  exactly what belongs to it.
* `RegistrationsAreComplete == Spec => []RegistrationComplete`. `CatalogInv`: one row per id and per pooled name, no two
  handlers insert under one number, and a pooled name that a registration has read is still that of the row it read or
  is in `missed` (`TrackedOK`).
* `HealthStaysAnAnswer == Spec => []HealthIsAnAnswer`. `HealthInv`: what a pass carries of a row is what it loaded or a later
  answer, and a time stands for one answer, so that writing only the columns that differ keeps the pair whole.
* `AdministrationTypes == Spec => []TypeOK`, from `TypesInv`.

`UsageReports_proofs` proves, for any calls, keys, tenants, caps, windows and page sizes:

* `CallsHaveOneDocument == Spec => []OneDocumentPerCall`, from `DocsInv`: every document is one the importer or the retired
  policy makes (`Origin`), one for each id and partition.
* `PagesAreNotEmpty == Spec => []PagerOffersNoEmptyPage`, from `CountsInv`: the page was cut from a list that has only
  grown since. `PositionsFill` and `SliceLength` say what `Slice` returns.
* `PagesMissNothing == Spec => []PagerMissesNothing`. `PagerInv`: whatever stands before the end of the pages so far has
  been shown (`ShownInv`), because an import only pushes documents down (`ImportStep`, `ScopedGrows`), what it replaces is a
  malformed document of the same call (`SeenInv`), and keys come and go only as `KeysMetInv` says. The proof asked for
  `met`: with the keys of the first page alone the property is false for a tenant that is issued a key after the first
  page and loses it before the last, since the documents of that key leave the list above the next offset.
* `TenantsAreIsolated == Spec => []TenantIsolation`. The keys of a tenant's report are the tenant's at every stage
  (`AskedInv`, `SummaryInv`, `OwnLogInv`), `Scoped` lets no other document through, not even for a tenant without
  keys (`RowsAreOwn`), and what was counted of a tenant's documents stays below what the tenant has by the time the
  answer is read, since an import takes no call, no money and no name of a group away (`WorldGrows`).
* `HeadlinesAreWhole == Spec => []HeadlineIsWhole` and `TrendsCoverRecent == Spec => []TrendCoversRecent`, from
  `BreakdownInv`: groups and buckets hold no more calls than the rows they were made of (`GroupsCount`, `TrendCount`),
  the rows never get fewer from one query to the next (`RowsGrow`), and as long as nothing is imported they are the
  rows of the headline too. `SlotCovers` is the arithmetic of the buckets: whatever is newer than the window less one
  bucket starts in one of them, for any hours, any length of an hour and any present. It needs that no document is
  of the future (`PastInv`).
* `TelemetryReconciles == Spec => []TelemetryAddsUp`. `TelemetryInv` says of both tables how many requests they were made
  of, rejected ones and others, and when; grouping counts each once (`ApiTableCounts`, `CodeTableCounts`).
* `ReportTypes == Spec => []TypeOK`, from all of these and `StagesInv`.

The sums of the reports are folds of the community modules, whose definition chooses a recursive function and does not
say that there is one. Induction over finite sets is out of reach here, since the library states it for an operator
parameter, but the proper subsets of a finite set are well-founded, which is stated for sets: a set for which a claim
fails has a smallest subset for which it fails (`SubsetInduction`, `ElementInduction`). From that, `SumsExist` and
`SumRecursion` give a sum its recursion, `SumTakes` and `SumOfPart` the rest of it, and `SumOfGroups` that the sizes of
disjoint groups add up to the size of what was grouped, which is what the reports come down to.

Only model-checked: what is temporal beyond safety (`EveryRecordSettles`, `ShutdownCompletes`, `ImportCatchesUp`,
`StatusSettles`), since liveness under fairness and `ENABLED` are out of the prover's reach. Each inductive invariant of
`UsageReports_proofs` holds in every state of the `reports` run as well.

## 6. Where the code and its documentation disagree

| Run | Statement | What the code does |
|---|---|---|
| `emitter_shutdown` | `hub/eventhub.py:43`: `aclose()` counts whatever is still queued rather than letting it vanish silently | the items of a cancelled drain pass are in a local list: neither sent, nor queued, nor counted |
| `import_loop` | `usage_capture_import.py:292` and `main.py:117`: `run_once` never raises | `_read_watermark` is outside the `try`; a database error ends the replica's import loop |
| `accounts_stranded` | `github_accounts.py:633`: when the row is deleted there is nothing left to strand | an account can be deleted while it is deploying: the destroy run passes before the apply run creates the hub |
| `keys_audit` | `tenants.py:100-103`: gateway and database never disagree quietly about auditing | a key issued while the toggle runs has no row to be toggled and takes the setting `create_key` read before it |

Met while modelling, and stated here without a run of their own:

* `hub/eventhub.py:513` says that without `_maybe_reinit` a hiccup at first use would disable billing for the life of the
  container; `_maybe_reinit` runs in a drain task with a parked event, and a failure at first use parks nothing.
* `usage_capture_import.py:20-22` says a repeated import is a no-op. A document is priced with the markups of the
  pass that writes it (`{}` when their read failed, line 302), and an event with a malformed timestamp is dated anew.
* `usage.py:336` says `hours` omitted is the lifetime total; the query behind it returns the newest 1000 documents
  of the keys that still have a row.
* `usage_ingest.py:540` rounds up so that the oldest bucket is not clipped off; the buckets end with the present
  hour or day, so the oldest one covers the window only in part (`TrendCoversRecent` says what does hold).
* `usage_ingest.py:690` says a status that does not parse counts as a failure; the KQL of the totals does not count it.
* `users.py:4-5` says guards prevent locking the platform out. Tokens of demoted or deleted admins go on working,
  and two admins can delete each other with them: no admin is left, unless a replica that starts seeds the configured one.
* `main.py:150-151` calls concurrent poller passes an idempotent overwrite. A commit writes only the columns that
  changed since its own read, so two passes can leave the answer of one with the time of the other (`skewed`).
* `hub_status_poller.py:52-55` says a failure is a fact about one hub and the pass continues; a row deleted during the pass
  fails the one commit, and with it what the pass has learnt of all hubs.
* `github_accounts.py:222-225` says of an `IntegrityError` that the row exists, "which is all we wanted"; the roll-back
  also undoes every other new route, backfill and prune of that registration.
* `github_accounts.py:213-214` says the prune never touches what an operator added; a platform route entered
  through `POST /routes` is pruned like the others.
* `hub/server.py:1309` says a hub keeps whatever it had when a token is refused: what is put back is what it had when
  the trial began, over a login the hub's own device flow has taken meanwhile (`crossed`).

## 7. Not modelled

* Request and stream translation of a hub, its API keys and settings (single SQLite statements), the audit archive
  (planned), deployment configuration, schema, terraform, scripts and portal: they keep no state that several
  actors change, or change what is outside the program.
* Emitter and import: log throttling, `/api/status`, Avro decoding, an event one of whose numbers `int()` refuses.
  `_on_error` with no list of events (`hub/eventhub.py:305-313`: one failed send, nothing lost) is left out, because the
  SDK hands back the batch it was given; so is the branch of a drain pass that gives everything up without a producer,
  which no path reaches. The minute between two constructions by `_maybe_reinit` has no length.
* Reports: the order of documents with equal timestamps is fixed, totals are not rounded to four decimals, the TTL of
  documents is left out. `compute_cost`, `query_tenant`, `query_all` and the `token_usage_*` queries have no caller.
  Reading the tenant's keys and fixing the start of the window are one step, of a breakdown and of a page: a tick or an
  import between the two is one before both, a change of keys is one after both. `Dimensions` leaves out `api`, `endpoint`
  and `end_user`, which group by a field of their own as `backend` does.
* Keys: changes of names, mode and cost centre; `EtagVisible = FALSE` is covered by the proofs and by no run. A named
  value that is not JSON reads as the empty map with its ETag (`apim_provisioner.py:868-873`), and the next write replaces
  it: every value the program writes comes from `json.dumps`, so only an edit in the Azure portal leads there. For a
  budget's suspensions the GET and the PUT of `set_subscription_state` are one step (`BlockKey`).
* Hub tokens: `install_oauth_token` rolls back on `Exception` only (`hub/copilot_client.py:222`), and a cancelled exchange
  would keep the token on trial. Nothing cancels it while the process lives: no middleware and no `wait_for` is around
  the handler, and a client that hangs up does not cancel it; a shutdown is `HubRestarts`.
* Users: password change and reset. Health: the hub's counters, written with its login state in the same commit.
* Accounts: the per-account backend, and the order of providers.

## 8. Plan

1. *Done:* `UsageLedger`, `UsageEmitter`, `UsageImport`, `UsageDocuments`, `UsageReports`, `HubAccounts`, `LimitsMap`,
   `KeyLimits`, `KeyService`, `Users`, `HubCatalog`, `HubHealth`, `TokenCache`, `Administration`; proofs of all their safety
   properties.
2. `AuditArchive`: in-flight uploads, their bound and the shutdown drain.
3. Composition: emitter, Event Hub, Capture and importer, so that a settled record is imported once.
4. Proofs: that bills of hours and days add up in money and tokens as they do in calls, with `SumOfGroups` stated for
   sums in place of sizes.
