----------------------------- MODULE KeyService -----------------------------
(***************************************************************************)
(* Virtual keys, projects, tenants and budgets of the control plane        *)
(* (app/api/keys.py, tenants.py, budgets.py, budget_enforcer.py), and what *)
(* their handlers do at the gateway and in Key Vault.                      *)
(*                                                                         *)
(* A request is one handler at work; it stops between any two calls to     *)
(* APIM, Key Vault or the database, and other requests run meanwhile.      *)
(* A call may fail (at most MaxFaults of them do), and a write that fails  *)
(* may have been carried out.                                              *)
(***************************************************************************)
EXTENDS KeyLimits

CONSTANTS
    Tenants, Projects, Budgets,
    Founded,        \* tenants that exist at the start, with their projects
    TenantOf,       \* [Projects -> Tenants], as asked for at creation
    ProjectOf,      \* [Keys -> Projects]
    Limited,        \* the keys asked for with limits of their own
    Scope,          \* [Budgets -> SUBSET Keys]: the keys a budget covers
    Blocking,       \* the budgets whose action is "block"
    Limit,          \* limit_usd, in charges
    Nil,
    MaxStarts,      \* bound: handlers entered
    MaxFaults       \* bound: calls that fail

ASSUME KeyServiceAssumption ==
    /\ Founded \subseteq Tenants
    /\ TenantOf \in [Projects -> Tenants]
    /\ ProjectOf \in [Keys -> Projects]
    /\ Limited \subseteq Keys
    /\ Scope \in [Budgets -> SUBSET Keys]
    /\ Blocking \subseteq Budgets
    /\ {Limit, MaxStarts, MaxFaults} \subseteq Nat

VARIABLES
    tenant,      \* rows of tenants: whether live, has a product, audit_enabled
    project,     \* rows of projects: "none", "live" or "gone"
    row,         \* rows of virtual_keys; "drawn" while the id has no row yet
    spent,       \* spent_usd of the rows of budgets
    sub,         \* the gateway's subscriptions: "none", "active", "suspended"
    secret,      \* keys with a secret in Key Vault
    req,         \* the handler each request is in
    starts, faults,
    lapsed,      \* history: keys a call or a commit for which did not succeed
    contested,   \* history: tenants whose audit decision was raced
    later        \* history: keys the last charge of their budget did not look at

dbVars == <<tenant, project, row, spent>>
history == <<lapsed, contested, later>>
vars == <<limitsVars, dbVars, sub, secret, req, starts, faults, history>>

Handler(at, k, x, on) == [at |-> at, key |-> k, of |-> x, on |-> on,
                          sum |-> 0, cut |-> {}, todo |-> {}, saw |-> {}]
Free == Handler("free", Nil, Nil, FALSE)

HasRow(k) == row[k] \in {"active", "suspended"}
KeysOf(t) == {k \in Keys : TenantOf[ProjectOf[k]] = t}
RowsIn(ks) == {k \in ks : HasRow(k)}

Issuing(q) == req[q].at \in {"subscribe", "vault", "limits", "flag", "undo"}
\* Requests that decide on the audit flags of tenant t's keys.
Deciding(t) == {q \in Requests : \/ req[q].at = "toggle" /\ req[q].of = t
                                 \/ Issuing(q) /\ req[q].key \in KeysOf(t)}

KeyInit ==
    /\ LimitsInit
    /\ tenant \in [Tenants -> [live : {TRUE}, product : {TRUE}, audit : BOOLEAN]
                              \cup [live : {FALSE}, product : {FALSE}, audit : {FALSE}]]
    /\ \A t \in Tenants : tenant[t].live <=> t \in Founded
    /\ project = [p \in Projects |-> IF TenantOf[p] \in Founded THEN "live" ELSE "none"]
    /\ row = [k \in Keys |-> "unused"]
    /\ spent = [b \in Budgets |-> 0]
    /\ sub = [k \in Keys |-> "none"]
    /\ secret = {}
    /\ req = [r \in Requests |-> Free]
    /\ starts = 0 /\ faults = 0
    /\ lapsed = {} /\ contested = {}
    /\ later = Scope

-----------------------------------------------------------------------------
\* How handlers begin, go on and end.
Enter(r, h) == /\ req[r].at = "free"
               /\ starts < MaxStarts
               /\ starts' = starts + 1
               /\ req' = [req EXCEPT ![r] = h]
Goto(r, at) == /\ req' = [req EXCEPT ![r].at = at]
               /\ UNCHANGED starts
End(r) == /\ req' = [req EXCEPT ![r] = Free]
          /\ UNCHANGED starts
Works == UNCHANGED <<faults, lapsed>>
Fails(ks) == /\ faults < MaxFaults
             /\ faults' = faults + 1
             /\ lapsed' = lapsed \cup ks

\* The limits loop of r is entered, is over, or is left alone.
LoopVars == <<named, lim, aud, provisioned, overwritten>>
EnterLoop(r, kind, ks, on) ==
    /\ call' = [call EXCEPT ![r] = Began([kind |-> kind, keys |-> ks, on |-> on])]
    /\ UNCHANGED LoopVars
LeaveLoop(r, outcomes) ==
    /\ call[r].step \in outcomes
    /\ call' = [call EXCEPT ![r] = Idle]
    /\ UNCHANGED LoopVars
NoLoop == UNCHANGED limitsVars

LimitsLoop(r) ==
    /\ \/ ReadLimits(r) /\ Works
       \/ WriteLimits(r) /\ Works
       \/ WriteRefused(r) /\ Works
       \/ WriteAnswerLost(r) /\ Fails(call[r].goal.keys)
       \/ LimitsCallFails(r) /\ Fails(call[r].goal.keys)
    /\ UNCHANGED <<dbVars, sub, secret, req, starts, contested, later>>

-----------------------------------------------------------------------------
\* POST /keys: gateway, Key Vault, limits, audit flag, and the row at last.
CreateKey(r, k) ==
    LET t == TenantOf[ProjectOf[k]]
    IN /\ row[k] = "unused"
       /\ project[ProjectOf[k]] = "live"
       /\ tenant[t].live /\ tenant[t].product
       /\ Enter(r, Handler("subscribe", k, Nil, tenant[t].audit))
       /\ row' = [row EXCEPT ![k] = "drawn"]
       /\ contested' = IF \E q \in Deciding(t) : req[q].at = "toggle"
                       THEN contested \cup {t} ELSE contested
       /\ Works /\ NoLoop
       /\ UNCHANGED <<tenant, project, spent, sub, secret, later>>

Subscribe(r) ==
    /\ req[r].at = "subscribe"
    /\ sub' = [sub EXCEPT ![req[r].key] = "active"]
    /\ Goto(r, "vault")
    /\ Works /\ NoLoop
    /\ UNCHANGED <<dbVars, secret, contested, later>>

StoreSecret(r) ==
    LET k == req[r].key
    IN /\ req[r].at = "vault"
       /\ secret' = secret \cup {k}
       /\ Goto(r, "limits")
       /\ EnterLoop(r, "limits", {k}, k \in Limited)
       /\ Works
       /\ UNCHANGED <<dbVars, sub, contested, later>>

\* Neither of the two calls is inside the try block: nothing is rolled back.
IssueFails(r) ==
    LET k == req[r].key
    IN /\ \/ /\ req[r].at = "subscribe"
             /\ sub' \in {sub, [sub EXCEPT ![k] = "active"]}
             /\ UNCHANGED secret
          \/ /\ req[r].at = "vault"
             /\ secret' \in {secret, secret \cup {k}}
             /\ UNCHANGED sub
       /\ row' = [row EXCEPT ![k] = "gone"]
       /\ End(r)
       /\ Fails({k}) /\ NoLoop
       /\ UNCHANGED <<tenant, project, spent, contested, later>>

\* The tenant's audit decision as it was when the handler began.
FlagNewKey(r) ==
    /\ req[r].at = "limits" /\ req[r].on
    /\ call[r].step = "done"
    /\ EnterLoop(r, "audit", {req[r].key}, TRUE)
    /\ Goto(r, "flag")
    /\ Works
    /\ UNCHANGED <<dbVars, sub, secret, contested, later>>

(* Mutant of InsertRow: limits that were refused are only logged. *)
InsertRowAnyway(r) ==
    LET k == req[r].key
        p == ProjectOf[k]
    IN /\ \/ req[r].at = "limits" /\ ~req[r].on
          \/ req[r].at = "flag"
       /\ LeaveLoop(r, {"done", "failed"})
       /\ End(r)
       /\ \/ /\ project[p] = "live"
             /\ row' = [row EXCEPT ![k] = "active"]
             /\ Works
          \/ /\ project[p] # "live"
             /\ row' = [row EXCEPT ![k] = "gone"]
             /\ lapsed' = lapsed \cup {k}
             /\ UNCHANGED faults
          \/ row' = [row EXCEPT ![k] = "gone"] /\ Fails({k})
       /\ UNCHANGED <<tenant, project, spent, sub, secret, contested, later>>
\* The row is refused when its project is gone, or by a failing database.
InsertRow(r) ==
    LET k == req[r].key
        p == ProjectOf[k]
    IN /\ \/ req[r].at = "limits" /\ ~req[r].on
          \/ req[r].at = "flag"
       /\ LeaveLoop(r, {"done"})
       /\ End(r)
       /\ \/ /\ project[p] = "live"
             /\ row' = [row EXCEPT ![k] = "active"]
             /\ Works
          \/ /\ project[p] # "live"
             /\ row' = [row EXCEPT ![k] = "gone"]
             /\ lapsed' = lapsed \cup {k}
             /\ UNCHANGED faults
          \/ row' = [row EXCEPT ![k] = "gone"] /\ Fails({k})
       /\ UNCHANGED <<tenant, project, spent, sub, secret, contested, later>>

\* The best-effort roll-back; it leaves the map as the failure left it.
UndoSubscription(r) ==
    LET k == req[r].key
    IN /\ req[r].at \in {"limits", "flag"}
       /\ LeaveLoop(r, {"failed"})
       /\ Goto(r, "undo")
       /\ \/ /\ sub' = [sub EXCEPT ![k] = "none"]
             /\ lapsed' = lapsed \cup {k}
             /\ UNCHANGED faults
          \/ sub' = sub /\ Fails({k})
       /\ UNCHANGED <<dbVars, secret, contested, later>>

UndoSecret(r) ==
    LET k == req[r].key
    IN /\ req[r].at = "undo"
       /\ \/ secret' = secret \ {k} /\ Works
          \/ secret' = secret /\ Fails({k})
       /\ row' = [row EXCEPT ![k] = "gone"]
       /\ End(r)
       /\ NoLoop
       /\ UNCHANGED <<tenant, project, spent, sub, contested, later>>

-----------------------------------------------------------------------------
\* POST /keys/{id}/suspend: the gateway first, then the row.
SuspendKey(r, k) ==
    /\ HasRow(k)
    /\ Enter(r, Handler("get", k, Nil, FALSE))
    /\ Works /\ NoLoop
    /\ UNCHANGED <<dbVars, sub, secret, contested, later>>

\* set_subscription_state reads the scope first; a missing subscription is
\* only logged.
GetSubscription(r) ==
    /\ req[r].at = "get"
    /\ Goto(r, IF sub[req[r].key] = "none" THEN "mark" ELSE "put")
    /\ Works /\ NoLoop
    /\ UNCHANGED <<dbVars, sub, secret, contested, later>>

\* A subscription deleted since the read may be put back, suspended.
PutState(r) ==
    /\ req[r].at = "put"
    /\ sub' = [sub EXCEPT ![req[r].key] = "suspended"]
    /\ Goto(r, "mark")
    /\ Works /\ NoLoop
    /\ UNCHANGED <<dbVars, secret, contested, later>>

(* Mutant of PutStateFails: the failure is only logged. *)
PutStateFailsLogged(r) ==
    LET k == req[r].key
    IN /\ req[r].at \in {"get", "put"}
       /\ \/ sub' = sub /\ Fails({k})
          \/ /\ req[r].at = "put"
             /\ sub' = [sub EXCEPT ![k] = "suspended"]
             /\ Fails({k})
          \/ req[r].at = "put" /\ sub[k] = "none" /\ sub' = sub /\ Works
       /\ Goto(r, "mark")
       /\ NoLoop
       /\ UNCHANGED <<dbVars, secret, contested, later>>
PutStateFails(r) ==
    LET k == req[r].key
    IN /\ req[r].at \in {"get", "put"}
       /\ \/ sub' = sub /\ Fails({k})
          \/ /\ req[r].at = "put"
             /\ sub' = [sub EXCEPT ![k] = "suspended"]
             /\ Fails({k})
          \/ req[r].at = "put" /\ sub[k] = "none" /\ sub' = sub /\ Works
       /\ End(r)
       /\ NoLoop
       /\ UNCHANGED <<dbVars, secret, contested, later>>

\* The commit finds no row when the key was deleted meanwhile.
MarkSuspended(r) ==
    LET k == req[r].key
    IN /\ req[r].at = "mark"
       /\ \/ /\ row' = IF HasRow(k) THEN [row EXCEPT ![k] = "suspended"] ELSE row
             /\ Works
          \/ row' = row /\ Fails({k})
       /\ End(r)
       /\ NoLoop
       /\ UNCHANGED <<tenant, project, spent, sub, secret, contested, later>>

-----------------------------------------------------------------------------
\* DELETE /keys/{id}: each clean-up is best-effort, the row goes in any case.
DeleteKey(r, k) ==
    /\ HasRow(k)
    /\ Enter(r, Handler("drop", k, Nil, FALSE))
    /\ Works /\ NoLoop
    /\ UNCHANGED <<dbVars, sub, secret, contested, later>>

(* Mutant of DropSubscription: the subscription is not deleted. *)
KeepSubscription(r) ==
    LET k == req[r].key
    IN /\ req[r].at = "drop"
       /\ \/ sub' = sub /\ Works
          \/ sub' = sub /\ Fails({k})
       /\ EnterLoop(r, "remove", {k}, FALSE)
       /\ Goto(r, "unlimit")
       /\ UNCHANGED <<dbVars, secret, contested, later>>
DropSubscription(r) ==
    LET k == req[r].key
    IN /\ req[r].at = "drop"
       /\ \/ sub' = [sub EXCEPT ![k] = "none"] /\ Works
          \/ sub' = sub /\ Fails({k})
       /\ EnterLoop(r, "remove", {k}, FALSE)
       /\ Goto(r, "unlimit")
       /\ UNCHANGED <<dbVars, secret, contested, later>>

DropSecret(r) ==
    LET k == req[r].key
    IN /\ req[r].at = "unlimit"
       /\ LeaveLoop(r, {"done", "failed"})
       /\ \/ /\ secret' = secret \ {k}
             /\ lapsed' = IF call[r].step = "failed" THEN lapsed \cup {k} ELSE lapsed
             /\ UNCHANGED faults
          \/ secret' = secret /\ Fails({k})
       /\ Goto(r, "delete")
       /\ UNCHANGED <<dbVars, sub, contested, later>>

DropRow(r) ==
    LET k == req[r].key
    IN /\ req[r].at = "delete"
       /\ \/ row' = [row EXCEPT ![k] = "gone"] /\ Works
          \/ row' = row /\ Fails({k})
       /\ End(r)
       /\ NoLoop
       /\ UNCHANGED <<tenant, project, spent, sub, secret, contested, later>>

-----------------------------------------------------------------------------
(* Mutant of ToggleAudit: suspended keys are passed over. *)
ToggleActiveOnly(r, t, on) ==
    /\ tenant[t].live /\ tenant[t].audit # on
    /\ Enter(r, Handler("toggle", Nil, t, on))
    /\ EnterLoop(r, "audit", {k \in KeysOf(t) : row[k] = "active"}, on)
    /\ contested' = IF Deciding(t) # {} THEN contested \cup {t} ELSE contested
    /\ Works
    /\ UNCHANGED <<dbVars, sub, secret, later>>
\* PATCH /tenants/{id} with another audit_enabled: the keys that have a row
\* are flagged in one write, then the decision is recorded.
ToggleAudit(r, t, on) ==
    /\ tenant[t].live /\ tenant[t].audit # on
    /\ Enter(r, Handler("toggle", Nil, t, on))
    /\ EnterLoop(r, "audit", RowsIn(KeysOf(t)), on)
    /\ contested' = IF Deciding(t) # {} THEN contested \cup {t} ELSE contested
    /\ Works
    /\ UNCHANGED <<dbVars, sub, secret, later>>

RecordAudit(r) ==
    LET t == req[r].of
    IN /\ req[r].at = "toggle"
       /\ \/ /\ tenant' = IF tenant[t].live
                          THEN [tenant EXCEPT ![t].audit = req[r].on] ELSE tenant
             /\ Works
          \/ tenant' = tenant /\ Fails(call[r].goal.keys)
       /\ LeaveLoop(r, {"done"})
       /\ End(r)
       /\ UNCHANGED <<project, row, spent, sub, secret, contested, later>>

ToggleRefused(r) ==
    /\ req[r].at = "toggle"
    /\ LeaveLoop(r, {"failed"})
    /\ End(r)
    /\ Works
    /\ UNCHANGED <<dbVars, sub, secret, contested, later>>

\* POST /tenants tolerates a gateway that does not answer; ensure-product
\* makes up for it.
CreateTenant(t) ==
    /\ tenant[t] = [live |-> FALSE, product |-> FALSE, audit |-> FALSE]
    /\ \E bound \in BOOLEAN :
          tenant' = [tenant EXCEPT ![t] = [live |-> TRUE, product |-> bound, audit |-> FALSE]]
    /\ Works /\ NoLoop
    /\ UNCHANGED <<project, row, spent, sub, secret, req, starts, contested, later>>

EnsureTenantProduct(t) ==
    /\ tenant[t].live /\ ~tenant[t].product
    /\ tenant' = [tenant EXCEPT ![t].product = TRUE]
    /\ Works /\ NoLoop
    /\ UNCHANGED <<project, row, spent, sub, secret, req, starts, contested, later>>

CreateProject(p) ==
    /\ project[p] = "none" /\ tenant[TenantOf[p]].live
    /\ project' = [project EXCEPT ![p] = "live"]
    /\ Works /\ NoLoop
    /\ UNCHANGED <<tenant, row, spent, sub, secret, req, starts, contested, later>>

\* Deletes are refused while there are keys; the check and the cascade are
\* two steps, and a row inserted in between is taken along.
DeleteTenant(r, t) ==
    /\ tenant[t].live /\ RowsIn(KeysOf(t)) = {}
    /\ Enter(r, Handler("cascade", Nil, {p \in Projects : TenantOf[p] = t}, TRUE))
    /\ Works /\ NoLoop
    /\ UNCHANGED <<dbVars, sub, secret, contested, later>>

DeleteProject(r, p) ==
    /\ project[p] = "live" /\ RowsIn({k \in Keys : ProjectOf[k] = p}) = {}
    /\ Enter(r, Handler("cascade", Nil, {p}, FALSE))
    /\ Works /\ NoLoop
    /\ UNCHANGED <<dbVars, sub, secret, contested, later>>

\* Req.on says whether the tenant itself is deleted.  A deleted tenant keeps
\* its product here, so that its id is not used again.
Cascade(r) ==
    LET ps == req[r].of
        taken == RowsIn({k \in Keys : ProjectOf[k] \in ps})
    IN /\ req[r].at = "cascade"
       /\ project' = [p \in Projects |-> IF p \in ps THEN "gone" ELSE project[p]]
       /\ tenant' = [t \in Tenants |->
                       IF req[r].on /\ t \in {TenantOf[p] : p \in ps}
                       THEN [live |-> FALSE, product |-> TRUE, audit |-> FALSE]
                       ELSE tenant[t]]
       /\ row' = [k \in Keys |-> IF k \in taken THEN "gone" ELSE row[k]]
       /\ lapsed' = lapsed \cup taken
       /\ End(r)
       /\ NoLoop
       /\ UNCHANGED <<spent, sub, secret, faults, contested, later>>

-----------------------------------------------------------------------------
(* Mutant of AddSpend: the limit itself does not block yet. *)
AddSpendLate(r, b) ==
    LET sum == spent[b] + 1
        over == sum > Limit /\ b \in Blocking
        cut == IF over THEN {k \in Scope[b] : row[k] = "active"} ELSE {}
    IN /\ Enter(r, [Handler("block", Nil, b, FALSE) EXCEPT
                      !.sum = sum, !.cut = cut, !.todo = cut,
                      !.saw = RowsIn(Scope[b])])
       /\ Works /\ NoLoop
       /\ UNCHANGED <<dbVars, sub, secret, contested, later>>
\* BudgetEnforcer.add_spend, one charge.  Nothing in the repository calls it
\* yet; it is modelled as a request like the others.
AddSpend(r, b) ==
    LET sum == spent[b] + 1
        over == sum >= Limit /\ b \in Blocking
        cut == IF over THEN {k \in Scope[b] : row[k] = "active"} ELSE {}
    IN /\ Enter(r, [Handler("block", Nil, b, FALSE) EXCEPT
                      !.sum = sum, !.cut = cut, !.todo = cut,
                      !.saw = RowsIn(Scope[b])])
       /\ Works /\ NoLoop
       /\ UNCHANGED <<dbVars, sub, secret, contested, later>>

\* set_subscription_state for one key of the budget, its read and its PUT in
\* one step; any error ends the handler with nothing committed.
BlockKey(r) ==
    /\ req[r].at = "block"
    /\ \E k \in req[r].todo :
          LET off == IF sub[k] = "none" THEN sub ELSE [sub EXCEPT ![k] = "suspended"]
          IN \/ sub' = off /\ req' = [req EXCEPT ![r].todo = @ \ {k}] /\ Works
             \/ sub' \in {sub, off} /\ req' = [req EXCEPT ![r] = Free] /\ Fails({k})
    /\ NoLoop
    /\ UNCHANGED <<dbVars, secret, starts, contested, later>>

\* One commit for the sum and the rows: it is rolled back when one of the
\* rows is gone.
PostSpend(r) ==
    LET b == req[r].of
        cut == req[r].cut
    IN /\ req[r].at = "block" /\ req[r].todo = {}
       /\ \/ /\ RowsIn(cut) = cut
             /\ spent' = [spent EXCEPT ![b] = req[r].sum]
             /\ row' = [k \in Keys |-> IF k \in cut THEN "suspended" ELSE row[k]]
             /\ later' = [later EXCEPT ![b] = Scope[b] \ req[r].saw]
             /\ Works
          \/ /\ RowsIn(cut) # cut
             /\ lapsed' = lapsed \cup cut
             /\ UNCHANGED <<spent, row, later, faults>>
          \/ Fails(cut) /\ UNCHANGED <<spent, row, later>>
       /\ End(r)
       /\ NoLoop
       /\ UNCHANGED <<tenant, project, sub, secret, contested>>

\* A provider API is ensured: the named value is created if it is missing.
EnsureNamedValue(r) ==
    /\ Enter(r, Handler("ensure", Nil, Nil, FALSE))
    /\ EnterLoop(r, "ensure", {}, FALSE)
    /\ Works
    /\ UNCHANGED <<dbVars, sub, secret, contested, later>>

NamedValueEnsured(r) ==
    /\ req[r].at = "ensure"
    /\ LeaveLoop(r, {"done", "failed"})
    /\ End(r)
    /\ Works
    /\ UNCHANGED <<dbVars, sub, secret, contested, later>>

-----------------------------------------------------------------------------
KeyNext ==
    \/ \E r \in Requests :
         \/ \E k \in Keys : CreateKey(r, k) \/ SuspendKey(r, k) \/ DeleteKey(r, k)
         \/ \E t \in Tenants : DeleteTenant(r, t) \/ \E on \in BOOLEAN : ToggleAudit(r, t, on)
         \/ \E p \in Projects : DeleteProject(r, p)
         \/ \E b \in Budgets : AddSpend(r, b)
         \/ EnsureNamedValue(r) \/ NamedValueEnsured(r)
         \/ LimitsLoop(r)
         \/ Subscribe(r) \/ StoreSecret(r) \/ IssueFails(r)
         \/ FlagNewKey(r) \/ InsertRow(r) \/ UndoSubscription(r) \/ UndoSecret(r)
         \/ GetSubscription(r) \/ PutState(r) \/ PutStateFails(r) \/ MarkSuspended(r)
         \/ DropSubscription(r) \/ DropSecret(r) \/ DropRow(r)
         \/ RecordAudit(r) \/ ToggleRefused(r) \/ Cascade(r)
         \/ BlockKey(r) \/ PostSpend(r)
    \/ \E t \in Tenants : CreateTenant(t) \/ EnsureTenantProduct(t)
    \/ \E p \in Projects : CreateProject(p)

Spec == KeyInit /\ [][KeyNext]_vars

-----------------------------------------------------------------------------
Revoking(k) == \E q \in Requests : /\ req[q].key = k
                                   /\ req[q].at \in {"drop", "unlimit", "delete"}
Touched(k) == \E q \in Requests : req[q].key = k

TypeOK ==
    /\ LimitsTypeOK
    /\ tenant \in [Tenants -> [live : BOOLEAN, product : BOOLEAN, audit : BOOLEAN]]
    /\ project \in [Projects -> {"none", "live", "gone"}]
    /\ row \in [Keys -> {"unused", "drawn", "active", "suspended", "gone"}]
    /\ sub \in [Keys -> {"none", "active", "suspended"}]
    /\ secret \subseteq Keys
    /\ spent \in [Budgets -> 0..MaxStarts]
    /\ starts \in 0..MaxStarts /\ faults \in 0..MaxFaults

\* A key that has a row has its own limits at the gateway, whatever other keys
\* were issued, flagged or revoked at the same time (keys.py:73-76: a key never
\* exists in DB without its limits).  Excepted are keys for which a call failed,
\* keys that are being revoked, and a named value that was written blindly.
LimitsFollowRow ==
    ~overwritten => \A k \in Keys \ lapsed :
        HasRow(k) /\ ~Revoking(k) => (k \in lim <=> k \in Limited)

\* What the gateway serves is in the database: without a failed call or commit
\* no active subscription outlives its row or lacks one (delete_key, create_key
\* and the cascades of delete_project and delete_tenant).
ServedHasRow ==
    \A k \in Keys \ lapsed : sub[k] = "active" /\ ~Touched(k) => HasRow(k)

\* A revoked key leaves no subscription that serves, no secret and no limits
\* entry behind (delete_key).
RevokedIsClean ==
    \A k \in Keys \ lapsed : row[k] = "gone" /\ ~Touched(k) /\ ~overwritten =>
        sub[k] # "active" /\ k \notin secret \cup lim

\* No handler brings a suspended key back to life: the gateway never serves a
\* key whose row says suspended (suspend_key, BudgetEnforcer), whatever races.
SuspendedIsOff == \A k \in Keys : row[k] = "suspended" => sub[k] # "active"

\* The gateway archives what the tenant's row says (tenants.py:94-104), for
\* every key whose calls succeeded, once no decision is in flight.
FlagsAgree(t) == \A k \in RowsIn(KeysOf(t)) \ lapsed :
                    ~Revoking(k) => (k \in aud <=> tenant[t].audit)
AuditAgreesUnlessRaced ==
    ~overwritten => \A t \in Tenants \ contested :
        tenant[t].live /\ Deciding(t) = {} => FlagsAgree(t)

\* The same without the exception for racing decisions: "neither is allowed to
\* happen quietly".
AuditAgrees ==
    ~overwritten => \A t \in Tenants :
        tenant[t].live /\ Deciding(t) = {} => FlagsAgree(t)

\* A BLOCK budget that has reached its limit leaves only keys active that its
\* last committed charge did not find: they were issued meanwhile or since
\* (BudgetEnforcer.add_spend, _suspend_keys_for_budget).
BlockEnforced ==
    \A b \in Blocking : spent[b] >= Limit =>
        \A k \in Scope[b] : row[k] = "active" => k \in later[b]
=============================================================================
