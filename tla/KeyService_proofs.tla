------------------------- MODULE KeyService_proofs -------------------------
(***************************************************************************)
(* Proofs about the key, tenant and budget handlers, for any number of     *)
(* requests, keys, projects, tenants and budgets, any number of failing    *)
(* calls, and any order of their steps.                                    *)
(***************************************************************************)
EXTENDS KeyService, KeyLimits_proofs

KeySteps == {"subscribe", "vault", "limits", "flag", "undo", "get", "put",
             "mark", "drop", "unlimit", "delete"}
OtherSteps == {"free", "toggle", "cascade", "block", "ensure"}

Handlers == [at : KeySteps \cup OtherSteps, key : Keys \cup {Nil},
             of : Tenants \cup Budgets \cup (SUBSET Projects) \cup {Nil},
             on : BOOLEAN, sum : Nat, cut : SUBSET Keys, todo : SUBSET Keys,
             saw : SUBSET Keys]

(* What a handler at work holds: each step knows the object it is about.   *)
HandlerOK(h) ==
    /\ h.at \in KeySteps => h.key \in Keys
    /\ h.at = "toggle" => h.of \in Tenants
    /\ h.at = "cascade" => h.of \in SUBSET Projects
    /\ h.at = "block" => h.of \in Budgets

HandlersInv ==
    /\ req \in [Requests -> Handlers]
    /\ \A q \in Requests : HandlerOK(req[q])

TablesInv ==
    /\ tenant \in [Tenants -> [live : BOOLEAN, product : BOOLEAN, audit : BOOLEAN]]
    /\ project \in [Projects -> {"none", "live", "gone"}]
    /\ row \in [Keys -> {"unused", "drawn", "active", "suspended", "gone"}]
    /\ sub \in [Keys -> {"none", "active", "suspended"}]
    /\ secret \subseteq Keys

(* A sum read before another charge may be written after it, but no sum    *)
(* exceeds the number of handlers entered.                                 *)
SumsInv ==
    /\ starts \in 0..MaxStarts /\ faults \in 0..MaxFaults
    /\ spent \in [Budgets -> 0..starts]
    /\ \A q \in Requests : req[q].at = "block" => req[q].sum \in 0..starts

StateInv == HandlersInv /\ TablesInv /\ SumsInv

-----------------------------------------------------------------------------
(* Handler builds a handler that holds no keys of a budget yet.            *)
LEMMA HandlerTyped ==
    ASSUME NEW at \in KeySteps \cup OtherSteps, NEW k \in Keys \cup {Nil},
           NEW x \in Tenants \cup Budgets \cup (SUBSET Projects) \cup {Nil},
           NEW on \in BOOLEAN
    PROVE  /\ Handler(at, k, x, on) \in Handlers
           /\ Handler(at, k, x, on).at = at
           /\ Handler(at, k, x, on).key = k
           /\ Handler(at, k, x, on).of = x
           /\ Handler(at, k, x, on).sum = 0
BY DEF Handler, Handlers

LEMMA FreeTyped == Free \in Handlers /\ Free.at = "free"
<1>1. "free" \in KeySteps \cup OtherSteps
  BY DEF OtherSteps
<1>2. Nil \in Keys \cup {Nil} /\ FALSE \in BOOLEAN
      /\ Nil \in Tenants \cup Budgets \cup (SUBSET Projects) \cup {Nil}
  OBVIOUS
<1> QED
  BY <1>1, <1>2, HandlerTyped DEF Free

(* One request takes another handler; the others keep theirs.              *)
LEMMA ReplaceHandler ==
    ASSUME HandlersInv, NEW r \in Requests, NEW h \in Handlers, HandlerOK(h),
           req' = [req EXCEPT ![r] = h]
    PROVE  /\ HandlersInv'
           /\ \A q \in Requests : req'[q] = IF q = r THEN h ELSE req[q]
BY DEF HandlersInv, HandlerOK

(* A handler goes on to a step that knows its object too.                  *)
LEMMA GotoTyped ==
    ASSUME HandlersInv, NEW r \in Requests, NEW at \in KeySteps,
           req[r].at \in KeySteps, Goto(r, at)
    PROVE  /\ HandlersInv'
           /\ starts' = starts
           /\ \A q \in Requests : req'[q] = IF q = r THEN [req[r] EXCEPT !.at = at]
                                                     ELSE req[q]
           /\ req'[r].at = at /\ req'[r].key = req[r].key
<1> DEFINE h == [req[r] EXCEPT !.at = at]
<1>1. req[r] \in Handlers /\ HandlerOK(req[r])
  BY DEF HandlersInv
<1>2. h \in Handlers /\ h.at = at /\ h.key = req[r].key
  BY <1>1 DEF Handlers
<1>3. HandlerOK(h)
  BY <1>1, <1>2 DEF HandlerOK, KeySteps
<1>4. req' = [req EXCEPT ![r] = h]
  BY DEF Goto
<1>5. starts' = starts
  BY DEF Goto
<1> HIDE DEF h
<1>6. HandlersInv' /\ \A q \in Requests : req'[q] = IF q = r THEN h ELSE req[q]
  BY <1>2, <1>3, <1>4, ReplaceHandler
<1> QED
  BY <1>2, <1>5, <1>6 DEF h

LEMMA EndTyped ==
    ASSUME HandlersInv, NEW r \in Requests, End(r)
    PROVE  /\ HandlersInv'
           /\ starts' = starts
           /\ \A q \in Requests : req'[q] = IF q = r THEN Free ELSE req[q]
<1>1. HandlerOK(Free)
  BY FreeTyped DEF HandlerOK, KeySteps
<1> QED
  BY <1>1, FreeTyped, ReplaceHandler DEF End

LEMMA EnterTyped ==
    ASSUME HandlersInv, SumsInv, NEW r \in Requests, NEW h \in Handlers,
           HandlerOK(h), Enter(r, h)
    PROVE  /\ HandlersInv'
           /\ starts' = starts + 1 /\ starts' \in 0..MaxStarts
           /\ \A q \in Requests : req'[q] = IF q = r THEN h ELSE req[q]
<1>1. req' = [req EXCEPT ![r] = h]
  BY DEF Enter
<1>2. starts' = starts + 1 /\ starts' \in 0..MaxStarts
  BY KeyServiceAssumption DEF Enter, SumsInv
<1> QED
  BY <1>1, <1>2, ReplaceHandler

-----------------------------------------------------------------------------
(* The counters after a call that worked, failed or was not made.          *)
Counted == faults' \in 0..MaxFaults

LEMMA CountedByOutcome ==
    ASSUME SumsInv, NEW ks, Works \/ Fails(ks) \/ UNCHANGED faults
    PROVE  Counted
BY KeyServiceAssumption DEF SumsInv, Works, Fails, Counted

(* The three shapes of a step: a handler goes on, ends or begins.          *)
LEMMA GotoStep ==
    ASSUME StateInv, NEW r \in Requests, NEW at \in KeySteps,
           req[r].at \in KeySteps, Goto(r, at),
           TablesInv', Counted, spent' = spent
    PROVE  StateInv'
<1>1. /\ HandlersInv' /\ starts' = starts /\ req'[r].at = at
      /\ \A q \in Requests : q # r => req'[q] = req[q]
  BY GotoTyped DEF StateInv
<1>2. at # "block"
  BY DEF KeySteps
<1>3. SumsInv'
  BY <1>1, <1>2 DEF StateInv, SumsInv, Counted
<1> QED
  BY <1>1, <1>3 DEF StateInv

LEMMA EndStep ==
    ASSUME StateInv, NEW r \in Requests, End(r), TablesInv', Counted,
           spent' \in [Budgets -> 0..starts]
    PROVE  StateInv'
<1>1. /\ HandlersInv' /\ starts' = starts
      /\ \A q \in Requests : req'[q] = IF q = r THEN Free ELSE req[q]
  BY EndTyped DEF StateInv
<1>2. SumsInv'
  BY <1>1, FreeTyped DEF StateInv, SumsInv, Counted
<1> QED
  BY <1>1, <1>2 DEF StateInv

LEMMA EnterStep ==
    ASSUME StateInv, NEW r \in Requests, NEW h \in Handlers, HandlerOK(h),
           h.at = "block" => h.sum \in 0..starts + 1,
           Enter(r, h), TablesInv', Counted, spent' = spent
    PROVE  StateInv'
<1>1. /\ HandlersInv'
      /\ starts' = starts + 1 /\ starts' \in 0..MaxStarts
      /\ \A q \in Requests : req'[q] = IF q = r THEN h ELSE req[q]
  BY EnterTyped DEF StateInv
<1>2. starts \in Nat /\ \A n \in 0..starts : n \in 0..starts'
  BY <1>1, KeyServiceAssumption DEF StateInv, SumsInv
<1>3. spent' \in [Budgets -> 0..starts']
  BY <1>2 DEF StateInv, SumsInv
<1>4. \A q \in Requests : req'[q].at = "block" => req'[q].sum \in 0..starts'
  BY <1>1, <1>2 DEF StateInv, SumsInv
<1>5. SumsInv'
  BY <1>1, <1>3, <1>4 DEF Counted, SumsInv
<1> QED
  BY <1>1, <1>5 DEF StateInv

-----------------------------------------------------------------------------
(* Issuing a key keeps the state typed (create_key).                       *)
LEMMA IssueTyped ==
    ASSUME StateInv, NEW r \in Requests,
           \/ \E k \in Keys : CreateKey(r, k)
           \/ Subscribe(r) \/ StoreSecret(r) \/ IssueFails(r) \/ FlagNewKey(r)
           \/ InsertRow(r) \/ UndoSubscription(r) \/ UndoSecret(r)
    PROVE  StateInv'
<1>0. req[r] \in Handlers /\ (req[r].at \in KeySteps => req[r].key \in Keys)
  BY DEF StateInv, HandlersInv, HandlerOK
<1>1. ASSUME NEW k \in Keys, CreateKey(r, k)
      PROVE  StateInv'
  <2> DEFINE h == Handler("subscribe", k, Nil, tenant[TenantOf[ProjectOf[k]]].audit)
  <2>1. tenant[TenantOf[ProjectOf[k]]].audit \in BOOLEAN
    BY KeyServiceAssumption DEF StateInv, TablesInv
  <2>2. h \in Handlers /\ h.at = "subscribe" /\ h.key = k
    BY <2>1 DEF Handler, Handlers, KeySteps
  <2>3. Enter(r, h)
    BY <1>1 DEF CreateKey
  <2> HIDE DEF h
  <2>4. HandlerOK(h)
    BY <2>2 DEF HandlerOK
  <2>5. TablesInv' /\ spent' = spent
    BY <1>1 DEF CreateKey, StateInv, TablesInv
  <2>6. Counted
    BY <1>1, CountedByOutcome DEF CreateKey, StateInv
  <2> QED
    BY <2>2, <2>3, <2>4, <2>5, <2>6, EnterStep
<1>2. CASE Subscribe(r)
  <2>1. "vault" \in KeySteps /\ req[r].at \in KeySteps
    BY <1>2 DEF Subscribe, KeySteps
  <2>2. TablesInv' /\ spent' = spent
    BY <1>0, <1>2, <2>1 DEF Subscribe, StateInv, TablesInv, dbVars
  <2>3. Counted
    BY <1>2, CountedByOutcome DEF Subscribe, StateInv
  <2> QED
    BY <1>2, <2>1, <2>2, <2>3, GotoStep DEF Subscribe
<1>3. CASE StoreSecret(r)
  <2>1. "limits" \in KeySteps /\ req[r].at \in KeySteps
    BY <1>3 DEF StoreSecret, KeySteps
  <2>2. TablesInv' /\ spent' = spent
    BY <1>0, <1>3, <2>1 DEF StoreSecret, StateInv, TablesInv, dbVars
  <2>3. Counted
    BY <1>3, CountedByOutcome DEF StoreSecret, StateInv
  <2> QED
    BY <1>3, <2>1, <2>2, <2>3, GotoStep DEF StoreSecret
<1>4. CASE IssueFails(r)
  <2>1. req[r].at \in KeySteps
    BY <1>4 DEF IssueFails, KeySteps
  <2>2. TablesInv' /\ spent' = spent
    BY <1>0, <1>4, <2>1 DEF IssueFails, StateInv, TablesInv
  <2>3. Counted
    BY <1>4, CountedByOutcome DEF IssueFails, StateInv
  <2> QED
    BY <1>4, <2>2, <2>3, EndStep DEF IssueFails, StateInv, SumsInv
<1>5. CASE FlagNewKey(r)
  <2>1. "flag" \in KeySteps /\ req[r].at \in KeySteps
    BY <1>5 DEF FlagNewKey, KeySteps
  <2>2. TablesInv' /\ spent' = spent
    BY <1>5 DEF FlagNewKey, StateInv, TablesInv, dbVars
  <2>3. Counted
    BY <1>5, CountedByOutcome DEF FlagNewKey, StateInv
  <2> QED
    BY <1>5, <2>1, <2>2, <2>3, GotoStep DEF FlagNewKey
<1>6. CASE InsertRow(r)
  <2>1. req[r].at \in KeySteps
    BY <1>6 DEF InsertRow, KeySteps
  <2>2. TablesInv' /\ spent' = spent
    BY <1>0, <1>6, <2>1 DEF InsertRow, StateInv, TablesInv
  <2>3. Counted
    BY <1>6, CountedByOutcome DEF InsertRow, StateInv
  <2> QED
    BY <1>6, <2>2, <2>3, EndStep DEF InsertRow, StateInv, SumsInv
<1>7. CASE UndoSubscription(r)
  <2>1. "undo" \in KeySteps /\ req[r].at \in KeySteps
    BY <1>7 DEF UndoSubscription, KeySteps
  <2>2. TablesInv' /\ spent' = spent
    BY <1>0, <1>7, <2>1 DEF UndoSubscription, StateInv, TablesInv, dbVars
  <2>3. Counted
    BY <1>7, CountedByOutcome DEF UndoSubscription, StateInv
  <2> QED
    BY <1>7, <2>1, <2>2, <2>3, GotoStep DEF UndoSubscription
<1>8. CASE UndoSecret(r)
  <2>1. req[r].at \in KeySteps
    BY <1>8 DEF UndoSecret, KeySteps
  <2>2. TablesInv' /\ spent' = spent
    BY <1>0, <1>8, <2>1 DEF UndoSecret, StateInv, TablesInv
  <2>3. Counted
    BY <1>8, CountedByOutcome DEF UndoSecret, StateInv
  <2> QED
    BY <1>8, <2>2, <2>3, EndStep DEF UndoSecret, StateInv, SumsInv
<1> QED
  BY <1>1, <1>2, <1>3, <1>4, <1>5, <1>6, <1>7, <1>8

(* Suspending a key keeps the state typed (suspend_key).                   *)
LEMMA SuspendTyped ==
    ASSUME StateInv, NEW r \in Requests,
           \/ \E k \in Keys : SuspendKey(r, k)
           \/ GetSubscription(r) \/ PutState(r) \/ PutStateFails(r)
           \/ MarkSuspended(r)
    PROVE  StateInv'
<1>0. req[r] \in Handlers /\ (req[r].at \in KeySteps => req[r].key \in Keys)
  BY DEF StateInv, HandlersInv, HandlerOK
<1>1. ASSUME NEW k \in Keys, SuspendKey(r, k)
      PROVE  StateInv'
  <2> DEFINE h == Handler("get", k, Nil, FALSE)
  <2>2. h \in Handlers /\ h.at = "get" /\ h.key = k
    BY DEF Handler, Handlers, KeySteps, OtherSteps
  <2>3. Enter(r, h)
    BY <1>1 DEF SuspendKey
  <2> HIDE DEF h
  <2>4. HandlerOK(h)
    BY <2>2 DEF HandlerOK, KeySteps
  <2>5. TablesInv' /\ spent' = spent
    BY <1>1 DEF SuspendKey, StateInv, TablesInv, dbVars
  <2>6. Counted
    BY <1>1, CountedByOutcome DEF SuspendKey, StateInv
  <2> QED
    BY <2>2, <2>3, <2>4, <2>5, <2>6, EnterStep
<1>2. CASE GetSubscription(r)
  <2>1. (IF sub[req[r].key] = "none" THEN "mark" ELSE "put") \in KeySteps /\ req[r].at \in KeySteps
    BY <1>2 DEF GetSubscription, KeySteps
  <2>2. TablesInv' /\ spent' = spent
    BY <1>0, <1>2, <2>1 DEF GetSubscription, StateInv, TablesInv, dbVars
  <2>3. Counted
    BY <1>2, CountedByOutcome DEF GetSubscription, StateInv
  <2> QED
    BY <1>2, <2>1, <2>2, <2>3, GotoStep DEF GetSubscription
<1>3. CASE PutState(r)
  <2>1. "mark" \in KeySteps /\ req[r].at \in KeySteps
    BY <1>3 DEF PutState, KeySteps
  <2>2. TablesInv' /\ spent' = spent
    BY <1>0, <1>3, <2>1 DEF PutState, StateInv, TablesInv, dbVars
  <2>3. Counted
    BY <1>3, CountedByOutcome DEF PutState, StateInv
  <2> QED
    BY <1>3, <2>1, <2>2, <2>3, GotoStep DEF PutState
<1>4. CASE PutStateFails(r)
  <2>1. req[r].at \in KeySteps
    BY <1>4 DEF PutStateFails, KeySteps
  <2>2. TablesInv' /\ spent' = spent
    BY <1>0, <1>4, <2>1 DEF PutStateFails, StateInv, TablesInv, dbVars
  <2>3. Counted
    BY <1>4, CountedByOutcome DEF PutStateFails, StateInv
  <2> QED
    BY <1>4, <2>2, <2>3, EndStep DEF PutStateFails, StateInv, SumsInv
<1>5. CASE MarkSuspended(r)
  <2>1. req[r].at \in KeySteps
    BY <1>5 DEF MarkSuspended, KeySteps
  <2>2. TablesInv' /\ spent' = spent
    BY <1>0, <1>5, <2>1 DEF MarkSuspended, StateInv, TablesInv, dbVars, HasRow
  <2>3. Counted
    BY <1>5, CountedByOutcome DEF MarkSuspended, StateInv
  <2> QED
    BY <1>5, <2>2, <2>3, EndStep DEF MarkSuspended, StateInv, SumsInv
<1> QED
  BY <1>1, <1>2, <1>3, <1>4, <1>5

(* Revoking a key keeps the state typed (delete_key).                      *)
LEMMA RevokeTyped ==
    ASSUME StateInv, NEW r \in Requests,
           \/ \E k \in Keys : DeleteKey(r, k)
           \/ DropSubscription(r) \/ DropSecret(r) \/ DropRow(r)
    PROVE  StateInv'
<1>0. req[r] \in Handlers /\ (req[r].at \in KeySteps => req[r].key \in Keys)
  BY DEF StateInv, HandlersInv, HandlerOK
<1>1. ASSUME NEW k \in Keys, DeleteKey(r, k)
      PROVE  StateInv'
  <2> DEFINE h == Handler("drop", k, Nil, FALSE)
  <2>2. h \in Handlers /\ h.at = "drop" /\ h.key = k
    BY DEF Handler, Handlers, KeySteps, OtherSteps
  <2>3. Enter(r, h)
    BY <1>1 DEF DeleteKey
  <2> HIDE DEF h
  <2>4. HandlerOK(h)
    BY <2>2 DEF HandlerOK, KeySteps
  <2>5. TablesInv' /\ spent' = spent
    BY <1>1 DEF DeleteKey, StateInv, TablesInv, dbVars
  <2>6. Counted
    BY <1>1, CountedByOutcome DEF DeleteKey, StateInv
  <2> QED
    BY <2>2, <2>3, <2>4, <2>5, <2>6, EnterStep
<1>2. CASE DropSubscription(r)
  <2>1. "unlimit" \in KeySteps /\ req[r].at \in KeySteps
    BY <1>2 DEF DropSubscription, KeySteps
  <2>2. TablesInv' /\ spent' = spent
    BY <1>0, <1>2, <2>1 DEF DropSubscription, StateInv, TablesInv, dbVars
  <2>3. Counted
    BY <1>2, CountedByOutcome DEF DropSubscription, StateInv
  <2> QED
    BY <1>2, <2>1, <2>2, <2>3, GotoStep DEF DropSubscription
<1>3. CASE DropSecret(r)
  <2>1. "delete" \in KeySteps /\ req[r].at \in KeySteps
    BY <1>3 DEF DropSecret, KeySteps
  <2>2. TablesInv' /\ spent' = spent
    BY <1>0, <1>3, <2>1 DEF DropSecret, StateInv, TablesInv, dbVars
  <2>3. Counted
    BY <1>3, CountedByOutcome DEF DropSecret, StateInv
  <2> QED
    BY <1>3, <2>1, <2>2, <2>3, GotoStep DEF DropSecret
<1>4. CASE DropRow(r)
  <2>1. req[r].at \in KeySteps
    BY <1>4 DEF DropRow, KeySteps
  <2>2. TablesInv' /\ spent' = spent
    BY <1>0, <1>4, <2>1 DEF DropRow, StateInv, TablesInv, dbVars
  <2>3. Counted
    BY <1>4, CountedByOutcome DEF DropRow, StateInv
  <2> QED
    BY <1>4, <2>2, <2>3, EndStep DEF DropRow, StateInv, SumsInv
<1> QED
  BY <1>1, <1>2, <1>3, <1>4

LEMMA PauseStep ==
    ASSUME StateInv, UNCHANGED <<req, starts, spent>>, TablesInv', Counted
    PROVE  StateInv'
BY DEF StateInv, HandlersInv, HandlerOK, SumsInv, Counted

(* Tenants and projects (create_tenant ... delete_project), the audit      *)
(* toggle and the loops themselves keep the state typed.                   *)
LEMMA TenantTyped ==
    ASSUME StateInv, NEW r \in Requests,
           \/ \E t \in Tenants : \/ DeleteTenant(r, t)
                                 \/ \E on \in BOOLEAN : ToggleAudit(r, t, on)
           \/ \E p \in Projects : DeleteProject(r, p)
           \/ RecordAudit(r) \/ ToggleRefused(r) \/ Cascade(r)
           \/ EnsureNamedValue(r) \/ NamedValueEnsured(r) \/ LimitsLoop(r)
    PROVE  StateInv'
<1>1. ASSUME NEW t \in Tenants, DeleteTenant(r, t)
      PROVE  StateInv'
  <2> DEFINE h == Handler("cascade", Nil, {p \in Projects : TenantOf[p] = t}, TRUE)
  <2>2. h \in Handlers /\ h.at = "cascade" /\ h.of \in SUBSET Projects
    BY DEF Handler, Handlers, KeySteps, OtherSteps
  <2>3. Enter(r, h)
    BY <1>1 DEF DeleteTenant
  <2> HIDE DEF h
  <2>4. HandlerOK(h)
    BY <2>2 DEF HandlerOK, KeySteps
  <2>5. TablesInv' /\ spent' = spent
    BY <1>1 DEF DeleteTenant, StateInv, TablesInv, dbVars
  <2>6. Counted
    BY <1>1, CountedByOutcome DEF DeleteTenant, StateInv
  <2> QED
    BY <2>2, <2>3, <2>4, <2>5, <2>6, EnterStep
<1>2. ASSUME NEW t \in Tenants, NEW on \in BOOLEAN, ToggleAudit(r, t, on)
      PROVE  StateInv'
  <2> DEFINE h == Handler("toggle", Nil, t, on)
  <2>2. h \in Handlers /\ h.at = "toggle" /\ h.of \in Tenants
    BY DEF Handler, Handlers, KeySteps, OtherSteps
  <2>3. Enter(r, h)
    BY <1>2 DEF ToggleAudit
  <2> HIDE DEF h
  <2>4. HandlerOK(h)
    BY <2>2 DEF HandlerOK, KeySteps
  <2>5. TablesInv' /\ spent' = spent
    BY <1>2 DEF ToggleAudit, StateInv, TablesInv, dbVars
  <2>6. Counted
    BY <1>2, CountedByOutcome DEF ToggleAudit, StateInv
  <2> QED
    BY <2>2, <2>3, <2>4, <2>5, <2>6, EnterStep
<1>3. ASSUME NEW p \in Projects, DeleteProject(r, p)
      PROVE  StateInv'
  <2> DEFINE h == Handler("cascade", Nil, {p}, FALSE)
  <2>2. h \in Handlers /\ h.at = "cascade" /\ h.of \in SUBSET Projects
    BY DEF Handler, Handlers, KeySteps, OtherSteps
  <2>3. Enter(r, h)
    BY <1>3 DEF DeleteProject
  <2> HIDE DEF h
  <2>4. HandlerOK(h)
    BY <2>2 DEF HandlerOK, KeySteps
  <2>5. TablesInv' /\ spent' = spent
    BY <1>3 DEF DeleteProject, StateInv, TablesInv, dbVars
  <2>6. Counted
    BY <1>3, CountedByOutcome DEF DeleteProject, StateInv
  <2> QED
    BY <2>2, <2>3, <2>4, <2>5, <2>6, EnterStep
<1>4. CASE RecordAudit(r)
  <2>1. req[r].of \in Tenants /\ req[r].on \in BOOLEAN
    BY <1>4 DEF RecordAudit, StateInv, HandlersInv, HandlerOK, Handlers
  <2>2. TablesInv' /\ spent' = spent
    BY <1>4, <2>1 DEF RecordAudit, StateInv, TablesInv
  <2>3. Counted
    BY <1>4, CountedByOutcome DEF RecordAudit, StateInv
  <2> QED
    BY <1>4, <2>2, <2>3, EndStep DEF RecordAudit, StateInv, SumsInv
<1>5. CASE ToggleRefused(r)
  <2>2. TablesInv' /\ spent' = spent
    BY <1>5 DEF ToggleRefused, StateInv, TablesInv, dbVars
  <2>3. Counted
    BY <1>5, CountedByOutcome DEF ToggleRefused, StateInv
  <2> QED
    BY <1>5, <2>2, <2>3, EndStep DEF ToggleRefused, StateInv, SumsInv
<1>6. CASE Cascade(r)
  <2>2. TablesInv' /\ spent' = spent
    BY <1>6 DEF Cascade, StateInv, TablesInv, dbVars
  <2>3. Counted
    BY <1>6, CountedByOutcome DEF Cascade, StateInv
  <2> QED
    BY <1>6, <2>2, <2>3, EndStep DEF Cascade, StateInv, SumsInv
<1>7. CASE EnsureNamedValue(r)
  <2> DEFINE h == Handler("ensure", Nil, Nil, FALSE)
  <2>1. "ensure" \in KeySteps \cup OtherSteps /\ Nil \in Keys \cup {Nil}
        /\ Nil \in Tenants \cup Budgets \cup (SUBSET Projects) \cup {Nil}
    BY DEF OtherSteps
  <2>2. h \in Handlers /\ h.at = "ensure"
    BY <2>1, HandlerTyped
  <2>3. Enter(r, h)
    BY <1>7 DEF EnsureNamedValue
  <2> HIDE DEF h
  <2>4. HandlerOK(h)
    BY <2>2 DEF HandlerOK, KeySteps
  <2>5. TablesInv' /\ spent' = spent
    BY <1>7 DEF EnsureNamedValue, StateInv, TablesInv, dbVars
  <2>6. Counted
    BY <1>7, CountedByOutcome DEF EnsureNamedValue, StateInv
  <2> QED
    BY <2>2, <2>3, <2>4, <2>5, <2>6, EnterStep
<1>8. CASE NamedValueEnsured(r)
  <2>2. TablesInv' /\ spent' = spent
    BY <1>8 DEF NamedValueEnsured, StateInv, TablesInv, dbVars
  <2>3. Counted
    BY <1>8, CountedByOutcome DEF NamedValueEnsured, StateInv
  <2> QED
    BY <1>8, <2>2, <2>3, EndStep DEF NamedValueEnsured, StateInv, SumsInv
<1>9. CASE LimitsLoop(r)
  <2>1. TablesInv' /\ UNCHANGED <<req, starts, spent>>
    BY <1>9 DEF LimitsLoop, StateInv, TablesInv, dbVars
  <2>2. Counted
    BY <1>9, CountedByOutcome DEF LimitsLoop, StateInv
  <2> QED
    BY <2>1, <2>2, PauseStep
<1> QED
  BY <1>1, <1>2, <1>3, <1>4, <1>5, <1>6, <1>7, <1>8, <1>9

LEMMA CreationTyped ==
    ASSUME StateInv,
           \/ \E t \in Tenants : CreateTenant(t) \/ EnsureTenantProduct(t)
           \/ \E p \in Projects : CreateProject(p)
    PROVE  StateInv'
<1>1. ASSUME NEW t \in Tenants, CreateTenant(t)
      PROVE  StateInv'
  <2>1. TablesInv'
    BY <1>1 DEF CreateTenant, StateInv, TablesInv
  <2>2. Counted /\ UNCHANGED <<req, starts, spent>>
    BY <1>1, CountedByOutcome DEF CreateTenant, StateInv
  <2> QED
    BY <2>1, <2>2, PauseStep
<1>2. ASSUME NEW t \in Tenants, EnsureTenantProduct(t)
      PROVE  StateInv'
  <2>1. TablesInv'
    BY <1>2 DEF EnsureTenantProduct, StateInv, TablesInv
  <2>2. Counted /\ UNCHANGED <<req, starts, spent>>
    BY <1>2, CountedByOutcome DEF EnsureTenantProduct, StateInv
  <2> QED
    BY <2>1, <2>2, PauseStep
<1>3. ASSUME NEW p \in Projects, CreateProject(p)
      PROVE  StateInv'
  <2>1. TablesInv'
    BY <1>3 DEF CreateProject, StateInv, TablesInv
  <2>2. Counted /\ UNCHANGED <<req, starts, spent>>
    BY <1>3, CountedByOutcome DEF CreateProject, StateInv
  <2> QED
    BY <2>1, <2>2, PauseStep
<1> QED
  BY <1>1, <1>2, <1>3

(* Charges keep the state typed (BudgetEnforcer.add_spend).                *)
LEMMA ChargeTyped ==
    ASSUME StateInv, NEW r \in Requests,
           \/ \E b \in Budgets : AddSpend(r, b)
           \/ BlockKey(r) \/ PostSpend(r)
    PROVE  StateInv'
<1>1. ASSUME NEW b \in Budgets, AddSpend(r, b)
      PROVE  StateInv'
  <2> DEFINE sum == spent[b] + 1
             over == sum >= Limit /\ b \in Blocking
             cut == IF over THEN {k \in Scope[b] : row[k] = "active"} ELSE {}
             h == [Handler("block", Nil, b, FALSE) EXCEPT
                      !.sum = sum, !.cut = cut, !.todo = cut,
                      !.saw = RowsIn(Scope[b])]
  <2>1. spent[b] \in 0..starts /\ starts \in Nat
    BY KeyServiceAssumption DEF StateInv, SumsInv
  <2>2. sum \in 0..starts + 1 /\ sum \in Nat
    BY <2>1
  <2>3. cut \in SUBSET Keys /\ RowsIn(Scope[b]) \in SUBSET Keys
    BY KeyServiceAssumption DEF RowsIn
  <2> HIDE DEF sum, cut
  <2>4. h \in Handlers /\ h.at = "block" /\ h.of = b /\ h.sum = sum
    BY <2>2, <2>3 DEF Handler, Handlers, KeySteps, OtherSteps
  <2>5. Enter(r, h)
    BY <1>1 DEF AddSpend, sum, cut
  <2> HIDE DEF h
  <2>6. HandlerOK(h)
    BY <2>4 DEF HandlerOK, KeySteps
  <2>7. TablesInv' /\ spent' = spent
    BY <1>1 DEF AddSpend, StateInv, TablesInv, dbVars
  <2>8. Counted
    BY <1>1, CountedByOutcome DEF AddSpend, StateInv
  <2> QED
    BY <2>2, <2>4, <2>5, <2>6, <2>7, <2>8, EnterStep
<1>2. CASE BlockKey(r)
  <2> DEFINE off(k) == IF sub[k] = "none" THEN sub ELSE [sub EXCEPT ![k] = "suspended"]
  <2>1. PICK k \in req[r].todo :
           \/ sub' = off(k) /\ req' = [req EXCEPT ![r].todo = @ \ {k}] /\ Works
           \/ sub' \in {sub, off(k)} /\ req' = [req EXCEPT ![r] = Free] /\ Fails({k})
    BY <1>2 DEF BlockKey
  <2>2. req[r] \in Handlers /\ HandlerOK(req[r]) /\ k \in Keys
    BY <2>1 DEF StateInv, HandlersInv, Handlers
  <2>3. TablesInv' /\ starts' = starts /\ spent' = spent
    BY <1>2, <2>1, <2>2 DEF BlockKey, StateInv, TablesInv, dbVars
  <2>4. Counted
    BY <2>1, CountedByOutcome DEF StateInv
  <2>5. CASE req' = [req EXCEPT ![r].todo = @ \ {k}]
    <3> DEFINE h == [req[r] EXCEPT !.todo = @ \ {k}]
    <3>1. h \in Handlers /\ h.at = req[r].at /\ h.key = req[r].key
          /\ h.of = req[r].of /\ h.sum = req[r].sum
      BY <2>2 DEF Handlers
    <3>2. req' = [req EXCEPT ![r] = h]
      BY <2>5
    <3> HIDE DEF h
    <3>3. HandlerOK(h)
      BY <2>2, <3>1 DEF HandlerOK
    <3>4. HandlersInv' /\ \A q \in Requests : req'[q] = IF q = r THEN h ELSE req[q]
      BY <3>1, <3>2, <3>3, ReplaceHandler DEF StateInv
    <3>5. SumsInv'
      BY <2>3, <2>4, <3>1, <3>4 DEF StateInv, SumsInv, Counted
    <3> QED
      BY <2>3, <3>4, <3>5 DEF StateInv
  <2>6. CASE req' = [req EXCEPT ![r] = Free]
    BY <2>3, <2>4, <2>6, EndStep DEF End, StateInv, SumsInv
  <2> QED
    BY <2>1, <2>5, <2>6
<1>3. CASE PostSpend(r)
  <2>1. req[r].of \in Budgets /\ req[r].sum \in 0..starts /\ req[r].cut \in SUBSET Keys
    BY <1>3 DEF PostSpend, StateInv, HandlersInv, HandlerOK, Handlers, SumsInv
  <2>2. TablesInv' /\ spent' \in [Budgets -> 0..starts]
    BY <1>3, <2>1 DEF PostSpend, StateInv, TablesInv, SumsInv
  <2>3. Counted
    BY <1>3, CountedByOutcome DEF PostSpend, StateInv
  <2> QED
    BY <1>3, <2>2, <2>3, EndStep DEF PostSpend
<1> QED
  BY <1>1, <1>2, <1>3

-----------------------------------------------------------------------------
(* What a step of the handlers is to the loops on the limits map.          *)
LoopStep ==
    \/ UNCHANGED limitsVars
    \/ \E r \in Requests :
          \/ /\ \E g \in CallerGoals : call' = [call EXCEPT ![r] = Began(g)]
             /\ UNCHANGED LoopVars
          \/ /\ call' = [call EXCEPT ![r] = Idle]
             /\ UNCHANGED LoopVars
          \/ ReadLimits(r) \/ WriteLimits(r) \/ WriteRefused(r)
          \/ WriteAnswerLost(r) \/ LimitsCallFails(r)

(* Entering a loop for a goal callers have.                                *)
LEMMA EnterIsLoopStep ==
    ASSUME NEW r \in Requests, NEW kind \in {"ensure", "limits", "audit", "remove"},
           NEW ks \in SUBSET Keys, NEW on \in BOOLEAN,
           kind \in {"limits", "remove"} => \E k \in Keys : ks = {k},
           EnterLoop(r, kind, ks, on)
    PROVE  LoopStep
<1> DEFINE g == [kind |-> kind, keys |-> ks, on |-> on]
<1>1. g \in CallerGoals
  BY DEF CallerGoals, Goals
<1>2. call' = [call EXCEPT ![r] = Began(g)] /\ UNCHANGED LoopVars
  BY DEF EnterLoop
<1> QED
  BY <1>1, <1>2 DEF LoopStep

LEMMA LeaveIsLoopStep ==
    ASSUME NEW r \in Requests, NEW outcomes, LeaveLoop(r, outcomes)
    PROVE  LoopStep
BY DEF LeaveLoop, LoopStep

(* Every step of the handlers is one of those.                             *)
LEMMA KeyStepIsLoopStep ==
    ASSUME StateInv, [KeyNext]_vars
    PROVE  LoopStep
<1>1. ASSUME NEW r \in Requests, StoreSecret(r)
      PROVE  LoopStep
  <2>1. req[r].key \in Keys
    BY <1>1 DEF StoreSecret, StateInv, HandlersInv, HandlerOK, KeySteps
  <2>2. CASE req[r].key \in Limited
    <3>1. EnterLoop(r, "limits", {req[r].key}, TRUE)
      BY <1>1, <2>2 DEF StoreSecret, EnterLoop
    <3> QED
      BY <2>1, <3>1, EnterIsLoopStep
  <2>3. CASE req[r].key \notin Limited
    <3>0. (req[r].key \in Limited) = FALSE
      BY <2>3
    <3>1. EnterLoop(r, "limits", {req[r].key}, FALSE)
      BY <1>1, <3>0 DEF StoreSecret
    <3> QED
      BY <2>1, <3>1, EnterIsLoopStep
  <2> QED
    BY <2>2, <2>3
<1>2. ASSUME NEW r \in Requests, FlagNewKey(r)
      PROVE  LoopStep
  <2>1. req[r].key \in Keys
    BY <1>2 DEF FlagNewKey, StateInv, HandlersInv, HandlerOK, KeySteps
  <2>2. EnterLoop(r, "audit", {req[r].key}, TRUE)
    BY <1>2 DEF FlagNewKey
  <2> QED
    BY <2>1, <2>2, EnterIsLoopStep
<1>3. ASSUME NEW r \in Requests, DropSubscription(r)
      PROVE  LoopStep
  <2>1. req[r].key \in Keys
    BY <1>3 DEF DropSubscription, StateInv, HandlersInv, HandlerOK, KeySteps
  <2>2. EnterLoop(r, "remove", {req[r].key}, FALSE)
    BY <1>3 DEF DropSubscription
  <2> QED
    BY <2>1, <2>2, EnterIsLoopStep
<1>4. ASSUME NEW r \in Requests, NEW t \in Tenants, NEW on \in BOOLEAN,
             ToggleAudit(r, t, on)
      PROVE  LoopStep
  <2>1. RowsIn(KeysOf(t)) \in SUBSET Keys
    BY DEF RowsIn, KeysOf
  <2>2. EnterLoop(r, "audit", RowsIn(KeysOf(t)), on)
    BY <1>4 DEF ToggleAudit
  <2> QED
    BY <2>1, <2>2, EnterIsLoopStep
<1>5. ASSUME NEW r \in Requests, EnsureNamedValue(r)
      PROVE  LoopStep
  <2>1. EnterLoop(r, "ensure", {}, FALSE)
    BY <1>5 DEF EnsureNamedValue
  <2> QED
    BY <2>1, EnterIsLoopStep
<1>6. ASSUME NEW r \in Requests,
             \/ InsertRow(r) \/ UndoSubscription(r) \/ DropSecret(r)
             \/ RecordAudit(r) \/ ToggleRefused(r) \/ NamedValueEnsured(r)
      PROVE  LoopStep
  BY <1>6, LeaveIsLoopStep DEF InsertRow, UndoSubscription, DropSecret,
           RecordAudit, ToggleRefused, NamedValueEnsured
<1>7. ASSUME NEW r \in Requests, LimitsLoop(r)
      PROVE  LoopStep
  BY <1>7 DEF LimitsLoop, LoopStep
<1>8. ASSUME NEW r \in Requests,
             \/ \E k \in Keys : CreateKey(r, k) \/ SuspendKey(r, k) \/ DeleteKey(r, k)
             \/ \E t \in Tenants : DeleteTenant(r, t)
             \/ \E p \in Projects : DeleteProject(r, p)
             \/ \E b \in Budgets : AddSpend(r, b)
             \/ Subscribe(r) \/ IssueFails(r) \/ UndoSecret(r)
             \/ GetSubscription(r) \/ PutState(r) \/ PutStateFails(r)
             \/ MarkSuspended(r) \/ DropRow(r) \/ Cascade(r)
             \/ BlockKey(r) \/ PostSpend(r)
      PROVE  LoopStep
  <2>1. ASSUME NEW k \in Keys, CreateKey(r, k) \/ SuspendKey(r, k) \/ DeleteKey(r, k)
        PROVE  NoLoop
    BY <2>1 DEF CreateKey, SuspendKey, DeleteKey
  <2>2. ASSUME NEW t \in Tenants, DeleteTenant(r, t)
        PROVE  NoLoop
    BY <2>2 DEF DeleteTenant
  <2>3. ASSUME NEW p \in Projects, DeleteProject(r, p)
        PROVE  NoLoop
    BY <2>3 DEF DeleteProject
  <2>4. ASSUME NEW b \in Budgets, AddSpend(r, b)
        PROVE  NoLoop
    BY <2>4 DEF AddSpend
  <2>5. CASE Subscribe(r)
    BY <2>5 DEF Subscribe, NoLoop, LoopStep
  <2>6. CASE IssueFails(r)
    BY <2>6 DEF IssueFails, NoLoop, LoopStep
  <2>7. CASE UndoSecret(r)
    BY <2>7 DEF UndoSecret, NoLoop, LoopStep
  <2>8. CASE DropRow(r)
    BY <2>8 DEF DropRow, NoLoop, LoopStep
  <2>9. CASE Cascade(r)
    BY <2>9 DEF Cascade, NoLoop, LoopStep
  <2>10. CASE GetSubscription(r)
    BY <2>10 DEF GetSubscription, NoLoop, LoopStep
  <2>11. CASE PutState(r)
    BY <2>11 DEF PutState, NoLoop, LoopStep
  <2>12. CASE PutStateFails(r)
    BY <2>12 DEF PutStateFails, NoLoop, LoopStep
  <2>13. CASE MarkSuspended(r)
    BY <2>13 DEF MarkSuspended, NoLoop, LoopStep
  <2>14. CASE BlockKey(r)
    BY <2>14 DEF BlockKey, NoLoop, LoopStep
  <2>15. CASE PostSpend(r)
    BY <2>15 DEF PostSpend, NoLoop, LoopStep
  <2> QED
    BY <1>8, <2>1, <2>2, <2>3, <2>4, <2>5, <2>6, <2>7, <2>8, <2>9, <2>10, <2>11, <2>12, <2>13, <2>14, <2>15 DEF NoLoop, LoopStep
<1>9. CASE \/ \E t \in Tenants : CreateTenant(t) \/ EnsureTenantProduct(t)
           \/ \E p \in Projects : CreateProject(p)
  BY <1>9 DEF CreateTenant, EnsureTenantProduct, CreateProject, NoLoop, LoopStep
<1>10. CASE UNCHANGED vars
  BY <1>10 DEF vars, LoopStep
<1> QED
  BY <1>1, <1>2, <1>3, <1>4, <1>5, <1>6, <1>7, <1>8, <1>9, <1>10 DEF KeyNext

LEMMA LoopStepKeepsInv ==
    ASSUME LimitsInv, LoopStep
    PROVE  LimitsInv'
<1>1. CASE UNCHANGED limitsVars
  BY <1>1, LimitsStepInv
<1>2. ASSUME NEW r \in Requests, NEW g \in CallerGoals,
             call' = [call EXCEPT ![r] = Began(g)], UNCHANGED LoopVars
      PROVE  LimitsInv'
  BY <1>2, EntryKeepsInv DEF LoopVars
<1>3. ASSUME NEW r \in Requests, call' = [call EXCEPT ![r] = Idle], UNCHANGED LoopVars
      PROVE  LimitsInv'
  BY <1>3, ExitKeepsInv DEF LoopVars
<1>4. ASSUME NEW r \in Requests, ReadLimits(r)
      PROVE  LimitsInv'
  BY <1>4, ReadKeepsInv
<1>5. ASSUME NEW r \in Requests, WriteLimits(r) \/ WriteAnswerLost(r)
      PROVE  LimitsInv'
  BY <1>5, LandKeepsInv DEF WriteLimits, WriteAnswerLost
<1>6. ASSUME NEW r \in Requests, WriteRefused(r)
      PROVE  LimitsInv'
  BY <1>6, RefusalKeepsInv
<1>7. ASSUME NEW r \in Requests, LimitsCallFails(r)
      PROVE  LimitsInv'
  BY <1>7, FailureKeepsInv
<1> QED
  BY <1>1, <1>2, <1>3, <1>4, <1>5, <1>6, <1>7 DEF LoopStep

LEMMA LoopStepIsOneChange ==
    ASSUME LimitsInv, LoopStep
    PROVE  LM!Next \/ overwritten' \/ UNCHANGED <<lim, aud>>
<1>1. ASSUME NEW r \in Requests, WriteLimits(r) \/ WriteAnswerLost(r)
      PROVE  LM!Next \/ overwritten' \/ UNCHANGED <<lim, aud>>
  BY <1>1, LandIsOneChange DEF WriteLimits, WriteAnswerLost
<1>2. ASSUME NEW r \in Requests,
             \/ UNCHANGED LoopVars
             \/ ReadLimits(r) \/ WriteRefused(r) \/ LimitsCallFails(r)
      PROVE  UNCHANGED <<lim, aud>>
  BY <1>2 DEF LoopVars, ReadLimits, WriteRefused, LimitsCallFails
<1> QED
  BY <1>1, <1>2 DEF LoopStep, limitsVars

-----------------------------------------------------------------------------
Revealed(k) == row[k] \in {"active", "suspended", "gone"}

(* A key that is being issued has no row yet and one request that issues   *)
(* it; every other handler is about a key whose row has been committed.    *)
Ownership ==
    /\ \A q \in Requests : Issuing(q) => row[req[q].key] = "drawn"
    /\ \A q1, q2 \in Requests :
          Issuing(q1) /\ Issuing(q2) /\ req[q1].key = req[q2].key => q1 = q2
    /\ \A k \in Keys : row[k] = "drawn" =>
          \E q \in Requests : Issuing(q) /\ req[q].key = k
    /\ \A q \in Requests :
          req[q].at \in {"get", "put", "mark", "drop", "unlimit", "delete"} =>
              Revealed(req[q].key)
    /\ \A q \in Requests : req[q].at = "block" =>
          \A k \in req[q].cut : Revealed(k)

(* What is about to be recorded as suspended is off at the gateway, and    *)
(* stays off: only issuing turns a subscription on.                        *)
OffBeforeRow ==
    /\ \A q \in Requests : req[q].at = "mark" => sub[req[q].key] # "active"
    /\ \A q \in Requests : req[q].at = "block" =>
          \A k \in req[q].cut : k \notin req[q].todo => sub[k] # "active"
    /\ SuspendedIsOff

(* What loses its row, or never had one, is off or has failed.             *)
OffWithoutRow ==
    /\ \A q \in Requests :
          req[q].at \in {"unlimit", "delete"} /\ req[q].key \notin lapsed =>
              sub[req[q].key] # "active"
    /\ \A q \in Requests : req[q].at = "undo" => req[q].key \in lapsed
    /\ \A k \in Keys : row[k] \in {"unused", "gone"} /\ k \notin lapsed =>
          sub[k] # "active"

KeyInv == Ownership /\ OffBeforeRow /\ OffWithoutRow

(* A step that enters a handler about a committed key, or about no key.    *)
LEMMA EnterKeepsKeys ==
    ASSUME StateInv, KeyInv, NEW r \in Requests, NEW h \in Handlers, HandlerOK(h),
           Enter(r, h),
           \/ h.at \in {"get", "drop"} /\ HasRow(h.key)
           \/ h.at \in {"toggle", "cascade", "ensure"}
           \/ /\ h.at = "block" /\ h.todo = h.cut
              /\ \A k \in h.cut : row[k] = "active",
           UNCHANGED <<row, sub, lapsed>>
    PROVE  KeyInv'
<1>1. \A q \in Requests : req'[q] = IF q = r THEN h ELSE req[q]
  BY EnterTyped DEF StateInv
<1>2. req[r].at = "free"
  BY DEF Enter
<1>3. Ownership'
  BY <1>1, <1>2 DEF KeyInv, Ownership, Issuing, Revealed, HasRow
<1>4. OffBeforeRow'
  BY <1>1 DEF KeyInv, OffBeforeRow, SuspendedIsOff
<1>5. OffWithoutRow'
  BY <1>1 DEF KeyInv, OffWithoutRow
<1> QED
  BY <1>3, <1>4, <1>5 DEF KeyInv

(* Calls that fail only add to the keys that are excepted.                 *)
LEMMA LapsedGrows ==
    ASSUME NEW ks, Works \/ Fails(ks) \/ lapsed' = lapsed \cup ks
    PROVE  lapsed \subseteq lapsed'
BY DEF Works, Fails

(* Issuing a key (create_key).                                             *)
LEMMA IssueKeepsKeys ==
    ASSUME StateInv, KeyInv, NEW r \in Requests,
           \/ \E k \in Keys : CreateKey(r, k)
           \/ Subscribe(r) \/ StoreSecret(r) \/ IssueFails(r) \/ FlagNewKey(r)
           \/ InsertRow(r) \/ UndoSubscription(r) \/ UndoSecret(r)
    PROVE  KeyInv'
<1>0. /\ req[r] \in Handlers /\ (req[r].at \in KeySteps => req[r].key \in Keys)
      /\ \A q \in Requests : req[q].at = "block" => req[q].cut \subseteq Keys
      /\ \A q \in Requests : req[q].at \in KeySteps => req[q].key \in Keys
      /\ row \in [Keys -> {"unused", "drawn", "active", "suspended", "gone"}]
      /\ sub \in [Keys -> {"none", "active", "suspended"}]
  BY DEF StateInv, HandlersInv, HandlerOK, Handlers, TablesInv
<1>1. ASSUME NEW k \in Keys, CreateKey(r, k)
      PROVE  KeyInv'
  <2> DEFINE h == Handler("subscribe", k, Nil, tenant[TenantOf[ProjectOf[k]]].audit)
  <2>1. h.at = "subscribe" /\ h.key = k
    BY DEF Handler
  <2>2. \A q \in Requests : req'[q] = IF q = r THEN h ELSE req[q]
    BY <1>1 DEF CreateKey, Enter, StateInv, HandlersInv
  <2> HIDE DEF h
  <2>3. /\ row[k] = "unused" /\ row'[k] = "drawn"
        /\ \A x \in Keys : x # k => row'[x] = row[x]
        /\ sub' = sub /\ lapsed' = lapsed
    BY <1>0, <1>1 DEF CreateKey, Works
  <2>4. Ownership'
    <3>1. req[r].at = "free" /\ Issuing(r)' /\ req'[r].key = k
      BY <1>1, <2>1, <2>2 DEF CreateKey, Enter, Issuing
    <3>2. \A q \in Requests : Issuing(q) => row[req[q].key] = "drawn" /\ req[q].key # k
      BY <2>3 DEF KeyInv, Ownership
    <3>3. \A q \in Requests : q # r =>
             req'[q] = req[q] /\ (Issuing(q)' <=> Issuing(q))
      BY <2>2 DEF Issuing
    <3>4. /\ \A q \in Requests : (Issuing(q) => row[req[q].key] = "drawn")'
          /\ \A q1, q2 \in Requests :
               (Issuing(q1) /\ Issuing(q2) /\ req[q1].key = req[q2].key)' => q1 = q2
      BY <1>0, <2>3, <3>1, <3>2, <3>3 DEF KeyInv, Ownership, Issuing, KeySteps
    <3>5. \A x \in Keys : row'[x] = "drawn" =>
             \E q \in Requests : (Issuing(q) /\ req[q].key = x)'
      <4>1. CASE \E q \in Requests : q = r
        BY <2>3, <3>1, <3>3 DEF KeyInv, Ownership, Issuing
      <4> QED
        BY <4>1
    <3>6. \A q \in Requests : \A x \in Keys : Revealed(x) => Revealed(x)'
      BY <2>3 DEF Revealed
    <3>7. /\ \A q \in Requests :
               (req[q].at \in {"get", "put", "mark", "drop", "unlimit", "delete"} =>
                  Revealed(req[q].key))'
          /\ \A q \in Requests : (req[q].at = "block" =>
               \A x \in req[q].cut : Revealed(x))'
      BY <1>0, <2>1, <2>2, <3>6 DEF KeyInv, Ownership, KeySteps, Revealed
    <3> QED
      BY <3>4, <3>5, <3>7 DEF Ownership
  <2>5. OffBeforeRow'
    BY <1>0, <2>1, <2>2, <2>3 DEF KeyInv, OffBeforeRow, SuspendedIsOff
  <2>6. OffWithoutRow'
    BY <1>0, <2>1, <2>2, <2>3 DEF KeyInv, OffWithoutRow
  <2> QED
    BY <2>4, <2>5, <2>6 DEF KeyInv
<1>2. CASE Subscribe(r)
  <2> DEFINE k == req[r].key
  <2>1. req[r].at \in KeySteps /\ "vault" \in KeySteps
    BY <1>2 DEF Subscribe, KeySteps
  <2>2. /\ req'[r].at = "vault" /\ req'[r].key = k
        /\ \A q \in Requests : q # r => req'[q] = req[q]
    BY <1>2, <2>1, GotoTyped DEF Subscribe, StateInv
  <2>3. req[r].at = "subscribe" /\ row' = row
        /\ (\A x \in Keys : x # k => sub'[x] = sub[x]) /\ sub'[k] = "active"
        /\ lapsed' = lapsed
    BY <1>0, <1>2, <2>1, KeyServiceAssumption DEF Subscribe, Works, Fails, dbVars
  <2>4. Ownership'
    BY <1>0, <2>1, <2>2, <2>3 DEF KeyInv, Ownership, Issuing, Revealed, KeySteps
  <2>5. OffBeforeRow'
    BY <1>0, <2>1, <2>2, <2>3 DEF KeyInv, OffBeforeRow, Ownership, Issuing, Revealed, SuspendedIsOff, KeySteps
  <2>6. OffWithoutRow'
    BY <1>0, <2>1, <2>2, <2>3 DEF KeyInv, OffWithoutRow, Ownership, Issuing, Revealed, KeySteps
  <2> QED
    BY <2>4, <2>5, <2>6 DEF KeyInv
<1>3. CASE StoreSecret(r)
  <2> DEFINE k == req[r].key
  <2>1. req[r].at \in KeySteps /\ "limits" \in KeySteps
    BY <1>3 DEF StoreSecret, KeySteps
  <2>2. /\ req'[r].at = "limits" /\ req'[r].key = k
        /\ \A q \in Requests : q # r => req'[q] = req[q]
    BY <1>3, <2>1, GotoTyped DEF StoreSecret, StateInv
  <2>3. req[r].at = "vault" /\ row' = row
        /\ (\A x \in Keys : x # k => sub'[x] = sub[x]) /\ sub' = sub
        /\ lapsed' = lapsed
    BY <1>0, <1>3, <2>1, KeyServiceAssumption DEF StoreSecret, Works, Fails, dbVars
  <2>4. Ownership'
    BY <1>0, <2>1, <2>2, <2>3 DEF KeyInv, Ownership, Issuing, Revealed, KeySteps
  <2>5. OffBeforeRow'
    BY <1>0, <2>1, <2>2, <2>3 DEF KeyInv, OffBeforeRow, Ownership, Issuing, Revealed, SuspendedIsOff, KeySteps
  <2>6. OffWithoutRow'
    BY <1>0, <2>1, <2>2, <2>3 DEF KeyInv, OffWithoutRow, Ownership, Issuing, Revealed, KeySteps
  <2> QED
    BY <2>4, <2>5, <2>6 DEF KeyInv
<1>4. CASE IssueFails(r)
  <2> DEFINE k == req[r].key
  <2>1. req[r].at \in KeySteps
    BY <1>4 DEF IssueFails, KeySteps
  <2>2. /\ req'[r].at = "free"
        /\ \A q \in Requests : q # r => req'[q] = req[q]
    BY <1>4, EndTyped, FreeTyped DEF IssueFails, StateInv
  <2>3. req[r].at \in {"subscribe", "vault"} /\ row'[k] = "gone"
        /\ (\A x \in Keys : x # k => row'[x] = row[x] /\ sub'[x] = sub[x])
        /\ k \in lapsed' /\ lapsed \subseteq lapsed'
    BY <1>0, <1>4, <2>1 DEF IssueFails, Works, Fails, dbVars
  <2>4. Ownership'
    BY <1>0, <2>1, <2>2, <2>3 DEF KeyInv, Ownership, Issuing, Revealed, KeySteps
  <2>5. OffBeforeRow'
    BY <1>0, <2>1, <2>2, <2>3 DEF KeyInv, OffBeforeRow, Ownership, Issuing, Revealed, SuspendedIsOff, KeySteps
  <2>6. OffWithoutRow'
    BY <1>0, <2>1, <2>2, <2>3 DEF KeyInv, OffWithoutRow, Ownership, Issuing, Revealed, KeySteps
  <2> QED
    BY <2>4, <2>5, <2>6 DEF KeyInv
<1>5. CASE FlagNewKey(r)
  <2> DEFINE k == req[r].key
  <2>1. req[r].at \in KeySteps /\ "flag" \in KeySteps
    BY <1>5 DEF FlagNewKey, KeySteps
  <2>2. /\ req'[r].at = "flag" /\ req'[r].key = k
        /\ \A q \in Requests : q # r => req'[q] = req[q]
    BY <1>5, <2>1, GotoTyped DEF FlagNewKey, StateInv
  <2>3. req[r].at = "limits" /\ row' = row
        /\ (\A x \in Keys : x # k => sub'[x] = sub[x]) /\ sub' = sub
        /\ lapsed' = lapsed
    BY <1>0, <1>5, <2>1, KeyServiceAssumption DEF FlagNewKey, Works, Fails, dbVars
  <2>4. Ownership'
    BY <1>0, <2>1, <2>2, <2>3 DEF KeyInv, Ownership, Issuing, Revealed, KeySteps
  <2>5. OffBeforeRow'
    BY <1>0, <2>1, <2>2, <2>3 DEF KeyInv, OffBeforeRow, Ownership, Issuing, Revealed, SuspendedIsOff, KeySteps
  <2>6. OffWithoutRow'
    BY <1>0, <2>1, <2>2, <2>3 DEF KeyInv, OffWithoutRow, Ownership, Issuing, Revealed, KeySteps
  <2> QED
    BY <2>4, <2>5, <2>6 DEF KeyInv
<1>6. CASE InsertRow(r)
  <2> DEFINE k == req[r].key
  <2>1. req[r].at \in KeySteps
    BY <1>6 DEF InsertRow, KeySteps
  <2>2. /\ req'[r].at = "free"
        /\ \A q \in Requests : q # r => req'[q] = req[q]
    BY <1>6, EndTyped, FreeTyped DEF InsertRow, StateInv
  <2>3. req[r].at \in {"limits", "flag"} /\ sub' = sub
        /\ (row'[k] = "active" \/ (row'[k] = "gone" /\ k \in lapsed'))
        /\ (\A x \in Keys : x # k => row'[x] = row[x])
        /\ lapsed \subseteq lapsed'
    <3>1. req[r].at \in {"limits", "flag"} /\ sub' = sub
      BY <1>6 DEF InsertRow
    <3>2. \/ row' = [row EXCEPT ![k] = "active"] /\ lapsed' = lapsed
          \/ row' = [row EXCEPT ![k] = "gone"] /\ lapsed' = lapsed \cup {k}
      BY <1>6 DEF InsertRow, Fails, Works
    <3>3. k \in Keys
      BY <1>0, <2>1
    <3>4. CASE row' = [row EXCEPT ![k] = "active"] /\ lapsed' = lapsed
      <4>1. row'[k] = "active" /\ \A x \in Keys : x # k => row'[x] = row[x]
        BY <1>0, <3>3, <3>4
      <4>2. lapsed \subseteq lapsed'
        BY <3>4
      <4> QED
        BY <3>1, <4>1, <4>2
    <3>5. CASE row' = [row EXCEPT ![k] = "gone"] /\ lapsed' = lapsed \cup {k}
      BY <1>0, <3>1, <3>3, <3>5
    <3> QED
      BY <3>2, <3>4, <3>5
  <2>4. Ownership'
    BY <1>0, <2>1, <2>2, <2>3 DEF KeyInv, Ownership, Issuing, Revealed, KeySteps
  <2>5. OffBeforeRow'
    BY <1>0, <2>1, <2>2, <2>3 DEF KeyInv, OffBeforeRow, Ownership, Issuing, Revealed, SuspendedIsOff, KeySteps
  <2>6. OffWithoutRow'
    BY <1>0, <2>1, <2>2, <2>3 DEF KeyInv, OffWithoutRow, Ownership, Issuing, Revealed, KeySteps
  <2> QED
    BY <2>4, <2>5, <2>6 DEF KeyInv
<1>7. CASE UndoSubscription(r)
  <2> DEFINE k == req[r].key
  <2>1. req[r].at \in KeySteps /\ "undo" \in KeySteps
    BY <1>7 DEF UndoSubscription, KeySteps
  <2>2. /\ req'[r].at = "undo" /\ req'[r].key = k
        /\ \A q \in Requests : q # r => req'[q] = req[q]
    BY <1>7, <2>1, GotoTyped DEF UndoSubscription, StateInv
  <2>3. req[r].at \in {"limits", "flag"} /\ row' = row
        /\ (\A x \in Keys : x # k => sub'[x] = sub[x]) /\ sub'[k] \in {"none", sub[k]}
        /\ lapsed \subseteq lapsed' /\ k \in lapsed'
    BY <1>0, <1>7, <2>1, KeyServiceAssumption DEF UndoSubscription, Works, Fails, dbVars
  <2>4. Ownership'
    BY <1>0, <2>1, <2>2, <2>3 DEF KeyInv, Ownership, Issuing, Revealed, KeySteps
  <2>5. OffBeforeRow'
    BY <1>0, <2>1, <2>2, <2>3 DEF KeyInv, OffBeforeRow, Ownership, Issuing, Revealed, SuspendedIsOff, KeySteps
  <2>6. OffWithoutRow'
    BY <1>0, <2>1, <2>2, <2>3 DEF KeyInv, OffWithoutRow, Ownership, Issuing, Revealed, KeySteps
  <2> QED
    BY <2>4, <2>5, <2>6 DEF KeyInv
<1>8. CASE UndoSecret(r)
  <2> DEFINE k == req[r].key
  <2>1. req[r].at \in KeySteps
    BY <1>8 DEF UndoSecret, KeySteps
  <2>2. /\ req'[r].at = "free"
        /\ \A q \in Requests : q # r => req'[q] = req[q]
    BY <1>8, EndTyped, FreeTyped DEF UndoSecret, StateInv
  <2>3. req[r].at = "undo" /\ sub' = sub /\ row'[k] = "gone"
        /\ (\A x \in Keys : x # k => row'[x] = row[x])
        /\ lapsed \subseteq lapsed'
    BY <1>0, <1>8, <2>1 DEF UndoSecret, Works, Fails, dbVars
  <2>4. Ownership'
    BY <1>0, <2>1, <2>2, <2>3 DEF KeyInv, Ownership, Issuing, Revealed, KeySteps
  <2>5. OffBeforeRow'
    BY <1>0, <2>1, <2>2, <2>3 DEF KeyInv, OffBeforeRow, Ownership, Issuing, Revealed, SuspendedIsOff, KeySteps
  <2>6. OffWithoutRow'
    BY <1>0, <2>1, <2>2, <2>3 DEF KeyInv, OffWithoutRow, Ownership, Issuing, Revealed, KeySteps
  <2> QED
    BY <2>4, <2>5, <2>6 DEF KeyInv
<1> QED
  BY <1>1, <1>2, <1>3, <1>4, <1>5, <1>6, <1>7, <1>8

(* Suspending a key (suspend_key).                                         *)
LEMMA SuspendKeepsKeys ==
    ASSUME StateInv, KeyInv, NEW r \in Requests,
           \/ \E k \in Keys : SuspendKey(r, k)
           \/ GetSubscription(r) \/ PutState(r) \/ PutStateFails(r)
           \/ MarkSuspended(r)
    PROVE  KeyInv'
<1>0. /\ req[r] \in Handlers /\ (req[r].at \in KeySteps => req[r].key \in Keys)
      /\ \A q \in Requests : req[q].at = "block" => req[q].cut \subseteq Keys
      /\ \A q \in Requests : req[q].at \in KeySteps => req[q].key \in Keys
      /\ row \in [Keys -> {"unused", "drawn", "active", "suspended", "gone"}]
      /\ sub \in [Keys -> {"none", "active", "suspended"}]
  BY DEF StateInv, HandlersInv, HandlerOK, Handlers, TablesInv
<1>1. ASSUME NEW k \in Keys, SuspendKey(r, k)
      PROVE  KeyInv'
  <2> DEFINE h == Handler("get", k, Nil, FALSE)
  <2>1. h \in Handlers /\ h.at = "get" /\ h.key = k
    BY DEF Handler, Handlers, KeySteps, OtherSteps
  <2>2. Enter(r, h) /\ UNCHANGED <<row, sub, lapsed>>
    BY <1>1 DEF SuspendKey, Works, dbVars
  <2>3. HasRow(k)
    BY <1>1 DEF SuspendKey
  <2> HIDE DEF h
  <2>4. HandlerOK(h)
    BY <2>1 DEF HandlerOK, KeySteps
  <2> QED
    BY <2>1, <2>2, <2>3, <2>4, EnterKeepsKeys
<1>2. CASE GetSubscription(r)
  <2> DEFINE k == req[r].key
  <2>1. req[r].at \in KeySteps /\ (IF sub[k] = "none" THEN "mark" ELSE "put") \in KeySteps
    BY <1>2 DEF GetSubscription, KeySteps
  <2>2. /\ req'[r].at = (IF sub[k] = "none" THEN "mark" ELSE "put") /\ req'[r].key = k
        /\ \A q \in Requests : q # r => req'[q] = req[q]
    BY <1>2, <2>1, GotoTyped DEF GetSubscription, StateInv
  <2>3. req[r].at = "get" /\ UNCHANGED <<row, sub, lapsed>>
    BY <1>0, <1>2, <2>1, KeyServiceAssumption DEF GetSubscription, Works, Fails, dbVars
  <2>4. Ownership'
    BY <1>0, <2>1, <2>2, <2>3 DEF KeyInv, Ownership, Issuing, Revealed, KeySteps
  <2>5. OffBeforeRow'
    BY <1>0, <2>1, <2>2, <2>3 DEF KeyInv, OffBeforeRow, Ownership, Issuing, Revealed, SuspendedIsOff, KeySteps
  <2>6. OffWithoutRow'
    BY <1>0, <2>1, <2>2, <2>3 DEF KeyInv, OffWithoutRow, Ownership, Issuing, Revealed, KeySteps
  <2> QED
    BY <2>4, <2>5, <2>6 DEF KeyInv
<1>3. CASE PutState(r)
  <2> DEFINE k == req[r].key
  <2>1. req[r].at \in KeySteps /\ "mark" \in KeySteps
    BY <1>3 DEF PutState, KeySteps
  <2>2. /\ req'[r].at = "mark" /\ req'[r].key = k
        /\ \A q \in Requests : q # r => req'[q] = req[q]
    BY <1>3, <2>1, GotoTyped DEF PutState, StateInv
  <2>3. req[r].at = "put" /\ row' = row /\ lapsed' = lapsed
        /\ (\A x \in Keys : x # k => sub'[x] = sub[x]) /\ sub'[k] = "suspended"
    BY <1>0, <1>3, <2>1, KeyServiceAssumption DEF PutState, Works, Fails, dbVars
  <2>4. Ownership'
    BY <1>0, <2>1, <2>2, <2>3 DEF KeyInv, Ownership, Issuing, Revealed, KeySteps
  <2>5. OffBeforeRow'
    BY <1>0, <2>1, <2>2, <2>3 DEF KeyInv, OffBeforeRow, Ownership, Issuing, Revealed, SuspendedIsOff, KeySteps
  <2>6. OffWithoutRow'
    BY <1>0, <2>1, <2>2, <2>3 DEF KeyInv, OffWithoutRow, Ownership, Issuing, Revealed, KeySteps
  <2> QED
    BY <2>4, <2>5, <2>6 DEF KeyInv
<1>4. CASE PutStateFails(r)
  <2> DEFINE k == req[r].key
  <2>1. req[r].at \in KeySteps
    BY <1>4 DEF PutStateFails, KeySteps
  <2>2. /\ req'[r].at = "free"
        /\ \A q \in Requests : q # r => req'[q] = req[q]
    BY <1>4, EndTyped, FreeTyped DEF PutStateFails, StateInv
  <2>3. req[r].at \in {"get", "put"} /\ row' = row
        /\ (\A x \in Keys : x # k => sub'[x] = sub[x]) /\ sub'[k] \in {sub[k], "suspended"}
        /\ lapsed \subseteq lapsed'
    BY <1>0, <1>4, <2>1 DEF PutStateFails, Works, Fails, dbVars
  <2>4. Ownership'
    BY <1>0, <2>1, <2>2, <2>3 DEF KeyInv, Ownership, Issuing, Revealed, KeySteps
  <2>5. OffBeforeRow'
    BY <1>0, <2>1, <2>2, <2>3 DEF KeyInv, OffBeforeRow, Ownership, Issuing, Revealed, SuspendedIsOff, KeySteps
  <2>6. OffWithoutRow'
    BY <1>0, <2>1, <2>2, <2>3 DEF KeyInv, OffWithoutRow, Ownership, Issuing, Revealed, KeySteps
  <2> QED
    BY <2>4, <2>5, <2>6 DEF KeyInv
<1>5. CASE MarkSuspended(r)
  <2> DEFINE k == req[r].key
  <2>1. req[r].at \in KeySteps
    BY <1>5 DEF MarkSuspended, KeySteps
  <2>2. /\ req'[r].at = "free"
        /\ \A q \in Requests : q # r => req'[q] = req[q]
    BY <1>5, EndTyped, FreeTyped DEF MarkSuspended, StateInv
  <2>3. req[r].at = "mark" /\ sub' = sub
        /\ (\A x \in Keys : x # k => row'[x] = row[x])
        /\ (row'[k] = row[k] \/ (HasRow(k) /\ row'[k] = "suspended"))
        /\ lapsed \subseteq lapsed'
    BY <1>0, <1>5, <2>1 DEF MarkSuspended, Works, Fails, dbVars
  <2>4. Ownership'
    BY <1>0, <2>1, <2>2, <2>3 DEF KeyInv, Ownership, Issuing, Revealed, HasRow, KeySteps
  <2>5. OffBeforeRow'
    BY <1>0, <2>1, <2>2, <2>3 DEF KeyInv, OffBeforeRow, Ownership, Issuing, Revealed, SuspendedIsOff, KeySteps
  <2>6. OffWithoutRow'
    BY <1>0, <2>1, <2>2, <2>3 DEF KeyInv, OffWithoutRow, Ownership, Issuing, Revealed, HasRow, KeySteps
  <2> QED
    BY <2>4, <2>5, <2>6 DEF KeyInv
<1> QED
  BY <1>1, <1>2, <1>3, <1>4, <1>5

(* Revoking a key (delete_key).                                            *)
LEMMA RevokeKeepsKeys ==
    ASSUME StateInv, KeyInv, NEW r \in Requests,
           \/ \E k \in Keys : DeleteKey(r, k)
           \/ DropSubscription(r) \/ DropSecret(r) \/ DropRow(r)
    PROVE  KeyInv'
<1>0. /\ req[r] \in Handlers /\ (req[r].at \in KeySteps => req[r].key \in Keys)
      /\ \A q \in Requests : req[q].at = "block" => req[q].cut \subseteq Keys
      /\ \A q \in Requests : req[q].at \in KeySteps => req[q].key \in Keys
      /\ row \in [Keys -> {"unused", "drawn", "active", "suspended", "gone"}]
      /\ sub \in [Keys -> {"none", "active", "suspended"}]
  BY DEF StateInv, HandlersInv, HandlerOK, Handlers, TablesInv
<1>1. ASSUME NEW k \in Keys, DeleteKey(r, k)
      PROVE  KeyInv'
  <2> DEFINE h == Handler("drop", k, Nil, FALSE)
  <2>1. h \in Handlers /\ h.at = "drop" /\ h.key = k
    BY DEF Handler, Handlers, KeySteps, OtherSteps
  <2>2. Enter(r, h) /\ UNCHANGED <<row, sub, lapsed>>
    BY <1>1 DEF DeleteKey, Works, dbVars
  <2>3. HasRow(k)
    BY <1>1 DEF DeleteKey
  <2> HIDE DEF h
  <2>4. HandlerOK(h)
    BY <2>1 DEF HandlerOK, KeySteps
  <2> QED
    BY <2>1, <2>2, <2>3, <2>4, EnterKeepsKeys
<1>2. CASE DropSubscription(r)
  <2> DEFINE k == req[r].key
  <2>1. req[r].at \in KeySteps /\ "unlimit" \in KeySteps
    BY <1>2 DEF DropSubscription, KeySteps
  <2>2. /\ req'[r].at = "unlimit" /\ req'[r].key = k
        /\ \A q \in Requests : q # r => req'[q] = req[q]
    BY <1>2, <2>1, GotoTyped DEF DropSubscription, StateInv
  <2>3. req[r].at = "drop" /\ row' = row /\ lapsed \subseteq lapsed'
        /\ (\A x \in Keys : x # k => sub'[x] = sub[x])
        /\ (sub'[k] = "none" \/ (sub'[k] = sub[k] /\ k \in lapsed'))
    BY <1>0, <1>2, <2>1, KeyServiceAssumption DEF DropSubscription, Works, Fails, dbVars
  <2>4. Ownership'
    BY <1>0, <2>1, <2>2, <2>3 DEF KeyInv, Ownership, Issuing, Revealed, KeySteps
  <2>5. OffBeforeRow'
    BY <1>0, <2>1, <2>2, <2>3 DEF KeyInv, OffBeforeRow, Ownership, Issuing, Revealed, SuspendedIsOff, KeySteps
  <2>6. OffWithoutRow'
    BY <1>0, <2>1, <2>2, <2>3 DEF KeyInv, OffWithoutRow, Ownership, Issuing, Revealed, KeySteps
  <2> QED
    BY <2>4, <2>5, <2>6 DEF KeyInv
<1>3. CASE DropSecret(r)
  <2> DEFINE k == req[r].key
  <2>1. req[r].at \in KeySteps /\ "delete" \in KeySteps
    BY <1>3 DEF DropSecret, KeySteps
  <2>2. /\ req'[r].at = "delete" /\ req'[r].key = k
        /\ \A q \in Requests : q # r => req'[q] = req[q]
    BY <1>3, <2>1, GotoTyped DEF DropSecret, StateInv
  <2>3. req[r].at = "unlimit" /\ row' = row /\ sub' = sub
        /\ lapsed \subseteq lapsed'
    BY <1>0, <1>3, <2>1, KeyServiceAssumption DEF DropSecret, Works, Fails, dbVars
  <2>4. Ownership'
    BY <1>0, <2>1, <2>2, <2>3 DEF KeyInv, Ownership, Issuing, Revealed, KeySteps
  <2>5. OffBeforeRow'
    BY <1>0, <2>1, <2>2, <2>3 DEF KeyInv, OffBeforeRow, Ownership, Issuing, Revealed, SuspendedIsOff, KeySteps
  <2>6. OffWithoutRow'
    BY <1>0, <2>1, <2>2, <2>3 DEF KeyInv, OffWithoutRow, Ownership, Issuing, Revealed, KeySteps
  <2> QED
    BY <2>4, <2>5, <2>6 DEF KeyInv
<1>4. CASE DropRow(r)
  <2> DEFINE k == req[r].key
  <2>1. req[r].at \in KeySteps
    BY <1>4 DEF DropRow, KeySteps
  <2>2. /\ req'[r].at = "free"
        /\ \A q \in Requests : q # r => req'[q] = req[q]
    BY <1>4, EndTyped, FreeTyped DEF DropRow, StateInv
  <2>3. req[r].at = "delete" /\ sub' = sub /\ lapsed \subseteq lapsed'
        /\ (\A x \in Keys : x # k => row'[x] = row[x])
        /\ row'[k] \in {row[k], "gone"}
    BY <1>0, <1>4, <2>1 DEF DropRow, Works, Fails, dbVars
  <2>4. Ownership'
    BY <1>0, <2>1, <2>2, <2>3 DEF KeyInv, Ownership, Issuing, Revealed, KeySteps
  <2>5. OffBeforeRow'
    BY <1>0, <2>1, <2>2, <2>3 DEF KeyInv, OffBeforeRow, Ownership, Issuing, Revealed, SuspendedIsOff, KeySteps
  <2>6. OffWithoutRow'
    BY <1>0, <2>1, <2>2, <2>3 DEF KeyInv, OffWithoutRow, Ownership, Issuing, Revealed, KeySteps
  <2> QED
    BY <2>4, <2>5, <2>6 DEF KeyInv
<1> QED
  BY <1>1, <1>2, <1>3, <1>4

(* Steps that leave rows and subscriptions alone.                          *)
LEMMA PauseKeepsKeys ==
    ASSUME StateInv, KeyInv, UNCHANGED <<req, row, sub>>, lapsed \subseteq lapsed'
    PROVE  KeyInv'
<1>1. Ownership' /\ OffBeforeRow'
  BY DEF KeyInv, Ownership, OffBeforeRow, Issuing, Revealed, SuspendedIsOff
<1>2. OffWithoutRow'
  BY DEF KeyInv, OffWithoutRow
<1> QED
  BY <1>1, <1>2 DEF KeyInv

LEMMA EndKeepsKeys ==
    ASSUME StateInv, KeyInv, NEW r \in Requests, req[r].at \in OtherSteps, End(r),
           UNCHANGED <<row, sub>>, lapsed \subseteq lapsed'
    PROVE  KeyInv'
<1>1. /\ req'[r].at = "free"
      /\ \A q \in Requests : q # r => req'[q] = req[q]
  BY EndTyped, FreeTyped DEF StateInv
<1>2. Ownership'
  BY <1>1 DEF KeyInv, Ownership, Issuing, Revealed, OtherSteps
<1>3. OffBeforeRow'
  BY <1>1 DEF KeyInv, OffBeforeRow, SuspendedIsOff
<1>4. OffWithoutRow'
  BY <1>1 DEF KeyInv, OffWithoutRow
<1> QED
  BY <1>2, <1>3, <1>4 DEF KeyInv

(* Tenants, projects, the audit toggle and the loops.                      *)
LEMMA TenantKeepsKeys ==
    ASSUME StateInv, KeyInv, NEW r \in Requests,
           \/ \E t \in Tenants : \/ DeleteTenant(r, t)
                                 \/ \E on \in BOOLEAN : ToggleAudit(r, t, on)
           \/ \E p \in Projects : DeleteProject(r, p)
           \/ RecordAudit(r) \/ ToggleRefused(r) \/ Cascade(r)
           \/ EnsureNamedValue(r) \/ NamedValueEnsured(r) \/ LimitsLoop(r)
    PROVE  KeyInv'
<1>1. ASSUME NEW t \in Tenants, DeleteTenant(r, t)
      PROVE  KeyInv'
  <2> DEFINE h == Handler("cascade", Nil, {p \in Projects : TenantOf[p] = t}, TRUE)
  <2>1. h \in Handlers /\ h.at = "cascade" /\ h.of \in SUBSET Projects
    BY DEF Handler, Handlers, KeySteps, OtherSteps
  <2>2. Enter(r, h) /\ UNCHANGED <<row, sub, lapsed>>
    BY <1>1 DEF DeleteTenant, Works, dbVars
  <2> HIDE DEF h
  <2>4. HandlerOK(h)
    BY <2>1 DEF HandlerOK, KeySteps
  <2> QED
    BY <2>1, <2>2, <2>4, EnterKeepsKeys
<1>2. ASSUME NEW t \in Tenants, NEW on \in BOOLEAN, ToggleAudit(r, t, on)
      PROVE  KeyInv'
  <2> DEFINE h == Handler("toggle", Nil, t, on)
  <2>1. h \in Handlers /\ h.at = "toggle" /\ h.of \in Tenants
    BY DEF Handler, Handlers, KeySteps, OtherSteps
  <2>2. Enter(r, h) /\ UNCHANGED <<row, sub, lapsed>>
    BY <1>2 DEF ToggleAudit, Works, dbVars
  <2> HIDE DEF h
  <2>4. HandlerOK(h)
    BY <2>1 DEF HandlerOK, KeySteps
  <2> QED
    BY <2>1, <2>2, <2>4, EnterKeepsKeys
<1>3. ASSUME NEW p \in Projects, DeleteProject(r, p)
      PROVE  KeyInv'
  <2> DEFINE h == Handler("cascade", Nil, {p}, FALSE)
  <2>1. h \in Handlers /\ h.at = "cascade" /\ h.of \in SUBSET Projects
    BY DEF Handler, Handlers, KeySteps, OtherSteps
  <2>2. Enter(r, h) /\ UNCHANGED <<row, sub, lapsed>>
    BY <1>3 DEF DeleteProject, Works, dbVars
  <2> HIDE DEF h
  <2>4. HandlerOK(h)
    BY <2>1 DEF HandlerOK, KeySteps
  <2> QED
    BY <2>1, <2>2, <2>4, EnterKeepsKeys
<1>4. CASE RecordAudit(r)
  <2>1. req[r].at \in OtherSteps /\ End(r) /\ UNCHANGED <<row, sub>>
    BY <1>4 DEF RecordAudit, OtherSteps, dbVars
  <2>2. lapsed \subseteq lapsed'
    BY <1>4 DEF RecordAudit, Works, Fails
  <2> QED
    BY <2>1, <2>2, EndKeepsKeys
<1>5. CASE ToggleRefused(r)
  <2>1. req[r].at \in OtherSteps /\ End(r) /\ UNCHANGED <<row, sub>>
    BY <1>5 DEF ToggleRefused, OtherSteps, dbVars
  <2>2. lapsed \subseteq lapsed'
    BY <1>5 DEF ToggleRefused, Works, Fails
  <2> QED
    BY <2>1, <2>2, EndKeepsKeys
<1>6. CASE NamedValueEnsured(r)
  <2>1. req[r].at \in OtherSteps /\ End(r) /\ UNCHANGED <<row, sub>>
    BY <1>6 DEF NamedValueEnsured, OtherSteps, dbVars
  <2>2. lapsed \subseteq lapsed'
    BY <1>6 DEF NamedValueEnsured, Works, Fails
  <2> QED
    BY <2>1, <2>2, EndKeepsKeys
<1>7. CASE Cascade(r)
  <2> DEFINE taken == RowsIn({k \in Keys : ProjectOf[k] \in req[r].of})
  <2>1. req[r].at = "cascade" /\ sub' = sub /\ lapsed' = lapsed \cup taken
    BY <1>7 DEF Cascade
  <2>2. \A k \in Keys : /\ row'[k] = IF k \in taken THEN "gone" ELSE row[k]
                        /\ k \in taken => HasRow(k)
    BY <1>7 DEF Cascade, RowsIn
  <2>3. /\ req'[r].at = "free"
        /\ \A q \in Requests : q # r => req'[q] = req[q]
    BY <1>7, EndTyped, FreeTyped DEF Cascade, StateInv
  <2>4. \A q \in Requests : /\ req[q].at \in KeySteps => req[q].key \in Keys
                            /\ req[q].cut \subseteq Keys
    BY DEF StateInv, HandlersInv, HandlerOK, Handlers
  <2> HIDE DEF taken
  <2>5. Ownership'
    BY <2>1, <2>2, <2>3, <2>4 DEF KeyInv, Ownership, Issuing, Revealed, HasRow, KeySteps
  <2>6. OffBeforeRow'
    BY <2>1, <2>2, <2>3, <2>4 DEF KeyInv, OffBeforeRow, SuspendedIsOff, KeySteps
  <2>7. OffWithoutRow'
    BY <2>1, <2>2, <2>3, <2>4 DEF KeyInv, OffWithoutRow, KeySteps
  <2> QED
    BY <2>5, <2>6, <2>7 DEF KeyInv
<1>8. CASE EnsureNamedValue(r)
  <2> DEFINE h == Handler("ensure", Nil, Nil, FALSE)
  <2>1. "ensure" \in KeySteps \cup OtherSteps /\ Nil \in Keys \cup {Nil}
        /\ Nil \in Tenants \cup Budgets \cup (SUBSET Projects) \cup {Nil}
    BY DEF OtherSteps
  <2>2. h \in Handlers /\ h.at = "ensure"
    BY <2>1, HandlerTyped
  <2>3. Enter(r, h) /\ UNCHANGED <<row, sub, lapsed>>
    BY <1>8 DEF EnsureNamedValue, Works, dbVars
  <2> HIDE DEF h
  <2>4. HandlerOK(h)
    BY <2>2 DEF HandlerOK, KeySteps
  <2> QED
    BY <2>2, <2>3, <2>4, EnterKeepsKeys
<1>9. CASE LimitsLoop(r)
  <2>1. UNCHANGED <<req, row, sub>>
    BY <1>9 DEF LimitsLoop, dbVars
  <2>2. lapsed \subseteq lapsed'
    BY <1>9 DEF LimitsLoop, Works, Fails
  <2> QED
    BY <2>1, <2>2, PauseKeepsKeys
<1> QED
  BY <1>1, <1>2, <1>3, <1>4, <1>5, <1>6, <1>7, <1>8, <1>9

LEMMA CreationKeepsKeys ==
    ASSUME StateInv, KeyInv,
           \/ \E t \in Tenants : CreateTenant(t) \/ EnsureTenantProduct(t)
           \/ \E p \in Projects : CreateProject(p)
    PROVE  KeyInv'
<1>1. UNCHANGED <<req, row, sub>> /\ lapsed \subseteq lapsed'
  BY DEF CreateTenant, EnsureTenantProduct, CreateProject, Works
<1> QED
  BY <1>1, PauseKeepsKeys

(* Charges and the keys they block (BudgetEnforcer.add_spend).             *)
LEMMA ChargeKeepsKeys ==
    ASSUME StateInv, KeyInv, NEW r \in Requests,
           \/ \E b \in Budgets : AddSpend(r, b)
           \/ BlockKey(r) \/ PostSpend(r)
    PROVE  KeyInv'
<1>0. /\ \A q \in Requests : req[q].at \in KeySteps => req[q].key \in Keys
      /\ \A q \in Requests : req[q].cut \subseteq Keys /\ req[q].todo \subseteq Keys
      /\ row \in [Keys -> {"unused", "drawn", "active", "suspended", "gone"}]
      /\ sub \in [Keys -> {"none", "active", "suspended"}]
  BY DEF StateInv, HandlersInv, HandlerOK, Handlers, TablesInv
<1>1. ASSUME NEW b \in Budgets, AddSpend(r, b)
      PROVE  KeyInv'
  <2> DEFINE sum == spent[b] + 1
             over == sum >= Limit /\ b \in Blocking
             cut == IF over THEN {k \in Scope[b] : row[k] = "active"} ELSE {}
             h == [Handler("block", Nil, b, FALSE) EXCEPT
                      !.sum = sum, !.cut = cut, !.todo = cut,
                      !.saw = RowsIn(Scope[b])]
  <2>1. sum \in Nat /\ cut \in SUBSET Keys /\ RowsIn(Scope[b]) \in SUBSET Keys
    BY KeyServiceAssumption DEF RowsIn, StateInv, SumsInv
  <2>2. \A k \in cut : row[k] = "active"
    OBVIOUS
  <2> HIDE DEF sum, cut
  <2>3. h \in Handlers /\ h.at = "block" /\ h.of = b /\ h.cut = cut /\ h.todo = cut
    BY <2>1 DEF Handler, Handlers, KeySteps, OtherSteps
  <2>4. Enter(r, h) /\ UNCHANGED <<row, sub, lapsed>>
    BY <1>1 DEF AddSpend, sum, cut, Works, dbVars
  <2> HIDE DEF h
  <2>5. HandlerOK(h)
    BY <2>3 DEF HandlerOK, KeySteps
  <2> QED
    BY <2>2, <2>3, <2>4, <2>5, EnterKeepsKeys
<1>2. CASE BlockKey(r)
  <2> DEFINE off(k) == IF sub[k] = "none" THEN sub ELSE [sub EXCEPT ![k] = "suspended"]
  <2>1. PICK k \in req[r].todo :
           \/ sub' = off(k) /\ req' = [req EXCEPT ![r].todo = @ \ {k}] /\ Works
           \/ sub' \in {sub, off(k)} /\ req' = [req EXCEPT ![r] = Free] /\ Fails({k})
    BY <1>2 DEF BlockKey
  <2>2. req[r].at = "block" /\ row' = row /\ k \in Keys
    BY <1>0, <1>2, <2>1 DEF BlockKey, dbVars
  <2>3. lapsed \subseteq lapsed'
    BY <2>1 DEF Works, Fails
  <2>4. \A x \in Keys : sub'[x] = "active" => sub[x] = "active"
    BY <1>0, <2>1, <2>2
  <2>5. \/ /\ req'[r].at = "block" /\ req'[r].cut = req[r].cut
           /\ req'[r].todo = req[r].todo \ {k} /\ sub'[k] # "active"
        \/ req'[r].at = "free"
    <3>1. CASE sub' = off(k) /\ req' = [req EXCEPT ![r].todo = @ \ {k}]
      <4>1. req'[r] = [req[r] EXCEPT !.todo = @ \ {k}] /\ req[r] \in Handlers
        BY <3>1 DEF StateInv, HandlersInv
      <4>2. sub'[k] # "active"
        BY <1>0, <2>2, <3>1
      <4> QED
        BY <2>2, <4>1, <4>2 DEF Handlers
    <3>2. CASE req' = [req EXCEPT ![r] = Free]
      BY <3>2, FreeTyped DEF StateInv, HandlersInv
    <3> QED
      BY <2>1, <3>1, <3>2
  <2>6. \A q \in Requests : q # r => req'[q] = req[q]
    BY <2>1 DEF StateInv, HandlersInv
  <2>7. Ownership'
    BY <2>2, <2>5, <2>6 DEF KeyInv, Ownership, Issuing, Revealed
  <2>8. OffBeforeRow'
    BY <1>0, <2>2, <2>4, <2>5, <2>6 DEF KeyInv, OffBeforeRow, SuspendedIsOff, KeySteps
  <2>9. OffWithoutRow'
    BY <1>0, <2>2, <2>3, <2>4, <2>5, <2>6 DEF KeyInv, OffWithoutRow, KeySteps
  <2> QED
    BY <2>7, <2>8, <2>9 DEF KeyInv
<1>3. CASE PostSpend(r)
  <2> DEFINE cut == req[r].cut
  <2>1. /\ req'[r].at = "free"
        /\ \A q \in Requests : q # r => req'[q] = req[q]
    BY <1>3, EndTyped, FreeTyped DEF PostSpend, StateInv
  <2>2. req[r].at = "block" /\ req[r].todo = {} /\ sub' = sub /\ lapsed \subseteq lapsed'
    BY <1>3 DEF PostSpend, Works, Fails
  <2>3. \A k \in Keys : \/ row'[k] = row[k]
                        \/ k \in cut /\ HasRow(k) /\ row'[k] = "suspended"
    BY <1>3 DEF PostSpend, RowsIn
  <2> HIDE DEF cut
  <2>4. \A k \in Keys : k \in cut => sub[k] # "active"
    BY <2>2 DEF KeyInv, OffBeforeRow, cut
  <2>5. Ownership'
    BY <1>0, <2>1, <2>2, <2>3 DEF KeyInv, Ownership, Issuing, Revealed, HasRow, KeySteps
  <2>6. OffBeforeRow'
    BY <1>0, <2>1, <2>2, <2>3, <2>4 DEF KeyInv, OffBeforeRow, SuspendedIsOff, KeySteps
  <2>7. OffWithoutRow'
    BY <1>0, <2>1, <2>2, <2>3 DEF KeyInv, OffWithoutRow, KeySteps
  <2> QED
    BY <2>5, <2>6, <2>7 DEF KeyInv
<1> QED
  BY <1>1, <1>2, <1>3

-----------------------------------------------------------------------------
(* The three invariants together.                                          *)
Inv == StateInv /\ LimitsInv /\ KeyInv

LEMMA InitInv == KeyInit => Inv
<1> SUFFICES ASSUME KeyInit
             PROVE  Inv
  OBVIOUS
<1>1. \A r \in Requests : req[r] = Free
  BY DEF KeyInit
<1>2. HandlersInv
  BY FreeTyped DEF KeyInit, HandlersInv, HandlerOK, KeySteps
<1>3. TablesInv
  BY DEF KeyInit, TablesInv
<1>4. SumsInv
  BY <1>1, FreeTyped, KeyServiceAssumption DEF KeyInit, SumsInv
<1>5. LimitsInv
  BY LimitsInitInv DEF KeyInit
<1>6. KeyInv
  BY <1>1, FreeTyped DEF KeyInit, KeyInv, Ownership, OffBeforeRow, OffWithoutRow,
                         Issuing, SuspendedIsOff
<1> QED
  BY <1>2, <1>3, <1>4, <1>5, <1>6 DEF Inv, StateInv

LEMMA StepInv == Inv /\ [KeyNext]_vars => Inv'
<1> SUFFICES ASSUME Inv, [KeyNext]_vars
             PROVE  Inv'
  OBVIOUS
<1>1. LimitsInv'
  BY KeyStepIsLoopStep, LoopStepKeepsInv DEF Inv
<1>2. CASE UNCHANGED vars
  <2>1. TablesInv' /\ Counted /\ UNCHANGED <<req, starts, spent, row, sub, lapsed>>
    BY <1>2 DEF vars, dbVars, history, Inv, StateInv, TablesInv, SumsInv, Counted
  <2> QED
    BY <1>1, <2>1, PauseStep, PauseKeepsKeys DEF Inv
<1>3. CASE KeyNext
  <2>1. ASSUME NEW r \in Requests,
               \/ \E k \in Keys : CreateKey(r, k)
               \/ Subscribe(r) \/ StoreSecret(r) \/ IssueFails(r) \/ FlagNewKey(r)
               \/ InsertRow(r) \/ UndoSubscription(r) \/ UndoSecret(r)
        PROVE  StateInv' /\ KeyInv'
    BY <2>1, IssueTyped, IssueKeepsKeys DEF Inv
  <2>2. ASSUME NEW r \in Requests,
               \/ \E k \in Keys : SuspendKey(r, k)
               \/ GetSubscription(r) \/ PutState(r) \/ PutStateFails(r)
               \/ MarkSuspended(r)
        PROVE  StateInv' /\ KeyInv'
    BY <2>2, SuspendTyped, SuspendKeepsKeys DEF Inv
  <2>3. ASSUME NEW r \in Requests,
               \/ \E k \in Keys : DeleteKey(r, k)
               \/ DropSubscription(r) \/ DropSecret(r) \/ DropRow(r)
        PROVE  StateInv' /\ KeyInv'
    BY <2>3, RevokeTyped, RevokeKeepsKeys DEF Inv
  <2>4. ASSUME NEW r \in Requests,
               \/ \E t \in Tenants : \/ DeleteTenant(r, t)
                                     \/ \E on \in BOOLEAN : ToggleAudit(r, t, on)
               \/ \E p \in Projects : DeleteProject(r, p)
               \/ RecordAudit(r) \/ ToggleRefused(r) \/ Cascade(r)
               \/ EnsureNamedValue(r) \/ NamedValueEnsured(r) \/ LimitsLoop(r)
        PROVE  StateInv' /\ KeyInv'
    BY <2>4, TenantTyped, TenantKeepsKeys DEF Inv
  <2>5. ASSUME \/ \E t \in Tenants : CreateTenant(t) \/ EnsureTenantProduct(t)
               \/ \E p \in Projects : CreateProject(p)
        PROVE  StateInv' /\ KeyInv'
    <3>1. StateInv /\ KeyInv
      BY DEF Inv
    <3>2. StateInv'
      BY <2>5, <3>1, CreationTyped, Zenon
    <3>3. KeyInv'
      BY <2>5, <3>1, CreationKeepsKeys, Zenon
    <3> QED
      BY <3>2, <3>3
  <2>6. ASSUME NEW r \in Requests,
               \/ \E b \in Budgets : AddSpend(r, b)
               \/ BlockKey(r) \/ PostSpend(r)
        PROVE  StateInv' /\ KeyInv'
    BY <2>6, ChargeTyped, ChargeKeepsKeys DEF Inv
  <2>7. StateInv' /\ KeyInv'
    BY <1>3, <2>1, <2>2, <2>3, <2>4, <2>5, <2>6 DEF KeyNext
  <2> QED
    BY <1>1, <2>7 DEF Inv
<1> QED
  BY <1>2, <1>3

(* Every variable keeps its type, in every interleaving of the handlers.   *)
THEOREM TypesHold == Spec => []TypeOK
<1>1. Inv => TypeOK
  <2> SUFFICES ASSUME Inv
               PROVE  TypeOK
    OBVIOUS
  <2>1. \A n \in 0..starts : n \in 0..MaxStarts
    BY KeyServiceAssumption DEF Inv, StateInv, SumsInv
  <2>2. spent \in [Budgets -> 0..MaxStarts]
    BY <2>1 DEF Inv, StateInv, SumsInv
  <2> QED
    BY <2>2 DEF Inv, StateInv, TablesInv, SumsInv, LimitsInv, TypeOK
<1> QED
  BY <1>1, InitInv, StepInv, PTL DEF Spec

(* No request replaces entries of the limits map it has not read, when the *)
(* ETag is visible and the named value has always existed                  *)
(* (upsert_key_limits, set_audit_flag, remove_key_limits).                 *)
THEOREM NoUpdateIsLost == Spec => []NoLostUpdate
<1>1. Inv => NoLostUpdate
  BY DEF Inv, LimitsInv
<1> QED
  BY <1>1, InitInv, StepInv, PTL DEF Spec

(* The handlers change the shared map one change at a time, or are on      *)
(* record as having written it blindly: they implement LimitsMap.          *)
THEOREM HandlersImplementMap == Spec => OneChangeAtATime
<1>1. Inv /\ [KeyNext]_vars => [LM!Next \/ overwritten']_<<lim, aud>>
  BY KeyStepIsLoopStep, LoopStepIsOneChange DEF Inv
<1> QED
  BY <1>1, InitInv, StepInv, PTL DEF Spec, OneChangeAtATime

(* The gateway never serves a key whose row says suspended, whichever of   *)
(* suspend_key, delete_key, create_key, the cascades and add_spend race,   *)
(* and whichever of their calls fail.                                      *)
THEOREM SuspendedStaysOff == Spec => []SuspendedIsOff
<1>1. Inv => SuspendedIsOff
  BY DEF Inv, KeyInv, OffBeforeRow
<1> QED
  BY <1>1, InitInv, StepInv, PTL DEF Spec

(* What the gateway serves is in the database, or a handler is at work on  *)
(* it, or one of its calls has failed (create_key, delete_key,             *)
(* delete_project, delete_tenant).                                         *)
THEOREM ServedKeysHaveRows == Spec => []ServedHasRow
<1>1. Inv => ServedHasRow
  <2> SUFFICES ASSUME Inv, NEW k \in Keys \ lapsed, sub[k] = "active", ~Touched(k)
               PROVE  HasRow(k)
    BY DEF ServedHasRow
  <2>1. row[k] \in {"unused", "drawn", "active", "suspended", "gone"}
    BY DEF Inv, StateInv, TablesInv
  <2>2. row[k] \notin {"unused", "gone"}
    BY DEF Inv, KeyInv, OffWithoutRow
  <2>3. row[k] # "drawn"
    BY DEF Inv, KeyInv, Ownership, Touched
  <2> QED
    BY <2>1, <2>2, <2>3 DEF HasRow
<1> QED
  BY <1>1, InitInv, StepInv, PTL DEF Spec
=============================================================================
