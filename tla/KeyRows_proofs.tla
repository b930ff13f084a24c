--------------------------- MODULE KeyRows_proofs ---------------------------
(***************************************************************************)
(* Proofs that the database, the gateway's limits map and Key Vault agree  *)
(* about every key, for any number of requests, keys, tenants and budgets  *)
(* and any number of failing calls.                                        *)
(*                                                                         *)
(* What the map holds of a key is only changed by the loop of the one      *)
(* handler that issues or revokes it, or by a toggle of its tenant.  The   *)
(* invariants say where the key stands at each step of those handlers.     *)
(***************************************************************************)
EXTENDS KeyService_proofs

Owner(k) == TenantOf[ProjectOf[k]]
Toggling(q, t) == req[q].at = "toggle" /\ req[q].of = t
Toggled(q, t) == Toggling(q, t) /\ call[q].step = "done"
Begun(t) == tenant[t].live \/ tenant[t].product

LoopSteps == {"limits", "flag", "unlimit", "toggle", "ensure"}
IssueSteps == {"subscribe", "vault", "limits", "flag", "undo"}
RevokeSteps == {"drop", "unlimit", "delete"}

(* What the loop of a handler was entered for.                             *)
GoalOK(q) ==
    /\ req[q].at = "limits" =>
         call[q].goal = [kind |-> "limits", keys |-> {req[q].key},
                         on |-> req[q].key \in Limited]
    /\ req[q].at = "flag" =>
         /\ call[q].goal = [kind |-> "audit", keys |-> {req[q].key}, on |-> TRUE]
         /\ req[q].on
    /\ req[q].at = "unlimit" =>
         call[q].goal = [kind |-> "remove", keys |-> {req[q].key}, on |-> FALSE]
    /\ req[q].at = "toggle" =>
         /\ call[q].goal.kind = "audit" /\ call[q].goal.on = req[q].on
         /\ call[q].goal.keys \subseteq KeysOf(req[q].of)
    /\ req[q].at = "ensure" => call[q].goal.kind = "ensure"
    /\ req[q].at \notin LoopSteps => call[q].step = "idle"
GoalsInv == \A q \in Requests : GoalOK(q)

(* Where a key's limits and secret stand at each step of the handler that  *)
(* works on it, and once its row says that it is issued or gone.           *)
Own(k) == k \in lim <=> k \in Limited
LimitsInPlace ==
    /\ \A q \in Requests :
         /\ req[q].at = "limits" /\ call[q].step = "done" => Own(req[q].key)
         /\ req[q].at = "flag" => Own(req[q].key)
         /\ req[q].at = "unlimit" /\ call[q].step = "done" => req[q].key \notin lim
         /\ req[q].at = "delete" /\ req[q].key \notin lapsed =>
              req[q].key \notin lim \cup secret
    /\ \A k \in Keys \ lapsed :
         /\ row[k] = "gone" => k \notin lim \cup secret
         /\ HasRow(k) /\ ~Revoking(k) => Own(k)

(* Which decisions about auditing can be at work together for a tenant     *)
(* that nobody contested, and what they go by.                             *)
DecisionsInv ==
    /\ \A k \in Keys : row[k] # "unused" => Begun(Owner(k))
    /\ \A q \in Requests : req[q].at = "toggle" =>
         /\ Begun(req[q].of)
         /\ \A k \in call[q].goal.keys : Revealed(k)
         /\ req[q].of \notin contested =>
              /\ RowsIn(KeysOf(req[q].of)) \subseteq call[q].goal.keys
              /\ \A p \in Requests : p \in Deciding(req[q].of) => p = q
    /\ \A q \in Requests :
         /\ Issuing(q)
         /\ Owner(req[q].key) \notin contested /\ tenant[Owner(req[q].key)].live
         => req[q].on = tenant[Owner(req[q].key)].audit

(* Where a key's audit flag stands: as recorded for its tenant, or as the  *)
(* toggle has it that has written the flags and not yet the tenant's row.  *)
FlagInPlace(k) ==
    /\ (\A q \in Requests : ~Toggled(q, Owner(k))) =>
           (k \in aud <=> tenant[Owner(k)].audit)
    /\ \A q \in Requests : Toggled(q, Owner(k)) => (k \in aud <=> req[q].on)
FlagsInPlace ==
    /\ \A k \in Keys : row[k] = "unused" => k \notin aud
    /\ \A q \in Requests :
         /\ req[q].at \in {"subscribe", "vault", "limits"} => req[q].key \notin aud
         /\ req[q].at = "flag" /\ call[q].step = "done" => req[q].key \in aud
    /\ \A k \in Keys \ lapsed :
         /\ Owner(k) \notin contested /\ tenant[Owner(k)].live
         /\ HasRow(k) /\ ~Revoking(k)
         => FlagInPlace(k)

PlacesInv ==
    /\ ~named => lim = {} /\ aud = {}
    /\ ~overwritten => LimitsInPlace /\ FlagsInPlace

(* What a charge has found, and which keys its budget has not looked at.   *)
ChargesInv ==
    /\ later \in [Budgets -> SUBSET Keys]
    /\ \A b \in Budgets : \A k \in Scope[b] : k \notin later[b] => Revealed(k)
    /\ \A q \in Requests : req[q].at = "block" =>
         /\ \A k \in req[q].saw : Revealed(k)
         /\ req[q].of \in Blocking /\ req[q].sum >= Limit =>
              \A k \in req[q].saw : row[k] = "active" => k \in req[q].cut
    /\ BlockEnforced

RowsInv == GoalsInv /\ DecisionsInv /\ PlacesInv

-----------------------------------------------------------------------------
(* How the step of one handler may change what these invariants are about, *)
(* unless it is a step of its loop.                                        *)
OthersStay(r) == \A q \in Requests : q # r => req'[q] = req[q] /\ call'[q] = call[q]

SameKey(r) == req'[r].key = req[r].key /\ req'[r].on = req[r].on

IssueMoves(r) ==
    /\ req'[r].at \in IssueSteps =>
         \/ req[r].at \in IssueSteps /\ SameKey(r)
         \/ LET t == Owner(req'[r].key)
            IN /\ req'[r].at = "subscribe" /\ req[r].at = "free"
               /\ row[req'[r].key] = "unused"
               /\ tenant[t].live /\ req'[r].on = tenant[t].audit
               /\ (\E q \in Requests : Toggling(q, t)) => t \in contested'
    /\ req'[r].at = "subscribe" => req[r].at = "free"
    /\ req'[r].at = "vault" => req[r].at = "subscribe"
    /\ req'[r].at = "limits" => req[r].at = "vault" /\ call'[r].step # "done"
    /\ req'[r].at = "flag" => /\ req[r].at = "limits" /\ call[r].step = "done"
                              /\ call'[r].step # "done"

RevokeMoves(r) ==
    /\ req'[r].at = "unlimit" => call'[r].step # "done"
    /\ req'[r].at = "delete" =>
         /\ req[r].at = "unlimit" /\ SameKey(r)
         /\ \/ req[r].key \in lapsed'
            \/ call[r].step = "done" /\ req[r].key \notin secret'
    /\ req[r].at \in RevokeSteps =>
         \/ req'[r].at \in RevokeSteps /\ SameKey(r)
         \/ row'[req[r].key] = "gone"
         \/ req[r].key \in lapsed'

ToggleMoves(r) ==
    /\ req'[r].at = "toggle" =>
         LET t == req'[r].of
         IN /\ req[r].at = "free" /\ tenant[t].live
            /\ call'[r].goal.keys = RowsIn(KeysOf(t))
            /\ call'[r].step = "done" => call'[r].goal.keys = {}
            /\ Deciding(t) # {} => t \in contested'
    /\ req[r].at = "toggle" =>
         /\ req'[r].at = "free"
         /\ call[r].step = "done" =>
              \/ tenant'[req[r].of].live => tenant'[req[r].of].audit = req[r].on
              \/ call[r].goal.keys \subseteq lapsed'

TenantMoves(r) ==
    \A t \in Tenants :
        /\ Begun(t) => Begun(t)'
        /\ tenant'[t].live => /\ tenant[t].live
                              /\ tenant'[t].audit = tenant[t].audit \/ Toggled(r, t)

RowMoves(r) ==
    /\ \A k \in Keys :
         \/ row'[k] = row[k]
         \/ row'[k] = "drawn" /\ row[k] = "unused" /\ tenant[Owner(k)].live
         \/ /\ row'[k] = "gone" /\ row[k] # "unused"
            /\ k \in lapsed' \/ (req[r].at = "delete" /\ req[r].key = k)
         \/ /\ row'[k] = "active" /\ req[r].key = k /\ call[r].step = "done"
            /\ (req[r].at = "limits" /\ ~req[r].on) \/ req[r].at = "flag"
         \/ row'[k] = "suspended" /\ HasRow(k)
    /\ \A k \in Keys : k \in secret' =>
         k \in secret \/ (req[r].at = "vault" /\ req[r].key = k)

HandlerStep(r) ==
    /\ OthersStay(r)
    /\ UNCHANGED LoopVars
    /\ lapsed \subseteq lapsed' /\ contested \subseteq contested'
    /\ GoalOK(r)'
    /\ IssueMoves(r) /\ RevokeMoves(r) /\ ToggleMoves(r)
    /\ TenantMoves(r) /\ RowMoves(r)

-----------------------------------------------------------------------------
(* Facts that hold of every state: the types that the steps rely on.       *)
LEMMA OwnerTyped ==
    ASSUME NEW k \in Keys
    PROVE  Owner(k) \in Tenants /\ \A t : k \in KeysOf(t) <=> Owner(k) = t
BY KeyServiceAssumption DEF Owner, KeysOf

LEMMA KeysTyped ==
    ASSUME Inv, NEW q \in Requests
    PROVE  /\ req[q] \in Handlers /\ call[q] \in Calls
           /\ req[q].at \in KeySteps => req[q].key \in Keys
           /\ req[q].at = "toggle" => req[q].of \in Tenants
           /\ Issuing(q) => req[q].at \in IssueSteps /\ row[req[q].key] = "drawn"
           /\ req[q].at \in RevokeSteps => Revealed(req[q].key)
BY DEF Inv, StateInv, HandlersInv, HandlerOK, LimitsInv, LimitsTypeOK, KeyInv,
       Ownership, Issuing, IssueSteps, RevokeSteps, Revealed, HasRow, KeySteps

(* A handler enters its loop, leaves it, or leaves it alone.               *)
LEMMA LoopEntered ==
    ASSUME Inv, NEW r \in Requests, NEW g, call' = [call EXCEPT ![r] = Began(g)]
    PROVE  /\ \A q \in Requests : q # r => call'[q] = call[q]
           /\ call'[r].goal = g
           /\ call'[r].step = IF g.kind = "audit" /\ g.keys = {} THEN "done" ELSE "read"
BY DEF Began, Call, Inv, LimitsInv, LimitsTypeOK

LEMMA LoopLeft ==
    ASSUME Inv, NEW r \in Requests, NEW outcomes, LeaveLoop(r, outcomes)
    PROVE  /\ UNCHANGED LoopVars
           /\ \A q \in Requests : q # r => call'[q] = call[q]
           /\ call[r].step \in outcomes /\ call'[r].step = "idle"
BY DEF LeaveLoop, Idle, Call, Inv, LimitsInv, LimitsTypeOK

LEMMA LoopAlone == NoLoop => UNCHANGED LoopVars /\ call' = call
BY DEF NoLoop, LoopVars, limitsVars

(* A handler goes on with its key and its decision.                        *)
LEMMA GoesOn ==
    ASSUME Inv, NEW r \in Requests, NEW at \in KeySteps,
           req[r].at \in KeySteps, Goto(r, at)
    PROVE  /\ req'[r].at = at /\ SameKey(r)
           /\ \A q \in Requests : q # r => req'[q] = req[q]
<1>1. req'[r] = [req[r] EXCEPT !.at = at] /\ req[r] \in Handlers
  BY GotoTyped, KeysTyped DEF Inv, StateInv
<1>2. \A q \in Requests : q # r => req'[q] = req[q]
  BY GotoTyped DEF Inv, StateInv
<1> QED
  BY <1>1, <1>2 DEF Handlers, SameKey

LEMMA Ends ==
    ASSUME Inv, NEW r \in Requests, End(r)
    PROVE  /\ req'[r].at = "free"
           /\ \A q \in Requests : q # r => req'[q] = req[q]
BY EndTyped, FreeTyped DEF Inv, StateInv

LEMMA Enters ==
    ASSUME Inv, NEW r \in Requests, NEW h, Enter(r, h)
    PROVE  /\ req'[r] = h /\ req[r].at = "free"
           /\ \A q \in Requests : q # r => req'[q] = req[q]
BY DEF Enter, Inv, StateInv, HandlersInv

-----------------------------------------------------------------------------
(* One step of the loop r is in: the map is left alone, or it becomes the  *)
(* merge of what the loop is for into the map as it stood.  A loop is only *)
(* done once the merge stands; one that fails after that is on record.     *)
LoopMove(r) ==
    /\ UNCHANGED <<dbVars, sub, secret, req, contested, later>>
    /\ lapsed \subseteq lapsed'
    /\ call[r].step \in {"read", "write"} /\ call'[r].step # "idle"
    /\ \A q \in Requests : /\ call'[q].goal = call[q].goal
                           /\ q # r => call'[q].step = call[q].step
    /\ ~named' => UNCHANGED <<named, lim, aud>>
    /\ ~overwritten' =>
         /\ ~overwritten
         /\ \/ UNCHANGED <<lim, aud>> /\ call'[r].step # "done"
            \/ /\ lim' = Merge(call[r].goal, Map).lim
               /\ aud' = Merge(call[r].goal, Map).aud
               /\ call'[r].step = "done" \/ call[r].goal.keys \subseteq lapsed'

(* What a read that finds nothing to do has found: the merge stands.       *)
LEMMA NothingLeftToMerge ==
    ASSUME NEW g \in Goals, NothingToDo(g, Map), g.kind # "limits",
           lim \in SUBSET Keys, aud \in SUBSET Keys
    PROVE  Merge(g, Map).lim = lim /\ Merge(g, Map).aud = aud
<1>1. CASE g.kind = "audit"
  <2>1. Merge(g, Map) = Map
    BY <1>1 DEF NothingToDo
  <2> QED
    BY <2>1 DEF Map
<1>2. CASE g.kind = "remove"
  <2>1. g.keys \cap (lim \cup aud) = {}
    BY <1>2 DEF NothingToDo, Map
  <2>2. Merge(g, Map) = [lim |-> lim \ g.keys, aud |-> aud \ g.keys]
    BY <1>2 DEF Merge, RemoveKeyLimit, Map
  <2> QED
    BY <2>1, <2>2
<1>3. CASE g.kind = "ensure"
  BY <1>3 DEF Merge, Map
<1> QED
  BY <1>1, <1>2, <1>3 DEF Goals

LEMMA LoopMoves ==
    ASSUME Inv, PlacesInv, NEW r \in Requests, LimitsLoop(r)
    PROVE  LoopMove(r)
<1> DEFINE g == call[r].goal
           m == IF named THEN Map ELSE Empty
<1>1. UNCHANGED <<dbVars, sub, secret, req, contested, later>> /\ lapsed \subseteq lapsed'
  BY DEF LimitsLoop, Works, Fails
<1>2. /\ call \in [Requests -> Calls] /\ g \in Goals
      /\ lim \in SUBSET Keys /\ aud \in SUBSET Keys
  BY DEF Inv, LimitsInv, LimitsTypeOK, Calls
<1>3. CASE ReadLimits(r)
  <2>1. UNCHANGED <<named, lim, aud, overwritten>> /\ call[r].step = "read"
    BY <1>3 DEF ReadLimits
  <2>2. m = Map
    BY DEF PlacesInv, Map, Empty
  <2>3. \A q \in Requests : q # r => call'[q] = call[q]
    BY <1>2, <1>3 DEF ReadLimits
  <2>4. call'[r].goal = g
        /\ (call'[r].step = "done" => NothingToDo(g, m)) /\ call'[r].step # "idle"
    <3>1. CASE NothingToDo(g, m)
      <4>1. call'[r] = Call("done", g, 0)
        BY <1>2, <1>3, <3>1 DEF ReadLimits
      <4> QED
        BY <3>1, <4>1 DEF Call
    <3>2. CASE ~NothingToDo(g, m) /\ OverCap(g, m)
      <4>1. call'[r] = Call("failed", g, 0)
        BY <1>2, <1>3, <3>2 DEF ReadLimits
      <4> QED
        BY <4>1 DEF Call
    <3>3. CASE ~NothingToDo(g, m) /\ ~OverCap(g, m)
      <4> DEFINE e == IF named /\ EtagVisible THEN "current" ELSE "none"
      <4>1. call'[r] = [call[r] EXCEPT !.step = "write", !.seen = m, !.etag = e]
        BY <1>2, <1>3, <3>3 DEF ReadLimits
      <4> HIDE DEF m, e
      <4> QED
        BY <1>2, <4>1 DEF Calls
    <3> QED
      BY <3>1, <3>2, <3>3
  <2> HIDE DEF m
  <2>5. call'[r].step = "done" => lim = Merge(g, Map).lim /\ aud = Merge(g, Map).aud
    <3> SUFFICES ASSUME call'[r].step = "done"
                 PROVE  lim = Merge(g, Map).lim /\ aud = Merge(g, Map).aud
      OBVIOUS
    <3>1. NothingToDo(g, Map)
      BY <2>2, <2>4
    <3>2. g.kind # "limits"
      BY <3>1 DEF NothingToDo
    <3> QED
      BY <1>2, <3>1, <3>2, NothingLeftToMerge
  <2> QED
    BY <1>1, <2>1, <2>3, <2>4, <2>5 DEF LoopMove
<1>4. CASE WriteLimits(r) \/ (WriteAnswerLost(r) /\ Fails(g.keys))
  <2>1. PICK s \in {"done", "failed"} :
           Land(r, s) /\ (s = "done" \/ Fails(g.keys))
    BY <1>4 DEF WriteLimits, WriteAnswerLost
  <2>2. call[r].step = "write" /\ named' = TRUE
        /\ (~overwritten' => ~overwritten /\ call[r].seen = Map)
        /\ lim' = Merge(g, call[r].seen).lim /\ aud' = Merge(g, call[r].seen).aud
    BY <2>1 DEF Land
  <2>3. call'[r] = Call(s, g, 0)
        /\ \A q \in Requests : q # r =>
             call'[q] = call[q] \/ call'[q] = [call[q] EXCEPT !.etag = "stale"]
    BY <2>1 DEF Land
  <2>4. call'[r].goal = g /\ call'[r].step = s
    BY <2>3 DEF Call
  <2>5. \A q \in Requests : q # r =>
           call'[q].goal = call[q].goal /\ call'[q].step = call[q].step
    BY <1>2, <2>3 DEF Calls
  <2>6. s # "done" => g.keys \subseteq lapsed'
    BY <2>1 DEF Fails
  <2> QED
    BY <1>1, <2>1, <2>2, <2>4, <2>5, <2>6 DEF LoopMove
<1>5. CASE WriteRefused(r) \/ LimitsCallFails(r)
  <2>1. UNCHANGED <<named, lim, aud, overwritten>> /\ call[r].step \in {"read", "write"}
    BY <1>5 DEF WriteRefused, LimitsCallFails
  <2>2. /\ \A q \in Requests : q # r => call'[q] = call[q]
        /\ \E n : call'[r] = Call("read", g, n) \/ call'[r] = Call("failed", g, n)
    <3>1. CASE WriteRefused(r)
      BY <1>2, <3>1 DEF WriteRefused
    <3>2. CASE LimitsCallFails(r)
      BY <1>2, <3>2 DEF LimitsCallFails
    <3> QED
      BY <1>5, <3>1, <3>2
  <2>3. call'[r].goal = g /\ call'[r].step \in {"read", "failed"}
    BY <2>2 DEF Call
  <2> QED
    BY <1>1, <2>1, <2>2, <2>3 DEF LoopMove
<1> QED
  BY <1>3, <1>4, <1>5 DEF LimitsLoop

(* What the merge of each handler's loop does to the map.                  *)
LEMMA MergeOfHandler ==
    ASSUME Inv, GoalsInv, NEW r \in Requests, call[r].step # "idle"
    PROVE  LET k == req[r].key
               m == Merge(call[r].goal, Map)
           IN /\ req[r].at \in LoopSteps
              /\ req[r].at = "limits" => /\ m.aud = aud
                                         /\ m.lim = Put(lim, {k}, k \in Limited)
              /\ req[r].at = "flag" => m.lim = lim /\ m.aud = aud \cup {k}
              /\ req[r].at = "unlimit" => m.lim = lim \ {k} /\ m.aud = aud \ {k}
              /\ req[r].at = "toggle" => /\ m.lim = lim
                                         /\ m.aud = Put(aud, call[r].goal.keys, req[r].on)
              /\ req[r].at = "ensure" => m.lim = lim /\ m.aud = aud
<1> DEFINE g == call[r].goal
           k == req[r].key
           m == Merge(g, Map)
<1>1. GoalOK(r) /\ Map.lim = lim /\ Map.aud = aud /\ Map = [lim |-> lim, aud |-> aud]
  BY DEF GoalsInv, Map
<1>2. req[r].at \in LoopSteps
  BY <1>1 DEF GoalOK
<1>3. CASE req[r].at = "limits"
  <2>1. g.kind = "limits" /\ g.keys = {k} /\ g.on = (k \in Limited)
    BY <1>1, <1>3 DEF GoalOK
  <2>2. m = [lim |-> Put(lim, {k}, k \in Limited), aud |-> aud]
    BY <1>1, <2>1 DEF Merge, MergeKeyLimit
  <2> QED
    BY <1>2, <1>3, <2>2
<1>4. CASE req[r].at = "flag"
  <2>1. g.kind = "audit" /\ g.keys = {k} /\ g.on = TRUE
    BY <1>1, <1>4 DEF GoalOK
  <2>2. m = [lim |-> lim, aud |-> aud \cup {k}]
    BY <1>1, <2>1 DEF Merge, MergeAuditFlag, Put
  <2> QED
    BY <1>2, <1>4, <2>2
<1>5. CASE req[r].at = "unlimit"
  <2>1. g.kind = "remove" /\ g.keys = {k}
    BY <1>1, <1>5 DEF GoalOK
  <2>2. m = [lim |-> lim \ {k}, aud |-> aud \ {k}]
    BY <1>1, <2>1 DEF Merge, RemoveKeyLimit
  <2> QED
    BY <1>2, <1>5, <2>2
<1>6. CASE req[r].at = "toggle"
  <2>1. g.kind = "audit" /\ g.on = req[r].on
    BY <1>1, <1>6 DEF GoalOK
  <2>2. m = [lim |-> lim, aud |-> Put(aud, g.keys, req[r].on)]
    BY <1>1, <2>1 DEF Merge, MergeAuditFlag
  <2> QED
    BY <1>2, <1>6, <2>2
<1>7. CASE req[r].at = "ensure"
  <2>1. g.kind = "ensure"
    BY <1>1, <1>7 DEF GoalOK
  <2> QED
    BY <1>1, <1>2, <1>7, <2>1 DEF Merge
<1> QED
  BY <1>2, <1>3, <1>4, <1>5, <1>6, <1>7 DEF LoopSteps

(* Requests that work on the same key: one that issues works alone.        *)
LEMMA WorksAlone ==
    ASSUME Inv, NEW r \in Requests, NEW q \in Requests, Issuing(r),
           req[q].key = req[r].key,
           Issuing(q) \/ req[q].at \in RevokeSteps
    PROVE  q = r
BY DEF Inv, KeyInv, Ownership, Issuing, RevokeSteps, Revealed

LEMMA LoopKeepsGoals ==
    ASSUME Inv, RowsInv, NEW r \in Requests, LoopMove(r)
    PROVE  GoalsInv' /\ DecisionsInv'
<1>1. UNCHANGED <<tenant, row, req, contested>>
  BY DEF LoopMove, dbVars
<1>2. \A q \in Requests : /\ call'[q].goal = call[q].goal
                          /\ req[q].at \notin LoopSteps => call'[q].step = call[q].step
  BY MergeOfHandler DEF LoopMove, RowsInv
<1>3. GoalsInv'
  BY <1>1, <1>2 DEF RowsInv, GoalsInv, GoalOK
<1>4. DecisionsInv'
  BY <1>1, <1>2 DEF RowsInv, DecisionsInv, Begun, Revealed, RowsIn, HasRow, Deciding, Issuing
<1> QED
  BY <1>3, <1>4

(* The limits of a key stay in place, through every step of every loop.    *)
LEMMA LoopKeepsLimits ==
    ASSUME Inv, RowsInv, NEW r \in Requests, LoopMove(r), ~overwritten'
    PROVE  LimitsInPlace'
<1> DEFINE k == req[r].key
           m == Merge(call[r].goal, Map)
<1>1. /\ UNCHANGED <<row, secret, req>> /\ lapsed \subseteq lapsed' /\ ~overwritten
      /\ \A q \in Requests : q # r => call'[q].step = call[q].step
      /\ \A x \in Keys : Revoking(x)' <=> Revoking(x)
      /\ \A x \in Keys : HasRow(x)' <=> HasRow(x)
  BY DEF LoopMove, dbVars, Revoking, HasRow
<1>2. LimitsInPlace
  BY <1>1 DEF RowsInv, PlacesInv
<1>3. call[r].step \in {"read", "write"}
  BY DEF LoopMove
<1>4. CASE UNCHANGED <<lim, aud>> /\ call'[r].step # "done"
  BY <1>1, <1>2, <1>3, <1>4 DEF LimitsInPlace, Own
<1>5. CASE lim' = m.lim
  <2>1. /\ req[r].at \in LoopSteps
        /\ req[r].at = "limits" => m.lim = Put(lim, {k}, k \in Limited)
        /\ req[r].at = "unlimit" => m.lim = lim \ {k}
        /\ req[r].at \in {"flag", "toggle", "ensure"} => m.lim = lim
    BY <1>3, MergeOfHandler DEF RowsInv
  <2>2. \A q \in Requests : req[q].at \in KeySteps => req[q].key \in Keys
    BY KeysTyped
  <2> HIDE DEF m
  <2>3. CASE req[r].at = "limits"
    <3>1. Own(k)' /\ \A x : x # k => (x \in lim' <=> x \in lim)
      BY <1>1, <1>5, <2>1, <2>3 DEF Put, Own
    <3>2. k \in Keys /\ row[k] = "drawn" /\ Issuing(r)
      BY <2>2, <2>3, KeysTyped DEF Issuing, KeySteps
    <3>3. \A q \in Requests : req[q].key = k /\ req[q].at \in {"limits", "flag", "unlimit", "delete"}
             => q = r
      BY <3>2, WorksAlone DEF Issuing, RevokeSteps
    <3>4. \A q \in Requests :
            /\ req[q].at = "limits" /\ call'[q].step = "done" => Own(req[q].key)'
            /\ req[q].at = "flag" => Own(req[q].key)'
            /\ req[q].at = "unlimit" /\ call'[q].step = "done" => req[q].key \notin lim'
            /\ req[q].at = "delete" /\ req[q].key \notin lapsed' =>
                 req[q].key \notin lim' \cup secret
      BY <1>1, <1>2, <2>3, <3>1, <3>3 DEF LimitsInPlace, Own
    <3>5. \A x \in Keys \ lapsed' :
            /\ row[x] = "gone" => x \notin lim' \cup secret
            /\ HasRow(x) /\ ~Revoking(x) => Own(x)'
      BY <1>1, <1>2, <3>1, <3>2 DEF LimitsInPlace, Own, HasRow
    <3> QED
      BY <1>1, <3>4, <3>5 DEF LimitsInPlace
  <2>4. CASE req[r].at = "unlimit"
    <3>1. lim' = lim \ {k}
      BY <1>5, <2>1, <2>4
    <3>2. k \in Keys /\ Revoking(k) /\ Revealed(k)
      BY <2>2, <2>4, KeysTyped DEF Revoking, KeySteps, RevokeSteps
    <3>3. \A q \in Requests : req[q].at \in {"limits", "flag"} => req[q].key # k
      BY <3>2, KeysTyped DEF Issuing, Revealed
    <3>4. \A q \in Requests :
            /\ req[q].at = "limits" /\ call'[q].step = "done" => Own(req[q].key)'
            /\ req[q].at = "flag" => Own(req[q].key)'
            /\ req[q].at = "unlimit" /\ call'[q].step = "done" => req[q].key \notin lim'
            /\ req[q].at = "delete" /\ req[q].key \notin lapsed' =>
                 req[q].key \notin lim' \cup secret
      BY <1>1, <1>2, <2>4, <3>1, <3>3 DEF LimitsInPlace, Own
    <3>5. \A x \in Keys \ lapsed' :
            /\ row[x] = "gone" => x \notin lim' \cup secret
            /\ HasRow(x) /\ ~Revoking(x) => Own(x)'
      BY <1>1, <1>2, <3>1, <3>2 DEF LimitsInPlace, Own
    <3> QED
      BY <1>1, <3>4, <3>5 DEF LimitsInPlace
  <2>5. CASE req[r].at \in {"flag", "toggle", "ensure"}
    <3>1. lim' = lim
      BY <1>5, <2>1, <2>5
    <3> QED
      BY <1>1, <1>2, <2>5, <3>1 DEF LimitsInPlace, Own
  <2> QED
    BY <2>1, <2>3, <2>4, <2>5 DEF LoopSteps
<1> QED
  BY <1>4, <1>5 DEF LoopMove

(* So do the flags: a toggle that has written them is the only decision at *)
(* work for its tenant, or the tenant is contested.                        *)
LEMMA LoopKeepsFlags ==
    ASSUME Inv, RowsInv, NEW r \in Requests, LoopMove(r), ~overwritten'
    PROVE  FlagsInPlace'
<1> DEFINE k == req[r].key
           m == Merge(call[r].goal, Map)
<1>1. /\ UNCHANGED <<row, req, tenant, contested>> /\ lapsed \subseteq lapsed'
      /\ ~overwritten /\ call[r].step # "done"
      /\ \A q \in Requests : q # r => call'[q].step = call[q].step
      /\ \A x \in Keys : Revoking(x)' <=> Revoking(x)
      /\ \A x \in Keys : HasRow(x)' <=> HasRow(x)
  BY DEF LoopMove, dbVars, Revoking, HasRow
<1>2. FlagsInPlace
  BY <1>1 DEF RowsInv, PlacesInv
<1>3. \A x \in Keys : Owner(x) \in Tenants /\ \A t : x \in KeysOf(t) <=> Owner(x) = t
  BY OwnerTyped
<1>4. /\ req[r].at \in LoopSteps
      /\ req[r].at \in {"limits", "ensure"} => m.aud = aud
      /\ req[r].at = "flag" => m.aud = aud \cup {k}
      /\ req[r].at = "unlimit" => m.aud = aud \ {k}
      /\ req[r].at = "toggle" => m.aud = Put(aud, call[r].goal.keys, req[r].on)
  BY MergeOfHandler DEF RowsInv, LoopMove
<1>5. \/ aud' = aud /\ call'[r].step # "done"
      \/ /\ aud' = m.aud
         /\ call'[r].step = "done" \/ call[r].goal.keys \subseteq lapsed'
  BY DEF LoopMove
<1> HIDE DEF m
<1>6. \A q \in Requests : req[q].at \in KeySteps => req[q].key \in Keys
  BY KeysTyped
<1>7. \A q \in Requests : Issuing(q) => row[req[q].key] = "drawn"
  BY KeysTyped
<1>8. CASE req[r].at = "toggle"
  <2> DEFINE t == req[r].of
             ks == call[r].goal.keys
  <2>1. /\ \A x \in ks : Revealed(x) /\ x \in KeysOf(t)
        /\ t \notin contested => /\ RowsIn(KeysOf(t)) \subseteq ks
                                 /\ \A q \in Requests : q \in Deciding(t) => q = r
    BY <1>8 DEF RowsInv, DecisionsInv, GoalsInv, GoalOK
  <2>2. \A x \in Keys : x \in aud' <=> \/ x \in aud /\ x \notin ks
                                       \/ x \in ks /\ IF aud' = aud THEN x \in aud
                                                                    ELSE req[r].on
    BY <1>4, <1>5, <1>8 DEF Put
  <2>3. \A x \in ks : row[x] \notin {"unused", "drawn"}
    BY <2>1 DEF Revealed
  <2>4. /\ \A x \in Keys : row[x] = "unused" => x \notin aud'
        /\ \A q \in Requests :
             /\ req[q].at \in {"subscribe", "vault", "limits"} => req[q].key \notin aud'
             /\ req[q].at = "flag" /\ call'[q].step = "done" => req[q].key \in aud'
    BY <1>1, <1>2, <1>6, <1>7, <1>8, <2>2, <2>3 DEF FlagsInPlace, Issuing, KeySteps
  <2>5. ASSUME NEW x \in Keys \ lapsed', Owner(x) \notin contested,
               tenant[Owner(x)].live, HasRow(x), ~Revoking(x)
        PROVE  FlagInPlace(x)'
    <3>1. FlagInPlace(x)
      BY <1>1, <1>2, <2>5 DEF FlagsInPlace
    <3>2. CASE Owner(x) # t
      <4>1. x \notin ks
        BY <1>3, <2>1, <3>2
      <4>2. x \in aud' <=> x \in aud
        BY <2>2, <4>1
      <4>3. \A q \in Requests : Toggled(q, Owner(x))' <=> Toggled(q, Owner(x))
        BY <1>1, <3>2 DEF Toggled, Toggling, Owner
      <4> QED
        BY <1>1, <3>1, <4>2, <4>3 DEF FlagInPlace, Owner
    <3>3. CASE Owner(x) = t
      <4>1. x \in ks
        BY <1>3, <2>1, <2>5, <3>3 DEF RowsIn
      <4>2. \A q \in Requests : Toggling(q, t) => q = r
        BY <2>1, <2>5, <3>3 DEF Toggling, Deciding
      <4>3. CASE aud' = aud /\ call'[r].step # "done"
        <5>1. \A q \in Requests : ~Toggled(q, t) /\ ~Toggled(q, t)'
          BY <1>1, <4>2, <4>3 DEF Toggled, Toggling
        <5> QED
          BY <1>1, <3>1, <3>3, <4>3, <5>1 DEF FlagInPlace, Owner
      <4>4. CASE aud' = m.aud /\ call'[r].step = "done"
        <5>1. Toggled(r, t)' /\ \A q \in Requests : Toggled(q, t)' => q = r
          BY <1>1, <1>8, <4>2, <4>4 DEF Toggled, Toggling
        <5>2. x \in aud' <=> req[r].on
          BY <1>4, <1>8, <4>1, <4>4 DEF Put
        <5> QED
          BY <1>1, <3>3, <5>1, <5>2 DEF FlagInPlace, Owner
      <4> QED
        BY <1>5, <2>5, <4>1, <4>3, <4>4
    <3> QED
      BY <3>2, <3>3
  <2> QED
    BY <1>1, <2>4, <2>5 DEF FlagsInPlace, Owner
<1>9. CASE req[r].at # "toggle"
  <2>1. \A q \in Requests : \A t : Toggled(q, t)' <=> Toggled(q, t)
    BY <1>1, <1>9 DEF Toggled, Toggling
  <2>2. \/ aud' = aud /\ (req[r].at = "flag" /\ call'[r].step = "done" => k \in aud)
        \/ req[r].at = "flag" /\ aud' = aud \cup {k}
        \/ req[r].at = "unlimit" /\ aud' = aud \ {k}
    BY <1>4, <1>5, <1>9 DEF LoopSteps
  <2>3. CASE aud' = aud /\ (req[r].at = "flag" /\ call'[r].step = "done" => k \in aud)
    BY <1>1, <1>2, <2>1, <2>3 DEF FlagsInPlace, FlagInPlace, Owner
  <2>4. CASE req[r].at = "flag" /\ aud' = aud \cup {k}
    <3>1. row[k] = "drawn" /\ k \in Keys /\ Issuing(r)
      BY <1>6, <1>7, <2>4 DEF Issuing, KeySteps
    <3>2. \A q \in Requests : req[q].at \in {"subscribe", "vault", "limits"} => req[q].key # k
      BY <2>4, <3>1, WorksAlone DEF Issuing
    <3>3. \A x \in Keys : HasRow(x) \/ row[x] = "unused" => (x \in aud' <=> x \in aud)
      BY <2>4, <3>1 DEF HasRow
    <3> QED
      BY <1>1, <1>2, <2>1, <2>4, <3>2, <3>3 DEF FlagsInPlace, FlagInPlace, Owner
  <2>5. CASE req[r].at = "unlimit" /\ aud' = aud \ {k}
    <3>1. Revoking(k) /\ k \in Keys /\ Revealed(k)
      BY <1>6, <2>5, KeysTyped DEF Revoking, KeySteps, RevokeSteps
    <3>2. \A q \in Requests : req[q].at = "flag" => req[q].key # k
      BY <1>7, <3>1 DEF Issuing, Revealed
    <3>3. \A x \in Keys : ~Revoking(x) => (x \in aud' <=> x \in aud)
      BY <2>5, <3>1
    <3> QED
      BY <1>1, <1>2, <2>1, <2>5, <3>2, <3>3 DEF FlagsInPlace, FlagInPlace, Owner
  <2> QED
    BY <2>2, <2>3, <2>4, <2>5
<1> QED
  BY <1>8, <1>9

LEMMA LoopKeepsRows ==
    ASSUME Inv, RowsInv, NEW r \in Requests, LimitsLoop(r)
    PROVE  RowsInv'
<1>1. LoopMove(r)
  BY LoopMoves DEF RowsInv
<1>2. (~named => lim = {} /\ aud = {})'
  BY <1>1 DEF LoopMove, RowsInv, PlacesInv
<1> QED
  BY <1>1, <1>2, LoopKeepsGoals, LoopKeepsLimits, LoopKeepsFlags DEF RowsInv, PlacesInv

-----------------------------------------------------------------------------
(* Any other step of a handler, along its moves.  What has a row keeps it  *)
(* or is gone; what is being revoked stays so until its row goes.          *)
LEMMA RowsGrowByIssue ==
    ASSUME Inv, NEW r \in Requests, RowMoves(r), NEW k \in Keys
    PROVE  /\ Revealed(k) => Revealed(k)'
           /\ row[k] # "unused" => row'[k] # "unused"
           /\ HasRow(k)' /\ ~HasRow(k) =>
                /\ req[r].key = k /\ row[k] = "drawn" /\ call[r].step = "done"
                /\ Issuing(r)
                /\ (req[r].at = "limits" /\ ~req[r].on) \/ req[r].at = "flag"
<1>1. row[k] \in {"unused", "drawn", "active", "suspended", "gone"}
  BY DEF Inv, StateInv, TablesInv
<1>2. Issuing(r) => row[req[r].key] = "drawn"
  BY KeysTyped
<1> QED
  BY <1>1, <1>2 DEF RowMoves, Revealed, HasRow, Issuing

LEMMA RevokingGoesOn ==
    ASSUME Inv, NEW r \in Requests, OthersStay(r), RevokeMoves(r),
           NEW k \in Keys \ lapsed', HasRow(k)', ~Revoking(k)'
    PROVE  ~Revoking(k)
<1>1. SUFFICES ASSUME NEW q \in Requests, req[q].key = k, req[q].at \in RevokeSteps
               PROVE  FALSE
  BY DEF Revoking, RevokeSteps
<1>2. q = r
  BY <1>1 DEF OthersStay, Revoking, RevokeSteps
<1>3. req'[r].at \notin RevokeSteps \/ req'[r].key # k
  BY DEF Revoking, RevokeSteps
<1>4. row'[k] # "gone"
  BY DEF HasRow
<1> QED
  BY <1>1, <1>2, <1>3, <1>4 DEF RevokeMoves, SameKey

LEMMA StepKeepsLimits ==
    ASSUME Inv, RowsInv, NEW r \in Requests, HandlerStep(r), ~overwritten'
    PROVE  LimitsInPlace'
<1>1. /\ UNCHANGED <<lim, overwritten>> /\ lapsed \subseteq lapsed'
      /\ OthersStay(r) /\ IssueMoves(r) /\ RevokeMoves(r) /\ RowMoves(r)
  BY DEF HandlerStep, LoopVars
<1>2. LimitsInPlace
  BY <1>1 DEF RowsInv, PlacesInv
<1>3. \A q \in Requests : req[q].at \in KeySteps => req[q].key \in Keys
  BY KeysTyped
<1>4. \A x \in Keys : x \in secret' => x \in secret \/ row[x] = "drawn"
  <2>1. req[r].at = "vault" => row[req[r].key] = "drawn"
    BY KeysTyped DEF Issuing
  <2> QED
    BY <1>1, <2>1 DEF RowMoves
<1>5. \A q \in Requests :
        /\ req'[q].at = "limits" /\ call'[q].step = "done" => Own(req[q].key)'
        /\ req'[q].at = "flag" => Own(req[q].key)'
        /\ req'[q].at = "unlimit" /\ call'[q].step = "done" => req'[q].key \notin lim'
  <2>1. ASSUME NEW q \in Requests, q # r
        PROVE  /\ req'[q].at = "limits" /\ call'[q].step = "done" => Own(req[q].key)'
               /\ req'[q].at = "flag" => Own(req[q].key)'
               /\ req'[q].at = "unlimit" /\ call'[q].step = "done" =>
                    req'[q].key \notin lim'
    BY <1>1, <1>2, <2>1 DEF OthersStay, LimitsInPlace, Own
  <2>2. req'[r].at = "flag" => Own(req[r].key)'
    BY <1>1, <1>2 DEF IssueMoves, IssueSteps, SameKey, LimitsInPlace, Own
  <2>3. /\ ~(req'[r].at = "limits" /\ call'[r].step = "done")
        /\ ~(req'[r].at = "unlimit" /\ call'[r].step = "done")
    BY <1>1 DEF IssueMoves, RevokeMoves
  <2> QED
    BY <2>1, <2>2, <2>3
<1>6. ASSUME NEW q \in Requests, req'[q].at = "delete", req'[q].key \notin lapsed'
      PROVE  req'[q].key \notin lim' \cup secret'
  <2>1. CASE q # r
    <3>1. req'[q] = req[q] /\ req[q].key \in Keys /\ row[req[q].key] # "drawn"
      BY <1>1, <1>3, <1>6, <2>1, KeysTyped DEF OthersStay, KeySteps, RevokeSteps, Revealed
    <3> QED
      BY <1>1, <1>2, <1>4, <1>6, <3>1 DEF LimitsInPlace
  <2>2. CASE q = r
    BY <1>1, <1>2, <1>6, <2>2 DEF RevokeMoves, SameKey, LimitsInPlace
  <2> QED
    BY <2>1, <2>2
<1>7. ASSUME NEW x \in Keys \ lapsed', row'[x] = "gone"
      PROVE  x \notin lim' \cup secret'
  <2>1. row[x] = "gone" \/ (req[r].at = "delete" /\ req[r].key = x)
    BY <1>1, <1>7 DEF RowMoves
  <2>2. x \notin lim \cup secret
    BY <1>1, <1>2, <1>7, <2>1 DEF LimitsInPlace
  <2>3. row[x] # "drawn"
    BY <2>1, KeysTyped DEF RevokeSteps, Revealed
  <2> QED
    BY <1>1, <1>4, <2>2, <2>3
<1>8. ASSUME NEW x \in Keys \ lapsed', HasRow(x)', ~Revoking(x)'
      PROVE  Own(x)'
  <2>1. ~Revoking(x)
    BY <1>1, <1>8, RevokingGoesOn
  <2>2. CASE HasRow(x)
    BY <1>1, <1>2, <2>1, <2>2 DEF LimitsInPlace, Own
  <2>3. CASE ~HasRow(x)
    BY <1>1, <1>2, <1>8, <2>3, RowsGrowByIssue DEF LimitsInPlace, Own
  <2> QED
    BY <2>2, <2>3
<1> QED
  BY <1>5, <1>6, <1>7, <1>8 DEF LimitsInPlace

(* Where the decisions of a tenant come from.                              *)
LEMMA DecidingIs ==
    ASSUME NEW t, NEW q \in Requests
    PROVE  q \in Deciding(t) <=>
             \/ Toggling(q, t)
             \/ req[q].at \in IssueSteps /\ req[q].key \in KeysOf(t)
BY DEF Deciding, Toggling, Issuing, IssueSteps

LEMMA StepKeepsDecisions ==
    ASSUME Inv, Inv', RowsInv, NEW r \in Requests, HandlerStep(r)
    PROVE  DecisionsInv'
<1>1. /\ contested \subseteq contested' /\ OthersStay(r)
      /\ IssueMoves(r) /\ ToggleMoves(r) /\ TenantMoves(r) /\ RowMoves(r)
  BY DEF HandlerStep
<1>2. DecisionsInv
  BY DEF RowsInv
<1>3. /\ \A x \in Keys : Owner(x) \in Tenants /\ \A t : x \in KeysOf(t) <=> Owner(x) = t
      /\ \A q \in Requests : req[q].at = "toggle" => req[q].of \in Tenants
      /\ \A q \in Requests : Issuing(q) => req[q].key \in Keys /\ row[req[q].key] = "drawn"
  BY OwnerTyped, KeysTyped DEF Issuing, KeySteps
<1>4. /\ \A q \in Requests : req'[q].at = "toggle" => req'[q].of \in Tenants
      /\ \A q \in Requests : req'[q].at \in IssueSteps => req'[q].key \in Keys
  BY DEF Inv, StateInv, HandlersInv, HandlerOK, IssueSteps, KeySteps
<1>5. \A x \in Keys : /\ Revealed(x) => Revealed(x)'
                      /\ row[x] # "unused" => row'[x] # "unused"
                      /\ HasRow(x)' /\ ~HasRow(x) => /\ req[r].key = x /\ row[x] = "drawn"
                                                     /\ req[r].at \in IssueSteps
  BY <1>1, RowsGrowByIssue DEF IssueSteps, Issuing
<1>6. ASSUME NEW k \in Keys, row'[k] # "unused"
      PROVE  Begun(Owner(k))'
  <2>1. row[k] # "unused" \/ tenant[Owner(k)].live
    BY <1>1, <1>5, <1>6 DEF RowMoves, HasRow
  <2>2. Begun(Owner(k))
    BY <1>2, <2>1 DEF DecisionsInv, Begun
  <2> QED
    BY <1>1, <1>3, <2>2 DEF TenantMoves, Begun, Owner
<1>7. ASSUME NEW q \in Requests, NEW t \in Tenants,
             req'[q].at = "toggle", req'[q].of = t
      PROVE  /\ Begun(t)'
             /\ \A k \in call'[q].goal.keys : Revealed(k)'
             /\ t \notin contested' =>
                  /\ RowsIn(KeysOf(t))' \subseteq call'[q].goal.keys
                  /\ \A p \in Requests : (p \in Deciding(t))' => p = q
  <2>2. CASE q = r
    <3>1. /\ req[r].at = "free" /\ tenant[t].live
          /\ call'[r].goal.keys = RowsIn(KeysOf(t))
          /\ Deciding(t) # {} => t \in contested'
      BY <1>1, <1>7, <2>2 DEF ToggleMoves
    <3>2. Begun(t)'
      BY <1>1, <3>1 DEF TenantMoves, Begun
    <3>3. \A k \in Keys : (HasRow(k)' => HasRow(k)) /\ (HasRow(k) => Revealed(k)')
      BY <1>5, <3>1 DEF IssueSteps, HasRow, Revealed
    <3>4. /\ RowsIn(KeysOf(t))' \subseteq call'[q].goal.keys
          /\ \A k \in call'[q].goal.keys : Revealed(k)'
      BY <2>2, <3>1, <3>3 DEF RowsIn, KeysOf
    <3>5. ASSUME t \notin contested', NEW p \in Requests, (p \in Deciding(t))', p # q
          PROVE  FALSE
      <4>1. req'[p] = req[p]
        BY <1>1, <2>2, <3>5 DEF OthersStay
      <4>2. p \in Deciding(t)
        BY <3>5, <4>1 DEF Deciding, Issuing
      <4> QED
        BY <3>1, <3>5, <4>2
    <3> QED
      BY <3>2, <3>4, <3>5
  <2>3. CASE q # r
    <3>1. req'[q] = req[q] /\ call'[q] = call[q] /\ req[q].at = "toggle" /\ req[q].of = t
      BY <1>1, <1>7, <2>3 DEF OthersStay
    <3>2. /\ Begun(t) /\ \A k \in call[q].goal.keys : Revealed(k)
          /\ t \notin contested =>
                  /\ RowsIn(KeysOf(t)) \subseteq call[q].goal.keys
                  /\ \A p \in Requests : p \in Deciding(t) => p = q
      BY <1>2, <3>1 DEF DecisionsInv
    <3>3. call[q].goal.keys \subseteq Keys
      BY KeysTyped DEF Calls, Goals
    <3>4. Begun(t)' /\ \A k \in call'[q].goal.keys : Revealed(k)'
      BY <1>1, <1>5, <3>1, <3>2, <3>3 DEF TenantMoves, Begun
    <3>5. ASSUME t \notin contested'
          PROVE  /\ RowsIn(KeysOf(t))' \subseteq call'[q].goal.keys
                 /\ \A p \in Requests : (p \in Deciding(t))' => p = q
      <4>1. \A p \in Requests : p \in Deciding(t) => p = q
        BY <1>1, <3>2, <3>5
      <4>2. ~(req[r].at \in IssueSteps /\ req[r].key \in KeysOf(t))
        BY <2>3, <4>1, DecidingIs
      <4>3. \A k \in KeysOf(t) : HasRow(k)' => HasRow(k)
        BY <1>5, <4>2 DEF KeysOf
      <4>4. RowsIn(KeysOf(t))' \subseteq RowsIn(KeysOf(t))
        BY <4>3 DEF RowsIn, KeysOf
      <4>5. ~(r \in Deciding(t))'
        <5>1. Toggling(q, t) /\ q \in Deciding(t)
          BY <3>1, DecidingIs DEF Toggling
        <5>2. ~Toggling(r, t)'
          BY <1>1, <3>5, <5>1 DEF ToggleMoves, Toggling
        <5>3. ~(req'[r].at \in IssueSteps /\ req'[r].key \in KeysOf(t))
          BY <1>1, <1>3, <1>4, <3>5, <4>2, <5>1 DEF IssueMoves, SameKey
        <5> QED
          BY <5>2, <5>3 DEF Deciding, Toggling, Issuing, IssueSteps, KeysOf
      <4>6. \A p \in Requests : p # r => ((p \in Deciding(t))' => p \in Deciding(t))
        BY <1>1 DEF OthersStay, Deciding, Issuing, KeysOf
      <4> QED
        BY <1>1, <3>1, <3>2, <3>5, <4>1, <4>4, <4>5, <4>6
    <3> QED
      BY <3>4, <3>5
  <2> QED
    BY <2>2, <2>3
<1>8. ASSUME NEW q \in Requests, Issuing(q)',
             Owner(req'[q].key) \notin contested', tenant'[Owner(req'[q].key)].live
      PROVE  req'[q].on = tenant'[Owner(req'[q].key)].audit
  <2> DEFINE t == Owner(req'[q].key)
  <2>1. req'[q].at \in IssueSteps /\ req'[q].key \in Keys /\ t \in Tenants
    BY <1>3, <1>4, <1>8 DEF Issuing, IssueSteps
  <2>2. /\ tenant[t].live /\ t \notin contested
        /\ tenant'[t].audit = tenant[t].audit \/ Toggled(r, t)
    BY <1>1, <1>8, <2>1 DEF TenantMoves
  <2>3. CASE req[q].at \in IssueSteps /\ req'[q].key = req[q].key /\ req'[q].on = req[q].on
    <3>1. Issuing(q) /\ Owner(req[q].key) = t
      BY <2>3 DEF Issuing, IssueSteps
    <3>2. req[q].on = tenant[t].audit
      BY <1>2, <2>2, <3>1 DEF DecisionsInv
    <3>3. q \in Deciding(t)
      BY <1>3, <2>1, <2>3, DecidingIs
    <3>4. ~Toggled(r, t)
      <4>1. SUFFICES ASSUME Toggled(r, t)
                     PROVE  FALSE
        OBVIOUS
      <4>2. req[r].at = "toggle" /\ req[r].of = t
        BY <4>1 DEF Toggled, Toggling
      <4>3. q = r
        BY <1>2, <2>2, <3>3, <4>2 DEF DecisionsInv
      <4> QED
        BY <2>3, <4>2, <4>3 DEF IssueSteps
    <3> QED
      BY <2>2, <2>3, <3>2, <3>4
  <2>4. CASE q = r /\ req'[r].at = "subscribe" /\ req'[r].on = tenant[t].audit
             /\ req[r].at = "free"
    <3>1. ~Toggled(r, t)
      BY <2>4 DEF Toggled, Toggling
    <3> QED
      BY <2>2, <2>4, <3>1
  <2> QED
    BY <1>1, <2>1, <2>3, <2>4 DEF OthersStay, IssueMoves, SameKey
<1>9. \A q \in Requests : (req[q].at = "toggle")' =>
         /\ Begun(req[q].of)'
         /\ \A k \in call'[q].goal.keys : Revealed(k)'
         /\ (req[q].of \notin contested)' =>
              /\ RowsIn(KeysOf(req[q].of))' \subseteq call'[q].goal.keys
              /\ \A p \in Requests : (p \in Deciding(req[q].of))' => p = q
  BY <1>4, <1>7
<1> QED
  BY <1>6, <1>8, <1>9 DEF DecisionsInv, Owner

LEMMA StepKeepsFlags ==
    ASSUME Inv, Inv', RowsInv, NEW r \in Requests, HandlerStep(r), ~overwritten'
    PROVE  FlagsInPlace'
<1>1. /\ UNCHANGED <<aud, overwritten>>
      /\ lapsed \subseteq lapsed' /\ contested \subseteq contested' /\ OthersStay(r)
      /\ IssueMoves(r) /\ RevokeMoves(r) /\ ToggleMoves(r) /\ TenantMoves(r) /\ RowMoves(r)
  BY DEF HandlerStep, LoopVars
<1>2. FlagsInPlace /\ DecisionsInv
  BY <1>1 DEF RowsInv, PlacesInv
<1>3. \A x \in Keys : Owner(x) \in Tenants /\ \A t : x \in KeysOf(t) <=> Owner(x) = t
  BY OwnerTyped
<1>4. \A x \in Keys : row'[x] = "unused" => x \notin aud'
  BY <1>1, <1>2, RowsGrowByIssue DEF FlagsInPlace
<1>5. ASSUME NEW q \in Requests
      PROVE  /\ req'[q].at \in {"subscribe", "vault", "limits"} => req'[q].key \notin aud'
             /\ req'[q].at = "flag" /\ call'[q].step = "done" => req'[q].key \in aud'
  <2>1. CASE q # r
    BY <1>1, <1>2, <2>1 DEF OthersStay, FlagsInPlace
  <2>2. CASE q = r
    <3>1. ~(req'[r].at = "flag" /\ call'[r].step = "done")
      BY <1>1 DEF IssueMoves
    <3>2. req'[r].at = "subscribe" /\ req'[r].key \in Keys => req'[r].key \notin aud
      BY <1>1, <1>2 DEF IssueMoves, FlagsInPlace, IssueSteps, SameKey
    <3>3. req'[r].at \in {"subscribe", "vault", "limits"} => req'[r].key \in Keys
      BY DEF Inv, StateInv, HandlersInv, HandlerOK, KeySteps
    <3>4. req'[r].at \in {"vault", "limits"} => req'[r].key \notin aud
      BY <1>1, <1>2 DEF IssueMoves, FlagsInPlace, IssueSteps, SameKey
    <3> QED
      BY <1>1, <2>2, <3>1, <3>2, <3>3, <3>4
  <2> QED
    BY <2>1, <2>2
<1>6. ASSUME NEW x \in Keys \ lapsed', Owner(x) \notin contested',
             tenant'[Owner(x)].live, HasRow(x)', ~Revoking(x)'
      PROVE  FlagInPlace(x)'
  <2> DEFINE t == Owner(x)
  <2>1. /\ t \in Tenants /\ t \notin contested /\ tenant[t].live /\ x \notin lapsed
        /\ ~Revoking(x)
        /\ tenant'[t].audit = tenant[t].audit \/ Toggled(r, t)
    BY <1>1, <1>3, <1>6, RevokingGoesOn DEF TenantMoves
  <2>2. \A q \in Requests : q # r => /\ Toggled(q, t)' <=> Toggled(q, t)
                                     /\ req'[q].on = req[q].on
    BY <1>1 DEF OthersStay, Toggled, Toggling, Owner
  <2>3. \A q \in Requests : Toggling(q, t) => \A p \in Requests : p \in Deciding(t) => p = q
    BY <1>2, <2>1 DEF DecisionsInv, Toggling
  <2>4. CASE HasRow(x)
    <3>1. FlagInPlace(x)
      BY <1>2, <1>6, <2>1, <2>4 DEF FlagsInPlace
    <3>2. ~Toggled(r, t)'
      <4>1. SUFFICES ASSUME req'[r].at = "toggle", req'[r].of = t, call'[r].step = "done"
                     PROVE  FALSE
        BY DEF Toggled, Toggling, Owner
      <4>2. RowsIn(KeysOf(t)) = {}
        BY <1>1, <4>1 DEF ToggleMoves
      <4> QED
        BY <1>3, <2>4, <4>2 DEF RowsIn
    <3>3. CASE Toggled(r, t)
      <4>1. x \in aud <=> req[r].on
        BY <3>1, <3>3 DEF FlagInPlace
      <4>2. \A q \in Requests : Toggled(q, t) => q = r
        BY <2>3, <3>3, DecidingIs DEF Toggled
      <4>3. \A q \in Requests : ~Toggled(q, t)'
        BY <2>2, <3>2, <4>2
      <4>4. req[r].at = "toggle" /\ req[r].of = t /\ call[r].step = "done"
        BY <3>3 DEF Toggled, Toggling
      <4>5. x \in call[r].goal.keys
        <5>1. x \in RowsIn(KeysOf(t))
          BY <1>3, <2>4 DEF RowsIn
        <5> QED
          BY <1>2, <2>1, <4>4, <5>1 DEF DecisionsInv
      <4>6. tenant'[t].audit = req[r].on
        BY <1>1, <1>6, <4>4, <4>5 DEF ToggleMoves
      <4> QED
        BY <1>1, <4>1, <4>3, <4>6 DEF FlagInPlace, Owner
    <3>4. CASE ~Toggled(r, t)
      <4>1. tenant'[t].audit = tenant[t].audit
        BY <2>1, <3>4
      <4>2. \A q \in Requests : /\ Toggled(q, t)' <=> Toggled(q, t)
                                /\ Toggled(q, t)' => req'[q].on = req[q].on
        BY <2>2, <3>2, <3>4
      <4> QED
        BY <1>1, <3>1, <4>1, <4>2 DEF FlagInPlace, Owner
    <3> QED
      BY <3>3, <3>4
  <2>5. CASE ~HasRow(x)
    <3>1. /\ req[r].key = x /\ call[r].step = "done" /\ Issuing(r)
          /\ (req[r].at = "limits" /\ ~req[r].on) \/ req[r].at = "flag"
      BY <1>1, <1>6, <2>5, RowsGrowByIssue
    <3>2. req[r].on = tenant[t].audit
      BY <1>2, <2>1, <3>1 DEF DecisionsInv
    <3>3. x \in aud <=> req[r].on
      BY <1>2, <3>1 DEF FlagsInPlace, RowsInv, GoalsInv, GoalOK
    <3>4. r \in Deciding(t)
      BY <1>3, <3>1, DecidingIs DEF Issuing, IssueSteps
    <3>5. \A q \in Requests : ~Toggling(q, t)
      BY <2>3, <3>1, <3>4 DEF Toggling, Issuing
    <3>6. ~Toggling(r, t)'
      BY <1>1, <3>1 DEF ToggleMoves, Toggling, Issuing
    <3>7. \A q \in Requests : ~Toggled(q, t)' /\ ~Toggled(q, t)
      BY <2>2, <3>5, <3>6 DEF Toggled
    <3> QED
      BY <1>1, <2>1, <3>2, <3>3, <3>7 DEF FlagInPlace, Owner
  <2> QED
    BY <2>4, <2>5
<1> QED
  BY <1>4, <1>5, <1>6 DEF FlagsInPlace, Owner

LEMMA StepKeepsRows ==
    ASSUME Inv, Inv', RowsInv, NEW r \in Requests, HandlerStep(r)
    PROVE  RowsInv'
<1>1. GoalsInv'
  <2>1. GoalOK(r)'
    BY DEF HandlerStep
  <2>2. ASSUME NEW q \in Requests, q # r
        PROVE  GoalOK(q)'
    <3>1. req'[q] = req[q] /\ call'[q] = call[q]
      BY <2>2 DEF HandlerStep, OthersStay
    <3>2. GoalOK(q)
      BY DEF RowsInv, GoalsInv
    <3> QED
      BY <3>1, <3>2 DEF GoalOK, KeysOf
  <2> QED
    BY <2>1, <2>2 DEF GoalsInv
<1>2. (~named => lim = {} /\ aud = {})'
  BY DEF HandlerStep, LoopVars, RowsInv, PlacesInv
<1> QED
  BY <1>1, <1>2, StepKeepsDecisions, StepKeepsLimits, StepKeepsFlags DEF RowsInv, PlacesInv

(* A tenant that is created has no keys yet, and is nobody's decision.     *)
LEMMA CreationKeepsRows ==
    ASSUME Inv, RowsInv,
           \/ \E t \in Tenants : CreateTenant(t) \/ EnsureTenantProduct(t)
           \/ \E p \in Projects : CreateProject(p)
    PROVE  RowsInv'
<1>1. UNCHANGED <<limitsVars, row, secret, req, lapsed, contested>>
  BY DEF CreateTenant, EnsureTenantProduct, CreateProject, Works, NoLoop
<1>2. \A t \in Tenants :
        /\ Begun(t) => Begun(t)'
        /\ tenant'[t].live => /\ tenant[t].live \/ ~Begun(t)
                              /\ tenant'[t].audit = tenant[t].audit
  <2>1. tenant \in [Tenants -> [live : BOOLEAN, product : BOOLEAN, audit : BOOLEAN]]
    BY DEF Inv, StateInv, TablesInv
  <2>2. ASSUME NEW t \in Tenants, CreateTenant(t)
        PROVE  \A x \in Tenants :
                 /\ Begun(x) => Begun(x)'
                 /\ tenant'[x].live => /\ tenant[x].live \/ ~Begun(x)
                                       /\ tenant'[x].audit = tenant[x].audit
    <3>1. PICK bound \in BOOLEAN :
             tenant' = [tenant EXCEPT ![t] = [live |-> TRUE, product |-> bound, audit |-> FALSE]]
      BY <2>2 DEF CreateTenant
    <3>2. tenant[t] = [live |-> FALSE, product |-> FALSE, audit |-> FALSE]
      BY <2>2 DEF CreateTenant
    <3>3. /\ tenant'[t] = [live |-> TRUE, product |-> bound, audit |-> FALSE]
          /\ \A x \in Tenants : x # t => tenant'[x] = tenant[x]
      BY <2>1, <3>1
    <3>4. ~Begun(t) /\ tenant'[t].audit = tenant[t].audit
      BY <3>2, <3>3 DEF Begun
    <3> QED
      BY <3>3, <3>4 DEF Begun
  <2>3. ASSUME NEW t \in Tenants, EnsureTenantProduct(t)
        PROVE  \A x \in Tenants :
                 /\ Begun(x) => Begun(x)'
                 /\ tenant'[x].live => /\ tenant[x].live \/ ~Begun(x)
                                       /\ tenant'[x].audit = tenant[x].audit
    BY <2>1, <2>3 DEF EnsureTenantProduct, Begun
  <2>4. ASSUME NEW p \in Projects, CreateProject(p)
        PROVE  tenant' = tenant
    BY <2>4 DEF CreateProject
  <2> QED
    BY <2>2, <2>3, <2>4 DEF Begun
<1>3. \A x \in Keys : Owner(x) \in Tenants
  BY OwnerTyped
<1>4. \A q \in Requests : /\ req[q].at = "toggle" => req[q].of \in Tenants
                          /\ Issuing(q) => req[q].key \in Keys /\ row[req[q].key] = "drawn"
  BY KeysTyped DEF Issuing, KeySteps
<1>5. GoalsInv'
  BY <1>1 DEF RowsInv, GoalsInv, GoalOK, limitsVars
<1>6. DecisionsInv'
  <2>1. DecisionsInv
    BY DEF RowsInv
  <2>2. \A q \in Requests : Issuing(q) => Begun(Owner(req[q].key))
    BY <1>4, <2>1 DEF DecisionsInv
  <2> QED
    BY <1>1, <1>2, <1>3, <1>4, <2>1, <2>2 DEF DecisionsInv, Revealed, RowsIn, HasRow,
         Deciding, Issuing, Owner, limitsVars
<1>7. \A x \in Keys : tenant'[Owner(x)].live /\ HasRow(x) =>
        tenant[Owner(x)].live /\ tenant'[Owner(x)].audit = tenant[Owner(x)].audit
  BY <1>2, <1>3 DEF RowsInv, DecisionsInv, HasRow
<1>8. ASSUME ~overwritten'
      PROVE  LimitsInPlace' /\ FlagsInPlace'
  <2>1. ~overwritten /\ LimitsInPlace /\ FlagsInPlace
    BY <1>1, <1>8 DEF limitsVars, RowsInv, PlacesInv
  <2>2. LimitsInPlace'
    BY <1>1, <2>1 DEF LimitsInPlace, Own, HasRow, Revoking, limitsVars
  <2>3. FlagsInPlace'
    BY <1>1, <1>7, <2>1 DEF FlagsInPlace, FlagInPlace, Toggled, Toggling, HasRow, Revoking,
         Owner, limitsVars
  <2> QED
    BY <2>2, <2>3
<1> QED
  BY <1>1, <1>5, <1>6, <1>8 DEF RowsInv, PlacesInv, limitsVars

-----------------------------------------------------------------------------
(* The handlers' steps follow these moves.  First what most of them share. *)
LEMMA IdleIsOK ==
    ASSUME NEW r \in Requests, req'[r].at \notin LoopSteps, call'[r].step = "idle"
    PROVE  GoalOK(r)'
BY DEF GoalOK, LoopSteps

LEMMA WasIdle ==
    ASSUME GoalsInv, NEW r \in Requests, req[r].at \notin LoopSteps
    PROVE  call[r].step = "idle"
BY DEF GoalsInv, GoalOK

LEMMA TenantsStay ==
    ASSUME NEW r \in Requests, tenant' = tenant
    PROVE  TenantMoves(r)
BY DEF TenantMoves, Begun

LEMMA FailuresAdd ==
    ASSUME NEW ks, Works \/ Fails(ks)
    PROVE  lapsed \subseteq lapsed' /\ (lapsed' = lapsed \/ ks \subseteq lapsed')
BY DEF Works, Fails

(* A step that neither issues, revokes nor toggles.                        *)
PlainSteps == {"free", "get", "put", "mark", "cascade", "block", "ensure"}
LEMMA PlainStep ==
    ASSUME NEW r \in Requests, OthersStay(r), UNCHANGED LoopVars,
           lapsed \subseteq lapsed', contested' = contested,
           req[r].at \in PlainSteps, req'[r].at \in PlainSteps \cup {"drop"},
           GoalOK(r)', TenantMoves(r), RowMoves(r)
    PROVE  HandlerStep(r)
BY DEF HandlerStep, PlainSteps, IssueMoves, RevokeMoves, ToggleMoves, IssueSteps, RevokeSteps

(* Handlers that begin, or end, and touch no row, no tenant and no loop.   *)
LEMMA QuietStep ==
    ASSUME RowsInv, NEW r \in Requests,
           \A q \in Requests : q # r => req'[q] = req[q],
           NoLoop, lapsed \subseteq lapsed', UNCHANGED <<tenant, row, secret, contested>>,
           req[r].at \in PlainSteps \ {"ensure"},
           req'[r].at \in (PlainSteps \ {"ensure"}) \cup {"drop"}
    PROVE  HandlerStep(r)
<1>1. UNCHANGED LoopVars /\ call' = call /\ OthersStay(r)
  BY LoopAlone DEF OthersStay
<1>2. call[r].step = "idle"
  BY WasIdle DEF RowsInv, PlainSteps, LoopSteps
<1>3. GoalOK(r)'
  BY <1>1, <1>2, IdleIsOK DEF PlainSteps, LoopSteps
<1>4. RowMoves(r)
  BY DEF RowMoves
<1> QED
  BY <1>1, <1>3, <1>4, TenantsStay, PlainStep

(* The entries: suspend, delete, the cascades and a charge.                *)
LEMMA EntriesMove ==
    ASSUME Inv, RowsInv, NEW r \in Requests,
           \/ \E k \in Keys : SuspendKey(r, k) \/ DeleteKey(r, k)
           \/ \E t \in Tenants : DeleteTenant(r, t)
           \/ \E p \in Projects : DeleteProject(r, p)
           \/ \E b \in Budgets : AddSpend(r, b)
    PROVE  HandlerStep(r)
<1>1. PICK h : Enter(r, h) /\ h.at \in {"get", "drop", "cascade", "block"}
  <2>1. ASSUME NEW k \in Keys, SuspendKey(r, k) \/ DeleteKey(r, k)
        PROVE  \E h : Enter(r, h) /\ h.at \in {"get", "drop", "cascade", "block"}
    BY <2>1 DEF SuspendKey, DeleteKey, Handler
  <2>2. ASSUME NEW t \in Tenants, DeleteTenant(r, t)
        PROVE  \E h : Enter(r, h) /\ h.at \in {"get", "drop", "cascade", "block"}
    BY <2>2 DEF DeleteTenant, Handler
  <2>3. ASSUME NEW p \in Projects, DeleteProject(r, p)
        PROVE  \E h : Enter(r, h) /\ h.at \in {"get", "drop", "cascade", "block"}
    BY <2>3 DEF DeleteProject, Handler
  <2>4. ASSUME NEW b \in Budgets, AddSpend(r, b)
        PROVE  \E h : Enter(r, h) /\ h.at \in {"get", "drop", "cascade", "block"}
    <3> DEFINE cut == IF spent[b] + 1 >= Limit /\ b \in Blocking
                      THEN {k \in Scope[b] : row[k] = "active"} ELSE {}
               h == [Handler("block", Nil, b, FALSE) EXCEPT
                        !.sum = spent[b] + 1, !.cut = cut, !.todo = cut,
                        !.saw = RowsIn(Scope[b])]
    <3>1. Enter(r, h)
      BY <2>4 DEF AddSpend
    <3> HIDE DEF cut
    <3>2. h.at = "block"
      BY DEF Handler
    <3> HIDE DEF h
    <3> QED
      BY <3>1, <3>2
  <2> QED
    BY <2>1, <2>2, <2>3, <2>4
<1>2. NoLoop /\ lapsed' = lapsed /\ UNCHANGED <<tenant, row, secret, contested>>
  BY DEF SuspendKey, DeleteKey, DeleteTenant, DeleteProject, AddSpend, Works, dbVars
<1>3. /\ req'[r] = h /\ req[r].at = "free"
      /\ \A q \in Requests : q # r => req'[q] = req[q]
  BY <1>1, Enters
<1> QED
  BY <1>1, <1>2, <1>3, QuietStep DEF PlainSteps

(* suspend_key.                                                            *)
LEMMA SuspendMoves ==
    ASSUME Inv, RowsInv, NEW r \in Requests,
           GetSubscription(r) \/ PutState(r) \/ PutStateFails(r) \/ MarkSuspended(r)
    PROVE  HandlerStep(r)
<1>1. /\ NoLoop /\ UNCHANGED <<tenant, secret, contested>> /\ lapsed \subseteq lapsed'
      /\ req[r].at \in {"get", "put", "mark"}
  BY DEF GetSubscription, PutState, PutStateFails, MarkSuspended, Works, Fails, dbVars
<1>2. /\ req'[r].at \in {"free", "put", "mark"}
      /\ \A q \in Requests : q # r => req'[q] = req[q]
  <2>1. CASE GetSubscription(r) \/ PutState(r)
    <3>1. PICK at \in {"put", "mark"} : Goto(r, at)
      BY <2>1 DEF GetSubscription, PutState
    <3>2. at \in KeySteps /\ req[r].at \in KeySteps
      BY <1>1 DEF KeySteps
    <3> QED
      BY <3>1, <3>2, GoesOn
  <2>2. CASE PutStateFails(r) \/ MarkSuspended(r)
    <3>1. End(r)
      BY <2>2 DEF PutStateFails, MarkSuspended
    <3> QED
      BY <3>1, Ends
  <2> QED
    BY <2>1, <2>2
<1>3. CASE row' = row
  BY <1>1, <1>2, <1>3, QuietStep DEF PlainSteps
<1>4. CASE row' # row
  <2>1. row' = [row EXCEPT ![req[r].key] = "suspended"] /\ HasRow(req[r].key)
    <3>1. GetSubscription(r) \/ PutState(r) => row' = row
      BY DEF GetSubscription, PutState, dbVars
    <3>2. PutStateFails(r) => row' = row
      BY DEF PutStateFails, dbVars
    <3>3. MarkSuspended(r)
      BY <1>4, <3>1, <3>2
    <3> QED
      BY <1>4, <3>3 DEF MarkSuspended
  <2>2. row \in [Keys -> {"unused", "drawn", "active", "suspended", "gone"}]
    BY DEF Inv, StateInv, TablesInv
  <2>3. RowMoves(r)
    BY <1>1, <2>1, <2>2 DEF RowMoves
  <2>4. UNCHANGED LoopVars /\ call' = call /\ OthersStay(r)
    BY <1>1, <1>2, LoopAlone DEF OthersStay
  <2>5. GoalOK(r)'
    BY <1>1, <1>2, <2>4, WasIdle, IdleIsOK DEF LoopSteps, RowsInv
  <2> QED
    BY <1>1, <1>2, <2>3, <2>4, <2>5, TenantsStay, PlainStep DEF PlainSteps
<1> QED
  BY <1>3, <1>4

(* delete_project and delete_tenant, and the charges of a budget.          *)
LEMMA CascadesMove ==
    ASSUME Inv, RowsInv, NEW r \in Requests, Cascade(r)
    PROVE  HandlerStep(r)
<1> DEFINE ps == req[r].of
           taken == RowsIn({k \in Keys : ProjectOf[k] \in ps})
<1>1. /\ NoLoop /\ UNCHANGED <<secret, contested>> /\ lapsed' = lapsed \cup taken
      /\ req[r].at = "cascade" /\ End(r)
      /\ row' = [k \in Keys |-> IF k \in taken THEN "gone" ELSE row[k]]
      /\ tenant' = [t \in Tenants |->
                      IF req[r].on /\ t \in {TenantOf[p] : p \in ps}
                      THEN [live |-> FALSE, product |-> TRUE, audit |-> FALSE]
                      ELSE tenant[t]]
  BY DEF Cascade
<1>2. \A k \in taken : HasRow(k)
  BY DEF RowsIn
<1> HIDE DEF taken
<1>3. RowMoves(r)
  BY <1>1, <1>2 DEF RowMoves, HasRow
<1>4. TenantMoves(r)
  <2>1. \A t \in Tenants : \/ tenant'[t] = tenant[t]
                           \/ tenant'[t] = [live |-> FALSE, product |-> TRUE, audit |-> FALSE]
    BY <1>1
  <2> QED
    BY <2>1 DEF TenantMoves, Begun
<1>5. req'[r].at = "free" /\ \A q \in Requests : q # r => req'[q] = req[q]
  BY <1>1, Ends
<1>6. UNCHANGED LoopVars /\ call' = call /\ OthersStay(r)
  BY <1>1, <1>5, LoopAlone DEF OthersStay
<1>7. GoalOK(r)'
  BY <1>1, <1>5, <1>6, WasIdle, IdleIsOK DEF LoopSteps, RowsInv
<1> QED
  BY <1>1, <1>3, <1>4, <1>5, <1>6, <1>7, PlainStep DEF PlainSteps

LEMMA ChargesMove ==
    ASSUME Inv, RowsInv, NEW r \in Requests, BlockKey(r) \/ PostSpend(r)
    PROVE  HandlerStep(r)
<1>1. /\ NoLoop /\ UNCHANGED <<tenant, secret, contested>> /\ req[r].at = "block"
      /\ lapsed \subseteq lapsed'
  BY DEF BlockKey, PostSpend, Works, Fails, dbVars
<1>2. /\ req'[r].at \in {"free", "block"}
      /\ \A q \in Requests : q # r => req'[q] = req[q]
  <2>1. CASE BlockKey(r)
    <3>1. \/ \E k : req' = [req EXCEPT ![r].todo = @ \ {k}]
          \/ req' = [req EXCEPT ![r] = Free]
      BY <2>1 DEF BlockKey
    <3>2. req \in [Requests -> Handlers] /\ req[r] \in Handlers
      BY DEF Inv, StateInv, HandlersInv
    <3> QED
      BY <1>1, <3>1, <3>2, FreeTyped DEF Handlers
  <2>2. CASE PostSpend(r)
    <3>1. End(r)
      BY <2>2 DEF PostSpend
    <3> QED
      BY <3>1, Ends
  <2> QED
    BY <2>1, <2>2
<1>3. RowMoves(r)
  <2>1. \A k \in Keys : row'[k] = row[k] \/ (row'[k] = "suspended" /\ HasRow(k))
    <3>1. CASE BlockKey(r)
      BY <3>1 DEF BlockKey, dbVars
    <3>2. CASE PostSpend(r)
      <4>1. \/ /\ RowsIn(req[r].cut) = req[r].cut
               /\ row' = [k \in Keys |-> IF k \in req[r].cut THEN "suspended" ELSE row[k]]
            \/ row' = row
        BY <3>2 DEF PostSpend
      <4> QED
        BY <4>1 DEF RowsIn
    <3> QED
      BY <3>1, <3>2
  <2> QED
    BY <1>1, <2>1 DEF RowMoves
<1>4. UNCHANGED LoopVars /\ call' = call /\ OthersStay(r)
  BY <1>1, <1>2, LoopAlone DEF OthersStay
<1>5. GoalOK(r)'
  BY <1>1, <1>2, <1>4, WasIdle, IdleIsOK DEF LoopSteps, RowsInv
<1> QED
  BY <1>1, <1>2, <1>3, <1>4, <1>5, TenantsStay, PlainStep DEF PlainSteps

(* The named value is ensured (ensure_key_limits_nv).                      *)
LEMMA EnsureMoves ==
    ASSUME Inv, RowsInv, NEW r \in Requests, EnsureNamedValue(r) \/ NamedValueEnsured(r)
    PROVE  HandlerStep(r)
<1>1. UNCHANGED <<tenant, row, secret, lapsed, contested>>
  BY DEF EnsureNamedValue, NamedValueEnsured, Works, dbVars
<1>2. RowMoves(r)
  BY <1>1 DEF RowMoves
<1>3. CASE EnsureNamedValue(r)
  <2> DEFINE g == [kind |-> "ensure", keys |-> {}, on |-> FALSE]
             h == Handler("ensure", Nil, Nil, FALSE)
  <2>1. /\ Enter(r, h) /\ UNCHANGED LoopVars
        /\ call' = [call EXCEPT ![r] = Began(g)]
    BY <1>3 DEF EnsureNamedValue, EnterLoop
  <2>2. g.kind = "ensure" /\ h.at = "ensure"
    BY DEF Handler
  <2> HIDE DEF g, h
  <2>3. /\ req'[r] = h /\ req[r].at = "free"
        /\ \A q \in Requests : q # r => req'[q] = req[q]
    BY <2>1, Enters
  <2>4. OthersStay(r) /\ call'[r].goal = g
    BY <2>1, <2>3, LoopEntered DEF OthersStay
  <2>5. GoalOK(r)'
    BY <2>2, <2>3, <2>4 DEF GoalOK, LoopSteps
  <2> QED
    BY <1>1, <1>2, <2>1, <2>2, <2>3, <2>4, <2>5, TenantsStay, PlainStep DEF PlainSteps
<1>4. CASE NamedValueEnsured(r)
  <2>1. End(r) /\ LeaveLoop(r, {"done", "failed"}) /\ req[r].at = "ensure"
    BY <1>4 DEF NamedValueEnsured
  <2>2. req'[r].at = "free" /\ \A q \in Requests : q # r => req'[q] = req[q]
    BY <2>1, Ends
  <2>3. UNCHANGED LoopVars /\ OthersStay(r) /\ call'[r].step = "idle"
    BY <2>1, <2>2, LoopLeft DEF OthersStay
  <2>4. GoalOK(r)'
    BY <2>2, <2>3, IdleIsOK DEF LoopSteps
  <2> QED
    BY <1>1, <1>2, <2>1, <2>2, <2>3, <2>4, TenantsStay, PlainStep DEF PlainSteps
<1> QED
  BY <1>3, <1>4

(* delete_key, after its entry.                                            *)
LEMMA RevokesMove ==
    ASSUME Inv, RowsInv, NEW r \in Requests,
           DropSubscription(r) \/ DropSecret(r) \/ DropRow(r)
    PROVE  HandlerStep(r)
<1> DEFINE k == req[r].key
<1>1. UNCHANGED <<tenant, contested>> /\ lapsed \subseteq lapsed'
  BY DEF DropSubscription, DropSecret, DropRow, Works, Fails, dbVars
<1>2. /\ row \in [Keys -> {"unused", "drawn", "active", "suspended", "gone"}]
      /\ req[r].at \in RevokeSteps => k \in Keys /\ Revealed(k)
  BY KeysTyped DEF Inv, StateInv, TablesInv, RevokeSteps, KeySteps
<1>3. CASE DropSubscription(r)
  <2> DEFINE g == [kind |-> "remove", keys |-> {k}, on |-> FALSE]
  <2>1. /\ req[r].at = "drop" /\ Goto(r, "unlimit") /\ UNCHANGED <<row, secret>>
        /\ UNCHANGED LoopVars /\ call' = [call EXCEPT ![r] = Began(g)]
    BY <1>3 DEF DropSubscription, EnterLoop, dbVars
  <2>2. g.kind = "remove"
    OBVIOUS
  <2>3. "unlimit" \in KeySteps /\ req[r].at \in KeySteps
    BY <2>1 DEF KeySteps
  <2>4. /\ req'[r].at = "unlimit" /\ SameKey(r)
        /\ \A q \in Requests : q # r => req'[q] = req[q]
    BY <2>1, <2>3, GoesOn
  <2> HIDE DEF g
  <2>5. OthersStay(r) /\ call'[r].goal = g /\ call'[r].step = "read"
    <3>1. /\ \A q \in Requests : q # r => call'[q] = call[q]
          /\ call'[r].goal = g
          /\ call'[r].step = IF g.kind = "audit" /\ g.keys = {} THEN "done" ELSE "read"
      BY <2>1, LoopEntered
    <3> QED
      BY <2>2, <2>4, <3>1 DEF OthersStay
  <2>6. GoalOK(r)'
    BY <2>4, <2>5 DEF GoalOK, LoopSteps, SameKey, g
  <2>7. IssueMoves(r) /\ RevokeMoves(r) /\ ToggleMoves(r)
    BY <2>1, <2>4, <2>5 DEF IssueMoves, RevokeMoves, ToggleMoves, IssueSteps, RevokeSteps
  <2>8. RowMoves(r)
    BY <2>1 DEF RowMoves
  <2> QED
    BY <1>1, <2>1, <2>5, <2>6, <2>7, <2>8, TenantsStay DEF HandlerStep
<1>4. CASE DropSecret(r)
  <2>1. /\ req[r].at = "unlimit" /\ Goto(r, "delete") /\ row' = row
        /\ LeaveLoop(r, {"done", "failed"})
        /\ \/ secret' = secret \ {k} /\ (call[r].step = "failed" => k \in lapsed')
           \/ secret' = secret /\ k \in lapsed'
    BY <1>4 DEF DropSecret, Fails, dbVars
  <2>2. "delete" \in KeySteps /\ req[r].at \in KeySteps
    BY <2>1 DEF KeySteps
  <2>3. /\ req'[r].at = "delete" /\ SameKey(r)
        /\ \A q \in Requests : q # r => req'[q] = req[q]
    BY <2>1, <2>2, GoesOn
  <2>4. /\ UNCHANGED LoopVars /\ OthersStay(r) /\ call'[r].step = "idle"
        /\ call[r].step \in {"done", "failed"}
    BY <2>1, <2>3, LoopLeft DEF OthersStay
  <2>5. GoalOK(r)'
    BY <2>3, <2>4, IdleIsOK DEF LoopSteps
  <2>6. IssueMoves(r) /\ RevokeMoves(r) /\ ToggleMoves(r)
    BY <2>1, <2>3, <2>4 DEF IssueMoves, RevokeMoves, ToggleMoves, IssueSteps, RevokeSteps
  <2>7. RowMoves(r)
    BY <2>1 DEF RowMoves
  <2> QED
    BY <1>1, <2>4, <2>5, <2>6, <2>7, TenantsStay DEF HandlerStep
<1>5. CASE DropRow(r)
  <2>1. /\ req[r].at = "delete" /\ End(r) /\ secret' = secret /\ NoLoop
        /\ row' = [row EXCEPT ![k] = "gone"] \/ (row' = row /\ k \in lapsed')
    BY <1>5 DEF DropRow, Fails
  <2>2. req'[r].at = "free" /\ \A q \in Requests : q # r => req'[q] = req[q]
    BY <2>1, Ends
  <2>3. UNCHANGED LoopVars /\ call' = call /\ OthersStay(r)
    BY <2>1, <2>2, LoopAlone DEF OthersStay
  <2>4. GoalOK(r)'
    BY <2>1, <2>2, <2>3, WasIdle, IdleIsOK DEF LoopSteps, RowsInv
  <2>5. IssueMoves(r) /\ RevokeMoves(r) /\ ToggleMoves(r)
    BY <1>2, <2>1, <2>2 DEF IssueMoves, RevokeMoves, ToggleMoves, IssueSteps, RevokeSteps
  <2>6. RowMoves(r)
    BY <1>2, <2>1 DEF RowMoves, RevokeSteps, Revealed
  <2> QED
    BY <1>1, <2>3, <2>4, <2>5, <2>6, TenantsStay DEF HandlerStep
<1> QED
  BY <1>3, <1>4, <1>5

(* update_tenant with another audit_enabled.                               *)
LEMMA TogglesMove ==
    ASSUME Inv, RowsInv, NEW r \in Requests,
           \/ \E t \in Tenants : \E on \in BOOLEAN : ToggleAudit(r, t, on)
           \/ RecordAudit(r) \/ ToggleRefused(r)
    PROVE  HandlerStep(r)
<1>1. UNCHANGED <<row, secret>> /\ lapsed \subseteq lapsed' /\ contested \subseteq contested'
  BY DEF ToggleAudit, RecordAudit, ToggleRefused, Works, Fails, dbVars
<1>2. RowMoves(r)
  BY <1>1 DEF RowMoves
<1>3. ASSUME NEW t \in Tenants, NEW on \in BOOLEAN, ToggleAudit(r, t, on)
      PROVE  HandlerStep(r)
  <2> DEFINE ks == RowsIn(KeysOf(t))
             g == [kind |-> "audit", keys |-> ks, on |-> on]
             h == Handler("toggle", Nil, t, on)
  <2>1. /\ Enter(r, h) /\ UNCHANGED LoopVars
        /\ call' = [call EXCEPT ![r] = Began(g)]
        /\ tenant[t].live /\ (Deciding(t) # {} => t \in contested') /\ tenant' = tenant
    BY <1>3 DEF ToggleAudit, EnterLoop, dbVars
  <2>2. /\ g.kind = "audit" /\ g.keys = ks /\ g.on = on /\ ks \subseteq KeysOf(t)
        /\ h.at = "toggle" /\ h.of = t /\ h.on = on
    BY DEF Handler, RowsIn
  <2> HIDE DEF g, h
  <2>3. /\ req'[r] = h /\ req[r].at = "free"
        /\ \A q \in Requests : q # r => req'[q] = req[q]
    BY <2>1, Enters
  <2> HIDE DEF ks
  <2>4. OthersStay(r) /\ call'[r].goal = g /\ (call'[r].step = "done" => ks = {})
    <3>1. /\ \A q \in Requests : q # r => call'[q] = call[q]
          /\ call'[r].goal = g
          /\ call'[r].step = IF g.kind = "audit" /\ g.keys = {} THEN "done" ELSE "read"
      BY <2>1, LoopEntered
    <3> QED
      BY <2>2, <2>3, <3>1 DEF OthersStay
  <2>5. GoalOK(r)'
    BY <2>2, <2>3, <2>4 DEF GoalOK, LoopSteps, KeysOf
  <2>6. IssueMoves(r) /\ RevokeMoves(r)
    BY <2>2, <2>3 DEF IssueMoves, RevokeMoves, IssueSteps, RevokeSteps
  <2>7. ToggleMoves(r)
    BY <2>1, <2>2, <2>3, <2>4 DEF ToggleMoves, ks
  <2> QED
    BY <1>1, <1>2, <2>1, <2>4, <2>5, <2>6, <2>7, TenantsStay DEF HandlerStep
<1>4. CASE RecordAudit(r) \/ ToggleRefused(r)
  <2> DEFINE t == req[r].of
  <2>1. /\ req[r].at = "toggle" /\ End(r)
        /\ \E s \in {"done", "failed"} :
             /\ LeaveLoop(r, {s})
             /\ s = "failed" => ToggleRefused(r)
             /\ s = "done" => RecordAudit(r)
    BY <1>4 DEF RecordAudit, ToggleRefused
  <2>2. req'[r].at = "free" /\ \A q \in Requests : q # r => req'[q] = req[q]
    BY <2>1, Ends
  <2>3. /\ UNCHANGED LoopVars /\ OthersStay(r) /\ call'[r].step = "idle"
        /\ call[r].step = "done" => RecordAudit(r)
        /\ call[r].step # "done" => ToggleRefused(r)
    BY <2>1, <2>2, LoopLeft DEF OthersStay
  <2>4. GoalOK(r)'
    BY <2>2, <2>3, IdleIsOK DEF LoopSteps
  <2>5. IssueMoves(r) /\ RevokeMoves(r)
    BY <2>1, <2>2 DEF IssueMoves, RevokeMoves, IssueSteps, RevokeSteps
  <2>6. tenant \in [Tenants -> [live : BOOLEAN, product : BOOLEAN, audit : BOOLEAN]]
        /\ t \in Tenants
    BY <2>1, KeysTyped DEF Inv, StateInv, TablesInv
  <2>7. \/ tenant' = tenant
        \/ /\ tenant' = [tenant EXCEPT ![t].audit = req[r].on]
           /\ call[r].step = "done"
    BY <2>3 DEF RecordAudit, ToggleRefused, dbVars
  <2>8. TenantMoves(r)
    BY <2>1, <2>6, <2>7 DEF TenantMoves, Begun, Toggled, Toggling
  <2>9. call[r].step = "done" =>
          \/ ~tenant'[t].live \/ tenant'[t].audit = req[r].on
          \/ call[r].goal.keys \subseteq lapsed'
    BY <2>3, <2>6 DEF RecordAudit, Fails
  <2>10. ToggleMoves(r)
    BY <2>2, <2>9 DEF ToggleMoves
  <2> QED
    BY <1>1, <1>2, <2>3, <2>4, <2>5, <2>8, <2>10 DEF HandlerStep
<1> QED
  BY <1>3, <1>4

(* create_key: the steps of issuing a key.                                 *)
LEMMA IssuingStep ==
    ASSUME NEW r \in Requests, OthersStay(r), UNCHANGED LoopVars,
           lapsed \subseteq lapsed', contested \subseteq contested',
           req[r].at \in IssueSteps \cup {"free"},
           req'[r].at \in IssueSteps \cup {"free"},
           tenant' = tenant, GoalOK(r)', IssueMoves(r), RowMoves(r)
    PROVE  HandlerStep(r)
BY TenantsStay DEF HandlerStep, RevokeMoves, ToggleMoves, IssueSteps, RevokeSteps

LEMMA IssueBegins ==
    ASSUME Inv, RowsInv, NEW r \in Requests, NEW k \in Keys, CreateKey(r, k)
    PROVE  HandlerStep(r)
<1> DEFINE t == TenantOf[ProjectOf[k]]
           h == Handler("subscribe", k, Nil, tenant[t].audit)
<1>1. /\ Enter(r, h) /\ NoLoop /\ UNCHANGED <<tenant, secret, lapsed>>
      /\ row[k] = "unused" /\ row' = [row EXCEPT ![k] = "drawn"] /\ tenant[t].live
      /\ contested' = IF \E q \in Deciding(t) : req[q].at = "toggle"
                      THEN contested \cup {t} ELSE contested
  BY DEF CreateKey, Works
<1>2. h.at = "subscribe" /\ h.key = k /\ h.on = tenant[t].audit
  BY DEF Handler
<1> HIDE DEF h
<1>3. /\ req'[r] = h /\ req[r].at = "free"
      /\ \A q \in Requests : q # r => req'[q] = req[q]
  BY <1>1, Enters
<1>4. UNCHANGED LoopVars /\ call' = call /\ OthersStay(r)
  BY <1>1, <1>3, LoopAlone DEF OthersStay
<1>5. GoalOK(r)'
  BY <1>2, <1>3, <1>4, WasIdle, IdleIsOK DEF LoopSteps, RowsInv
<1>6. contested \subseteq contested' /\ ((\E q \in Requests : Toggling(q, t)) => t \in contested')
  BY <1>1 DEF Toggling, Deciding
<1>7. IssueMoves(r)
  BY <1>1, <1>2, <1>3, <1>6 DEF IssueMoves, Owner
<1>8. RowMoves(r)
  BY <1>1 DEF RowMoves, Inv, StateInv, TablesInv, Owner
<1> QED
  BY <1>1, <1>2, <1>3, <1>4, <1>5, <1>6, <1>7, <1>8, IssuingStep DEF IssueSteps

(* Subscription, secret, limits and flag: the handler goes on.             *)
LEMMA IssueGoesOn ==
    ASSUME Inv, RowsInv, NEW r \in Requests,
           Subscribe(r) \/ StoreSecret(r) \/ FlagNewKey(r)
    PROVE  HandlerStep(r)
<1> DEFINE k == req[r].key
<1>1. UNCHANGED <<tenant, row, contested, lapsed>>
  BY DEF Subscribe, StoreSecret, FlagNewKey, Works, dbVars
<1>2. CASE Subscribe(r)
  <2>1. /\ req[r].at = "subscribe" /\ Goto(r, "vault") /\ NoLoop /\ secret' = secret
    BY <1>2 DEF Subscribe
  <2>2. "vault" \in KeySteps /\ req[r].at \in KeySteps
    BY <2>1 DEF KeySteps
  <2>3. /\ req'[r].at = "vault" /\ SameKey(r)
        /\ \A q \in Requests : q # r => req'[q] = req[q]
    BY <2>1, <2>2, GoesOn
  <2>4. UNCHANGED LoopVars /\ call' = call /\ OthersStay(r)
    BY <2>1, <2>3, LoopAlone DEF OthersStay
  <2>5. GoalOK(r)'
    BY <2>1, <2>3, <2>4, WasIdle, IdleIsOK DEF LoopSteps, RowsInv
  <2>6. IssueMoves(r) /\ RowMoves(r)
    BY <1>1, <2>1, <2>3 DEF IssueMoves, RowMoves, IssueSteps
  <2> QED
    BY <1>1, <2>1, <2>3, <2>4, <2>5, <2>6, IssuingStep DEF IssueSteps
<1>3. CASE StoreSecret(r)
  <2> DEFINE g == [kind |-> "limits", keys |-> {k}, on |-> k \in Limited]
  <2>1. /\ req[r].at = "vault" /\ Goto(r, "limits") /\ secret' = secret \cup {k}
        /\ UNCHANGED LoopVars /\ call' = [call EXCEPT ![r] = Began(g)]
    BY <1>3 DEF StoreSecret, EnterLoop
  <2>2. "limits" \in KeySteps /\ req[r].at \in KeySteps
    BY <2>1 DEF KeySteps
  <2>3. /\ req'[r].at = "limits" /\ SameKey(r)
        /\ \A q \in Requests : q # r => req'[q] = req[q]
    BY <2>1, <2>2, GoesOn
  <2>4. g.kind = "limits"
    OBVIOUS
  <2> HIDE DEF g
  <2>5. OthersStay(r) /\ call'[r].goal = g /\ call'[r].step = "read"
    <3>1. /\ \A q \in Requests : q # r => call'[q] = call[q]
          /\ call'[r].goal = g
          /\ call'[r].step = IF g.kind = "audit" /\ g.keys = {} THEN "done" ELSE "read"
      BY <2>1, LoopEntered
    <3> QED
      BY <2>3, <2>4, <3>1 DEF OthersStay
  <2>6. GoalOK(r)'
    BY <2>3, <2>5 DEF GoalOK, LoopSteps, SameKey, g
  <2>7. IssueMoves(r) /\ RowMoves(r)
    BY <1>1, <2>1, <2>3, <2>5 DEF IssueMoves, RowMoves, IssueSteps
  <2> QED
    BY <1>1, <2>1, <2>3, <2>5, <2>6, <2>7, IssuingStep DEF IssueSteps
<1>4. CASE FlagNewKey(r)
  <2> DEFINE g == [kind |-> "audit", keys |-> {k}, on |-> TRUE]
  <2>1. /\ req[r].at = "limits" /\ req[r].on /\ call[r].step = "done"
        /\ Goto(r, "flag") /\ secret' = secret
        /\ UNCHANGED LoopVars /\ call' = [call EXCEPT ![r] = Began(g)]
    BY <1>4 DEF FlagNewKey, EnterLoop
  <2>2. "flag" \in KeySteps /\ req[r].at \in KeySteps
    BY <2>1 DEF KeySteps
  <2>3. /\ req'[r].at = "flag" /\ SameKey(r)
        /\ \A q \in Requests : q # r => req'[q] = req[q]
    BY <2>1, <2>2, GoesOn
  <2>4. g.keys # {}
    OBVIOUS
  <2> HIDE DEF g
  <2>5. OthersStay(r) /\ call'[r].goal = g /\ call'[r].step # "done"
    <3>1. /\ \A q \in Requests : q # r => call'[q] = call[q]
          /\ call'[r].goal = g
          /\ call'[r].step = IF g.kind = "audit" /\ g.keys = {} THEN "done" ELSE "read"
      BY <2>1, LoopEntered
    <3> QED
      BY <2>3, <2>4, <3>1 DEF OthersStay
  <2>6. GoalOK(r)'
    BY <2>1, <2>3, <2>5 DEF GoalOK, LoopSteps, SameKey, g
  <2>7. IssueMoves(r) /\ RowMoves(r)
    BY <1>1, <2>1, <2>3, <2>5 DEF IssueMoves, RowMoves, IssueSteps
  <2> QED
    BY <1>1, <2>1, <2>3, <2>5, <2>6, <2>7, IssuingStep DEF IssueSteps
<1> QED
  BY <1>2, <1>3, <1>4

(* The row is inserted, refused, or given up with the key.                 *)
LEMMA IssueEnds ==
    ASSUME Inv, RowsInv, NEW r \in Requests,
           IssueFails(r) \/ InsertRow(r) \/ UndoSecret(r)
    PROVE  HandlerStep(r)
<1> DEFINE k == req[r].key
<1>1. /\ UNCHANGED <<tenant, contested>> /\ lapsed \subseteq lapsed'
      /\ End(r) /\ Issuing(r)
  BY DEF IssueFails, InsertRow, UndoSecret, Works, Fails, Issuing
<1>2. req'[r].at = "free" /\ \A q \in Requests : q # r => req'[q] = req[q]
  BY <1>1, Ends
<1>3. /\ row \in [Keys -> {"unused", "drawn", "active", "suspended", "gone"}]
      /\ k \in Keys /\ row[k] = "drawn"
  BY <1>1, KeysTyped DEF Inv, StateInv, TablesInv, Issuing, KeySteps
<1>4. IssueMoves(r)
  BY <1>2 DEF IssueMoves, IssueSteps
<1>5. req[r].at \in IssueSteps
  BY <1>1, KeysTyped
<1>6. CASE InsertRow(r)
  <2>1. /\ LeaveLoop(r, {"done"}) /\ secret' = secret
        /\ (req[r].at = "limits" /\ ~req[r].on) \/ req[r].at = "flag"
        /\ \/ row' = [row EXCEPT ![k] = "active"]
           \/ row' = [row EXCEPT ![k] = "gone"] /\ k \in lapsed'
    BY <1>6 DEF InsertRow, Fails
  <2>2. /\ UNCHANGED LoopVars /\ OthersStay(r)
        /\ call[r].step = "done" /\ call'[r].step = "idle"
    BY <1>2, <2>1, LoopLeft DEF OthersStay
  <2>3. GoalOK(r)'
    BY <1>2, <2>2, IdleIsOK DEF LoopSteps
  <2>4. RowMoves(r)
    BY <1>3, <2>1, <2>2 DEF RowMoves
  <2> QED
    BY <1>1, <1>2, <1>4, <1>5, <2>2, <2>3, <2>4, IssuingStep
<1>7. CASE IssueFails(r) \/ UndoSecret(r)
  <2>1. /\ NoLoop /\ row' = [row EXCEPT ![k] = "gone"]
        /\ req[r].at \notin LoopSteps
        /\ req[r].at = "undo" \/ k \in lapsed'
        /\ \A x \in Keys : x \in secret' => x \in secret \/ (req[r].at = "vault" /\ x = k)
    BY <1>7 DEF IssueFails, UndoSecret, Fails, LoopSteps
  <2>2. k \in lapsed'
    BY <1>1, <2>1 DEF Inv, KeyInv, OffWithoutRow
  <2>3. UNCHANGED LoopVars /\ call' = call /\ OthersStay(r)
    BY <1>2, <2>1, LoopAlone DEF OthersStay
  <2>4. GoalOK(r)'
    BY <1>2, <2>1, <2>3, WasIdle, IdleIsOK DEF LoopSteps, RowsInv
  <2>5. RowMoves(r)
    BY <1>3, <2>1, <2>2 DEF RowMoves
  <2> QED
    BY <1>1, <1>2, <1>4, <1>5, <2>3, <2>4, <2>5, IssuingStep
<1> QED
  BY <1>6, <1>7

(* The roll-back begins: the subscription is deleted, or fails to be.      *)
LEMMA UndoMoves ==
    ASSUME Inv, RowsInv, NEW r \in Requests, UndoSubscription(r)
    PROVE  HandlerStep(r)
<1>1. /\ UNCHANGED <<tenant, row, secret, contested>> /\ lapsed \subseteq lapsed'
      /\ req[r].at \in {"limits", "flag"} /\ LeaveLoop(r, {"failed"}) /\ Goto(r, "undo")
  BY DEF UndoSubscription, Fails, dbVars
<1>2. "undo" \in KeySteps /\ req[r].at \in KeySteps
  BY <1>1 DEF KeySteps
<1>3. /\ req'[r].at = "undo" /\ SameKey(r)
      /\ \A q \in Requests : q # r => req'[q] = req[q]
  BY <1>1, <1>2, GoesOn
<1>4. UNCHANGED LoopVars /\ OthersStay(r) /\ call'[r].step = "idle"
  BY <1>1, <1>3, LoopLeft DEF OthersStay
<1>5. GoalOK(r)'
  BY <1>3, <1>4, IdleIsOK DEF LoopSteps
<1>6. IssueMoves(r) /\ RowMoves(r)
  BY <1>1, <1>3 DEF IssueMoves, RowMoves, IssueSteps
<1> QED
  BY <1>1, <1>3, <1>4, <1>5, <1>6, IssuingStep DEF IssueSteps

-----------------------------------------------------------------------------
(* The rows, the map and the handlers agree at the start and ever after.   *)
LEMMA RowsInit == KeyInit => RowsInv
<1> SUFFICES ASSUME KeyInit
             PROVE  RowsInv
  OBVIOUS
<1>1. \A q \in Requests : req[q].at = "free" /\ call[q].step = "idle"
  BY FreeTyped DEF KeyInit, LimitsInit, Idle, Call
<1>2. lim = {} /\ aud = {} /\ secret = {} /\ \A k \in Keys : row[k] = "unused"
  BY DEF KeyInit, LimitsInit
<1>3. GoalsInv
  BY <1>1 DEF GoalsInv, GoalOK
<1>4. DecisionsInv
  BY <1>1, <1>2 DEF DecisionsInv, Issuing
<1>5. LimitsInPlace /\ FlagsInPlace
  BY <1>1, <1>2 DEF LimitsInPlace, FlagsInPlace, HasRow
<1> QED
  BY <1>2, <1>3, <1>4, <1>5 DEF RowsInv, PlacesInv

(* Every step of the key service is a step of one handler outside its      *)
(* loop, a step of its loop, or the creation of a tenant or a project.     *)
LEMMA StepsMove ==
    ASSUME Inv, RowsInv, KeyNext
    PROVE  \/ \E r \in Requests : HandlerStep(r) \/ LimitsLoop(r)
           \/ \E t \in Tenants : CreateTenant(t) \/ EnsureTenantProduct(t)
           \/ \E p \in Projects : CreateProject(p)
<1>1. ASSUME NEW r \in Requests,
             \/ \E k \in Keys : SuspendKey(r, k) \/ DeleteKey(r, k)
             \/ \E t \in Tenants : DeleteTenant(r, t)
             \/ \E p \in Projects : DeleteProject(r, p)
             \/ \E b \in Budgets : AddSpend(r, b)
      PROVE  HandlerStep(r)
  BY <1>1, EntriesMove
<1>2. ASSUME NEW r \in Requests,
             \/ GetSubscription(r) \/ PutState(r) \/ PutStateFails(r) \/ MarkSuspended(r)
             \/ Cascade(r) \/ BlockKey(r) \/ PostSpend(r)
             \/ EnsureNamedValue(r) \/ NamedValueEnsured(r)
             \/ DropSubscription(r) \/ DropSecret(r) \/ DropRow(r)
      PROVE  HandlerStep(r)
  BY <1>2, SuspendMoves, CascadesMove, ChargesMove, EnsureMoves, RevokesMove
<1>3. ASSUME NEW r \in Requests,
             \/ \E t \in Tenants : \E on \in BOOLEAN : ToggleAudit(r, t, on)
             \/ RecordAudit(r) \/ ToggleRefused(r)
      PROVE  HandlerStep(r)
  BY <1>3, TogglesMove
<1>4. ASSUME NEW r \in Requests,
             \/ \E k \in Keys : CreateKey(r, k)
             \/ Subscribe(r) \/ StoreSecret(r) \/ FlagNewKey(r)
             \/ IssueFails(r) \/ InsertRow(r) \/ UndoSecret(r) \/ UndoSubscription(r)
      PROVE  HandlerStep(r)
  BY <1>4, IssueBegins, IssueGoesOn, IssueEnds, UndoMoves
<1> QED
  BY <1>1, <1>2, <1>3, <1>4 DEF KeyNext

LEMMA RowsStep ==
    ASSUME Inv, Inv', RowsInv, [KeyNext]_vars
    PROVE  RowsInv'
<1>1. CASE UNCHANGED vars
  <2>1. UNCHANGED <<named, lim, aud, call, overwritten, tenant, row, secret, req,
                    lapsed, contested>>
    BY <1>1 DEF vars, limitsVars, dbVars, history
  <2>2. GoalsInv'
    BY <2>1 DEF RowsInv, GoalsInv, GoalOK
  <2>3. DecisionsInv'
    BY <2>1 DEF RowsInv, DecisionsInv, Begun, Owner, Revealed, RowsIn, HasRow, Deciding, Issuing
  <2>4. LimitsInPlace => LimitsInPlace'
    BY <2>1 DEF LimitsInPlace, Own, HasRow, Revoking
  <2>5. FlagsInPlace => FlagsInPlace'
    BY <2>1 DEF FlagsInPlace, FlagInPlace, Toggled, Toggling, Owner, HasRow, Revoking
  <2> QED
    BY <2>1, <2>2, <2>3, <2>4, <2>5 DEF RowsInv, PlacesInv
<1>2. CASE KeyNext
  BY <1>2, StepsMove, StepKeepsRows, LoopKeepsRows, CreationKeepsRows
<1> QED
  BY <1>1, <1>2

(* A key that has a row has its own limits at the gateway, whatever other  *)
(* keys were issued, flagged or revoked in the meantime, unless one of its *)
(* calls failed or the map was written blindly (create_key,                *)
(* upsert_key_limits, set_audit_flag, remove_key_limits).                  *)
THEOREM RowsHaveTheirLimits == Spec => []LimitsFollowRow
<1>1. RowsInv => LimitsFollowRow
  BY DEF RowsInv, PlacesInv, LimitsInPlace, Own, LimitsFollowRow
<1>2. Inv /\ RowsInv /\ [KeyNext]_vars => Inv' /\ RowsInv'
  BY StepInv, RowsStep
<1> QED
  BY <1>1, <1>2, InitInv, RowsInit, PTL DEF Spec

(* A key whose row is gone leaves no subscription that serves, no secret   *)
(* and no entry of the limits map behind, unless one of its calls failed   *)
(* (delete_key, the roll-back of create_key, the cascades).                *)
THEOREM RevokedKeysAreClean == Spec => []RevokedIsClean
<1>1. Inv /\ RowsInv => RevokedIsClean
  BY DEF Inv, KeyInv, OffWithoutRow, RowsInv, PlacesInv, LimitsInPlace, RevokedIsClean
<1>2. Inv /\ RowsInv /\ [KeyNext]_vars => Inv' /\ RowsInv'
  BY StepInv, RowsStep
<1> QED
  BY <1>1, <1>2, InitInv, RowsInit, PTL DEF Spec

(* The gateway archives what the tenant's row says once no decision is in  *)
(* flight, for every tenant whose decisions were never raced               *)
(* (update_tenant, create_key).                                            *)
THEOREM AuditFollowsTenant == Spec => []AuditAgreesUnlessRaced
<1>1. Inv /\ RowsInv => AuditAgreesUnlessRaced
  <2> SUFFICES ASSUME Inv, RowsInv, ~overwritten, NEW t \in Tenants \ contested,
                      tenant[t].live, Deciding(t) = {},
                      NEW k \in RowsIn(KeysOf(t)) \ lapsed, ~Revoking(k)
               PROVE  k \in aud <=> tenant[t].audit
    BY DEF AuditAgreesUnlessRaced, FlagsAgree
  <2>1. k \in Keys /\ HasRow(k) /\ Owner(k) = t
    BY DEF RowsIn, KeysOf, Owner
  <2>2. FlagInPlace(k)
    BY <2>1 DEF RowsInv, PlacesInv, FlagsInPlace
  <2>3. \A q \in Requests : ~Toggled(q, t)
    BY DEF Deciding, Toggled, Toggling
  <2> QED
    BY <2>1, <2>2, <2>3 DEF FlagInPlace
<1>2. Inv /\ RowsInv /\ [KeyNext]_vars => Inv' /\ RowsInv'
  BY StepInv, RowsStep
<1> QED
  BY <1>1, <1>2, InitInv, RowsInit, PTL DEF Spec

-----------------------------------------------------------------------------
(* How rows may move under the budgets: none becomes active again, and one *)
(* that is inserted was unknown to every charge.                           *)
RowsForCharges ==
    \A k \in Keys : /\ Revealed(k) => Revealed(k)'
                    /\ row'[k] = "active" => row[k] = "active" \/ ~Revealed(k)

(* A step that is not a charge's, or that changes nothing a charge holds.  *)
ChargesHold ==
    /\ UNCHANGED <<spent, later>>
    /\ \A q \in Requests : req'[q].at = "block" =>
         /\ req[q].at = "block"
         /\ req'[q].of = req[q].of /\ req'[q].sum = req[q].sum
         /\ req'[q].saw = req[q].saw /\ req'[q].cut = req[q].cut

LEMMA RowsOfAStep ==
    ASSUME Inv, RowsInv, [KeyNext]_vars
    PROVE  RowsForCharges
<1>1. ASSUME NEW r \in Requests, HandlerStep(r), NEW k \in Keys
      PROVE  /\ Revealed(k) => Revealed(k)'
             /\ row'[k] = "active" => row[k] = "active" \/ ~Revealed(k)
  <2>1. RowMoves(r)
    BY <1>1 DEF HandlerStep
  <2>2. Revealed(k) => Revealed(k)'
    BY <2>1, RowsGrowByIssue
  <2>3. Issuing(r) => row[req[r].key] = "drawn"
    BY KeysTyped
  <2>4. row'[k] = "active" => row[k] = "active" \/ ~Revealed(k)
    BY <2>1, <2>3 DEF RowMoves, Issuing, Revealed
  <2> QED
    BY <2>2, <2>4
<1>2. ASSUME row' = row
      PROVE  RowsForCharges
  BY <1>2 DEF RowsForCharges, Revealed
<1>3. ASSUME NEW r \in Requests, LimitsLoop(r)
      PROVE  row' = row
  BY <1>3 DEF LimitsLoop, dbVars
<1>4. ASSUME \/ \E t \in Tenants : CreateTenant(t) \/ EnsureTenantProduct(t)
             \/ \E p \in Projects : CreateProject(p)
      PROVE  row' = row
  BY <1>4 DEF CreateTenant, EnsureTenantProduct, CreateProject
<1>5. CASE KeyNext
  BY <1>1, <1>2, <1>3, <1>4, <1>5, StepsMove DEF RowsForCharges
<1>6. CASE UNCHANGED vars
  BY <1>2, <1>6 DEF vars, dbVars
<1> QED
  BY <1>5, <1>6

(* The other handlers hold no charge at any step.                          *)
LEMMA NoChargeEnters ==
    ASSUME Inv, NEW r \in Requests,
           \/ \E k \in Keys : CreateKey(r, k) \/ SuspendKey(r, k) \/ DeleteKey(r, k)
           \/ \E t \in Tenants : DeleteTenant(r, t) \/ \E on \in BOOLEAN : ToggleAudit(r, t, on)
           \/ \E p \in Projects : DeleteProject(r, p)
           \/ EnsureNamedValue(r)
    PROVE  ChargesHold
<1>1. ASSUME NEW at, at # "block", NEW k, NEW x, NEW on, Enter(r, Handler(at, k, x, on))
      PROVE  req'[r].at # "block" /\ \A q \in Requests : q # r => req'[q] = req[q]
  <2>1. Handler(at, k, x, on).at = at
    BY DEF Handler
  <2> QED
    BY <1>1, <2>1, Enters
<1>2. \E at, k, x, on : at # "block" /\ Enter(r, Handler(at, k, x, on))
  BY DEF CreateKey, SuspendKey, DeleteKey, DeleteTenant, ToggleAudit, DeleteProject,
         EnsureNamedValue
<1>3. req'[r].at # "block" /\ \A q \in Requests : q # r => req'[q] = req[q]
  BY <1>1, <1>2
<1>4. UNCHANGED <<spent, later>>
  BY DEF CreateKey, SuspendKey, DeleteKey, DeleteTenant, ToggleAudit, DeleteProject,
         EnsureNamedValue, dbVars
<1> QED
  BY <1>3, <1>4 DEF ChargesHold

LEMMA NoChargeGoesOn ==
    ASSUME Inv, NEW r \in Requests,
           \/ Subscribe(r) \/ StoreSecret(r) \/ FlagNewKey(r) \/ UndoSubscription(r)
           \/ GetSubscription(r) \/ PutState(r)
           \/ DropSubscription(r) \/ DropSecret(r)
    PROVE  ChargesHold
<1>1. PICK at \in KeySteps : req[r].at \in KeySteps /\ Goto(r, at)
  BY DEF Subscribe, StoreSecret, FlagNewKey, UndoSubscription, GetSubscription, PutState,
         DropSubscription, DropSecret, KeySteps
<1>2. req'[r].at # "block" /\ \A q \in Requests : q # r => req'[q] = req[q]
  BY <1>1, GoesOn DEF KeySteps
<1>3. UNCHANGED <<spent, later>>
  BY DEF Subscribe, StoreSecret, FlagNewKey, UndoSubscription, GetSubscription, PutState,
         DropSubscription, DropSecret, dbVars
<1> QED
  BY <1>2, <1>3 DEF ChargesHold

LEMMA NoChargeEnds ==
    ASSUME Inv, NEW r \in Requests,
           \/ IssueFails(r) \/ InsertRow(r) \/ UndoSecret(r)
           \/ PutStateFails(r) \/ MarkSuspended(r) \/ DropRow(r)
           \/ RecordAudit(r) \/ ToggleRefused(r) \/ Cascade(r) \/ NamedValueEnsured(r)
    PROVE  ChargesHold
<1>1. End(r)
  BY DEF IssueFails, InsertRow, UndoSecret, PutStateFails, MarkSuspended, DropRow,
         RecordAudit, ToggleRefused, Cascade, NamedValueEnsured
<1>2. req'[r].at # "block" /\ \A q \in Requests : q # r => req'[q] = req[q]
  BY <1>1, Ends
<1>3. UNCHANGED <<spent, later>>
  BY DEF IssueFails, InsertRow, UndoSecret, PutStateFails, MarkSuspended, DropRow,
         RecordAudit, ToggleRefused, Cascade, NamedValueEnsured, dbVars
<1> QED
  BY <1>2, <1>3 DEF ChargesHold

LEMMA BlockKeyHolds ==
    ASSUME Inv, NEW r \in Requests, BlockKey(r)
    PROVE  ChargesHold
<1>1. UNCHANGED <<spent, later>> /\ req[r].at = "block"
  BY DEF BlockKey, dbVars
<1>2. \/ \E k : req' = [req EXCEPT ![r].todo = @ \ {k}]
      \/ req' = [req EXCEPT ![r] = Free]
  BY DEF BlockKey
<1>3. req \in [Requests -> Handlers]
  BY DEF Inv, StateInv, HandlersInv
<1> QED
  BY <1>1, <1>2, <1>3, FreeTyped DEF ChargesHold, Handlers

LEMMA HoldingKeepsCharges ==
    ASSUME ChargesInv, RowsForCharges, ChargesHold, Inv
    PROVE  ChargesInv'
<1>1. \A b \in Budgets : Scope[b] \subseteq Keys
  BY KeyServiceAssumption
<1>2. \A q \in Requests : req[q].saw \subseteq Keys
  BY DEF Inv, StateInv, HandlersInv, Handlers
<1>3. (\A b \in Budgets : \A k \in Scope[b] : k \notin later[b] => Revealed(k))'
  BY <1>1 DEF ChargesInv, RowsForCharges, ChargesHold
<1>4. ASSUME NEW q \in Requests, req'[q].at = "block"
      PROVE  /\ \A k \in req'[q].saw : Revealed(k)'
             /\ req'[q].of \in Blocking /\ req'[q].sum >= Limit =>
                  \A k \in req'[q].saw : row'[k] = "active" => k \in req'[q].cut
  BY <1>2, <1>4 DEF ChargesInv, RowsForCharges, ChargesHold
<1>5. BlockEnforced'
  <2> SUFFICES ASSUME NEW b \in Blocking, spent[b] >= Limit,
                      NEW k \in Scope[b], row'[k] = "active"
               PROVE  k \in later[b]
    BY DEF BlockEnforced, ChargesHold
  <2>1. b \in Budgets /\ k \in Keys
    BY <1>1, KeyServiceAssumption
  <2> QED
    BY <2>1 DEF ChargesInv, BlockEnforced, RowsForCharges
<1> QED
  BY <1>3, <1>4, <1>5 DEF ChargesInv, ChargesHold

LEMMA AddSpendKeepsCharges ==
    ASSUME Inv, ChargesInv, NEW r \in Requests, NEW b \in Budgets, AddSpend(r, b)
    PROVE  ChargesInv'
<1> DEFINE sum == spent[b] + 1
           over == sum >= Limit /\ b \in Blocking
           cut == IF over THEN {k \in Scope[b] : row[k] = "active"} ELSE {}
           h == [Handler("block", Nil, b, FALSE) EXCEPT
                   !.sum = sum, !.cut = cut, !.todo = cut, !.saw = RowsIn(Scope[b])]
<1>1. Enter(r, h) /\ UNCHANGED <<row, spent, later>>
  BY DEF AddSpend, dbVars
<1>2. /\ h.of = b /\ h.sum = sum /\ h.cut = cut /\ h.saw = RowsIn(Scope[b])
  BY DEF Handler
<1> HIDE DEF h
<1>3. /\ req'[r] = h
      /\ \A q \in Requests : q # r => req'[q] = req[q]
  BY <1>1, Enters
<1>4. \A k \in RowsIn(Scope[b]) : Revealed(k)
  BY DEF RowsIn, HasRow, Revealed
<1>5. ASSUME NEW q \in Requests, req'[q].at = "block"
      PROVE  /\ \A k \in req'[q].saw : Revealed(k)
             /\ req'[q].of \in Blocking /\ req'[q].sum >= Limit =>
                  \A k \in req'[q].saw : row[k] = "active" => k \in req'[q].cut
  <2>1. CASE q = r
    BY <1>2, <1>3, <1>4, <2>1 DEF RowsIn
  <2>2. CASE q # r
    BY <1>3, <1>5, <2>2 DEF ChargesInv
  <2> QED
    BY <2>1, <2>2
<1> QED
  BY <1>1, <1>5 DEF ChargesInv, BlockEnforced, Revealed

(* A charge commits: what it found active is suspended with it, so that    *)
(* only keys it did not look at are left active.                           *)
LEMMA PostSpendKeepsCharges ==
    ASSUME Inv, ChargesInv, RowsForCharges, NEW r \in Requests, PostSpend(r)
    PROVE  ChargesInv'
<1> DEFINE b == req[r].of
           cut == req[r].cut
<1>1. req[r].at = "block" /\ End(r)
  BY DEF PostSpend
<1>2. req'[r].at # "block" /\ \A q \in Requests : q # r => req'[q] = req[q]
  BY <1>1, Ends
<1>3. CASE UNCHANGED <<spent, later>>
  <2>1. ChargesHold
    BY <1>2, <1>3 DEF ChargesHold
  <2> QED
    BY <2>1, HoldingKeepsCharges
<1>4. CASE /\ spent' = [spent EXCEPT ![b] = req[r].sum]
           /\ row' = [k \in Keys |-> IF k \in cut THEN "suspended" ELSE row[k]]
           /\ later' = [later EXCEPT ![b] = Scope[b] \ req[r].saw]
  <2>1. /\ b \in Budgets /\ spent \in [Budgets -> 0..starts]
        /\ later \in [Budgets -> SUBSET Keys]
        /\ \A q \in Requests : req[q].saw \subseteq Keys
    BY <1>1 DEF Inv, StateInv, HandlersInv, HandlerOK, Handlers, SumsInv, ChargesInv
  <2>2. \A x \in Budgets : Scope[x] \subseteq Keys
    BY KeyServiceAssumption
  <2>3. /\ later' \in [Budgets -> SUBSET Keys]
        /\ later'[b] = Scope[b] \ req[r].saw /\ spent'[b] = req[r].sum
        /\ \A x \in Budgets : x # b => later'[x] = later[x] /\ spent'[x] = spent[x]
    BY <1>4, <2>1, <2>2
  <2>4. \A k \in req[r].saw : Revealed(k)'
    BY <1>1, <2>1 DEF ChargesInv, RowsForCharges
  <2>5. \A x \in Budgets : \A k \in Scope[x] : k \notin later'[x] => Revealed(k)'
    BY <2>2, <2>3, <2>4 DEF ChargesInv, RowsForCharges
  <2>6. \A k \in Keys : row'[k] = "active" => row[k] = "active" /\ k \notin cut
    BY <1>4
  <2>7. ASSUME NEW q \in Requests, req'[q].at = "block"
        PROVE  /\ \A k \in req'[q].saw : Revealed(k)'
               /\ req'[q].of \in Blocking /\ req'[q].sum >= Limit =>
                    \A k \in req'[q].saw : row'[k] = "active" => k \in req'[q].cut
    <3>1. req'[q] = req[q]
      BY <1>2, <2>7
    <3> QED
      BY <2>1, <2>6, <2>7, <3>1 DEF ChargesInv, RowsForCharges
  <2>8. ASSUME NEW x \in Blocking, spent'[x] >= Limit, NEW k \in Scope[x], row'[k] = "active"
        PROVE  k \in later'[x]
    <3>1. x \in Budgets /\ k \in Keys
      BY <2>2, KeyServiceAssumption
    <3>2. row[k] = "active" /\ k \notin cut
      BY <2>6, <2>8, <3>1
    <3>3. CASE x = b
      <4>1. k \notin req[r].saw
        BY <1>1, <2>3, <2>8, <3>2, <3>3 DEF ChargesInv
      <4> QED
        BY <2>3, <3>3, <4>1
    <3>4. CASE x # b
      BY <2>3, <2>8, <3>1, <3>2, <3>4 DEF ChargesInv, BlockEnforced
    <3> QED
      BY <3>3, <3>4
  <2> QED
    BY <2>3, <2>5, <2>7, <2>8 DEF ChargesInv, BlockEnforced
<1> QED
  BY <1>3, <1>4 DEF PostSpend

LEMMA ChargesInit == KeyInit => ChargesInv
<1> SUFFICES ASSUME KeyInit
             PROVE  ChargesInv
  OBVIOUS
<1>1. /\ \A q \in Requests : req[q].at # "block"
      /\ later = Scope /\ \A k \in Keys : row[k] = "unused"
  BY FreeTyped DEF KeyInit
<1> QED
  BY <1>1, KeyServiceAssumption DEF ChargesInv, BlockEnforced

LEMMA ChargesStep ==
    ASSUME Inv, RowsInv, ChargesInv, [KeyNext]_vars
    PROVE  ChargesInv'
<1>1. RowsForCharges
  BY RowsOfAStep
<1>2. CASE UNCHANGED vars
  BY <1>1, <1>2, HoldingKeepsCharges DEF ChargesHold, vars, dbVars, history
<1>3. ASSUME NEW r \in Requests, LimitsLoop(r)
      PROVE  ChargesHold
  BY <1>3 DEF LimitsLoop, ChargesHold, dbVars
<1>4. ASSUME \/ \E t \in Tenants : CreateTenant(t) \/ EnsureTenantProduct(t)
             \/ \E p \in Projects : CreateProject(p)
      PROVE  ChargesHold
  BY <1>4 DEF CreateTenant, EnsureTenantProduct, CreateProject, ChargesHold
<1>5. ASSUME NEW r \in Requests, BlockKey(r)
      PROVE  ChargesHold
  BY <1>5, BlockKeyHolds
<1>6. ASSUME ChargesHold
      PROVE  ChargesInv'
  BY <1>1, <1>6, HoldingKeepsCharges
<1>7. ASSUME NEW r \in Requests, PostSpend(r)
      PROVE  ChargesInv'
  BY <1>1, <1>7, PostSpendKeepsCharges
<1>8. CASE KeyNext
  BY <1>3, <1>4, <1>5, <1>6, <1>7, <1>8, NoChargeEnters, NoChargeGoesOn, NoChargeEnds,
     AddSpendKeepsCharges DEF KeyNext
<1> QED
  BY <1>2, <1>8

(* Once a BLOCK budget has reached its limit, it leaves only keys active   *)
(* that the last charge committed for it did not find, whatever charges,   *)
(* suspensions, deletions and issues overlap and whatever calls fail       *)
(* (BudgetEnforcer.add_spend, _suspend_keys_for_budget).                   *)
THEOREM BlockedBudgetsStayBlocked == Spec => []BlockEnforced
<1>1. ChargesInv => BlockEnforced
  BY DEF ChargesInv
<1>2. Inv /\ RowsInv /\ ChargesInv /\ [KeyNext]_vars => Inv' /\ RowsInv' /\ ChargesInv'
  BY StepInv, RowsStep, ChargesStep
<1> QED
  BY <1>1, <1>2, InitInv, RowsInit, ChargesInit, PTL DEF Spec

=============================================================================
