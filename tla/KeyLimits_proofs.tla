-------------------------- MODULE KeyLimits_proofs --------------------------
(***************************************************************************)
(* Proofs about the shared limits map, for any number of requests and      *)
(* keys, any capacity, and whether or not the SDK shows an ETag.           *)
(*                                                                         *)
(* LimitsInv strengthens NoLostUpdate to an inductive invariant: an ETag   *)
(* that is still current goes with the map as it stands, and where the     *)
(* named value has always existed no write goes out without an ETag.       *)
(* The step lemmas speak of one step of the loop, so that the composition  *)
(* with the handlers can cite them too.                                    *)
(***************************************************************************)
EXTENDS KeyLimits, TLAPS

CurrentIsFresh ==
    \A r \in Requests : call[r].step = "write" /\ call[r].etag = "current" =>
        call[r].seen = Map

ConditionalOnceProvisioned ==
    EtagVisible /\ provisioned =>
        \A r \in Requests : call[r].step = "write" => call[r].etag # "none"

LimitsInv ==
    /\ LimitsTypeOK
    /\ \A r \in Requests : call[r].goal \in CallerGoals
    /\ provisioned => named
    /\ CurrentIsFresh
    /\ ConditionalOnceProvisioned
    /\ NoLostUpdate

-----------------------------------------------------------------------------
(* Call builds a state of the loop: the typing of each handler's entry.    *)
LEMMA CallTyped ==
    ASSUME NEW s \in Steps, NEW g \in Goals, NEW n \in 0..MaxAttempts - 1
    PROVE  /\ Call(s, g, n) \in Calls
           /\ Call(s, g, n).step = s
           /\ Call(s, g, n).goal = g
           /\ Call(s, g, n).etag = "none"
BY DEF Call, Calls, Empty, Maps

(* A merge of a typed map is a typed map (_merge_key_limit,                *)
(* _merge_audit_flag, _remove_key_limit).                                  *)
LEMMA MergeTyped ==
    ASSUME NEW g \in Goals, NEW m \in Maps
    PROVE  Merge(g, m) \in Maps
BY DEF Goals, Maps, Merge, MergeKeyLimit, MergeAuditFlag, RemoveKeyLimit, Put

(* The goal of a request that is in no loop.                               *)
LEMMA NothingIsAGoal == Nothing \in Goals /\ Nothing \in CallerGoals
BY DEF Nothing, Goals, CallerGoals

-----------------------------------------------------------------------------
(* A step that puts one loop anywhere but in front of a write, and leaves  *)
(* the map alone, keeps the invariant: entering, leaving, giving up.       *)
LEMMA MoveKeepsInv ==
    ASSUME LimitsInv, NEW r \in Requests, NEW c \in Calls,
           c.goal \in CallerGoals, c.step # "write",
           call' = [call EXCEPT ![r] = c],
           UNCHANGED <<named, lim, aud, provisioned, overwritten>>
    PROVE  LimitsInv'
<1>1. call' \in [Requests -> Calls]
  BY DEF LimitsInv, LimitsTypeOK
<1>2. LimitsTypeOK'
  BY <1>1 DEF LimitsInv, LimitsTypeOK
<1>3. \A q \in Requests : call'[q] = IF q = r THEN c ELSE call[q]
  BY DEF LimitsInv, LimitsTypeOK
<1>4. (\A q \in Requests : call[q].goal \in CallerGoals)'
  BY <1>3 DEF LimitsInv, CallerGoals, Goals
<1>5. CurrentIsFresh'
  BY <1>3 DEF LimitsInv, CurrentIsFresh, Map
<1>6. ConditionalOnceProvisioned'
  BY <1>3 DEF LimitsInv, ConditionalOnceProvisioned
<1>7. (provisioned => named)' /\ NoLostUpdate'
  BY DEF LimitsInv, NoLostUpdate
<1> QED
  BY <1>2, <1>4, <1>5, <1>6, <1>7 DEF LimitsInv

(* A read keeps the invariant: what it saw is the map of its ETag.         *)
LEMMA ReadKeepsInv ==
    ASSUME LimitsInv, NEW r \in Requests, ReadLimits(r)
    PROVE  LimitsInv'
<1> DEFINE g == call[r].goal
           m == IF named THEN Map ELSE Empty
           e == IF named /\ EtagVisible THEN "current" ELSE "none"
           w == [call[r] EXCEPT !.step = "write", !.seen = m, !.etag = e]
<1>1. UNCHANGED <<named, lim, aud, provisioned, overwritten>>
  BY DEF ReadLimits
<1>2. call[r] \in Calls /\ g \in Goals /\ g \in CallerGoals
  BY DEF LimitsInv, LimitsTypeOK, Calls
<1>3. CASE NothingToDo(g, m)
  <2> DEFINE c == Call("done", g, 0)
  <2>1. call' = [call EXCEPT ![r] = c]
    BY <1>3 DEF ReadLimits
  <2>2. 0 \in 0..MaxAttempts - 1 /\ "done" \in Steps
    BY DEF MaxAttempts, Steps
  <2>3. c \in Calls /\ c.step = "done" /\ c.goal = g
    BY <1>1, <1>2, <2>2, CallTyped
  <2> HIDE DEF c
  <2> QED
    BY <1>1, <1>2, <2>1, <2>3, MoveKeepsInv
<1>4. CASE ~NothingToDo(g, m) /\ OverCap(g, m)
  <2> DEFINE c == Call("failed", g, 0)
  <2>1. call' = [call EXCEPT ![r] = c]
    BY <1>4 DEF ReadLimits
  <2>2. 0 \in 0..MaxAttempts - 1 /\ "failed" \in Steps
    BY DEF MaxAttempts, Steps
  <2>3. c \in Calls /\ c.step = "failed" /\ c.goal = g
    BY <1>1, <1>2, <2>2, CallTyped
  <2> HIDE DEF c
  <2> QED
    BY <1>1, <1>2, <2>1, <2>3, MoveKeepsInv
<1>5. CASE ~NothingToDo(g, m) /\ ~OverCap(g, m)
  <2>1. call' = [call EXCEPT ![r] = w]
    BY <1>5 DEF ReadLimits
  <2>2. m \in Maps
    BY DEF LimitsInv, LimitsTypeOK, Map, Empty, Maps
  <2>3. /\ w \in Calls /\ w.goal = g /\ w.step = "write"
        /\ w.seen = m /\ w.etag = e
    BY <1>2, <2>2 DEF Calls, Steps
  <2> HIDE DEF w, m
  <2>4. call' \in [Requests -> Calls]
    BY <2>1, <2>3 DEF LimitsInv, LimitsTypeOK
  <2>5. \A q \in Requests : call'[q] = IF q = r THEN w ELSE call[q]
    BY <2>1 DEF LimitsInv, LimitsTypeOK
  <2>6. LimitsTypeOK'
    BY <1>1, <2>4 DEF LimitsInv, LimitsTypeOK
  <2>7. (\A q \in Requests : call[q].goal \in CallerGoals)'
    BY <1>2, <2>3, <2>5 DEF LimitsInv, CallerGoals, Goals
  <2>8. CurrentIsFresh'
    BY <1>1, <2>3, <2>5 DEF LimitsInv, CurrentIsFresh, Map, m
  <2>9. ConditionalOnceProvisioned'
    BY <1>1, <2>3, <2>5 DEF LimitsInv, ConditionalOnceProvisioned
  <2>10. (provisioned => named)' /\ NoLostUpdate'
    BY <1>1 DEF LimitsInv, NoLostUpdate
  <2> QED
    BY <2>6, <2>7, <2>8, <2>9, <2>10 DEF LimitsInv
<1> QED
  BY <1>3, <1>4, <1>5

(* A landed write keeps the invariant, whether or not its answer arrives:  *)
(* it was merged from the map it replaces, and every other ETag is stale.  *)
LEMMA LandKeepsInv ==
    ASSUME LimitsInv, NEW r \in Requests, NEW s \in {"done", "failed"}, Land(r, s)
    PROVE  LimitsInv'
<1> DEFINE g == call[r].goal
           d == Call(s, g, 0)
           c(q) == IF q = r THEN d
                   ELSE IF call[q].etag = "current"
                        THEN [call[q] EXCEPT !.etag = "stale"] ELSE call[q]
<1>1. call[r] \in Calls /\ g \in Goals /\ g \in CallerGoals /\ call[r].seen \in Maps
  BY DEF LimitsInv, LimitsTypeOK, Calls
<1>2. 0 \in 0..MaxAttempts - 1 /\ s \in Steps
  BY DEF MaxAttempts, Steps
<1>3. d \in Calls /\ d.step = s /\ d.goal = g /\ d.etag = "none"
  BY <1>1, <1>2, CallTyped
<1> HIDE DEF d
<1>4. call' = [q \in Requests |-> c(q)]
  BY DEF Land, d
<1>5. ASSUME NEW q \in Requests
      PROVE  /\ c(q) \in Calls /\ c(q).goal = call[q].goal
             /\ c(q).etag # "current"
             /\ c(q).step = "write" => call[q].step = "write"
             /\ c(q).etag = "none" => q = r \/ call[q].etag = "none"
             /\ q = r => c(q).step # "write"
  <2>1. call[q] \in Calls
    BY DEF LimitsInv, LimitsTypeOK
  <2> QED
    BY <1>3, <2>1 DEF Calls
<1> HIDE DEF c
<1>6. \A q \in Requests : call'[q] = c(q)
  BY <1>4
<1>7. call' \in [Requests -> Calls]
  BY <1>4, <1>5
<1>8. /\ lim' = Merge(g, call[r].seen).lim /\ aud' = Merge(g, call[r].seen).aud
      /\ named' = TRUE /\ provisioned' = provisioned
      /\ overwritten' = (overwritten \/ call[r].seen # Map)
      /\ call[r].step = "write" /\ call[r].etag # "stale"
  BY DEF Land
<1>9. LimitsTypeOK'
  <2>1. Merge(g, call[r].seen) \in Maps
    BY <1>1, MergeTyped
  <2>2. lim' \in SUBSET Keys /\ aud' \in SUBSET Keys
    BY <1>8, <2>1 DEF Maps
  <2>3. named' \in BOOLEAN /\ provisioned' \in BOOLEAN /\ overwritten' \in BOOLEAN
    BY <1>8 DEF LimitsInv, LimitsTypeOK
  <2> QED
    BY <1>7, <2>2, <2>3 DEF LimitsTypeOK
<1>10. (\A q \in Requests : call[q].goal \in CallerGoals)'
  BY <1>5, <1>6 DEF LimitsInv, CallerGoals, Goals
<1>11. CurrentIsFresh'
  BY <1>5, <1>6 DEF CurrentIsFresh
<1>12. ConditionalOnceProvisioned'
  BY <1>5, <1>6, <1>8 DEF LimitsInv, ConditionalOnceProvisioned
<1>13. NoLostUpdate'
  <2>1. SUFFICES ASSUME EtagVisible, provisioned
                 PROVE  ~overwritten'
    BY <1>8 DEF NoLostUpdate
  <2>2. call[r].etag = "current"
    BY <1>1, <1>8, <2>1 DEF LimitsInv, ConditionalOnceProvisioned, Calls
  <2>3. call[r].seen = Map
    BY <1>8, <2>2 DEF LimitsInv, CurrentIsFresh
  <2> QED
    BY <1>8, <2>1, <2>3 DEF LimitsInv, NoLostUpdate
<1> QED
  BY <1>8, <1>9, <1>10, <1>11, <1>12, <1>13 DEF LimitsInv

(* A refused write keeps the invariant: it reads again or gives up.        *)
LEMMA RefusalKeepsInv ==
    ASSUME LimitsInv, NEW r \in Requests, WriteRefused(r)
    PROVE  LimitsInv'
<1> DEFINE g == call[r].goal
<1>1. call[r] \in Calls /\ g \in Goals /\ g \in CallerGoals
  BY DEF LimitsInv, LimitsTypeOK, Calls
<1>2. call[r].attempt \in 0..MaxAttempts - 1
  BY <1>1 DEF Calls
<1>3. UNCHANGED <<named, lim, aud, provisioned, overwritten>>
  BY DEF WriteRefused
<1>4. CASE call[r].attempt < MaxAttempts - 1
  <2> DEFINE c == Call("read", g, call[r].attempt + 1)
  <2>1. call' = [call EXCEPT ![r] = c]
    BY <1>4 DEF WriteRefused
  <2>2. call[r].attempt + 1 \in 0..MaxAttempts - 1 /\ "read" \in Steps
    BY <1>2, <1>4 DEF MaxAttempts, Steps
  <2>3. c \in Calls /\ c.step = "read" /\ c.goal = g
    BY <1>1, <1>2, <2>2, CallTyped
  <2> HIDE DEF c
  <2> QED
    BY <1>1, <1>2, <1>3, <2>1, <2>3, MoveKeepsInv
<1>5. CASE ~(call[r].attempt < MaxAttempts - 1)
  <2> DEFINE c == Call("failed", g, 0)
  <2>1. call' = [call EXCEPT ![r] = c]
    BY <1>5 DEF WriteRefused
  <2>2. 0 \in 0..MaxAttempts - 1 /\ "failed" \in Steps
    BY DEF MaxAttempts, Steps
  <2>3. c \in Calls /\ c.step = "failed" /\ c.goal = g
    BY <1>1, <1>2, <2>2, CallTyped
  <2> HIDE DEF c
  <2> QED
    BY <1>1, <1>2, <1>3, <2>1, <2>3, MoveKeepsInv
<1> QED
  BY <1>4, <1>5

(* A failed call keeps the invariant.                                      *)
LEMMA FailureKeepsInv ==
    ASSUME LimitsInv, NEW r \in Requests, LimitsCallFails(r)
    PROVE  LimitsInv'
<1> DEFINE c == Call("failed", call[r].goal, 0)
<1>1. call[r].goal \in Goals /\ call[r].goal \in CallerGoals
  BY DEF LimitsInv, LimitsTypeOK, Calls
<1>2. 0 \in 0..MaxAttempts - 1 /\ "failed" \in Steps
  BY DEF MaxAttempts, Steps
<1>3. c \in Calls /\ c.step = "failed" /\ c.goal = call[r].goal
  BY <1>1, <1>2, CallTyped
<1>4. call' = [call EXCEPT ![r] = c]
  BY DEF LimitsCallFails
<1>5. UNCHANGED <<named, lim, aud, provisioned, overwritten>>
  BY DEF LimitsCallFails
<1> HIDE DEF c
<1> QED
  BY <1>1, <1>3, <1>4, <1>5, MoveKeepsInv

(* Entering the loop keeps the invariant.                                  *)
LEMMA EntryKeepsInv ==
    ASSUME LimitsInv, NEW r \in Requests, NEW g \in CallerGoals,
           call' = [call EXCEPT ![r] = Began(g)],
           UNCHANGED <<named, lim, aud, provisioned, overwritten>>
    PROVE  LimitsInv'
<1> DEFINE s == IF g.kind = "audit" /\ g.keys = {} THEN "done" ELSE "read"
           c == Call(s, g, 0)
<1>1. g \in Goals
  BY DEF CallerGoals
<1>2. 0 \in 0..MaxAttempts - 1 /\ s \in Steps /\ s # "write"
  BY DEF MaxAttempts, Steps
<1>3. Began(g) = c
  BY DEF Began
<1> HIDE DEF s
<1>4. c \in Calls /\ c.step = s /\ c.goal = g
  BY <1>1, <1>2, CallTyped
<1> HIDE DEF c
<1> QED
  BY <1>2, <1>3, <1>4, MoveKeepsInv

(* So does leaving it.                                                     *)
LEMMA ExitKeepsInv ==
    ASSUME LimitsInv, NEW r \in Requests,
           call' = [call EXCEPT ![r] = Idle],
           UNCHANGED <<named, lim, aud, provisioned, overwritten>>
    PROVE  LimitsInv'
<1>1. 0 \in 0..MaxAttempts - 1 /\ "idle" \in Steps
  BY DEF MaxAttempts, Steps
<1>2. Idle \in Calls /\ Idle.step = "idle" /\ Idle.goal = Nothing
  BY <1>1, CallTyped, NothingIsAGoal DEF Idle
<1> QED
  BY <1>2, NothingIsAGoal, MoveKeepsInv

-----------------------------------------------------------------------------
(* A landed write is one change of the abstract map, or is on record as a  *)
(* write over entries it had not read.                                     *)
LEMMA LandIsOneChange ==
    ASSUME LimitsInv, NEW r \in Requests, NEW s \in {"done", "failed"}, Land(r, s)
    PROVE  LM!Next \/ overwritten' \/ UNCHANGED <<lim, aud>>
<1> DEFINE g == call[r].goal
<1>1. SUFFICES ASSUME call[r].seen = Map
               PROVE  LM!Next \/ UNCHANGED <<lim, aud>>
  BY DEF Land
<1>2. g \in CallerGoals /\ g \in Goals
  BY DEF LimitsInv, CallerGoals
<1>3. lim' = Merge(g, Map).lim /\ aud' = Merge(g, Map).aud
  BY <1>1 DEF Land
<1> HIDE DEF g
<1>4. CASE g.kind = "limits"
  <2>1. PICK k \in Keys : g.keys = {k}
    BY <1>2, <1>4 DEF CallerGoals
  <2>2. lim' = Put(lim, {k}, g.on) /\ aud' = aud
    BY <1>3, <1>4, <2>1 DEF Merge, MergeKeyLimit, Map
  <2> QED
    BY <2>2 DEF Put, LM!Next, LM!IssueLimits
<1>5. CASE g.kind = "audit"
  <2>1. aud' = Put(aud, g.keys, g.on) /\ lim' = lim
    BY <1>3, <1>5 DEF Merge, MergeAuditFlag, Map
  <2>2. g.keys \in SUBSET Keys
    BY <1>2 DEF Goals
  <2> QED
    BY <2>1, <2>2 DEF Put, LM!Next, LM!FlagAudit
<1>6. CASE g.kind = "remove"
  <2>1. PICK k \in Keys : g.keys = {k}
    BY <1>2, <1>6 DEF CallerGoals
  <2>2. lim' = lim \ {k} /\ aud' = aud \ {k}
    BY <1>3, <1>6, <2>1 DEF Merge, RemoveKeyLimit, Map
  <2> QED
    BY <2>2 DEF LM!Next, LM!Revoke
<1>7. CASE g.kind = "ensure"
  BY <1>3, <1>7 DEF Merge, Map
<1> QED
  BY <1>2, <1>4, <1>5, <1>6, <1>7 DEF Goals

-----------------------------------------------------------------------------
(* LimitsInv holds at the start and is kept by every step of the loops.    *)
LEMMA LimitsInitInv == LimitsInit => LimitsInv
<1> SUFFICES ASSUME LimitsInit
             PROVE  LimitsInv
  OBVIOUS
<1>1. 0 \in 0..MaxAttempts - 1 /\ "idle" \in Steps
  BY DEF MaxAttempts, Steps
<1>2. Idle \in Calls /\ Idle.step = "idle" /\ Idle.goal = Nothing
  BY <1>1, CallTyped, NothingIsAGoal DEF Idle
<1>3. \A r \in Requests : call[r] = Idle
  BY DEF LimitsInit
<1>4. LimitsTypeOK
  BY <1>2 DEF LimitsInit, LimitsTypeOK
<1>5. (\A r \in Requests : call[r].goal \in CallerGoals) /\ CurrentIsFresh
      /\ ConditionalOnceProvisioned
  BY <1>2, <1>3, NothingIsAGoal DEF CurrentIsFresh, ConditionalOnceProvisioned
<1> QED
  BY <1>4, <1>5 DEF LimitsInv, LimitsInit, NoLostUpdate

LEMMA LimitsStepInv == LimitsInv /\ [LimitsNext]_limitsVars => LimitsInv'
<1> SUFFICES ASSUME LimitsInv, [LimitsNext]_limitsVars
             PROVE  LimitsInv'
  OBVIOUS
<1>1. ASSUME NEW r \in Requests, NEW g \in CallerGoals, Begin(r, g)
      PROVE  LimitsInv'
  BY <1>1, EntryKeepsInv DEF Begin
<1>2. ASSUME NEW r \in Requests, ReadLimits(r)
      PROVE  LimitsInv'
  BY <1>2, ReadKeepsInv
<1>3. ASSUME NEW r \in Requests, WriteLimits(r) \/ WriteAnswerLost(r)
      PROVE  LimitsInv'
  BY <1>3, LandKeepsInv DEF WriteLimits, WriteAnswerLost
<1>4. ASSUME NEW r \in Requests, WriteRefused(r)
      PROVE  LimitsInv'
  BY <1>4, RefusalKeepsInv
<1>5. ASSUME NEW r \in Requests, LimitsCallFails(r)
      PROVE  LimitsInv'
  BY <1>5, FailureKeepsInv
<1>6. CASE UNCHANGED limitsVars
  BY <1>6 DEF limitsVars, LimitsInv, LimitsTypeOK, CurrentIsFresh, Map,
              ConditionalOnceProvisioned, NoLostUpdate, CallerGoals
<1> QED
  BY <1>1, <1>2, <1>3, <1>4, <1>5, <1>6 DEF LimitsNext

(* The state of the loops keeps its types, and no update of the shared map *)
(* is lost, whatever interleaving of callers (upsert_key_limits,           *)
(* set_audit_flag, remove_key_limits, ensure_key_limits_nv).               *)
THEOREM LoopsLoseNoUpdate == LimitsSpec => [](LimitsTypeOK /\ NoLostUpdate)
<1>1. LimitsInv => LimitsTypeOK /\ NoLostUpdate
  BY DEF LimitsInv
<1> QED
  BY <1>1, LimitsInitInv, LimitsStepInv, PTL DEF LimitsSpec

(* Every step of the loops is one change of the abstract map, or a write   *)
(* known to replace entries it had not read (_write_key_limits with "*").  *)
THEOREM LoopsImplementMap == LimitsSpec => OneChangeAtATime
<1>1. LimitsInv /\ [LimitsNext]_limitsVars => [LM!Next \/ overwritten']_<<lim, aud>>
  <2> SUFFICES ASSUME LimitsInv, [LimitsNext]_limitsVars
               PROVE  LM!Next \/ overwritten' \/ UNCHANGED <<lim, aud>>
    OBVIOUS
  <2>1. ASSUME NEW r \in Requests, WriteLimits(r) \/ WriteAnswerLost(r)
        PROVE  LM!Next \/ overwritten' \/ UNCHANGED <<lim, aud>>
    BY <2>1, LandIsOneChange DEF WriteLimits, WriteAnswerLost
  <2>2. CASE \E r \in Requests : \/ \E g \in CallerGoals : Begin(r, g)
                                 \/ ReadLimits(r) \/ WriteRefused(r)
                                 \/ LimitsCallFails(r)
    BY <2>2 DEF Begin, ReadLimits, WriteRefused, LimitsCallFails
  <2>3. CASE UNCHANGED limitsVars
    BY <2>3 DEF limitsVars
  <2> QED
    BY <2>1, <2>2, <2>3 DEF LimitsNext
<1> QED
  BY <1>1, LimitsInitInv, LimitsStepInv, PTL DEF LimitsSpec, OneChangeAtATime
=============================================================================
