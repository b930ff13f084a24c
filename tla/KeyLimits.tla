----------------------------- MODULE KeyLimits -----------------------------
(***************************************************************************)
(* The limits and audit flags of all virtual keys share one APIM named     *)
(* value, a JSON map from key to entry.  Every change reads the map,       *)
(* merges its entry and writes the whole map back under the ETag it read,  *)
(* up to three times (app/services/apim_provisioner.py).                   *)
(*                                                                         *)
(* An entry is abstracted to whether it carries limits and whether it      *)
(* carries the audit flag; a key is never given other limits later.        *)
(***************************************************************************)
EXTENDS Naturals, FiniteSets

CONSTANTS
    Requests,      \* the control plane's request threads
    Keys,          \* virtual keys (ids are never used twice)
    Capacity,      \* entries that fit into the named value
    EtagVisible    \* whether the SDK's named value carries its ETag

ASSUME EtagAssumption == EtagVisible \in BOOLEAN
ASSUME CapacityAssumption == Capacity \in Nat

VARIABLES
    named,         \* whether the named value exists
    lim, aud,      \* its map: keys with limits, keys with the audit flag
    call,          \* the read-merge-write loop each request is in
    provisioned,   \* history: the named value existed from the start
    overwritten    \* history: a write replaced a map it was not merged from

limitsVars == <<named, lim, aud, call, provisioned, overwritten>>

MaxAttempts == 3

Map == [lim |-> lim, aud |-> aud]
Empty == [lim |-> {}, aud |-> {}]
Maps == [lim : SUBSET Keys, aud : SUBSET Keys]

Goals == [kind : {"ensure", "limits", "audit", "remove"},
          keys : SUBSET Keys, on : BOOLEAN]
Nothing == [kind |-> "ensure", keys |-> {}, on |-> FALSE]

Steps == {"idle", "read", "write", "done", "failed"}
Calls == [step : Steps, goal : Goals, attempt : 0..MaxAttempts - 1,
          seen : Maps, etag : {"none", "current", "stale"}]
Call(step, goal, attempt) ==
    [step |-> step, goal |-> goal, attempt |-> attempt,
     seen |-> Empty, etag |-> "none"]
Idle == Call("idle", Nothing, 0)

-----------------------------------------------------------------------------
\* The three merges.  An entry left without fields is dropped from the map,
\* which is what leaving both sets means.
Put(s, ks, on) == IF on THEN s \cup ks ELSE s \ ks

MergeKeyLimit(m, ks, on) == [m EXCEPT !.lim = Put(@, ks, on)]
(* Mutant of MergeAuditFlag: the entry is replaced, its limits are lost. *)
ReplaceByFlag(m, ks, on) == [lim |-> m.lim \ ks, aud |-> Put(m.aud, ks, on)]
MergeAuditFlag(m, ks, on) == [m EXCEPT !.aud = Put(@, ks, on)]
(* Mutant of RemoveKeyLimit: the flag alone is cleared. *)
UnflagOnly(m, ks) == [m EXCEPT !.aud = @ \ ks]
RemoveKeyLimit(m, ks) == [lim |-> m.lim \ ks, aud |-> m.aud \ ks]

Merge(g, m) ==
    CASE g.kind = "limits" -> MergeKeyLimit(m, g.keys, g.on)
      [] g.kind = "audit"  -> MergeAuditFlag(m, g.keys, g.on)
      [] g.kind = "remove" -> RemoveKeyLimit(m, g.keys)
      [] OTHER             -> m

\* Only the two merges that can grow the map look at its size.
OverCap(g, m) ==
    /\ g.kind \in {"limits", "audit"}
    /\ Cardinality(Merge(g, m).lim \cup Merge(g, m).aud) > Capacity

\* The early returns: nothing to flag, nothing to remove, already there.
NothingToDo(g, m) ==
    \/ g.kind = "audit" /\ Merge(g, m) = m
    \/ g.kind = "remove" /\ g.keys \cap (m.lim \cup m.aud) = {}
    \/ g.kind = "ensure" /\ named

-----------------------------------------------------------------------------
LimitsInit ==
    /\ named \in BOOLEAN
    /\ provisioned = named
    /\ lim = {} /\ aud = {}
    /\ call = [r \in Requests |-> Idle]
    /\ overwritten = FALSE

\* upsert_key_limits, set_audit_flag, remove_key_limits or
\* ensure_key_limits_nv is entered; an empty list of keys returns at once.
Began(g) == Call(IF g.kind = "audit" /\ g.keys = {} THEN "done" ELSE "read", g, 0)

(* Mutant of ReadLimits: the ETag is not kept. *)
ReadLimitsOnly(r) ==
    /\ call[r].step = "read"
    /\ LET g == call[r].goal
           m == IF named THEN Map ELSE Empty
       IN call' = [call EXCEPT ![r] =
              IF NothingToDo(g, m) THEN Call("done", g, 0)
              ELSE IF OverCap(g, m) THEN Call("failed", g, 0)
              ELSE [@ EXCEPT !.step = "write", !.seen = m]]
    /\ UNCHANGED <<named, lim, aud, provisioned, overwritten>>
\* A missing value reads as an empty map without an ETag.
ReadLimits(r) ==
    /\ call[r].step = "read"
    /\ LET g == call[r].goal
           m == IF named THEN Map ELSE Empty
       IN call' = [call EXCEPT ![r] =
              IF NothingToDo(g, m) THEN Call("done", g, 0)
              ELSE IF OverCap(g, m) THEN Call("failed", g, 0)
              ELSE [@ EXCEPT !.step = "write", !.seen = m,
                             !.etag = IF named /\ EtagVisible THEN "current"
                                                              ELSE "none"]]
    /\ UNCHANGED <<named, lim, aud, provisioned, overwritten>>

\* The map is written: every ETag read before is out of date from now on.
Land(r, outcome) ==
    /\ call[r].step = "write"
    /\ call[r].etag # "stale"
    /\ LET m == Merge(call[r].goal, call[r].seen)
       IN lim' = m.lim /\ aud' = m.aud
    /\ named' = TRUE
    /\ overwritten' = (overwritten \/ call[r].seen # Map)
    /\ call' = [q \in Requests |->
                  IF q = r THEN Call(outcome, call[r].goal, 0)
                  ELSE IF call[q].etag = "current"
                       THEN [call[q] EXCEPT !.etag = "stale"]
                       ELSE call[q]]
    /\ UNCHANGED provisioned

WriteLimits(r) == Land(r, "done")

\* The write is carried out and its answer is lost.
WriteAnswerLost(r) == Land(r, "failed")

(* Mutant of WriteRefused: one attempt too many. *)
WriteRefusedOnceMore(r) ==
    /\ call[r].step = "write"
    /\ call[r].etag = "stale"
    /\ call' = [call EXCEPT ![r] =
                  IF @.attempt < MaxAttempts
                  THEN Call("read", @.goal, @.attempt + 1)
                  ELSE Call("failed", @.goal, 0)]
    /\ UNCHANGED <<named, lim, aud, provisioned, overwritten>>
\* 412: read again, but for the third time.
WriteRefused(r) ==
    /\ call[r].step = "write"
    /\ call[r].etag = "stale"
    /\ call' = [call EXCEPT ![r] =
                  IF @.attempt < MaxAttempts - 1
                  THEN Call("read", @.goal, @.attempt + 1)
                  ELSE Call("failed", @.goal, 0)]
    /\ UNCHANGED <<named, lim, aud, provisioned, overwritten>>

\* Any other error of the read or the write leaves the loop.
LimitsCallFails(r) ==
    /\ call[r].step \in {"read", "write"}
    /\ call' = [call EXCEPT ![r] = Call("failed", @.goal, 0)]
    /\ UNCHANGED <<named, lim, aud, provisioned, overwritten>>

-----------------------------------------------------------------------------
\* The loops on their own, entered by any request for any goal.
Begin(r, g) ==
    /\ call[r].step \in {"idle", "done", "failed"}
    /\ call' = [call EXCEPT ![r] = Began(g)]
    /\ UNCHANGED <<named, lim, aud, provisioned, overwritten>>

\* The goals the callers have: one key, except for the audit toggle.
CallerGoals == {g \in Goals : g.kind \in {"limits", "remove"} =>
                                  \E k \in Keys : g.keys = {k}}

LimitsNext == \E r \in Requests :
    \/ \E g \in CallerGoals : Begin(r, g)
    \/ ReadLimits(r)
    \/ WriteLimits(r)
    \/ WriteAnswerLost(r)
    \/ WriteRefused(r)
    \/ LimitsCallFails(r)

LimitsSpec == LimitsInit /\ [][LimitsNext]_limitsVars

-----------------------------------------------------------------------------
LimitsTypeOK ==
    /\ named \in BOOLEAN /\ provisioned \in BOOLEAN /\ overwritten \in BOOLEAN
    /\ lim \in SUBSET Keys /\ aud \in SUBSET Keys
    /\ call \in [Requests -> Calls]

\* No change to the map is lost: with a visible ETag (the optimistic
\* concurrency _write_key_limits relies on) no request replaces entries it
\* has not read, unless the named value did not exist when the first keys
\* were issued: those writes go out with If-Match "*".
NoLostUpdate == EtagVisible /\ provisioned => ~overwritten

\* The abstract map: each landed write is one caller's change, applied to the
\* map as it stood.
LM == INSTANCE LimitsMap
OneChangeAtATime == [][LM!Next \/ overwritten']_<<lim, aud>>
=============================================================================
