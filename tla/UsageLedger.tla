----------------------------- MODULE UsageLedger -----------------------------
(***************************************************************************)
(* What the hub promises about a usage record, without the machinery: it   *)
(* is open from the moment it is handed over until it is acknowledged by   *)
(* the broker (settled) or counted as lost (writtenOff).  Only a process   *)
(* that is stopping, or one without an Event Hub (Silent), may forget an   *)
(* open record.  UsageEmitter implements this specification.               *)
(***************************************************************************)
EXTENDS Integers, FiniteSets

CONSTANTS Records

VARIABLES
    Silent,      \* no Event Hub is configured: records are ignored
    open,        \* records the process is responsible for
    settled,     \* records the broker acknowledged
    writtenOff,  \* records counted as lost
    lostCount,   \* the number published as `lost`
    stopped      \* the process takes the emitter down, or is gone

ledgerVars == <<open, settled, writtenOff, lostCount, stopped>>

Init ==
    /\ Silent \in BOOLEAN
    /\ open = {} /\ settled = {} /\ writtenOff = {}
    /\ lostCount = 0
    /\ stopped = FALSE

(* A record is taken on. *)
Accept(r) ==
    /\ ~stopped
    /\ r \notin open \cup settled \cup writtenOff
    /\ open' = open \cup {r}
    /\ UNCHANGED <<settled, writtenOff, lostCount, stopped>>

(* A record is counted as lost without being taken on. *)
Refuse(r) ==
    /\ ~stopped
    /\ r \notin open \cup settled \cup writtenOff
    /\ writtenOff' = writtenOff \cup {r}
    /\ lostCount' = lostCount + 1
    /\ UNCHANGED <<open, settled, stopped>>

(* The broker acknowledges a record. *)
Settle(r) ==
    /\ r \in open
    /\ open' = open \ {r}
    /\ settled' = settled \cup {r}
    /\ UNCHANGED <<writtenOff, lostCount, stopped>>

(* Open records are counted as lost, each once. *)
WriteOff(R) ==
    /\ R # {} /\ R \subseteq open
    /\ open' = open \ R
    /\ writtenOff' = writtenOff \cup R
    /\ lostCount' = lostCount + Cardinality(R)
    /\ UNCHANGED <<settled, stopped>>

(* An unconfigured hub ignores a record. *)
Ignore(r) ==
    /\ Silent
    /\ open' = open \ {r}
    /\ UNCHANGED <<settled, writtenOff, lostCount, stopped>>

(* Taking the emitter down may forget open records. *)
Stop(R) ==
    /\ R \subseteq open
    /\ open' = open \ R
    /\ stopped' = TRUE
    /\ UNCHANGED <<settled, writtenOff, lostCount>>

Next ==
    /\ \/ \E r \in Records : Accept(r) \/ Refuse(r) \/ Settle(r) \/ Ignore(r)
       \/ \E R \in SUBSET Records : WriteOff(R) \/ Stop(R)
    /\ UNCHANGED Silent

Spec == Init /\ [][Next]_<<Silent, ledgerVars>>
=============================================================================
