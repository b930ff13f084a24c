----------------------------- MODULE LimitsMap -----------------------------
(***************************************************************************)
(* What the shared named value tf-key-token-limits promises to everyone    *)
(* who changes it: each change touches the entries it is about and nothing *)
(* else, as though one caller at a time held the map.                      *)
(***************************************************************************)
CONSTANT Keys

VARIABLES
    lim,   \* the keys with an entry that carries limits
    aud    \* the keys with an entry that carries the audit flag

TypeOK == lim \subseteq Keys /\ aud \subseteq Keys

Init == TypeOK

\* A key's limits are set or cleared; its audit flag is carried over.
IssueLimits(k) == /\ lim' \in {lim \cup {k}, lim \ {k}}
                  /\ aud' = aud

\* The audit flag of several keys at once; their limits are carried over.
FlagAudit(ks) == /\ aud' \in {aud \cup ks, aud \ ks}
                 /\ lim' = lim

\* A revoked key leaves the map.
Revoke(k) == /\ lim' = lim \ {k}
             /\ aud' = aud \ {k}

Next == \/ \E k \in Keys : IssueLimits(k) \/ Revoke(k)
        \/ \E ks \in SUBSET Keys : FlagAudit(ks)

Spec == Init /\ [][Next]_<<lim, aud>>
=============================================================================
