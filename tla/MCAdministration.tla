-------------------------- MODULE MCAdministration --------------------------
(***************************************************************************)
(* Model-checking instance of Administration: see Administration.cfg.      *)
(* The parts share request slots at most, and no row, so a behaviour of    *)
(* the instance keeps to one, and its bounds are spent on that one.        *)
(***************************************************************************)
EXTENDS Administration, TLC

VARIABLE part

MCInit == Init /\ part \in {"users", "routes", "hubs", "tokens"}

MCNext ==
    /\ \/ part = "users" /\ UsersNext /\ UNCHANGED <<catalogVars, healthVars, tokenVars>>
       \/ part = "routes" /\ CatalogNext /\ UNCHANGED <<userVars, healthVars, tokenVars>>
       \/ part = "hubs" /\ HealthNext /\ UNCHANGED <<userVars, catalogVars, tokenVars>>
       \/ part = "tokens" /\ TokensNext
          /\ UNCHANGED <<handlerVars, userVars, catalogVars, healthVars>>
    /\ UNCHANGED part

MCSpec == MCInit /\ [][MCNext]_<<vars, part>>

Symmetry == Permutations(Requests) \cup Permutations(Accounts)
=============================================================================
