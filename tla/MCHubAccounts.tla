---------------------------- MODULE MCHubAccounts ----------------------------
(* Model-checking instances of HubAccounts: see HubAccounts.cfg. *)
EXTENDS HubAccounts, TLC

(* Accounts, providers and the slots of background tasks are alike. *)
Symmetry == Permutations(Accounts) \cup Permutations(Providers) \cup Permutations(Jobs)
=============================================================================
