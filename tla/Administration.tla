--------------------------- MODULE Administration ---------------------------
(***************************************************************************)
(* The control plane's rows that handlers keep without the gateway's       *)
(* limits map: users, model routes and the health and login of hubs, with  *)
(* the requests and background passes of all three at work together; and,  *)
(* at the other end of a login, the tokens a hub runs on.                  *)
(***************************************************************************)
EXTENDS Users, HubCatalog, HubHealth, TokenCache

vars == <<handlerVars, userVars, catalogVars, healthVars, tokenVars>>

Init == HandlersInit /\ UsersInit /\ CatalogInit /\ HealthInit /\ TokensInit

Next ==
    \/ UsersNext /\ UNCHANGED <<catalogVars, healthVars, tokenVars>>
    \/ CatalogNext /\ UNCHANGED <<userVars, healthVars, tokenVars>>
    \/ HealthNext /\ UNCHANGED <<userVars, catalogVars, tokenVars>>
    \/ TokensNext /\ UNCHANGED <<handlerVars, userVars, catalogVars, healthVars>>

Spec == Init /\ [][Next]_vars

-----------------------------------------------------------------------------
Numbers == 0 .. MaxStarts

(* Type invariant of the rows: a column holds only values that a handler   *)
(* of its table writes, and every id was drawn by a handler or is the      *)
(* seeded one.                                                             *)
TypeOK ==
    /\ starts \in Numbers
    /\ users \subseteq [id : Numbers, name : Usernames, role : {"admin", "customer"},
                        tenant : UserTenants \cup {Nil}, disabled : BOOLEAN]
    /\ standing \subseteq UserTenants
    /\ signedIn \subseteq Usernames
    /\ stale \in BOOLEAN
    /\ routes \subseteq [id : Numbers \X Models, name : Models, scope : {"platform", "tenant"},
                         tied : BOOLEAN, vendor : BOOLEAN]
    /\ vouched \subseteq Models
    /\ missed \in [Requests -> SUBSET Models]
    /\ account \in [Accounts -> [status : {"ready", "deleting", "gone"},
                                 loggedIn : BOOLEAN \cup {Unknown},
                                 polled : 0 .. MaxAnswers, code : Numbers]]
    /\ hub \in [Accounts -> Numbers]
    /\ vault \in [Accounts -> Numbers]
    /\ redeemed \subseteq Numbers
    /\ answers \subseteq [acct : Accounts, loggedIn : BOOLEAN, polled : 1 .. MaxAnswers]
    /\ skewed \subseteq Accounts
    /\ apart \subseteq Accounts
    /\ {stored, newest, logins} \subseteq 0 .. MaxLogins
    /\ cached \subseteq ApiTokens
    /\ holder \subseteq Coroutines
    /\ work \in [Coroutines -> Works]
    /\ crossed \in BOOLEAN
=============================================================================
