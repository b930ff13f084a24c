----------------------------- MODULE HubCatalog -----------------------------
(***************************************************************************)
(* The model routes: those of app/api/routes.py, entered by hand, and the  *)
(* platform-pooled ones that _register_hub_catalog of                      *)
(* app/api/github_accounts.py creates from what a hub offers when the hub  *)
(* is deployed, and prunes as well when an operator resyncs it.            *)
(***************************************************************************)
EXTENDS Handlers

CONSTANTS
    Models,     \* model names
    Legacy      \* models whose pooled route is older than the vendor column

ASSUME CatalogAssumption == Legacy \subseteq Models

VARIABLES
    routes,     \* rows of model_routes
    vouched,    \* history: models that a committed registration has answered
                \* for and whose pooled route nobody has removed since
    missed      \* history: per request, pooled names removed since it read

catalogVars == <<routes, vouched, missed>>

\* tied: the row has a tenant_id; vendor: no vendor is left to fill in.
RouteRow(id, name, scope, tied, vendor) ==
    [id |-> id, name |-> name, scope |-> scope, tied |-> tied, vendor |-> vendor]

Ids(rows) == {x.id : x \in rows}

\* The rows of the partial unique index: PLATFORM routes of no tenant.
Pooled(rows) == {x \in rows : x.scope = "platform" /\ ~x.tied}
PooledNames(rows) == {x.name : x \in Pooled(rows)}

CatalogInit ==
    /\ routes = {RouteRow(<<0, m>>, m, "platform", FALSE, FALSE) : m \in Legacy}
    /\ vouched = {}
    /\ missed = [r \in Requests |-> {}]

\* The rows become new by a commit of r that answers for some models.
Replace(new, models) ==
    LET removed == PooledNames(routes) \ PooledNames(new)
    IN /\ routes' = new
       /\ vouched' = (vouched \ removed) \cup models
       /\ missed' = [q \in Requests |-> missed[q] \cup removed]

RolledBack == UNCHANGED catalogVars

-----------------------------------------------------------------------------
\* The hub has answered with the models it offers; a failed or an empty
\* answer ends the registration before it has begun.
RegisterHub(r, offer, prune) ==
    /\ Enter(r, [at |-> "wire pools", no |-> starts + 1, offer |-> offer, prune |-> prune])
    /\ UNCHANGED catalogVars

\* The providers' APIs are wired to their pools; then the routes are read.
ReadRoutes(r) ==
    /\ req[r].at = "wire pools"
    /\ Become(r, [at |-> "store catalog", no |-> req[r].no, offer |-> req[r].offer,
                  prune |-> req[r].prune, saw |-> routes])
    /\ missed' = [missed EXCEPT ![r] = {}]
    /\ UNCHANGED <<routes, vouched>>

WiringFails(r) ==
    /\ req[r].at \in {"wire pools", "wire provider"}
    /\ End(r)
    /\ UNCHANGED catalogVars

\* Mutant of Existing: a tenant's own route passes for the pooled one.
ExistingOfAnyScope(h) == {x.name : x \in h.saw}
Existing(h) == PooledNames(h.saw)
Created(h) == {RouteRow(<<h.no, m>>, m, "platform", FALSE, TRUE) : m \in h.offer \ Existing(h)}
Pruned(h) == IF h.prune
             THEN Ids({x \in h.saw : x.scope = "platform" /\ x.name \notin h.offer})
             ELSE {}
Backfilled(h) == Ids({x \in h.saw : ~x.vendor}) \ Pruned(h)

\* One transaction: the index refuses a name created meanwhile, and the
\* backfill of a row that is gone fails; a row to prune may be gone.
StoreCatalog(r) ==
    LET h == req[r]
        kept == {x \in routes : x.id \notin Pruned(h)}
        filled == {[x EXCEPT !.vendor = @ \/ x.id \in Backfilled(h)] : x \in kept}
    IN /\ h.at = "store catalog"
       /\ IF /\ PooledNames(Created(h)) \cap PooledNames(routes) = {}
             /\ Backfilled(h) \subseteq Ids(routes)
          THEN Replace(Created(h) \cup filled, h.offer \ missed[r])
          ELSE RolledBack
       /\ End(r)

-----------------------------------------------------------------------------
\* POST /routes: the provider's secret and API first, then the row.
AddRoute(r, name, scope, tied) ==
    /\ Enter(r, [at |-> "wire provider",
                 is |-> RouteRow(<<starts + 1, name>>, name, scope, tied, TRUE)])
    /\ UNCHANGED catalogVars

InsertRoute(r) ==
    LET x == req[r].is
    IN /\ req[r].at = "wire provider"
       /\ IF PooledNames({x}) \cap PooledNames(routes) = {}
          THEN Replace(routes \cup {x}, {})
          ELSE RolledBack
       /\ End(r)

\* PATCH /routes/{id} with a new name.
RenameRoute(r, x, name) ==
    /\ x.name # name
    /\ Enter(r, [at |-> "rename route", was |-> x, is |-> [x EXCEPT !.name = name]])
    /\ UNCHANGED catalogVars

WriteRoute(r) ==
    LET h == req[r]
        others == {x \in routes : x.id # h.is.id}
    IN /\ h.at = "rename route"
       /\ IF /\ h.is.id \in Ids(routes)
             /\ PooledNames({h.is}) \cap PooledNames(others) = {}
          THEN Replace(others \cup {Save(h.was, h.is, x) : x \in routes \ others}, {})
          ELSE RolledBack
       /\ End(r)

DeleteRoute(r, x) ==
    /\ Enter(r, [at |-> "delete route", is |-> x])
    /\ UNCHANGED catalogVars

DropRoute(r) ==
    /\ req[r].at = "delete route"
    /\ Replace({x \in routes : x.id # req[r].is.id}, {})
    /\ End(r)

\* The routes of a deleted tenant go with it (ON DELETE CASCADE).
CascadeRoutes ==
    /\ Replace({x \in routes : ~x.tied}, {})
    /\ UNCHANGED handlerVars

CatalogRequest(r) ==
    \/ \E offer \in SUBSET Models \ {{}}, prune \in BOOLEAN : RegisterHub(r, offer, prune)
    \/ \E name \in Models, scope \in {"platform", "tenant"}, tied \in BOOLEAN :
           AddRoute(r, name, scope, tied)
    \/ \E x \in routes : DeleteRoute(r, x) \/ \E name \in Models : RenameRoute(r, x, name)

CatalogStep(r) == CatalogRequest(r) \/ ReadRoutes(r) \/ WiringFails(r) \/ StoreCatalog(r)
                  \/ InsertRoute(r) \/ WriteRoute(r) \/ DropRoute(r)

CatalogNext == CascadeRoutes \/ \E r \in Requests : CatalogStep(r)

-----------------------------------------------------------------------------
(* A registration that commits leaves a pooled route for every model the   *)
(* hub offers, the ones it skipped as known included: whatever routes of   *)
(* tenants, other registrations, prunes and operators do meanwhile, such a *)
(* route is missing only if somebody has removed it                        *)
(* (github_accounts.py:112-125, 165-170).                                  *)
RegistrationComplete == vouched \subseteq PooledNames(routes)
=============================================================================
