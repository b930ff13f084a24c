------------------------------- MODULE Users -------------------------------
(***************************************************************************)
(* Users of the portal: app/api/users.py with the login of app/api/login.py*)
(* and the admin that app/init_db.py seeds when a replica starts.          *)
(*                                                                         *)
(* A token carries the role its owner had when it was issued, and no       *)
(* handler compares it with the owner's row again (app/api/auth.py): who   *)
(* has been demoted, disabled or deleted goes on administering until the   *)
(* token expires.                                                          *)
(***************************************************************************)
EXTENDS Handlers, FiniteSets

CONSTANTS
    Usernames,
    Root,         \* the admin_username of the settings
    UserTenants,  \* tenants that a customer can be bound to
    Nil           \* a field the request does not set, or a NULL column

ASSUME UsersAssumption == Root \in Usernames

VARIABLES
    users,        \* rows of users
    standing,     \* tenants that exist
    signedIn,     \* users with a token that says admin
    stale         \* history: someone's row was no longer that of an enabled
                  \* admin when a handler entered with their token changed a row

userVars == <<users, standing, signedIn, stale>>

UserRow(id, name, role, tenant) ==
    [id |-> id, name |-> name, role |-> role, tenant |-> tenant, disabled |-> FALSE]

Named(name) == {u \in users : u.name = name}
Admins == {u \in users : u.role = "admin"}
Governs(name) == \E u \in Admins : u.name = name /\ ~u.disabled

\* _require_tenant_for_customer lets the request through.
TenantFits(role, tenant) == role = "customer" => tenant \in standing

\* A commit on behalf of name.
ActsFor(name) == stale' = (stale \/ (users' # users /\ ~Governs(name)))

UsersInit ==
    /\ users = {UserRow(0, Root, "admin", Nil)}
    /\ standing = UserTenants
    /\ signedIn = {}
    /\ stale = FALSE

-----------------------------------------------------------------------------
Login(name) ==
    /\ \E u \in Named(name) : ~u.disabled /\ u.role = "admin"
    /\ signedIn' = signedIn \cup {name}
    /\ UNCHANGED <<users, standing, stale, handlerVars>>

TokenExpires(name) ==
    /\ signedIn' = signedIn \ {name}
    /\ UNCHANGED <<users, standing, stale, handlerVars>>

\* The users of a deleted tenant stay: their column is no foreign key.
TenantLeaves(t) ==
    /\ standing' = standing \ {t}
    /\ UNCHANGED <<users, signedIn, stale, handlerVars>>

CreateUser(r, by, name, role, tenant) ==
    /\ by \in signedIn
    /\ Named(name) = {}
    /\ TenantFits(role, tenant)
    /\ LET bound == IF role = "customer" THEN tenant ELSE Nil
       IN Enter(r, [at |-> "insert user", by |-> by,
                    is |-> UserRow(starts + 1, name, role, bound)])
    /\ UNCHANGED userVars

\* A replica starts and finds no row of the configured admin.
SeedAdmin(r) ==
    /\ Named(Root) = {}
    /\ Enter(r, [at |-> "insert user", by |-> Root,
                 is |-> UserRow(starts + 1, Root, "admin", Nil)])
    /\ UNCHANGED userVars

\* The username is unique: of two inserts the second is rolled back.
InsertUser(r) ==
    LET h == req[r]
    IN /\ h.at = "insert user"
       /\ users' = IF Named(h.is.name) = {} THEN users \cup {h.is} ELSE users
       /\ End(r)
       /\ UNCHANGED <<standing, signedIn, stale>>

Asked(field, value) == IF value = Nil THEN field ELSE value

\* Mutant of Updated: a body without the field sets the column to NULL.
UpdatedBlindly(u, role, tenant, disabled) ==
    [u EXCEPT !.role = role,
              !.tenant = IF role = "customer" THEN tenant ELSE Nil,
              !.disabled = disabled]

Updated(u, role, tenant, disabled) ==
    [u EXCEPT !.role = role,
              !.tenant = IF role = "customer" THEN tenant ELSE Nil,
              !.disabled = Asked(@, disabled)]

\* Nobody demotes or disables their own row.  Mutant: but may disable it.
LeavesOwnRole(u, by, role, disabled) ==
    u.name = by => role \in {Nil, "admin"}

LeavesSelf(u, by, role, disabled) ==
    u.name = by => role \in {Nil, "admin"} /\ disabled # TRUE

UpdateUser(r, by, u, role, tenant, disabled) ==
    LET newRole == Asked(u.role, role)
        newTenant == Asked(u.tenant, tenant)
    IN /\ by \in signedIn
       /\ LeavesSelf(u, by, role, disabled)
       /\ TenantFits(newRole, newTenant)
       /\ Enter(r, [at |-> "update user", by |-> by, was |-> u,
                    is |-> Updated(u, newRole, newTenant, disabled)])
       /\ UNCHANGED userVars

\* The UPDATE of a row that is gone fails the commit, which changes nothing.
WriteUser(r) ==
    LET h == req[r]
    IN /\ h.at = "update user"
       /\ users' = {IF u.id = h.is.id THEN Save(h.was, h.is, u) ELSE u : u \in users}
       /\ ActsFor(h.by)
       /\ End(r)
       /\ UNCHANGED <<standing, signedIn>>

DeleteUser(r, by, u) ==
    /\ by \in signedIn
    /\ u.name # by
    /\ Enter(r, [at |-> IF u.role = "admin" THEN "count admins" ELSE "delete user",
                 by |-> by, is |-> u])
    /\ UNCHANGED userVars

CountAdmins(r) ==
    /\ req[r].at = "count admins"
    /\ IF Cardinality(Admins) > 1 THEN Become(r, [req[r] EXCEPT !.at = "delete user"])
                                  ELSE End(r)
    /\ UNCHANGED userVars

DropUser(r) ==
    LET h == req[r]
    IN /\ h.at = "delete user"
       /\ users' = {u \in users : u.id # h.is.id}
       /\ ActsFor(h.by)
       /\ End(r)
       /\ UNCHANGED <<standing, signedIn>>

UserRequest(r) ==
    \E by \in Usernames :
        \/ \E name \in Usernames, role \in {"admin", "customer"}, t \in UserTenants :
               CreateUser(r, by, name, role, t)
        \/ \E u \in users, role \in {"admin", "customer", Nil},
              t \in UserTenants \cup {Nil}, disabled \in {TRUE, FALSE, Nil} :
               UpdateUser(r, by, u, role, t, disabled)
        \/ \E u \in users : DeleteUser(r, by, u)

UsersStep(r) == UserRequest(r) \/ SeedAdmin(r) \/ InsertUser(r) \/ WriteUser(r)
                \/ CountAdmins(r) \/ DropUser(r)

UsersNext ==
    \/ \E r \in Requests : UsersStep(r)
    \/ \E name \in Usernames : Login(name) \/ TokenExpires(name)
    \/ \E t \in UserTenants : TenantLeaves(t)

-----------------------------------------------------------------------------
(* The platform keeps an admin who can sign in (users.py:4-5), whatever     *)
(* admins do to each other at the same time, as long as every commit is    *)
(* made for someone who is one: the guards on one's own account protect    *)
(* the actor's row, the count of delete_user alone protects none.          *)
AdminRemains == stale \/ \E name \in Usernames : Governs(name)
=============================================================================
