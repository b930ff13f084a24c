----------------------- MODULE Administration_proofs -----------------------
(***************************************************************************)
(* That an admin remains, that Key Vault follows the hub, that a hub       *)
(* serves its newest login, that registrations are complete and that       *)
(* recorded health is an answer, for any number of requests, users, models *)
(* and accounts.  Each has an inductive invariant of its own (UsersInv,    *)
(* VaultInv, TokenInv, CatalogInv, HealthInv): what the handlers at work   *)
(* carry, next to the rows.  A step of a part the invariant is not about   *)
(* only changes who is at work: Elsewhere, Quiet and Handles say so.  The  *)
(* types come last, from all of these.                                     *)
(***************************************************************************)
EXTENDS Administration, FiniteSetTheorems, TLAPS

UserRows == [id : Nat, name : Usernames, role : {"admin", "customer"},
             tenant : UserTenants \cup {Nil}, disabled : BOOLEAN]

(* What a commit writes to a row of users, column by column (Save).      *)
LEMMA SavedUser ==
    ASSUME NEW was \in UserRows, NEW is \in UserRows, NEW u \in UserRows
    PROVE  /\ Save(was, is, u).id = IF is.id = was.id THEN u.id ELSE is.id
           /\ Save(was, is, u).name = IF is.name = was.name THEN u.name ELSE is.name
           /\ Save(was, is, u).role = IF is.role = was.role THEN u.role ELSE is.role
           /\ Save(was, is, u).disabled = IF is.disabled = was.disabled THEN u.disabled ELSE is.disabled
           /\ Save(was, is, u) \in UserRows
<1>1. DOMAIN u = {"id", "name", "role", "tenant", "disabled"}
  BY DEF UserRows
<1>2. Save(was, is, u) = [c \in {"id", "name", "role", "tenant", "disabled"} |->
                             IF is[c] = was[c] THEN u[c] ELSE is[c]]
  BY <1>1 DEF Save
<1>3. Save(was, is, u) = 
          [id |-> IF is.id = was.id THEN u.id ELSE is.id,
           name |-> IF is.name = was.name THEN u.name ELSE is.name,
           role |-> IF is.role = was.role THEN u.role ELSE is.role,
           tenant |-> IF is.tenant = was.tenant THEN u.tenant ELSE is.tenant,
           disabled |-> IF is.disabled = was.disabled THEN u.disabled ELSE is.disabled]
  BY <1>2 
<1>4. QED
  BY <1>3 DEF UserRows

-----------------------------------------------------------------------------
UserSteps == {"insert user", "update user", "count admins", "delete user"}
Erasing == {"count admins", "delete user"}

HandlersOK ==
    /\ starts \in Nat
    /\ req = [q \in Requests |-> req[q]]
    /\ \A q \in Requests : "at" \in DOMAIN req[q]

RowsOK ==
    /\ users \subseteq UserRows
    /\ \A u \in users : u.id <= starts

(* What a handler of users carries: it never changes the row of the one it  *)
(* acts for to the worse, nor erases it.                                    *)
LoadOK(h) ==
    /\ h.at \in UserSteps => h.is \in UserRows /\ h.is.id <= starts
    /\ h.at = "update user" =>
          /\ h.was \in UserRows
          /\ h.is.id = h.was.id /\ h.is.name = h.was.name
          /\ h.is.name = h.by => /\ h.is.role \in {h.was.role, "admin"}
                                 /\ h.is.disabled => h.was.disabled
    /\ h.at \in Erasing =>
          /\ h = [at |-> h.at, by |-> h.by, is |-> h.is]
          /\ h.is.name # h.by

LoadsOK == \A q \in Requests : LoadOK(req[q])

(* An id stands for one name, and one about to be inserted is nobody's yet.*)
NamesOK == \A u, v \in users : u.id = v.id => u.name = v.name

LoadedOK == \A q \in Requests, u \in users :
    req[q].at \in UserSteps \ {"insert user"} /\ u.id = req[q].is.id
        => u.name = req[q].is.name

FreshOK == \A q \in Requests, u \in users :
    req[q].at = "insert user" => u.id # req[q].is.id

ApartOK == \A p, q \in Requests :
    p # q /\ req[q].at = "insert user" /\ req[p].at \in UserSteps
        => req[p].is.id # req[q].is.id

TablesOK == HandlersOK /\ RowsOK /\ LoadsOK /\ NamesOK /\ LoadedOK /\ FreshOK /\ ApartOK
UsersInv == TablesOK /\ AdminRemains

-----------------------------------------------------------------------------
(* The request that moves is r; the others carry what they carried.        *)
LEMMA OneMoves ==
    ASSUME HandlersOK, NEW r \in Requests, NEW h, "at" \in DOMAIN h,
           req' = [req EXCEPT ![r] = h], starts' \in {starts, starts + 1}
    PROVE  /\ HandlersOK'
           /\ req'[r] = h
           /\ \A q \in Requests \ {r} : req'[q] = req[q]
           /\ starts' \in Nat /\ starts <= starts'
<1>1. /\ req'[r] = h
      /\ \A q \in Requests \ {r} : req'[q] = req[q]
      /\ req' = [q \in Requests |-> req'[q]]
  BY DEF HandlersOK
<1> QED
  BY <1>1 DEF HandlersOK

(* Handlers other than r, whose load is fine, keep loads that are fine.  *)
LEMMA OthersCarry ==
    ASSUME HandlersOK, LoadsOK, NEW r \in Requests, starts' \in Nat, starts <= starts',
           \A q \in Requests \ {r} : req'[q] = req[q],
           LoadOK(req[r])'
    PROVE  LoadsOK'
<1>1. ASSUME NEW q \in Requests \ {r} PROVE LoadOK(req[q])'
  <2>1. req'[q] = req[q] /\ LoadOK(req[q])
    BY DEF LoadsOK
  <2>2. ASSUME req[q].at \in UserSteps PROVE req[q].is.id <= starts'
    <3>1. req[q].is.id \in Nat /\ req[q].is.id <= starts
      BY <2>1, <2>2 DEF LoadOK, UserRows
    <3> QED
      BY <3>1 DEF HandlersOK
  <2> QED
    BY <2>1, <2>2 DEF LoadOK
<1> QED
  BY <1>1 DEF LoadsOK

(* The number a handler enters with is larger than all before it.        *)
LEMMA NextIsFresh ==
    \A i, n \in Nat : n + 1 \in Nat /\ n <= n /\ (i <= n => i <= n + 1 /\ i # n + 1)
  OBVIOUS

(* Ids keep standing for one name when no row appears.                   *)
LEMMA NamesStay ==
    ASSUME NamesOK, \A v \in users' : \E u \in users : u.id = v.id /\ u.name = v.name
    PROVE  NamesOK'
<1> SUFFICES ASSUME NEW u \in users', NEW v \in users', u.id = v.id
             PROVE  u.name = v.name
  BY DEF NamesOK
<1>1. PICK a \in users : a.id = u.id /\ a.name = u.name
  OBVIOUS
<1>2. PICK b \in users : b.id = v.id /\ b.name = v.name
  OBVIOUS
<1> QED
  BY <1>1, <1>2 DEF NamesOK

(* What the invariants of loaded rows say of one handler.                *)
LEMMA LoadedHere ==
    ASSUME LoadedOK, NEW q \in Requests, NEW a \in users,
           req[q].at \in UserSteps, req[q].at # "insert user", a.id = req[q].is.id
    PROVE  a.name = req[q].is.name
BY DEF LoadedOK

LEMMA FreshHere ==
    ASSUME FreshOK, NEW q \in Requests, NEW a \in users, req[q].at = "insert user"
    PROVE  a.id # req[q].is.id
BY DEF FreshOK

LEMMA ApartHere ==
    ASSUME ApartOK, NEW p \in Requests, NEW q \in Requests, p # q,
           req[q].at = "insert user", req[p].at \in UserSteps
    PROVE  req[p].is.id # req[q].is.id
BY DEF ApartOK

(* A handler enters: with a row that is loaded or a row of its own.        *)
LEMMA EnterKeeps ==
    ASSUME UsersInv, NEW r \in Requests, NEW h, "at" \in DOMAIN h,
           req' = [req EXCEPT ![r] = h], starts' = starts + 1, UNCHANGED <<users, stale>>,
           LoadOK(h)',
           h.at = "insert user" => h.is.id = starts + 1,
           h.at \in UserSteps \ {"insert user"} =>
               \E u \in users : u.id = h.is.id /\ u.name = h.is.name
    PROVE  UsersInv'
<1>0. HandlersOK /\ RowsOK /\ LoadsOK /\ NamesOK /\ LoadedOK /\ FreshOK /\ ApartOK
  BY DEF UsersInv, TablesOK
<1>1. /\ HandlersOK'
      /\ req'[r] = h
      /\ \A q \in Requests \ {r} : req'[q] = req[q]
      /\ starts' \in Nat /\ starts <= starts'
  <2>1. starts' \in {starts, starts + 1}
    OBVIOUS
  <2> QED
    BY <1>0, <2>1, OneMoves
<1>2. LoadsOK'
  <2>1. LoadOK(req[r])'
    BY <1>1 DEF LoadOK
  <2> QED
    BY <1>0, <1>1, <2>1, OthersCarry
<1>3. \A u \in users : u.id \in Nat /\ u.id <= starts
  BY <1>0 DEF RowsOK, UserRows
<1>4. \A q \in Requests : req[q].at \in UserSteps =>
            req[q].is.id \in Nat /\ req[q].is.id <= starts
  BY <1>0 DEF LoadsOK, LoadOK, UserRows
<1>5. starts \in Nat
  BY <1>0 DEF HandlersOK
<1>6. RowsOK'
  <2>1. ASSUME NEW u \in users PROVE u.id <= starts'
    <3>1. u.id \in Nat /\ u.id <= starts
      BY <1>3
    <3> QED
      BY <1>5, <3>1, NextIsFresh
  <2> QED
    BY <1>0, <2>1 DEF RowsOK
<1>7. NamesOK'
  BY <1>0 DEF NamesOK
<1>8. LoadedOK'
  <2> SUFFICES ASSUME NEW q \in Requests, NEW u \in users,
                      req'[q].at \in UserSteps \ {"insert user"}, u.id = req'[q].is.id
               PROVE  u.name = req'[q].is.name
    BY DEF LoadedOK
  <2>1. CASE q = r
    <3>1. PICK w \in users : w.id = h.is.id /\ w.name = h.is.name
      BY <1>1, <2>1
    <3>2. u.id = w.id
      BY <1>1, <2>1, <3>1
    <3> QED
      BY <1>0, <1>1, <2>1, <3>1, <3>2 DEF NamesOK
  <2>2. CASE q # r
    <3>1. req'[q] = req[q]
      BY <1>1, <2>2
    <3>2. req[q].at \in UserSteps /\ req[q].at # "insert user" /\ u.id = req[q].is.id
      BY <3>1
    <3>3. u.name = req[q].is.name
      BY <1>0, <3>2, LoadedHere
    <3> QED
      BY <3>1, <3>3
  <2> QED
    BY <2>1, <2>2
<1>9. FreshOK'
  <2> SUFFICES ASSUME NEW q \in Requests, NEW u \in users, req'[q].at = "insert user"
               PROVE  u.id # req'[q].is.id
    BY DEF FreshOK
  <2>1. CASE q = r
    <3>1. req'[q].is.id = starts + 1
      BY <1>1, <2>1
    <3>2. u.id \in Nat /\ u.id <= starts
      BY <1>3
    <3> QED
      BY <1>5, <3>1, <3>2, NextIsFresh
  <2>2. CASE q # r
    BY <1>0, <1>1, <2>2 DEF FreshOK
  <2> QED
    BY <2>1, <2>2
<1>10. ApartOK'
  <2> SUFFICES ASSUME NEW p \in Requests, NEW q \in Requests, p # q,
                      req'[q].at = "insert user", req'[p].at \in UserSteps
               PROVE  req'[p].is.id # req'[q].is.id
    BY DEF ApartOK
  <2>1. CASE q = r
    <3>1. req'[p] = req[p] /\ req'[q].is.id = starts + 1
      BY <1>1, <2>1
    <3>2. req[p].is.id \in Nat /\ req[p].is.id <= starts
      BY <1>4, <3>1
    <3> QED
      BY <1>5, <3>1, <3>2, NextIsFresh
  <2>2. CASE p = r /\ h.at = "insert user"
    <3>1. req'[q] = req[q] /\ req'[p].is.id = starts + 1 /\ req[q].at \in UserSteps
      BY <1>1, <2>2 DEF UserSteps
    <3>2. req[q].is.id \in Nat /\ req[q].is.id <= starts
      BY <1>4, <3>1
    <3> QED
      BY <1>5, <3>1, <3>2, NextIsFresh
  <2>3. CASE p = r /\ h.at # "insert user"
    <3>1. req'[q] = req[q] /\ req'[p] = h
      BY <1>1, <2>3
    <3>2. PICK u \in users : u.id = h.is.id
      BY <2>3, <3>1
    <3> QED
      BY <1>0, <3>1, <3>2 DEF FreshOK
  <2>4. CASE p # r /\ q # r
    <3>1. req'[p] = req[p] /\ req'[q] = req[q]
      BY <1>1, <2>4
    <3>2. req[q].at = "insert user" /\ req[p].at \in UserSteps
      BY <3>1
    <3>3. req[p].is.id # req[q].is.id
      BY <1>0, <3>2, ApartHere
    <3> QED
      BY <3>1, <3>3
  <2> QED
    BY <2>1, <2>2, <2>3, <2>4
<1>11. AdminRemains'
  BY DEF UsersInv, AdminRemains, Governs, Admins
<1> QED
  BY <1>1, <1>2, <1>6, <1>7, <1>8, <1>9, <1>10, <1>11 DEF UsersInv, TablesOK

(* A handler ends, or goes on with what it has; rows are changed or erased.*)
LEMMA CommitKeeps ==
    ASSUME TablesOK, NEW r \in Requests, NEW h, "at" \in DOMAIN h,
           req' = [req EXCEPT ![r] = h], UNCHANGED starts,
           \/ h.at \notin UserSteps
           \/ h = [req[r] EXCEPT !.at = "delete user"] /\ req[r].at \in Erasing,
           \A v \in users' : /\ v \in UserRows
                              /\ \E u \in users : u.id = v.id /\ u.name = v.name
    PROVE  TablesOK'
<1>0. HandlersOK /\ RowsOK /\ LoadsOK /\ NamesOK /\ LoadedOK /\ FreshOK /\ ApartOK
  BY DEF TablesOK
<1>1. /\ HandlersOK'
      /\ req'[r] = h
      /\ \A q \in Requests \ {r} : req'[q] = req[q]
      /\ starts' \in Nat /\ starts <= starts'
  <2>1. starts' \in {starts, starts + 1}
    OBVIOUS
  <2> QED
    BY <1>0, <2>1, OneMoves
<1>2. LoadOK(req[r])
  BY <1>0 DEF LoadsOK
<1>3. h.at \in UserSteps => /\ h.at = "delete user"
                            /\ h.is = req[r].is /\ h.by = req[r].by
                            /\ h = [at |-> h.at, by |-> h.by, is |-> h.is]
                            /\ req[r].at \in Erasing
  BY <1>2 DEF LoadOK
<1>4. LoadsOK'
  <2>1. LoadOK(req[r])'
    <3>1. CASE h.at \in UserSteps
      <4>1. /\ req'[r].at = "delete user" /\ req'[r].is = req[r].is
            /\ req'[r].by = req[r].by /\ req[r].at \in Erasing
            /\ req'[r] = [at |-> req'[r].at, by |-> req'[r].by, is |-> req'[r].is]
        BY <1>1, <1>3, <3>1
      <4>2. /\ req[r].is \in UserRows /\ req[r].is.id <= starts
            /\ req[r].is.name # req[r].by
        BY <1>2, <4>1 DEF LoadOK, UserSteps, Erasing
      <4>3. req'[r].is \in UserRows /\ req'[r].is.id <= starts' /\ req'[r].is.name # req'[r].by
        BY <4>1, <4>2
      <4> QED
        BY <4>1, <4>3 DEF LoadOK
    <3>2. CASE h.at \notin UserSteps
      BY <1>1, <3>2 DEF LoadOK, UserSteps, Erasing
    <3> QED
      BY <3>1, <3>2
  <2> QED
    BY <1>0, <1>1, <2>1, OthersCarry
<1>5. RowsOK'
  BY <1>0 DEF RowsOK
<1>6. \A q \in Requests : req'[q].at \in UserSteps =>
            /\ req[q].at \in UserSteps /\ req'[q].is = req[q].is
            /\ req'[q].at = "insert user" <=> req[q].at = "insert user"
  <2> SUFFICES ASSUME NEW q \in Requests, req'[q].at \in UserSteps
               PROVE  /\ req[q].at \in UserSteps /\ req'[q].is = req[q].is
                      /\ req'[q].at = "insert user" <=> req[q].at = "insert user"
    OBVIOUS
  <2>1. CASE q = r
    BY <1>1, <1>3, <2>1 DEF UserSteps, Erasing
  <2>2. CASE q # r
    BY <1>1, <2>2
  <2> QED
    BY <2>1, <2>2
<1>7. NamesOK'
  BY <1>0, NamesStay
<1>8. LoadedOK'
  <2> SUFFICES ASSUME NEW q \in Requests, NEW u \in users',
                      req'[q].at \in UserSteps \ {"insert user"}, u.id = req'[q].is.id
               PROVE  u.name = req'[q].is.name
    BY DEF LoadedOK
  <2>1. PICK a \in users : a.id = u.id /\ a.name = u.name
    OBVIOUS
  <2>2. req[q].at \in UserSteps \ {"insert user"} /\ req'[q].is = req[q].is
    BY <1>6
  <2>3. a.id = req[q].is.id
    BY <2>1, <2>2
  <2>4. a.name = req[q].is.name
    BY <1>0, <2>2, <2>3, LoadedHere
  <2> QED
    BY <2>1, <2>2, <2>4
<1>9. FreshOK'
  <2> SUFFICES ASSUME NEW q \in Requests, NEW u \in users', req'[q].at = "insert user"
               PROVE  u.id # req'[q].is.id
    BY DEF FreshOK
  <2>1. PICK a \in users : a.id = u.id /\ a.name = u.name
    OBVIOUS
  <2>2. req[q].at = "insert user" /\ req'[q].is = req[q].is
    BY <1>6 DEF UserSteps
  <2>3. a.id # req[q].is.id
    BY <1>0, <2>2, FreshHere
  <2> QED
    BY <2>1, <2>2, <2>3
<1>10. ApartOK'
  <2> SUFFICES ASSUME NEW p \in Requests, NEW q \in Requests, p # q,
                      req'[q].at = "insert user", req'[p].at \in UserSteps
               PROVE  req'[p].is.id # req'[q].is.id
    BY DEF ApartOK
  <2>1. req[q].at = "insert user" /\ req'[q].is = req[q].is
    BY <1>6 DEF UserSteps
  <2>2. req[p].at \in UserSteps /\ req'[p].is = req[p].is
    BY <1>6
  <2>3. req[p].is.id # req[q].is.id
    BY <1>0, <2>1, <2>2, ApartHere
  <2> QED
    BY <2>1, <2>2, <2>3
<1> QED
  BY <1>1, <1>4, <1>5, <1>7, <1>8, <1>9, <1>10 DEF TablesOK

\* A step of no handler of users.
Elsewhere ==
    /\ UNCHANGED <<users, stale>>
    /\ \/ UNCHANGED handlerVars
       \/ /\ starts' \in {starts, starts + 1}
          /\ \E r \in Requests : \E h :
                /\ "at" \in DOMAIN h /\ h.at \notin UserSteps
                /\ req' = [req EXCEPT ![r] = h]

(* Steps that no handler of users takes keep the invariant of users.     *)
LEMMA ElsewhereKeeps == UsersInv /\ Elsewhere => UsersInv'
<1> SUFFICES ASSUME UsersInv, Elsewhere PROVE UsersInv'
  OBVIOUS
<1>0. AdminRemains' /\ UNCHANGED <<users, stale>>
  BY DEF UsersInv, Elsewhere, AdminRemains, Governs, Admins
<1>1. CASE UNCHANGED handlerVars
  <2>1. UNCHANGED <<req, starts, users, stale>>
    BY <1>0, <1>1 DEF handlerVars
  <2>2. HandlersOK' /\ RowsOK' /\ LoadsOK'
    BY <2>1 DEF UsersInv, TablesOK, HandlersOK, RowsOK, LoadsOK, LoadOK
  <2>3. NamesOK' /\ LoadedOK' /\ FreshOK' /\ ApartOK'
    BY <2>1 DEF UsersInv, TablesOK, NamesOK, LoadedOK, FreshOK, ApartOK
  <2> QED
    BY <1>0, <2>2, <2>3 DEF UsersInv, TablesOK
<1>2. ASSUME NEW r \in Requests, NEW h, "at" \in DOMAIN h, h.at \notin UserSteps,
             req' = [req EXCEPT ![r] = h], starts' \in {starts, starts + 1}
      PROVE  UsersInv'
  <2>1. CASE starts' = starts
    <3>1. TablesOK
      BY DEF UsersInv
    <3>2. \A v \in users' : v \in UserRows /\ \E u \in users : u.id = v.id /\ u.name = v.name
      BY <1>0, <3>1 DEF TablesOK, RowsOK
    <3> QED
      BY <1>0, <1>2, <2>1, <3>1, <3>2, CommitKeeps DEF UsersInv
  <2>2. CASE starts' = starts + 1
    <3>1. LoadOK(h)' /\ h.at # "insert user"
      BY <1>2 DEF LoadOK, UserSteps, Erasing
    <3> QED
      BY <1>0, <1>2, <2>2, <3>1, EnterKeeps
  <2> QED
    BY <1>2, <2>1, <2>2
<1> QED
  BY <1>1, <1>2 DEF Elsewhere
-----------------------------------------------------------------------------
(* A row that create_user or init_db inserts is a row of users.          *)
LEMMA NewRow ==
    ASSUME NEW n \in Nat, NEW name \in Usernames, NEW role \in {"admin", "customer"},
           NEW t \in UserTenants \cup {Nil}
    PROVE  UserRow(n, name, role, t) \in UserRows /\ UserRow(n, name, role, t).id = n
  BY DEF UserRow, UserRows

(* create_user is about to insert a row of its own.                      *)
LEMMA CreateUserKeeps ==
    ASSUME UsersInv, NEW r \in Requests, NEW by \in Usernames, NEW name \in Usernames,
           NEW role \in {"admin", "customer"}, NEW t \in UserTenants,
           CreateUser(r, by, name, role, t)
    PROVE  UsersInv'
<1> DEFINE bound == IF role = "customer" THEN t ELSE Nil
<1> PICK h : h = [at |-> "insert user", by |-> by,
                  is |-> UserRow(starts + 1, name, role, bound)]
  OBVIOUS
<1>1. starts \in Nat
  BY DEF UsersInv, TablesOK, HandlersOK
<1>2. req' = [req EXCEPT ![r] = h] /\ starts' = starts + 1 /\ UNCHANGED <<users, stale>>
  BY DEF CreateUser, Enter, userVars
<1>3. LoadOK(h)'
  <2>1. h.at = "insert user" /\ h.is = UserRow(starts + 1, name, role, bound)
    OBVIOUS
  <2>2. starts + 1 \in Nat
    BY <1>1, NextIsFresh
  <2>3. bound \in UserTenants \cup {Nil}
    OBVIOUS
  <2> HIDE DEF bound
  <2>4. h.is \in UserRows /\ h.is.id = starts + 1
    <3>1. /\ UserRow(starts + 1, name, role, bound) \in UserRows
          /\ UserRow(starts + 1, name, role, bound).id = starts + 1
      BY <2>2, <2>3, NewRow
    <3> QED
      BY <2>1, <3>1
  <2>5. h.is.id <= starts'
    <3>1. h.is.id = starts'
      BY <1>2, <2>4
    <3>2. starts' \in Nat
      BY <1>1, <1>2, NextIsFresh
    <3> QED
      BY <3>1, <3>2, NextIsFresh
  <2> QED
    BY <2>1, <2>4, <2>5 DEF LoadOK, Erasing
<1>4. h.is.id = starts + 1 /\ h.at = "insert user" /\ "at" \in DOMAIN h
  BY DEF UserRow
<1> QED
  BY <1>2, <1>3, <1>4, EnterKeeps

(* init_db is about to insert a row of its own.                          *)
LEMMA SeedAdminKeeps ==
    ASSUME UsersInv, NEW r \in Requests, SeedAdmin(r)
    PROVE  UsersInv'
<1> PICK h : h = [at |-> "insert user", by |-> Root,
                  is |-> UserRow(starts + 1, Root, "admin", Nil)]
  OBVIOUS
<1>1. starts \in Nat
  BY DEF UsersInv, TablesOK, HandlersOK
<1>2. req' = [req EXCEPT ![r] = h] /\ starts' = starts + 1 /\ UNCHANGED <<users, stale>>
  BY DEF SeedAdmin, Enter, userVars
<1>3. LoadOK(h)'
  <2>1. h.at = "insert user" /\ h.is = UserRow(starts + 1, Root, "admin", Nil)
    OBVIOUS
  <2>2. starts + 1 \in Nat
    BY <1>1, NextIsFresh
  <2>4. h.is \in UserRows /\ h.is.id = starts + 1
    BY <2>1, <2>2, NewRow, UsersAssumption
  <2>3. h.is.id <= starts'
    <3>1. h.is.id = starts'
      BY <1>2, <2>4
    <3>2. starts' \in Nat
      BY <1>1, <1>2, NextIsFresh
    <3> QED
      BY <3>1, <3>2, NextIsFresh
  <2> QED
    BY <2>1, <2>3, <2>4 DEF LoadOK, Erasing
<1>4. h.is.id = starts + 1 /\ h.at = "insert user" /\ "at" \in DOMAIN h
  BY DEF UserRow
<1> QED
  BY <1>2, <1>3, <1>4, EnterKeeps

(* Nobody's own update demotes or disables them.                           *)
LEMMA UpdateUserKeeps ==
    ASSUME UsersInv, NEW r \in Requests, NEW by \in Usernames, NEW u \in users,
           NEW role \in {"admin", "customer", Nil}, NEW t \in UserTenants \cup {Nil},
           NEW disabled \in {TRUE, FALSE, Nil}, UpdateUser(r, by, u, role, t, disabled)
    PROVE  UsersInv'
<1> DEFINE newRole == Asked(u.role, role)
           newTenant == Asked(u.tenant, t)
           is == Updated(u, newRole, newTenant, disabled)
           h == [at |-> "update user", by |-> by, was |-> u, is |-> is]
<1>1. /\ u \in UserRows /\ u.id <= starts /\ starts \in Nat
  BY DEF UsersInv, TablesOK, RowsOK, HandlersOK
<1>2. /\ req' = [req EXCEPT ![r] = h] /\ starts' = starts + 1 /\ UNCHANGED <<users, stale>>
      /\ LeavesSelf(u, by, role, disabled)
  BY DEF UpdateUser, Enter, userVars
<1>3. newRole \in {"admin", "customer"} /\ newTenant \in UserTenants \cup {Nil}
  BY <1>1 DEF Asked, UserRows
<1>4. /\ is.id = u.id /\ is.name = u.name /\ is.role = newRole
      /\ is.disabled = Asked(u.disabled, disabled)
      /\ is \in UserRows
  BY <1>1, <1>3 DEF Updated, Asked, UserRows
<1>5. u.id <= starts'
  <2>1. u.id \in Nat
    BY <1>1 DEF UserRows
  <2> QED
    BY <1>1, <1>2, <2>1, NextIsFresh
<1>6. is.name = by => /\ is.role \in {u.role, "admin"}
                      /\ is.disabled => u.disabled
  BY <1>1, <1>2, <1>4 DEF LeavesSelf, Asked, UserRows
<1>7. LoadOK(h)'
  BY <1>1, <1>4, <1>5, <1>6 DEF LoadOK, UserSteps, Erasing
<1>8. /\ h.at = "update user" /\ "at" \in DOMAIN h
      /\ u.id = h.is.id /\ u.name = h.is.name
  BY <1>4
<1> QED
  BY <1>2, <1>7, <1>8, EnterKeeps

(* delete_user loads the row of someone else.                            *)
LEMMA DeleteUserKeeps ==
    ASSUME UsersInv, NEW r \in Requests, NEW by \in Usernames, NEW u \in users,
           DeleteUser(r, by, u)
    PROVE  UsersInv'
<1> DEFINE at == IF u.role = "admin" THEN "count admins" ELSE "delete user"
           h == [at |-> at, by |-> by, is |-> u]
<1>1. u \in UserRows /\ u.id <= starts /\ starts \in Nat
  BY DEF UsersInv, TablesOK, RowsOK, HandlersOK
<1>2. /\ req' = [req EXCEPT ![r] = h] /\ starts' = starts + 1 /\ UNCHANGED <<users, stale>>
      /\ u.name # by
  BY DEF DeleteUser, Enter, userVars
<1>3. u.id <= starts'
  <2>1. u.id \in Nat
    BY <1>1 DEF UserRows
  <2> QED
    BY <1>1, <1>2, <2>1, NextIsFresh
<1>4. h.at \in Erasing /\ h.is = u /\ h.by = by /\ "at" \in DOMAIN h
  BY DEF Erasing
<1>5. LoadOK(h)'
  BY <1>1, <1>2, <1>3, <1>4 DEF LoadOK, UserSteps, Erasing
<1>6. h.at # "insert user"
  BY <1>4 DEF Erasing
<1> QED
  BY <1>2, <1>4, <1>5, <1>6, EnterKeeps

(* The count of admins decides only whether delete_user goes on.         *)
LEMMA CountAdminsKeeps ==
    ASSUME UsersInv, NEW r \in Requests, CountAdmins(r)
    PROVE  UsersInv'
<1>1. TablesOK /\ "at" \in DOMAIN req[r]
  BY DEF UsersInv, TablesOK, HandlersOK
<1>2. UNCHANGED <<users, stale, starts>> /\ req[r].at = "count admins"
  BY DEF CountAdmins, Become, End, userVars
<1>3. \A v \in users' : v \in UserRows /\ \E u \in users : u.id = v.id /\ u.name = v.name
  BY <1>1, <1>2 DEF TablesOK, RowsOK
<1>4. \/ req' = [req EXCEPT ![r] = Free]
      \/ req' = [req EXCEPT ![r] = [req[r] EXCEPT !.at = "delete user"]]
  BY DEF CountAdmins, Become, End
<1>5. TablesOK'
  <2>1. CASE req' = [req EXCEPT ![r] = Free]
    <3>1. "at" \in DOMAIN Free /\ Free.at \notin UserSteps
      BY DEF Free, UserSteps
    <3> QED
      BY <1>1, <1>2, <1>3, <2>1, <3>1, CommitKeeps
  <2>2. CASE req' = [req EXCEPT ![r] = [req[r] EXCEPT !.at = "delete user"]]
    <3> DEFINE h == [req[r] EXCEPT !.at = "delete user"]
    <3>1. "at" \in DOMAIN h /\ req[r].at \in Erasing
      BY <1>1, <1>2 DEF Erasing
    <3> HIDE DEF h
    <3>2. h = [req[r] EXCEPT !.at = "delete user"] /\ req' = [req EXCEPT ![r] = h]
      BY <2>2 DEF h
    <3> QED
      BY <1>1, <1>2, <1>3, <3>1, <3>2, CommitKeeps
  <2> QED
    BY <1>4, <2>1, <2>2
<1> QED
  BY <1>2, <1>5 DEF UsersInv, AdminRemains, Governs, Admins

-----------------------------------------------------------------------------
(* A commit that leaves the actor's row a governing one leaves an admin.   *)
LEMMA AdminStays ==
    ASSUME RowsOK, AdminRemains, NEW by, ActsFor(by), Governs(by) => Governs(by)'
    PROVE  AdminRemains'
<1>1. CASE users' = users \/ stale
  BY <1>1 DEF ActsFor, AdminRemains, Governs, Admins
<1>2. CASE users' # users /\ ~stale /\ ~Governs(by)
  BY <1>2 DEF ActsFor, AdminRemains
<1>3. CASE Governs(by)
  <2>1. Governs(by)' /\ by \in Usernames
    BY <1>3 DEF Governs, Admins, RowsOK, UserRows
  <2> QED
    BY <2>1 DEF AdminRemains
<1> QED
  BY <1>1, <1>2, <1>3

(* What delete_user erases is not the row of its actor.                  *)
LEMMA DropUserKeeps ==
    ASSUME UsersInv, NEW r \in Requests, DropUser(r)
    PROVE  UsersInv'
<1> PICK by : by = req[r].by
  OBVIOUS
<1>1. /\ TablesOK /\ AdminRemains /\ RowsOK /\ LoadedOK /\ LoadOK(req[r])
  BY DEF UsersInv, TablesOK, LoadsOK
<1>2. /\ req[r].at = "delete user"
      /\ users' = {u \in users : u.id # req[r].is.id}
      /\ ActsFor(by)
      /\ req' = [req EXCEPT ![r] = Free] /\ UNCHANGED starts
  BY DEF DropUser, End, Become
<1>3. TablesOK'
  <2>1. "at" \in DOMAIN Free /\ Free.at \notin UserSteps
    BY DEF Free, UserSteps
  <2>2. \A v \in users' : v \in UserRows /\ \E u \in users : u.id = v.id /\ u.name = v.name
    BY <1>1, <1>2 DEF RowsOK
  <2> QED
    BY <1>1, <1>2, <2>1, <2>2, CommitKeeps
<1>4. ASSUME Governs(by) PROVE Governs(by)'
  <2>1. PICK u \in users : u.role = "admin" /\ u.name = by /\ ~u.disabled
    BY <1>4 DEF Governs, Admins
  <2>2. req[r].is.name # by
    BY <1>1, <1>2 DEF LoadOK, Erasing
  <2>3. u.id # req[r].is.id
    BY <1>1, <1>2, <2>1, <2>2 DEF LoadedOK, UserSteps
  <2>4. u \in users'
    BY <1>2, <2>3
  <2> QED
    BY <2>1, <2>4 DEF Governs, Admins
<1> QED
  BY <1>1, <1>2, <1>3, <1>4, AdminStays DEF UsersInv
(* What update_user writes leaves the row of its actor a governing one.  *)
LEMMA WriteUserKeeps ==
    ASSUME UsersInv, NEW r \in Requests, WriteUser(r)
    PROVE  UsersInv'
<1> PICK h : h = req[r]
  OBVIOUS
<1>1. /\ TablesOK /\ AdminRemains /\ RowsOK /\ LoadedOK /\ LoadOK(req[r])
  BY DEF UsersInv, TablesOK, LoadsOK
<1>2. /\ h.at = "update user"
      /\ users' = {IF u.id = h.is.id THEN Save(h.was, h.is, u) ELSE u : u \in users}
      /\ ActsFor(h.by)
      /\ req' = [req EXCEPT ![r] = Free] /\ UNCHANGED starts
  BY DEF WriteUser, End, Become
<1>3. /\ h.is \in UserRows /\ h.was \in UserRows
      /\ h.is.id = h.was.id /\ h.is.name = h.was.name
      /\ h.is.name = h.by => /\ h.is.role \in {h.was.role, "admin"}
                             /\ h.is.disabled => h.was.disabled
  BY <1>1, <1>2 DEF LoadOK, UserSteps
<1>4. ASSUME NEW u \in users, u.id = h.is.id
      PROVE  LET v == Save(h.was, h.is, u)
             IN /\ v \in UserRows /\ v.id = u.id /\ v.name = u.name
                /\ v.role = IF h.is.role = h.was.role THEN u.role ELSE h.is.role
                /\ v.disabled = IF h.is.disabled = h.was.disabled THEN u.disabled ELSE h.is.disabled
  <2>1. u \in UserRows
    BY <1>1 DEF RowsOK
  <2> QED
    BY <1>3, <2>1, SavedUser
<1>5. TablesOK'
  <2>1. "at" \in DOMAIN Free /\ Free.at \notin UserSteps
    BY DEF Free, UserSteps
  <2>2. ASSUME NEW v \in users'
        PROVE  v \in UserRows /\ \E u \in users : u.id = v.id /\ u.name = v.name
    <3>1. PICK u \in users : v = IF u.id = h.is.id THEN Save(h.was, h.is, u) ELSE u
      BY <1>2
    <3> QED
      BY <1>1, <1>4, <3>1 DEF RowsOK
  <2> QED
    BY <1>1, <1>2, <2>1, <2>2, CommitKeeps
<1>6. ASSUME Governs(h.by) PROVE Governs(h.by)'
  <2>1. PICK u \in users : u.role = "admin" /\ u.name = h.by /\ ~u.disabled
    BY <1>6 DEF Governs, Admins
  <2>2. CASE u.id # h.is.id
    BY <1>2, <2>1, <2>2 DEF Governs, Admins
  <2>3. CASE u.id = h.is.id
    <3> DEFINE v == Save(h.was, h.is, u)
    <3>1. v \in users'
      BY <1>2, <2>3
    <3>2. u.name = h.is.name
      BY <1>1, <1>2, <2>3 DEF LoadedOK, UserSteps
    <3>3. h.is.role \in {h.was.role, "admin"} /\ (h.is.disabled => h.was.disabled)
      BY <1>3, <2>1, <3>2
    <3>4. v.name = h.by /\ v.role = "admin" /\ ~v.disabled
      BY <1>3, <1>4, <2>1, <2>3, <3>3 DEF UserRows
    <3> QED
      BY <3>1, <3>4 DEF Governs, Admins
  <2> QED
    BY <2>2, <2>3
<1> QED
  BY <1>1, <1>2, <1>5, <1>6, AdminStays DEF UsersInv

(* The row of an insert takes an id that no row and no handler has.        *)
LEMMA InsertUserKeeps ==
    ASSUME UsersInv, NEW r \in Requests, InsertUser(r)
    PROVE  UsersInv'
<1> PICK h : h = req[r]
  OBVIOUS
<1>1. /\ HandlersOK /\ RowsOK /\ LoadsOK /\ NamesOK /\ LoadedOK /\ FreshOK /\ ApartOK
      /\ AdminRemains /\ TablesOK /\ LoadOK(req[r])
  BY DEF UsersInv, TablesOK, LoadsOK
<1>2. /\ h.at = "insert user" /\ users' \in {users, users \cup {h.is}}
      /\ UNCHANGED stale /\ req' = [req EXCEPT ![r] = Free] /\ UNCHANGED starts
  BY DEF InsertUser, End, Become
<1>3. "at" \in DOMAIN Free /\ Free.at \notin UserSteps
  BY DEF Free, UserSteps
<1>4. /\ HandlersOK'
      /\ req'[r] = Free
      /\ \A q \in Requests \ {r} : req'[q] = req[q]
      /\ starts' \in Nat /\ starts <= starts'
  <2>1. starts' \in {starts, starts + 1}
    BY <1>2
  <2> QED
    BY <1>1, <1>2, <1>3, <2>1, OneMoves
<1>5. h.is \in UserRows /\ h.is.id <= starts
  BY <1>1, <1>2 DEF LoadOK, UserSteps
<1>6. LoadsOK'
  <2>1. LoadOK(req[r])'
    BY <1>3, <1>4 DEF LoadOK, UserSteps, Erasing
  <2> QED
    BY <1>1, <1>4, <2>1, OthersCarry
<1>7. RowsOK'
  BY <1>1, <1>2, <1>5 DEF RowsOK
<1>8. \A q \in Requests : req'[q].at \in UserSteps => q # r /\ req'[q] = req[q]
  BY <1>3, <1>4
<1>9. \A u \in users' : u \in users \/ u = h.is
  BY <1>2
<1>10. NamesOK'
  <2> SUFFICES ASSUME NEW u \in users', NEW v \in users', u.id = v.id
               PROVE  u.name = v.name
    BY DEF NamesOK
  <2>1. CASE u \in users /\ v \in users
    BY <1>1, <2>1 DEF NamesOK
  <2>2. CASE u = h.is /\ v = h.is
    BY <2>2
  <2>3. \A w \in users : w.id # h.is.id
    BY <1>1, <1>2 DEF FreshOK
  <2> QED
    BY <1>9, <2>1, <2>2, <2>3
<1>11. LoadedOK'
  <2> SUFFICES ASSUME NEW q \in Requests, NEW u \in users',
                      req'[q].at \in UserSteps \ {"insert user"}, u.id = req'[q].is.id
               PROVE  u.name = req'[q].is.name
    BY DEF LoadedOK
  <2>1. q # r /\ req'[q] = req[q]
    BY <1>8
  <2>2. req[q].is.id # h.is.id
    BY <1>1, <1>2, <2>1 DEF ApartOK
  <2>3. u \in users
    BY <1>9, <2>1, <2>2
  <2> QED
    BY <1>1, <2>1, <2>3 DEF LoadedOK
<1>12. FreshOK'
  <2> SUFFICES ASSUME NEW q \in Requests, NEW u \in users', req'[q].at = "insert user"
               PROVE  u.id # req'[q].is.id
    BY DEF FreshOK
  <2>1. q # r /\ req'[q] = req[q]
    BY <1>8 DEF UserSteps
  <2>2. h.is.id # req[q].is.id
    BY <1>1, <1>2, <2>1 DEF ApartOK, UserSteps
  <2> QED
    BY <1>1, <1>9, <2>1, <2>2 DEF FreshOK
<1>13. ApartOK'
  <2> SUFFICES ASSUME NEW p \in Requests, NEW q \in Requests, p # q,
                      req'[q].at = "insert user", req'[p].at \in UserSteps
               PROVE  req'[p].is.id # req'[q].is.id
    BY DEF ApartOK
  <2>1. req'[p] = req[p] /\ req'[q] = req[q]
    BY <1>8 DEF UserSteps
  <2> QED
    BY <1>1, <2>1 DEF ApartOK
<1>14. AdminRemains'
  BY <1>1, <1>2 DEF AdminRemains, Governs, Admins
<1> QED
  BY <1>4, <1>6, <1>7, <1>10, <1>11, <1>12, <1>13, <1>14 DEF UsersInv, TablesOK

(* Every step of users keeps the invariant of users.                     *)
LEMMA UsersNextKeeps == UsersInv /\ UsersNext => UsersInv'
<1> SUFFICES ASSUME UsersInv, UsersNext PROVE UsersInv'
  OBVIOUS
<1>1. ASSUME NEW r \in Requests, UsersStep(r) PROVE UsersInv'
  <2>1. CASE UserRequest(r)
    <3>1. PICK by \in Usernames :
             \/ \E name \in Usernames, role \in {"admin", "customer"}, t \in UserTenants :
                    CreateUser(r, by, name, role, t)
             \/ \E u \in users, role \in {"admin", "customer", Nil},
                   t \in UserTenants \cup {Nil}, disabled \in {TRUE, FALSE, Nil} :
                    UpdateUser(r, by, u, role, t, disabled)
             \/ \E u \in users : DeleteUser(r, by, u)
      BY <2>1 DEF UserRequest
    <3>2. CASE \E name \in Usernames, role \in {"admin", "customer"}, t \in UserTenants :
                    CreateUser(r, by, name, role, t)
      BY <3>2, CreateUserKeeps
    <3>3. CASE \E u \in users, role \in {"admin", "customer", Nil},
                   t \in UserTenants \cup {Nil}, disabled \in {TRUE, FALSE, Nil} :
                    UpdateUser(r, by, u, role, t, disabled)
      <4>1. PICK u \in users, role \in {"admin", "customer", Nil},
                 t \in UserTenants \cup {Nil}, disabled \in {TRUE, FALSE, Nil} :
                 UpdateUser(r, by, u, role, t, disabled)
        BY <3>3
      <4> QED
        BY <4>1, UpdateUserKeeps
    <3>4. CASE \E u \in users : DeleteUser(r, by, u)
      BY <3>4, DeleteUserKeeps
    <3> QED
      BY <3>1, <3>2, <3>3, <3>4
  <2> QED
    BY <1>1, <2>1, SeedAdminKeeps, InsertUserKeeps, WriteUserKeeps, CountAdminsKeeps,
       DropUserKeeps DEF UsersStep
<1>2. CASE \E name \in Usernames : Login(name) \/ TokenExpires(name)
  BY <1>2, ElsewhereKeeps DEF Login, TokenExpires, Elsewhere, handlerVars
<1>3. CASE \E t \in UserTenants : TenantLeaves(t)
  BY <1>3, ElsewhereKeeps DEF TenantLeaves, Elsewhere, handlerVars
<1> QED
  BY <1>1, <1>2, <1>3 DEF UsersNext
-----------------------------------------------------------------------------
(* A handler of routes or hubs: it enters, goes on or ends as no handler of *)
(* users.                                                                  *)
LEMMA BecomesElse ==
    ASSUME NEW r \in Requests, NEW h, "at" \in DOMAIN h, h.at \notin UserSteps,
           Enter(r, h) \/ Become(r, h), UNCHANGED userVars
    PROVE  Elsewhere
BY DEF Enter, Become, Elsewhere, userVars

(* A handler of routes or hubs that ends is Elsewhere.                   *)
LEMMA EndsElse ==
    ASSUME NEW r \in Requests, End(r), UNCHANGED userVars
    PROVE  Elsewhere
<1>1. "at" \in DOMAIN Free /\ Free.at \notin UserSteps
  BY DEF Free, UserSteps
<1> QED
  BY <1>1, BecomesElse DEF End

(* The steps of model routes are Elsewhere.                              *)
LEMMA CatalogElse ==
    ASSUME CatalogNext, UNCHANGED userVars
    PROVE  Elsewhere
<1>1. CASE CascadeRoutes
  BY <1>1 DEF CascadeRoutes, Elsewhere, userVars
<1>2. ASSUME NEW r \in Requests, CatalogRequest(r) PROVE Elsewhere
  <2>1. \E h : "at" \in DOMAIN h /\ h.at \notin UserSteps /\ Enter(r, h)
    BY <1>2 DEF CatalogRequest, RegisterHub, AddRoute, DeleteRoute, RenameRoute, UserSteps
  <2> QED
    BY <2>1, BecomesElse
<1>3. ASSUME NEW r \in Requests, ReadRoutes(r) PROVE Elsewhere
  <2>1. \E h : "at" \in DOMAIN h /\ h.at \notin UserSteps /\ Become(r, h)
    BY <1>3 DEF ReadRoutes, UserSteps
  <2> QED
    BY <2>1, BecomesElse
<1>4. ASSUME NEW r \in Requests,
             WiringFails(r) \/ StoreCatalog(r) \/ InsertRoute(r) \/ WriteRoute(r) \/ DropRoute(r)
      PROVE  Elsewhere
  BY <1>4, EndsElse DEF WiringFails, StoreCatalog, InsertRoute, WriteRoute, DropRoute
<1> QED
  BY <1>1, <1>2, <1>3, <1>4 DEF CatalogNext, CatalogStep

(* The steps of hub health and re-logins are Elsewhere.                  *)
LEMMA HealthElse ==
    ASSUME HandlersOK, HealthNext, UNCHANGED userVars
    PROVE  Elsewhere
<1>1. CASE \E a \in Accounts : AccountLeaves(a)
  BY <1>1 DEF AccountLeaves, Elsewhere, userVars
<1>2. ASSUME NEW r \in Requests, PollerStep(r) PROVE Elsewhere
  <2>1. CASE CommitPass(r)
    BY <2>1, EndsElse DEF CommitPass
  <2>2. CASE PollOnce(r)
    <3>1. \E h : "at" \in DOMAIN h /\ h.at \notin UserSteps /\ Enter(r, h)
      BY <2>2 DEF PollOnce, UserSteps
    <3> QED
      BY <3>1, BecomesElse
  <2>3. ASSUME NEW a \in Accounts, Unreachable(r, a) PROVE Elsewhere
    <3>1. "at" \in DOMAIN req[r] /\ req[r].at = "ask hubs"
      BY <2>3 DEF HandlersOK, Unreachable
    <3>2. Become(r, [req[r] EXCEPT !.left = @ \ {a}])
      BY <2>3 DEF Unreachable
    <3>3. /\ "at" \in DOMAIN [req[r] EXCEPT !.left = @ \ {a}]
          /\ [req[r] EXCEPT !.left = @ \ {a}].at \notin UserSteps
      BY <3>1 DEF UserSteps
    <3> QED
      BY <3>2, <3>3, BecomesElse
  <2>4. ASSUME NEW a \in Accounts, NEW loggedIn \in BOOLEAN, FetchStatus(r, a, loggedIn)
        PROVE  Elsewhere
    <3> DEFINE now == Cardinality(answers) + 1
               h == [req[r] EXCEPT !.left = @ \ {a}, !.is[a].loggedIn = loggedIn,
                                   !.is[a].polled = now]
    <3>1. "at" \in DOMAIN req[r] /\ req[r].at = "ask hubs"
      BY <2>4 DEF HandlersOK, FetchStatus
    <3>2. Become(r, h)
      BY <2>4 DEF FetchStatus
    <3>3. "at" \in DOMAIN h /\ h.at \notin UserSteps
      BY <3>1 DEF UserSteps
    <3> HIDE DEF h
    <3> QED
      BY <3>2, <3>3, BecomesElse
  <2> QED
    BY <1>2, <2>1, <2>2, <2>3, <2>4 DEF PollerStep
<1>3. ASSUME NEW r \in Requests, ReloginStep(r) PROVE Elsewhere
  <2>1. CASE KeepCode(r) \/ FlowNotStarted(r) \/ PollEnds(r) \/ StoreTokenFails(r) \/ ClearCode(r)
    BY <2>1, EndsElse DEF KeepCode, FlowNotStarted, PollEnds, StoreTokenFails, ClearCode, SaveCode
  <2>2. CASE \E a \in Accounts : ReloginStart(r, a) \/ ReloginPoll(r, a)
    <3>1. \E h : "at" \in DOMAIN h /\ h.at \notin UserSteps /\ Enter(r, h)
      BY <2>2 DEF ReloginStart, ReloginPoll, UserSteps
    <3> QED
      BY <3>1, BecomesElse
  <2>3. CASE Redeem(r) \/ ReloginFails(r) \/ InstallToken(r) \/ StoreToken(r)
    <3>1. "at" \in DOMAIN req[r]
      BY DEF HandlersOK
    <3>2. PICK at \in {"install", "clear code", "store token"} :
                   Become(r, [req[r] EXCEPT !.at = at])
      BY <2>3 DEF Redeem, AuthorizedTo, ReloginFails, InstallToken, StoreToken
    <3>3. /\ "at" \in DOMAIN [req[r] EXCEPT !.at = at]
          /\ [req[r] EXCEPT !.at = at].at \notin UserSteps
      BY <3>1 DEF UserSteps
    <3> QED
      BY <3>2, <3>3, BecomesElse
  <2> QED
    BY <1>3, <2>1, <2>2, <2>3 DEF ReloginStep
<1> QED
  BY <1>1, <1>2, <1>3 DEF HealthNext

-----------------------------------------------------------------------------
(* The seeded admin governs, and nobody is at work.                      *)
LEMMA InitUsers == Init => UsersInv
<1> SUFFICES ASSUME Init PROVE UsersInv
  OBVIOUS
<1>1. req = [q \in Requests |-> Free] /\ starts = 0 /\ stale = FALSE
  BY DEF Init, HandlersInit, UsersInit
<1>2. users = {UserRow(0, Root, "admin", Nil)}
  BY DEF Init, UsersInit
<1>3. HandlersOK
  BY <1>1 DEF HandlersOK, Free
<1>4. RowsOK /\ AdminRemains
  <2>1. \A u \in users : u = UserRow(0, Root, "admin", Nil)
    BY <1>2
  <2>2. UserRow(0, Root, "admin", Nil) \in UserRows /\ UserRow(0, Root, "admin", Nil).id = 0
    BY UsersAssumption, NewRow
  <2>3. 0 <= 0
    OBVIOUS
  <2>4. RowsOK
    BY <1>1, <2>1, <2>2, <2>3 DEF RowsOK
  <2>5. Governs(Root)
    <3> DEFINE u == UserRow(0, Root, "admin", Nil)
    <3>1. u \in users
      BY <1>2
    <3>2. u.name = Root /\ u.role = "admin" /\ ~u.disabled
      BY DEF UserRow
    <3> QED
      BY <3>1, <3>2 DEF Governs, Admins
  <2> QED
    BY <2>4, <2>5, UsersAssumption DEF AdminRemains
<1>5. \A q \in Requests : req[q].at \notin UserSteps
  BY <1>1 DEF Free, UserSteps
<1>6. LoadsOK /\ LoadedOK /\ FreshOK /\ ApartOK
  BY <1>5 DEF LoadsOK, LoadOK, LoadedOK, FreshOK, ApartOK, UserSteps, Erasing
<1>7. NamesOK
  <2>1. \A u, v \in users : u = v
    BY <1>2
  <2> QED
    BY <2>1 DEF NamesOK
<1> QED
  BY <1>3, <1>4, <1>6, <1>7 DEF UsersInv, TablesOK

(* The invariant of users is inductive.                                  *)
LEMMA StepUsers == UsersInv /\ [Next]_vars => UsersInv'
<1> SUFFICES ASSUME UsersInv, [Next]_vars PROVE UsersInv'
  OBVIOUS
<1>1. CASE UsersNext
  BY <1>1, UsersNextKeeps
<1>2. CASE CatalogNext /\ UNCHANGED userVars
  BY <1>2, CatalogElse, ElsewhereKeeps
<1>3. CASE HealthNext /\ UNCHANGED userVars
  BY <1>3, HealthElse, ElsewhereKeeps DEF UsersInv, TablesOK
<1>4. CASE UNCHANGED <<handlerVars, userVars>>
  BY <1>4, ElsewhereKeeps DEF Elsewhere, userVars
<1> QED
  BY <1>1, <1>2, <1>3, <1>4 DEF Next, vars

(* Whatever admins do to each other's accounts at the same time, an admin  *)
(* who can sign in remains, as long as nobody changes a row in the name of *)
(* someone who is no longer one (update_user, delete_user).                *)
THEOREM AnAdminRemains == Spec => []AdminRemains
<1>1. UsersInv => AdminRemains
  BY DEF UsersInv
<1> QED
  BY <1>1, InitUsers, StepUsers, PTL DEF Spec
-----------------------------------------------------------------------------
(* The token of a re-login.                                                *)
Carrying == {"redeem", "install", "store token", "clear code"}

Carries(h) == {"at", "acct", "code"} \subseteq DOMAIN h /\ h.acct \in Accounts

CarriedOK == \A r \in Requests : req[r].at \in Carrying => Carries(req[r])

(* Of an account that has not come apart, one re-login at most is between  *)
(* hub and vault, and it carries the token that the hub runs on.           *)
StoringOK == \A r \in Requests :
    req[r].at = "store token" /\ req[r].acct \notin apart
        => hub[req[r].acct] = req[r].code /\ Installing(req[r].acct) = {r}

TokensOK == /\ hub = [a \in Accounts |-> hub[a]]
            /\ vault = [a \in Accounts |-> vault[a]]

VaultInv == HandlersOK /\ CarriedOK /\ TokensOK /\ StoringOK /\ VaultFollowsHub

-----------------------------------------------------------------------------
\* A step that leaves the tokens alone and neither opens nor closes the gap.
QuietMove(r, h) ==
    /\ starts' \in {starts, starts + 1}
    /\ req[r].at # "store token" /\ h.at # "store token"
    /\ "at" \in DOMAIN h
    /\ h.at \in Carrying => Carries(h)
    /\ req' = [req EXCEPT ![r] = h]

Quiet ==
    /\ UNCHANGED <<hub, vault, apart>>
    /\ UNCHANGED handlerVars \/ \E r \in Requests : \E h : QuietMove(r, h)

(* A move that leaves the tokens alone keeps the invariant of tokens.    *)
LEMMA QuietMoveKeeps ==
    ASSUME VaultInv, UNCHANGED <<hub, vault, apart>>, NEW r \in Requests, NEW h,
           QuietMove(r, h)
    PROVE  VaultInv'
<1>0. /\ starts' \in {starts, starts + 1}
      /\ req[r].at # "store token" /\ h.at # "store token" /\ "at" \in DOMAIN h
      /\ h.at \in Carrying => Carries(h)
      /\ req' = [req EXCEPT ![r] = h]
  BY DEF QuietMove
<1>1. UNCHANGED <<hub, vault, apart>>
  OBVIOUS
<1>2. /\ HandlersOK' /\ req'[r] = h
      /\ \A q \in Requests \ {r} : req'[q] = req[q]
  BY <1>0, OneMoves DEF VaultInv
<1>3. CarriedOK'
  <2> SUFFICES ASSUME NEW q \in Requests, req'[q].at \in Carrying PROVE Carries(req'[q])
    BY DEF CarriedOK, Carries
  <2>1. CASE q = r
    BY <1>0, <1>2, <2>1
  <2>2. CASE q # r
    BY <1>2, <2>2 DEF VaultInv, CarriedOK
  <2> QED
    BY <2>1, <2>2
<1>4. \A a : Installing(a)' = Installing(a)
  BY <1>0, <1>2 DEF Installing
<1>5. StoringOK'
  <2>1. ASSUME NEW q \in Requests, req'[q].at = "store token", req'[q].acct \notin apart
        PROVE  /\ hub[req'[q].acct] = req'[q].code
               /\ Installing(req[q].acct)' = {q}
    <3>1. req'[q] = req[q]
      BY <1>0, <1>2, <2>1
    <3>2. hub[req[q].acct] = req[q].code /\ Installing(req[q].acct) = {q}
      BY <2>1, <3>1 DEF VaultInv, StoringOK
    <3>3. PICK a : a = req[q].acct
      OBVIOUS
    <3>4. Installing(a)' = {q}
      BY <1>4, <3>2, <3>3
    <3> QED
      BY <3>1, <3>2, <3>3, <3>4
  <2> QED
    BY <1>1, <2>1 DEF StoringOK
<1>6. VaultFollowsHub'
  BY <1>1, <1>4 DEF VaultInv, VaultFollowsHub
<1>7. TokensOK'
  BY <1>1 DEF VaultInv, TokensOK
<1> QED
  BY <1>2, <1>3, <1>5, <1>6, <1>7 DEF VaultInv

(* A quiet step keeps the invariant of tokens.                           *)
LEMMA QuietKeeps == VaultInv /\ Quiet => VaultInv'
<1> SUFFICES ASSUME VaultInv, Quiet PROVE VaultInv'
  OBVIOUS
<1>1. CASE UNCHANGED handlerVars
  BY <1>1 DEF VaultInv, Quiet, handlerVars, HandlersOK, CarriedOK, Carries, TokensOK,
              StoringOK, VaultFollowsHub, Installing
<1>2. CASE \E r \in Requests : \E h : QuietMove(r, h)
  BY <1>2, QuietMoveKeeps DEF Quiet
<1> QED
  BY <1>1, <1>2 DEF Quiet

(* Entering, and going on elsewhere than between hub and vault, is quiet.*)
LEMMA BecomesQuiet ==
    ASSUME NEW r \in Requests, NEW h, "at" \in DOMAIN h, h.at # "store token",
           h.at \in Carrying => Carries(h),
           Enter(r, h) \/ (req[r].at # "store token" /\ Become(r, h)),
           UNCHANGED <<hub, vault, apart>>
    PROVE  Quiet
<1>1. Free.at # "store token"
  BY DEF Free
<1>2. QuietMove(r, h)
  BY <1>1 DEF Enter, Become, QuietMove
<1> QED
  BY <1>2 DEF Quiet

(* Ending elsewhere than between hub and vault is quiet.                 *)
LEMMA EndsQuiet ==
    ASSUME NEW r \in Requests, req[r].at # "store token", End(r),
           UNCHANGED <<hub, vault, apart>>
    PROVE  Quiet
<1>1. "at" \in DOMAIN Free /\ Free.at # "store token" /\ Free.at \notin Carrying
  BY DEF Free, Carrying
<1> QED
  BY <1>1, BecomesQuiet DEF End

(* The steps of users are quiet.                                         *)
LEMMA UsersQuiet ==
    ASSUME HandlersOK, UsersNext, UNCHANGED healthVars
    PROVE  Quiet
<1>0. UNCHANGED <<hub, vault, apart>>
  BY DEF healthVars
<1>1. ASSUME NEW r \in Requests, UserRequest(r) \/ SeedAdmin(r) PROVE Quiet
  <2>1. ASSUME NEW h, "at" \in DOMAIN h, h.at \in UserSteps, Enter(r, h) PROVE Quiet
    <3>1. h.at # "store token" /\ h.at \notin Carrying
      BY <2>1 DEF UserSteps, Carrying
    <3> QED
      BY <1>0, <2>1, <3>1, BecomesQuiet
  <2>2. CASE SeedAdmin(r)
    BY <2>1, <2>2 DEF SeedAdmin, UserSteps
  <2>3. ASSUME NEW by, NEW name, NEW role, NEW t, CreateUser(r, by, name, role, t)
        PROVE  Quiet
    BY <2>1, <2>3 DEF CreateUser, UserSteps
  <2>4. ASSUME NEW by, NEW u, NEW role, NEW t, NEW disabled, UpdateUser(r, by, u, role, t, disabled)
        PROVE  Quiet
    <3> DEFINE row == Updated(u, Asked(u.role, role), Asked(u.tenant, t), disabled)
    <3>1. Enter(r, [at |-> "update user", by |-> by, was |-> u, is |-> row])
      BY <2>4 DEF UpdateUser
    <3> HIDE DEF row
    <3> QED
      BY <2>1, <3>1 DEF UserSteps
  <2>5. ASSUME NEW by, NEW u, DeleteUser(r, by, u) PROVE Quiet
    <3> DEFINE at == IF u.role = "admin" THEN "count admins" ELSE "delete user"
    <3>1. at \in UserSteps /\ Enter(r, [at |-> at, by |-> by, is |-> u])
      BY <2>5 DEF DeleteUser, UserSteps
    <3> HIDE DEF at
    <3> QED
      BY <2>1, <3>1
  <2> QED
    BY <1>1, <2>2, <2>3, <2>4, <2>5 DEF UserRequest
<1>2. ASSUME NEW r \in Requests, InsertUser(r) \/ WriteUser(r) \/ DropUser(r) PROVE Quiet
  BY <1>0, <1>2, EndsQuiet DEF InsertUser, WriteUser, DropUser
<1>3. ASSUME NEW r \in Requests, CountAdmins(r) PROVE Quiet
  <2>1. CASE End(r)
    BY <1>0, <1>3, <2>1, EndsQuiet DEF CountAdmins
  <2>2. CASE Become(r, [req[r] EXCEPT !.at = "delete user"])
    <3> DEFINE h == [req[r] EXCEPT !.at = "delete user"]
    <3>1. "at" \in DOMAIN h /\ h.at = "delete user"
      BY DEF HandlersOK
    <3>2. h.at # "store token" /\ h.at \notin Carrying /\ req[r].at # "store token"
      BY <1>3, <3>1 DEF CountAdmins, Carrying
    <3>3. Become(r, h)
      BY <2>2
    <3> HIDE DEF h
    <3> QED
      BY <1>0, <3>1, <3>2, <3>3, BecomesQuiet
  <2> QED
    BY <1>3, <2>1, <2>2 DEF CountAdmins
<1>4. CASE \E name \in Usernames : Login(name) \/ TokenExpires(name)
  BY <1>0, <1>4 DEF Login, TokenExpires, Quiet, handlerVars
<1>5. CASE \E t \in UserTenants : TenantLeaves(t)
  BY <1>0, <1>5 DEF TenantLeaves, Quiet, handlerVars
<1> QED
  BY <1>1, <1>2, <1>3, <1>4, <1>5 DEF UsersNext, UsersStep

(* The steps of model routes are quiet.                                  *)
LEMMA CatalogQuiet ==
    ASSUME CatalogNext, UNCHANGED healthVars
    PROVE  Quiet
<1>0. UNCHANGED <<hub, vault, apart>>
  BY DEF healthVars
<1>1. CASE CascadeRoutes
  BY <1>0, <1>1 DEF CascadeRoutes, Quiet
<1>2. ASSUME NEW r \in Requests, CatalogRequest(r) PROVE Quiet
  <2>1. \E h : /\ "at" \in DOMAIN h /\ h.at # "store token" /\ h.at \notin Carrying
               /\ Enter(r, h)
    BY <1>2 DEF CatalogRequest, RegisterHub, AddRoute, DeleteRoute, RenameRoute, Carrying
  <2> QED
    BY <1>0, <2>1, BecomesQuiet
<1>3. ASSUME NEW r \in Requests, ReadRoutes(r) PROVE Quiet
  <2>1. \E h : /\ "at" \in DOMAIN h /\ h.at # "store token" /\ h.at \notin Carrying
               /\ Become(r, h)
    BY <1>3 DEF ReadRoutes, Carrying
  <2>2. req[r].at # "store token"
    BY <1>3 DEF ReadRoutes
  <2> QED
    BY <1>0, <2>1, <2>2, BecomesQuiet
<1>4. ASSUME NEW r \in Requests,
             WiringFails(r) \/ StoreCatalog(r) \/ InsertRoute(r) \/ WriteRoute(r) \/ DropRoute(r)
      PROVE  Quiet
  <2>1. req[r].at # "store token" /\ End(r)
    BY <1>4 DEF WiringFails, StoreCatalog, InsertRoute, WriteRoute, DropRoute
  <2> QED
    BY <1>0, <2>1, EndsQuiet
<1> QED
  BY <1>1, <1>2, <1>3, <1>4 DEF CatalogNext, CatalogStep
-----------------------------------------------------------------------------
(* A handler that has a token goes on with it.                             *)
LEMMA CarriesOn ==
    ASSUME HandlersOK, CarriedOK, NEW r \in Requests, req[r].at \in Carrying, NEW at
    PROVE  LET h == [req[r] EXCEPT !.at = at]
           IN /\ "at" \in DOMAIN h /\ h.at = at /\ Carries(h)
              /\ h.acct = req[r].acct /\ h.code = req[r].code
  BY DEF CarriedOK, Carries

(* The steps of the status poller are quiet.                             *)
LEMMA PollerQuiet ==
    ASSUME HandlersOK, NEW r \in Requests, PollerStep(r)
    PROVE  Quiet
<1>1. CASE CommitPass(r)
  <2>1. req[r].at # "store token" /\ End(r) /\ UNCHANGED <<hub, vault, apart>>
    BY <1>1 DEF CommitPass
  <2> QED
    BY <2>1, EndsQuiet
<1>2. CASE PollOnce(r)
  <2>1. \E h : /\ "at" \in DOMAIN h /\ h.at # "store token" /\ h.at \notin Carrying
               /\ Enter(r, h)
    BY <1>2 DEF PollOnce, Carrying
  <2>2. UNCHANGED <<hub, vault, apart>>
    BY <1>2 DEF PollOnce, healthVars
  <2> QED
    BY <2>1, <2>2, BecomesQuiet
<1>3. ASSUME NEW a \in Accounts, Unreachable(r, a) PROVE Quiet
  <2> DEFINE h == [req[r] EXCEPT !.left = @ \ {a}]
  <2>1. "at" \in DOMAIN req[r] /\ req[r].at = "ask hubs"
    BY <1>3 DEF HandlersOK, Unreachable
  <2>2. Become(r, h) /\ UNCHANGED <<hub, vault, apart>>
    BY <1>3 DEF Unreachable, healthVars
  <2>3. "at" \in DOMAIN h /\ h.at = "ask hubs"
    BY <2>1
  <2> HIDE DEF h
  <2> QED
    BY <2>1, <2>2, <2>3, BecomesQuiet DEF Carrying
<1>4. ASSUME NEW a \in Accounts, NEW loggedIn \in BOOLEAN, FetchStatus(r, a, loggedIn)
      PROVE  Quiet
  <2> DEFINE now == Cardinality(answers) + 1
             h == [req[r] EXCEPT !.left = @ \ {a}, !.is[a].loggedIn = loggedIn,
                                 !.is[a].polled = now]
  <2>1. "at" \in DOMAIN req[r] /\ req[r].at = "ask hubs"
    BY <1>4 DEF HandlersOK, FetchStatus
  <2>2. Become(r, h) /\ UNCHANGED <<hub, vault, apart>>
    BY <1>4 DEF FetchStatus
  <2>3. "at" \in DOMAIN h /\ h.at = "ask hubs"
    BY <2>1
  <2> HIDE DEF h
  <2> QED
    BY <2>1, <2>2, <2>3, BecomesQuiet DEF Carrying
<1> QED
  BY <1>1, <1>2, <1>3, <1>4 DEF PollerStep

(* The steps of a re-login that touch neither hub nor vault.               *)
LEMMA ReloginQuiet ==
    ASSUME HandlersOK, CarriedOK, NEW r \in Requests,
           \/ KeepCode(r) \/ FlowNotStarted(r) \/ PollEnds(r) \/ ClearCode(r)
           \/ Redeem(r) \/ ReloginFails(r)
           \/ \E a \in Accounts : ReloginStart(r, a) \/ ReloginPoll(r, a)
    PROVE  Quiet
<1>1. CASE KeepCode(r) \/ FlowNotStarted(r) \/ PollEnds(r) \/ ClearCode(r)
  <2>1. req[r].at # "store token" /\ End(r) /\ UNCHANGED <<hub, vault, apart>>
    BY <1>1 DEF KeepCode, FlowNotStarted, PollEnds, ClearCode, SaveCode, healthVars
  <2> QED
    BY <2>1, EndsQuiet
<1>2. ASSUME NEW a \in Accounts, ReloginStart(r, a) \/ ReloginPoll(r, a) PROVE Quiet
  <2>1. \E h : /\ "at" \in DOMAIN h /\ h.at # "store token" /\ Carries(h)
               /\ Enter(r, h)
    BY <1>2 DEF ReloginStart, ReloginPoll, Carries
  <2>2. UNCHANGED <<hub, vault, apart>>
    BY <1>2 DEF ReloginStart, ReloginPoll, healthVars
  <2> QED
    BY <2>1, <2>2, BecomesQuiet
<1>3. CASE Redeem(r) \/ ReloginFails(r)
  <2>1. req[r].at \in {"redeem", "install"} /\ UNCHANGED <<hub, vault, apart>>
    BY <1>3 DEF Redeem, ReloginFails, healthVars
  <2>2. PICK at \in {"install", "clear code"} : Become(r, [req[r] EXCEPT !.at = at])
    BY <1>3 DEF Redeem, AuthorizedTo, ReloginFails
  <2> DEFINE h == [req[r] EXCEPT !.at = at]
  <2>3. "at" \in DOMAIN h /\ h.at = at /\ Carries(h)
    BY <2>1, CarriesOn DEF Carrying
  <2>4. Become(r, h) /\ h.at # "store token" /\ req[r].at # "store token"
    BY <2>1, <2>2, <2>3
  <2> HIDE DEF h
  <2> QED
    BY <2>1, <2>3, <2>4, BecomesQuiet
<1> QED
  BY <1>1, <1>2, <1>3

-----------------------------------------------------------------------------
(* A step on the hub or the vault of the account that r re-logs in: only    *)
(* that account can come apart, and only r comes between its two tokens or *)
(* leaves.                                                                 *)
GapMove(r, acct, h) ==
    /\ acct = req[r].acct
    /\ req' = [req EXCEPT ![r] = h] /\ UNCHANGED starts
    /\ "at" \in DOMAIN h
    /\ h.at \in Carrying => Carries(h) /\ h.acct = acct
    /\ TokensOK'
    /\ \A a \in Accounts : a # acct => hub'[a] = hub[a] /\ vault'[a] = vault[a]
    /\ apart' \in {apart, apart \cup {acct}}
    /\ \/ acct \in apart'
       \/ req[r].at = "store token" /\ h.at # "store token" /\ hub'[acct] = vault'[acct]
       \/ h.at = "store token" /\ hub'[acct] = h.code /\ Installing(acct) \ {r} = {}

(* Such a step keeps the invariant of tokens.                            *)
LEMMA GapMoveKeeps ==
    ASSUME VaultInv, NEW r \in Requests, NEW acct, NEW h, GapMove(r, acct, h)
    PROVE  VaultInv'
<1>1. /\ acct = req[r].acct
      /\ req' = [req EXCEPT ![r] = h] /\ UNCHANGED starts
      /\ "at" \in DOMAIN h
      /\ h.at \in Carrying => Carries(h) /\ h.acct = acct
      /\ TokensOK'
      /\ \A a \in Accounts : a # acct => hub'[a] = hub[a] /\ vault'[a] = vault[a]
      /\ apart' \in {apart, apart \cup {acct}}
  BY DEF GapMove
<1>2. acct \in apart' \/ req[r].at = "store token" \/ h.at = "store token"
  BY DEF GapMove
<1>3. acct \notin apart' =>
         /\ h.at = "store token" =>
               /\ hub'[acct] = h.code
               /\ \A q \in Requests \ {r} :
                     req[q].at = "store token" => req[q].acct # acct
         /\ h.at # "store token" => hub'[acct] = vault'[acct]
  BY DEF GapMove, Installing
<1>4. /\ HandlersOK' /\ req'[r] = h
      /\ \A q \in Requests \ {r} : req'[q] = req[q]
  BY <1>1, OneMoves DEF VaultInv
<1>5. CarriedOK'
  <2> SUFFICES ASSUME NEW q \in Requests, req'[q].at \in Carrying PROVE Carries(req'[q])
    BY DEF CarriedOK, Carries
  <2>1. CASE q = r
    BY <1>1, <1>4, <2>1
  <2>2. CASE q # r
    BY <1>4, <2>2 DEF VaultInv, CarriedOK
  <2> QED
    BY <2>1, <2>2
<1>6. /\ h.at = "store token" => h.acct = acct
      /\ \A q \in Requests : req[q].at = "store token" => req[q].acct \in Accounts
  BY <1>1 DEF VaultInv, CarriedOK, Carries, Carrying
<1>7. StoringOK'
  <2>1. ASSUME NEW q \in Requests, req'[q].at = "store token", req'[q].acct \notin apart'
        PROVE  /\ hub'[req'[q].acct] = req'[q].code
               /\ \A p \in Requests \ {q} :
                     req'[p].at = "store token" => req'[p].acct # req'[q].acct
    <3>1. CASE q = r
      BY <1>1, <1>3, <1>4, <1>6, <2>1, <3>1
    <3>2. CASE q # r
      <4>1. req'[q] = req[q] /\ req[q].acct \in Accounts /\ req[q].acct \notin apart
        BY <1>1, <1>4, <1>6, <2>1, <3>2
      <4>2. hub[req[q].acct] = req[q].code /\ Installing(req[q].acct) = {q}
        BY <1>1, <2>1, <4>1 DEF VaultInv, StoringOK
      <4>3. req[q].acct # acct
        <5>1. CASE h.at = "store token"
          BY <1>1, <1>3, <2>1, <3>2, <4>1, <5>1
        <5>2. CASE req[r].at = "store token"
          BY <1>1, <3>2, <4>2, <5>2 DEF Installing
        <5>3. CASE acct \in apart'
          BY <2>1, <4>1, <5>3
        <5> QED
          BY <1>2, <5>1, <5>2, <5>3
      <4>4. ASSUME NEW p \in Requests \ {q}, req'[p].at = "store token",
                   req'[p].acct = req'[q].acct
            PROVE  FALSE
        <5>1. CASE p = r
          BY <1>4, <1>6, <4>1, <4>3, <4>4, <5>1
        <5>2. CASE p # r
          BY <1>4, <4>1, <4>2, <4>4, <5>2 DEF Installing
        <5> QED
          BY <5>1, <5>2
      <4> QED
        BY <1>1, <4>1, <4>2, <4>3, <4>4
    <3> QED
      BY <3>1, <3>2
  <2>2. ASSUME NEW q \in Requests, req'[q].at = "store token", req'[q].acct \notin apart'
        PROVE  {p \in Requests : req'[p].at = "store token" /\ req'[p].acct = req'[q].acct} = {q}
    BY <2>1, <2>2
  <2> QED
    BY <2>1, <2>2 DEF StoringOK, Installing
<1>8. VaultFollowsHub'
  <2> SUFFICES ASSUME NEW a \in Accounts, a \notin apart',
                      \A q \in Requests : req'[q].at = "store token" => req'[q].acct # a
               PROVE  vault'[a] = hub'[a]
    BY DEF VaultFollowsHub, Installing
  <2>1. CASE a = acct
    <3>1. h.at # "store token"
      BY <1>4, <1>6, <2>1
    <3> QED
      BY <1>1, <1>3, <2>1, <3>1
  <2>2. CASE a # acct
    <3>1. \A q \in Requests : req[q].at = "store token" => req[q].acct # a
      BY <1>1, <1>4, <2>2
    <3>2. Installing(a) = {} /\ a \notin apart
      BY <1>1, <3>1 DEF Installing
    <3> QED
      BY <1>1, <2>2, <3>2 DEF VaultInv, VaultFollowsHub
  <2> QED
    BY <2>1, <2>2
<1> QED
  BY <1>1, <1>4, <1>5, <1>7, <1>8 DEF VaultInv

(* The hub takes the token, and its answer arrives or is lost.           *)
LEMMA InstallTokenKeeps ==
    ASSUME VaultInv, NEW r \in Requests, InstallToken(r)
    PROVE  VaultInv'
<1> PICK acct : acct = req[r].acct
  OBVIOUS
<1>1. /\ HandlersOK /\ CarriedOK /\ TokensOK
      /\ req[r].at = "install" /\ req[r].at \in Carrying /\ acct \in Accounts
  BY DEF VaultInv, InstallToken, CarriedOK, Carries, Carrying
<1>2. hub' = [hub EXCEPT ![acct] = req[r].code] /\ UNCHANGED <<vault, starts>>
  BY DEF InstallToken, Become
<1>3. /\ TokensOK' /\ hub'[acct] = req[r].code
      /\ \A a \in Accounts : a # acct => hub'[a] = hub[a] /\ vault'[a] = vault[a]
  BY <1>1, <1>2 DEF TokensOK
<1>4. CASE /\ Become(r, [req[r] EXCEPT !.at = "store token"])
           /\ apart' = IF Installing(acct) = {} THEN apart ELSE apart \cup {acct}
  <2> DEFINE h == [req[r] EXCEPT !.at = "store token"]
  <2>1. /\ "at" \in DOMAIN h /\ h.at = "store token" /\ Carries(h)
        /\ h.acct = acct /\ h.code = req[r].code
    BY <1>1, CarriesOn
  <2>2. req' = [req EXCEPT ![r] = h]
    BY <1>4 DEF Become
  <2> HIDE DEF h
  <2>3. acct \in apart' \/ Installing(acct) \ {r} = {}
    BY <1>4
  <2>4. apart' \in {apart, apart \cup {acct}}
    BY <1>4
  <2>5. GapMove(r, acct, h)
    BY <1>2, <1>3, <2>1, <2>2, <2>3, <2>4 DEF GapMove
  <2> QED
    BY <2>5, GapMoveKeeps
<1>5. CASE Become(r, [req[r] EXCEPT !.at = "clear code"]) /\ apart' = apart \cup {acct}
  <2> DEFINE h == [req[r] EXCEPT !.at = "clear code"]
  <2>1. "at" \in DOMAIN h /\ Carries(h) /\ h.acct = acct
    BY <1>1, CarriesOn
  <2>2. req' = [req EXCEPT ![r] = h] /\ acct \in apart'
    BY <1>5 DEF Become
  <2> HIDE DEF h
  <2>3. apart' \in {apart, apart \cup {acct}}
    BY <1>5
  <2>4. GapMove(r, acct, h)
    BY <1>2, <1>3, <2>1, <2>2, <2>3 DEF GapMove
  <2> QED
    BY <2>4, GapMoveKeeps
<1>6. \/ /\ Become(r, [req[r] EXCEPT !.at = "store token"])
         /\ apart' = IF Installing(acct) = {} THEN apart ELSE apart \cup {acct}
      \/ Become(r, [req[r] EXCEPT !.at = "clear code"]) /\ apart' = apart \cup {acct}
  BY DEF InstallToken
<1> QED
  BY <1>4, <1>5, <1>6
(* Key Vault takes the token that the hub runs on.                       *)
LEMMA StoreTokenKeeps ==
    ASSUME VaultInv, NEW r \in Requests, StoreToken(r)
    PROVE  VaultInv'
<1> PICK acct : acct = req[r].acct
  OBVIOUS
<1> DEFINE h == [req[r] EXCEPT !.at = "clear code"]
<1>1. /\ HandlersOK /\ CarriedOK /\ TokensOK
      /\ req[r].at = "store token" /\ req[r].at \in Carrying /\ acct \in Accounts
  BY DEF VaultInv, StoreToken, CarriedOK, Carries, Carrying
<1>2. /\ vault' = [vault EXCEPT ![acct] = req[r].code]
      /\ req' = [req EXCEPT ![r] = h] /\ UNCHANGED <<hub, apart, starts>>
  BY DEF StoreToken, Become
<1>3. /\ TokensOK' /\ vault'[acct] = req[r].code
      /\ \A a \in Accounts : a # acct => hub'[a] = hub[a] /\ vault'[a] = vault[a]
  BY <1>1, <1>2 DEF TokensOK
<1>4. "at" \in DOMAIN h /\ h.at = "clear code" /\ Carries(h) /\ h.acct = acct
  BY <1>1, CarriesOn
<1> HIDE DEF h
<1>5. acct \in apart' \/ hub'[acct] = vault'[acct]
  BY <1>1, <1>2, <1>3 DEF VaultInv, StoringOK
<1>6. GapMove(r, acct, h)
  BY <1>1, <1>2, <1>3, <1>4, <1>5 DEF GapMove
<1> QED
  BY <1>6, GapMoveKeeps

(* Key Vault fails, and the account is known to be apart.                *)
LEMMA StoreTokenFailsKeeps ==
    ASSUME VaultInv, NEW r \in Requests, StoreTokenFails(r)
    PROVE  VaultInv'
<1> PICK acct : acct = req[r].acct
  OBVIOUS
<1>1. /\ req' = [req EXCEPT ![r] = Free] /\ apart' = apart \cup {acct}
      /\ UNCHANGED <<hub, vault, starts>>
  BY DEF StoreTokenFails, End, Become
<1>2. "at" \in DOMAIN Free /\ Free.at \notin Carrying
  BY DEF Free, Carrying
<1>3. TokensOK'
  BY <1>1 DEF VaultInv, TokensOK
<1>4. GapMove(r, acct, Free)
  BY <1>1, <1>2, <1>3 DEF GapMove
<1> QED
  BY <1>4, GapMoveKeeps

(* Every step of hub health keeps the invariant of tokens.               *)
LEMMA HealthNextKeepsVault == VaultInv /\ HealthNext => VaultInv'
<1> SUFFICES ASSUME VaultInv, HealthNext PROVE VaultInv'
  OBVIOUS
<1>1. HandlersOK /\ CarriedOK
  BY DEF VaultInv
<1>2. CASE \E a \in Accounts : AccountLeaves(a)
  <2>1. Quiet
    BY <1>2 DEF AccountLeaves, Quiet
  <2> QED
    BY <2>1, QuietKeeps
<1>3. ASSUME NEW r \in Requests, PollerStep(r) PROVE VaultInv'
  BY <1>1, <1>3, PollerQuiet, QuietKeeps
<1>4. ASSUME NEW r \in Requests, ReloginStep(r) PROVE VaultInv'
  <2>1. CASE \/ KeepCode(r) \/ FlowNotStarted(r) \/ PollEnds(r) \/ ClearCode(r)
             \/ Redeem(r) \/ ReloginFails(r)
             \/ \E a \in Accounts : ReloginStart(r, a) \/ ReloginPoll(r, a)
    BY <1>1, <2>1, ReloginQuiet, QuietKeeps
  <2> QED
    BY <1>4, <2>1, InstallTokenKeeps, StoreTokenKeeps, StoreTokenFailsKeeps DEF ReloginStep
<1> QED
  BY <1>2, <1>3, <1>4 DEF HealthNext

(* Hub and vault start with the token of the deployment.                 *)
LEMMA InitVault == Init => VaultInv
<1> SUFFICES ASSUME Init PROVE VaultInv
  OBVIOUS
<1>1. req = [q \in Requests |-> Free] /\ starts = 0
  BY DEF Init, HandlersInit
<1>2. hub = [a \in Accounts |-> 0] /\ vault = [a \in Accounts |-> 0]
  BY DEF Init, HealthInit
<1>3. HandlersOK
  BY <1>1 DEF HandlersOK, Free
<1>4. \A q \in Requests : req[q].at \notin Carrying /\ req[q].at # "store token"
  BY <1>1 DEF Free, Carrying
<1>5. CarriedOK /\ StoringOK
  BY <1>4 DEF CarriedOK, StoringOK
<1>6. TokensOK /\ VaultFollowsHub
  BY <1>2 DEF TokensOK, VaultFollowsHub
<1> QED
  BY <1>3, <1>5, <1>6 DEF VaultInv

(* The invariant of tokens is inductive.                                 *)
LEMMA StepVault == VaultInv /\ [Next]_vars => VaultInv'
<1> SUFFICES ASSUME VaultInv, [Next]_vars PROVE VaultInv'
  OBVIOUS
<1>1. CASE UsersNext /\ UNCHANGED healthVars
  BY <1>1, UsersQuiet, QuietKeeps DEF VaultInv
<1>2. CASE CatalogNext /\ UNCHANGED healthVars
  BY <1>2, CatalogQuiet, QuietKeeps
<1>3. CASE HealthNext
  BY <1>3, HealthNextKeepsVault
<1>4. CASE UNCHANGED <<handlerVars, healthVars>>
  BY <1>4, QuietKeeps DEF Quiet, healthVars
<1> QED
  BY <1>1, <1>2, <1>3, <1>4 DEF Next, vars

(* Key Vault and hub hold the same Copilot token whenever no re-login is    *)
(* between the two, for every account whose hub's answer was not lost,     *)
(* whose Key Vault did not fail and whose re-logins did not overlap there  *)
(* (relogin_start, relogin_poll).                                          *)
THEOREM VaultHoldsHubToken == Spec => []VaultFollowsHub
<1>1. VaultInv => VaultFollowsHub
  BY DEF VaultInv
<1> QED
  BY <1>1, InitVault, StepVault, PTL DEF Spec
-----------------------------------------------------------------------------
(* The tokens of a hub.                                                    *)
Holding == {"exchange", "validate"}

(* The lock has one holder at most, and it is whoever waits for GitHub.    *)
LockOK ==
    /\ work = [c \in Coroutines |-> work[c]]
    /\ \A c \in Coroutines : work[c].at \in Holding => holder = {c}
    /\ \A d \in holder : d \in Coroutines /\ work[d].at \in Holding

AllOf(tokens, login) == \A t \in tokens : t.of = login

(* What an exchange or an installation will put into store and cache.      *)
PendingOK == \A c \in Coroutines :
    /\ work[c].at = "exchange" => work[c].login = newest
    /\ work[c].at = "validate" =>
          /\ stored = work[c].login /\ cached = {}
          /\ work[c].was = newest /\ AllOf(work[c].had, newest)

TokenInv == LockOK /\ ServesNewestLogin /\ (crossed \/ PendingOK)

(* A step of one coroutine leaves the work of the others alone.            *)
LEMMA OneWorks ==
    ASSUME LockOK, NEW c \in Coroutines, NEW w, Proceed(c, w)
    PROVE  /\ work' = [d \in Coroutines |-> work'[d]]
           /\ work'[c] = w
           /\ \A d \in Coroutines \ {c} : work'[d] = work[d]
BY DEF LockOK, Proceed

(* Taking the lock, and giving it back, keeps it to one holder.            *)
LEMMA LockKeeps ==
    ASSUME LockOK, NEW c \in Coroutines, NEW w, w.at \in Holding, Lock(c, w)
    PROVE  /\ LockOK' /\ work'[c] = w
           /\ \A d \in Coroutines \ {c} : work'[d] = work[d] /\ work[d].at \notin Holding
<1>1. holder = {} /\ holder' = {c} /\ Proceed(c, w)
  BY DEF Lock
<1>2. /\ work' = [d \in Coroutines |-> work'[d]] /\ work'[c] = w
      /\ \A d \in Coroutines \ {c} : work'[d] = work[d]
  BY <1>1, OneWorks
<1>3. \A d \in Coroutines : work[d].at \notin Holding
  BY <1>1 DEF LockOK
<1> QED
  BY <1>1, <1>2, <1>3 DEF LockOK

LEMMA ReleaseKeeps ==
    ASSUME LockOK, NEW c \in Coroutines, work[c].at \in Holding, Release(c)
    PROVE  LockOK' /\ \A d \in Coroutines : work'[d].at \notin Holding
<1>1. holder' = {} /\ Proceed(c, Idle) /\ holder = {c}
  BY DEF Release, LockOK
<1>2. /\ work' = [d \in Coroutines |-> work'[d]] /\ work'[c] = Idle
      /\ \A d \in Coroutines \ {c} : work'[d] = work[d]
  BY <1>1, OneWorks
<1>3. \A d \in Coroutines : work'[d].at \notin Holding
  <2>1. Idle.at \notin Holding
    BY DEF Idle, Holding
  <2>2. \A d \in Coroutines \ {c} : work[d].at \notin Holding
    BY <1>1 DEF LockOK
  <2> QED
    BY <1>2, <2>1, <2>2
<1> QED
  BY <1>1, <1>2, <1>3 DEF LockOK

(* A step that waits for no answer and touches no token.                   *)
LEMMA AsideKeeps ==
    ASSUME TokenInv, NEW c \in Coroutines, NEW w, Proceed(c, w),
           work[c].at \notin Holding, w.at \notin Holding,
           UNCHANGED <<stored, cached, holder, newest, crossed>>
    PROVE  TokenInv'
<1>1. /\ work' = [d \in Coroutines |-> work'[d]] /\ work'[c] = w
      /\ \A d \in Coroutines \ {c} : work'[d] = work[d]
  BY OneWorks DEF TokenInv
<1>2. \A d \in Coroutines : work'[d] = work[d] \/ (d = c /\ work'[d].at \notin Holding)
  BY <1>1
<1>3. LockOK'
  <2>1. c \notin holder
    BY DEF TokenInv, LockOK
  <2> QED
    BY <1>1, <1>2, <2>1 DEF TokenInv, LockOK
<1>4. ServesNewestLogin'
  <2>1. work[c].at # "validate" /\ w.at # "validate"
    BY DEF Holding
  <2>2. \A d \in Coroutines : work[d].at = "validate" => work'[d].at = "validate"
    BY <1>1, <2>1
  <2> QED
    BY <2>2 DEF TokenInv, ServesNewestLogin
<1>5. crossed' \/ PendingOK'
  BY <1>2 DEF TokenInv, PendingOK, AllOf, Holding
<1> QED
  BY <1>3, <1>4, <1>5 DEF TokenInv

(* An exchange reads the store when it has the lock.                       *)
LEMMA StartExchangeKeeps ==
    ASSUME TokenInv, NEW c \in Coroutines, StartExchange(c)
    PROVE  TokenInv'
<1> DEFINE w == [at |-> "exchange", login |-> stored]
<1>1. Lock(c, w) /\ UNCHANGED <<stored, cached, newest, crossed>>
  BY DEF StartExchange
<1>2. w.at \in Holding /\ w.at = "exchange" /\ w.login = stored
  BY DEF Holding
<1> HIDE DEF w
<1>3. /\ LockOK' /\ work'[c] = w
      /\ \A d \in Coroutines \ {c} : work'[d] = work[d] /\ work[d].at \notin Holding
  BY <1>1, <1>2, LockKeeps DEF TokenInv
<1>4. \A d \in Coroutines : work[d].at # "validate"
  BY <1>1 DEF Lock, TokenInv, LockOK, Holding
<1>5. crossed \/ stored = newest
  BY <1>4 DEF TokenInv, ServesNewestLogin
<1>6. crossed' \/ PendingOK'
  BY <1>1, <1>2, <1>3, <1>5 DEF PendingOK, Holding
<1>7. ServesNewestLogin'
  BY <1>1, <1>5 DEF TokenInv, ServesNewestLogin
<1> QED
  BY <1>3, <1>6, <1>7 DEF TokenInv

(* Nobody else waits for an answer when one has come.                      *)
LEMMA AnswerKeeps ==
    ASSUME TokenInv, NEW c \in Coroutines, work[c].at \in Holding, Release(c),
           crossed' \/ (AllOf(cached', newest') /\ stored' = newest')
    PROVE  TokenInv'
<1>1. LockOK' /\ \A d \in Coroutines : work'[d].at \notin Holding
  BY ReleaseKeeps DEF TokenInv
<1>2. ServesNewestLogin' /\ PendingOK'
  BY <1>1 DEF ServesNewestLogin, PendingOK, AllOf, Holding
<1> QED
  BY <1>1, <1>2 DEF TokenInv

LEMMA ExchangeKeeps ==
    ASSUME TokenInv, NEW c \in Coroutines, ExchangeOk(c) \/ ExchangeFails(c)
    PROVE  TokenInv'
<1>1. /\ work[c].at = "exchange" /\ Release(c) /\ UNCHANGED <<stored, newest, crossed>>
      /\ cached' = {ApiToken(work[c].login)} \/ cached' = cached
  BY DEF ExchangeOk, ExchangeFails
<1>2. work[c].at \in Holding
  BY <1>1 DEF Holding
<1>3. ASSUME ~crossed PROVE AllOf(cached', newest) /\ stored = newest
  <2>1. work[c].login = newest
    BY <1>1, <1>3 DEF TokenInv, PendingOK
  <2>2. \A d \in Coroutines : work[d].at # "validate"
    <3>1. holder = {c}
      BY <1>2 DEF TokenInv, LockOK
    <3> QED
      BY <1>1, <3>1 DEF TokenInv, LockOK, Holding
  <2>3. stored = newest /\ AllOf(cached, newest)
    BY <1>3, <2>2 DEF TokenInv, ServesNewestLogin, AllOf
  <2>4. AllOf({ApiToken(work[c].login)}, newest)
    BY <2>1 DEF AllOf, ApiToken
  <2> QED
    BY <1>1, <2>3, <2>4
<1> QED
  BY <1>1, <1>2, <1>3, AnswerKeeps

(* An installation keeps what it replaces aside.                          *)
LEMMA TryTokenKeeps ==
    ASSUME TokenInv, NEW c \in Coroutines, TryToken(c)
    PROVE  TokenInv'
<1> DEFINE w == Validating(work[c].login, stored, cached)
<1>1. /\ Lock(c, w) /\ stored' = work[c].login /\ cached' = {}
      /\ UNCHANGED <<newest, crossed>>
  BY DEF TryToken
<1>2. /\ w.at \in Holding /\ w.at = "validate" /\ w.login = work[c].login
      /\ w.was = stored /\ w.had = cached
  BY DEF Validating, Holding
<1> HIDE DEF w
<1>3. /\ LockOK' /\ work'[c] = w
      /\ \A d \in Coroutines \ {c} : work'[d] = work[d] /\ work[d].at \notin Holding
  BY <1>1, <1>2, LockKeeps DEF TokenInv
<1>4. \A d \in Coroutines : work[d].at # "validate"
  BY <1>1 DEF Lock, TokenInv, LockOK, Holding
<1>5. crossed \/ (stored = newest /\ AllOf(cached, newest))
  BY <1>4 DEF TokenInv, ServesNewestLogin, AllOf
<1>6. crossed' \/ PendingOK'
  BY <1>1, <1>2, <1>3, <1>5 DEF PendingOK, Holding, AllOf
<1>7. ServesNewestLogin'
  BY <1>1, <1>2, <1>3 DEF ServesNewestLogin
<1> QED
  BY <1>3, <1>6, <1>7 DEF TokenInv

(* One that works is the newest login, unless another crossed it.          *)
LEMMA TokenWorksKeeps ==
    ASSUME TokenInv, NEW c \in Coroutines, TokenWorks(c)
    PROVE  TokenInv'
<1>1. /\ work[c].at \in Holding /\ Release(c)
      /\ cached' = {ApiToken(work[c].login)} /\ newest' = work[c].login
      /\ crossed' = (stored # work[c].login) /\ stored' = stored
  BY DEF TokenWorks, Holding
<1>2. AllOf(cached', newest')
  BY <1>1 DEF AllOf, ApiToken
<1> QED
  BY <1>1, <1>2, AnswerKeeps

(* One that is refused puts back what was in effect before it.             *)
LEMMA TokenRefusedKeeps ==
    ASSUME TokenInv, NEW c \in Coroutines, TokenRefused(c)
    PROVE  TokenInv'
<1>1. /\ work[c].at = "validate" /\ work[c].at \in Holding /\ Release(c)
      /\ stored' = work[c].was /\ cached' = work[c].had
      /\ UNCHANGED <<newest, crossed>>
  BY DEF TokenRefused, Holding
<1>2. crossed \/ (work[c].was = newest /\ AllOf(work[c].had, newest))
  BY <1>1 DEF TokenInv, PendingOK
<1> QED
  BY <1>1, <1>2, AnswerKeeps

(* The hub's own login and logout, which do not look at the lock.          *)
LEMMA SignedInKeeps ==
    ASSUME TokenInv, NEW login, SignedIn(login), UNCHANGED <<holder, work>>
    PROVE  TokenInv'
<1>1. LockOK'
  BY DEF TokenInv, LockOK
<1>2. CASE crossed'
  BY <1>1, <1>2 DEF TokenInv, ServesNewestLogin
<1>3. CASE ~crossed'
  <2>1. holder = {} /\ cached' = {} /\ stored' = newest'
    BY <1>3 DEF SignedIn
  <2>2. \A d \in Coroutines : work'[d].at \notin Holding
    BY <2>1 DEF TokenInv, LockOK
  <2>3. ServesNewestLogin' /\ PendingOK'
    BY <2>1, <2>2 DEF ServesNewestLogin, PendingOK, Holding
  <2> QED
    BY <1>1, <2>3 DEF TokenInv
<1> QED
  BY <1>2, <1>3

(* An API token expires in the cache and in what is kept aside.            *)
LEMMA ApiTokenExpiresKeeps == TokenInv /\ ApiTokenExpires => TokenInv'
<1> SUFFICES ASSUME TokenInv, ApiTokenExpires PROVE TokenInv'
  OBVIOUS
<1> DEFINE Aged(w) ==
             IF w.at = "validate" THEN Validating(w.login, w.was, Expired(w.had)) ELSE w
<1>1. /\ cached' = Expired(cached) /\ work' = [c \in Coroutines |-> Aged(work[c])]
      /\ UNCHANGED <<stored, holder, newest, crossed>>
  BY DEF ApiTokenExpires
<1>2. ASSUME NEW c \in Coroutines
      PROVE  /\ work'[c].at = work[c].at
             /\ work[c].at # "validate" => work'[c] = work[c]
             /\ work[c].at = "validate" =>
                   /\ work'[c].login = work[c].login /\ work'[c].was = work[c].was
                   /\ work'[c].had = Expired(work[c].had)
  BY <1>1 DEF Validating
<1>3. ASSUME NEW tokens, NEW login, AllOf(tokens, login) PROVE AllOf(Expired(tokens), login)
  BY <1>3 DEF AllOf, Expired
<1>4. LockOK'
  <2>1. work' = [c \in Coroutines |-> work'[c]]
    BY <1>1
  <2> QED
    BY <1>1, <1>2, <2>1 DEF TokenInv, LockOK
<1>5. ServesNewestLogin'
  <2>1. \A c \in Coroutines : work'[c].at = work[c].at
    BY <1>2
  <2>2. AllOf(cached, newest) => AllOf(cached', newest')
    BY <1>1, <1>3
  <2> QED
    BY <1>1, <2>1, <2>2 DEF TokenInv, ServesNewestLogin, AllOf
<1>6. crossed' \/ PendingOK'
  <2> SUFFICES ASSUME ~crossed PROVE PendingOK'
    BY <1>1
  <2>1. PendingOK
    BY DEF TokenInv
  <2> SUFFICES ASSUME NEW c \in Coroutines
               PROVE  /\ work'[c].at = "exchange" => work'[c].login = newest'
                      /\ work'[c].at = "validate" =>
                            /\ stored' = work'[c].login /\ cached' = {}
                            /\ work'[c].was = newest' /\ AllOf(work'[c].had, newest')
    BY DEF PendingOK
  <2>2. CASE work[c].at = "validate"
    <3>1. stored = work[c].login /\ cached = {} /\ work[c].was = newest
          /\ AllOf(work[c].had, newest)
      BY <2>1, <2>2 DEF PendingOK
    <3>2. AllOf(Expired(work[c].had), newest)
      BY <1>3, <3>1
    <3>3. Expired({}) = {}
      BY DEF Expired
    <3> QED
      BY <1>1, <1>2, <2>2, <3>1, <3>2, <3>3
  <2>3. CASE work[c].at # "validate"
    BY <1>1, <1>2, <2>1, <2>3 DEF PendingOK
  <2> QED
    BY <2>2, <2>3
<1> QED
  BY <1>4, <1>5, <1>6 DEF TokenInv

(* A restarted hub is back on the token of its deployment.                 *)
LEMMA HubRestartsKeeps == HubRestarts => TokenInv'
BY DEF HubRestarts, Idle, TokenInv, LockOK, Holding, ServesNewestLogin, PendingOK, AllOf

(* Every step of the hub keeps the invariant of its tokens.                *)
LEMMA TokensNextKeeps == TokenInv /\ TokensNext => TokenInv'
<1> SUFFICES ASSUME TokenInv, TokensNext PROVE TokenInv'
  OBVIOUS
<1>1. ASSUME NEW c \in Coroutines, NeedToken(c) PROVE TokenInv'
  <2> DEFINE w == [at |-> "need token"]
  <2>1. Proceed(c, w) /\ UNCHANGED <<stored, cached, holder, newest, crossed>>
    BY <1>1 DEF NeedToken
  <2>2. work[c] = Idle
    BY <1>1 DEF NeedToken
  <2>3. work[c].at \notin Holding
    BY <2>2 DEF Idle, Holding
  <2>4. w.at \notin Holding
    BY DEF Holding
  <2> HIDE DEF w
  <2> QED
    BY <2>1, <2>3, <2>4, AsideKeeps
<1>2. ASSUME NEW c \in Coroutines, FindsToken(c) PROVE TokenInv'
  <2>1. work[c].at \notin Holding /\ Idle.at \notin Holding
    BY <1>2 DEF FindsToken, Idle, Holding
  <2>2. Proceed(c, Idle) /\ UNCHANGED <<stored, cached, holder, newest, crossed>>
    BY <1>2 DEF FindsToken
  <2> QED
    BY <2>1, <2>2, AsideKeeps
<1>3. ASSUME NEW c \in Coroutines, AskInstall(c) PROVE TokenInv'
  <2> DEFINE w == [at |-> "install", login |-> logins + 1]
  <2>1. Proceed(c, w) /\ UNCHANGED <<stored, cached, holder, newest, crossed>>
    BY <1>3 DEF AskInstall
  <2>2. work[c] = Idle
    BY <1>3 DEF AskInstall
  <2>3. work[c].at \notin Holding
    BY <2>2 DEF Idle, Holding
  <2>4. w.at \notin Holding
    BY DEF Holding
  <2> HIDE DEF w
  <2> QED
    BY <2>1, <2>3, <2>4, AsideKeeps
<1>4. ASSUME NEW c \in Coroutines, TokenStep(c) PROVE TokenInv'
  BY <1>1, <1>2, <1>3, <1>4, StartExchangeKeeps, ExchangeKeeps, TryTokenKeeps,
     TokenWorksKeeps, TokenRefusedKeeps DEF TokenStep
<1>5. CASE PortalLogin \/ PortalLogout
  BY <1>5, SignedInKeeps DEF PortalLogin, PortalLogout
<1>6. CASE ApiTokenExpires \/ HubRestarts
  BY <1>6, ApiTokenExpiresKeeps, HubRestartsKeeps
<1> QED
  BY <1>4, <1>5, <1>6 DEF TokensNext

(* The hub starts with the token of its deployment and an open lock.       *)
LEMMA InitTokens == Init => TokenInv
BY DEF Init, TokensInit, Idle, TokenInv, LockOK, Holding, ServesNewestLogin, PendingOK, AllOf

(* The invariant of a hub's tokens is inductive.                           *)
LEMMA StepTokens == TokenInv /\ [Next]_vars => TokenInv'
<1> SUFFICES ASSUME TokenInv, [Next]_vars PROVE TokenInv'
  OBVIOUS
<1>1. CASE TokensNext
  BY <1>1, TokensNextKeeps
<1>2. CASE UNCHANGED tokenVars
  BY <1>2 DEF tokenVars, TokenInv, LockOK, ServesNewestLogin, PendingOK, AllOf
<1> QED
  BY <1>1, <1>2 DEF Next, vars

(* A hub runs on the login that last was reported a success, in its store  *)
(* and in the API token it serves with, however exchanges, installations   *)
(* and refusals interleave, unless its own login or logout came in between *)
(* (get_api_token, install_oauth_token).                                   *)
THEOREM HubServesNewestLogin == Spec => []ServesNewestLogin
<1>1. TokenInv => ServesNewestLogin
  BY DEF TokenInv
<1> QED
  BY <1>1, InitTokens, StepTokens, PTL DEF Spec

-----------------------------------------------------------------------------
(* Steps of handlers that end, or go on at some of these steps.            *)
Handles(steps) ==
    \/ UNCHANGED handlerVars
    \/ /\ starts' = starts \/ (starts < MaxStarts /\ starts' = starts + 1)
       /\ \E r \in Requests : \E h : /\ "at" \in DOMAIN h /\ h.at \in steps \cup {"free"}
                                     /\ req' = [req EXCEPT ![r] = h]

(* A handler that enters or goes on at one of the steps moves among them.  *)
LEMMA GoesTo ==
    ASSUME NEW steps, NEW r \in Requests, NEW h, "at" \in DOMAIN h, h.at \in steps,
           Enter(r, h) \/ Become(r, h)
    PROVE  Handles(steps)
BY DEF Enter, Become, Handles

(* So does one that ends.                                                  *)
LEMMA EndsHere ==
    ASSUME NEW steps, NEW r \in Requests, End(r)
    PROVE  Handles(steps)
<1>1. "at" \in DOMAIN Free /\ Free.at = "free"
  BY DEF Free
<1> QED
  BY <1>1 DEF End, Become, Handles

(* The handlers of users are at steps of users.                            *)
LEMMA UsersHandle ==
    ASSUME HandlersOK, UsersNext
    PROVE  Handles(UserSteps)
<1>1. ASSUME NEW r \in Requests, UserRequest(r) \/ SeedAdmin(r) PROVE Handles(UserSteps)
  <2>1. ASSUME NEW h, "at" \in DOMAIN h, h.at \in UserSteps, Enter(r, h)
        PROVE  Handles(UserSteps)
    BY <2>1, GoesTo
  <2>2. CASE SeedAdmin(r)
    BY <2>1, <2>2 DEF SeedAdmin, UserSteps
  <2>3. ASSUME NEW by, NEW name, NEW role, NEW t, CreateUser(r, by, name, role, t)
        PROVE  Handles(UserSteps)
    BY <2>1, <2>3 DEF CreateUser, UserSteps
  <2>4. ASSUME NEW by, NEW u, NEW role, NEW t, NEW disabled, UpdateUser(r, by, u, role, t, disabled)
        PROVE  Handles(UserSteps)
    <3> DEFINE row == Updated(u, Asked(u.role, role), Asked(u.tenant, t), disabled)
    <3>1. Enter(r, [at |-> "update user", by |-> by, was |-> u, is |-> row])
      BY <2>4 DEF UpdateUser
    <3> HIDE DEF row
    <3> QED
      BY <2>1, <3>1 DEF UserSteps
  <2>5. ASSUME NEW by, NEW u, DeleteUser(r, by, u) PROVE Handles(UserSteps)
    <3> DEFINE at == IF u.role = "admin" THEN "count admins" ELSE "delete user"
    <3>1. at \in UserSteps /\ Enter(r, [at |-> at, by |-> by, is |-> u])
      BY <2>5 DEF DeleteUser, UserSteps
    <3> HIDE DEF at
    <3> QED
      BY <2>1, <3>1
  <2> QED
    BY <1>1, <2>2, <2>3, <2>4, <2>5 DEF UserRequest
<1>2. ASSUME NEW r \in Requests, InsertUser(r) \/ WriteUser(r) \/ DropUser(r)
      PROVE  Handles(UserSteps)
  BY <1>2, EndsHere DEF InsertUser, WriteUser, DropUser
<1>3. ASSUME NEW r \in Requests, CountAdmins(r) PROVE Handles(UserSteps)
  <2>1. CASE End(r)
    BY <2>1, EndsHere
  <2>2. CASE Become(r, [req[r] EXCEPT !.at = "delete user"])
    <3> DEFINE h == [req[r] EXCEPT !.at = "delete user"]
    <3>1. "at" \in DOMAIN h /\ h.at \in UserSteps
      BY DEF HandlersOK, UserSteps
    <3>2. Become(r, h)
      BY <2>2
    <3> HIDE DEF h
    <3> QED
      BY <3>1, <3>2, GoesTo
  <2> QED
    BY <1>3, <2>1, <2>2 DEF CountAdmins
<1>4. CASE \E name \in Usernames : Login(name) \/ TokenExpires(name)
  BY <1>4 DEF Login, TokenExpires, Handles
<1>5. CASE \E t \in UserTenants : TenantLeaves(t)
  BY <1>5 DEF TenantLeaves, Handles
<1> QED
  BY <1>1, <1>2, <1>3, <1>4, <1>5 DEF UsersNext, UsersStep

(* The poller and the re-logins are at steps of hubs.                      *)
HubSteps == {"ask hubs", "keep code"} \cup Carrying

(* So says each of their steps.                                            *)
LEMMA HealthHandle ==
    ASSUME HandlersOK, HealthNext
    PROVE  Handles(HubSteps)
<1>1. CASE \E a \in Accounts : AccountLeaves(a)
  BY <1>1 DEF AccountLeaves, Handles
<1>2. ASSUME NEW r \in Requests, PollerStep(r) PROVE Handles(HubSteps)
  <2>1. CASE CommitPass(r)
    BY <2>1, EndsHere DEF CommitPass
  <2>2. CASE PollOnce(r)
    <3>1. \E h : "at" \in DOMAIN h /\ h.at \in HubSteps /\ Enter(r, h)
      BY <2>2 DEF PollOnce, HubSteps
    <3> QED
      BY <3>1, GoesTo
  <2>3. ASSUME NEW a \in Accounts, Unreachable(r, a) PROVE Handles(HubSteps)
    <3> DEFINE h == [req[r] EXCEPT !.left = @ \ {a}]
    <3>1. "at" \in DOMAIN req[r] /\ req[r].at = "ask hubs"
      BY <2>3 DEF HandlersOK, Unreachable
    <3>2. Become(r, h)
      BY <2>3 DEF Unreachable
    <3>3. "at" \in DOMAIN h /\ h.at \in HubSteps
      BY <3>1 DEF HubSteps
    <3> HIDE DEF h
    <3> QED
      BY <3>2, <3>3, GoesTo
  <2>4. ASSUME NEW a \in Accounts, NEW loggedIn \in BOOLEAN, FetchStatus(r, a, loggedIn)
        PROVE  Handles(HubSteps)
    <3> DEFINE now == Cardinality(answers) + 1
               h == [req[r] EXCEPT !.left = @ \ {a}, !.is[a].loggedIn = loggedIn,
                                   !.is[a].polled = now]
    <3>1. "at" \in DOMAIN req[r] /\ req[r].at = "ask hubs"
      BY <2>4 DEF HandlersOK, FetchStatus
    <3>2. Become(r, h)
      BY <2>4 DEF FetchStatus
    <3>3. "at" \in DOMAIN h /\ h.at \in HubSteps
      BY <3>1 DEF HubSteps
    <3> HIDE DEF h
    <3> QED
      BY <3>2, <3>3, GoesTo
  <2> QED
    BY <1>2, <2>1, <2>2, <2>3, <2>4 DEF PollerStep
<1>3. ASSUME NEW r \in Requests, ReloginStep(r) PROVE Handles(HubSteps)
  <2>1. CASE KeepCode(r) \/ FlowNotStarted(r) \/ PollEnds(r) \/ StoreTokenFails(r) \/ ClearCode(r)
    BY <2>1, EndsHere DEF KeepCode, FlowNotStarted, PollEnds, StoreTokenFails, ClearCode, SaveCode
  <2>2. CASE \E a \in Accounts : ReloginStart(r, a) \/ ReloginPoll(r, a)
    <3>1. \E h : "at" \in DOMAIN h /\ h.at \in HubSteps /\ Enter(r, h)
      BY <2>2 DEF ReloginStart, ReloginPoll, HubSteps, Carrying
    <3> QED
      BY <3>1, GoesTo
  <2>3. CASE Redeem(r) \/ ReloginFails(r) \/ InstallToken(r) \/ StoreToken(r)
    <3>1. "at" \in DOMAIN req[r]
      BY DEF HandlersOK
    <3>2. PICK at \in {"install", "clear code", "store token"} :
                   Become(r, [req[r] EXCEPT !.at = at])
      BY <2>3 DEF Redeem, AuthorizedTo, ReloginFails, InstallToken, StoreToken
    <3>3. /\ "at" \in DOMAIN [req[r] EXCEPT !.at = at]
          /\ [req[r] EXCEPT !.at = at].at \in HubSteps
      BY <3>1 DEF HubSteps, Carrying
    <3> QED
      BY <3>2, <3>3, GoesTo
  <2> QED
    BY <1>3, <2>1, <2>2, <2>3 DEF ReloginStep
<1> QED
  BY <1>1, <1>2, <1>3 DEF HealthNext

-----------------------------------------------------------------------------
(* The model routes.                                                       *)
RouteRows == [id : Nat \X Models, name : Models, scope : {"platform", "tenant"},
              tied : BOOLEAN, vendor : BOOLEAN]

RouteSteps == {"wire pools", "store catalog", "wire provider", "rename route"}
Numbered == {"wire pools", "store catalog", "wire provider"}

(* The number in the ids of the rows that a handler is to insert.          *)
NumberOf(h) == IF h.at = "wire provider" THEN h.is.id[1] ELSE h.no

OneRowPerId(rows) == \A x, y \in rows : x.id = y.id => x = y
OneRowPerName(rows) == \A x, y \in Pooled(rows) : x.name = y.name => x = y
Alike(x, y) == x.id = y.id /\ x.scope = y.scope /\ x.tied = y.tied

RouteLoadOK(h, n) ==
    /\ h.at \in {"wire pools", "store catalog"} =>
          h.no \in Nat /\ h.no <= n /\ h.offer \in SUBSET Models
    /\ h.at = "store catalog" => h.saw \in SUBSET RouteRows /\ OneRowPerId(h.saw)
    /\ h.at = "wire provider" => h.is \in RouteRows /\ h.is.id[1] <= n
    /\ h.at = "rename route" =>
          /\ h.was \in RouteRows /\ h.is \in RouteRows
          /\ h.is = [h.was EXCEPT !.name = h.is.name]
          /\ h.is.id[1] <= n

RouteLoadsOK == \A q \in Requests : RouteLoadOK(req[q], starts)

RoutesOK ==
    /\ routes \in SUBSET RouteRows
    /\ \A x \in routes : x.id[1] <= starts
    /\ OneRowPerId(routes) /\ OneRowPerName(routes)

(* A number not yet used for rows is in no id, and nobody else's.          *)
NumbersOK == \A q \in Requests : req[q].at \in Numbered =>
    /\ \A x \in routes : x.id[1] # NumberOf(req[q])
    /\ \A p \in Requests \ {q} :
          /\ req[p].at \in Numbered => NumberOf(req[p]) # NumberOf(req[q])
          /\ req[p].at = "rename route" => req[p].is.id[1] # NumberOf(req[q])

(* A route that is being renamed keeps its place in or out of the index.   *)
RenamedOK == \A q \in Requests : req[q].at = "rename route" =>
    \A x \in routes : x.id = req[q].is.id => Alike(x, req[q].is)

(* A pooled name that a registration has read is still that of the row it  *)
(* read, or has been removed since.                                        *)
TrackedOK == \A q \in Requests : req[q].at = "store catalog" =>
    \A y \in Pooled(req[q].saw) :
        y.name \in missed[q] \/ \E x \in Pooled(routes) : x.id = y.id /\ x.name = y.name

CatalogInv ==
    /\ RouteLoadsOK /\ RoutesOK /\ NumbersOK /\ RenamedOK /\ TrackedOK
    /\ missed = [q \in Requests |-> missed[q]]
    /\ RegistrationComplete

-----------------------------------------------------------------------------
(* Numbers in use are below the next one.                                  *)
LEMMA NumberBound ==
    ASSUME CatalogInv, NEW q \in Requests, req[q].at \in Numbered
    PROVE  NumberOf(req[q]) \in Nat /\ NumberOf(req[q]) <= starts
BY DEF CatalogInv, RouteLoadsOK, RouteLoadOK, Numbered, NumberOf, RouteRows

(* A new name is all that a PATCH brings.                                  *)
LEMMA OnlyRenamed ==
    ASSUME NEW was \in RouteRows, NEW is, is = [was EXCEPT !.name = is.name]
    PROVE  Alike(was, is)
<1>1. /\ DOMAIN was = {"id", "name", "scope", "tied", "vendor"}
      /\ is.id = was.id /\ is.scope = was.scope /\ is.tied = was.tied
  BY DEF RouteRows
<1> QED
  BY <1>1 DEF Alike

(* What a handler has read are rows as they stand.                         *)
Loaded(h) == /\ h.at = "rename route" => h.was \in routes
             /\ h.at = "store catalog" => h.saw = routes

(* A handler takes up a load, or has none, and no row changes.             *)
LEMMA LoadKeeps ==
    ASSUME CatalogInv, HandlersOK, NEW r \in Requests,
           UNCHANGED <<routes, vouched>>,
           starts' \in {starts, starts + 1},
           \A q \in Requests \ {r} : req'[q] = req[q] /\ missed'[q] = missed[q],
           missed' = [q \in Requests |-> missed'[q]],
           RouteLoadOK(req'[r], starts'),
           req'[r].at \in Numbered =>
               \/ NumberOf(req'[r]) = starts + 1
               \/ req[r].at \in Numbered /\ NumberOf(req'[r]) = NumberOf(req[r]),
           Loaded(req'[r])
    PROVE  CatalogInv'
<1>1. starts \in Nat /\ starts' \in Nat /\ starts <= starts'
  <2>1. starts \in Nat
    BY DEF HandlersOK
  <2>2. starts' = starts \/ starts' = starts + 1
    OBVIOUS
  <2>3. starts' \in Nat
    BY <2>1, <2>2
  <2>4. starts <= starts'
    BY <2>1, <2>2
  <2> QED
    BY <2>1, <2>3, <2>4
<1>2. \A q \in Requests \ {r} : RouteLoadOK(req'[q], starts')
  <2> SUFFICES ASSUME NEW q \in Requests \ {r}
               PROVE  RouteLoadOK(req'[q], starts')
    OBVIOUS
  <2>1. req'[q] = req[q] /\ RouteLoadOK(req[q], starts)
    BY DEF CatalogInv, RouteLoadsOK
  <2>2. \A n \in Nat : n <= starts => n <= starts'
    BY <1>1
  <2> QED
    BY <2>1, <2>2 DEF RouteLoadOK, RouteRows
<1>3. RouteLoadsOK'
  BY <1>2 DEF RouteLoadsOK
<1>4. RoutesOK'
  <2>1. \A x \in routes : x.id[1] \in Nat /\ x.id[1] <= starts
    BY DEF CatalogInv, RoutesOK, RouteRows
  <2>2. \A x \in routes : x.id[1] <= starts'
    BY <1>1, <2>1
  <2> QED
    BY <2>2 DEF CatalogInv, RoutesOK, OneRowPerId, OneRowPerName, Pooled
<1>5. \A q \in Requests : req[q].at \in Numbered =>
          NumberOf(req[q]) \in Nat /\ NumberOf(req[q]) # starts + 1
  BY <1>1, NumberBound
<1>6. /\ \A x \in routes : x.id[1] # starts + 1
      /\ \A p \in Requests : req[p].at = "rename route" => req[p].is.id[1] # starts + 1
  <2>1. \A x \in routes : x.id[1] \in Nat /\ x.id[1] <= starts
    BY DEF CatalogInv, RoutesOK, RouteRows
  <2>2. \A p \in Requests : req[p].at = "rename route" =>
            req[p].is.id[1] \in Nat /\ req[p].is.id[1] <= starts
    BY DEF CatalogInv, RouteLoadsOK, RouteLoadOK, RouteRows
  <2>3. \A n \in Nat : n <= starts => n # starts + 1
    BY <1>1
  <2>4. \A x \in routes : x.id[1] # starts + 1
    BY <2>1, <2>3
  <2>5. \A p \in Requests : req[p].at = "rename route" => req[p].is.id[1] # starts + 1
    BY <2>2, <2>3
  <2> QED
    BY <2>4, <2>5
<1>7. NumbersOK
  BY DEF CatalogInv
<1>8. ASSUME NEW q \in Requests, req'[q].at \in Numbered
      PROVE  /\ \A x \in routes : x.id[1] # NumberOf(req'[q])
             /\ \A p \in Requests \ {q} :
                   /\ req'[p].at \in Numbered => NumberOf(req'[p]) # NumberOf(req'[q])
                   /\ req'[p].at = "rename route" => req'[p].is.id[1] # NumberOf(req'[q])
  <2>1. \/ NumberOf(req'[q]) = starts + 1
        \/ req[q].at \in Numbered /\ NumberOf(req'[q]) = NumberOf(req[q])
    BY <1>8
  <2>2. \A x \in routes : x.id[1] # NumberOf(req'[q])
    BY <1>6, <1>7, <2>1 DEF NumbersOK
  <2>3. ASSUME NEW p \in Requests \ {q}, req'[p].at \in Numbered
        PROVE  NumberOf(req'[p]) # NumberOf(req'[q])
    <3>1. \/ NumberOf(req'[p]) = starts + 1
          \/ req[p].at \in Numbered /\ NumberOf(req'[p]) = NumberOf(req[p])
      BY <2>3
    <3>2. q = r \/ p = r \/ (req'[q] = req[q] /\ req'[p] = req[p])
      OBVIOUS
    <3>3. CASE q = r
      <4>1. req'[p] = req[p]
        BY <3>3
      <4> QED
        BY <1>5, <1>7, <2>1, <2>3, <4>1 DEF NumbersOK
    <3>4. CASE p = r
      <4>1. req'[q] = req[q]
        BY <3>4
      <4> QED
        BY <1>5, <1>7, <1>8, <3>1, <4>1 DEF NumbersOK
    <3>5. CASE req'[q] = req[q] /\ req'[p] = req[p]
      BY <1>7, <1>8, <2>3, <3>5 DEF NumbersOK
    <3> QED
      BY <3>2, <3>3, <3>4, <3>5
  <2>4. ASSUME NEW p \in Requests \ {q}, req'[p].at = "rename route"
        PROVE  req'[p].is.id[1] # NumberOf(req'[q])
    <3>1. CASE p = r
      <4>1. req'[r].was \in routes /\ req'[r].is.id = req'[r].was.id
        BY <2>4, <3>1, OnlyRenamed DEF Loaded, RouteLoadOK, Alike
      <4> QED
        BY <2>2, <3>1, <4>1
    <3>2. CASE p # r
      <4>1. req'[p] = req[p]
        BY <3>2
      <4> QED
        BY <1>6, <1>7, <2>1, <2>4, <4>1 DEF NumbersOK
    <3> QED
      BY <3>1, <3>2
  <2> QED
    BY <2>2, <2>3, <2>4
<1>9. NumbersOK'
  BY <1>8 DEF NumbersOK
<1>10. RenamedOK'
  <2> SUFFICES ASSUME NEW q \in Requests, req'[q].at = "rename route",
                      NEW x \in routes, x.id = req'[q].is.id
               PROVE  Alike(x, req'[q].is)
    BY DEF RenamedOK, Alike
  <2>1. CASE q = r
    <3>1. req'[r].was \in routes /\ Alike(req'[r].was, req'[r].is)
      BY <2>1, OnlyRenamed DEF Loaded, RouteLoadOK
    <3>2. x = req'[r].was
      BY <2>1, <3>1 DEF CatalogInv, RoutesOK, OneRowPerId, Alike
    <3> QED
      BY <2>1, <3>1, <3>2
  <2>2. CASE q # r
    BY <2>2 DEF CatalogInv, RenamedOK
  <2> QED
    BY <2>1, <2>2
<1>11. TrackedOK'
  <2> SUFFICES ASSUME NEW q \in Requests, req'[q].at = "store catalog",
                      NEW y \in Pooled(req'[q].saw)
               PROVE  y.name \in missed'[q]
                      \/ \E x \in Pooled(routes) : x.id = y.id /\ x.name = y.name
    BY DEF TrackedOK, Pooled
  <2>1. CASE q = r
    BY <2>1 DEF Loaded
  <2>2. CASE q # r
    BY <2>2 DEF CatalogInv, TrackedOK
  <2> QED
    BY <2>1, <2>2
<1>12. RegistrationComplete'
  BY DEF CatalogInv, RegistrationComplete, PooledNames, Pooled
<1> QED
  BY <1>3, <1>4, <1>9, <1>10, <1>11, <1>12 DEF CatalogInv

(* Steps that leave the routes alone keep the invariant.                   *)
LEMMA MoveKeeps ==
    ASSUME CatalogInv, HandlersOK, UNCHANGED catalogVars,
           NEW r \in Requests, NEW h, "at" \in DOMAIN h,
           req' = [req EXCEPT ![r] = h], starts' \in {starts, starts + 1},
           RouteLoadOK(h, starts'), Loaded(h),
           h.at \in Numbered =>
               \/ NumberOf(h) = starts + 1
               \/ req[r].at \in Numbered /\ NumberOf(h) = NumberOf(req[r])
    PROVE  CatalogInv'
<1>1. req'[r] = h /\ \A q \in Requests \ {r} : req'[q] = req[q]
  BY OneMoves
<1>2. RouteLoadOK(req'[r], starts')
  BY <1>1 DEF RouteLoadOK
<1>3. /\ UNCHANGED <<routes, vouched>>
      /\ missed' = [q \in Requests |-> missed'[q]]
      /\ \A q \in Requests \ {r} : missed'[q] = missed[q]
  BY DEF catalogVars, CatalogInv
<1>4. Loaded(req'[r])
  BY <1>1
<1>5. \A q \in Requests \ {r} : req'[q] = req[q] /\ missed'[q] = missed[q]
  BY <1>1, <1>3
<1>6. req'[r].at \in Numbered =>
         \/ NumberOf(req'[r]) = starts + 1
         \/ req[r].at \in Numbered /\ NumberOf(req'[r]) = NumberOf(req[r])
  BY <1>1
<1> QED
  BY <1>2, <1>3, <1>4, <1>5, <1>6, LoadKeeps

(* In particular every step of a handler that is not about routes.         *)
LEMMA ElseKeeps ==
    ASSUME CatalogInv, HandlersOK, UNCHANGED catalogVars,
           NEW steps, Handles(steps), steps \cap RouteSteps = {}
    PROVE  CatalogInv'
<1>1. CASE UNCHANGED handlerVars
  <2>1. req' = req /\ starts' = starts /\ UNCHANGED <<routes, vouched, missed>>
    BY <1>1 DEF handlerVars, catalogVars
  <2>2. RouteLoadsOK' /\ NumbersOK' /\ RenamedOK'
    BY <2>1 DEF CatalogInv, RouteLoadsOK, RouteLoadOK, NumbersOK, RenamedOK
  <2>3. RoutesOK' /\ RegistrationComplete'
    BY <2>1 DEF CatalogInv, RoutesOK, RegistrationComplete, Pooled, PooledNames, OneRowPerId,
                OneRowPerName
  <2>4. TrackedOK'
    BY <2>1 DEF CatalogInv, TrackedOK, Pooled
  <2>5. missed' = [q \in Requests |-> missed'[q]]
    BY <2>1 DEF CatalogInv
  <2> QED
    BY <2>2, <2>3, <2>4, <2>5 DEF CatalogInv
<1>2. CASE ~UNCHANGED handlerVars
  <2>a. PICK r \in Requests :
            \E h : /\ "at" \in DOMAIN h /\ h.at \in steps \cup {"free"}
                  /\ req' = [req EXCEPT ![r] = h]
    BY <1>2 DEF Handles
  <2>1. PICK h : /\ "at" \in DOMAIN h /\ h.at \in steps \cup {"free"}
                 /\ req' = [req EXCEPT ![r] = h]
    BY <2>a
  <2>2. h.at \notin RouteSteps /\ starts' \in {starts, starts + 1}
    BY <1>2, <2>1 DEF Handles, RouteSteps
  <2>3. RouteLoadOK(h, starts') /\ Loaded(h) /\ h.at \notin Numbered
    BY <2>2 DEF RouteLoadOK, Loaded, Numbered, RouteSteps
  <2> QED
    BY <2>1, <2>2, <2>3, MoveKeeps
<1> QED
  BY <1>1, <1>2

(* A registration starts (_register_hub_catalog).                          *)
LEMMA RegisterHubKeeps ==
    ASSUME CatalogInv, HandlersOK, NEW r \in Requests, NEW offer \in SUBSET Models,
           NEW prune \in BOOLEAN, RegisterHub(r, offer, prune)
    PROVE  CatalogInv'
<1> DEFINE h == [at |-> "wire pools", no |-> starts + 1, offer |-> offer, prune |-> prune]
<1>1. /\ "at" \in DOMAIN h /\ h.at = "wire pools" /\ h.no = starts + 1
      /\ h.offer \in SUBSET Models
  OBVIOUS
<1>2. req' = [req EXCEPT ![r] = h] /\ starts' = starts + 1 /\ UNCHANGED catalogVars
  BY DEF RegisterHub, Enter
<1> HIDE DEF h
<1>3. starts' \in Nat /\ h.no <= starts'
  <2>1. starts + 1 \in Nat /\ starts + 1 <= starts + 1
    BY NextIsFresh DEF HandlersOK
  <2> QED
    BY <1>1, <1>2, <2>1
<1>4. RouteLoadOK(h, starts') /\ Loaded(h) /\ NumberOf(h) = starts + 1
  BY <1>1, <1>2, <1>3 DEF RouteLoadOK, Loaded, NumberOf
<1> QED
  BY <1>1, <1>2, <1>4, MoveKeeps

(* A route is to be created (create_route).                                *)
LEMMA AddRouteKeeps ==
    ASSUME CatalogInv, HandlersOK, NEW r \in Requests, NEW name \in Models,
           NEW scope \in {"platform", "tenant"}, NEW tied \in BOOLEAN,
           AddRoute(r, name, scope, tied)
    PROVE  CatalogInv'
<1> DEFINE x == RouteRow(<<starts + 1, name>>, name, scope, tied, TRUE)
           h == [at |-> "wire provider", is |-> x]
<1>1. x \in RouteRows /\ x.id[1] = starts + 1
  BY DEF HandlersOK, RouteRow, RouteRows
<1>2. "at" \in DOMAIN h /\ h.at = "wire provider" /\ h.is = x
  OBVIOUS
<1>3. req' = [req EXCEPT ![r] = h] /\ starts' = starts + 1 /\ UNCHANGED catalogVars
  BY DEF AddRoute, Enter
<1> HIDE DEF h, x
<1>4. starts' \in Nat /\ starts + 1 <= starts'
  BY <1>3 DEF HandlersOK
<1>5. RouteLoadOK(h, starts') /\ Loaded(h) /\ NumberOf(h) = starts + 1
  BY <1>1, <1>2, <1>3, <1>4 DEF RouteLoadOK, Loaded, NumberOf
<1> QED
  BY <1>2, <1>3, <1>5, MoveKeeps

(* A route is loaded to be renamed (update_route).                         *)
LEMMA RenameRouteKeeps ==
    ASSUME CatalogInv, HandlersOK, NEW r \in Requests, NEW x \in routes, NEW name \in Models,
           RenameRoute(r, x, name)
    PROVE  CatalogInv'
<1> DEFINE is == [x EXCEPT !.name = name]
           h == [at |-> "rename route", was |-> x, is |-> is]
<1>1. x \in RouteRows /\ x.id[1] \in Nat /\ x.id[1] <= starts
  BY DEF CatalogInv, RoutesOK, RouteRows
<1>2. is \in RouteRows /\ is = [x EXCEPT !.name = is.name] /\ is.id = x.id
  BY <1>1 DEF RouteRows
<1>3. /\ "at" \in DOMAIN h /\ h.at = "rename route" /\ h.is = is /\ h.was = x
  OBVIOUS
<1>4. req' = [req EXCEPT ![r] = h] /\ starts' = starts + 1 /\ UNCHANGED catalogVars
  BY DEF RenameRoute, Enter
<1> HIDE DEF h, is
<1>5. x.id[1] <= starts'
  BY <1>1, <1>4 DEF HandlersOK
<1>6. RouteLoadOK(h, starts') /\ Loaded(h) /\ h.at \notin Numbered
  BY <1>1, <1>2, <1>3, <1>5 DEF RouteLoadOK, Loaded, Numbered
<1> QED
  BY <1>3, <1>4, <1>6, MoveKeeps

(* A registration reads the routes: from here on it tracks removals.       *)
LEMMA ReadRoutesKeeps ==
    ASSUME CatalogInv, HandlersOK, NEW r \in Requests, ReadRoutes(r)
    PROVE  CatalogInv'
<1> DEFINE h == [at |-> "store catalog", no |-> req[r].no, offer |-> req[r].offer,
                 prune |-> req[r].prune, saw |-> routes]
<1>1. /\ "at" \in DOMAIN h /\ h.at = "store catalog" /\ h.no = req[r].no
      /\ h.offer = req[r].offer /\ h.saw = routes
  OBVIOUS
<1>2. /\ req' = [req EXCEPT ![r] = h] /\ starts' = starts /\ UNCHANGED <<routes, vouched>>
      /\ req[r].at = "wire pools" /\ missed' = [missed EXCEPT ![r] = {}]
  BY DEF ReadRoutes, Become
<1> HIDE DEF h
<1>3. req'[r] = h /\ \A q \in Requests \ {r} : req'[q] = req[q]
  BY <1>1, <1>2, OneMoves
<1>4. RouteLoadOK(req[r], starts) /\ routes \in SUBSET RouteRows /\ OneRowPerId(routes)
  BY DEF CatalogInv, RouteLoadsOK, RoutesOK
<1>5. RouteLoadOK(h, starts')
  BY <1>1, <1>2, <1>4 DEF RouteLoadOK, OneRowPerId
<1>6. RouteLoadOK(req'[r], starts')
  BY <1>3, <1>5 DEF RouteLoadOK
<1>7. missed = [q \in Requests |-> missed[q]]
  BY DEF CatalogInv
<1>8. /\ missed' = [q \in Requests |-> missed'[q]]
      /\ \A q \in Requests \ {r} : missed'[q] = missed[q]
  BY <1>2, <1>7
<1>9. req[r].at \in Numbered /\ NumberOf(h) = NumberOf(req[r]) /\ Loaded(h)
  BY <1>1, <1>2 DEF Numbered, NumberOf, Loaded
<1>10. Loaded(req'[r])
  BY <1>3, <1>9
<1>11. \A q \in Requests \ {r} : req'[q] = req[q] /\ missed'[q] = missed[q]
  BY <1>3, <1>8
<1>12. req'[r].at \in Numbered =>
          \/ NumberOf(req'[r]) = starts + 1
          \/ req[r].at \in Numbered /\ NumberOf(req'[r]) = NumberOf(req[r])
  BY <1>3, <1>9
<1>13. UNCHANGED <<routes, vouched>> /\ starts' \in {starts, starts + 1}
  BY <1>2
<1> QED
  BY <1>6, <1>8, <1>10, <1>11, <1>12, <1>13, LoadKeeps

(* Rows after a commit by the handlers done (one, or none at all): rows    *)
(* that were there, renamed or filled in at most, and rows with the number *)
(* of such a handler.                                                      *)
Comes(z, done) ==
    \/ \E x \in routes : Alike(x, z)
    \/ \E q \in done : req[q].at \in Numbered /\ z.id[1] = NumberOf(req[q])

(* A pooled name that stays is still that of the same row.                 *)
SameRows(new) == \A x \in Pooled(routes), z \in Pooled(new) : x.name = z.name => x.id = z.id

(* A commit of rows that come so keeps the invariant.                      *)
LEMMA CommitKeepsRoutes ==
    ASSUME CatalogInv, HandlersOK, NEW done \in SUBSET Requests,
           NEW new \in SUBSET RouteRows, NEW models, Replace(new, models),
           starts' = starts, \A q \in done : req'[q].at = "free",
           \A q \in Requests \ done : req'[q] = req[q],
           models \subseteq PooledNames(new), OneRowPerId(new), OneRowPerName(new),
           \A z \in new : Comes(z, done), SameRows(new)
    PROVE  CatalogInv'
<1> DEFINE removed == PooledNames(routes) \ PooledNames(new)
<1>1. /\ routes' = new
      /\ vouched' = (vouched \ removed) \cup models
      /\ missed' = [q \in Requests |-> missed[q] \cup removed]
  BY DEF Replace
<1>2. removed = PooledNames(routes) \ PooledNames(new)
  OBVIOUS
<1> HIDE DEF removed
<1>3. \A q \in Requests : req'[q].at # "free" => q \notin done /\ req'[q] = req[q]
  OBVIOUS
<1>4. RouteLoadsOK'
  <2> SUFFICES ASSUME NEW q \in Requests PROVE RouteLoadOK(req'[q], starts)
    BY DEF RouteLoadsOK
  <2>1. CASE req'[q].at = "free"
    BY <2>1 DEF RouteLoadOK
  <2>2. CASE req'[q] = req[q]
    BY <2>2 DEF CatalogInv, RouteLoadsOK
  <2> QED
    BY <1>3, <2>1, <2>2
<1>5. RoutesOK'
  <2> SUFFICES ASSUME NEW z \in new PROVE z.id[1] <= starts
    BY <1>1 DEF RoutesOK, OneRowPerId, OneRowPerName, Pooled
  <2>1. CASE \E x \in routes : Alike(x, z)
    BY <2>1 DEF Alike, CatalogInv, RoutesOK
  <2>2. CASE \E q \in done : req[q].at \in Numbered /\ z.id[1] = NumberOf(req[q])
    BY <2>2, NumberBound
  <2> QED
    BY <2>1, <2>2 DEF Comes
<1>6. ASSUME NEW q \in Requests, req'[q].at \in Numbered, NEW z \in new
      PROVE  z.id[1] # NumberOf(req[q])
  <2>1. q \notin done /\ req'[q] = req[q]
    BY <1>3, <1>6 DEF Numbered
  <2>2. CASE \E x \in routes : Alike(x, z)
    <3>1. \A x \in routes : x.id[1] # NumberOf(req[q])
      BY <1>6, <2>1 DEF CatalogInv, NumbersOK
    <3> QED
      BY <2>2, <3>1 DEF Alike
  <2>3. CASE \E p \in done : req[p].at \in Numbered /\ z.id[1] = NumberOf(req[p])
    BY <1>6, <2>1, <2>3 DEF CatalogInv, NumbersOK
  <2> QED
    BY <2>2, <2>3 DEF Comes
<1>7. NumbersOK'
  <2> SUFFICES ASSUME NEW q \in Requests, req'[q].at \in Numbered
               PROVE  /\ \A x \in new : x.id[1] # NumberOf(req'[q])
                      /\ \A p \in Requests \ {q} :
                            /\ req'[p].at \in Numbered => NumberOf(req'[p]) # NumberOf(req'[q])
                            /\ req'[p].at = "rename route" =>
                                   req'[p].is.id[1] # NumberOf(req'[q])
    BY <1>1 DEF NumbersOK
  <2>1. req'[q] = req[q]
    BY <1>3 DEF Numbered
  <2>2. ASSUME NEW p \in Requests \ {q}, req'[p].at \in Numbered \cup {"rename route"}
        PROVE  req'[p] = req[p]
    BY <1>3, <2>2 DEF Numbered
  <2>3. \A x \in new : x.id[1] # NumberOf(req'[q])
    BY <1>6, <2>1
  <2>4. \A p \in Requests \ {q} :
            /\ req[p].at \in Numbered => NumberOf(req[p]) # NumberOf(req[q])
            /\ req[p].at = "rename route" => req[p].is.id[1] # NumberOf(req[q])
    BY <2>1 DEF CatalogInv, NumbersOK
  <2> QED
    BY <2>1, <2>2, <2>3, <2>4
<1>8. RenamedOK'
  <2> SUFFICES ASSUME NEW q \in Requests, req'[q].at = "rename route",
                      NEW z \in new, z.id = req'[q].is.id
               PROVE  Alike(z, req'[q].is)
    BY <1>1 DEF RenamedOK, Alike
  <2>1. q \notin done /\ req'[q] = req[q]
    BY <1>3
  <2>2. CASE \E x \in routes : Alike(x, z)
    <3>1. PICK x \in routes : Alike(x, z)
      BY <2>2
    <3>2. Alike(x, req[q].is)
      BY <2>1, <3>1 DEF Alike, CatalogInv, RenamedOK
    <3> QED
      BY <2>1, <3>1, <3>2 DEF Alike
  <2>3. CASE \E p \in done : req[p].at \in Numbered /\ z.id[1] = NumberOf(req[p])
    <3>1. PICK p \in done : req[p].at \in Numbered /\ z.id[1] = NumberOf(req[p])
      BY <2>3
    <3>2. q \in Requests \ {p} /\ req[q].at = "rename route"
      BY <2>1
    <3>3. req[q].is.id[1] # NumberOf(req[p])
      BY <3>1, <3>2 DEF CatalogInv, NumbersOK
    <3> QED
      BY <2>1, <3>1, <3>3
  <2> QED
    BY <2>2, <2>3 DEF Comes
<1>9. TrackedOK'
  <2> SUFFICES ASSUME NEW q \in Requests, req'[q].at = "store catalog",
                      NEW y \in Pooled(req'[q].saw), y.name \notin missed'[q]
               PROVE  \E x \in Pooled(new) : x.id = y.id /\ x.name = y.name
    BY <1>1 DEF TrackedOK, Pooled
  <2>1. req'[q] = req[q] /\ y.name \notin missed[q] /\ y.name \notin removed
    BY <1>1, <1>3
  <2>2. PICK x \in Pooled(routes) : x.id = y.id /\ x.name = y.name
    BY <2>1 DEF CatalogInv, TrackedOK
  <2>3. y.name \in PooledNames(new)
    BY <1>2, <2>1, <2>2 DEF PooledNames
  <2>4. PICK z \in Pooled(new) : z.name = y.name
    BY <2>3 DEF PooledNames
  <2> QED
    BY <2>2, <2>4 DEF SameRows
<1>10. RegistrationComplete'
  <2>1. vouched \subseteq PooledNames(routes)
    BY DEF CatalogInv, RegistrationComplete
  <2>2. vouched' \subseteq PooledNames(new)
    BY <1>1, <1>2, <2>1
  <2> QED
    BY <1>1, <2>2 DEF RegistrationComplete, PooledNames, Pooled
<1>11. missed' = [q \in Requests |-> missed'[q]]
  BY <1>1
<1> QED
  BY <1>4, <1>5, <1>7, <1>8, <1>9, <1>10, <1>11 DEF CatalogInv

(* A handler ends without a commit, or with one that is rolled back.       *)
LEMMA EndKeeps ==
    ASSUME CatalogInv, HandlersOK, UNCHANGED catalogVars, NEW r \in Requests, End(r)
    PROVE  CatalogInv'
<1>1. Handles({}) /\ {} \cap RouteSteps = {}
  BY EndsHere
<1> QED
  BY <1>1, ElseKeeps

(* The handler that commits is the only one that moves.                    *)
LEMMA OneIsDone ==
    ASSUME HandlersOK, NEW r \in Requests, End(r)
    PROVE  /\ starts' = starts /\ \A q \in {r} : req'[q].at = "free"
           /\ \A q \in Requests \ {r} : req'[q] = req[q]
<1>1. /\ "at" \in DOMAIN Free /\ Free.at = "free"
      /\ req' = [req EXCEPT ![r] = Free] /\ starts' = starts
  BY DEF End, Become, Free
<1>2. req'[r] = Free /\ \A q \in Requests \ {r} : req'[q] = req[q]
  BY <1>1, OneMoves
<1> QED
  BY <1>1, <1>2

(* Rows only go.                                                           *)
LEMMA FewerKeep ==
    ASSUME CatalogInv, HandlersOK, NEW done \in SUBSET Requests,
           NEW new \in SUBSET routes, Replace(new, {}),
           starts' = starts, \A q \in done : req'[q].at = "free",
           \A q \in Requests \ done : req'[q] = req[q]
    PROVE  CatalogInv'
<1>1. new \in SUBSET RouteRows /\ OneRowPerId(new) /\ OneRowPerName(new)
  BY DEF CatalogInv, RoutesOK, OneRowPerId, OneRowPerName, Pooled
<1>2. \A z \in new : Comes(z, done)
  BY DEF Comes, Alike
<1>3. SameRows(new)
  BY DEF SameRows, CatalogInv, RoutesOK, OneRowPerName, Pooled
<1>4. {} \subseteq PooledNames(new)
  OBVIOUS
<1> QED
  BY <1>1, <1>2, <1>3, <1>4, CommitKeepsRoutes

(* A route is deleted (delete_route).                                      *)
LEMMA DropRouteKeeps ==
    ASSUME CatalogInv, HandlersOK, NEW r \in Requests, DropRoute(r)
    PROVE  CatalogInv'
<1>1. {x \in routes : x.id # req[r].is.id} \in SUBSET routes /\ {r} \in SUBSET Requests
  OBVIOUS
<1>2. Replace({x \in routes : x.id # req[r].is.id}, {})
  BY DEF DropRoute
<1>3. /\ starts' = starts /\ \A q \in {r} : req'[q].at = "free"
      /\ \A q \in Requests \ {r} : req'[q] = req[q]
  BY OneIsDone DEF DropRoute
<1> QED
  BY <1>1, <1>2, <1>3, FewerKeep

(* The routes of a tenant go with it.                                      *)
LEMMA CascadeRoutesKeeps ==
    ASSUME CatalogInv, HandlersOK, CascadeRoutes
    PROVE  CatalogInv'
<1>1. {x \in routes : ~x.tied} \in SUBSET routes /\ {} \in SUBSET Requests
  OBVIOUS
<1>2. Replace({x \in routes : ~x.tied}, {}) /\ starts' = starts /\ req' = req
  BY DEF CascadeRoutes, handlerVars
<1> QED
  BY <1>1, <1>2, FewerKeep

(* A route is inserted, unless the index refuses it.                       *)
LEMMA InsertRouteKeeps ==
    ASSUME CatalogInv, HandlersOK, NEW r \in Requests, InsertRoute(r)
    PROVE  CatalogInv'
<1>1. CASE RolledBack
  BY <1>1, EndKeeps DEF RolledBack, InsertRoute
<1>2. CASE ~RolledBack
  <2> DEFINE x == req[r].is
             new == routes \cup {x}
  <2>1. /\ req[r].at = "wire provider" /\ Replace(new, {})
        /\ PooledNames({x}) \cap PooledNames(routes) = {}
    BY <1>2 DEF InsertRoute
  <2>2. /\ starts' = starts /\ \A q \in {r} : req'[q].at = "free"
        /\ \A q \in Requests \ {r} : req'[q] = req[q]
    BY OneIsDone DEF InsertRoute
  <2>3. x \in RouteRows /\ NumberOf(req[r]) = x.id[1] /\ req[r].at \in Numbered
    BY <2>1 DEF CatalogInv, RouteLoadsOK, RouteLoadOK, NumberOf, Numbered
  <2>4. \A y \in routes : y.id[1] # x.id[1]
    BY <2>3 DEF CatalogInv, NumbersOK
  <2>5. new = routes \cup {x} /\ NumberOf(req[r]) = req[r].is.id[1] /\ x = req[r].is
    BY <2>3
  <2>6. /\ routes \in SUBSET RouteRows /\ OneRowPerId(routes) /\ OneRowPerName(routes)
    BY DEF CatalogInv, RoutesOK
  <2> HIDE DEF x, new
  <2>7. new \in SUBSET RouteRows /\ OneRowPerId(new)
    BY <2>3, <2>4, <2>5, <2>6 DEF OneRowPerId
  <2>8. \A y \in Pooled(routes) : x \in Pooled({x}) => x.name # y.name
    BY <2>1 DEF PooledNames
  <2>9. Pooled(new) = Pooled(routes) \cup Pooled({x}) /\ Pooled({x}) \subseteq {x}
    BY <2>5 DEF Pooled
  <2>10. OneRowPerName(new) /\ SameRows(new)
    BY <2>6, <2>8, <2>9 DEF OneRowPerName, SameRows
  <2>11. \A z \in new : Comes(z, {r})
    BY <2>3, <2>5 DEF Comes, Alike
  <2>12. {} \subseteq PooledNames(new) /\ {r} \in SUBSET Requests
    OBVIOUS
  <2> QED
    BY <2>1, <2>2, <2>7, <2>10, <2>11, <2>12, CommitKeepsRoutes
<1> QED
  BY <1>1, <1>2

(* What the UPDATE of a rename makes of the row as it stands.              *)
LEMMA SavedRoute ==
    ASSUME NEW was \in RouteRows, NEW is \in RouteRows, is = [was EXCEPT !.name = is.name],
           NEW x \in RouteRows
    PROVE  /\ Save(was, is, x) \in RouteRows /\ Alike(x, Save(was, is, x))
           /\ Save(was, is, x).name \in {x.name, is.name}
<1> DEFINE s == Save(was, is, x)
<1>1. /\ DOMAIN x = {"id", "name", "scope", "tied", "vendor"}
      /\ x = [id |-> x.id, name |-> x.name, scope |-> x.scope, tied |-> x.tied,
              vendor |-> x.vendor]
  BY DEF RouteRows
<1>2. /\ is.id = was.id /\ is.scope = was.scope /\ is.tied = was.tied
      /\ is.vendor = was.vendor
  BY DEF RouteRows
<1>3. s = [c \in {"id", "name", "scope", "tied", "vendor"} |->
              IF is[c] = was[c] THEN x[c] ELSE is[c]]
  BY <1>1 DEF Save
<1> HIDE DEF s
<1>4. /\ s.id = x.id /\ s.scope = x.scope /\ s.tied = x.tied /\ s.vendor = x.vendor
      /\ s.name \in {x.name, is.name}
  BY <1>2, <1>3
<1>5. s = [id |-> s.id, name |-> s.name, scope |-> s.scope, tied |-> s.tied,
           vendor |-> s.vendor]
  BY <1>3
<1>6. /\ x.id \in Nat \X Models /\ x.name \in Models /\ is.name \in Models
      /\ x.scope \in {"platform", "tenant"} /\ x.tied \in BOOLEAN /\ x.vendor \in BOOLEAN
  BY DEF RouteRows
<1>7. s \in RouteRows
  BY <1>4, <1>5, <1>6 DEF RouteRows
<1> QED
  BY <1>4, <1>7 DEF Alike, s

(* A route is renamed, unless it is gone or the index refuses its name.    *)
LEMMA WriteRouteKeeps ==
    ASSUME CatalogInv, HandlersOK, NEW r \in Requests, WriteRoute(r)
    PROVE  CatalogInv'
<1>1. CASE RolledBack
  BY <1>1, EndKeeps DEF RolledBack, WriteRoute
<1>2. CASE ~RolledBack
  <2> DEFINE h == req[r]
             others == {x \in routes : x.id # h.is.id}
             new == others \cup {Save(h.was, h.is, x) : x \in routes \ others}
  <2>1. /\ h.at = "rename route" /\ Replace(new, {})
        /\ h.is.id \in Ids(routes) /\ PooledNames({h.is}) \cap PooledNames(others) = {}
    BY <1>2 DEF WriteRoute
  <2>2. /\ starts' = starts /\ \A q \in {r} : req'[q].at = "free"
        /\ \A q \in Requests \ {r} : req'[q] = req[q]
    BY OneIsDone DEF WriteRoute
  <2>3. /\ routes \in SUBSET RouteRows /\ OneRowPerId(routes) /\ OneRowPerName(routes)
    BY DEF CatalogInv, RoutesOK
  <2>4. PICK o \in routes : o.id = h.is.id
    BY <2>1 DEF Ids
  <2>5. routes = others \cup {o} /\ o \notin others
    BY <2>3, <2>4 DEF OneRowPerId
  <2>6. /\ h.was \in RouteRows /\ h.is \in RouteRows
        /\ h.is = [h.was EXCEPT !.name = h.is.name]
    BY <2>1 DEF CatalogInv, RouteLoadsOK, RouteLoadOK
  <2>7. Alike(o, h.is)
    BY <2>1, <2>4 DEF CatalogInv, RenamedOK
  <2> DEFINE s == Save(h.was, h.is, o)
             name == h.is.name
  <2>8. s \in RouteRows /\ Alike(o, s) /\ s.name \in {o.name, name}
    BY <2>3, <2>6, SavedRoute
  <2>9. new = others \cup {s} /\ \A x \in others : x.id # o.id
    BY <2>4, <2>5
  <2>10. s \in Pooled({s}) => h.is \in Pooled({h.is}) /\ o \in Pooled(routes)
    BY <2>7, <2>8 DEF Alike, Pooled
  <2>11. \A x \in Pooled(others) : h.is \in Pooled({h.is}) => x.name # name
    BY <2>1 DEF PooledNames
  <2> HIDE DEF h, others, new, s, name
  <2>12. new \in SUBSET RouteRows /\ OneRowPerId(new)
    BY <2>3, <2>5, <2>8, <2>9 DEF OneRowPerId, Alike
  <2>13. /\ Pooled(new) = Pooled(others) \cup Pooled({s}) /\ Pooled({s}) \subseteq {s}
         /\ Pooled(others) \subseteq Pooled(routes) /\ Pooled(others) \subseteq others
         /\ Pooled(routes) \subseteq Pooled(others) \cup {o}
    BY <2>5, <2>9 DEF Pooled
  <2>14. \A x \in Pooled(others) : s \in Pooled({s}) => x.name # s.name
    <3> SUFFICES ASSUME NEW x \in Pooled(others), s \in Pooled({s})
                 PROVE  x.name # o.name /\ x.name # name
      BY <2>8
    <3>1. x \in Pooled(routes) /\ x # o
      BY <2>5, <2>13
    <3>2. x.name # o.name
      BY <2>3, <2>10, <3>1 DEF OneRowPerName
    <3> QED
      BY <2>10, <2>11, <3>2
  <2>15. OneRowPerName(new)
    BY <2>3, <2>13, <2>14 DEF OneRowPerName
  <2>16. SameRows(new)
    <3> SUFFICES ASSUME NEW x \in Pooled(routes), NEW z \in Pooled(new), x.name = z.name
                 PROVE  x.id = z.id
      BY DEF SameRows
    <3>1. CASE z \in Pooled(others)
      BY <2>3, <2>13, <3>1 DEF OneRowPerName
    <3>2. CASE z = s /\ s \in Pooled({s})
      BY <2>8, <2>13, <2>14, <3>2 DEF Alike
    <3> QED
      BY <2>13, <3>1, <3>2
  <2>17. \A z \in new : Comes(z, {r})
    BY <2>5, <2>8, <2>9 DEF Comes, Alike
  <2>18. {} \subseteq PooledNames(new) /\ {r} \in SUBSET Requests
    OBVIOUS
  <2> QED
    BY <2>1, <2>2, <2>12, <2>15, <2>16, <2>17, <2>18, CommitKeepsRoutes
<1> QED
  BY <1>1, <1>2

(* Filling in the vendor changes nothing the index looks at.               *)
LEMMA FilledRoute ==
    ASSUME NEW x \in RouteRows, NEW b \in BOOLEAN
    PROVE  LET z == [x EXCEPT !.vendor = @ \/ b]
           IN z \in RouteRows /\ Alike(x, z) /\ z.name = x.name
BY DEF RouteRows, Alike

(* A registration commits: a model it skipped as known still has the row   *)
(* it was read from, which the prune spares, or its name is in missed.     *)
LEMMA StoreCatalogKeeps ==
    ASSUME CatalogInv, HandlersOK, NEW r \in Requests, StoreCatalog(r)
    PROVE  CatalogInv'
<1>1. CASE RolledBack
  BY <1>1, EndKeeps DEF RolledBack, StoreCatalog
<1>2. CASE ~RolledBack
  <2> DEFINE h == req[r]
             no == h.no
             created == Created(h)
             kept == {x \in routes : x.id \notin Pruned(h)}
             Fill(x) == [x EXCEPT !.vendor = @ \/ x.id \in Backfilled(h)]
             filled == {Fill(x) : x \in kept}
             new == created \cup filled
             models == h.offer \ missed[r]
  <2>1. /\ h.at = "store catalog" /\ Replace(new, models)
        /\ PooledNames(created) \cap PooledNames(routes) = {}
    BY <1>2 DEF StoreCatalog
  <2>2. /\ starts' = starts /\ \A q \in {r} : req'[q].at = "free"
        /\ \A q \in Requests \ {r} : req'[q] = req[q]
    BY OneIsDone DEF StoreCatalog
  <2>3. /\ routes \in SUBSET RouteRows /\ OneRowPerId(routes) /\ OneRowPerName(routes)
    BY DEF CatalogInv, RoutesOK
  <2>4. /\ no \in Nat /\ h.offer \in SUBSET Models
        /\ h.saw \in SUBSET RouteRows /\ OneRowPerId(h.saw)
    BY <2>1 DEF CatalogInv, RouteLoadsOK, RouteLoadOK
  <2>5. NumberOf(h) = no /\ h.at \in Numbered /\ \A x \in routes : x.id[1] # no
    BY <2>1 DEF CatalogInv, NumbersOK, NumberOf, Numbered
  <2>6. /\ \A m \in h.offer \ Existing(h) : \E z \in created : z.name = m
        /\ \A z \in created : /\ z = RouteRow(<<no, z.name>>, z.name, "platform", FALSE, TRUE)
                              /\ z.name \in h.offer
    <3>1. \A m \in h.offer \ Existing(h) :
              LET z == RouteRow(<<no, m>>, m, "platform", FALSE, TRUE)
              IN z \in created /\ z.name = m
      BY DEF Created, RouteRow
    <3>2. \A z \in created : \E m \in h.offer \ Existing(h) :
              z = RouteRow(<<no, m>>, m, "platform", FALSE, TRUE) /\ z.name = m
      BY DEF Created, RouteRow
    <3> HIDE DEF created, h, no
    <3>3. \A m \in h.offer \ Existing(h) : \E z \in created : z.name = m
      BY <3>1
    <3>4. ASSUME NEW z \in created
          PROVE  z = RouteRow(<<no, z.name>>, z.name, "platform", FALSE, TRUE) /\ z.name \in h.offer
      BY <3>2
    <3> QED
      BY <3>3, <3>4
  <2>7. \A z \in created : /\ z \in RouteRows /\ z.id = <<no, z.name>> /\ z.id[1] = no
                           /\ z.scope = "platform" /\ z.tied = FALSE
    <3> SUFFICES ASSUME NEW z \in created
                 PROVE  /\ z \in RouteRows /\ z.id = <<no, z.name>> /\ z.id[1] = no
                        /\ z.scope = "platform" /\ z.tied = FALSE
      OBVIOUS
    <3>1. z = RouteRow(<<no, z.name>>, z.name, "platform", FALSE, TRUE) /\ z.name \in Models
      BY <2>4, <2>6
    <3> HIDE DEF created, h, no
    <3>2. PICK m \in Models : m = z.name
      BY <3>1
    <3>3. z = [id |-> <<no, m>>, name |-> m, scope |-> "platform", tied |-> FALSE, vendor |-> TRUE]
      BY <3>1, <3>2 DEF RouteRow
    <3> QED
      BY <2>4, <3>2, <3>3 DEF RouteRows
  <2>8. \A z, w \in created : z.name = w.name \/ z.id = w.id => z = w
    <3>1. \A z, w \in created : z.name = w.name => z = w
      BY <2>6
    <3>2. \A z, w \in created : z.id = w.id => z.name = w.name
      BY <2>7
    <3> QED
      BY <3>1, <3>2
  <2>9. \A x \in kept : Fill(x) \in RouteRows /\ Alike(x, Fill(x)) /\ Fill(x).name = x.name
    <3> SUFFICES ASSUME NEW x \in kept
                 PROVE  Fill(x) \in RouteRows /\ Alike(x, Fill(x)) /\ Fill(x).name = x.name
      OBVIOUS
    <3>1. x \in RouteRows /\ (x.id \in Backfilled(h)) \in BOOLEAN
      BY <2>3
    <3> QED
      BY <3>1, FilledRoute
  <2>10. kept \subseteq routes
    OBVIOUS
  <2> DEFINE Of(x, z) == x \in kept /\ z = Fill(x) /\ Alike(x, z) /\ z.name = x.name
  <2>11. \A z \in filled : z \in RouteRows /\ \E x \in routes : Of(x, z)
    <3> SUFFICES ASSUME NEW z \in filled PROVE z \in RouteRows /\ \E x \in routes : Of(x, z)
      OBVIOUS
    <3>1. PICK x \in kept : z = Fill(x)
      OBVIOUS
    <3> HIDE DEF Fill, kept, filled
    <3> QED
      BY <2>9, <2>10, <3>1
  <2>12. \A x \in kept : \E z \in filled : Of(x, z)
    BY <2>9
  <2>13. \A x, y, z, w : Of(x, z) /\ Of(y, w) /\ x = y => z = w
    OBVIOUS
  <2>14. \A x, z : Of(x, z) => Alike(x, z) /\ z.name = x.name
    OBVIOUS
  <2>15. new = created \cup filled
    OBVIOUS
  <2>16. ASSUME NEW m \in h.offer \ missed[r], m \in Existing(h)
         PROVE  \E x \in kept : x \in Pooled(routes) /\ x.name = m
    <3>1. PICK y \in Pooled(h.saw) : y.name = m
      BY <2>16 DEF Existing, PooledNames
    <3>2. PICK x \in Pooled(routes) : x.id = y.id /\ x.name = y.name
      BY <2>1, <2>16, <3>1 DEF CatalogInv, TrackedOK
    <3>3. x.id \notin Pruned(h)
      BY <2>4, <2>16, <3>1, <3>2 DEF Pruned, Ids, OneRowPerId, Pooled
    <3> QED
      BY <3>1, <3>2, <3>3 DEF Pooled
  <2>17. models = h.offer \ missed[r]
    OBVIOUS
  <2> HIDE DEF created, filled, new, models, Of, kept, no, Fill
  <2>18. /\ \A z \in created : z \in Pooled(new) /\ z.name \notin PooledNames(routes)
         /\ \A x, z : Of(x, z) /\ x \in routes /\ z \in Pooled(new) => x \in Pooled(routes)
         /\ \A x, z : Of(x, z) /\ x \in Pooled(routes) /\ z \in filled => z \in Pooled(new)
    BY <2>1, <2>7, <2>14, <2>15 DEF Pooled, PooledNames, Alike
  <2>19. new \in SUBSET RouteRows /\ OneRowPerId(new)
    <3>1. \A z \in created, w \in filled : z.id # w.id
      BY <2>5, <2>7, <2>11, <2>14 DEF Alike
    <3>2. \A z, w \in filled : z.id = w.id => z = w
      BY <2>3, <2>11, <2>13, <2>14 DEF Alike, OneRowPerId
    <3> QED
      BY <2>7, <2>8, <2>11, <2>15, <3>1, <3>2 DEF OneRowPerId
  <2>20. ASSUME NEW x \in Pooled(routes), NEW z \in Pooled(new), x.name = z.name
         PROVE  Of(x, z)
    <3>1. z \in filled
      BY <2>15, <2>18, <2>20 DEF PooledNames, Pooled
    <3>2. PICK y \in routes : Of(y, z)
      BY <2>11, <3>1
    <3>3. y \in Pooled(routes) /\ y.name = x.name
      BY <2>14, <2>18, <2>20, <3>2
    <3>4. y = x
      BY <2>3, <3>3 DEF OneRowPerName
    <3> QED
      BY <3>2, <3>4
  <2>21. SameRows(new)
    BY <2>14, <2>20 DEF SameRows, Alike
  <2>22. OneRowPerName(new)
    <3> SUFFICES ASSUME NEW z \in Pooled(new), NEW w \in Pooled(new), z.name = w.name
                 PROVE  z = w
      BY DEF OneRowPerName
    <3>1. CASE z \in created /\ w \in created
      BY <2>8, <3>1
    <3>2. ASSUME NEW u \in {z, w}, u \in filled PROVE z = w
      <4>1. PICK x \in routes : Of(x, u)
        BY <2>11, <3>2
      <4>2. x \in Pooled(routes) /\ x.name = z.name /\ x.name = w.name
        BY <2>14, <2>18, <4>1
      <4>3. Of(x, z) /\ Of(x, w)
        BY <2>20, <4>2
      <4> QED
        BY <2>13, <4>3
    <3>3. z \in created \cup filled /\ w \in created \cup filled
      BY <2>15 DEF Pooled
    <3> QED
      BY <3>1, <3>2, <3>3
  <2>23. \A z \in new : Comes(z, {r})
    BY <2>5, <2>7, <2>11, <2>14, <2>15 DEF Comes
  <2>24. models \subseteq PooledNames(new)
    <3> SUFFICES ASSUME NEW m \in h.offer \ missed[r] PROVE m \in PooledNames(new)
      BY <2>17
    <3>1. CASE m \in Existing(h)
      <4>1. PICK x \in kept : x \in Pooled(routes) /\ x.name = m
        BY <2>16, <3>1
      <4>2. PICK z \in filled : Of(x, z)
        BY <2>12, <4>1
      <4> QED
        BY <2>14, <2>18, <4>1, <4>2 DEF PooledNames
    <3>2. CASE m \notin Existing(h)
      BY <2>6, <2>18, <3>2 DEF PooledNames
    <3> QED
      BY <3>1, <3>2
  <2> HIDE DEF h
  <2>25. {r} \in SUBSET Requests
    OBVIOUS
  <2> QED
    BY <2>1, <2>2, <2>19, <2>21, <2>22, <2>23, <2>24, <2>25, CommitKeepsRoutes
<1> QED
  BY <1>1, <1>2

(* Every step of the catalog keeps its invariant.                          *)
LEMMA CatalogNextKeeps ==
    ASSUME CatalogInv, HandlersOK, CatalogNext
    PROVE  CatalogInv'
<1>1. CASE CascadeRoutes
  BY <1>1, CascadeRoutesKeeps
<1>2. ASSUME NEW r \in Requests, CatalogRequest(r) PROVE CatalogInv'
  <2>1. CASE \E offer \in SUBSET Models \ {{}}, prune \in BOOLEAN : RegisterHub(r, offer, prune)
    BY <2>1, RegisterHubKeeps
  <2>2. CASE \E name \in Models, scope \in {"platform", "tenant"}, tied \in BOOLEAN :
                 AddRoute(r, name, scope, tied)
    BY <2>2, AddRouteKeeps
  <2>3. ASSUME NEW x \in routes, NEW name \in Models, RenameRoute(r, x, name)
        PROVE  CatalogInv'
    BY <2>3, RenameRouteKeeps
  <2>4. ASSUME NEW x \in routes, DeleteRoute(r, x) PROVE CatalogInv'
    <3>1. /\ Enter(r, [at |-> "delete route", is |-> x])
          /\ "at" \in DOMAIN [at |-> "delete route", is |-> x]
          /\ [at |-> "delete route", is |-> x].at \in {"delete route"}
      BY <2>4 DEF DeleteRoute
    <3>2. Handles({"delete route"}) /\ {"delete route"} \cap RouteSteps = {}
      BY <3>1, GoesTo DEF RouteSteps
    <3> QED
      BY <2>4, <3>2, ElseKeeps DEF DeleteRoute
  <2> QED
    BY <1>2, <2>1, <2>2, <2>3, <2>4 DEF CatalogRequest
<1>3. ASSUME NEW r \in Requests, WiringFails(r) PROVE CatalogInv'
  BY <1>3, EndKeeps DEF WiringFails
<1>4. ASSUME NEW r \in Requests, CatalogStep(r) PROVE CatalogInv'
  BY <1>2, <1>3, <1>4, ReadRoutesKeeps, StoreCatalogKeeps, InsertRouteKeeps, WriteRouteKeeps,
     DropRouteKeeps DEF CatalogStep
<1> QED
  BY <1>1, <1>4 DEF CatalogNext

(* The invariant holds when the control plane starts.                      *)
LEMMA InitCatalog == Init => CatalogInv
<1> SUFFICES ASSUME Init PROVE CatalogInv
  OBVIOUS
<1>1. /\ \A q \in Requests : req[q].at = "free"
      /\ starts = 0 /\ vouched = {} /\ missed = [q \in Requests |-> {}]
      /\ routes = {RouteRow(<<0, m>>, m, "platform", FALSE, FALSE) : m \in Legacy}
  BY DEF Init, HandlersInit, CatalogInit, Free
<1>2. ASSUME NEW x \in routes
      PROVE  x \in RouteRows /\ x.id = <<0, x.name>> /\ x.id[1] <= starts
  <2>1. PICK m \in Models : x = [id |-> <<0, m>>, name |-> m, scope |-> "platform",
                                tied |-> FALSE, vendor |-> FALSE]
    BY <1>1, CatalogAssumption DEF RouteRow
  <2>2. x.id = <<0, m>> /\ x.name = m
    BY <2>1
  <2>3. x.id[1] = 0 /\ 0 <= starts
    BY <1>1, <2>2
  <2> QED
    BY <2>1, <2>2, <2>3 DEF RouteRows
<1>3. \A x, y \in routes : x.name = y.name => x = y
  <2>1. \A x \in routes : \E m \in Legacy :
            x = RouteRow(<<0, m>>, m, "platform", FALSE, FALSE) /\ x.name = m
    BY <1>1 DEF RouteRow
  <2>2. \A x \in routes : x = RouteRow(<<0, x.name>>, x.name, "platform", FALSE, FALSE)
    BY <2>1
  <2> QED
    BY <2>2
<1>4. \A x, y \in routes : x.id = y.id => x.name = y.name
  BY <1>2
<1>5. RoutesOK
  BY <1>2, <1>3, <1>4 DEF RoutesOK, OneRowPerId, OneRowPerName, Pooled
<1>6. RouteLoadsOK /\ NumbersOK /\ RenamedOK /\ TrackedOK
  BY <1>1 DEF RouteLoadsOK, RouteLoadOK, NumbersOK, RenamedOK, TrackedOK, Numbered
<1>7. RegistrationComplete
  BY <1>1 DEF RegistrationComplete
<1> QED
  BY <1>1, <1>5, <1>6, <1>7 DEF CatalogInv

(* The invariant of the routes is inductive, next to that of the handlers. *)
LEMMA StepCatalog == UsersInv /\ CatalogInv /\ [Next]_vars => CatalogInv'
<1> SUFFICES ASSUME UsersInv, CatalogInv, [Next]_vars PROVE CatalogInv'
  OBVIOUS
<1>1. HandlersOK
  BY DEF UsersInv, TablesOK
<1>2. ASSUME UNCHANGED catalogVars, UNCHANGED handlerVars PROVE CatalogInv'
  <2>1. Handles({}) /\ {} \cap RouteSteps = {}
    BY <1>2 DEF Handles
  <2> QED
    BY <1>1, <1>2, <2>1, ElseKeeps
<1>3. CASE UsersNext /\ UNCHANGED <<catalogVars, healthVars, tokenVars>>
  <2>1. UNCHANGED catalogVars /\ UserSteps \cap RouteSteps = {} /\ Handles(UserSteps)
    BY <1>1, <1>3, UsersHandle DEF UserSteps, RouteSteps
  <2> QED
    BY <1>1, <2>1, ElseKeeps
<1>4. CASE HealthNext /\ UNCHANGED <<userVars, catalogVars, tokenVars>>
  <2>1. UNCHANGED catalogVars /\ HubSteps \cap RouteSteps = {} /\ Handles(HubSteps)
    BY <1>1, <1>4, HealthHandle DEF HubSteps, Carrying, RouteSteps
  <2> QED
    BY <1>1, <2>1, ElseKeeps
<1>5. CASE CatalogNext
  BY <1>1, <1>5, CatalogNextKeeps
<1>6. CASE TokensNext /\ UNCHANGED <<handlerVars, userVars, catalogVars, healthVars>>
  BY <1>2, <1>6
<1>7. CASE UNCHANGED vars
  BY <1>2, <1>7 DEF vars
<1> QED
  BY <1>3, <1>4, <1>5, <1>6, <1>7 DEF Next

(* A registration that commits leaves a pooled route for every model the   *)
(* hub offers, the ones it skipped as known included, until somebody       *)
(* removes it: for any number of handlers, models and rows                 *)
(* (_register_hub_catalog, github_accounts.py:112-125, 165-170).           *)
THEOREM RegistrationsAreComplete == Spec => []RegistrationComplete
<1>1. Init => UsersInv /\ CatalogInv
  BY InitUsers, InitCatalog
<1>2. UsersInv /\ CatalogInv /\ [Next]_vars => (UsersInv /\ CatalogInv)'
  BY StepUsers, StepCatalog
<1>3. CatalogInv => RegistrationComplete
  BY DEF CatalogInv
<1> QED
  BY <1>1, <1>2, <1>3, PTL DEF Spec

-----------------------------------------------------------------------------
(* The recorded health.                                                    *)
AccountRows == [status : {"ready", "deleting", "gone"}, loggedIn : BOOLEAN \cup {Unknown},
                polled : 0 .. MaxAnswers, code : Numbers]

Answer(a, row) == [acct |-> a, loggedIn |-> row.loggedIn, polled |-> row.polled]

(* The pair of a row: never polled, or an answer of the hub.               *)
PairOK(a, row, given) ==
    IF row.polled = 0 THEN row.loggedIn = Unknown ELSE Answer(a, row) \in given

(* A time stands for one answer.                                           *)
AnswersOK ==
    /\ IsFiniteSet(answers) /\ Cardinality(answers) <= MaxAnswers
    /\ \A x \in answers : /\ x.acct \in Accounts /\ x.loggedIn \in BOOLEAN
                          /\ x = [acct |-> x.acct, loggedIn |-> x.loggedIn, polled |-> x.polled]
                          /\ x.polled \in 1 .. Cardinality(answers)
    /\ \A x, y \in answers : x.polled = y.polled => x = y

(* What a pass carries of an account: what it loaded, or a later answer.   *)
PolledOK(a, was, is, left, given, off) ==
    /\ was \in AccountRows /\ is \in AccountRows
    /\ was.polled <= Cardinality(given)
    /\ is.status = was.status /\ is.code = was.code
    /\ a \in left => is = was
    /\ is # was => is.polled # was.polled /\ is.polled # 0 /\ Answer(a, is) \in given
    /\ a \notin off => PairOK(a, was, given)

PassOK(h, given, off) ==
    /\ h = [at |-> h.at, was |-> h.was, is |-> h.is, left |-> h.left]
    /\ h.left \subseteq DOMAIN h.is /\ DOMAIN h.is \subseteq Accounts
    /\ h.is = [a \in DOMAIN h.is |-> h.is[a]]
    /\ \A a \in DOMAIN h.is : PolledOK(a, h.was[a], h.is[a], h.left, given, off)

HealthLoadOK(h, given, off) ==
    /\ h.at = "ask hubs" => PassOK(h, given, off)
    /\ h.at \in {"keep code"} \cup Carrying =>
           h.acct \in Accounts /\ h.was \in AccountRows /\ h.code \in Numbers

HealthInv ==
    /\ \A q \in Requests : HealthLoadOK(req[q], answers, skewed)
    /\ AnswersOK
    /\ account \in [Accounts -> AccountRows]
    /\ \A a \in Accounts : account[a].polled <= Cardinality(answers)
    /\ HealthIsAnAnswer

-----------------------------------------------------------------------------
(* What holds of the answers given holds when there are more.              *)
LEMMA PairGrows ==
    ASSUME NEW given, NEW later, given \subseteq later, NEW a, NEW row, PairOK(a, row, given)
    PROVE  PairOK(a, row, later)
BY DEF PairOK

(* So does what a pass carries of an account ...                           *)
LEMMA PolledGrows ==
    ASSUME NEW given, NEW later, given \subseteq later, NEW off, NEW wide, off \subseteq wide,
           Cardinality(given) \in Nat, Cardinality(later) \in Nat,
           Cardinality(given) <= Cardinality(later),
           NEW a, NEW was, NEW is, NEW left, PolledOK(a, was, is, left, given, off)
    PROVE  PolledOK(a, was, is, left, later, wide)
<1>1. was.polled <= Cardinality(later)
  <2>1. was.polled \in Nat /\ was.polled <= Cardinality(given)
    BY HealthAssumption DEF PolledOK, AccountRows
  <2> QED
    BY <2>1
<1>2. a \notin wide => PairOK(a, was, later)
  BY PairGrows DEF PolledOK
<1> QED
  BY <1>1, <1>2 DEF PolledOK

(* ... and what any handler carries.                                       *)
LEMMA LoadGrows ==
    ASSUME NEW given, NEW later, given \subseteq later, NEW off, NEW wide, off \subseteq wide,
           Cardinality(given) \in Nat, Cardinality(later) \in Nat,
           Cardinality(given) <= Cardinality(later),
           NEW h, HealthLoadOK(h, given, off)
    PROVE  HealthLoadOK(h, later, wide)
<1>1. ASSUME h.at = "ask hubs" PROVE PassOK(h, later, wide)
  <2>1. PassOK(h, given, off)
    BY <1>1 DEF HealthLoadOK
  <2>2. \A a \in DOMAIN h.is : PolledOK(a, h.was[a], h.is[a], h.left, given, off)
    BY <2>1 DEF PassOK
  <2>3. \A a \in DOMAIN h.is : PolledOK(a, h.was[a], h.is[a], h.left, later, wide)
    BY <2>2, PolledGrows
  <2> QED
    BY <2>1, <2>3 DEF PassOK
<1> QED
  BY <1>1 DEF HealthLoadOK

(* A handler moves, and the answers and overwritten accounts only grow.    *)
LEMMA HealthMoves ==
    ASSUME HealthInv, HandlersOK, NEW r \in Requests, NEW h, "at" \in DOMAIN h,
           req' = [req EXCEPT ![r] = h], starts' \in {starts, starts + 1},
           answers \subseteq answers', skewed \subseteq skewed', AnswersOK',
           Cardinality(answers) <= Cardinality(answers'),
           HealthLoadOK(h, answers', skewed'),
           account' \in [Accounts -> AccountRows],
           \A a \in Accounts : account'[a].polled <= Cardinality(answers'),
           HealthIsAnAnswer'
    PROVE  HealthInv'
<1>1. req'[r] = h /\ \A q \in Requests \ {r} : req'[q] = req[q]
  BY OneMoves
<1>2. Cardinality(answers) \in Nat /\ Cardinality(answers') \in Nat
  BY FS_CardinalityType DEF HealthInv, AnswersOK
<1>3. ASSUME NEW q \in Requests \ {r} PROVE HealthLoadOK(req'[q], answers', skewed')
  <2>1. HealthLoadOK(req[q], answers, skewed)
    BY DEF HealthInv
  <2>2. HealthLoadOK(req[q], answers', skewed')
    BY <1>2, <2>1, LoadGrows
  <2> QED
    BY <1>1, <2>2
<1>4. \A q \in Requests : HealthLoadOK(req'[q], answers', skewed')
  BY <1>1, <1>3
<1> QED
  BY <1>4 DEF HealthInv

(* No answer comes and no row changes.                                     *)
LEMMA HealthStays ==
    ASSUME HealthInv, HandlersOK, NEW r \in Requests, NEW h, "at" \in DOMAIN h,
           req' = [req EXCEPT ![r] = h], starts' \in {starts, starts + 1},
           UNCHANGED <<account, answers, skewed>>, HealthLoadOK(h, answers, skewed)
    PROVE  HealthInv'
<1>1. Cardinality(answers) \in Nat
  BY FS_CardinalityType DEF HealthInv, AnswersOK
<1>2. Cardinality(answers) <= Cardinality(answers') /\ HealthLoadOK(h, answers', skewed')
  BY <1>1
<1>3. AnswersOK' /\ HealthIsAnAnswer'
  BY DEF HealthInv, AnswersOK, HealthIsAnAnswer
<1>4. /\ account' \in [Accounts -> AccountRows]
      /\ \A a \in Accounts : account'[a].polled <= Cardinality(answers')
  BY DEF HealthInv
<1>5. answers \subseteq answers' /\ skewed \subseteq skewed'
  OBVIOUS
<1> QED
  BY <1>2, <1>3, <1>4, <1>5, HealthMoves

(* In particular every step of a handler that is not about hubs.           *)
LEMMA HealthElseKeeps ==
    ASSUME HealthInv, HandlersOK, UNCHANGED <<account, answers, skewed>>,
           NEW steps, Handles(steps), steps \cap HubSteps = {}
    PROVE  HealthInv'
<1>1. CASE UNCHANGED handlerVars
  <2>1. req' = req /\ UNCHANGED <<account, answers, skewed>>
    BY <1>1 DEF handlerVars
  <2>2. AnswersOK' /\ HealthIsAnAnswer'
    BY <2>1 DEF HealthInv, AnswersOK, HealthIsAnAnswer
  <2> QED
    BY <2>1, <2>2 DEF HealthInv
<1>2. CASE ~UNCHANGED handlerVars
  <2>1. PICK r \in Requests :
            \E h : /\ "at" \in DOMAIN h /\ h.at \in steps \cup {"free"}
                  /\ req' = [req EXCEPT ![r] = h]
    BY <1>2 DEF Handles
  <2>2. PICK h : /\ "at" \in DOMAIN h /\ h.at \in steps \cup {"free"}
                 /\ req' = [req EXCEPT ![r] = h]
    BY <2>1
  <2>3. starts' \in {starts, starts + 1}
    BY <1>2 DEF Handles
  <2>4. HealthLoadOK(h, answers, skewed)
    BY <2>2 DEF HealthLoadOK, HubSteps, Carrying
  <2> QED
    BY <2>2, <2>3, <2>4, HealthStays
<1> QED
  BY <1>1, <1>2

(* A handler ends without a commit.                                        *)
LEMMA HealthEnds ==
    ASSUME HealthInv, HandlersOK, UNCHANGED <<account, answers, skewed>>,
           NEW r \in Requests, End(r)
    PROVE  HealthInv'
<1>1. Handles({}) /\ {} \cap HubSteps = {}
  BY EndsHere
<1> QED
  BY <1>1, HealthElseKeeps

(* A handler ends and a row changes whose recorded health stays.           *)
LEMMA RowsKeepHealth ==
    ASSUME HealthInv, HandlersOK, NEW r \in Requests, End(r),
           UNCHANGED <<answers, skewed>>, account' \in [Accounts -> AccountRows],
           \A a \in Accounts : /\ account'[a].polled = account[a].polled
                               /\ account'[a].loggedIn = account[a].loggedIn
    PROVE  HealthInv'
<1>1. AnswersOK'
  BY DEF HealthInv, AnswersOK
<1>2. HealthIsAnAnswer'
  BY DEF HealthInv, HealthIsAnAnswer
<1>3. \A a \in Accounts : account'[a].polled <= Cardinality(answers')
  BY DEF HealthInv
<1>4. Cardinality(answers) \in Nat
  BY FS_CardinalityType DEF HealthInv, AnswersOK
<1>5. Cardinality(answers) <= Cardinality(answers')
  BY <1>4
<1>6. /\ "at" \in DOMAIN Free /\ HealthLoadOK(Free, answers', skewed')
      /\ req' = [req EXCEPT ![r] = Free] /\ starts' \in {starts, starts + 1}
  BY DEF HealthLoadOK, Free, Carrying, End, Become
<1>7. answers \subseteq answers' /\ skewed \subseteq skewed'
  OBVIOUS
<1> QED
  BY <1>1, <1>2, <1>3, <1>5, <1>6, <1>7, HealthMoves

(* An account is deleted, or torn down at last.                            *)
LEMMA AccountLeavesKeeps ==
    ASSUME HealthInv, HandlersOK, NEW a \in Accounts, AccountLeaves(a)
    PROVE  HealthInv'
<1>1. PICK s \in {"deleting", "gone"} : account' = [account EXCEPT ![a].status = s]
  BY DEF AccountLeaves
<1>2. req' = req /\ UNCHANGED <<answers, skewed>>
  BY DEF AccountLeaves, handlerVars
<1>3. account \in [Accounts -> AccountRows]
  BY DEF HealthInv
<1>4. /\ account' \in [Accounts -> AccountRows]
      /\ \A b \in Accounts : /\ account'[b].polled = account[b].polled
                             /\ account'[b].loggedIn = account[b].loggedIn
  BY <1>1, <1>3 DEF AccountRows
<1>5. AnswersOK' /\ HealthIsAnAnswer'
  BY <1>2, <1>4 DEF HealthInv, AnswersOK, HealthIsAnAnswer
<1>6. \A b \in Accounts : account'[b].polled <= Cardinality(answers')
  BY <1>2, <1>4 DEF HealthInv
<1>7. \A q \in Requests : HealthLoadOK(req'[q], answers', skewed')
  BY <1>2 DEF HealthInv
<1> QED
  BY <1>4, <1>5, <1>6, <1>7 DEF HealthInv

(* A re-login ends with a code or with none: only the code is written.     *)
LEMMA SaveCodeKeeps ==
    ASSUME HealthInv, HandlersOK, NEW r \in Requests, NEW code \in Numbers,
           req[r].at \in {"keep code"} \cup Carrying,
           SaveCode(r, code), UNCHANGED <<answers, skewed>>
    PROVE  HealthInv'
<1> DEFINE h == req[r]
           was == h.was
           is == [was EXCEPT !.code = code]
           now == account[h.acct]
           saved == Save(was, is, now)
<1>1. h.acct \in Accounts /\ was \in AccountRows
  BY DEF HealthInv, HealthLoadOK
<1>2. account \in [Accounts -> AccountRows] /\ now \in AccountRows
  BY <1>1 DEF HealthInv
<1>3. End(r) /\ (account' = account \/ account' = [account EXCEPT ![h.acct] = saved])
  BY DEF SaveCode
<1>4. saved = [status |-> now.status, loggedIn |-> now.loggedIn, polled |-> now.polled,
              code |-> IF code = was.code THEN now.code ELSE code]
  <2>1. /\ DOMAIN now = {"status", "loggedIn", "polled", "code"}
        /\ now = [status |-> now.status, loggedIn |-> now.loggedIn, polled |-> now.polled,
                  code |-> now.code]
    BY <1>2 DEF AccountRows
  <2>2. /\ is.status = was.status /\ is.loggedIn = was.loggedIn /\ is.polled = was.polled
        /\ is.code = code
    BY <1>1 DEF AccountRows
  <2>3. saved = [c \in {"status", "loggedIn", "polled", "code"} |->
                    IF is[c] = was[c] THEN now[c] ELSE is[c]]
    BY <2>1 DEF Save
  <2> HIDE DEF saved, is, now
  <2> QED
    BY <2>2, <2>3
<1> HIDE DEF saved, is, was, now, h
<1>5. /\ saved \in AccountRows /\ saved.polled = now.polled /\ saved.loggedIn = now.loggedIn
  <2> DEFINE e == IF code = was.code THEN now.code ELSE code
  <2>1. /\ now.status \in {"ready", "deleting", "gone"} /\ now.loggedIn \in BOOLEAN \cup {Unknown}
        /\ now.polled \in 0 .. MaxAnswers /\ now.code \in Numbers
    BY <1>2 DEF AccountRows
  <2>2. e \in Numbers
    BY <2>1
  <2>3. saved = [status |-> now.status, loggedIn |-> now.loggedIn, polled |-> now.polled,
                 code |-> e]
    BY <1>4
  <2> HIDE DEF e
  <2> QED
    BY <2>1, <2>2, <2>3 DEF AccountRows
<1>6. CASE account' = account
  BY <1>3, <1>6, HealthEnds
<1>7. CASE account' = [account EXCEPT ![h.acct] = saved]
  <2>1. /\ account' \in [Accounts -> AccountRows]
        /\ \A a \in Accounts : /\ account'[a].polled = account[a].polled
                               /\ account'[a].loggedIn = account[a].loggedIn
    BY <1>1, <1>2, <1>5, <1>7 DEF now
  <2> QED
    BY <1>3, <2>1, RowsKeepHealth
<1> QED
  BY <1>3, <1>6, <1>7

(* A pass loads the rows of the ready accounts (poll_once).                *)
LEMMA PollOnceKeeps ==
    ASSUME HealthInv, HandlersOK, NEW r \in Requests, PollOnce(r)
    PROVE  HealthInv'
<1> DEFINE rows == [a \in Ready |-> account[a]]
           h == [at |-> "ask hubs", was |-> rows, is |-> rows, left |-> Ready]
<1>1. req' = [req EXCEPT ![r] = h] /\ starts' = starts + 1
  BY DEF PollOnce, Enter
<1>2. UNCHANGED <<account, answers, skewed>>
  BY DEF PollOnce, healthVars
<1>3. /\ "at" \in DOMAIN h /\ h.at = "ask hubs" /\ h.was = rows /\ h.is = rows /\ h.left = Ready
      /\ h = [at |-> h.at, was |-> h.was, is |-> h.is, left |-> h.left]
  OBVIOUS
<1>4. Ready \subseteq Accounts /\ DOMAIN rows = Ready /\ \A a \in Ready : rows[a] = account[a]
  BY DEF Ready
<1>5. rows = [a \in DOMAIN rows |-> rows[a]]
  OBVIOUS
<1> HIDE DEF h, rows
<1>6. ASSUME NEW a \in Ready PROVE PolledOK(a, account[a], account[a], Ready, answers, skewed)
  <2>1. a \in Accounts /\ account[a] \in AccountRows
    BY <1>4 DEF HealthInv
  <2>2. a \notin skewed => PairOK(a, account[a], answers)
    BY <2>1 DEF HealthInv, HealthIsAnAnswer, PairOK, Answer
  <2> QED
    BY <2>1, <2>2 DEF PolledOK, HealthInv
<1>7. PassOK(h, answers, skewed)
  BY <1>3, <1>4, <1>5, <1>6 DEF PassOK
<1>8. HealthLoadOK(h, answers, skewed)
  BY <1>3, <1>7 DEF HealthLoadOK, Carrying
<1>9. starts' \in {starts, starts + 1}
  BY <1>1
<1> QED
  BY <1>1, <1>2, <1>3, <1>8, <1>9, HealthStays

(* A hub does not answer: its row stays as loaded.                         *)
LEMMA UnreachableKeeps ==
    ASSUME HealthInv, HandlersOK, NEW r \in Requests, NEW a \in Accounts, Unreachable(r, a)
    PROVE  HealthInv'
<1> DEFINE g == req[r]
           h == [g EXCEPT !.left = @ \ {a}]
<1>1. /\ g.at = "ask hubs" /\ req' = [req EXCEPT ![r] = h] /\ starts' \in {starts, starts + 1}
      /\ UNCHANGED <<account, answers, skewed>>
  BY DEF Unreachable, Become, healthVars
<1>2. PassOK(g, answers, skewed)
  BY <1>1 DEF HealthInv, HealthLoadOK
<1>3. /\ "at" \in DOMAIN h /\ h.at = "ask hubs" /\ h.was = g.was /\ h.is = g.is
      /\ h.left = g.left \ {a}
      /\ h = [at |-> h.at, was |-> h.was, is |-> h.is, left |-> h.left]
  <2>1. g = [at |-> g.at, was |-> g.was, is |-> g.is, left |-> g.left]
    BY <1>2 DEF PassOK
  <2> HIDE DEF g
  <2>2. h = [at |-> g.at, was |-> g.was, is |-> g.is, left |-> g.left \ {a}]
    BY <2>1
  <2> HIDE DEF h
  <2> QED
    BY <1>1, <2>2
<1> HIDE DEF h, g
<1>4. \A b \in DOMAIN h.is : PolledOK(b, h.was[b], h.is[b], h.left, answers, skewed)
  BY <1>2, <1>3 DEF PassOK, PolledOK
<1>5. PassOK(h, answers, skewed)
  BY <1>2, <1>3, <1>4 DEF PassOK
<1>6. HealthLoadOK(h, answers, skewed)
  BY <1>3, <1>5 DEF HealthLoadOK, Carrying
<1> QED
  BY <1>1, <1>3, <1>6, HealthStays

(* What an answer makes of what a pass carries.                            *)
Polled(g, a, l, n) == [g EXCEPT !.left = @ \ {a}, !.is[a].loggedIn = l, !.is[a].polled = n]

(* Of the rows a pass carries it changes one, of which it sets two columns.*)
LEMMA PolledLoad ==
    ASSUME NEW g, g = [at |-> g.at, was |-> g.was, is |-> g.is, left |-> g.left],
           g.is = [b \in DOMAIN g.is |-> g.is[b]], NEW a \in DOMAIN g.is,
           g.is[a] \in AccountRows, NEW l, NEW n
    PROVE  Polled(g, a, l, n)
             = [at |-> g.at, was |-> g.was, left |-> g.left \ {a},
                is |-> [g.is EXCEPT ![a] = [status |-> g.is[a].status, loggedIn |-> l,
                                            polled |-> n, code |-> g.is[a].code]]]
<1>a. PICK at, was, is, left : at = g.at /\ was = g.was /\ is = g.is /\ left = g.left
  OBVIOUS
<1>b. /\ g = [at |-> at, was |-> was, is |-> is, left |-> left]
      /\ is = [b \in DOMAIN is |-> is[b]] /\ a \in DOMAIN is /\ is[a] \in AccountRows
  BY <1>a
<1>1. PICK g1 : g1 = [g EXCEPT !.left = @ \ {a}]
  OBVIOUS
<1>2. g1 = [at |-> at, was |-> was, is |-> is, left |-> left \ {a}]
  BY <1>b, <1>1
<1>3. PICK row1 : row1 = [is[a] EXCEPT !.loggedIn = l]
  OBVIOUS
<1>4. PICK is1 : is1 = [is EXCEPT ![a] = row1]
  OBVIOUS
<1>5. PICK g2 : g2 = [g1 EXCEPT !.is[a].loggedIn = l]
  OBVIOUS
<1>6. g2 = [at |-> at, was |-> was, is |-> is1, left |-> left \ {a}]
  BY <1>b, <1>2, <1>3, <1>4, <1>5
<1>7. DOMAIN is1 = DOMAIN is /\ is1[a] = row1 /\ is1 = [b \in DOMAIN is1 |-> is1[b]]
  BY <1>b, <1>4
<1>8. PICK row2 : row2 = [row1 EXCEPT !.polled = n]
  OBVIOUS
<1>9. PICK is2 : is2 = [is1 EXCEPT ![a] = row2]
  OBVIOUS
<1>10. [g2 EXCEPT !.is[a].polled = n] = [at |-> at, was |-> was, is |-> is2, left |-> left \ {a}]
  BY <1>6, <1>7, <1>8, <1>9
<1>11. is2 = [is EXCEPT ![a] = row2]
  BY <1>b, <1>4, <1>7, <1>9
<1>12. row2 = [status |-> is[a].status, loggedIn |-> l, polled |-> n, code |-> is[a].code]
  <2>1. is[a] = [status |-> is[a].status, loggedIn |-> is[a].loggedIn, polled |-> is[a].polled,
                 code |-> is[a].code]
    BY <1>b DEF AccountRows
  <2>2. row1 = [status |-> is[a].status, loggedIn |-> l, polled |-> is[a].polled,
                code |-> is[a].code]
    BY <1>3, <2>1
  <2> QED
    BY <1>8, <2>2
<1>13. Polled(g, a, l, n) = [g2 EXCEPT !.is[a].polled = n]
  BY <1>1, <1>5 DEF Polled
<1> QED
  BY <1>a, <1>10, <1>11, <1>12, <1>13

(* A hub answers, at a time of its own (fetch_hub_status).                 *)
LEMMA FetchStatusKeeps ==
    ASSUME HealthInv, HandlersOK, NEW r \in Requests, NEW a \in Accounts,
           NEW loggedIn \in BOOLEAN, FetchStatus(r, a, loggedIn)
    PROVE  HealthInv'
<1> DEFINE g == req[r]
           now == Cardinality(answers) + 1
           h == [g EXCEPT !.left = @ \ {a}, !.is[a].loggedIn = loggedIn, !.is[a].polled = now]
           x == [acct |-> a, loggedIn |-> loggedIn, polled |-> now]
           row == [status |-> g.is[a].status, loggedIn |-> loggedIn, polled |-> now,
                   code |-> g.is[a].code]
<1>1. /\ g.at = "ask hubs" /\ a \in g.left /\ now <= MaxAnswers
      /\ req' = [req EXCEPT ![r] = h] /\ starts' \in {starts, starts + 1}
      /\ answers' = answers \cup {x} /\ UNCHANGED <<account, skewed>>
  BY DEF FetchStatus, Become
<1>2. PassOK(g, answers, skewed)
  BY <1>1 DEF HealthInv, HealthLoadOK
<1>3. /\ IsFiniteSet(answers) /\ Cardinality(answers) \in Nat
      /\ now \in Nat /\ now # 0 /\ Cardinality(answers) <= now /\ now \in 1 .. now
  BY FS_CardinalityType DEF HealthInv, AnswersOK
<1>4. now \in 0 .. MaxAnswers
  <2>1. now \in Nat /\ now <= MaxAnswers
    BY <1>1, <1>3
  <2> HIDE DEF now
  <2> QED
    BY <2>1, HealthAssumption
<1>5. \A n \in Nat : n <= Cardinality(answers) => n # now
  BY <1>3
<1>6. \A n \in 1 .. Cardinality(answers) : n \in 1 .. now /\ n # now
  BY <1>3
<1>7. /\ x.polled = now /\ x.acct = a /\ x.loggedIn = loggedIn
      /\ x = [acct |-> x.acct, loggedIn |-> x.loggedIn, polled |-> x.polled]
  OBVIOUS
<1>8. row.loggedIn = loggedIn /\ row.polled = now /\ Answer(a, row) = x
  BY DEF Answer
<1>9. a \in DOMAIN g.is /\ g.is[a] \in AccountRows
  BY <1>1, <1>2 DEF PassOK, PolledOK
<1>10. /\ "at" \in DOMAIN h /\ h.at = "ask hubs" /\ h.was = g.was /\ h.left = g.left \ {a}
       /\ h.is = [g.is EXCEPT ![a] = row]
       /\ h = [at |-> h.at, was |-> h.was, is |-> h.is, left |-> h.left]
  <2>1. /\ g = [at |-> g.at, was |-> g.was, is |-> g.is, left |-> g.left]
        /\ g.is = [b \in DOMAIN g.is |-> g.is[b]]
    BY <1>2 DEF PassOK
  <2>2. h = [at |-> g.at, was |-> g.was, left |-> g.left \ {a}, is |-> [g.is EXCEPT ![a] = row]]
    <3> HIDE DEF h, g, now, row
    <3>1. Polled(g, a, loggedIn, now)
            = [at |-> g.at, was |-> g.was, left |-> g.left \ {a},
               is |-> [g.is EXCEPT ![a] = [status |-> g.is[a].status, loggedIn |-> loggedIn,
                                           polled |-> now, code |-> g.is[a].code]]]
      BY <1>9, <2>1, PolledLoad
    <3> QED
      BY <3>1 DEF h, row, Polled
  <2> HIDE DEF h, g, now, row
  <2> QED
    BY <1>1, <2>2
<1>11. /\ g.was[a] \in AccountRows /\ row.status = g.was[a].status /\ row.code = g.was[a].code
       /\ g.was[a].polled \in Nat /\ g.was[a].polled <= Cardinality(answers)
       /\ a \notin skewed => PairOK(a, g.was[a], answers)
  BY <1>2, <1>9, HealthAssumption DEF PassOK, PolledOK, AccountRows
<1>12. row \in AccountRows
  BY <1>4, <1>9 DEF AccountRows
<1> HIDE DEF h, row, x, now, g
<1>13. x \notin answers
  BY <1>6, <1>7 DEF HealthInv, AnswersOK
<1>14. IsFiniteSet(answers') /\ Cardinality(answers') = now
  BY <1>1, <1>3, <1>13, FS_AddElement DEF now
<1>15. AnswersOK'
  <2>1. ASSUME NEW y \in answers'
        PROVE  /\ y.acct \in Accounts /\ y.loggedIn \in BOOLEAN
               /\ y = [acct |-> y.acct, loggedIn |-> y.loggedIn, polled |-> y.polled]
               /\ y.polled \in 1 .. now
    <3>1. CASE y \in answers
      BY <1>6, <3>1 DEF HealthInv, AnswersOK
    <3>2. CASE y = x
      BY <1>3, <1>7, <3>2
    <3> QED
      BY <1>1, <3>1, <3>2
  <2>2. \A y \in answers : y.polled # x.polled
    BY <1>6, <1>7 DEF HealthInv, AnswersOK
  <2>3. \A y, z \in answers' : y.polled = z.polled => y = z
    BY <1>1, <2>2 DEF HealthInv, AnswersOK
  <2> QED
    BY <1>1, <1>14, <2>1, <2>3 DEF AnswersOK
<1>16. /\ answers \subseteq answers' /\ Cardinality(answers') \in Nat
       /\ Cardinality(answers) <= Cardinality(answers')
  BY <1>1, <1>3, <1>14
<1>17. PolledOK(a, g.was[a], row, g.left \ {a}, answers', skewed)
  <2>1. a \notin skewed => PairOK(a, g.was[a], answers')
    BY <1>11, <1>16, PairGrows
  <2>2. g.was[a].polled <= Cardinality(answers') /\ row.polled # g.was[a].polled /\ row.polled # 0
    BY <1>3, <1>5, <1>8, <1>11, <1>14
  <2>3. Answer(a, row) \in answers'
    BY <1>1, <1>8
  <2> QED
    BY <1>11, <1>12, <2>1, <2>2, <2>3 DEF PolledOK
<1>18. ASSUME NEW b \in DOMAIN h.is
       PROVE  PolledOK(b, h.was[b], h.is[b], h.left, answers', skewed)
  <2>1. b \in DOMAIN g.is
    BY <1>10
  <2>2. CASE b = a
    BY <1>9, <1>10, <1>17, <2>2
  <2>3. CASE b # a
    <3>1. h.is[b] = g.is[b] /\ h.was[b] = g.was[b]
      BY <1>10, <2>1, <2>3
    <3>2. PolledOK(b, g.was[b], g.is[b], g.left, answers, skewed)
      BY <1>2, <2>1 DEF PassOK
    <3>3. PolledOK(b, g.was[b], g.is[b], g.left, answers', skewed)
      BY <1>3, <1>16, <3>2, PolledGrows
    <3> QED
      BY <1>10, <3>1, <3>3 DEF PolledOK
  <2> QED
    BY <2>2, <2>3
<1>19. PassOK(h, answers', skewed)
  <2>1. h.left \subseteq DOMAIN h.is /\ DOMAIN h.is \subseteq Accounts
    BY <1>2, <1>10 DEF PassOK
  <2>2. h.is = [b \in DOMAIN h.is |-> h.is[b]]
    BY <1>10
  <2> QED
    BY <1>10, <1>18, <2>1, <2>2 DEF PassOK
<1>20. HealthLoadOK(h, answers', skewed')
  BY <1>1, <1>10, <1>19 DEF HealthLoadOK, Carrying
<1>21. HealthIsAnAnswer'
  BY <1>1 DEF HealthInv, HealthIsAnAnswer
<1>22. /\ account' \in [Accounts -> AccountRows] /\ skewed \subseteq skewed'
       /\ \A b \in Accounts : account'[b].polled <= Cardinality(answers')
  <2>1. ASSUME NEW b \in Accounts PROVE account[b].polled <= Cardinality(answers')
    <3>1. account[b].polled \in Nat /\ account[b].polled <= Cardinality(answers)
      BY HealthAssumption DEF HealthInv, AccountRows
    <3> QED
      BY <1>3, <1>16, <3>1
  <2> QED
    BY <1>1, <2>1 DEF HealthInv
<1> QED
  BY <1>1, <1>10, <1>15, <1>16, <1>20, <1>21, <1>22, HealthMoves

(* What the UPDATE of a pass makes of a row as it stands.                  *)
LEMMA SavedHealth ==
    ASSUME NEW was \in AccountRows, NEW is \in AccountRows, NEW now \in AccountRows,
           is.status = was.status, is.code = was.code, is.polled # was.polled
    PROVE  /\ Save(was, is, now) \in AccountRows
           /\ Save(was, is, now).polled = is.polled
           /\ Save(was, is, now).loggedIn
                = IF is.loggedIn = was.loggedIn THEN now.loggedIn ELSE is.loggedIn
<1> DEFINE s == Save(was, is, now)
           l == IF is.loggedIn = was.loggedIn THEN now.loggedIn ELSE is.loggedIn
<1>1. DOMAIN now = {"status", "loggedIn", "polled", "code"}
  BY DEF AccountRows
<1>2. s = [c \in {"status", "loggedIn", "polled", "code"} |->
              IF is[c] = was[c] THEN now[c] ELSE is[c]]
  BY <1>1 DEF Save
<1> HIDE DEF s
<1>3. s = [status |-> now.status, loggedIn |-> l, polled |-> is.polled, code |-> now.code]
  BY <1>2
<1>4. /\ now.status \in {"ready", "deleting", "gone"} /\ l \in BOOLEAN \cup {Unknown}
      /\ is.polled \in 0 .. MaxAnswers /\ now.code \in Numbers
  BY DEF AccountRows
<1> HIDE DEF l
<1>5. s \in AccountRows /\ s.polled = is.polled /\ s.loggedIn = l
  BY <1>3, <1>4 DEF AccountRows
<1> QED
  BY <1>5 DEF s, l

(* A pass commits: over a row as it loaded it, the pair it leaves is one   *)
(* answer; over another pass's answer, the account is marked overwritten.  *)
LEMMA CommitPassKeeps ==
    ASSUME HealthInv, HandlersOK, NEW r \in Requests, CommitPass(r)
    PROVE  HealthInv'
<1> DEFINE g == req[r]
           changed == {a \in DOMAIN g.is : g.is[a] # g.was[a]}
<1>1. g.at = "ask hubs" /\ End(r) /\ UNCHANGED answers
  BY DEF CommitPass
<1>2. PassOK(g, answers, skewed)
  BY <1>1 DEF HealthInv, HealthLoadOK
<1>3. CASE UNCHANGED <<account, skewed>>
  BY <1>1, <1>3, HealthEnds
<1>4. CASE ~UNCHANGED <<account, skewed>>
  <2>1. /\ account' = [a \in Accounts |->
               IF a \in changed THEN Save(g.was[a], g.is[a], account[a]) ELSE account[a]]
        /\ skewed' = skewed \cup {a \in changed : account[a].polled # g.was[a].polled}
    BY <1>4 DEF CommitPass
  <2>2. ASSUME NEW a \in changed
        PROVE  /\ g.was[a] \in AccountRows /\ g.is[a] \in AccountRows /\ a \in Accounts
               /\ g.is[a].status = g.was[a].status /\ g.is[a].code = g.was[a].code
               /\ g.is[a].polled # g.was[a].polled /\ g.is[a].polled # 0
               /\ Answer(a, g.is[a]) \in answers
               /\ a \notin skewed => PairOK(a, g.was[a], answers)
    BY <1>2 DEF PassOK, PolledOK
  <2>3. account \in [Accounts -> AccountRows] /\ AnswersOK /\ HealthIsAnAnswer
    BY DEF HealthInv
  <2> HIDE DEF g, changed
  <2>4. ASSUME NEW a \in changed
        PROVE  LET s == Save(g.was[a], g.is[a], account[a])
               IN /\ s \in AccountRows /\ s.polled = g.is[a].polled
                  /\ s.loggedIn = IF g.is[a].loggedIn = g.was[a].loggedIn
                                  THEN account[a].loggedIn ELSE g.is[a].loggedIn
    <3>1. PICK was \in AccountRows, is \in AccountRows, now \in AccountRows :
                   was = g.was[a] /\ is = g.is[a] /\ now = account[a]
      BY <2>2, <2>3
    <3>2. is.status = was.status /\ is.code = was.code /\ is.polled # was.polled
      BY <2>2, <3>1
    <3>3. /\ Save(was, is, now) \in AccountRows /\ Save(was, is, now).polled = is.polled
          /\ Save(was, is, now).loggedIn
               = IF is.loggedIn = was.loggedIn THEN now.loggedIn ELSE is.loggedIn
      BY <3>2, SavedHealth
    <3> QED
      BY <3>1, <3>3
  <2>5. ASSUME NEW a \in Accounts
        PROVE  /\ account'[a] \in AccountRows /\ account'[a].polled <= Cardinality(answers)
    <3>1. CASE a \in changed
      <4>1. account'[a] = Save(g.was[a], g.is[a], account[a])
        BY <2>1, <3>1
      <4>2. account'[a] \in AccountRows /\ account'[a].polled = g.is[a].polled
        BY <2>4, <3>1, <4>1
      <4>3. g.is[a].polled = Answer(a, g.is[a]).polled /\ Answer(a, g.is[a]) \in answers
        BY <2>2, <3>1 DEF Answer
      <4>4. g.is[a].polled \in 1 .. Cardinality(answers) /\ Cardinality(answers) \in Nat
        BY <2>3, <4>3, FS_CardinalityType DEF AnswersOK
      <4> QED
        BY <4>2, <4>4
    <3>2. CASE a \notin changed
      BY <2>1, <2>3, <3>2 DEF HealthInv
    <3> QED
      BY <3>1, <3>2
  <2>6. ASSUME NEW a \in Accounts \ skewed' PROVE PairOK(a, account'[a], answers)
    <3>0. PairOK(a, account[a], answers)
      BY <2>1, <2>3 DEF HealthIsAnAnswer, PairOK, Answer
    <3>1. CASE a \in changed
      <4> DEFINE was == g.was[a]
                 is == g.is[a]
                 now == account[a]
      <4>1. now.polled = was.polled /\ PairOK(a, was, answers)
        BY <2>1, <2>2, <3>1
      <4>2. now.loggedIn = was.loggedIn
        <5>1. CASE was.polled = 0
          BY <3>0, <4>1, <5>1 DEF PairOK
        <5>2. CASE was.polled # 0
          <6>1. Answer(a, now) \in answers /\ Answer(a, was) \in answers
            BY <3>0, <4>1, <5>2 DEF PairOK
          <6>2. Answer(a, now).polled = now.polled /\ Answer(a, was).polled = was.polled
            BY DEF Answer
          <6>3. Answer(a, now) = Answer(a, was)
            BY <2>3, <4>1, <6>1, <6>2 DEF AnswersOK
          <6>4. Answer(a, now).loggedIn = now.loggedIn /\ Answer(a, was).loggedIn = was.loggedIn
            BY DEF Answer
          <6> QED
            BY <6>3, <6>4
        <5> QED
          BY <5>1, <5>2
      <4>3. account'[a] = Save(was, is, now)
        BY <2>1, <3>1
      <4>4. account'[a].polled = is.polled /\ account'[a].loggedIn = is.loggedIn
        BY <2>4, <3>1, <4>2, <4>3
      <4>5. Answer(a, account'[a]) = Answer(a, is)
        BY <4>4 DEF Answer
      <4>6. is.polled # 0 /\ Answer(a, is) \in answers
        BY <2>2, <3>1
      <4> QED
        BY <4>4, <4>5, <4>6 DEF PairOK
    <3>2. CASE a \notin changed
      BY <2>1, <3>0, <3>2
    <3> QED
      BY <3>1, <3>2
  <2>7. HealthIsAnAnswer'
    BY <1>1, <2>6 DEF HealthIsAnAnswer, PairOK, Answer
  <2>8. /\ account' \in [Accounts -> AccountRows]
        /\ \A a \in Accounts : account'[a].polled <= Cardinality(answers')
    BY <1>1, <2>1, <2>5
  <2>9. AnswersOK'
    BY <1>1, <2>3 DEF AnswersOK
  <2>10. Cardinality(answers) \in Nat
    BY <2>3, FS_CardinalityType DEF AnswersOK
  <2>11. /\ answers \subseteq answers' /\ skewed \subseteq skewed'
         /\ Cardinality(answers) <= Cardinality(answers')
    <3>1. Cardinality(answers) <= Cardinality(answers)
      BY <2>10
    <3>2. answers' = answers /\ skewed \subseteq skewed'
      BY <1>1, <2>1
    <3> QED
      BY <3>1, <3>2
  <2>12. /\ "at" \in DOMAIN Free /\ HealthLoadOK(Free, answers', skewed')
         /\ req' = [req EXCEPT ![r] = Free] /\ starts' \in {starts, starts + 1}
    BY <1>1 DEF HealthLoadOK, Free, Carrying, End, Become
  <2> QED
    BY <2>7, <2>8, <2>9, <2>11, <2>12, HealthMoves
<1> QED
  BY <1>3, <1>4

(* A re-login reads the row of its account (relogin_start, relogin_poll).  *)
LEMMA ReloginEnters ==
    ASSUME HealthInv, HandlersOK, NEW r \in Requests, NEW a \in Accounts,
           ReloginStart(r, a) \/ ReloginPoll(r, a)
    PROVE  HealthInv'
<1>1. account[a] \in AccountRows /\ account[a].code \in Numbers /\ starts \in Nat
  BY DEF HealthInv, AccountRows, HandlersOK
<1>2. PICK at, code : /\ at \in {"keep code", "redeem"} /\ code \in {starts + 1, account[a].code}
                      /\ Enter(r, [at |-> at, acct |-> a, was |-> account[a], code |-> code])
  BY DEF ReloginStart, ReloginPoll
<1> DEFINE h == [at |-> at, acct |-> a, was |-> account[a], code |-> code]
<1>3. starts + 1 \in Numbers
  <2>1. starts < MaxStarts
    BY <1>2 DEF Enter
  <2> QED
    BY <1>1, <2>1, HandlersAssumption DEF Numbers
<1>4. code \in Numbers
  BY <1>1, <1>2, <1>3
<1>5. /\ "at" \in DOMAIN h /\ h.at = at /\ h.acct = a /\ h.was = account[a] /\ h.code = code
      /\ req' = [req EXCEPT ![r] = h] /\ starts' \in {starts, starts + 1}
  BY <1>2 DEF Enter
<1>6. UNCHANGED <<account, answers, skewed>>
  BY DEF ReloginStart, ReloginPoll, healthVars
<1> HIDE DEF h
<1>7. HealthLoadOK(h, answers, skewed)
  BY <1>1, <1>2, <1>4, <1>5 DEF HealthLoadOK
<1> QED
  BY <1>5, <1>6, <1>7, HealthStays

(* A re-login goes on with the row and the code it has.                    *)
LEMMA ReloginGoesOn ==
    ASSUME HealthInv, HandlersOK, NEW r \in Requests, NEW at \in Carrying,
           req[r].at \in Carrying, Become(r, [req[r] EXCEPT !.at = at]),
           UNCHANGED <<account, answers, skewed>>
    PROVE  HealthInv'
<1> DEFINE g == req[r]
           h == [g EXCEPT !.at = at]
<1>1. g.acct \in Accounts /\ g.was \in AccountRows /\ g.code \in Numbers
  BY DEF HealthInv, HealthLoadOK
<1>2. "at" \in DOMAIN h /\ h.at = at /\ h.acct = g.acct /\ h.was = g.was /\ h.code = g.code
  BY DEF HandlersOK
<1>3. req' = [req EXCEPT ![r] = h] /\ starts' \in {starts, starts + 1}
  BY DEF Become
<1> HIDE DEF h, g
<1>4. HealthLoadOK(h, answers, skewed)
  BY <1>1, <1>2 DEF HealthLoadOK, Carrying
<1> QED
  BY <1>2, <1>3, <1>4, HealthStays

(* Every step of the poller and the re-logins keeps the recorded health.   *)
LEMMA HealthNextKeeps == HealthInv /\ HandlersOK /\ HealthNext => HealthInv'
<1> SUFFICES ASSUME HealthInv, HandlersOK, HealthNext PROVE HealthInv'
  OBVIOUS
<1>1. CASE \E a \in Accounts : AccountLeaves(a)
  BY <1>1, AccountLeavesKeeps
<1>2. ASSUME NEW r \in Requests, PollerStep(r) PROVE HealthInv'
  BY <1>2, PollOnceKeeps, CommitPassKeeps, UnreachableKeeps, FetchStatusKeeps DEF PollerStep
<1>3. ASSUME NEW r \in Requests, ReloginStep(r) PROVE HealthInv'
  <2>1. CASE \E a \in Accounts : ReloginStart(r, a) \/ ReloginPoll(r, a)
    BY <2>1, ReloginEnters
  <2>2. CASE KeepCode(r)
    <3>1. /\ req[r].at = "keep code" /\ SaveCode(r, req[r].code) /\ UNCHANGED <<answers, skewed>>
      BY <2>2 DEF KeepCode
    <3>2. req[r].code \in Numbers
      BY <3>1 DEF HealthInv, HealthLoadOK
    <3> QED
      BY <3>1, <3>2, SaveCodeKeeps
  <2>3. CASE ClearCode(r)
    <3>1. /\ req[r].at \in Carrying /\ SaveCode(r, 0) /\ UNCHANGED <<answers, skewed>>
      BY <2>3 DEF ClearCode, Carrying
    <3>2. 0 \in Numbers
      BY HandlersAssumption DEF Numbers
    <3> QED
      BY <3>1, <3>2, SaveCodeKeeps
  <2>4. CASE FlowNotStarted(r) \/ PollEnds(r) \/ StoreTokenFails(r)
    <3>1. End(r) /\ UNCHANGED <<account, answers, skewed>>
      BY <2>4 DEF FlowNotStarted, PollEnds, StoreTokenFails, healthVars
    <3> QED
      BY <3>1, HealthEnds
  <2>5. CASE Redeem(r) \/ ReloginFails(r) \/ InstallToken(r) \/ StoreToken(r)
    <3>1. \E at \in Carrying : Become(r, [req[r] EXCEPT !.at = at])
      BY <2>5 DEF Redeem, AuthorizedTo, ReloginFails, InstallToken, StoreToken, Carrying
    <3>2. req[r].at \in Carrying /\ UNCHANGED <<account, answers, skewed>>
      BY <2>5 DEF Redeem, ReloginFails, InstallToken, StoreToken, Carrying, healthVars
    <3> QED
      BY <3>1, <3>2, ReloginGoesOn
  <2> QED
    BY <1>3, <2>1, <2>2, <2>3, <2>4, <2>5 DEF ReloginStep
<1> QED
  BY <1>1, <1>2, <1>3 DEF HealthNext

(* The handlers of routes are at steps of routes.                          *)
LEMMA CatalogHandle ==
    ASSUME CatalogNext
    PROVE  Handles(RouteSteps \cup {"delete route"})
<1> DEFINE steps == RouteSteps \cup {"delete route"}
<1>1. CASE CascadeRoutes
  BY <1>1 DEF CascadeRoutes, Handles
<1>2. ASSUME NEW r \in Requests, CatalogRequest(r) PROVE Handles(steps)
  <2>1. \E h : "at" \in DOMAIN h /\ h.at \in steps /\ Enter(r, h)
    BY <1>2 DEF CatalogRequest, RegisterHub, AddRoute, DeleteRoute, RenameRoute, RouteSteps
  <2> QED
    BY <2>1, GoesTo
<1>3. ASSUME NEW r \in Requests, ReadRoutes(r) PROVE Handles(steps)
  <2>1. \E h : "at" \in DOMAIN h /\ h.at \in steps /\ Become(r, h)
    BY <1>3 DEF ReadRoutes, RouteSteps
  <2> QED
    BY <2>1, GoesTo
<1>4. ASSUME NEW r \in Requests,
             WiringFails(r) \/ StoreCatalog(r) \/ InsertRoute(r) \/ WriteRoute(r) \/ DropRoute(r)
      PROVE  Handles(steps)
  BY <1>4, EndsHere DEF WiringFails, StoreCatalog, InsertRoute, WriteRoute, DropRoute
<1> QED
  BY <1>1, <1>2, <1>3, <1>4 DEF CatalogNext, CatalogStep

(* The invariant holds when the control plane starts.                      *)
LEMMA InitHealth == Init => HealthInv
<1> SUFFICES ASSUME Init PROVE HealthInv
  OBVIOUS
<1>1. /\ req = [r \in Requests |-> Free] /\ answers = {}
      /\ account = [a \in Accounts |-> [status |-> "ready", loggedIn |-> Unknown,
                                        polled |-> 0, code |-> 0]]
  BY DEF Init, HandlersInit, HealthInit
<1>2. AnswersOK
  BY <1>1, FS_EmptySet, HealthAssumption DEF AnswersOK
<1>3. 0 \in 0 .. MaxAnswers /\ 0 \in Numbers /\ 0 <= 0
  BY HealthAssumption, HandlersAssumption DEF Numbers
<1>4. account \in [Accounts -> AccountRows]
  BY <1>1, <1>3 DEF AccountRows
<1>5. \A a \in Accounts : account[a].polled = 0 /\ account[a].loggedIn = Unknown
  BY <1>1
<1>6. Cardinality(answers) = 0
  BY <1>1, FS_EmptySet
<1>7. \A q \in Requests : HealthLoadOK(req[q], answers, skewed)
  BY <1>1 DEF HealthLoadOK, Free, Carrying
<1> QED
  BY <1>2, <1>3, <1>4, <1>5, <1>6, <1>7 DEF HealthInv, HealthIsAnAnswer

(* The invariant of health is inductive, next to that of the handlers.     *)
LEMMA StepHealth == UsersInv /\ HealthInv /\ [Next]_vars => HealthInv'
<1> SUFFICES ASSUME UsersInv, HealthInv, [Next]_vars PROVE HealthInv'
  OBVIOUS
<1>1. HandlersOK
  BY DEF UsersInv, TablesOK
<1>2. ASSUME UNCHANGED healthVars, UNCHANGED handlerVars PROVE HealthInv'
  <2>1. Handles({}) /\ {} \cap HubSteps = {} /\ UNCHANGED <<account, answers, skewed>>
    BY <1>2 DEF Handles, healthVars
  <2> QED
    BY <1>1, <2>1, HealthElseKeeps
<1>3. CASE UsersNext /\ UNCHANGED <<catalogVars, healthVars, tokenVars>>
  <2>1. /\ UNCHANGED <<account, answers, skewed>> /\ UserSteps \cap HubSteps = {}
        /\ Handles(UserSteps)
    BY <1>1, <1>3, UsersHandle DEF UserSteps, HubSteps, Carrying, healthVars
  <2> QED
    BY <1>1, <2>1, HealthElseKeeps
<1>4. CASE CatalogNext /\ UNCHANGED <<userVars, healthVars, tokenVars>>
  <2>1. /\ UNCHANGED <<account, answers, skewed>>
        /\ (RouteSteps \cup {"delete route"}) \cap HubSteps = {}
        /\ Handles(RouteSteps \cup {"delete route"})
    BY <1>4, CatalogHandle DEF RouteSteps, HubSteps, Carrying, healthVars
  <2> QED
    BY <1>1, <2>1, HealthElseKeeps
<1>5. CASE HealthNext
  BY <1>1, <1>5, HealthNextKeeps
<1>6. CASE TokensNext /\ UNCHANGED <<handlerVars, userVars, catalogVars, healthVars>>
  BY <1>2, <1>6
<1>7. CASE UNCHANGED vars
  BY <1>2, <1>7 DEF vars
<1> QED
  BY <1>3, <1>4, <1>5, <1>6, <1>7 DEF Next

(* What a row says of its hub's login, with the time, is an answer the hub *)
(* gave, or that it was never asked: for any number of replicas polling,   *)
(* accounts and re-logins, unless a pass commits over another one's answer *)
(* (_poll_once, hub_status_poller.py:19-29, 81-92).                        *)
THEOREM HealthStaysAnAnswer == Spec => []HealthIsAnAnswer
<1>1. Init => UsersInv /\ HealthInv
  BY InitUsers, InitHealth
<1>2. UsersInv /\ HealthInv /\ [Next]_vars => (UsersInv /\ HealthInv)'
  BY StepUsers, StepHealth
<1>3. HealthInv => HealthIsAnAnswer
  BY DEF HealthInv
<1> QED
  BY <1>1, <1>2, <1>3, PTL DEF Spec

-----------------------------------------------------------------------------
(* The types of what no invariant above covers.                            *)
UserTypes ==
    standing \subseteq UserTenants /\ signedIn \subseteq Usernames /\ stale \in BOOLEAN

MissedTypes == missed \in [Requests -> SUBSET Models]

HubTypes ==
    /\ hub \in [Accounts -> Numbers] /\ vault \in [Accounts -> Numbers]
    /\ redeemed \subseteq Numbers /\ skewed \subseteq Accounts /\ apart \subseteq Accounts

TokenTypes ==
    /\ stored \in 0 .. MaxLogins /\ newest \in 0 .. MaxLogins /\ logins \in 0 .. MaxLogins
    /\ cached \subseteq ApiTokens /\ holder \subseteq Coroutines
    /\ work \in [Coroutines -> Works] /\ crossed \in BOOLEAN

TypesInv ==
    /\ UsersInv /\ CatalogInv /\ HealthInv
    /\ starts <= MaxStarts /\ UserTypes /\ MissedTypes /\ HubTypes /\ TokenTypes

(* Together they are the type invariant: an id is below the numbers in use.*)
LEMMA TypesSuffice == TypesInv => TypeOK
<1> SUFFICES ASSUME TypesInv PROVE TypeOK
  OBVIOUS
<1>1. starts \in Nat /\ starts <= MaxStarts /\ starts \in Numbers
  BY HandlersAssumption DEF TypesInv, UsersInv, TablesOK, HandlersOK, Numbers
<1>2. \A n \in Nat : n <= starts => n \in Numbers
  BY <1>1, HandlersAssumption DEF Numbers
<1>3. users \subseteq [id : Numbers, name : Usernames, role : {"admin", "customer"},
                       tenant : UserTenants \cup {Nil}, disabled : BOOLEAN]
  BY <1>2 DEF TypesInv, UsersInv, TablesOK, RowsOK, UserRows
<1>4. routes \subseteq [id : Numbers \X Models, name : Models, scope : {"platform", "tenant"},
                        tied : BOOLEAN, vendor : BOOLEAN]
  <2> SUFFICES ASSUME NEW x \in routes
               PROVE  x \in [id : Numbers \X Models, name : Models,
                             scope : {"platform", "tenant"}, tied : BOOLEAN, vendor : BOOLEAN]
    OBVIOUS
  <2>1. x \in RouteRows /\ x.id[1] <= starts
    BY DEF TypesInv, CatalogInv, RoutesOK
  <2>2. x.id \in Nat \X Models /\ x.id[1] \in Numbers
    BY <1>2, <2>1 DEF RouteRows
  <2>3. x.id \in Numbers \X Models
    BY <2>2
  <2> QED
    BY <2>1, <2>3 DEF RouteRows
<1>5. vouched \subseteq Models
  BY DEF TypesInv, CatalogInv, RoutesOK, RegistrationComplete, PooledNames, Pooled, RouteRows
<1>6. account \in [Accounts -> [status : {"ready", "deleting", "gone"},
                                loggedIn : BOOLEAN \cup {Unknown},
                                polled : 0 .. MaxAnswers, code : Numbers]]
  BY DEF TypesInv, HealthInv, AccountRows
<1>7. answers \subseteq [acct : Accounts, loggedIn : BOOLEAN, polled : 1 .. MaxAnswers]
  <2> SUFFICES ASSUME NEW x \in answers
               PROVE  x \in [acct : Accounts, loggedIn : BOOLEAN, polled : 1 .. MaxAnswers]
    OBVIOUS
  <2>1. AnswersOK /\ Cardinality(answers) \in Nat
    BY FS_CardinalityType DEF TypesInv, HealthInv, AnswersOK
  <2>2. /\ x.acct \in Accounts /\ x.loggedIn \in BOOLEAN
        /\ x.polled \in 1 .. Cardinality(answers) /\ Cardinality(answers) <= MaxAnswers
        /\ x = [acct |-> x.acct, loggedIn |-> x.loggedIn, polled |-> x.polled]
    BY <2>1 DEF AnswersOK
  <2>3. x.polled \in 1 .. MaxAnswers
    BY <2>1, <2>2, HealthAssumption
  <2> QED
    BY <2>2, <2>3
<1> QED
  BY <1>1, <1>3, <1>4, <1>5, <1>6, <1>7
  DEF TypeOK, TypesInv, UserTypes, MissedTypes, HubTypes, TokenTypes

-----------------------------------------------------------------------------
(* Users and their tokens.                                                 *)
LEMMA UserTypesKeep == UserTypes /\ UsersNext => UserTypes'
<1> SUFFICES ASSUME UserTypes, UsersNext PROVE UserTypes'
  OBVIOUS
<1>1. ASSUME NEW r \in Requests, UserRequest(r) \/ SeedAdmin(r) \/ CountAdmins(r)
      PROVE  UserTypes'
  <2>1. CASE UserRequest(r)
    <3>1. \A by, name, role, t : CreateUser(r, by, name, role, t) => UNCHANGED userVars
      BY DEF CreateUser
    <3>2. \A by, u, role, t, disabled :
              UpdateUser(r, by, u, role, t, disabled) => UNCHANGED userVars
      BY DEF UpdateUser
    <3>3. \A by, u : DeleteUser(r, by, u) => UNCHANGED userVars
      BY DEF DeleteUser
    <3>4. UNCHANGED userVars
      BY <2>1, <3>1, <3>2, <3>3 DEF UserRequest
    <3> QED
      BY <3>4 DEF userVars, UserTypes
  <2>2. CASE SeedAdmin(r) \/ CountAdmins(r)
    BY <2>2 DEF SeedAdmin, CountAdmins, userVars, UserTypes
  <2> QED
    BY <1>1, <2>1, <2>2
<1>2. ASSUME NEW r \in Requests, InsertUser(r) PROVE UserTypes'
  BY <1>2 DEF InsertUser, UserTypes
<1>3. ASSUME NEW r \in Requests, WriteUser(r) \/ DropUser(r) PROVE UserTypes'
  <2>1. stale' \in BOOLEAN
    BY <1>3 DEF WriteUser, DropUser, ActsFor, UserTypes
  <2> QED
    BY <1>3, <2>1 DEF WriteUser, DropUser, UserTypes
<1>4. ASSUME NEW name \in Usernames, Login(name) \/ TokenExpires(name) PROVE UserTypes'
  BY <1>4 DEF Login, TokenExpires, UserTypes
<1>5. ASSUME NEW t \in UserTenants, TenantLeaves(t) PROVE UserTypes'
  BY <1>5 DEF TenantLeaves, UserTypes
<1> QED
  BY <1>1, <1>2, <1>3, <1>4, <1>5 DEF UsersNext, UsersStep

(* Removed names are names of models.                                      *)
LEMMA MissedTypesKeep == MissedTypes /\ RoutesOK /\ CatalogNext => MissedTypes'
<1> SUFFICES ASSUME MissedTypes, RoutesOK, CatalogNext PROVE MissedTypes'
  OBVIOUS
<1>1. PooledNames(routes) \subseteq Models
  BY DEF RoutesOK, PooledNames, Pooled, RouteRows
<1>2. ASSUME NEW new, NEW models, Replace(new, models) PROVE MissedTypes'
  <2>1. PICK removed \in SUBSET Models : missed' = [q \in Requests |-> missed[q] \cup removed]
    BY <1>1, <1>2 DEF Replace
  <2> QED
    BY <2>1 DEF MissedTypes
<1>3. CASE missed' = missed
  BY <1>3 DEF MissedTypes
<1>4. CASE CascadeRoutes
  BY <1>2, <1>4 DEF CascadeRoutes
<1>5. ASSUME NEW r \in Requests, CatalogRequest(r) \/ WiringFails(r) PROVE missed' = missed
  BY <1>5 DEF CatalogRequest, RegisterHub, AddRoute, DeleteRoute, RenameRoute, WiringFails,
              catalogVars
<1>6. ASSUME NEW r \in Requests, ReadRoutes(r) PROVE MissedTypes'
  <2>1. missed' = [missed EXCEPT ![r] = {}]
    BY <1>6 DEF ReadRoutes
  <2> QED
    BY <2>1 DEF MissedTypes
<1>7. ASSUME NEW r \in Requests, StoreCatalog(r) PROVE MissedTypes'
  BY <1>2, <1>3, <1>7 DEF StoreCatalog, RolledBack, catalogVars
<1>8. ASSUME NEW r \in Requests, InsertRoute(r) \/ WriteRoute(r) PROVE MissedTypes'
  BY <1>2, <1>3, <1>8 DEF InsertRoute, WriteRoute, RolledBack, catalogVars
<1>9. ASSUME NEW r \in Requests, DropRoute(r) PROVE MissedTypes'
  BY <1>2, <1>9 DEF DropRoute
<1> QED
  BY <1>3, <1>4, <1>5, <1>6, <1>7, <1>8, <1>9 DEF CatalogNext, CatalogStep

(* Tokens of hubs are numbers of re-logins.                                *)
LEMMA HubTypesKeep == HubTypes /\ HealthInv /\ HealthNext => HubTypes'
<1> SUFFICES ASSUME HubTypes, HealthInv, HealthNext PROVE HubTypes'
  OBVIOUS
<1>1. CASE UNCHANGED <<hub, vault, redeemed, skewed, apart>>
  BY <1>1 DEF HubTypes
<1>2. ASSUME NEW r \in Requests, req[r].at \in Carrying
      PROVE  req[r].acct \in Accounts /\ req[r].code \in Numbers
  BY <1>2 DEF HealthInv, HealthLoadOK
<1>3. CASE \E a \in Accounts : AccountLeaves(a)
  BY <1>1, <1>3 DEF AccountLeaves
<1>4. ASSUME NEW r \in Requests, CommitPass(r) PROVE HubTypes'
  <2>1. PassOK(req[r], answers, skewed)
    BY <1>4 DEF CommitPass, HealthInv, HealthLoadOK
  <2>2. DOMAIN req[r].is \subseteq Accounts
    BY <2>1 DEF PassOK
  <2>3. skewed' \subseteq Accounts
    BY <1>4, <2>2 DEF CommitPass, HubTypes
  <2> QED
    BY <1>4, <2>3 DEF CommitPass, HubTypes
<1>5. ASSUME NEW r \in Requests, NEW a \in Accounts,
             Unreachable(r, a) \/ \E loggedIn \in BOOLEAN : FetchStatus(r, a, loggedIn)
      PROVE  HubTypes'
  BY <1>1, <1>5 DEF Unreachable, FetchStatus, healthVars
<1>6. ASSUME NEW r \in Requests, PollOnce(r) PROVE HubTypes'
  BY <1>1, <1>6 DEF PollOnce, healthVars
<1>7. ASSUME NEW r \in Requests,
             \/ \E a \in Accounts : ReloginStart(r, a) \/ ReloginPoll(r, a)
             \/ KeepCode(r) \/ FlowNotStarted(r) \/ PollEnds(r) \/ ReloginFails(r) \/ ClearCode(r)
      PROVE  HubTypes'
  BY <1>1, <1>7 DEF ReloginStart, ReloginPoll, KeepCode, FlowNotStarted, PollEnds, ReloginFails,
                    ClearCode, healthVars
<1>8. ASSUME NEW r \in Requests, Redeem(r) PROVE HubTypes'
  BY <1>2, <1>8 DEF Redeem, HubTypes, Carrying
<1>9. ASSUME NEW r \in Requests, InstallToken(r) PROVE HubTypes'
  <2>1. req[r].acct \in Accounts /\ req[r].code \in Numbers
    BY <1>2, <1>9 DEF InstallToken, Carrying
  <2>2. apart' \subseteq Accounts /\ hub' \in [Accounts -> Numbers]
    BY <1>9, <2>1 DEF InstallToken, HubTypes
  <2> QED
    BY <1>9, <2>2 DEF InstallToken, HubTypes
<1>10. ASSUME NEW r \in Requests, StoreToken(r) \/ StoreTokenFails(r) PROVE HubTypes'
  <2>1. req[r].acct \in Accounts /\ req[r].code \in Numbers
    BY <1>2, <1>10 DEF StoreToken, StoreTokenFails, Carrying
  <2> QED
    BY <1>10, <2>1 DEF StoreToken, StoreTokenFails, HubTypes
<1> QED
  BY <1>3, <1>4, <1>5, <1>6, <1>7, <1>8, <1>9, <1>10 DEF HealthNext, PollerStep, ReloginStep

(* The coroutines of a hub carry logins and API tokens.                    *)
LEMMA TokenTypesKeep == TokenTypes /\ TokensNext => TokenTypes'
<1> SUFFICES ASSUME TokenTypes, TokensNext PROVE TokenTypes'
  OBVIOUS
<1>1. \A tokens \in SUBSET ApiTokens : Expired(tokens) \in SUBSET ApiTokens
  <2>1. ASSUME NEW t \in ApiTokens PROVE [of |-> t.of, fresh |-> FALSE] \in ApiTokens
    BY DEF ApiTokens
  <2> QED
    BY <2>1 DEF Expired
<1>2. \A n \in 0 .. MaxLogins : {ApiToken(n)} \subseteq ApiTokens
  BY DEF ApiToken, ApiTokens
<1>3. 0 \in 0 .. MaxLogins /\ (logins < MaxLogins => logins + 1 \in 0 .. MaxLogins)
  BY TokenAssumption DEF TokenTypes
<1>4. Idle \in Works /\ [at |-> "need token"] \in Works
  BY DEF Works
<1>5. \A n \in 0 .. MaxLogins :
          [at |-> "exchange", login |-> n] \in Works /\ [at |-> "install", login |-> n] \in Works
  BY DEF Works
<1>6. \A n, m \in 0 .. MaxLogins : \A tokens \in SUBSET ApiTokens :
          Validating(n, m, tokens) \in Works
  BY DEF Works, Validating
<1>7. ASSUME NEW w \in Works
      PROVE  /\ w.at \in {"exchange", "install", "validate"} => w.login \in 0 .. MaxLogins
             /\ w.at = "validate" => w.was \in 0 .. MaxLogins /\ w.had \in SUBSET ApiTokens
  <2>1. CASE w \in {Idle} \cup [at : {"need token"}]
    <3>1. Idle.at = "idle"
      BY DEF Idle
    <3>2. w \in [at : {"need token"}] => w.at = "need token"
      OBVIOUS
    <3> QED
      BY <2>1, <3>1, <3>2
  <2>2. CASE w \in [at : {"exchange", "install"}, login : 0 .. MaxLogins]
    <3>1. w.at \in {"exchange", "install"} /\ w.login \in 0 .. MaxLogins
      BY <2>2
    <3> QED
      BY <3>1
  <2>3. CASE w \in [at : {"validate"}, login : 0 .. MaxLogins, was : 0 .. MaxLogins,
                   had : SUBSET ApiTokens]
    <3>1. /\ w.login \in 0 .. MaxLogins /\ w.was \in 0 .. MaxLogins
          /\ w.had \in SUBSET ApiTokens
      BY <2>3
    <3> QED
      BY <3>1
  <2> QED
    BY <2>1, <2>2, <2>3 DEF Works
<1>8. ASSUME NEW c \in Coroutines, NEW w \in Works, Proceed(c, w)
      PROVE  work' \in [Coroutines -> Works]
  BY <1>8 DEF Proceed, TokenTypes
<1>9. ASSUME NEW c \in Coroutines, NEW w \in Works, Lock(c, w)
      PROVE  work' \in [Coroutines -> Works] /\ holder' \subseteq Coroutines
  BY <1>8, <1>9 DEF Lock
<1>10. ASSUME NEW c \in Coroutines, Release(c)
       PROVE  work' \in [Coroutines -> Works] /\ holder' \subseteq Coroutines
  BY <1>4, <1>8, <1>10 DEF Release
<1>11. ASSUME NEW c \in Coroutines, NeedToken(c) \/ FindsToken(c) PROVE TokenTypes'
  BY <1>4, <1>8, <1>11 DEF NeedToken, FindsToken, TokenTypes
<1>12. ASSUME NEW c \in Coroutines, StartExchange(c) PROVE TokenTypes'
  <2>1. [at |-> "exchange", login |-> stored] \in Works
    BY <1>5 DEF TokenTypes
  <2> QED
    BY <1>9, <1>12, <2>1 DEF StartExchange, TokenTypes
<1>13. ASSUME NEW c \in Coroutines, ExchangeOk(c) \/ ExchangeFails(c) PROVE TokenTypes'
  <2>1. work[c].login \in 0 .. MaxLogins
    BY <1>7, <1>13 DEF ExchangeOk, ExchangeFails, TokenTypes
  <2> QED
    BY <1>2, <1>10, <1>13, <2>1 DEF ExchangeOk, ExchangeFails, TokenTypes
<1>14. ASSUME NEW c \in Coroutines, AskInstall(c) PROVE TokenTypes'
  <2>1. logins + 1 \in 0 .. MaxLogins /\ [at |-> "install", login |-> logins + 1] \in Works
    BY <1>3, <1>5, <1>14 DEF AskInstall
  <2>2. Proceed(c, [at |-> "install", login |-> logins + 1]) /\ logins' = logins + 1
    BY <1>14 DEF AskInstall
  <2>3. work' \in [Coroutines -> Works] /\ logins' \in 0 .. MaxLogins
    BY <1>8, <2>1, <2>2
  <2> QED
    BY <1>14, <2>3 DEF AskInstall, TokenTypes
<1>15. ASSUME NEW c \in Coroutines, TryToken(c) PROVE TokenTypes'
  <2>1. work[c].login \in 0 .. MaxLogins
    BY <1>7, <1>15 DEF TryToken, TokenTypes
  <2>2. Validating(work[c].login, stored, cached) \in Works
    BY <1>6, <2>1 DEF TokenTypes
  <2> QED
    BY <1>9, <1>15, <2>1, <2>2 DEF TryToken, TokenTypes
<1>16. ASSUME NEW c \in Coroutines, TokenWorks(c) \/ TokenRefused(c) PROVE TokenTypes'
  <2>1. /\ work[c].login \in 0 .. MaxLogins /\ work[c].was \in 0 .. MaxLogins
        /\ work[c].had \in SUBSET ApiTokens
    BY <1>7, <1>16 DEF TokenWorks, TokenRefused, TokenTypes
  <2>2. crossed' \in BOOLEAN
    BY <1>16 DEF TokenWorks, TokenRefused, TokenTypes
  <2>3. work' \in [Coroutines -> Works] /\ holder' \subseteq Coroutines
    BY <1>10, <1>16 DEF TokenWorks, TokenRefused
  <2>4. cached' \subseteq ApiTokens
    BY <1>2, <1>16, <2>1 DEF TokenWorks, TokenRefused
  <2>5. stored' \in 0 .. MaxLogins /\ newest' \in 0 .. MaxLogins /\ logins' = logins
    BY <1>16, <2>1 DEF TokenWorks, TokenRefused, TokenTypes
  <2> QED
    BY <2>2, <2>3, <2>4, <2>5 DEF TokenTypes
<1>17. ASSUME NEW n \in 0 .. MaxLogins, SignedIn(n)
       PROVE  /\ stored' \in 0 .. MaxLogins /\ newest' \in 0 .. MaxLogins
              /\ cached' \subseteq ApiTokens /\ crossed' \in BOOLEAN
  BY <1>17 DEF SignedIn
<1>18. CASE PortalLogin
  BY <1>3, <1>17, <1>18 DEF PortalLogin, TokenTypes
<1>19. CASE PortalLogout
  BY <1>3, <1>17, <1>19 DEF PortalLogout, TokenTypes
<1>20. CASE ApiTokenExpires
  <2>1. ASSUME NEW c \in Coroutines PROVE work'[c] \in Works
    <3>1. work[c] \in Works
      BY DEF TokenTypes
    <3>2. work'[c] = IF work[c].at = "validate"
                     THEN Validating(work[c].login, work[c].was, Expired(work[c].had))
                     ELSE work[c]
      BY <1>20 DEF ApiTokenExpires
    <3> QED
      BY <1>1, <1>6, <1>7, <3>1, <3>2
  <2>2. work' = [c \in Coroutines |-> work'[c]]
    BY <1>20 DEF ApiTokenExpires
  <2>3. work' \in [Coroutines -> Works]
    BY <2>1, <2>2
  <2> QED
    BY <1>1, <1>20, <2>3 DEF ApiTokenExpires, TokenTypes
<1>21. CASE HubRestarts
  BY <1>3, <1>4, <1>21 DEF HubRestarts, TokenTypes
<1> QED
  BY <1>11, <1>12, <1>13, <1>14, <1>15, <1>16, <1>18, <1>19, <1>20, <1>21
  DEF TokensNext, TokenStep

-----------------------------------------------------------------------------
(* The types hold when the control plane and the hub start.                *)
LEMMA InitTypes == Init => TypesInv
<1> SUFFICES ASSUME Init PROVE TypesInv
  OBVIOUS
<1>1. UsersInv /\ CatalogInv /\ HealthInv
  BY InitUsers, InitCatalog, InitHealth
<1>2. starts <= MaxStarts /\ 0 \in Numbers /\ 0 \in 0 .. MaxLogins
  BY HandlersAssumption, TokenAssumption DEF Init, HandlersInit, Numbers
<1>3. UserTypes /\ MissedTypes
  BY DEF Init, UsersInit, CatalogInit, UserTypes, MissedTypes
<1>4. HubTypes
  BY <1>2 DEF Init, HealthInit, HubTypes
<1>5. Idle \in Works
  BY DEF Works
<1>6. TokenTypes
  BY <1>2, <1>5 DEF Init, TokensInit, TokenTypes
<1> QED
  BY <1>1, <1>2, <1>3, <1>4, <1>6 DEF TypesInv

(* The types are inductive, next to the invariants of the parts.           *)
LEMMA StepTypes == TypesInv /\ [Next]_vars => TypesInv'
<1> SUFFICES ASSUME TypesInv, [Next]_vars PROVE TypesInv'
  OBVIOUS
<1>1. UsersInv' /\ CatalogInv' /\ HealthInv'
  BY StepUsers, StepCatalog, StepHealth DEF TypesInv
<1>2. HandlersOK /\ starts \in Nat /\ starts <= MaxStarts
  BY DEF TypesInv, UsersInv, TablesOK, HandlersOK
<1>3. ASSUME NEW steps, Handles(steps) PROVE starts' <= MaxStarts
  <2>1. starts' = starts \/ (starts < MaxStarts /\ starts' = starts + 1)
    BY <1>3 DEF Handles, handlerVars
  <2> QED
    BY <1>2, <2>1, HandlersAssumption
<1>4. UNCHANGED userVars => UserTypes'
  BY DEF TypesInv, UserTypes, userVars
<1>5. UNCHANGED catalogVars => MissedTypes'
  BY DEF TypesInv, MissedTypes, catalogVars
<1>6. UNCHANGED healthVars => HubTypes'
  BY DEF TypesInv, HubTypes, healthVars
<1>7. UNCHANGED tokenVars => TokenTypes'
  BY DEF TypesInv, TokenTypes, tokenVars
<1>8. UNCHANGED handlerVars => starts' <= MaxStarts
  BY <1>2 DEF handlerVars
<1>9. CASE UsersNext /\ UNCHANGED <<catalogVars, healthVars, tokenVars>>
  BY <1>1, <1>2, <1>3, <1>5, <1>6, <1>7, <1>9, UsersHandle, UserTypesKeep DEF TypesInv
<1>10. CASE CatalogNext /\ UNCHANGED <<userVars, healthVars, tokenVars>>
  BY <1>1, <1>3, <1>4, <1>6, <1>7, <1>10, CatalogHandle, MissedTypesKeep DEF TypesInv, CatalogInv
<1>11. CASE HealthNext /\ UNCHANGED <<userVars, catalogVars, tokenVars>>
  BY <1>1, <1>2, <1>3, <1>4, <1>5, <1>7, <1>11, HealthHandle, HubTypesKeep DEF TypesInv
<1>12. CASE TokensNext /\ UNCHANGED <<handlerVars, userVars, catalogVars, healthVars>>
  BY <1>1, <1>4, <1>5, <1>6, <1>8, <1>12, TokenTypesKeep DEF TypesInv
<1>13. CASE UNCHANGED vars
  BY <1>1, <1>4, <1>5, <1>6, <1>7, <1>8, <1>13 DEF TypesInv, vars
<1> QED
  BY <1>9, <1>10, <1>11, <1>12, <1>13 DEF Next

(* Every column of users, model_routes and github_accounts holds only      *)
(* values that a handler of its table writes, and every id was drawn by a  *)
(* handler or is the seeded one, for any number of them (db.py, users.py,  *)
(* routes.py, github_accounts.py, copilot_client.py).                      *)
THEOREM AdministrationTypes == Spec => []TypeOK
BY InitTypes, StepTypes, TypesSuffice, PTL DEF Spec

=============================================================================
