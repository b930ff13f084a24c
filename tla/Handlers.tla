------------------------------ MODULE Handlers ------------------------------
(***************************************************************************)
(* Handlers of the control plane that keep rows in PostgreSQL through an   *)
(* SQLAlchemy session (app/db.py): they load rows, make slow calls, and    *)
(* commit what they changed.  Sessions do not lock what they read, and the *)
(* commit writes only columns whose value differs from the one loaded.     *)
(***************************************************************************)
EXTENDS Naturals

CONSTANTS
    Requests,    \* handlers that can be at work at a time
    MaxStarts    \* bound: handlers entered

ASSUME HandlersAssumption == MaxStarts \in Nat

VARIABLES
    req,         \* the handler of each request, with the rows it has loaded
    starts       \* handlers entered so far; the number a handler enters with
                 \* stands for every id it draws

handlerVars == <<req, starts>>

Free == [at |-> "free"]

HandlersInit == req = [r \in Requests |-> Free] /\ starts = 0

Enter(r, h) == /\ req[r] = Free
               /\ starts < MaxStarts
               /\ starts' = starts + 1
               /\ req' = [req EXCEPT ![r] = h]

Become(r, h) == req' = [req EXCEPT ![r] = h] /\ UNCHANGED starts

End(r) == Become(r, Free)

\* The UPDATE of a row loaded as was and changed to is, met by the row now.
Save(was, is, now) == [c \in DOMAIN now |-> IF is[c] = was[c] THEN now[c] ELSE is[c]]
=============================================================================
