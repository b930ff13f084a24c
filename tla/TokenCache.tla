----------------------------- MODULE TokenCache -----------------------------
(***************************************************************************)
(* The GitHub tokens of one hub process: hub/copilot_client.py behind the  *)
(* endpoints of hub/server.py.  The OAuth token of the latest login is     *)
(* exchanged for an API token that is cached until it expires; exchanges   *)
(* and the installation of a new login take turns under _api_token_lock,   *)
(* the hub's own device flow and logout do not.  An action is what runs    *)
(* between two awaits.                                                     *)
(***************************************************************************)
EXTENDS Naturals

CONSTANTS
    Coroutines,  \* requests of the hub that are at work at a time
    MaxLogins    \* bound: OAuth tokens brought to the hub

ASSUME TokenAssumption == MaxLogins \in Nat

VARIABLES
    stored,   \* the OAuth token in effect; 0: the store is empty, which stands
              \* for COPILOT_OAUTH_TOKEN of the deployment
    cached,   \* the API token in _api_token_mem, if any
    holder,   \* the coroutine inside _api_token_lock, if any
    work,     \* what each coroutine is at
    logins,   \* OAuth tokens brought so far, each known by its number
    newest,   \* history: the login that last was answered with success
    crossed   \* history: a login or logout came while the lock was held, and no
              \* login since has had the hub to itself

tokenVars == <<stored, cached, holder, work, logins, newest, crossed>>

Idle == [at |-> "idle"]

\* Exchanged for an OAuth token, and not yet within 300 s of its expiry.
ApiToken(login) == [of |-> login, fresh |-> TRUE]
Expired(tokens) == {[of |-> t.of, fresh |-> FALSE] : t \in tokens}
Usable == \E t \in cached : t.fresh

ApiTokens == [of : 0 .. MaxLogins, fresh : BOOLEAN]

Works ==
    {Idle} \cup [at : {"need token"}]
    \cup [at : {"exchange", "install"}, login : 0 .. MaxLogins]
    \cup [at : {"validate"}, login : 0 .. MaxLogins, was : 0 .. MaxLogins,
          had : SUBSET ApiTokens]

\* The login that is tried, and what it replaces in the store and the cache.
Validating(login, was, had) == [at |-> "validate", login |-> login, was |-> was, had |-> had]

Proceed(c, w) == work' = [work EXCEPT ![c] = w]

Lock(c, w) == holder = {} /\ holder' = {c} /\ Proceed(c, w)
Release(c) == holder' = {} /\ Proceed(c, Idle)

\* The process starts with an empty store, which is in /tmp.
TokensInit ==
    /\ stored = 0
    /\ cached = {} /\ holder = {}
    /\ work = [c \in Coroutines |-> Idle]
    /\ logins = 0
    /\ newest = 0 /\ crossed = FALSE

-----------------------------------------------------------------------------
\* get_api_token finds nothing usable and queues for the lock ...
NeedToken(c) ==
    /\ work[c] = Idle /\ ~Usable
    /\ Proceed(c, [at |-> "need token"])
    /\ UNCHANGED <<stored, cached, holder, logins, newest, crossed>>

\* ... under which another exchange may have filled the cache ...
FindsToken(c) ==
    /\ work[c].at = "need token" /\ holder = {} /\ Usable
    /\ Proceed(c, Idle)
    /\ UNCHANGED <<stored, cached, holder, logins, newest, crossed>>

StartExchange(c) ==
    /\ work[c].at = "need token" /\ ~Usable
    /\ Lock(c, [at |-> "exchange", login |-> stored])
    /\ UNCHANGED <<stored, cached, logins, newest, crossed>>

\* ... and GitHub answers with a token, or not.
ExchangeOk(c) ==
    /\ work[c].at = "exchange"
    /\ cached' = {ApiToken(work[c].login)}
    /\ Release(c)
    /\ UNCHANGED <<stored, logins, newest, crossed>>

ExchangeFails(c) ==
    /\ work[c].at = "exchange"
    /\ Release(c)
    /\ UNCHANGED <<stored, cached, logins, newest, crossed>>

-----------------------------------------------------------------------------
\* install_oauth_token: the control plane has a new token for the hub.
AskInstall(c) ==
    /\ work[c] = Idle
    /\ logins < MaxLogins
    /\ logins' = logins + 1
    /\ Proceed(c, [at |-> "install", login |-> logins + 1])
    /\ UNCHANGED <<stored, cached, holder, newest, crossed>>

TryToken(c) ==
    /\ work[c].at = "install"
    /\ Lock(c, Validating(work[c].login, stored, cached))
    /\ stored' = work[c].login
    /\ cached' = {}
    /\ UNCHANGED <<logins, newest, crossed>>

TokenWorks(c) ==
    /\ work[c].at = "validate"
    /\ cached' = {ApiToken(work[c].login)}
    /\ newest' = work[c].login
    /\ crossed' = (stored # work[c].login)
    /\ Release(c)
    /\ UNCHANGED <<stored, logins>>

\* Mutant of TokenRefused: only the cache is put back.
TokenStays(c) ==
    /\ work[c].at = "validate"
    /\ cached' = work[c].had
    /\ Release(c)
    /\ UNCHANGED <<stored, logins, newest, crossed>>

\* Both the store and the cache are put back.
TokenRefused(c) ==
    /\ work[c].at = "validate"
    /\ stored' = work[c].was
    /\ cached' = work[c].had
    /\ Release(c)
    /\ UNCHANGED <<logins, newest, crossed>>

-----------------------------------------------------------------------------
\* device_flow_poll with a token, and logout: they do not look at the lock.
SignedIn(login) ==
    /\ stored' = login
    /\ cached' = {}
    /\ newest' = login
    /\ crossed' = (holder # {})

PortalLogin ==
    /\ logins < MaxLogins
    /\ logins' = logins + 1
    /\ SignedIn(logins + 1)
    /\ UNCHANGED <<holder, work>>

PortalLogout ==
    /\ SignedIn(0)
    /\ UNCHANGED <<holder, work, logins>>

\* The API token expires, also the one that an installation keeps aside.
ApiTokenExpires ==
    LET Aged(w) == IF w.at = "validate" THEN Validating(w.login, w.was, Expired(w.had)) ELSE w
    IN /\ cached' = Expired(cached)
       /\ work' = [c \in Coroutines |-> Aged(work[c])]
       /\ UNCHANGED <<stored, holder, logins, newest, crossed>>

\* What a restarted process starts with, as in TokensInit.
HubRestarts ==
    /\ stored' = 0
    /\ cached' = {} /\ holder' = {}
    /\ work' = [c \in Coroutines |-> Idle]
    /\ newest' = 0 /\ crossed' = FALSE
    /\ UNCHANGED logins

TokenStep(c) == NeedToken(c) \/ FindsToken(c) \/ StartExchange(c) \/ ExchangeOk(c)
                \/ ExchangeFails(c) \/ AskInstall(c) \/ TryToken(c) \/ TokenWorks(c)
                \/ TokenRefused(c)

TokensNext ==
    \/ \E c \in Coroutines : TokenStep(c)
    \/ PortalLogin \/ PortalLogout \/ ApiTokenExpires \/ HubRestarts

-----------------------------------------------------------------------------
(* The hub runs on the login that last was reported a success, in its store *)
(* and in the API token it serves with: one that is still being tried is   *)
(* never served, a refused one leaves no trace (copilot_client.py:200-205, *)
(* server.py:1309), and a slow exchange brings no earlier login back.      *)
(* Since the hub's own login and logout skip the lock, not when one of     *)
(* them came in between; the next login that has the hub to itself puts    *)
(* things right.                                                           *)
ServesNewestLogin ==
    crossed \/ /\ \A t \in cached : t.of = newest
               /\ (\A c \in Coroutines : work[c].at # "validate") => stored = newest
=============================================================================
