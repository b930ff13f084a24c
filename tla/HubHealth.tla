----------------------------- MODULE HubHealth -----------------------------
(***************************************************************************)
(* What the control plane keeps of a deployed hub's login: the health that *)
(* app/services/hub_status_poller.py records, on every replica and on a    *)
(* timer, and the Copilot token that the re-login of                       *)
(* app/api/github_accounts.py replaces on the hub and in Key Vault.        *)
(***************************************************************************)
EXTENDS Handlers, FiniteSets

CONSTANTS
    Accounts,   \* accounts whose hub is deployed at the start
    Unknown,    \* hub_logged_in of an account never polled: NULL
    MaxAnswers  \* bound: answers the hubs give the poller

ASSUME HealthAssumption == MaxAnswers \in Nat

VARIABLES
    account,    \* rows of github_accounts: deploy status, recorded health, device code
    hub,        \* the Copilot token each hub runs on
    vault,      \* the tokens in Key Vault, which a redeployment injects
    redeemed,   \* device codes GitHub has given a token for
    answers,    \* history: what the hubs have answered the poller
    skewed,     \* history: accounts whose health was written over a pass's back
    apart       \* history: accounts whose hub took a token that Key Vault missed

healthVars == <<account, hub, vault, redeemed, answers, skewed, apart>>

\* A token is the number of the re-login it comes from, the deployed one 0.
HealthInit ==
    /\ account = [a \in Accounts |-> [status |-> "ready", loggedIn |-> Unknown, polled |-> 0, code |-> 0]]
    /\ hub = [a \in Accounts |-> 0]
    /\ vault = [a \in Accounts |-> 0]
    /\ redeemed = {} /\ answers = {} /\ skewed = {} /\ apart = {}

Ready == {a \in Accounts : account[a].status = "ready"}
Gone == {a \in Accounts : account[a].status = "gone"}

\* A re-login of account a is between the hub and Key Vault.
Installing(a) == {r \in Requests : req[r].at = "store token" /\ req[r].acct = a}

\* delete_account, and the end of the teardown.
AccountLeaves(a) ==
    /\ \/ a \in Ready /\ account' = [account EXCEPT ![a].status = "deleting"]
       \/ /\ account[a].status = "deleting"
          /\ account' = [account EXCEPT ![a].status = "gone"]
    /\ UNCHANGED <<hub, vault, redeemed, answers, skewed, apart, handlerVars>>

-----------------------------------------------------------------------------
\* A pass of a replica loads the rows of all ready accounts ...
PollOnce(r) ==
    LET rows == [a \in Ready |-> account[a]]
    IN /\ Enter(r, [at |-> "ask hubs", was |-> rows, is |-> rows, left |-> Ready])
       /\ UNCHANGED healthVars

\* ... asks one hub after the other, which says whether it is logged in
\* or is not reached ...
FetchStatus(r, a, loggedIn) ==
    LET h == req[r]
        now == Cardinality(answers) + 1
    IN /\ h.at = "ask hubs" /\ a \in h.left
       /\ now <= MaxAnswers
       /\ Become(r, [h EXCEPT !.left = @ \ {a}, !.is[a].loggedIn = loggedIn,
                              !.is[a].polled = now])
       /\ answers' = answers \cup {[acct |-> a, loggedIn |-> loggedIn, polled |-> now]}
       /\ UNCHANGED <<account, hub, vault, redeemed, skewed, apart>>

\* Mutant of Unreachable: a hub that does not answer is recorded as logged out.
UnreachableIsNo(r, a) ==
    LET h == req[r]
    IN /\ h.at = "ask hubs" /\ a \in h.left
       /\ Become(r, [h EXCEPT !.left = @ \ {a}, !.is[a].loggedIn = FALSE])
       /\ UNCHANGED healthVars

Unreachable(r, a) ==
    LET h == req[r]
    IN /\ h.at = "ask hubs" /\ a \in h.left
       /\ Become(r, [h EXCEPT !.left = @ \ {a}])
       /\ UNCHANGED healthVars

\* ... and commits once: a row deleted meanwhile fails the whole commit.
CommitPass(r) ==
    LET h == req[r]
        changed == {a \in DOMAIN h.is : h.is[a] # h.was[a]}
    IN /\ h.at = "ask hubs" /\ h.left = {}
       /\ IF changed \cap Gone # {}
          THEN UNCHANGED <<account, skewed>>
          ELSE /\ account' = [a \in Accounts |->
                     IF a \in changed THEN Save(h.was[a], h.is[a], account[a]) ELSE account[a]]
               /\ skewed' = skewed \cup {a \in changed : account[a].polled # h.was[a].polled}
       /\ End(r)
       /\ UNCHANGED <<hub, vault, redeemed, answers, apart>>

-----------------------------------------------------------------------------
\* The re-login ends with a device code in the row it loaded, or with none.
SaveCode(r, code) ==
    LET h == req[r]
        is == [h.was EXCEPT !.code = code]
    IN /\ account' = IF h.acct \in Gone THEN account
                     ELSE [account EXCEPT ![h.acct] = Save(h.was, is, @)]
       /\ End(r)

ReloginStart(r, a) ==
    /\ a \in Ready
    /\ Enter(r, [at |-> "keep code", acct |-> a, was |-> account[a], code |-> starts + 1])
    /\ UNCHANGED healthVars

KeepCode(r) ==
    /\ req[r].at = "keep code"
    /\ SaveCode(r, req[r].code)
    /\ UNCHANGED <<hub, vault, redeemed, answers, skewed, apart>>

FlowNotStarted(r) ==
    /\ req[r].at = "keep code"
    /\ End(r)
    /\ UNCHANGED healthVars

ReloginPoll(r, a) ==
    /\ a \in Ready /\ account[a].code # 0
    /\ Enter(r, [at |-> "redeem", acct |-> a, was |-> account[a], code |-> account[a].code])
    /\ UNCHANGED healthVars

\* Not authorized yet; or a call that raises and keeps the code.
PollEnds(r) ==
    /\ req[r].at \in {"redeem", "install"}
    /\ End(r)
    /\ UNCHANGED healthVars

\* What a token leads to: the hub's check, or nothing if the browser was
\* another user's.  Mutant: Key Vault takes the token unproved.
VaultFirst == {"store token", "clear code"}
AuthorizedTo == {"install", "clear code"}

\* GitHub gives one token for a code.
Redeem(r) ==
    LET h == req[r]
    IN /\ h.at = "redeem" /\ h.code \notin redeemed
       /\ redeemed' = redeemed \cup {h.code}
       /\ \E at \in AuthorizedTo : Become(r, [h EXCEPT !.at = at])
       /\ UNCHANGED <<account, hub, vault, answers, skewed, apart>>

\* The flow has expired or been redeemed, or the hub refuses the token.
ReloginFails(r) ==
    /\ req[r].at \in {"redeem", "install"}
    /\ Become(r, [req[r] EXCEPT !.at = "clear code"])
    /\ UNCHANGED healthVars

\* The hub takes the token; the answer may be lost on the way back.
InstallToken(r) ==
    LET h == req[r]
    IN /\ h.at = "install"
       /\ hub' = [hub EXCEPT ![h.acct] = h.code]
       /\ \/ /\ Become(r, [h EXCEPT !.at = "store token"])
             /\ apart' = IF Installing(h.acct) = {} THEN apart ELSE apart \cup {h.acct}
          \/ /\ Become(r, [h EXCEPT !.at = "clear code"])
             /\ apart' = apart \cup {h.acct}
       /\ UNCHANGED <<account, vault, redeemed, answers, skewed>>

StoreToken(r) ==
    LET h == req[r]
    IN /\ h.at = "store token"
       /\ vault' = [vault EXCEPT ![h.acct] = h.code]
       /\ Become(r, [h EXCEPT !.at = "clear code"])
       /\ UNCHANGED <<account, hub, redeemed, answers, skewed, apart>>

StoreTokenFails(r) ==
    /\ req[r].at = "store token"
    /\ apart' = apart \cup {req[r].acct}
    /\ End(r)
    /\ UNCHANGED <<account, hub, vault, redeemed, answers, skewed>>

ClearCode(r) ==
    /\ req[r].at = "clear code"
    /\ SaveCode(r, 0)
    /\ UNCHANGED <<hub, vault, redeemed, answers, skewed, apart>>

PollerStep(r) == PollOnce(r) \/ CommitPass(r)
                 \/ \E a \in Accounts :
                        Unreachable(r, a) \/ \E loggedIn \in BOOLEAN : FetchStatus(r, a, loggedIn)
ReloginStep(r) ==
    \/ \E a \in Accounts : ReloginStart(r, a) \/ ReloginPoll(r, a)
    \/ KeepCode(r) \/ FlowNotStarted(r) \/ PollEnds(r) \/ Redeem(r) \/ ReloginFails(r)
    \/ InstallToken(r) \/ StoreToken(r) \/ StoreTokenFails(r) \/ ClearCode(r)

HealthNext ==
    \/ \E r \in Requests : PollerStep(r) \/ ReloginStep(r)
    \/ \E a \in Accounts : AccountLeaves(a)

-----------------------------------------------------------------------------
(* "Never asked", "asked and it said yes" and "asked and it said no" stay  *)
(* apart: what a row says of a hub, with its time, is an answer the hub    *)
(* gave then, or that it never answered.  Passes of two replicas may take  *)
(* turns or overlap; the pair is torn only by a pass that commits over     *)
(* another one's answer (hub_status_poller.py:19-29, 81-92).               *)
HealthIsAnAnswer ==
    \A a \in Accounts \ skewed :
        IF account[a].polled = 0
        THEN account[a].loggedIn = Unknown
        ELSE [acct |-> a, loggedIn |-> account[a].loggedIn, polled |-> account[a].polled] \in answers

(* Key Vault holds the token its hub runs on, which the hub has proved to  *)
(* work, whenever no re-login is between the two: refused tokens, expired  *)
(* flows, other users' browsers and concurrent polls of one code leave     *)
(* them together (github_accounts.py:484-487).  They part when the hub's   *)
(* answer is lost, Key Vault fails, or two re-logins of an account are     *)
(* between hub and Key Vault at once.                                      *)
VaultFollowsHub ==
    \A a \in Accounts \ apart : Installing(a) = {} => vault[a] = hub[a]
=============================================================================
