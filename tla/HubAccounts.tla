----------------------------- MODULE HubAccounts -----------------------------
(***************************************************************************)
(* The life of the GitHub accounts behind the gateway and of the backend   *)
(* pools their hubs join: app/api/github_accounts.py with the pool half of *)
(* app/services/apim_provisioner.py and the Action that                    *)
(* app/services/terraform_runner.py waits for.                             *)
(*                                                                         *)
(* Requests change an account's row and leave the slow work to background  *)
(* tasks (jobs), which run in threads: an action is one call to the        *)
(* database, to Azure Resource Manager (ARM) or to GitHub.  A pool is      *)
(* changed by a GET and a PUT or DELETE conditional on the GET's ETag; an  *)
(* ETag is represented by the content it was given for.                    *)
(***************************************************************************)
EXTENDS Integers, FiniteSets

CONSTANTS
    Accounts,   \* account ids
    Providers,  \* openai, anthropic, google
    Jobs,       \* background tasks that can run at a time
    MaxPolls,   \* bound of the polls of an account at a time
    MaxFaults,  \* bound of the crashes and uncaught exceptions
    NoProvider, \* a task between two pools is at none
    NoJob       \* no background task runs in a slot

ASSUME AccountsAssumption ==
    /\ IsFiniteSet(Accounts) /\ IsFiniteSet(Providers)
    /\ Providers # {}
    /\ MaxPolls \in Nat /\ MaxFaults \in Nat

VARIABLES
    row,      \* GitHubAccount.status, "none" before the row exists, "gone" after
    code,     \* accounts whose device code GitHub has not redeemed
    polls,    \* per account: device_poll requests that found it pending
    job,      \* the background tasks
    pool,     \* per provider: members of its pool
    policy,   \* per provider: its API has the policy that routes to the pool
    hub,      \* accounts whose hub's Azure resources exist
    known,    \* accounts whose row has the endpoint of the hub
    late,     \* accounts with an apply run that no job waits for any more
    doomed,   \* accounts with a destroy run that no job waits for any more
    mixed,    \* accounts whose deployment and teardown have overlapped
    bumped,   \* accounts a pool creation has thrown out of a pool
    faults    \* crashes and uncaught exceptions so far

requestVars == <<row, code, polls>>
armVars == <<pool, policy>>
ghostVars == <<mixed, bumped>>
azureVars == <<armVars, hub, late, doomed>>
vars == <<requestVars, known, job, azureVars, ghostVars, faults>>

-----------------------------------------------------------------------------
Statuses == {"pending", "deploying", "ready", "failed", "deleting"}

DeploySteps == {"load", "apply", "commit", "read", "write", "ready"}
TeardownSteps == {"load", "read", "write", "detach", "drop", "clean"}

JobRecords ==
    [acct : Accounts, kind : {"deploy", "teardown"}, at : DeploySteps \cup TeardownSteps,
     left : SUBSET Providers, on : Providers \cup {NoProvider}, seen : SUBSET Accounts]

Live(j) == job[j] # NoJob

Working(a, kind) == \E j \in Jobs : Live(j) /\ job[j].acct = a /\ job[j].kind = kind

Idle(a) == ~Working(a, "deploy") /\ ~Working(a, "teardown") /\ a \notin late

(* ARM refuses a pool without members: the empty one is the absent one. *)
NoPool == {}

(* db.get finds the account. *)
Exists(a) == row[a] \in Statuses

Init ==
    /\ row = [a \in Accounts |-> "none"]
    /\ code = {}
    /\ polls = [a \in Accounts |-> 0]
    /\ job = [j \in Jobs |-> NoJob]
    /\ pool = [p \in Providers |-> NoPool]
    /\ policy = [p \in Providers |-> FALSE]
    /\ hub = {} /\ known = {} /\ late = {} /\ doomed = {}
    /\ mixed = {} /\ bumped = {}
    /\ faults = 0

(* background.add_task. *)
StartJob(a, kind) ==
    /\ \E j \in Jobs :
          /\ ~Live(j)
          /\ job' = [job EXCEPT ![j] = [acct |-> a, kind |-> kind, at |-> "load",
                                        left |-> Providers, on |-> NoProvider,
                                        seen |-> NoPool]]
    /\ mixed' = IF \/ Working(a, IF kind = "deploy" THEN "teardown" ELSE "deploy")
                   \/ a \in late
                   \/ kind = "deploy" /\ a \in doomed
                THEN mixed \cup {a} ELSE mixed

At(j, kind, step) == Live(j) /\ job[j].kind = kind /\ job[j].at = step

Goto(j, step) == job' = [job EXCEPT ![j].at = step]

EndJob(j) == job' = [job EXCEPT ![j] = NoJob]

(* A commit of the account's row. *)
Commit(a, status) == row' = [row EXCEPT ![a] = status]

(* Mutant of FailJob: the failure is not recorded. *)
FailJobSilently(j) == EndJob(j) /\ UNCHANGED row

(* _fail, if the row is still there, and the task ends. *)
FailJob(j) ==
    /\ IF Exists(job[j].acct) THEN Commit(job[j].acct, "failed") ELSE UNCHANGED row
    /\ EndJob(j)

-----------------------------------------------------------------------------
(* The endpoints.                                                          *)

(* device_start. *)
DeviceStart(a) ==
    /\ row[a] = "none"
    /\ Commit(a, "pending")
    /\ code' = code \cup {a}
    /\ UNCHANGED <<polls, known, job, azureVars, ghostVars, faults>>

(* device_poll up to the call of GitHub: only a pending account goes on. *)
PollBegin(a) ==
    /\ row[a] = "pending"
    /\ polls[a] < MaxPolls
    /\ polls' = [polls EXCEPT ![a] = @ + 1]
    /\ UNCHANGED <<row, code, known, job, azureVars, ghostVars, faults>>

(* GitHub has no answer yet. *)
PollPending(a) ==
    /\ polls[a] > 0 /\ a \in code
    /\ polls' = [polls EXCEPT ![a] = @ - 1]
    /\ UNCHANGED <<row, code, known, job, azureVars, ghostVars, faults>>

(* GitHub gives the token, once per code.  The row is written as it was read,
   pending, whatever has happened to it since; the commit raises when it has
   been deleted. *)
PollSuccess(a) ==
    /\ polls[a] > 0 /\ a \in code
    /\ polls' = [polls EXCEPT ![a] = @ - 1]
    /\ code' = code \ {a}
    /\ \/ Exists(a) /\ Commit(a, "deploying") /\ StartJob(a, "deploy")
       \/ ~Exists(a) /\ UNCHANGED <<row, job, mixed>>
    /\ UNCHANGED <<known, azureVars, bumped, faults>>

(* Mutant of PollError: an answer nobody waits for is handled. *)
PollErrorUnasked(a) ==
    /\ row[a] = "pending"
    /\ polls' = [polls EXCEPT ![a] = @ - 1]
    /\ Commit(a, "failed")
    /\ UNCHANGED <<code, known, job, azureVars, ghostVars, faults>>

(* GitHub refuses: the code expired, was denied or has been redeemed. *)
PollError(a) ==
    /\ polls[a] > 0
    /\ polls' = [polls EXCEPT ![a] = @ - 1]
    /\ IF Exists(a) THEN Commit(a, "failed") ELSE UNCHANGED row
    /\ UNCHANGED <<code, known, job, azureVars, ghostVars, faults>>

(* delete_account, whatever the account is doing. *)
Delete(a) ==
    /\ Exists(a)
    /\ Commit(a, "deleting")
    /\ StartJob(a, "teardown")
    /\ UNCHANGED <<code, polls, known, azureVars, bumped, faults>>

(* resync_catalog, for an account whose hub answers: each provider's API is
   wired to its pool again. *)
Resync(a, p) ==
    /\ Exists(a) /\ a \in known /\ a \in hub
    /\ policy' = [policy EXCEPT ![p] = TRUE]
    /\ UNCHANGED <<requestVars, known, job, pool, hub, late, doomed, ghostVars, faults>>

-----------------------------------------------------------------------------
(* _deploy_account.                                                        *)

DeployLoad(j) ==
    /\ At(j, "deploy", "load")
    /\ IF Exists(job[j].acct) THEN Goto(j, "apply") ELSE EndJob(j)
    /\ UNCHANGED <<requestVars, known, azureVars, ghostVars, faults>>

(* deploy_hub: the apply run succeeds. *)
Apply(j) ==
    /\ At(j, "deploy", "apply")
    /\ hub' = hub \cup {job[j].acct}
    /\ Goto(j, "commit")
    /\ UNCHANGED <<requestVars, known, armVars, late, doomed, ghostVars, faults>>

(* The apply run fails, with or without resources left behind (_poll_run). *)
ApplyFails(j) ==
    /\ At(j, "deploy", "apply")
    /\ hub' \in {hub, hub \cup {job[j].acct}}
    /\ FailJob(j)
    /\ UNCHANGED <<code, polls, known, armVars, late, doomed, ghostVars, faults>>

(* _find_run or _poll_run gives up on a run that goes on. *)
ApplyTimesOut(j) ==
    /\ At(j, "deploy", "apply")
    /\ late' = late \cup {job[j].acct}
    /\ FailJob(j)
    /\ UNCHANGED <<code, polls, known, armVars, hub, doomed, ghostVars, faults>>

(* The run nobody waits for ends. *)
LateApply(a) ==
    /\ a \in late
    /\ late' = late \ {a}
    /\ hub' \in {hub, hub \cup {a}}
    /\ UNCHANGED <<requestVars, known, job, armVars, doomed, ghostVars, faults>>

(* The endpoint and the secrets are recorded; the commit raises when the row
   has been deleted. *)
CommitHub(j) ==
    /\ At(j, "deploy", "commit")
    /\ \/ Exists(job[j].acct) /\ known' = known \cup {job[j].acct} /\ Goto(j, "read")
       \/ ~Exists(job[j].acct) /\ UNCHANGED known /\ EndJob(j)
    /\ UNCHANGED <<requestVars, azureVars, ghostVars, faults>>

(* _pool_add_service, the GET, unless the hub is a member already. *)
ReadPoolToJoin(j, p) ==
    /\ At(j, "deploy", "read")
    /\ p \in job[j].left
    /\ IF job[j].acct \in pool[p]
       THEN job' = [job EXCEPT ![j].left = @ \ {p}]
       ELSE job' = [job EXCEPT ![j].at = "write", ![j].on = p, ![j].seen = pool[p]]
    /\ UNCHANGED <<requestVars, known, azureVars, ghostVars, faults>>

(* What the PUT of a deployment makes of the pool it has read. *)
Joined(j) == job[j].seen \cup {job[j].acct}

(* The PUT is carried out: a pool that was created since the GET loses its
   members to the one the PUT creates. *)
PutJoined(j) ==
    LET p == job[j].on
    IN  /\ pool' = [pool EXCEPT ![p] = Joined(j)]
        /\ bumped' = bumped \cup (pool[p] \ Joined(j))

NextPool(j) ==
    job' = [job EXCEPT ![j].at = "read", ![j].left = @ \ {job[j].on},
                       ![j].on = NoProvider, ![j].seen = NoPool]

(* Mutant of JoinPool: the PUT carries no If-Match. *)
JoinPoolBlindly(j) ==
    /\ At(j, "deploy", "write")
    /\ PutJoined(j)
    /\ NextPool(j)
    /\ UNCHANGED <<requestVars, known, policy, hub, late, doomed, mixed, faults>>

(* If-Match the ETag of the pool that was read; no condition when there was
   none. *)
JoinMatches(j) == At(j, "deploy", "write") /\ job[j].seen \in {NoPool, pool[job[j].on]}

(* _pool_add_service, the PUT. *)
JoinPool(j) ==
    /\ JoinMatches(j)
    /\ PutJoined(j)
    /\ NextPool(j)
    /\ UNCHANGED <<requestVars, known, policy, hub, late, doomed, mixed, faults>>

(* The PUT is carried out and its answer is lost. *)
JoinAnswerLost(j) ==
    /\ JoinMatches(j)
    /\ PutJoined(j)
    /\ FailJob(j)
    /\ UNCHANGED <<code, polls, known, policy, hub, late, doomed, mixed, faults>>

(* _register_hub_catalog wires the APIs of the providers the hub's models
   belong to; a failure part-way is logged and forgotten. *)
Wire(j) ==
    /\ At(j, "deploy", "read")
    /\ job[j].left = {}
    /\ \E wired \in SUBSET Providers :
          policy' = [p \in Providers |-> policy[p] \/ p \in wired]
    /\ Goto(j, "ready")
    /\ UNCHANGED <<requestVars, known, pool, hub, late, doomed, ghostVars, faults>>

(* The last commit. *)
Ready(j) ==
    /\ At(j, "deploy", "ready")
    /\ IF Exists(job[j].acct) THEN Commit(job[j].acct, "ready") ELSE UNCHANGED row
    /\ EndJob(j)
    /\ UNCHANGED <<code, polls, known, azureVars, ghostVars, faults>>

(* A call between the apply run and the catalog fails; a refused PUT is one. *)
DeployFails(j) ==
    /\ \E step \in {"commit", "read", "write"} : At(j, "deploy", step)
    /\ FailJob(j)
    /\ UNCHANGED <<code, polls, known, azureVars, ghostVars, faults>>

-----------------------------------------------------------------------------
(* _teardown_account.                                                      *)

TeardownLoad(j) ==
    /\ At(j, "teardown", "load")
    /\ IF Exists(job[j].acct) THEN Goto(j, "read") ELSE EndJob(j)
    /\ UNCHANGED <<requestVars, known, azureVars, ghostVars, faults>>

(* _pool_remove_service, the GET: nothing to do in a pool the hub is not in;
   the last member's removal begins with the policy. *)
ReadPoolToLeave(j, p) ==
    /\ At(j, "teardown", "read")
    /\ p \in job[j].left
    /\ LET next == IF job[j].acct \notin pool[p] THEN "read"
                   ELSE IF pool[p] = {job[j].acct} THEN "detach" ELSE "write"
       IN  job' = IF next = "read"
                  THEN [job EXCEPT ![j].left = @ \ {p}]
                  ELSE [job EXCEPT ![j].at = next, ![j].on = p, ![j].seen = pool[p]]
    /\ UNCHANGED <<requestVars, known, azureVars, ghostVars, faults>>

(* The PUT of the other members, If-Match the ETag. *)
PutOthers(j) ==
    /\ At(j, "teardown", "write")
    /\ pool[job[j].on] = job[j].seen
    /\ pool' = [pool EXCEPT ![job[j].on] = @ \ {job[j].acct}]

LeavePool(j) ==
    /\ PutOthers(j)
    /\ NextPool(j)
    /\ UNCHANGED <<requestVars, known, policy, hub, late, doomed, ghostVars, faults>>

(* _detach_api_policy. *)
Detach(j) ==
    /\ At(j, "teardown", "detach")
    /\ policy' = [policy EXCEPT ![job[j].on] = FALSE]
    /\ Goto(j, "drop")
    /\ UNCHANGED <<requestVars, known, pool, hub, late, doomed, ghostVars, faults>>

(* Mutant of DeletePool: the DELETE carries no If-Match. *)
DeletePoolBlindly(j) ==
    /\ At(j, "teardown", "drop")
    /\ ~policy[job[j].on]
    /\ pool' = [pool EXCEPT ![job[j].on] = NoPool]

(* The DELETE, If-Match the ETag; ARM refuses it while a policy names the
   pool, and a pool that is gone is as good as deleted. *)
DeletePool(j) ==
    LET p == job[j].on
    IN  /\ At(j, "teardown", "drop")
        /\ pool[p] = NoPool \/ (pool[p] = job[j].seen /\ ~policy[p])
        /\ pool' = [pool EXCEPT ![p] = NoPool]

DropPool(j) ==
    /\ DeletePool(j)
    /\ NextPool(j)
    /\ UNCHANGED <<requestVars, known, policy, hub, late, doomed, ghostVars, faults>>

(* The PUT or DELETE is carried out and its answer is lost. *)
LeaveAnswerLost(j) ==
    /\ PutOthers(j) \/ DeletePool(j)
    /\ FailJob(j)
    /\ UNCHANGED <<code, polls, known, policy, hub, late, doomed, ghostVars, faults>>

(* Mutant of PoolGateFails: the failure is swallowed. *)
PoolFailureIgnored(j) ==
    /\ \E step \in {"read", "write", "detach", "drop"} : At(j, "teardown", step)
    /\ job' = [job EXCEPT ![j].at = "read", ![j].left = {}]
    /\ UNCHANGED <<requestVars, known, azureVars, ghostVars, faults>>

(* The first gate: a failure in the pools ends the teardown. *)
PoolGateFails(j) ==
    /\ \E step \in {"read", "write", "detach", "drop"} : At(j, "teardown", step)
    /\ FailJob(j)
    /\ UNCHANGED <<code, polls, known, azureVars, ghostVars, faults>>

(* destroy_hub succeeds. *)
Destroy(j) ==
    /\ At(j, "teardown", "read")
    /\ job[j].left = {}
    /\ hub' = hub \ {job[j].acct}
    /\ Goto(j, "clean")
    /\ UNCHANGED <<requestVars, known, armVars, late, doomed, ghostVars, faults>>

(* Mutant of DestroyGateFails: the failure is swallowed. *)
DestroyFailureIgnored(j) ==
    /\ At(j, "teardown", "read")
    /\ job[j].left = {}
    /\ Goto(j, "clean")
    /\ UNCHANGED <<requestVars, known, azureVars, ghostVars, faults>>

(* The second gate: the destroy run fails, with or without the resources
   removed. *)
DestroyGateFails(j) ==
    /\ At(j, "teardown", "read")
    /\ job[j].left = {}
    /\ hub' \in {hub, hub \ {job[j].acct}}
    /\ FailJob(j)
    /\ UNCHANGED <<code, polls, known, armVars, late, doomed, ghostVars, faults>>

(* _find_run or _poll_run gives up on a destroy run that goes on. *)
DestroyTimesOut(j) ==
    /\ At(j, "teardown", "read")
    /\ job[j].left = {}
    /\ doomed' = doomed \cup {job[j].acct}
    /\ FailJob(j)
    /\ UNCHANGED <<code, polls, known, armVars, hub, late, ghostVars, faults>>

(* The destroy run nobody waits for ends. *)
LateDestroy(a) ==
    /\ a \in doomed
    /\ doomed' = doomed \ {a}
    /\ hub' \in {hub, hub \ {a}}
    /\ UNCHANGED <<requestVars, known, job, armVars, late, ghostVars, faults>>

(* The secrets and the row are deleted. *)
Clean(j) ==
    /\ At(j, "teardown", "clean")
    /\ Commit(job[j].acct, "gone")
    /\ known' = known \ {job[j].acct}
    /\ EndJob(j)
    /\ UNCHANGED <<code, polls, azureVars, ghostVars, faults>>

-----------------------------------------------------------------------------
(* An exception no handler is for: Key Vault before the destroy run, or the
   database, which fails the deployment's own handler too. *)
Uncaught(j) ==
    /\ faults < MaxFaults /\ faults' = faults + 1
    /\ \/ \E step \in {"load", "commit", "ready"} : At(j, "deploy", step)
       \/ \E step \in {"load", "clean"} : At(j, "teardown", step)
       \/ At(j, "teardown", "read") /\ job[j].left = {}
    /\ EndJob(j)
    /\ UNCHANGED <<requestVars, known, azureVars, ghostVars>>

(* The control plane restarts: requests and background tasks are gone, the
   runs they waited for go on. *)
Restart ==
    /\ faults < MaxFaults /\ faults' = faults + 1
    /\ polls' = [a \in Accounts |-> 0]
    /\ job' = [j \in Jobs |-> NoJob]
    /\ late' = late \cup
          {a \in Accounts : \E j \in Jobs : At(j, "deploy", "apply") /\ job[j].acct = a}
    /\ doomed' = doomed \cup
          {a \in Accounts : \E j \in Jobs : /\ At(j, "teardown", "read") /\ job[j].left = {}
                                           /\ job[j].acct = a}
    /\ UNCHANGED <<row, code, known, armVars, hub, ghostVars>>

Request(a) ==
    \/ DeviceStart(a) \/ PollBegin(a) \/ PollPending(a) \/ PollSuccess(a) \/ PollError(a)
    \/ Delete(a)
    \/ \E p \in Providers : Resync(a, p)

Deploy(j) ==
    \/ DeployLoad(j) \/ Apply(j) \/ ApplyFails(j) \/ ApplyTimesOut(j) \/ CommitHub(j)
    \/ \E p \in Providers : ReadPoolToJoin(j, p)
    \/ JoinPool(j) \/ JoinAnswerLost(j) \/ Wire(j) \/ Ready(j) \/ DeployFails(j)

Teardown(j) ==
    \/ TeardownLoad(j)
    \/ \E p \in Providers : ReadPoolToLeave(j, p)
    \/ LeavePool(j) \/ Detach(j) \/ DropPool(j) \/ LeaveAnswerLost(j) \/ PoolGateFails(j)
    \/ Destroy(j) \/ DestroyGateFails(j) \/ DestroyTimesOut(j) \/ Clean(j)

Next ==
    \/ \E a \in Accounts : Request(a) \/ LateApply(a) \/ LateDestroy(a)
    \/ \E j \in Jobs : Deploy(j) \/ Teardown(j) \/ Uncaught(j)
    \/ Restart

Spec == Init /\ [][Next]_vars

(* Every call of a background task has a timeout, so its thread goes on. *)
FairSpec == Spec /\ \A j \in Jobs : WF_vars(Deploy(j) \/ Teardown(j))

-----------------------------------------------------------------------------
(* The values of the variables. *)
TypeOK ==
    /\ row \in [Accounts -> Statuses \cup {"none", "gone"}]
    /\ code \subseteq Accounts
    /\ polls \in [Accounts -> 0 .. MaxPolls]
    /\ job \in [Jobs -> JobRecords \cup {NoJob}]
    /\ pool \in [Providers -> SUBSET Accounts]
    /\ policy \in [Providers -> BOOLEAN]
    /\ hub \subseteq Accounts /\ known \subseteq Accounts
    /\ late \subseteq Accounts /\ doomed \subseteq Accounts
    /\ mixed \subseteq Accounts /\ bumped \subseteq Accounts
    /\ faults \in 0 .. MaxFaults

(* No traffic is sent to a hub that does not exist: a member of a pool has its
   hub.  An account deleted while its deployment runs is excepted. *)
PooledHubLives ==
    \A p \in Providers : pool[p] \subseteq hub \cup mixed

(* The row is the record a retry works from: when it is gone and no task is
   left, so are the hub and the pool memberships, with the same exception. *)
GoneIsClean ==
    \A a \in Accounts \ mixed :
        row[a] = "gone" /\ Idle(a) => a \notin hub /\ \A p \in Providers : a \notin pool[p]

(* A ready account receives traffic of every provider, unless another
   account's creation of the pool has thrown it out. *)
ReadyIsPooledUnlessBumped ==
    \A a \in Accounts \ (mixed \cup bumped) :
        row[a] = "ready" => a \in hub /\ \A p \in Providers : a \in pool[p]

(* Without a crash or an uncaught exception, an account does not stay in a
   transitional status: the portal offers no delete of a deleting account. *)
StatusSettles ==
    \A a \in Accounts, s \in {"deploying", "deleting"} :
        row[a] = s ~> row[a] # s \/ faults > 0

(* _teardown_account deletes the row only when "there is nothing left to
   strand": no hub is left, and no pool membership. *)
NothingStranded ==
    \A a \in Accounts :
        row[a] = "gone" /\ Idle(a) => a \notin hub /\ \A p \in Providers : a \notin pool[p]
=============================================================================
