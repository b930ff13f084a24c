-------------------------- MODULE HubAccounts_proofs --------------------------
(***************************************************************************)
(* What holds of the gateway's pools, the hubs and the rows of accounts,   *)
(* for any number of accounts, providers and background tasks.  The        *)
(* inductive invariant says what each task has achieved so far (JobOK) and *)
(* how an account's row, hub and memberships go together (AccountOK); of   *)
(* an account deleted while its deployment ran it says next to nothing.    *)
(***************************************************************************)
EXTENDS HubAccounts, TLAPS

(* A deployment that is past its apply run has a hub, and the hub is in the *)
(* pools the task has dealt with.                                           *)
DeployOK(r) ==
    /\ r.acct \notin mixed /\ r.at \in {"commit", "read", "write", "ready"} => r.acct \in hub
    /\ r.acct \notin mixed \cup bumped => \A p \in Providers \ r.left : r.acct \in pool[p]
    /\ r.at = "ready" => r.left = {}

(* A teardown has left the pools it has dealt with; it deletes a pool of    *)
(* which it was the only member, and a row of which nothing is left.        *)
TeardownOK(r) ==
    /\ r.acct \notin mixed => \A p \in Providers \ r.left : r.acct \notin pool[p]
    /\ r.at \in {"detach", "drop"} => r.seen = {r.acct}
    /\ r.at = "clean" => r.left = {} /\ (r.acct \notin mixed => r.acct \notin hub)

TaskOK(r) ==
    /\ r.at \in {"write", "detach", "drop"} => r.on \in Providers
    /\ r.kind = "deploy" => DeployOK(r)
    /\ r.kind = "teardown" => TeardownOK(r)

JobOK(j) == Live(j) => TaskOK(job[j])

(* While an account is torn down nothing builds it up, a row that is gone   *)
(* or ready tells the truth, and a destroy run that nobody waits for hits   *)
(* an account in no pool.                                                   *)
AccountOK(a) ==
    a \notin mixed =>
        /\ Working(a, "teardown") => ~Working(a, "deploy") /\ a \notin late /\ row[a] # "ready"
        /\ row[a] = "gone" => /\ ~Working(a, "deploy") /\ a \notin late /\ a \notin hub
                              /\ \A p \in Providers : a \notin pool[p]
        /\ row[a] = "ready" => a \in hub /\ (a \in bumped \/ \A p \in Providers : a \in pool[p])
        /\ \A p \in Providers : a \in pool[p] => a \in hub
        /\ a \in doomed => /\ ~Working(a, "deploy") /\ a \notin late /\ row[a] # "ready"
                          /\ \A p \in Providers : a \notin pool[p]

AccountsInv ==
    /\ TypeOK
    /\ \A j \in Jobs : JobOK(j)
    /\ \A a \in Accounts : AccountOK(a)

-----------------------------------------------------------------------------
(* Types.  The record of a task in each shape the tasks give it.            *)
LEMMA Records ==
    ASSUME NEW r \in JobRecords
    PROVE  /\ \A step \in DeploySteps \cup TeardownSteps :
                 [r EXCEPT !.at = step] \in JobRecords
           /\ \A p \in Providers : [r EXCEPT !.left = r.left \ {p}] \in JobRecords
           /\ \A step \in DeploySteps \cup TeardownSteps, p \in Providers, S \in SUBSET Accounts :
                 [r EXCEPT !.at = step, !.on = p, !.seen = S] \in JobRecords
           /\ [r EXCEPT !.at = "read", !.left = r.left \ {r.on},
                        !.on = NoProvider, !.seen = NoPool] \in JobRecords
  BY DEF JobRecords, DeploySteps, TeardownSteps, NoPool

(* A task that is at a step is one with a record.                           *)
LEMMA HasRecord ==
    ASSUME TypeOK, NEW j \in Jobs, Live(j)
    PROVE  job[j] \in JobRecords /\ job[j].acct \in Accounts /\ job[j].seen \subseteq Accounts
  BY DEF TypeOK, Live, JobRecords

JobsType == job' \in [Jobs -> JobRecords \cup {NoJob}]
RowsType == row' \in [Accounts -> Statuses \cup {"none", "gone"}]

LEMMA StepTypes ==
    ASSUME TypeOK, NEW j \in Jobs, Live(j)
    PROVE  /\ \A step \in DeploySteps \cup TeardownSteps : Goto(j, step) => JobsType
           /\ EndJob(j) => JobsType
           /\ NextPool(j) => JobsType
           /\ FailJob(j) => JobsType /\ RowsType
<1>1. job[j] \in JobRecords /\ job \in [Jobs -> JobRecords \cup {NoJob}]
  BY HasRecord DEF TypeOK
<1>2. \A r \in JobRecords \cup {NoJob} :
         [job EXCEPT ![j] = r] \in [Jobs -> JobRecords \cup {NoJob}]
  BY <1>1
<1>3. ASSUME NEW step \in DeploySteps \cup TeardownSteps, Goto(j, step) PROVE JobsType
  <2>1. job' = [job EXCEPT ![j] = [job[j] EXCEPT !.at = step]]
    BY <1>3 DEF Goto
  <2>2. [job[j] EXCEPT !.at = step] \in JobRecords
    BY <1>1, Records
  <2> QED
    BY <1>2, <2>1, <2>2 DEF JobsType
<1>4. ASSUME EndJob(j) PROVE JobsType
  BY <1>2, <1>4 DEF EndJob, JobsType
<1>5. ASSUME NextPool(j) PROVE JobsType
  <2> DEFINE r == [job[j] EXCEPT !.at = "read", !.left = job[j].left \ {job[j].on},
                                 !.on = NoProvider, !.seen = NoPool]
  <2>1. job' = [job EXCEPT ![j] = r]
    BY <1>5 DEF NextPool
  <2>2. r \in JobRecords
    BY <1>1, Records
  <2> HIDE DEF r
  <2> QED
    BY <1>2, <2>1, <2>2 DEF JobsType
<1>6. ASSUME FailJob(j) PROVE RowsType
  BY <1>6 DEF FailJob, Commit, RowsType, TypeOK, Statuses
<1>7. FailJob(j) => EndJob(j)
  BY DEF FailJob
<1> QED
  BY <1>3, <1>4, <1>5, <1>6, <1>7

LEMMA CommitType ==
    TypeOK => \A a \in Accounts, s \in Statuses \cup {"gone"} : Commit(a, s) => RowsType
  BY DEF TypeOK, Commit, RowsType

LEMMA StartType ==
    ASSUME TypeOK, NEW a \in Accounts, NEW kind \in {"deploy", "teardown"}, StartJob(a, kind)
    PROVE  JobsType /\ mixed' \subseteq Accounts
<1> DEFINE r == [acct |-> a, kind |-> kind, at |-> "load", left |-> Providers,
                 on |-> NoProvider, seen |-> NoPool]
<1>1. PICK j \in Jobs : job' = [job EXCEPT ![j] = r]
  BY DEF StartJob
<1>2. r \in JobRecords
  BY DEF JobRecords, DeploySteps, NoPool
<1> HIDE DEF r
<1>3. JobsType
  BY <1>1, <1>2 DEF TypeOK, JobsType
<1>4. mixed' \subseteq Accounts
  BY DEF StartJob, TypeOK
<1> QED
  BY <1>3, <1>4

(* The requests of an account.                                              *)
LEMMA RequestType ==
    ASSUME TypeOK, NEW a \in Accounts, Request(a)
    PROVE  TypeOK'
<1> USE AccountsAssumption
<1>1. CASE DeviceStart(a)
  BY <1>1, CommitType DEF DeviceStart, TypeOK, RowsType, Statuses, azureVars, armVars, ghostVars
<1>2. CASE PollBegin(a)
  BY <1>2 DEF PollBegin, TypeOK, azureVars, armVars, ghostVars
<1>3. CASE PollPending(a)
  BY <1>3 DEF PollPending, TypeOK, azureVars, armVars, ghostVars
<1>4. CASE PollSuccess(a)
  <2>1. JobsType /\ RowsType /\ mixed' \subseteq Accounts
    <3>1. CASE Commit(a, "deploying") /\ StartJob(a, "deploy")
      BY <3>1, CommitType, StartType DEF Statuses
    <3>2. CASE UNCHANGED <<row, job, mixed>>
      BY <3>2 DEF TypeOK, JobsType, RowsType
    <3> QED
      BY <1>4, <3>1, <3>2 DEF PollSuccess
  <2>2. polls' \in [Accounts -> 0 .. MaxPolls] /\ code' \subseteq Accounts
    BY <1>4 DEF PollSuccess, TypeOK
  <2> QED
    BY <1>4, <2>1, <2>2 DEF PollSuccess, TypeOK, JobsType, RowsType, azureVars, armVars
<1>5. CASE PollError(a)
  <2>1. RowsType
    BY <1>5, CommitType DEF PollError, TypeOK, RowsType, Statuses
  <2>2. polls' \in [Accounts -> 0 .. MaxPolls]
    BY <1>5 DEF PollError, TypeOK
  <2> QED
    BY <1>5, <2>1, <2>2 DEF PollError, TypeOK, RowsType, azureVars, armVars, ghostVars
<1>6. CASE Delete(a)
  <2>1. JobsType /\ RowsType /\ mixed' \subseteq Accounts
    BY <1>6, CommitType, StartType DEF Delete, Statuses
  <2> QED
    BY <1>6, <2>1 DEF Delete, TypeOK, JobsType, RowsType, azureVars, armVars
<1>7. ASSUME NEW p \in Providers, Resync(a, p) PROVE TypeOK'
  BY <1>7 DEF Resync, TypeOK, requestVars, ghostVars
<1> QED
  BY <1>1, <1>2, <1>3, <1>4, <1>5, <1>6, <1>7 DEF Request

(* The calls of a deployment.                                               *)
LEMMA DeployType ==
    ASSUME TypeOK, NEW j \in Jobs, JobOK(j), Deploy(j)
    PROVE  TypeOK'
<1>0. Live(j)
  BY DEF Deploy, DeployLoad, Apply, ApplyFails, ApplyTimesOut, CommitHub, ReadPoolToJoin,
         JoinPool, JoinAnswerLost, JoinMatches, Wire, Ready, DeployFails, At
<1>1. /\ job[j] \in JobRecords /\ job[j].acct \in Accounts /\ job[j].seen \subseteq Accounts
      /\ job \in [Jobs -> JobRecords \cup {NoJob}]
  BY <1>0, HasRecord DEF TypeOK
<1>2. \A step \in DeploySteps : Goto(j, step) => JobsType
  BY <1>0, StepTypes
<1>3. (EndJob(j) => JobsType) /\ (NextPool(j) => JobsType) /\ (FailJob(j) => JobsType /\ RowsType)
  BY <1>0, StepTypes
<1>4. CASE DeployLoad(j)
  BY <1>2, <1>3, <1>4
     DEF DeployLoad, TypeOK, JobsType, DeploySteps, requestVars, azureVars, armVars, ghostVars
<1>5. CASE Apply(j)
  BY <1>1, <1>2, <1>5 DEF Apply, TypeOK, JobsType, DeploySteps, requestVars, armVars, ghostVars
<1>6. CASE ApplyFails(j)
  BY <1>1, <1>3, <1>6 DEF ApplyFails, TypeOK, JobsType, RowsType, armVars, ghostVars
<1>7. CASE ApplyTimesOut(j)
  BY <1>1, <1>3, <1>7 DEF ApplyTimesOut, TypeOK, JobsType, RowsType, armVars, ghostVars
<1>8. CASE CommitHub(j)
  <2>1. JobsType /\ known' \subseteq Accounts
    BY <1>1, <1>2, <1>3, <1>8 DEF CommitHub, DeploySteps, TypeOK
  <2> QED
    BY <1>8, <2>1 DEF CommitHub, TypeOK, JobsType, requestVars, azureVars, armVars, ghostVars
<1>9. ASSUME NEW p \in Providers, ReadPoolToJoin(j, p) PROVE TypeOK'
  <2>1. /\ [job[j] EXCEPT !.left = job[j].left \ {p}] \in JobRecords
        /\ [job[j] EXCEPT !.at = "write", !.on = p, !.seen = pool[p]] \in JobRecords
    BY <1>1, Records DEF TypeOK, DeploySteps
  <2>2. \/ job' = [job EXCEPT ![j] = [job[j] EXCEPT !.left = job[j].left \ {p}]]
        \/ job' = [job EXCEPT ![j] = [job[j] EXCEPT !.at = "write", !.on = p, !.seen = pool[p]]]
    BY <1>1, <1>9 DEF ReadPoolToJoin
  <2>3. JobsType
    BY <1>1, <2>1, <2>2 DEF JobsType
  <2> QED
    BY <1>9, <2>3
       DEF ReadPoolToJoin, TypeOK, JobsType, requestVars, azureVars, armVars, ghostVars
<1>10. JoinMatches(j) /\ PutJoined(j) =>
          pool' \in [Providers -> SUBSET Accounts] /\ bumped' \subseteq Accounts
  <2> SUFFICES ASSUME JoinMatches(j), PutJoined(j)
               PROVE  pool' \in [Providers -> SUBSET Accounts] /\ bumped' \subseteq Accounts
    OBVIOUS
  <2>1. Joined(j) \subseteq Accounts
    BY <1>1 DEF Joined
  <2>2. pool' \in [Providers -> SUBSET Accounts]
    BY <2>1 DEF PutJoined, TypeOK
  <2>3. bumped' \subseteq bumped \cup pool[job[j].on]
    BY DEF PutJoined
  <2>4. job[j].on \in Providers
    BY <1>0 DEF JobOK, TaskOK, JoinMatches, At
  <2> QED
    BY <2>2, <2>3, <2>4 DEF TypeOK
<1>11. CASE JoinPool(j)
  BY <1>3, <1>10, <1>11 DEF JoinPool, TypeOK, JobsType, requestVars
<1>12. CASE JoinAnswerLost(j)
  BY <1>3, <1>10, <1>12 DEF JoinAnswerLost, TypeOK, JobsType, RowsType
<1>13. CASE Wire(j)
  <2>1. JobsType /\ policy' \in [Providers -> BOOLEAN]
    BY <1>2, <1>13 DEF Wire, DeploySteps, TypeOK
  <2> QED
    BY <1>13, <2>1 DEF Wire, TypeOK, JobsType, requestVars, ghostVars
<1>14. CASE Ready(j)
  <2>1. JobsType /\ RowsType
    BY <1>1, <1>3, <1>14, CommitType DEF Ready, TypeOK, RowsType, Statuses
  <2> QED
    BY <1>14, <2>1 DEF Ready, TypeOK, JobsType, RowsType, azureVars, armVars, ghostVars
<1>15. CASE DeployFails(j)
  BY <1>3, <1>15 DEF DeployFails, TypeOK, JobsType, RowsType, azureVars, armVars, ghostVars
<1> QED
  BY <1>4, <1>5, <1>6, <1>7, <1>8, <1>9, <1>11, <1>12, <1>13, <1>14, <1>15 DEF Deploy

(* The calls of a teardown.                                                 *)
LEMMA TeardownType ==
    ASSUME TypeOK, NEW j \in Jobs, Teardown(j)
    PROVE  TypeOK'
<1>0. Live(j)
  BY DEF Teardown, TeardownLoad, ReadPoolToLeave, LeavePool, Detach, DropPool, LeaveAnswerLost,
         PutOthers, DeletePool, PoolGateFails, Destroy, DestroyGateFails, DestroyTimesOut,
         Clean, At
<1>1. /\ job[j] \in JobRecords /\ job[j].acct \in Accounts /\ job[j].seen \subseteq Accounts
      /\ job \in [Jobs -> JobRecords \cup {NoJob}]
  BY <1>0, HasRecord DEF TypeOK
<1>2. \A step \in TeardownSteps : Goto(j, step) => JobsType
  BY <1>0, StepTypes
<1>3. (EndJob(j) => JobsType) /\ (NextPool(j) => JobsType) /\ (FailJob(j) => JobsType /\ RowsType)
  BY <1>0, StepTypes
<1>4. CASE TeardownLoad(j)
  BY <1>2, <1>3, <1>4
     DEF TeardownLoad, TypeOK, JobsType, TeardownSteps, requestVars, azureVars, armVars, ghostVars
<1>5. ASSUME NEW p \in Providers, ReadPoolToLeave(j, p) PROVE TypeOK'
  <2>1. \A step \in {"detach", "write"} :
           /\ [job[j] EXCEPT !.left = job[j].left \ {p}] \in JobRecords
           /\ [job[j] EXCEPT !.at = step, !.on = p, !.seen = pool[p]] \in JobRecords
    BY <1>1, Records DEF TypeOK, TeardownSteps
  <2>2. \/ job' = [job EXCEPT ![j] = [job[j] EXCEPT !.left = job[j].left \ {p}]]
        \/ \E step \in {"detach", "write"} :
              job' = [job EXCEPT ![j] = [job[j] EXCEPT !.at = step, !.on = p, !.seen = pool[p]]]
    BY <1>1, <1>5 DEF ReadPoolToLeave
  <2>3. JobsType
    BY <1>1, <2>1, <2>2 DEF JobsType
  <2> QED
    BY <1>5, <2>3
       DEF ReadPoolToLeave, TypeOK, JobsType, requestVars, azureVars, armVars, ghostVars
<1>6. PutOthers(j) \/ DeletePool(j) => pool' \in [Providers -> SUBSET Accounts]
  BY DEF PutOthers, DeletePool, TypeOK, NoPool
<1>7. CASE LeavePool(j)
  BY <1>3, <1>6, <1>7 DEF LeavePool, TypeOK, JobsType, requestVars, ghostVars
<1>8. CASE Detach(j)
  BY <1>2, <1>8 DEF Detach, TypeOK, JobsType, TeardownSteps, requestVars, ghostVars
<1>9. CASE DropPool(j)
  BY <1>3, <1>6, <1>9 DEF DropPool, TypeOK, JobsType, requestVars, ghostVars
<1>10. CASE LeaveAnswerLost(j)
  BY <1>3, <1>6, <1>10 DEF LeaveAnswerLost, TypeOK, JobsType, RowsType, ghostVars
<1>11. CASE PoolGateFails(j)
  BY <1>3, <1>11 DEF PoolGateFails, TypeOK, JobsType, RowsType, azureVars, armVars, ghostVars
<1>12. CASE Destroy(j)
  BY <1>2, <1>12 DEF Destroy, TypeOK, JobsType, TeardownSteps, requestVars, armVars, ghostVars
<1>13. CASE DestroyGateFails(j)
  <2>1. hub' \subseteq Accounts
    BY <1>13 DEF DestroyGateFails, TypeOK
  <2> QED
    BY <1>3, <1>13, <2>1 DEF DestroyGateFails, TypeOK, JobsType, RowsType, armVars, ghostVars
<1>14. CASE DestroyTimesOut(j)
  <2>1. doomed' \subseteq Accounts
    BY <1>1, <1>14 DEF DestroyTimesOut, TypeOK
  <2> QED
    BY <1>3, <1>14, <2>1 DEF DestroyTimesOut, TypeOK, JobsType, RowsType, armVars, ghostVars
<1>15. CASE Clean(j)
  <2>1. JobsType /\ RowsType
    BY <1>1, <1>3, <1>15, CommitType DEF Clean
  <2> QED
    BY <1>15, <2>1 DEF Clean, TypeOK, JobsType, RowsType, azureVars, armVars, ghostVars
<1> QED
  BY <1>4, <1>5, <1>7, <1>8, <1>9, <1>10, <1>11, <1>12, <1>13, <1>14, <1>15
     DEF Teardown

(* Every step.                                                              *)
LEMMA AnyType == AccountsInv /\ [Next]_vars => TypeOK'
<1> SUFFICES ASSUME AccountsInv, [Next]_vars PROVE TypeOK'
  OBVIOUS
<1>0. TypeOK /\ \A j \in Jobs : JobOK(j)
  BY DEF AccountsInv
<1>1. ASSUME NEW a \in Accounts, LateApply(a) PROVE TypeOK'
  <2>1. hub' \subseteq Accounts /\ late' \subseteq Accounts
    BY <1>0, <1>1 DEF LateApply, TypeOK
  <2> QED
    BY <1>0, <1>1, <2>1 DEF LateApply, TypeOK, requestVars, armVars, ghostVars
<1>2. ASSUME NEW a \in Accounts, LateDestroy(a) PROVE TypeOK'
  <2>1. hub' \subseteq Accounts /\ doomed' \subseteq Accounts
    BY <1>0, <1>2 DEF LateDestroy, TypeOK
  <2> QED
    BY <1>0, <1>2, <2>1 DEF LateDestroy, TypeOK, requestVars, armVars, ghostVars
<1>3. ASSUME NEW j \in Jobs, Uncaught(j) PROVE TypeOK'
  <2>1. JobsType
    BY <1>0, <1>3 DEF Uncaught, EndJob, TypeOK, JobsType
  <2>2. faults' \in 0 .. MaxFaults
    BY <1>0, <1>3, AccountsAssumption DEF Uncaught, TypeOK
  <2> QED
    BY <1>0, <1>3, <2>1, <2>2
       DEF Uncaught, TypeOK, JobsType, requestVars, azureVars, armVars, ghostVars
<1>4. CASE Restart
  <2>1. late' \subseteq Accounts /\ doomed' \subseteq Accounts /\ JobsType
    BY <1>0, <1>4 DEF Restart, TypeOK, JobsType
  <2>2. faults' \in 0 .. MaxFaults /\ polls' \in [Accounts -> 0 .. MaxPolls]
    BY <1>0, <1>4, AccountsAssumption DEF Restart, TypeOK
  <2> QED
    BY <1>0, <1>4, <2>1, <2>2 DEF Restart, TypeOK, JobsType, armVars, ghostVars
<1>5. CASE UNCHANGED vars
  BY <1>0, <1>5 DEF TypeOK, vars, requestVars, azureVars, armVars, ghostVars
<1> QED
  BY <1>0, <1>1, <1>2, <1>3, <1>4, <1>5, RequestType, DeployType, TeardownType DEF Next

-----------------------------------------------------------------------------
(* Steps about one account, as the others see them: a member is at most     *)
(* thrown out by the creation of a pool.                                    *)
Alone(a) ==
    /\ UNCHANGED mixed
    /\ bumped \subseteq bumped'
    /\ \A b \in Accounts \ {a} :
          /\ row'[b] = row[b]
          /\ b \in hub' <=> b \in hub
          /\ b \in late' => b \in late
          /\ b \in doomed' => b \in doomed
          /\ \A p \in Providers : /\ b \in pool'[p] => b \in pool[p]
                                  /\ b \in pool[p] => b \in pool'[p] \/ b \in bumped'

(* What a deployment builds up, and what a teardown takes down.             *)
Grows(a) == /\ a \in hub => a \in hub'
            /\ a \in doomed' => a \in doomed
            /\ \A p \in Providers : a \in pool[p] => a \in pool'[p]

Shrinks(a) == /\ a \in hub' => a \in hub
              /\ a \in late' => a \in late
              /\ \A p \in Providers : a \in pool'[p] => a \in pool[p]

(* A task keeps what it has achieved.                                       *)
LEMMA TaskKeeps ==
    ASSUME NEW a \in Accounts, Alone(a), NEW r \in JobRecords, TaskOK(r),
           r.acct = a /\ a \notin mixed => /\ r.kind = "deploy" => Grows(a)
                                           /\ r.kind = "teardown" => Shrinks(a)
    PROVE  TaskOK(r)'
<1>1. r.acct \in Accounts /\ mixed' = mixed /\ bumped \subseteq bumped'
  BY DEF JobRecords, Alone
<1>2. ASSUME r.kind = "deploy" PROVE DeployOK(r)'
  <2>1. DeployOK(r)
    BY <1>2 DEF TaskOK
  <2>2. ASSUME r.acct \notin mixed, r.at \in {"commit", "read", "write", "ready"}
        PROVE  r.acct \in hub'
    BY <1>1, <1>2, <2>1, <2>2 DEF DeployOK, Alone, Grows
  <2>3. ASSUME r.acct \notin mixed \cup bumped', NEW p \in Providers \ r.left
        PROVE  r.acct \in pool'[p]
    BY <1>1, <1>2, <2>1, <2>3 DEF DeployOK, Alone, Grows
  <2> QED
    BY <1>1, <2>1, <2>2, <2>3 DEF DeployOK
<1>3. ASSUME r.kind = "teardown" PROVE TeardownOK(r)'
  <2>1. TeardownOK(r)
    BY <1>3 DEF TaskOK
  <2>2. ASSUME r.acct \notin mixed, NEW p \in Providers \ r.left
        PROVE  r.acct \notin pool'[p]
    BY <1>1, <1>3, <2>1, <2>2 DEF TeardownOK, Alone, Shrinks
  <2>3. ASSUME r.at = "clean", r.acct \notin mixed PROVE r.acct \notin hub'
    BY <1>1, <1>3, <2>1, <2>3 DEF TeardownOK, Alone, Shrinks
  <2> QED
    BY <1>1, <2>1, <2>2, <2>3 DEF TeardownOK
<1> QED
  BY <1>2, <1>3 DEF TaskOK

(* An account that nothing is done to keeps its word.                       *)
LEMMA AccountKeeps ==
    ASSUME NEW a \in Accounts, Alone(a), NEW b \in Accounts \ {a}, AccountOK(b),
           \A kind \in {"deploy", "teardown"} : Working(b, kind)' => Working(b, kind)
    PROVE  AccountOK(b)'
<1>1. /\ row'[b] = row[b] /\ mixed' = mixed /\ (b \in hub' <=> b \in hub)
      /\ b \in late' => b \in late
      /\ b \in doomed' => b \in doomed
      /\ b \in bumped => b \in bumped'
      /\ \A p \in Providers : /\ b \in pool'[p] => b \in pool[p]
                              /\ b \in pool[p] => b \in pool'[p] \/ b \in bumped'
  BY DEF Alone
<1>2. (Working(b, "deploy")' => Working(b, "deploy"))
      /\ (Working(b, "teardown")' => Working(b, "teardown"))
  OBVIOUS
<1> QED
  BY <1>1, <1>2 DEF AccountOK

(* The task in slot j makes a step, or ends.                                *)
Step(j, h) ==
    /\ Live(j)
    /\ job' = [job EXCEPT ![j] = h]
    /\ h = NoJob \/ (h.acct = job[j].acct /\ h.kind = job[j].kind)

LEMMA WorkingFades ==
    ASSUME TypeOK, NEW j \in Jobs, NEW h, Step(j, h), NEW b, NEW kind, Working(b, kind)'
    PROVE  Working(b, kind)
<1>1. PICK i \in Jobs : Live(i)' /\ job'[i].acct = b /\ job'[i].kind = kind
  BY DEF Working
<1>2. job'[j] = h /\ (i # j => job'[i] = job[i])
  BY DEF Step, TypeOK
<1>3. CASE i = j
  BY <1>1, <1>2, <1>3 DEF Working, Live, Step
<1>4. CASE i # j
  BY <1>1, <1>2, <1>4 DEF Working, Live
<1> QED
  BY <1>3, <1>4

LEMMA JobMoves ==
    ASSUME AccountsInv, TypeOK', NEW j \in Jobs, NEW h, Step(j, h),
           NEW a \in Accounts, a = job[j].acct, Alone(a),
           job[j].kind = "deploy" => Grows(a), job[j].kind = "teardown" => Shrinks(a),
           h # NoJob => TaskOK(h)', AccountOK(a)'
    PROVE  AccountsInv'
<1>1. job'[j] = h /\ \A i \in Jobs \ {j} : job'[i] = job[i]
  BY DEF Step, AccountsInv, TypeOK
<1>2. JobOK(j)'
  BY <1>1 DEF JobOK, Live, TaskOK, DeployOK, TeardownOK
<1>3. ASSUME NEW i \in Jobs \ {j}, Live(i) PROVE TaskOK(job[i])'
  <2>1. PICK r \in JobRecords : r = job[i]
    BY <1>3, HasRecord DEF AccountsInv
  <2>2. TaskOK(r)
    BY <1>3, <2>1 DEF AccountsInv, JobOK
  <2>3. ASSUME r.acct = a, a \notin mixed PROVE r.kind = job[j].kind
    <3>1. Working(a, r.kind) /\ Working(a, job[j].kind)
      BY <1>3, <2>1, <2>3 DEF Working, Step
    <3>2. r.kind \in {"deploy", "teardown"} /\ job[j].kind \in {"deploy", "teardown"}
      BY HasRecord DEF JobRecords, Step, AccountsInv
    <3>3. ~(Working(a, "deploy") /\ Working(a, "teardown"))
      BY <2>3 DEF AccountsInv, AccountOK
    <3> QED
      BY <3>1, <3>2, <3>3
  <2>4. Alone(a) /\ (job[j].kind = "deploy" => Grows(a)) /\ (job[j].kind = "teardown" => Shrinks(a))
    OBVIOUS
  <2>5. TaskOK(r)'
    BY <2>2, <2>3, <2>4, TaskKeeps
  <2> QED
    BY <1>1, <2>1, <2>5 DEF TaskOK, DeployOK, TeardownOK
<1>4. \A i \in Jobs : JobOK(i)'
  <2>1. ASSUME NEW i \in Jobs \ {j} PROVE JobOK(i)'
    BY <1>1, <1>3, <2>1 DEF JobOK, Live, TaskOK, DeployOK, TeardownOK
  <2> QED
    BY <1>2, <2>1
<1>5. ASSUME NEW b \in Accounts PROVE AccountOK(b)'
  <2>1. CASE b = a
    BY <2>1
  <2>2. CASE b # a
    <3>1. \A kind \in {"deploy", "teardown"} : Working(b, kind)' => Working(b, kind)
      BY WorkingFades DEF AccountsInv
    <3>2. Alone(a) /\ AccountOK(b)
      BY DEF AccountsInv
    <3> QED
      BY <2>2, <3>1, <3>2, AccountKeeps
  <2> QED
    BY <2>1, <2>2
<1> QED
  BY <1>4, <1>5 DEF AccountsInv

(* What a deployment may do to its account.                                 *)
LEMMA DeployMoves ==
    ASSUME AccountsInv, TypeOK', NEW j \in Jobs, NEW h, Step(j, h),
           NEW a \in Accounts, a = job[j].acct, job[j].kind = "deploy", Alone(a), Grows(a),
           a \notin mixed => \A p \in Providers : a \in pool'[p] => a \in hub',
           \/ row'[a] \in {row[a], "failed"}
           \/ /\ row'[a] = "ready"
              /\ a \notin mixed => a \in hub' /\ (a \in bumped' \/ \A p \in Providers : a \in pool'[p]),
           h # NoJob => TaskOK(h)'
    PROVE  AccountsInv'
<1>1. AccountOK(a)'
  <2> SUFFICES ASSUME a \notin mixed' PROVE AccountOK(a)'
    BY DEF AccountOK
  <2>0. AccountOK(a) /\ a \notin mixed
    BY DEF AccountsInv, Alone
  <2>1. Working(a, "deploy")
    BY DEF Working, Step
  <2>2. ~Working(a, "teardown") /\ row[a] # "gone" /\ a \notin doomed
    BY <2>0, <2>1 DEF AccountOK
  <2>3. ~Working(a, "teardown")'
    BY <2>2, WorkingFades DEF AccountsInv
  <2>4. row'[a] # "gone"
    BY <2>0, <2>2
  <2>5. row'[a] = "ready" => a \in hub' /\ (a \in bumped' \/ \A p \in Providers : a \in pool'[p])
    <3>1. row[a] = "ready" => a \in hub /\ (a \in bumped \/ \A p \in Providers : a \in pool[p])
      BY <2>0 DEF AccountOK
    <3>2. bumped \subseteq bumped'
      BY DEF Alone
    <3> QED
      BY <2>0, <3>1, <3>2 DEF Grows
  <2>6. a \notin doomed'
    BY <2>2 DEF Grows
  <2> QED
    BY <2>0, <2>3, <2>4, <2>5, <2>6 DEF AccountOK
<1>2. job[j].kind # "teardown"
  OBVIOUS
<1> QED
  BY <1>1, <1>2, JobMoves

(* What a teardown may do to its account.                                   *)
LEMMA TeardownMoves ==
    ASSUME AccountsInv, TypeOK', NEW j \in Jobs, NEW h, Step(j, h),
           NEW a \in Accounts, a = job[j].acct, job[j].kind = "teardown", Alone(a), Shrinks(a),
           a \notin mixed => \A p \in Providers : a \in pool'[p] => a \in hub',
           a \in doomed' \ (doomed \cup mixed) => \A p \in Providers : a \notin pool[p],
           \/ row'[a] \in {row[a], "failed"}
           \/ /\ row'[a] = "gone"
              /\ a \notin mixed => a \notin hub' /\ \A p \in Providers : a \notin pool'[p],
           h # NoJob => TaskOK(h)'
    PROVE  AccountsInv'
<1>1. AccountOK(a)'
  <2> SUFFICES ASSUME a \notin mixed' PROVE AccountOK(a)'
    BY DEF AccountOK
  <2>0. AccountOK(a) /\ a \notin mixed
    BY DEF AccountsInv, Alone
  <2>1. Working(a, "teardown")
    BY DEF Working, Step
  <2>2. ~Working(a, "deploy") /\ a \notin late /\ row[a] # "ready"
    BY <2>0, <2>1 DEF AccountOK
  <2>3. ~Working(a, "deploy")' /\ a \notin late' /\ row'[a] # "ready"
    BY <2>0, <2>2, WorkingFades DEF AccountsInv, Shrinks
  <2>4. row'[a] = "gone" => a \notin hub' /\ \A p \in Providers : a \notin pool'[p]
    <3>1. row[a] = "gone" => a \notin hub /\ \A p \in Providers : a \notin pool[p]
      BY <2>0 DEF AccountOK
    <3> QED
      BY <2>0, <3>1 DEF Shrinks
  <2>5. a \in doomed' => \A p \in Providers : a \notin pool'[p]
    BY <2>0 DEF AccountOK, Shrinks
  <2> QED
    BY <2>0, <2>3, <2>4, <2>5 DEF AccountOK
<1>2. job[j].kind # "deploy"
  OBVIOUS
<1> QED
  BY <1>1, <1>2, JobMoves

(* A step of j for which Azure stays as it is.                              *)
Quiet(a) ==
    /\ UNCHANGED <<pool, hub, late, doomed, ghostVars>>
    /\ \A b \in Accounts \ {a} : row'[b] = row[b]

LEMMA QuietIsAlone ==
    ASSUME NEW a \in Accounts, Quiet(a)
    PROVE  Alone(a) /\ Grows(a) /\ Shrinks(a)
  BY DEF Quiet, Alone, Grows, Shrinks, ghostVars

LEMMA QuietMoves ==
    ASSUME AccountsInv, TypeOK', NEW j \in Jobs, NEW h, Step(j, h),
           NEW a \in Accounts, a = job[j].acct, Quiet(a),
           row'[a] \in {row[a], "failed"}, h # NoJob => TaskOK(h)'
    PROVE  AccountsInv'
<1>1. job[j].kind \in {"deploy", "teardown"}
  BY HasRecord DEF JobRecords, Step, AccountsInv
<1>2. Alone(a) /\ Grows(a) /\ Shrinks(a)
  BY QuietIsAlone
<1>3. a \notin mixed => \A p \in Providers : a \in pool'[p] => a \in hub'
  BY DEF AccountsInv, AccountOK, Quiet
<1>4. CASE job[j].kind = "deploy"
  BY <1>2, <1>3, <1>4, DeployMoves
<1>5. CASE job[j].kind = "teardown"
  BY <1>2, <1>3, <1>5, TeardownMoves DEF Quiet
<1> QED
  BY <1>1, <1>4, <1>5

(* A task that fails, or ends, has nothing left to answer for.              *)
LEMMA Failing ==
    ASSUME TypeOK, NEW j \in Jobs, Live(j), FailJob(j)
    PROVE  /\ Step(j, NoJob)
           /\ \A b \in Accounts \ {job[j].acct} : row'[b] = row[b]
           /\ row'[job[j].acct] \in {row[job[j].acct], "failed"}
<1>1. Step(j, NoJob)
  BY DEF FailJob, EndJob, Step
<1>2. row \in [Accounts -> Statuses \cup {"none", "gone"}] /\ job[j].acct \in Accounts
  BY HasRecord DEF TypeOK
<1>3. row' = row \/ row' = [row EXCEPT ![job[j].acct] = "failed"]
  BY DEF FailJob, Commit
<1>4. PICK a \in Accounts : a = job[j].acct
  BY <1>2
<1>5. (\A b \in Accounts \ {a} : row'[b] = row[b]) /\ row'[a] \in {row[a], "failed"}
  BY <1>2, <1>3, <1>4
<1> QED
  BY <1>1, <1>4, <1>5

LEMMA QuietFailing ==
    ASSUME AccountsInv, TypeOK', NEW j \in Jobs, Live(j), FailJob(j),
           UNCHANGED <<pool, hub, late, doomed, ghostVars>>
    PROVE  AccountsInv'
<1>1. PICK a \in Accounts : a = job[j].acct
  BY HasRecord DEF AccountsInv
<1>2. /\ Step(j, NoJob)
      /\ \A b \in Accounts \ {a} : row'[b] = row[b]
      /\ row'[a] \in {row[a], "failed"}
  BY <1>1, Failing DEF AccountsInv
<1>3. Quiet(a)
  BY <1>2 DEF Quiet
<1> QED
  BY <1>1, <1>2, <1>3, QuietMoves

(* A task goes on to another step, or ends, and nothing else happens.       *)
LEMMA QuietGoing ==
    ASSUME AccountsInv, TypeOK', NEW j \in Jobs, Live(j), NEW h, job' = [job EXCEPT ![j] = h],
           UNCHANGED <<row, pool, hub, late, doomed, ghostVars>>,
           h # NoJob => h.acct = job[j].acct /\ h.kind = job[j].kind /\ TaskOK(h)
    PROVE  AccountsInv'
<1>1. PICK a \in Accounts : a = job[j].acct
  BY HasRecord DEF AccountsInv
<1>2. Step(j, h) /\ Quiet(a) /\ row'[a] \in {row[a], "failed"}
  BY DEF Step, Quiet
<1>3. h # NoJob => TaskOK(h)'
  BY DEF TaskOK, DeployOK, TeardownOK, ghostVars
<1> QED
  BY <1>1, <1>2, <1>3, QuietMoves

-----------------------------------------------------------------------------
(* What a task that goes on carries with it.                                *)
LEMMA Carried ==
    ASSUME NEW r \in JobRecords
    PROVE  /\ \A step :
                 LET h == [r EXCEPT !.at = step]
                 IN  /\ h.acct = r.acct /\ h.kind = r.kind /\ h.left = r.left
                     /\ h.on = r.on /\ h.seen = r.seen /\ h.at = step
           /\ \A p :
                 LET h == [r EXCEPT !.left = r.left \ {p}]
                 IN  /\ h.acct = r.acct /\ h.kind = r.kind /\ h.left = r.left \ {p}
                     /\ h.on = r.on /\ h.seen = r.seen /\ h.at = r.at
           /\ \A step, p, S :
                 LET h == [r EXCEPT !.at = step, !.on = p, !.seen = S]
                 IN  /\ h.acct = r.acct /\ h.kind = r.kind /\ h.left = r.left
                     /\ h.on = p /\ h.seen = S /\ h.at = step
           /\ LET h == [r EXCEPT !.at = "read", !.left = r.left \ {r.on},
                                 !.on = NoProvider, !.seen = NoPool]
              IN  /\ h.acct = r.acct /\ h.kind = r.kind /\ h.left = r.left \ {r.on}
                  /\ h.at = "read"
  BY DEF JobRecords

(* A task that goes to a step it has earned.                                *)
LEMMA GoesOn ==
    ASSUME AccountsInv, TypeOK', NEW j \in Jobs, NEW step, Live(j), Goto(j, step),
           UNCHANGED <<row, pool, hub, late, doomed, ghostVars>>,
           \A h : /\ h.acct = job[j].acct /\ h.kind = job[j].kind /\ h.left = job[j].left
                  /\ h.on = job[j].on /\ h.seen = job[j].seen /\ h.at = step
                  => TaskOK(h)
    PROVE  AccountsInv'
<1>1. job[j] \in JobRecords
  BY HasRecord DEF AccountsInv
<1>2. PICK h : h = [job[j] EXCEPT !.at = step]
  OBVIOUS
<1>3. /\ h.acct = job[j].acct /\ h.kind = job[j].kind /\ h.left = job[j].left
      /\ h.on = job[j].on /\ h.seen = job[j].seen /\ h.at = step
  BY <1>1, <1>2, Carried
<1>4. job' = [job EXCEPT ![j] = h]
  BY <1>2 DEF Goto
<1>5. TaskOK(h)
  BY <1>3
<1> QED
  BY <1>3, <1>4, <1>5, QuietGoing

(* A task that ends, its work done or given up.                             *)
LEMMA EndsHere ==
    ASSUME AccountsInv, TypeOK', NEW j \in Jobs, Live(j), EndJob(j),
           UNCHANGED <<row, pool, hub, late, doomed, ghostVars>>
    PROVE  AccountsInv'
<1>1. job' = [job EXCEPT ![j] = NoJob]
  BY DEF EndJob
<1> QED
  BY <1>1, QuietGoing

(* A deployment starts its apply run.                                       *)
LEMMA DeployLoadKeeps ==
    ASSUME AccountsInv, TypeOK', NEW j \in Jobs, DeployLoad(j)
    PROVE  AccountsInv'
<1>1. At(j, "deploy", "load") /\ Live(j) /\ UNCHANGED <<row, pool, hub, late, doomed, ghostVars>>
  BY DEF DeployLoad, At, requestVars, azureVars, armVars
<1>2. TaskOK(job[j])
  BY <1>1 DEF AccountsInv, JobOK
<1>3. CASE Goto(j, "apply")
  <2>1. ASSUME NEW h, h.acct = job[j].acct, h.kind = job[j].kind, h.left = job[j].left,
               h.at = "apply"
        PROVE  TaskOK(h)
    BY <1>1, <1>2, <2>1 DEF At, TaskOK, DeployOK
  <2> QED
    BY <1>1, <1>3, <2>1, GoesOn
<1>4. CASE EndJob(j)
  BY <1>1, <1>4, EndsHere
<1> QED
  BY <1>3, <1>4 DEF DeployLoad

(* The apply run ends: a hub may be there, and in no case is one lost.      *)
LEMMA BuildsHub ==
    ASSUME AccountsInv, TypeOK', NEW j \in Jobs, NEW h, Step(j, h),
           NEW a \in Accounts, a = job[j].acct, job[j].kind = "deploy",
           \A b \in Accounts \ {a} : row'[b] = row[b],
           row'[a] \in {row[a], "failed"},
           hub' \in {hub, hub \cup {a}}, late' \subseteq late \cup {a},
           UNCHANGED <<pool, doomed, ghostVars>>, h # NoJob => TaskOK(h)'
    PROVE  AccountsInv'
<1>1. Alone(a) /\ Grows(a)
  BY DEF Alone, Grows, ghostVars
<1>2. a \notin mixed => \A p \in Providers : a \in pool'[p] => a \in hub'
  BY DEF AccountsInv, AccountOK
<1> QED
  BY <1>1, <1>2, DeployMoves

LEMMA ApplyKeeps ==
    ASSUME AccountsInv, TypeOK', NEW j \in Jobs, Apply(j)
    PROVE  AccountsInv'
<1>1. PICK a \in Accounts : a = job[j].acct
  BY HasRecord DEF AccountsInv, Apply, At
<1>2. /\ Live(j) /\ job[j].kind = "deploy" /\ job[j].at = "apply" /\ hub' = hub \cup {a}
      /\ UNCHANGED <<row, pool, late, doomed, ghostVars>>
  BY <1>1 DEF Apply, At, requestVars, armVars
<1>3. TaskOK(job[j]) /\ job[j] \in JobRecords
  BY <1>2, HasRecord DEF AccountsInv, JobOK
<1>4. PICK h : h = [job[j] EXCEPT !.at = "commit"]
  OBVIOUS
<1>5. /\ h.acct = a /\ h.kind = "deploy" /\ h.left = job[j].left /\ h.at = "commit"
  BY <1>1, <1>2, <1>3, <1>4, Carried
<1>6. Step(j, h)
  BY <1>1, <1>2, <1>4, <1>5 DEF Apply, Goto, Step
<1>7. TaskOK(h)'
  BY <1>1, <1>2, <1>3, <1>5 DEF TaskOK, DeployOK, ghostVars
<1> QED
  BY <1>1, <1>2, <1>6, <1>7, BuildsHub

LEMMA ApplyEndsBadly ==
    ASSUME AccountsInv, TypeOK', NEW j \in Jobs, ApplyFails(j) \/ ApplyTimesOut(j)
    PROVE  AccountsInv'
<1>1. Live(j) /\ job[j].kind = "deploy" /\ FailJob(j)
      /\ UNCHANGED <<pool, doomed, ghostVars>>
  BY DEF ApplyFails, ApplyTimesOut, At, armVars
<1>2. PICK a \in Accounts : a = job[j].acct
  BY <1>1, HasRecord DEF AccountsInv
<1>3. hub' \in {hub, hub \cup {a}} /\ late' \subseteq late \cup {a}
  BY <1>2 DEF ApplyFails, ApplyTimesOut
<1>4. /\ Step(j, NoJob) /\ row'[a] \in {row[a], "failed"}
      /\ \A b \in Accounts \ {a} : row'[b] = row[b]
  BY <1>1, <1>2, Failing DEF AccountsInv
<1> QED
  BY <1>1, <1>2, <1>3, <1>4, BuildsHub

(* The endpoint is recorded of a hub that is there.                         *)
LEMMA CommitHubKeeps ==
    ASSUME AccountsInv, TypeOK', NEW j \in Jobs, CommitHub(j)
    PROVE  AccountsInv'
<1>1. At(j, "deploy", "commit") /\ Live(j) /\ UNCHANGED <<row, pool, hub, late, doomed, ghostVars>>
  BY DEF CommitHub, At, requestVars, azureVars, armVars
<1>2. TaskOK(job[j])
  BY <1>1 DEF AccountsInv, JobOK
<1>3. CASE Goto(j, "read")
  <2>1. ASSUME NEW h, h.acct = job[j].acct, h.kind = job[j].kind, h.left = job[j].left,
               h.at = "read"
        PROVE  TaskOK(h)
    BY <1>1, <1>2, <2>1 DEF At, TaskOK, DeployOK
  <2> QED
    BY <1>1, <1>3, <2>1, GoesOn
<1>4. CASE EndJob(j)
  BY <1>1, <1>4, EndsHere
<1> QED
  BY <1>3, <1>4 DEF CommitHub

(* The GET of a pool to join: the hub is a member, or the PUT is due.       *)
LEMMA ReadPoolToJoinKeeps ==
    ASSUME AccountsInv, TypeOK', NEW j \in Jobs, NEW p \in Providers, ReadPoolToJoin(j, p)
    PROVE  AccountsInv'
<1>1. /\ Live(j) /\ job[j].kind = "deploy" /\ job[j].at = "read"
      /\ UNCHANGED <<row, pool, hub, late, doomed, ghostVars>>
  BY DEF ReadPoolToJoin, At, requestVars, azureVars, armVars
<1>2. TaskOK(job[j]) /\ job[j] \in JobRecords
  BY <1>1, HasRecord DEF AccountsInv, JobOK
<1>3. CASE job[j].acct \in pool[p]
  <2>1. PICK h : h = [job[j] EXCEPT !.left = job[j].left \ {p}]
    OBVIOUS
  <2>2. /\ h.acct = job[j].acct /\ h.kind = "deploy" /\ h.left = job[j].left \ {p}
        /\ h.at = "read"
    BY <1>1, <1>2, <2>1, Carried
  <2>3. job' = [job EXCEPT ![j] = h]
    BY <1>3, <2>1 DEF ReadPoolToJoin
  <2>4. TaskOK(h)
    BY <1>1, <1>2, <1>3, <2>2 DEF TaskOK, DeployOK
  <2> QED
    BY <1>1, <2>2, <2>3, <2>4, QuietGoing
<1>4. CASE job[j].acct \notin pool[p]
  <2>1. PICK h : h = [job[j] EXCEPT !.at = "write", !.on = p, !.seen = pool[p]]
    OBVIOUS
  <2>2. /\ h.acct = job[j].acct /\ h.kind = "deploy" /\ h.left = job[j].left
        /\ h.at = "write" /\ h.on = p
    BY <1>1, <1>2, <2>1, Carried
  <2>3. job' = [job EXCEPT ![j] = h]
    BY <1>4, <2>1 DEF ReadPoolToJoin
  <2>4. TaskOK(h)
    BY <1>1, <1>2, <2>2 DEF TaskOK, DeployOK
  <2> QED
    BY <1>1, <2>2, <2>3, <2>4, QuietGoing
<1> QED
  BY <1>3, <1>4

(* The PUT: the hub joins, and who is thrown out is on record.              *)
LEMMA Joining ==
    ASSUME AccountsInv, NEW j \in Jobs, JoinMatches(j), PutJoined(j),
           NEW a \in Accounts, a = job[j].acct,
           UNCHANGED <<hub, late, doomed, mixed>>, \A b \in Accounts \ {a} : row'[b] = row[b]
    PROVE  /\ Alone(a) /\ Grows(a)
           /\ job[j].on \in Providers /\ a \in pool'[job[j].on]
           /\ a \notin mixed => a \in hub
<1>1. Live(j) /\ job[j].kind = "deploy" /\ job[j].at = "write" /\ TaskOK(job[j])
  BY DEF JoinMatches, At, AccountsInv, JobOK
<1>2. PICK p \in Providers : p = job[j].on
  BY <1>1 DEF TaskOK
<1>3. /\ pool'[p] = job[j].seen \cup {a} /\ \A q \in Providers \ {p} : pool'[q] = pool[q]
      /\ bumped' = bumped \cup (pool[p] \ (job[j].seen \cup {a}))
  BY <1>2 DEF PutJoined, Joined, AccountsInv, TypeOK
<1>4. job[j].seen \subseteq pool[p]
  BY <1>2 DEF JoinMatches, NoPool
<1>5. ASSUME NEW b \in Accounts \ {a}, NEW q \in Providers
      PROVE  /\ b \in pool'[q] => b \in pool[q]
             /\ b \in pool[q] => b \in pool'[q] \/ b \in bumped'
  BY <1>3, <1>4, <1>5
<1>6. Alone(a)
  BY <1>3, <1>5 DEF Alone
<1>7. Grows(a) /\ a \in pool'[p]
  BY <1>3 DEF Grows
<1> QED
  BY <1>1, <1>2, <1>6, <1>7 DEF TaskOK, DeployOK

LEMMA JoinPoolKeeps ==
    ASSUME AccountsInv, TypeOK', NEW j \in Jobs, JoinPool(j)
    PROVE  AccountsInv'
<1>1. /\ JoinMatches(j) /\ PutJoined(j) /\ UNCHANGED <<row, hub, late, doomed, mixed>>
      /\ Live(j) /\ job[j].kind = "deploy" /\ job[j].at = "write"
  BY DEF JoinPool, JoinMatches, At, requestVars
<1>2. TaskOK(job[j]) /\ job[j] \in JobRecords
  BY <1>1, HasRecord DEF AccountsInv, JobOK
<1>3. PICK a \in Accounts : a = job[j].acct
  BY <1>1, HasRecord DEF AccountsInv
<1>4. /\ Alone(a) /\ Grows(a)
      /\ job[j].on \in Providers /\ a \in pool'[job[j].on]
      /\ a \notin mixed => a \in hub
  BY <1>1, <1>3, Joining
<1>5. PICK h : h = [job[j] EXCEPT !.at = "read", !.left = job[j].left \ {job[j].on},
                                  !.on = NoProvider, !.seen = NoPool]
  OBVIOUS
<1>6. h.acct = a /\ h.kind = "deploy" /\ h.at = "read" /\ h.left = job[j].left \ {job[j].on}
  BY <1>1, <1>2, <1>3, <1>5, Carried
<1>7. Step(j, h)
  BY <1>1, <1>3, <1>5, <1>6 DEF JoinPool, NextPool, Step
<1>8. TaskOK(h)'
  <2>1. a \notin mixed \cup bumped' => \A p \in Providers \ h.left : a \in pool'[p]
    <3> SUFFICES ASSUME a \notin mixed \cup bumped', NEW p \in Providers \ h.left
                 PROVE  a \in pool'[p]
      OBVIOUS
    <3>1. CASE p = job[j].on
      BY <1>4, <3>1
    <3>2. CASE p # job[j].on
      <4>1. p \in Providers \ job[j].left
        BY <1>6, <3>2
      <4>2. a \notin mixed \cup bumped
        BY <1>4 DEF Alone
      <4>3. a \in pool[p]
        BY <1>1, <1>2, <1>3, <4>1, <4>2 DEF TaskOK, DeployOK
      <4> QED
        BY <1>4, <4>3 DEF Grows
    <3> QED
      BY <3>1, <3>2
  <2>2. mixed' = mixed /\ hub' = hub
    BY <1>1
  <2>3. DeployOK(h)'
    BY <1>4, <1>6, <2>1, <2>2 DEF DeployOK
  <2> QED
    BY <1>6, <2>3 DEF TaskOK
<1>9. a \notin mixed => \A p \in Providers : a \in pool'[p] => a \in hub'
  BY <1>1, <1>4
<1> QED
  BY <1>1, <1>3, <1>4, <1>7, <1>8, <1>9, DeployMoves

LEMMA JoinAnswerLostKeeps ==
    ASSUME AccountsInv, TypeOK', NEW j \in Jobs, JoinAnswerLost(j)
    PROVE  AccountsInv'
<1>1. /\ JoinMatches(j) /\ PutJoined(j) /\ FailJob(j) /\ UNCHANGED <<hub, late, doomed, mixed>>
      /\ Live(j) /\ job[j].kind = "deploy"
  BY DEF JoinAnswerLost, JoinMatches, At
<1>2. PICK a \in Accounts : a = job[j].acct
  BY <1>1, HasRecord DEF AccountsInv
<1>3. /\ Step(j, NoJob) /\ row'[a] \in {row[a], "failed"}
      /\ \A b \in Accounts \ {a} : row'[b] = row[b]
  BY <1>1, <1>2, Failing DEF AccountsInv
<1>4. Alone(a) /\ Grows(a) /\ (a \notin mixed => a \in hub')
  BY <1>1, <1>2, <1>3, Joining
<1> QED
  BY <1>1, <1>2, <1>3, <1>4, DeployMoves

(* The catalog is registered when every pool is dealt with.                 *)
LEMMA WireKeeps ==
    ASSUME AccountsInv, TypeOK', NEW j \in Jobs, Wire(j)
    PROVE  AccountsInv'
<1>1. /\ Live(j) /\ job[j].kind = "deploy" /\ job[j].at = "read" /\ job[j].left = {}
      /\ Goto(j, "ready") /\ UNCHANGED <<row, pool, hub, late, doomed, ghostVars>>
  BY DEF Wire, At, requestVars
<1>2. TaskOK(job[j])
  BY <1>1 DEF AccountsInv, JobOK
<1>3. ASSUME NEW h, h.acct = job[j].acct, h.kind = job[j].kind, h.left = job[j].left,
             h.at = "ready"
      PROVE  TaskOK(h)
  BY <1>1, <1>2, <1>3 DEF TaskOK, DeployOK
<1> QED
  BY <1>1, <1>3, GoesOn

(* The last commit tells the truth.                                         *)
LEMMA ReadyKeeps ==
    ASSUME AccountsInv, TypeOK', NEW j \in Jobs, Ready(j)
    PROVE  AccountsInv'
<1>1. /\ Live(j) /\ job[j].kind = "deploy" /\ job[j].at = "ready" /\ EndJob(j)
      /\ UNCHANGED <<pool, hub, late, doomed, ghostVars>>
  BY DEF Ready, At, azureVars, armVars
<1>2. PICK a \in Accounts : a = job[j].acct
  BY <1>1, HasRecord DEF AccountsInv
<1>3. /\ row'[a] \in {row[a], "ready"}
      /\ \A b \in Accounts \ {a} : row'[b] = row[b]
  BY <1>2 DEF Ready, Commit, AccountsInv, TypeOK
<1>4. Step(j, NoJob)
  BY <1>1 DEF EndJob, Step
<1>5. Quiet(a) /\ Alone(a) /\ Grows(a)
  BY <1>1, <1>3, QuietIsAlone DEF Quiet
<1>6. TaskOK(job[j])
  BY <1>1 DEF AccountsInv, JobOK
<1>7. a \notin mixed => a \in hub' /\ (a \in bumped' \/ \A p \in Providers : a \in pool'[p])
  BY <1>1, <1>2, <1>6 DEF TaskOK, DeployOK, ghostVars
<1>8. a \notin mixed => \A p \in Providers : a \in pool'[p] => a \in hub'
  BY <1>7
<1> QED
  BY <1>1, <1>2, <1>3, <1>4, <1>5, <1>7, <1>8, DeployMoves

(* Every call of a deployment.                                              *)
LEMMA DeployKeeps ==
    ASSUME AccountsInv, TypeOK', NEW j \in Jobs, Deploy(j)
    PROVE  AccountsInv'
<1>1. CASE DeployFails(j)
  BY <1>1, QuietFailing DEF DeployFails, At, azureVars, armVars
<1>2. CASE \E p \in Providers : ReadPoolToJoin(j, p)
  BY <1>2, ReadPoolToJoinKeeps
<1> QED
  BY <1>1, <1>2, DeployLoadKeeps, ApplyKeeps, ApplyEndsBadly, CommitHubKeeps, JoinPoolKeeps,
     JoinAnswerLostKeeps, WireKeeps, ReadyKeeps DEF Deploy

-----------------------------------------------------------------------------
(* A teardown starts with the pools.                                        *)
LEMMA TeardownLoadKeeps ==
    ASSUME AccountsInv, TypeOK', NEW j \in Jobs, TeardownLoad(j)
    PROVE  AccountsInv'
<1>1. At(j, "teardown", "load") /\ Live(j) /\ UNCHANGED <<row, pool, hub, late, doomed, ghostVars>>
  BY DEF TeardownLoad, At, requestVars, azureVars, armVars
<1>2. TaskOK(job[j])
  BY <1>1 DEF AccountsInv, JobOK
<1>3. CASE Goto(j, "read")
  <2>1. ASSUME NEW h, h.acct = job[j].acct, h.kind = job[j].kind, h.left = job[j].left,
               h.at = "read"
        PROVE  TaskOK(h)
    BY <1>1, <1>2, <2>1 DEF At, TaskOK, TeardownOK
  <2> QED
    BY <1>1, <1>3, <2>1, GoesOn
<1>4. CASE EndJob(j)
  BY <1>1, <1>4, EndsHere
<1> QED
  BY <1>3, <1>4 DEF TeardownLoad

(* The GET of a pool to leave.                                              *)
LEMMA ReadPoolToLeaveKeeps ==
    ASSUME AccountsInv, TypeOK', NEW j \in Jobs, NEW p \in Providers, ReadPoolToLeave(j, p)
    PROVE  AccountsInv'
<1>1. /\ Live(j) /\ job[j].kind = "teardown" /\ job[j].at = "read"
      /\ UNCHANGED <<row, pool, hub, late, doomed, ghostVars>>
  BY DEF ReadPoolToLeave, At, requestVars, azureVars, armVars
<1>2. TaskOK(job[j]) /\ job[j] \in JobRecords
  BY <1>1, HasRecord DEF AccountsInv, JobOK
<1>3. CASE job[j].acct \notin pool[p]
  <2>1. PICK h : h = [job[j] EXCEPT !.left = job[j].left \ {p}]
    OBVIOUS
  <2>2. /\ h.acct = job[j].acct /\ h.kind = "teardown" /\ h.left = job[j].left \ {p}
        /\ h.at = "read"
    BY <1>1, <1>2, <2>1, Carried
  <2>3. job' = [job EXCEPT ![j] = h]
    BY <1>3, <2>1 DEF ReadPoolToLeave
  <2>4. TaskOK(h)
    BY <1>1, <1>2, <1>3, <2>2 DEF TaskOK, TeardownOK
  <2> QED
    BY <1>1, <2>2, <2>3, <2>4, QuietGoing
<1>4. CASE job[j].acct \in pool[p]
  <2> DEFINE next == IF pool[p] = {job[j].acct} THEN "detach" ELSE "write"
  <2>1. PICK h : h = [job[j] EXCEPT !.at = next, !.on = p, !.seen = pool[p]]
    OBVIOUS
  <2>2. job' = [job EXCEPT ![j] = h]
    BY <1>4, <2>1 DEF ReadPoolToLeave
  <2>3. (next = "detach" /\ pool[p] = {job[j].acct}) \/ next = "write"
    OBVIOUS
  <2> HIDE DEF next
  <2>4. /\ h.acct = job[j].acct /\ h.kind = "teardown" /\ h.left = job[j].left
        /\ h.at = next /\ h.on = p /\ h.seen = pool[p]
    BY <1>1, <1>2, <2>1, Carried
  <2>5. TaskOK(h)
    BY <1>1, <1>2, <2>3, <2>4 DEF TaskOK, TeardownOK
  <2> QED
    BY <1>1, <2>2, <2>4, <2>5, QuietGoing
<1> QED
  BY <1>3, <1>4

(* The PUT or DELETE, on an ETag that still stands: only the hub leaves.    *)
LEMMA Leaving ==
    ASSUME AccountsInv, NEW j \in Jobs, PutOthers(j) \/ DeletePool(j),
           NEW a \in Accounts, a = job[j].acct,
           UNCHANGED <<hub, late, doomed, ghostVars>>, \A b \in Accounts \ {a} : row'[b] = row[b]
    PROVE  /\ Alone(a) /\ Shrinks(a)
           /\ job[j].on \in Providers /\ a \notin pool'[job[j].on]
           /\ a \notin mixed => \A p \in Providers : a \in pool'[p] => a \in hub'
<1>1. Live(j) /\ job[j].kind = "teardown" /\ job[j].at \in {"write", "drop"} /\ TaskOK(job[j])
  BY DEF PutOthers, DeletePool, At, AccountsInv, JobOK
<1>2. PICK p \in Providers : p = job[j].on
  BY <1>1 DEF TaskOK
<1>3. pool'[p] = pool[p] \ {a} /\ \A q \in Providers \ {p} : pool'[q] = pool[q]
  <2>1. CASE PutOthers(j)
    BY <1>2, <2>1 DEF PutOthers, AccountsInv, TypeOK
  <2>2. CASE DeletePool(j)
    <3>1. job[j].seen = {a}
      BY <1>1, <2>2 DEF DeletePool, At, TaskOK, TeardownOK
    <3>2. pool[p] = {} \/ pool[p] = {a}
      BY <1>2, <2>2, <3>1 DEF DeletePool, NoPool
    <3>3. pool' = [pool EXCEPT ![p] = {}]
      BY <1>2, <2>2 DEF DeletePool, NoPool
    <3> QED
      BY <3>2, <3>3 DEF AccountsInv, TypeOK
  <2> QED
    BY <2>1, <2>2
<1>4. Alone(a) /\ Shrinks(a) /\ a \notin pool'[p]
  BY <1>3 DEF Alone, Shrinks, ghostVars
<1>5. a \notin mixed => \A q \in Providers : a \in pool'[q] => a \in hub'
  BY <1>4 DEF AccountsInv, AccountOK, Shrinks
<1> QED
  BY <1>2, <1>4, <1>5

LEMMA LeavesOnePool ==
    ASSUME AccountsInv, TypeOK', NEW j \in Jobs, LeavePool(j) \/ DropPool(j)
    PROVE  AccountsInv'
<1>1. /\ PutOthers(j) \/ DeletePool(j)
      /\ NextPool(j) /\ UNCHANGED <<row, hub, late, doomed, ghostVars>>
      /\ Live(j) /\ job[j].kind = "teardown"
  BY DEF LeavePool, DropPool, PutOthers, DeletePool, At, requestVars
<1>2. TaskOK(job[j]) /\ job[j] \in JobRecords
  BY <1>1, HasRecord DEF AccountsInv, JobOK
<1>3. PICK a \in Accounts : a = job[j].acct
  BY <1>1, HasRecord DEF AccountsInv
<1>4. /\ Alone(a) /\ Shrinks(a)
      /\ job[j].on \in Providers /\ a \notin pool'[job[j].on]
      /\ a \notin mixed => \A p \in Providers : a \in pool'[p] => a \in hub'
  BY <1>1, <1>3, Leaving
<1>5. PICK h : h = [job[j] EXCEPT !.at = "read", !.left = job[j].left \ {job[j].on},
                                  !.on = NoProvider, !.seen = NoPool]
  OBVIOUS
<1>6. h.acct = a /\ h.kind = "teardown" /\ h.at = "read" /\ h.left = job[j].left \ {job[j].on}
  BY <1>1, <1>2, <1>3, <1>5, Carried
<1>7. Step(j, h)
  BY <1>1, <1>3, <1>5, <1>6 DEF NextPool, Step
<1>8. TaskOK(h)'
  <2>1. a \notin mixed' => \A p \in Providers \ h.left : a \notin pool'[p]
    <3> SUFFICES ASSUME a \notin mixed', NEW p \in Providers \ h.left
                 PROVE  a \notin pool'[p]
      OBVIOUS
    <3>1. CASE p = job[j].on
      BY <1>4, <3>1
    <3>2. CASE p # job[j].on
      <4>1. p \in Providers \ job[j].left
        BY <1>6, <3>2
      <4>2. a \notin pool[p]
        BY <1>1, <1>2, <1>3, <4>1 DEF TaskOK, TeardownOK, ghostVars
      <4> QED
        BY <1>4, <4>2 DEF Shrinks
    <3> QED
      BY <3>1, <3>2
  <2>2. TeardownOK(h)'
    BY <1>6, <2>1 DEF TeardownOK
  <2> QED
    BY <1>6, <2>2 DEF TaskOK
<1> QED
  BY <1>1, <1>3, <1>4, <1>7, <1>8, TeardownMoves

LEMMA LeaveAnswerLostKeeps ==
    ASSUME AccountsInv, TypeOK', NEW j \in Jobs, LeaveAnswerLost(j)
    PROVE  AccountsInv'
<1>1. /\ PutOthers(j) \/ DeletePool(j)
      /\ FailJob(j) /\ UNCHANGED <<hub, late, doomed, ghostVars>>
      /\ Live(j) /\ job[j].kind = "teardown"
  BY DEF LeaveAnswerLost, PutOthers, DeletePool, At
<1>2. PICK a \in Accounts : a = job[j].acct
  BY <1>1, HasRecord DEF AccountsInv
<1>3. /\ Step(j, NoJob) /\ row'[a] \in {row[a], "failed"}
      /\ \A b \in Accounts \ {a} : row'[b] = row[b]
  BY <1>1, <1>2, Failing DEF AccountsInv
<1>4. /\ Alone(a) /\ Shrinks(a)
      /\ a \notin mixed => \A p \in Providers : a \in pool'[p] => a \in hub'
  BY <1>1, <1>2, <1>3, Leaving
<1> QED
  BY <1>1, <1>2, <1>3, <1>4, TeardownMoves

(* The policy goes before its pool.                                         *)
LEMMA DetachKeeps ==
    ASSUME AccountsInv, TypeOK', NEW j \in Jobs, Detach(j)
    PROVE  AccountsInv'
<1>1. /\ Live(j) /\ job[j].kind = "teardown" /\ job[j].at = "detach" /\ Goto(j, "drop")
      /\ UNCHANGED <<row, pool, hub, late, doomed, ghostVars>>
  BY DEF Detach, At, requestVars
<1>2. TaskOK(job[j])
  BY <1>1 DEF AccountsInv, JobOK
<1>3. ASSUME NEW h, h.acct = job[j].acct, h.kind = job[j].kind, h.left = job[j].left,
             h.on = job[j].on, h.seen = job[j].seen, h.at = "drop"
      PROVE  TaskOK(h)
  BY <1>1, <1>2, <1>3 DEF TaskOK, TeardownOK
<1> QED
  BY <1>1, <1>3, GoesOn

(* The hub is destroyed when no pool names it any more.                     *)
LEMMA TakesDownHub ==
    ASSUME AccountsInv, TypeOK', NEW j \in Jobs, NEW h, Step(j, h),
           NEW a \in Accounts, a = job[j].acct, job[j].kind = "teardown", job[j].left = {},
           \A b \in Accounts \ {a} : row'[b] = row[b],
           row'[a] \in {row[a], "failed"},
           hub' \in {hub, hub \ {a}}, doomed' \subseteq doomed \cup {a},
           UNCHANGED <<pool, late, ghostVars>>,
           h # NoJob => TaskOK(h)'
    PROVE  AccountsInv'
<1>1. TaskOK(job[j])
  BY DEF AccountsInv, JobOK, Step
<1>2. a \notin mixed => \A p \in Providers : a \notin pool[p]
  BY <1>1 DEF TaskOK, TeardownOK
<1>3. Alone(a) /\ Shrinks(a)
  BY DEF Alone, Shrinks, ghostVars
<1>4. a \notin mixed => \A p \in Providers : a \in pool'[p] => a \in hub'
  BY <1>2
<1> QED
  BY <1>2, <1>3, <1>4, TeardownMoves

LEMMA DestroyKeeps ==
    ASSUME AccountsInv, TypeOK', NEW j \in Jobs, Destroy(j)
    PROVE  AccountsInv'
<1>1. PICK a \in Accounts : a = job[j].acct
  BY HasRecord DEF AccountsInv, Destroy, At
<1>2. /\ Live(j) /\ job[j].kind = "teardown" /\ job[j].at = "read" /\ job[j].left = {}
      /\ hub' = hub \ {a} /\ UNCHANGED <<row, pool, late, doomed, ghostVars>>
  BY <1>1 DEF Destroy, At, requestVars, armVars
<1>3. TaskOK(job[j]) /\ job[j] \in JobRecords
  BY <1>2, HasRecord DEF AccountsInv, JobOK
<1>4. PICK h : h = [job[j] EXCEPT !.at = "clean"]
  OBVIOUS
<1>5. h.acct = a /\ h.kind = "teardown" /\ h.left = {} /\ h.at = "clean"
  BY <1>1, <1>2, <1>3, <1>4, Carried
<1>6. Step(j, h)
  BY <1>1, <1>2, <1>4, <1>5 DEF Destroy, Goto, Step
<1>7. TaskOK(h)'
  BY <1>1, <1>2, <1>3, <1>5 DEF TaskOK, TeardownOK, ghostVars
<1> QED
  BY <1>1, <1>2, <1>6, <1>7, TakesDownHub

LEMMA DestroyGateKeeps ==
    ASSUME AccountsInv, TypeOK', NEW j \in Jobs, DestroyGateFails(j) \/ DestroyTimesOut(j)
    PROVE  AccountsInv'
<1>1. PICK a \in Accounts : a = job[j].acct
  BY HasRecord DEF AccountsInv, DestroyGateFails, DestroyTimesOut, At
<1>2. /\ Live(j) /\ job[j].kind = "teardown" /\ job[j].left = {} /\ FailJob(j)
      /\ hub' \in {hub, hub \ {a}} /\ doomed' \subseteq doomed \cup {a}
      /\ UNCHANGED <<pool, late, ghostVars>>
  BY <1>1 DEF DestroyGateFails, DestroyTimesOut, At, armVars
<1>3. /\ Step(j, NoJob) /\ row'[a] \in {row[a], "failed"}
      /\ \A b \in Accounts \ {a} : row'[b] = row[b]
  BY <1>1, <1>2, Failing DEF AccountsInv
<1> QED
  BY <1>1, <1>2, <1>3, TakesDownHub

(* The row goes last, when there is nothing left to strand.                 *)
LEMMA CleanKeeps ==
    ASSUME AccountsInv, TypeOK', NEW j \in Jobs, Clean(j)
    PROVE  AccountsInv'
<1>1. PICK a \in Accounts : a = job[j].acct
  BY HasRecord DEF AccountsInv, Clean, At
<1>2. /\ Live(j) /\ job[j].kind = "teardown" /\ job[j].at = "clean" /\ EndJob(j)
      /\ UNCHANGED <<pool, hub, late, doomed, ghostVars>>
  BY DEF Clean, At, azureVars, armVars
<1>3. row'[a] = "gone" /\ \A b \in Accounts \ {a} : row'[b] = row[b]
  BY <1>1 DEF Clean, Commit, AccountsInv, TypeOK
<1>4. Step(j, NoJob)
  BY <1>2 DEF EndJob, Step
<1>5. Alone(a) /\ Shrinks(a)
  BY <1>2, <1>3, QuietIsAlone DEF Quiet
<1>6. TaskOK(job[j])
  BY <1>2 DEF AccountsInv, JobOK
<1>7. a \notin mixed => a \notin hub' /\ \A p \in Providers : a \notin pool'[p]
  BY <1>1, <1>2, <1>6 DEF TaskOK, TeardownOK
<1> QED
  BY <1>1, <1>2, <1>3, <1>4, <1>5, <1>7, TeardownMoves

(* Every call of a teardown.                                                *)
LEMMA TeardownKeeps ==
    ASSUME AccountsInv, TypeOK', NEW j \in Jobs, Teardown(j)
    PROVE  AccountsInv'
<1>1. CASE PoolGateFails(j)
  BY <1>1, QuietFailing DEF PoolGateFails, At, azureVars, armVars
<1>2. CASE \E p \in Providers : ReadPoolToLeave(j, p)
  BY <1>2, ReadPoolToLeaveKeeps
<1> QED
  BY <1>1, <1>2, TeardownLoadKeeps, LeavesOnePool, LeaveAnswerLostKeeps, DetachKeeps,
     DestroyKeeps, DestroyGateKeeps, CleanKeeps DEF Teardown

-----------------------------------------------------------------------------
(* A request that starts no task changes at most the status of a row, to    *)
(* one that promises nothing.                                               *)
LEMMA RowMoves ==
    ASSUME AccountsInv, TypeOK', UNCHANGED <<job, pool, hub, late, doomed, ghostVars>>,
           \A a \in Accounts : row'[a] = row[a] \/ row'[a] \notin {"ready", "gone"}
    PROVE  AccountsInv'
<1>1. ASSUME NEW j \in Jobs PROVE JobOK(j)'
  <2>1. JobOK(j)
    BY DEF AccountsInv
  <2> QED
    BY <2>1 DEF JobOK, Live, TaskOK, DeployOK, TeardownOK, ghostVars
<1>2. ASSUME NEW a \in Accounts PROVE AccountOK(a)'
  <2>1. AccountOK(a)
    BY DEF AccountsInv
  <2>2. \A kind : Working(a, kind)' <=> Working(a, kind)
    BY DEF Working, Live
  <2>3. row'[a] = row[a] \/ row'[a] \notin {"ready", "gone"}
    OBVIOUS
  <2> QED
    BY <2>1, <2>2, <2>3 DEF AccountOK, ghostVars
<1> QED
  BY <1>1, <1>2 DEF AccountsInv

(* A request that starts a task: if one of the other kind is at work, the   *)
(* account is mixed from then on.                                           *)
LEMMA StartKeeps ==
    ASSUME AccountsInv, TypeOK', NEW a \in Accounts, NEW kind \in {"deploy", "teardown"},
           StartJob(a, kind), Exists(a), row'[a] \notin {"ready", "gone"},
           \A b \in Accounts \ {a} : row'[b] = row[b],
           UNCHANGED <<pool, hub, late, doomed, bumped>>
    PROVE  AccountsInv'
<1> DEFINE new == [acct |-> a, kind |-> kind, at |-> "load", left |-> Providers,
                   on |-> NoProvider, seen |-> NoPool]
<1>1. PICK j \in Jobs : ~Live(j) /\ job' = [job EXCEPT ![j] = new]
  BY DEF StartJob
<1>2. job'[j] = new /\ \A i \in Jobs \ {j} : job'[i] = job[i]
  BY <1>1 DEF AccountsInv, TypeOK
<1>3. mixed' = mixed \/ mixed' = mixed \cup {a}
  BY DEF StartJob
<1>4. /\ new.acct = a /\ new.kind = kind /\ new.at = "load" /\ new.left = Providers
  OBVIOUS
<1> HIDE DEF new
<1>5. TaskOK(new)'
  BY <1>4 DEF TaskOK, DeployOK, TeardownOK
<1>6. ASSUME NEW i \in Jobs PROVE JobOK(i)'
  <2>1. CASE i = j
    BY <1>2, <1>5, <2>1 DEF JobOK, TaskOK, DeployOK, TeardownOK
  <2>2. CASE i # j
    <3>1. JobOK(i) /\ job'[i] = job[i]
      BY <1>2, <2>2 DEF AccountsInv
    <3> QED
      BY <1>3, <3>1 DEF JobOK, Live, TaskOK, DeployOK, TeardownOK
  <2> QED
    BY <2>1, <2>2
<1>7. ASSUME NEW b \in Accounts, NEW k, Working(b, k)'
      PROVE  Working(b, k) \/ (b = a /\ k = kind)
  <2>1. PICK i \in Jobs : Live(i)' /\ job'[i].acct = b /\ job'[i].kind = k
    BY <1>7 DEF Working
  <2>2. CASE i = j
    BY <1>2, <1>4, <2>1, <2>2
  <2>3. CASE i # j
    BY <1>2, <2>1, <2>3 DEF Working, Live
  <2> QED
    BY <2>2, <2>3
<1>8. ASSUME NEW b \in Accounts, b # a PROVE AccountOK(b)'
  <2>1. AccountOK(b) /\ row'[b] = row[b] /\ (b \in mixed' <=> b \in mixed)
    BY <1>3, <1>8 DEF AccountsInv
  <2>2. /\ Working(b, "deploy")' => Working(b, "deploy")
        /\ Working(b, "teardown")' => Working(b, "teardown")
    BY <1>7, <1>8
  <2> QED
    BY <2>1, <2>2 DEF AccountOK
<1>9. AccountOK(a)'
  <2> SUFFICES ASSUME a \notin mixed' PROVE AccountOK(a)'
    BY DEF AccountOK
  <2>1. /\ a \notin mixed /\ a \notin late /\ AccountOK(a)
        /\ ~Working(a, IF kind = "deploy" THEN "teardown" ELSE "deploy")
    BY <1>3 DEF StartJob, AccountsInv
  <2>2. ~(Working(a, "teardown")' /\ Working(a, "deploy")')
    BY <1>7, <2>1
  <2>3. \A p \in Providers : a \in pool'[p] => a \in hub'
    BY <2>1 DEF AccountOK
  <2>4. a \in doomed' => ~Working(a, "deploy")'
    <3>1. a \in doomed => kind # "deploy" /\ ~Working(a, "deploy")
      BY <1>3, <2>1 DEF StartJob, AccountOK
    <3> QED
      BY <1>7, <3>1
  <2> QED
    BY <2>1, <2>2, <2>3, <2>4 DEF AccountOK
<1> QED
  BY <1>6, <1>8, <1>9 DEF AccountsInv

LEMMA RequestKeeps ==
    ASSUME AccountsInv, TypeOK', NEW a \in Accounts, Request(a)
    PROVE  AccountsInv'
<1>0. row \in [Accounts -> Statuses \cup {"none", "gone"}]
  BY DEF AccountsInv, TypeOK
<1>1. CASE DeviceStart(a)
  <2>1. \A b \in Accounts : row'[b] = row[b] \/ row'[b] \notin {"ready", "gone"}
    BY <1>0, <1>1 DEF DeviceStart, Commit
  <2> QED
    BY <1>1, <2>1, RowMoves DEF DeviceStart, azureVars, armVars
<1>2. CASE PollBegin(a) \/ PollPending(a)
  BY <1>2, RowMoves DEF PollBegin, PollPending, azureVars, armVars
<1>3. CASE PollSuccess(a)
  <2>1. CASE Exists(a) /\ Commit(a, "deploying") /\ StartJob(a, "deploy")
    <3>1. row'[a] \notin {"ready", "gone"} /\ \A b \in Accounts \ {a} : row'[b] = row[b]
      BY <1>0, <2>1 DEF Commit
    <3> QED
      BY <1>3, <2>1, <3>1, StartKeeps DEF PollSuccess, azureVars, armVars
  <2>2. CASE UNCHANGED <<row, job, mixed>>
    BY <1>3, <2>2, RowMoves DEF PollSuccess, azureVars, armVars, ghostVars
  <2> QED
    BY <1>3, <2>1, <2>2 DEF PollSuccess
<1>4. CASE PollError(a)
  <2>1. \A b \in Accounts : row'[b] = row[b] \/ row'[b] \notin {"ready", "gone"}
    BY <1>0, <1>4 DEF PollError, Commit
  <2> QED
    BY <1>4, <2>1, RowMoves DEF PollError, azureVars, armVars
<1>5. CASE Delete(a)
  <2>1. row'[a] \notin {"ready", "gone"} /\ \A b \in Accounts \ {a} : row'[b] = row[b]
    BY <1>0, <1>5 DEF Delete, Commit
  <2> QED
    BY <1>5, <2>1, StartKeeps DEF Delete, azureVars, armVars
<1>6. CASE \E p \in Providers : Resync(a, p)
  BY <1>6, RowMoves DEF Resync, requestVars
<1> QED
  BY <1>1, <1>2, <1>3, <1>4, <1>5, <1>6 DEF Request

-----------------------------------------------------------------------------
(* A run that nobody waits for ends: its account is not being torn down,    *)
(* nor is it gone, unless it is mixed.                                      *)
LEMMA LateApplyKeeps ==
    ASSUME AccountsInv, TypeOK', NEW a \in Accounts, LateApply(a)
    PROVE  AccountsInv'
<1>1. /\ a \in late /\ late' = late \ {a} /\ hub' \in {hub, hub \cup {a}}
      /\ UNCHANGED <<row, job, pool, doomed, ghostVars>>
  BY DEF LateApply, requestVars, armVars
<1>2. a \notin mixed => ~Working(a, "teardown") /\ row[a] # "gone"
  BY <1>1 DEF AccountsInv, AccountOK
<1>3. ASSUME NEW j \in Jobs, Live(j) PROVE TaskOK(job[j])'
  <2>1. PICK r \in JobRecords : r = job[j]
    BY <1>3, HasRecord DEF AccountsInv
  <2>2. TaskOK(r)
    BY <1>3, <2>1 DEF AccountsInv, JobOK
  <2>3. r.acct = a /\ a \notin mixed => r.kind # "teardown"
    BY <1>2, <1>3, <2>1 DEF Working
  <2>4. Alone(a) /\ Grows(a)
    BY <1>1 DEF Alone, Grows, ghostVars
  <2>5. TaskOK(r)'
    BY <2>2, <2>3, <2>4, TaskKeeps
  <2> QED
    BY <1>1, <2>1, <2>5 DEF TaskOK, DeployOK, TeardownOK
<1>4. ASSUME NEW j \in Jobs PROVE JobOK(j)'
  BY <1>1, <1>3 DEF JobOK, Live
<1>5. ASSUME NEW b \in Accounts PROVE AccountOK(b)'
  <2>1. AccountOK(b)
    BY DEF AccountsInv
  <2>2. \A kind : Working(b, kind)' <=> Working(b, kind)
    BY <1>1 DEF Working, Live
  <2>3. b \in hub => b \in hub'
    BY <1>1
  <2>4. b # a => (b \in hub' <=> b \in hub)
    BY <1>1
  <2>5. b \in late' => b \in late
    BY <1>1
  <2>6. UNCHANGED <<row, pool, doomed, mixed, bumped>>
    BY <1>1 DEF ghostVars
  <2> QED
    BY <1>2, <2>1, <2>2, <2>3, <2>4, <2>5, <2>6 DEF AccountOK
<1> QED
  BY <1>4, <1>5 DEF AccountsInv

(* The same of a destroy run: its account is in no pool, nor is it built    *)
(* up, unless it is mixed.                                                  *)
LEMMA LateDestroyKeeps ==
    ASSUME AccountsInv, TypeOK', NEW a \in Accounts, LateDestroy(a)
    PROVE  AccountsInv'
<1>1. /\ a \in doomed /\ doomed' = doomed \ {a} /\ hub' \in {hub, hub \ {a}}
      /\ UNCHANGED <<row, job, pool, late, ghostVars>>
  BY DEF LateDestroy, requestVars, armVars
<1>2. a \notin mixed => /\ ~Working(a, "deploy") /\ row[a] # "ready"
                       /\ \A p \in Providers : a \notin pool[p]
  BY <1>1 DEF AccountsInv, AccountOK
<1>3. ASSUME NEW j \in Jobs, Live(j) PROVE TaskOK(job[j])'
  <2>1. PICK r \in JobRecords : r = job[j]
    BY <1>3, HasRecord DEF AccountsInv
  <2>2. TaskOK(r)
    BY <1>3, <2>1 DEF AccountsInv, JobOK
  <2>3. r.acct = a /\ a \notin mixed => r.kind # "deploy"
    BY <1>2, <1>3, <2>1 DEF Working
  <2>4. Alone(a) /\ Shrinks(a)
    BY <1>1 DEF Alone, Shrinks, ghostVars
  <2>5. TaskOK(r)'
    BY <2>2, <2>3, <2>4, TaskKeeps
  <2> QED
    BY <1>1, <2>1, <2>5 DEF TaskOK, DeployOK, TeardownOK
<1>4. ASSUME NEW j \in Jobs PROVE JobOK(j)'
  BY <1>1, <1>3 DEF JobOK, Live
<1>5. ASSUME NEW b \in Accounts PROVE AccountOK(b)'
  <2>1. AccountOK(b)
    BY DEF AccountsInv
  <2>2. \A kind : Working(b, kind)' <=> Working(b, kind)
    BY <1>1 DEF Working, Live
  <2>3. (b \in hub' => b \in hub) /\ (b # a => (b \in hub' <=> b \in hub))
    BY <1>1
  <2>4. b \in doomed' => b \in doomed
    BY <1>1
  <2>5. UNCHANGED <<row, pool, late, mixed, bumped>>
    BY <1>1 DEF ghostVars
  <2> QED
    BY <1>2, <2>1, <2>2, <2>3, <2>4, <2>5 DEF AccountOK
<1> QED
  BY <1>4, <1>5 DEF AccountsInv

(* An exception no handler is for ends the task where it is.                *)
LEMMA UncaughtKeeps ==
    ASSUME AccountsInv, TypeOK', NEW j \in Jobs, Uncaught(j)
    PROVE  AccountsInv'
<1>1. Live(j) /\ EndJob(j) /\ UNCHANGED <<row, pool, hub, late, doomed, ghostVars>>
  BY DEF Uncaught, At, requestVars, azureVars, armVars
<1> QED
  BY <1>1, EndsHere

(* A restart leaves runs behind, and nobody at work.                        *)
LEMMA RestartKeeps ==
    ASSUME AccountsInv, TypeOK', Restart
    PROVE  AccountsInv'
<1>1. /\ UNCHANGED <<row, pool, hub, ghostVars>> /\ job' = [j \in Jobs |-> NoJob]
      /\ late' = late \cup
            {a \in Accounts : \E j \in Jobs : At(j, "deploy", "apply") /\ job[j].acct = a}
      /\ doomed' = doomed \cup
            {a \in Accounts : \E j \in Jobs : /\ At(j, "teardown", "read") /\ job[j].left = {}
                                             /\ job[j].acct = a}
  BY DEF Restart, armVars
<1>2. \A j \in Jobs : ~Live(j)'
  BY <1>1 DEF Live
<1>3. \A a : \A kind : ~Working(a, kind)'
  BY <1>2 DEF Working
<1>4. ASSUME NEW a \in Accounts PROVE AccountOK(a)'
  <2>1. AccountOK(a)
    BY DEF AccountsInv
  <2>2. a \in late' => a \in late \/ Working(a, "deploy")
    BY <1>1 DEF At, Working
  <2>3. UNCHANGED <<row, pool, hub, mixed, bumped>>
    BY <1>1 DEF ghostVars
  <2>4. a \in doomed' \ (doomed \cup mixed) =>
           Working(a, "teardown") /\ \A p \in Providers : a \notin pool[p]
    <3> SUFFICES ASSUME a \in doomed', a \notin doomed, a \notin mixed
                 PROVE  Working(a, "teardown") /\ \A p \in Providers : a \notin pool[p]
      OBVIOUS
    <3>1. PICK j \in Jobs : At(j, "teardown", "read") /\ job[j].left = {} /\ job[j].acct = a
      BY <1>1
    <3>2. TeardownOK(job[j])
      BY <3>1 DEF At, AccountsInv, JobOK, TaskOK
    <3> QED
      BY <3>1, <3>2 DEF At, Working, TeardownOK
  <2>5. a \in mixed' => AccountOK(a)'
    BY DEF AccountOK
  <2>6. a \notin mixed =>
           /\ row[a] = "gone" => a \notin late'
           /\ a \in doomed' => /\ a \notin late' /\ row[a] # "ready"
                             /\ \A p \in Providers : a \notin pool[p]
    BY <2>1, <2>2, <2>4 DEF AccountOK
  <2> QED
    BY <1>3, <2>1, <2>3, <2>5, <2>6 DEF AccountOK
<1> QED
  BY <1>2, <1>4 DEF AccountsInv, JobOK

-----------------------------------------------------------------------------
(* The invariant holds initially and every step keeps it.                   *)
LEMMA InitAccounts == Init => AccountsInv
<1> SUFFICES ASSUME Init PROVE AccountsInv
  OBVIOUS
<1>1. TypeOK
  BY AccountsAssumption DEF Init, TypeOK, NoPool
<1>2. \A j \in Jobs : ~Live(j)
  BY DEF Init, Live
<1>3. \A a \in Accounts : AccountOK(a)
  BY <1>2 DEF Init, AccountOK, Working, NoPool
<1> QED
  BY <1>1, <1>2, <1>3 DEF AccountsInv, JobOK

LEMMA StepAccounts == AccountsInv /\ [Next]_vars => AccountsInv'
<1> SUFFICES ASSUME AccountsInv, [Next]_vars PROVE AccountsInv'
  OBVIOUS
<1>1. TypeOK'
  BY AnyType
<1>2. CASE UNCHANGED vars
  BY <1>1, <1>2, RowMoves DEF vars, requestVars, azureVars, armVars
<1>3. ASSUME NEW a \in Accounts, Request(a) \/ LateApply(a) \/ LateDestroy(a) PROVE AccountsInv'
  BY <1>1, <1>3, RequestKeeps, LateApplyKeeps, LateDestroyKeeps
<1>4. ASSUME NEW j \in Jobs, Deploy(j) \/ Teardown(j) \/ Uncaught(j) PROVE AccountsInv'
  BY <1>1, <1>4, DeployKeeps, TeardownKeeps, UncaughtKeeps
<1>5. CASE Restart
  BY <1>1, <1>5, RestartKeeps
<1> QED
  BY <1>2, <1>3, <1>4, <1>5 DEF Next

LEMMA AccountsInvariant == Spec => []AccountsInv
  BY InitAccounts, StepAccounts, PTL DEF Spec

(* Every variable has its type, for every request, task, failure and        *)
(* restart of github_accounts.py.                                           *)
THEOREM AccountTypes == Spec => []TypeOK
<1>1. AccountsInv => TypeOK
  BY DEF AccountsInv
<1> QED
  BY <1>1, AccountsInvariant, PTL

(* The gateway sends no traffic to a hub that does not exist: a deployment  *)
(* joins pools after its apply run, and _teardown_account passes the gate   *)
(* of the pools before destroy_hub, lost answers and failures included.     *)
THEOREM PoolsNameLiveHubs == Spec => []PooledHubLives
<1>1. AccountsInv => PooledHubLives
  <2> SUFFICES ASSUME AccountsInv, NEW p \in Providers, NEW a \in pool[p]
               PROVE  a \in hub \cup mixed
    BY DEF PooledHubLives
  <2>1. a \in Accounts
    BY DEF AccountsInv, TypeOK
  <2> QED
    BY <2>1 DEF AccountsInv, AccountOK
<1> QED
  BY <1>1, AccountsInvariant, PTL

(* A row that _teardown_account has deleted leaves no hub and no membership *)
(* behind, and no task or run brings one back.                              *)
THEOREM GoneRowsAreClean == Spec => []GoneIsClean
<1>1. AccountsInv => GoneIsClean
  BY DEF AccountsInv, AccountOK, GoneIsClean
<1> QED
  BY <1>1, AccountsInvariant, PTL

(* A ready account has its hub in every pool, unless another deployment's   *)
(* unconditional PUT created the pool anew (_pool_add_service).             *)
THEOREM ReadyAccountsArePooled == Spec => []ReadyIsPooledUnlessBumped
<1>1. AccountsInv => ReadyIsPooledUnlessBumped
  BY DEF AccountsInv, AccountOK, ReadyIsPooledUnlessBumped
<1> QED
  BY <1>1, AccountsInvariant, PTL
=============================================================================
