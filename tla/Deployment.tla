----------------------------- MODULE Deployment -----------------------------
(***************************************************************************)
(* The deployment driver: DeployMachinesApp and deployMachinesApp in       *)
(* internal/command/deploy/machines_deploymachinesapp.go, with the update  *)
(* of the machines by the rolling and immediate strategies when no retries *)
(* are asked for (--deploy-retries 0).                                     *)
(*                                                                         *)
(* The release and seed commands are the first stage and take the steps of *)
(* ReleaseCommand.  Then come canaries, the removal of machines whose      *)
(* process group is gone, new machines for groups that have none, and the  *)
(* update of the machines that are left.  The outcome becomes the status   *)
(* of the release.                                                         *)
(*                                                                         *)
(* An error is the set of its causes, because the pools join the errors of *)
(* their tasks: {} is nil, and errors.Is(err, context.Canceled) asks       *)
(* whether "canceled" is among them.                                       *)
(***************************************************************************)
EXTENDS ReleaseCommand, FiniteSets

CONSTANTS
    Machines,           \* numbers, in the order of the machines' IDs
    Group,              \* the process group of each
    Warm,               \* the machines that are started
    InConfig,           \* md.ProcessNames()
    Spares,             \* groups that get a second machine
    Setups,             \* how the deployment may be set up, see Setup
    MaxUnavailable,     \* md.maxUnavailable in percent: 100 is 1.0
    MaxConcurrent,      \* md.maxConcurrent
    StatusAttempts      \* releaseStatusRetryAttempts

Strategies == {"rolling", "canary", "immediate"}

Groups == InConfig \cup { Group[m] : m \in Machines }

\* The strategy (canaries only from the second deployment on); statics go to a
\* bucket; the release command is skipped; the machines are only restarted; no
\* machines are created; the machines the filters leave in the deployment.
Setup == [strategy : Strategies, statics : BOOLEAN, skipRelease : BOOLEAN,
          restartOnly : BOOLEAN, updateOnly : BOOLEAN, selected : SUBSET Machines]

ASSUME DeploymentAssumption ==
    /\ Machines \subseteq Nat
    /\ IsFiniteSet(Machines)
    /\ Warm \subseteq Machines
    /\ Spares \subseteq InConfig
    /\ Setups \subseteq Setup
    /\ MaxUnavailable \in Nat \ {0}
    /\ MaxConcurrent \in Nat \ {0}
    /\ StatusAttempts \in Nat \ {0}

VARIABLES
    setup,
    stage,      \* where the driver stands
    status,     \* of the release, in the backend
    tries,      \* attempts left at setting it
    gaveUp,     \* the backend refused it
    bucket,     \* the statics of this release: none, aborted, pushed, deleted
    mset,       \* md.machineSet
    cfg,        \* what a machine runs: old, new, or none once it is destroyed
    created,    \* machines created in each group
    canary,     \* the canary of each group
    task,       \* the update of a machine
    batchErr,   \* the errors of a batch of updates
    batchDone,  \* the batches that have returned
    groupErr,   \* the first error of a group's two batches
    groupDone,  \* the groups that have returned
    derr        \* the error of the deployment

backend == <<status, tries, gaveUp>>
fleet   == <<mset, cfg, created, canary>>
update  == <<task, batchErr, batchDone, groupErr, groupDone>>
release == <<seed, command, machine, exitCode, old, pc, next, err, event, logger, entries>>
deploy  == <<setup, stage, backend, bucket, fleet, update, derr>>
allVars == <<vars, deploy>>

Batches == Groups \X {"warm", "cold"}

DeployInit ==
    /\ Init
    /\ setup \in Setups
    /\ stage = "configure"
    /\ status = "pending"
    /\ tries = StatusAttempts
    /\ gaveUp = FALSE
    /\ bucket = "none"
    /\ mset = setup.selected
    /\ cfg = [m \in Machines |-> "old"]
    /\ created = [g \in Groups |-> 0]
    /\ canary = [g \in Groups |-> "none"]
    /\ task = [m \in Machines |-> "todo"]
    /\ batchErr = [b \in Batches |-> {}]
    /\ batchDone = {}
    /\ groupErr = [g \in Groups |-> {}]
    /\ groupDone = {}
    /\ derr = {}

-----------------------------------------------------------------------------
(* The status of the release. *)

\* A call that fails: for what reason, once the context is canceled.
causes == IF ctx = "canceled" THEN { {"failed"}, {"canceled"} } ELSE { {"failed"} }

fail_returns == derr' \in causes /\ stage' = "done"

fail == derr' \in causes /\ stage' = "status"

updateRelease_unbounded(s, sendable, onSet, onError) ==
    \/ /\ sendable
       /\ status' = s
       /\ tries' = StatusAttempts
       /\ stage' = onSet
       /\ UNCHANGED gaveUp
    \/ /\ sendable
       /\ status' \in {status, s}
       /\ tries' = IF tries > 1 THEN tries - 1 ELSE StatusAttempts
       /\ UNCHANGED <<stage, gaveUp>>
    \/ /\ status' \in IF sendable THEN {status, s} ELSE {status}
       /\ tries' = StatusAttempts
       /\ gaveUp' = TRUE
       /\ stage' = onError

\* updateReleaseInBackend: an attempt is answered, or its answer is lost, or
\* it is refused; it is made again unless the error says that is no use.
updateRelease(s, sendable, onSet, onError) ==
    \/ /\ sendable
       /\ status' = s
       /\ tries' = StatusAttempts
       /\ stage' = onSet
       /\ UNCHANGED gaveUp
    \/ /\ sendable /\ tries > 1
       /\ status' \in {status, s}
       /\ tries' = tries - 1
       /\ UNCHANGED <<stage, gaveUp>>
    \/ /\ status' \in IF sendable THEN {status, s} ELSE {status}
       /\ tries' = StatusAttempts
       /\ gaveUp' = TRUE
       /\ stage' = onError

\* DeployMachinesApp: the bucket for the statics comes first.
Configure ==
    /\ stage = "configure"
    /\ \/ stage' = "running" /\ UNCHANGED <<bucket, derr>>
       \/ setup.statics /\ bucket' = "aborted" /\ stage' = "done" /\ derr' \in causes
    /\ UNCHANGED <<vars, setup, backend, fleet, update>>

\* The status is "running", and without it nothing is deployed.
SetRunning ==
    /\ stage = "running"
    /\ updateRelease("running", ctx = "live", "push", "done")
    /\ derr' \in IF stage' = "done" THEN causes ELSE {derr}
    /\ UNCHANGED <<vars, setup, bucket, fleet, update>>

afterPush ==
    IF setup.restartOnly THEN "lease"
    ELSE IF setup.skipRelease THEN "canary" ELSE "release"

\* A push that fails ends the deployment at once.
Push ==
    /\ stage = "push"
    /\ IF setup.statics /\ ~setup.restartOnly
       THEN \/ bucket' = "pushed" /\ stage' = afterPush /\ UNCHANGED derr
            \/ bucket' = "aborted" /\ stage' = "done" /\ derr' \in causes
       ELSE stage' = afterPush /\ UNCHANGED <<bucket, derr>>
    /\ UNCHANGED <<vars, setup, backend, fleet, update>>

\* The error decides between the statuses; only an interrupted deployment has
\* a context of its own to say so.
finalStatus_ignored == "complete"

finalStatus ==
    IF derr = {} THEN "complete"
    ELSE IF "canceled" \in derr THEN "interrupted" ELSE "failed"

SetFinal ==
    /\ stage = "status"
    /\ updateRelease(finalStatus, ctx = "live" \/ finalStatus = "interrupted",
                     "finalize", "finalize")
    /\ UNCHANGED <<vars, setup, bucket, fleet, update, derr>>

\* Finalize and CleanupAfterFailure, whose errors are not returned.
Finalize ==
    /\ stage = "finalize"
    /\ stage' = "done"
    /\ bucket' = IF bucket = "pushed" /\ derr # {} THEN "deleted" ELSE bucket
    /\ UNCHANGED <<vars, setup, backend, fleet, update, derr>>

-----------------------------------------------------------------------------
(* deployMachinesApp, up to the update. *)

\* runReleaseCommands
RunReleaseCommands ==
    /\ stage = "release"
    /\ pc \notin {"proceed", "aborted", "panic"}
    /\ Next
    /\ UNCHANGED deploy

\* It has returned, and its variables are gone.
ReleaseCommandsReturn ==
    /\ stage = "release"
    /\ pc \in {"proceed", "aborted", "panic"}
    /\ \/ pc = "proceed" /\ stage' = "canary" /\ UNCHANGED derr
       \/ pc = "aborted" /\ fail
       \/ pc = "panic" /\ stage' = "panic" /\ UNCHANGED derr
    /\ machine' = "none" /\ old' = FALSE /\ next' = "destroyOld" /\ err' = "nil"
    /\ event' = -1 /\ logger' = "off"
    /\ UNCHANGED <<seed, command, exitCode, pc, ctx, entries,
                   setup, backend, bucket, fleet, update>>

\* deployCanaryMachines: a goroutine for each group.  A canary whose checks
\* fail is left behind.
SpawnCanary(g) ==
    /\ stage = "canary" /\ setup.strategy = "canary"
    /\ canary[g] = "none"
    /\ canary' \in { [canary EXCEPT ![g] = c] : c \in {"created", "failed"} }
    /\ UNCHANGED <<vars, setup, stage, backend, bucket, mset, cfg, created, update, derr>>

\* The test machines pass, and the canary is destroyed, or is not, which
\* nobody learns of; or they fail.
TestCanary(g) ==
    /\ stage = "canary"
    /\ canary[g] = "created"
    /\ canary' \in { [canary EXCEPT ![g] = c] : c \in {"destroyed", "left", "failed"} }
    /\ UNCHANGED <<vars, setup, stage, backend, bucket, mset, cfg, created, update, derr>>

CanariesReturn ==
    /\ stage = "canary"
    /\ setup.strategy = "canary" =>
        \A g \in InConfig : canary[g] \in {"destroyed", "left", "failed"}
    /\ IF \E g \in InConfig : canary[g] = "failed" THEN fail
       ELSE stage' = "remove" /\ UNCHANGED derr
    /\ UNCHANGED <<vars, setup, backend, bucket, fleet, update>>

\* RemoveMachines takes the machines of removed groups out of the set, and
\* fails if their leases cannot be released.
RemoveMachines ==
    /\ stage = "remove"
    /\ mset' = { m \in mset : Group[m] \in InConfig }
    /\ \/ stage' = "destroy" /\ UNCHANGED derr
       \/ mset' # mset /\ derr' = {"failed"} /\ stage' = "status"
    /\ UNCHANGED <<vars, setup, backend, bucket, cfg, created, canary, update>>

\* resolveProcessGroupChanges
machinesToRemove == { m \in setup.selected : Group[m] \notin InConfig }

groupsNeedingMachines ==
    { g \in InConfig : \A m \in setup.selected : Group[m] # g }

DestroyMachine(m) ==
    /\ stage = "destroy"
    /\ m \in machinesToRemove /\ cfg[m] # "none"
    /\ \/ cfg' = [cfg EXCEPT ![m] = "none"] /\ UNCHANGED <<stage, derr>>
       \/ cfg' \in {cfg, [cfg EXCEPT ![m] = "none"]} /\ fail
    /\ UNCHANGED <<vars, setup, backend, bucket, mset, created, canary, update>>

DestroyReturns ==
    /\ stage = "destroy"
    /\ \A m \in machinesToRemove : cfg[m] = "none"
    /\ stage' = IF setup.updateOnly THEN "lease" ELSE "create"
    /\ UNCHANGED <<vars, setup, backend, bucket, fleet, update, derr>>

\* deployCreateMachinesForGroups: spawnMachineInGroup creates a machine and
\* waits for it; a second one makes the group available.
wanted(g) == IF g \in Spares THEN 2 ELSE 1

CreateMachine(g) ==
    /\ stage = "create"
    /\ g \in groupsNeedingMachines /\ created[g] < wanted(g)
    /\ \/ created' = [created EXCEPT ![g] = @ + 1] /\ UNCHANGED <<stage, derr>>
       \/ created' \in {created, [created EXCEPT ![g] = @ + 1]} /\ fail
    /\ UNCHANGED <<vars, setup, backend, bucket, mset, cfg, canary, update>>

CreateReturns ==
    /\ stage = "create"
    /\ \A g \in groupsNeedingMachines : created[g] = wanted(g)
    /\ stage' = "lease"
    /\ UNCHANGED <<vars, setup, backend, bucket, fleet, update, derr>>

-----------------------------------------------------------------------------
(* updateExistingMachines without retries. *)

\* The launch inputs are made, the leases acquired.
AcquireLeases ==
    /\ stage = "lease"
    /\ \/ mset = {} /\ stage' = "status" /\ UNCHANGED derr
       \/ mset # {} /\ stage' = "update" /\ UNCHANGED derr
       \/ mset # {} /\ fail
    /\ UNCHANGED <<vars, setup, backend, bucket, fleet, update>>

batchOf(m) == <<Group[m], IF m \in Warm THEN "warm" ELSE "cold">>

machinesIn(b) == { m \in mset : batchOf(m) = b }

\* Sorted by ID, the first is updated alone.
spearhead(b) == CHOOSE m \in machinesIn(b) : \A n \in machinesIn(b) : m <= n

getPoolSize(n) ==
    IF MaxUnavailable >= 100 THEN MaxUnavailable \div 100
    ELSE (n * MaxUnavailable + 99) \div 100

\* STOPPED_MACHINES_POOL_SIZE
StoppedMachinesPoolSize == 30

poolSize(b) ==
    LET n == Cardinality(machinesIn(b)) IN
    IF b[2] = "warm" THEN getPoolSize(n)
    ELSE IF n < StoppedMachinesPoolSize THEN n ELSE StoppedMachinesPoolSize

Running == {"updating", "waiting"}
Over    == {"ok", "failed", "skipped"}

immediate == setup.strategy = "immediate"

running(ms) == Cardinality({ m \in ms : task[m] \in Running })

\* groupsPool's context; a group's; a pool's.
groupsCtxDone   == ctx = "canceled" \/ \E g \in groupDone : groupErr[g] # {}
groupCtxDone(g) == groupsCtxDone \/ groupErr[g] # {}
poolCtxDone(b)  == groupCtxDone(b[1]) \/ batchErr[b] # {}

setTask(m, t) == task' = [task EXCEPT ![m] = t]

\* A task fails: its error is added before its pool's context is canceled.
taskFails(m, errors) ==
    /\ setTask(m, "failed")
    /\ \E e \in errors : batchErr' = [batchErr EXCEPT ![batchOf(m)] = @ \cup e]

\* A machine may begin: the spearhead first, then as many as the pool takes.
turn(m) ==
    LET b == batchOf(m) IN
    IF immediate THEN running(mset) < MaxConcurrent
    ELSE \/ m = spearhead(b)
         \/ task[spearhead(b)] = "ok" /\ running(machinesIn(b)) < poolSize(b)

\* updateFunc looks at its pool's context first: another update may have failed.
BeginUpdate_unchecked(m) ==
    /\ stage = "update"
    /\ m \in mset /\ task[m] = "todo"
    /\ turn(m)
    /\ setTask(m, "updating")
    /\ UNCHANGED <<batchErr, vars, setup, stage, backend, bucket, fleet, batchDone, groupErr, groupDone, derr>>

BeginUpdate(m) ==
    LET b == batchOf(m) IN
    /\ stage = "update"
    /\ m \in mset /\ task[m] = "todo"
    /\ turn(m)
    /\ IF ~immediate /\ poolCtxDone(b)
       THEN /\ setTask(m, "skipped")
            /\ batchErr' = [batchErr EXCEPT ![b] = @ \cup {"canceled"}]
       ELSE setTask(m, "updating") /\ UNCHANGED batchErr
    /\ UNCHANGED <<vars, setup, stage, backend, bucket, fleet, batchDone, groupErr, groupDone, derr>>

\* Requests fail, or are cut short: by the user's cancellation or by that of
\* the group.
taskErrors(m) ==
    IF ctx = "canceled" \/ (~immediate /\ groupCtxDone(Group[m]))
    THEN { {"failed"}, {"canceled"} } ELSE { {"failed"} }

\* updateMachine: in place, or destroyed and launched again.  The immediate
\* strategy does not wait.
UpdateMachine(m) ==
    /\ task[m] = "updating"
    /\ \/ /\ cfg' = [cfg EXCEPT ![m] = "new"]
          /\ setTask(m, IF immediate THEN "ok" ELSE "waiting")
          /\ UNCHANGED batchErr
       \/ /\ cfg' \in { [cfg EXCEPT ![m] = c] : c \in {"old", "new", "none"} }
          /\ taskFails(m, taskErrors(m))
    /\ UNCHANGED <<vars, setup, stage, backend, bucket, mset, created, canary,
                   batchDone, groupErr, groupDone, derr>>

\* waitForMachine: state, test machines, smoke checks, health checks.
WaitForMachine(m) ==
    /\ task[m] = "waiting"
    /\ \/ setTask(m, "ok") /\ UNCHANGED batchErr
       \/ taskFails(m, taskErrors(m))
    /\ UNCHANGED <<vars, setup, stage, backend, bucket, fleet, batchDone, groupErr, groupDone, derr>>

\* updateEntriesGroup returns; the first error of a group's two is the group's.
BatchReturns(b) ==
    /\ stage = "update" /\ ~immediate
    /\ b \notin batchDone
    /\ machinesIn(b) # {}
    /\ \/ task[spearhead(b)] \in {"failed", "skipped"}
       \/ \A m \in machinesIn(b) : task[m] \in Over
    /\ batchDone' = batchDone \cup {b}
    /\ groupErr' = IF groupErr[b[1]] = {}
                   THEN [groupErr EXCEPT ![b[1]] = batchErr[b]] ELSE groupErr
    /\ UNCHANGED <<vars, setup, stage, backend, bucket, fleet, task, batchErr, groupDone, derr>>

GroupReturns(g) ==
    /\ stage = "update" /\ ~immediate
    /\ g \notin groupDone
    /\ \E m \in mset : Group[m] = g
    /\ \A b \in Batches : b[1] = g /\ machinesIn(b) # {} => b \in batchDone
    /\ groupDone' = groupDone \cup {g}
    /\ UNCHANGED <<vars, setup, stage, backend, bucket, fleet, task, batchErr, batchDone, groupErr, derr>>

\* The strategy returns the joined errors, and the leases are released.
UpdateReturns ==
    /\ stage = "update"
    /\ IF immediate THEN \A m \in mset : task[m] \in Over
       ELSE \A m \in mset : Group[m] \in groupDone
    /\ derr' = IF immediate THEN UNION { batchErr[b] : b \in Batches }
               ELSE UNION { groupErr[g] : g \in groupDone }
    /\ stage' = "status"
    /\ UNCHANGED <<vars, setup, backend, bucket, fleet, update>>

-----------------------------------------------------------------------------

\* Ctrl-C outside the release commands, which have their own.
CancelDeploy ==
    /\ stage \notin {"release", "done", "panic"}
    /\ ctx = "live"
    /\ ctx' = "canceled"
    /\ UNCHANGED <<release, deploy>>

DeployEnded == stage \in {"done", "panic"} /\ UNCHANGED allVars

DeployStep ==
    \/ Configure \/ SetRunning \/ Push \/ RunReleaseCommands \/ ReleaseCommandsReturn
    \/ \E g \in InConfig : SpawnCanary(g) \/ TestCanary(g)
    \/ CanariesReturn \/ RemoveMachines
    \/ \E m \in Machines : DestroyMachine(m)
    \/ DestroyReturns
    \/ \E g \in InConfig : CreateMachine(g)
    \/ CreateReturns \/ AcquireLeases
    \/ \E m \in Machines : BeginUpdate(m) \/ UpdateMachine(m) \/ WaitForMachine(m)
    \/ \E b \in Batches : BatchReturns(b)
    \/ \E g \in Groups : GroupReturns(g)
    \/ UpdateReturns \/ SetFinal \/ Finalize

DeployNext == DeployStep \/ CancelDeploy \/ DeployEnded

DeploySpec == DeployInit /\ [][DeployNext]_allVars

\* Every request ends, if only at its timeout; nothing is asked of the user or
\* of the machines.
FairDeploySpec == DeploySpec /\ WF_allVars(DeployStep)

-----------------------------------------------------------------------------
(* Properties *)

Errors == SUBSET {"failed", "canceled"}

\* Types, and a deployment that is over has no update under way.
DeployTypeOK ==
    /\ setup \in Setups
    /\ stage \in {"configure", "running", "push", "release", "canary", "remove", "destroy", "create",
                  "lease", "update", "status", "finalize", "done", "panic"}
    /\ status \in {"pending", "running", "complete", "interrupted", "failed"}
    /\ tries \in 1 .. StatusAttempts
    /\ gaveUp \in BOOLEAN
    /\ bucket \in {"none", "aborted", "pushed", "deleted"}
    /\ mset \subseteq Machines
    /\ cfg \in [Machines -> {"old", "new", "none"}]
    /\ created \in [Groups -> 0 .. 2]
    /\ canary \in [Groups -> {"none", "created", "destroyed", "left", "failed"}]
    /\ task \in [Machines -> {"todo"} \cup Running \cup Over]
    /\ \A m \in Machines : task[m] \in Running => stage = "update"
    /\ batchErr \in [Batches -> Errors]
    /\ batchDone \subseteq Batches
    /\ groupErr \in [Groups -> Errors]
    /\ groupDone \subseteq Groups
    /\ derr \in Errors

\* A rolling update takes down no more machines of a batch than the pool holds,
\* the ones whose update failed included, and only one until the first has
\* passed its checks: a failure stops the roll (updateEntriesGroup).
RollStops ==
    ~immediate =>
        \A b \in Batches :
            machinesIn(b) # {} =>
                Cardinality({ m \in machinesIn(b) : task[m] \in Running \cup {"failed"} })
                    <= IF task[spearhead(b)] = "ok" THEN poolSize(b) ELSE 1

\* A release that is complete is deployed: every machine of the deployment runs
\* the new version, the machines of removed groups are destroyed, and every
\* group has its machines (deployMachinesApp).
CompleteIsDeployed ==
    status = "complete" =>
        /\ \A m \in setup.selected :
            IF setup.restartOnly \/ Group[m] \in InConfig THEN cfg[m] = "new"
            ELSE cfg[m] = "none"
        /\ ~setup.restartOnly /\ ~setup.updateOnly =>
            \A g \in groupsNeedingMachines : created[g] = wanted(g)
        /\ \A g \in InConfig : canary[g] # "failed"

\* The deployment returns with its release settled, unless the backend refused
\* the status, the user canceled it, or the statics could not be configured or
\* pushed.
ReleaseSettled ==
    stage = "done" /\ status \in {"pending", "running"} =>
        gaveUp \/ ctx = "canceled" \/ bucket = "aborted"

\* No failure keeps the deployment from returning.
DeploymentReturns == <>(stage \in {"done", "panic"})

\* A release is interrupted only by the user (DeployMachinesApp tells the two
\* apart by errors.Is(err, context.Canceled)).
InterruptedByUser == status = "interrupted" => ctx = "canceled"
=============================================================================
