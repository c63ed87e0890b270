--------------------------- MODULE UpdateRecovery ---------------------------
(***************************************************************************)
(* Updating machines with retries: internal/command/deploy/plan.go, which  *)
(* `fly deploy` uses instead of the plain rolling update when              *)
(* --deploy-retries is positive (updateExistingMachinesWRecovery).         *)
(*                                                                         *)
(* A call of updateMachinesWRecovery acquires the leases, updates every    *)
(* process group in two bounded pools (warm and cold machines), and, when  *)
(* that fails in a way that can be recovered from, lists the machines      *)
(* again and repeats the update, which skips what is already done.  The    *)
(* checks a machine passed are remembered by machine ID for the life of    *)
(* the process (healthChecksPassed).  The canary strategy makes one call   *)
(* for the canary and then one for all machines.                           *)
(*                                                                         *)
(* The API is external: a request that is answered with an error may have  *)
(* been carried out.  A machine that is replaced gets a new ID, so that    *)
(* its old ID is missing from later lists.                                 *)
(***************************************************************************)
EXTENDS Integers, FiniteSets

CONSTANTS Machines,          \* the machines of newAppState
          Group,             \* Group[m]: the process group of m
          Modes,             \* how a machine may have to be updated (see mode)
          Canary,            \* BOOLEAN: the strategy is canary, not rolling
          Skipped,           \* the checks the flags or the strategy skip
          DeployRetries,     \* md.deployRetries
          MaxUnavailable     \* md.maxUnavailable in percent: 100 is 1.0

Checks == {"smoke", "machine", "regular"}

ASSUME RecoveryAssumption ==
    /\ IsFiniteSet(Machines)
    /\ Modes \subseteq {"inplace", "replace", "unreachable"}
    /\ Canary \in BOOLEAN
    /\ Skipped \subseteq Checks
    /\ DeployRetries \in Nat \ {0}
    /\ MaxUnavailable \in Nat \ {0}

VARIABLES
    \* what is fixed before the update
    orig,       \* originalMachine.State: "started" or "stopped"
    mode,       \* "inplace", "replace" or "unreachable" (no lease, replaced)
    canary,     \* the machine the canary strategy updates first
    \* the machines as the API has them
    cfg,        \* configuration of the machine standing for m
    state,      \* its state
    gone,       \* the machines whose original ID no longer exists
    copies,     \* machines launched in m's place
    checked,    \* checks it passed since its last change
    \* flyctl
    pc, phase,
    ctx,        \* "live", or "canceled" by Ctrl-C
    lease,      \* the machines whose LeaseNonce is set
    newLease,   \* the machines whose successor, made by a retry, was leased
    leaseErr,   \* first error of acquireLeases
    leaseTries, \* attempts of the lease loop
    passed,     \* healthChecksPassed
    task,       \* the goroutine working on m in the current stage
    poolErr,    \* first error of each pool of updateProcessGroup
    groupErr,   \* first error of each group's eg
    updateErr,  \* first error of pgroup
    recovering, \* the update under way is a retry
    attempts,   \* failed retries so far
    result      \* what the function returns

api == <<cfg, state, gone, copies, checked>>
fixed == <<orig, mode, canary>>
leases == <<lease, newLease, leaseErr, leaseTries>>
errs == <<poolErr, groupErr, updateErr>>
flow == <<pc, phase, recovering, attempts, result>>

vars == <<fixed, api, ctx, leases, passed, task, errs, flow>>

Groups == {Group[m] : m \in Machines}
Pools == Groups \X BOOLEAN
NoErr == "none"

(* The machines of this call's newAppState.                                  *)
Scope == IF phase = "canary" THEN {canary} ELSE Machines

Init ==
    /\ orig \in [Machines -> {"started", "stopped"}]
    /\ mode \in [Machines -> Modes]
    /\ canary \in Machines
    /\ orig[canary] = "stopped" => \A m \in Machines : orig[m] = "stopped"
    /\ cfg = [m \in Machines |-> "old"]
    /\ state = orig
    /\ gone = {}
    /\ copies = [m \in Machines |-> 0]
    /\ checked = [m \in Machines |-> {}]
    /\ pc = "leases"
    /\ phase = IF Canary THEN "canary" ELSE "main"
    /\ ctx = "live"
    /\ lease = {}
    /\ newLease = {}
    /\ leaseErr = NoErr
    /\ leaseTries = 0
    /\ passed = [m \in Machines |-> Skipped]
    /\ task = [m \in Machines |-> IF m \in Scope THEN "lease" ELSE "idle"]
    /\ poolErr = [p \in Pools |-> NoErr]
    /\ groupErr = [g \in Groups |-> NoErr]
    /\ updateErr = NoErr
    /\ recovering = FALSE
    /\ attempts = 0
    /\ result = "none"

-----------------------------------------------------------------------------
(* The world (external).                                                     *)

Cancel ==
    /\ pc # "returned"
    /\ ctx = "live"
    /\ ctx' = "canceled"
    /\ UNCHANGED <<fixed, api, leases, passed, task, errs, flow>>

(* An updated machine boots, or exits at once.                               *)
Boot(m) ==
    /\ state[m] = "updating"
    /\ state' \in {[state EXCEPT ![m] = s] : s \in {"started", "stopped"}}
    /\ UNCHANGED <<fixed, cfg, gone, copies, checked, ctx, leases, passed, task, errs, flow>>

-----------------------------------------------------------------------------
(* acquireLeases: one goroutine per machine; an error does not stop the      *)
(* others.  Machines on an unreachable host and machines whose lease is      *)
(* already held are skipped.                                                 *)

AcquireLease(m) ==
    /\ pc = "leases"
    /\ task[m] = "lease"
    /\ \/ /\ mode[m] = "unreachable" \/ m \in lease
          /\ task' = [task EXCEPT ![m] = "todo"]
          /\ UNCHANGED <<lease, leaseErr>>
       \/ /\ mode[m] # "unreachable" /\ m \notin lease
          /\ lease' = lease \union {m}
          /\ task' = [task EXCEPT ![m] = "todo"]
          /\ UNCHANGED leaseErr
       \/ /\ mode[m] # "unreachable" /\ m \notin lease
          /\ \E e \in {"recoverable", "unrecoverable"} \union
                      (IF ctx = "canceled" THEN {"canceled"} ELSE {}) :
                leaseErr' = IF leaseErr = NoErr THEN e ELSE leaseErr
          /\ task' = [task EXCEPT ![m] = "noLease"]
          /\ UNCHANGED lease
    /\ UNCHANGED <<fixed, api, ctx, newLease, leaseTries, passed, errs, flow>>

AcquireDone ==
    /\ pc = "leases"
    /\ \A m \in Scope : task[m] # "lease"
    /\ IF leaseErr = NoErr
       THEN /\ pc' = "update"
            /\ UNCHANGED <<leaseErr, leaseTries, task, result>>
       ELSE /\ leaseTries' = leaseTries + 1
            /\ leaseErr' = NoErr
            /\ IF leaseTries + 1 > DeployRetries \/ leaseErr # "recoverable"
               THEN /\ pc' = "returned"   \* before the deferred release is set up
                    /\ result' = "leaseErr"
                    /\ UNCHANGED task
               ELSE /\ task' = [m \in Machines |->
                                  IF task[m] = "noLease" THEN "lease" ELSE task[m]]
                    /\ UNCHANGED <<pc, result>>
    /\ UNCHANGED <<fixed, api, ctx, lease, newLease, passed, errs, phase, recovering,
                   attempts>>

-----------------------------------------------------------------------------
(* Pools: a slot is taken by a task that runs; the first error of a pool     *)
(* cancels its other tasks, the first pool that ends with an error cancels   *)
(* the other pool of its group; groups do not cancel each other.             *)

Ended == {"ok", "err"}
Running == {"update", "launch", "lease2", "wait", "check"}

skipLaunch(m) == orig[m] # "started"

isWarm(m) == orig[m] = "started" \/ mode[m] # "inplace"

Pool(m) == <<Group[m], isWarm(m)>>

PoolOf(p) == {m \in Scope : Pool(m) = p}

getPoolSize(n) ==
    IF MaxUnavailable >= 100 THEN MaxUnavailable \div 100
    ELSE (n * MaxUnavailable + 99) \div 100

StoppedMachinesPoolSize == 30

poolSize(p) ==
    LET n == Cardinality(PoolOf(p))
    IN IF p[2] THEN getPoolSize(n)
       ELSE IF n < StoppedMachinesPoolSize THEN n ELSE StoppedMachinesPoolSize

gCtxDone(m) ==
    ctx = "canceled" \/ poolErr[Pool(m)] # NoErr \/ groupErr[Group[m]] # NoErr

(* The errors a failing request or wait of m's task can return.              *)
Failures(m) == {"recoverable"} \union (IF gCtxDone(m) THEN {"canceled"} ELSE {})

First(old, new) == IF old = NoErr THEN new ELSE old

(* m's task ends with error e, or NoErr, and with it perhaps its pool, its   *)
(* group and pgroup.Wait().                                                  *)
Finish(m, e) ==
    LET t == [task EXCEPT ![m] = IF e = NoErr THEN "ok" ELSE "err"]
        perr == First(poolErr[Pool(m)], e)
        poolEnds == \A n \in PoolOf(Pool(m)) : t[n] \in Ended
        gerr == IF poolEnds THEN First(groupErr[Group[m]], perr) ELSE groupErr[Group[m]]
        groupEnds == \A n \in Scope : Group[n] = Group[m] => t[n] \in Ended
    IN /\ task' = t
       /\ poolErr' = [poolErr EXCEPT ![Pool(m)] = perr]
       /\ groupErr' = [groupErr EXCEPT ![Group[m]] = gerr]
       /\ updateErr' = IF groupEnds THEN First(updateErr, gerr) ELSE updateErr

GoTo(m, s) == task' = [task EXCEPT ![m] = s] /\ UNCHANGED errs

(* Mutant: a task that gets a slot does not look at the group's context.     *)
StartTask_ignoresErrors(m) ==
    /\ pc = "update"
    /\ task[m] = "todo"
    /\ Cardinality({n \in PoolOf(Pool(m)) : task[n] \in Running}) < poolSize(Pool(m))
    /\ GoTo(m, "update")
    /\ UNCHANGED <<fixed, api, ctx, leases, passed, flow>>

StartTask(m) ==
    /\ pc = "update"
    /\ task[m] = "todo"
    /\ Cardinality({n \in PoolOf(Pool(m)) : task[n] \in Running}) < poolSize(Pool(m))
    /\ IF gCtxDone(m) THEN Finish(m, "canceled") ELSE GoTo(m, "update")
    /\ UNCHANGED <<fixed, api, ctx, leases, passed, flow>>

-----------------------------------------------------------------------------
(* updateOrCreateMachine                                                     *)

(* Mutant: the configuration the API returns never equals the one sent.      *)
compareConfigs_spuriousDiff(m) == FALSE

compareConfigs(m) == cfg[m] = "new"

(* The API has a new configuration, or a new machine, for m.                 *)
Changed(m) ==
    /\ cfg' = [cfg EXCEPT ![m] = "new"]
    /\ state' = [state EXCEPT ![m] = IF skipLaunch(m) THEN "stopped" ELSE "updating"]
    /\ checked' = [checked EXCEPT ![m] = {}]

(* What follows once the machine is updated: nothing but the wait for a      *)
(* good state when the machine is not to be started.                         *)
afterUpdate(m) ==
    IF {"machine", "smoke"} \subseteq passed[m] THEN "check" ELSE "wait"

UpdateInPlace(m) ==
    /\ task[m] = "update"
    /\ m \notin gone
    /\ \/ /\ compareConfigs(m)
          /\ GoTo(m, afterUpdate(m))
          /\ UNCHANGED api
       \/ /\ ~compareConfigs(m) /\ mode[m] = "inplace" /\ m \in lease
          /\ Changed(m)
          /\ GoTo(m, afterUpdate(m))
          /\ UNCHANGED <<gone, copies>>
       \/ /\ ~compareConfigs(m) /\ mode[m] = "inplace"
          /\ \E e \in Failures(m) \union {"unrecoverable"} : Finish(m, e)
          /\ (Changed(m) /\ m \in lease) \/ UNCHANGED <<cfg, state, checked>>
          /\ UNCHANGED <<gone, copies>>
    /\ UNCHANGED <<fixed, ctx, leases, passed, flow>>

(* updateMachineByReplace: when asked for, or when the update in place was   *)
(* refused because the host has no room.                                     *)
DestroyOld(m) ==
    /\ task[m] = "update"
    /\ m \notin gone
    /\ ~compareConfigs(m)
    /\ \/ /\ gone' = gone \union {m}
          /\ state' = [state EXCEPT ![m] = "destroyed"]
          /\ \/ GoTo(m, "launch")
             \/ \E e \in Failures(m) : Finish(m, e)
       \/ /\ \E e \in Failures(m) \union {"unrecoverable"} : Finish(m, e)
          /\ UNCHANGED <<gone, state>>
    /\ UNCHANGED <<fixed, cfg, copies, checked, ctx, leases, passed, flow>>

(* Mutant: a retry only updates machines that are still listed.              *)
CreateMachine_onlyListed(m) ==
    /\ task[m] = "update"
    /\ m \in gone
    /\ Finish(m, NoErr)
    /\ UNCHANGED <<fixed, api, ctx, leases, passed, flow>>

(* A retry finds m's ID missing from the list: create it again.              *)
CreateMachine(m) ==
    /\ task[m] = "update"
    /\ m \in gone
    /\ \/ /\ Changed(m)
          /\ copies' = [copies EXCEPT ![m] = @ + 1]
          /\ GoTo(m, "lease2") \/ \E e \in Failures(m) : Finish(m, e)
       \/ /\ \E e \in Failures(m) : Finish(m, e)
          /\ UNCHANGED <<cfg, state, checked, copies>>
    /\ UNCHANGED <<fixed, gone, ctx, leases, passed, flow>>

LaunchReplacement(m) ==
    /\ task[m] = "launch"
    /\ \/ /\ Changed(m)
          /\ copies' = [copies EXCEPT ![m] = @ + 1]
          /\ GoTo(m, afterUpdate(m)) \/ \E e \in Failures(m) : Finish(m, e)
       \/ /\ \E e \in Failures(m) : Finish(m, e)
          /\ UNCHANGED <<cfg, state, checked, copies>>
    /\ UNCHANGED <<fixed, gone, ctx, leases, passed, flow>>

(* The machine that was just created is leased too.  The lease is returned   *)
(* to updateMachineWChecks, which drops it: it is in no list that            *)
(* releaseLeases goes over.  An error may follow a lease that was granted.   *)
LeaseCreated(m) ==
    /\ task[m] = "lease2"
    /\ \/ GoTo(m, afterUpdate(m)) /\ newLease' = newLease \union {m}
       \/ /\ \E e \in Failures(m) \union {"unrecoverable"} : Finish(m, e)
          /\ newLease' \in {newLease, newLease \union {m}}
    /\ UNCHANGED <<fixed, api, ctx, lease, leaseErr, leaseTries, passed, flow>>

-----------------------------------------------------------------------------
(* updateMachineWChecks, once the machine is updated                         *)

WaitForMachineState(m) ==
    /\ task[m] = "wait"
    /\ \/ state[m] \in {"started", "stopped"} /\ GoTo(m, "check")
       \/ \E e \in Failures(m) : Finish(m, e)
    /\ UNCHANGED <<fixed, api, ctx, leases, passed, flow>>

(* The next check in the order the code runs them.                           *)
nextCheck(m) ==
    IF "smoke" \notin passed[m] THEN "smoke"
    ELSE IF "machine" \notin passed[m] THEN "machine" ELSE "regular"

checksDone(m) == skipLaunch(m) \/ passed[m] = Checks

(* healthChecksPassed, by machine ID.                                        *)
remember(m) == [passed EXCEPT ![m] = @ \union {nextCheck(m)}]

RunChecks(m) ==
    /\ task[m] = "check"
    /\ \/ /\ checksDone(m)
          /\ Finish(m, NoErr)
          /\ UNCHANGED <<checked, passed>>
       \/ /\ ~checksDone(m)
          /\ nextCheck(m) = "machine" \/ state[m] = "started"
          /\ passed' = remember(m)
          /\ checked' = [checked EXCEPT ![m] = @ \union {nextCheck(m)}]
          /\ UNCHANGED <<task, errs>>
       \/ /\ ~checksDone(m)
          /\ Finish(m, "unrecoverable")
          /\ UNCHANGED <<checked, passed>>
    /\ UNCHANGED <<fixed, cfg, state, gone, copies, ctx, leases, flow>>

-----------------------------------------------------------------------------
(* The end of an update, and the retry loop                                  *)

AllEnded == \A m \in Scope : task[m] \in Ended

(* Mutant: the leases are released at the end of a successful update only.   *)
Unwind_notDeferred(r) ==
    /\ pc' = IF r = "ok" THEN "release" ELSE "returned"
    /\ result' = r
    /\ task' = [m \in Machines |-> IF m \in Scope THEN "clear" ELSE task[m]]

(* Return, through the deferred releaseLeases.                               *)
Unwind(r) ==
    /\ pc' = "release"
    /\ result' = r
    /\ task' = [m \in Machines |-> IF m \in Scope THEN "clear" ELSE task[m]]

UpdateSucceeds ==
    /\ pc = "update"
    /\ AllEnded
    /\ updateErr = NoErr
    /\ Unwind("ok")
    /\ UNCHANGED <<fixed, api, ctx, leases, passed, errs, phase, recovering, attempts>>

(* Mutant: failed retries are not counted.                                   *)
UpdateFails_notCounted ==
    /\ pc = "update"
    /\ AllEnded
    /\ updateErr # NoErr
    /\ IF updateErr # "recoverable"
       THEN Unwind("err") /\ UNCHANGED attempts
       ELSE /\ pc' = "recover"
            /\ UNCHANGED <<result, task, attempts>>
    /\ UNCHANGED <<fixed, api, ctx, leases, passed, errs, phase, recovering>>

UpdateFails ==
    /\ pc = "update"
    /\ AllEnded
    /\ updateErr # NoErr
    /\ IF updateErr # "recoverable"
       THEN Unwind("err") /\ UNCHANGED attempts
       ELSE /\ pc' = "recover"
            /\ attempts' = IF recovering THEN attempts + 1 ELSE attempts
            /\ UNCHANGED <<result, task>>
    /\ UNCHANGED <<fixed, api, ctx, leases, passed, errs, phase, recovering>>

retriesLeft == attempts <= DeployRetries

(* The head of the retry loop: the bound, then the list of machines.         *)
GiveUp ==
    /\ pc = "recover"
    /\ ~retriesLeft
    /\ Unwind("err")
    /\ UNCHANGED <<fixed, api, ctx, leases, passed, errs, phase, recovering, attempts>>

Retry ==
    /\ pc = "recover"
    /\ retriesLeft
    /\ \/ Unwind("panic")  \* List fails: sort.Slice dereferences a nil AppState
          /\ UNCHANGED <<recovering, errs>>
       \/ Unwind("err")    \* setVolumes fails
          /\ UNCHANGED <<recovering, errs>>
       \/ /\ pc' = "update"
          /\ task' = [m \in Machines |-> IF m \in Scope THEN "todo" ELSE task[m]]
          /\ poolErr' = [p \in Pools |-> NoErr]
          /\ groupErr' = [g \in Groups |-> NoErr]
          /\ updateErr' = NoErr
          /\ recovering' = TRUE
          /\ UNCHANGED result
    /\ UNCHANGED <<fixed, api, ctx, leases, passed, phase, attempts>>

(* releaseLeases: not stopped by Ctrl-C; clearMachineLease tries six times.  *)
ReleaseLease(m) ==
    /\ pc = "release"
    /\ task[m] = "clear"
    /\ \/ /\ lease' = lease \ {m}
          /\ task' = [task EXCEPT ![m] = "cleared"]
       \/ /\ m \in lease
          /\ task' = [task EXCEPT ![m] = "stuck"]
          /\ UNCHANGED lease
    /\ UNCHANGED <<fixed, api, ctx, newLease, leaseErr, leaseTries, passed, errs, flow>>

(* Mutant: the canary's error is not looked at.                              *)
Return_ignoresCanary ==
    /\ pc = "release"
    /\ \A m \in Scope : task[m] # "clear"
    /\ IF phase = "canary"
       THEN /\ pc' = "leases"
            /\ phase' = "main"
            /\ task' = [m \in Machines |-> "lease"]
            /\ leaseTries' = 0
            /\ poolErr' = [p \in Pools |-> NoErr]
            /\ groupErr' = [g \in Groups |-> NoErr]
            /\ updateErr' = NoErr
            /\ recovering' = FALSE
            /\ attempts' = 0
            /\ result' = "none"
       ELSE /\ pc' = "returned"
            /\ UNCHANGED <<phase, task, leaseTries, errs, recovering, attempts, result>>
    /\ UNCHANGED <<fixed, api, ctx, lease, newLease, leaseErr, passed>>

(* The call returns.  After a good canary the machines are listed again and  *)
(* all of them are updated.                                                  *)
Return ==
    /\ pc = "release"
    /\ \A m \in Scope : task[m] # "clear"
    /\ \/ /\ phase = "canary" /\ result = "ok"
          /\ pc' = "leases"
          /\ phase' = "main"
          /\ task' = [m \in Machines |-> "lease"]
          /\ leaseTries' = 0
          /\ poolErr' = [p \in Pools |-> NoErr]
          /\ groupErr' = [g \in Groups |-> NoErr]
          /\ updateErr' = NoErr
          /\ recovering' = FALSE
          /\ attempts' = 0
          /\ result' = "none"
       \/ /\ pc' = "returned"
          /\ result' = IF phase = "canary" /\ result = "ok" THEN "err" ELSE result
          /\ UNCHANGED <<phase, task, leaseTries, errs, recovering, attempts>>
    /\ UNCHANGED <<fixed, api, ctx, lease, newLease, leaseErr, passed>>

Finished == pc = "returned" /\ UNCHANGED vars

(* The steps of m's task.                                                    *)
TaskStep(m) ==
    \/ StartTask(m) \/ UpdateInPlace(m) \/ DestroyOld(m) \/ LaunchReplacement(m)
    \/ CreateMachine(m) \/ LeaseCreated(m) \/ WaitForMachineState(m) \/ RunChecks(m)

CallStep ==
    \/ \E m \in Machines : AcquireLease(m) \/ TaskStep(m) \/ ReleaseLease(m)
    \/ AcquireDone \/ UpdateSucceeds \/ UpdateFails \/ GiveUp \/ Retry \/ Return

Next ==
    \/ Cancel \/ CallStep \/ Finished
    \/ \E m \in Machines : Boot(m)

Spec == Init /\ [][Next]_vars

(* Every request and wait of the code ends: it has a timeout.                *)
FairSpec == Spec /\ WF_vars(CallStep)

-----------------------------------------------------------------------------
(* Properties                                                                *)

Errors == {NoErr, "recoverable", "unrecoverable", "canceled"}

(* The state is well-typed: what the API stores, the remembered results and  *)
(* both retry counters stay in range.                                        *)
TypeOK ==
    /\ orig \in [Machines -> {"started", "stopped"}]
    /\ mode \in [Machines -> Modes]
    /\ canary \in Machines
    /\ cfg \in [Machines -> {"old", "new"}]
    /\ state \in [Machines -> {"started", "stopped", "updating", "destroyed"}]
    /\ gone \subseteq Machines
    /\ copies \in [Machines -> Nat]
    /\ checked \in [Machines -> SUBSET Checks]
    /\ pc \in {"leases", "update", "recover", "release", "returned"}
    /\ phase \in {"canary", "main"}
    /\ ctx \in {"live", "canceled"}
    /\ lease \subseteq Machines /\ newLease \subseteq Machines
    /\ leaseErr \in Errors
    /\ leaseTries \in 0 .. DeployRetries + 1
    /\ passed \in [Machines -> SUBSET Checks]
    /\ task \in [Machines -> Running \union Ended \union
                   {"idle", "lease", "noLease", "todo", "clear", "cleared", "stuck"}]
    /\ poolErr \in [Pools -> Errors]
    /\ groupErr \in [Groups -> Errors]
    /\ updateErr \in Errors
    /\ recovering \in BOOLEAN
    /\ attempts \in 0 .. DeployRetries + 1
    /\ result \in {"none", "ok", "err", "panic", "leaseErr"}

(* A successful deployment leaves every machine that was not replaced with   *)
(* the new configuration, and each of them that was running has passed every *)
(* required check since the last time it was changed: the results remembered *)
(* across retries and across the canary call are never those of an earlier   *)
(* incarnation of the machine.                                               *)
SuccessIsChecked ==
    pc = "returned" /\ result = "ok" =>
        \A m \in Machines \ gone :
            cfg[m] = "new" /\ (skipLaunch(m) \/ Checks \ Skipped \subseteq checked[m])

(* A replacement that destroyed the machine and then failed to launch its    *)
(* successor is made good by the retries: success means that some machine    *)
(* was launched for every machine that is no more.                           *)
SuccessKeepsMachines ==
    pc = "returned" /\ result = "ok" => \A m \in gone : copies[m] > 0

Unavailable(g) ==
    {m \in Machines : Group[m] = g /\ orig[m] = "started" /\ state[m] # "started"}

Bounded(g) ==
    Cardinality(Unavailable(g)) <= getPoolSize(Cardinality(PoolOf(<<g, TRUE>>)))

(* Until something has to be retried, no more running machines of a process  *)
(* group are down than max-unavailable allows, the ones a failing task left  *)
(* down included: the pool hands out no further work after its first error.  *)
FirstUpdateBounded ==
    pc = "update" /\ ~recovering => \A g \in Groups : Bounded(g)

(* With the canary strategy another machine is touched only after the        *)
(* canary, if it was running and is updated in place, has passed every       *)
(* required check with the new configuration.                                *)
CanaryFirst ==
    Canary /\ (\E m \in Machines \ {canary} : cfg[m] = "new" \/ m \in gone) =>
        /\ cfg[canary] = "new"
        /\ ~skipLaunch(canary) /\ canary \notin gone =>
               Checks \ Skipped \subseteq checked[canary]

(* Once the leases are held, every way out of the update (success, error,    *)
(* Ctrl-C, panic) releases them: of the nonces flyctl kept, what is left is  *)
(* what the API refused to clear.  The only other leases left are those on   *)
(* machines a retry created in the place of one that is no more, which stay  *)
(* until they expire.                                                        *)
LeasesCleared ==
    pc = "returned" /\ result # "leaseErr" =>
        /\ \A m \in lease : task[m] = "stuck"
        /\ \A m \in newLease : m \in gone /\ copies[m] > 0

(* The retries come to an end.                                               *)
Returns == <>(pc = "returned")
=============================================================================
