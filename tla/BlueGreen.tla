----------------------------- MODULE BlueGreen -----------------------------
(***************************************************************************)
(* The blue-green deployment strategy of `fly deploy`                      *)
(* (internal/command/deploy/strategy_bluegreen.go).                        *)
(*                                                                         *)
(* One run of flyctl replaces every machine of an app (the "blue" ones) by *)
(* a new one (its "green" one).  Deploy runs a fixed sequence of stages;   *)
(* most stages fan out over the machines through a bounded goroutine pool  *)
(* whose tasks call the Machines API (flaps) with retries.  Concurrently   *)
(* the user may press Ctrl-C (aborted), the API may fail before or after   *)
(* having done what it was asked, and flyctl itself may be killed.         *)
(*                                                                         *)
(* The Machines API is external: `live`, `ready`, `cordoned`, `stopped` and *)
(* `destroyed` are what it stores; every reply the client can get is a     *)
(* nondeterministic choice.                                                *)
(***************************************************************************)
EXTENDS Integers, FiniteSets

CONSTANTS
    NumBlue,            \* number of machines of the app
    Groups,             \* process groups
    Images,             \* image references a blue machine can report
    MaxConcurrent,      \* --max-concurrent
    LaunchAttempts,     \* launchRetryAttempts
    UncordonAttempts,   \* uncordonRetryAttempts
    TeardownAttempts    \* teardownRetryAttempts, tagRetryAttempts

ASSUME NumAssumption ==
    /\ NumBlue \in Nat
    /\ MaxConcurrent \in Nat \ {0}
    /\ LaunchAttempts \in Nat \ {0}
    /\ UncordonAttempts \in Nat \ {0}
    /\ TeardownAttempts \in Nat \ {0}

NoImage == "empty image ref"

ASSUME ImageAssumption == NoImage \notin Images

Blue == 1 .. NumBlue            \* indices into bg.blueMachines

VARIABLES
    cfg,        \* what the launch inputs and the machine list say, never changed
    stage,      \* where Deploy (or Rollback) stands
    task,       \* progress of the current stage's goroutine for each machine
    attempt,    \* number of the API attempt that goroutine is making, 1 once it is done
    aborted,    \* bg.aborted is closed
    canDeleteGreenMachines,     \* bg.rollbackLog.canDeleteGreenMachines
    err,        \* the errors joined in Deploy's result
    hanging,    \* bg.hangingBlueMachines
    tracked,    \* bg.greenMachines: the launch attempt that made b's green, 0 if none
    started,    \* greens seen started
    healthy,    \* greens seen with all their checks passing
    live,       \* live[b]: the green machines that exist for b, by launch attempt
    ready,      \* greens uncordoned
    cordoned, stopped, destroyed,   \* blues the API was made to change
    told,       \* history: greens a launch or a lookup gave flyctl
    missed      \* history: greens that existed when a lookup returned none

vars == <<cfg, stage, task, attempt, aborted, canDeleteGreenMachines, err,
          hanging, tracked, started, healthy, live, ready,
          cordoned, stopped, destroyed, told, missed>>

pool    == <<task, attempt>>
history == <<told, missed>>
greens  == <<tracked, started, healthy, live, ready, history>>
blues   == <<cordoned, stopped, destroyed, hanging>>
control == <<stage, canDeleteGreenMachines, err>>

-----------------------------------------------------------------------------
(* Configuration.  Checks come from the app's configuration, so all machines *)
(* of a process group have them or none has.                                 *)

hostIsOk(b) == b \in cfg.hostOk

machineHasConfiguredChecks(b) == cfg.group[b] \in cfg.checked

(* Mutant: no machine is promoted.                                           *)
forceStartRepresentatives_none == {}

(* A force-started group representative: the lowest-numbered machine of a    *)
(* group that has checks and none of whose machines would start by itself.   *)
forceStartRepresentatives ==
    {b \in cfg.skipLaunch :
        /\ machineHasConfiguredChecks(b)
        /\ \A c \in Blue : cfg.group[c] = cfg.group[b]
                              => c \in cfg.skipLaunch /\ b <= c}

(* Greens that are created but not started. *)
Skipped == cfg.skipLaunch \ forceStartRepresentatives

MaxOf(a, b) == IF a >= b THEN a ELSE b
MinOf(a, b) == IF a <= b THEN a ELSE b

createConcurrency == MaxOf(1, MinOf((NumBlue + 2) \div 3, MaxConcurrent))

-----------------------------------------------------------------------------
(* Stages, goroutine pools and retries.                                      *)

DeployStages == {"start", "create", "waitStarted", "waitHealthy", "markReady",
                 "tag", "waitBeforeCordon", "cordon", "waitBeforeStop",
                 "stop", "waitStopped", "destroy"}
Terminal     == {"complete", "failed", "rollbackFailed", "killed"}
Stages       == DeployStages \cup {"rollback"} \cup Terminal

Errors == {"ErrAborted", "ErrApi", "ErrOrgLimit", "ErrMultipleImageVersions",
           "ErrValidationError", "ErrWaitTimeout",
           "ErrCreateGreenMachine", "ErrWaitForStartedState",
           "ErrWaitForHealthy", "ErrMarkReadyForTraffic",
           "ErrCordonBlueMachines", "ErrStopBlueMachines",
           "ErrWaitForStoppedState", "ErrDestroyBlueMachines"}

(* "idle": queued in the pool; "run": making an API call; "lookup": between  *)
(* an ambiguous launch and its idempotency lookup; "errsend": blocked on the *)
(* stage's unbuffered error channel; the others are results.                 *)
TaskStates == {"idle", "run", "lookup", "errsend", "ok", "err", "aborted"}
TaskDone   == {"ok", "err", "aborted"}

(* The machines a stage does not wait for or operate on.                     *)
skippedBy(s) ==
    {b \in Blue :
        \/ s \in {"waitStarted", "waitHealthy"} /\ b \in Skipped
        \/ s = "waitHealthy" /\ ~machineHasConfiguredChecks(b)
        \/ s \in {"cordon", "stop", "waitStopped"} /\ ~hostIsOk(b)}

(* The waits start all their goroutines at once, the pools queue them.       *)
initialTask(s) ==
    [b \in Blue |->
        IF b \in skippedBy(s) THEN "ok"
        ELSE IF s \in {"waitStarted", "waitHealthy", "waitStopped"} THEN "run"
        ELSE "idle"]

(* Mutant: attempts counted from zero.                                       *)
Enter_fromZero(s) ==
    /\ stage' = s
    /\ task' = initialTask(s)
    /\ attempt' = [b \in Blue |-> 0]
    /\ UNCHANGED err

Enter(s) ==
    /\ stage' = s
    /\ task' = initialTask(s)
    /\ attempt' = [b \in Blue |-> 1]
    /\ UNCHANGED err

(* No stage is running: nothing reads the goroutines of the last one again.  *)
LeavePool ==
    /\ task' = [b \in Blue |-> "idle"]
    /\ attempt' = [b \in Blue |-> 1]

(* Deploy returns an error; updateUsingBlueGreenStrategy calls Rollback.     *)
Fail(E) ==
    /\ stage' = "rollback"
    /\ err' = E
    /\ LeavePool

PoolLimit(s) == IF s = "create" THEN createConcurrency ELSE MaxConcurrent

(* The pool runs tasks in the order they were submitted, a bounded number at *)
(* a time.  Every task but a tagging one first looks at bg.aborted.          *)
StartTask(b) ==
    /\ stage \in {"create", "markReady", "tag", "cordon", "stop", "destroy"}
    /\ task[b] = "idle"
    /\ \A c \in Blue : c < b => task[c] # "idle"
    /\ Cardinality({c \in Blue : task[c] \in {"run", "lookup"}}) < PoolLimit(stage)
    /\ task' = [task EXCEPT ![b] =
                    IF aborted /\ stage # "tag" THEN "aborted" ELSE "run"]
    /\ UNCHANGED <<cfg, attempt, aborted, control, greens, blues>>

PoolDone == \A b \in Blue : task[b] \in TaskDone

(* What pool.Wait may return when a task failed: the first task to fail.     *)
PoolError(b) == IF task[b] = "aborted" THEN "ErrAborted" ELSE "ErrApi"

(* Mutant: the pool only looks at API errors.                                *)
PoolFails_ignoresAborts(E) ==
    /\ PoolDone
    /\ \E b \in Blue : task[b] = "err" /\ Fail({"ErrApi", E})

PoolFails(E) ==
    /\ PoolDone
    /\ \E b \in Blue : task[b] # "ok" /\ Fail({PoolError(b), E})

PoolSucceeds == \A b \in Blue : task[b] = "ok"

(* The outcomes of one attempt inside retry.Do.                              *)
GiveUp(b, result) ==
    /\ task' = [task EXCEPT ![b] = result]
    /\ attempt' = [attempt EXCEPT ![b] = 1]

Succeed(b) == GiveUp(b, "ok")

Retry(b, max) ==
    /\ attempt[b] < max
    /\ attempt' = [attempt EXCEPT ![b] = @ + 1]
    /\ UNCHANGED task

With(S, b, hit) == IF hit THEN S \cup {b} ELSE S

Init ==
    /\ \E g \in [Blue -> Groups], s, h \in SUBSET Blue : \E k \in SUBSET { g[b] : b \in Blue } :
          cfg = [group |-> g, checked |-> k, skipLaunch |-> s, hostOk |-> h]
    /\ stage = "start"
    /\ task = [b \in Blue |-> "idle"]
    /\ attempt = [b \in Blue |-> 1]
    /\ aborted = FALSE
    /\ canDeleteGreenMachines = TRUE
    /\ err = {}
    /\ hanging = {}
    /\ tracked = [b \in Blue |-> 0]
    /\ started = {}
    /\ healthy = {}
    /\ live = [b \in Blue |-> {}]
    /\ ready = {}
    /\ cordoned = {} /\ stopped = {} /\ destroyed = {}
    /\ told = [b \in Blue |-> {}] /\ missed = [b \in Blue |-> {}]

-----------------------------------------------------------------------------
(* Deploy.                                                                   *)

(* The checks before anything is created.  image[b] is what b's machine (or  *)
(* its re-fetch, when the list had no image) reports.                        *)
DetectMultipleImageVersions(image) ==
    LET known == {image[b] : b \in {c \in Blue : hostIsOk(c)}} \ {NoImage}
        unreachable == \E b \in Blue : ~hostIsOk(b) \/ image[b] = NoImage
    IN  ~ (Cardinality(known) = 1 \/ (known = {} /\ unreachable))

Preflight ==
    /\ stage = "start"
    /\ \/ aborted /\ Fail({"ErrAborted"})
       \/ ~aborted /\ \E e \in {"ErrApi", "ErrOrgLimit"} : Fail({e})
       \/ /\ ~aborted
          /\ \E image \in [Blue -> Images \cup {NoImage}] :
                IF DetectMultipleImageVersions(image)
                THEN Fail({"ErrMultipleImageVersions"})
                ELSE IF \A b \in Blue : ~machineHasConfiguredChecks(b)
                     THEN Fail({"ErrValidationError"})
                     ELSE Enter("create")
    /\ UNCHANGED <<cfg, aborted, canDeleteGreenMachines, greens, blues>>

(* launchGreenMachineWithRetry, one Launch call.  It succeeds; or it fails,  *)
(* the machine created or not: with a transient error, to be looked up, or   *)
(* with any other one (a refusal, but also a deadline or an i/o timeout of a *)
(* request that was carried out), which ends the launch.                     *)
Launch(b) ==
    /\ stage = "create"
    /\ task[b] = "run"
    /\ \E committed \in BOOLEAN :
         /\ live' = IF committed THEN [live EXCEPT ![b] = @ \cup {attempt[b]}] ELSE live
         /\ \/ /\ committed
               /\ tracked' = [tracked EXCEPT ![b] = attempt[b]]
               /\ told' = [told EXCEPT ![b] = @ \cup {attempt[b]}]
               /\ Succeed(b)
            \/ /\ \/ GiveUp(b, "err")
                  \/ task' = [task EXCEPT ![b] = "lookup"] /\ UNCHANGED attempt
               /\ UNCHANGED <<tracked, told>>
    /\ UNCHANGED <<cfg, aborted, control, started, healthy, ready, missed, blues>>

(* Mutant: a machine the lookup shows is not adopted.                        *)
adopts_never(shown) == FALSE

(* findGreenMachineByLaunchID returned a machine.                            *)
adopts(shown) == shown # {}

(* The lookup by launch ID after a launch with a transient error.  `shown`   *)
(* is what the list has of b's machines: one that was just created may be    *)
(* missing, and a lookup that fails shows none.  The first machine shown is  *)
(* adopted; without one the next attempt creates another.                    *)
LookupLaunch(b) ==
    /\ stage = "create"
    /\ task[b] = "lookup"
    /\ \E shown \in SUBSET live[b] :
         \/ /\ adopts(shown)
            /\ \E k \in shown : /\ tracked' = [tracked EXCEPT ![b] = k]
                                /\ told' = [told EXCEPT ![b] = @ \cup {k}]
            /\ Succeed(b)
            /\ UNCHANGED missed
         \/ /\ ~adopts(shown)
            /\ missed' = [missed EXCEPT ![b] = @ \cup (live[b] \ shown)]
            /\ IF attempt[b] < LaunchAttempts
               THEN /\ attempt' = [attempt EXCEPT ![b] = @ + 1]
                    /\ task' = [task EXCEPT ![b] = "run"]
               ELSE GiveUp(b, "err")
            /\ UNCHANGED <<tracked, told>>
    /\ UNCHANGED <<cfg, aborted, control, started, healthy, live, ready, blues>>

CreateDone ==
    /\ stage = "create"
    /\ \/ PoolFails("ErrCreateGreenMachine")
       \/ /\ PoolSucceeds
          /\ IF aborted THEN Fail({"ErrAborted"}) ELSE Enter("waitStarted")
    /\ UNCHANGED <<cfg, aborted, canDeleteGreenMachines, greens, blues>>

(* One goroutine per machine waits for its state or its checks; it reports   *)
(* what it saw, or blocks sending its error.                                 *)
SeeStarted(b) ==
    /\ stage = "waitStarted"
    /\ task[b] = "run"
    /\ \/ Succeed(b) /\ started' = started \cup {b}
       \/ GiveUp(b, "errsend") /\ UNCHANGED started
    /\ UNCHANGED <<cfg, aborted, control, tracked, healthy, live, ready, history, blues>>

SeeHealthy(b) ==
    /\ stage = "waitHealthy"
    /\ task[b] = "run"
    /\ \/ Succeed(b) /\ healthy' = healthy \cup {b}
       \/ GiveUp(b, "errsend") /\ UNCHANGED healthy
    /\ UNCHANGED <<cfg, aborted, control, tracked, started, live, ready, history, blues>>

(* The polling loops of the two waits: all done, aborted, timed out, or a    *)
(* goroutine's error received.  The loop ends at once when nothing is waited *)
(* for; otherwise its timer and the abort race with the last goroutine.      *)
WaitLoopFails(E) ==
    /\ \E b \in Blue : initialTask(stage)[b] = "run"
    /\ \/ aborted /\ Fail({"ErrAborted", E})
       \/ Fail({"ErrWaitTimeout", E})
       \/ \E b \in Blue : task[b] = "errsend" /\ Fail({"ErrApi", E})

WaitStartedDone ==
    /\ stage = "waitStarted"
    /\ \/ WaitLoopFails("ErrWaitForStartedState")
       \/ /\ PoolSucceeds
          /\ IF aborted THEN Fail({"ErrAborted"}) ELSE Enter("waitHealthy")
    /\ UNCHANGED <<cfg, aborted, canDeleteGreenMachines, greens, blues>>

WaitHealthyDone ==
    /\ stage = "waitHealthy"
    /\ \/ WaitLoopFails("ErrWaitForHealthy")
       \/ /\ PoolSucceeds
          /\ IF aborted THEN Fail({"ErrAborted"}) ELSE Enter("markReady")
    /\ UNCHANGED <<cfg, aborted, canDeleteGreenMachines, greens, blues>>

(* MarkGreenMachinesAsReadyForTraffic: any error is retried.                 *)
UncordonGreen(b) ==
    /\ stage = "markReady"
    /\ task[b] = "run"
    /\ \E hit \in BOOLEAN :
         /\ ready' = With(ready, b, hit)
         /\ \/ hit /\ Succeed(b)
            \/ Retry(b, UncordonAttempts)
            \/ attempt[b] = UncordonAttempts /\ GiveUp(b, "err")
    /\ UNCHANGED <<cfg, aborted, control, tracked, started, healthy, live, history, blues>>

(* Mutant: canDeleteGreenMachines is never cleared.                          *)
MarkReadyDone_keepsFlag ==
    /\ stage = "markReady"
    /\ \/ PoolFails("ErrMarkReadyForTraffic")
       \/ /\ PoolSucceeds
          /\ IF aborted THEN Fail({"ErrAborted"}) ELSE Enter("tag")
    /\ UNCHANGED <<cfg, aborted, canDeleteGreenMachines, greens, blues>>

(* "after this point, a rollback should never delete green machines"         *)
MarkReadyDone ==
    /\ stage = "markReady"
    /\ \/ PoolFails("ErrMarkReadyForTraffic") /\ UNCHANGED canDeleteGreenMachines
       \/ /\ PoolSucceeds
          /\ canDeleteGreenMachines' = FALSE
          /\ IF aborted THEN Fail({"ErrAborted"}) ELSE Enter("tag")
    /\ UNCHANGED <<cfg, aborted, greens, blues>>

(* TagBlueMachinesAsSafeForDeletion never fails the deployment, and nothing  *)
(* in it reads the tag ("purely informational"), which is therefore not kept.*)
TagBlue(b) ==
    /\ stage = "tag"
    /\ task[b] = "run"
    /\ \/ Succeed(b)
       \/ Retry(b, TeardownAttempts)
       \/ GiveUp(b, "ok")
    /\ UNCHANGED <<cfg, aborted, control, greens, blues>>

TagDone ==
    /\ stage = "tag"
    /\ PoolSucceeds
    /\ IF aborted THEN Fail({"ErrAborted"}) ELSE Enter("waitBeforeCordon")
    /\ UNCHANGED <<cfg, aborted, canDeleteGreenMachines, greens, blues>>

(* sleepAbortable: a select between the timer and the abort.                 *)
sleepAbortable(s, next) ==
    /\ stage = s
    /\ \/ aborted /\ Fail({"ErrAborted"})
       \/ Enter(next)
    /\ UNCHANGED <<cfg, aborted, canDeleteGreenMachines, greens, blues>>

(* CordonBlueMachines and StopBlueMachines: a transient failure is retried,  *)
(* any other one (the call carried out or not) ends the retry, and what is   *)
(* left of it is a warning.                                                  *)
CordonBlue(b) ==
    /\ stage = "cordon"
    /\ task[b] = "run"
    /\ \E hit \in BOOLEAN :
         /\ cordoned' = With(cordoned, b, hit)
         /\ \/ hit /\ Succeed(b)
            \/ Retry(b, TeardownAttempts)
            \/ GiveUp(b, "ok")
    /\ UNCHANGED <<cfg, aborted, control, greens, stopped, destroyed, hanging>>

CordonDone ==
    /\ stage = "cordon"
    /\ \/ PoolFails("ErrCordonBlueMachines")
       \/ /\ PoolSucceeds
          /\ IF aborted THEN Fail({"ErrAborted"}) ELSE Enter("waitBeforeStop")
    /\ UNCHANGED <<cfg, aborted, canDeleteGreenMachines, greens, blues>>

StopBlue(b) ==
    /\ stage = "stop"
    /\ task[b] = "run"
    /\ \E hit \in BOOLEAN :
         /\ stopped' = With(stopped, b, hit)
         /\ \/ hit /\ Succeed(b)
            \/ Retry(b, TeardownAttempts)
            \/ GiveUp(b, "ok")
    /\ UNCHANGED <<cfg, aborted, control, greens, cordoned, destroyed, hanging>>

StopDone ==
    /\ stage = "stop"
    /\ \/ PoolFails("ErrStopBlueMachines")
       \/ PoolSucceeds /\ Enter("waitStopped")
    /\ UNCHANGED <<cfg, aborted, canDeleteGreenMachines, greens, blues>>

(* WaitForBlueMachinesToBeStopped: a machine's own error is collected and    *)
(* not fatal, the loop's timer is.                                           *)
SeeStopped(b) ==
    /\ stage = "waitStopped"
    /\ \/ task[b] = "run" /\ (Succeed(b) \/ GiveUp(b, "errsend"))
       \/ task[b] = "errsend" /\ Succeed(b)
    /\ UNCHANGED <<cfg, aborted, control, greens, blues>>

WaitStoppedDone ==
    /\ stage = "waitStopped"
    /\ \/ /\ \E b \in Blue : hostIsOk(b)
          /\ \/ aborted /\ Fail({"ErrAborted", "ErrWaitForStoppedState"})
             \/ Fail({"ErrWaitTimeout", "ErrWaitForStoppedState"})
       \/ PoolSucceeds /\ Enter("destroy")
    /\ UNCHANGED <<cfg, aborted, canDeleteGreenMachines, greens, blues>>

(* Mutant: a machine that could not be destroyed is forgotten.               *)
reportHanging_forgets(b) == hanging

reportHanging(b) == hanging \cup {b}

(* DestroyBlueMachines: a 404 is a success, what cannot be destroyed hangs.  *)
DestroyBlue(b) ==
    /\ stage = "destroy"
    /\ task[b] = "run"
    /\ \E hit \in BOOLEAN :
         /\ destroyed' = With(destroyed, b, hit)
         /\ \/ (hit \/ b \in destroyed) /\ Succeed(b) /\ UNCHANGED hanging
            \/ Retry(b, TeardownAttempts) /\ UNCHANGED hanging
            \/ /\ GiveUp(b, "ok")
               /\ hanging' = reportHanging(b)
    /\ UNCHANGED <<cfg, aborted, control, greens, cordoned, stopped>>

DestroyDone ==
    /\ stage = "destroy"
    /\ \/ PoolFails("ErrDestroyBlueMachines")
       \/ PoolSucceeds /\ stage' = "complete" /\ LeavePool /\ UNCHANGED err
    /\ UNCHANGED <<cfg, aborted, canDeleteGreenMachines, greens, blues>>

-----------------------------------------------------------------------------
(* Rollback, and what happens around the deployment.                         *)

(* Mutant: every abort lets the rollback delete the green machines.          *)
CanDestroyGreenMachines_anyAbort ==
    err \cap {"ErrAborted", "ErrCreateGreenMachine", "ErrWaitForStartedState",
             "ErrWaitForHealthy", "ErrMarkReadyForTraffic"} # {}

(* Mutant: a failed uncordon is missing from validErrors.                    *)
CanDestroyGreenMachines_notUncordon ==
    \/ err \cap {"ErrCreateGreenMachine", "ErrWaitForStartedState",
                 "ErrWaitForHealthy"} # {}
    \/ "ErrAborted" \in err /\ canDeleteGreenMachines

CanDestroyGreenMachines ==
    \/ err \cap {"ErrCreateGreenMachine", "ErrWaitForStartedState",
                 "ErrWaitForHealthy", "ErrMarkReadyForTraffic"} # {}
    \/ "ErrAborted" \in err /\ canDeleteGreenMachines

(* Rollback destroys the green machines it knows of, in some order, and      *)
(* stops at the first error (of a call that may have been carried out).      *)
RollbackDestroys == "ErrDestroyBlueMachines" \notin err /\ CanDestroyGreenMachines

DestroyGreen(b) ==
    /\ stage = "rollback"
    /\ RollbackDestroys
    /\ tracked[b] # 0
    /\ \E hit \in BOOLEAN :
         /\ live' = IF hit THEN [live EXCEPT ![b] = @ \ {tracked[b]}] ELSE live
         /\ \/ hit /\ tracked' = [tracked EXCEPT ![b] = 0] /\ UNCHANGED stage
            \/ stage' = "rollbackFailed" /\ UNCHANGED tracked
    /\ UNCHANGED <<cfg, pool, aborted, canDeleteGreenMachines, err,
                   started, healthy, ready, history, blues>>

RollbackDone ==
    /\ stage = "rollback"
    /\ RollbackDestroys => \A b \in Blue : tracked[b] = 0
    /\ stage' = "failed"
    /\ UNCHANGED <<cfg, pool, aborted, canDeleteGreenMachines, err, greens, blues>>

(* Ctrl-C while Deploy runs closes bg.aborted.                               *)
Abort ==
    /\ stage \in DeployStages
    /\ ~aborted
    /\ aborted' = TRUE
    /\ UNCHANGED <<cfg, pool, control, greens, blues>>

(* flyctl dies.  Deploy's deferred ctrlcHook.Done makes a Ctrl-C during the  *)
(* rollback one way to get there.                                            *)
Kill ==
    /\ stage \notin Terminal
    /\ stage' = "killed"
    /\ LeavePool
    /\ UNCHANGED <<cfg, aborted, canDeleteGreenMachines, err, greens, blues>>

Finished == stage \in Terminal /\ UNCHANGED vars

TaskStep(b) ==
    \/ StartTask(b) \/ Launch(b) \/ LookupLaunch(b)
    \/ SeeStarted(b) \/ SeeHealthy(b) \/ UncordonGreen(b)
    \/ TagBlue(b) \/ CordonBlue(b) \/ StopBlue(b) \/ SeeStopped(b)
    \/ DestroyBlue(b) \/ DestroyGreen(b)

StageStep ==
    \/ Preflight \/ CreateDone \/ WaitStartedDone \/ WaitHealthyDone
    \/ MarkReadyDone \/ TagDone
    \/ sleepAbortable("waitBeforeCordon", "cordon")
    \/ CordonDone
    \/ sleepAbortable("waitBeforeStop", "stop")
    \/ StopDone \/ WaitStoppedDone \/ DestroyDone \/ RollbackDone

Step == StageStep \/ \E b \in Blue : TaskStep(b)

Next == Step \/ Abort \/ Kill \/ Finished

Spec == Init /\ [][Next]_vars

(* The program keeps running: its goroutines are scheduled, its timers fire  *)
(* and every API call returns (the HTTP client and its contexts time out).   *)
FairSpec == Spec /\ WF_vars(Step)

-----------------------------------------------------------------------------
(* Properties.                                                               *)

(* The state of the deployment is well-typed.                                *)
TypeOK ==
    /\ cfg \in [group : [Blue -> Groups], checked : SUBSET Groups,
                skipLaunch : SUBSET Blue, hostOk : SUBSET Blue]
    /\ stage \in Stages
    /\ task \in [Blue -> TaskStates]
    /\ attempt \in [Blue -> Nat \ {0}]
    /\ aborted \in BOOLEAN
    /\ canDeleteGreenMachines \in BOOLEAN
    /\ err \subseteq Errors
    /\ tracked \in [Blue -> Nat]
    /\ live \in [Blue -> SUBSET (Nat \ {0})]
    /\ started \subseteq Blue /\ healthy \subseteq Blue /\ ready \subseteq Blue
    /\ cordoned \subseteq Blue /\ stopped \subseteq Blue
    /\ destroyed \subseteq Blue /\ hanging \subseteq Blue
    /\ told \in [Blue -> SUBSET (Nat \ {0})]
    /\ missed \in [Blue -> SUBSET (Nat \ {0})]

BlueTouched == cordoned \cup stopped \cup destroyed

GreenServes(b) == tracked[b] \in live[b] /\ b \in ready

(* As soon as one blue machine is cordoned, stopped or destroyed, every      *)
(* machine has a green replacement that exists and is uncordoned, and keeps  *)
(* it: whatever fails, is aborted, is rolled back or is killed afterwards,   *)
(* the app is never left with neither fleet whole.                           *)
BlueKeptUntilGreenServes ==
    BlueTouched # {} => \A b \in Blue : GreenServes(b)

(* No green machine gets traffic before every green that starts was seen     *)
(* started, every one of these with checks was seen passing them, and each   *)
(* process group with checks had at least one machine to verify              *)
(* (forceStartRepresentatives).                                              *)
TrafficOnlyAfterHealth ==
    ready # {} =>
        /\ \A b \in Blue \ Skipped :
              b \in started /\ (machineHasConfiguredChecks(b) => b \in healthy)
        /\ \A b \in Blue : machineHasConfiguredChecks(b) =>
              \E c \in healthy : cfg.group[c] = cfg.group[b]

(* A failed deployment whose rollback went through leaves the app either on  *)
(* its untouched blue machines, every green machine that flyctl was given    *)
(* destroyed, or entirely on green machines.  (A green machine flyctl was    *)
(* never given may stay: its launch ended in an error that is not looked up, *)
(* or no lookup returned it.)                                                *)
FailedIsAllOrNothing ==
    stage = "failed" =>
        \/ BlueTouched = {} /\ \A b \in Blue : told[b] \cap live[b] = {}
        \/ \A b \in Blue : GreenServes(b)

(* A deployment that reports success has moved every machine: its green      *)
(* serves, and its blue is gone or was reported for manual removal.          *)
CompleteIsReplaced ==
    stage = "complete" =>
        \A b \in Blue : GreenServes(b) /\ b \in destroyed \cup hanging

(* The retries of a launch make a second machine only where a lookup failed  *)
(* to show one that existed: but for the machines a lookup missed ("the race *)
(* we can't fully close"), a launch leaves at most one ("no duplicate is     *)
(* created").                                                                *)
OneGreenPerLaunch == \A b \in Blue : Cardinality(live[b] \ missed[b]) <= 1

(* Deploy and its rollback end.                                              *)
Terminates == <>(stage \in Terminal)

(* The hand-over as the API's machines show it: a blue machine is old until  *)
(* it is touched, a green one is new while it exists and is uncordoned.      *)
H == INSTANCE Handover WITH
        Slots <- Blue,
        old <- Blue \ BlueTouched,
        new <- {b \in Blue : GreenServes(b)}

(* The blue-green strategy (Deploy and Rollback) implements the abstract     *)
(* hand-over.                                                                *)
HandoverSpec == H!Spec
=============================================================================
