------------------------ MODULE UpdateRecoveryProofs ------------------------
(***************************************************************************)
(* Proofs about the update with retries, for any machines, process groups, *)
(* retries and max-unavailable, with and without a canary.                 *)
(***************************************************************************)
EXTENDS UpdateRecovery, FiniteSetTheorems, TLAPS

(* Control: what a stage of the call means for the goroutines, the counters  *)
(* and the result.                                                           *)

FlowInv ==
    /\ pc = "leases" => leaseTries <= DeployRetries /\ attempts = 0
    /\ pc = "update" => attempts <= DeployRetries
    /\ pc \in {"leases", "update", "recover"} => result = "none"
    /\ pc = "release" => result \in {"ok", "err", "panic"}
    /\ pc = "returned" /\ result = "ok" => phase = "main"
    /\ ~Canary => phase = "main"

(* What the goroutine of a machine in the call may be doing.                 *)
Doing ==
    CASE pc = "leases"   -> {"lease", "noLease", "todo"}
      [] pc = "update"   -> {"todo"} \union Running \union Ended
      [] pc = "recover"  -> Ended
      [] pc = "release"  -> {"clear", "cleared", "stuck"}
      [] pc = "returned" -> IF result = "leaseErr" THEN {"noLease", "todo"}
                            ELSE {"cleared", "stuck"}

TaskInv ==
    /\ \A m \in Machines : task[m] \in IF m \in Scope THEN Doing ELSE {"idle"}
    /\ pc = "leases" /\ leaseErr = NoErr => \A m \in Machines : task[m] # "noLease"

LeaseInv ==
    /\ lease \subseteq Scope
    /\ pc \in {"release", "returned"} => \A m \in lease : task[m] # "cleared"

(* An error of a task is the error of its pool, of its group and of the      *)
(* update once they have ended.                                              *)
TaskErr == \A m \in Scope : task[m] = "err" => poolErr[Pool(m)] # NoErr

PoolErr ==
    \A m \in Scope :
        poolErr[Pool(m)] # NoErr /\ (\A n \in PoolOf(Pool(m)) : task[n] \in Ended)
            => groupErr[Group[m]] # NoErr

GroupErr ==
    \A m \in Scope :
        groupErr[Group[m]] # NoErr /\ (\A n \in Scope : Group[n] = Group[m] => task[n] \in Ended)
            => updateErr # NoErr

ErrInv ==
    /\ pc = "leases" => /\ \A p \in Pools : poolErr[p] = NoErr
                        /\ \A g \in Groups : groupErr[g] = NoErr
    /\ pc = "update" => TaskErr /\ PoolErr /\ GroupErr

(* The work on a machine is done, and nothing undoes it: it has the new      *)
(* configuration; if it was destroyed another one was launched, and          *)
(* otherwise it was not to be started or has passed the checks since.        *)
Done(m) ==
    /\ cfg[m] = "new"
    /\ m \in gone => copies[m] > 0
    /\ m \notin gone => skipLaunch(m) \/ Checks \ Skipped \subseteq checked[m]

(* The remembered checks are those of the machine as it is.                  *)
Work(m) ==
    /\ task[m] = "launch" => m \in gone
    /\ task[m] \in {"lease2", "wait", "check", "ok"} =>
           cfg[m] = "new" /\ (m \in gone => copies[m] > 0)
    /\ m \notin gone => /\ cfg[m] = "old" => passed[m] = Skipped
                        /\ passed[m] \subseteq Skipped \union checked[m]
    /\ task[m] = "ok" => Done(m)

WorkInv == \A m \in Machines : Work(m)

DoneInv ==
    /\ pc \in {"release", "returned"} /\ result = "ok" => \A m \in Scope : Done(m)
    /\ Canary /\ phase = "main" => Done(canary)
    /\ phase = "canary" => \A m \in Machines \ {canary} : cfg[m] = "old" /\ m \notin gone

TInv == TypeOK /\ FlowInv /\ TaskInv

RInv == TInv /\ LeaseInv /\ ErrInv /\ WorkInv /\ DoneInv

-----------------------------------------------------------------------------
(* Type correctness and control.                                             *)

TaskStates == Running \union Ended \union
              {"idle", "lease", "noLease", "todo", "clear", "cleared", "stuck"}

LEMMA PoolIn ==
    ASSUME NEW m \in Machines PROVE Pool(m) \in Pools /\ Group[m] \in Groups
BY DEF Pool, Pools, Groups, isWarm

LEMMA ScopeIn == ASSUME TypeOK PROVE Scope \subseteq Machines
BY DEF TypeOK, Scope

LEMMA TypeInit == Init => TInv
<1> SUFFICES ASSUME Init PROVE TInv
  OBVIOUS
<1>1. TypeOK
  <2>1. passed \in [Machines -> SUBSET Checks] /\ leaseTries \in 0 .. DeployRetries + 1
        /\ attempts \in 0 .. DeployRetries + 1
    BY RecoveryAssumption DEF Init
  <2>2. task \in [Machines -> TaskStates]
    BY DEF Init, TaskStates
  <2>3. /\ checked \in [Machines -> SUBSET Checks] /\ copies \in [Machines -> Nat]
        /\ cfg \in [Machines -> {"old", "new"}]
        /\ state \in [Machines -> {"started", "stopped", "updating", "destroyed"}]
    BY DEF Init
  <2>4. poolErr \in [Pools -> Errors] /\ groupErr \in [Groups -> Errors]
    BY DEF Init, Errors
  <2> QED
    BY <2>1, <2>2, <2>3, <2>4 DEF Init, TypeOK, Errors, TaskStates
<1>2. FlowInv
  BY RecoveryAssumption DEF Init, FlowInv
<1>3. TaskInv
  BY DEF Init, TaskInv, Doing
<1> QED
  BY <1>1, <1>2, <1>3 DEF TInv

(* What ends a task, and what moves it on.                                   *)
ErrsOK ==
    /\ task \in [Machines -> TaskStates]
    /\ poolErr \in [Pools -> Errors]
    /\ groupErr \in [Groups -> Errors]
    /\ updateErr \in Errors

LEMMA FinishType ==
    ASSUME ErrsOK, NEW m \in Machines, NEW e \in Errors, Finish(m, e)
    PROVE  ErrsOK'
<1>1. task' = [task EXCEPT ![m] = IF e = NoErr THEN "ok" ELSE "err"]
  BY DEF Finish
<1>2. First(poolErr[Pool(m)], e) \in Errors
  BY PoolIn DEF First, ErrsOK
<1>3. poolErr' \in [Pools -> Errors]
  BY <1>2 DEF Finish, ErrsOK
<1> DEFINE ends == \A n \in PoolOf(Pool(m)) :
                      [task EXCEPT ![m] = IF e = NoErr THEN "ok" ELSE "err"][n] \in Ended
           gerr == IF ends THEN First(groupErr[Group[m]], First(poolErr[Pool(m)], e))
                   ELSE groupErr[Group[m]]
<1>4. gerr \in Errors
  BY <1>2, PoolIn DEF First, ErrsOK
<1>5. groupErr' = [groupErr EXCEPT ![Group[m]] = gerr]
  BY DEF Finish
<1>6. updateErr' \in {updateErr, First(updateErr, gerr)}
  BY DEF Finish
<1> HIDE DEF gerr
<1> QED
  BY <1>1, <1>3, <1>4, <1>5, <1>6 DEF ErrsOK, First, TaskStates, Ended

(* A step of a task ends it, moves it on, or leaves it where it is.          *)
Moves(m) ==
    \/ \E e \in Errors : Finish(m, e)
    \/ \E s \in Running : GoTo(m, s)
    \/ UNCHANGED <<task, errs>>

LEMMA FailuresIn == ASSUME NEW m PROVE Failures(m) \union {"unrecoverable"} \subseteq Errors \ {NoErr}
BY DEF Failures, Errors, NoErr

LEMMA AfterUpdateIn == ASSUME NEW m PROVE afterUpdate(m) \in {"check", "wait"}
BY DEF afterUpdate

LEMMA TaskMoves ==
    ASSUME NEW m \in Machines, TaskStep(m)
    PROVE  /\ Moves(m)
           /\ UNCHANGED <<fixed, ctx, lease, leaseErr, leaseTries, flow>>
           /\ newLease' \in {newLease, newLease \union {m}}
<1> USE FailuresIn, AfterUpdateIn DEF Running, leases
<1>1. CASE StartTask(m)
  BY <1>1 DEF StartTask, Moves, Errors
<1>2. CASE UpdateInPlace(m)
  BY <1>2 DEF UpdateInPlace, Moves
<1>3. CASE DestroyOld(m)
  BY <1>3 DEF DestroyOld, Moves
<1>4. CASE LaunchReplacement(m)
  BY <1>4 DEF LaunchReplacement, Moves
<1>5. CASE CreateMachine(m)
  BY <1>5 DEF CreateMachine, Moves
<1>6. CASE LeaseCreated(m)
  BY <1>6 DEF LeaseCreated, Moves
<1>7. CASE WaitForMachineState(m)
  BY <1>7 DEF WaitForMachineState, Moves
<1>8. CASE RunChecks(m)
  BY <1>8 DEF RunChecks, Moves, Errors, NoErr, errs
<1> QED
  BY <1>1, <1>2, <1>3, <1>4, <1>5, <1>6, <1>7, <1>8 DEF TaskStep

(* The goroutine that takes a step is one of the update.                     *)
LEMMA TaskActive ==
    ASSUME TypeOK, TaskInv, NEW m \in Machines, TaskStep(m)
    PROVE  pc = "update" /\ m \in Scope /\ task[m] \in {"todo"} \union Running
<1>1. task[m] \in Running \/ (task[m] = "todo" /\ pc = "update")
  BY DEF TaskStep, StartTask, UpdateInPlace, DestroyOld, LaunchReplacement, CreateMachine,
         LeaseCreated, WaitForMachineState, RunChecks, Running
<1>2. m \in Scope /\ task[m] \in Doing
  BY <1>1 DEF TaskInv, Running
<1>3. task[m] \in Running => pc = "update"
  BY <1>2 DEF Doing, TypeOK, Running, Ended
<1> QED
  BY <1>1, <1>2, <1>3

LEMMA MovesTask ==
    ASSUME TypeOK, NEW m \in Machines, Moves(m)
    PROVE  /\ ErrsOK'
           /\ \E s \in Running \union Ended \union {task[m]} : task' = [task EXCEPT ![m] = s]
<1>1. ErrsOK
  BY DEF TypeOK, ErrsOK, TaskStates
<1>2. CASE \E e \in Errors : Finish(m, e)
  <2>1. \E s \in {"ok", "err"} : task' = [task EXCEPT ![m] = s]
    BY <1>2 DEF Finish
  <2> QED
    BY <1>1, <1>2, <2>1, FinishType DEF Ended
<1>3. CASE \E s \in Running : GoTo(m, s)
  BY <1>1, <1>3 DEF GoTo, ErrsOK, TaskStates, errs
<1>4. CASE UNCHANGED <<task, errs>>
  BY <1>1, <1>4 DEF ErrsOK, TaskStates, errs, TypeOK
<1> QED
  BY <1>2, <1>3, <1>4 DEF Moves

(* What the tasks do to the machines.                                        *)
ApiOK ==
    /\ cfg \in [Machines -> {"old", "new"}]
    /\ state \in [Machines -> {"started", "stopped", "updating", "destroyed"}]
    /\ gone \subseteq Machines
    /\ copies \in [Machines -> Nat]
    /\ checked \in [Machines -> SUBSET Checks]
    /\ passed \in [Machines -> SUBSET Checks]

LEMMA ChangedType ==
    ASSUME ApiOK, NEW m \in Machines, Changed(m)
    PROVE  /\ cfg' \in [Machines -> {"old", "new"}]
           /\ state' \in [Machines -> {"started", "stopped", "updating", "destroyed"}]
           /\ checked' \in [Machines -> SUBSET Checks]
BY DEF ApiOK, Changed

LEMMA TaskApiType ==
    ASSUME ApiOK, NEW m \in Machines, TaskStep(m) PROVE ApiOK'
<1>1. CASE StartTask(m)
  BY <1>1 DEF StartTask, ApiOK, api
<1>2. CASE UpdateInPlace(m)
  BY <1>2, ChangedType DEF UpdateInPlace, ApiOK, api
<1>3. CASE DestroyOld(m)
  BY <1>3 DEF DestroyOld, ApiOK
<1>4. CASE LaunchReplacement(m)
  BY <1>4, ChangedType DEF LaunchReplacement, ApiOK
<1>5. CASE CreateMachine(m)
  BY <1>5, ChangedType DEF CreateMachine, ApiOK
<1>6. CASE LeaseCreated(m)
  BY <1>6 DEF LeaseCreated, ApiOK, api
<1>7. CASE WaitForMachineState(m)
  BY <1>7 DEF WaitForMachineState, ApiOK, api
<1>8. CASE RunChecks(m)
  <2>1. nextCheck(m) \in Checks
    BY DEF nextCheck, Checks
  <2> QED
    BY <1>8, <2>1 DEF RunChecks, ApiOK, remember
<1> QED
  BY <1>1, <1>2, <1>3, <1>4, <1>5, <1>6, <1>7, <1>8 DEF TaskStep

LEMMA TypeParts ==
    TypeOK <=>
        /\ ErrsOK /\ ApiOK
        /\ orig \in [Machines -> {"started", "stopped"}] /\ mode \in [Machines -> Modes]
        /\ canary \in Machines
        /\ pc \in {"leases", "update", "recover", "release", "returned"}
        /\ phase \in {"canary", "main"} /\ ctx \in {"live", "canceled"}
        /\ lease \subseteq Machines /\ newLease \subseteq Machines
        /\ leaseErr \in Errors
        /\ leaseTries \in 0 .. DeployRetries + 1
        /\ recovering \in BOOLEAN /\ attempts \in 0 .. DeployRetries + 1
        /\ result \in {"none", "ok", "err", "panic", "leaseErr"}
BY DEF TypeOK, ErrsOK, ApiOK, TaskStates

LEMMA TaskTInv ==
    ASSUME TInv, NEW m \in Machines, TaskStep(m) PROVE TInv'
<1> USE DEF TInv
<1>1. /\ UNCHANGED <<fixed, ctx, lease, leaseErr, leaseTries, flow>>
      /\ newLease' \in {newLease, newLease \union {m}}
  BY TaskMoves
<1>2. ErrsOK' /\ \E s \in Running \union Ended \union {task[m]} : task' = [task EXCEPT ![m] = s]
  BY TaskMoves, MovesTask
<1>3. ApiOK'
  BY TaskApiType, TypeParts
<1>4. TypeOK'
  BY <1>1, <1>2, <1>3 DEF TypeOK, ErrsOK, ApiOK, TaskStates, fixed, flow
<1>5. FlowInv'
  BY <1>1 DEF FlowInv, flow
<1>6. pc = "update" /\ m \in Scope /\ task[m] \in {"todo"} \union Running
  BY TaskActive
<1>7. Scope' = Scope /\ Doing' = Doing /\ Doing = {"todo"} \union Running \union Ended
  BY <1>1, <1>6 DEF Scope, Doing, fixed, flow
<1>8. TaskInv'
  BY <1>1, <1>2, <1>6, <1>7 DEF TaskInv, TypeOK, flow
<1> QED
  BY <1>4, <1>5, <1>8

LEMMA UnwindTInv ==
    ASSUME TInv, NEW r \in {"ok", "err", "panic"}, Unwind(r),
           UNCHANGED <<fixed, api, ctx, leases, passed, phase, attempts>>,
           pc \in {"update", "recover"}, recovering' \in BOOLEAN, UNCHANGED errs
    PROVE  TInv'
<1> USE DEF TInv
<1>1. TypeOK'
  BY DEF TypeOK, Unwind, fixed, api, leases, errs
<1>2. FlowInv'
  BY DEF FlowInv, Unwind
<1>3. Scope' = Scope
  BY DEF Scope, fixed
<1>4. TaskInv'
  BY <1>3 DEF TaskInv, Doing, Unwind
<1> QED
  BY <1>1, <1>2, <1>4

LEMMA CallTInv ==
    ASSUME TInv, \/ \E m \in Machines : AcquireLease(m) \/ ReleaseLease(m)
                 \/ AcquireDone \/ UpdateSucceeds \/ UpdateFails \/ GiveUp \/ Retry \/ Return
    PROVE  TInv'
<1> USE DEF TInv
<1>n. DeployRetries \in Nat
  BY RecoveryAssumption
<1>1. ASSUME NEW m \in Machines, AcquireLease(m) PROVE TInv'
  <2>1. TypeOK'
    BY <1>1 DEF AcquireLease, TypeOK, Errors, fixed, api, errs, flow
  <2>2. FlowInv'
    BY <1>1 DEF AcquireLease, FlowInv, flow
  <2>3. Scope' = Scope /\ Doing' = Doing /\ Doing = {"lease", "noLease", "todo"}
    BY <1>1 DEF AcquireLease, Scope, Doing, fixed, flow
  <2>4. m \in Scope
    BY <1>1 DEF AcquireLease, TaskInv
  <2>5. TaskInv'
    BY <1>1, <2>3, <2>4 DEF AcquireLease, TaskInv, TypeOK, NoErr, flow
  <2> QED
    BY <2>1, <2>2, <2>5
<1>2. CASE AcquireDone
  <2>0. Scope' = Scope
    BY <1>2 DEF AcquireDone, Scope, fixed
  <2>1. CASE leaseErr = NoErr
    <3>1. TypeOK' /\ FlowInv'
      BY <1>2, <2>1, <1>n DEF AcquireDone, TypeOK, FlowInv, fixed, api, errs
    <3>2. \A m \in Scope : task[m] = "todo"
      BY <1>2, <2>1, ScopeIn DEF AcquireDone, TaskInv, Doing
    <3>3. TaskInv'
      BY <1>2, <2>0, <2>1, <3>2 DEF AcquireDone, TaskInv, Doing
    <3> QED
      BY <3>1, <3>3
  <2>2. CASE leaseErr # NoErr /\ (leaseTries + 1 > DeployRetries \/ leaseErr # "recoverable")
    <3>1. pc' = "returned" /\ result' = "leaseErr" /\ UNCHANGED task /\ leaseErr' = NoErr
          /\ leaseTries' = leaseTries + 1
          /\ UNCHANGED <<fixed, api, ctx, lease, newLease, passed, errs, phase, recovering,
                         attempts>>
      BY <1>2, <2>2 DEF AcquireDone
    <3>2. leaseTries' \in 0 .. DeployRetries + 1
      BY <1>2, <1>n, <3>1 DEF AcquireDone, FlowInv, TypeOK
    <3>3. TypeOK' /\ FlowInv'
      BY <3>1, <3>2 DEF TypeOK, FlowInv, Errors, fixed, api, errs
    <3>4. \A m \in Scope : task[m] \in {"noLease", "todo"}
      BY <1>2, ScopeIn DEF AcquireDone, TaskInv, Doing
    <3>5. TaskInv'
      BY <2>0, <3>1, <3>4 DEF TaskInv, Doing
    <3> QED
      BY <3>3, <3>5
  <2>3. CASE leaseErr # NoErr /\ ~(leaseTries + 1 > DeployRetries \/ leaseErr # "recoverable")
    <3>1. /\ task' = [m \in Machines |-> IF task[m] = "noLease" THEN "lease" ELSE task[m]]
          /\ leaseErr' = NoErr /\ leaseTries' = leaseTries + 1
          /\ UNCHANGED <<pc, result, fixed, api, ctx, lease, newLease, passed, errs, phase,
                         recovering, attempts>>
      BY <1>2, <2>3 DEF AcquireDone
    <3>2. leaseTries' \in 0 .. DeployRetries + 1 /\ leaseTries' <= DeployRetries
      BY <1>n, <2>3, <3>1 DEF TypeOK
    <3>3. task' \in [Machines -> TaskStates]
      BY <3>1 DEF TypeOK, TaskStates
    <3>4. TypeOK'
      BY <3>1, <3>2, <3>3 DEF TypeOK, Errors, TaskStates, fixed, api, errs
    <3>5. FlowInv'
      BY <3>1, <3>2 DEF FlowInv
    <3>6. Doing' = Doing /\ Doing = {"lease", "noLease", "todo"}
      BY <1>2, <3>1 DEF AcquireDone, Doing
    <3>7. TaskInv'
      BY <2>0, <3>1, <3>6 DEF TaskInv
    <3> QED
      BY <3>4, <3>5, <3>7
  <2> QED
    BY <2>1, <2>2, <2>3
<1>3. CASE UpdateSucceeds
  <2>1. /\ Unwind("ok") /\ pc = "update"
        /\ UNCHANGED <<fixed, api, ctx, leases, passed, phase, attempts, errs, recovering>>
    BY <1>3 DEF UpdateSucceeds
  <2> QED
    BY <2>1, UnwindTInv DEF TypeOK
<1>4. CASE UpdateFails
  <2>1. CASE updateErr # "recoverable"
    <3>1. /\ Unwind("err") /\ pc = "update"
          /\ UNCHANGED <<fixed, api, ctx, leases, passed, phase, attempts, errs, recovering>>
      BY <1>4, <2>1 DEF UpdateFails
    <3> QED
      BY <3>1, UnwindTInv DEF TypeOK
  <2>2. CASE updateErr = "recoverable"
    <3>1. /\ pc = "update" /\ pc' = "recover" /\ AllEnded
          /\ attempts' \in {attempts, attempts + 1}
          /\ UNCHANGED <<result, task, fixed, api, ctx, leases, passed, errs, phase, recovering>>
      BY <1>4, <2>2 DEF UpdateFails
    <3>2. attempts' \in 0 .. DeployRetries + 1
      BY <1>n, <3>1 DEF TypeOK, FlowInv
    <3>3. TypeOK' /\ FlowInv'
      BY <3>1, <3>2 DEF TypeOK, FlowInv, fixed, api, leases, errs
    <3>4. Scope' = Scope
      BY <3>1 DEF Scope, fixed
    <3>5. TaskInv'
      BY <3>1, <3>4 DEF TaskInv, Doing, AllEnded
    <3> QED
      BY <3>3, <3>5
  <2> QED
    BY <2>1, <2>2
<1>5. CASE GiveUp
  <2>1. /\ Unwind("err") /\ pc = "recover"
        /\ UNCHANGED <<fixed, api, ctx, leases, passed, phase, attempts, errs, recovering>>
    BY <1>5 DEF GiveUp
  <2> QED
    BY <2>1, UnwindTInv DEF TypeOK
<1>6. CASE Retry
  <2>0. /\ pc = "recover" /\ retriesLeft
        /\ UNCHANGED <<fixed, api, ctx, leases, passed, phase, attempts>>
    BY <1>6 DEF Retry
  <2>1. CASE (Unwind("panic") \/ Unwind("err")) /\ UNCHANGED <<recovering, errs>>
    BY <2>0, <2>1, UnwindTInv DEF TypeOK
  <2>2. CASE /\ pc' = "update"
             /\ task' = [m \in Machines |-> IF m \in Scope THEN "todo" ELSE task[m]]
             /\ poolErr' = [p \in Pools |-> NoErr]
             /\ groupErr' = [g \in Groups |-> NoErr]
             /\ updateErr' = NoErr
             /\ recovering' = TRUE
             /\ UNCHANGED result
    <3>1. TypeOK'
      BY <2>0, <2>2 DEF TypeOK, Errors, NoErr, fixed, api, leases
    <3>2. FlowInv'
      BY <2>0, <2>2 DEF FlowInv, retriesLeft
    <3>3. Scope' = Scope
      BY <2>0 DEF Scope, fixed
    <3>4. TaskInv'
      BY <2>2, <3>3 DEF TaskInv, Doing
    <3> QED
      BY <3>1, <3>2, <3>4
  <2> QED
    BY <1>6, <2>1, <2>2 DEF Retry
<1>7. ASSUME NEW m \in Machines, ReleaseLease(m) PROVE TInv'
  <2>1. TypeOK'
    BY <1>7 DEF ReleaseLease, TypeOK, fixed, api, errs, flow
  <2>2. FlowInv'
    BY <1>7 DEF ReleaseLease, FlowInv, flow
  <2>3. Scope' = Scope /\ Doing' = Doing /\ Doing = {"clear", "cleared", "stuck"}
    BY <1>7 DEF ReleaseLease, Scope, Doing, fixed, flow
  <2>4. m \in Scope
    BY <1>7 DEF ReleaseLease, TaskInv
  <2>5. TaskInv'
    BY <1>7, <2>3, <2>4 DEF ReleaseLease, TaskInv, TypeOK, flow
  <2> QED
    BY <2>1, <2>2, <2>5
<1>8. CASE Return
  <2>1. CASE /\ phase = "canary" /\ result = "ok"
             /\ pc' = "leases"
             /\ phase' = "main"
             /\ task' = [m \in Machines |-> "lease"]
             /\ leaseTries' = 0
             /\ poolErr' = [p \in Pools |-> NoErr]
             /\ groupErr' = [g \in Groups |-> NoErr]
             /\ updateErr' = NoErr
             /\ recovering' = FALSE
             /\ attempts' = 0
             /\ result' = "none"
    <3>0. UNCHANGED <<fixed, api, ctx, lease, newLease, leaseErr, passed>>
      BY <1>8 DEF Return
    <3>e. ErrsOK'
      BY <2>1 DEF ErrsOK, TaskStates, Errors, NoErr
    <3>c. leaseTries' \in 0 .. DeployRetries + 1 /\ attempts' \in 0 .. DeployRetries + 1
      BY <2>1, <1>n
    <3>f. /\ recovering' \in BOOLEAN /\ pc' = "leases" /\ phase' = "main"
          /\ result' = "none" /\ UNCHANGED <<fixed, api, ctx, lease, newLease, leaseErr, passed>>
      BY <2>1, <3>0
    <3>1. TypeOK'
      BY <3>e, <3>c, <3>f DEF TypeOK, ErrsOK, TaskStates, fixed, api
    <3>2. FlowInv'
      BY <2>1, <1>n DEF FlowInv
    <3>3. TaskInv'
      BY <2>1, ScopeIn DEF TaskInv, Doing, Scope
    <3> QED
      BY <3>1, <3>2, <3>3
  <2>2. CASE /\ pc' = "returned"
             /\ result' = IF phase = "canary" /\ result = "ok" THEN "err" ELSE result
             /\ UNCHANGED <<phase, task, leaseTries, errs, recovering, attempts>>
    <3>0. pc = "release" /\ UNCHANGED <<fixed, api, ctx, lease, newLease, leaseErr, passed>>
      BY <1>8 DEF Return
    <3>1. TypeOK' /\ FlowInv'
      BY <2>2, <3>0 DEF TypeOK, FlowInv, fixed, api, errs
    <3>2. result' # "leaseErr" /\ Scope' = Scope
      BY <2>2, <3>0 DEF FlowInv, Scope, fixed
    <3>3. \A m \in Scope : task[m] # "clear"
      BY <1>8 DEF Return
    <3>4. TaskInv'
      BY <2>2, <3>0, <3>2, <3>3 DEF TaskInv, Doing
    <3> QED
      BY <3>1, <3>4
  <2> QED
    BY <1>8, <2>1, <2>2 DEF Return
<1> QED
  BY <1>1, <1>2, <1>3, <1>4, <1>5, <1>6, <1>7, <1>8

LEMMA TypeStep == TInv /\ [Next]_vars => TInv'
<1> SUFFICES ASSUME TInv, [Next]_vars PROVE TInv'
  OBVIOUS
<1>1. CASE Cancel
  BY <1>1 DEF Cancel, TInv, TypeOK, FlowInv, TaskInv, Doing, Scope, fixed, api, leases, errs, flow
<1>2. ASSUME NEW m \in Machines, Boot(m) PROVE TInv'
  <2>1. TypeOK'
    BY <1>2 DEF Boot, TInv, TypeOK, fixed, leases, errs, flow
  <2> QED
    BY <1>2, <2>1 DEF Boot, TInv, FlowInv, TaskInv, Doing, Scope, fixed, leases, flow
<1>3. CASE UNCHANGED vars
  BY <1>3 DEF vars, TInv, TypeOK, FlowInv, TaskInv, Doing, Scope, fixed, api, leases, errs, flow
<1> QED
  BY <1>1, <1>2, <1>3, TaskTInv, CallTInv DEF Next, CallStep, Finished

(* Every reachable state is well-typed: both retry counters stay in range,   *)
(* and what the goroutines may be doing follows from the stage of the call.  *)
THEOREM TypeCorrect == Spec => []TInv
BY TypeInit, TypeStep, PTL DEF Spec

-----------------------------------------------------------------------------
(* The leases.  LeasesCleared is about a call that has returned; what leads  *)
(* there is that a lease belongs to a machine of the call and that the       *)
(* deferred release goes over all of them.                                   *)

LEMMA LeaseInit == Init => LeaseInv
BY DEF Init, LeaseInv

LEMMA UnwindLease ==
    ASSUME TInv, LeaseInv, NEW r, Unwind(r), UNCHANGED <<lease, phase, canary>>
    PROVE  LeaseInv'
BY ScopeIn DEF TInv, LeaseInv, Unwind, Scope

LEMMA LeaseStep == TInv /\ LeaseInv /\ [Next]_vars => LeaseInv'
<1> SUFFICES ASSUME TInv, LeaseInv, [Next]_vars PROVE LeaseInv'
  OBVIOUS
<1>u. UNCHANGED <<lease, phase, canary, pc, task>> => LeaseInv'
  BY DEF LeaseInv, Scope
<1>1. ASSUME NEW m \in Machines, AcquireLease(m) PROVE LeaseInv'
  <2>1. m \in Scope
    BY <1>1 DEF AcquireLease, TInv, TaskInv
  <2> QED
    BY <1>1, <2>1 DEF AcquireLease, LeaseInv, Scope, flow, fixed
<1>2. ASSUME NEW m \in Machines, TaskStep(m) PROVE LeaseInv'
  BY <1>2, TaskMoves, TaskActive DEF TInv, LeaseInv, Scope, flow, fixed
<1>3. ASSUME NEW m \in Machines, ReleaseLease(m) PROVE LeaseInv'
  <2>1. UNCHANGED Scope
    BY <1>3 DEF ReleaseLease, Scope, flow, fixed
  <2> QED
    BY <1>3, <2>1 DEF ReleaseLease, LeaseInv, TInv, TypeOK, flow
<1>4. CASE AcquireDone
  <2>1. UNCHANGED <<Scope, lease>>
    BY <1>4 DEF AcquireDone, Scope, fixed
  <2>2. pc' = "returned" => UNCHANGED task
    BY <1>4 DEF AcquireDone
  <2>3. \A m \in lease : task[m] # "cleared"
    BY <1>4, ScopeIn DEF AcquireDone, TInv, TaskInv, LeaseInv, Doing
  <2>4. pc' # "release"
    BY <1>4 DEF AcquireDone
  <2> QED
    BY <2>1, <2>2, <2>3, <2>4 DEF LeaseInv
<1>5. CASE UpdateSucceeds
  BY <1>5, UnwindLease DEF UpdateSucceeds, leases, fixed
<1>6. CASE UpdateFails
  <2>1. CASE Unwind("err")
    BY <1>6, <2>1, UnwindLease DEF UpdateFails, leases, fixed
  <2>2. CASE pc' = "recover"
    BY <1>6, <2>2 DEF UpdateFails, LeaseInv, Scope, leases, fixed
  <2> QED
    BY <1>6, <2>1, <2>2 DEF UpdateFails
<1>7. CASE GiveUp
  BY <1>7, UnwindLease DEF GiveUp, leases, fixed
<1>8. CASE Retry
  <2>1. CASE Unwind("panic") \/ Unwind("err")
    BY <1>8, <2>1, UnwindLease DEF Retry, leases, fixed
  <2>2. CASE pc' = "update"
    BY <1>8, <2>2 DEF Retry, LeaseInv, Scope, leases, fixed
  <2> QED
    BY <1>8, <2>1, <2>2 DEF Retry
<1>9. CASE Return
  <2>1. CASE pc' = "leases" /\ phase' = "main"
    BY <1>9, <2>1 DEF Return, LeaseInv, Scope, TInv, TypeOK
  <2>2. CASE pc' = "returned" /\ UNCHANGED <<phase, task>>
    BY <1>9, <2>2 DEF Return, LeaseInv, Scope, fixed
  <2> QED
    BY <1>9, <2>1, <2>2 DEF Return
<1>10. CASE Cancel
  BY <1>10, <1>u DEF Cancel, leases, flow, fixed
<1>11. ASSUME NEW m \in Machines, Boot(m) PROVE LeaseInv'
  BY <1>11, <1>u DEF Boot, leases, flow, fixed
<1>12. CASE UNCHANGED vars
  BY <1>12, <1>u DEF vars, leases, flow, fixed
<1> QED
  BY <1>1, <1>2, <1>3, <1>4, <1>5, <1>6, <1>7, <1>8, <1>9, <1>10, <1>11, <1>12
     DEF Next, CallStep, Finished

(* The machines a retry created, which it leases: they stand for machines    *)
(* that are no more.                                                         *)
Created(m) == m \in gone /\ copies[m] > 0

CreatedInv ==
    /\ \A m \in Machines : task[m] = "lease2" => Created(m)
    /\ \A m \in newLease : Created(m)

LEMMA CreatedInit == Init => CreatedInv
BY DEF Init, CreatedInv

(* What was created stays so: nothing brings an ID back or takes a copy away. *)
LEMMA TaskCreated ==
    ASSUME TypeOK, NEW m \in Machines, TaskStep(m)
    PROVE  /\ \A n \in Machines : Created(n) => Created(n)'
           /\ newLease' # newLease => task[m] = "lease2"
           /\ task'[m] = "lease2" => Created(m)'
<1> USE DEF Created
<1>1. CASE CreateMachine(m)
  <2>1. /\ UNCHANGED <<gone, newLease>> /\ m \in gone
        /\ copies' \in {copies, [copies EXCEPT ![m] = @ + 1]}
    BY <1>1 DEF CreateMachine, leases
  <2>2. task'[m] = "lease2" => copies' = [copies EXCEPT ![m] = @ + 1]
    BY <1>1 DEF CreateMachine, Finish, TypeOK
  <2> QED
    BY <2>1, <2>2 DEF TypeOK
<1>2. CASE LaunchReplacement(m)
  <2>1. /\ UNCHANGED <<gone, newLease>>
        /\ copies' \in {copies, [copies EXCEPT ![m] = @ + 1]}
    BY <1>2 DEF LaunchReplacement, leases
  <2>2. task'[m] # "lease2"
    BY <1>2, AfterUpdateIn DEF LaunchReplacement, GoTo, Finish, TypeOK
  <2> QED
    BY <2>1, <2>2 DEF TypeOK
<1>3. CASE DestroyOld(m)
  <2>1. gone \subseteq gone' /\ UNCHANGED <<copies, newLease>>
    BY <1>3 DEF DestroyOld, leases
  <2>2. task'[m] # "lease2"
    BY <1>3 DEF DestroyOld, GoTo, Finish, TypeOK
  <2> QED
    BY <2>1, <2>2
<1>4. CASE LeaseCreated(m)
  <2>1. task'[m] # "lease2"
    BY <1>4, AfterUpdateIn DEF LeaseCreated, GoTo, Finish, TypeOK
  <2> QED
    BY <1>4, <2>1 DEF LeaseCreated, api
<1>5. CASE StartTask(m) \/ UpdateInPlace(m) \/ WaitForMachineState(m) \/ RunChecks(m)
  <2>1. UNCHANGED <<gone, copies, newLease>>
    BY <1>5 DEF StartTask, UpdateInPlace, WaitForMachineState, RunChecks, api, leases
  <2>2. task'[m] # "lease2"
    BY <1>5, AfterUpdateIn
       DEF StartTask, UpdateInPlace, WaitForMachineState, RunChecks, GoTo, Finish, TypeOK
  <2> QED
    BY <2>1, <2>2
<1> QED
  BY <1>1, <1>2, <1>3, <1>4, <1>5 DEF TaskStep

LEMMA CreatedStep == TInv /\ CreatedInv /\ [Next]_vars => CreatedInv'
<1> SUFFICES ASSUME TInv, CreatedInv, [Next]_vars PROVE CreatedInv'
  OBVIOUS
<1>1. ASSUME NEW m \in Machines, TaskStep(m) PROVE CreatedInv'
  <2>1. \A n \in Machines \ {m} : task'[n] = task[n]
    BY <1>1, TaskMoves, MovesTask DEF TInv, TypeOK
  <2>2. newLease' \in {newLease, newLease \union {m}} /\ newLease \subseteq Machines
    BY <1>1, TaskMoves DEF TInv, TypeOK
  <2> QED
    BY <1>1, <2>1, <2>2, TaskCreated DEF TInv, CreatedInv
<1>2. ASSUME UNCHANGED <<gone, copies, newLease>>,
             \A m \in Machines : task'[m] = "lease2" => task[m] = "lease2"
      PROVE  CreatedInv'
  BY <1>2 DEF CreatedInv, Created
<1>3. ASSUME NEW m \in Machines, AcquireLease(m) \/ ReleaseLease(m) PROVE CreatedInv'
  BY <1>2, <1>3 DEF AcquireLease, ReleaseLease, TInv, TypeOK, api
<1>4. CASE AcquireDone \/ UpdateSucceeds \/ UpdateFails \/ GiveUp \/ Retry \/ Return
  <2>1. UNCHANGED <<gone, copies, newLease>>
    BY <1>4 DEF AcquireDone, UpdateSucceeds, UpdateFails, GiveUp, Retry, Return, api, leases
  <2>2. \A m \in Machines : task'[m] = "lease2" => task[m] = "lease2"
    BY <1>4 DEF AcquireDone, UpdateSucceeds, UpdateFails, GiveUp, Retry, Return, Unwind
  <2> QED
    BY <1>2, <2>1, <2>2
<1>5. CASE Cancel \/ (\E m \in Machines : Boot(m)) \/ UNCHANGED vars
  BY <1>2, <1>5 DEF Cancel, Boot, vars, api, leases
<1> QED
  BY <1>1, <1>3, <1>4, <1>5 DEF Next, CallStep, Finished

(* With any number of machines, every way out of the update releases the     *)
(* leases flyctl keeps, of the machines a failed retry or a panic left       *)
(* undone as well: what is left of them is what the API refused to clear     *)
(* (releaseLeases is deferred once the leases are held).  Beyond them only   *)
(* the machines a retry created stay leased (updateOrCreateMachine).         *)
THEOREM UpdateReleases == Spec => []LeasesCleared
<1>1. TInv /\ LeaseInv /\ CreatedInv => LeasesCleared
  BY DEF TInv, TaskInv, Doing, LeaseInv, CreatedInv, Created, LeasesCleared, TypeOK
<1> QED
  BY <1>1, TypeInit, TypeStep, LeaseInit, LeaseStep, CreatedInit, CreatedStep, PTL
     DEF Spec

-----------------------------------------------------------------------------
(* The errors: a failed task never goes unnoticed.                           *)

LEMMA ErrInit == Init => ErrInv
BY DEF Init, ErrInv

LEMMA FinishErrs ==
    ASSUME TInv, TaskErr, PoolErr, GroupErr, NEW m \in Scope, NEW e \in Errors, Finish(m, e),
           UNCHANGED <<fixed, phase>>
    PROVE  TaskErr' /\ PoolErr' /\ GroupErr'
<1> DEFINE t == [task EXCEPT ![m] = IF e = NoErr THEN "ok" ELSE "err"]
           perr == First(poolErr[Pool(m)], e)
           poolEnds == \A n \in PoolOf(Pool(m)) : t[n] \in Ended
           gerr == IF poolEnds THEN First(groupErr[Group[m]], perr) ELSE groupErr[Group[m]]
           groupEnds == \A n \in Scope : Group[n] = Group[m] => t[n] \in Ended
<1>1. /\ task' = t
      /\ poolErr' = [poolErr EXCEPT ![Pool(m)] = perr]
      /\ groupErr' = [groupErr EXCEPT ![Group[m]] = gerr]
      /\ updateErr' = IF groupEnds THEN First(updateErr, gerr) ELSE updateErr
  BY DEF Finish
<1>2. /\ Scope' = Scope /\ Scope \subseteq Machines
      /\ \A n \in Scope : Pool(n)' = Pool(n)
      /\ \A q : PoolOf(q)' = PoolOf(q)
  BY ScopeIn DEF TInv, Scope, Pool, PoolOf, isWarm, fixed
<1>3. \A n \in Scope : Pool(n) \in Pools /\ Group[n] \in Groups
  BY <1>2, PoolIn
<1>4. /\ task \in [Machines -> TaskStates] /\ poolErr \in [Pools -> Errors]
      /\ groupErr \in [Groups -> Errors]
  BY DEF TInv, TypeOK, TaskStates
<1>5. e # NoErr \/ poolErr[Pool(m)] # NoErr => perr # NoErr
  BY DEF First
<1>6. poolErr[Pool(m)] # NoErr => perr # NoErr
  BY DEF First
<1>7. groupErr[Group[m]] # NoErr => gerr # NoErr
  BY DEF First
<1>8. poolEnds /\ perr # NoErr => gerr # NoErr
  BY DEF First
<1>9. groupEnds /\ gerr # NoErr => updateErr' # NoErr
  BY <1>1 DEF First
<1>10. updateErr # NoErr => updateErr' # NoErr
  BY <1>1 DEF First
<1>t. t[m] \in Ended /\ \A n \in Machines : n # m => t[n] = task[n]
  BY <1>2, <1>4 DEF Ended
<1>e. t[m] = "err" => e # NoErr
  BY <1>2, <1>4
<1> HIDE DEF perr, gerr, t
<1>11. TaskErr'
  <2> SUFFICES ASSUME NEW n \in Scope, t[n] = "err" PROVE poolErr'[Pool(n)] # NoErr
    BY <1>1, <1>2 DEF TaskErr
  <2>1. CASE n = m
    BY <1>1, <1>3, <1>4, <1>5, <1>e, <2>1
  <2>2. CASE n # m
    BY <1>1, <1>2, <1>3, <1>4, <1>6, <1>t, <2>2 DEF TaskErr
  <2> QED
    BY <2>1, <2>2
<1>12. PoolErr'
  <2> SUFFICES ASSUME NEW n \in Scope, poolErr'[Pool(n)] # NoErr,
                      \A k \in PoolOf(Pool(n)) : t[k] \in Ended
               PROVE  groupErr'[Group[n]] # NoErr
    BY <1>1, <1>2 DEF PoolErr
  <2>1. CASE Pool(n) = Pool(m)
    <3>1. Group[n] = Group[m]
      BY <2>1 DEF Pool
    <3> QED
      BY <1>1, <1>3, <1>4, <1>8, <2>1, <3>1
  <2>2. CASE Pool(n) # Pool(m)
    <3>1. poolErr[Pool(n)] # NoErr
      BY <1>1, <1>3, <1>4, <2>2
    <3>2. \A k \in PoolOf(Pool(n)) : k # m /\ k \in Machines
      BY <1>2, <2>2 DEF PoolOf
    <3>3. groupErr[Group[n]] # NoErr
      BY <1>t, <3>1, <3>2 DEF PoolErr
    <3> QED
      BY <1>1, <1>3, <1>4, <1>7, <3>3
  <2> QED
    BY <2>1, <2>2
<1>13. GroupErr'
  <2> SUFFICES ASSUME NEW n \in Scope, groupErr'[Group[n]] # NoErr,
                      \A k \in Scope : Group[k] = Group[n] => t[k] \in Ended
               PROVE  updateErr' # NoErr
    BY <1>1, <1>2 DEF GroupErr
  <2>1. CASE Group[n] = Group[m]
    BY <1>1, <1>3, <1>4, <1>9, <2>1
  <2>2. CASE Group[n] # Group[m]
    <3>1. groupErr[Group[n]] # NoErr
      BY <1>1, <1>3, <1>4, <2>2
    <3>2. \A k \in Scope : Group[k] = Group[n] => task[k] \in Ended
      BY <1>2, <1>t, <2>2
    <3> QED
      BY <1>10, <3>1, <3>2 DEF GroupErr
  <2> QED
    BY <2>1, <2>2
<1> QED
  BY <1>11, <1>12, <1>13

LEMMA GoToErrs ==
    ASSUME TInv, TaskErr, PoolErr, GroupErr, NEW m \in Scope, NEW s \in Running, GoTo(m, s),
           UNCHANGED <<fixed, phase>>
    PROVE  TaskErr' /\ PoolErr' /\ GroupErr'
<1>1. task' = [task EXCEPT ![m] = s] /\ UNCHANGED <<poolErr, groupErr, updateErr>>
  BY DEF GoTo, errs
<1>2. /\ Scope' = Scope /\ Scope \subseteq Machines
      /\ \A n \in Scope : Pool(n)' = Pool(n)
      /\ \A q : PoolOf(q)' = PoolOf(q)
  BY ScopeIn DEF TInv, Scope, Pool, PoolOf, isWarm, fixed
<1>3. s \notin Ended /\ task'[m] = s /\ \A n \in Scope : n # m => task'[n] = task[n]
  BY <1>1, <1>2 DEF Running, Ended, TInv, TypeOK
<1>4. TaskErr'
  BY <1>1, <1>2, <1>3 DEF TaskErr, Ended
<1>5. PoolErr'
  <2> SUFFICES ASSUME NEW n \in Scope, poolErr[Pool(n)] # NoErr,
                      \A k \in PoolOf(Pool(n)) : task'[k] \in Ended
               PROVE  groupErr[Group[n]] # NoErr
    BY <1>1, <1>2 DEF PoolErr
  <2>1. \A k \in PoolOf(Pool(n)) : k \in Scope /\ k # m
    BY <1>3 DEF PoolOf
  <2> QED
    BY <1>3, <2>1 DEF PoolErr
<1>6. GroupErr'
  <2> SUFFICES ASSUME NEW n \in Scope, groupErr[Group[n]] # NoErr,
                      \A k \in Scope : Group[k] = Group[n] => task'[k] \in Ended
               PROVE  updateErr # NoErr
    BY <1>1, <1>2 DEF GroupErr
  <2>1. \A k \in Scope : Group[k] = Group[n] => k # m
    BY <1>3
  <2> QED
    BY <1>3, <2>1 DEF GroupErr
<1> QED
  BY <1>4, <1>5, <1>6

LEMMA ErrStep == TInv /\ ErrInv /\ [Next]_vars => ErrInv'
<1> SUFFICES ASSUME TInv, ErrInv, [Next]_vars PROVE ErrInv'
  OBVIOUS
<1>u. UNCHANGED <<fixed, phase, pc, task, errs>> => ErrInv'
  BY DEF ErrInv, TaskErr, PoolErr, GroupErr, Scope, Pool, PoolOf, isWarm, fixed, errs
<1>r. pc' \notin {"leases", "update"} => ErrInv'
  BY DEF ErrInv
<1>z. ASSUME \A p \in Pools : poolErr'[p] = NoErr,
             \A g \in Groups : groupErr'[g] = NoErr,
             \A m \in Machines : task'[m] # "err",
             UNCHANGED fixed
      PROVE  ErrInv'
  <2>1. Scope' \subseteq Machines
    BY <1>z DEF Scope, fixed, TInv, TypeOK
  <2>2. \A m \in Machines : Pool(m)' = Pool(m)
    BY <1>z DEF Pool, isWarm, fixed
  <2> QED
    BY <1>z, <2>1, <2>2, PoolIn DEF ErrInv, TaskErr, PoolErr, GroupErr
<1>1. ASSUME NEW m \in Machines, AcquireLease(m) PROVE ErrInv'
  BY <1>1 DEF AcquireLease, ErrInv, flow, errs
<1>2. ASSUME NEW m \in Machines, TaskStep(m) PROVE ErrInv'
  <2>1. pc = "update" /\ m \in Scope /\ UNCHANGED <<fixed, phase, pc>>
    BY <1>2, TaskMoves, TaskActive DEF TInv, flow
  <2>2. TaskErr /\ PoolErr /\ GroupErr
    BY <2>1 DEF ErrInv
  <2>3. CASE UNCHANGED <<task, errs>>
    BY <1>u, <2>1, <2>3
  <2>4. CASE \E e \in Errors : Finish(m, e)
    BY <2>1, <2>2, <2>4, FinishErrs DEF ErrInv
  <2>5. CASE \E s \in Running : GoTo(m, s)
    BY <2>1, <2>2, <2>5, GoToErrs DEF ErrInv
  <2> QED
    BY <1>2, <2>3, <2>4, <2>5, TaskMoves DEF Moves
<1>3. ASSUME NEW m \in Machines, ReleaseLease(m) PROVE ErrInv'
  BY <1>3, <1>r DEF ReleaseLease, flow
<1>4. CASE AcquireDone
  <2>1. CASE pc' = "update"
    <3>1. \A m \in Machines : task'[m] # "err"
      BY <1>4, <2>1 DEF AcquireDone, TInv, TaskInv, Doing
    <3> QED
      BY <1>4, <1>z, <3>1 DEF AcquireDone, ErrInv, errs
  <2>2. CASE pc' = "leases"
    BY <1>4, <2>2 DEF AcquireDone, ErrInv, errs
  <2>3. CASE pc' = "returned"
    BY <1>r, <2>3
  <2> QED
    BY <1>4, <2>1, <2>2, <2>3 DEF AcquireDone
<1>5. CASE UpdateSucceeds \/ UpdateFails \/ GiveUp
  BY <1>5, <1>r DEF UpdateSucceeds, UpdateFails, GiveUp, Unwind
<1>6. CASE Retry
  <2>1. CASE Unwind("panic") \/ Unwind("err")
    BY <1>r, <2>1 DEF Unwind
  <2>2. CASE /\ task' = [m \in Machines |-> IF m \in Scope THEN "todo" ELSE task[m]]
             /\ poolErr' = [p \in Pools |-> NoErr]
             /\ groupErr' = [g \in Groups |-> NoErr]
    <3>1. \A m \in Machines : task'[m] # "err"
      BY <2>2 DEF TInv, TaskInv
    <3> QED
      BY <1>6, <1>z, <2>2, <3>1 DEF Retry
  <2> QED
    BY <1>6, <2>1, <2>2 DEF Retry
<1>7. CASE Return
  <2>1. CASE pc' = "returned"
    BY <1>r, <2>1
  <2>2. CASE /\ task' = [m \in Machines |-> "lease"]
             /\ poolErr' = [p \in Pools |-> NoErr]
             /\ groupErr' = [g \in Groups |-> NoErr]
    BY <1>7, <1>z, <2>2 DEF Return
  <2> QED
    BY <1>7, <2>1, <2>2 DEF Return
<1>8. CASE Cancel
  BY <1>8, <1>u DEF Cancel, flow
<1>9. ASSUME NEW m \in Machines, Boot(m) PROVE ErrInv'
  BY <1>9, <1>u DEF Boot, flow
<1>10. CASE UNCHANGED vars
  BY <1>10, <1>u DEF vars, flow
<1> QED
  BY <1>1, <1>2, <1>3, <1>4, <1>5, <1>6, <1>7, <1>8, <1>9, <1>10
     DEF Next, CallStep, Finished

-----------------------------------------------------------------------------
(* The work on the machines.  Its invariant speaks of one machine at a time, *)
(* and a step of a task only touches the machine of that task.               *)

(* A step leaves machine n as it is.                                         *)
Same(n) ==
    /\ cfg'[n] = cfg[n] /\ state'[n] = state[n] /\ copies'[n] = copies[n]
    /\ checked'[n] = checked[n] /\ passed'[n] = passed[n]
    /\ n \in gone' <=> n \in gone

LEMMA ChangedFrame ==
    ASSUME ApiOK, NEW m \in Machines, Changed(m)
    PROVE  /\ cfg'[m] = "new" /\ checked'[m] = {}
           /\ \A n \in Machines \ {m} :
                 cfg'[n] = cfg[n] /\ state'[n] = state[n] /\ checked'[n] = checked[n]
BY DEF ApiOK, Changed

LEMMA TaskSame ==
    ASSUME ApiOK, NEW m \in Machines, TaskStep(m), NEW n \in Machines \ {m}
    PROVE  Same(n)
<1>1. CASE StartTask(m)
  BY <1>1 DEF StartTask, Same, api
<1>2. CASE UpdateInPlace(m)
  <2>1. CASE UNCHANGED <<cfg, state, checked>>
    BY <1>2, <2>1 DEF UpdateInPlace, Same, api
  <2>2. CASE Changed(m)
    BY <1>2, <2>2, ChangedFrame DEF UpdateInPlace, Same, api
  <2> QED
    BY <1>2, <2>1, <2>2 DEF UpdateInPlace, api
<1>3. CASE DestroyOld(m)
  BY <1>3 DEF DestroyOld, Same, ApiOK
<1>4. CASE LaunchReplacement(m)
  BY <1>4, ChangedFrame DEF LaunchReplacement, Same, ApiOK
<1>5. CASE CreateMachine(m)
  BY <1>5, ChangedFrame DEF CreateMachine, Same, ApiOK
<1>6. CASE LeaseCreated(m)
  BY <1>6 DEF LeaseCreated, Same, api
<1>7. CASE WaitForMachineState(m)
  BY <1>7 DEF WaitForMachineState, Same, api
<1>8. CASE RunChecks(m)
  BY <1>8 DEF RunChecks, Same, ApiOK, remember
<1> QED
  BY <1>1, <1>2, <1>3, <1>4, <1>5, <1>6, <1>7, <1>8 DEF TaskStep

(* How a task ends.                                                          *)
LEMMA FinishTask ==
    ASSUME TypeOK, NEW m \in Machines, NEW e, Finish(m, e)
    PROVE  task'[m] = IF e = NoErr THEN "ok" ELSE "err"
BY DEF TypeOK, Finish

LEMMA FailTask ==
    ASSUME TypeOK, NEW m \in Machines, \E e \in Failures(m) \union {"unrecoverable"} : Finish(m, e)
    PROVE  task'[m] = "err"
BY FinishTask, FailuresIn

LEMMA GoToTask ==
    ASSUME TypeOK, NEW m \in Machines, NEW s, GoTo(m, s)
    PROVE  task'[m] = s
BY DEF TypeOK, GoTo

(* A task leaves its machine in order, and never undoes work that is done.   *)
LEMMA TaskWork ==
    ASSUME TypeOK, NEW m \in Machines, Work(m), TaskStep(m)
    PROVE  Work(m)' /\ (Done(m) => Done(m)')
<1>a. ApiOK
  BY TypeParts
<1>o. UNCHANGED orig
  BY TaskMoves DEF fixed
<1>u. UNCHANGED <<cfg, gone, copies, checked>> => (Done(m) => Done(m)')
  BY <1>o DEF Done, skipLaunch
<1>1. CASE StartTask(m)
  <2>1. task'[m] \in {"err", "update"}
    BY <1>1, FinishTask, GoToTask DEF StartTask, NoErr
  <2>2. UNCHANGED <<cfg, gone, copies, checked, passed>>
    BY <1>1 DEF StartTask, api
  <2> QED
    BY <1>u, <2>1, <2>2 DEF Work
<1>2. CASE UpdateInPlace(m)
  <2>1. m \notin gone /\ UNCHANGED <<gone, passed, copies>>
    BY <1>2 DEF UpdateInPlace, api
  <2>2. CASE compareConfigs(m) /\ GoTo(m, afterUpdate(m)) /\ UNCHANGED api
    <3>1. task'[m] \in {"wait", "check"}
      BY <2>2, GoToTask, AfterUpdateIn
    <3> QED
      BY <1>u, <2>1, <2>2, <3>1 DEF Work, compareConfigs, api
  <2>3. CASE ~compareConfigs(m) /\ UNCHANGED <<cfg, state, checked>>
             /\ \E e \in Failures(m) \union {"unrecoverable"} : Finish(m, e)
    <3>1. task'[m] = "err"
      BY <2>3, FailTask
    <3> QED
      BY <1>u, <2>1, <2>3, <3>1 DEF Work
  <2>4. CASE ~compareConfigs(m) /\ Changed(m)
             /\ (GoTo(m, afterUpdate(m))
                 \/ \E e \in Failures(m) \union {"unrecoverable"} : Finish(m, e))
    <3>1. task'[m] \in {"wait", "check", "err"}
      BY <2>4, GoToTask, AfterUpdateIn, FailTask
    <3>2. cfg[m] = "old"
      BY <2>4 DEF compareConfigs, TypeOK
    <3>3. passed[m] = Skipped /\ cfg'[m] = "new"
      BY <1>a, <2>1, <2>4, <3>2, ChangedFrame DEF Work
    <3> QED
      BY <2>1, <3>1, <3>2, <3>3 DEF Work, Done
  <2> QED
    BY <1>2, <2>2, <2>3, <2>4 DEF UpdateInPlace
<1>3. CASE DestroyOld(m)
  <2>1. cfg[m] = "old" /\ UNCHANGED <<cfg, copies, checked, passed>>
    BY <1>3 DEF DestroyOld, compareConfigs, TypeOK
  <2>2. CASE gone' = gone \union {m}
    <3>1. task'[m] \in {"launch", "err"}
      BY <1>3, FailTask, GoToTask DEF DestroyOld
    <3> QED
      BY <2>1, <2>2, <3>1 DEF Work, Done
  <2>3. CASE UNCHANGED gone /\ \E e \in Failures(m) \union {"unrecoverable"} : Finish(m, e)
    <3>1. task'[m] = "err"
      BY <2>3, FailTask
    <3> QED
      BY <1>u, <2>1, <2>3, <3>1 DEF Work
  <2> QED
    BY <1>3, <2>2, <2>3 DEF DestroyOld
<1>4. CASE LaunchReplacement(m) \/ CreateMachine(m)
  <2>1. m \in gone /\ UNCHANGED <<gone, passed>>
    BY <1>4 DEF LaunchReplacement, CreateMachine, Work
  <2>2. CASE Changed(m) /\ copies' = [copies EXCEPT ![m] = @ + 1]
    <3>1. cfg'[m] = "new" /\ copies'[m] > 0
      BY <1>a, <2>2, ChangedFrame DEF TypeOK
    <3>2. task'[m] \in {"lease2", "wait", "check", "err"}
      BY <1>4, FailTask, GoToTask, AfterUpdateIn DEF LaunchReplacement, CreateMachine
    <3> QED
      BY <2>1, <3>1, <3>2 DEF Work, Done
  <2>3. CASE UNCHANGED <<cfg, state, checked, copies>> /\ \E e \in Failures(m) : Finish(m, e)
    <3>1. task'[m] = "err"
      BY <2>3, FailTask
    <3> QED
      BY <1>u, <2>1, <2>3, <3>1 DEF Work
  <2> QED
    BY <1>4, <2>2, <2>3 DEF LaunchReplacement, CreateMachine
<1>5. CASE LeaseCreated(m) \/ WaitForMachineState(m)
  <2>1. task[m] \in {"lease2", "wait"} /\ UNCHANGED <<cfg, gone, copies, checked, passed>>
    BY <1>5 DEF LeaseCreated, WaitForMachineState, api
  <2>2. task'[m] \in {"check", "wait", "err"}
    BY <1>5, FailTask, GoToTask, AfterUpdateIn DEF LeaseCreated, WaitForMachineState
  <2> QED
    BY <1>u, <2>1, <2>2 DEF Work
<1>6. CASE RunChecks(m)
  <2>1. task[m] = "check" /\ UNCHANGED <<cfg, gone, copies>>
    BY <1>6 DEF RunChecks
  <2>2. CASE checksDone(m) /\ Finish(m, NoErr) /\ UNCHANGED <<checked, passed>>
    <3>1. Done(m)
      BY <2>1, <2>2 DEF Work, Done, checksDone
    <3>2. task'[m] = "ok"
      BY <2>2, FinishTask
    <3> QED
      BY <1>u, <2>1, <2>2, <3>1, <3>2 DEF Work
  <2>3. CASE /\ passed' = remember(m)
             /\ checked' = [checked EXCEPT ![m] = @ \union {nextCheck(m)}]
             /\ UNCHANGED <<task, errs>>
    <3>1. /\ passed'[m] = passed[m] \union {nextCheck(m)}
          /\ checked'[m] = checked[m] \union {nextCheck(m)}
      BY <1>a, <2>3 DEF remember, ApiOK
    <3>2. Done(m) => Done(m)'
      BY <1>o, <2>1, <3>1 DEF Done, skipLaunch
    <3> QED
      BY <2>1, <2>3, <3>1, <3>2 DEF Work
  <2>4. CASE Finish(m, "unrecoverable") /\ UNCHANGED <<checked, passed>>
    <3>1. task'[m] = "err"
      BY <2>4, FinishTask DEF NoErr
    <3> QED
      BY <1>u, <2>1, <2>4, <3>1 DEF Work
  <2> QED
    BY <1>6, <2>2, <2>3, <2>4 DEF RunChecks
<1> QED
  BY <1>1, <1>2, <1>3, <1>4, <1>5, <1>6 DEF TaskStep

(* Outside the tasks, a machine's work is kept when its goroutine is not     *)
(* told that it succeeded.                                                   *)
LEMMA OtherWork ==
    ASSUME WorkInv, UNCHANGED <<cfg, gone, copies, checked, passed, orig>>,
           \A m \in Machines : task'[m] = task[m]
                              \/ task'[m] \notin {"launch", "lease2", "wait", "check", "ok"}
    PROVE  WorkInv' /\ \A m \in Machines : Done(m) => Done(m)'
<1>1. \A m \in Machines : Done(m) => Done(m)'
  BY DEF Done, skipLaunch
<1> QED
  BY <1>1 DEF WorkInv, Work

LEMMA WorkInit == Init => WorkInv
BY DEF Init, WorkInv, Work

LEMMA WorkStep ==
    TInv /\ WorkInv /\ [Next]_vars => WorkInv' /\ \A m \in Machines : Done(m) => Done(m)'
<1> SUFFICES ASSUME TInv, WorkInv, [Next]_vars
             PROVE  WorkInv' /\ \A m \in Machines : Done(m) => Done(m)'
  OBVIOUS
<1>1. ASSUME NEW m \in Machines, TaskStep(m)
      PROVE  WorkInv' /\ \A n \in Machines : Done(n) => Done(n)'
  <2>1. ApiOK /\ TypeOK
    BY TypeParts DEF TInv
  <2>2. Work(m)' /\ (Done(m) => Done(m)')
    BY <1>1, <2>1, TaskWork DEF WorkInv
  <2>3. ASSUME NEW n \in Machines \ {m} PROVE Work(n)' /\ (Done(n) => Done(n)')
    <3>1. Same(n) /\ UNCHANGED orig
      BY <1>1, <2>1, TaskSame, TaskMoves DEF fixed
    <3>2. task'[n] = task[n]
      BY <1>1, <2>1, TaskMoves, MovesTask DEF TypeOK
    <3>3. Done(n)' <=> Done(n)
      BY <3>1 DEF Same, Done, skipLaunch
    <3> QED
      BY <3>1, <3>2, <3>3 DEF WorkInv, Work, Same
  <2> QED
    BY <2>2, <2>3 DEF WorkInv
<1>2. CASE \E m \in Machines : AcquireLease(m) \/ ReleaseLease(m)
  <2>1. PICK m \in Machines : AcquireLease(m) \/ ReleaseLease(m)
    BY <1>2
  <2>2. \A n \in Machines : task'[n] = task[n] \/ task'[n] \in {"todo", "noLease", "cleared", "stuck"}
    BY <2>1 DEF AcquireLease, ReleaseLease, TInv, TypeOK
  <2>3. UNCHANGED <<cfg, gone, copies, checked, passed, orig>>
    BY <2>1 DEF AcquireLease, ReleaseLease, api, fixed
  <2> QED
    BY <2>2, <2>3, OtherWork
<1>3. CASE AcquireDone
  BY <1>3, OtherWork DEF AcquireDone, api, fixed
<1>4. CASE UpdateSucceeds \/ UpdateFails \/ GiveUp
  <2>1. \A m \in Machines : task'[m] = task[m] \/ task'[m] = "clear"
    BY <1>4 DEF UpdateSucceeds, UpdateFails, GiveUp, Unwind
  <2> QED
    BY <1>4, <2>1, OtherWork DEF UpdateSucceeds, UpdateFails, GiveUp, api, fixed
<1>5. CASE Retry
  <2>1. \A m \in Machines : task'[m] = task[m] \/ task'[m] \in {"clear", "todo"}
    BY <1>5 DEF Retry, Unwind
  <2> QED
    BY <1>5, <2>1, OtherWork DEF Retry, api, fixed
<1>6. CASE Return
  <2>1. \A m \in Machines : task'[m] = task[m] \/ task'[m] = "lease"
    BY <1>6 DEF Return
  <2> QED
    BY <1>6, <2>1, OtherWork DEF Return, api, fixed
<1>7. CASE Cancel \/ (\E m \in Machines : Boot(m)) \/ UNCHANGED vars
  BY <1>7, OtherWork DEF Cancel, Boot, vars, api, fixed
<1> QED
  BY <1>1, <1>2, <1>3, <1>4, <1>5, <1>6, <1>7 DEF Next, CallStep, Finished

-----------------------------------------------------------------------------
(* Success.  When every task has ended and there is no error, every task     *)
(* succeeded, so that the work on every machine of the call is done; nothing *)
(* undoes it, so it still is when the call returns, and after the canary's   *)
(* call until the end.                                                       *)

LEMMA DoneInit == Init => DoneInv
BY DEF Init, DoneInv

LEMMA NoErrNoFailure ==
    ASSUME TInv, ErrInv, pc = "update", AllEnded, updateErr = NoErr
    PROVE  \A m \in Scope : task[m] = "ok"
<1> SUFFICES ASSUME NEW m \in Scope, task[m] = "err" PROVE FALSE
  BY DEF AllEnded, Ended
<1>1. poolErr[Pool(m)] # NoErr
  BY DEF ErrInv, TaskErr
<1>2. groupErr[Group[m]] # NoErr
  BY <1>1 DEF ErrInv, PoolErr, AllEnded, PoolOf
<1> QED
  BY <1>2 DEF ErrInv, GroupErr, AllEnded

LEMMA DoneStep ==
    TInv /\ ErrInv /\ WorkInv /\ DoneInv /\ [Next]_vars => DoneInv'
<1> SUFFICES ASSUME TInv, ErrInv, WorkInv, DoneInv, [Next]_vars PROVE DoneInv'
  OBVIOUS
<1>s. Scope \subseteq Machines /\ canary \in Machines
  BY ScopeIn DEF TInv, TypeOK
<1>d. \A m \in Machines : Done(m) => Done(m)'
  BY WorkStep
(* A step that leaves the machines of other tasks alone and does not report success. *)
<1>k. ASSUME UNCHANGED <<phase, canary>>,
             pc' \in {"release", "returned"} /\ result' = "ok" =>
                 \/ \A m \in Scope : Done(m)
                 \/ pc \in {"release", "returned"} /\ result = "ok",
             phase = "canary" => \A m \in Machines \ {canary} :
                                    cfg'[m] = cfg[m] /\ (m \in gone' => m \in gone)
      PROVE  DoneInv'
  <2>1. Scope' = Scope
    BY <1>k DEF Scope
  <2>2. (pc \in {"release", "returned"} /\ result = "ok" => \A m \in Scope : Done(m))'
    BY <1>k, <1>s, <1>d, <2>1 DEF DoneInv
  <2>3. (Canary /\ phase = "main" => Done(canary))'
    <3>1. Done(canary) => Done(canary)'
      BY <1>k, <1>s, <1>d
    <3> QED
      BY <1>k, <3>1 DEF DoneInv
  <2>4. (phase = "canary" => \A m \in Machines \ {canary} : cfg[m] = "old" /\ m \notin gone)'
    BY <1>k DEF DoneInv
  <2> QED
    BY <2>2, <2>3, <2>4 DEF DoneInv
<1>1. ASSUME NEW m \in Machines, TaskStep(m) PROVE DoneInv'
  <2>1. pc = "update" /\ m \in Scope /\ UNCHANGED <<phase, canary, pc>>
    BY <1>1, TaskActive, TaskMoves DEF TInv, fixed, flow
  <2>2. phase = "canary" => m = canary
    BY <2>1 DEF Scope
  <2>3. \A n \in Machines \ {m} : Same(n)
    BY <1>1, TaskSame, TypeParts DEF TInv
  <2> QED
    BY <1>k, <2>1, <2>2, <2>3 DEF Same
<1>2. ASSUME NEW m \in Machines, AcquireLease(m) \/ ReleaseLease(m) PROVE DoneInv'
  BY <1>2, <1>k DEF AcquireLease, ReleaseLease, api, fixed, flow
<1>3. CASE AcquireDone
  BY <1>3, <1>k DEF AcquireDone, api, fixed
<1>4. CASE UpdateSucceeds
  <2>1. \A m \in Scope : Done(m)
    BY <1>4, <1>s, NoErrNoFailure DEF UpdateSucceeds, WorkInv, Work
  <2> QED
    BY <1>4, <1>k, <2>1 DEF UpdateSucceeds, api, fixed
<1>5. CASE UpdateFails \/ GiveUp
  <2>1. pc' = "recover" \/ result' = "err"
    BY <1>5 DEF UpdateFails, GiveUp, Unwind
  <2> QED
    BY <1>5, <1>k, <2>1 DEF UpdateFails, GiveUp, api, fixed
<1>6. CASE Retry
  <2>1. pc' = "update" \/ result' \in {"err", "panic"}
    BY <1>6 DEF Retry, Unwind
  <2> QED
    BY <1>6, <1>k, <2>1 DEF Retry, api, fixed
<1>7. CASE Return
  <2>1. CASE phase = "canary" /\ result = "ok" /\ pc' = "leases" /\ phase' = "main"
    <3>1. Done(canary) /\ canary' = canary
      BY <1>7, <2>1 DEF Return, DoneInv, Scope, fixed
    <3>2. Done(canary)'
      BY <1>d, <1>s, <3>1
    <3> QED
      BY <2>1, <3>2 DEF DoneInv
  <2>2. CASE pc' = "returned" /\ UNCHANGED phase
             /\ result' = IF phase = "canary" /\ result = "ok" THEN "err" ELSE result
    <3>1. result' = "ok" => result = "ok"
      BY <2>2
    <3> QED
      BY <1>7, <1>k, <2>2, <3>1 DEF Return, api, fixed
  <2> QED
    BY <1>7, <2>1, <2>2 DEF Return
<1>8. CASE Cancel \/ (\E m \in Machines : Boot(m)) \/ UNCHANGED vars
  BY <1>8, <1>k DEF Cancel, Boot, vars, api, fixed, flow
<1> QED
  BY <1>1, <1>2, <1>3, <1>4, <1>5, <1>6, <1>7, <1>8 DEF Next, CallStep, Finished

(* The invariant behind the theorems on success: control, leases, errors,    *)
(* the work on each machine, and what success and the canary stand for.      *)
THEOREM RInvInvariant == Spec => []RInv
<1>1. Init => RInv
  BY TypeInit, LeaseInit, ErrInit, WorkInit, DoneInit DEF RInv
<1>2. RInv /\ [Next]_vars => RInv'
  BY TypeStep, LeaseStep, ErrStep, WorkStep, DoneStep DEF RInv
<1> QED
  BY <1>1, <1>2, PTL DEF Spec

(* With any number of machines, groups and retries, success means that every *)
(* machine that was not replaced has the new configuration and, if it was    *)
(* running, has passed every required check since its last change: what      *)
(* healthChecksPassed remembers never vouches for an earlier incarnation.    *)
THEOREM CheckedOnSuccess == Spec => []SuccessIsChecked
<1>1. RInv => SuccessIsChecked
  BY DEF RInv, TInv, FlowInv, DoneInv, Done, Scope, SuccessIsChecked
<1> QED
  BY <1>1, RInvInvariant, PTL

(* Success also means that every machine a replacement destroyed has got a   *)
(* successor, however many failed attempts lay in between.                   *)
THEOREM KeptOnSuccess == Spec => []SuccessKeepsMachines
<1>1. RInv => SuccessKeepsMachines
  BY DEF RInv, TInv, TypeOK, FlowInv, DoneInv, Done, Scope, SuccessKeepsMachines
<1> QED
  BY <1>1, RInvInvariant, PTL

(* With the canary strategy no other machine is touched before the canary is *)
(* done, and nothing the later call does undoes the canary.                  *)
THEOREM CanaryBeforeOthers == Spec => []CanaryFirst
<1>1. RInv => CanaryFirst
  BY DEF RInv, TInv, TypeOK, DoneInv, Done, CanaryFirst
<1> QED
  BY <1>1, RInvInvariant, PTL

-----------------------------------------------------------------------------
(* Max-unavailable in the first update.  A machine that was running and is   *)
(* down has a goroutine that holds a slot or has failed; a slot is handed    *)
(* out only while no goroutine of the pool has failed.  That a goroutine     *)
(* that succeeded leaves its machine up needs one check that looks at the    *)
(* state (smoke or regular), and a canary's call could have left its machine *)
(* replaced, to be created anew in the main call.                            *)

Required == {"smoke", "regular"} \ Skipped

FirstUpdate == pc \in {"leases", "update"} /\ ~recovering

(* The goroutines of pool p that hold a slot or left a machine down.         *)
Busy(p) ==
    {n \in PoolOf(p) : \/ task[n] \in Running
                       \/ task[n] = "err" /\ orig[n] = "started" /\ state[n] # "started"}

Avail(m) ==
    /\ orig[m] = "started" /\ state[m] # "started" => task[m] \in Running \union {"err"}
    /\ task[m] \in {"lease", "noLease", "todo", "update", "launch", "lease2", "wait"} =>
           passed[m] = Skipped
    /\ task[m] = "check" /\ passed[m] \intersect Required # {} => state[m] = "started"

AvailInv == FirstUpdate => \A m \in Machines : Avail(m)

SlotInv == FirstUpdate => \A p \in Pools : Cardinality(Busy(p)) <= poolSize(p)

LEMMA PoolFinite ==
    ASSUME TypeOK, NEW p
    PROVE  /\ IsFiniteSet(PoolOf(p)) /\ Cardinality(PoolOf(p)) \in Nat
           /\ poolSize(p) \in Nat
           /\ \A S \in SUBSET PoolOf(p) : IsFiniteSet(S) /\ Cardinality(S) \in Nat
<1>1. PoolOf(p) \subseteq Machines
  BY ScopeIn DEF PoolOf
<1>2. IsFiniteSet(PoolOf(p)) /\ Cardinality(PoolOf(p)) \in Nat
  BY <1>1, RecoveryAssumption, FS_Subset, FS_CardinalityType
<1>3. getPoolSize(Cardinality(PoolOf(p))) \in Nat
  <2>1. ASSUME NEW n \in Nat PROVE n * MaxUnavailable \in Nat
    BY <2>1, RecoveryAssumption
  <2> DEFINE k == Cardinality(PoolOf(p)) * MaxUnavailable
  <2>2. k \in Nat
    BY <1>2, <2>1
  <2> HIDE DEF k
  <2>3. (k + 99) \div 100 \in Nat
    BY <2>2
  <2>4. MaxUnavailable \div 100 \in Nat
    BY RecoveryAssumption
  <2> QED
    BY <2>3, <2>4 DEF getPoolSize, k
<1>4. poolSize(p) \in Nat
  BY <1>2, <1>3 DEF poolSize, StoppedMachinesPoolSize
<1>5. \A S \in SUBSET PoolOf(p) : IsFiniteSet(S) /\ Cardinality(S) \in Nat
  BY <1>2, FS_Subset, FS_CardinalityType
<1> QED
  BY <1>2, <1>4, <1>5

LEMMA SlotsKept ==
    ASSUME TypeOK, FirstUpdate, SlotInv, UNCHANGED <<fixed, phase>>,
           \A p \in Pools : Busy(p)' \subseteq Busy(p)
    PROVE  SlotInv'
<1>1. \A p : PoolOf(p)' = PoolOf(p) /\ poolSize(p)' = poolSize(p)
  BY DEF PoolOf, Scope, Pool, isWarm, poolSize, fixed
<1>2. ASSUME NEW p \in Pools PROVE Cardinality(Busy(p)') <= poolSize(p)
  <2>1. IsFiniteSet(Busy(p)) /\ Cardinality(Busy(p)) \in Nat /\ poolSize(p) \in Nat
    BY PoolFinite DEF Busy
  <2>2. Cardinality(Busy(p)') \in Nat /\ Cardinality(Busy(p)') <= Cardinality(Busy(p))
    BY <2>1, FS_Subset, FS_CardinalityType
  <2>3. Cardinality(Busy(p)) <= poolSize(p)
    BY DEF SlotInv
  <2> QED
    BY <2>1, <2>2, <2>3
<1> QED
  BY <1>1, <1>2 DEF SlotInv

LEMMA AvailTask ==
    ASSUME Required # {}, TypeOK, NEW m \in Machines, Avail(m), TaskStep(m)
    PROVE  Avail(m)'
<1>o. UNCHANGED orig
  BY TaskMoves DEF fixed
<1>r. Skipped \intersect Required = {}
  BY DEF Required
<1>1. CASE StartTask(m)
  <2>1. task'[m] \in {"err", "update"}
    BY <1>1, FinishTask, GoToTask DEF StartTask, NoErr
  <2> QED
    BY <1>o, <1>1, <2>1 DEF StartTask, Avail, Running, api
<1>2. CASE UpdateInPlace(m) \/ DestroyOld(m) \/ LaunchReplacement(m) \/ CreateMachine(m)
           \/ LeaseCreated(m)
  <2>1. task[m] \in {"update", "launch", "lease2"} /\ UNCHANGED passed
    BY <1>2 DEF UpdateInPlace, DestroyOld, LaunchReplacement, CreateMachine, LeaseCreated
  <2>2. passed'[m] = Skipped
    BY <2>1 DEF Avail
  <2>3. task'[m] \in {"err", "launch", "lease2", "wait", "check"}
    <3>1. CASE UpdateInPlace(m)
      BY <3>1, FailTask, GoToTask, AfterUpdateIn DEF UpdateInPlace
    <3>2. CASE DestroyOld(m)
      BY <3>2, FailTask, GoToTask DEF DestroyOld
    <3>3. CASE LaunchReplacement(m)
      BY <3>3, FailTask, GoToTask, AfterUpdateIn DEF LaunchReplacement
    <3>4. CASE CreateMachine(m)
      BY <3>4, FailTask, GoToTask DEF CreateMachine
    <3>5. CASE LeaseCreated(m)
      BY <3>5, FailTask, GoToTask, AfterUpdateIn DEF LeaseCreated
    <3> QED
      BY <1>2, <3>1, <3>2, <3>3, <3>4, <3>5
  <2> QED
    BY <1>r, <2>2, <2>3 DEF Avail, Running
<1>3. CASE WaitForMachineState(m)
  <2>1. task[m] = "wait" /\ UNCHANGED <<passed, state>>
    BY <1>3 DEF WaitForMachineState, api
  <2>2. task'[m] \in {"err", "check"}
    BY <1>3, FailTask, GoToTask DEF WaitForMachineState
  <2> QED
    BY <1>r, <2>1, <2>2 DEF Avail, Running
<1>4. CASE RunChecks(m)
  <2>1. task[m] = "check" /\ UNCHANGED state
    BY <1>4 DEF RunChecks
  <2>2. CASE checksDone(m) /\ Finish(m, NoErr) /\ UNCHANGED <<checked, passed>>
    <3>1. task'[m] = "ok"
      BY <2>2, FinishTask
    <3>2. passed[m] = Checks => state[m] = "started"
      BY <2>1 DEF Avail, Required, Checks
    <3>3. orig[m] = "started" => state[m] = "started"
      BY <2>2, <3>2 DEF checksDone, skipLaunch
    <3> QED
      BY <1>o, <2>1, <3>1, <3>3 DEF Avail
  <2>3. CASE /\ nextCheck(m) = "machine" \/ state[m] = "started"
             /\ passed' = remember(m)
             /\ UNCHANGED <<task, errs>>
    <3>1. passed'[m] = passed[m] \union {nextCheck(m)}
      BY <2>3 DEF remember, TypeOK
    <3>2. "machine" \notin Required
      BY DEF Required
    <3> QED
      BY <1>o, <2>1, <2>3, <3>1, <3>2 DEF Avail, Running
  <2>4. CASE Finish(m, "unrecoverable") /\ UNCHANGED <<checked, passed>>
    <3>1. task'[m] = "err"
      BY <2>4, FinishTask DEF NoErr
    <3> QED
      BY <3>1 DEF Avail
  <2> QED
    BY <1>4, <2>2, <2>3, <2>4 DEF RunChecks
<1> QED
  BY <1>1, <1>2, <1>3, <1>4 DEF TaskStep

(* The first update ends for good: no call but a canary's starts another.    *)
LEMMA FirstOnly ==
    ASSUME ~Canary, TInv, [Next]_vars, FirstUpdate'
    PROVE  FirstUpdate
<1>1. phase = "main"
  BY DEF TInv, FlowInv
<1>2. ASSUME NEW m \in Machines, TaskStep(m) PROVE FirstUpdate
  BY <1>2, TaskMoves DEF FirstUpdate, flow
<1>3. CASE Cancel \/ (\E m \in Machines : Boot(m) \/ AcquireLease(m) \/ ReleaseLease(m))
           \/ UNCHANGED vars
  BY <1>3 DEF Cancel, Boot, AcquireLease, ReleaseLease, FirstUpdate, flow, vars
<1>4. CASE AcquireDone \/ UpdateSucceeds \/ UpdateFails \/ GiveUp
  BY <1>4 DEF AcquireDone, UpdateSucceeds, UpdateFails, GiveUp, Unwind, FirstUpdate
<1>5. CASE Retry
  BY <1>5 DEF Retry, Unwind, FirstUpdate
<1>6. CASE Return
  BY <1>1, <1>6 DEF Return, FirstUpdate
<1> QED
  BY <1>2, <1>3, <1>4, <1>5, <1>6 DEF Next, CallStep, Finished

(* The steps of the first update that are not steps of a task.               *)
LEMMA FirstOther ==
    ASSUME ~Canary, TInv, [Next]_vars, FirstUpdate', ~\E m \in Machines : TaskStep(m)
    PROVE  /\ UNCHANGED <<fixed, phase, passed>>
           /\ \/ UNCHANGED state
              \/ \E m \in Machines : state[m] = "updating"
                                    /\ \A n \in Machines \ {m} : state'[n] = state[n]
           /\ \A n \in Machines :
                 \/ task'[n] = task[n]
                 \/ /\ task[n] \in {"lease", "noLease"}
                    /\ task'[n] \in {"lease", "noLease", "todo"}
                    /\ state'[n] = state[n]
<1>1. phase = "main" /\ FirstUpdate
  BY FirstOnly DEF TInv, FlowInv
<1>2. CASE Cancel \/ UNCHANGED vars
  BY <1>2 DEF Cancel, vars, api, flow
<1>3. ASSUME NEW m \in Machines, Boot(m) PROVE
           /\ UNCHANGED <<fixed, phase, passed, task>>
           /\ state[m] = "updating" /\ \A n \in Machines \ {m} : state'[n] = state[n]
  BY <1>3 DEF Boot, TInv, TypeOK, flow
<1>4. ASSUME NEW m \in Machines, AcquireLease(m) PROVE
           /\ UNCHANGED <<fixed, phase, passed, state>>
           /\ \A n \in Machines : \/ task'[n] = task[n]
                                  \/ task[n] = "lease" /\ task'[n] \in {"noLease", "todo"}
  BY <1>4 DEF AcquireLease, TInv, TypeOK, api, flow
<1>5. CASE AcquireDone
  BY <1>5 DEF AcquireDone, api
<1>6. ASSUME NEW m \in Machines, ReleaseLease(m) PROVE FALSE
  BY <1>1, <1>6 DEF ReleaseLease, FirstUpdate
<1>7. ASSUME UpdateSucceeds \/ UpdateFails \/ GiveUp \/ Retry PROVE FALSE
  BY <1>7 DEF UpdateSucceeds, UpdateFails, GiveUp, Retry, Unwind, FirstUpdate
<1>8. ASSUME Return PROVE FALSE
  BY <1>1, <1>8 DEF Return, FirstUpdate
<1> QED
  BY <1>2, <1>3, <1>4, <1>5, <1>6, <1>7, <1>8 DEF Next, CallStep, Finished

LEMMA AvailInit == Init => AvailInv
BY DEF Init, AvailInv, Avail

LEMMA AvailStep ==
    ASSUME ~Canary, Required # {}, TInv, AvailInv, [Next]_vars PROVE AvailInv'
<1> SUFFICES ASSUME FirstUpdate', NEW n \in Machines PROVE Avail(n)'
  BY DEF AvailInv
<1>1. FirstUpdate /\ Avail(n)
  BY FirstOnly DEF AvailInv
<1>2. ASSUME NEW m \in Machines, TaskStep(m) PROVE Avail(n)'
  <2>1. CASE n = m
    BY <1>1, <1>2, <2>1, AvailTask DEF TInv
  <2>2. CASE n # m
    <3>1. Same(n) /\ UNCHANGED orig
      BY <1>2, <2>2, TaskSame, TaskMoves, TypeParts DEF fixed, TInv
    <3>2. task'[n] = task[n]
      BY <1>2, <2>2, TaskMoves, MovesTask DEF TypeOK, TInv
    <3> QED
      BY <1>1, <3>1, <3>2 DEF Avail, Same
  <2> QED
    BY <2>1, <2>2
<1>3. CASE ~\E m \in Machines : TaskStep(m)
  <2>1. UNCHANGED <<orig, passed>>
    BY <1>3, FirstOther DEF fixed
  <2>2. state'[n] = state[n] \/ state[n] = "updating"
    BY <1>3, FirstOther
  <2>3. CASE task'[n] = task[n]
    BY <1>1, <2>1, <2>2, <2>3 DEF Avail
  <2>4. CASE /\ task[n] \in {"lease", "noLease"}
             /\ task'[n] \in {"lease", "noLease", "todo"}
             /\ state'[n] = state[n]
    BY <1>1, <2>1, <2>4 DEF Avail, Running
  <2> QED
    BY <1>3, <2>3, <2>4, FirstOther
<1> QED
  BY <1>2, <1>3

LEMMA SlotInit == Init => SlotInv
<1> SUFFICES ASSUME Init, NEW p \in Pools PROVE Cardinality(Busy(p)) <= poolSize(p)
  BY DEF SlotInv
<1>1. Busy(p) = {}
  BY DEF Init, Busy, PoolOf, Scope, Running
<1>2. poolSize(p) \in Nat
  BY PoolFinite, TypeInit DEF TInv
<1> QED
  BY <1>1, <1>2, FS_EmptySet

(* A slot is handed out: the pool had a free one and no failed goroutine.    *)
LEMMA SlotStart ==
    ASSUME TInv, ErrInv, FirstUpdate, SlotInv, NEW m \in Scope, StartTask(m), ~gCtxDone(m)
    PROVE  SlotInv'
<1>0. UNCHANGED <<fixed, phase, state>> /\ pc = "update" /\ task' = [task EXCEPT ![m] = "update"]
  BY DEF StartTask, GoTo, flow, api
<1>1. /\ \A q : PoolOf(q)' = PoolOf(q) /\ poolSize(q)' = poolSize(q)
      /\ Scope \subseteq Machines
  BY <1>0, ScopeIn DEF PoolOf, Scope, Pool, isWarm, poolSize, fixed, TInv
<1>2. \A n \in Machines : task'[n] = IF n = m THEN "update" ELSE task[n]
  BY <1>0 DEF TInv, TypeOK
<1>3. \A n \in PoolOf(Pool(m)) : task[n] # "err"
  BY <1>0 DEF gCtxDone, ErrInv, TaskErr, PoolOf
<1> DEFINE Old == {n \in PoolOf(Pool(m)) : task[n] \in Running}
<1>4. Cardinality(Old) < poolSize(Pool(m)) /\ task[m] = "todo"
  BY DEF StartTask
<1>5. Busy(Pool(m))' = Old \union {m}
  <2>1. \A n \in PoolOf(Pool(m)) : n \in Machines /\ task'[n] # "err"
    BY <1>1, <1>2, <1>3 DEF PoolOf
  <2>2. m \in PoolOf(Pool(m)) /\ task'[m] \in Running
    BY <1>1, <1>2 DEF PoolOf, Running
  <2>3. \A n \in PoolOf(Pool(m)) : n # m => task'[n] = task[n]
    BY <1>2, <2>1
  <2>4. Pool(m)' = Pool(m)
    BY <1>0 DEF Pool, isWarm, fixed
  <2> QED
    BY <1>1, <2>1, <2>2, <2>3, <2>4 DEF Busy
<1>6. Cardinality(Busy(Pool(m))') <= poolSize(Pool(m))
  <2>1. IsFiniteSet(Old) /\ Cardinality(Old) \in Nat /\ poolSize(Pool(m)) \in Nat
    BY PoolFinite DEF TInv
  <2>2. m \notin Old
    BY <1>4 DEF Running
  <2>3. Cardinality(Old \union {m}) = Cardinality(Old) + 1
    BY <2>1, <2>2, FS_AddElement
  <2> HIDE DEF Old
  <2> QED
    BY <1>4, <1>5, <2>1, <2>3
<1>7. ASSUME NEW q \in Pools, q # Pool(m) PROVE Cardinality(Busy(q)') <= poolSize(q)
  <2>1. \A n \in PoolOf(q) : n \in Machines /\ n # m
    BY <1>1, <1>7 DEF PoolOf
  <2>2. Busy(q)' = Busy(q)
    BY <1>0, <1>1, <1>2, <2>1 DEF Busy, fixed
  <2> QED
    BY <2>2 DEF SlotInv
<1>8. Pool(m)' = Pool(m)
  BY <1>0 DEF Pool, isWarm, fixed
<1> QED
  BY <1>1, <1>6, <1>7, <1>8 DEF SlotInv

LEMMA SlotStep ==
    ASSUME ~Canary, Required # {}, TInv, ErrInv, AvailInv, SlotInv, [Next]_vars
    PROVE  SlotInv'
<1> SUFFICES ASSUME FirstUpdate' PROVE SlotInv'
  BY DEF SlotInv
<1>1. FirstUpdate /\ TypeOK /\ Scope \subseteq Machines
  BY FirstOnly, ScopeIn DEF TInv
<1>k. ASSUME UNCHANGED <<fixed, phase>>,
             \A n \in Scope : \/ task'[n] \notin Running \union {"err"}
                              \/ task[n] \in Running
                              \/ task'[n] = "err" /\ (orig[n] = "started" => state'[n] = "started")
                              \/ task'[n] = task[n] /\ (state'[n] = state[n] \/ state[n] = "updating")
      PROVE  SlotInv'
  <2>1. \A p : PoolOf(p)' = PoolOf(p)
    BY <1>k DEF PoolOf, Scope, Pool, isWarm, fixed
  <2>2. \A p : PoolOf(p) \subseteq Scope
    BY DEF PoolOf
  <2>3. \A p \in Pools : Busy(p)' \subseteq Busy(p)
    BY <1>k, <2>1, <2>2 DEF Busy, Running, fixed
  <2> QED
    BY <1>1, <1>k, <2>3, SlotsKept
<1>2. ASSUME NEW m \in Machines, TaskStep(m) PROVE SlotInv'
  <2>1. m \in Scope /\ UNCHANGED <<fixed, phase>>
    BY <1>2, TaskActive, TaskMoves DEF TInv, flow
  <2>2. \A n \in Scope : n # m => task'[n] = task[n] /\ state'[n] = state[n]
    <3>1. \A n \in Machines \ {m} : state'[n] = state[n]
      BY <1>2, TaskSame, TypeParts DEF TInv, Same
    <3> QED
      BY <1>1, <1>2, <3>1, TaskMoves, MovesTask DEF TypeOK
  <2>3. CASE task[m] \in Running
    BY <1>k, <2>1, <2>2, <2>3
  <2>4. CASE StartTask(m) /\ ~gCtxDone(m)
    BY <1>1, <2>1, <2>4, SlotStart
  <2>5. CASE StartTask(m) /\ gCtxDone(m)
    <3>1. task'[m] = "err" /\ task[m] = "todo" /\ UNCHANGED state
      BY <1>1, <2>5, FinishTask DEF StartTask, NoErr, api
    <3>2. orig[m] = "started" => state[m] = "started"
      BY <1>1, <3>1 DEF AvailInv, Avail, Running
    <3> QED
      BY <1>k, <2>1, <2>2, <3>1, <3>2 DEF Running
  <2>6. StartTask(m) \/ task[m] \in Running
    BY <1>2 DEF TaskStep, UpdateInPlace, DestroyOld, LaunchReplacement, CreateMachine,
                LeaseCreated, WaitForMachineState, RunChecks, Running
  <2> QED
    BY <2>3, <2>4, <2>5, <2>6
<1>3. CASE ~\E m \in Machines : TaskStep(m)
  <2>1. UNCHANGED <<fixed, phase>>
    BY <1>3, FirstOther
  <2>2. ASSUME NEW n \in Scope
        PROVE  \/ task'[n] = task[n] /\ (state'[n] = state[n] \/ state[n] = "updating")
               \/ task'[n] \notin Running \union {"err"}
    BY <1>1, <1>3, FirstOther DEF Running
  <2> QED
    BY <1>k, <2>1, <2>2
<1> QED
  BY <1>2, <1>3

(* Without a canary, and as long as one check that looks at the machine's    *)
(* state is required, the first update never has more running machines of a  *)
(* group down than max-unavailable allows, for any number of machines: a     *)
(* slot of the pool is only handed out while no goroutine of it has failed.  *)
THEOREM FirstUpdateKeepsBound ==
    ASSUME ~Canary, ~({"smoke", "regular"} \subseteq Skipped)
    PROVE  Spec => []FirstUpdateBounded
<1>0. Required # {}
  BY DEF Required
<1> DEFINE BInv == TInv /\ ErrInv /\ AvailInv /\ SlotInv
<1>1. Init => BInv
  BY TypeInit, ErrInit, AvailInit, SlotInit
<1>2. BInv /\ [Next]_vars => BInv'
  BY <1>0, TypeStep, ErrStep, AvailStep, SlotStep
<1>3. BInv => FirstUpdateBounded
  <2> SUFFICES ASSUME BInv, pc = "update", ~recovering, NEW g \in Groups PROVE Bounded(g)
    BY DEF FirstUpdateBounded
  <2> DEFINE p == <<g, TRUE>>
  <2>1. Scope = Machines /\ FirstUpdate /\ p \in Pools
    BY DEF TInv, FlowInv, Scope, FirstUpdate, Pools
  <2>2. Unavailable(g) \subseteq Busy(p)
    <3> SUFFICES ASSUME NEW m \in Machines, Group[m] = g, orig[m] = "started", state[m] # "started"
                 PROVE  m \in Busy(p)
      BY DEF Unavailable
    <3>1. m \in PoolOf(p)
      BY <2>1 DEF PoolOf, Pool, isWarm
    <3>2. task[m] \in Running \union {"err"}
      BY <2>1 DEF AvailInv, Avail
    <3> QED
      BY <3>1, <3>2 DEF Busy
  <2>3. IsFiniteSet(Busy(p)) /\ Cardinality(Busy(p)) \in Nat /\ poolSize(p) \in Nat
    BY PoolFinite DEF Busy, TInv
  <2>4. Cardinality(Unavailable(g)) \in Nat /\ Cardinality(Unavailable(g)) <= Cardinality(Busy(p))
    BY <2>2, <2>3, FS_Subset, FS_CardinalityType
  <2>5. Cardinality(Busy(p)) <= poolSize(p)
    BY <2>1 DEF SlotInv
  <2>6. poolSize(p) = getPoolSize(Cardinality(PoolOf(<<g, TRUE>>)))
    BY DEF poolSize
  <2> HIDE DEF p
  <2> QED
    BY <2>3, <2>4, <2>5, <2>6 DEF Bounded
<1> QED
  BY <1>1, <1>2, <1>3, PTL DEF Spec
=============================================================================
