-------------------------- MODULE DeploymentProofs --------------------------
(***************************************************************************)
(* Proofs about the release commands, on their own and as the first stage  *)
(* of a deployment, and about the deployment driver, for any fleet, any    *)
(* set of setups, pools of any size, and any number of log entries.        *)
(***************************************************************************)
EXTENDS Deployment, FiniteSetTheorems, WellFoundedInduction, TLAPS

(* The release commands on their own.                                        *)

LEMMA TypeNext == TypeOK /\ [Next]_vars => TypeOK'
<1> SUFFICES ASSUME TypeOK, [Next]_vars PROVE TypeOK'
  OBVIOUS
<1> USE EntriesAssumption DEF TypeOK, Commands, world, logging
<1>1. CASE Exit
  <2>1. PICK c \in {0, 1} : exitCode' = [exitCode EXCEPT ![command] = c]
    BY <1>1 DEF Exit
  <2> QED BY <1>1, <2>1 DEF Exit
<1>2. CASE AutoDestroy BY <1>2 DEF AutoDestroy
<1>3. CASE Cancel BY <1>3 DEF Cancel
<1>4. CASE DestroyOld
  <2>1. old' \in BOOLEAN
    BY <1>4 DEF DestroyOld
  <2>2. {pc', next'} \subseteq {"create"} \union {pc, next}
    BY <1>4 DEF DestroyOld
  <2> QED BY <1>4, <2>1, <2>2 DEF DestroyOld
<1>5. CASE Create BY <1>5 DEF Create, Assign
<1>6. CASE Start BY <1>6 DEF Start, Assign
<1>7. CASE Test BY <1>7 DEF Test
<1>8. CASE WaitStarted BY <1>8 DEF WaitStarted, Assign
<1>9. CASE WaitDestroyed BY <1>9 DEF WaitDestroyed, Assign
<1>10. CASE WaitEvent BY <1>10 DEF WaitEvent, Assign
<1>11. CASE ExitCode BY <1>11 DEF ExitCode, exitResult
<1>12. CASE Return BY <1>12 DEF Return
<1>13. CASE ReadEntry BY <1>13 DEF ReadEntry
<1>14. CASE Ended BY <1>14 DEF Ended, vars
<1>15. CASE UNCHANGED vars BY <1>15 DEF vars
<1> QED BY <1>1, <1>2, <1>3, <1>4, <1>5, <1>6, <1>7, <1>8, <1>9, <1>10,
           <1>11, <1>12, <1>13, <1>14, <1>15 DEF Next

(* TypeOK is an invariant: every assignment keeps the state in its types.    *)
THEOREM TypeCorrect == Spec => []TypeOK
<1>1. Init => TypeOK
  BY EntriesAssumption DEF Init, TypeOK, Commands
<1> QED BY <1>1, TypeNext, PTL DEF Spec

-----------------------------------------------------------------------------
(* Where the main goroutine is, or will be if err is nil.                    *)
Heading == IF pc = "test" THEN next ELSE pc

(* A test of err leads on to a step of the command, not out of it.           *)
TestLeadsOn == pc = "test" => next \in {"start", "waitStarted", "waitEvent", "exit"}

(* A command's exit code is written once, while its machine runs, and the    *)
(* machine is started once.                                                  *)
CodeWrittenOnce ==
    /\ command = "release" => exitCode["seed"] = -1
    /\ machine \in {"none", "stopped", "started"} => exitCode[command] = -1
    /\ Heading \in {"destroyOld", "create", "start"} =>
          machine \in {"none", "stopped"}

(* The event read is the command's, and unless a log entry was read, err is  *)
(* nil when the function returns only if that event says 0.                  *)
NilMeansZero ==
    /\ event # -1 => event = exitCode[command]
    /\ pc = "defer" /\ err = "nil" /\ entries[command] = 0 => exitCode[command] = 0

Inv == TypeOK /\ TestLeadsOn /\ CodeWrittenOnce /\ NilMeansZero /\ FailureAbortsUnlogged

LEMMA InvInit == Init => Inv
  BY EntriesAssumption DEF Init, Inv, TypeOK, Commands, TestLeadsOn, CodeWrittenOnce,
     NilMeansZero, Heading, FailureAbortsUnlogged, TakenForGood

LEMMA InvNext == Inv /\ TypeOK' /\ [Next]_vars => Inv'
<1> SUFFICES ASSUME Inv, TypeOK', [Next]_vars PROVE Inv'
  OBVIOUS
<1> USE DEF Inv, TypeOK, Commands, TestLeadsOn, CodeWrittenOnce, NilMeansZero,
        Heading, FailureAbortsUnlogged, TakenForGood, world, logging
<1>1. CASE Exit
  <2>1. PICK c \in {0, 1} : exitCode' = [exitCode EXCEPT ![command] = c]
    BY <1>1 DEF Exit
  <2> QED BY <1>1, <2>1 DEF Exit
<1>2. CASE AutoDestroy BY <1>2 DEF AutoDestroy
<1>3. CASE Cancel BY <1>3 DEF Cancel
<1>4. CASE DestroyOld BY <1>4 DEF DestroyOld
<1>5. CASE Create BY <1>5 DEF Create, Assign
<1>6. CASE Start BY <1>6 DEF Start, Assign
<1>7. CASE Test BY <1>7 DEF Test
<1>8. CASE WaitStarted BY <1>8 DEF WaitStarted, Assign
<1>9. CASE WaitDestroyed BY <1>9 DEF WaitDestroyed, Assign
<1>10. CASE WaitEvent BY <1>10 DEF WaitEvent, Assign
<1>11. CASE ExitCode BY <1>11 DEF ExitCode, exitResult
<1>12. CASE Return BY <1>12 DEF Return
<1>13. CASE ReadEntry BY <1>13, EntriesAssumption DEF ReadEntry
<1>14. CASE Ended BY <1>14 DEF Ended, vars
<1>15. CASE UNCHANGED vars BY <1>15 DEF vars
<1> QED BY <1>1, <1>2, <1>3, <1>4, <1>5, <1>6, <1>7, <1>8, <1>9, <1>10,
           <1>11, <1>12, <1>13, <1>14, <1>15 DEF Next

(* As long as no log entry of a command was read, the deployment goes on     *)
(* only if that command exited with status 0, whatever the order of waits,   *)
(* errors, cancellation and the machine's own end.                           *)
THEOREM UnloggedFailureAborts == Spec => []FailureAbortsUnlogged
<1>1. Inv => FailureAbortsUnlogged
  BY DEF Inv
<1> QED BY InvInit, InvNext, TypeCorrect, <1>1, PTL DEF Spec

-----------------------------------------------------------------------------
(* The deployment driver: its inductive invariant.                           *)

(* The types, without what DeployTypeOK says of tasks under way.             *)
DTypes ==
    /\ setup \in Setups
    /\ stage \in {"configure", "running", "push", "release", "canary", "remove", "destroy", "create",
                  "lease", "update", "status", "finalize", "done", "panic"}
    /\ status \in {"pending", "running", "complete", "interrupted", "failed"}
    /\ tries \in 1 .. StatusAttempts
    /\ gaveUp \in BOOLEAN
    /\ bucket \in {"none", "aborted", "pushed", "deleted"}
    /\ mset \subseteq Machines
    /\ cfg \in [Machines -> {"old", "new", "none"}]
    /\ created \in [Groups -> 0 .. 2]
    /\ canary \in [Groups -> {"none", "created", "destroyed", "left", "failed"}]
    /\ task \in [Machines -> {"todo"} \cup Running \cup Over]
    /\ batchErr \in [Batches -> Errors]
    /\ batchDone \subseteq Batches
    /\ groupErr \in [Groups -> Errors]
    /\ groupDone \subseteq Groups
    /\ derr \in Errors

(* The release commands run from their initial state, and what they have     *)
(* reported stays true when their variables are gone.                        *)
ReleaseInv ==
    /\ TypeOK /\ FailureAbortsUnlogged
    /\ stage \in {"configure", "running", "push", "release"} => Inv

(* The machines that are to be updated, once those of removed groups are     *)
(* out.                                                                      *)
toUpdate ==
    IF setup.restartOnly THEN setup.selected
    ELSE {m \in setup.selected : Group[m] \in InConfig}

(* What is achieved by the time a stage is reached.                          *)
FleetInv ==
    /\ stage \in {"configure", "running", "push", "release", "canary", "remove"} =>
           mset = setup.selected
    /\ stage \in {"destroy", "create", "lease", "update"} => mset = toUpdate
    /\ setup.restartOnly => stage \notin {"release", "canary", "remove", "destroy", "create"}
    /\ stage \in {"configure", "running", "push", "release"} => \A g \in InConfig : canary[g] = "none"
    /\ stage \in {"remove", "destroy", "create", "lease", "update"} =>
           \A g \in InConfig : canary[g] # "failed"
    /\ stage \in {"create", "lease", "update"} /\ ~setup.restartOnly =>
           \A m \in machinesToRemove : cfg[m] = "none"
    /\ stage \in {"lease", "update"} /\ ~setup.restartOnly /\ ~setup.updateOnly =>
           \A g \in groupsNeedingMachines : created[g] = wanted(g)

(* Nothing is updated before its stage.                                      *)
Idle ==
    /\ \A m \in Machines : task[m] = "todo"
    /\ batchDone = {} /\ groupDone = {}

IdleInv == stage \notin {"update", "status", "finalize", "done"} => Idle

(* What the state of a machine's update says of the machine, of its batch,   *)
(* and of the batch's first machine.                                         *)
TaskInv ==
    \A m \in Machines :
        /\ task[m] # "todo" => m \in mset
        /\ task[m] \in {"waiting", "ok"} => cfg[m] = "new"
        /\ task[m] \in {"failed", "skipped"} => batchErr[batchOf(m)] # {}

LeadInv ==
    ~immediate =>
        \A m \in mset : m # spearhead(batchOf(m)) /\ task[spearhead(batchOf(m))] # "ok" =>
                            task[m] = "todo"

(* A batch that has returned is over, and without an error it is updated.    *)
DoneInv ==
    /\ \A b \in batchDone : \/ task[spearhead(b)] \in {"failed", "skipped"}
                            \/ \A m \in machinesIn(b) : task[m] \in Over
    /\ \A b \in batchDone : groupErr[b[1]] = {} => \A m \in machinesIn(b) : task[m] = "ok"
    /\ \A g \in groupDone : \A b \in Batches : b[1] = g /\ machinesIn(b) # {} => b \in batchDone

(* The machines of a batch that are down, for good or for a while.           *)
Down(b) == {m \in machinesIn(b) : task[m] \in Running \cup {"failed"}}

SlotInv ==
    ~immediate =>
        \A b \in Batches : machinesIn(b) # {} /\ task[spearhead(b)] = "ok" =>
            Cardinality(Down(b)) <= poolSize(b)

RunningInv == \A m \in Machines : task[m] \in Running => stage = "update"

(* What CompleteIsDeployed says of a complete release.                       *)
Deployed ==
    /\ \A m \in setup.selected :
        IF setup.restartOnly \/ Group[m] \in InConfig THEN cfg[m] = "new"
        ELSE cfg[m] = "none"
    /\ ~setup.restartOnly /\ ~setup.updateOnly =>
        \A g \in groupsNeedingMachines : created[g] = wanted(g)
    /\ \A g \in InConfig : canary[g] # "failed"

(* A deployment that ends without an error has deployed, and its status says *)
(* so.                                                                       *)
StatusInv ==
    /\ status = "complete" => stage \in {"status", "finalize", "done"} /\ derr = {}
    /\ stage \in {"status", "finalize", "done"} /\ derr = {} => Deployed
    /\ stage = "finalize" /\ status \in {"pending", "running"} => gaveUp
    /\ ReleaseSettled

UpdateInv == TaskInv /\ LeadInv /\ DoneInv /\ SlotInv /\ RunningInv

DInv == DTypes /\ ReleaseInv /\ FleetInv /\ IdleInv /\ UpdateInv /\ StatusInv

-----------------------------------------------------------------------------
(* The first machine of a batch exists: IDs are ordered.                     *)

Lead(S) == CHOOSE m \in S : \A n \in S : m <= n

LEMMA LeadExists ==
    ASSUME NEW S, S \subseteq Machines, S # {} PROVE Lead(S) \in S
<1>1. S \subseteq Nat
  BY DeploymentAssumption
<1>2. PICK m \in S : \A n \in S : ~(<<n, m>> \in OpToRel(<, Nat))
  BY <1>1, NatLessThanWellFounded, WFMin
<1>3. \A n \in S : m <= n
  <2> SUFFICES ASSUME NEW n \in S PROVE m <= n
    OBVIOUS
  <2>1. m \in Nat /\ n \in Nat
    BY <1>1
  <2>2. ~(n < m)
    BY <1>2, <2>1 DEF OpToRel
  <2> QED
    BY <2>1, <2>2
<1> QED
  BY <1>3 DEF Lead

LEMMA LeadIn ==
    ASSUME mset \subseteq Machines, NEW b, machinesIn(b) # {}
    PROVE  spearhead(b) \in machinesIn(b)
<1>1. spearhead(b) = Lead(machinesIn(b))
  BY DEF spearhead, Lead
<1> QED
  BY <1>1, LeadExists DEF machinesIn

LEMMA BatchIn ==
    ASSUME NEW m \in Machines
    PROVE  batchOf(m) \in Batches /\ Group[m] \in Groups /\ batchOf(m)[1] = Group[m]
BY DEF batchOf, Batches, Groups

LEMMA BatchFinite ==
    ASSUME mset \subseteq Machines, NEW b
    PROVE  /\ poolSize(b) \in Nat
           /\ \A S \in SUBSET machinesIn(b) : IsFiniteSet(S) /\ Cardinality(S) \in Nat
<1>1. machinesIn(b) \subseteq Machines
  BY DEF machinesIn
<1>2. \A S \in SUBSET machinesIn(b) : IsFiniteSet(S) /\ Cardinality(S) \in Nat
  BY <1>1, DeploymentAssumption, FS_Subset, FS_CardinalityType
<1>3. Cardinality(machinesIn(b)) \in Nat
  BY <1>2
<1> DEFINE k == Cardinality(machinesIn(b)) * MaxUnavailable
<1>4. k \in Nat
  <2>1. ASSUME NEW n \in Nat PROVE n * MaxUnavailable \in Nat
    BY <2>1, DeploymentAssumption
  <2> QED
    BY <1>3, <2>1
<1> HIDE DEF k
<1>5. (k + 99) \div 100 \in Nat /\ MaxUnavailable \div 100 \in Nat
  BY <1>4, DeploymentAssumption
<1>6. getPoolSize(Cardinality(machinesIn(b))) \in Nat
  BY <1>5 DEF getPoolSize, k
<1> QED
  BY <1>2, <1>3, <1>6 DEF poolSize, StoppedMachinesPoolSize

-----------------------------------------------------------------------------
(* The initial state.                                                        *)

LEMMA DInit == DeployInit => DInv
<1> SUFFICES ASSUME DeployInit PROVE DInv
  OBVIOUS
<1>s. setup \in Setup /\ setup.selected \subseteq Machines
  BY DeploymentAssumption DEF DeployInit, Setup
<1>1. DTypes
  <2>1. tries \in 1 .. StatusAttempts /\ created \in [Groups -> 0 .. 2]
    BY DeploymentAssumption DEF DeployInit
  <2>2. /\ cfg \in [Machines -> {"old", "new", "none"}]
        /\ canary \in [Groups -> {"none", "created", "destroyed", "left", "failed"}]
        /\ task \in [Machines -> {"todo"} \cup Running \cup Over]
    BY DEF DeployInit
  <2>3. /\ batchErr \in [Batches -> Errors] /\ groupErr \in [Groups -> Errors]
        /\ derr \in Errors
    BY DEF DeployInit, Errors
  <2> QED
    BY <1>s, <2>1, <2>2, <2>3 DEF DeployInit, DTypes
<1>2. ReleaseInv
  BY InvInit DEF DeployInit, ReleaseInv, Inv
<1>3. FleetInv
  BY DEF DeployInit, FleetInv, Groups
<1>4. IdleInv
  BY DEF DeployInit, IdleInv, Idle
<1>5. UpdateInv
  <2>1. TaskInv /\ RunningInv
    BY DEF DeployInit, TaskInv, RunningInv, Running
  <2>2. LeadInv
    BY <1>s DEF DeployInit, LeadInv
  <2>3. DoneInv
    BY DEF DeployInit, DoneInv
  <2>4. SlotInv
    BY <1>s, LeadIn DEF DeployInit, SlotInv, machinesIn
  <2> QED
    BY <2>1, <2>2, <2>3, <2>4 DEF UpdateInv
<1>6. StatusInv
  BY DEF DeployInit, StatusInv, ReleaseSettled
<1> QED
  BY <1>1, <1>2, <1>3, <1>4, <1>5, <1>6 DEF DInv

-----------------------------------------------------------------------------
(* Types.                                                                    *)

LEMMA CausesIn == causes \subseteq Errors \ {{}} /\ {"failed"} \in Errors \ {{}}
BY DEF causes, Errors

LEMMA StatusTypes ==
    ASSUME DTypes, NEW s \in {"running", "complete", "interrupted", "failed"}, NEW c, NEW on, NEW off,
           updateRelease(s, c, on, off)
    PROVE  /\ status' \in {"pending", "running", "complete", "interrupted", "failed"}
           /\ tries' \in 1 .. StatusAttempts /\ gaveUp' \in BOOLEAN
           /\ stage' \in {stage, on, off}
<1>1. StatusAttempts \in Nat \ {0}
  BY DeploymentAssumption
<1>2. tries' \in 1 .. StatusAttempts
  BY <1>1 DEF updateRelease, DTypes
<1> QED
  BY <1>2 DEF updateRelease, DTypes

LEMMA TaskFailsType ==
    ASSUME DTypes, NEW m \in Machines, NEW E, E \subseteq Errors, taskFails(m, E)
    PROVE  /\ batchErr' \in [Batches -> Errors]
           /\ task' \in [Machines -> {"todo"} \cup Running \cup Over]
<1>1. task' = [task EXCEPT ![m] = "failed"]
  BY DEF taskFails, setTask
<1>2. PICK e \in E : batchErr' = [batchErr EXCEPT ![batchOf(m)] = @ \cup e]
  BY DEF taskFails
<1>3. batchErr[batchOf(m)] \cup e \in Errors
  BY BatchIn DEF DTypes, Errors
<1>4. batchErr' \in [Batches -> Errors]
  BY <1>2, <1>3 DEF DTypes
<1> QED
  BY <1>1, <1>4 DEF DTypes, Over

LEMMA TaskErrorsIn == ASSUME NEW m PROVE taskErrors(m) \subseteq Errors \ {{}}
BY DEF taskErrors, Errors

LEMMA TypesStep == DTypes /\ [DeployNext]_allVars => DTypes'
<1> SUFFICES ASSUME DTypes, [DeployNext]_allVars PROVE DTypes'
  OBVIOUS
<1> USE DEF backend, fleet, update
<1>1. CASE Configure
  BY <1>1, CausesIn DEF Configure, DTypes
<1>2. CASE SetRunning
  <2>1. stage' \in {stage, "push", "done"} /\ tries' \in 1 .. StatusAttempts /\ gaveUp' \in BOOLEAN
        /\ status' \in {"pending", "running", "complete", "interrupted", "failed"}
    BY <1>2, StatusTypes DEF SetRunning
  <2>2. derr' \in Errors
    BY <1>2, CausesIn DEF SetRunning, DTypes
  <2> QED
    BY <1>2, <2>1, <2>2 DEF SetRunning, DTypes
<1>3. CASE Push
  BY <1>3, CausesIn DEF Push, afterPush, DTypes
<1>4. CASE RunReleaseCommands
  BY <1>4 DEF RunReleaseCommands, deploy, DTypes
<1>5. CASE ReleaseCommandsReturn
  BY <1>5, CausesIn DEF ReleaseCommandsReturn, fail, DTypes
<1>6. ASSUME NEW g \in InConfig, SpawnCanary(g) \/ TestCanary(g) PROVE DTypes'
  <2>1. \E c \in {"created", "destroyed", "left", "failed"} : canary' = [canary EXCEPT ![g] = c]
    BY <1>6 DEF SpawnCanary, TestCanary
  <2> QED
    BY <1>6, <2>1 DEF SpawnCanary, TestCanary, DTypes
<1>7. CASE CanariesReturn
  BY <1>7, CausesIn DEF CanariesReturn, fail, DTypes
<1>8. CASE RemoveMachines
  BY <1>8, CausesIn DEF RemoveMachines, DTypes
<1>9. ASSUME NEW m \in Machines, DestroyMachine(m) PROVE DTypes'
  BY <1>9, CausesIn DEF DestroyMachine, fail, DTypes
<1>10. CASE DestroyReturns
  BY <1>10 DEF DestroyReturns, DTypes
<1>11. ASSUME NEW g \in InConfig, CreateMachine(g) PROVE DTypes'
  <2>1. created' \in {created, [created EXCEPT ![g] = @ + 1]} /\ g \in Groups
    BY <1>11 DEF CreateMachine, Groups
  <2>2. created[g] \in 0 .. 2 /\ created[g] < 2
    BY <1>11, <2>1 DEF CreateMachine, DTypes, wanted
  <2>3. created' \in [Groups -> 0 .. 2]
    BY <2>1, <2>2 DEF DTypes
  <2> QED
    BY <1>11, <2>3, CausesIn DEF CreateMachine, fail, DTypes
<1>12. CASE CreateReturns
  BY <1>12 DEF CreateReturns, DTypes
<1>13. CASE AcquireLeases
  BY <1>13, CausesIn DEF AcquireLeases, fail, DTypes
<1>14. ASSUME NEW m \in Machines, BeginUpdate(m) PROVE DTypes'
  <2>1. task' \in {[task EXCEPT ![m] = "skipped"], [task EXCEPT ![m] = "updating"]}
    BY <1>14 DEF BeginUpdate, setTask
  <2>2. batchErr[batchOf(m)] \cup {"canceled"} \in Errors
    BY BatchIn DEF DTypes, Errors
  <2>3. batchErr' \in [Batches -> Errors]
    BY <1>14, <2>2 DEF BeginUpdate, DTypes
  <2> QED
    BY <1>14, <2>1, <2>3 DEF BeginUpdate, DTypes, Running, Over
<1>15. ASSUME NEW m \in Machines, UpdateMachine(m) PROVE DTypes'
  <2>1. batchErr' \in [Batches -> Errors] /\ task' \in [Machines -> {"todo"} \cup Running \cup Over]
    <3>1. CASE taskFails(m, taskErrors(m))
      BY <3>1, TaskFailsType, TaskErrorsIn
    <3>2. CASE setTask(m, IF immediate THEN "ok" ELSE "waiting") /\ UNCHANGED batchErr
      BY <3>2 DEF setTask, DTypes, Running, Over
    <3> QED
      BY <1>15, <3>1, <3>2 DEF UpdateMachine
  <2>2. cfg' \in [Machines -> {"old", "new", "none"}]
    BY <1>15 DEF UpdateMachine, DTypes
  <2> QED
    BY <1>15, <2>1, <2>2 DEF UpdateMachine, DTypes
<1>16. ASSUME NEW m \in Machines, WaitForMachine(m) PROVE DTypes'
  <2>1. batchErr' \in [Batches -> Errors] /\ task' \in [Machines -> {"todo"} \cup Running \cup Over]
    <3>1. CASE taskFails(m, taskErrors(m))
      BY <3>1, TaskFailsType, TaskErrorsIn
    <3>2. CASE setTask(m, "ok") /\ UNCHANGED batchErr
      BY <3>2 DEF setTask, DTypes, Over
    <3> QED
      BY <1>16, <3>1, <3>2 DEF WaitForMachine
  <2> QED
    BY <1>16, <2>1 DEF WaitForMachine, DTypes
<1>17. ASSUME NEW b \in Batches, BatchReturns(b) PROVE DTypes'
  <2>1. groupErr' \in [Groups -> Errors]
    BY <1>17 DEF BatchReturns, DTypes, Batches
  <2> QED
    BY <1>17, <2>1 DEF BatchReturns, DTypes
<1>18. ASSUME NEW g \in Groups, GroupReturns(g) PROVE DTypes'
  BY <1>18 DEF GroupReturns, DTypes
<1>19. CASE UpdateReturns
  <2>1. \A b \in Batches : batchErr[b] \subseteq {"failed", "canceled"}
    BY DEF DTypes, Errors
  <2>2. \A g \in groupDone : groupErr[g] \subseteq {"failed", "canceled"}
    BY DEF DTypes, Errors
  <2>3. derr' \in Errors
    BY <1>19, <2>1, <2>2 DEF UpdateReturns, Errors
  <2> QED
    BY <1>19, <2>3 DEF UpdateReturns, DTypes
<1>20. CASE SetFinal
  <2>0. finalStatus \in {"running", "complete", "interrupted", "failed"}
    BY DEF finalStatus
  <2>1. stage' \in {stage, "finalize"} /\ tries' \in 1 .. StatusAttempts /\ gaveUp' \in BOOLEAN
        /\ status' \in {"pending", "running", "complete", "interrupted", "failed"}
    BY <1>20, <2>0, StatusTypes DEF SetFinal
  <2> QED
    BY <1>20, <2>1 DEF SetFinal, DTypes
<1>21. CASE Finalize
  BY <1>21 DEF Finalize, DTypes
<1>22. CASE CancelDeploy
  BY <1>22 DEF CancelDeploy, deploy, DTypes
<1>23. CASE UNCHANGED allVars
  BY <1>23 DEF allVars, deploy, DTypes
<1> QED
  BY <1>1, <1>2, <1>3, <1>4, <1>5, <1>6, <1>7, <1>8, <1>9, <1>10, <1>11, <1>12, <1>13, <1>14,
     <1>15, <1>16, <1>17, <1>18, <1>19, <1>20, <1>21, <1>22, <1>23
     DEF DeployNext, DeployStep, DeployEnded

-----------------------------------------------------------------------------
(* The release commands as a stage of the deployment.                        *)

LEMMA ReleaseStep == ReleaseInv /\ [DeployNext]_allVars => ReleaseInv'
<1> SUFFICES ASSUME ReleaseInv, [DeployNext]_allVars PROVE ReleaseInv'
  OBVIOUS
<1> DEFINE Early == {"configure", "running", "push", "release"}
<1>u. ASSUME UNCHANGED release, ctx' \in {ctx, "canceled"}, stage' \in Early => stage \in Early
      PROVE  ReleaseInv'
  <2>1. TypeOK' /\ FailureAbortsUnlogged'
    BY <1>u DEF ReleaseInv, TypeOK, FailureAbortsUnlogged, TakenForGood, release
  <2>2. Inv => Inv'
    BY <1>u, <2>1 DEF Inv, TestLeadsOn, CodeWrittenOnce, NilMeansZero, Heading, release
  <2> QED
    BY <1>u, <2>1, <2>2 DEF ReleaseInv
<1>1. CASE RunReleaseCommands
  <2>1. Inv /\ [Next]_vars /\ stage' = stage
    BY <1>1 DEF RunReleaseCommands, ReleaseInv, deploy
  <2> QED
    BY <2>1, TypeNext, InvNext DEF ReleaseInv, Inv
<1>2. CASE ReleaseCommandsReturn
  <2>1. TypeOK'
    BY <1>2 DEF ReleaseCommandsReturn, ReleaseInv, TypeOK
  <2>2. FailureAbortsUnlogged'
    BY <1>2 DEF ReleaseCommandsReturn, ReleaseInv, FailureAbortsUnlogged, TakenForGood
  <2>3. stage' \notin Early
    BY <1>2 DEF ReleaseCommandsReturn, fail
  <2> QED
    BY <2>1, <2>2, <2>3 DEF ReleaseInv
<1>3. CASE Configure \/ Push \/ CanariesReturn \/ RemoveMachines \/ DestroyReturns
           \/ CreateReturns \/ AcquireLeases \/ UpdateReturns \/ Finalize
  BY <1>3, <1>u DEF Configure, Push, CanariesReturn, RemoveMachines, DestroyReturns,
     CreateReturns, AcquireLeases, UpdateReturns, Finalize, fail, vars, release
<1>4. CASE SetRunning \/ SetFinal
  BY <1>4, <1>u DEF SetRunning, SetFinal, updateRelease, vars, release
<1>5. CASE \E g \in InConfig : SpawnCanary(g) \/ TestCanary(g) \/ CreateMachine(g)
  BY <1>5, <1>u DEF SpawnCanary, TestCanary, CreateMachine, fail, vars, release
<1>6. CASE \E m \in Machines : DestroyMachine(m) \/ BeginUpdate(m) \/ UpdateMachine(m)
                              \/ WaitForMachine(m)
  BY <1>6, <1>u DEF DestroyMachine, BeginUpdate, UpdateMachine, WaitForMachine, fail, vars, release
<1>7. CASE (\E b \in Batches : BatchReturns(b)) \/ (\E g \in Groups : GroupReturns(g))
  BY <1>7, <1>u DEF BatchReturns, GroupReturns, vars, release
<1>8. CASE CancelDeploy
  BY <1>8, <1>u DEF CancelDeploy, deploy
<1>9. CASE UNCHANGED allVars
  BY <1>9, <1>u DEF allVars, vars, release, deploy
<1> QED
  BY <1>1, <1>2, <1>3, <1>4, <1>5, <1>6, <1>7, <1>8, <1>9 DEF DeployNext, DeployStep, DeployEnded

-----------------------------------------------------------------------------
(* The stages up to the update.                                              *)

LEMMA FleetStep ==
    DTypes /\ FleetInv /\ IdleInv /\ TaskInv /\ [DeployNext]_allVars => FleetInv'
<1> SUFFICES ASSUME DTypes, FleetInv, IdleInv, TaskInv, [DeployNext]_allVars PROVE FleetInv'
  OBVIOUS
<1> USE DEF backend, fleet, update
<1>x. stage' \in {"status", "finalize", "done", "panic"} => FleetInv'
  BY DEF FleetInv
<1>u. UNCHANGED <<setup, stage, fleet>> => FleetInv'
  BY DEF FleetInv, toUpdate, machinesToRemove, groupsNeedingMachines
<1>1. CASE Configure
  BY <1>1, <1>x DEF Configure, FleetInv
<1>2. CASE SetRunning
  <2>1. stage = "running" /\ stage' \in {stage, "push", "done"} /\ UNCHANGED <<setup, fleet>>
    BY <1>2 DEF SetRunning, updateRelease
  <2> QED
    BY <1>x, <2>1 DEF FleetInv
<1>3. CASE Push
  <2>1. stage = "push" /\ stage' \in {afterPush, "done"} /\ UNCHANGED <<setup, fleet>>
    BY <1>3 DEF Push
  <2>2. mset = setup.selected /\ \A g \in InConfig : canary[g] = "none"
    BY <2>1 DEF FleetInv
  <2> QED
    BY <1>x, <2>1, <2>2 DEF FleetInv, afterPush, toUpdate
<1>4. CASE RunReleaseCommands
  BY <1>4, <1>u DEF RunReleaseCommands, deploy
<1>5. CASE ReleaseCommandsReturn
  BY <1>5, <1>x DEF ReleaseCommandsReturn, fail, FleetInv
<1>6. ASSUME NEW g \in InConfig, SpawnCanary(g) \/ TestCanary(g) PROVE FleetInv'
  BY <1>6 DEF SpawnCanary, TestCanary, FleetInv
<1>7. CASE CanariesReturn
  BY <1>7, <1>x DEF CanariesReturn, fail, FleetInv
<1>8. CASE RemoveMachines
  <2>1. CASE stage' = "destroy"
    BY <1>8, <2>1 DEF RemoveMachines, FleetInv, toUpdate
  <2> QED
    BY <1>8, <1>x, <2>1 DEF RemoveMachines
<1>9. ASSUME NEW m \in Machines, DestroyMachine(m) PROVE FleetInv'
  <2>1. CASE UNCHANGED stage
    BY <1>9, <2>1 DEF DestroyMachine, FleetInv, toUpdate
  <2> QED
    BY <1>9, <1>x, <2>1 DEF DestroyMachine, fail
<1>10. CASE DestroyReturns
  BY <1>10 DEF DestroyReturns, FleetInv, toUpdate, machinesToRemove
<1>11. ASSUME NEW g \in InConfig, CreateMachine(g) PROVE FleetInv'
  <2>1. CASE UNCHANGED stage
    BY <1>11, <2>1 DEF CreateMachine, FleetInv, toUpdate, machinesToRemove
  <2> QED
    BY <1>11, <1>x, <2>1 DEF CreateMachine, fail
<1>12. CASE CreateReturns
  BY <1>12 DEF CreateReturns, FleetInv, toUpdate, machinesToRemove, groupsNeedingMachines
<1>13. CASE AcquireLeases
  <2>1. CASE stage' = "update"
    BY <1>13, <2>1 DEF AcquireLeases, FleetInv, toUpdate, machinesToRemove, groupsNeedingMachines
  <2> QED
    BY <1>13, <1>x, <2>1 DEF AcquireLeases, fail
<1>14. ASSUME NEW m \in Machines, UpdateMachine(m) PROVE FleetInv'
  <2>1. task[m] = "updating" /\ UNCHANGED <<setup, stage, mset, created, canary>>
        /\ \E c \in {"old", "new", "none"} : cfg' = [cfg EXCEPT ![m] = c]
    BY <1>14 DEF UpdateMachine
  <2>2. m \in mset
    BY <2>1 DEF TaskInv
  <2>3. CASE stage = "update"
    <3>1. ~setup.restartOnly => m \notin machinesToRemove
      BY <2>2, <2>3 DEF FleetInv, toUpdate, machinesToRemove
    <3>2. \A n \in Machines \ {m} : cfg'[n] = cfg[n]
      BY <2>1 DEF DTypes
    <3>3. machinesToRemove \subseteq Machines
      BY DeploymentAssumption DEF machinesToRemove, DTypes, Setup
    <3> QED
      BY <2>1, <2>3, <3>1, <3>2, <3>3 DEF FleetInv, toUpdate, machinesToRemove, groupsNeedingMachines
  <2>4. CASE stage \notin {"update", "status", "finalize", "done"}
    BY <2>1, <2>4 DEF IdleInv, Idle
  <2> QED
    BY <1>x, <2>1, <2>3, <2>4 DEF DTypes
<1>15. ASSUME NEW m \in Machines, BeginUpdate(m) \/ WaitForMachine(m) PROVE FleetInv'
  BY <1>15, <1>u DEF BeginUpdate, WaitForMachine
<1>16. CASE (\E b \in Batches : BatchReturns(b)) \/ (\E g \in Groups : GroupReturns(g))
  BY <1>16, <1>u DEF BatchReturns, GroupReturns
<1>17. CASE UpdateReturns \/ Finalize
  BY <1>17, <1>x DEF UpdateReturns, Finalize
<1>18. CASE SetFinal
  BY <1>18, <1>x DEF SetFinal, updateRelease
<1>19. CASE CancelDeploy
  BY <1>19, <1>u DEF CancelDeploy, deploy
<1>20. CASE UNCHANGED allVars
  BY <1>20, <1>u DEF allVars, deploy
<1> QED
  BY <1>1, <1>2, <1>3, <1>4, <1>5, <1>6, <1>7, <1>8, <1>9, <1>10, <1>11, <1>12, <1>13, <1>14,
     <1>15, <1>16, <1>17, <1>18, <1>19, <1>20
     DEF DeployNext, DeployStep, DeployEnded

-----------------------------------------------------------------------------
(* The update.                                                               *)

(* The batches and their first machines follow from the machine set.         *)
LEMMA BatchesSame ==
    ASSUME UNCHANGED mset
    PROVE  /\ \A b : machinesIn(b)' = machinesIn(b)
           /\ \A b : spearhead(b)' = spearhead(b)
           /\ \A b : poolSize(b)' = poolSize(b)
<1>1. \A b : machinesIn(b)' = machinesIn(b)
  BY DEF machinesIn
<1>2. \A b : spearhead(b) = Lead(machinesIn(b))
  BY DEF spearhead, Lead
<1>3. \A b : spearhead(b)' = Lead(machinesIn(b)')
  BY DEF spearhead, Lead
<1> QED
  BY <1>1, <1>2, <1>3 DEF poolSize

LEMMA IdleUpdates ==
    ASSUME DTypes', Idle' PROVE UpdateInv'
<1>1. TaskInv' /\ RunningInv'
  BY DEF Idle, TaskInv, RunningInv, Running
<1>2. LeadInv'
  BY DEF Idle, LeadInv, DTypes
<1>3. DoneInv'
  BY DEF Idle, DoneInv
<1>4. SlotInv'
  <2> SUFFICES ASSUME NEW b \in Batches, machinesIn(b)' # {}, (task[spearhead(b)])' = "ok" PROVE FALSE
    BY DEF SlotInv
  <2>1. mset' \subseteq Machines
    BY DEF DTypes
  <2>2. spearhead(b)' = Lead(machinesIn(b)')
    BY DEF spearhead, Lead
  <2>3. machinesIn(b)' \subseteq Machines
    BY <2>1 DEF machinesIn
  <2>4. spearhead(b)' \in Machines
    BY <2>2, <2>3, LeadExists
  <2> QED
    BY <2>4 DEF Idle
<1> QED
  BY <1>1, <1>2, <1>3, <1>4 DEF UpdateInv

LEMMA SameUpdates ==
    ASSUME UpdateInv, UNCHANGED <<setup, mset, cfg, update>>, stage # "update" \/ UNCHANGED stage
    PROVE  UpdateInv'
<1> USE BatchesSame DEF update, UpdateInv
<1>1. TaskInv'
  BY DEF TaskInv, batchOf
<1>2. LeadInv'
  BY DEF LeadInv, immediate, batchOf
<1>3. DoneInv'
  BY DEF DoneInv
<1>4. SlotInv'
  BY DEF SlotInv, Down, immediate
<1>5. RunningInv'
  BY DEF RunningInv
<1> QED
  BY <1>1, <1>2, <1>3, <1>4, <1>5

(* A step of machine m's update, to t: what BeginUpdate, UpdateMachine and   *)
(* WaitForMachine have in common.                                            *)
Step(m, t) ==
    /\ stage = "update" /\ m \in mset
    /\ task[m] \in {"todo"} \cup Running /\ t \in Running \cup Over
    /\ task' = [task EXCEPT ![m] = t]
    /\ \A n \in Machines \ {m} : cfg'[n] = cfg[n]
    /\ \A n \in Machines : batchErr[batchOf(n)] # {} => batchErr'[batchOf(n)] # {}
    /\ t \in {"waiting", "ok"} => cfg'[m] = "new"
    /\ t \in {"failed", "skipped"} => batchErr'[batchOf(m)] # {}
    /\ ~immediate /\ task[m] = "todo" =>
           /\ m = spearhead(batchOf(m)) \/ task[spearhead(batchOf(m))] = "ok"
           /\ t # "skipped" =>
                  /\ t = "updating" /\ batchErr[batchOf(m)] = {}
                  /\ task[spearhead(batchOf(m))] = "ok" =>
                         running(machinesIn(batchOf(m))) < poolSize(batchOf(m))
           /\ t \in {"skipped", "updating"}
    /\ UNCHANGED <<setup, stage, mset, batchDone, groupErr, groupDone>>

LEMMA StepSlots ==
    ASSUME DTypes, UpdateInv, NEW m \in Machines, NEW t, Step(m, t), ~immediate,
           NEW b \in Batches, machinesIn(b) # {}, task'[spearhead(b)] = "ok"
    PROVE  Cardinality({n \in machinesIn(b) : task'[n] \in Running \cup {"failed"}}) <= poolSize(b)
<1> DEFINE New == {n \in machinesIn(b) : task'[n] \in Running \cup {"failed"}}
<1> SUFFICES Cardinality(New) <= poolSize(b)
  OBVIOUS
<1>1. /\ mset \subseteq Machines /\ machinesIn(b) \subseteq Machines
      /\ spearhead(b) \in machinesIn(b)
  BY LeadIn DEF DTypes, machinesIn
<1>2. /\ poolSize(b) \in Nat
      /\ \A S \in SUBSET machinesIn(b) : IsFiniteSet(S) /\ Cardinality(S) \in Nat
  BY <1>1, BatchFinite
<1>3. \A n \in Machines : task'[n] = IF n = m THEN t ELSE task[n]
  BY DEF Step, DTypes
<1>4. ASSUME task[spearhead(b)] = "ok", New \subseteq Down(b) PROVE Cardinality(New) <= poolSize(b)
  <2>1. Cardinality(Down(b)) <= poolSize(b)
    BY <1>4 DEF UpdateInv, SlotInv
  <2>2. IsFiniteSet(Down(b)) /\ Cardinality(Down(b)) \in Nat /\ Cardinality(New) \in Nat
    BY <1>2 DEF Down
  <2>3. Cardinality(New) <= Cardinality(Down(b))
    BY <1>4, <2>2, FS_Subset
  <2> HIDE DEF New
  <2> QED
    BY <1>2, <2>1, <2>2, <2>3
<1>5. CASE m \notin machinesIn(b)
  <2>1. New \subseteq Down(b) /\ task[spearhead(b)] = "ok"
    BY <1>1, <1>3, <1>5 DEF Down
  <2> QED
    BY <1>4, <2>1
<1>6. CASE m \in machinesIn(b)
  <2>0. batchOf(m) = b
    BY <1>6 DEF machinesIn
  <2>1. CASE task[m] \in Running /\ m # spearhead(b)
    <3>1. New \subseteq Down(b) /\ task[spearhead(b)] = "ok"
      BY <1>1, <1>3, <2>1 DEF Down
    <3> QED
      BY <1>4, <3>1
  <2>2. CASE task[m] \in Running /\ m = spearhead(b)
    <3>1. task[m] # "ok" /\ t = "ok"
      BY <1>3, <2>2 DEF Running
    <3>2. \A n \in machinesIn(b) : n # m => task[n] = "todo"
      BY <2>2, <3>1 DEF UpdateInv, LeadInv, machinesIn
    <3>3. New = {}
      BY <1>1, <1>3, <3>1, <3>2 DEF Running
    <3> HIDE DEF New
    <3> QED
      BY <1>2, <3>3, FS_EmptySet
  <2>3. CASE task[m] = "todo" /\ t = "skipped"
    <3>1. m # spearhead(b)
      BY <1>1, <1>3, <2>3
    <3>2. New \subseteq Down(b) /\ task[spearhead(b)] = "ok"
      BY <1>1, <1>3, <2>3, <3>1 DEF Down, Running
    <3> QED
      BY <1>4, <3>2
  <2>4. CASE task[m] = "todo" /\ t = "updating"
    <3>1. m # spearhead(b) /\ task[spearhead(b)] = "ok"
      BY <1>1, <1>3, <2>4
    <3> DEFINE R == {n \in machinesIn(b) : task[n] \in Running}
    <3>2. batchErr[b] = {} /\ running(machinesIn(b)) < poolSize(b)
      BY <2>0, <2>4, <3>1 DEF Step
    <3>3. Cardinality(R) < poolSize(b)
      BY <3>2 DEF running
    <3>4. \A n \in machinesIn(b) : task[n] # "failed"
      BY <1>1, <3>2 DEF UpdateInv, TaskInv, machinesIn
    <3>5. New = R \cup {m} /\ m \notin R
      BY <1>1, <1>3, <1>6, <2>4, <3>4 DEF Running
    <3>6. IsFiniteSet(R) /\ Cardinality(R) \in Nat
      BY <1>2
    <3>7. Cardinality(New) = Cardinality(R) + 1
      BY <3>5, <3>6, FS_AddElement
    <3> HIDE DEF New, R
    <3> QED
      BY <1>2, <3>3, <3>6, <3>7
  <2> QED
    BY <2>1, <2>2, <2>3, <2>4 DEF Step
<1> QED
  BY <1>5, <1>6

LEMMA StepUpdates ==
    ASSUME DTypes, UpdateInv, NEW m \in Machines, NEW t, Step(m, t) PROVE UpdateInv'
<1>0. mset \subseteq Machines /\ UNCHANGED <<setup, stage, mset, batchDone, groupErr, groupDone>>
  BY DEF DTypes, Step
<1>3. \A n \in Machines : task'[n] = IF n = m THEN t ELSE task[n]
  BY DEF Step, DTypes
<1>s. /\ \A b : machinesIn(b)' = machinesIn(b) /\ machinesIn(b) \subseteq Machines
      /\ \A b : spearhead(b)' = spearhead(b)
      /\ \A b : poolSize(b)' = poolSize(b)
  BY <1>0, BatchesSame DEF machinesIn
<1>o. task[m] \notin Over /\ t # "todo"
  BY DEF Step, Running, Over
<1>1. TaskInv'
  BY <1>0, <1>3, <1>o DEF Step, UpdateInv, TaskInv, batchOf
<1>2. LeadInv'
  <2> SUFFICES ASSUME ~immediate, NEW n \in mset, n # spearhead(batchOf(n)),
                      task'[spearhead(batchOf(n))] # "ok"
               PROVE  task'[n] = "todo"
    BY <1>0, <1>s DEF LeadInv, immediate, batchOf
  <2>1. n \in machinesIn(batchOf(n))
    BY DEF machinesIn
  <2>2. spearhead(batchOf(n)) \in Machines
    BY <1>0, <1>s, <2>1, LeadIn
  <2>3. task[spearhead(batchOf(n))] # "ok"
    BY <1>3, <1>o, <2>2 DEF Over
  <2>4. task[n] = "todo"
    BY <2>3 DEF UpdateInv, LeadInv
  <2>5. n # m
    BY <2>3, <2>4 DEF Step
  <2> QED
    BY <1>0, <1>3, <2>4, <2>5
<1>4. DoneInv'
  <2>1. ASSUME NEW b \in batchDone
        PROVE  \/ task'[spearhead(b)] \in {"failed", "skipped"}
               \/ \A n \in machinesIn(b) : task'[n] \in Over
    <3>1. CASE task[spearhead(b)] \in {"failed", "skipped"}
      <4>1. spearhead(b) # m
        BY <1>o, <3>1 DEF Over
      <4> QED
        BY <3>1, <4>1 DEF Step
    <3>2. CASE \A n \in machinesIn(b) : task[n] \in Over
      BY <1>3, <1>s, <1>o, <3>2
    <3> QED
      BY <3>1, <3>2 DEF UpdateInv, DoneInv
  <2>2. ASSUME NEW b \in batchDone, groupErr[b[1]] = {}, NEW n \in machinesIn(b) PROVE task'[n] = "ok"
    <3>1. task[n] = "ok"
      BY <2>2 DEF UpdateInv, DoneInv
    <3> QED
      BY <1>3, <1>s, <1>o, <3>1 DEF Over
  <2>3. \A g \in groupDone : \A b \in Batches : b[1] = g /\ machinesIn(b) # {} => b \in batchDone
    BY DEF UpdateInv, DoneInv
  <2> QED
    BY <1>0, <1>s, <2>1, <2>2, <2>3 DEF DoneInv
<1>5. SlotInv'
  BY <1>0, <1>s, StepSlots DEF SlotInv, Down, immediate
<1>6. RunningInv'
  BY <1>0 DEF RunningInv, Step
<1> QED
  BY <1>1, <1>2, <1>4, <1>5, <1>6 DEF UpdateInv

LEMMA UpdateStep ==
    DTypes /\ IdleInv /\ UpdateInv /\ [DeployNext]_allVars => UpdateInv'
<1> SUFFICES ASSUME DTypes, IdleInv, UpdateInv, [DeployNext]_allVars PROVE UpdateInv'
  OBVIOUS
<1> USE DEF backend, fleet
<1>t. DTypes'
  BY TypesStep
<1>1. CASE Configure \/ Push \/ CanariesReturn \/ DestroyReturns \/ CreateReturns \/ AcquireLeases
           \/ Finalize \/ ReleaseCommandsReturn
  <2>1. stage # "update" /\ UNCHANGED <<setup, mset, cfg, update>>
    BY <1>1 DEF Configure, Push, CanariesReturn, DestroyReturns, CreateReturns, AcquireLeases,
       Finalize, ReleaseCommandsReturn
  <2> QED
    BY <2>1, SameUpdates
<1>2. CASE SetRunning \/ SetFinal \/ RunReleaseCommands
  <2>1. stage # "update" /\ UNCHANGED <<setup, mset, cfg, update>>
    BY <1>2 DEF SetRunning, SetFinal, RunReleaseCommands, deploy
  <2> QED
    BY <2>1, SameUpdates
<1>3. CASE \E g \in InConfig : SpawnCanary(g) \/ TestCanary(g) \/ CreateMachine(g)
  <2>1. stage # "update" /\ UNCHANGED <<setup, mset, cfg, update>>
    BY <1>3 DEF SpawnCanary, TestCanary, CreateMachine
  <2> QED
    BY <2>1, SameUpdates
<1>4. CASE RemoveMachines \/ \E m \in Machines : DestroyMachine(m)
  <2>1. stage \in {"remove", "destroy"} /\ UNCHANGED update
    BY <1>4 DEF RemoveMachines, DestroyMachine
  <2>2. Idle'
    BY <2>1 DEF IdleInv, Idle, update
  <2> QED
    BY <1>t, <2>2, IdleUpdates
<1>5. ASSUME NEW m \in Machines, BeginUpdate(m) PROVE UpdateInv'
  <2> DEFINE b == batchOf(m)
  <2>0. /\ stage = "update" /\ m \in mset /\ task[m] = "todo" /\ turn(m)
        /\ UNCHANGED <<setup, stage, mset, cfg, batchDone, groupErr, groupDone>>
    BY <1>5 DEF BeginUpdate
  <2>1. ~immediate => \/ m = spearhead(b)
                      \/ task[spearhead(b)] = "ok" /\ running(machinesIn(b)) < poolSize(b)
    BY <2>0 DEF turn
  <2>2. ~immediate /\ task[spearhead(b)] = "ok" => running(machinesIn(b)) < poolSize(b)
    BY <2>0, <2>1
  <2>b. b \in Batches /\ \A n \in Machines : batchOf(n) \in Batches
    BY BatchIn
  <2>3. CASE ~immediate /\ poolCtxDone(b)
    <3>1. /\ task' = [task EXCEPT ![m] = "skipped"]
          /\ batchErr' = [batchErr EXCEPT ![b] = @ \cup {"canceled"}]
      BY <1>5, <2>3 DEF BeginUpdate, setTask
    <3>2. /\ batchErr'[b] # {}
          /\ \A n \in Machines : batchErr[batchOf(n)] # {} => batchErr'[batchOf(n)] # {}
      BY <2>b, <3>1 DEF DTypes
    <3>3. Step(m, "skipped")
      BY <2>0, <2>1, <3>1, <3>2 DEF Step, Over
    <3> QED
      BY <3>3, StepUpdates
  <2>4. CASE ~(~immediate /\ poolCtxDone(b))
    <3>1. task' = [task EXCEPT ![m] = "updating"] /\ UNCHANGED batchErr
      BY <1>5, <2>4 DEF BeginUpdate, setTask
    <3>2. ~immediate => batchErr[b] = {}
      BY <2>4 DEF poolCtxDone
    <3>3. Step(m, "updating")
      BY <2>0, <2>1, <2>2, <3>1, <3>2 DEF Step, Running
    <3> QED
      BY <3>3, StepUpdates
  <2> QED
    BY <2>3, <2>4
<1>6. ASSUME NEW m \in Machines, UpdateMachine(m) \/ WaitForMachine(m) PROVE UpdateInv'
  <2>0. /\ stage = "update" /\ m \in mset /\ task[m] \in Running
        /\ UNCHANGED <<setup, stage, mset, batchDone, groupErr, groupDone>>
    BY <1>6 DEF UpdateMachine, WaitForMachine, UpdateInv, TaskInv, RunningInv, Running
  <2>b. batchOf(m) \in Batches /\ \A n \in Machines : batchOf(n) \in Batches
    BY BatchIn
  <2>c. \A n \in Machines \ {m} : cfg'[n] = cfg[n]
    BY <1>6 DEF UpdateMachine, WaitForMachine, DTypes
  <2>1. CASE taskFails(m, taskErrors(m))
    <3>1. task' = [task EXCEPT ![m] = "failed"]
      BY <2>1 DEF taskFails, setTask
    <3>2. PICK e \in taskErrors(m) : batchErr' = [batchErr EXCEPT ![batchOf(m)] = @ \cup e]
      BY <2>1 DEF taskFails
    <3>3. e # {}
      BY TaskErrorsIn
    <3>4. /\ batchErr'[batchOf(m)] # {}
          /\ \A n \in Machines : batchErr[batchOf(n)] # {} => batchErr'[batchOf(n)] # {}
      BY <2>b, <3>2, <3>3 DEF DTypes
    <3>5. Step(m, "failed")
      BY <2>0, <2>c, <3>1, <3>4 DEF Step, Over, Running
    <3> QED
      BY <3>5, StepUpdates
  <2>2. CASE task[m] = "updating" /\ cfg' = [cfg EXCEPT ![m] = "new"] /\ UNCHANGED batchErr
             /\ setTask(m, IF immediate THEN "ok" ELSE "waiting")
    <3>1. cfg'[m] = "new"
      BY <2>2 DEF DTypes
    <3>2. \E t \in {"ok", "waiting"} : task' = [task EXCEPT ![m] = t]
      BY <2>2 DEF setTask
    <3>3. \E t \in {"ok", "waiting"} : Step(m, t)
      BY <2>0, <2>2, <2>c, <3>1, <3>2 DEF Step, Over, Running
    <3> QED
      BY <3>3, StepUpdates
  <2>3. CASE WaitForMachine(m) /\ setTask(m, "ok") /\ UNCHANGED batchErr
    <3>1. cfg'[m] = "new" /\ task' = [task EXCEPT ![m] = "ok"]
      BY <2>3 DEF WaitForMachine, setTask, UpdateInv, TaskInv
    <3>2. Step(m, "ok")
      BY <2>0, <2>3, <2>c, <3>1 DEF Step, Over, Running
    <3> QED
      BY <3>2, StepUpdates
  <2> QED
    BY <1>6, <2>1, <2>2, <2>3 DEF UpdateMachine, WaitForMachine
<1>7. ASSUME NEW b \in Batches, BatchReturns(b) PROVE UpdateInv'
  <2>0. /\ b \notin batchDone /\ machinesIn(b) # {} /\ batchDone' = batchDone \cup {b}
        /\ \/ task[spearhead(b)] \in {"failed", "skipped"}
           \/ \A m \in machinesIn(b) : task[m] \in Over
        /\ groupErr' = IF groupErr[b[1]] = {} THEN [groupErr EXCEPT ![b[1]] = batchErr[b]] ELSE groupErr
        /\ UNCHANGED <<setup, stage, mset, cfg, task, batchErr, groupDone>>
    BY <1>7 DEF BatchReturns
  <2>s. /\ \A c : machinesIn(c)' = machinesIn(c)
        /\ \A c : spearhead(c)' = spearhead(c)
        /\ \A c : poolSize(c)' = poolSize(c)
    BY <2>0, BatchesSame
  <2>1. TaskInv' /\ LeadInv' /\ RunningInv'
    BY <2>0, <2>s DEF UpdateInv, TaskInv, LeadInv, RunningInv, immediate, batchOf
  <2>2. SlotInv'
    BY <2>0, <2>s DEF UpdateInv, SlotInv, Down, immediate
  <2>3. \A c \in Batches : c[1] \in Groups
    BY DEF Batches
  <2>4. \A g \in Groups : groupErr'[g] = {} => groupErr[g] = {} /\ (g = b[1] => batchErr[b] = {})
    BY <2>0, <2>3 DEF DTypes
  <2>5. batchErr[b] = {} => \A m \in machinesIn(b) : task[m] = "ok"
    <3> SUFFICES ASSUME batchErr[b] = {} PROVE \A m \in machinesIn(b) : task[m] = "ok"
      OBVIOUS
    <3>1. machinesIn(b) \subseteq Machines /\ spearhead(b) \in machinesIn(b)
      BY <2>0, LeadIn DEF DTypes, machinesIn
    <3>2. \A m \in machinesIn(b) : task[m] \notin {"failed", "skipped"}
      BY <3>1 DEF UpdateInv, TaskInv, machinesIn
    <3> QED
      BY <2>0, <3>1, <3>2 DEF Over
  <2>6. DoneInv'
    <3>1. \A c \in batchDone' : \/ task'[spearhead(c)'] \in {"failed", "skipped"}
                               \/ \A m \in machinesIn(c)' : task'[m] \in Over
      BY <2>0, <2>s DEF UpdateInv, DoneInv
    <3>2. ASSUME NEW c \in batchDone', groupErr'[c[1]] = {}, NEW m \in machinesIn(c)'
          PROVE  task'[m] = "ok"
      <4>1. c \in Batches
        BY <2>0 DEF DTypes
      <4>2. groupErr[c[1]] = {} /\ (c = b => batchErr[b] = {})
        BY <2>3, <2>4, <3>2, <4>1
      <4>3. CASE c = b
        BY <2>0, <2>s, <2>5, <3>2, <4>2, <4>3
      <4>4. CASE c \in batchDone
        BY <2>0, <2>s, <3>2, <4>2, <4>4 DEF UpdateInv, DoneInv
      <4> QED
        BY <2>0, <4>3, <4>4
    <3>3. \A g \in groupDone' : \A c \in Batches : c[1] = g /\ machinesIn(c)' # {} => c \in batchDone'
      BY <2>0, <2>s DEF UpdateInv, DoneInv
    <3> QED
      BY <3>1, <3>2, <3>3 DEF DoneInv
  <2> QED
    BY <2>1, <2>2, <2>6 DEF UpdateInv
<1>8. ASSUME NEW g \in Groups, GroupReturns(g) PROVE UpdateInv'
  <2>0. /\ \A b \in Batches : b[1] = g /\ machinesIn(b) # {} => b \in batchDone
        /\ groupDone' = groupDone \cup {g}
        /\ UNCHANGED <<setup, stage, mset, cfg, task, batchErr, batchDone, groupErr>>
    BY <1>8 DEF GroupReturns
  <2>s. /\ \A c : machinesIn(c)' = machinesIn(c)
        /\ \A c : spearhead(c)' = spearhead(c)
        /\ \A c : poolSize(c)' = poolSize(c)
    BY <2>0, BatchesSame
  <2>1. TaskInv' /\ LeadInv' /\ RunningInv'
    BY <2>0, <2>s DEF UpdateInv, TaskInv, LeadInv, RunningInv, immediate, batchOf
  <2>2. SlotInv'
    BY <2>0, <2>s DEF UpdateInv, SlotInv, Down, immediate
  <2>3. DoneInv'
    BY <2>0, <2>s DEF UpdateInv, DoneInv
  <2> QED
    BY <2>1, <2>2, <2>3 DEF UpdateInv
<1>9. CASE UpdateReturns
  <2>0. /\ IF immediate THEN \A m \in mset : task[m] \in Over
           ELSE \A m \in mset : Group[m] \in groupDone
        /\ UNCHANGED <<setup, mset, cfg, update>>
    BY <1>9 DEF UpdateReturns
  <2>s. /\ \A c : machinesIn(c)' = machinesIn(c)
        /\ \A c : spearhead(c)' = spearhead(c)
        /\ \A c : poolSize(c)' = poolSize(c)
    BY <2>0, BatchesSame
  <2>1. TaskInv' /\ LeadInv'
    BY <2>0, <2>s DEF UpdateInv, TaskInv, LeadInv, immediate, batchOf, update
  <2>2. SlotInv'
    BY <2>0, <2>s DEF UpdateInv, SlotInv, Down, immediate, update
  <2>3. DoneInv'
    BY <2>0, <2>s DEF UpdateInv, DoneInv, update
  <2>4. \A m \in Machines : task[m] \notin Running
    <3> SUFFICES ASSUME NEW m \in Machines, task[m] \in Running PROVE FALSE
      OBVIOUS
    <3>1. m \in mset /\ task[m] \notin Over
      BY DEF UpdateInv, TaskInv, Running, Over
    <3>2. ~immediate /\ Group[m] \in groupDone
      BY <2>0, <3>1
    <3>3. m \in machinesIn(batchOf(m)) /\ batchOf(m) \in Batches /\ batchOf(m)[1] = Group[m]
      BY <3>1, BatchIn DEF machinesIn
    <3>4. batchOf(m) \in batchDone
      BY <3>2, <3>3 DEF UpdateInv, DoneInv
    <3>5. task[spearhead(batchOf(m))] \in {"failed", "skipped"}
      BY <3>1, <3>3, <3>4 DEF UpdateInv, DoneInv
    <3>6. m # spearhead(batchOf(m))
      BY <3>5 DEF Running
    <3>7. task[m] = "todo"
      BY <3>1, <3>2, <3>5, <3>6 DEF UpdateInv, LeadInv
    <3> QED
      BY <3>7 DEF Running
  <2>5. RunningInv'
    BY <2>0, <2>4 DEF RunningInv, update
  <2> QED
    BY <2>1, <2>2, <2>3, <2>5 DEF UpdateInv
<1>10. CASE CancelDeploy \/ UNCHANGED allVars
  BY <1>10, SameUpdates DEF CancelDeploy, allVars, deploy
<1> QED
  BY <1>1, <1>2, <1>3, <1>4, <1>5, <1>6, <1>7, <1>8, <1>9, <1>10
     DEF DeployNext, DeployStep, DeployEnded

LEMMA IdleStep == IdleInv /\ UpdateInv /\ [DeployNext]_allVars => IdleInv'
<1> SUFFICES ASSUME IdleInv, UpdateInv, [DeployNext]_allVars PROVE IdleInv'
  OBVIOUS
<1> DEFINE Late == {"update", "status", "finalize", "done"}
<1>u. ASSUME UNCHANGED update, stage' \notin Late => stage \notin Late PROVE IdleInv'
  BY <1>u DEF IdleInv, Idle, update
<1>l. stage' \in Late => IdleInv'
  BY DEF IdleInv
<1>1. CASE Configure \/ Push \/ CanariesReturn \/ DestroyReturns \/ CreateReturns \/ AcquireLeases
           \/ Finalize \/ ReleaseCommandsReturn \/ RemoveMachines
  BY <1>1, <1>u DEF Configure, Push, CanariesReturn, DestroyReturns, CreateReturns, AcquireLeases,
       Finalize, ReleaseCommandsReturn, RemoveMachines
<1>2. CASE SetRunning \/ SetFinal
  BY <1>2, <1>u DEF SetRunning, SetFinal, updateRelease
<1>3. CASE \E g \in InConfig : SpawnCanary(g) \/ TestCanary(g) \/ CreateMachine(g)
  BY <1>3, <1>u DEF SpawnCanary, TestCanary, CreateMachine
<1>4. CASE \E m \in Machines : DestroyMachine(m)
  BY <1>4, <1>u DEF DestroyMachine
<1>5. CASE \E m \in Machines : BeginUpdate(m)
  BY <1>5, <1>l DEF BeginUpdate
<1>6. ASSUME NEW m \in Machines, UpdateMachine(m) \/ WaitForMachine(m) PROVE IdleInv'
  <2>1. stage = "update" /\ UNCHANGED stage
    BY <1>6 DEF UpdateMachine, WaitForMachine, UpdateInv, RunningInv, Running
  <2> QED
    BY <1>l, <2>1
<1>7. CASE (\E b \in Batches : BatchReturns(b)) \/ (\E g \in Groups : GroupReturns(g)) \/ UpdateReturns
  BY <1>7, <1>l DEF BatchReturns, GroupReturns, UpdateReturns
<1>8. CASE RunReleaseCommands \/ CancelDeploy \/ UNCHANGED allVars
  BY <1>8, <1>u DEF RunReleaseCommands, CancelDeploy, allVars, deploy
<1> QED
  BY <1>1, <1>2, <1>3, <1>4, <1>5, <1>6, <1>7, <1>8 DEF DeployNext, DeployStep, DeployEnded

-----------------------------------------------------------------------------
(* The outcome.                                                              *)

(* An update without an error has updated every machine.                     *)
LEMMA UpdatedAll ==
    ASSUME DTypes, UpdateInv, UpdateReturns, derr' = {}
    PROVE  \A m \in mset : cfg[m] = "new"
<1> SUFFICES ASSUME NEW m \in mset PROVE task[m] = "ok"
  BY DEF DTypes, UpdateInv, TaskInv
<1>0. m \in Machines /\ batchOf(m) \in Batches /\ batchOf(m)[1] = Group[m]
      /\ m \in machinesIn(batchOf(m))
  BY BatchIn DEF DTypes, machinesIn
<1>1. CASE immediate
  <2>1. batchErr[batchOf(m)] = {}
    BY <1>0, <1>1 DEF UpdateReturns
  <2>2. task[m] \in Over /\ task[m] \notin {"failed", "skipped"}
    BY <1>0, <1>1, <2>1 DEF UpdateReturns, UpdateInv, TaskInv
  <2> QED
    BY <2>2 DEF Over
<1>2. CASE ~immediate
  <2>1. Group[m] \in groupDone
    BY <1>2 DEF UpdateReturns
  <2>2. groupErr[Group[m]] = {}
    BY <1>2, <2>1 DEF UpdateReturns
  <2>3. batchOf(m) \in batchDone
    BY <1>0, <2>1 DEF UpdateInv, DoneInv
  <2> QED
    BY <1>0, <2>2, <2>3 DEF UpdateInv, DoneInv
<1> QED
  BY <1>1, <1>2

(* The last stage of a deployment without errors finds it deployed.          *)
LEMMA DeployedAtEnd ==
    ASSUME FleetInv, stage \in {"lease", "update"}, \A m \in mset : cfg[m] = "new"
    PROVE  Deployed
<1>1. mset = toUpdate
  BY DEF FleetInv
<1>2. ASSUME NEW m \in setup.selected
      PROVE  IF setup.restartOnly \/ Group[m] \in InConfig THEN cfg[m] = "new" ELSE cfg[m] = "none"
  <2>1. CASE setup.restartOnly \/ Group[m] \in InConfig
    BY <1>1, <2>1 DEF toUpdate
  <2>2. CASE ~setup.restartOnly /\ Group[m] \notin InConfig
    BY <2>2 DEF FleetInv, machinesToRemove
  <2> QED
    BY <2>1, <2>2
<1> QED
  BY <1>2 DEF Deployed, FleetInv

LEMMA StatusStep ==
    DTypes /\ FleetInv /\ IdleInv /\ UpdateInv /\ StatusInv /\ [DeployNext]_allVars => StatusInv'
<1> SUFFICES ASSUME DTypes, FleetInv, IdleInv, UpdateInv, StatusInv, [DeployNext]_allVars
             PROVE  StatusInv'
  OBVIOUS
<1> USE DEF backend, fleet
<1> DEFINE End == {"status", "finalize", "done"}
(* A step taken before the end, which leaves the status undecided.           *)
<1>f. ASSUME stage \notin End, status' \in {status, "running"}, stage' # "finalize",
             stage' \in End => derr' # {} \/ Deployed',
             stage' = "done" => gaveUp' \/ bucket' = "aborted"
      PROVE  StatusInv'
  BY <1>f DEF StatusInv, ReleaseSettled
<1>u. ASSUME UNCHANGED <<setup, stage, backend, bucket, fleet, derr>>, ctx' \in {ctx, "canceled"}
      PROVE  StatusInv'
  <2>1. Deployed' <=> Deployed
    BY <1>u DEF Deployed, groupsNeedingMachines
  <2> QED
    BY <1>u, <2>1 DEF StatusInv, ReleaseSettled
<1>e. \A d \in causes : d # {}
  BY CausesIn
<1>1. CASE Configure
  BY <1>1, <1>e, <1>f DEF Configure
<1>2. CASE SetRunning
  <2>1. /\ stage = "running" /\ stage' \in {"running", "push", "done"} /\ status' \in {status, "running"}
        /\ stage' = "done" => gaveUp'
    BY <1>2 DEF SetRunning, updateRelease
  <2>2. stage' = "done" => derr' # {}
    BY <1>2, <1>e DEF SetRunning
  <2> QED
    BY <1>f, <2>1, <2>2
<1>3. CASE Push
  <2>1. stage = "push" /\ stage' \in {afterPush, "done"} /\ UNCHANGED status
        /\ (stage' = "done" => bucket' = "aborted" /\ derr' # {})
    BY <1>3, <1>e DEF Push, afterPush
  <2> QED
    BY <1>f, <2>1 DEF afterPush
<1>4. CASE ReleaseCommandsReturn \/ CanariesReturn \/ RemoveMachines \/ DestroyReturns \/ CreateReturns
  BY <1>4, <1>e, <1>f DEF ReleaseCommandsReturn, CanariesReturn, RemoveMachines, DestroyReturns,
     CreateReturns, fail
<1>5. CASE \E m \in Machines : DestroyMachine(m)
  BY <1>5, <1>e, <1>f DEF DestroyMachine, fail
<1>6. CASE \E g \in InConfig : CreateMachine(g)
  BY <1>6, <1>e, <1>f DEF CreateMachine, fail
<1>7. CASE \E g \in InConfig : SpawnCanary(g) \/ TestCanary(g)
  BY <1>7, <1>f DEF SpawnCanary, TestCanary
<1>8. CASE AcquireLeases
  <2>1. CASE mset = {} /\ stage' = "status"
    <3>1. Deployed
      BY <1>8, <2>1, DeployedAtEnd DEF AcquireLeases
    <3>2. Deployed'
      BY <1>8, <3>1 DEF AcquireLeases, Deployed, groupsNeedingMachines
    <3> QED
      BY <1>8, <1>f, <2>1, <3>2 DEF AcquireLeases
  <2>2. CASE stage' = "update" \/ fail
    BY <1>8, <1>e, <1>f, <2>2 DEF AcquireLeases, fail
  <2> QED
    BY <1>8, <2>1, <2>2 DEF AcquireLeases
<1>9. ASSUME NEW m \in Machines, BeginUpdate(m) PROVE StatusInv'
  BY <1>9, <1>f DEF BeginUpdate
<1>10. ASSUME NEW m \in Machines, UpdateMachine(m) \/ WaitForMachine(m) PROVE StatusInv'
  <2>1. stage = "update" /\ UNCHANGED <<stage, status>>
    BY <1>10 DEF UpdateMachine, WaitForMachine, UpdateInv, RunningInv, Running
  <2> QED
    BY <1>f, <2>1
<1>11. CASE (\E b \in Batches : BatchReturns(b)) \/ (\E g \in Groups : GroupReturns(g))
  BY <1>11, <1>f DEF BatchReturns, GroupReturns
<1>12. CASE UpdateReturns
  <2>1. derr' = {} => Deployed
    BY <1>12, UpdatedAll, DeployedAtEnd DEF UpdateReturns
  <2>2. derr' = {} => Deployed'
    BY <1>12, <2>1 DEF UpdateReturns, Deployed, groupsNeedingMachines
  <2> QED
    BY <1>12, <1>f, <2>2 DEF UpdateReturns
<1>13. CASE SetFinal
  <2>1. /\ stage = "status" /\ stage' \in {"status", "finalize"} /\ status' \in {status, finalStatus}
        /\ stage' = "finalize" => status' = finalStatus \/ gaveUp'
        /\ UNCHANGED <<setup, bucket, fleet, derr, ctx>>
    BY <1>13 DEF SetFinal, updateRelease, vars
  <2>2. /\ finalStatus = "complete" => derr = {}
        /\ finalStatus \notin {"pending", "running"}
    BY DEF finalStatus
  <2>3. Deployed' <=> Deployed
    BY <2>1 DEF Deployed, groupsNeedingMachines
  <2> QED
    BY <2>1, <2>2, <2>3 DEF StatusInv, ReleaseSettled
<1>14. CASE Finalize
  <2>1. /\ stage = "finalize" /\ stage' = "done" /\ UNCHANGED <<setup, backend, fleet, derr>>
    BY <1>14 DEF Finalize
  <2>2. Deployed' <=> Deployed
    BY <2>1 DEF Deployed, groupsNeedingMachines
  <2> QED
    BY <2>1, <2>2 DEF StatusInv, ReleaseSettled
<1>15. CASE RunReleaseCommands
  BY <1>15, <1>f DEF RunReleaseCommands, deploy
<1>16. CASE CancelDeploy
  BY <1>16, <1>u DEF CancelDeploy, deploy
<1>17. CASE UNCHANGED allVars
  BY <1>17, <1>u DEF allVars, vars, deploy
<1> QED
  BY <1>1, <1>2, <1>3, <1>4, <1>5, <1>6, <1>7, <1>8, <1>9, <1>10, <1>11, <1>12, <1>13, <1>14,
     <1>15, <1>16, <1>17
     DEF DeployNext, DeployStep, DeployEnded

-----------------------------------------------------------------------------
(* The theorems about the deployment.                                        *)

(* The invariant of the driver, from which the other theorems follow: types, *)
(* release commands, stages, updates and outcome.                            *)
THEOREM DeployInvariant == DeploySpec => []DInv
<1>1. DInv /\ [DeployNext]_allVars => DInv'
  BY TypesStep, ReleaseStep, FleetStep, IdleStep, UpdateStep, StatusStep DEF DInv, UpdateInv
<1> QED
  BY <1>1, DInit, PTL DEF DeploySpec

(* The deployment is well-typed, the release command's variables too, and no *)
(* update is under way outside its stage.                                    *)
THEOREM DeployTypeCorrect == DeploySpec => [](DeployTypeOK /\ TypeOK)
<1>1. DInv => DeployTypeOK /\ TypeOK
  BY DEF DInv, DTypes, UpdateInv, RunningInv, ReleaseInv, DeployTypeOK
<1> QED
  BY <1>1, DeployInvariant, PTL

(* In a deployment, too, an unlogged failure of a release command aborts:    *)
(* what runReleaseCommands reports is not overtaken by what follows.         *)
THEOREM DeployFailureAborts == DeploySpec => []FailureAbortsUnlogged
<1>1. DInv => FailureAbortsUnlogged
  BY DEF DInv, ReleaseInv
<1> QED
  BY <1>1, DeployInvariant, PTL

(* A release whose status is complete is deployed, whatever the fleet, the   *)
(* strategy and the pools: no failed, skipped or never started update of a   *)
(* machine is lost on the way through batches, groups and joined errors.     *)
THEOREM CompleteMeansDeployed == DeploySpec => []CompleteIsDeployed
<1>1. DInv => CompleteIsDeployed
  BY DEF DInv, StatusInv, Deployed, CompleteIsDeployed
<1> QED
  BY <1>1, DeployInvariant, PTL

(* A deployment that has returned has settled its release, unless the        *)
(* backend refused the status, the user canceled it, or the statics failed.  *)
THEOREM StatusSettled == DeploySpec => []ReleaseSettled
<1>1. DInv => ReleaseSettled
  BY DEF DInv, StatusInv
<1> QED
  BY <1>1, DeployInvariant, PTL

(* For any fleet and pool size, a rolling update takes down no more machines *)
(* of a batch than its pool holds, failed ones included, and only the first  *)
(* one until that has passed its checks.                                     *)
THEOREM FailureStopsRoll == DeploySpec => []RollStops
<1>1. DInv => RollStops
  <2> SUFFICES ASSUME DInv, ~immediate, NEW b \in Batches, machinesIn(b) # {}
               PROVE  Cardinality(Down(b))
                        <= IF task[spearhead(b)] = "ok" THEN poolSize(b) ELSE 1
    BY DEF RollStops, Down
  <2>1. CASE task[spearhead(b)] = "ok"
    BY <2>1 DEF DInv, UpdateInv, SlotInv
  <2>2. CASE task[spearhead(b)] # "ok"
    <3>1. Down(b) \subseteq {spearhead(b)}
      BY <2>2 DEF Down, DInv, UpdateInv, LeadInv, machinesIn, Running
    <3>2. IsFiniteSet({spearhead(b)}) /\ Cardinality({spearhead(b)}) = 1
      BY FS_Singleton
    <3>3. Cardinality(Down(b)) <= 1
      BY <3>1, <3>2, FS_Subset
    <3> QED
      BY <2>2, <3>3
  <2> QED
    BY <2>1, <2>2
<1> QED
  BY <1>1, DeployInvariant, PTL
=============================================================================
