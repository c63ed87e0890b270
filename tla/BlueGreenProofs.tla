--------------------------- MODULE BlueGreenProofs ---------------------------
(***************************************************************************)
(* Proofs about the blue-green strategy, for any number of machines, any   *)
(* concurrency, any number of attempts, and a machine list that may lag or *)
(* fail.                                                                   *)
(***************************************************************************)
EXTENDS BlueGreen, FiniteSetTheorems, WellFoundedInduction, TLAPS

(* The goroutines a stage starts with are well-typed.                       *)
LEMMA InitialTaskType ==
    ASSUME NEW s PROVE initialTask(s) \in [Blue -> TaskStates]
BY DEF initialTask, TaskStates

(* Entering a stage, failing, and the outcomes of a pool or of a wait keep   *)
(* the type of the control state.                                            *)
ControlOK == stage \in Stages /\ task \in [Blue -> TaskStates]
             /\ attempt \in [Blue -> Nat \ {0}] /\ err \subseteq Errors

LEMMA EnterType ==
    ASSUME ControlOK, NEW s \in Stages, Enter(s) PROVE ControlOK'
BY InitialTaskType DEF ControlOK, Enter

LEMMA FailType ==
    ASSUME ControlOK, NEW E \in SUBSET Errors, Fail(E) PROVE ControlOK'
BY DEF ControlOK, Fail, LeavePool, Stages, TaskStates

LEMMA PoolFailsType ==
    ASSUME ControlOK, NEW e \in Errors, PoolFails(e) PROVE ControlOK'
<1>1. PICK b \in Blue : Fail({PoolError(b), e})
  BY DEF PoolFails
<1>2. {PoolError(b), e} \in SUBSET Errors
  BY DEF PoolError, Errors
<1> QED
  BY <1>1, <1>2, FailType

LEMMA WaitLoopFailsType ==
    ASSUME ControlOK, NEW e \in Errors, WaitLoopFails(e) PROVE ControlOK'
<1>1. \E x \in {"ErrAborted", "ErrWaitTimeout", "ErrApi"} : Fail({x, e})
  BY DEF WaitLoopFails
<1>2. \A x \in {"ErrAborted", "ErrWaitTimeout", "ErrApi"} : {x, e} \in SUBSET Errors
  BY DEF Errors
<1> QED
  BY <1>1, <1>2, FailType

(* The outcomes of one API attempt keep the type of the pool.               *)
LEMMA OutcomeType ==
    ASSUME ControlOK, UNCHANGED <<stage, err>>, NEW b \in Blue,
           \/ Succeed(b)
           \/ \E max : Retry(b, max)
           \/ \E r \in TaskStates : GiveUp(b, r)
    PROVE  ControlOK'
<1>1. CASE Succeed(b)
  BY <1>1 DEF ControlOK, Succeed, GiveUp, TaskStates
<1>2. CASE \E max : Retry(b, max)
  BY <1>2 DEF ControlOK, Retry
<1>3. CASE \E r \in TaskStates : GiveUp(b, r)
  BY <1>3 DEF ControlOK, GiveUp
<1> QED
  BY <1>1, <1>2, <1>3

-----------------------------------------------------------------------------
(* Type correctness.                                                         *)

(* The rest of TypeOK: configuration, abort flag, and the machines.          *)
DataOK ==
    /\ cfg \in [group : [Blue -> Groups], checked : SUBSET Groups,
                skipLaunch : SUBSET Blue, hostOk : SUBSET Blue]
    /\ aborted \in BOOLEAN
    /\ canDeleteGreenMachines \in BOOLEAN
    /\ tracked \in [Blue -> Nat]
    /\ live \in [Blue -> SUBSET (Nat \ {0})]
    /\ started \subseteq Blue /\ healthy \subseteq Blue /\ ready \subseteq Blue
    /\ cordoned \subseteq Blue /\ stopped \subseteq Blue
    /\ destroyed \subseteq Blue /\ hanging \subseteq Blue
    /\ told \in [Blue -> SUBSET (Nat \ {0})]
    /\ missed \in [Blue -> SUBSET (Nat \ {0})]

LEMMA TypeParts == TypeOK <=> ControlOK /\ DataOK
BY DEF TypeOK, ControlOK, DataOK

LEMMA TypeInit == Init => TypeOK
<1> SUFFICES ASSUME Init PROVE TypeOK
  OBVIOUS
<1>1. cfg \in [group : [Blue -> Groups], checked : SUBSET Groups,
              skipLaunch : SUBSET Blue, hostOk : SUBSET Blue]
  BY DEF Init
<1>2. ControlOK
  BY DEF Init, ControlOK, Stages, DeployStages, TaskStates
<1>3. DataOK
  BY <1>1 DEF Init, DataOK
<1> QED
  BY <1>2, <1>3, TypeParts

(* A stage step keeps the control state well-typed: it enters a stage, fails *)
(* or ends.                                                                  *)
LEMMA StageControlType ==
    ASSUME ControlOK, StageStep PROVE ControlOK'
<1> USE DEF Errors
<1>s. DeployStages \subseteq Stages /\ Terminal \subseteq Stages
  BY DEF Stages
<1>e. ASSUME NEW s \in DeployStages, Enter(s) PROVE ControlOK'
  BY <1>s, <1>e, EnterType
<1>1. CASE Preflight
  <2>1. \/ \E e \in Errors : Fail({e})
        \/ Enter("create")
    BY <1>1 DEF Preflight
  <2> QED
    BY <2>1, <1>e, FailType DEF DeployStages
<1>2. CASE CreateDone
  BY <1>2, <1>e, FailType, PoolFailsType DEF CreateDone, DeployStages
<1>3. CASE WaitStartedDone
  BY <1>3, <1>e, FailType, WaitLoopFailsType DEF WaitStartedDone, DeployStages
<1>4. CASE WaitHealthyDone
  BY <1>4, <1>e, FailType, WaitLoopFailsType DEF WaitHealthyDone, DeployStages
<1>5. CASE MarkReadyDone
  BY <1>5, <1>e, FailType, PoolFailsType DEF MarkReadyDone, DeployStages
<1>6. CASE TagDone
  BY <1>6, <1>e, FailType DEF TagDone, DeployStages
<1>7. ASSUME NEW s, NEW n \in DeployStages, sleepAbortable(s, n) PROVE ControlOK'
  BY <1>7, <1>e, FailType DEF sleepAbortable
<1>8. CASE CordonDone
  BY <1>8, <1>e, FailType, PoolFailsType DEF CordonDone, DeployStages
<1>9. CASE StopDone
  BY <1>9, <1>e, PoolFailsType DEF StopDone, DeployStages
<1>10. CASE WaitStoppedDone
  BY <1>10, <1>e, FailType DEF WaitStoppedDone, DeployStages
<1>11. CASE DestroyDone
  <2>1. CASE PoolFails("ErrDestroyBlueMachines")
    BY <2>1, PoolFailsType
  <2>2. CASE stage' = "complete" /\ LeavePool /\ UNCHANGED err
    BY <2>2, <1>s DEF ControlOK, LeavePool, Terminal, TaskStates
  <2> QED
    BY <2>1, <2>2, <1>11 DEF DestroyDone
<1>12. CASE RollbackDone
  BY <1>12, <1>s DEF RollbackDone, ControlOK, Terminal, pool
<1> QED
  BY <1>1, <1>2, <1>3, <1>4, <1>5, <1>6, <1>7, <1>8, <1>9, <1>10, <1>11, <1>12
     DEF StageStep, DeployStages

(* A stage step changes no machine and no configuration.                     *)
LEMMA StageFrame ==
    ASSUME StageStep
    PROVE  /\ UNCHANGED <<cfg, aborted, greens, blues>>
           /\ canDeleteGreenMachines' \in {canDeleteGreenMachines, FALSE}
BY DEF StageStep, Preflight, CreateDone, WaitStartedDone, WaitHealthyDone,
       MarkReadyDone, TagDone, sleepAbortable, CordonDone, StopDone,
       WaitStoppedDone, DestroyDone, RollbackDone

(* A goroutine's step keeps the types.                                       *)
LEMMA TaskType ==
    ASSUME TypeOK, NEW b \in Blue, TaskStep(b) PROVE TypeOK'
<1> USE TypeParts
<1> SUFFICES ControlOK' /\ DataOK'
  BY DEF TypeOK, ControlOK, DataOK
<1>r. {"ok", "err", "errsend", "run", "lookup", "aborted"} \subseteq TaskStates
  BY DEF TaskStates
<1>1. CASE StartTask(b)
  BY <1>1, <1>r DEF StartTask, ControlOK, DataOK, control, greens, history, blues
<1>2. CASE Launch(b)
  <2>1. ControlOK'
    BY <1>2, <1>r DEF Launch, Succeed, GiveUp, ControlOK, control
  <2>2. attempt[b] \in Nat \ {0}
    BY DEF ControlOK
  <2> QED
    BY <2>1, <2>2, <1>2 DEF Launch, DataOK, control, blues
<1>3. CASE LookupLaunch(b)
  <2>1. ControlOK'
    BY <1>3, <1>r DEF LookupLaunch, ControlOK, control, Succeed, GiveUp
  <2>2. live[b] \in SUBSET (Nat \ {0})
    BY DEF DataOK
  <2> QED
    BY <2>1, <2>2, <1>3 DEF LookupLaunch, DataOK, control, blues
<1>4. CASE SeeStarted(b)
  <2>1. ControlOK'
    BY <1>4, <1>r, OutcomeType DEF SeeStarted, control
  <2> QED
    BY <2>1, <1>4 DEF SeeStarted, DataOK, control, history, blues
<1>5. CASE SeeHealthy(b)
  <2>1. ControlOK'
    BY <1>5, <1>r, OutcomeType DEF SeeHealthy, control
  <2> QED
    BY <2>1, <1>5 DEF SeeHealthy, DataOK, control, history, blues
<1>6. CASE UncordonGreen(b)
  <2>1. ControlOK'
    BY <1>6, <1>r, OutcomeType DEF UncordonGreen, control
  <2> QED
    BY <2>1, <1>6 DEF UncordonGreen, DataOK, With, control, history, blues
<1>7. CASE TagBlue(b)
  <2>1. ControlOK'
    BY <1>7, <1>r, OutcomeType DEF TagBlue, control
  <2> QED
    BY <2>1, <1>7 DEF TagBlue, DataOK, control, greens, history, blues
<1>8. CASE CordonBlue(b)
  <2>1. ControlOK'
    BY <1>8, <1>r, OutcomeType DEF CordonBlue, control
  <2> QED
    BY <2>1, <1>8 DEF CordonBlue, DataOK, With, control, greens, history
<1>9. CASE StopBlue(b)
  <2>1. ControlOK'
    BY <1>9, <1>r, OutcomeType DEF StopBlue, control
  <2> QED
    BY <2>1, <1>9 DEF StopBlue, DataOK, With, control, greens, history
<1>10. CASE SeeStopped(b)
  <2>1. ControlOK'
    BY <1>10, <1>r, OutcomeType DEF SeeStopped, control
  <2> QED
    BY <2>1, <1>10 DEF SeeStopped, DataOK, control, greens, history, blues
<1>11. CASE DestroyBlue(b)
  <2>1. ControlOK'
    BY <1>11, <1>r, OutcomeType DEF DestroyBlue, control
  <2> QED
    BY <2>1, <1>11 DEF DestroyBlue, reportHanging, DataOK, With, control, greens, history
<1>12. CASE DestroyGreen(b)
  <2>1. ControlOK'
    BY <1>12 DEF DestroyGreen, ControlOK, Stages, Terminal, pool
  <2> QED
    BY <2>1, <1>12 DEF DestroyGreen, DataOK, history, blues
<1> QED
  BY <1>1, <1>2, <1>3, <1>4, <1>5, <1>6, <1>7, <1>8, <1>9, <1>10, <1>11, <1>12
     DEF TaskStep

LEMMA TypeStep == TypeOK /\ [Next]_vars => TypeOK'
<1> SUFFICES ASSUME TypeOK, [Next]_vars PROVE TypeOK'
  OBVIOUS
<1> USE TypeParts
<1>1. CASE StageStep
  <2>1. ControlOK'
    BY <1>1, StageControlType
  <2>2. DataOK'
    BY <1>1, StageFrame DEF DataOK, greens, history, blues
  <2> QED
    BY <2>1, <2>2 DEF TypeOK, ControlOK, DataOK
<1>2. CASE \E b \in Blue : TaskStep(b)
  BY <1>2, TaskType
<1>3. CASE Abort
  BY <1>3 DEF Abort, TypeOK, pool, control, greens, history, blues
<1>4. CASE Kill
  BY <1>4 DEF Kill, LeavePool, TypeOK, Stages, Terminal, TaskStates, greens, history,
              blues
<1>5. CASE UNCHANGED vars
  BY <1>5 DEF vars, TypeOK
<1> QED
  BY <1>1, <1>2, <1>3, <1>4, <1>5 DEF Next, Step, Finished

(* Every reachable state is well-typed.                                      *)
THEOREM TypeCorrect == Spec => []TypeOK
BY TypeInit, TypeStep, PTL DEF Spec

-----------------------------------------------------------------------------
(* Safety of the hand-over.  BlueKeptUntilGreenServes is not inductive: it   *)
(* says nothing of what Deploy knows when it starts cordoning, nor of what   *)
(* Rollback may be asked to destroy.  The invariant adds, stage by stage,    *)
(* what has been established for the green machines, and that an error which *)
(* lets Rollback destroy them never follows a touched blue machine.          *)

BeforeTeardown == {"start", "create", "waitStarted", "waitHealthy", "markReady"}
Teardown == {"tag", "waitBeforeCordon", "cordon", "waitBeforeStop", "stop",
             "waitStopped", "destroy"}

AllServe == \A b \in Blue : GreenServes(b)

HInv ==
    /\ BlueTouched # {} => AllServe
    /\ stage \in BeforeTeardown => BlueTouched = {}
    /\ stage = "create" => \A b \in Blue : task[b] = "ok" => tracked[b] \in live[b]
    /\ stage \in {"waitStarted", "waitHealthy", "markReady"}
          => \A b \in Blue : tracked[b] \in live[b]
    /\ stage = "markReady" => \A b \in Blue : task[b] = "ok" => b \in ready
    /\ stage \in Teardown => AllServe /\ ~canDeleteGreenMachines
    /\ stage = "rollback" /\ RollbackDestroys => BlueTouched = {}

LEMMA HInit == Init => HInv
BY DEF Init, HInv, BlueTouched, BeforeTeardown, Teardown

(* A failure before the teardown finds every blue machine untouched; one in  *)
(* the teardown carries no error that lets Rollback destroy a green.         *)
LateErrors == {"ErrAborted", "ErrApi", "ErrWaitTimeout", "ErrCordonBlueMachines",
               "ErrStopBlueMachines", "ErrWaitForStoppedState",
               "ErrDestroyBlueMachines"}

LEMMA LateFailKeepsGreens ==
    ASSUME ~canDeleteGreenMachines', NEW E \in SUBSET LateErrors, err' = E
    PROVE  ~RollbackDestroys'
BY DEF RollbackDestroys, CanDestroyGreenMachines, LateErrors

LEMMA StageSafe ==
    ASSUME TypeOK, HInv, StageStep PROVE HInv'
<1>f. /\ BlueTouched' = BlueTouched
      /\ AllServe' <=> AllServe
      /\ UNCHANGED <<tracked, live, ready>>
  BY StageFrame DEF BlueTouched, AllServe, GreenServes, greens, history, blues
<1>n. ASSUME stage' \in Terminal PROVE HInv'
  BY <1>f, <1>n DEF HInv, BeforeTeardown, Teardown, Terminal
<1>e. ASSUME stage \in BeforeTeardown, stage' = "rollback" PROVE HInv'
  BY <1>f, <1>e DEF HInv, BeforeTeardown, Teardown
<1>l. ASSUME stage \in Teardown \/ (stage = "markReady" /\ AllServe),
             ~canDeleteGreenMachines', NEW E \in SUBSET LateErrors, Fail(E)
      PROVE  HInv'
  <2>1. ~RollbackDestroys'
    BY <1>l, LateFailKeepsGreens DEF Fail
  <2> QED
    BY <2>1, <1>f, <1>l DEF HInv, Fail, BeforeTeardown, Teardown
<1>t. ASSUME stage \in Teardown, UNCHANGED canDeleteGreenMachines, stage' \in Teardown
      PROVE  HInv'
  BY <1>f, <1>t DEF HInv, BeforeTeardown, Teardown
<1>1. CASE Preflight
  <2>1. CASE stage' = "rollback"
    BY <2>1, <1>1, <1>e DEF Preflight, BeforeTeardown
  <2>2. CASE Enter("create")
    <3>1. \A b \in Blue : task'[b] # "ok"
      BY <2>2 DEF Enter, initialTask, skippedBy
    <3> QED
      BY <3>1, <2>2, <1>1, <1>f DEF Preflight, Enter, HInv, BeforeTeardown, Teardown
  <2> QED
    BY <2>1, <2>2, <1>1 DEF Preflight, Fail
<1>2. CASE CreateDone
  <2>1. CASE stage' = "rollback"
    BY <2>1, <1>2, <1>e DEF CreateDone, BeforeTeardown
  <2>2. CASE PoolSucceeds /\ Enter("waitStarted")
    BY <2>2, <1>2, <1>f
       DEF CreateDone, PoolSucceeds, Enter, HInv, BeforeTeardown, Teardown
  <2> QED
    BY <2>1, <2>2, <1>2 DEF CreateDone, PoolFails, Fail
<1>3. CASE WaitStartedDone
  <2>1. CASE stage' = "rollback"
    BY <2>1, <1>3, <1>e DEF WaitStartedDone, BeforeTeardown
  <2>2. CASE Enter("waitHealthy")
    BY <2>2, <1>3, <1>f DEF WaitStartedDone, Enter, HInv, BeforeTeardown, Teardown
  <2> QED
    BY <2>1, <2>2, <1>3 DEF WaitStartedDone, WaitLoopFails, Fail
<1>4. CASE WaitHealthyDone
  <2>1. CASE stage' = "rollback"
    BY <2>1, <1>4, <1>e DEF WaitHealthyDone, BeforeTeardown
  <2>2. CASE Enter("markReady")
    <3>1. \A b \in Blue : task'[b] # "ok"
      BY <2>2 DEF Enter, initialTask, skippedBy
    <3> QED
      BY <3>1, <2>2, <1>4, <1>f DEF WaitHealthyDone, Enter, HInv, BeforeTeardown, Teardown
  <2> QED
    BY <2>1, <2>2, <1>4 DEF WaitHealthyDone, WaitLoopFails, Fail
<1>5. CASE MarkReadyDone
  <2>1. CASE PoolFails("ErrMarkReadyForTraffic")
    BY <2>1, <1>5, <1>e DEF MarkReadyDone, PoolFails, Fail, BeforeTeardown
  <2>2. CASE /\ PoolSucceeds
             /\ canDeleteGreenMachines' = FALSE
             /\ Fail({"ErrAborted"}) \/ Enter("tag")
    <3>1. AllServe
      BY <2>2, <1>5 DEF MarkReadyDone, PoolSucceeds, HInv, AllServe, GreenServes
    <3>2. CASE Fail({"ErrAborted"})
      BY <3>1, <3>2, <2>2, <1>5, <1>l DEF MarkReadyDone, LateErrors
    <3>3. CASE Enter("tag")
      BY <3>1, <3>3, <2>2, <1>f DEF Enter, HInv, BeforeTeardown, Teardown
    <3> QED
      BY <3>2, <3>3, <2>2
  <2> QED
    BY <2>1, <2>2, <1>5 DEF MarkReadyDone
<1>6. CASE TagDone
  BY <1>6, <1>l, <1>t DEF TagDone, Enter, HInv, Teardown, LateErrors
<1>7. CASE sleepAbortable("waitBeforeCordon", "cordon")
  BY <1>7, <1>l, <1>t DEF sleepAbortable, Enter, HInv, Teardown, LateErrors
<1>8. CASE CordonDone
  BY <1>8, <1>l, <1>t
     DEF CordonDone, PoolFails, PoolError, Enter, HInv, Teardown, LateErrors
<1>9. CASE sleepAbortable("waitBeforeStop", "stop")
  BY <1>9, <1>l, <1>t DEF sleepAbortable, Enter, HInv, Teardown, LateErrors
<1>10. CASE StopDone
  BY <1>10, <1>l, <1>t
     DEF StopDone, PoolFails, PoolError, Enter, HInv, Teardown, LateErrors
<1>11. CASE WaitStoppedDone
  BY <1>11, <1>l, <1>t DEF WaitStoppedDone, Enter, HInv, Teardown, LateErrors
<1>12. CASE DestroyDone
  BY <1>12, <1>l, <1>n
     DEF DestroyDone, PoolFails, PoolError, HInv, Teardown, Terminal, LateErrors
<1>13. CASE RollbackDone
  BY <1>13, <1>n DEF RollbackDone, Terminal
<1> QED
  BY <1>1, <1>2, <1>3, <1>4, <1>5, <1>6, <1>7, <1>8, <1>9, <1>10, <1>11, <1>12,
     <1>13 DEF StageStep

(* A goroutine's step: the teardown touches a blue machine only while all    *)
(* greens serve, and only Rollback, with the blues untouched, takes a green  *)
(* away.                                                                     *)
LEMMA TaskSafe ==
    ASSUME TypeOK, HInv, NEW b \in Blue, TaskStep(b) PROVE HInv'
<1> USE DEF HInv, BeforeTeardown, Teardown, AllServe, GreenServes, BlueTouched
<1>1. CASE StartTask(b)
  <2>1. \A c \in Blue : task'[c] = "ok" => task[c] = "ok"
    BY <1>1 DEF StartTask, TypeOK
  <2> QED
    BY <2>1, <1>1 DEF StartTask, control, greens, history, blues, RollbackDestroys, CanDestroyGreenMachines
<1>2. CASE Launch(b)
  <2>1. \A c \in Blue : task'[c] = "ok" => tracked'[c] \in live'[c]
    BY <1>2 DEF Launch, Succeed, GiveUp, TypeOK
  <2> QED
    BY <2>1, <1>2 DEF Launch, control, blues
<1>3. CASE LookupLaunch(b)
  <2>1. \A c \in Blue : task'[c] = "ok" => tracked'[c] \in live'[c]
    BY <1>3 DEF LookupLaunch, TypeOK, Succeed, GiveUp
  <2> QED
    BY <2>1, <1>3 DEF LookupLaunch, control, blues
<1>4. CASE SeeStarted(b)
  BY <1>4 DEF SeeStarted, control, blues
<1>5. CASE SeeHealthy(b)
  BY <1>5 DEF SeeHealthy, control, blues
<1>6. CASE UncordonGreen(b)
  <2>1. \A c \in Blue : task'[c] = "ok" => c \in ready'
    BY <1>6 DEF UncordonGreen, With, TypeOK, Succeed, Retry, GiveUp
  <2> QED
    BY <2>1, <1>6 DEF UncordonGreen, control, blues
<1>7. CASE TagBlue(b)
  BY <1>7 DEF TagBlue, control, greens, history, blues
<1>8. CASE CordonBlue(b)
  BY <1>8 DEF CordonBlue, control, greens, history
<1>9. CASE StopBlue(b)
  BY <1>9 DEF StopBlue, control, greens, history
<1>10. CASE SeeStopped(b)
  BY <1>10 DEF SeeStopped, control, greens, history, blues
<1>11. CASE DestroyBlue(b)
  BY <1>11 DEF DestroyBlue, control, greens, history
<1>12. CASE DestroyGreen(b)
  BY <1>12 DEF DestroyGreen, blues, RollbackDestroys, CanDestroyGreenMachines
<1> QED
  BY <1>1, <1>2, <1>3, <1>4, <1>5, <1>6, <1>7, <1>8, <1>9, <1>10, <1>11, <1>12
     DEF TaskStep

LEMMA HStep == TypeOK /\ HInv /\ [Next]_vars => HInv'
<1> SUFFICES ASSUME TypeOK, HInv, [Next]_vars PROVE HInv'
  OBVIOUS
<1>1. CASE StageStep
  BY <1>1, StageSafe
<1>2. CASE \E b \in Blue : TaskStep(b)
  BY <1>2, TaskSafe
<1>3. CASE Abort
  BY <1>3 DEF Abort, HInv, AllServe, GreenServes, BlueTouched, pool, control,
              greens, history, blues, RollbackDestroys, CanDestroyGreenMachines
<1>4. CASE Kill
  BY <1>4 DEF Kill, HInv, AllServe, GreenServes, BlueTouched, BeforeTeardown,
              Teardown, greens, history, blues
<1>5. CASE UNCHANGED vars
  BY <1>5 DEF vars, HInv, AllServe, GreenServes, BlueTouched,
              RollbackDestroys, CanDestroyGreenMachines
<1> QED
  BY <1>1, <1>2, <1>3, <1>4, <1>5 DEF Next, Step, Finished

(* For every app, concurrency and number of attempts, and however the list   *)
(* lags or fails, no blue machine is cordoned, stopped or destroyed unless   *)
(* every green machine exists and takes traffic, and none of them is taken   *)
(* back afterwards.                                                          *)
THEOREM HandoverSafe == Spec => []BlueKeptUntilGreenServes
<1>1. HInv => BlueKeptUntilGreenServes
  BY DEF HInv, AllServe, BlueKeptUntilGreenServes
<1> QED
  BY <1>1, TypeInit, TypeStep, HInit, HStep, PTL DEF Spec

-----------------------------------------------------------------------------
(* The strategy implements the abstract hand-over.                           *)

Old == Blue \ BlueTouched
New == {b \in Blue : GreenServes(b)}

LEMMA HandoverInit == Init => H!Init
BY DEF Init, H!Init, BlueTouched, GreenServes

LEMMA HandoverTask ==
    ASSUME TypeOK, HInv, NEW b \in Blue, TaskStep(b)
    PROVE  H!Next \/ UNCHANGED <<Old, New>>
<1> USE DEF Old, New, BlueTouched, GreenServes
<1>1. CASE UNCHANGED <<blues, tracked, live, ready>>
  BY <1>1 DEF blues
<1>2. CASE Launch(b) \/ LookupLaunch(b) \/ UncordonGreen(b)
  <2>1. UNCHANGED Old
    BY <1>2 DEF Launch, LookupLaunch, UncordonGreen, blues
  <2>2. New' = New \/ New' = New \cup {b}
    <3>1. \A c \in Blue \ {b} : c \in New' <=> c \in New
      BY <1>2 DEF Launch, LookupLaunch, UncordonGreen, With, TypeOK
    <3>2. b \in New => b \in New'
      BY <1>2 DEF Launch, LookupLaunch, UncordonGreen, With, TypeOK
    <3> QED
      BY <3>1, <3>2
  <2> QED
    BY <2>1, <2>2 DEF H!Next, H!BringUp
<1>3. CASE CordonBlue(b) \/ StopBlue(b) \/ DestroyBlue(b)
  <2>1. UNCHANGED New
    BY <1>3 DEF CordonBlue, StopBlue, DestroyBlue, greens, history
  <2>2. New = Blue
    BY <1>3 DEF CordonBlue, StopBlue, DestroyBlue, HInv, Teardown, AllServe
  <2>3. Old' = Old \/ Old' = Old \ {b}
    BY <1>3 DEF CordonBlue, StopBlue, DestroyBlue, With
  <2> QED
    BY <2>1, <2>2, <2>3 DEF H!Next, H!GiveUp
<1>4. CASE DestroyGreen(b)
  <2>1. UNCHANGED Old /\ Old = Blue
    BY <1>4 DEF DestroyGreen, blues, HInv
  <2>2. New' = New \/ New' = New \ {b}
    <3>1. \A c \in Blue \ {b} : c \in New' <=> c \in New
      BY <1>4 DEF DestroyGreen, TypeOK
    <3>2. b \in New' => b \in New
      BY <1>4 DEF DestroyGreen, TypeOK
    <3> QED
      BY <3>1, <3>2
  <2> QED
    BY <2>1, <2>2 DEF H!Next, H!Withdraw
<1> QED
  BY <1>1, <1>2, <1>3, <1>4
     DEF TaskStep, StartTask, SeeStarted, SeeHealthy, TagBlue, SeeStopped, greens, history, blues

LEMMA HandoverStep ==
    TypeOK /\ HInv /\ [Next]_vars => [H!Next]_<<Old, New>>
<1> SUFFICES ASSUME TypeOK, HInv, [Next]_vars
             PROVE  H!Next \/ UNCHANGED <<Old, New>>
  OBVIOUS
<1>1. CASE \E b \in Blue : TaskStep(b)
  BY <1>1, HandoverTask
<1>2. CASE UNCHANGED <<greens, blues>>
  BY <1>2 DEF Old, New, BlueTouched, GreenServes, greens, history, blues
<1> QED
  BY <1>1, <1>2, StageFrame DEF Next, Step, Finished, Abort, Kill, vars, greens, history, blues

(* Every behaviour of the blue-green strategy is a behaviour of the abstract *)
(* hand-over: at every instant the blue fleet is untouched or the green one  *)
(* is whole.                                                                 *)
THEOREM ImplementsHandover == Spec => HandoverSpec
BY TypeInit, TypeStep, HInit, HStep, HandoverInit, HandoverStep, PTL
   DEF Spec, HandoverSpec, H!Spec, Old, New
-----------------------------------------------------------------------------
(* Traffic only after the health checks.  What each wait has established is  *)
(* remembered: a goroutine that is done saw its machine started or passing   *)
(* its checks, and a stage that is entered finds all of them seen.           *)

BeforeReady == {"start", "create", "waitStarted", "waitHealthy"}

AllStarted == \A b \in Blue : b \in Skipped \/ b \in started
AllHealthy ==
    \A b \in Blue : b \in Skipped \/ ~machineHasConfiguredChecks(b) \/ b \in healthy

HealthInv ==
    /\ stage \in BeforeReady => ready = {}
    /\ stage = "waitStarted" =>
          \A b \in Blue : task[b] = "ok" => b \in Skipped \/ b \in started
    /\ stage \in {"waitHealthy", "markReady"} => AllStarted
    /\ stage = "waitHealthy" =>
          \A b \in Blue : task[b] = "ok" =>
              b \in Skipped \/ ~machineHasConfiguredChecks(b) \/ b \in healthy
    /\ stage = "markReady" => AllHealthy
    /\ ready # {} => AllStarted /\ AllHealthy

(* The moves of Deploy from one stage to the next.                           *)
LEMMA StageMoves ==
    ASSUME StageStep
    PROVE  \/ stage = "start" /\ Enter("create")
           \/ stage = "create" /\ PoolSucceeds /\ Enter("waitStarted")
           \/ stage = "waitStarted" /\ PoolSucceeds /\ Enter("waitHealthy")
           \/ stage = "waitHealthy" /\ PoolSucceeds /\ Enter("markReady")
           \/ stage \in {"markReady"} \cup Teardown /\ stage' \in Teardown \ {"destroy"}
           \/ stage = "waitStopped" /\ Enter("destroy")
           \/ stage = "destroy" /\ PoolSucceeds /\ stage' = "complete"
           \/ /\ stage \in BeforeTeardown \cup Teardown
              /\ stage = "create" => PoolDone
              /\ stage' = "rollback"
           \/ RollbackDone
<1> USE DEF BeforeTeardown, Teardown, Fail
<1>1. CASE Preflight \/ CreateDone \/ WaitStartedDone \/ WaitHealthyDone
  BY <1>1 DEF Preflight, CreateDone, WaitStartedDone, WaitHealthyDone,
              PoolFails, PoolSucceeds, PoolDone, TaskDone, WaitLoopFails
<1>2. CASE MarkReadyDone \/ TagDone \/ CordonDone \/ StopDone
  BY <1>2 DEF MarkReadyDone, TagDone, CordonDone, StopDone, PoolFails, Enter
<1>3. CASE \/ sleepAbortable("waitBeforeCordon", "cordon")
           \/ sleepAbortable("waitBeforeStop", "stop")
  BY <1>3 DEF sleepAbortable, Enter
<1>4. CASE WaitStoppedDone \/ DestroyDone \/ RollbackDone
  BY <1>4 DEF WaitStoppedDone, DestroyDone, PoolFails
<1> QED
  BY <1>1, <1>2, <1>3, <1>4 DEF StageStep

LEMMA HealthInit == Init => HealthInv
BY DEF Init, HealthInv, BeforeReady

LEMMA HealthStage ==
    ASSUME TypeOK, HealthInv, StageStep PROVE HealthInv'
<1>f. /\ UNCHANGED <<cfg, ready, started, healthy>>
      /\ Skipped' = Skipped
      /\ \A b : machineHasConfiguredChecks(b)' <=> machineHasConfiguredChecks(b)
  BY StageFrame DEF greens, history, Skipped, forceStartRepresentatives, machineHasConfiguredChecks
<1>a. (AllStarted' <=> AllStarted) /\ (AllHealthy' <=> AllHealthy)
  BY <1>f DEF AllStarted, AllHealthy
<1>1. CASE stage = "start" /\ Enter("create")
  BY <1>1, <1>f, <1>a DEF HealthInv, BeforeReady, Enter
<1>2. CASE stage = "create" /\ PoolSucceeds /\ Enter("waitStarted")
  <2>1. \A b \in Blue : task'[b] = "ok" => b \in Skipped
    BY <1>2 DEF Enter, initialTask, skippedBy
  <2> QED
    BY <2>1, <1>2, <1>f, <1>a DEF HealthInv, BeforeReady, Enter
<1>3. CASE stage = "waitStarted" /\ PoolSucceeds /\ Enter("waitHealthy")
  <2>1. AllStarted
    BY <1>3 DEF HealthInv, PoolSucceeds, AllStarted
  <2>2. \A b \in Blue : task'[b] = "ok"
            => b \in Skipped \/ ~machineHasConfiguredChecks(b)
    BY <1>3 DEF Enter, initialTask, skippedBy
  <2> QED
    BY <2>1, <2>2, <1>3, <1>f, <1>a DEF HealthInv, BeforeReady, Enter
<1>4. CASE stage = "waitHealthy" /\ PoolSucceeds /\ Enter("markReady")
  <2>1. AllStarted /\ AllHealthy
    BY <1>4 DEF HealthInv, PoolSucceeds, AllHealthy
  <2> QED
    BY <2>1, <1>4, <1>f, <1>a DEF HealthInv, BeforeReady, Enter
<1>5. CASE stage' \notin BeforeReady \cup {"markReady"}
  BY <1>5, <1>f, <1>a DEF HealthInv, BeforeReady
<1> QED
  BY <1>1, <1>2, <1>3, <1>4, <1>5, StageMoves DEF BeforeReady, Teardown, Enter, RollbackDone

LEMMA HealthTask ==
    ASSUME TypeOK, HealthInv, NEW b \in Blue, TaskStep(b) PROVE HealthInv'
<1>c. UNCHANGED cfg
  BY DEF TaskStep, StartTask, Launch, LookupLaunch, SeeStarted, SeeHealthy,
         UncordonGreen, TagBlue, CordonBlue, StopBlue, SeeStopped, DestroyBlue,
         DestroyGreen
<1>f. /\ Skipped' = Skipped
      /\ \A c : machineHasConfiguredChecks(c)' <=> machineHasConfiguredChecks(c)
  BY <1>c DEF Skipped, forceStartRepresentatives, machineHasConfiguredChecks
<1>a. ASSUME UNCHANGED <<started, healthy>>
      PROVE  (AllStarted' <=> AllStarted) /\ (AllHealthy' <=> AllHealthy)
  BY <1>a, <1>f DEF AllStarted, AllHealthy
<1>1. CASE StartTask(b)
  BY <1>1, <1>a DEF StartTask, control, greens, history, HealthInv, BeforeReady
<1>2. CASE Launch(b) \/ LookupLaunch(b)
  BY <1>2, <1>a DEF Launch, LookupLaunch, control, HealthInv, BeforeReady
<1>3. CASE SeeStarted(b)
  <2>1. \A c \in Blue : task'[c] = "ok" => c \in Skipped \/ c \in started'
    BY <1>3 DEF SeeStarted, Succeed, GiveUp, HealthInv, TypeOK
  <2> QED
    BY <2>1, <1>3, <1>f DEF SeeStarted, control, HealthInv, BeforeReady
<1>4. CASE SeeHealthy(b)
  <2>1. \A c \in Blue : task'[c] = "ok"
            => c \in Skipped \/ ~machineHasConfiguredChecks(c) \/ c \in healthy'
    BY <1>4 DEF SeeHealthy, Succeed, GiveUp, HealthInv, TypeOK
  <2>2. AllStarted'
    BY <1>4, <1>f DEF SeeHealthy, HealthInv, AllStarted
  <2> QED
    BY <2>1, <2>2, <1>4, <1>f DEF SeeHealthy, control, HealthInv, BeforeReady
<1>5. CASE UncordonGreen(b)
  BY <1>5, <1>a DEF UncordonGreen, control, HealthInv, BeforeReady
<1>6. CASE TagBlue(b) \/ CordonBlue(b) \/ StopBlue(b) \/ SeeStopped(b) \/ DestroyBlue(b)
  BY <1>6, <1>a DEF TagBlue, CordonBlue, StopBlue, SeeStopped, DestroyBlue,
                    control, greens, history, HealthInv, BeforeReady
<1>7. CASE DestroyGreen(b)
  BY <1>7, <1>a DEF DestroyGreen, HealthInv, BeforeReady
<1> QED
  BY <1>1, <1>2, <1>3, <1>4, <1>5, <1>6, <1>7 DEF TaskStep

LEMMA HealthStep == TypeOK /\ HealthInv /\ [Next]_vars => HealthInv'
<1> SUFFICES ASSUME TypeOK, HealthInv, [Next]_vars PROVE HealthInv'
  OBVIOUS
<1>1. CASE StageStep
  BY <1>1, HealthStage
<1>2. CASE \E b \in Blue : TaskStep(b)
  BY <1>2, HealthTask
<1>3. CASE /\ UNCHANGED <<cfg, started, healthy, ready>>
           /\ UNCHANGED <<stage, task>> \/ stage' = "killed"
  <2>1. /\ Skipped' = Skipped
        /\ \A c : machineHasConfiguredChecks(c)' <=> machineHasConfiguredChecks(c)
    BY <1>3 DEF Skipped, forceStartRepresentatives, machineHasConfiguredChecks
  <2>2. (AllStarted' <=> AllStarted) /\ (AllHealthy' <=> AllHealthy)
    BY <2>1, <1>3 DEF AllStarted, AllHealthy
  <2> QED
    BY <2>1, <2>2, <1>3 DEF HealthInv, BeforeReady
<1> QED
  BY <1>1, <1>2, <1>3
     DEF Next, Step, Finished, Abort, Kill, vars, pool, control, greens, history

(* Every process group with checks has a machine that is started: one that   *)
(* would be anyway, or its lowest-numbered one, which is promoted.           *)
LEMMA GroupIsVerified ==
    ASSUME TypeOK, NEW b \in Blue, machineHasConfiguredChecks(b)
    PROVE  \E c \in Blue \ Skipped : cfg.group[c] = cfg.group[b]
<1> DEFINE Same == {c \in Blue : cfg.group[c] = cfg.group[b]}
<1>1. CASE \E c \in Same : c \notin cfg.skipLaunch
  BY <1>1 DEF Skipped
<1>2. CASE \A c \in Same : c \in cfg.skipLaunch
  <2>1. Same \in SUBSET Nat /\ Same # {}
    BY NumAssumption DEF Blue
  <2>2. PICK m \in Same : \A c \in Same : <<c, m>> \notin OpToRel(<, Nat)
    BY <2>1, NatLessThanWellFounded, WFMin
  <2>3. ASSUME NEW c \in Same PROVE m <= c
    <3>1. m \in Nat /\ c \in Nat
      BY <2>1
    <3>2. ~(c < m)
      BY <3>1, <2>2 DEF OpToRel
    <3> QED
      BY <3>1, <3>2
  <2>4. machineHasConfiguredChecks(m)
    BY DEF machineHasConfiguredChecks
  <2>5. m \in forceStartRepresentatives
    BY <1>2, <2>3, <2>4 DEF forceStartRepresentatives
  <2> QED
    BY <2>5 DEF Skipped
<1> QED
  BY <1>1, <1>2

(* For every app, concurrency and number of attempts, a green machine gets   *)
(* traffic only after every started green was seen started, every one with   *)
(* checks was seen passing them, and each process group with checks had a    *)
(* machine to verify.                                                        *)
THEOREM TrafficFollowsHealth == Spec => []TrafficOnlyAfterHealth
<1>1. ASSUME TypeOK, HealthInv PROVE TrafficOnlyAfterHealth
  <2> SUFFICES ASSUME ready # {} PROVE TrafficOnlyAfterHealth
    BY DEF TrafficOnlyAfterHealth
  <2>1. \A b \in Blue \ Skipped :
            b \in started /\ (machineHasConfiguredChecks(b) => b \in healthy)
    BY <1>1 DEF HealthInv, AllStarted, AllHealthy
  <2>2. ASSUME NEW b \in Blue, machineHasConfiguredChecks(b)
        PROVE  \E c \in healthy : cfg.group[c] = cfg.group[b]
    <3>1. PICK c \in Blue \ Skipped : cfg.group[c] = cfg.group[b]
      BY <1>1, <2>2, GroupIsVerified
    <3>2. machineHasConfiguredChecks(c)
      BY <2>2, <3>1 DEF machineHasConfiguredChecks
    <3> QED
      BY <2>1, <3>1, <3>2
  <2> QED
    BY <2>1, <2>2 DEF TrafficOnlyAfterHealth
<1> QED
  BY <1>1, TypeInit, TypeStep, HealthInit, HealthStep, PTL DEF Spec

-----------------------------------------------------------------------------
(* A machine destroyed or reported, one by one and then altogether.          *)
ReplaceInv ==
    /\ stage = "destroy" =>
          \A b \in Blue : task[b] = "ok" => b \in destroyed \cup hanging
    /\ stage = "complete" =>
          AllServe /\ \A b \in Blue : b \in destroyed \cup hanging

LEMMA ReplaceInit == Init => ReplaceInv
BY DEF Init, ReplaceInv

LEMMA ReplaceStep == TypeOK /\ HInv /\ ReplaceInv /\ [Next]_vars => ReplaceInv'
<1> SUFFICES ASSUME TypeOK, HInv, ReplaceInv, [Next]_vars PROVE ReplaceInv'
  OBVIOUS
<1>o. CASE stage' \notin {"destroy", "complete"}
  BY <1>o DEF ReplaceInv
<1>1. CASE StageStep
  <2>1. CASE Enter("destroy")
    <3>1. \A b \in Blue : task'[b] # "ok"
      BY <2>1 DEF Enter, initialTask, skippedBy
    <3> QED
      BY <3>1, <2>1 DEF Enter, ReplaceInv
  <2>2. CASE stage = "destroy" /\ PoolSucceeds /\ stage' = "complete"
    <3>1. AllServe /\ \A b \in Blue : b \in destroyed \cup hanging
      BY <2>2 DEF HInv, Teardown, ReplaceInv, PoolSucceeds
    <3>2. UNCHANGED <<tracked, live, ready, destroyed, hanging>>
      BY <1>1, StageFrame DEF greens, history, blues
    <3> QED
      BY <3>1, <3>2, <2>2 DEF ReplaceInv, AllServe, GreenServes
  <2> QED
    BY <2>1, <2>2, <1>o, <1>1, StageMoves DEF Enter, Teardown, RollbackDone
<1>2. ASSUME NEW b \in Blue, TaskStep(b) PROVE ReplaceInv'
  <2>1. CASE StartTask(b)
    <3>1. \A c \in Blue : task'[c] = "ok" => task[c] = "ok"
      BY <2>1 DEF StartTask, TypeOK
    <3> QED
      BY <3>1, <2>1 DEF StartTask, control, blues, ReplaceInv
  <2>2. CASE DestroyBlue(b)
    <3>1. \A c \in Blue : task'[c] = "ok" => c \in destroyed' \cup hanging'
      BY <2>2 DEF DestroyBlue, With, Succeed, Retry, GiveUp, reportHanging,
                  ReplaceInv, TypeOK
    <3> QED
      BY <3>1, <2>2 DEF DestroyBlue, control, ReplaceInv
  <2> QED
    BY <2>1, <2>2, <1>2, <1>o
       DEF TaskStep, Launch, LookupLaunch, SeeStarted, SeeHealthy, UncordonGreen,
           TagBlue, CordonBlue, StopBlue, SeeStopped, DestroyGreen, control
<1>3. CASE Abort \/ Kill \/ UNCHANGED vars
  <2>1. CASE Kill
    BY <2>1, <1>o DEF Kill
  <2>2. CASE Abort \/ UNCHANGED vars
    BY <2>2 DEF Abort, vars, pool, control, greens, history, blues, ReplaceInv, AllServe,
                GreenServes
  <2> QED
    BY <2>1, <2>2, <1>3
<1> QED
  BY <1>1, <1>2, <1>3 DEF Next, Step, Finished

(* For every app, concurrency and number of attempts, a deployment that      *)
(* reports success has given every machine a green one that serves, and has  *)
(* destroyed its blue one or reported it for manual removal.                 *)
THEOREM SuccessReplacesAll == Spec => []CompleteIsReplaced
<1>1. ReplaceInv => CompleteIsReplaced
  BY DEF ReplaceInv, AllServe, CompleteIsReplaced
<1> QED
  BY <1>1, TypeInit, TypeStep, HInit, HStep, ReplaceInit, ReplaceStep, PTL DEF Spec

-----------------------------------------------------------------------------
(* The launches.  A goroutine that is about to launch has no machine yet but *)
(* those its lookups missed, and of the machines flyctl was given only the   *)
(* tracked one is left.                                                      *)
LaunchInv ==
    /\ \A b \in Blue : \E k \in Nat : live[b] \ missed[b] \subseteq {k}
    /\ \A b \in Blue : told[b] \cap live[b] \subseteq {tracked[b]}
    /\ stage = "create" =>
          \A b \in Blue : /\ task[b] # "ok" => tracked[b] = 0 /\ told[b] = {}
                          /\ task[b] \in {"idle", "run"} => live[b] \subseteq missed[b]
    /\ stage = "start" =>
          \A b \in Blue : tracked[b] = 0 /\ told[b] = {} /\ live[b] = {}

LEMMA LaunchInit == Init => LaunchInv
BY DEF Init, LaunchInv

LEMMA LaunchStage ==
    ASSUME TypeOK, LaunchInv, StageStep PROVE LaunchInv'
<1>f. UNCHANGED <<tracked, live, told, missed>>
  BY StageFrame DEF greens, history
<1>1. CASE stage = "start" /\ Enter("create")
  BY <1>1, <1>f DEF LaunchInv, Enter
<1>2. CASE stage' \notin {"start", "create"}
  BY <1>2, <1>f DEF LaunchInv
<1> QED
  BY <1>1, <1>2, StageMoves DEF Enter, Teardown, RollbackDone

(* A launch is tried again only after a lookup that showed no machine, so    *)
(* every machine that exists by then is one a lookup missed.                 *)
LEMMA LaunchTask ==
    ASSUME TypeOK, LaunchInv, NEW b \in Blue, TaskStep(b) PROVE LaunchInv'
<1>1. CASE StartTask(b)
  <2>1. \A c \in Blue : /\ task'[c] = "ok" <=> task[c] = "ok"
                        /\ task'[c] \in {"idle", "run"} => task[c] \in {"idle", "run"}
    BY <1>1 DEF StartTask, TypeOK
  <2> QED
    BY <2>1, <1>1 DEF StartTask, control, greens, history, LaunchInv
<1>2. CASE Launch(b)
  <2>1. /\ live[b] \subseteq missed[b] /\ tracked[b] = 0
        /\ told[b] = {} /\ attempt[b] \in Nat \ {0}
    BY <1>2 DEF Launch, LaunchInv, TypeOK
  <2>2. /\ live'[b] \subseteq live[b] \cup {attempt[b]}
        /\ \/ tracked'[b] = attempt[b] /\ told'[b] = {attempt[b]}
           \/ tracked'[b] = 0 /\ told'[b] = {}
        /\ task'[b] # "ok" => tracked'[b] = 0 /\ told'[b] = {}
        /\ task'[b] \in {"ok", "err", "lookup"}
        /\ UNCHANGED missed
    BY <2>1, <1>2 DEF Launch, Succeed, GiveUp, TypeOK
  <2>3. live'[b] \ missed'[b] \subseteq {attempt[b]}
    BY <2>1, <2>2
  <2>4. told'[b] \cap live'[b] \subseteq {tracked'[b]}
    BY <2>2
  <2>5. \A c \in Blue \ {b} :
            /\ live'[c] = live[c] /\ tracked'[c] = tracked[c]
            /\ task'[c] = task[c] /\ told'[c] = told[c] /\ missed'[c] = missed[c]
    BY <1>2 DEF Launch, Succeed, GiveUp, TypeOK
  <2>6. stage' = "create" /\ stage = "create"
    BY <1>2 DEF Launch, control
  <2> QED
    BY <2>1, <2>2, <2>3, <2>4, <2>5, <2>6 DEF LaunchInv
<1>3. CASE LookupLaunch(b)
  <2>1. /\ tracked[b] = 0 /\ UNCHANGED live /\ stage = "create" /\ stage' = "create"
        /\ told[b] = {}
    BY <1>3 DEF LookupLaunch, LaunchInv, TypeOK, control
  <2>2. \A c \in Blue \ {b} : /\ tracked'[c] = tracked[c] /\ task'[c] = task[c]
                             /\ told'[c] = told[c] /\ missed'[c] = missed[c]
    BY <1>3 DEF LookupLaunch, Succeed, GiveUp, TypeOK
  <2>3. PICK shown \in SUBSET live[b] :
          /\ missed'[b] = missed[b] \cup (live[b] \ shown)
          /\ \/ \E k \in shown : /\ tracked'[b] = k /\ told'[b] = told[b] \cup {k}
                                  /\ task'[b] = "ok"
             \/ /\ shown = {} /\ tracked'[b] = 0 /\ told'[b] = told[b]
                /\ task'[b] \in {"run", "err"}
    BY <2>1, <1>3 DEF LookupLaunch, adopts, Succeed, GiveUp, TypeOK
  <2>4. \E k \in Nat : live'[b] \ missed'[b] \subseteq {k}
    BY <2>1, <2>3 DEF LaunchInv
  <2>5. told'[b] \cap live'[b] \subseteq {tracked'[b]}
    BY <2>1, <2>3
  <2>6. /\ task'[b] # "ok" => tracked'[b] = 0 /\ told'[b] = {}
        /\ task'[b] \in {"idle", "run"} => live'[b] \subseteq missed'[b]
    BY <2>1, <2>3
  <2> QED
    BY <2>1, <2>2, <2>4, <2>5, <2>6 DEF LaunchInv
<1>4. CASE DestroyGreen(b)
  <2>1. \A c \in Blue \ {b} : live'[c] = live[c] /\ tracked'[c] = tracked[c]
    BY <1>4 DEF DestroyGreen, TypeOK
  <2>2. /\ live'[b] \subseteq live[b]
        /\ \/ tracked'[b] = tracked[b]
           \/ live'[b] = live[b] \ {tracked[b]}
    BY <1>4 DEF DestroyGreen, TypeOK
  <2>3. /\ stage' \in {"rollback", "rollbackFailed"}
        /\ UNCHANGED <<told, missed>>
    BY <1>4 DEF DestroyGreen, history
  <2>4. told'[b] \cap live'[b] \subseteq {tracked'[b]}
    BY <2>2, <2>3 DEF LaunchInv
  <2>5. \E k \in Nat : live'[b] \ missed'[b] \subseteq {k}
    BY <2>2, <2>3 DEF LaunchInv
  <2> QED
    BY <2>1, <2>3, <2>4, <2>5 DEF LaunchInv
<1>5. CASE stage \notin {"start", "create"} /\ UNCHANGED <<stage, tracked, live, told, missed>>
  BY <1>5 DEF LaunchInv
<1> QED
  BY <1>1, <1>2, <1>3, <1>4, <1>5
     DEF TaskStep, SeeStarted, SeeHealthy, UncordonGreen, TagBlue, CordonBlue,
         StopBlue, SeeStopped, DestroyBlue, control, greens, history

LEMMA LaunchStep == TypeOK /\ LaunchInv /\ [Next]_vars => LaunchInv'
<1> SUFFICES ASSUME TypeOK, LaunchInv, [Next]_vars PROVE LaunchInv'
  OBVIOUS
<1>1. CASE StageStep
  BY <1>1, LaunchStage
<1>2. CASE \E b \in Blue : TaskStep(b)
  BY <1>2, LaunchTask
<1>3. CASE /\ UNCHANGED <<tracked, live, told, missed>>
           /\ UNCHANGED <<stage, task>> \/ stage' = "killed"
  BY <1>3 DEF LaunchInv
<1> QED
  BY <1>1, <1>2, <1>3
     DEF Next, Step, Finished, Abort, Kill, vars, pool, control, greens, history

(* For every app, concurrency and number of attempts, whatever the launches  *)
(* answered and the lookups showed: but for the machines a lookup missed,    *)
(* the retries of launchGreenMachineWithRetry leave at most one machine per  *)
(* launch.                                                                   *)
THEOREM LaunchesOnce == Spec => []OneGreenPerLaunch
<1>1. ASSUME LaunchInv PROVE OneGreenPerLaunch
  <2> SUFFICES ASSUME NEW b \in Blue PROVE Cardinality(live[b] \ missed[b]) <= 1
    BY DEF OneGreenPerLaunch
  <2>1. PICK k \in Nat : live[b] \ missed[b] \subseteq {k}
    BY <1>1 DEF LaunchInv
  <2>2. IsFiniteSet({k}) /\ Cardinality({k}) = 1
    BY FS_Singleton
  <2>3. /\ Cardinality(live[b] \ missed[b]) <= Cardinality({k})
        /\ Cardinality(live[b] \ missed[b]) \in Nat
    BY <2>1, <2>2, FS_Subset, FS_CardinalityType
  <2> QED
    BY <2>2, <2>3
<1> QED
  BY <1>1, TypeInit, TypeStep, LaunchInit, LaunchStep, PTL DEF Spec

-----------------------------------------------------------------------------
(* A failed deployment.  Before the greens are released for traffic every    *)
(* failure lets Rollback destroy them; from then on none does, and all of    *)
(* them serve.                                                               *)
Unchanged == BlueTouched = {} /\ \A b \in Blue : told[b] \cap live[b] = {}

FailInv ==
    /\ stage \in BeforeTeardown => canDeleteGreenMachines
    /\ stage = "rollback" /\ ~RollbackDestroys => AllServe \/ Unchanged
    /\ stage = "failed" => AllServe \/ Unchanged

LEMMA FailInit == Init => FailInv
BY DEF Init, FailInv

(* An error of a stage that creates or prepares the greens lets Rollback     *)
(* destroy them, unless all of them serve by then.                           *)
LEMMA EarlyFailDestroys ==
    ASSUME TypeOK, HInv, FailInv, StageStep,
           stage \in BeforeTeardown \ {"start"}, stage' = "rollback"
    PROVE  RollbackDestroys' \/ AllServe
<1> DEFINE early == {"ErrCreateGreenMachine", "ErrWaitForStartedState",
                     "ErrWaitForHealthy", "ErrMarkReadyForTraffic"}
<1> USE DEF BeforeTeardown
<1>c. canDeleteGreenMachines
  BY DEF FailInv
<1>1. ASSUME NEW x \in {"ErrAborted", "ErrApi", "ErrWaitTimeout"}, NEW e \in early,
             Fail({x, e})
      PROVE  RollbackDestroys'
  BY <1>1 DEF Fail, RollbackDestroys, CanDestroyGreenMachines
<1>2. ASSUME Fail({"ErrAborted"}), UNCHANGED canDeleteGreenMachines
      PROVE  RollbackDestroys'
  BY <1>2, <1>c DEF Fail, RollbackDestroys, CanDestroyGreenMachines
<1>3. CASE CreateDone
  BY <1>1, <1>2, <1>3 DEF CreateDone, PoolFails, PoolError, Enter
<1>4. CASE WaitStartedDone
  BY <1>1, <1>2, <1>4 DEF WaitStartedDone, WaitLoopFails, Enter
<1>5. CASE WaitHealthyDone
  BY <1>1, <1>2, <1>5 DEF WaitHealthyDone, WaitLoopFails, Enter
<1>6. CASE MarkReadyDone
  <2>1. CASE PoolFails("ErrMarkReadyForTraffic")
    BY <2>1, <1>1 DEF PoolFails, PoolError
  <2>2. CASE PoolSucceeds
    BY <2>2, <1>6 DEF MarkReadyDone, PoolSucceeds, HInv, AllServe, GreenServes
  <2> QED
    BY <2>1, <2>2, <1>6 DEF MarkReadyDone
<1> QED
  BY <1>3, <1>4, <1>5, <1>6
     DEF StageStep, Preflight, TagDone, sleepAbortable, CordonDone, StopDone,
         WaitStoppedDone, DestroyDone, RollbackDone

LEMMA FailStage ==
    ASSUME TypeOK, HInv, LaunchInv, FailInv, StageStep PROVE FailInv'
<1>f. /\ AllServe' <=> AllServe
      /\ Unchanged' <=> Unchanged
      /\ UNCHANGED <<tracked, live>>
  BY StageFrame DEF BlueTouched, AllServe, GreenServes, Unchanged, greens, history, blues
<1>1. CASE stage' \in BeforeTeardown
  <2>1. stage \in BeforeTeardown /\ UNCHANGED canDeleteGreenMachines
    BY <1>1, StageMoves
       DEF StageStep, Preflight, CreateDone, WaitStartedDone, WaitHealthyDone,
           MarkReadyDone, TagDone, sleepAbortable, CordonDone, StopDone,
           WaitStoppedDone, DestroyDone, RollbackDone, Enter, Fail, PoolFails,
           BeforeTeardown, Teardown
  <2> QED
    BY <2>1, <1>1 DEF FailInv, BeforeTeardown
<1>2. CASE stage' = "rollback"
  <2>1. CASE stage = "start"
    BY <2>1, <1>2, <1>f DEF FailInv, HInv, LaunchInv, Unchanged, BeforeTeardown
  <2>2. CASE stage \in BeforeTeardown \ {"start"}
    BY <2>2, <1>2, <1>f, EarlyFailDestroys DEF FailInv, BeforeTeardown
  <2>3. CASE stage \in Teardown
    BY <2>3, <1>2, <1>f DEF FailInv, HInv, BeforeTeardown
  <2> QED
    BY <2>1, <2>2, <2>3, <1>2, StageMoves DEF Enter, Teardown, RollbackDone
<1>3. CASE RollbackDone
  <2>1. CASE RollbackDestroys
    <3>1. Unchanged
      <4>1. BlueTouched = {}
        BY <2>1, <1>3 DEF RollbackDone, HInv
      <4>2. ASSUME NEW b \in Blue PROVE told[b] \cap live[b] = {}
        <5>1. told[b] \cap live[b] \subseteq {0} /\ live[b] \subseteq Nat \ {0}
          BY <2>1, <1>3 DEF RollbackDone, LaunchInv, TypeOK
        <5> QED
          BY <5>1
      <4> QED
        BY <4>1, <4>2 DEF Unchanged
    <3> QED
      BY <3>1, <1>3, <1>f DEF RollbackDone, FailInv, BeforeTeardown
  <2>2. CASE ~RollbackDestroys
    BY <2>2, <1>3, <1>f DEF RollbackDone, FailInv, BeforeTeardown
  <2> QED
    BY <2>1, <2>2
<1>4. CASE stage' \in Teardown \cup {"complete"}
  BY <1>4 DEF FailInv, BeforeTeardown, Teardown
<1> QED
  BY <1>1, <1>2, <1>3, <1>4, StageMoves DEF Enter, BeforeTeardown, Teardown

LEMMA FailStep ==
    TypeOK /\ HInv /\ LaunchInv /\ FailInv /\ [Next]_vars => FailInv'
<1> SUFFICES ASSUME TypeOK, HInv, LaunchInv, FailInv, [Next]_vars PROVE FailInv'
  OBVIOUS
<1>1. CASE StageStep
  BY <1>1, FailStage
<1>2. ASSUME NEW b \in Blue, TaskStep(b) PROVE FailInv'
  <2>1. CASE DestroyGreen(b)
    BY <2>1 DEF DestroyGreen, FailInv, BeforeTeardown, RollbackDestroys,
                CanDestroyGreenMachines
  <2>2. CASE stage \in DeployStages /\ UNCHANGED <<stage, canDeleteGreenMachines>>
    BY <2>2 DEF FailInv, DeployStages
  <2> QED
    BY <2>1, <2>2, <1>2
       DEF TaskStep, StartTask, Launch, LookupLaunch, SeeStarted, SeeHealthy,
           UncordonGreen, TagBlue, CordonBlue, StopBlue, SeeStopped, DestroyBlue,
           control, DeployStages
<1>3. CASE Kill
  BY <1>3 DEF Kill, FailInv, BeforeTeardown
<1>4. CASE Abort \/ UNCHANGED vars
  BY <1>4 DEF Abort, vars, control, greens, history, blues, FailInv, RollbackDestroys,
              CanDestroyGreenMachines, AllServe, GreenServes, Unchanged, BlueTouched
<1> QED
  BY <1>1, <1>2, <1>3, <1>4 DEF Next, Step, Finished

(* For every app, concurrency and number of attempts, whatever the launches  *)
(* answered and the lookups showed, a failed deployment whose rollback went  *)
(* through leaves every blue machine untouched and destroyed the greens      *)
(* flyctl was given, or leaves the app entirely on green machines.           *)
THEOREM FailureIsAllOrNothing == Spec => []FailedIsAllOrNothing
<1>1. FailInv => FailedIsAllOrNothing
  BY DEF FailInv, AllServe, Unchanged, FailedIsAllOrNothing
<1> QED
  BY <1>1, TypeInit, TypeStep, HInit, HStep, LaunchInit, LaunchStep, FailInit,
     FailStep, PTL DEF Spec
=============================================================================
