------------------------ MODULE MachineLeasesProofs ------------------------
(***************************************************************************)
(* Proofs about leasable machines (internal/machine/leasable_machine.go):  *)
(* about their leases, for any set of machines, and about waiting for one, *)
(* for any states waited for.                                              *)
(***************************************************************************)
EXTENDS MachineLeases, MachineWaits, FiniteSetTheorems, TLAPS

LEMMA TypeInit == Init => TypeOK
BY GrantsAssumption DEF Init, TypeOK, Free, Other

(* Each goroutine's step keeps the types.                                    *)
LEMMA TypeStep == TypeOK /\ [Next]_vars => TypeOK'
<1> SUFFICES ASSUME TypeOK, [Next]_vars PROVE TypeOK'
  OBVIOUS
<1> USE GrantsAssumption DEF TypeOK, Free, Other
<1>1. CASE AcquireDone
  BY <1>1 DEF AcquireDone, rel
<1>2. CASE WorkDone
  BY <1>2 DEF WorkDone, client, rel
<1>3. CASE ReleaseDone
  BY <1>3 DEF ReleaseDone, client, rel
<1>4. CASE Cancel
  BY <1>4 DEF Cancel, rel
<1>5. ASSUME NEW m \in Machines, MachineStep(m) PROVE TypeOK'
  <2>1. CASE SendAcquire(m)
    BY <2>1 DEF SendAcquire, rel
  <2>2. CASE ServeAcquire(m)
    BY <2>2 DEF ServeAcquire, Grant, rel
  <2>3. CASE AcquireLease(m)
    BY <2>3 DEF AcquireLease, rel
  <2>4. CASE AcquireFails(m)
    BY <2>4 DEF AcquireFails, rel
  <2>5. CASE Wake(m)
    BY <2>5 DEF Wake, rel
  <2>6. CASE LockForRefresh(m)
    BY <2>6 DEF LockForRefresh, rel
  <2>7. CASE ServeRefresh(m)
    BY <2>7 DEF ServeRefresh, Grant, rel
  <2>8. CASE RefreshLease(m)
    BY <2>8 DEF RefreshLease, rel
  <2>9. CASE LockForRelease(m)
    BY <2>9 DEF LockForRelease, resetLease, rel
  <2>10. CASE ServeRelease(m)
    BY <2>10 DEF ServeRelease, rel
  <2>11. CASE ReleaseFails(m)
    BY <2>11 DEF ReleaseFails, rel
  <2>12. CASE ReleaseLease(m)
    BY <2>12 DEF ReleaseLease, rel
  <2>13. CASE Destroy(m)
    BY <2>13 DEF Destroy, rel
  <2>14. CASE OtherAcquires(m)
    BY <2>14 DEF OtherAcquires, client, rel
  <2>15. CASE Expire(m)
    BY <2>15 DEF Expire, client, rel
  <2> QED
    BY <1>5, <2>1, <2>2, <2>3, <2>4, <2>5, <2>6, <2>7, <2>8,
       <2>9, <2>10, <2>11, <2>12, <2>13, <2>14, <2>15
       DEF MachineStep, AcquireStep, RefresherStep, ReleaseStep
<1>6. CASE UNCHANGED vars
  BY <1>6 DEF vars
<1> QED
  BY <1>1, <1>2, <1>3, <1>4, <1>5, <1>6 DEF Next, Finished

(* Every reachable state is well-typed.                                      *)
THEOREM TypeCorrect == Spec => []TypeOK
BY TypeInit, TypeStep, PTL DEF Spec

-----------------------------------------------------------------------------
(* Neither property is inductive.  What protects a released lease is that    *)
(* the acquiring goroutines are over before a release starts, and that the   *)
(* release canceled the refresher's context under the lock; what protects    *)
(* the nonce of a refresh under way is that the refresher holds the lock.    *)

Asked(m) == release[m] # "todo"

LInv ==
    \A m \in Machines :
        /\ pc = "acquire" => refresher[m] = "off"
        /\ pc # "acquire" => acquire[m] \in {"ok", "err"}
        /\ acquire[m] = "granted" => grants[m] # 0
        /\ pc \in {"acquire", "work"} /\ acquire[m] = "ok" => nonce[m] # 0
        /\ Asked(m) => pc \in {"release", "returned"} /\ refreshCtx[m] = "canceled"
        /\ release[m] = "call" => saved[m] # 0
        /\ refresher[m] \in {"call", "served"} => mu[m] = "refresher"
        /\ release[m] \in {"call", "served"} => mu[m] = "release"
        /\ refresher[m] # "off" => acquire[m] = "ok" /\ (~Asked(m) => nonce[m] # 0)
        /\ refresher[m] = "served" => nonce[m] # 0
        /\ m \in released => Asked(m) /\ ~Held(m)

LEMMA LInit == Init => LInv
<1> SUFFICES ASSUME Init, NEW m \in Machines
             PROVE  LInv!(m)
  BY DEF LInv
<1> QED
  BY DEF Init, Asked

LEMMA LStep == TypeOK /\ LInv /\ [Next]_vars => LInv'
<1> SUFFICES ASSUME TypeOK, LInv, [Next]_vars PROVE LInv'
  OBVIOUS
<1> USE GrantsAssumption DEF TypeOK, LInv, Asked, Held, Free, Other
<1>1. CASE AcquireDone
  BY <1>1 DEF AcquireDone, rel
<1>2. CASE WorkDone
  BY <1>2 DEF WorkDone, client, rel
<1>3. CASE ReleaseDone
  BY <1>3 DEF ReleaseDone, client, rel
<1>4. CASE Cancel
  BY <1>4 DEF Cancel, rel
<1>5. ASSUME NEW m \in Machines, MachineStep(m) PROVE LInv'
  <2>1. CASE SendAcquire(m)
    BY <2>1 DEF SendAcquire, rel
  <2>2. CASE ServeAcquire(m)
    BY <2>2 DEF ServeAcquire, Grant, rel
  <2>3. CASE AcquireLease(m)
    BY <2>3 DEF AcquireLease, rel
  <2>4. CASE AcquireFails(m)
    BY <2>4 DEF AcquireFails, rel
  <2>5. CASE Wake(m)
    BY <2>5 DEF Wake, rel
  <2>6. CASE LockForRefresh(m)
    BY <2>6 DEF LockForRefresh, rel
  <2>7. CASE ServeRefresh(m)
    BY <2>7 DEF ServeRefresh, Grant, rel
  <2>8. CASE RefreshLease(m)
    BY <2>8 DEF RefreshLease, refreshEnds, rel
  <2>9. CASE LockForRelease(m)
    BY <2>9 DEF LockForRelease, resetLease, rel
  <2>10. CASE ServeRelease(m)
    BY <2>10 DEF ServeRelease, rel
  <2>11. CASE ReleaseFails(m)
    BY <2>11 DEF ReleaseFails, rel
  <2>12. CASE ReleaseLease(m)
    BY <2>12 DEF ReleaseLease, rel
  <2>13. CASE Destroy(m)
    BY <2>13 DEF Destroy, rel
  <2>14. CASE OtherAcquires(m)
    BY <2>14 DEF OtherAcquires, client, rel
  <2>15. CASE Expire(m)
    BY <2>15 DEF Expire, client, rel
  <2> QED
    BY <1>5, <2>1, <2>2, <2>3, <2>4, <2>5, <2>6, <2>7, <2>8,
       <2>9, <2>10, <2>11, <2>12, <2>13, <2>14, <2>15
       DEF MachineStep, AcquireStep, RefresherStep, ReleaseStep
<1>6. CASE UNCHANGED vars
  BY <1>6 DEF vars
<1> QED
  BY <1>1, <1>2, <1>3, <1>4, <1>5, <1>6 DEF Next, Finished

(* For any set of machines, a lease that was released at our request never   *)
(* comes back through a refresh.                                             *)
THEOREM ReleaseIsFinal == Spec => []ReleasedStaysReleased
<1>1. TypeOK /\ LInv => ReleasedStaysReleased
  BY DEF TypeOK, LInv, ReleasedStaysReleased
<1> QED
  BY <1>1, TypeInit, TypeStep, LInit, LStep, PTL DEF Spec

(* For any set of machines, no refresh is under way without its nonce.       *)
THEOREM RefreshKeepsNonce == Spec => []RefreshHasNonce
<1>1. LInv => RefreshHasNonce
  BY DEF LInv, RefreshHasNonce
<1> QED
  BY <1>1, TypeInit, TypeStep, LInit, LStep, PTL DEF Spec

-----------------------------------------------------------------------------
(* Waiting.  A goroutine completes with a state the machine has been in or   *)
(* with an error; the caller returns when one has succeeded or all have      *)
(* completed; and as long as none has left either, none has completed.       *)
WInv ==
    /\ call \in Calls
    /\ DOMAIN waiter = call.states
    /\ machine \in seen
    /\ ~known => call.new
    /\ successfulState # "" => successfulState \in seen
    /\ successfulState = "" /\ waitErr = "none" => numCompleted = 0
    /\ waitPc = "returned" =>
        /\ successfulState # "" \/ numCompleted = Cardinality(call.states)
        /\ \A s \in call.states : waiter[s] = "done"

LEMMA WInvInit == WaitInit => WInv
<1> SUFFICES ASSUME WaitInit PROVE WInv
  OBVIOUS
<1>1. call.new \in BOOLEAN
  BY CallsAssumption DEF WellFormedCalls, WaitInit
<1> QED
  BY <1>1 DEF WaitInit, WInv

(* A wait that is over without an error has seen its state: the request      *)
(* succeeded, or the machine to be gone is not found any more.               *)
LEMMA OutcomeSeen ==
    ASSUME WInv, NEW s \in call.states, NEW r \in Responses(s)
    PROVE  /\ outcome(s, r) = "reached" => s \in seen
           /\ outcome(s, r) # "none"
<1>1. r \in {"error", "ok", "notFound"}
  BY DEF Responses
<1>2. r = "ok" => machine = s
  BY DEF Responses
<1>3. r = "notFound" /\ s = "destroyed" => machine = s
  BY CallsAssumption DEF Responses, WellFormedCalls, WInv
<1> QED
  BY <1>1, <1>2, <1>3 DEF outcome, WInv

LEMMA WInvRespond ==
    ASSUME WInv, NEW s \in call.states, Respond(s) PROVE WInv'
<1>1. waitPc # "returned" /\ UNCHANGED <<call, machine, seen, known, waitPc>>
  BY DEF Respond, RespondWith, WInv, world
<1>2. s # "" /\ DOMAIN waiter' = call.states
  BY CallsAssumption DEF WellFormedCalls, WInv, Respond, RespondWith, complete
<1>3. PICK r \in Responses(s) :
          IF outcome(s, r) = "again"
          THEN UNCHANGED <<successfulState, waitErr, numCompleted>>
          ELSE complete(s, outcome(s, r))
  BY DEF Respond, RespondWith, answer
<1> DEFINE o == outcome(s, r)
<1>4. (o = "reached" => s \in seen) /\ o # "none"
  BY OutcomeSeen
<1> HIDE DEF o
<1>5. CASE UNCHANGED <<successfulState, waitErr, numCompleted>>
  BY <1>1, <1>2, <1>5 DEF WInv
<1>6. CASE complete(s, o)
  <2>1. successfulState' # "" => successfulState' \in seen
    BY <1>4, <1>6 DEF complete, WInv
  <2>2. successfulState' # "" \/ waitErr' # "none"
    BY <1>2, <1>4, <1>6 DEF complete, WInv
  <2> QED
    BY <1>1, <1>2, <2>1, <2>2 DEF WInv
<1> QED
  BY <1>3, <1>5, <1>6 DEF o

LEMMA WInvStep == WInv /\ [WaitNext]_waitVars => WInv'
<1> SUFFICES ASSUME WInv, [WaitNext]_waitVars PROVE WInv'
  OBVIOUS
<1>1. ASSUME NEW s \in call.states, Respond(s) \/ Again(s) PROVE WInv'
  BY <1>1, WInvRespond DEF Again, world, answer, WInv
<1>2. CASE Poll
  BY <1>2 DEF Poll, world, answer, WInv
<1>3. ASSUME NEW s \in MachineStates, Move(s) PROVE WInv'
  BY <1>3 DEF Move, answer, WInv
<1>4. CASE BecomesKnown \/ CancelWait \/ Deadline
  BY <1>4 DEF BecomesKnown, CancelWait, Deadline, world, answer, WInv
<1>5. CASE UNCHANGED waitVars
  BY <1>5 DEF waitVars, WInv
<1> QED
  BY <1>1, <1>2, <1>3, <1>4, <1>5 DEF WaitNext, WaitStep, Returned

(* For any states waited for: a wait that returns no error has seen the      *)
(* machine in the state it returns, whatever failed, was retried or was      *)
(* canceled on the way.                                                      *)
THEOREM WaitSuccessWasSeen == WaitSpec => []SuccessWasSeen
<1>1. ASSUME WInv PROVE SuccessWasSeen
  <2> SUFFICES ASSUME waitPc = "returned", waitErr = "none" PROVE successfulState \in seen
    BY DEF SuccessWasSeen
  <2>1. call.states # {} /\ call.states \subseteq MachineStates
    BY <1>1, CallsAssumption DEF WellFormedCalls, WInv
  <2>2. IsFiniteSet(call.states)
    BY <2>1, CallsAssumption, FS_Subset DEF WellFormedCalls
  <2>3. Cardinality(call.states) # 0
    BY <2>1, <2>2, FS_EmptySet
  <2> QED
    BY <2>3, <1>1 DEF WInv
<1> QED
  BY <1>1, WInvInit, WInvStep, PTL DEF WaitSpec
=============================================================================
