---------------------------- MODULE MachineWaits ----------------------------
(***************************************************************************)
(* Waiting for a machine: leasableMachine.WaitForState in                  *)
(* internal/machine/leasable_machine.go, and waitForMachineState in        *)
(* internal/command/deploy/plan.go, which waits for one of several states  *)
(* with a goroutine for each.                                              *)
(*                                                                         *)
(* A call waits for the states in call.states; WaitForState itself is the  *)
(* call with a single state.  The machine and the API are external: the    *)
(* machine moves between states by itself, a machine that was just created *)
(* may be unknown to the API for a while, and requests fail.               *)
(***************************************************************************)
EXTENDS Integers, FiniteSets

CONSTANTS Calls,          \* the calls: the states waited for, the option
                          \* WithJustCreated, whether the machine is new, and
                          \* whether resolveTimeoutContext sets a timeout
          MachineStates   \* the states the machine goes through

(* A call asks for one or more states, and for a machine to be gone only if  *)
(* the API has known it before.                                              *)
WellFormedCalls ==
    /\ Calls \subseteq
        [states : (SUBSET MachineStates) \ {{}}, justCreated : BOOLEAN, new : BOOLEAN,
         timed : BOOLEAN]
    /\ IsFiniteSet(MachineStates) /\ "" \notin MachineStates
    /\ \A c \in Calls : "destroyed" \in c.states => ~c.new

ASSUME CallsAssumption == WellFormedCalls

VARIABLES
    call,             \* the call made
    machine,          \* state of the machine
    seen,             \* the states it has been in since the call
    known,            \* the API always finds the machine
    waitCtx,              \* "live", "canceled" (Ctrl-C) or "deadline" (timeout)
    waiter,           \* WaitForState's goroutine for each state
    successfulState, waitErr, numCompleted,
    waitPc                \* the polling loop of the caller

waitVars == <<call, machine, seen, known, waitCtx, waiter, successfulState, waitErr,
          numCompleted, waitPc>>
world == <<machine, seen, known>>
answer == <<successfulState, waitErr, numCompleted>>

WaitInit ==
    /\ call \in Calls
    /\ machine \in MachineStates \ {"destroyed"}
    /\ seen = {machine}
    /\ known \in {TRUE, ~call.new}
    /\ waitCtx = "live"
    /\ waiter = [s \in call.states |-> "request"]
    /\ successfulState = ""
    /\ waitErr = "none"
    /\ numCompleted = 0
    /\ waitPc = "polling"

-----------------------------------------------------------------------------
(* The machine and the passing of time (external).                           *)

Move(s) ==
    /\ machine \notin {s, "destroyed"}
    /\ machine' = s
    /\ seen' = seen \union {s}
    /\ UNCHANGED <<call, known, waitCtx, waiter, answer, waitPc>>

BecomesKnown ==
    /\ ~known
    /\ known' = TRUE
    /\ UNCHANGED <<call, machine, seen, waitCtx, waiter, answer, waitPc>>

CancelWait ==
    /\ waitCtx = "live"
    /\ waitCtx' = "canceled"
    /\ UNCHANGED <<call, world, waiter, answer, waitPc>>

(* A call with WithAllowInfinite and a timeout of zero has no deadline: only  *)
(* the state or Ctrl-C ends it.                                              *)
Deadline ==
    /\ call.timed
    /\ waitCtx = "live"
    /\ waitCtx' = "deadline"
    /\ UNCHANGED <<call, world, waiter, answer, waitPc>>

-----------------------------------------------------------------------------
(* WaitForState                                                              *)

(* What flapsClient.Wait returns.                                            *)
Responses(s) ==
    {"error"} \union (IF machine = s THEN {"ok"} ELSE {})
              \union (IF ~known \/ machine = "destroyed" THEN {"notFound"} ELSE {})

(* Mutant: the deadline is taken for one more error to retry.                *)
outcome_deadlineRetried(s, r) ==
    CASE waitCtx = "canceled" -> IF r = "ok" THEN "reached" ELSE r
      [] r = "notFound" /\ s = "destroyed" -> "reached"
      [] r = "notFound" /\ call.justCreated -> "again"
      [] r = "notFound" -> "notFound"
      [] r = "error" -> "again"
      [] OTHER -> "reached"

(* The switch of WaitForState, in the order of its cases.  A canceled wait   *)
(* returns the error of the request, which is nil if it succeeded.           *)
outcome(s, r) ==
    CASE waitCtx = "canceled" -> IF r = "ok" THEN "reached" ELSE r
      [] waitCtx = "deadline" -> "timeout"
      [] r = "notFound" /\ s = "destroyed" -> "reached"
      [] r = "notFound" /\ call.justCreated -> "again"
      [] r = "notFound" -> "notFound"
      [] r = "error" -> "again"
      [] OTHER -> "reached"

(* Mutant: an error is taken for the state being reached.                    *)
complete_ignoresErr(s, o) ==
    /\ waiter' = [waiter EXCEPT ![s] = "done"]
    /\ numCompleted' = numCompleted + 1
    /\ successfulState' = IF successfulState = "" THEN s ELSE successfulState
    /\ UNCHANGED waitErr

(* The goroutine of waitForMachineState takes the mutex and records o.       *)
complete(s, o) ==
    /\ waiter' = [waiter EXCEPT ![s] = "done"]
    /\ numCompleted' = numCompleted + 1
    /\ successfulState' = IF successfulState = "" /\ o = "reached" THEN s
                          ELSE successfulState
    /\ waitErr' = IF successfulState = "" /\ o # "reached" THEN o ELSE waitErr

RespondWith(s, R) ==
    /\ waiter[s] = "request"
    /\ \E r \in R :
          IF outcome(s, r) = "again"
          THEN waiter' = [waiter EXCEPT ![s] = "backoff"] /\ UNCHANGED answer
          ELSE complete(s, outcome(s, r))
    /\ UNCHANGED <<call, world, waitCtx, waitPc>>

Respond(s) == RespondWith(s, Responses(s))

(* The backoff ends, by itself or with the context.                          *)
Again(s) ==
    /\ waiter[s] = "backoff"
    /\ waiter' = [waiter EXCEPT ![s] = "request"]
    /\ UNCHANGED <<call, world, waitCtx, answer, waitPc>>

-----------------------------------------------------------------------------
(* The polling loop of waitForMachineState; returning cancels the waits that *)
(* are still going on.                                                       *)
Poll ==
    /\ waitPc = "polling"
    /\ successfulState # "" \/ numCompleted = Cardinality(call.states)
    /\ waitPc' = "returned"
    /\ waitCtx' = IF waitCtx = "live" THEN "canceled" ELSE waitCtx
    /\ waiter' = [s \in call.states |-> "done"]
    /\ UNCHANGED <<call, world, answer>>

Returned == waitPc = "returned" /\ UNCHANGED waitVars

WaitStep ==
    \/ \E s \in call.states : Respond(s) \/ Again(s)
    \/ Poll

WaitNext ==
    \/ BecomesKnown \/ CancelWait \/ Deadline \/ WaitStep \/ Returned
    \/ \E s \in MachineStates : Move(s)

WaitSpec == WaitInit /\ [][WaitNext]_waitVars

(* Requests are answered, backoffs end, the caller polls, and the time of a  *)
(* call that has a timeout passes.  An API that is asked again and again     *)
(* does not answer with an error every time (which matters only to a call    *)
(* without timeout).                                                         *)
FairWaitSpec ==
    /\ WaitSpec
    /\ WF_waitVars(Deadline) /\ WF_waitVars(Poll)
    /\ \A s \in MachineStates :
          /\ WF_waitVars(s \in call.states /\ (Respond(s) \/ Again(s)))
          /\ SF_waitVars(s \in call.states /\ RespondWith(s, Responses(s) \ {"error"}))

-----------------------------------------------------------------------------
(* Properties                                                                *)

(* The state is well-typed: the state returned is one that was asked for and *)
(* no goroutine completes twice.                                             *)
WaitTypeOK ==
    /\ call \in Calls
    /\ machine \in MachineStates
    /\ seen \subseteq MachineStates
    /\ known \in BOOLEAN
    /\ waitCtx \in {"live", "canceled", "deadline"}
    /\ waiter \in [call.states -> {"request", "backoff", "done"}]
    /\ successfulState \in call.states \union {""}
    /\ waitErr \in {"none", "error", "notFound", "timeout"}
    /\ numCompleted \in 0 .. Cardinality(call.states)
    /\ waitPc \in {"polling", "returned"}

(* A nil error means that the machine has been in the state that is          *)
(* returned, whatever failed, was retried or was canceled on the way.        *)
SuccessWasSeen ==
    waitPc = "returned" /\ waitErr = "none" => successfulState \in seen

(* A wait that has a timeout ends.  One without (the release command's, with *)
(* --release-command-timeout none) ends once the machine stays in a state    *)
(* that is waited for, or Ctrl-C is pressed: polling never misses it for     *)
(* good.                                                                     *)
WaitReturns ==
    call.timed \/ <>[](machine \in call.states) \/ <>(waitCtx = "canceled")
        => <>(waitPc = "returned")
=============================================================================
