--------------------------- MODULE ReleaseCommand ---------------------------
(***************************************************************************)
(* Release and seed commands: runReleaseCommands and runReleaseCommand in  *)
(* internal/command/deploy/machines_releasecommand.go, the first stage of  *)
(* deployMachinesApp.                                                      *)
(*                                                                         *)
(* A command runs on a machine of its own that destroys itself when the    *)
(* command ends.  While the main goroutine starts the machine and waits    *)
(* for it, a second goroutine reads its logs.  Both assign the named       *)
(* result `err` of runReleaseCommand, without a lock: the main goroutine   *)
(* assigns it, tests it in a later step, and the function returns what it  *)
(* holds once the deferred calls are over.                                 *)
(***************************************************************************)
EXTENDS Integers

CONSTANTS MaxEntries   \* bound: log entries read per command

ASSUME EntriesAssumption == MaxEntries \in Nat

VARIABLES
    seed,      \* a seed command is configured
    command,   \* the command that is run: "release" or "seed"
    machine,   \* its machine: none, stopped, started, exited, destroyed
    exitCode,  \* the exit code of each command, -1 until it has ended
    old,       \* an earlier release command machine still exists
    pc, next,  \* the main goroutine; where it goes on if err is nil
    err,       \* the named result
    event,     \* lastExitEvent: its exit code, -1 for nil
    ctx,       \* "live", or "canceled" by Ctrl-C
    logger,    \* the log goroutine
    entries    \* log entries it has read of each command

vars == <<seed, command, machine, exitCode, old, pc, next, err, event, ctx, logger, entries>>

world == <<machine, exitCode>>
logging == <<logger, entries>>

Commands == {"release", "seed"}

Init ==
    /\ seed \in BOOLEAN
    /\ command = "release"
    /\ machine = "none"
    /\ exitCode = [c \in Commands |-> -1]
    /\ old \in BOOLEAN
    /\ pc = "destroyOld"
    /\ next = "destroyOld"
    /\ err = "nil"
    /\ event = -1
    /\ ctx = "live"
    /\ logger = "off"
    /\ entries = [c \in Commands |-> 0]

-----------------------------------------------------------------------------
(* The machine that runs the command, and the user (external).               *)

Exit ==
    /\ machine = "started"
    /\ machine' = "exited"
    /\ exitCode' \in {[exitCode EXCEPT ![command] = c] : c \in {0, 1}}
    /\ UNCHANGED <<seed, command, old, pc, next, err, event, ctx, logging>>

AutoDestroy ==
    /\ machine = "exited"
    /\ machine' = "destroyed"
    /\ UNCHANGED <<seed, command, exitCode, old, pc, next, err, event, ctx, logging>>

Cancel ==
    /\ pc \notin {"proceed", "aborted", "panic"}
    /\ ctx = "live"
    /\ ctx' = "canceled"
    /\ UNCHANGED <<seed, command, world, old, pc, next, err, event, logging>>

-----------------------------------------------------------------------------
(* err = e; if err != nil { return err }: two steps.                         *)

Assign(e, k) == err' = e /\ pc' = "test" /\ next' = k

Test ==
    /\ pc = "test"
    /\ pc' = IF err # "nil" THEN "defer" ELSE next
    /\ UNCHANGED <<seed, command, world, old, next, err, event, ctx, logging>>

(* createOrUpdateReleaseCmdMachine: failures to destroy are not errors.      *)
DestroyOld ==
    /\ pc = "destroyOld"
    /\ old' \in {old, FALSE}
    /\ pc' = "create"
    /\ UNCHANGED <<seed, command, world, next, err, event, ctx, logging>>

(* createReleaseCommandMachine: launch it and wait until it is stopped.      *)
Create ==
    /\ pc = "create"
    /\ \/ Assign("nil", "start") /\ machine' = "stopped"
       \/ Assign("failed", "start") /\ machine' \in {machine, "stopped"}
    /\ UNCHANGED <<seed, command, exitCode, old, event, ctx, logging>>

Start ==
    /\ pc = "start"
    /\ IF logger = "off" THEN logger' = "reading" ELSE UNCHANGED logger
    /\ \/ Assign("nil", "waitStarted") /\ machine' = "started"
       \/ Assign("failed", "waitStarted") /\ machine' \in {machine, "started"}
    /\ UNCHANGED <<seed, command, exitCode, old, event, ctx, entries>>

(* Mutant: not found means the command has succeeded.                        *)
WaitStarted_notFoundIsSuccess ==
    /\ pc = "waitStarted"
    /\ \/ /\ machine = "started" /\ pc' = "waitDestroyed"
          /\ UNCHANGED <<next, err>>
       \/ /\ machine = "destroyed" /\ Assign("nil", "defer")
       \/ Assign("failed", "waitEvent")
    /\ UNCHANGED <<seed, command, world, old, event, ctx, logging>>

(* waitForReleaseCommandToFinish, first wait: a machine that is not found    *)
(* has already finished.                                                     *)
WaitStarted ==
    /\ pc = "waitStarted"
    /\ \/ /\ machine = "started" /\ pc' = "waitDestroyed"
          /\ UNCHANGED <<next, err>>
       \/ /\ machine = "destroyed" /\ Assign("nil", "waitEvent")
       \/ Assign("failed", "waitEvent")
    /\ UNCHANGED <<seed, command, world, old, event, ctx, logging>>

WaitDestroyed ==
    /\ pc = "waitDestroyed"
    /\ \/ machine = "destroyed" /\ Assign("nil", "waitEvent")
       \/ Assign("failed", "waitEvent")
    /\ UNCHANGED <<seed, command, world, old, event, ctx, logging>>

(* WaitForEventTypeAfterType: when the context is canceled it returns no     *)
(* event with the error of the request, which may be nil.                    *)
WaitEvent ==
    /\ pc = "waitEvent"
    /\ \/ /\ exitCode[command] # -1
          /\ event' = exitCode[command]
          /\ Assign("nil", "exit")
       \/ /\ event' = -1
          /\ \/ Assign("failed", "exit")
             \/ ctx = "canceled" /\ Assign("nil", "exit")
    /\ UNCHANGED <<seed, command, world, old, ctx, logging>>

(* Mutant: the exit status is returned in place of an error.                 *)
exitResult_status == IF event = 0 THEN "exit status 0" ELSE "exit status 1"

(* The value of `return ...` once the exit code is known.                    *)
exitResult == IF event = 0 THEN "nil" ELSE "failed"

(* GetExitCode on a nil event is a nil dereference.                          *)
ExitCode ==
    /\ pc = "exit"
    /\ IF event = -1 THEN pc' = "panic" /\ UNCHANGED err
       ELSE pc' = "defer" /\ err' = exitResult
    /\ UNCHANGED <<seed, command, world, old, next, event, ctx, logging>>

(* The deferred calls are over: the function returns what err holds now.     *)
(* After a good release command runReleaseCommands runs the seed command.    *)
Return ==
    /\ pc = "defer"
    /\ IF err # "nil"
       THEN /\ pc' = "aborted"
            /\ UNCHANGED <<command, machine, old, event, logging>>
       ELSE IF command = "release" /\ seed
       THEN /\ command' = "seed"
            /\ machine' = "none"
            /\ old' = (old \/ machine # "destroyed")
            /\ event' = -1
            /\ logger' = "off"
            /\ UNCHANGED entries
            /\ pc' = "destroyOld"
       ELSE /\ pc' = "proceed"
            /\ UNCHANGED <<command, machine, old, event, logging>>
    /\ UNCHANGED <<seed, exitCode, next, err, ctx>>

-----------------------------------------------------------------------------
(* The log goroutine: for every entry, `ts, err = time.Parse(...)`.  It ends *)
(* after an entry it cannot parse and after the one that says the command    *)
(* exited normally.                                                          *)
ReadEntry ==
    /\ logger = "reading"
    /\ entries[command] < MaxEntries
    /\ pc \notin {"proceed", "aborted", "panic"}
    /\ entries' = [entries EXCEPT ![command] = @ + 1]
    /\ \/ err' = "nil" /\ logger' \in {"reading", "done"}
       \/ err' = "badTimestamp" /\ logger' = "done"
    /\ UNCHANGED <<seed, command, world, old, pc, next, event, ctx>>

Ended == pc \in {"proceed", "aborted", "panic"} /\ UNCHANGED vars

Next ==
    \/ Exit \/ AutoDestroy \/ Cancel
    \/ DestroyOld \/ Create \/ Start \/ Test \/ WaitStarted \/ WaitDestroyed
    \/ WaitEvent \/ ExitCode \/ Return
    \/ ReadEntry \/ Ended

Spec == Init /\ [][Next]_vars

-----------------------------------------------------------------------------
(* Properties                                                                *)

(* The state is well-typed.                                                  *)
TypeOK ==
    /\ seed \in BOOLEAN
    /\ command \in Commands
    /\ machine \in {"none", "stopped", "started", "exited", "destroyed"}
    /\ exitCode \in [Commands -> {-1, 0, 1}]
    /\ old \in BOOLEAN
    /\ {pc, next} \subseteq {"destroyOld", "create", "start", "waitStarted",
          "waitDestroyed", "waitEvent", "exit", "test", "defer", "proceed",
          "aborted", "panic"}
    /\ err \in {"nil", "failed", "badTimestamp"}
    /\ event \in {-1, 0, 1}
    /\ ctx \in {"live", "canceled"}
    /\ logger \in {"off", "reading", "done"}
    /\ entries \in [Commands -> 0 .. MaxEntries]

(* The commands that runReleaseCommands takes to have succeeded.             *)
TakenForGood ==
    {c \in Commands : \/ c = "release" /\ (command = "seed" \/ pc = "proceed")
                      \/ c = "seed" /\ command = "seed" /\ pc = "proceed"}

(* The deployment goes on, to the seed command or to the machines, only      *)
(* after every command before has run and exited with status 0: no error,    *)
(* shortcut for a machine that is gone, or cancellation on the way is taken  *)
(* for success, as long as the log goroutine has not assigned err.           *)
FailureAbortsUnlogged ==
    \A c \in TakenForGood : entries[c] = 0 => exitCode[c] = 0
=============================================================================
