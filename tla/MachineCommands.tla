--------------------------- MODULE MachineCommands ---------------------------
(***************************************************************************)
(* Commands on the machines of an app, run at the same time from several   *)
(* terminals: `fly machine start, stop, suspend, cordon, uncordon, restart, *)
(* update, destroy, kill, leases clear', `fly apps restart', `fly image     *)
(* update', `fly scale vm' and `fly scale count'.                          *)
(*                                                                         *)
(* All but kill and leases clear follow one pattern: the machines are      *)
(* looked up, internal/machine/lease.go takes a lease on each of them for  *)
(* 120 seconds and looks a machine up again if it has changed meanwhile,   *)
(* the command works through the machines, and the leases are released by  *)
(* a deferred call.  Nothing refreshes these leases.                       *)
(*                                                                         *)
(* The nonce of a lease is the command it was granted to.  A configuration *)
(* is the set of commands whose change is in it.                           *)
(***************************************************************************)
EXTENDS ScaleCount, FiniteSets, FiniteSetsExt

CONSTANTS
    Machines,       \* numbers, in the order the API lists them
    Region,         \* the region of each
    Regions,        \* all regions
    Commands,       \* the commands, one per terminal
    Scenarios,      \* what they are, see Job
    Fleets          \* how the machines may be at first: the state of each,
                    \* and whether its host is reachable

Kinds == {"start", "stop", "suspend", "cordon", "uncordon", "restart", "restartApp", "update",
          "updateAll", "destroy", "kill", "clear", "scale", "none"}

\* The machines are named, or listed, and are all those of the app then; a
\* destroy may be forced; a scale has a count, regions and a maximum for each.
Job == [kind : Kinds, targets : SUBSET Machines, force : BOOLEAN,
        count : Nat, regions : Seq(Regions), max : Int]

ASSUME CommandsAssumption ==
    /\ Machines \subseteq Nat /\ IsFiniteSet(Machines)
    /\ "free" \notin Commands
    /\ Region \in [Machines -> Regions]
    /\ Fleets \subseteq [Machines -> [state : {"started", "stopped"}, reachable : BOOLEAN]]
    /\ \A s \in Scenarios :
        /\ DOMAIN s = Commands
        /\ \A c \in Commands : s[c] \in Job /\ (s[c].kind = "scale" => s[c].regions # <<>>)

VARIABLES
    job,
    state, version, config, reachable,      \* the machines
    lease,      \* who holds the lease of each, or free
    extra,      \* the machines launched in each region
    pc, ctx, result,
    snap,       \* the machines as the command has read them
    acq,        \* how the lease on each stands
    left,       \* the machines still to work on
    plan,       \* the machines still to launch in each region
    applied,    \* the updates the API accepted
    lapsed      \* the commands that lost a lease before they released it

servers == <<state, version, config, reachable>>
ghosts  == <<applied, lapsed>>
vars    == <<job, servers, lease, extra, pc, ctx, result, snap, acq, left, plan, ghosts>>

Free == "free"

MachineStates == {"started", "stopped", "suspended", "failed", "destroyed"}

kind(c) == job[c].kind

\* AcquireLease is called for the only machine, not through AcquireLeases.
single(c) == kind(c) = "update"

Init ==
    /\ job \in Scenarios
    /\ \E f \in Fleets : /\ state = [m \in Machines |-> f[m].state]
                          /\ reachable = [m \in Machines |-> f[m].reachable]
    /\ version = [m \in Machines |-> 0]
    /\ config = [m \in Machines |-> {}]
    /\ lease = [m \in Machines |-> Free]
    /\ extra = [r \in Regions |-> 0]
    /\ pc = [c \in Commands |-> IF kind(c) = "none" THEN "done" ELSE "select"]
    /\ ctx = [c \in Commands |-> "live"]
    /\ result = [c \in Commands |-> IF kind(c) = "none" THEN "ok" ELSE "none"]
    /\ snap = [c \in Commands |-> <<>>]
    /\ acq = [c \in Commands |-> <<>>]
    /\ left = [c \in Commands |-> {}]
    /\ plan = [c \in Commands |-> [r \in Regions |-> 0]]
    /\ applied = {}
    /\ lapsed = {}

goto(c, p) == pc' = [pc EXCEPT ![c] = p]

\* The command is over for the reason r: the deferred release is next.
end(c, r) == goto(c, "release") /\ result' = [result EXCEPT ![c] = r]

-----------------------------------------------------------------------------
(* Looking the machines up. *)

read(m) == [state |-> state[m], version |-> version[m], config |-> config[m],
            reachable |-> reachable[m]]

Listed == {"restartApp", "updateAll", "scale"}

\* Listing leaves destroyed machines out; asking for one is an error.
found(c) == { m \in job[c].targets : state[m] # "destroyed" }

ended(c, r) ==
    /\ goto(c, "done")
    /\ result' = [result EXCEPT ![c] = r]
    /\ UNCHANGED <<snap, acq, left, plan>>

current(ms) == [r \in Regions |-> Cardinality({ m \in ms : Region[m] = r })]

regionsOf(c) == Uniq(job[c].regions)

diffs(c, ms) == convergeGroupCounts(job[c].count, current(ms), regionsOf(c), job[c].max)

\* computeActions: the first machines of a region that shrinks are destroyed.
toDestroy(ms, d) ==
    { m \in ms : /\ Region[m] \in DOMAIN d
                 /\ Cardinality({ n \in ms : n < m /\ Region[n] = Region[m] }) < -d[Region[m]] }

toLaunch(d) == [r \in Regions |-> IF r \in DOMAIN d /\ d[r] > 0 THEN d[r] ELSE 0]

\* All listed machines are leased, also the ones a scale keeps.
prepare(c, ms, p, work) ==
    /\ goto(c, p)
    /\ snap' = [snap EXCEPT ![c] = [m \in ms |-> read(m)]]
    /\ acq' = [acq EXCEPT ![c] = [m \in ms |-> "todo"]]
    /\ left' = [left EXCEPT ![c] = work]
    /\ UNCHANGED result

\* The plan is made, shown and confirmed before anything is leased.
selectForScale(c, ms) ==
    LET d == diffs(c, ms) IN
    IF exceedsMax(job[c].count, regionsOf(c), job[c].max) THEN ended(c, "err")
    ELSE IF \A r \in DOMAIN d : d[r] = 0 THEN ended(c, "ok")
    ELSE /\ prepare(c, ms, "acquire", toDestroy(ms, d))
         /\ plan' = [plan EXCEPT ![c] = toLaunch(d)]

Select(c) ==
    /\ pc[c] = "select"
    /\ \/ ended(c, "err")
       \/ /\ ctx[c] = "live"
          /\ kind(c) \notin Listed => found(c) = job[c].targets
          /\ CASE kind(c) = "scale" -> selectForScale(c, found(c))
               [] kind(c) \in {"kill", "clear"} ->
                    prepare(c, found(c), "request", found(c)) /\ UNCHANGED plan
               [] OTHER -> /\ single(c) => \A m \in found(c) : reachable[m]
                           /\ prepare(c, found(c), "acquire", found(c)) /\ UNCHANGED plan
    /\ UNCHANGED <<job, servers, lease, extra, ctx, ghosts>>

-----------------------------------------------------------------------------
(* AcquireLeases: a goroutine for each machine. *)

setAcq(c, m, a) == acq' = [acq EXCEPT ![c][m] = a]

AcquireLease_stale(c, m) ==
    /\ pc[c] = "acquire"
    /\ acq[c][m] = "todo"
    /\ \/ /\ ~single(c) /\ ~snap[c][m].reachable
          /\ setAcq(c, m, "skipped")
          /\ UNCHANGED lease
       \/ /\ single(c) \/ snap[c][m].reachable
          /\ \/ setAcq(c, m, "refused") /\ UNCHANGED lease
             \/ /\ ctx[c] = "live" /\ lease[m] = Free /\ state[m] # "destroyed"
                /\ lease' = [lease EXCEPT ![m] = c]
                /\ setAcq(c, m, "ok") \/ setAcq(c, m, "lost")
    /\ UNCHANGED <<job, servers, extra, pc, ctx, result, snap, left, plan, ghosts>>

\* A machine on an unreachable host is not leased.  The answer to a request
\* that was granted may be lost.  A machine that has not changed since it was
\* read is not read again.
AcquireLease(c, m) ==
    /\ pc[c] = "acquire"
    /\ acq[c][m] = "todo"
    /\ \/ /\ ~single(c) /\ ~snap[c][m].reachable
          /\ setAcq(c, m, "skipped")
          /\ UNCHANGED lease
       \/ /\ single(c) \/ snap[c][m].reachable
          /\ \/ setAcq(c, m, "refused") /\ UNCHANGED lease
             \/ /\ ctx[c] = "live" /\ lease[m] = Free /\ state[m] # "destroyed"
                /\ lease' = [lease EXCEPT ![m] = c]
                /\ \/ setAcq(c, m, IF snap[c][m].version = version[m] THEN "ok" ELSE "get")
                   \/ setAcq(c, m, "lost")
    /\ UNCHANGED <<job, servers, extra, pc, ctx, result, snap, left, plan, ghosts>>

\* When the machine cannot be read again, AcquireLeases loses the goroutine's
\* result, and with it the nonce.
GetAgain(c, m) ==
    /\ pc[c] = "acquire"
    /\ acq[c][m] = "get"
    /\ \/ /\ ctx[c] = "live" /\ state[m] # "destroyed"
          /\ snap' = [snap EXCEPT ![c][m] = read(m)]
          /\ setAcq(c, m, "ok")
       \/ setAcq(c, m, IF single(c) THEN "kept" ELSE "dropped") /\ UNCHANGED snap
    /\ UNCHANGED <<job, servers, lease, extra, pc, ctx, result, left, plan, ghosts>>

AcquireReturns_noDefer(c) ==
    /\ pc[c] = "acquire"
    /\ \A m \in DOMAIN acq[c] : acq[c][m] \notin {"todo", "get"}
    /\ IF \A m \in DOMAIN acq[c] : acq[c][m] \in {"ok", "skipped"}
       THEN goto(c, "request") /\ UNCHANGED result
       ELSE goto(c, "done") /\ result' = [result EXCEPT ![c] = "err"]
    /\ UNCHANGED <<job, servers, lease, extra, ctx, snap, acq, left, plan, ghosts>>

\* Without all the leases nothing is done.
AcquireReturns(c) ==
    /\ pc[c] = "acquire"
    /\ \A m \in DOMAIN acq[c] : acq[c][m] \notin {"todo", "get"}
    /\ IF \A m \in DOMAIN acq[c] : acq[c][m] \in {"ok", "skipped"}
       THEN IF left[c] = {} /\ kind(c) # "scale" THEN end(c, "ok")
            ELSE goto(c, "request") /\ UNCHANGED result
       ELSE end(c, "err")
    /\ UNCHANGED <<job, servers, lease, extra, ctx, snap, acq, left, plan, ghosts>>

-----------------------------------------------------------------------------
(* The work, one machine after the other. *)

\* The order, for image update that of a map, is of no consequence here.
target(c) == Min(left[c])

at(c, p) == pc[c] = p /\ left[c] # {}

\* The API takes a request for a leased machine only with the lease's nonce.
admitted(c, m) ==
    /\ ctx[c] = "live"
    /\ state[m] # "destroyed" /\ reachable[m]
    /\ lease[m] = Free \/ (lease[m] = c /\ acq[c][m] = "ok")

\* The machine is done with.
finish(c) ==
    /\ left' = [left EXCEPT ![c] = @ \ {target(c)}]
    /\ IF left[c] = {target(c)} THEN end(c, "ok") ELSE goto(c, "request") /\ UNCHANGED result

\* A request has failed, carried out or not, or a wait.
fails(c) == end(c, "err") /\ UNCHANGED left

waits(c) == goto(c, "wait") /\ UNCHANGED <<left, result>>

\* The user is asked about every machine before the first update, and does not
\* want it for some.
Decline(c) ==
    /\ at(c, "request")
    /\ kind(c) \in {"update", "updateAll"}
    /\ left[c] = DOMAIN snap[c]
    /\ \E wantedFor \in SUBSET left[c] :
        /\ wantedFor # left[c]
        /\ left' = [left EXCEPT ![c] = wantedFor]
        /\ IF wantedFor = {} THEN end(c, "ok") ELSE UNCHANGED <<pc, result>>
    /\ UNCHANGED <<job, servers, lease, extra, ctx, snap, acq, plan, ghosts>>

\* apps restart leaves machines alone that are not started.
Skip(c) ==
    /\ at(c, "request")
    /\ kind(c) = "restartApp" /\ snap[c][target(c)].state # "started"
    /\ finish(c)
    /\ UNCHANGED <<job, servers, lease, extra, ctx, snap, acq, plan, ghosts>>

\* A request that brings the machine to state s, and then what.
signal(c, allowed, s, then) ==
    LET m == target(c) IN
    /\ at(c, "request")
    /\ \/ fails(c) /\ UNCHANGED state
       \/ /\ allowed
          /\ state' = [state EXCEPT ![m] = s]
          /\ then \/ fails(c)
    /\ UNCHANGED <<job, version, config, reachable, lease, extra, ctx, snap, acq, plan, ghosts>>

Start(c) ==
    kind(c) = "start" /\ signal(c, admitted(c, target(c)), "started", finish(c))

\* Stop and suspend wait if they are asked to.
Stop(c) ==
    kind(c) = "stop" /\ signal(c, admitted(c, target(c)), "stopped", finish(c) \/ waits(c))

Suspend(c) ==
    kind(c) = "suspend" /\ signal(c, admitted(c, target(c)), "suspended", finish(c) \/ waits(c))

\* These leave the state as it is.
Cordon(c) ==
    kind(c) = "cordon" /\ signal(c, admitted(c, target(c)), state[target(c)], finish(c))

Uncordon(c) ==
    kind(c) = "uncordon" /\ signal(c, admitted(c, target(c)), state[target(c)], finish(c))

\* Kill takes no lease and no nonce.
KillMachine(c) ==
    LET m == target(c) IN
    kind(c) = "kill" /\ signal(c, ctx[c] = "live" /\ state[m] # "destroyed", "stopped", finish(c))

\* Restart: the machine comes up, or does not.
Restart(c) ==
    LET m == target(c) IN
    /\ at(c, "request")
    /\ kind(c) = "restart" \/ (kind(c) = "restartApp" /\ snap[c][m].state = "started")
    /\ \/ fails(c) /\ UNCHANGED state
       \/ /\ admitted(c, m)
          /\ \E s \in {"started", "failed"} : state' = [state EXCEPT ![m] = s]
          /\ fails(c) \/ waits(c)
    /\ UNCHANGED <<job, version, config, reachable, lease, extra, ctx, snap, acq, plan, ghosts>>

\* Update: the configuration is the one that was read, with the change.  The
\* machine is launched, or left as it is if that is to be skipped.
Update(c) ==
    LET m == target(c) IN
    /\ at(c, "request")
    /\ kind(c) \in {"update", "updateAll"}
    /\ \/ fails(c) /\ UNCHANGED <<state, version, config, applied>>
       \/ /\ admitted(c, m)
          /\ config' = [config EXCEPT ![m] = snap[c][m].config \cup {c}]
          /\ version' = [version EXCEPT ![m] = @ + 1]
          /\ \E s \in {"started", "failed", state[m]} : state' = [state EXCEPT ![m] = s]
          /\ applied' = applied \cup {<<c, m>>}
          /\ fails(c) \/ waits(c)
    /\ UNCHANGED <<job, reachable, lease, extra, ctx, snap, acq, plan, lapsed>>

\* WaitForState and WaitForStartOrStop: the machine reaches the state, or the
\* time is up.  The machine Restart waits for has no configuration, and when it
\* does not come up looking for its restart policy is a panic.
wanted(c) == CASE kind(c) = "stop" -> {"stopped"}
               [] kind(c) = "suspend" -> {"suspended"}
               [] kind(c) \in {"restart", "restartApp"} -> {"started"}
               [] OTHER -> {"started", "stopped", "suspended", "failed"}

Wait_noTimeout(c) ==
    LET s == state[target(c)] IN
    /\ at(c, "wait")
    /\ s \in wanted(c)
    /\ IF s = "started" THEN goto(c, "checks") /\ UNCHANGED <<left, result>> ELSE finish(c)
    /\ UNCHANGED <<job, servers, lease, extra, ctx, snap, acq, plan, ghosts>>

Wait(c) ==
    LET s == state[target(c)] IN
    /\ at(c, "wait")
    /\ \/ fails(c)
       \/ /\ ctx[c] = "live" /\ s \in wanted(c)
          /\ IF kind(c) \in {"stop", "suspend"} THEN finish(c)
             ELSE CASE s = "failed" -> fails(c)
                    [] s = "started" -> goto(c, "checks") /\ UNCHANGED <<left, result>>
                    [] OTHER -> finish(c)
       \/ /\ ctx[c] = "live" /\ s = "failed"
          /\ kind(c) \in {"restart", "restartApp"}
          /\ end(c, "panic") /\ UNCHANGED left
    /\ UNCHANGED <<job, servers, lease, extra, ctx, snap, acq, plan, ghosts>>

\* MachinesChecks, unless they are skipped.
HealthChecks(c) ==
    /\ at(c, "checks")
    /\ finish(c) \/ fails(c)
    /\ UNCHANGED <<job, servers, lease, extra, ctx, snap, acq, plan, ghosts>>

\* Destroy decides by the state that was read.  The lease goes with the machine.
destroyable(c, m) ==
    \/ snap[c][m].state \in {"stopped", "suspended"}
    \/ job[c].force /\ snap[c][m].state # "destroyed"

destroy(m) ==
    /\ state' = [state EXCEPT ![m] = "destroyed"]
    /\ lease' = [lease EXCEPT ![m] = Free]

Destroy(c) ==
    LET m == target(c) IN
    /\ at(c, "request") /\ kind(c) = "destroy"
    /\ \/ fails(c) /\ UNCHANGED <<state, lease>>
       \/ /\ destroyable(c, m) /\ admitted(c, m)
          /\ destroy(m)
          /\ finish(c) \/ fails(c)
    /\ UNCHANGED <<job, version, config, reachable, extra, ctx, snap, acq, plan, ghosts>>

\* runLeaseClear: whoever holds the lease loses it.
ClearLease(c) ==
    LET m == target(c) IN
    /\ at(c, "request") /\ kind(c) = "clear"
    /\ \/ fails(c) /\ UNCHANGED <<lease, lapsed>>
       \/ /\ ctx[c] = "live"
          /\ lease' = [lease EXCEPT ![m] = Free]
          /\ lapsed' = lapsed \cup ({lease[m]} \ {Free})
          /\ finish(c)
    /\ UNCHANGED <<job, servers, extra, ctx, snap, acq, plan, applied>>

-----------------------------------------------------------------------------
(* The tasks of a scale: all of them are run, whatever fails. *)

scaling(c) == pc[c] = "request" /\ kind(c) = "scale"

taskFails(c) == result' = [result EXCEPT ![c] = "err"]

LaunchMachine(c, r) ==
    /\ scaling(c) /\ plan[c][r] > 0
    /\ plan' = [plan EXCEPT ![c][r] = @ - 1]
    /\ \/ ctx[c] = "live" /\ extra' = [extra EXCEPT ![r] = @ + 1] /\ UNCHANGED result
       \/ extra' \in {extra, [extra EXCEPT ![r] = @ + 1]} /\ taskFails(c)
    /\ UNCHANGED <<job, servers, lease, pc, ctx, snap, acq, left, ghosts>>

DestroyMachine(c, m) ==
    /\ scaling(c) /\ m \in left[c]
    /\ left' = [left EXCEPT ![c] = @ \ {m}]
    /\ \/ admitted(c, m) /\ destroy(m) /\ (UNCHANGED result \/ taskFails(c))
       \/ taskFails(c) /\ UNCHANGED <<state, lease>>
    /\ UNCHANGED <<job, version, config, reachable, extra, pc, ctx, snap, acq, plan, ghosts>>

ScaleReturns_ignoresErrors(c) ==
    /\ scaling(c)
    /\ left[c] = {} /\ \A r \in Regions : plan[c][r] = 0
    /\ end(c, "ok")
    /\ UNCHANGED <<job, servers, lease, extra, ctx, snap, acq, left, plan, ghosts>>

ScaleReturns(c) ==
    /\ scaling(c)
    /\ left[c] = {} /\ \A r \in Regions : plan[c][r] = 0
    /\ end(c, IF result[c] = "none" THEN "ok" ELSE "err")
    /\ UNCHANGED <<job, servers, lease, extra, ctx, snap, acq, left, plan, ghosts>>

-----------------------------------------------------------------------------
(* The deferred release, which a canceled context does not keep from it. *)

ReleaseLease(c, m) ==
    /\ pc[c] = "release"
    /\ acq[c][m] \in {"ok", "kept"}
    /\ \/ /\ lease' = IF lease[m] = c THEN [lease EXCEPT ![m] = Free] ELSE lease
          /\ setAcq(c, m, "released")
       \/ setAcq(c, m, "unreleased") /\ UNCHANGED lease
    /\ UNCHANGED <<job, servers, extra, pc, ctx, result, snap, left, plan, ghosts>>

Return(c) ==
    /\ pc[c] = "release"
    /\ \A m \in DOMAIN acq[c] : acq[c][m] \notin {"ok", "kept"}
    /\ goto(c, "done")
    /\ UNCHANGED <<job, servers, lease, extra, ctx, result, snap, acq, left, plan, ghosts>>

-----------------------------------------------------------------------------

\* A lease is good for 120 seconds.
Expire(m) ==
    /\ lease[m] # Free
    /\ lease' = [lease EXCEPT ![m] = Free]
    /\ lapsed' = IF pc[lease[m]] = "done" THEN lapsed ELSE lapsed \cup {lease[m]}
    /\ UNCHANGED <<job, servers, extra, pc, ctx, result, snap, acq, left, plan, applied>>

HostRecovers(m) ==
    /\ ~reachable[m]
    /\ reachable' = [reachable EXCEPT ![m] = TRUE]
    /\ UNCHANGED <<job, state, version, config, lease, extra, pc, ctx, result, snap, acq,
                   left, plan, ghosts>>

Cancel(c) ==
    /\ ctx[c] = "live" /\ pc[c] # "done"
    /\ ctx' = [ctx EXCEPT ![c] = "canceled"]
    /\ UNCHANGED <<job, servers, lease, extra, pc, result, snap, acq, left, plan, ghosts>>

CommandStep(c) ==
    \/ Select(c) \/ AcquireReturns(c)
    \/ \E m \in DOMAIN acq[c] : AcquireLease(c, m) \/ GetAgain(c, m) \/ ReleaseLease(c, m)
    \/ Decline(c) \/ Skip(c) \/ Start(c) \/ Stop(c) \/ Suspend(c) \/ Cordon(c)
    \/ Uncordon(c) \/ KillMachine(c) \/ Restart(c) \/ Update(c) \/ Wait(c)
    \/ HealthChecks(c) \/ Destroy(c) \/ ClearLease(c)
    \/ \E r \in Regions : LaunchMachine(c, r)
    \/ \E m \in Machines : DestroyMachine(c, m)
    \/ ScaleReturns(c) \/ Return(c)

Next ==
    \/ \E c \in Commands : CommandStep(c) \/ Cancel(c)
    \/ \E m \in Machines : Expire(m) \/ HostRecovers(m)

Spec == Init /\ [][Next]_vars

\* Requests are answered or time out, and the user answers the prompts.
FairSpec == Spec /\ \A c \in Commands : WF_vars(CommandStep(c))

-----------------------------------------------------------------------------
(* Properties *)

\* Types; a machine has one lease, and a command works only with the leases on
\* all the machines that could be reached.
TypeOK ==
    /\ job \in Scenarios
    /\ state \in [Machines -> MachineStates]
    /\ version \in [Machines -> 0 .. Cardinality(Commands)]
    /\ config \in [Machines -> SUBSET Commands]
    /\ reachable \in [Machines -> BOOLEAN]
    /\ lease \in [Machines -> Commands \cup {Free}]
    /\ extra \in [Regions -> Nat]
    /\ pc \in [Commands -> {"select", "acquire", "request", "wait", "checks", "release", "done"}]
    /\ ctx \in [Commands -> {"live", "canceled"}]
    /\ result \in [Commands -> {"none", "ok", "err", "panic"}]
    /\ \A c \in Commands :
        /\ DOMAIN acq[c] = DOMAIN snap[c] /\ DOMAIN acq[c] \subseteq job[c].targets
        /\ left[c] \subseteq DOMAIN snap[c]
        /\ pc[c] = "done" => result[c] # "none"
    /\ plan \in [Commands -> [Regions -> Nat]]
    /\ applied \subseteq Commands \X Machines
    /\ lapsed \subseteq Commands

\* An accepted update is not overwritten by another command that had read the
\* machine before it, unless that command had lost its lease, or had none
\* because the host of the machine was not reachable (AcquireLease).
UpdatesKept ==
    \A u \in applied :
        state[u[2]] = "destroyed" \/ u[1] \in config[u[2]]
        \/ \E c \in Commands :
            <<c, u[2]>> \in applied /\ (c \in lapsed \/ acq[c][u[2]] = "skipped")

\* A command that has returned leaves no lease behind, canceled, failed or in
\* panic: only one whose grant or release was not answered, or whose machine
\* AcquireLeases could not read again.
LeasesReleased ==
    \A c \in Commands, m \in Machines :
        pc[c] = "done" /\ lease[m] = c => acq[c][m] \in {"lost", "dropped", "unreleased"}

\* A scale that succeeds leaves the machines it was asked for, although other
\* commands destroy machines meanwhile: it holds the leases on all it counted.
\* A lease that lapsed, or was not taken, voids the promise, and so does another
\* scale, which may launch machines meanwhile.
ScaleMeetsCount ==
    \A c \in Commands :
        kind(c) = "scale" /\ pc[c] = "release" /\ result[c] = "ok"
        /\ (\A b \in Commands \ {c} : kind(b) # "scale")
        /\ c \notin lapsed /\ (\A m \in DOMAIN acq[c] : acq[c][m] = "ok") =>
            LET here == { m \in job[c].targets : state[m] # "destroyed" }
            IN planned(regionsOf(c), current(here), extra) = job[c].count

\* The plan of a scale reaches the count in the regions without going over the
\* maximum or below zero, and destroys nothing unless there are too many
\* machines or a region is over the maximum (convergeGroupCounts).
PlanIsExact ==
    \A c \in Commands :
        LET j   == job[c]
            cur == current(DOMAIN snap[c])
            d   == diffs(c, DOMAIN snap[c])
        IN kind(c) = "scale" /\ pc[c] = "acquire" =>
            /\ planned(regionsOf(c), cur, d) = j.count
            /\ \A r \in DOMAIN d :
                /\ cur[r] + d[r] >= 0
                /\ j.max >= 0 => cur[r] + d[r] <= j.max
                /\ d[r] < 0 => \/ planned(regionsOf(c), cur, [s \in DOMAIN d |-> 0]) > j.count
                               \/ j.max >= 0 /\ cur[r] > j.max

\* Every command returns.
CommandsEnd == \A c \in Commands : <>(pc[c] = "done")
=============================================================================
