# Verification of flyctl

`flyctl` is the command-line client of Fly.io. Most of it is thin: parse flags, call an
API, print a table. Three parts have state, run concurrently and can leave a user in a bad
place: what *changes machines* (`fly deploy`, and the commands that start, stop, update,
scale and destroy machines), the *agent*, a background process several commands share, and
the *configuration file* with its access tokens, which all of them read and write. This
directory holds TLA+ models of these parts, TLC runs over small instances, and TLAPS proofs
that hold for every instance.

Paths below are relative to the repository root; `deploy/` stands for
`internal/command/deploy/` and `machine/` for `internal/machine/`.

## 1. Inventory

### Components that carry state and concurrency

| component | state | operations | what makes it correct |
|---|---|---|---|
| **blue-green strategy** `deploy/strategy_bluegreen.go` | tracked green machines, `aborted` channel, `rollbackLog.canDeleteGreenMachines`, `hangingBlueMachines` | create, wait started, wait healthy, mark ready, tag, cordon, stop, wait stopped, destroy; `Rollback` | no old machine is touched before all new ones serve; no traffic before health; failures are all or nothing |
| **update with recovery** `deploy/plan.go` | leases of the machines, `healthChecksPassed` (package variable), per-group pools, retry count | acquire leases, update / replace / create a machine, run checks, list again and retry, release leases | success means every machine is updated and checked; the pools bound what is down; leases are released |
| **machine leases** `machine/machine_set.go`, `machine/leasable_machine.go` | `leaseNonce`, `destroyed`, the refresher's context, `mu` | `AcquireLeases`, background refresh, `ReleaseLeases`, `Destroy` | a released lease stays released; refresh and release do not overlap; everything ends |
| **waits** `machine/leasable_machine.go` (`WaitForState`), `deploy/plan.go` (`waitForMachineState`) | one goroutine per state, `successfulState`, `waitErr`, `numCompleted` | request, back off, record, poll | nil error means reached; a new machine may be invisible for a while; every wait ends |
| **release command** `deploy/machines_releasecommand.go` | a machine that destroys itself, the named result `err`, the log goroutine | destroy old, create, start, two waits, find the exit event, read logs, then the seed command | the deployment goes on only after exit status 0 |
| **deployment driver, rolling and immediate strategies** `deploy/machines_deploymachinesapp.go`, `deploy/machines.go`, `deploy/statics` | release status, machine set, process group changes, canaries, pools and their contexts | `DeployMachinesApp`, `updateReleaseInBackend`, canaries, create and destroy machines of groups, `updateUsingRollingStrategy`, `updateUsingImmediateStrategy` | the release's status matches the outcome; a failure stops the roll |
| **agent** `agent/`, `agent/server/`, `internal/command/agent` | the socket, two lock files, sessions, the tunnels and peers by organization, the time of the file's last change | find, start, replace, stop the agent; establish, reestablish, use a tunnel; prune peers, validate tunnels | a serving agent can be reached; every command ends and no session waits for the mutex for ever; no closed tunnel is handed out |
| **configuration and tokens** `internal/config`, `internal/filemu` | the file, its lock, the tokens in each long-running process | login, logout, set a key; monitor the file; renew tokens | no change of the file loses another key; a renewal does not undo a login; memory follows the file |
| **machine commands and scaling** `internal/machine`, `internal/command/machine`, `internal/command/scale`, `apps/restart.go`, `image/update_machines.go` | leases of two minutes, the machines as they were read, a plan of actions | acquire leases, read again, request, wait, release; converge counts over regions | updates are not lost; leases are given back; the plan reaches the count |
| remote builders `internal/build/imgsrc/ensure_builder.go` | builder app and machine | validate, create, restart, wait | a usable builder or an error |
| Ctrl-C hooks, cache, background tasks, status logger `internal/ctrlc`, `cache`, `task`, `statuslogger` | handlers, a wait group, shared lines | hook, flush, run, shut down | no deadlock at exit |
| ephemeral machines `machine/ephemeral.go` | a console or build machine | launch, wait, clean up | no machine left behind |

`PROJECT.json` lists the remaining parts (configuration parsing, launch scanners, logs,
proxy, ssh, terminal output, generated clients, thin commands) with the reason each is left
out.

### How they interact

`fly deploy` builds a `machineDeployment` and calls `deployMachinesApp`. Its first stage is
the **release command** (`runReleaseCommands`); an error aborts the deployment. The update
of the existing machines then takes one of two ways: without `--deploy-retries` the
**leases** of the whole machine set are acquired and refreshed in the background while the
blue-green, immediate or rolling strategy works, and released by a deferred call; with
retries, `updateExistingMachinesWRecovery` runs **plan.go**, which takes leases of its own,
except for **blue-green**, which again works under the machine set's leases. All of them
call the Machines API ("flaps") and use the **waits**. Shared state of a deployment is in
memory only (goroutines with errgroups, conc pools, mutexes and channels) plus what the API
stores: a crash leaves exactly what the API stores.

The **machine commands** of several terminals meet at the API, where only leases keep them
apart. Commands that need a private network ask the **agent**, which they find at a socket
and start or replace when it is missing or of another version. The agent's sessions share
its tunnels; its cleaner asks the API which peers are still valid. The agent and every
long-running command keep the **tokens** in memory and follow the **configuration file**,
which is shared by processes through a lock file.

### Which behaviours are hard

* *Ambiguous answers.* A request that fails may have been carried out. Every model makes
  the effect and the answer separate choices.
* *Ctrl-C at any step*, as a closed channel (blue-green) or a canceled context (elsewhere),
  with clean-up that itself needs the API.
* *One of several goroutines failing*, which cancels its siblings in the middle of requests.
* *Timeouts racing late answers*, and retries of what is already done.
* *Unsynchronised shared variables* (the release command's `err`).
* *Machines that move by themselves*: booting, crashing, stopping, disappearing.
* *Processes that replace each other* at one socket path, with locks that a crash frees and
  files that it leaves behind.
* *State read before a lock, a lease or a request and used after it*: machines, plans,
  peers, tunnels, tokens.

The list of hazards in `PROJECT.json` puts each at the line where it bites and names the
properties that would catch it.

## 2. Modules

| module | models | uses |
|---|---|---|
| `Handover` | abstract: what a hand-over of traffic from old to new machines may do | |
| `BlueGreen` | `blueGreen.Deploy`, `blueGreen.Rollback` | `INSTANCE Handover` |
| `BlueGreenProofs` | theorems | `BlueGreen` |
| `MachineLeases` | `machineSet` over `leasableMachine` | |
| `MachineLeasesProofs` | theorems on leases and waits | `MachineLeases`, `MachineWaits` |
| `UpdateRecovery` | `updateMachinesWRecovery` and its caller | |
| `UpdateRecoveryProofs` | theorems | `UpdateRecovery` |
| `MachineWaits` | `WaitForState`, `waitForMachineState` | |
| `ReleaseCommand` | `runReleaseCommands` | |
| `Deployment` | `DeployMachinesApp`, `deployMachinesApp`, the rolling and immediate strategies | `ReleaseCommand`, whose steps are its second stage |
| `DeploymentProofs` | theorems on the release command alone and in a deployment | `Deployment` |
| `Agent` | the agent's life: `Establish`, `StartDaemon`, `agent run`, accept loop, shutdown | |
| `AgentProofs` | theorems | `Agent` |
| `AgentTunnels` | what the sessions of one agent share | |
| `AgentTunnelsProofs` | theorems | `AgentTunnels` |
| `ConfigTokens` | the configuration file and the processes that hold its tokens | |
| `ConfigTokensProofs` | theorems | `ConfigTokens` |
| `ScaleCount` | `convergeGroupCounts`, a pure algorithm | |
| `MachineCommands` | two commands on the same machines | `ScaleCount` |
| `MachineCommandsProofs` | theorems | `MachineCommands` |
| `MC...` | model values, symmetry and calls for TLC | |

Definitions whose name has an underscore and a reason (`resetLease_missing`) are *mutants*:
the way a plausible bug would change the definition after the underscore's left part. They
are used by no specification; each shows that the property named beside it in
`PROJECT.json` fails when the code is changed that way.

### BlueGreen

*State.* `stage` is where `Deploy` stands. `task[b]` is the goroutine the stage runs for
blue machine `b` (queued, running, looking up, blocked on the error channel, done) and
`attempt[b]` its attempt within `retry.Do`. `aborted`, `canDeleteGreenMachines`, `err` (the
set of joined errors), `hanging` and `tracked` are the fields of `blueGreen`. `live`,
`ready`, `cordoned`, `stopped`, `destroyed` are what the API stores; `live[b]` identifies a
green machine by the launch attempt that made it, so that duplicates can be told apart.
`cfg` is chosen once: group, checks, SkipLaunch and host status of every machine.

*Actions.* One per stage exit (`CreateDone`, `WaitStartedDone`, ...), with the stage's
error, the check of `isAborted` after it and what `Deploy` assigns; and one per request of
a stage's goroutine (`Launch`, `LookupLaunch`, `UncordonGreen`, `TagBlue`, ...). `StartTask`
is the pool handing out a slot. `Fail` is `Deploy` returning and
`updateUsingBlueGreenStrategy` calling `Rollback`, which destroys the tracked green machines
one by one (`DestroyGreen`) or nothing (`RollbackDone`). `Abort` is Ctrl-C, `Kill` a crash.

*Abstraction.* Tags and their values are left out: nothing reads them (the functions
that would, `getZombies` and `DeleteZombiesFromPreviousDeployment`, are never called). What
remains of the tag stage is that it happens, cannot fail the deployment, and does not look
at `aborted`. Image references are members of a set.

*Ambiguous launches.* A launch may fail with the machine created. Only a transient error
(408, 5xx) is followed by a lookup; any other one, a deadline or an i/o timeout included,
ends the launch at once (`:1511`). What a lookup shows is any subset of the machines the
launch has made: the list may lag (`:1483`), and a lookup that fails shows none (`:1526`).
`told` are the green machines flyctl was ever given, by a launch or by a lookup, and
`missed` those that existed when a lookup returned none. Both are history: no step reads them.
`OneGreenPerLaunch` and `FailedIsAllOrNothing` are stated with them, so that they hold of
what the code does: a green machine that flyctl was never given may stay after a failed
deployment, and a lookup that misses a machine leads to a second one. Nothing else does.

### Handover

`old` and `new` are sets of slots (machines). A slot of `new` may be brought up at any time,
taken back only while every old one is in place, and an old one given up only while every
new one is up. `BlueGreen` implements it with `old` the untouched blue machines and `new`
the tracked green ones that exist and are ready. This is the promise a user relies on: at
every moment, whatever happens, one of the two fleets is whole.

### MachineLeases

*State.* `acquire`, `refresher` and `release` are the three goroutines that meet at one
`leasableMachine`, `mu` its mutex, `nonce` its `leaseNonce`, `refreshCtx` the context
`leaseRefreshCancelFunc` cancels, `leaseCtx` the errgroup's. `server` is the lease the API
has; `grants` makes nonces fresh; `released` remembers which leases were given up at our
request. A request is sent, served and received in separate steps, so that the server's
effect can come before a cancellation that the client sees.

*Abstraction.* The server's refresh endpoint is the acquire endpoint with a nonce: for a
lease that no longer exists it may answer with an error or with a *new* lease, which the
client rejects as unexpected. A request whose context is already canceled is not sent
(`net/http` checks the context first). A request is not carried out later than its answer.

### UpdateRecovery

*State.* `pc` is where `updateMachinesWRecovery` stands, `task[m]` the goroutine of the
tuple of machine `m`, `poolErr`/`groupErr`/`updateErr` the first errors of the nested
errgroups, whose contexts they cancel. `passed` is `healthChecksPassed`; `checked` is the
truth it is compared with: the checks a machine passed since its last change. `gone` are
the machines whose ID no longer exists and `copies` the number of machines launched in
their place. `lease` are the machines with a `LeaseNonce`; `newLease` are those whose
successor, created by a retry, was leased with a nonce nobody stores (`plan.go:708`).

*Actions.* `AcquireLease`/`AcquireDone` are the lease loop; `StartTask` to `RunChecks` a
tuple's way through `updateProcessGroup` and `updateMachineWChecks`; `UpdateFails`,
`GiveUp`, `Retry` the retry loop, whose inner call is the same code with `recovering`
set; `Unwind` the deferred release; `Return` the end of the call, or the begin of the call
after the canary. A replacement is two requests, `DestroyOld` and `LaunchReplacement`, also
as the fall-back of an update in place that the host has no room for.

*Abstraction.* Errors are recoverable, unrecoverable or a cancellation, which is what the
code tests for. Configurations are old and new. The lease refreshers are left to
`MachineLeases`, the wait for a good state is one step with either outcome (its inside is
`MachineWaits`). `MaxUnavailable` is in percent, so that fractions stay integers. Machines
do not start by themselves (autostart), and the ID of a machine that was replaced may or may not be
leasable.

### MachineWaits

One call waits for a set of states with a goroutine each; `WaitForState` alone is the call
with one state. `outcome` is the `switch` of `WaitForState` in the order of its cases,
`complete` what a goroutine of `waitForMachineState` records under the mutex, `Poll` the
loop of the caller. `seen` records the states the machine has really been in. The four
calls checked are those flyctl makes: any good state after an update, a started state of a
machine just created, and a machine that is to be gone, with a timeout and without one
(`WithAllowInfinite`, for `--release-command-timeout none`).

### ReleaseCommand

`err` is the named result of `runReleaseCommand`. Because the log goroutine assigns it too,
each `err = ...; if err != nil` is two steps (`Assign`, `Test`), and the final `return` is
two as well: it sets `err`, then deferred calls run, then the value is what the caller sees
(`Return`). `ReadEntry` is one iteration of the log goroutine. A data race of this kind is
undefined; the model lets each assignment take effect as a whole at one moment, which is
the mildest outcome the Go memory model allows for an interface value.

### Deployment

*State.* `stage` is where the driver stands, `status` and `tries` the release's status in
the backend and the attempts left at setting it. `mset` is `md.machineSet`, `cfg` what each
machine runs, `created` and `canary` the machines the driver launched. Of the update,
`task[m]` is a machine's closure in `updateEntriesGroup`; a batch is the warm or the cold
machines of a group; `batchErr`, `groupErr` and `derr` are the errors of the pool, of the
errgroup over the two batches, and of the deployment. An error is the *set of its causes*,
because conc pools join the errors of their tasks while an errgroup keeps the first:
`errors.Is(err, context.Canceled)` is membership. The contexts of the three nested pools
are derived from these (`poolCtxDone`, `groupCtxDone`, `groupsCtxDone`).

*Actions.* `Configure`, `SetRunning`, `Push`, then `RunReleaseCommands`, whose steps are
those of `ReleaseCommand` until `ReleaseCommandsReturn`; `SpawnCanary`, `TestCanary`,
`CanariesReturn`; `RemoveMachines`, `DestroyMachine`, `CreateMachine` for the changes of
process groups; `AcquireLeases`; `BeginUpdate`, `UpdateMachine`, `WaitForMachine` of each
machine, `BatchReturns`, `GroupReturns`, `UpdateReturns`; `SetFinal` and `Finalize`.

*Abstraction.* `MachineLeases`, `MachineWaits` and `BlueGreen` are not repeated: the leases
are had or not, a machine becomes good or not. The machines of a batch are slices in the
order of their IDs; regions and mounts are left out.

### Agent

*State.* `pc[c]` is where command `c` stands, `conn` and `request` its connection: queued
by a listener, accepted, answered or closed. `agent[p]` is where an agent process stands;
the agent a client forks has the client's name. `startLock` and `agentLock` are the two lock
files, `socket` the process whose listener made the file at the socket's path, or nobody.
`kills` are the kill commands an agent has not read yet.

*Actions.* Every connection is a step of the client, of the accept loop and of the session,
so that an agent may be killed, interrupted or crash between them. `RemoveSocket` and
`BindSocket` are two steps, as are taking the agent's lock and everything after it.

*Abstraction.* A bound listener queues connections at once; closing it resets what is
queued. What a session does for a command is `AgentTunnels`.

### AgentTunnels

*State.* `tunnels` is `s.tunnels`, `closed` the tunnels on which `Close` was called, `peers`
the WireGuard states in viper's memory, `mu` the server's mutex while it is held over a
request. `held` is the tunnel a session has looked up and uses without the mutex, `own` the
sessions that have sent tokens of their own. `updates` counts the goroutines of `set-token`
that wait for the mutex. `snapshot` is what `PruneInvalidPeers` asked the API about.

*Actions.* A session checks the file, reads a command, and then either establishes, which
is `fetchOrg`, `doEstablish` and `buildTunnel` with its two requests, or looks a tunnel up
and uses it. `getClient` takes the server's mutex unless the session has tokens of its own,
once in `fetchOrg` and once in `doEstablish`. `UpdateLocks` and `UpdateTokensFromClient` are
the goroutine that replaces the server's tokens and keeps the mutex over the first renewal.

*Abstraction.* The file itself is only its time of change: viper reads it once, and
`checkForConfigChange` compares peers with that memory. Whether the server's tokens come from
a file is not kept: an update does nothing or takes effect. A use of a closed tunnel ends the
agent (`panicked`), as the nil device does. Of several uses of one tunnel the last stands for
all, since any of them may find it closed.

### ConfigTokens

*State.* `file` has the login, how often its tokens were renewed, and whether the maps (the
WireGuard peers and the minimum versions of secrets) still have their entries; between
`O_TRUNC` and the write it is empty, which the decoders accept. `todo`, `wpc` and `snap` are
the changes a process makes of the file: read under a shared lock, write under an exclusive
one taken later. `viper` is what a command found in the unlocked read every process makes
when it starts (`flyctl/flyctl.go:95`, from `root.go:104`). `mem` is a holder's
`tokens.Tokens`, `monitor`/`seen` its monitor, `refresher` its refresher with the two copies
of the tokens it takes one after the other, `local` and `before`.

*Abstraction.* A change writes back every key it read but its own, which is how it can undo
a logout; a map is written back as the process has it in viper. A shared lock is one step,
since readers do not exclude each other. Holders write tokens only: the peers the agent saves
are those of its own memory and are left to `AgentTunnels`.

### MachineCommands and ScaleCount

*State.* `state`, `version`, `config`, `reachable` and `lease` are the API's; the nonce of a
lease is the command it was granted to, a configuration the set of commands whose change is
in it. `snap[c]` is what command `c` has read, `acq[c]` how each of its leases stands,
`left` and `plan` what it has still to do, `lapsed` the commands that lost a lease.

*Actions.* `Select`, `AcquireLease`, `GetAgain`, `AcquireReturns`, `ReleaseLease` and
`Return` are common to all commands; `Start`, `Stop`, `Suspend`, `Cordon`, `Uncordon`,
`KillMachine`, `Restart`, `Update`, `Destroy`, `ClearLease` and the tasks of a scale are
what they do between. A request that fails may have been carried out.

*ScaleCount* is `convergeGroupCounts`, each of its loops a recursive function of the number
of iterations. The code's two loops over `diff` have no bound; the model gives them one
round over the regions for each unit of `diff`, and a loop that needed more would leave a
plan that misses the count. `PlanIsExact` compares the result with what a plan is to
achieve: TLC over every count from 0 to 4, lists of regions with and without duplicates and
three maxima, the theorem `ScalePlanExact` over all of them.

`ScaleMeetsCount` is about the only scale of the app: two scales at the same time each plan
from the machines they have listed, and together they may launch twice what is missing.

## 3. Runs

Every run names its bounds in its `.cfg`. The longest take two to three minutes with two
workers.

| run | checks | states | result |
|---|---|---|---|
| `bluegreen` | type, hand-over, traffic after health, all or nothing, completeness, one green per launch, refinement of `Handover` | 3.3 M | holds |
| `bluegreen_live` | `Terminates` | 662 k | holds |
| `leases` | `ReleasedStaysReleased`, `RefreshHasNonce`, `AlwaysReturns`, `RefreshersStop` | 67 k | holds |
| `recovery` | `SuccessIsChecked`, `SuccessKeepsMachines`, `FirstUpdateBounded`, `LeasesCleared` | 5.3 M | holds |
| `recovery_canary` | `CanaryFirst`, `Returns` | 1.9 M | holds |
| `waits` | `SuccessWasSeen`, `WaitReturns` | 24 k | holds |
| `deployment` | type of `ReleaseCommand`, `FailureAbortsUnlogged`, `RollStops`, `CompleteIsDeployed`, `ReleaseSettled`, `DeploymentReturns` | 420 k | holds |
| `deploy_interrupted` | `InterruptedByUser` | | violated |
| `agent` | `ServingIsReachable`, `CommandsReturn`, `ShutdownEnds` | 274 k | holds |
| `agent_tunnels` | `MapTunnelsOpen`, `RequestsGetOn`, `StrayTunnelsClose` | 138 k | holds |
| `config_tokens` | `KeysKept`, `RefreshKeepsLogin`, `HoldersFollowFile` | 421 k | holds |
| `machine_commands` | `UpdatesKept`, `LeasesReleased`, `ScaleMeetsCount`, `PlanIsExact`, `CommandsEnd` | 637 k | holds |

Every module states its type invariant (`TypeOK`, `DeployTypeOK`); the runs keep those
of `BlueGreen` and `ReleaseCommand`, and the theorems of section 4 prove what
the others need of theirs.

### What the passing runs show

* **The hand-over is safe.** With every abort, failure, ambiguous answer and crash, an old
  machine is touched only once every machine's replacement exists and is ready, and from
  then on no rollback destroys a replacement. The flag `canDeleteGreenMachines` and the
  list of errors in `CanDestroyGreenMachines` are both needed: each mutant breaks it.
* **Traffic follows health**, which for a group whose machines were all stopped rests on
  `forceStartRepresentatives`.
* **Launches**: a machine the lookup shows is adopted, so that a second green machine is made
  only after a lookup that did not show the first; and a rollback destroys every green
  machine flyctl was given.
* **Leases**: the mutex and `resetLease` together are what keeps a late refresh from
  acquiring again what was just released.
* **Recovery**: the remembered check results are never stale for a machine that keeps its
  ID, because a retry finds the configuration equal and does not change the machine again
  (a spurious difference in `compareConfigs` breaks this, which is why the code normalises
  empty slices); a machine whose replacement failed is made good by a retry; the first pass
  stays within max-unavailable even when tasks fail; every way out, panics included,
  releases the leases whose nonce was stored.
* **Waits**: a nil error always means the state was reached. A wait without a timeout still
  ends once the machine stays in the state, or at Ctrl-C.
* **Release command**: the shortcut for a machine that is gone does not hide a failure,
  also inside a whole deployment.
* **Deployment**: the spearhead and the pools' contexts keep a failing roll from taking down
  more machines than one pool holds, failed ones included; a release recorded as complete
  has no stage whose error was lost; every release gets a final status unless the backend
  refuses it, the user cancels or the statics cannot be pushed.
* **Agent**: the agent's lock is what makes `bind` safe, which removes whatever is at the
  socket's path; a second agent, forked by a client that lost the race for the start lock,
  ends. No connection, queued, idle or in use, keeps an agent from shutting down, and no
  shutdown leaves a client waiting.
* **Tunnels**: establishing, pruning and validating in any order never leave a closed tunnel
  in the map; a tunnel whose peer was forgotten by a stale snapshot is closed later, unless
  a reestablish puts another one in its place. Since every getter of a client comes before
  `buildTunnel`, no session waits for a mutex it holds itself.
* **Tokens**: the lock file keeps a change from losing the login, and comparing the tokens
  before a renewal is installed is what keeps it from undoing a login that came after both
  copies.
* **Machine commands**: reading a machine again after the lease was granted is what keeps an
  update from overwriting another one; the leases are given back on every way out, panics
  included; a scale reaches its count while it holds its leases.

### What the violation run shows

`deploy_interrupted`: a release can be recorded as *interrupted* although nobody interrupted
it. A rolling update whose machine fails cancels the context of its pool; a sibling that has
not begun returns that context's error (`machines_deploymachinesapp.go:994`, under a comment
that says as much); the pool joins both, and `DeployMachinesApp` (`:100`) finds
`context.Canceled` among them and takes the failure for Ctrl-C, so that the error's text is
not stored with the release either. `PROJECT.json` quotes the lines.

### Behaviours no run is spent on

The models have, or modelling met, these behaviours of the code. The first group is at odds
with a comment, an error handler or a test.

* A blue machine that does not stop in time fails the deployment before the stage that
  would destroy it (`strategy_bluegreen.go:827`); the comment at 759 says "Non-fatal: the
  destroy step below force-kills".
* After Ctrl-C, `machineSet`'s leases are not released: the 500 ms context is derived from
  the canceled one (`machine_set.go:110`, comment at 105).
* A retry may take down a second machine while the first is still down: the sorted list
  (comment at `plan.go:306`) is turned into a map and iterated over (`:143`).
  `FirstUpdateBounded` is about the first pass for that reason.
* A failing list between two retries is dereferenced before its error is tested
  (`plan.go:308`, handler at 314).
* A log line that arrives at the wrong moment turns a failed release command into a success:
  the log goroutine assigns the named result (`machines_releasecommand.go:127`).
  `FailureAbortsUnlogged` is about commands whose logs were not read for that reason.
* `launchGreenMachineWithRetry` launches again when the idempotency lookup fails
  (`strategy_bluegreen.go:1526`); the comment at 1481 says that no duplicate is created.
  The machine it did not find, and one whose launch ended in an error that is not looked up
  (`:1511`), is known to nobody and survives the rollback. `missed` and `told` are there for
  this.
* The refresher copies the tokens twice without its mutex (`tokens.go:136`); tokens replaced
  in between pass the comparison at 160, and the old login comes back. The comparison is with
  memory only, so that a login the monitor has not read yet is overwritten in the file; the
  comment at 156 says "don't clobber config file if it changed out from under us".
* `--deploy-retries N` makes N + 1 retries (`plan.go:298` tests before it counts).
* `waitForMachineState` can return the state it reached together with the error another
  goroutine recorded before (`plan.go:803`), and its caller takes that for a failure.
* `updateMachineByReplace` says that the lease is held while the checks run
  (`machines_deploymachinesapp.go:1055`), but the deferred release runs when it returns,
  before `waitForMachine`.
* `AcquireLeases` drops the result of a task that failed, and with it the nonce of a lease
  that was granted before the second read failed; `lease.go:113` says "This will ensure the
  lease can still be released in the event the upcoming GET fails." That holds only for
  `AcquireLease` called alone.
* A tunnel that is closed while a session uses it is a nil dereference that ends the agent
  (`wg/tunnel.go:126`), although `agent/errors.go` has `ErrTunnelUnavailable` for it.
* `convergeGroupCounts` says "Iterate regions in reverse order" (`count_machines.go:410`);
  `-idx % n` goes forward, beginning with the second region. The plan is exact all the same.

The second group contradicts nothing that is written down:

* A failing `machineSet.AcquireLeases` can leave a granted lease whose nonce nobody knows
  (`machine_set.go:64`); in `plan.go:212` the leases already held are left to expire, and so
  is the lease on a machine that a retry creates (`plan.go:708`).
* A machine that was replaced is missing from later lists, so that a later retry creates one
  more in its place (`plan.go:158`).
* When statics cannot be configured or pushed, the release stays *pending* or *running*
  (`machines_deploymachinesapp.go:54` to 88). `CleanupAfterFailure` deletes the statics of a
  release that some machines already run.
* A canary whose checks fail, or that cannot be destroyed, is left behind: the deferred
  destroy assigns to a result that has no name (`machines_deploymachinesapp.go:330`).
* A deployment limited by `--only-machines` or `--only-regions` takes groups without a
  *selected* machine for groups without a machine, and creates some (`:1193`).
* The kill that `Establish` or `agent restart` sends goes to whatever agent is at the socket
  by then. `StartDaemon` does not look again for an agent once it has the start lock.
* `reestablish` replaces a tunnel without closing the old one, which stays open for as long
  as the agent runs. `PruneInvalidPeers` writes a
  stale snapshot over a peer made meanwhile (`wg.go:189`).
* A change of the configuration file reads it under one lock and writes it under another
  (`file.go:110`), so a concurrent change, a logout included, is lost; a process that starts
  while another one writes reads an empty file without the lock (`flyctl.go:95`) and later
  writes maps back without what was in them; a process killed
  while it writes leaves an empty file, which reads as logged out; one error of the monitor
  ends it for good (`tokens.go:107`).
* The leases of machine commands last 120 seconds and are never refreshed, while one update
  may wait 300 seconds (`lease.go:106`, `update.go:96`); machines on unreachable hosts are
  worked on without a lease (`lease.go:38`). `UpdatesKept` exempts both.
* `Restart` waits with a machine that has no configuration; when it does not come up, the
  look at its restart policy is a nil dereference (`restart.go:27`, `wait.go:77`).
* Two `scale count` at a time overshoot, since the plan is made before the leases are taken
  and kept if the machines have changed (`count_machines.go:130`).

### Bounds, and why they are enough

* *Two machines.* All components are symmetric in their machines and couple them only
  through "all of them", "one of them" and pool limits; two show one machine ahead of, or
  failing beside, another. `bluegreen` has two process groups, since its checks are per
  group; the recovery runs have one, whose warm and cold pools already cancel each other,
  so that max-unavailable is about both machines. Every
  invariant but those about scaling is also proved for any number (section 4).
* *Attempts* (`LaunchAttempts`, `UncordonAttempts`, `TeardownAttempts`) are 2: a first
  attempt, a retry and exhaustion all happen. `DeployRetries` is 1 for the same reason.
* `MaxConcurrent` is 2 for safety, so that tasks overlap, and 1 for liveness, so that they
  queue. (Launches are limited to a third of the machines, rounded up.)
* `MaxUnavailable` is 50 %, so that one of two machines may be down and two may not.
* `MaxGrants` is 2: a lease can be granted, lost, and granted anew by a refresh.
* `MaxEntries` is 1 in the deployment: the race needs one entry.
* `deployment`: seven machines in four groups, of which one is no longer in the
  configuration and one has no machine yet; five setups pick what takes part. The rolling
  one has four started machines of one group beside one stopped machine of another, so that
  with `MaxUnavailable` 50 % and `MaxConcurrent` 2 the spearhead, a full pool, a queued and
  a skipped task, and the two pools of two groups all happen. `StatusAttempts` is the code's 3.
* `agent`: two commands and the agents they may fork beside one that was there before, in
  four combinations of commands, versions and background or foreground. Two clients are
  enough for every race for a lock or the socket; a third would queue behind them.
* `agent_tunnels`: two sessions beside the cleaner and one goroutine of `set-token`, one
  organization with a peer, two peers in all, so that a peer is reused, pruned, made anew
  and replaced. Organizations meet only at the mutex, which two sessions of one organization
  do as well; `MapTunnelsOpen` is proved for any number of them.
* `config_tokens`: two holders, one of which starts from the environment, one command, two
  logins and one renewal: every pair of monitor, refresher, login, logout and change of
  another key overlaps.
* `machine_commands`: three machines, two in one region, and a third region without any; two
  commands at a time, in forty scenarios, a list of regions that names one twice among them.
* Symmetry: machines (`recovery`) and groups and images (`bluegreen`) are model values
  that no formula distinguishes. Runs with liveness properties use no symmetry.

### Fairness, and why the code justifies it

* `BlueGreen!FairSpec`: weak fairness of the code's steps. Every request has an HTTP
  timeout, every wait a timer, the pools run queued tasks, and the loops poll.
  Neither Ctrl-C nor a crash is assumed to happen or not to happen.
* `UpdateRecovery!FairSpec`: the same for the call's steps; a machine need not boot.
* `MachineLeases!Fairness`: weak fairness per goroutine, and strong fairness for taking the
  mutex in `ReleaseLease`, since the refresher frees and takes it again and again:
  `sync.Mutex` hands itself to a waiter that has starved for a millisecond.
* `MachineWaits!FairWaitSpec`: requests are answered, backoffs end, the caller polls, and the
  deadline of a call that has one arrives. Of a call without a deadline, an API that is asked
  again and again does not answer with an error every time (strong fairness of an answer
  that is none); nothing is asked of the machine or of the user.
* `Deployment!FairDeploySpec`: weak fairness of the driver as a whole. Every request ends,
  if only at its timeout; nothing is asked of the user or of a machine. With
  `--release-command-timeout none` the release command's last wait has no timeout, so
  `DeploymentReturns` is not about that flag; `WaitReturns` says what such a wait promises.
* `Agent!FairSpec`: weak fairness of each client, of its poll's timeout, of each session and
  of each agent process. No kill, signal, crash or end of a user's connection is assumed.
* `AgentTunnels!FairSpec`: weak fairness of what is done with the mutex held (requests to the
  API end), strong fairness of every step that has to get it, of sessions, cleaner and token
  updates alike (`sync.Mutex` hands itself to a waiter that starves). Nothing is assumed of
  the other end of a connection: a client may never send a command (`session.go:90` has no
  timeout), and `connect` and `ping6` last as long as it likes.
* `ConfigTokens!FairSpec`: tickers fire and requests end; strong fairness only for a monitor
  that has read the file and waits for the mutex it shares with the refresher. No login,
  logout or renewal has to happen.
* `MachineCommands!FairSpec`: weak fairness of each command. The prompts are answered;
  leases need not expire, hosts need not recover.

## 4. Theorems

TLC checks the instances of section 3; the theorems hold for every value of the constants.
Each inductive invariant named below was first checked with TLC on those instances.

| theorem | module | states |
|---|---|---|
| `TypeCorrect` | each `...Proofs` but `MachineCommandsProofs` | types, and where control needs it what a stage means |
| `HandoverSafe` | `BlueGreenProofs` | `Spec => []BlueKeptUntilGreenServes` |
| `ImplementsHandover` | `BlueGreenProofs` | `Spec => HandoverSpec` |
| `TrafficFollowsHealth` | `BlueGreenProofs` | `Spec => []TrafficOnlyAfterHealth` |
| `SuccessReplacesAll` | `BlueGreenProofs` | `Spec => []CompleteIsReplaced` |
| `LaunchesOnce` | `BlueGreenProofs` | `Spec => []OneGreenPerLaunch` |
| `FailureIsAllOrNothing` | `BlueGreenProofs` | `Spec => []FailedIsAllOrNothing` |
| `ReleaseIsFinal` | `MachineLeasesProofs` | `Spec => []ReleasedStaysReleased` |
| `RefreshKeepsNonce` | `MachineLeasesProofs` | `Spec => []RefreshHasNonce` |
| `WaitSuccessWasSeen` | `MachineLeasesProofs` | `WaitSpec => []SuccessWasSeen` of `MachineWaits` |
| `UnloggedFailureAborts` | `DeploymentProofs` | `Spec => []FailureAbortsUnlogged` of `ReleaseCommand` |
| `DeployTypeCorrect` | `DeploymentProofs` | `DeploySpec => [](DeployTypeOK /\ TypeOK)` |
| `DeployFailureAborts` | `DeploymentProofs` | `DeploySpec => []FailureAbortsUnlogged` |
| `CompleteMeansDeployed` | `DeploymentProofs` | `DeploySpec => []CompleteIsDeployed` |
| `StatusSettled` | `DeploymentProofs` | `DeploySpec => []ReleaseSettled` |
| `FailureStopsRoll` | `DeploymentProofs` | `DeploySpec => []RollStops` |
| `UpdateReleases` | `UpdateRecoveryProofs` | `Spec => []LeasesCleared` |
| `CheckedOnSuccess` | `UpdateRecoveryProofs` | `Spec => []SuccessIsChecked` |
| `KeptOnSuccess` | `UpdateRecoveryProofs` | `Spec => []SuccessKeepsMachines` |
| `CanaryBeforeOthers` | `UpdateRecoveryProofs` | `Spec => []CanaryFirst` |
| `FirstUpdateKeepsBound` | `UpdateRecoveryProofs` | `Spec => []FirstUpdateBounded`, under the two hypotheses below |
| `ServingAtPath` | `AgentProofs` | `Spec => []ServingIsReachable` |
| `LocksExclude` | `AgentProofs` | `Spec => []OneAtATime`: both lock files exclude |
| `MapStaysOpen` | `AgentTunnelsProofs` | `Spec => []MapTunnelsOpen` |
| `FileKeepsKeys` | `ConfigTokensProofs` | `Spec => []KeysKept` |
| `LoginOnlyFromFile` | `ConfigTokensProofs` | `Spec => RefreshKeepsLogin`, an action property |
| `AcceptedUpdatesKept` | `MachineCommandsProofs` | `Spec => []UpdatesKept` |
| `ReturnReleases` | `MachineCommandsProofs` | `Spec => []LeasesReleased` |
| `ScalePlanExact` | `MachineCommandsProofs` | `Spec => []PlanIsExact` |
| `ScaleReachesCount` | `MachineCommandsProofs` | `Spec => []ScaleMeetsCount` |

### Assumptions

They are the named `ASSUME`s of the modules, which TLC evaluates in every run: bounds on
attempts, grants, entries and retries are natural numbers, positive where the code tries at
least once; pool sizes and `MaxUnavailable` are positive; setups, calls and scenarios are
records of their types; the value that says a lock is free is no process, session or
command. Where a pool or a batch is counted, `Machines` is finite; where the code sorts
machines by ID, IDs are numbers. Only these say more than types:

* `WellFormedCalls` of `MachineWaits`: a call waits for `destroyed` only of a machine the API
  has known. The code does so once, for release command machines, and waits for `started`
  first (`deploy/machines_releasecommand.go:351` and `:362`). For a machine the API does not
  know yet, `destroyed` would be taken from a 404.
* `CommandsAssumption` of `MachineCommands`: a scale has at least one region. The code takes
  them from the flag, else from the machines, else the primary region
  (`scale/count_machines.go:52`).
* `FirstUpdateKeepsBound` assumes `~Canary` and that not both of the smoke and the regular
  checks are skipped. Without a check that looks at the machine's state, a goroutine ends
  while its machine is still down and the pool gives its place to the next; and a canary
  that was replaced takes part in the main update again beside a full pool.

### Arguments

None of the properties is inductive as it stands. What each proof adds:

*BlueGreen.* `BlueKeptUntilGreenServes` does not say what `Deploy` knows when it starts to
cordon, nor what `Rollback` may be asked to destroy. `HInv` adds, stage by stage, what has
been established for the green machines (each finished create task tracks a live machine,
each finished uncordon task a ready one), that `canDeleteGreenMachines` is false from the
hand-over on, and that an error that lets `Rollback` destroy green machines never follows a
touched blue one. The last needs the set of errors each later stage can join (`LateErrors`).
The refinement then needs `HInv` only for the steps that take machines away; every other
step leaves `old` and `new` as they are or brings a green machine up. Four further
invariants build on it, each over the tasks of the stage it is about: `HealthInv` (a
finished wait has seen its machine started, or healthy; that a group with checks has one to
verify follows from its lowest-numbered machine, which `forceStartRepresentatives` starts),
`ReplaceInv` (a finished teardown destroyed its machine or listed it as hanging),
`LaunchInv` (a goroutine about to launch has no machine but those its lookups missed, and of
the machines flyctl was given only the tracked one is left) and `FailInv`
(a rollback that does not destroy has nothing to destroy or a whole green fleet).

*MachineLeases.* `LInv` relates the three goroutines of one machine: whoever is in a
request holds the mutex, a refresher that is not told to stop has a nonce, and once a
release has been asked for, the refresher's context is canceled, so that no request of its
is served any more. Since no other step grants a lease after the acquire stage, a released
lease stays released.

*MachineWaits.* The caller gives up when all goroutines have completed, and must then have an
error or a state. `WInv` avoids counting them: as long as neither is recorded, none has
completed.

*ReleaseCommand and Deployment.* `Inv` says that a test of `err` leads on to a step of the
command (`TestLeadsOn`), that an exit code is written once and only by a machine that was
started (`CodeWrittenOnce`), and that without log entries `err` is nil at the return only if
the exit event says 0 (`NilMeansZero`). `DInv` carries it through the deployment for as long
as the command runs (`ReleaseInv`), and adds what each stage has achieved for the fleet
(`FleetInv`), that nothing is updated outside its stage (`IdleInv`, `RunningInv`), that a
task's error reaches its batch, its group and the result (`TaskInv`, `DoneInv`), that only
the spearhead works until it has passed (`LeadInv`), that a pool counts its failed machines
too (`SlotInv`), and what follows for the status (`StatusInv`). No pool lets a task start
once one has failed, which is why failed machines never add to a full pool.

*UpdateRecovery.* `TInv` ties the goroutines to the stage of the call; `LeaseInv` keeps the
leases within its scope; `CreatedInv` says that a machine about to be leased by itself, or
leased so, was created in the place of one that is no more; `ErrInv` carries an error of a task to its pool, group and call, so
that a call without an error has no failed task; `WorkInv` says that the remembered checks
are those of the machine as it is now, with nothing beyond the skipped ones remembered for a
machine still on its old configuration; `DoneInv` that what is done stays done through the later call of a canary
deployment. For the bound, `AvailInv` says which goroutine a machine that is down belongs
to, and `SlotInv` that these goroutines, and the failed ones whose machine is down, never
exceed the pool.

*Agent.* An agent holds its lock from before it removes the socket's path until it ends
(`LockInv`), a client forks at most once (`ForkInv`) and holds the start lock exactly while
it forks and polls (`StartInv`).

*AgentTunnels.* `Uses(o, i)` collects every place from which peer `i` can still get into the
map for organization `o`: the peers in memory, the cleaner's snapshot, the map, and a
session about to connect. `OpenInv` says none of these is closed and `OwnerInv` that no two
organizations share one; the step that closes a tunnel takes its peer out of all of them,
since whoever is about to connect holds the mutex the cleaner needs.

*ConfigTokens.* `KeysKept` says nothing of what processes have read and are about to write.
Outside the exclusive lock the file is whole, hence so is every locked copy of it
(`CopiesWhole`), and until somebody logs in or out every change that is still to be made
keeps what it does not set (`ChangesKeep`); the maps are the exception, since a process may
have misread them at start-up. For the login, `RefresherInv` says that a refresher asks the
API only while its process has nothing to write.

*MachineCommands.* `HeldInv` accounts for every lease the server has granted; `FreshInv` says
that while a command's lease has not lapsed the machine's configuration is the one the
command has read, plus its own change, and that an equal version means an equal
configuration; `KeptInv` is the property by machine and command. Most steps only move a
command on (`Quiet`), which one lemma covers.

*Scaling.* The plan comes first, as lemmas on `ScaleCount` that mention no command. A
recursive function exists because its step can be iterated (`Iterates`), and the sum over
the regions changes by as much as one region does (`PlannedChange`; here it matters that
`lo.Uniq` removed duplicates, `UniqDistinct`). Each iteration keeps the sum of what is
planned and what is still missing (`Grown`, `Shrunk`). While something is missing some region
has room, else the count would exceed regions times maximum (`SomeRoom`), while there is too
much some region has a machine (`SomeLeft`), and a round over the regions meets that region
(`RoundVisits`); so `diff` comes down at least once a round, and the rounds the model gives
a loop end it (`RoundsEnd`). `ConvergeExact` puts this together: the code's loops terminate
with an exact plan.

For the commands, `ActionsMeetPlan` counts: destroying the first machines of a region and
launching in it leaves what the plan says (`FirstOnes`). `Scaling` then follows a scale from
its plan on: what it has launched and what is left to launch make up the plan, and, as long
as its leases hold, its machines are destroyed exactly if it was to destroy them and has
done so. That other commands respect this is one lemma for all of their steps
(`OthersAside`): they destroy no machine whose lease the scale has. A scale that ends
without error has nothing left, hence the count.

The proofs use induction on a set of numbers (`NatSetInduction`, from the well-foundedness of
the naturals), since the library's theorem with an operator parameter cannot be instantiated.

### Only model-checked

* Liveness (`Terminates`, `AlwaysReturns`, `RefreshersStop`, `Returns`, `WaitReturns`,
  `DeploymentReturns`, `CommandsReturn`, `ShutdownEnds`, `RequestsGetOn`, `StrayTunnelsClose`,
  `CommandsEnd`, `HoldersFollowFile`): fairness is out of the prover's reach.
* `InterruptedByUser`, which the code violates.

Every invariant, the action property and the refinement that the passing runs check are
theorems.

## 5. What is not modelled

* The contents of configurations, images and metadata; texts, progress lines, tracing.
* Machines started by the proxy (autostart) or changed by other clients during a deployment,
  which the leases are there to prevent; other clients are in `MachineCommands`.
* A request that the server carries out after the client has seen it fail *and* has gone on
  (the effect is placed at the answer).
* Memory effects of the unlocked map in `WaitForGreenMachinesToBeStarted` beyond a crash.
* The next deployment, which is to sweep duplicates and machines tagged as safe to destroy.
* What goes through a tunnel, the ping and DNS protocols, and the keys of a peer.
* Postgres failover and restart (`internal/command/postgres`, `flypg`): what the commands
  mean is decided by the database's own cluster manager, of which nothing is here.
* The creation of a release and its image before `DeployMachinesApp`, remote builders,
  volumes and addresses of a first deployment.
* Commands that only read or only create one thing, parsing, scanners, generated clients,
  terminal output: `PROJECT.json` names each with its reason. They are most of the
  repository's lines and hold almost none of its state.

## 6. Plan

Modelled, checked and proved so far: sections 2 to 4. Next:

1. *Remaining waits*: `WaitForHealthchecksToPass`, smoke checks, `WaitForMachineSetState`;
   then a composition in which `UpdateRecovery`'s wait is `MachineWaits`.
2. *Abstract specifications* of the lease (one holder per machine, given back at the end) and
   of the agent (one server at the path), with proofs that `MachineLeases` and `Agent`
   implement them.
3. *Exit*: `ctrlc` hooks and `task`; `ensure_builder`; ephemeral machines.
4. *Two deployments in a row*: what a crash, a duplicate or hanging machines leave for the
   next blue-green deployment.
