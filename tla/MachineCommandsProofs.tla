------------------------ MODULE MachineCommandsProofs ------------------------
(***************************************************************************)
(* Proofs about commands run at the same time, for any app, any commands   *)
(* and any number of terminals.                                            *)
(*                                                                         *)
(* The invariant has four parts: the shape of the state, what a lease that *)
(* is held says about the command that holds it, what a command that has   *)
(* its leases knows of its machines, and what became of accepted updates.  *)
(*                                                                         *)
(* The second half is about scaling. First the plan: the two loops of      *)
(* convergeGroupCounts end, in the iterations the model gives them, with   *)
(* the number of machines that was asked for. Then the commands: what a    *)
(* scale has done and what it has left make up its plan, whatever other    *)
(* commands do to the machines it holds the leases of.                     *)
(***************************************************************************)
EXTENDS MachineCommands, FiniteSetTheorems, WellFoundedInduction, SequenceTheorems, TLAPS

Snapshot == [state : MachineStates, version : Nat, config : SUBSET Commands,
             reachable : BOOLEAN]

AcqStates == {"todo", "skipped", "refused", "ok", "get", "lost", "kept", "dropped",
              "released", "unreleased"}

Working == {"request", "wait", "checks"}

PCs == {"select", "acquire", "release", "done"} \cup Working

\* The machines: what the API stores.
ServerTypes ==
    /\ state \in [Machines -> MachineStates]
    /\ version \in [Machines -> Nat]
    /\ config \in [Machines -> SUBSET Commands]
    /\ reachable \in [Machines -> BOOLEAN]
    /\ lease \in [Machines -> Commands \cup {Free}]

\* The commands: a command that has not looked the machines up holds nothing,
\* and it works on machines it has looked up.
CommandTypes ==
    /\ job \in Scenarios
    /\ pc \in [Commands -> PCs]
    /\ DOMAIN snap = Commands /\ DOMAIN acq = Commands /\ DOMAIN left = Commands
    /\ \A c \in Commands :
        /\ DOMAIN acq[c] \subseteq Machines /\ DOMAIN snap[c] = DOMAIN acq[c]
        /\ left[c] \subseteq DOMAIN acq[c]
        /\ \A m \in DOMAIN acq[c] : acq[c][m] \in AcqStates /\ snap[c][m] \in Snapshot
        /\ pc[c] = "select" => DOMAIN acq[c] = {}
    /\ applied \subseteq Commands \X Machines
    /\ lapsed \subseteq Commands

\* A lease was granted to a command that knows of it or lost the answer, and
\* what a command does not hold on to any more it has tried to give back.
HeldInv ==
    /\ \A c \in Commands, m \in Machines : lease[m] = c =>
        /\ m \in DOMAIN acq[c]
        /\ acq[c][m] \in {"ok", "get", "lost", "kept", "dropped", "unreleased"}
    /\ \A c \in Commands : \A m \in DOMAIN acq[c] :
        /\ acq[c][m] = "get" => pc[c] = "acquire"
        /\ pc[c] = "done" => acq[c][m] \notin {"ok", "kept"}
        /\ pc[c] \in Working /\ kind(c) \notin {"kill", "clear"}
              => acq[c][m] \in {"ok", "skipped"}

\* A snapshot of the current version shows the current configuration; and
\* while a lease has not lapsed, the configuration is the one that was read,
\* but for the change of the command itself.
FreshInv ==
    \A c \in Commands : \A m \in DOMAIN acq[c] :
        /\ snap[c][m].version <= version[m]
        /\ snap[c][m].version = version[m] => snap[c][m].config = config[m]
        /\ pc[c] \in {"acquire"} \cup Working /\ acq[c][m] \in {"ok", "get"} /\ c \notin lapsed
              => state[m] = "destroyed" \/ lease[m] = c
        /\ pc[c] \in {"acquire"} \cup Working /\ acq[c][m] = "ok" /\ lease[m] = c
              => config[m] \subseteq snap[c][m].config \cup {c}

\* What excuses the loss of an update to machine m: an update by a command
\* without a lease.
Excused(m) ==
    \E c \in Commands : <<c, m>> \in applied /\ (c \in lapsed \/ acq[c][m] = "skipped")

KeptInv ==
    \A c \in Commands, m \in Machines : <<c, m>> \in applied =>
        /\ m \in DOMAIN acq[c]
        /\ state[m] = "destroyed" \/ c \in config[m] \/ Excused(m)

CInv == ServerTypes /\ CommandTypes /\ HeldInv /\ FreshInv /\ KeptInv

-----------------------------------------------------------------------------
LEMMA InvInit == Init => CInv
<1>1. Init => ServerTypes
  BY CommandsAssumption DEF Init, ServerTypes, MachineStates
<1>2. Init => CommandTypes
  BY CommandsAssumption DEF Init, CommandTypes, PCs, Working
<1>3. Init => HeldInv /\ FreshInv /\ KeptInv
  BY CommandsAssumption DEF Init, HeldInv, FreshInv, KeptInv, Free
<1> QED
  BY <1>1, <1>2, <1>3 DEF CInv

(* Most steps read no machine, change no configuration and no command's view *)
(* of its leases.  Quiet says what they may do: commands move on as Moves    *)
(* allows, machines are destroyed for good, and a lease goes only with its   *)
(* machine, or from a command that is over or counts as lapsed from now on.  *)
Moves(d) ==
    \/ pc'[d] = pc[d]
    \/ pc[d] = "select" /\ pc'[d] = "done"
    \/ /\ pc[d] = "acquire"
       /\ \A m \in DOMAIN acq[d] : acq[d][m] \notin {"todo", "get"}
       /\ \/ pc'[d] = "release"
          \/ pc'[d] = "request" /\ \A m \in DOMAIN acq[d] : acq[d][m] \in {"ok", "skipped"}
    \/ pc[d] \in Working /\ pc'[d] \in Working \cup {"release"}
    \/ /\ pc[d] = "release" /\ pc'[d] = "done"
       /\ \A m \in DOMAIN acq[d] : acq[d][m] \notin {"ok", "kept"}

Quiet ==
    /\ UNCHANGED <<job, snap, acq, version, config, applied>>
    /\ state' \in [Machines -> MachineStates]
    /\ reachable' \in [Machines -> BOOLEAN]
    /\ lease' \in [Machines -> Commands \cup {Free}]
    /\ pc' \in [Commands -> PCs]
    /\ DOMAIN left' = Commands /\ \A d \in Commands : left'[d] \subseteq left[d]
    /\ lapsed \subseteq lapsed' /\ lapsed' \subseteq Commands
    /\ \A d \in Commands : Moves(d)
    /\ \A m \in Machines : state[m] = "destroyed" => state'[m] = "destroyed"
    /\ \A m \in Machines :
        \/ lease'[m] = lease[m]
        \/ /\ lease'[m] = Free
           /\ state'[m] = "destroyed" \/ lease[m] \in lapsed' \/ pc[lease[m]] = "done"

LEMMA QuietStep ==
    ASSUME CInv, Quiet PROVE CInv'
<1> USE DEF CInv
<1>1. ServerTypes'
  BY DEF ServerTypes, Quiet
<1>2. CommandTypes'
  BY DEF CommandTypes, Quiet, Moves, Working
<1>3. HeldInv'
  <2>1. ASSUME NEW c \in Commands, NEW m \in Machines, lease'[m] = c
        PROVE  /\ m \in DOMAIN acq'[c]
               /\ acq'[c][m] \in {"ok", "get", "lost", "kept", "dropped", "unreleased"}
    BY <2>1, CommandsAssumption DEF HeldInv, Quiet, Free
  <2>2. ASSUME NEW c \in Commands, NEW m \in DOMAIN acq'[c]
        PROVE  /\ acq'[c][m] = "get" => pc'[c] = "acquire"
               /\ pc'[c] = "done" => acq'[c][m] \notin {"ok", "kept"}
               /\ pc'[c] \in Working /\ kind(c)' \notin {"kill", "clear"}
                     => acq'[c][m] \in {"ok", "skipped"}
    BY <2>2 DEF HeldInv, CommandTypes, Quiet, Moves, Working, kind
  <2> QED
    BY <2>1, <2>2 DEF HeldInv
<1>4. FreshInv'
  <2> SUFFICES ASSUME NEW c \in Commands, NEW m \in DOMAIN acq'[c]
      PROVE /\ snap'[c][m].version <= version'[m]
            /\ snap'[c][m].version = version'[m] => snap'[c][m].config = config'[m]
            /\ pc'[c] \in {"acquire"} \cup Working /\ acq'[c][m] \in {"ok", "get"}
               /\ c \notin lapsed' => state'[m] = "destroyed" \/ lease'[m] = c
            /\ pc'[c] \in {"acquire"} \cup Working /\ acq'[c][m] = "ok"
               /\ lease'[m] = c => config'[m] \subseteq snap'[c][m].config \cup {c}
    BY DEF FreshInv
  <2>1. m \in DOMAIN acq[c] /\ m \in Machines
    BY DEF Quiet, CommandTypes
  <2>2. pc'[c] \in {"acquire"} \cup Working => pc[c] \in {"acquire"} \cup Working
    BY DEF Quiet, Moves, Working
  <2>3. lease'[m] = c => lease[m] = c
    BY <2>1, CommandsAssumption DEF Quiet, Free
  <2>4. ASSUME pc[c] \in {"acquire"} \cup Working, lease[m] = c, c \notin lapsed'
        PROVE  lease'[m] = c \/ state'[m] = "destroyed"
    BY <2>1, <2>4 DEF Quiet, Working
  <2>5. c \notin lapsed' => c \notin lapsed
    BY DEF Quiet
  <2>6. state[m] = "destroyed" => state'[m] = "destroyed"
    BY <2>1 DEF Quiet
  <2> QED
    BY <2>1, <2>2, <2>3, <2>4, <2>5, <2>6 DEF FreshInv, Quiet
<1>5. KeptInv'
  BY DEF KeptInv, Excused, Quiet
<1> QED
  BY <1>1, <1>2, <1>3, <1>4, <1>5

-----------------------------------------------------------------------------
(* The machine a command works on is one it has looked up.                   *)
LEMMA TargetIn ==
    ASSUME CommandTypes, NEW c \in Commands, left[c] # {}
    PROVE  /\ target(c) \in left[c]
           /\ target(c) \in DOMAIN acq[c]
           /\ target(c) \in Machines
<1>1. left[c] \subseteq Nat
  BY CommandsAssumption DEF CommandTypes
<1>2. PICK m \in left[c] : \A n \in left[c] : ~(<<n, m>> \in OpToRel(<, Nat))
  BY <1>1, NatLessThanWellFounded, WFMin
<1>3. ASSUME NEW n \in left[c] PROVE m <= n
  <2>1. m \in Nat /\ n \in Nat
    BY <1>1
  <2>2. ~(n < m)
    BY <1>2, <2>1 DEF OpToRel
  <2> QED
    BY <2>1, <2>2
<1>4. target(c) \in left[c]
  BY <1>3 DEF target, Min
<1> QED
  BY <1>4 DEF CommandTypes

(* A command that works on its machines goes on or comes to its end.         *)
Advances ==
    /\ pc' \in [Commands -> PCs]
    /\ DOMAIN left' = Commands /\ \A d \in Commands : left'[d] \subseteq left[d]
    /\ \A d \in Commands : Moves(d)

LEMMA Advance ==
    ASSUME CommandTypes, NEW c \in Commands, pc[c] \in Working,
           finish(c) \/ fails(c) \/ waits(c) \/ (end(c, "panic") /\ UNCHANGED left)
    PROVE  Advances
<1>1. \E p \in Working \cup {"release"} : pc' = [pc EXCEPT ![c] = p]
  BY DEF finish, fails, waits, end, goto, Working
<1>2. left' = left \/ left' = [left EXCEPT ![c] = @ \ {target(c)}]
  BY DEF finish, fails, waits
<1> QED
  BY <1>1, <1>2 DEF CommandTypes, Advances, Moves, PCs

(* The requests that leave a machine's configuration alone.                  *)
LEMMA RequestQuiet ==
    ASSUME CInv, NEW c \in Commands,
           \/ Skip(c) \/ Start(c) \/ Stop(c) \/ Suspend(c) \/ Cordon(c) \/ Uncordon(c)
           \/ KillMachine(c) \/ Restart(c) \/ Wait(c) \/ HealthChecks(c)
    PROVE  Quiet
<1> DEFINE m == target(c)
<1> HIDE DEF m
<1> USE DEF CInv
<1>w. pc[c] \in Working /\ left[c] # {}
  BY DEF Skip, Start, Stop, Suspend, Cordon, Uncordon, KillMachine, Restart, Wait,
         HealthChecks, signal, at, Working
<1>m. m \in Machines /\ target(c) = m
  BY <1>w, TargetIn DEF m
<1>1. CASE \/ Start(c) \/ Stop(c) \/ Suspend(c) \/ Cordon(c) \/ Uncordon(c)
           \/ KillMachine(c) \/ Restart(c)
  <2>1. finish(c) \/ fails(c) \/ waits(c)
    BY <1>1 DEF Start, Stop, Suspend, Cordon, Uncordon, KillMachine, Restart, signal
  <2>2. Advances
    BY <2>1, <1>w, Advance
  <2>3. \/ UNCHANGED state
        \/ /\ state[m] # "destroyed"
           /\ \E s \in {"started", "stopped", "suspended", "failed", state[m]} :
                 state' = [state EXCEPT ![m] = s]
    BY <1>1, <1>m DEF Start, Stop, Suspend, Cordon, Uncordon, KillMachine, Restart,
                      signal, admitted
  <2>4. {"started", "stopped", "suspended", "failed", state[m]} \subseteq MachineStates
    BY <1>m DEF MachineStates, ServerTypes
  <2>5. /\ state' \in [Machines -> MachineStates]
        /\ \A n \in Machines : state[n] = "destroyed" => state'[n] = "destroyed"
    BY <2>3, <2>4, <1>m DEF ServerTypes
  <2>6. UNCHANGED <<job, version, config, reachable, lease, snap, acq, ghosts>>
    BY <1>1 DEF Start, Stop, Suspend, Cordon, Uncordon, KillMachine, Restart, signal
  <2> QED
    BY <2>2, <2>5, <2>6 DEF Quiet, Advances, ServerTypes, CommandTypes, ghosts
<1>2. CASE Skip(c) \/ HealthChecks(c) \/ Wait(c)
  <2>1. CASE pc' = [pc EXCEPT ![c] = "checks"] /\ UNCHANGED left
    <3>1. Advances
      BY <2>1, <1>w DEF Advances, Moves, CommandTypes, Working, PCs
    <3> QED
      BY <3>1, <1>2 DEF Skip, HealthChecks, Wait, Quiet, Advances, ServerTypes,
                        CommandTypes, servers, ghosts
  <2>2. CASE finish(c) \/ fails(c) \/ (end(c, "panic") /\ UNCHANGED left)
    <3>1. Advances
      BY <2>2, <1>w, Advance
    <3> QED
      BY <3>1, <1>2 DEF Skip, HealthChecks, Wait, Quiet, Advances, ServerTypes,
                        CommandTypes, servers, ghosts
  <2> QED
    BY <2>1, <2>2, <1>2 DEF Skip, HealthChecks, Wait, goto
<1> QED
  BY <1>1, <1>2

(* The user's choices, the tasks of a scale, and the ends of the acquisition *)
(* and of the release.                                                       *)
LEMMA ControlQuiet ==
    ASSUME CInv, NEW c \in Commands,
           \/ Decline(c) \/ AcquireReturns(c) \/ ScaleReturns(c) \/ Return(c)
           \/ Cancel(c) \/ \E r \in Regions : LaunchMachine(c, r)
    PROVE  Quiet
<1> USE DEF CInv
<1>f. ASSUME Advances, UNCHANGED <<job, servers, lease, snap, acq, ghosts>>
      PROVE  Quiet
  BY <1>f DEF Quiet, Advances, ServerTypes, CommandTypes, servers, ghosts
<1>1. CASE Decline(c)
  <2>1. \E p \in {"request", "release"} : pc' = [pc EXCEPT ![c] = p]
    BY <1>1 DEF Decline, at, end, goto, CommandTypes
  <2>2. \E l \in SUBSET left[c] : left' = [left EXCEPT ![c] = l]
    BY <1>1 DEF Decline
  <2>3. Advances
    BY <2>1, <2>2, <1>1 DEF Decline, at, Advances, Moves, CommandTypes, Working, PCs
  <2> QED
    BY <2>3, <1>1, <1>f DEF Decline
<1>2. CASE AcquireReturns(c)
  <2>1. Advances
    BY <1>2 DEF AcquireReturns, end, goto, Advances, Moves, CommandTypes, Working, PCs
  <2> QED
    BY <2>1, <1>2, <1>f DEF AcquireReturns
<1>3. CASE ScaleReturns(c)
  <2>1. Advances
    BY <1>3 DEF ScaleReturns, scaling, end, goto, Advances, Moves, CommandTypes,
                Working, PCs
  <2> QED
    BY <2>1, <1>3, <1>f DEF ScaleReturns
<1>4. CASE Return(c)
  <2>1. Advances
    BY <1>4 DEF Return, goto, Advances, Moves, CommandTypes, Working, PCs
  <2> QED
    BY <2>1, <1>4, <1>f DEF Return
<1>5. CASE Cancel(c) \/ \E r \in Regions : LaunchMachine(c, r)
  <2>1. Advances
    BY <1>5 DEF Cancel, LaunchMachine, Advances, Moves, CommandTypes
  <2> QED
    BY <2>1, <1>5, <1>f DEF Cancel, LaunchMachine
<1> QED
  BY <1>1, <1>2, <1>3, <1>4, <1>5

(* The steps that take a lease away: with its machine, from a command that   *)
(* lapses, or from one that is over.                                         *)
LEMMA DestroyQuiet ==
    ASSUME CInv, NEW c \in Commands,
           Destroy(c) \/ \E m \in Machines : DestroyMachine(c, m)
    PROVE  Quiet
<1> USE DEF CInv
<1>1. ASSUME NEW m \in Machines, destroy(m)
      PROVE  /\ state' \in [Machines -> MachineStates]
             /\ lease' \in [Machines -> Commands \cup {Free}]
             /\ \A n \in Machines : state[n] = "destroyed" => state'[n] = "destroyed"
             /\ \A n \in Machines : \/ lease'[n] = lease[n]
                                    \/ lease'[n] = Free /\ state'[n] = "destroyed"
  BY <1>1 DEF destroy, ServerTypes, MachineStates
<1>2. \/ \E m \in Machines : destroy(m)
      \/ UNCHANGED <<state, lease>>
  BY TargetIn DEF Destroy, DestroyMachine, at
<1>3. Advances
  <2>1. CASE Destroy(c)
    BY <2>1, Advance DEF Destroy, at, Working
  <2>2. CASE \E m \in Machines : DestroyMachine(c, m)
    BY <2>2 DEF DestroyMachine, Advances, Moves, CommandTypes
  <2> QED
    BY <2>1, <2>2
<1>4. UNCHANGED <<job, version, config, reachable, snap, acq, ghosts>>
  BY DEF Destroy, DestroyMachine
<1> QED
  BY <1>1, <1>2, <1>3, <1>4 DEF Quiet, Advances, ServerTypes, CommandTypes, ghosts

LEMMA LapseQuiet ==
    ASSUME CInv,
           \/ \E c \in Commands : ClearLease(c)
           \/ \E m \in Machines : Expire(m) \/ HostRecovers(m)
    PROVE  Quiet
<1> USE DEF CInv
<1>1. ASSUME NEW c \in Commands, ClearLease(c) PROVE Quiet
  <2>1. target(c) \in Machines
    BY <1>1, TargetIn DEF ClearLease, at
  <2>2. Advances
    BY <1>1, Advance DEF ClearLease, at, Working
  <2>3. /\ lease' \in [Machines -> Commands \cup {Free}]
        /\ lapsed \subseteq lapsed' /\ lapsed' \subseteq Commands
        /\ \A n \in Machines : \/ lease'[n] = lease[n]
                               \/ lease'[n] = Free /\ lease[n] \in lapsed'
    BY <1>1, <2>1 DEF ClearLease, ServerTypes, CommandTypes
  <2> QED
    BY <1>1, <2>2, <2>3 DEF ClearLease, Quiet, Advances, ServerTypes, CommandTypes, servers
<1>2. ASSUME NEW m \in Machines, Expire(m) PROVE Quiet
  <2>1. lease[m] \in Commands
    BY <1>2 DEF Expire, ServerTypes
  <2>2. /\ lease' \in [Machines -> Commands \cup {Free}]
        /\ lapsed \subseteq lapsed' /\ lapsed' \subseteq Commands
        /\ \A n \in Machines :
              \/ lease'[n] = lease[n]
              \/ lease'[n] = Free /\ (lease[n] \in lapsed' \/ pc[lease[n]] = "done")
    BY <1>2, <2>1 DEF Expire, ServerTypes, CommandTypes
  <2> QED
    BY <1>2, <2>2 DEF Expire, Quiet, Moves, ServerTypes, CommandTypes, servers
<1>3. ASSUME NEW m \in Machines, HostRecovers(m) PROVE Quiet
  BY <1>3 DEF HostRecovers, Quiet, Moves, ServerTypes, CommandTypes, ghosts
<1> QED
  BY <1>1, <1>2, <1>3

-----------------------------------------------------------------------------
(* The steps that are not quiet.                                             *)

(* The machines are looked up: nothing is held yet.                          *)
LEMMA SelectStep ==
    ASSUME CInv, NEW c \in Commands, Select(c) PROVE CInv'
<1> USE DEF CInv
<1>0. /\ pc[c] = "select" /\ DOMAIN acq[c] = {}
      /\ UNCHANGED <<job, servers, lease, ghosts>>
  BY DEF Select, CommandTypes
<1>1. CASE \E r : ended(c, r)
  <2>1. Quiet
    BY <1>0, <1>1 DEF ended, goto, Quiet, Moves, ServerTypes, CommandTypes, PCs,
                      servers, ghosts
  <2> QED
    BY <2>1, QuietStep
<1>2. CASE /\ found(c) \subseteq Machines
           /\ \E p \in {"acquire", "request"}, work \in SUBSET found(c) :
                 /\ p = "request" => kind(c) \in {"kill", "clear"}
                 /\ prepare(c, found(c), p, work)
  <2> DEFINE ms == found(c)
  <2> HIDE DEF ms
  <2>1. PICK p \in {"acquire", "request"}, work \in SUBSET ms :
            /\ ms \subseteq Machines
            /\ p = "request" => kind(c) \in {"kill", "clear"}
            /\ prepare(c, ms, p, work)
    BY <1>2 DEF ms
  <2>2. \A m \in Machines : read(m) \in Snapshot
    BY DEF read, Snapshot, ServerTypes
  <2>3. /\ pc'[c] = p /\ left'[c] = work /\ pc' \in [Commands -> PCs]
        /\ DOMAIN acq'[c] = ms /\ \A m \in ms : acq'[c][m] = "todo"
        /\ DOMAIN snap'[c] = ms /\ \A m \in ms : snap'[c][m] = read(m)
        /\ DOMAIN snap' = Commands /\ DOMAIN acq' = Commands /\ DOMAIN left' = Commands
    BY <2>1 DEF prepare, goto, CommandTypes, PCs, Working
  <2>4. \A d \in Commands \ {c} : /\ pc'[d] = pc[d] /\ left'[d] = left[d]
                                  /\ acq'[d] = acq[d] /\ snap'[d] = snap[d]
    BY <2>1 DEF prepare, goto, CommandTypes
  <2>5. ServerTypes'
    BY <1>0 DEF ServerTypes, servers
  <2>6. CommandTypes'
    <3>1. ASSUME NEW d \in Commands
          PROVE  /\ DOMAIN acq'[d] \subseteq Machines /\ DOMAIN snap'[d] = DOMAIN acq'[d]
                 /\ left'[d] \subseteq DOMAIN acq'[d]
                 /\ \A m \in DOMAIN acq'[d] :
                        acq'[d][m] \in AcqStates /\ snap'[d][m] \in Snapshot
                 /\ pc'[d] = "select" => DOMAIN acq'[d] = {}
      <4>1. CASE d = c
        BY <4>1, <2>1, <2>2, <2>3 DEF AcqStates
      <4>2. CASE d # c
        BY <4>2, <2>4 DEF CommandTypes
      <4> QED
        BY <4>1, <4>2
    <3> QED
      BY <3>1, <2>3, <1>0 DEF CommandTypes, ghosts
  <2>7. HeldInv'
    <3>1. ASSUME NEW d \in Commands, NEW m \in Machines, lease'[m] = d
          PROVE  /\ m \in DOMAIN acq'[d]
                 /\ acq'[d][m] \in {"ok", "get", "lost", "kept", "dropped", "unreleased"}
      BY <3>1, <1>0, <2>4 DEF HeldInv
    <3>2. ASSUME NEW d \in Commands, NEW m \in DOMAIN acq'[d]
          PROVE  /\ acq'[d][m] = "get" => pc'[d] = "acquire"
                 /\ pc'[d] = "done" => acq'[d][m] \notin {"ok", "kept"}
                 /\ pc'[d] \in Working /\ kind(d)' \notin {"kill", "clear"}
                       => acq'[d][m] \in {"ok", "skipped"}
      <4>1. CASE d = c
        BY <4>1, <3>2, <2>1, <2>3, <1>0 DEF Working, kind
      <4>2. CASE d # c
        BY <4>2, <3>2, <2>4, <1>0 DEF HeldInv, kind
      <4> QED
        BY <4>1, <4>2
    <3> QED
      BY <3>1, <3>2 DEF HeldInv
  <2>8. FreshInv'
    <3>1. ASSUME NEW m \in ms
          PROVE  /\ snap'[c][m].version = version'[m] /\ version'[m] \in Nat
                 /\ snap'[c][m].config = config'[m]
                 /\ acq'[c][m] = "todo"
      BY <3>1, <2>1, <2>3, <1>0 DEF read, servers, ServerTypes
    <3>2. ASSUME NEW d \in Commands \ {c}, NEW m \in DOMAIN acq'[d]
          PROVE  m \in DOMAIN acq[d]
      BY <3>2, <2>4
    <3> QED
      BY <3>1, <3>2, <2>3, <2>4, <1>0 DEF FreshInv, servers, ghosts
  <2>9. KeptInv'
    <3>1. ASSUME NEW d \in Commands, NEW m \in Machines, <<d, m>> \in applied
          PROVE  d # c
      BY <3>1, <1>0 DEF KeptInv
    <3>2. \A m \in Machines : Excused(m) => Excused(m)'
      BY <3>1, <2>4, <1>0 DEF Excused, ghosts
    <3> QED
      BY <3>1, <3>2, <2>4, <1>0 DEF KeptInv, servers, ghosts
  <2> QED
    BY <2>5, <2>6, <2>7, <2>8, <2>9
<1>3. found(c) \subseteq Machines
  BY CommandsAssumption DEF found, CommandTypes, Job
<1>4. ASSUME ctx[c] = "live",
             CASE kind(c) = "scale" -> selectForScale(c, found(c))
               [] kind(c) \in {"kill", "clear"} ->
                    prepare(c, found(c), "request", found(c)) /\ UNCHANGED plan
               [] OTHER -> /\ single(c) => \A m \in found(c) : reachable[m]
                           /\ prepare(c, found(c), "acquire", found(c)) /\ UNCHANGED plan
      PROVE  CInv'
  <2>1. CASE kind(c) = "scale"
    <3>1. \A d : toDestroy(found(c), d) \in SUBSET found(c)
      BY DEF toDestroy
    <3> QED
      BY <3>1, <2>1, <1>1, <1>2, <1>3, <1>4 DEF selectForScale
  <2>2. CASE kind(c) \in {"kill", "clear"}
    BY <2>2, <1>2, <1>3, <1>4
  <2>3. CASE kind(c) \notin {"scale", "kill", "clear"}
    BY <2>3, <1>2, <1>3, <1>4
  <2> QED
    BY <2>1, <2>2, <2>3
<1> QED
  BY <1>1, <1>4 DEF Select

(* The lease of one machine is asked for, confirmed or given back.           *)
LEMMA AcqStep ==
    ASSUME CInv, NEW c \in Commands, NEW m \in DOMAIN acq[c], NEW a \in AcqStates,
           acq' = [acq EXCEPT ![c][m] = a],
           UNCHANGED <<job, servers, pc, left, ghosts>>,
           snap' = snap \/ snap' = [snap EXCEPT ![c][m] = read(m)],
           lease' \in {lease, [lease EXCEPT ![m] = c], [lease EXCEPT ![m] = Free]},
           lease'[m] = lease[m] \/ lease[m] \in {Free, c},
           lease'[m] = c => a \in {"ok", "get", "lost", "kept", "dropped", "unreleased"},
           pc[c] \in {"acquire", "release"},
           acq[c][m] # "skipped",
           a = "get" => pc[c] = "acquire",
           pc[c] = "acquire" /\ a \in {"ok", "get"} /\ c \notin lapsed
              => state[m] = "destroyed" \/ lease'[m] = c,
           pc[c] = "acquire" /\ a = "ok" => snap'[c][m].version = version[m]
    PROVE  CInv'
<1> USE DEF CInv
<1>m. m \in Machines
  BY DEF CommandTypes
<1>1. ServerTypes'
  BY <1>m DEF ServerTypes, servers
<1>2. /\ DOMAIN acq' = Commands /\ DOMAIN snap' = Commands
      /\ \A d \in Commands : DOMAIN acq'[d] = DOMAIN acq[d] /\ DOMAIN snap'[d] = DOMAIN snap[d]
      /\ acq'[c][m] = a
      /\ \A d \in Commands : \A n \in DOMAIN acq[d] :
            d # c \/ n # m => acq'[d][n] = acq[d][n] /\ snap'[d][n] = snap[d][n]
      /\ snap'[c][m] \in {snap[c][m], read(m)}
  BY DEF CommandTypes
<1>3. read(m) \in Snapshot /\ read(m).version = version[m] /\ read(m).config = config[m]
  BY <1>m DEF read, Snapshot, ServerTypes
<1>4. CommandTypes'
  <2>1. ASSUME NEW d \in Commands, NEW n \in DOMAIN acq'[d]
        PROVE  acq'[d][n] \in AcqStates /\ snap'[d][n] \in Snapshot
    <3>1. CASE d = c /\ n = m
      BY <3>1, <1>2, <1>3 DEF CommandTypes
    <3>2. CASE ~(d = c /\ n = m)
      BY <3>2, <1>2 DEF CommandTypes
    <3> QED
      BY <3>1, <3>2
  <2> QED
    BY <2>1, <1>2 DEF CommandTypes, ghosts
<1>5. \A n \in Machines \ {m} : lease'[n] = lease[n]
  BY DEF ServerTypes
<1>6. \A d \in Commands \ {c} : lease'[m] = d <=> lease[m] = d
  BY <1>m, CommandsAssumption DEF ServerTypes, Free
<1>7. HeldInv'
  <2>1. ASSUME NEW d \in Commands, NEW n \in Machines, lease'[n] = d
        PROVE  /\ n \in DOMAIN acq'[d]
               /\ acq'[d][n] \in {"ok", "get", "lost", "kept", "dropped", "unreleased"}
    <3>1. CASE d = c /\ n = m
      BY <3>1, <2>1, <1>2
    <3>2. CASE ~(d = c /\ n = m)
      <4>1. lease[n] = d
        BY <3>2, <2>1, <1>5, <1>6
      <4> QED
        BY <4>1, <3>2, <1>2 DEF HeldInv
    <3> QED
      BY <3>1, <3>2
  <2>2. ASSUME NEW d \in Commands, NEW n \in DOMAIN acq'[d]
        PROVE  /\ acq'[d][n] = "get" => pc'[d] = "acquire"
               /\ pc'[d] = "done" => acq'[d][n] \notin {"ok", "kept"}
               /\ pc'[d] \in Working /\ kind(d)' \notin {"kill", "clear"}
                     => acq'[d][n] \in {"ok", "skipped"}
    <3>1. CASE d = c /\ n = m
      BY <3>1, <1>2 DEF Working
    <3>2. CASE ~(d = c /\ n = m)
      BY <3>2, <1>2 DEF HeldInv, kind
    <3> QED
      BY <3>1, <3>2
  <2> QED
    BY <2>1, <2>2 DEF HeldInv
<1>8. FreshInv'
  <2> SUFFICES ASSUME NEW d \in Commands, NEW n \in DOMAIN acq'[d]
      PROVE /\ snap'[d][n].version <= version'[n]
            /\ snap'[d][n].version = version'[n] => snap'[d][n].config = config'[n]
            /\ pc'[d] \in {"acquire"} \cup Working /\ acq'[d][n] \in {"ok", "get"}
               /\ d \notin lapsed' => state'[n] = "destroyed" \/ lease'[n] = d
            /\ pc'[d] \in {"acquire"} \cup Working /\ acq'[d][n] = "ok"
               /\ lease'[n] = d => config'[n] \subseteq snap'[d][n].config \cup {d}
    BY DEF FreshInv
  <2>1. n \in DOMAIN acq[d] /\ n \in Machines
    BY <1>2 DEF CommandTypes
  <2>2. CASE d = c /\ n = m
    <3>1. /\ snap'[c][m].version <= version[m]
          /\ snap'[c][m].version = version[m] => snap'[c][m].config = config[m]
      BY <1>2, <1>3, <1>m DEF FreshInv, ServerTypes
    <3> QED
      BY <3>1, <2>2, <1>2 DEF Working, servers, ghosts
  <2>3. CASE ~(d = c /\ n = m)
    <3>1. lease'[n] = d <=> lease[n] = d
      BY <2>1, <2>3, <1>5, <1>6
    <3> QED
      BY <3>1, <2>1, <2>3, <1>2 DEF FreshInv, servers, ghosts
  <2> QED
    BY <2>2, <2>3
<1>9. KeptInv'
  <2>1. \A n \in Machines : Excused(n) => Excused(n)'
    <3> SUFFICES ASSUME NEW n \in Machines, Excused(n) PROVE Excused(n)'
      OBVIOUS
    <3>1. PICK d \in Commands : <<d, n>> \in applied /\ (d \in lapsed \/ acq[d][n] = "skipped")
      BY DEF Excused
    <3>2. n \in DOMAIN acq[d]
      BY <3>1 DEF KeptInv
    <3>3. acq[d][n] = "skipped" => acq'[d][n] = "skipped"
      BY <3>2, <1>2
    <3> QED
      BY <3>1, <3>3 DEF Excused, ghosts
  <2> QED
    BY <2>1, <1>2 DEF KeptInv, servers, ghosts
<1> QED
  BY <1>1, <1>4, <1>7, <1>8, <1>9

LEMMA LeaseStep ==
    ASSUME CInv, NEW c \in Commands, NEW m \in DOMAIN acq[c],
           AcquireLease(c, m) \/ GetAgain(c, m) \/ ReleaseLease(c, m)
    PROVE  CInv'
<1> USE DEF CInv, AcqStates
<1>m. m \in Machines /\ acq[c][m] \in AcqStates /\ lease[m] \in Commands \cup {Free}
  BY DEF CommandTypes, ServerTypes
<1>f. c # Free
  BY CommandsAssumption DEF Free
<1>h. lease[m] = c => acq[c][m] \in {"ok", "get", "lost", "kept", "dropped", "unreleased"}
  BY <1>m DEF HeldInv
<1>1. CASE AcquireLease(c, m)
  <2>1. PICK a \in AcqStates : setAcq(c, m, a)
    BY <1>1 DEF AcquireLease
  <2>2. /\ pc[c] = "acquire" /\ acq[c][m] = "todo" /\ lease[m] # c
        /\ UNCHANGED <<job, servers, pc, left, snap, ghosts>>
    BY <1>1, <1>h DEF AcquireLease
  <2>3. \/ lease' = lease /\ acq'[c][m] \in {"skipped", "refused"}
        \/ /\ lease[m] = Free /\ lease' = [lease EXCEPT ![m] = c]
           /\ acq'[c][m] \in {"ok", "get", "lost"}
           /\ acq'[c][m] = "ok" => snap[c][m].version = version[m]
    BY <1>1, <1>m DEF AcquireLease, setAcq, CommandTypes
  <2>4. acq' = [acq EXCEPT ![c][m] = a] /\ acq'[c][m] = a
    BY <2>1 DEF setAcq, CommandTypes
  <2>5. lease' = [lease EXCEPT ![m] = c] => lease'[m] = c
    BY <1>m DEF ServerTypes
  <2> QED
    BY <2>2, <2>3, <2>4, <2>5, AcqStep
<1>2. CASE GetAgain(c, m)
  <2>1. PICK a \in {"ok", "kept", "dropped"} : setAcq(c, m, a)
    BY <1>2 DEF GetAgain
  <2>2. /\ pc[c] = "acquire" /\ acq[c][m] = "get"
        /\ UNCHANGED <<job, servers, lease, pc, left, ghosts>>
    BY <1>2 DEF GetAgain
  <2>3. acq' = [acq EXCEPT ![c][m] = a] /\ acq'[c][m] = a
    BY <2>1 DEF setAcq, CommandTypes
  <2>4. \/ snap' = [snap EXCEPT ![c][m] = read(m)]
        \/ snap' = snap /\ a # "ok"
    BY <1>2, <2>3 DEF GetAgain, setAcq, CommandTypes
  <2>5. a = "ok" => snap'[c][m].version = version[m]
    BY <2>4 DEF read, CommandTypes
  <2>6. c \notin lapsed => state[m] = "destroyed" \/ lease[m] = c
    BY <2>2 DEF FreshInv
  <2> QED
    BY <2>2, <2>3, <2>4, <2>5, <2>6, AcqStep
<1>3. CASE ReleaseLease(c, m)
  <2>1. PICK a \in {"released", "unreleased"} : setAcq(c, m, a)
    BY <1>3 DEF ReleaseLease
  <2>2. /\ pc[c] = "release" /\ acq[c][m] \in {"ok", "kept"}
        /\ UNCHANGED <<job, servers, pc, left, snap, ghosts>>
    BY <1>3 DEF ReleaseLease
  <2>3. acq' = [acq EXCEPT ![c][m] = a] /\ acq'[c][m] = a
    BY <2>1 DEF setAcq, CommandTypes
  <2>4. \/ lease' = lease /\ (a = "released" => lease[m] # c)
        \/ lease[m] = c /\ lease' = [lease EXCEPT ![m] = Free]
    BY <1>3, <2>3 DEF ReleaseLease, setAcq, CommandTypes
  <2>5. lease' = [lease EXCEPT ![m] = Free] => lease'[m] = Free
    BY <1>m DEF ServerTypes
  <2>6. /\ lease'[m] = lease[m] \/ lease[m] = c
        /\ lease'[m] = c => a = "unreleased"
    BY <1>f, <2>4, <2>5
  <2> QED
    BY <2>2, <2>3, <2>4, <2>6, AcqStep
<1> QED
  BY <1>1, <1>2, <1>3

(* An update writes what was read with the change.  With the lease, nothing  *)
(* was written since; without, the command excuses what it overwrites.       *)
LEMMA UpdateStep ==
    ASSUME CInv, NEW c \in Commands, Update(c) PROVE CInv'
<1> USE DEF CInv
<1>w. /\ pc[c] \in Working /\ left[c] # {} /\ kind(c) \notin {"kill", "clear"}
      /\ UNCHANGED <<job, reachable, lease, snap, acq, lapsed>>
  BY DEF Update, at, Working
<1>m. PICK m \in Machines : m \in DOMAIN acq[c] /\ target(c) = m
  BY <1>w, TargetIn
<1>a. Advances
  BY <1>w, Advance DEF Update
<1>1. CASE UNCHANGED <<state, version, config, applied>>
  <2>1. Quiet
    BY <1>1, <1>w, <1>a DEF Quiet, Advances, ServerTypes, CommandTypes
  <2> QED
    BY <2>1, QuietStep
<1>2. CASE /\ admitted(c, m)
           /\ config' = [config EXCEPT ![m] = snap[c][m].config \cup {c}]
           /\ version' = [version EXCEPT ![m] = @ + 1]
           /\ \E s \in {"started", "failed", state[m]} : state' = [state EXCEPT ![m] = s]
           /\ applied' = applied \cup {<<c, m>>}
  <2>0. snap[c][m] \in Snapshot /\ snap[c][m].config \subseteq Commands
    BY <1>m DEF CommandTypes, Snapshot
  <2>1. ServerTypes'
    BY <1>2, <1>m, <1>w, <2>0 DEF ServerTypes, MachineStates
  <2>2. CommandTypes'
    BY <1>2, <1>m, <1>w, <1>a DEF CommandTypes, Advances, Moves, Working
  <2>3. HeldInv'
    <3>1. ASSUME NEW d \in Commands, NEW n \in DOMAIN acq[d]
          PROVE  /\ acq[d][n] = "get" => pc'[d] = "acquire"
                 /\ pc'[d] = "done" => acq[d][n] \notin {"ok", "kept"}
                 /\ pc'[d] \in Working /\ kind(d) \notin {"kill", "clear"}
                       => acq[d][n] \in {"ok", "skipped"}
      BY <1>a DEF HeldInv, CommandTypes, Advances, Moves, Working
    <3> QED
      BY <3>1, <1>w DEF HeldInv, kind
  <2>4. \A n \in Machines \ {m} : /\ config'[n] = config[n] /\ version'[n] = version[n]
                                  /\ state'[n] = state[n]
    BY <1>2 DEF ServerTypes
  <2>5. /\ config'[m] = snap[c][m].config \cup {c}
        /\ version'[m] = version[m] + 1 /\ version[m] \in Nat
        /\ state[m] # "destroyed"
        /\ lease[m] = Free \/ (lease[m] = c /\ acq[c][m] = "ok")
    BY <1>2, <1>m DEF ServerTypes, admitted
  <2>6. FreshInv'
    <3> SUFFICES ASSUME NEW d \in Commands, NEW n \in DOMAIN acq[d]
        PROVE /\ snap[d][n].version <= version'[n]
              /\ snap[d][n].version = version'[n] => snap[d][n].config = config'[n]
              /\ pc'[d] \in {"acquire"} \cup Working /\ acq[d][n] \in {"ok", "get"}
                 /\ d \notin lapsed => state'[n] = "destroyed" \/ lease[n] = d
              /\ pc'[d] \in {"acquire"} \cup Working /\ acq[d][n] = "ok"
                 /\ lease[n] = d => config'[n] \subseteq snap[d][n].config \cup {d}
      BY <1>w DEF FreshInv
    <3>1. pc'[d] \in {"acquire"} \cup Working => pc[d] \in {"acquire"} \cup Working
      BY <1>a DEF Advances, Moves, Working
    <3>2. n \in Machines /\ snap[d][n] \in Snapshot /\ snap[d][n].version \in Nat
      BY DEF CommandTypes, Snapshot
    <3>3. CASE n # m
      BY <3>1, <3>2, <3>3, <2>4 DEF FreshInv
    <3>4. CASE n = m
      <4>1. snap[d][m].version <= version[m]
        BY <3>4 DEF FreshInv
      <4>2. snap[d][m].version < version'[m]
        BY <4>1, <3>2, <3>4, <2>5
      <4>3. lease[m] = d => d = c
        BY <2>5, CommandsAssumption DEF Free
      <4>4. /\ pc'[d] \in {"acquire"} \cup Working /\ acq[d][m] \in {"ok", "get"}
               /\ d \notin lapsed => lease[m] = d
        BY <3>1, <3>4, <2>5 DEF FreshInv
      <4>5. version'[m] \in Nat
        BY <2>5
      <4> QED
        BY <4>2, <4>3, <4>4, <4>5, <3>2, <3>4, <2>5
    <3> QED
      BY <3>3, <3>4
  <2>7. KeptInv'
    <3>1. \A n \in Machines : Excused(n) => Excused(n)'
      BY <1>2, <1>w DEF Excused
    <3>2. \A d \in Commands, n \in Machines :
              <<d, n>> \in applied' => <<d, n>> \in applied \/ (d = c /\ n = m)
      BY <1>2
    <3>3. CASE c \in lapsed \/ acq[c][m] = "skipped"
      <4>1. Excused(m)'
        BY <3>3, <1>2, <1>w DEF Excused
      <4> QED
        BY <4>1, <3>1, <3>2, <2>4, <1>w, <1>m DEF KeptInv
    <3>4. CASE c \notin lapsed /\ acq[c][m] # "skipped"
      <4>1. acq[c][m] = "ok"
        BY <3>4, <1>w, <1>m DEF HeldInv
      <4>2. lease[m] = c
        BY <4>1, <3>4, <2>5, <1>w, <1>m DEF FreshInv
      <4>3. config[m] \subseteq config'[m]
        BY <4>1, <4>2, <2>5, <1>w, <1>m DEF FreshInv
      <4>4. c \in config'[m]
        BY <2>5
      <4> QED
        BY <4>3, <4>4, <3>1, <3>2, <2>4, <2>5, <1>w, <1>m DEF KeptInv
    <3> QED
      BY <3>3, <3>4
  <2> QED
    BY <2>1, <2>2, <2>3, <2>6, <2>7
<1> QED
  BY <1>1, <1>2, <1>m DEF Update

LEMMA InvStep == CInv /\ [Next]_vars => CInv'
<1> SUFFICES ASSUME CInv, [Next]_vars PROVE CInv'
  OBVIOUS
<1>1. ASSUME NEW c \in Commands, CommandStep(c) PROVE CInv'
  BY <1>1, SelectStep, LeaseStep, UpdateStep, RequestQuiet, ControlQuiet,
     DestroyQuiet, LapseQuiet, QuietStep DEF CommandStep
<1>2. ASSUME NEW c \in Commands, Cancel(c) PROVE CInv'
  BY <1>2, ControlQuiet, QuietStep
<1>3. ASSUME NEW m \in Machines, Expire(m) \/ HostRecovers(m) PROVE CInv'
  BY <1>3, LapseQuiet, QuietStep
<1>4. CASE UNCHANGED vars
  <2>1. Quiet
    BY <1>4 DEF vars, servers, ghosts, Quiet, Moves, CInv, ServerTypes, CommandTypes
  <2> QED
    BY <2>1, QuietStep
<1> QED
  BY <1>1, <1>2, <1>3, <1>4 DEF Next

(* The invariant holds for every app, every set of commands and machines.    *)
THEOREM CommandsInvariant == Spec => []CInv
BY InvInit, InvStep, PTL DEF Spec

(* Whatever commands run at the same time, an accepted update survives       *)
(* unless its machine is destroyed, or a command updates the machine whose   *)
(* lease has lapsed or which has none because the host was not reachable.    *)
THEOREM AcceptedUpdatesKept == Spec => []UpdatesKept
<1>1. ASSUME CInv PROVE UpdatesKept
  <2> SUFFICES ASSUME NEW u \in applied
               PROVE  \/ state[u[2]] = "destroyed" \/ u[1] \in config[u[2]]
                      \/ Excused(u[2])
    BY DEF UpdatesKept, Excused
  <2>1. u = <<u[1], u[2]>> /\ u[1] \in Commands /\ u[2] \in Machines
    BY <1>1 DEF CInv, CommandTypes
  <2> QED
    BY <2>1, <1>1 DEF CInv, KeptInv
<1> QED
  BY <1>1, CommandsInvariant, PTL

(* A command that has returned, for whatever reason, leaves a lease behind   *)
(* only if a grant or a release was not answered or AcquireLeases dropped    *)
(* the nonce.                                                                *)
THEOREM ReturnReleases == Spec => []LeasesReleased
<1>1. CInv => LeasesReleased
  BY DEF CInv, HeldInv, LeasesReleased
<1> QED
  BY <1>1, CommandsInvariant, PTL

-----------------------------------------------------------------------------
(* The plan of a scale: convergeGroupCounts. Its loops are functions of the  *)
(* number of iterations; induction on that number takes the set of the       *)
(* numbers for which the claim holds.                                        *)

(* Induction, for a set instead of a predicate.                              *)
LEMMA NatSetInduction ==
    ASSUME NEW S, 0 \in S, \A n \in Nat : n \in S => n + 1 \in S PROVE Nat \subseteq S
<1> SUFFICES ASSUME Nat \ S # {} PROVE FALSE
  OBVIOUS
<1>1. PICK x \in Nat \ S : \A y \in Nat \ S : ~(<<y, x>> \in OpToRel(<, Nat))
  BY NatLessThanWellFounded, WFMin
<1>2. x # 0 /\ x - 1 \in Nat
  OBVIOUS
<1>3. <<x - 1, x>> \in OpToRel(<, Nat)
  BY <1>2 DEF OpToRel
<1>4. x - 1 \in S
  BY <1>1, <1>2, <1>3
<1>5. (x - 1) + 1 \in S
  BY <1>2, <1>4
<1> QED
  BY <1>5

(* The first n iterations of a step function.                                *)
Runs(S, s0, step, n) ==
    {g \in [0 .. n -> S] : /\ g[0] = s0
                           /\ \A i \in 0 .. n - 1 : g[i + 1] = step[i + 1][g[i]]}

IsRun(f, S, s0, step) ==
    /\ f \in [Nat -> S]
    /\ f[0] = s0
    /\ \A i \in Nat : f[i + 1] = step[i + 1][f[i]]

(* A step function can be iterated: what a recursive function of the number  *)
(* of iterations needs to exist.                                             *)
LEMMA Iterates ==
    ASSUME NEW S, NEW s0 \in S, NEW step \in [Nat -> [S -> S]]
    PROVE  \E f : IsRun(f, S, s0, step)
<1> DEFINE R(n)  == Runs(S, s0, step, n)
           Some  == {n \in Nat : R(n) # {}}
           Same  == {i \in Nat : \A n, m \in Nat : i <= n /\ i <= m =>
                        \A g \in R(n), h \in R(m) : g[i] = h[i]}
<1>1. [i \in 0 .. 0 |-> s0] \in R(0)
  BY DEF Runs
<1>2. ASSUME NEW n \in Nat, NEW g \in R(n) PROVE R(n + 1) # {}
  <2> DEFINE h == [i \in 0 .. n + 1 |-> IF i = n + 1 THEN step[n + 1][g[n]] ELSE g[i]]
  <2>1. g \in [0 .. n -> S] /\ g[0] = s0
    BY DEF Runs
  <2>2. g[n] \in S /\ step[n + 1][g[n]] \in S
    BY <2>1
  <2>3. h \in [0 .. n + 1 -> S] /\ h[0] = s0
    BY <2>1, <2>2
  <2>4. ASSUME NEW i \in 0 .. (n + 1) - 1 PROVE h[i + 1] = step[i + 1][h[i]]
    <3>1. CASE i = n
      BY <3>1
    <3>2. CASE i # n
      <4>1. i \in 0 .. n - 1 /\ i + 1 \in 0 .. n
        BY <3>2
      <4>2. g[i + 1] = step[i + 1][g[i]]
        BY <4>1 DEF Runs
      <4> QED
        BY <4>1, <4>2
    <3> QED
      BY <3>1, <3>2
  <2>5. h \in R(n + 1)
    BY <2>3, <2>4 DEF Runs
  <2> QED
    BY <2>5
<1>3. ASSUME NEW n \in Nat PROVE R(n) # {}
  <2>1. 0 \in Some /\ \A k \in Nat : k \in Some => k + 1 \in Some
    BY <1>1, <1>2
  <2>2. Nat \subseteq Some
    <3> HIDE DEF Some
    <3> QED
      BY <2>1, NatSetInduction
  <2> QED
    BY <2>2
<1>4. \A n, m \in Nat : \A g \in R(n), h \in R(m) : g[0] = h[0]
  BY DEF Runs
<1>5. ASSUME NEW i \in Nat, NEW n \in Nat, NEW m \in Nat, i + 1 <= n, i + 1 <= m,
             NEW g \in R(n), NEW h \in R(m), g[i] = h[i]
      PROVE  g[i + 1] = h[i + 1]
  <2>1. i \in 0 .. n - 1 /\ i \in 0 .. m - 1
    BY <1>5
  <2> QED
    BY <1>5, <2>1 DEF Runs
<1>6. ASSUME NEW n \in Nat, NEW m \in Nat, NEW i \in Nat, i <= n, i <= m,
             NEW g \in R(n), NEW h \in R(m)
      PROVE  g[i] = h[i]
  <2>1. 0 \in Same
    BY <1>4
  <2>2. ASSUME NEW k \in Nat, k \in Same PROVE k + 1 \in Same
    <3> SUFFICES ASSUME NEW p \in Nat, NEW q \in Nat, k + 1 <= p, k + 1 <= q,
                        NEW a \in R(p), NEW b \in R(q)
                 PROVE  a[k + 1] = b[k + 1]
      OBVIOUS
    <3>1. a[k] = b[k]
      BY <2>2
    <3> QED
      BY <3>1, <1>5
  <2>3. Nat \subseteq Same
    <3> HIDE DEF Same
    <3> QED
      BY <2>1, <2>2, NatSetInduction
  <2> QED
    BY <2>3, <1>6
<1> DEFINE f == [n \in Nat |-> (CHOOSE g \in R(n) : TRUE)[n]]
<1>7. ASSUME NEW n \in Nat PROVE \E g \in R(n) : g[n] = f[n] /\ g \in [0 .. n -> S]
  BY <1>3 DEF Runs
<1>8. f \in [Nat -> S]
  <2> SUFFICES ASSUME NEW n \in Nat PROVE f[n] \in S
    OBVIOUS
  <2> HIDE DEF f
  <2> QED
    BY <1>7
<1>9. f[0] = s0
  <2> HIDE DEF f
  <2> QED
    BY <1>7 DEF Runs
<1>10. ASSUME NEW i \in Nat PROVE f[i + 1] = step[i + 1][f[i]]
  <2> HIDE DEF f
  <2>1. PICK g \in R(i) : g[i] = f[i]
    BY <1>7
  <2>2. PICK h \in R(i + 1) : h[i + 1] = f[i + 1]
    BY <1>7
  <2>3. g[i] = h[i]
    BY <1>6
  <2>4. h[i + 1] = step[i + 1][h[i]]
    BY DEF Runs
  <2> QED
    BY <2>1, <2>2, <2>3, <2>4
<1>11. IsRun(f, S, s0, step)
  <2> HIDE DEF f
  <2> QED
    BY <1>8, <1>9, <1>10 DEF IsRun
<1> QED
  BY <1>11

(* The sum over the regions, as a function of the regions seen so far.       *)
IsSum(f, rs, cur, d) ==
    /\ f \in [0 .. Len(rs) -> Int]
    /\ f[0] = 0
    /\ \A i \in 1 .. Len(rs) : f[i] = f[i - 1] + (cur[rs[i]] + d[rs[i]])

(* What planned needs of its arguments.                                      *)
Summable(rs, cur, d) ==
    /\ Len(rs) \in Nat
    /\ \A i \in 1 .. Len(rs) : cur[rs[i]] + d[rs[i]] \in Int

(* planned is the last partial sum.                                          *)
LEMMA PlannedDef ==
    ASSUME NEW rs, NEW cur, NEW d, Summable(rs, cur, d)
    PROVE  \E f : IsSum(f, rs, cur, d) /\ planned(rs, cur, d) = f[Len(rs)]
<1> DEFINE N == Len(rs)
           v == [i \in Nat |-> IF i \in 1 .. N THEN cur[rs[i]] + d[rs[i]] ELSE 0]
           step == [i \in Nat |-> [s \in Int |-> s + v[i]]]
<1>0. N \in Nat /\ v \in [Nat -> Int]
  BY DEF Summable
<1>1. PICK f : IsRun(f, Int, 0, step)
  <2>1. step \in [Nat -> [Int -> Int]]
    <3> HIDE DEF v
    <3> QED
      BY <1>0
  <2> HIDE DEF step
  <2> QED
    BY <2>1, 0 \in Int, Iterates
<1>2. ASSUME NEW i \in 1 .. N PROVE f[i] = f[i - 1] + (cur[rs[i]] + d[rs[i]])
  <2>1. i - 1 \in Nat /\ (i - 1) + 1 = i
    BY <1>0
  <2>2. f[i] = step[i][f[i - 1]]
    <3> HIDE DEF step
    <3> QED
      BY <1>1, <2>1 DEF IsRun
  <2>3. f[i - 1] \in Int
    BY <1>1, <2>1 DEF IsRun
  <2> QED
    BY <2>1, <2>2, <2>3
<1> DEFINE Def(g) == [i \in 0 .. N |-> IF i = 0 THEN 0
                                       ELSE g[i - 1] + (cur[rs[i]] + d[rs[i]])]
           h == [i \in 0 .. N |-> f[i]]
           sum == CHOOSE g : g = Def(g)
<1>3. h = Def(h)
  <2> SUFFICES ASSUME NEW i \in 0 .. N PROVE h[i] = Def(h)[i]
    OBVIOUS
  <2> QED
    BY <1>0, <1>1, <1>2 DEF IsRun
<1>4. sum = Def(sum)
  <2> HIDE DEF h, Def
  <2> QED
    BY <1>3
<1>5. planned(rs, cur, d) = sum[N]
  BY DEF planned
<1> HIDE DEF sum
<1>6. sum[0] = 0 /\ \A i \in 1 .. N : sum[i] = sum[i - 1] + (cur[rs[i]] + d[rs[i]])
  <2>1. \A i : sum[i] = Def(sum)[i]
    <3> HIDE DEF Def
    <3> QED
      BY <1>4
  <2>2. sum[0] = Def(sum)[0]
    BY <2>1
  <2>3. ASSUME NEW i \in 1 .. N PROVE sum[i] = sum[i - 1] + (cur[rs[i]] + d[rs[i]])
    <3>1. sum[i] = Def(sum)[i]
      BY <2>1
    <3> QED
      BY <1>0, <3>1
  <2> QED
    BY <1>0, <2>2, <2>3
<1> DEFINE T == {i \in Nat : i <= N => sum[i] \in Int}
<1>7. Nat \subseteq T
  <2>1. 0 \in T
    BY <1>6
  <2>2. ASSUME NEW i \in Nat, i \in T PROVE i + 1 \in T
    <3> SUFFICES ASSUME i + 1 <= N PROVE sum[i + 1] \in Int
      OBVIOUS
    <3>1. i + 1 \in 1 .. N /\ (i + 1) - 1 = i /\ sum[i] \in Int
      BY <1>0, <2>2
    <3>2. sum[i + 1] = sum[i] + (cur[rs[i + 1]] + d[rs[i + 1]])
      BY <1>6, <3>1
    <3> QED
      BY <3>1, <3>2 DEF Summable
  <2> HIDE DEF T
  <2> QED
    BY <2>1, <2>2, NatSetInduction
<1>8. sum \in [0 .. N -> Int]
  <2>1. \A i \in 0 .. N : sum[i] \in Int
    BY <1>7, <1>0
  <2> QED
    BY <1>4, <2>1
<1> QED
  BY <1>5, <1>6, <1>8 DEF IsSum

(* The sum is an integer.                                                    *)
LEMMA PlannedType ==
    ASSUME NEW rs, NEW cur, NEW d, Summable(rs, cur, d) PROVE planned(rs, cur, d) \in Int
BY PlannedDef DEF IsSum, Summable

(* The sum is monotone.                                                      *)
LEMMA PlannedMono ==
    ASSUME NEW rs, NEW cur, NEW d, NEW cur2, NEW d2,
           Summable(rs, cur, d), Summable(rs, cur2, d2),
           \A i \in 1 .. Len(rs) : cur[rs[i]] + d[rs[i]] <= cur2[rs[i]] + d2[rs[i]]
    PROVE  planned(rs, cur, d) <= planned(rs, cur2, d2)
<1>1. PICK f : IsSum(f, rs, cur, d) /\ planned(rs, cur, d) = f[Len(rs)]
  BY PlannedDef
<1>2. PICK g : IsSum(g, rs, cur2, d2) /\ planned(rs, cur2, d2) = g[Len(rs)]
  BY PlannedDef
<1> DEFINE T == {i \in Nat : i <= Len(rs) => f[i] <= g[i]}
<1>3. 0 \in T
  BY <1>1, <1>2 DEF IsSum
<1>4. ASSUME NEW i \in Nat, i \in T PROVE i + 1 \in T
  <2> SUFFICES ASSUME i + 1 <= Len(rs) PROVE f[i + 1] <= g[i + 1]
    OBVIOUS
  <2>1. Len(rs) \in Nat
    BY DEF Summable
  <2>2. i + 1 \in 1 .. Len(rs) /\ (i + 1) - 1 = i /\ i \in 0 .. Len(rs)
    BY <2>1
  <2> DEFINE a == cur[rs[i + 1]] + d[rs[i + 1]]
             b == cur2[rs[i + 1]] + d2[rs[i + 1]]
  <2>3. a \in Int /\ b \in Int /\ a <= b
    BY <2>2 DEF Summable
  <2>4. f[i] \in Int /\ g[i] \in Int /\ f[i] <= g[i]
    BY <1>1, <1>2, <1>4, <2>1, <2>2 DEF IsSum
  <2>5. f[i + 1] = f[i] + a /\ g[i + 1] = g[i] + b
    BY <1>1, <1>2, <2>2 DEF IsSum
  <2> HIDE DEF a, b
  <2> QED
    BY <2>3, <2>4, <2>5
<1>5. Nat \subseteq T
  <2> HIDE DEF T
  <2> QED
    BY <1>3, <1>4, NatSetInduction
<1> QED
  BY <1>1, <1>2, <1>5 DEF Summable

(* Equal numbers in every region make equal sums.                            *)
LEMMA PlannedSame ==
    ASSUME NEW rs, NEW cur, NEW d, NEW cur2, NEW d2,
           Summable(rs, cur, d), Summable(rs, cur2, d2),
           \A i \in 1 .. Len(rs) : cur[rs[i]] + d[rs[i]] = cur2[rs[i]] + d2[rs[i]]
    PROVE  planned(rs, cur, d) = planned(rs, cur2, d2)
<1>1. \A i \in 1 .. Len(rs) : /\ cur[rs[i]] + d[rs[i]] <= cur2[rs[i]] + d2[rs[i]]
                              /\ cur2[rs[i]] + d2[rs[i]] <= cur[rs[i]] + d[rs[i]]
  BY DEF Summable
<1>2. planned(rs, cur, d) <= planned(rs, cur2, d2) /\ planned(rs, cur2, d2) <= planned(rs, cur, d)
  BY <1>1, PlannedMono
<1> QED
  BY <1>2, PlannedType

(* A bound on each region bounds the sum.                                    *)
LEMMA PlannedAtLeast ==
    ASSUME NEW rs, NEW cur, NEW d, Summable(rs, cur, d), NEW b \in Int,
           \A i \in 1 .. Len(rs) : cur[rs[i]] + d[rs[i]] >= b
    PROVE  planned(rs, cur, d) >= Len(rs) * b
<1>1. PICK f : IsSum(f, rs, cur, d) /\ planned(rs, cur, d) = f[Len(rs)]
  BY PlannedDef
<1> DEFINE T == {i \in Nat : i <= Len(rs) => f[i] >= i * b}
<1>3. 0 \in T
  BY <1>1 DEF IsSum
<1>4. ASSUME NEW i \in Nat, i \in T PROVE i + 1 \in T
  <2> SUFFICES ASSUME i + 1 <= Len(rs) PROVE f[i + 1] >= (i + 1) * b
    OBVIOUS
  <2>1. Len(rs) \in Nat
    BY DEF Summable
  <2>2. i + 1 \in 1 .. Len(rs) /\ (i + 1) - 1 = i /\ i \in 0 .. Len(rs)
    BY <2>1
  <2> DEFINE a == cur[rs[i + 1]] + d[rs[i + 1]]
  <2>3. a \in Int /\ a >= b
    BY <2>2 DEF Summable
  <2>4. f[i] \in Int /\ f[i] >= i * b
    BY <1>1, <1>4, <2>1, <2>2 DEF IsSum
  <2>5. f[i + 1] = f[i] + a
    BY <1>1, <2>2 DEF IsSum
  <2>6. (i + 1) * b = i * b + b /\ i * b \in Int
    OBVIOUS
  <2> HIDE DEF a
  <2> QED
    BY <2>3, <2>4, <2>5, <2>6
<1>5. Nat \subseteq T
  <2> HIDE DEF T
  <2> QED
    BY <1>3, <1>4, NatSetInduction
<1> QED
  BY <1>1, <1>5 DEF Summable

(* Regions that are not positive have a sum that is not.                     *)
LEMMA PlannedNotPositive ==
    ASSUME NEW rs, NEW cur, NEW d, Summable(rs, cur, d),
           \A i \in 1 .. Len(rs) : cur[rs[i]] + d[rs[i]] <= 0
    PROVE  planned(rs, cur, d) <= 0
<1>1. PICK f : IsSum(f, rs, cur, d) /\ planned(rs, cur, d) = f[Len(rs)]
  BY PlannedDef
<1> DEFINE T == {i \in Nat : i <= Len(rs) => f[i] <= 0}
<1>3. 0 \in T
  BY <1>1 DEF IsSum
<1>4. ASSUME NEW i \in Nat, i \in T PROVE i + 1 \in T
  <2> SUFFICES ASSUME i + 1 <= Len(rs) PROVE f[i + 1] <= 0
    OBVIOUS
  <2>1. Len(rs) \in Nat
    BY DEF Summable
  <2>2. i + 1 \in 1 .. Len(rs) /\ (i + 1) - 1 = i /\ i \in 0 .. Len(rs)
    BY <2>1
  <2> DEFINE a == cur[rs[i + 1]] + d[rs[i + 1]]
  <2>3. a \in Int /\ a <= 0
    BY <2>2 DEF Summable
  <2>4. f[i] \in Int /\ f[i] <= 0
    BY <1>1, <1>4, <2>1, <2>2 DEF IsSum
  <2>5. f[i + 1] = f[i] + a
    BY <1>1, <2>2 DEF IsSum
  <2> HIDE DEF a
  <2> QED
    BY <2>3, <2>4, <2>5
<1>5. Nat \subseteq T
  <2> HIDE DEF T
  <2> QED
    BY <1>3, <1>4, NatSetInduction
<1> QED
  BY <1>1, <1>5 DEF Summable

(* What convergeGroupCounts is called with: regions without duplicates, and  *)
(* the number of machines in each.                                           *)
Regs(rs) == { rs[i] : i \in DOMAIN rs }

Counted(rs, cur) ==
    /\ Len(rs) \in Nat \ {0}
    /\ DOMAIN rs = 1 .. Len(rs)
    /\ \A i, j \in DOMAIN rs : rs[i] = rs[j] => i = j
    /\ \A i \in DOMAIN rs : cur[rs[i]] \in Nat

(* Plans for the regions can be summed.                                      *)
LEMMA CountedSummable ==
    ASSUME NEW rs, NEW cur, Counted(rs, cur), NEW d \in [Regs(rs) -> Int]
    PROVE  Summable(rs, cur, d)
BY DEF Counted, Summable, Regs

(* A change in one region changes the sum by as much.                        *)
LEMMA PlannedChange ==
    ASSUME NEW rs, NEW cur, Counted(rs, cur), NEW d \in [Regs(rs) -> Int],
           NEW k \in DOMAIN rs, NEW e \in Int
    PROVE  planned(rs, cur, [d EXCEPT ![rs[k]] = @ + e]) = planned(rs, cur, d) + e
<1> DEFINE d2 == [d EXCEPT ![rs[k]] = @ + e]
<1>0. Len(rs) \in Nat /\ DOMAIN rs = 1 .. Len(rs) /\ k \in 1 .. Len(rs)
  BY DEF Counted
<1>1. d2 \in [Regs(rs) -> Int]
  BY DEF Regs
<1>2. PICK f : IsSum(f, rs, cur, d) /\ planned(rs, cur, d) = f[Len(rs)]
  BY PlannedDef, CountedSummable
<1>3. PICK g : IsSum(g, rs, cur, d2) /\ planned(rs, cur, d2) = g[Len(rs)]
  <2> HIDE DEF d2
  <2> QED
    BY <1>1, PlannedDef, CountedSummable
<1>4. ASSUME NEW i \in 1 .. Len(rs)
      PROVE  /\ d2[rs[i]] = IF i = k THEN d[rs[i]] + e ELSE d[rs[i]]
             /\ d[rs[i]] \in Int /\ cur[rs[i]] \in Nat
  BY <1>0 DEF Counted, Regs
<1> HIDE DEF d2
<1> DEFINE T == {i \in Nat : i <= Len(rs) => g[i] = f[i] + IF i >= k THEN e ELSE 0}
<1>5. 0 \in T
  BY <1>0, <1>2, <1>3 DEF IsSum
<1>6. ASSUME NEW i \in Nat, i \in T PROVE i + 1 \in T
  <2> SUFFICES ASSUME i + 1 <= Len(rs)
               PROVE  g[i + 1] = f[i + 1] + IF i + 1 >= k THEN e ELSE 0
    OBVIOUS
  <2>1. i + 1 \in 1 .. Len(rs) /\ (i + 1) - 1 = i /\ i \in 0 .. Len(rs)
    BY <1>0
  <2>2. f[i + 1] = f[i] + (cur[rs[i + 1]] + d[rs[i + 1]])
    BY <1>2, <2>1 DEF IsSum
  <2>3. g[i + 1] = g[i] + (cur[rs[i + 1]] + d2[rs[i + 1]])
    BY <1>3, <2>1 DEF IsSum
  <2>4. f[i] \in Int /\ g[i] \in Int /\ g[i] = f[i] + IF i >= k THEN e ELSE 0
    BY <1>0, <1>2, <1>3, <1>6, <2>1 DEF IsSum
  <2>5. /\ d2[rs[i + 1]] = IF i + 1 = k THEN d[rs[i + 1]] + e ELSE d[rs[i + 1]]
        /\ d[rs[i + 1]] \in Int /\ cur[rs[i + 1]] \in Nat
    BY <1>4, <2>1
  <2> QED
    BY <1>0, <2>2, <2>3, <2>4, <2>5
<1>7. Nat \subseteq T
  <2> HIDE DEF T
  <2> QED
    BY <1>5, <1>6, NatSetInduction
<1>8. g[Len(rs)] = f[Len(rs)] + e
  BY <1>0, <1>7
<1> QED
  BY <1>2, <1>3, <1>8 DEF d2

-----------------------------------------------------------------------------
(* Going round: any n iterations in a row visit every position.              *)

(* Two rests that differ by a multiple of n are the same.                    *)
LEMMA SameRemainder ==
    ASSUME NEW n \in Nat \ {0}, NEW a \in Int, NEW r \in 0 .. n - 1, NEW s \in 0 .. n - 1,
           n * a + r = s
    PROVE  r = s
<1>1. CASE a >= 1
  <2>1. n * a >= n
    BY <1>1
  <2> QED
    BY <2>1
<1>2. CASE a <= -1
  <2>1. n * a <= -n
    BY <1>2
  <2> QED
    BY <2>1
<1>3. CASE a = 0
  BY <1>3
<1> QED
  BY <1>1, <1>2, <1>3

(* A number is so many times n, and a rest.                                  *)
LEMMA Division ==
    ASSUME NEW n \in Nat \ {0}, NEW i \in Nat
    PROVE  \E q \in Nat : i = n * q + (i % n) /\ i % n \in 0 .. n - 1
<1>1. i = n * (i \div n) + (i % n) /\ (i \div n) \in Nat
  OBVIOUS
<1>2. i % n \in 0 .. n - 1
  OBVIOUS
<1> WITNESS i \div n \in Nat
<1> QED
  BY <1>1, <1>2, Zenon

(* Among n numbers in a row one has the rest k.                              *)
LEMMA RoundFrom ==
    ASSUME NEW n \in Nat \ {0}, NEW a \in Nat, NEW k \in 0 .. n - 1,
           NEW q \in Nat, NEW r \in 0 .. n - 1, a = n * q + r
    PROVE  \E p \in Nat : n * p + k \in a .. a + n - 1
<1>1. n * q \in Nat /\ n * (q + 1) = n * q + n
  OBVIOUS
<1>2. CASE k >= r
  <2>1. n * q + k \in a .. a + n - 1
    BY <1>1, <1>2
  <2> QED
    BY <2>1, Zenon
<1>3. CASE k < r
  <2>1. n * (q + 1) + k \in a .. a + n - 1
    BY <1>1, <1>3
  <2>2. q + 1 \in Nat
    OBVIOUS
  <2> QED
    BY <2>1, <2>2, Zenon
<1> QED
  BY <1>2, <1>3

(* The rest of a division is unique.                                         *)
LEMMA OnePlace ==
    ASSUME NEW n \in Nat \ {0}, NEW p \in Nat, NEW k \in 0 .. n - 1,
           NEW u \in Nat, NEW r \in 0 .. n - 1, n * p + k = n * u + r
    PROVE  r = k
<1>1. n * (u - p) = n * u - n * p /\ n * u \in Int /\ n * p \in Int
  OBVIOUS
<1>2. n * (u - p) + r = k
  BY <1>1
<1>3. u - p \in Int
  OBVIOUS
<1> QED
  BY <1>2, <1>3, SameRemainder

(* n iterations in a row visit every position of a cycle of n.               *)
LEMMA RoundVisits ==
    ASSUME NEW n \in Nat \ {0}, NEW a \in Nat, NEW k \in 0 .. n - 1
    PROVE  \E j \in a .. a + n - 1 : j % n = k
<1>1. PICK q \in Nat : a = n * q + (a % n) /\ a % n \in 0 .. n - 1
  BY Division
<1>2. PICK p \in Nat : n * p + k \in a .. a + n - 1
  BY <1>1, RoundFrom, Zenon
<1> DEFINE j == n * p + k
<1>4. j \in Nat
  OBVIOUS
<1>5. PICK u \in Nat : j = n * u + (j % n) /\ j % n \in 0 .. n - 1
  <2> HIDE DEF j
  <2> QED
    BY <1>4, Division
<1>6. j % n = k
  <2>1. n * p + k = n * u + (j % n)
    BY <1>5, Zenon
  <2> QED
    BY <1>5, <2>1, OnePlace, Zenon
<1> QED
  BY <1>2, <1>6, Zenon

(* A loop whose measure mu goes down whenever its state f changes, and whose *)
(* state changes at least once in n iterations while mu is positive.         *)
Descends(n, f, mu) ==
    /\ \A i \in Nat : (f[i + 1] = f[i] /\ mu[i + 1] = mu[i]) \/ mu[i + 1] < mu[i]
    /\ \A a \in Nat : mu[a] > 0 =>
           \E j \in a .. a + n - 1 : f[j] = f[a] => mu[j + 1] < mu[j]

(* It is through after n iterations for each unit of mu.                     *)
LEMMA RoundsEnd ==
    ASSUME NEW n \in Nat \ {0}, NEW f, NEW mu \in [Nat -> Nat], Descends(n, f, mu)
    PROVE  mu[n * mu[0]] = 0
<1>1. ASSUME NEW a \in Nat, mu[a] > 0 PROVE mu[a + n] < mu[a]
  <2> DEFINE T == {k \in Nat : /\ mu[a + k] <= mu[a]
                               /\ mu[a + k] = mu[a] =>
                                    \A l \in 0 .. k : f[a + l] = f[a] /\ mu[a + l] = mu[a]}
  <2>1. 0 \in T
    <3>1. a + 0 = a /\ mu[a] \in Nat /\ \A l \in 0 .. 0 : l = 0
      OBVIOUS
    <3> QED
      BY <3>1
  <2>2. ASSUME NEW k \in Nat, k \in T PROVE k + 1 \in T
    <3>1. /\ a + k \in Nat /\ (a + k) + 1 = a + (k + 1)
          /\ mu[a + k] \in Nat /\ mu[a + (k + 1)] \in Nat /\ mu[a] \in Nat
      OBVIOUS
    <3>2. \/ f[a + (k + 1)] = f[a + k] /\ mu[a + (k + 1)] = mu[a + k]
          \/ mu[a + (k + 1)] < mu[a + k]
      BY <3>1 DEF Descends
    <3>3. mu[a + (k + 1)] <= mu[a]
      BY <2>2, <3>1, <3>2
    <3>4. ASSUME mu[a + (k + 1)] = mu[a], NEW l \in 0 .. k + 1
          PROVE  f[a + l] = f[a] /\ mu[a + l] = mu[a]
      <4>1. mu[a + k] = mu[a] /\ f[a + (k + 1)] = f[a + k]
        BY <2>2, <3>1, <3>2, <3>4
      <4>2. CASE l = k + 1
        BY <2>2, <3>4, <4>1, <4>2
      <4>3. CASE l \in 0 .. k
        BY <2>2, <4>1, <4>3
      <4> QED
        BY <4>2, <4>3
    <3> QED
      BY <3>3, <3>4
  <2>3. Nat \subseteq T
    <3> HIDE DEF T
    <3> QED
      BY <2>1, <2>2, NatSetInduction
  <2>4. SUFFICES ASSUME mu[a + n] = mu[a] PROVE FALSE
    <3>1. n \in T
      <4> HIDE DEF T
      <4> QED
        BY <2>3
    <3>2. mu[a + n] \in Nat /\ mu[a] \in Nat
      BY a + n \in Nat
    <3>3. mu[a + n] <= mu[a]
      BY <3>1
    <3> HIDE DEF T
    <3> QED
      BY <3>2, <3>3
  <2>5. \A l \in 0 .. n : f[a + l] = f[a] /\ mu[a + l] = mu[a]
    <3>1. n \in T
      <4> HIDE DEF T
      <4> QED
        BY <2>3
    <3> QED
      BY <2>4, <3>1
  <2>6. PICK j \in a .. a + n - 1 : f[j] = f[a] => mu[j + 1] < mu[j]
    BY <1>1 DEF Descends
  <2>7. j - a \in 0 .. n /\ (j - a) + 1 \in 0 .. n /\ a + (j - a) = j /\ a + ((j - a) + 1) = j + 1
    OBVIOUS
  <2>8. /\ f[j] = f[a] /\ mu[j] = mu[a] /\ mu[j + 1] = mu[a]
        /\ mu[a] \in Nat
    BY <2>5, <2>7
  <2> QED
    <3> HIDE DEF T
    <3> QED
      BY <2>6, <2>8
<1> DEFINE R == {k \in Nat : mu[n * k] = 0 \/ mu[n * k] + k <= mu[0]}
<1>2. 0 \in R
  BY n * 0 = 0
<1>3. ASSUME NEW k \in Nat, k \in R PROVE k + 1 \in R
  <2> DEFINE a == n * k
  <2>1. a \in Nat /\ n * (k + 1) = a + n
    OBVIOUS
  <2>2. mu[a] = 0 \/ mu[a] + k <= mu[0]
    BY <1>3
  <2> HIDE DEF a
  <2>3. mu[a] \in Nat /\ mu[a + n] \in Nat /\ mu[0] \in Nat /\ k + 1 \in Nat
    BY <2>1
  <2>4. CASE mu[a] > 0
    <3>1. mu[a + n] < mu[a]
      BY <1>1, <2>1, <2>4
    <3>2. mu[a + n] + (k + 1) <= mu[0]
      BY <2>2, <2>3, <2>4, <3>1
    <3> QED
      BY <2>1, <2>3, <3>2
  <2>5. CASE mu[a] = 0
    <3> DEFINE Z == {m \in Nat : mu[a + m] = 0}
    <3>1. 0 \in Z
      BY <2>1, <2>5, a + 0 = a
    <3>2. ASSUME NEW m \in Nat, m \in Z PROVE m + 1 \in Z
      <4>1. a + m \in Nat /\ (a + m) + 1 = a + (m + 1) /\ mu[a + (m + 1)] \in Nat
        BY <2>1
      <4>2. mu[a + (m + 1)] = mu[a + m] \/ mu[a + (m + 1)] < mu[a + m]
        BY <4>1 DEF Descends
      <4> QED
        BY <3>2, <4>1, <4>2
    <3>3. Nat \subseteq Z
      <4> HIDE DEF Z
      <4> QED
        BY <3>1, <3>2, NatSetInduction
    <3>4. mu[a + n] = 0
      BY <3>3
    <3> QED
      BY <2>1, <3>4
  <2> QED
    BY <2>3, <2>4, <2>5
<1>4. Nat \subseteq R
  <2> HIDE DEF R
  <2> QED
    BY <1>2, <1>3, NatSetInduction
<1>5. mu[0] \in R /\ n * mu[0] \in Nat /\ mu[n * mu[0]] \in Nat
  BY <1>4
<1> QED
  BY <1>5

-----------------------------------------------------------------------------
Plans(rs) == [diff : Int, diffs : [Regs(rs) -> Int]]

Pos(rs, i) == (i % Len(rs)) + 1

(* The loops index the regions within bounds.                                *)
LEMMA PosIn ==
    ASSUME NEW rs, NEW cur, Counted(rs, cur), NEW i \in Nat
    PROVE  Pos(rs, i) \in DOMAIN rs /\ rs[Pos(rs, i)] \in Regs(rs)
<1>1. Len(rs) \in Nat \ {0} /\ DOMAIN rs = 1 .. Len(rs)
  BY DEF Counted
<1>2. i % Len(rs) \in 0 .. Len(rs) - 1
  BY <1>1, Division
<1>3. (i % Len(rs)) + 1 \in 1 .. Len(rs)
  BY <1>1, <1>2
<1> QED
  BY <1>1, <1>3 DEF Pos, Regs

(* The sum of a plan and what is still to do is the same after a change.     *)
LEMMA OneMore ==
    ASSUME NEW rs, NEW cur, Counted(rs, cur), NEW p \in Plans(rs), NEW k \in DOMAIN rs,
           NEW e \in Int, NEW q,
           q = [diff |-> p.diff - e, diffs |-> [p.diffs EXCEPT ![rs[k]] = @ + e]]
    PROVE  /\ q \in Plans(rs)
           /\ planned(rs, cur, q.diffs) + q.diff = planned(rs, cur, p.diffs) + p.diff
           /\ planned(rs, cur, p.diffs) \in Int
<1>1. q \in Plans(rs) /\ p.diffs \in [Regs(rs) -> Int] /\ p.diff \in Int
  BY DEF Plans, Regs
<1>2. planned(rs, cur, q.diffs) = planned(rs, cur, p.diffs) + e
  BY <1>1, PlannedChange
<1>3. planned(rs, cur, p.diffs) \in Int
  BY <1>1, CountedSummable, PlannedType
<1> QED
  BY <1>1, <1>2, <1>3

(* A region r has room to grow.                                              *)
HasRoom(cur, max, p, r) == max < 0 \/ cur[r] + p.diffs[r] < max

(* One iteration of the growing loop, for the region it looks at.            *)
LEMMA GrowStep ==
    ASSUME NEW rs, NEW cur, NEW max, NEW i \in Nat, NEW p, NEW r, r = rs[Pos(rs, i)]
    PROVE  growStep(rs, cur, max, i + 1, p) =
               IF p.diff > 0 /\ HasRoom(cur, max, p, r)
               THEN [diff |-> p.diff - 1, diffs |-> [p.diffs EXCEPT ![r] = @ + 1]]
               ELSE p
<1>1. (i + 1) - 1 = i
  OBVIOUS
<1> QED
  BY <1>1 DEF growStep, HasRoom, Pos

(* An iteration turns a plan into a plan.                                    *)
LEMMA GrowStepType ==
    ASSUME NEW rs, NEW cur, Counted(rs, cur), NEW max \in Int, NEW i \in Nat,
           NEW p \in Plans(rs)
    PROVE  growStep(rs, cur, max, i + 1, p) \in Plans(rs)
<1> DEFINE k == Pos(rs, i)
           q == [diff |-> p.diff - 1, diffs |-> [p.diffs EXCEPT ![rs[k]] = @ + 1]]
<1>1. k \in DOMAIN rs
  BY PosIn
<1>2. q \in Plans(rs)
  <2> HIDE DEF k
  <2> QED
    BY <1>1, OneMore
<1>3. growStep(rs, cur, max, i + 1, p) \in {p, q}
  BY GrowStep
<1> QED
  BY <1>2, <1>3

(* The iterations of the growing loop.                                       *)
IsGrow(f, rs, cur, max, start) ==
    /\ f \in [Nat -> Plans(rs)]
    /\ f[0] = start
    /\ \A i \in Nat : f[i + 1] = growStep(rs, cur, max, i + 1, f[i])

(* grow is the state of the loop after the iterations it is given.           *)
LEMMA GrowDef ==
    ASSUME NEW rs, NEW cur, Counted(rs, cur), NEW max \in Int, NEW start \in Plans(rs),
           start.diff > 0
    PROVE  \E f : IsGrow(f, rs, cur, max, start) /\
                  grow(rs, cur, max, start) = f[Len(rs) * start.diff]
<1> DEFINE S == Plans(rs)
           st(i, p) == growStep(rs, cur, max, i, p)
           step == [i \in Nat |-> [p \in S |-> IF i = 0 THEN p ELSE st(i, p)]]
<1>1. ASSUME NEW i \in Nat \ {0}, NEW p \in S PROVE st(i, p) \in S
  <2>1. i - 1 \in Nat /\ (i - 1) + 1 = i
    OBVIOUS
  <2>2. growStep(rs, cur, max, (i - 1) + 1, p) \in Plans(rs)
    BY <2>1, GrowStepType
  <2> QED
    BY <2>1, <2>2
<1> HIDE DEF S, st
<1>2. PICK f : IsRun(f, S, start, step)
  <2>1. step \in [Nat -> [S -> S]]
    BY <1>1
  <2>2. start \in S
    BY DEF S
  <2> HIDE DEF step
  <2> QED
    BY <2>1, <2>2, Iterates
<1>3. ASSUME NEW i \in Nat PROVE f[i + 1] = st(i + 1, f[i]) /\ f[i] \in S
  <2>1. f[i + 1] = step[i + 1][f[i]] /\ f[i] \in S
    <3> HIDE DEF step
    <3> QED
      BY <1>2 DEF IsRun
  <2>2. i + 1 \in Nat /\ i + 1 # 0
    OBVIOUS
  <2> QED
    BY <2>1, <2>2
<1> DEFINE Def(g) == [i \in Nat |-> IF i = 0 THEN start ELSE st(i, g[i - 1])]
           loop == CHOOSE g : g = Def(g)
<1>4. f = Def(f)
  <2>1. f \in [Nat -> S] /\ f[0] = start
    BY <1>2 DEF IsRun
  <2>2. ASSUME NEW i \in Nat, i # 0 PROVE f[i] = st(i, f[i - 1])
    <3>1. i - 1 \in Nat /\ (i - 1) + 1 = i
      BY <2>2
    <3>2. f[(i - 1) + 1] = st((i - 1) + 1, f[i - 1])
      BY <1>3, <3>1
    <3> QED
      BY <3>1, <3>2
  <2>3. ASSUME NEW i \in Nat PROVE f[i] = Def(f)[i]
    BY <2>1, <2>2
  <2> QED
    BY <2>1, <2>3
<1>5. loop = Def(loop)
  <2> HIDE DEF Def
  <2> QED
    BY <1>4
<1>6. grow(rs, cur, max, start) = loop[Len(rs) * start.diff]
  BY DEF grow, st
<1> HIDE DEF loop
<1>7. loop[0] = start /\ \A i \in Nat : loop[i + 1] = st(i + 1, loop[i])
  <2>1. \A i : loop[i] = Def(loop)[i]
    <3> HIDE DEF Def
    <3> QED
      BY <1>5
  <2>2. loop[0] = Def(loop)[0]
    BY <2>1
  <2>3. ASSUME NEW i \in Nat PROVE loop[i + 1] = st(i + 1, loop[i])
    <3>1. loop[i + 1] = Def(loop)[i + 1]
      BY <2>1
    <3>2. i + 1 \in Nat /\ i + 1 # 0 /\ (i + 1) - 1 = i
      OBVIOUS
    <3> QED
      BY <3>1, <3>2
  <2> QED
    BY <2>2, <2>3
<1> DEFINE T == {i \in Nat : loop[i] \in S}
<1>8. Nat \subseteq T
  <2>1. 0 \in T
    BY <1>7 DEF S
  <2>2. ASSUME NEW i \in Nat, i \in T PROVE i + 1 \in T
    <3>1. i + 1 \in Nat \ {0} /\ loop[i] \in S
      BY <2>2
    <3>2. st(i + 1, loop[i]) \in S
      BY <1>1, <3>1
    <3> QED
      BY <1>7, <3>1, <3>2
  <2> HIDE DEF T
  <2> QED
    BY <2>1, <2>2, NatSetInduction
<1>9. loop \in [Nat -> S]
  <2>1. \A i \in Nat : loop[i] \in S
    BY <1>8
  <2> QED
    BY <1>5, <2>1
<1>10. IsGrow(loop, rs, cur, max, start)
  BY <1>7, <1>9 DEF IsGrow, S, st
<1> QED
  BY <1>6, <1>10

(* What holds of the plan all along the loop that grows from start.          *)
Grown(rs, cur, max, expected, start, p) ==
    /\ p \in Plans(rs)
    /\ p.diff >= 0
    /\ planned(rs, cur, p.diffs) + p.diff = expected
    /\ \A r \in Regs(rs) : /\ p.diffs[r] >= start.diffs[r]
                           /\ max >= 0 => cur[r] + p.diffs[r] <= max

(* An iteration of the growing loop keeps Grown.                             *)
LEMMA GrowKeeps ==
    ASSUME NEW rs, NEW cur, Counted(rs, cur), NEW max \in Int, NEW expected \in Nat,
           NEW start \in Plans(rs), NEW i \in Nat, NEW p,
           Grown(rs, cur, max, expected, start, p)
    PROVE  Grown(rs, cur, max, expected, start, growStep(rs, cur, max, i + 1, p))
<1> DEFINE k == Pos(rs, i)
           r == rs[k]
           q == [diff |-> p.diff - 1, diffs |-> [p.diffs EXCEPT ![rs[k]] = @ + 1]]
<1>1. k \in DOMAIN rs /\ r \in Regs(rs)
  BY PosIn
<1>2. growStep(rs, cur, max, i + 1, p) =
        IF p.diff > 0 /\ HasRoom(cur, max, p, r) THEN q ELSE p
  BY GrowStep
<1>3. p \in Plans(rs)
  BY DEF Grown
<1>4. /\ q \in Plans(rs)
      /\ planned(rs, cur, q.diffs) + q.diff = planned(rs, cur, p.diffs) + p.diff
  <2> HIDE DEF k
  <2> QED
    BY <1>1, <1>3, OneMore
<1>5. ASSUME p.diff > 0, HasRoom(cur, max, p, r) PROVE Grown(rs, cur, max, expected, start, q)
  <2>1. q.diff >= 0
    BY <1>3, <1>5 DEF Plans
  <2>2. ASSUME NEW s \in Regs(rs)
        PROVE  /\ q.diffs[s] >= start.diffs[s]
               /\ max >= 0 => cur[s] + q.diffs[s] <= max
    <3>1. /\ p.diffs[s] \in Int /\ start.diffs[s] \in Int /\ cur[s] \in Nat
          /\ q.diffs[s] = IF s = r THEN p.diffs[s] + 1 ELSE p.diffs[s]
      BY <1>1, <1>3 DEF Plans, Counted, Regs
    <3>2. p.diffs[s] >= start.diffs[s] /\ (max >= 0 => cur[s] + p.diffs[s] <= max)
      BY DEF Grown
    <3>3. s = r /\ max >= 0 => cur[s] + p.diffs[s] < max
      BY <1>5 DEF HasRoom
    <3> HIDE DEF q, r
    <3> QED
      BY <3>1, <3>2, <3>3
  <2>3. planned(rs, cur, q.diffs) + q.diff = expected
    BY <1>4 DEF Grown
  <2> HIDE DEF q
  <2> QED
    BY <1>4, <2>1, <2>2, <2>3 DEF Grown
<1> HIDE DEF q, r
<1> QED
  BY <1>2, <1>5

(* As long as machines are missing, some region has room.                    *)
LEMMA SomeRoom ==
    ASSUME NEW rs, NEW cur, Counted(rs, cur), NEW max \in Int, NEW expected \in Nat,
           ~exceedsMax(expected, rs, max),
           NEW start \in Plans(rs), NEW p, Grown(rs, cur, max, expected, start, p), p.diff > 0
    PROVE  \E k \in 1 .. Len(rs) : HasRoom(cur, max, p, rs[k])
<1> SUFFICES ASSUME \A k \in 1 .. Len(rs) : ~HasRoom(cur, max, p, rs[k]) PROVE FALSE
  OBVIOUS
<1>1. p \in Plans(rs) /\ p.diff \in Int /\ p.diffs \in [Regs(rs) -> Int] /\ Len(rs) \in Nat \ {0}
  BY DEF Grown, Plans, Counted
<1>2. Summable(rs, cur, p.diffs)
  BY <1>1, CountedSummable
<1>3. max >= 0 /\ \A k \in 1 .. Len(rs) : cur[rs[k]] + p.diffs[rs[k]] >= max
  BY <1>1, <1>2 DEF HasRoom, Summable
<1>4. planned(rs, cur, p.diffs) >= Len(rs) * max
  BY <1>2, <1>3, PlannedAtLeast
<1>5. Len(rs) * max >= expected /\ Len(rs) * max \in Int
  BY <1>1, <1>3 DEF exceedsMax
<1>6. planned(rs, cur, p.diffs) \in Int
  BY <1>2, PlannedType
<1>7. planned(rs, cur, p.diffs) + p.diff = expected
  BY DEF Grown
<1> QED
  BY <1>1, <1>4, <1>5, <1>6, <1>7

(* Growing ends with as many machines as expected.                           *)
LEMMA GrowEnds ==
    ASSUME NEW rs, NEW cur, Counted(rs, cur), NEW max \in Int, NEW expected \in Nat,
           ~exceedsMax(expected, rs, max),
           NEW start \in Plans(rs), Grown(rs, cur, max, expected, start, start)
    PROVE  /\ Grown(rs, cur, max, expected, start, grow(rs, cur, max, start))
           /\ grow(rs, cur, max, start).diff = 0
<1>0. start.diff \in Nat
  BY DEF Grown, Plans
<1>1. CASE start.diff = 0
  BY <1>1 DEF grow
<1>2. CASE start.diff > 0
  <2>1. PICK f : IsGrow(f, rs, cur, max, start) /\
                 grow(rs, cur, max, start) = f[Len(rs) * start.diff]
    BY <1>2, GrowDef
  <2> DEFINE n == Len(rs)
             mu == [i \in Nat |-> f[i].diff]
             T == {i \in Nat : Grown(rs, cur, max, expected, start, f[i])}
  <2>2. n \in Nat \ {0}
    BY DEF Counted
  <2>3. Nat \subseteq T
    <3>1. 0 \in T
      BY <2>1 DEF IsGrow
    <3>2. ASSUME NEW i \in Nat, i \in T PROVE i + 1 \in T
      <4>1. f[i + 1] = growStep(rs, cur, max, i + 1, f[i])
        BY <2>1 DEF IsGrow
      <4> QED
        BY <3>2, <4>1, GrowKeeps
    <3> HIDE DEF T
    <3> QED
      BY <3>1, <3>2, NatSetInduction
  <2>4. ASSUME NEW i \in Nat PROVE Grown(rs, cur, max, expected, start, f[i]) /\ f[i].diff \in Nat
    <3>1. Grown(rs, cur, max, expected, start, f[i])
      BY <2>3
    <3> QED
      BY <3>1 DEF Grown, Plans
  <2>5. mu \in [Nat -> Nat]
    BY <2>4
  <2>6. ASSUME NEW i \in Nat
        PROVE  IF f[i].diff > 0 /\ HasRoom(cur, max, f[i], rs[Pos(rs, i)])
               THEN f[i + 1].diff = f[i].diff - 1 ELSE f[i + 1] = f[i]
    <3>1. f[i + 1] = growStep(rs, cur, max, i + 1, f[i])
      BY <2>1 DEF IsGrow
    <3> DEFINE r == rs[Pos(rs, i)]
    <3>2. growStep(rs, cur, max, i + 1, f[i]) =
            IF f[i].diff > 0 /\ HasRoom(cur, max, f[i], r)
            THEN [diff |-> f[i].diff - 1, diffs |-> [f[i].diffs EXCEPT ![r] = @ + 1]]
            ELSE f[i]
      BY GrowStep
    <3> HIDE DEF r
    <3> QED
      BY <3>1, <3>2 DEF r
  <2>7. ASSUME NEW i \in Nat
        PROVE  (f[i + 1] = f[i] /\ mu[i + 1] = mu[i]) \/ mu[i + 1] < mu[i]
    <3>1. mu[i] = f[i].diff /\ mu[i + 1] = f[i + 1].diff /\ mu[i] \in Nat
      BY <2>4
    <3> HIDE DEF mu
    <3> QED
      BY <2>6, <3>1
  <2>8. ASSUME NEW a \in Nat, mu[a] > 0
        PROVE  \E j \in a .. a + n - 1 : f[j] = f[a] => mu[j + 1] < mu[j]
    <3>1. PICK k \in 1 .. Len(rs) : HasRoom(cur, max, f[a], rs[k])
      BY <2>4, <2>8, SomeRoom
    <3>2. k - 1 \in 0 .. n - 1
      BY <2>2
    <3>3. PICK j \in a .. a + n - 1 : j % n = k - 1
      <4> HIDE DEF n
      <4> QED
        BY <2>2, <3>2, RoundVisits
    <3>4. j \in Nat /\ Pos(rs, j) = k
      BY <2>2, <3>3 DEF Pos
    <3>5. ASSUME f[j] = f[a] PROVE mu[j + 1] < mu[j]
      <4>1. mu[j] = f[j].diff /\ mu[j + 1] = f[j + 1].diff /\ mu[j] \in Nat /\ mu[a] = f[a].diff
        BY <2>4, <3>4
      <4>2. f[j + 1].diff = f[j].diff - 1
        <5>1. f[j].diff > 0 /\ HasRoom(cur, max, f[j], rs[Pos(rs, j)])
          BY <2>8, <3>1, <3>4, <3>5, <4>1
        <5> QED
          BY <2>6, <3>4, <5>1
      <4> HIDE DEF mu
      <4> QED
        BY <4>1, <4>2
    <3> QED
      BY <3>5
  <2>9. Descends(n, f, mu)
    <3> HIDE DEF mu, n
    <3> QED
      BY <2>7, <2>8 DEF Descends
  <2>10. mu[n * mu[0]] = 0
    <3> HIDE DEF mu, n
    <3> QED
      BY <2>2, <2>5, <2>9, RoundsEnd
  <2>11. mu[0] = start.diff /\ n * start.diff \in Nat
    <3>1. f[0] = start
      BY <2>1 DEF IsGrow
    <3>2. n * start.diff \in Nat
      <4> HIDE DEF n
      <4> QED
        BY <1>0, <2>2
    <3> QED
      BY <3>1, <3>2
  <2>12. f[n * start.diff].diff = 0
    BY <2>10, <2>11
  <2> QED
    BY <2>1, <2>4, <2>11, <2>12
<1> QED
  BY <1>0, <1>1, <1>2

(* One iteration of the shrinking loop, for the region it looks at.          *)
LEMMA ShrinkStep ==
    ASSUME NEW rs, NEW cur, NEW i \in Nat, NEW p, NEW r, r = rs[Pos(rs, i + 1)]
    PROVE  shrinkStep(rs, cur, i + 1, p) =
               IF p.diff < 0 /\ cur[r] + p.diffs[r] > 0
               THEN [diff |-> p.diff + 1, diffs |-> [p.diffs EXCEPT ![r] = @ - 1]]
               ELSE p
BY DEF shrinkStep, Pos

(* The same as OneMore, for a region that loses a machine.                   *)
LEMMA OneLess ==
    ASSUME NEW rs, NEW cur, Counted(rs, cur), NEW p \in Plans(rs), NEW k \in DOMAIN rs, NEW q,
           q = [diff |-> p.diff + 1, diffs |-> [p.diffs EXCEPT ![rs[k]] = @ - 1]]
    PROVE  /\ q \in Plans(rs)
           /\ planned(rs, cur, q.diffs) + q.diff = planned(rs, cur, p.diffs) + p.diff
<1>1. p.diff \in Int /\ p.diffs \in [Regs(rs) -> Int] /\ rs[k] \in Regs(rs)
  BY DEF Plans, Regs
<1>2. p.diff + 1 = p.diff - (-1) /\ p.diffs[rs[k]] - 1 = p.diffs[rs[k]] + (-1)
  BY <1>1
<1>3. [p.diffs EXCEPT ![rs[k]] = @ - 1] = [p.diffs EXCEPT ![rs[k]] = @ + (-1)]
  BY <1>1, <1>2
<1>4. q = [diff |-> p.diff - (-1), diffs |-> [p.diffs EXCEPT ![rs[k]] = @ + (-1)]]
  BY <1>2, <1>3
<1> QED
  BY <1>4, -1 \in Int, OneMore

(* An iteration turns a plan into a plan.                                    *)
LEMMA ShrinkStepType ==
    ASSUME NEW rs, NEW cur, Counted(rs, cur), NEW i \in Nat, NEW p \in Plans(rs)
    PROVE  shrinkStep(rs, cur, i + 1, p) \in Plans(rs)
<1> DEFINE k == Pos(rs, i + 1)
           q == [diff |-> p.diff + 1, diffs |-> [p.diffs EXCEPT ![rs[k]] = @ - 1]]
<1>1. k \in DOMAIN rs
  BY i + 1 \in Nat, PosIn
<1>2. q \in Plans(rs)
  <2> HIDE DEF k
  <2> QED
    BY <1>1, OneLess
<1>3. shrinkStep(rs, cur, i + 1, p) \in {p, q}
  <2>1. shrinkStep(rs, cur, i + 1, p) =
          IF p.diff < 0 /\ cur[rs[k]] + p.diffs[rs[k]] > 0 THEN q ELSE p
    BY ShrinkStep
  <2> HIDE DEF k, q
  <2> QED
    BY <2>1
<1> QED
  BY <1>2, <1>3

(* The iterations of the shrinking loop.                                     *)
IsShrink(f, rs, cur, start) ==
    /\ f \in [Nat -> Plans(rs)]
    /\ f[0] = start
    /\ \A i \in Nat : f[i + 1] = shrinkStep(rs, cur, i + 1, f[i])

(* shrink is the state of the loop after the iterations it is given.         *)
LEMMA ShrinkDef ==
    ASSUME NEW rs, NEW cur, Counted(rs, cur), NEW start \in Plans(rs),
           start.diff < 0
    PROVE  \E f : IsShrink(f, rs, cur, start) /\
                  shrink(rs, cur, start) = f[Len(rs) * (-start.diff)]
<1> DEFINE S == Plans(rs)
           st(i, p) == shrinkStep(rs, cur, i, p)
           step == [i \in Nat |-> [p \in S |-> IF i = 0 THEN p ELSE st(i, p)]]
<1>1. ASSUME NEW i \in Nat \ {0}, NEW p \in S PROVE st(i, p) \in S
  <2>1. i - 1 \in Nat /\ (i - 1) + 1 = i
    OBVIOUS
  <2>2. shrinkStep(rs, cur, (i - 1) + 1, p) \in Plans(rs)
    BY <2>1, ShrinkStepType
  <2> QED
    BY <2>1, <2>2
<1> HIDE DEF S, st
<1>2. PICK f : IsRun(f, S, start, step)
  <2>1. step \in [Nat -> [S -> S]]
    BY <1>1
  <2>2. start \in S
    BY DEF S
  <2> HIDE DEF step
  <2> QED
    BY <2>1, <2>2, Iterates
<1>3. ASSUME NEW i \in Nat PROVE f[i + 1] = st(i + 1, f[i]) /\ f[i] \in S
  <2>1. f[i + 1] = step[i + 1][f[i]] /\ f[i] \in S
    <3> HIDE DEF step
    <3> QED
      BY <1>2 DEF IsRun
  <2>2. i + 1 \in Nat /\ i + 1 # 0
    OBVIOUS
  <2> QED
    BY <2>1, <2>2
<1> DEFINE Def(g) == [i \in Nat |-> IF i = 0 THEN start ELSE st(i, g[i - 1])]
           loop == CHOOSE g : g = Def(g)
<1>4. f = Def(f)
  <2>1. f \in [Nat -> S] /\ f[0] = start
    BY <1>2 DEF IsRun
  <2>2. ASSUME NEW i \in Nat, i # 0 PROVE f[i] = st(i, f[i - 1])
    <3>1. i - 1 \in Nat /\ (i - 1) + 1 = i
      BY <2>2
    <3>2. f[(i - 1) + 1] = st((i - 1) + 1, f[i - 1])
      BY <1>3, <3>1
    <3> QED
      BY <3>1, <3>2
  <2>3. ASSUME NEW i \in Nat PROVE f[i] = Def(f)[i]
    BY <2>1, <2>2
  <2> QED
    BY <2>1, <2>3
<1>5. loop = Def(loop)
  <2> HIDE DEF Def
  <2> QED
    BY <1>4
<1>6. shrink(rs, cur, start) = loop[Len(rs) * (-start.diff)]
  BY DEF shrink, st
<1> HIDE DEF loop
<1>7. loop[0] = start /\ \A i \in Nat : loop[i + 1] = st(i + 1, loop[i])
  <2>1. \A i : loop[i] = Def(loop)[i]
    <3> HIDE DEF Def
    <3> QED
      BY <1>5
  <2>2. loop[0] = Def(loop)[0]
    BY <2>1
  <2>3. ASSUME NEW i \in Nat PROVE loop[i + 1] = st(i + 1, loop[i])
    <3>1. loop[i + 1] = Def(loop)[i + 1]
      BY <2>1
    <3>2. i + 1 \in Nat /\ i + 1 # 0 /\ (i + 1) - 1 = i
      OBVIOUS
    <3> QED
      BY <3>1, <3>2
  <2> QED
    BY <2>2, <2>3
<1> DEFINE T == {i \in Nat : loop[i] \in S}
<1>8. Nat \subseteq T
  <2>1. 0 \in T
    BY <1>7 DEF S
  <2>2. ASSUME NEW i \in Nat, i \in T PROVE i + 1 \in T
    <3>1. i + 1 \in Nat \ {0} /\ loop[i] \in S
      BY <2>2
    <3>2. st(i + 1, loop[i]) \in S
      BY <1>1, <3>1
    <3> QED
      BY <1>7, <3>1, <3>2
  <2> HIDE DEF T
  <2> QED
    BY <2>1, <2>2, NatSetInduction
<1>9. loop \in [Nat -> S]
  <2>1. \A i \in Nat : loop[i] \in S
    BY <1>8
  <2> QED
    BY <1>5, <2>1
<1>10. IsShrink(loop, rs, cur, start)
  BY <1>7, <1>9 DEF IsShrink, S, st
<1> QED
  BY <1>6, <1>10

(* What holds of the plan all along the loop that shrinks from start.        *)
Shrunk(rs, cur, expected, start, p) ==
    /\ p \in Plans(rs)
    /\ p.diff <= 0
    /\ planned(rs, cur, p.diffs) + p.diff = expected
    /\ \A r \in Regs(rs) : p.diffs[r] <= start.diffs[r] /\ cur[r] + p.diffs[r] >= 0

(* An iteration of the shrinking loop keeps Shrunk.                          *)
LEMMA ShrinkKeeps ==
    ASSUME NEW rs, NEW cur, Counted(rs, cur), NEW expected \in Nat,
           NEW start \in Plans(rs), NEW i \in Nat, NEW p,
           Shrunk(rs, cur, expected, start, p)
    PROVE  Shrunk(rs, cur, expected, start, shrinkStep(rs, cur, i + 1, p))
<1> DEFINE k == Pos(rs, i + 1)
           r == rs[k]
           q == [diff |-> p.diff + 1, diffs |-> [p.diffs EXCEPT ![rs[k]] = @ - 1]]
<1>1. k \in DOMAIN rs /\ r \in Regs(rs)
  BY i + 1 \in Nat, PosIn
<1>2. shrinkStep(rs, cur, i + 1, p) =
        IF p.diff < 0 /\ cur[r] + p.diffs[r] > 0 THEN q ELSE p
  BY DEF shrinkStep, Pos
<1>3. p \in Plans(rs)
  BY DEF Shrunk
<1>4. /\ q \in Plans(rs)
      /\ planned(rs, cur, q.diffs) + q.diff = planned(rs, cur, p.diffs) + p.diff
  <2> HIDE DEF k
  <2> QED
    BY <1>1, <1>3, OneLess
<1>5. ASSUME p.diff < 0, cur[r] + p.diffs[r] > 0 PROVE Shrunk(rs, cur, expected, start, q)
  <2>1. q.diff <= 0
    BY <1>3, <1>5 DEF Plans
  <2>2. ASSUME NEW s \in Regs(rs)
        PROVE  q.diffs[s] <= start.diffs[s] /\ cur[s] + q.diffs[s] >= 0
    <3>1. /\ p.diffs[s] \in Int /\ start.diffs[s] \in Int /\ cur[s] \in Nat
          /\ q.diffs[s] = IF s = r THEN p.diffs[s] - 1 ELSE p.diffs[s]
      BY <1>1, <1>3 DEF Plans, Counted, Regs
    <3>2. p.diffs[s] <= start.diffs[s] /\ cur[s] + p.diffs[s] >= 0
      BY DEF Shrunk
    <3>3. s = r => cur[s] + p.diffs[s] > 0
      BY <1>5
    <3> HIDE DEF q, r
    <3> QED
      BY <3>1, <3>2, <3>3
  <2>3. planned(rs, cur, q.diffs) + q.diff = expected
    BY <1>4 DEF Shrunk
  <2> HIDE DEF q
  <2> QED
    BY <1>4, <2>1, <2>2, <2>3 DEF Shrunk
<1> HIDE DEF q, r
<1> QED
  BY <1>2, <1>5

(* As long as there are too many machines, some region has one.              *)
LEMMA SomeLeft ==
    ASSUME NEW rs, NEW cur, Counted(rs, cur), NEW expected \in Nat,
           NEW start \in Plans(rs), NEW p, Shrunk(rs, cur, expected, start, p), p.diff < 0
    PROVE  \E k \in 1 .. Len(rs) : cur[rs[k]] + p.diffs[rs[k]] > 0
<1> SUFFICES ASSUME \A k \in 1 .. Len(rs) : ~(cur[rs[k]] + p.diffs[rs[k]] > 0) PROVE FALSE
  OBVIOUS
<1>1. p \in Plans(rs) /\ p.diff \in Int /\ p.diffs \in [Regs(rs) -> Int]
  BY DEF Shrunk, Plans
<1>2. Summable(rs, cur, p.diffs)
  BY <1>1, CountedSummable
<1>3. \A k \in 1 .. Len(rs) : cur[rs[k]] + p.diffs[rs[k]] <= 0
  BY <1>2 DEF Summable
<1>4. planned(rs, cur, p.diffs) <= 0
  BY <1>2, <1>3, PlannedNotPositive
<1>6. planned(rs, cur, p.diffs) \in Int
  BY <1>2, PlannedType
<1>7. planned(rs, cur, p.diffs) + p.diff = expected
  BY DEF Shrunk
<1> QED
  BY <1>1, <1>4, <1>6, <1>7

(* Shrinking ends with as many machines as expected.                         *)
LEMMA ShrinkEnds ==
    ASSUME NEW rs, NEW cur, Counted(rs, cur), NEW expected \in Nat,
           NEW start \in Plans(rs), Shrunk(rs, cur, expected, start, start)
    PROVE  /\ Shrunk(rs, cur, expected, start, shrink(rs, cur, start))
           /\ shrink(rs, cur, start).diff = 0
<1>0. start.diff \in Int /\ -start.diff \in Nat
  BY DEF Shrunk, Plans
<1>1. CASE start.diff = 0
  BY <1>1 DEF shrink
<1>2. CASE start.diff < 0
  <2>1. PICK f : IsShrink(f, rs, cur, start) /\
                 shrink(rs, cur, start) = f[Len(rs) * (-start.diff)]
    BY <1>2, ShrinkDef
  <2> DEFINE n == Len(rs)
             mu == [i \in Nat |-> -f[i].diff]
             T == {i \in Nat : Shrunk(rs, cur, expected, start, f[i])}
  <2>2. n \in Nat \ {0}
    BY DEF Counted
  <2>3. Nat \subseteq T
    <3>1. 0 \in T
      BY <2>1 DEF IsShrink
    <3>2. ASSUME NEW i \in Nat, i \in T PROVE i + 1 \in T
      <4>1. f[i + 1] = shrinkStep(rs, cur, i + 1, f[i])
        BY <2>1 DEF IsShrink
      <4> QED
        BY <3>2, <4>1, ShrinkKeeps
    <3> HIDE DEF T
    <3> QED
      BY <3>1, <3>2, NatSetInduction
  <2>4. ASSUME NEW i \in Nat
        PROVE  Shrunk(rs, cur, expected, start, f[i]) /\ f[i].diff \in Int /\ -f[i].diff \in Nat
    <3>1. Shrunk(rs, cur, expected, start, f[i])
      BY <2>3
    <3> QED
      BY <3>1 DEF Shrunk, Plans
  <2>5. mu \in [Nat -> Nat]
    BY <2>4
  <2>6. ASSUME NEW i \in Nat
        PROVE  LET r == rs[Pos(rs, i + 1)]
               IN IF f[i].diff < 0 /\ cur[r] + f[i].diffs[r] > 0
                  THEN f[i + 1].diff = f[i].diff + 1 ELSE f[i + 1] = f[i]
    <3>1. f[i + 1] = shrinkStep(rs, cur, i + 1, f[i])
      BY <2>1 DEF IsShrink
    <3> DEFINE r == rs[Pos(rs, i + 1)]
    <3>2. shrinkStep(rs, cur, i + 1, f[i]) =
            IF f[i].diff < 0 /\ cur[r] + f[i].diffs[r] > 0
            THEN [diff |-> f[i].diff + 1, diffs |-> [f[i].diffs EXCEPT ![r] = @ - 1]]
            ELSE f[i]
      BY ShrinkStep
    <3> HIDE DEF r
    <3> QED
      BY <3>1, <3>2 DEF r
  <2>7. ASSUME NEW i \in Nat
        PROVE  (f[i + 1] = f[i] /\ mu[i + 1] = mu[i]) \/ mu[i + 1] < mu[i]
    <3>1. mu[i] = -f[i].diff /\ mu[i + 1] = -f[i + 1].diff /\ f[i].diff \in Int
      BY <2>4
    <3> HIDE DEF mu
    <3> QED
      BY <2>6, <3>1
  <2>8. ASSUME NEW a \in Nat, mu[a] > 0
        PROVE  \E j \in a .. a + n - 1 : f[j] = f[a] => mu[j + 1] < mu[j]
    <3>0. f[a].diff < 0
      BY <2>4, <2>8
    <3>1. PICK k \in 1 .. Len(rs) : cur[rs[k]] + f[a].diffs[rs[k]] > 0
      BY <2>4, <3>0, SomeLeft
    <3>2. k - 1 \in 0 .. n - 1
      BY <2>2
    <3>3. PICK l \in a + 1 .. (a + 1) + n - 1 : l % n = k - 1
      <4> HIDE DEF n
      <4> QED
        BY <2>2, <3>2, a + 1 \in Nat, RoundVisits
    <3> DEFINE j == l - 1
    <3>4. j \in a .. a + n - 1 /\ j \in Nat /\ j + 1 = l
      <4> HIDE DEF n
      <4> QED
        BY <2>2, <3>3
    <3>5. Pos(rs, j + 1) = k
      BY <2>2, <3>3, <3>4 DEF Pos
    <3> HIDE DEF j
    <3>6. ASSUME f[j] = f[a] PROVE mu[j + 1] < mu[j]
      <4>1. mu[j] = -f[j].diff /\ mu[j + 1] = -f[j + 1].diff /\ f[j].diff \in Int
        BY <2>4, <3>4
      <4>2. f[j + 1].diff = f[j].diff + 1
        <5>1. f[j].diff < 0 /\ cur[rs[k]] + f[j].diffs[rs[k]] > 0
          BY <3>0, <3>1, <3>6
        <5> QED
          BY <2>6, <3>4, <3>5, <5>1
      <4> HIDE DEF mu
      <4> QED
        BY <4>1, <4>2
    <3> QED
      BY <3>4, <3>6
  <2>9. Descends(n, f, mu)
    <3> HIDE DEF mu, n
    <3> QED
      BY <2>7, <2>8 DEF Descends
  <2>10. mu[n * mu[0]] = 0
    <3> HIDE DEF mu, n
    <3> QED
      BY <2>2, <2>5, <2>9, RoundsEnd
  <2>11. mu[0] = -start.diff /\ n * (-start.diff) \in Nat
    <3>1. f[0] = start
      BY <2>1 DEF IsShrink
    <3>2. n * (-start.diff) \in Nat
      <4> HIDE DEF n
      <4> QED
        BY <1>0, <2>2
    <3> QED
      BY <3>1, <3>2
  <2>12. f[n * (-start.diff)].diff = 0
    <3> DEFINE z == n * (-start.diff)
    <3>1. z \in Nat /\ mu[z] = 0 /\ mu[z] = -f[z].diff
      BY <2>10, <2>11
    <3>2. f[z].diff \in Int
      BY <2>4, <3>1
    <3> HIDE DEF z, mu
    <3>3. f[z].diff = 0
      BY <3>1, <3>2
    <3> QED
      BY <3>3 DEF z
  <2> QED
    BY <2>1, <2>4, <2>11, <2>12
<1> QED
  BY <1>0, <1>1, <1>2

-----------------------------------------------------------------------------
(* What a plan d has to satisfy: the count is met, no region goes below zero *)
(* or over the maximum, and one shrinks only if there are too many machines  *)
(* or it is over the maximum.                                                *)
Exact(rs, cur, max, expected, d) ==
    /\ d \in [Regs(rs) -> Int]
    /\ planned(rs, cur, d) = expected
    /\ \A r \in Regs(rs) :
        /\ cur[r] + d[r] >= 0
        /\ max >= 0 => cur[r] + d[r] <= max
        /\ d[r] < 0 => \/ planned(rs, cur, [s \in Regs(rs) |-> 0]) > expected
                       \/ max >= 0 /\ cur[r] > max

(* A plan that is not refused is exact.                                      *)
LEMMA ConvergeExact ==
    ASSUME NEW rs, NEW cur, Counted(rs, cur), NEW max \in Int, NEW expected \in Nat,
           ~exceedsMax(expected, rs, max)
    PROVE  Exact(rs, cur, max, expected, convergeGroupCounts(expected, cur, rs, max))
<1> DEFINE d0 == capped(rs, cur, max)
           none == [s \in Regs(rs) |-> 0]
           start == [diff |-> expected - planned(rs, cur, d0), diffs |-> d0]
           g == grow(rs, cur, max, start)
           h == shrink(rs, cur, g)
<1>1. convergeGroupCounts(expected, cur, rs, max) = h.diffs
  BY DEF convergeGroupCounts
<1>2. ASSUME NEW r \in Regs(rs)
      PROVE  /\ cur[r] \in Nat
             /\ d0[r] = IF max >= 0 /\ cur[r] > max THEN max - cur[r] ELSE 0
  BY DEF capped, Regs, Counted
<1>3. d0 \in [Regs(rs) -> Int]
  <2>1. DOMAIN d0 = Regs(rs) /\ d0 = [r \in Regs(rs) |-> d0[r]]
    BY DEF capped, Regs
  <2>2. \A r \in Regs(rs) : d0[r] \in Int
    BY <1>2
  <2> HIDE DEF d0
  <2> QED
    BY <2>1, <2>2
<1> HIDE DEF d0
<1>4. ASSUME NEW r \in Regs(rs)
      PROVE  /\ d0[r] \in Int /\ d0[r] <= 0 /\ cur[r] + d0[r] >= 0
             /\ max >= 0 => cur[r] + d0[r] <= max
             /\ d0[r] < 0 => max >= 0 /\ cur[r] > max
  BY <1>2
<1>5. planned(rs, cur, d0) \in Int
  BY <1>3, CountedSummable, PlannedType
<1>6. start \in Plans(rs) /\ start.diffs = d0 /\ start.diff \in Int
      /\ start.diff = expected - planned(rs, cur, d0)
  BY <1>3, <1>5 DEF Plans
<1>7. planned(rs, cur, start.diffs) + start.diff = expected
  BY <1>5, <1>6
<1>8. none \in [Regs(rs) -> Int]
  OBVIOUS
<1> HIDE DEF start
<1>9. CASE start.diff >= 0
  <2>1. Grown(rs, cur, max, expected, start, start)
    BY <1>4, <1>6, <1>7, <1>9 DEF Grown
  <2>2. Grown(rs, cur, max, expected, start, g) /\ g.diff = 0
    BY <1>6, <2>1, GrowEnds
  <2> HIDE DEF g
  <2>3. h = g
    BY <2>2 DEF shrink
  <2>4. g.diffs \in [Regs(rs) -> Int] /\ planned(rs, cur, g.diffs) \in Int
    <3>1. g.diffs \in [Regs(rs) -> Int]
      BY <2>2 DEF Grown, Plans
    <3> QED
      BY <3>1, CountedSummable, PlannedType
  <2>5. planned(rs, cur, g.diffs) = expected
    BY <2>2, <2>4 DEF Grown
  <2>6. ASSUME NEW r \in Regs(rs)
        PROVE  /\ cur[r] + g.diffs[r] >= 0
               /\ max >= 0 => cur[r] + g.diffs[r] <= max
               /\ g.diffs[r] < 0 => max >= 0 /\ cur[r] > max
    <3>1. g.diffs[r] \in Int /\ g.diffs[r] >= d0[r] /\ (max >= 0 => cur[r] + g.diffs[r] <= max)
      BY <1>6, <2>2, <2>4 DEF Grown
    <3> QED
      BY <1>2, <1>4, <3>1
  <2> QED
    BY <1>1, <2>3, <2>4, <2>5, <2>6 DEF Exact
<1>10. CASE start.diff < 0
  <2>1. g = start
    BY <1>6, <1>10 DEF grow
  <2>2. Shrunk(rs, cur, expected, start, start)
    BY <1>4, <1>6, <1>7, <1>10 DEF Shrunk
  <2>3. Shrunk(rs, cur, expected, start, h) /\ h.diff = 0
    BY <1>6, <2>1, <2>2, ShrinkEnds
  <2> HIDE DEF g, h
  <2>4. h.diffs \in [Regs(rs) -> Int] /\ planned(rs, cur, h.diffs) \in Int
    <3>1. h.diffs \in [Regs(rs) -> Int]
      BY <2>3 DEF Shrunk, Plans
    <3> QED
      BY <3>1, CountedSummable, PlannedType
  <2>5. planned(rs, cur, h.diffs) = expected
    BY <2>3, <2>4 DEF Shrunk
  <2>6. planned(rs, cur, none) > expected
    <3>1. Summable(rs, cur, d0) /\ Summable(rs, cur, none)
      BY <1>3, <1>8, CountedSummable
    <3>2. \A i \in 1 .. Len(rs) : cur[rs[i]] + d0[rs[i]] <= cur[rs[i]] + none[rs[i]]
      <4> SUFFICES ASSUME NEW i \in 1 .. Len(rs)
                   PROVE  cur[rs[i]] + d0[rs[i]] <= cur[rs[i]] + none[rs[i]]
        OBVIOUS
      <4>1. rs[i] \in Regs(rs)
        BY DEF Counted, Regs
      <4> QED
        BY <1>2, <1>4, <4>1
    <3> HIDE DEF none
    <3>3. planned(rs, cur, d0) <= planned(rs, cur, none) /\ planned(rs, cur, none) \in Int
      BY <3>1, <3>2, PlannedMono, PlannedType
    <3> QED
      BY <1>5, <1>6, <1>10, <3>3
  <2>7. ASSUME NEW r \in Regs(rs)
        PROVE  /\ cur[r] + h.diffs[r] >= 0
               /\ max >= 0 => cur[r] + h.diffs[r] <= max
    <3>1. h.diffs[r] \in Int /\ h.diffs[r] <= d0[r] /\ cur[r] + h.diffs[r] >= 0
      BY <1>6, <2>3, <2>4 DEF Shrunk
    <3> QED
      BY <1>2, <1>4, <3>1
  <2> QED
    BY <1>1, <2>4, <2>5, <2>6, <2>7 DEF Exact
<1> QED
  BY <1>6, <1>9, <1>10

(* lo.Uniq leaves regions without duplicates, and at least one.              *)
LEMMA UniqDistinct ==
    ASSUME NEW R, NEW regions \in Seq(R), regions # <<>>
    PROVE  /\ Uniq(regions) \in Seq(R) /\ Len(Uniq(regions)) \in Nat \ {0}
           /\ \A a, b \in 1 .. Len(Uniq(regions)) : Uniq(regions)[a] = Uniq(regions)[b] => a = b
<1> DEFINE N == Len(regions)
           S == Seq(R)
           dup(i) == \E j \in 1 .. i - 1 : regions[j] = regions[i]
           add(i, s) == IF dup(i) THEN s ELSE Append(s, regions[i])
           step == [i \in Nat |-> [s \in S |-> IF i \in 1 .. N THEN add(i, s) ELSE s]]
<1>0. N \in Nat \ {0} /\ \A i \in 1 .. N : regions[i] \in R
  <2>1. N \in Nat /\ \A i \in 1 .. N : regions[i] \in R
    BY ElementOfSeq, LenProperties
  <2>2. N # 0
    BY EmptySeq
  <2> QED
    BY <2>1, <2>2
<1>1. ASSUME NEW i \in 1 .. N, NEW s \in S PROVE add(i, s) \in S
  <2>1. Append(s, regions[i]) \in S
    BY <1>0, AppendProperties
  <2> QED
    BY <2>1
<1> HIDE DEF N, S, add
<1>2. PICK f : IsRun(f, S, <<>>, step)
  <2>1. step \in [Nat -> [S -> S]]
    BY <1>1
  <2>2. <<>> \in S
    BY DEF S
  <2> HIDE DEF step
  <2> QED
    BY <2>1, <2>2, Iterates
<1> DEFINE Def(g) == [i \in 0 .. N |-> IF i = 0 THEN <<>>
                                       ELSE IF \E j \in 1 .. i - 1 : regions[j] = regions[i]
                                       THEN g[i - 1]
                                       ELSE Append(g[i - 1], regions[i])]
           Def2(g) == [i \in 0 .. N |-> IF i = 0 THEN <<>> ELSE add(i, g[i - 1])]
           h == [i \in 0 .. N |-> f[i]]
           kept == CHOOSE g : g = Def(g)
<1>3. ASSUME NEW i \in 1 .. N PROVE f[i] = add(i, f[i - 1])
  <2>1. i - 1 \in Nat /\ (i - 1) + 1 = i /\ i \in Nat
    BY <1>0
  <2>2. f[i] = step[i][f[i - 1]] /\ f[i - 1] \in S
    <3> HIDE DEF step
    <3> QED
      BY <1>2, <2>1 DEF IsRun
  <2> QED
    BY <2>1, <2>2
<1>4. \A g : Def(g) = Def2(g)
  BY DEF add
<1>5. h = Def2(h)
  <2> SUFFICES ASSUME NEW i \in 0 .. N PROVE h[i] = Def2(h)[i]
    OBVIOUS
  <2> QED
    BY <1>0, <1>2, <1>3 DEF IsRun
<1>6. kept = Def2(kept)
  <2>1. h = Def(h)
    <3> HIDE DEF h, Def, Def2
    <3> QED
      BY <1>4, <1>5
  <2>2. kept = Def(kept)
    <3> HIDE DEF h, Def, Def2
    <3> QED
      BY <2>1
  <2> HIDE DEF kept, Def, Def2
  <2> QED
    BY <1>4, <2>2
<1>7. Uniq(regions) = kept[N]
  BY DEF Uniq, N
<1> HIDE DEF kept, Def
<1>8. kept[0] = <<>> /\ \A i \in 1 .. N : kept[i] = add(i, kept[i - 1])
  <2>1. \A i : kept[i] = Def2(kept)[i]
    <3> HIDE DEF Def2
    <3> QED
      BY <1>6
  <2>2. kept[0] = Def2(kept)[0]
    BY <2>1
  <2>3. ASSUME NEW i \in 1 .. N PROVE kept[i] = add(i, kept[i - 1])
    <3>1. kept[i] = Def2(kept)[i]
      BY <2>1
    <3> QED
      BY <1>0, <3>1
  <2> QED
    BY <1>0, <2>2, <2>3
<1> DEFINE Good(i, s) ==
             /\ s \in S
             /\ i > 0 => Len(s) > 0
             /\ \A a \in 1 .. Len(s) : \E j \in 1 .. i : s[a] = regions[j]
             /\ \A a, b \in 1 .. Len(s) : s[a] = s[b] => a = b
           T == {i \in Nat : i <= N => Good(i, kept[i])}
<1>9. 0 \in T
  <2>1. <<>> \in S /\ Len(<<>>) = 0 /\ 1 .. 0 = {}
    BY EmptySeq DEF S
  <2>2. Good(0, <<>>)
    BY <2>1
  <2> HIDE DEF Good
  <2> QED
    BY <1>8, <2>2
<1>10. ASSUME NEW i \in Nat, i \in T PROVE i + 1 \in T
  <2> SUFFICES ASSUME i + 1 <= N PROVE Good(i + 1, kept[i + 1])
    OBVIOUS
  <2>1. i + 1 \in 1 .. N /\ (i + 1) - 1 = i /\ i <= N
    BY <1>0
  <2> DEFINE s == kept[i]
             e == regions[i + 1]
             t == Append(s, e)
  <2>2. Good(i, s)
    BY <1>10, <2>1
  <2>3. kept[i + 1] = add(i + 1, s)
    BY <1>8, <2>1
  <2> HIDE DEF s
  <2>4. e \in R
    BY <1>0, <2>1
  <2>5. Len(s) \in Nat
    BY <2>2, LenProperties DEF S
  <2>6. CASE \E j \in 1 .. i : regions[j] = e
    <3>1. kept[i + 1] = s
      BY <2>1, <2>3, <2>6 DEF add
    <3>2. i > 0
      BY <2>6
    <3>3. Good(i + 1, s)
      <4>1. \A a \in 1 .. Len(s) : \E j \in 1 .. i + 1 : s[a] = regions[j]
        BY <2>2
      <4> QED
        BY <2>2, <3>2, <4>1
    <3> HIDE DEF Good
    <3> QED
      BY <3>1, <3>3
  <2>7. CASE ~ \E j \in 1 .. i : regions[j] = e
    <3>1. kept[i + 1] = t
      BY <2>1, <2>3, <2>7 DEF add
    <3>2. /\ t \in S /\ Len(t) = Len(s) + 1
          /\ \A a \in 1 .. Len(s) : t[a] = s[a]
          /\ t[Len(s) + 1] = e
      BY <2>2, <2>4, AppendProperties DEF S
    <3> HIDE DEF t
    <3>3. ASSUME NEW a \in 1 .. Len(t) PROVE \E j \in 1 .. i + 1 : t[a] = regions[j]
      <4>1. CASE a = Len(s) + 1
        BY <3>2, <4>1
      <4>2. CASE a \in 1 .. Len(s)
        <5>1. PICK j \in 1 .. i : s[a] = regions[j]
          BY <2>2, <4>2
        <5> QED
          BY <3>2, <4>2, <5>1
      <4> QED
        BY <2>5, <3>2, <4>1, <4>2
    <3>4. ASSUME NEW a \in 1 .. Len(s) PROVE t[a] # e
      BY <2>2, <2>7, <3>2
    <3>5. ASSUME NEW a \in 1 .. Len(t), NEW b \in 1 .. Len(t), t[a] = t[b] PROVE a = b
      <4>1. CASE a \in 1 .. Len(s) /\ b \in 1 .. Len(s)
        BY <2>2, <3>2, <3>5, <4>1
      <4>2. CASE a = Len(s) + 1 \/ b = Len(s) + 1
        <5>1. (a = Len(s) + 1 \/ a \in 1 .. Len(s)) /\ (b = Len(s) + 1 \/ b \in 1 .. Len(s))
          BY <2>5, <3>2
        <5> QED
          BY <3>2, <3>4, <3>5, <4>2, <5>1
      <4> QED
        BY <2>5, <3>2, <4>1, <4>2
    <3>6. Len(t) > 0
      BY <2>5, <3>2
    <3>7. Good(i + 1, t)
      BY <3>2, <3>3, <3>5, <3>6
    <3> HIDE DEF Good
    <3> QED
      BY <3>1, <3>7
  <2> QED
    BY <2>6, <2>7
<1>11. Good(N, kept[N])
  <2>1. Nat \subseteq T
    <3> HIDE DEF T
    <3> QED
      BY <1>9, <1>10, NatSetInduction
  <2>2. N \in T /\ N <= N
    <3> HIDE DEF T
    <3> QED
      BY <1>0, <2>1
  <2> QED
    BY <2>2
<1> DEFINE u == kept[N]
<1>12. Len(u) \in Nat
  BY <1>11, LenProperties DEF S
<1>13. u \in Seq(R) /\ Len(u) \in Nat \ {0} /\ \A a, b \in 1 .. Len(u) : u[a] = u[b] => a = b
  <2> HIDE DEF u
  <2> QED
    BY <1>0, <1>11, <1>12 DEF u, S
<1> QED
  BY <1>7, <1>13

-----------------------------------------------------------------------------
(* Counting: of the numbers in a finite set, k have fewer than k before them. *)

Before(A, m) == {n \in A : n < m}

(* A set of numbers has a least one.                                         *)
LEMMA Least ==
    ASSUME NEW A, A \subseteq Nat, A # {} PROVE \E m \in A : \A n \in A : m <= n
<1>1. PICK m \in A : \A n \in A : ~(<<n, m>> \in OpToRel(<, Nat))
  BY NatLessThanWellFounded, WFMin
<1>2. ASSUME NEW n \in A PROVE m <= n
  <2>1. m \in Nat /\ n \in Nat
    OBVIOUS
  <2>2. ~(n < m)
    BY <1>1, <2>1 DEF OpToRel
  <2> QED
    BY <2>1, <2>2
<1> QED
  BY <1>2

(* As long as there are k, k numbers of A have fewer than k before them.     *)
LEMMA FirstOnes ==
    ASSUME NEW A, A \subseteq Nat, IsFiniteSet(A), NEW k \in Nat, k <= Cardinality(A)
    PROVE  Cardinality({m \in A : Cardinality(Before(A, m)) < k}) = k
<1> DEFINE F(j) == {m \in A : Cardinality(Before(A, m)) < j}
           T == {j \in Nat : j <= Cardinality(A) => Cardinality(F(j)) = j}
<1>1. ASSUME NEW m PROVE IsFiniteSet(Before(A, m)) /\ Cardinality(Before(A, m)) \in Nat
  <2>1. Before(A, m) \in SUBSET A
    BY DEF Before
  <2> QED
    BY <2>1, FS_Subset, FS_CardinalityType
<1>2. \A j : IsFiniteSet(F(j)) /\ F(j) \subseteq A
  <2> SUFFICES ASSUME NEW j PROVE IsFiniteSet(F(j)) /\ F(j) \subseteq A
    OBVIOUS
  <2>1. F(j) \in SUBSET A
    OBVIOUS
  <2> QED
    BY <2>1, FS_Subset
<1>3. Cardinality(A) \in Nat
  BY FS_CardinalityType
<1>4. 0 \in T
  <2>1. F(0) = {}
    BY <1>1
  <2> QED
    BY <2>1, FS_EmptySet
<1>5. ASSUME NEW j \in Nat, j \in T PROVE j + 1 \in T
  <2> SUFFICES ASSUME j + 1 <= Cardinality(A) PROVE Cardinality(F(j + 1)) = j + 1
    OBVIOUS
  <2>1. Cardinality(F(j)) = j
    BY <1>3, <1>5
  <2>2. A \ F(j) # {}
    <3>1. F(j) # A
      <4> HIDE DEF F
      <4> QED
        BY <1>3, <2>1
    <3> QED
      BY <1>2, <3>1
  <2>3. PICK m \in A \ F(j) : \A n \in A \ F(j) : m <= n
    BY <2>2, Least
  <2>4. ASSUME NEW a \in A, NEW b \in A, a <= b
        PROVE  Cardinality(Before(A, a)) <= Cardinality(Before(A, b))
    <3>1. Before(A, a) \in SUBSET Before(A, b)
      <4> SUFFICES ASSUME NEW n \in A, n < a PROVE n < b
        BY DEF Before
      <4>1. n \in Nat /\ a \in Nat /\ b \in Nat
        OBVIOUS
      <4> HIDE DEF F, T
      <4> QED
        BY <2>4, <4>1
    <3> QED
      BY <1>1, <3>1, FS_Subset
  <2>5. Before(A, m) = F(j)
    <3>1. ASSUME NEW n \in A, n < m PROVE n \in F(j)
      BY <2>3, <3>1
    <3>2. ASSUME NEW n \in F(j) PROVE n < m
      <4>1. n \in A /\ n \in Nat /\ m \in Nat
        OBVIOUS
      <4>2. CASE m <= n
        <5>1. Cardinality(Before(A, m)) <= Cardinality(Before(A, n))
          BY <2>4, <4>1, <4>2
        <5>2. Cardinality(Before(A, n)) < j /\ ~(Cardinality(Before(A, m)) < j)
          BY <2>3, <4>1
        <5> QED
          BY <1>1, <5>1, <5>2
      <4> QED
        BY <4>1, <4>2
    <3> QED
      BY <3>1, <3>2 DEF Before
  <2>6. Cardinality(Before(A, m)) = j
    BY <2>1, <2>5
  <2>7. ASSUME NEW n \in A PROVE n \in F(j + 1) <=> n \in F(j) \cup {m}
    <3>1. Cardinality(Before(A, n)) \in Nat /\ n \in Nat /\ m \in Nat
      BY <1>1
    <3>2. CASE n \in F(j)
      BY <3>1, <3>2
    <3>3. CASE n = m
      BY <2>6, <3>3
    <3>4. CASE n \notin F(j) /\ n # m
      <4>1. m < n
        BY <2>3, <3>1, <3>4
      <4>2. Before(A, m) \cup {m} \in SUBSET Before(A, n)
        <5>1. ASSUME NEW l \in A, l < m PROVE l < n
          <6>1. l \in Nat
            OBVIOUS
          <6> HIDE DEF F, T
          <6> QED
            BY <3>1, <4>1, <5>1, <6>1
        <5> QED
          BY <4>1, <5>1 DEF Before
      <4>3. m \notin Before(A, m)
        BY <3>1 DEF Before
      <4>4. Cardinality(Before(A, m) \cup {m}) = j + 1
        BY <1>1, <2>6, <4>3, FS_AddElement
      <4>5. Cardinality(Before(A, m) \cup {m}) <= Cardinality(Before(A, n))
        BY <1>1, <4>2, FS_Subset
      <4> QED
        BY <3>1, <3>4, <4>4, <4>5
    <3> QED
      BY <3>2, <3>3, <3>4
  <2>8. F(j + 1) = F(j) \cup {m}
    BY <2>3, <2>7
  <2>9. m \notin F(j)
    BY <2>3
  <2> HIDE DEF F
  <2> QED
    BY <1>2, <2>1, <2>8, <2>9, FS_AddElement
<1>6. Nat \subseteq T
  <2> HIDE DEF T
  <2> QED
    BY <1>4, <1>5, NatSetInduction
<1>7. k \in T
  <2> HIDE DEF T
  <2> QED
    BY <1>6
<1> QED
  BY <1>7

(* The machines of a region can be counted.                                  *)
LEMMA CurrentFinite ==
    ASSUME NEW ms, ms \subseteq Machines, NEW r \in Regions
    PROVE  /\ IsFiniteSet({m \in ms : Region[m] = r})
           /\ current(ms)[r] = Cardinality({m \in ms : Region[m] = r})
           /\ current(ms)[r] \in Nat
<1>1. {m \in ms : Region[m] = r} \in SUBSET Machines /\ IsFiniteSet(Machines)
  BY CommandsAssumption
<1>2. IsFiniteSet({m \in ms : Region[m] = r})
  BY <1>1, FS_Subset
<1> QED
  BY <1>2, FS_CardinalityType DEF current

(* The machines that stay and the ones launched are what the plan says.      *)
LEMMA ActionsMeetPlan ==
    ASSUME NEW ms, ms \subseteq Machines, NEW r \in Regions,
           NEW d, r \in DOMAIN d, d[r] \in Int, current(ms)[r] + d[r] >= 0
    PROVE  current(ms \ toDestroy(ms, d))[r] + toLaunch(d)[r] = current(ms)[r] + d[r]
<1> SUFFICES ASSUME NEW rest, rest = ms \ toDestroy(ms, d)
             PROVE  current(rest)[r] + toLaunch(d)[r] = current(ms)[r] + d[r]
  OBVIOUS
<1> DEFINE A == {m \in ms : Region[m] = r}
           D == {m \in A : Cardinality(Before(A, m)) < -d[r]}
<1>1. IsFiniteSet(A) /\ A \subseteq Nat /\ Cardinality(A) \in Nat /\ current(ms)[r] = Cardinality(A)
  <2>1. /\ IsFiniteSet(A) /\ current(ms)[r] = Cardinality(A) /\ current(ms)[r] \in Nat
    BY CurrentFinite
  <2>2. A \subseteq Nat
    BY CommandsAssumption
  <2> QED
    BY <2>1, <2>2
<1>2. ASSUME NEW m \in A
      PROVE  Before(A, m) = {n \in ms : n < m /\ Region[n] = Region[m]}
  BY DEF Before
<1>3. ASSUME NEW m \in A PROVE m \in toDestroy(ms, d) <=> m \in D
  BY <1>2 DEF toDestroy
<1>4. {m \in rest : Region[m] = r} = A \ D
  BY <1>3
<1>5. current(rest)[r] = Cardinality(A \ D)
  <2>1. rest \subseteq Machines
    OBVIOUS
  <2> QED
    <3>1. current(rest)[r] = Cardinality({m \in rest : Region[m] = r})
      BY <2>1, CurrentFinite
    <3> QED
      BY <1>4, <3>1
<1>6. A \cap D = D /\ D \subseteq A
  OBVIOUS
<1>7. Cardinality(A \ D) = Cardinality(A) - Cardinality(D)
  <2> HIDE DEF A, D
  <2> QED
    <3>1. Cardinality(A \ D) = Cardinality(A) - Cardinality(A \cap D)
      BY <1>1, FS_Difference
    <3> QED
      BY <1>6, <3>1, Zenon
<1>8. toLaunch(d)[r] = IF d[r] > 0 THEN d[r] ELSE 0
  BY DEF toLaunch
<1>9. CASE d[r] <= 0
  <2>1. -d[r] \in Nat /\ -d[r] <= Cardinality(A)
    BY <1>1, <1>9
  <2>2. Cardinality(D) = -d[r]
    <3> HIDE DEF A
    <3> QED
      BY <1>1, <2>1, FirstOnes
  <2> HIDE DEF A, D
  <2> QED
    BY <1>1, <1>5, <1>7, <1>8, <1>9, <2>2
<1>10. CASE d[r] > 0
  <2>1. D = {}
    <3> SUFFICES ASSUME NEW m \in A, Cardinality(Before(A, m)) < -d[r] PROVE FALSE
      OBVIOUS
    <3>1. Before(A, m) \in SUBSET A
      BY DEF Before
    <3>2. Cardinality(Before(A, m)) \in Nat
      <4> HIDE DEF A
      <4> QED
        BY <1>1, <3>1, FS_Subset, FS_CardinalityType
    <3> HIDE DEF A, D
    <3> QED
      BY <1>10, <3>2
  <2>2. Cardinality(D) = 0
    BY <2>1, FS_EmptySet
  <2> HIDE DEF A, D
  <2> QED
    BY <1>1, <1>5, <1>7, <1>8, <1>10, <2>2
<1> QED
  BY <1>9, <1>10

-----------------------------------------------------------------------------
(* The plan of a command, from the machines it has listed.                   *)
planOf(c) == diffs(c, DOMAIN acq[c])
doomed(c) == toDestroy(DOMAIN acq[c], planOf(c))
missing(c) == toLaunch(planOf(c))
refused(c) == exceedsMax(job[c].count, regionsOf(c), job[c].max)

(* No other command scales the app.                                          *)
Alone(c) == \A b \in Commands \ {c} : kind(b) # "scale"

HoldsAll(c) == c \notin lapsed /\ \A m \in DOMAIN acq[c] : acq[c][m] = "ok"

ScaleTypes ==
    /\ DOMAIN result = Commands
    /\ plan \in [Commands -> [Regions -> Int]]
    /\ extra \in [Regions -> Int]

(* A scale that waits for its leases has its plan before it; those it has    *)
(* are on machines that exist.                                               *)
Acquiring(c) ==
    /\ left[c] = doomed(c) /\ plan[c] = missing(c)
    /\ c \notin lapsed => \A m \in DOMAIN acq[c] : acq[c][m] \in {"ok", "get"} =>
            state[m] # "destroyed" /\ lease[m] = c

(* As long as nothing has failed, what is done and what is left of the plan  *)
(* make up the plan; no other command destroys the machines.                 *)
Converging(c) ==
    /\ Alone(c) => \A r \in Regions : extra[r] + plan[c][r] = missing(c)[r]
    /\ HoldsAll(c) => \A m \in DOMAIN acq[c] :
        /\ state[m] = "destroyed" <=> m \in doomed(c) /\ m \notin left[c]
        /\ state[m] # "destroyed" => lease[m] = c

ScaleInv(c) ==
    /\ pc[c] \in {"select", "acquire", "request", "release", "done"}
    /\ pc[c] \in {"select", "acquire"} =>
        result[c] = "none" /\ (Alone(c) => \A r \in Regions : extra[r] = 0)
    /\ pc[c] \in {"acquire", "request", "release"} =>
        /\ ~refused(c)
        /\ DOMAIN acq[c] \subseteq job[c].targets
        /\ \A m \in job[c].targets \ DOMAIN acq[c] : state[m] = "destroyed"
        /\ left[c] \subseteq doomed(c)
    /\ pc[c] = "acquire" => Acquiring(c)
    /\ pc[c] \in {"request", "release"} /\ result[c] # "err" => Converging(c)
    /\ pc[c] = "release" /\ result[c] = "ok" =>
        left[c] = {} /\ \A r \in Regions : plan[c][r] = 0

Scaling == ScaleTypes /\ \A c \in Commands : kind(c) = "scale" => ScaleInv(c)

(* A scale that has not begun has nothing to account for.                    *)
LEMMA ScalingInit == Init => Scaling
<1> SUFFICES ASSUME Init PROVE Scaling
  OBVIOUS
<1>1. ScaleTypes
  BY DEF Init, ScaleTypes
<1> SUFFICES ASSUME NEW c \in Commands, kind(c) = "scale" PROVE ScaleInv(c)
  BY <1>1 DEF Scaling
<1>2. pc[c] = "select" /\ result[c] = "none"
  BY DEF Init
<1> QED
  BY <1>2 DEF Init, ScaleInv

(* The plan does not change while the listed machines are the same.          *)
LEMMA SamePlan ==
    ASSUME NEW c \in Commands, job' = job, DOMAIN acq'[c] = DOMAIN acq[c]
    PROVE  /\ doomed(c)' = doomed(c) /\ missing(c)' = missing(c) /\ refused(c)' = refused(c)
           /\ Alone(c)' = Alone(c)
<1>1. planOf(c)' = planOf(c)
  BY DEF planOf, diffs, regionsOf
<1>2. doomed(c)' = doomed(c) /\ missing(c)' = missing(c)
  BY <1>1 DEF doomed, missing
<1>3. refused(c)' = refused(c)
  BY DEF refused, regionsOf
<1>4. Alone(c)' = Alone(c)
  BY DEF Alone, kind
<1> QED
  BY <1>2, <1>3, <1>4

(* What the steps of the others, and the passing of time, may do to a scale. *)
Private(c) ==
    /\ pc'[c] = pc[c] /\ result'[c] = result[c] /\ acq'[c] = acq[c]
    /\ left'[c] = left[c] /\ plan'[c] = plan[c]

Aside(c) ==
    /\ job' = job /\ Private(c) /\ lapsed \subseteq lapsed'
    /\ Alone(c) => extra' = extra
    /\ \A m \in Machines :
        /\ state[m] = "destroyed" => state'[m] = "destroyed"
        /\ state[m] # "destroyed" /\ state'[m] = "destroyed" => lease[m] # c
        /\ lease[m] = c => \/ lease'[m] = c \/ c \in lapsed' \/ pc[c] = "done"
                           \/ state'[m] = "destroyed"

(* Such steps keep what the scale knows.                                     *)
LEMMA AsideKeeps ==
    ASSUME CInv, NEW c \in Commands, kind(c) = "scale", ScaleInv(c), Aside(c)
    PROVE  ScaleInv(c)'
<1>0. /\ pc'[c] = pc[c] /\ result'[c] = result[c] /\ acq'[c] = acq[c]
      /\ left'[c] = left[c] /\ plan'[c] = plan[c] /\ job' = job /\ lapsed \subseteq lapsed'
  BY DEF Aside, Private
<1>1. /\ doomed(c)' = doomed(c) /\ missing(c)' = missing(c) /\ refused(c)' = refused(c)
      /\ Alone(c)' = Alone(c)
  BY <1>0, SamePlan
<1>2. DOMAIN acq[c] \subseteq Machines /\ job[c].targets \subseteq Machines
  BY CommandsAssumption DEF CInv, CommandTypes, Job
<1>3. ASSUME Acquiring(c), pc[c] = "acquire" PROVE Acquiring(c)'
  <2>1. ASSUME c \notin lapsed', NEW m \in DOMAIN acq[c], acq[c][m] \in {"ok", "get"}
        PROVE  state'[m] # "destroyed" /\ lease'[m] = c
    BY <2>1, <1>0, <1>2, <1>3 DEF Acquiring, Aside
  <2> QED
    BY <2>1, <1>0, <1>1, <1>3 DEF Acquiring
<1>4. ASSUME Converging(c), pc[c] \in {"request", "release"} PROVE Converging(c)'
  <2>1. Alone(c)' => \A r \in Regions : extra'[r] + plan'[c][r] = missing(c)'[r]
    BY <1>0, <1>1, <1>4 DEF Converging, Aside
  <2>2. ASSUME HoldsAll(c)', NEW m \in DOMAIN acq[c]
        PROVE  /\ state'[m] = "destroyed" <=> m \in doomed(c) /\ m \notin left[c]
               /\ state'[m] # "destroyed" => lease'[m] = c
    <3>1. HoldsAll(c) /\ c \notin lapsed'
      BY <2>2, <1>0 DEF HoldsAll
    <3>2. /\ state[m] = "destroyed" <=> m \in doomed(c) /\ m \notin left[c]
          /\ state[m] # "destroyed" => lease[m] = c
      BY <3>1, <1>4 DEF Converging
    <3> QED
      BY <3>1, <3>2, <1>2, <1>4 DEF Aside
  <2> QED
    BY <2>1, <2>2, <1>0, <1>1 DEF Converging
<1>5. \A m \in job[c].targets \ DOMAIN acq[c] : state[m] = "destroyed" => state'[m] = "destroyed"
  BY <1>2 DEF Aside
<1>6. Alone(c) => extra' = extra
  BY DEF Aside
<1> HIDE DEF Aside
<1> QED
  BY <1>0, <1>1, <1>3, <1>4, <1>5, <1>6 DEF ScaleInv

(* A command changes no other command's place, leases and plan.              *)
LEMMA OnlyOwn ==
    ASSUME CInv, ScaleTypes, NEW d \in Commands, NEW c \in Commands \ {d},
           CommandStep(d) \/ Cancel(d)
    PROVE  Private(c) /\ job' = job
<1> USE DEF CInv, CommandTypes, ScaleTypes, Private
<1>g. ASSUME NEW p, goto(d, p) PROVE pc'[c] = pc[c]
  BY <1>g DEF goto
<1>e. ASSUME NEW r, end(d, r) PROVE pc'[c] = pc[c] /\ result'[c] = result[c]
  BY <1>e, <1>g DEF end
<1>w. ASSUME finish(d) \/ fails(d) \/ waits(d) \/ (end(d, "panic") /\ UNCHANGED left)
      PROVE  pc'[c] = pc[c] /\ result'[c] = result[c] /\ left'[c] = left[c]
  BY <1>w, <1>g, <1>e DEF finish, fails, waits
<1>1. CASE Select(d)
  <2>1. ASSUME NEW r, ended(d, r) PROVE Private(c)
    BY <2>1, <1>g DEF ended
  <2>2. ASSUME NEW ms, NEW p, NEW work, prepare(d, ms, p, work)
        PROVE  /\ pc'[c] = pc[c] /\ result'[c] = result[c] /\ acq'[c] = acq[c]
               /\ left'[c] = left[c]
    BY <2>2, <1>g DEF prepare
  <2>3. ASSUME NEW ms, selectForScale(d, ms) PROVE Private(c)
    BY <2>1, <2>2, <2>3 DEF selectForScale
  <2> QED
    BY <1>1, <2>1, <2>2, <2>3 DEF Select
<1>2. CASE \E m \in DOMAIN acq[d] : AcquireLease(d, m) \/ GetAgain(d, m) \/ ReleaseLease(d, m)
  BY <1>2 DEF AcquireLease, GetAgain, ReleaseLease, setAcq
<1>3. CASE \/ Start(d) \/ Stop(d) \/ Suspend(d) \/ Cordon(d) \/ Uncordon(d)
           \/ KillMachine(d) \/ Restart(d) \/ Update(d) \/ Destroy(d)
  <2>1. finish(d) \/ fails(d) \/ waits(d)
    BY <1>3 DEF Start, Stop, Suspend, Cordon, Uncordon, KillMachine, Restart, Update, Destroy,
                signal
  <2> QED
    BY <1>3, <1>w, <2>1 DEF Start, Stop, Suspend, Cordon, Uncordon, KillMachine, Restart,
                            Update, Destroy, signal
<1>4. CASE Skip(d) \/ HealthChecks(d) \/ ClearLease(d)
  BY <1>4, <1>w DEF Skip, HealthChecks, ClearLease
<1>5. CASE Wait(d)
  <2>1. CASE goto(d, "checks") /\ UNCHANGED <<left, result>>
    BY <1>5, <1>g, <2>1 DEF Wait
  <2>2. CASE finish(d) \/ fails(d) \/ (end(d, "panic") /\ UNCHANGED left)
    BY <1>5, <1>w, <2>2 DEF Wait
  <2> QED
    BY <1>5, <2>1, <2>2 DEF Wait
<1>6. CASE Decline(d)
  BY <1>6, <1>e DEF Decline
<1>7. CASE AcquireReturns(d) \/ ScaleReturns(d) \/ Return(d) \/ Cancel(d)
  BY <1>7, <1>e, <1>g DEF AcquireReturns, ScaleReturns, Return, Cancel
<1>8. CASE \/ \E r \in Regions : LaunchMachine(d, r)
           \/ \E m \in Machines : DestroyMachine(d, m)
  BY <1>8 DEF LaunchMachine, DestroyMachine, taskFails
<1> QED
  BY <1>1, <1>2, <1>3, <1>4, <1>5, <1>6, <1>7, <1>8 DEF CommandStep

(* Only a destroy that the API admits destroys a machine.                    *)
LEMMA OthersAside ==
    ASSUME CInv, ScaleTypes, NEW c \in Commands, NEW d \in Commands \ {c},
           CommandStep(d) \/ Cancel(d)
    PROVE  Aside(c)
<1>0. Private(c) /\ job' = job
  BY OnlyOwn
<1>f. c # Free
  BY CommandsAssumption DEF Free
<1>q. ASSUME Quiet, Alone(c) => extra' = extra,
             \A m \in Machines :
                 state[m] # "destroyed" /\ state'[m] = "destroyed" => lease[m] # c
      PROVE  Aside(c)
  BY <1>0, <1>q DEF Quiet, Aside
<1>1. CASE Select(d)
  BY <1>0, <1>1 DEF Select, Aside, servers, ghosts
<1>2. CASE \E m \in DOMAIN acq[d] : AcquireLease(d, m) \/ GetAgain(d, m) \/ ReleaseLease(d, m)
  <2>1. UNCHANGED <<state, lapsed, extra>>
    BY <1>2 DEF AcquireLease, GetAgain, ReleaseLease, servers, ghosts
  <2>2. ASSUME NEW m \in Machines, lease[m] = c PROVE lease'[m] = c
    BY <1>2, <1>f, <2>2 DEF AcquireLease, GetAgain, ReleaseLease, CInv, ServerTypes, Free
  <2> QED
    BY <1>0, <2>1, <2>2 DEF Aside
<1>3. CASE Update(d)
  <2>1. target(d) \in Machines
    BY <1>3, TargetIn DEF Update, at, CInv
  <2>2. UNCHANGED <<lease, lapsed, extra>>
    BY <1>3 DEF Update
  <2>3. ASSUME NEW m \in Machines
        PROVE  state'[m] = "destroyed" <=> state[m] = "destroyed"
    BY <1>3, <2>1 DEF Update, admitted, CInv, ServerTypes
  <2> QED
    BY <1>0, <2>2, <2>3 DEF Aside
<1>4. CASE \/ Start(d) \/ Stop(d) \/ Suspend(d) \/ Cordon(d) \/ Uncordon(d) \/ KillMachine(d)
           \/ Restart(d)
  <2>1. Quiet /\ UNCHANGED extra
    BY <1>4, RequestQuiet DEF Start, Stop, Suspend, Cordon, Uncordon, KillMachine, Restart, signal
  <2>2. target(d) \in Machines
    BY <1>4, TargetIn DEF Start, Stop, Suspend, Cordon, Uncordon, KillMachine, Restart, signal,
                          at, CInv
  <2>3. \/ UNCHANGED state
        \/ \E s \in {"started", "stopped", "suspended", "failed", state[target(d)]} :
              state' = [state EXCEPT ![target(d)] = s]
    BY <1>4 DEF Start, Stop, Suspend, Cordon, Uncordon, KillMachine, Restart, signal
  <2>4. \A m \in Machines : state'[m] = "destroyed" => state[m] = "destroyed"
    BY <2>2, <2>3 DEF CInv, ServerTypes
  <2> QED
    BY <1>q, <2>1, <2>4
<1>5. CASE \/ Skip(d) \/ Wait(d) \/ HealthChecks(d) \/ Decline(d) \/ AcquireReturns(d)
           \/ ScaleReturns(d) \/ Return(d) \/ Cancel(d) \/ ClearLease(d)
  <2>1. Quiet
    BY <1>5, RequestQuiet, ControlQuiet, LapseQuiet
  <2>2. UNCHANGED <<state, extra>>
    BY <1>5 DEF Skip, Wait, HealthChecks, Decline, AcquireReturns, ScaleReturns, Return, Cancel,
                ClearLease, servers
  <2> QED
    BY <1>q, <2>1, <2>2
<1>6. CASE \E r \in Regions : LaunchMachine(d, r)
  <2>1. Quiet
    BY <1>6, ControlQuiet
  <2>2. UNCHANGED state /\ ~Alone(c)
    BY <1>6 DEF LaunchMachine, scaling, Alone, servers
  <2> QED
    BY <1>q, <2>1, <2>2
<1>7. CASE Destroy(d) \/ \E m \in Machines : DestroyMachine(d, m)
  <2>1. Quiet /\ UNCHANGED extra
    BY <1>7, DestroyQuiet DEF Destroy, DestroyMachine
  <2>2. \/ UNCHANGED state
        \/ \E n \in Machines : /\ lease[n] \in {Free, d}
                               /\ state' = [state EXCEPT ![n] = "destroyed"]
    BY <1>7, TargetIn DEF Destroy, DestroyMachine, admitted, destroy, at, CInv
  <2>3. \A m \in Machines : state[m] # "destroyed" /\ state'[m] = "destroyed" => lease[m] # c
    BY <1>f, <2>2 DEF CInv, ServerTypes
  <2> QED
    BY <1>q, <2>1, <2>3
<1> QED
  BY <1>1, <1>2, <1>3, <1>4, <1>5, <1>6, <1>7 DEF CommandStep

(* Time passes; a scale that is canceled goes on with its step.              *)
LEMMA TimeAside ==
    ASSUME CInv, NEW c \in Commands,
           Cancel(c) \/ \E m \in Machines : Expire(m) \/ HostRecovers(m)
    PROVE  Aside(c)
<1>1. Quiet
  BY ControlQuiet, LapseQuiet
<1>2. UNCHANGED <<job, pc, result, acq, left, plan, extra, state>>
  BY DEF Cancel, Expire, HostRecovers, servers
<1> QED
  BY <1>1, <1>2 DEF Quiet, Aside, Private

(* A scale's regions are distinct, and its machines in them counted.         *)
LEMMA CurrentCounted ==
    ASSUME CInv, NEW c \in Commands, kind(c) = "scale", NEW ms, ms \subseteq Machines
    PROVE  Counted(regionsOf(c), current(ms)) /\ Regs(regionsOf(c)) \subseteq Regions
<1> DEFINE rs == regionsOf(c)
<1>1. job[c] \in Job /\ job[c].regions \in Seq(Regions) /\ job[c].regions # <<>>
  BY CommandsAssumption DEF CInv, CommandTypes, Job, kind
<1>2. /\ rs \in Seq(Regions) /\ Len(rs) \in Nat \ {0}
      /\ \A a, b \in 1 .. Len(rs) : rs[a] = rs[b] => a = b
  BY <1>1, UniqDistinct DEF regionsOf
<1> HIDE DEF rs
<1>3. DOMAIN rs = 1 .. Len(rs) /\ \A i \in 1 .. Len(rs) : rs[i] \in Regions
  BY <1>2, LenProperties, ElementOfSeq
<1>4. \A i \in 1 .. Len(rs) : current(ms)[rs[i]] \in Nat
  BY <1>3, CurrentFinite
<1>5. Counted(rs, current(ms)) /\ Regs(rs) \subseteq Regions
  BY <1>2, <1>3, <1>4 DEF Counted, Regs
<1> QED
  BY <1>5 DEF rs

(* The plan made for the machines that are listed is exact.                  *)
LEMMA DiffsExact ==
    ASSUME CInv, NEW c \in Commands, kind(c) = "scale", NEW ms, ms \subseteq Machines, ~refused(c)
    PROVE  Exact(regionsOf(c), current(ms), job[c].max, job[c].count, diffs(c, ms))
<1>1. job[c].count \in Nat /\ job[c].max \in Int
  BY CommandsAssumption DEF CInv, CommandTypes, Job
<1>2. Counted(regionsOf(c), current(ms))
  BY CurrentCounted
<1> QED
  BY <1>1, <1>2, ConvergeExact DEF refused, diffs

(* A command lists machines of the app.                                      *)
LEMMA FoundIn ==
    ASSUME CInv, NEW c \in Commands
    PROVE  found(c) \subseteq job[c].targets /\ job[c].targets \subseteq Machines
BY CommandsAssumption DEF found, CInv, CommandTypes, Job

(* What is to be launched is a number for each region.                       *)
LEMMA LaunchesType ==
    ASSUME CInv, NEW c \in Commands, kind(c) = "scale", NEW ms, ms \subseteq Machines, ~refused(c)
    PROVE  toLaunch(diffs(c, ms)) \in [Regions -> Int]
<1>1. diffs(c, ms) \in [Regs(regionsOf(c)) -> Int]
  BY DiffsExact DEF Exact
<1> HIDE DEF diffs
<1> QED
  BY <1>1 DEF toLaunch

(* Every step keeps the shape of plans, launches and results.                *)
LEMMA TypesStep ==
    ASSUME CInv, ScaleTypes, [Next]_vars PROVE ScaleTypes'
<1> USE DEF ScaleTypes
<1>1. ASSUME NEW c \in Commands, Select(c) PROVE ScaleTypes'
  <2>0. UNCHANGED extra
    BY <1>1 DEF Select
  <2>1. DOMAIN result' = Commands
    BY <1>1 DEF Select, ended, prepare, selectForScale
  <2>2. CASE UNCHANGED plan
    BY <2>0, <2>1, <2>2
  <2>3. CASE /\ kind(c) = "scale" /\ ~refused(c)
             /\ plan' = [plan EXCEPT ![c] = toLaunch(diffs(c, found(c)))]
    <3>1. toLaunch(diffs(c, found(c))) \in [Regions -> Int]
      BY <2>3, FoundIn, LaunchesType
    <3> QED
      BY <2>0, <2>1, <2>3, <3>1
  <2> QED
    BY <1>1, <2>2, <2>3 DEF Select, ended, selectForScale, refused
<1>2. ASSUME NEW c \in Commands, NEW r \in Regions, LaunchMachine(c, r) PROVE ScaleTypes'
  <2>1. plan[c][r] \in Int /\ extra[r] \in Int
    OBVIOUS
  <2>2. plan' \in [Commands -> [Regions -> Int]]
    BY <1>2, <2>1 DEF LaunchMachine
  <2>3. extra' \in [Regions -> Int] /\ DOMAIN result' = Commands
    BY <1>2, <2>1 DEF LaunchMachine, taskFails
  <2> QED
    BY <2>2, <2>3
<1>3. ASSUME NEW c \in Commands,
             \/ AcquireReturns(c) \/ Decline(c) \/ Skip(c) \/ Start(c) \/ Stop(c) \/ Suspend(c)
             \/ Cordon(c) \/ Uncordon(c) \/ KillMachine(c) \/ Restart(c) \/ Update(c) \/ Wait(c)
             \/ HealthChecks(c) \/ Destroy(c) \/ ClearLease(c) \/ ScaleReturns(c) \/ Return(c)
             \/ Cancel(c) \/ (\E m \in Machines : DestroyMachine(c, m))
             \/ \E m \in DOMAIN acq[c] : AcquireLease(c, m) \/ GetAgain(c, m) \/ ReleaseLease(c, m)
      PROVE  ScaleTypes'
  <2>1. UNCHANGED <<plan, extra>>
    BY <1>3 DEF AcquireReturns, Decline, Skip, Start, Stop, Suspend, Cordon, Uncordon,
       KillMachine, Restart, Update, Wait, HealthChecks, Destroy, ClearLease, ScaleReturns,
       Return, Cancel, DestroyMachine, AcquireLease, GetAgain, ReleaseLease, signal
  <2>2. result' = result \/ \E r : result' = [result EXCEPT ![c] = r]
    <3>1. ASSUME finish(c) \/ fails(c) \/ waits(c)
          PROVE  result' = result \/ \E r : result' = [result EXCEPT ![c] = r]
      BY <3>1 DEF finish, fails, waits, end
    <3> QED
      BY <1>3, <3>1 DEF AcquireReturns, Decline, Skip, Start, Stop, Suspend, Cordon, Uncordon,
       KillMachine, Restart, Update, Wait, HealthChecks, Destroy, ClearLease, ScaleReturns,
       Return, Cancel, DestroyMachine, AcquireLease, GetAgain, ReleaseLease, signal, end, taskFails
  <2> QED
    BY <2>1, <2>2
<1>4. ASSUME NEW m \in Machines, Expire(m) \/ HostRecovers(m) PROVE ScaleTypes'
  BY <1>4 DEF Expire, HostRecovers
<1>5. CASE UNCHANGED vars
  BY <1>5 DEF vars
<1> QED
  BY <1>1, <1>2, <1>3, <1>4, <1>5 DEF Next, CommandStep

(* The plan is made for the machines that are listed.                        *)
LEMMA SelectScales ==
    ASSUME CInv, ScaleTypes, NEW c \in Commands, kind(c) = "scale", ScaleInv(c), Select(c)
    PROVE  ScaleInv(c)'
<1>0. /\ pc[c] = "select" /\ job' = job /\ state' = state /\ extra' = extra /\ lapsed' = lapsed
      /\ result[c] = "none" /\ (Alone(c) => \A r \in Regions : extra[r] = 0)
  BY DEF Select, ScaleInv, servers, ghosts
<1>1. CASE \E r : ended(c, r)
  <2>1. pc'[c] = "done"
    BY <1>1 DEF ended, goto, CInv, CommandTypes
  <2> QED
    BY <2>1 DEF ScaleInv
<1> DEFINE ms == found(c)
           d == diffs(c, ms)
<1>2. CASE /\ ~refused(c) /\ prepare(c, ms, "acquire", toDestroy(ms, d))
           /\ plan' = [plan EXCEPT ![c] = toLaunch(d)]
  <2>1. /\ pc'[c] = "acquire" /\ left'[c] = toDestroy(ms, d) /\ plan'[c] = toLaunch(d)
        /\ DOMAIN acq'[c] = ms /\ (\A m \in ms : acq'[c][m] = "todo") /\ result'[c] = "none"
    <3> HIDE DEF ms, d
    <3> QED
      BY <1>0, <1>2 DEF prepare, goto, CInv, CommandTypes, ScaleTypes
  <2>2. planOf(c)' = d
    <3>1. planOf(c)' = diffs(c, DOMAIN acq'[c])
      BY <1>0 DEF planOf, diffs, regionsOf
    <3> QED
      BY <2>1, <3>1
  <2>3. doomed(c)' = toDestroy(ms, d) /\ missing(c)' = toLaunch(d)
    <3> HIDE DEF ms, d
    <3> QED
      BY <2>1, <2>2 DEF doomed, missing
  <2>4. refused(c)' = refused(c) /\ Alone(c)' = Alone(c)
    BY <1>0 DEF refused, regionsOf, Alone, kind
  <2>5. ms \subseteq job[c].targets /\ \A m \in job[c].targets \ ms : state[m] = "destroyed"
    BY DEF found
  <2> HIDE DEF ms, d
  <2>6. Acquiring(c)'
    BY <2>1, <2>3 DEF Acquiring
  <2> QED
    BY <1>0, <1>2, <2>1, <2>3, <2>4, <2>5, <2>6 DEF ScaleInv
<1> QED
  BY <1>1, <1>2 DEF Select, selectForScale, refused

(* Its leases are taken one by one.                                          *)
LEMMA AcquireScales ==
    ASSUME CInv, NEW c \in Commands, kind(c) = "scale", ScaleInv(c), NEW m \in DOMAIN acq[c],
           AcquireLease(c, m) \/ GetAgain(c, m)
    PROVE  ScaleInv(c)'
<1>0. /\ pc[c] = "acquire" /\ UNCHANGED <<job, pc, result, state, left, plan, extra, lapsed>>
      /\ m \in Machines /\ DOMAIN acq[c] \subseteq Machines
  BY DEF AcquireLease, GetAgain, servers, ghosts, CInv, CommandTypes
<1>1. /\ DOMAIN acq'[c] = DOMAIN acq[c]
      /\ \A n \in DOMAIN acq[c] : n # m => acq'[c][n] = acq[c][n]
  BY DEF AcquireLease, GetAgain, setAcq, CInv, CommandTypes
<1>2. /\ doomed(c)' = doomed(c) /\ missing(c)' = missing(c) /\ refused(c)' = refused(c)
      /\ Alone(c)' = Alone(c)
  BY <1>0, <1>1, SamePlan
<1>3. Acquiring(c)'
  <2>1. \A n \in Machines \ {m} : lease'[n] = lease[n]
    BY DEF AcquireLease, GetAgain, CInv, ServerTypes
  <2>2. ASSUME acq'[c][m] \in {"ok", "get"}, c \notin lapsed
        PROVE  state[m] # "destroyed" /\ lease'[m] = c
    <3>1. CASE AcquireLease(c, m)
      BY <1>0, <2>2, <3>1 DEF AcquireLease, setAcq, CInv, CommandTypes, ServerTypes
    <3>2. CASE GetAgain(c, m)
      BY <1>0, <2>2, <3>2 DEF GetAgain, ScaleInv, Acquiring
    <3> QED
      BY <3>1, <3>2
  <2>3. ASSUME c \notin lapsed, NEW n \in DOMAIN acq[c], acq'[c][n] \in {"ok", "get"}
        PROVE  state[n] # "destroyed" /\ lease'[n] = c
    <3>1. CASE n = m
      BY <2>2, <2>3, <3>1
    <3>2. CASE n # m
      BY <1>0, <1>1, <2>1, <2>3, <3>2 DEF ScaleInv, Acquiring
    <3> QED
      BY <3>1, <3>2
  <2>4. left[c] = doomed(c) /\ plan[c] = missing(c)
    BY <1>0 DEF ScaleInv, Acquiring
  <2> QED
    BY <1>0, <1>1, <1>2, <2>3, <2>4 DEF Acquiring
<1> QED
  BY <1>0, <1>1, <1>2, <1>3 DEF ScaleInv

(* With them nothing has been destroyed or launched yet.                     *)
LEMMA AcquiredScales ==
    ASSUME CInv, ScaleTypes, NEW c \in Commands, kind(c) = "scale", ScaleInv(c),
           AcquireReturns(c)
    PROVE  ScaleInv(c)'
<1>0. /\ pc[c] = "acquire"
      /\ UNCHANGED <<job, acq, state, lease, left, plan, extra, lapsed>>
  BY DEF AcquireReturns, servers, ghosts
<1>2. /\ doomed(c)' = doomed(c) /\ missing(c)' = missing(c) /\ refused(c)' = refused(c)
      /\ Alone(c)' = Alone(c)
  BY <1>0, SamePlan
<1>3. Acquiring(c) /\ (Alone(c) => \A r \in Regions : extra[r] = 0)
  BY <1>0 DEF ScaleInv
<1>4. Converging(c)'
  <2>1. Alone(c) => \A r \in Regions : extra[r] + plan[c][r] = missing(c)[r]
    <3>1. \A r \in Regions : plan[c][r] \in Int /\ extra[r] \in Int
      BY DEF ScaleTypes
    <3> QED
      BY <1>3, <3>1 DEF Acquiring
  <2>2. ASSUME HoldsAll(c)', NEW m \in DOMAIN acq[c]
        PROVE  /\ state[m] = "destroyed" <=> m \in doomed(c) /\ m \notin left[c]
               /\ state[m] # "destroyed" => lease[m] = c
    BY <1>0, <1>3, <2>2 DEF Acquiring, HoldsAll
  <2> QED
    BY <1>0, <1>2, <2>1, <2>2 DEF Converging
<1>5. \/ pc'[c] = "request" /\ result'[c] = result[c]
      \/ pc'[c] = "release" /\ result'[c] = "err"
  BY DEF AcquireReturns, end, goto, CInv, CommandTypes, ScaleTypes
<1>6. \/ pc'[c] = "request" /\ Converging(c)'
      \/ pc'[c] = "release" /\ result'[c] = "err"
  BY <1>4, <1>5
<1> QED
  BY <1>0, <1>2, <1>6 DEF ScaleInv

(* A launched machine moves from what is left of the plan to what is done.   *)
LEMMA LaunchScales ==
    ASSUME CInv, ScaleTypes, NEW c \in Commands, kind(c) = "scale", ScaleInv(c),
           NEW r \in Regions, LaunchMachine(c, r)
    PROVE  ScaleInv(c)'
<1>0. /\ pc[c] = "request"
      /\ UNCHANGED <<job, pc, acq, state, lease, left, lapsed>>
  BY DEF LaunchMachine, scaling, servers, ghosts
<1>2. /\ doomed(c)' = doomed(c) /\ missing(c)' = missing(c) /\ refused(c)' = refused(c)
      /\ Alone(c)' = Alone(c)
  BY <1>0, SamePlan
<1>3. result'[c] = "err" \/ result'[c] = result[c]
  BY DEF LaunchMachine, taskFails, ScaleTypes
<1>4. ASSUME result'[c] # "err" PROVE Converging(c)'
  <2>1. /\ extra' = [extra EXCEPT ![r] = @ + 1] /\ plan' = [plan EXCEPT ![c][r] = @ - 1]
        /\ result[c] # "err"
    BY <1>4 DEF LaunchMachine, taskFails, ScaleTypes
  <2>2. Converging(c)
    BY <1>0, <2>1 DEF ScaleInv
  <2>3. ASSUME Alone(c), NEW s \in Regions PROVE extra'[s] + plan'[c][s] = missing(c)[s]
    <3>1. extra[s] \in Int /\ plan[c][s] \in Int
      BY DEF ScaleTypes
    <3>2. extra'[s] = (IF s = r THEN extra[s] + 1 ELSE extra[s])
          /\ plan'[c][s] = (IF s = r THEN plan[c][s] - 1 ELSE plan[c][s])
      BY <2>1 DEF ScaleTypes
    <3>3. extra[s] + plan[c][s] = missing(c)[s]
      BY <2>2, <2>3 DEF Converging
    <3> QED
      BY <3>1, <3>2, <3>3
  <2>4. HoldsAll(c)' = HoldsAll(c)
    BY <1>0 DEF HoldsAll
  <2> QED
    BY <1>0, <1>2, <2>2, <2>3, <2>4 DEF Converging
<1> QED
  BY <1>0, <1>2, <1>3, <1>4 DEF ScaleInv

(* So does a destroyed one; if the API refuses it, the scale fails.          *)
LEMMA DestroyScales ==
    ASSUME CInv, ScaleTypes, NEW c \in Commands, kind(c) = "scale", ScaleInv(c),
           NEW m \in Machines, DestroyMachine(c, m)
    PROVE  ScaleInv(c)'
<1>0. /\ pc[c] = "request" /\ m \in left[c] /\ left'[c] = left[c] \ {m}
      /\ UNCHANGED <<job, pc, acq, plan, extra, lapsed>>
      /\ DOMAIN acq[c] \subseteq Machines /\ job[c].targets \subseteq Machines
  <2>1. left'[c] = left[c] \ {m}
    BY DEF DestroyMachine, CInv, CommandTypes
  <2> QED
    BY <2>1, FoundIn DEF DestroyMachine, scaling, ghosts, CInv, CommandTypes
<1>2. /\ doomed(c)' = doomed(c) /\ missing(c)' = missing(c) /\ refused(c)' = refused(c)
      /\ Alone(c)' = Alone(c)
  BY <1>0, SamePlan
<1>3. \A n \in Machines : /\ state[n] = "destroyed" => state'[n] = "destroyed"
                          /\ n # m => state'[n] = state[n] /\ lease'[n] = lease[n]
  BY DEF DestroyMachine, destroy, CInv, ServerTypes
<1>4. ASSUME result'[c] # "err" PROVE Converging(c)'
  <2>1. state'[m] = "destroyed" /\ result[c] # "err"
    BY <1>4 DEF DestroyMachine, destroy, taskFails, ScaleTypes, CInv, ServerTypes
  <2>2. Converging(c)
    BY <1>0, <2>1 DEF ScaleInv
  <2>3. m \in doomed(c)
    BY <1>0 DEF ScaleInv
  <2>4. HoldsAll(c)' = HoldsAll(c)
    BY <1>0 DEF HoldsAll
  <2>5. ASSUME HoldsAll(c), NEW n \in DOMAIN acq[c]
        PROVE  /\ state'[n] = "destroyed" <=> n \in doomed(c) /\ n \notin left'[c]
               /\ state'[n] # "destroyed" => lease'[n] = c
    <3>1. CASE n = m
      BY <1>0, <2>1, <2>3, <3>1
    <3>2. CASE n # m
      BY <1>0, <1>3, <2>2, <2>5, <3>2 DEF Converging
    <3> QED
      BY <3>1, <3>2
  <2> QED
    BY <1>0, <1>2, <2>2, <2>4, <2>5 DEF Converging
<1> QED
  BY <1>0, <1>2, <1>3, <1>4 DEF ScaleInv

(* A scale returns when its plan is carried out, and then gives its leases   *)
(* back.                                                                     *)
LEMMA ReturnScales ==
    ASSUME CInv, ScaleTypes, NEW c \in Commands, kind(c) = "scale", ScaleInv(c),
           ScaleReturns(c) \/ Return(c) \/ \E m \in DOMAIN acq[c] : ReleaseLease(c, m)
    PROVE  ScaleInv(c)'
<1>0. UNCHANGED <<job, state, left, plan, extra, lapsed>>
  BY DEF ScaleReturns, Return, ReleaseLease, servers, ghosts
<1>1. CASE Return(c)
  <2>1. pc'[c] = "done"
    BY <1>1 DEF Return, goto, CInv, CommandTypes
  <2> QED
    BY <2>1 DEF ScaleInv
<1>2. CASE ScaleReturns(c)
  <2>1. /\ pc[c] = "request" /\ pc'[c] = "release" /\ UNCHANGED <<acq, lease>>
        /\ left[c] = {} /\ (\A r \in Regions : plan[c][r] = 0)
        /\ result'[c] # "err" => result[c] # "err"
    BY <1>2 DEF ScaleReturns, scaling, end, goto, CInv, CommandTypes, ScaleTypes
  <2>2. /\ doomed(c)' = doomed(c) /\ missing(c)' = missing(c) /\ refused(c)' = refused(c)
        /\ Alone(c)' = Alone(c)
    BY <1>0, <2>1, SamePlan
  <2>3. Converging(c) => Converging(c)'
    BY <1>0, <2>1, <2>2 DEF Converging, HoldsAll
  <2> QED
    BY <1>0, <2>1, <2>2, <2>3 DEF ScaleInv
<1>3. ASSUME NEW m \in DOMAIN acq[c], ReleaseLease(c, m) PROVE ScaleInv(c)'
  <2>1. /\ pc[c] = "release" /\ UNCHANGED <<pc, result>>
        /\ DOMAIN acq'[c] = DOMAIN acq[c] /\ acq'[c][m] # "ok"
    BY <1>3 DEF ReleaseLease, setAcq, CInv, CommandTypes
  <2>2. /\ doomed(c)' = doomed(c) /\ missing(c)' = missing(c) /\ refused(c)' = refused(c)
        /\ Alone(c)' = Alone(c)
    BY <1>0, <2>1, SamePlan
  <2>3. ~HoldsAll(c)'
    BY <2>1 DEF HoldsAll
  <2>4. Converging(c) => Converging(c)'
    BY <1>0, <2>1, <2>2, <2>3 DEF Converging
  <2> QED
    BY <1>0, <2>1, <2>2, <2>4 DEF ScaleInv
<1> QED
  BY <1>1, <1>2, <1>3

(* A scale's own steps keep what it knows.                                   *)
LEMMA OwnStep ==
    ASSUME CInv, ScaleTypes, NEW c \in Commands, kind(c) = "scale", ScaleInv(c), CommandStep(c)
    PROVE  ScaleInv(c)'
<1>1. ~ \/ Decline(c) \/ Skip(c) \/ Start(c) \/ Stop(c) \/ Suspend(c) \/ Cordon(c)
        \/ Uncordon(c) \/ KillMachine(c) \/ Restart(c) \/ Update(c) \/ Destroy(c) \/ ClearLease(c)
  BY DEF Decline, Skip, Start, Stop, Suspend, Cordon, Uncordon, KillMachine, Restart, Update,
         Destroy, ClearLease
<1>2. ~(Wait(c) \/ HealthChecks(c))
  BY DEF ScaleInv, Wait, HealthChecks, at
<1> QED
  BY <1>1, <1>2, SelectScales, AcquireScales, AcquiredScales, LaunchScales, DestroyScales,
     ReturnScales DEF CommandStep

(* Every step keeps it: the scale's own, other commands' and time's.         *)
LEMMA ScalingStep == CInv /\ Scaling /\ [Next]_vars => Scaling'
<1> SUFFICES ASSUME CInv, Scaling, [Next]_vars PROVE Scaling'
  OBVIOUS
<1>0. ScaleTypes /\ ScaleTypes'
  BY TypesStep DEF Scaling
<1>1. job' = job
  <2>1. ASSUME NEW d \in Commands, CommandStep(d) PROVE job' = job
    BY <2>1 DEF CommandStep, Select, AcquireReturns, AcquireLease, GetAgain, ReleaseLease,
       Decline, Skip, Start, Stop, Suspend, Cordon, Uncordon, KillMachine, Restart, Update, Wait,
       HealthChecks, Destroy, ClearLease, LaunchMachine, DestroyMachine, ScaleReturns, Return,
       signal
  <2>2. ASSUME NEW d \in Commands, Cancel(d) PROVE job' = job
    BY <2>2 DEF Cancel
  <2>3. ASSUME NEW m \in Machines, Expire(m) \/ HostRecovers(m) PROVE job' = job
    BY <2>3 DEF Expire, HostRecovers
  <2> QED
    BY <2>1, <2>2, <2>3 DEF Next, vars
<1> SUFFICES ASSUME NEW c \in Commands, kind(c) = "scale" PROVE ScaleInv(c)'
  BY <1>0, <1>1 DEF Scaling, kind
<1>2. ScaleInv(c)
  BY DEF Scaling
<1>3. ASSUME NEW d \in Commands, CommandStep(d) \/ Cancel(d) PROVE ScaleInv(c)'
  <2>1. CASE d # c
    BY <1>0, <1>2, <1>3, <2>1, OthersAside, AsideKeeps
  <2>2. CASE d = c /\ CommandStep(c)
    BY <1>0, <1>2, <2>2, OwnStep
  <2>3. CASE d = c /\ Cancel(c)
    BY <1>2, <2>3, TimeAside, AsideKeeps
  <2> QED
    BY <1>3, <2>1, <2>2, <2>3
<1>4. CASE \E m \in Machines : Expire(m) \/ HostRecovers(m)
  BY <1>2, <1>4, TimeAside, AsideKeeps
<1>5. CASE UNCHANGED vars
  <2>1. Aside(c)
    BY <1>5 DEF vars, servers, ghosts, Aside, Private
  <2> QED
    BY <1>2, <2>1, AsideKeeps
<1> QED
  BY <1>3, <1>4, <1>5 DEF Next

(* Whatever other commands run at the same time, the plan of a scale is      *)
(* exact.                                                                    *)
THEOREM ScalePlanExact == Spec => []PlanIsExact
<1>1. ASSUME CInv, Scaling PROVE PlanIsExact
  <2> SUFFICES ASSUME NEW c \in Commands, kind(c) = "scale", pc[c] = "acquire"
      PROVE LET j   == job[c]
                cur == current(DOMAIN snap[c])
                d   == diffs(c, DOMAIN snap[c])
            IN /\ planned(regionsOf(c), cur, d) = j.count
               /\ \A r \in DOMAIN d :
                    /\ cur[r] + d[r] >= 0
                    /\ j.max >= 0 => cur[r] + d[r] <= j.max
                    /\ d[r] < 0 => \/ planned(regionsOf(c), cur, [s \in DOMAIN d |-> 0]) > j.count
                                   \/ j.max >= 0 /\ cur[r] > j.max
    BY DEF PlanIsExact
  <2> DEFINE ms == DOMAIN snap[c]
             d == diffs(c, ms)
             cur == current(ms)
             rs == regionsOf(c)
  <2>1. ms \subseteq Machines /\ ~refused(c)
    BY <1>1 DEF CInv, CommandTypes, Scaling, ScaleInv
  <2>2. Exact(rs, cur, job[c].max, job[c].count, d)
    <3> HIDE DEF ms
    <3> QED
      BY <1>1, <2>1, DiffsExact
  <2> HIDE DEF ms, d, cur, rs
  <2>3. DOMAIN d = Regs(rs)
    BY <2>2 DEF Exact
  <2>4. /\ planned(rs, cur, d) = job[c].count
        /\ \A r \in DOMAIN d :
             /\ cur[r] + d[r] >= 0
             /\ job[c].max >= 0 => cur[r] + d[r] <= job[c].max
             /\ d[r] < 0 => \/ planned(rs, cur, [s \in DOMAIN d |-> 0]) > job[c].count
                            \/ job[c].max >= 0 /\ cur[r] > job[c].max
    BY <2>2, <2>3 DEF Exact
  <2> QED
    BY <2>4 DEF ms, d, cur, rs
<1> QED
  BY <1>1, CommandsInvariant, ScalingInit, ScalingStep, PTL DEF Spec

(* A scale that succeeds with all its leases leaves the machines it was      *)
(* asked for, whatever other commands do meanwhile.                          *)
THEOREM ScaleReachesCount == Spec => []ScaleMeetsCount
<1>1. ASSUME CInv, Scaling PROVE ScaleMeetsCount
  <2> SUFFICES ASSUME NEW c \in Commands, kind(c) = "scale", pc[c] = "release",
                      result[c] = "ok", Alone(c), HoldsAll(c),
                      NEW here, here = {m \in job[c].targets : state[m] # "destroyed"}
               PROVE  planned(regionsOf(c), current(here), extra) = job[c].count
    BY DEF ScaleMeetsCount, Alone, HoldsAll
  <2> DEFINE ms == DOMAIN acq[c]
             d == planOf(c)
             rs == regionsOf(c)
             cur == current(ms)
  <2>1. /\ ms \subseteq Machines /\ ~refused(c) /\ ScaleInv(c) /\ Converging(c)
        /\ left[c] = {} /\ (\A r \in Regions : plan[c][r] = 0)
        /\ ms \subseteq job[c].targets
        /\ \A m \in job[c].targets \ ms : state[m] = "destroyed"
    BY <1>1 DEF CInv, CommandTypes, Scaling, ScaleInv
  <2>2. here = ms \ toDestroy(ms, d)
    BY <2>1 DEF Converging, doomed
  <2>3. \A r \in Regions : extra[r] = toLaunch(d)[r]
    <3>1. \A r \in Regions : extra[r] \in Int /\ extra[r] + plan[c][r] = toLaunch(d)[r]
      BY <1>1, <2>1 DEF Converging, missing, Scaling, ScaleTypes
    <3> QED
      BY <2>1, <3>1
  <2>4. Exact(rs, cur, job[c].max, job[c].count, d)
    <3> HIDE DEF ms
    <3> QED
      BY <1>1, <2>1, DiffsExact DEF planOf, ms
  <2>5. Counted(rs, cur) /\ Counted(rs, current(here)) /\ Regs(rs) \subseteq Regions
    BY <1>1, <2>1, <2>2, CurrentCounted
  <2> HIDE DEF ms, d, rs, cur
  <2>6. d \in [Regs(rs) -> Int] /\ Summable(rs, cur, d)
    BY <2>4, <2>5, CountedSummable DEF Exact
  <2>7. ASSUME NEW r \in Regs(rs)
        PROVE  current(here)[r] + extra[r] = cur[r] + d[r] /\ cur[r] + d[r] \in Int
    <3>1. r \in Regions /\ r \in DOMAIN d /\ d[r] \in Int /\ cur[r] + d[r] >= 0
      BY <2>4, <2>5, <2>6 DEF Exact
    <3>2. cur[r] \in Nat
      BY <2>5 DEF Counted, Regs
    <3>3. current(ms)[r] + d[r] >= 0
      BY <3>1, <3>2 DEF cur
    <3>4. current(ms \ toDestroy(ms, d))[r] + toLaunch(d)[r] = current(ms)[r] + d[r]
      BY <2>1, <3>1, <3>3, ActionsMeetPlan
    <3>5. current(here) = current(ms \ toDestroy(ms, d)) /\ extra[r] = toLaunch(d)[r]
      BY <2>2, <2>3, <3>1
    <3>6. current(here)[r] + extra[r] = cur[r] + d[r]
      BY <3>4, <3>5, Zenon DEF cur
    <3> QED
      BY <3>1, <3>2, <3>6
  <2>8. ASSUME NEW i \in 1 .. Len(rs)
        PROVE  current(here)[rs[i]] + extra[rs[i]] = cur[rs[i]] + d[rs[i]]
               /\ cur[rs[i]] + d[rs[i]] \in Int
    <3>1. rs[i] \in Regs(rs)
      BY <2>5 DEF Counted, Regs
    <3> QED
      BY <2>7, <3>1
  <2>9. Summable(rs, current(here), extra)
    BY <2>6, <2>8 DEF Summable
  <2>10. planned(rs, current(here), extra) = planned(rs, cur, d)
    BY <2>6, <2>8, <2>9, PlannedSame
  <2> QED
    BY <2>4, <2>10 DEF Exact, rs
<1> QED
  BY <1>1, CommandsInvariant, ScalingInit, ScalingStep, PTL DEF Spec

=============================================================================
