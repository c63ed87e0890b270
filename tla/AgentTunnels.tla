---------------------------- MODULE AgentTunnels ----------------------------
(***************************************************************************)
(* What the agent's sessions share: its tunnels, one per organization and  *)
(* network, and the WireGuard peers in its memory (agent/server/server.go, *)
(* agent/server/session.go, internal/wireguard/wg.go).                     *)
(*                                                                         *)
(* Sessions establish tunnels under the server's mutex, which they hold    *)
(* over requests to the API, and use them without it.  A session that has  *)
(* no tokens of its own also takes the mutex to copy the server's, before  *)
(* it asks the API for the organization and before it builds.  A session   *)
(* may bring tokens (set-token); a goroutine of its own then replaces the  *)
(* server's and holds the mutex while it refreshes them.  The cleaner asks *)
(* the API every two minutes which peers are still valid and closes the    *)
(* tunnels of those that are not; so does every session that finds the     *)
(* configuration file changed.  Peers are numbered as they are created; a  *)
(* tunnel goes by the number of its peer.  The peers are those of viper,   *)
(* which is read from the file once, when the agent starts: of the file    *)
(* itself only its time of change matters.                                 *)
(***************************************************************************)
EXTENDS Naturals

CONSTANTS Sessions,     \* connections served at the same time
          Orgs,         \* tunnelKey: organization and network
          Known,        \* organizations whose peer is in the file at the start
          Free,         \* of the mutex
          Updater,      \* the goroutine that has the mutex in UpdateTokensFromClient
          MaxPeers,     \* bound: peers the API creates
          MaxUpdates    \* bound: goroutines of set-token that wait for the mutex

ASSUME TunnelsAssumption ==
    /\ Free \notin Sessions /\ Updater \notin Sessions /\ Free # Updater
    /\ MaxPeers \in Nat /\ MaxUpdates \in Nat
    /\ Known = {} \/ (MaxPeers > 0 /\ \E o \in Orgs : Known = {o})

VARIABLES
    peers,      \* the peer of each organization in memory, 0 for none
    made,       \* peers created so far
    tunnels,    \* s.tunnels: the tunnel of each organization, 0 for none
    closed,     \* tunnels on which Close was called
    changed,    \* the file is newer than s.currentChange
    mu,         \* who holds s.mu over several steps
    pc,         \* where a session stands
    cmd,        \* its establish or reestablish, and of which organization
    held,       \* the peer it connects to, or the tunnel it uses
    own,        \* the sessions whose tokens are set, and may still be used
    updates,    \* calls of UpdateTokensFromClient that wait for the mutex
    cleaner,    \* where clean stands
    snapshot,   \* the peers PruneInvalidPeers asks about
    panicked    \* a session has called into a closed tunnel

tun     == <<peers, made, tunnels, closed>>
sess    == <<pc, cmd, held, own>>
clean   == <<cleaner, snapshot>>
vars    == <<tun, changed, mu, sess, updates, clean, panicked>>

Ids == 0 .. MaxPeers

None == [verb |-> "none"]

Commands == [verb : {"establish", "reestablish"}, org : Orgs]

Init ==
    /\ peers = [o \in Orgs |-> IF o \in Known THEN 1 ELSE 0]
    /\ made = IF Known = {} THEN 0 ELSE 1
    /\ tunnels = [o \in Orgs |-> 0]
    /\ closed = {}
    /\ changed = FALSE
    /\ mu = Free
    /\ pc = [s \in Sessions |-> "idle"]
    /\ cmd = [s \in Sessions |-> None]
    /\ held = [s \in Sessions |-> 0]
    /\ own = {}
    /\ updates = 0
    /\ cleaner = "pause"
    /\ snapshot = [o \in Orgs |-> 0]
    /\ panicked = FALSE

-----------------------------------------------------------------------------
(* Sessions. *)

goto(s, label) == pc' = [pc EXCEPT ![s] = label]

\* The session answers and drops its connection.
drop(s) ==
    /\ goto(s, "idle")
    /\ cmd' = [cmd EXCEPT ![s] = None]
    /\ held' = [held EXCEPT ![s] = 0]
    /\ own' = own \ {s}

\* A connection is accepted.
Connect(s) ==
    /\ pc[s] = "idle"
    /\ goto(s, "connected")
    /\ UNCHANGED <<tun, changed, mu, cmd, held, own, updates, clean, panicked>>

\* The organizations that have a tunnel and no peer.
stray == { o \in Orgs : tunnels[o] # 0 /\ peers[o] = 0 }

\* validateTunnelsUnlocked
validateTunnelsUnlocked_keeps ==
    /\ closed' = closed \cup { tunnels[o] : o \in stray }
    /\ UNCHANGED <<peers, made, tunnels>>

validateTunnelsUnlocked_drops ==
    /\ tunnels' = [o \in Orgs |-> IF o \in stray THEN 0 ELSE tunnels[o]]
    /\ UNCHANGED <<peers, made, closed>>

validateTunnelsUnlocked ==
    /\ tunnels' = [o \in Orgs |-> IF o \in stray THEN 0 ELSE tunnels[o]]
    /\ closed' = closed \cup { tunnels[o] : o \in stray }
    /\ UNCHANGED <<peers, made>>

\* runSession: checkForConfigChange, whose stat may fail.
checkForConfigChange(s) ==
    /\ pc[s] = "connected"
    /\ mu = Free
    /\ \/ /\ goto(s, "command")
          /\ changed' = FALSE
          /\ IF changed THEN validateTunnelsUnlocked ELSE UNCHANGED tun
          /\ UNCHANGED <<cmd, held, own>>
       \/ drop(s) /\ UNCHANGED <<changed, tun>>
    /\ UNCHANGED <<mu, updates, clean, panicked>>

\* setToken: the session goes on to read the next command.
setToken(s) ==
    /\ updates < MaxUpdates
    /\ updates' = updates + 1
    /\ own' = own \cup {s}
    /\ UNCHANGED <<pc, cmd, held>>

\* runCommand, when the client has sent a command or closed its end.  A
\* command that needs no tunnel (kill, ping) or is malformed ends the session.
ReadCommand(s) ==
    /\ pc[s] = "command"
    /\ \/ drop(s) /\ UNCHANGED updates
       \/ /\ \E c \in Commands : cmd' = [cmd EXCEPT ![s] = c]
          /\ goto(s, "fetch")
          /\ UNCHANGED <<held, own, updates>>
       \/ /\ goto(s, "lookup")
          /\ own' = own \ {s}
          /\ UNCHANGED <<cmd, held, updates>>
       \/ setToken(s)
    /\ UNCHANGED <<tun, changed, mu, clean, panicked>>

\* GetClient takes the mutex to copy the server's tokens, for a session that
\* has none of its own.
getClient(s) == s \in own \/ mu = Free

\* fetchOrg: getClient, then the API is asked without the mutex.
fetchOrg(s) ==
    /\ pc[s] = "fetch"
    /\ getClient(s)
    /\ \/ goto(s, "fetched") /\ UNCHANGED <<cmd, held, own>>
       \/ drop(s)
    /\ UNCHANGED <<tun, changed, mu, updates, clean, panicked>>

\* doEstablish: a client again, for buildTunnel.
doEstablish(s) ==
    /\ pc[s] = "fetched"
    /\ getClient(s)
    /\ goto(s, "build")
    /\ own' = own \ {s}
    /\ UNCHANGED <<tun, changed, mu, cmd, held, updates, clean, panicked>>

reestablish(s) == cmd[s].verb = "reestablish"

\* buildTunnel: takes the mutex; a tunnel that is there is returned at once.
buildTunnel(s) ==
    /\ pc[s] = "build"
    /\ mu = Free
    /\ IF tunnels[cmd[s].org] # 0 /\ ~reestablish(s)
       THEN drop(s) /\ UNCHANGED mu
       ELSE goto(s, "state") /\ mu' = s /\ UNCHANGED <<cmd, held, own>>
    /\ UNCHANGED <<tun, changed, updates, clean, panicked>>

\* Every return of buildTunnel unlocks the mutex.
return(s) == drop(s) /\ mu' = Free

\* StateForOrg: the peer in memory, unless a new one is asked for.
ReusePeer(s) ==
    /\ pc[s] = "state"
    /\ peers[cmd[s].org] # 0 /\ ~reestablish(s)
    /\ held' = [held EXCEPT ![s] = peers[cmd[s].org]]
    /\ goto(s, "dial")
    /\ UNCHANGED <<tun, changed, mu, cmd, own, updates, clean, panicked>>

\* Create, and setWireGuardStateForOrg: memory first, then the file, whose
\* lock may not be had in time.
CreatePeer(s) ==
    /\ pc[s] = "state"
    /\ peers[cmd[s].org] = 0 \/ reestablish(s)
    /\ made < MaxPeers
    /\ made' = made + 1
    /\ peers' = [peers EXCEPT ![cmd[s].org] = made + 1]
    /\ \/ /\ goto(s, "dial")
          /\ held' = [held EXCEPT ![s] = made + 1]
          /\ changed' = TRUE
          /\ UNCHANGED <<mu, cmd, own>>
       \/ return(s) /\ UNCHANGED changed
    /\ UNCHANGED <<tunnels, closed, updates, clean, panicked>>

CreateFails(s) ==
    /\ pc[s] = "state"
    /\ peers[cmd[s].org] = 0 \/ reestablish(s)
    /\ return(s)
    /\ UNCHANGED <<tun, changed, updates, clean, panicked>>

ConnectTunnel_locksAgain(s) ==
    /\ pc[s] = "dial"
    /\ mu = Free
    /\ \/ tunnels' = [tunnels EXCEPT ![cmd[s].org] = held[s]]
       \/ UNCHANGED tunnels
    /\ return(s)
    /\ UNCHANGED <<peers, made, closed, changed, updates, clean, panicked>>

\* wg.Connect, which may fail; a tunnel that was there before is replaced and
\* stays open.
ConnectTunnel(s) ==
    /\ pc[s] = "dial"
    /\ \/ tunnels' = [tunnels EXCEPT ![cmd[s].org] = held[s]]
       \/ UNCHANGED tunnels
    /\ return(s)
    /\ UNCHANGED <<peers, made, closed, changed, updates, clean, panicked>>

\* tunnelFor: probe, resolve, instances, lookupTxt, connect and ping6 begin so.
tunnelFor(s) ==
    /\ pc[s] = "lookup"
    /\ mu = Free
    /\ \/ \E o \in Orgs :
            /\ tunnels[o] # 0
            /\ held' = [held EXCEPT ![s] = tunnels[o]]
            /\ goto(s, "using")
            /\ UNCHANGED <<cmd, own>>
       \/ /\ \E o \in Orgs : tunnels[o] = 0
          /\ drop(s)
    /\ UNCHANGED <<tun, changed, mu, updates, clean, panicked>>

\* Lookups and dials, of which instances makes several: after Close the
\* tunnel's network is nil.  The session is over at the last one, or, of
\* connect and ping6, when an end of the connection closes.
UseTunnel(s) ==
    /\ pc[s] = "using"
    /\ \/ held[s] \in closed /\ panicked' = TRUE /\ UNCHANGED sess
       \/ drop(s) /\ UNCHANGED panicked
    /\ UNCHANGED <<tun, changed, mu, updates, clean>>

-----------------------------------------------------------------------------
(* The other goroutines, and other processes. *)

\* UpdateTokensFromClient returns at once when the server's tokens come from a
\* file or the client's do not; else it keeps the mutex over MonitorTokens'
\* first requests.
UpdateLocks ==
    /\ updates > 0
    /\ mu = Free
    /\ updates' = updates - 1
    /\ \/ UNCHANGED mu
       \/ mu' = Updater
    /\ UNCHANGED <<tun, changed, sess, clean, panicked>>

\* Tokens that were refreshed are written to the file.
UpdateTokensFromClient ==
    /\ mu = Updater
    /\ mu' = Free
    /\ \E saved \in BOOLEAN : changed' = (changed \/ saved)
    /\ UNCHANGED <<tun, sess, updates, clean, panicked>>

\* clean: GetClient takes the mutex; PruneInvalidPeers does not.
PruneReads ==
    /\ cleaner = "pause"
    /\ mu = Free
    /\ snapshot' = peers
    /\ cleaner' = "asking"
    /\ UNCHANGED <<tun, changed, mu, sess, updates, panicked>>

\* The answer names some of the peers; what is left of the snapshot becomes
\* the memory, and the file.  An error leaves both alone.
PruneInvalidPeers ==
    /\ cleaner = "asking"
    /\ cleaner' = "validate"
    /\ \/ \E invalid \in SUBSET { o \in Orgs : snapshot[o] # 0 } :
            peers' = [o \in Orgs |-> IF o \in invalid THEN 0 ELSE snapshot[o]]
       \/ UNCHANGED peers
    /\ \E saved \in BOOLEAN : changed' = (changed \/ saved)
    /\ snapshot' = [o \in Orgs |-> 0]
    /\ UNCHANGED <<made, tunnels, closed, mu, sess, updates, panicked>>

validateTunnels ==
    /\ cleaner = "validate"
    /\ mu = Free
    /\ validateTunnelsUnlocked
    /\ cleaner' = "pause"
    /\ UNCHANGED <<changed, mu, sess, updates, snapshot, panicked>>

\* Another flyctl process writes the configuration file.
WriteConfig ==
    /\ changed' = TRUE
    /\ UNCHANGED <<tun, mu, sess, updates, clean, panicked>>

\* What the other end of the connection does.
ClientStep(s) == Connect(s) \/ ReadCommand(s) \/ UseTunnel(s)

\* What it does with the mutex, and what it may have to wait for it to do.
HolderStep(s) == ReusePeer(s) \/ CreatePeer(s) \/ CreateFails(s) \/ ConnectTunnel(s)

LockStep(s) ==
    \/ checkForConfigChange(s) \/ fetchOrg(s) \/ doEstablish(s) \/ buildTunnel(s)
    \/ tunnelFor(s)

Update == UpdateLocks \/ UpdateTokensFromClient

Cleaner == PruneReads \/ PruneInvalidPeers \/ validateTunnels

Next ==
    /\ ~panicked
    /\ \/ \E s \in Sessions : ClientStep(s) \/ HolderStep(s) \/ LockStep(s)
       \/ Update
       \/ Cleaner
       \/ WriteConfig

Spec == Init /\ [][Next]_vars

\* Requests to the API end, and sync.Mutex is fair to a waiter that starves.
\* Nothing is assumed of the client: the read of a command has no timeout, and
\* connect and ping6 last as long as the client likes.
FairSpec ==
    /\ Spec
    /\ \A s \in Sessions :
        /\ WF_vars(~panicked /\ HolderStep(s))
        /\ SF_vars(~panicked /\ LockStep(s))
    /\ WF_vars(~panicked /\ (PruneInvalidPeers \/ UpdateTokensFromClient))
    /\ SF_vars(~panicked /\ UpdateLocks)
    /\ SF_vars(~panicked /\ (PruneReads \/ validateTunnels))

-----------------------------------------------------------------------------
(* Properties *)

Establishing == {"fetch", "fetched", "build", "state", "dial"}

\* Types, and the mutex is held over several steps by a session that is in
\* buildTunnel, or by UpdateTokensFromClient.
TypeOK ==
    /\ peers \in [Orgs -> Ids]
    /\ made \in Ids
    /\ tunnels \in [Orgs -> Ids]
    /\ closed \subseteq Ids
    /\ changed \in BOOLEAN
    /\ mu \in Sessions \cup {Free, Updater}
    /\ pc \in [Sessions -> {"idle", "connected", "command", "lookup", "using"} \cup Establishing]
    /\ \A s \in Sessions : pc[s] \in {"state", "dial"} <=> mu = s
    /\ cmd \in [Sessions -> Commands \cup {None}]
    /\ \A s \in Sessions : pc[s] \in Establishing <=> cmd[s] # None
    /\ held \in [Sessions -> Ids]
    /\ \A s \in Sessions : pc[s] \in {"dial", "using"} <=> held[s] # 0
    /\ own \subseteq Sessions
    /\ updates \in 0 .. MaxUpdates
    /\ cleaner \in {"pause", "asking", "validate"}
    /\ snapshot \in [Orgs -> Ids]
    /\ panicked \in BOOLEAN

\* A session that asks for a tunnel is never given one that is closed, in
\* whatever order establishing, pruning and validating overlap (tunnelFor).
MapTunnelsOpen == \A o \in Orgs : tunnels[o] \notin closed

\* A session never waits for the mutex, or for one who has it, for ever: it is
\* answered, or it has got as far as its client decides (the next command, the
\* use of a tunnel).  It takes the mutex up to four times on the way, and
\* buildTunnel and UpdateTokensFromClient keep it over requests to the API.
RequestsGetOn ==
    \A s \in Sessions :
        pc[s] \in {"connected", "lookup"} \cup Establishing
            ~> (pc[s] \in {"idle", "command", "using"} \/ panicked)

\* A tunnel in the map without a peer in memory is closed in the end (clean),
\* unless a reestablish first creates another peer for its organization or
\* puts another tunnel in its place: that tunnel nobody closes.
StrayTunnelsClose ==
    \A o \in Orgs : \A i \in 1 .. MaxPeers :
        (tunnels[o] = i /\ peers[o] = 0)
            ~> (i \in closed \/ tunnels[o] \notin {0, i} \/ peers[o] # 0 \/ panicked)
=============================================================================
