------------------------ MODULE AgentTunnelsProofs ------------------------
(***************************************************************************)
(* Proofs about the agent's tunnels, for any number of sessions,           *)
(* organizations and peers.                                                *)
(***************************************************************************)
EXTENDS AgentTunnels, TLAPS

LEMMA NoCommand == None \notin Commands
<1>1. \A c \in Commands : c.verb # "none"
  BY DEF Commands
<1> QED
  BY <1>1 DEF None

LEMMA TypeInit == Init => TypeOK
<1> SUFFICES ASSUME Init PROVE TypeOK
  OBVIOUS
<1>1. made \in Ids /\ peers \in [Orgs -> Ids] /\ 0 \in Ids
  BY TunnelsAssumption DEF Init, Ids
<1>2. updates \in 0 .. MaxUpdates
  BY TunnelsAssumption DEF Init
<1>3. \A s \in Sessions : pc[s] = "idle" /\ cmd[s] = None /\ held[s] = 0 /\ mu # s
  BY TunnelsAssumption DEF Init
<1>4. /\ pc \in [Sessions -> {"idle", "connected", "command", "lookup", "using"}
                             \cup Establishing]
      /\ cmd \in [Sessions -> Commands \cup {None}]
      /\ held \in [Sessions -> Ids] /\ snapshot \in [Orgs -> Ids] /\ tunnels \in [Orgs -> Ids]
  BY <1>1 DEF Init
<1> QED
  BY <1>1, <1>2, <1>3, <1>4 DEF Init, TypeOK, Establishing

(* The mutex is free when a session is to take it, and no one is then        *)
(* between StateForOrg and its tunnel.                                       *)
LEMMA ValidateType ==
    ASSUME TypeOK, validateTunnelsUnlocked
    PROVE  tunnels' \in [Orgs -> Ids] /\ closed' \subseteq Ids /\ UNCHANGED <<peers, made>>
<1>1. 0 \in Ids
  BY TunnelsAssumption DEF Ids
<1> QED
  BY <1>1 DEF TypeOK, validateTunnelsUnlocked, stray

LEMMA SessionType ==
    ASSUME TypeOK, NEW s \in Sessions,
           ClientStep(s) \/ HolderStep(s) \/ LockStep(s)
    PROVE  TypeOK'
<1> USE TunnelsAssumption, NoCommand
<1> USE DEF TypeOK, Establishing, goto, drop, tun, clean, sess
<1>0. 0 \in Ids
  BY DEF Ids
<1>1. CASE Connect(s)
  BY <1>1 DEF Connect
<1>2. CASE ReadCommand(s)
  <2>1. CASE drop(s) /\ UNCHANGED updates
    BY <1>0, <1>2, <2>1 DEF ReadCommand
  <2>2. CASE /\ \E c \in Commands : cmd' = [cmd EXCEPT ![s] = c]
             /\ goto(s, "fetch")
             /\ UNCHANGED <<held, own, updates>>
    BY <1>2, <2>2 DEF ReadCommand
  <2>3. CASE /\ goto(s, "lookup")
             /\ own' = own \ {s}
             /\ UNCHANGED <<cmd, held, updates>>
    BY <1>2, <2>3 DEF ReadCommand
  <2>4. CASE setToken(s)
    BY <1>2, <2>4 DEF ReadCommand, setToken
  <2> QED
    BY <1>2, <2>1, <2>2, <2>3, <2>4 DEF ReadCommand
<1>3. CASE fetchOrg(s)
  BY <1>0, <1>3 DEF fetchOrg
<1>4. CASE ReusePeer(s)
  <2>1. cmd[s] \in Commands
    BY <1>4 DEF ReusePeer
  <2>2. cmd[s].org \in Orgs
    BY <2>1 DEF Commands
  <2> QED
    BY <1>4, <2>2 DEF ReusePeer
<1>5. CASE CreatePeer(s)
  <2>1. made + 1 \in Ids /\ made + 1 # 0
    BY <1>5 DEF CreatePeer, Ids
  <2>2. peers' \in [Orgs -> Ids] /\ made' \in Ids
    BY <1>5, <2>1 DEF CreatePeer
  <2>3. CASE /\ goto(s, "dial")
             /\ held' = [held EXCEPT ![s] = made + 1]
             /\ changed' = TRUE
             /\ UNCHANGED <<mu, cmd, own>>
    BY <1>5, <2>1, <2>2, <2>3 DEF CreatePeer
  <2>4. CASE return(s) /\ UNCHANGED changed
    BY <1>0, <1>5, <2>2, <2>4 DEF CreatePeer, return
  <2> QED
    BY <1>5, <2>3, <2>4 DEF CreatePeer
<1>6. CASE CreateFails(s)
  BY <1>0, <1>6 DEF CreateFails, return
<1>7. CASE ConnectTunnel(s)
  <2>1. tunnels' \in [Orgs -> Ids]
    BY <1>7 DEF ConnectTunnel
  <2> QED
    BY <1>0, <1>7, <2>1 DEF ConnectTunnel, return
<1>8. CASE doEstablish(s)
  BY <1>8 DEF doEstablish
<1>9. CASE checkForConfigChange(s)
  <2>1. tunnels' \in [Orgs -> Ids] /\ closed' \subseteq Ids /\ UNCHANGED <<peers, made>>
    BY <1>9, ValidateType DEF checkForConfigChange
  <2>2. CASE drop(s)
    BY <1>0, <1>9, <2>1, <2>2 DEF checkForConfigChange
  <2>3. CASE goto(s, "command") /\ changed' = FALSE /\ UNCHANGED <<cmd, held, own>>
    BY <1>9, <2>1, <2>3 DEF checkForConfigChange
  <2> QED
    BY <1>9, <2>2, <2>3 DEF checkForConfigChange
<1>10. CASE buildTunnel(s)
  BY <1>0, <1>10 DEF buildTunnel
<1>11. CASE tunnelFor(s)
  <2>1. CASE drop(s)
    BY <1>0, <1>11, <2>1 DEF tunnelFor
  <2>2. ASSUME NEW o \in Orgs, tunnels[o] # 0, held' = [held EXCEPT ![s] = tunnels[o]],
               goto(s, "using"), UNCHANGED <<cmd, own>>
        PROVE  TypeOK'
    BY <1>11, <2>2 DEF tunnelFor
  <2> QED
    BY <1>11, <2>1, <2>2 DEF tunnelFor
<1>12. CASE UseTunnel(s)
  <2>1. CASE drop(s) /\ UNCHANGED panicked
    BY <1>0, <1>12, <2>1 DEF UseTunnel
  <2>2. CASE panicked' = TRUE /\ UNCHANGED sess
    BY <1>12, <2>2 DEF UseTunnel
  <2> QED
    BY <1>12, <2>1, <2>2 DEF UseTunnel
<1> QED
  BY <1>1, <1>2, <1>3, <1>4, <1>5, <1>6, <1>7, <1>8, <1>9, <1>10, <1>11, <1>12
     DEF ClientStep, HolderStep, LockStep

LEMMA CleanerType ==
    ASSUME TypeOK, Update \/ Cleaner \/ WriteConfig
    PROVE  TypeOK'
<1> USE TunnelsAssumption
<1> USE DEF TypeOK, Establishing, tun, clean, sess
<1>0. 0 \in Ids
  BY DEF Ids
<1>1. CASE PruneReads
  BY <1>1 DEF PruneReads
<1>2. CASE PruneInvalidPeers
  BY <1>0, <1>2 DEF PruneInvalidPeers
<1>3. CASE validateTunnels
  BY <1>3, ValidateType DEF validateTunnels
<1>4. CASE WriteConfig
  BY <1>4 DEF WriteConfig
<1>5. CASE UpdateLocks
  BY <1>5 DEF UpdateLocks
<1>6. CASE UpdateTokensFromClient
  BY <1>6 DEF UpdateTokensFromClient
<1> QED
  BY <1>1, <1>2, <1>3, <1>4, <1>5, <1>6 DEF Cleaner, Update

LEMMA TypeStep == TypeOK /\ [Next]_vars => TypeOK'
<1>1. ASSUME TypeOK, UNCHANGED vars PROVE TypeOK'
  BY <1>1 DEF TypeOK, Establishing, vars, tun, sess, clean
<1> QED
  BY <1>1, SessionType, CleanerType DEF Next

(* Every reachable state is well-typed; in particular the mutex is held by a *)
(* session exactly while it asks for a peer or connects (buildTunnel).       *)
THEOREM TypeCorrect == Spec => []TypeOK
BY TypeInit, TypeStep, PTL DEF Spec

-----------------------------------------------------------------------------
(* MapTunnelsOpen is not inductive: a tunnel that is closed could come back  *)
(* through a peer of the same number, in memory, in the list the cleaner     *)
(* asks about or in a session that connects.  It does not, because           *)
(*  - no two organizations ever share a peer, so closing the tunnel of one   *)
(*    concerns that one only;                                                *)
(*  - the list the cleaner asks about names a peer only for organizations    *)
(*    that still have one: only the cleaner itself removes peers;            *)
(*  - who connects holds the mutex, and no tunnel is closed meanwhile.       *)

(* Organization o may still put peer i in the map, or has it there.          *)
Uses(o, i) ==
    /\ i # 0
    /\ \/ i = peers[o] \/ i = snapshot[o] \/ i = tunnels[o]
       \/ \E s \in Sessions : pc[s] = "dial" /\ cmd[s].org = o /\ held[s] = i

SnapshotInv == \A o \in Orgs : snapshot[o] # 0 => peers[o] # 0

ClosedInv == closed \subseteq 1 .. made

OpenInv == \A o \in Orgs : \A i \in Ids : Uses(o, i) => i <= made /\ i \notin closed

OwnerInv == \A o, p \in Orgs : \A i \in Ids : Uses(o, i) /\ Uses(p, i) => o = p

UInv == SnapshotInv /\ ClosedInv /\ OpenInv /\ OwnerInv

LEMMA UInit == Init => UInv
<1> SUFFICES ASSUME Init PROVE UInv
  OBVIOUS
<1>1. \A o \in Orgs, i \in Ids : Uses(o, i) => i = 1 /\ o \in Known
  BY DEF Init, Uses
<1>2. \A o, p \in Known : o = p
  BY TunnelsAssumption
<1>3. Known # {} => made = 1
  BY DEF Init
<1>4. SnapshotInv /\ ClosedInv
  BY DEF Init, SnapshotInv, ClosedInv
<1>5. OpenInv
  BY <1>1, <1>3 DEF Init, OpenInv
<1>6. OwnerInv
  BY <1>1, <1>2 DEF OwnerInv
<1> QED
  BY <1>4, <1>5, <1>6 DEF UInv

(* Most steps only lose uses of peers.                                       *)
NoNewUses == \A o \in Orgs, i \in Ids : Uses(o, i)' => Uses(o, i)

LEMMA FewerUses ==
    ASSUME TypeOK, UInv, NoNewUses, UNCHANGED <<made, closed>>, SnapshotInv'
    PROVE  UInv'
<1>1. OpenInv'
  BY DEF UInv, OpenInv, NoNewUses
<1>2. OwnerInv'
  BY DEF UInv, OwnerInv, NoNewUses
<1> QED
  BY <1>1, <1>2 DEF UInv, ClosedInv

(* A session's move away from "dial", or one that does not touch it.         *)
LEMMA SessionMoves ==
    ASSUME TypeOK, NEW s \in Sessions, UNCHANGED <<peers, snapshot, tunnels>>,
           \A r \in Sessions : r # s => pc'[r] = pc[r] /\ cmd'[r] = cmd[r] /\ held'[r] = held[r],
           pc'[s] # "dial"
    PROVE  NoNewUses /\ (SnapshotInv => SnapshotInv')
BY DEF NoNewUses, Uses, SnapshotInv

LEMMA DropMoves ==
    ASSUME TypeOK, NEW s \in Sessions, drop(s)
    PROVE  /\ \A r \in Sessions : r # s => pc'[r] = pc[r] /\ cmd'[r] = cmd[r] /\ held'[r] = held[r]
           /\ pc'[s] # "dial"
BY DEF TypeOK, drop, goto

(* A tunnel without a peer is closed while nobody connects.                  *)
LEMMA ValidateUses ==
    ASSUME TypeOK, UInv, mu = Free, validateTunnelsUnlocked, UNCHANGED snapshot,
           \A s \in Sessions : pc'[s] # "dial"
    PROVE  UInv'
<1> USE DEF TypeOK, UInv
<1>1. SnapshotInv'
  BY DEF SnapshotInv, validateTunnelsUnlocked
<1>2. ASSUME NEW o \in Orgs, NEW i \in Ids, Uses(o, i)'
      PROVE  Uses(o, i) /\ o \notin stray
  <2>1. i # 0 /\ (i = peers[o] \/ i = snapshot[o] \/ i = tunnels'[o])
    BY <1>2 DEF Uses, validateTunnelsUnlocked
  <2>2. CASE o \in stray
    BY <2>1, <2>2 DEF SnapshotInv, stray, validateTunnelsUnlocked
  <2>3. CASE o \notin stray
    BY <2>1, <2>3 DEF Uses, validateTunnelsUnlocked
  <2> QED
    BY <2>2, <2>3
<1>3. \A o \in stray : o \in Orgs /\ tunnels[o] \in Ids /\ Uses(o, tunnels[o])
  BY DEF stray, Uses
<1>4. ClosedInv'
  <2>1. \A o \in stray : tunnels[o] \in 1 .. made
    BY <1>3, TunnelsAssumption DEF OpenInv, stray, Ids
  <2> QED
    BY <2>1 DEF ClosedInv, validateTunnelsUnlocked
<1>5. OpenInv'
  <2> SUFFICES ASSUME NEW o \in Orgs, NEW i \in Ids, Uses(o, i)'
               PROVE  i <= made' /\ i \notin closed'
    BY DEF OpenInv
  <2>1. Uses(o, i) /\ o \notin stray
    BY <1>2
  <2>2. \A p \in stray : tunnels[p] # i
    BY <1>3, <2>1 DEF OwnerInv
  <2> QED
    BY <2>1, <2>2 DEF OpenInv, validateTunnelsUnlocked
<1>6. OwnerInv'
  BY <1>2 DEF OwnerInv
<1> QED
  BY <1>1, <1>4, <1>5, <1>6

(* A new peer is used by one organization, and by a tunnel never closed.     *)
LEMMA CreateUses ==
    ASSUME TypeOK, UInv, NEW s \in Sessions, CreatePeer(s)
    PROVE  UInv'
<1> USE DEF UInv
<1>1. cmd[s] \in Commands
  BY DEF CreatePeer, TypeOK
<1>2. cmd[s].org \in Orgs
  BY <1>1 DEF Commands
<1> DEFINE n == made + 1
           org == cmd[s].org
<1>3. made \in Nat /\ made' = n
  BY TunnelsAssumption DEF CreatePeer, TypeOK, Ids
<1>4. /\ peers' = [peers EXCEPT ![org] = n]
      /\ UNCHANGED <<tunnels, closed, snapshot>>
  BY DEF CreatePeer, clean
<1>5. /\ \A r \in Sessions : r # s => pc'[r] = pc[r] /\ cmd'[r] = cmd[r] /\ held'[r] = held[r]
      /\ pc'[s] = "dial" => held'[s] = n /\ cmd'[s] = cmd[s]
  BY DEF CreatePeer, return, drop, goto, TypeOK
<1>6. ASSUME NEW o \in Orgs, NEW i \in Ids, Uses(o, i)'
      PROVE  Uses(o, i) \/ (i = n /\ o = org)
  BY <1>2, <1>4, <1>5, <1>6 DEF Uses, TypeOK
<1> HIDE DEF org
<1>7. SnapshotInv'
  BY <1>2, <1>3, <1>4 DEF SnapshotInv, TypeOK
<1>8. ClosedInv'
  BY <1>3, <1>4 DEF ClosedInv
<1>9. OpenInv'
  BY <1>3, <1>4, <1>6 DEF OpenInv, ClosedInv, Ids
<1>10. OwnerInv'
  <2>1. \A o \in Orgs, i \in Ids : Uses(o, i) => i # n
    BY <1>3 DEF OpenInv, Ids
  <2> QED
    BY <1>6, <2>1 DEF OwnerInv
<1> QED
  BY <1>7, <1>8, <1>9, <1>10

LEMMA SessionUses ==
    ASSUME TypeOK, UInv, NEW s \in Sessions,
           ClientStep(s) \/ HolderStep(s) \/ LockStep(s)
    PROVE  UInv'
<1>s. SnapshotInv
  BY DEF UInv
<1>d. ASSUME drop(s), UNCHANGED <<tun, clean>> PROVE UInv'
  BY <1>s, <1>d, DropMoves, SessionMoves, FewerUses DEF tun, clean
<1>g. ASSUME NEW label, label # "dial", goto(s, label), UNCHANGED <<tun, clean>>,
             \A r \in Sessions : r # s => cmd'[r] = cmd[r] /\ held'[r] = held[r]
      PROVE  UInv'
  <2>1. pc'[s] # "dial" /\ \A r \in Sessions : r # s => pc'[r] = pc[r]
    BY <1>g DEF goto, TypeOK
  <2> QED
    BY <1>s, <1>g, <2>1, SessionMoves, FewerUses DEF tun, clean
<1>1. CASE Connect(s)
  BY <1>1, <1>g DEF Connect
<1>u. ASSUME UNCHANGED <<tun, clean, pc, cmd, held>> PROVE UInv'
  <2>1. NoNewUses /\ SnapshotInv' /\ UNCHANGED <<made, closed>>
    BY <1>u, <1>s DEF NoNewUses, Uses, SnapshotInv, tun, clean
  <2> QED
    BY <2>1, FewerUses
<1>2. CASE ReadCommand(s)
  BY <1>2, <1>d, <1>g, <1>u DEF ReadCommand, setToken, TypeOK
<1>3. CASE fetchOrg(s)
  BY <1>3, <1>d, <1>g DEF fetchOrg, TypeOK
<1>4. CASE ReusePeer(s)
  <2>1. cmd[s] \in Commands
    BY <1>4 DEF ReusePeer, TypeOK
  <2>2. cmd[s].org \in Orgs
    BY <2>1 DEF Commands
  <2>3. NoNewUses
    BY <1>4, <2>2 DEF ReusePeer, NoNewUses, Uses, TypeOK, goto, tun, clean
  <2>4. SnapshotInv' /\ UNCHANGED <<made, closed>>
    BY <1>4, <1>s DEF ReusePeer, SnapshotInv, tun, clean
  <2> QED
    BY <2>3, <2>4, FewerUses
<1>5. CASE CreatePeer(s)
  BY <1>5, CreateUses
<1>6. CASE CreateFails(s)
  BY <1>6, <1>d DEF CreateFails, return
<1>7. CASE ConnectTunnel(s)
  <2>1. cmd[s] \in Commands
    BY <1>7 DEF ConnectTunnel, TypeOK
  <2>2. cmd[s].org \in Orgs
    BY <2>1 DEF Commands
  <2>3. \A r \in Sessions : r # s => pc'[r] = pc[r] /\ cmd'[r] = cmd[r] /\ held'[r] = held[r]
    BY <1>7, DropMoves DEF ConnectTunnel, return
  <2>4. pc[s] = "dial" /\ pc'[s] # "dial"
    BY <1>7, DropMoves DEF ConnectTunnel, return
  <2>5. \A o \in Orgs : tunnels'[o] = tunnels[o] \/ (o = cmd[s].org /\ tunnels'[o] = held[s])
    BY <1>7, <2>2 DEF ConnectTunnel, TypeOK
  <2>6. UNCHANGED <<peers, made, closed, snapshot>>
    BY <1>7 DEF ConnectTunnel, clean
  <2>7. NoNewUses
    BY <2>3, <2>4, <2>5, <2>6 DEF NoNewUses, Uses
  <2>8. SnapshotInv'
    BY <2>6, <1>s DEF SnapshotInv
  <2> QED
    BY <2>6, <2>7, <2>8, FewerUses
<1>8. CASE doEstablish(s)
  BY <1>8, <1>g DEF doEstablish
<1>9. CASE checkForConfigChange(s)
  <2>1. CASE drop(s) /\ UNCHANGED <<changed, tun>>
    BY <1>9, <2>1, <1>d DEF checkForConfigChange
  <2>2. CASE goto(s, "command") /\ UNCHANGED <<tun, cmd, held>>
    BY <1>9, <2>2, <1>g DEF checkForConfigChange
  <2>3. CASE goto(s, "command") /\ validateTunnelsUnlocked
    <3>1. mu = Free /\ UNCHANGED snapshot
      BY <1>9 DEF checkForConfigChange, clean
    <3>2. \A r \in Sessions : pc'[r] # "dial"
      BY <2>3, <3>1, TunnelsAssumption DEF TypeOK, goto
    <3> QED
      BY <2>3, <3>1, <3>2, ValidateUses
  <2> QED
    BY <1>9, <2>1, <2>2, <2>3 DEF checkForConfigChange
<1>10. CASE buildTunnel(s)
  BY <1>10, <1>d, <1>g DEF buildTunnel
<1>11. CASE tunnelFor(s)
  BY <1>11, <1>d, <1>g DEF tunnelFor, TypeOK
<1>12. CASE UseTunnel(s)
  BY <1>12, <1>d, <1>u DEF UseTunnel, sess
<1> QED
  BY <1>1, <1>2, <1>3, <1>4, <1>5, <1>6, <1>7, <1>8, <1>9, <1>10, <1>11, <1>12
     DEF ClientStep, HolderStep, LockStep

LEMMA CleanerUses ==
    ASSUME TypeOK, UInv, Update \/ Cleaner \/ WriteConfig
    PROVE  UInv'
<1>1. CASE PruneReads
  <2>1. NoNewUses /\ UNCHANGED <<made, closed>>
    BY <1>1 DEF PruneReads, NoNewUses, Uses, tun, sess
  <2>2. SnapshotInv'
    BY <1>1 DEF PruneReads, SnapshotInv, tun
  <2> QED
    BY <2>1, <2>2, FewerUses
<1>2. CASE PruneInvalidPeers
  <2>1. NoNewUses
    BY <1>2 DEF PruneInvalidPeers, NoNewUses, Uses, TypeOK, sess
  <2>2. SnapshotInv' /\ UNCHANGED <<made, closed>>
    BY <1>2 DEF PruneInvalidPeers, SnapshotInv
  <2> QED
    BY <2>1, <2>2, FewerUses
<1>3. CASE validateTunnels
  <2>1. mu = Free /\ validateTunnelsUnlocked /\ UNCHANGED snapshot
    BY <1>3 DEF validateTunnels
  <2>2. \A r \in Sessions : pc'[r] # "dial"
    BY <1>3, TunnelsAssumption DEF validateTunnels, TypeOK, sess
  <2> QED
    BY <2>1, <2>2, ValidateUses
<1>4. CASE WriteConfig
  <2>1. NoNewUses /\ UNCHANGED <<made, closed>> /\ SnapshotInv'
    BY <1>4 DEF WriteConfig, UInv, NoNewUses, Uses, SnapshotInv, tun, sess, clean
  <2> QED
    BY <2>1, FewerUses
<1>5. CASE Update
  <2>1. NoNewUses /\ UNCHANGED <<made, closed>> /\ SnapshotInv'
    BY <1>5 DEF Update, UpdateLocks, UpdateTokensFromClient, UInv, NoNewUses, Uses,
                SnapshotInv, tun, sess, clean
  <2> QED
    BY <2>1, FewerUses
<1> QED
  BY <1>1, <1>2, <1>3, <1>4, <1>5 DEF Cleaner

LEMMA UStep == TypeOK /\ UInv /\ [Next]_vars => UInv'
<1>1. ASSUME TypeOK, UInv, UNCHANGED vars PROVE UInv'
  <2>1. NoNewUses /\ UNCHANGED <<made, closed>> /\ SnapshotInv'
    BY <1>1 DEF vars, UInv, NoNewUses, Uses, SnapshotInv, tun, sess, clean
  <2> QED
    BY <1>1, <2>1, FewerUses
<1> QED
  BY <1>1, SessionUses, CleanerUses DEF Next

(* With any number of sessions, organizations and peers, a closed tunnel     *)
(* never comes back into the map sessions are served from: not through the   *)
(* stale list of peers the cleaner writes back, nor through a session that   *)
(* looked its peer up before (tunnelFor, PruneInvalidPeers, buildTunnel).    *)
THEOREM MapStaysOpen == Spec => []MapTunnelsOpen
<1>1. TypeOK /\ UInv => MapTunnelsOpen
  <2> SUFFICES ASSUME TypeOK, UInv, NEW o \in Orgs PROVE tunnels[o] \notin closed
    BY DEF MapTunnelsOpen
  <2>1. CASE tunnels[o] = 0
    BY <2>1 DEF UInv, ClosedInv, TypeOK, Ids
  <2>2. CASE tunnels[o] # 0
    <3>1. tunnels[o] \in Ids /\ Uses(o, tunnels[o])
      BY <2>2 DEF Uses, TypeOK
    <3> QED
      BY <3>1 DEF UInv, OpenInv
  <2> QED
    BY <2>1, <2>2
<1> QED
  BY <1>1, TypeInit, TypeStep, UInit, UStep, PTL DEF Spec
=============================================================================
