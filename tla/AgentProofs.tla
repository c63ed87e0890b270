---------------------------- MODULE AgentProofs ----------------------------
(***************************************************************************)
(* Proofs about the agent's life, for any number of flyctl processes and   *)
(* versions, and any choice of what each process runs.                     *)
(***************************************************************************)
EXTENDS Agent, TLAPS

(* TypeOK alone does not say where an error leads: a connection is open only *)
(* while a request is under way.                                             *)
RequestInv ==
    \A c \in Clients :
        request[c] # "none" => pc[c] \in Pinging \cup {"connect", "using"}

TInv == TypeOK /\ RequestInv

LEMMA TypeInit == Init => TInv
<1> SUFFICES ASSUME Init PROVE TInv
  OBVIOUS
<1>1. PICK s \in Setups : cmd = s.cmd /\ version = s.version /\ background = s.background
  BY DEF Init
<1>2. /\ cmd \in [Clients -> Commands]
      /\ version \in [Procs -> Versions]
      /\ background \in {Procs, Clients}
  BY <1>1, AgentAssumption
<1>3. pc \in [Clients -> {"prune", "dial"}]
  BY DEF Init, Entry
<1> QED
  BY <1>2, <1>3 DEF Init, TInv, TypeOK, RequestInv, Pinging, Procs

(* The labels an error and an answer lead to.                                *)
LEMMA OnErrorLabel ==
    ASSUME TypeOK, NEW c \in Clients, pc[c] \in Pinging \cup {"connect", "using"}
    PROVE  onError(c) \in {"failed", "prune", "lock", "poll", "done"}
BY DEF onError, Pinging

LEMMA AfterPingLabel ==
    ASSUME TypeOK, NEW c \in Clients, pc[c] \in Pinging, NEW p
    PROVE  afterPing(c, p) \in {"failed", "killFirst", "kill", "connect", "done"}
<1>1. CASE pc[c] = "dial"
  BY <1>1 DEF afterPing
<1>2. CASE pc[c] = "ping"
  BY <1>2 DEF afterPing
<1>3. CASE pc[c] = "poll"
  BY <1>3 DEF afterPing
<1> QED
  BY <1>1, <1>2, <1>3 DEF Pinging

(* A step of a client keeps the types.                                       *)
LEMMA ClientType ==
    ASSUME TInv, NEW c \in Clients,
           ClientStep(c) \/ PollTimeout(c) \/ Hangup(c) \/ SessionStep(c)
    PROVE  TInv'
<1> USE DEF TInv, TypeOK, RequestInv, Pinging, config, req, client, server, goto, Procs
<1>1. CASE PruneInvalidPeers(c)
  BY <1>1 DEF PruneInvalidPeers, Pinging
<1>2. CASE Connect(c)
  BY <1>2 DEF Connect, Listening
<1>3. CASE RequestFails(c)
  <2>1. pc[c] \in Pinging \cup {"connect", "using"}
    BY <1>3 DEF RequestFails
  <2>2. onError(c) \in {"failed", "prune", "lock", "poll", "done"}
    BY <2>1, OnErrorLabel
  <2> QED
    BY <1>3, <2>2 DEF RequestFails, Pinging
<1>4. CASE Pong(c)
  <2>1. afterPing(c, conn[c]) \in {"failed", "killFirst", "kill", "connect", "done"}
    BY <1>4, AfterPingLabel DEF Pong
  <2>2. conn[c] \in Procs
    BY <1>4 DEF Pong
  <2> QED
    BY <1>4, <2>1, <2>2 DEF Pong, unlockStart
<1>5. CASE Kill(c)
  BY <1>5 DEF Kill, Listening
<1>6. CASE KillFails(c)
  BY <1>6 DEF KillFails
<1>7. CASE WaitUntilDeleted(c)
  BY <1>7 DEF WaitUntilDeleted
<1>8. CASE LockStart(c)
  BY <1>8 DEF LockStart, Pinging
<1>9. CASE Fork(c)
  BY <1>9 DEF Fork, unlockStart, Pinging
<1>10. CASE Connected(c)
  BY <1>10 DEF Connected
<1>11. CASE PollTimeout(c)
  BY <1>11 DEF PollTimeout, unlockStart
<1>12. CASE Hangup(c)
  BY <1>12 DEF Hangup
<1>13. CASE Accept(c)
  BY <1>13 DEF Accept
<1>14. CASE Answer(c)
  BY <1>14 DEF Answer
<1>15. CASE CloseSession(c)
  BY <1>15 DEF CloseSession
<1> QED
  BY <1>1, <1>2, <1>3, <1>4, <1>5, <1>6, <1>7, <1>8, <1>9, <1>10, <1>11, <1>12,
     <1>13, <1>14, <1>15
     DEF ClientStep, SessionStep

(* A step of an agent keeps the types.                                       *)
LEMMA AgentType ==
    ASSUME TInv, NEW p \in Procs, AgentStep(p) \/ Interrupt(p) \/ Crash(p)
    PROVE  TInv'
<1> USE DEF TInv, TypeOK, RequestInv, config, req, client, server, Procs, exit
<1>1. CASE Setup(p)
  BY <1>1 DEF Setup
<1>2. CASE LockAgent(p)
  BY <1>2 DEF LockAgent
<1>3. CASE RemoveSocket(p)
  BY <1>3 DEF RemoveSocket
<1>4. CASE BindSocket(p)
  BY <1>4 DEF BindSocket
<1>5. CASE StartServing(p)
  BY <1>5 DEF StartServing, dropped
<1>6. CASE HandleKill(p)
  BY <1>6 DEF HandleKill, dropped
<1>7. CASE LoopEnds(p)
  BY <1>7 DEF LoopEnds
<1>8. CASE Exit(p)
  BY <1>8 DEF Exit
<1>9. CASE Interrupt(p)
  BY <1>9 DEF Interrupt, dropped
<1>10. CASE Crash(p)
  BY <1>10 DEF Crash
<1> QED
  BY <1>1, <1>2, <1>3, <1>4, <1>5, <1>6, <1>7, <1>8, <1>9, <1>10 DEF AgentStep

LEMMA TypeStep == TInv /\ [Next]_vars => TInv'
<1>1. ASSUME TInv, UNCHANGED vars PROVE TInv'
  BY <1>1 DEF TInv, TypeOK, RequestInv, vars, config, req, client, server
<1> QED
  BY <1>1, ClientType, AgentType DEF Next

(* Every reachable state is well-typed, and no connection outlives the       *)
(* request it was dialed for.                                                *)
THEOREM TypeCorrect == Spec => []TInv
BY TypeInit, TypeStep, PTL DEF Spec

-----------------------------------------------------------------------------
(* ServingIsReachable is not inductive: nothing in it keeps a second agent   *)
(* from removing the path.  What does is the agent's lock, which an agent    *)
(* holds from before it removes the path until it ends, and that a client    *)
(* forks only once, so that no running agent is forked anew.                 *)

(* Where an agent is after it has the lock.                                  *)
Running == {"removing", "binding", "starting", "serving", "closing", "draining"}

(* An agent that runs holds the lock, and so is the only one.                *)
LockInv == \A p \in Procs : agent[p] \in Running => agentLock = p

(* A client whose agent is there has passed its only fork.                   *)
ForkInv ==
    \A c \in Clients :
        agent[c] # "none" => pc[c] \in {"poll", "connect", "using", "done", "failed"}

(* A client holds the start lock exactly while it forks and polls.           *)
StartInv == \A c \in Clients : startLock = c <=> pc[c] \in {"fork", "poll"}

AInv == LockInv /\ ForkInv /\ StartInv /\ ServingIsReachable

LEMMA AInit == Init => AInv
<1> SUFFICES ASSUME Init PROVE AInv
  OBVIOUS
<1>1. PICK there \in BOOLEAN :
        /\ agent = [p \in Procs |-> IF p # Initial THEN "none" ELSE
                                   IF there THEN "serving" ELSE "exited"]
        /\ agentLock = IF there THEN Initial ELSE None
        /\ socket \in IF there THEN {Initial} ELSE {Initial, None}
  BY DEF Init
<1>2. LockInv /\ ServingIsReachable
  BY <1>1 DEF LockInv, ServingIsReachable, Running
<1>3. \A c \in Clients : agent[c] = "none"
  BY <1>1, AgentAssumption DEF Procs
<1>4. \A c \in Clients : pc[c] \in {"prune", "dial"} /\ startLock # c
  BY AgentAssumption DEF Init, Entry, Procs
<1> QED
  BY <1>2, <1>3, <1>4 DEF AInv, ForkInv, StartInv

(* A client that moves on has its agent, or not, as before; only a fork      *)
(* makes one.                                                                *)
LEMMA ClientAgent ==
    ASSUME TInv, AInv, NEW c \in Clients,
           ClientStep(c) \/ PollTimeout(c) \/ Hangup(c) \/ SessionStep(c)
    PROVE  AInv'
<1> USE DEF TInv, TypeOK, RequestInv, Pinging, AInv, LockInv, ForkInv, StartInv,
            ServingIsReachable, Running, config, req, client, server, goto, Procs
<1> USE AgentAssumption
<1>1. CASE PruneInvalidPeers(c)
  BY <1>1 DEF PruneInvalidPeers
<1>2. CASE Connect(c)
  BY <1>2 DEF Connect
<1>3. CASE RequestFails(c)
  <2>1. pc[c] \in Pinging \cup {"connect", "using"}
    BY <1>3 DEF RequestFails
  <2>2. /\ pc[c] = "poll" <=> onError(c) = "poll"
        /\ pc[c] = "using" => onError(c) = "done"
        /\ pc[c] = "connect" => onError(c) = "failed"
        /\ onError(c) \in {"failed", "prune", "lock", "poll", "done"}
    BY <2>1 DEF onError
  <2> QED
    BY <1>3, <2>1, <2>2 DEF RequestFails
<1>4. CASE Pong(c)
  <2>1. afterPing(c, conn[c]) \in {"failed", "killFirst", "kill", "connect", "done"}
    BY <1>4, AfterPingLabel DEF Pong
  <2>2. pc[c] = "poll" => afterPing(c, conn[c]) \in {"connect", "done"}
    BY DEF afterPing
  <2> QED
    BY <1>4, <2>1, <2>2 DEF Pong, unlockStart
<1>5. CASE Kill(c)
  BY <1>5 DEF Kill
<1>6. CASE KillFails(c)
  BY <1>6 DEF KillFails
<1>7. CASE WaitUntilDeleted(c)
  BY <1>7 DEF WaitUntilDeleted
<1>8. CASE LockStart(c)
  BY <1>8 DEF LockStart
<1>9. CASE Fork(c)
  BY <1>9 DEF Fork, unlockStart
<1>10. CASE Connected(c)
  BY <1>10 DEF Connected
<1>11. CASE PollTimeout(c)
  BY <1>11 DEF PollTimeout, unlockStart
<1>12. CASE Hangup(c)
  BY <1>12 DEF Hangup
<1>13. CASE SessionStep(c)
  BY <1>13 DEF SessionStep, Accept, Answer, CloseSession
<1> QED
  BY <1>1, <1>2, <1>3, <1>4, <1>5, <1>6, <1>7, <1>8, <1>9, <1>10, <1>11, <1>12, <1>13
     DEF ClientStep

(* An agent touches the path only while it holds the lock.                   *)
LEMMA AgentAgent ==
    ASSUME TInv, AInv, NEW p \in Procs, AgentStep(p) \/ Interrupt(p) \/ Crash(p)
    PROVE  AInv'
<1> USE DEF TInv, TypeOK, AInv, LockInv, ForkInv, StartInv,
            ServingIsReachable, Running, config, req, client, server, Procs, exit
<1> USE AgentAssumption
<1>1. CASE Setup(p)
  BY <1>1 DEF Setup
<1>2. CASE LockAgent(p)
  BY <1>2 DEF LockAgent
<1>3. CASE RemoveSocket(p)
  BY <1>3 DEF RemoveSocket
<1>4. CASE BindSocket(p)
  BY <1>4 DEF BindSocket
<1>5. CASE StartServing(p)
  BY <1>5 DEF StartServing
<1>6. CASE HandleKill(p)
  BY <1>6 DEF HandleKill
<1>7. CASE LoopEnds(p)
  BY <1>7 DEF LoopEnds
<1>8. CASE Exit(p)
  BY <1>8 DEF Exit
<1>9. CASE Interrupt(p)
  BY <1>9 DEF Interrupt
<1>10. CASE Crash(p)
  BY <1>10 DEF Crash
<1> QED
  BY <1>1, <1>2, <1>3, <1>4, <1>5, <1>6, <1>7, <1>8, <1>9, <1>10 DEF AgentStep

LEMMA AStep == TInv /\ AInv /\ [Next]_vars => AInv'
<1>1. ASSUME AInv, UNCHANGED vars PROVE AInv'
  BY <1>1 DEF AInv, LockInv, ForkInv, StartInv, ServingIsReachable, vars, client, server
<1> QED
  BY <1>1, ClientAgent, AgentAgent DEF Next

(* However many flyctl processes start, stop, restart, replace or use the    *)
(* agent, and whatever crashes or is signalled meanwhile, an agent that      *)
(* waits for connections is the one at the socket's path (bind, shutdown).   *)
THEOREM ServingAtPath == Spec => []ServingIsReachable
<1>1. AInv => ServingIsReachable
  BY DEF AInv
<1> QED
  BY <1>1, TypeInit, TypeStep, AInit, AStep, PTL DEF Spec

(* One agent process at a time is past flyctl.agent.lock (run), and one      *)
(* client at a time between forking an agent and its first answer            *)
(* (StartDaemon).                                                            *)
OneAtATime ==
    /\ \A p, q \in Procs : agent[p] \in Running /\ agent[q] \in Running => p = q
    /\ \A c, d \in Clients : pc[c] \in {"fork", "poll"} /\ pc[d] \in {"fork", "poll"} => c = d

(* The two lock files exclude, with any number of processes: a client that   *)
(* fails or times out leaves the start lock to the next, a crashed agent     *)
(* leaves its lock.                                                          *)
THEOREM LocksExclude == Spec => []OneAtATime
<1>1. AInv => OneAtATime
  BY DEF AInv, LockInv, StartInv, OneAtATime
<1> QED
  BY <1>1, TypeInit, TypeStep, AInit, AStep, PTL DEF Spec
=============================================================================
