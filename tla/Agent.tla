------------------------------- MODULE Agent -------------------------------
(***************************************************************************)
(* The life of the agent: agent/client.go (Establish, Dial, Kill),         *)
(* agent/start.go (StartDaemon), internal/command/agent (start, stop,      *)
(* restart, run) and the accept loop, sessions and shutdown of             *)
(* agent/server.                                                           *)
(*                                                                         *)
(* Several flyctl processes share one agent.  They find it at a socket,    *)
(* start it when it does not answer, and shut it down when it is another   *)
(* version.  Two lock files order this: one is held by a client while it   *)
(* starts an agent, the other by an agent as long as it runs.  A client    *)
(* starts at most one agent, so the agent that client c forks is called c. *)
(*                                                                         *)
(* A request is a connection that the listener queues, the accept loop     *)
(* hands to a session and the session answers; a client's next request is  *)
(* a new connection.  The handshake of tokens before a request is left     *)
(* out, as is what a session does to answer (AgentTunnels).                 *)
(***************************************************************************)
EXTENDS Naturals

CONSTANTS Clients,      \* flyctl processes, and the agents they fork
          Initial,      \* the agent that was there before them
          None,
          Versions,     \* of flyctl and its agent
          Setups        \* who runs what: see AgentAssumption

Procs == Clients \cup {Initial}

Commands == {"use", "start", "stop", "restart"}

ASSUME AgentAssumption ==
    /\ Initial \notin Clients
    /\ None \notin Procs
    /\ Setups \subseteq [cmd : [Clients -> Commands],
                         version : [Procs -> Versions],
                         background : {Procs, Clients}]

VARIABLES
    cmd,        \* the command a client runs
    version,    \* of a client and the agent it forks
    background, \* the agents with a log file: all but a foreground Initial
    pc,         \* where a client stands
    conn,       \* the agent a client's request went to
    request,    \* what has become of it
    got,        \* the agent Establish returned
    startLock,  \* who holds flyctl.agent.start.lock
    agentLock,  \* who holds flyctl.agent.lock
    socket,     \* whose listener made the file at the socket's path
    agent,      \* where an agent process stands
    kills       \* the clients whose kill an agent has yet to read

config == <<cmd, version, background>>
req    == <<conn, request>>
client == <<pc, got, startLock>>
server == <<agentLock, socket, agent, kills>>
vars   == <<config, req, client, server>>

Pinging == {"dial", "ping", "poll"}

\* The agent's listener is open: what is at the socket's path answers a dial.
Listening(p) == p \in Procs /\ agent[p] \in {"starting", "serving"}

\* Where the commands begin: start, stop and restart dial the agent first.
Entry(c) == IF cmd[c] = "use" THEN "prune" ELSE "dial"

Init ==
    /\ \E s \in Setups : /\ cmd = s.cmd
                         /\ version = s.version
                         /\ background = s.background
    /\ pc = [c \in Clients |-> Entry(c)]
    /\ conn = [c \in Clients |-> None]
    /\ request = [c \in Clients |-> "none"]
    /\ got = [c \in Clients |-> None]
    /\ startLock = None
    /\ \E there \in BOOLEAN :
        /\ agent = [p \in Procs |-> IF p # Initial THEN "none" ELSE
                                    IF there THEN "serving" ELSE "exited"]
        /\ agentLock = IF there THEN Initial ELSE None
        /\ socket \in IF there THEN {Initial} ELSE {Initial, None}
    /\ kills = [p \in Procs |-> {}]

-----------------------------------------------------------------------------
(* The client. *)

\* StartDaemon returns: its deferred unlock.
unlockStart(c) == startLock' = IF startLock = c THEN None ELSE startLock

goto(c, label) == pc' = [pc EXCEPT ![c] = label]

\* Establish: PruneInvalidPeers, which fails without an answer of the API.
PruneInvalidPeers(c) ==
    /\ pc[c] = "prune"
    /\ \/ goto(c, "ping")
       \/ goto(c, "failed")
    /\ UNCHANGED <<config, req, got, startLock, server>>

\* dialContext: a connection that the agent has not accepted yet.
Connect(c) ==
    /\ pc[c] \in Pinging \cup {"connect"}
    /\ request[c] = "none"
    /\ Listening(socket)
    /\ conn' = [conn EXCEPT ![c] = socket]
    /\ request' = [request EXCEPT ![c] = "queued"]
    /\ UNCHANGED <<config, client, server>>

\* What Ping's error leads to: runStart and runRestart go on to Establish,
\* which starts the daemon; waitForClient pauses and tries again.
onError(c) ==
    CASE pc[c] = "dial" /\ cmd[c] = "stop" -> "failed"
      [] pc[c] = "dial" /\ cmd[c] # "stop" -> "prune"
      [] pc[c] = "ping"    -> "lock"
      [] pc[c] = "poll"    -> "poll"
      [] pc[c] = "connect" -> "failed"
      [] pc[c] = "using"   -> "done"

RequestFails(c) ==
    /\ \/ pc[c] \in Pinging \cup {"connect"} /\ request[c] = "none" /\ ~Listening(socket)
       \/ request[c] = "closed"
    /\ goto(c, onError(c))
    /\ conn' = [conn EXCEPT ![c] = None]
    /\ request' = [request EXCEPT ![c] = "none"]
    /\ UNCHANGED <<config, got, startLock, server>>

\* Establish keeps an agent of its own version, and one in the foreground.
acceptable(c, p) == version[p] = version[c] \/ p \notin background

afterPing(c, p) ==
    CASE pc[c] = "dial" /\ cmd[c] = "start"        -> "failed"
      [] pc[c] = "dial" /\ cmd[c] # "start"        -> "killFirst"
      [] pc[c] = "ping" /\ ~acceptable(c, p)       -> "kill"
      [] \/ pc[c] = "ping" /\ acceptable(c, p)
         \/ pc[c] = "poll"                         -> IF cmd[c] = "use" THEN "connect" ELSE "done"

\* Ping has its answer.
Pong(c) ==
    /\ pc[c] \in Pinging
    /\ request[c] = "answered"
    /\ LET p == conn[c] IN
        /\ goto(c, afterPing(c, p))
        /\ got' = [got EXCEPT ![c] = IF afterPing(c, p) \in {"connect", "done"} THEN p ELSE @]
    /\ unlockStart(c)
    /\ conn' = [conn EXCEPT ![c] = None]
    /\ request' = [request EXCEPT ![c] = "none"]
    /\ UNCHANGED <<config, server>>

\* Kill writes its command and does not wait for the answer.
Kill(c) ==
    /\ pc[c] \in {"kill", "killFirst"}
    /\ Listening(socket)
    /\ kills' = [kills EXCEPT ![socket] = @ \cup {c}]
    /\ goto(c, IF pc[c] = "kill" THEN "waitUntilDeleted"
               ELSE IF cmd[c] = "stop" THEN "done" ELSE "prune")
    /\ UNCHANGED <<config, req, got, startLock, agentLock, socket, agent>>

KillFails(c) ==
    /\ pc[c] \in {"kill", "killFirst"}
    /\ ~Listening(socket)
    /\ goto(c, IF pc[c] = "killFirst" /\ cmd[c] = "restart" THEN "prune" ELSE "failed")
    /\ UNCHANGED <<config, req, got, startLock, server>>

\* waitUntilDeleted: until the socket is gone, or for a second.
WaitUntilDeleted(c) ==
    /\ pc[c] = "waitUntilDeleted"
    /\ goto(c, "lock")
    /\ UNCHANGED <<config, req, got, startLock, server>>

\* StartDaemon: filemu.Lock tries for a second.
LockStart(c) ==
    /\ pc[c] = "lock"
    /\ \/ startLock = None /\ startLock' = c /\ goto(c, "fork")
       \/ startLock # None /\ goto(c, "failed") /\ UNCHANGED startLock
    /\ UNCHANGED <<config, req, got, server>>

\* It does not look again whether an agent is there by now.
Fork(c) ==
    /\ pc[c] = "fork"
    /\ \/ /\ agent' = [agent EXCEPT ![c] = "forked"]
          /\ goto(c, "poll")
          /\ UNCHANGED startLock
       \/ /\ goto(c, "failed")
          /\ unlockStart(c)
          /\ UNCHANGED agent
    /\ UNCHANGED <<config, req, got, agentLock, socket, kills>>

\* Without the timeout.
PollTimeout_missing(c) ==
    /\ pc[c] = "poll"
    /\ request[c] = "answered"
    /\ goto(c, "failed")
    /\ unlockStart(c)
    /\ conn' = [conn EXCEPT ![c] = None]
    /\ request' = [request EXCEPT ![c] = "none"]
    /\ UNCHANGED <<config, got, server>>

\* waitForClient gives up after five seconds, its ping with it.
PollTimeout(c) ==
    /\ pc[c] = "poll"
    /\ goto(c, "failed")
    /\ unlockStart(c)
    /\ conn' = [conn EXCEPT ![c] = None]
    /\ request' = [request EXCEPT ![c] = "none"]
    /\ UNCHANGED <<config, got, server>>

\* The dialer's connection is open: the session copies bytes until an end closes.
Connected(c) ==
    /\ pc[c] = "connect"
    /\ request[c] = "answered"
    /\ goto(c, "using")
    /\ UNCHANGED <<config, req, got, startLock, server>>

Hangup(c) ==
    /\ pc[c] = "using"
    /\ goto(c, "done")
    /\ conn' = [conn EXCEPT ![c] = None]
    /\ request' = [request EXCEPT ![c] = "none"]
    /\ UNCHANGED <<config, got, startLock, server>>

-----------------------------------------------------------------------------
(* The agent. *)

\* The requests at agent p in one of the states become closed.
dropped(p, states) ==
    request' = [c \in Clients |-> IF conn[c] = p /\ request[c] \in states
                                  THEN "closed" ELSE request[c]]

\* run: the logger, and a token.
Setup(p) ==
    /\ agent[p] = "forked"
    /\ \E next \in {"locking", "exited"} : agent' = [agent EXCEPT ![p] = next]
    /\ UNCHANGED <<config, req, client, agentLock, socket, kills>>

\* Without the lock.
LockAgent_unlocked(p) ==
    /\ agent[p] = "locking"
    /\ agentLock' = p
    /\ agent' = [agent EXCEPT ![p] = "removing"]
    /\ UNCHANGED <<config, req, client, socket, kills>>

\* run: filemu.Lock, for a second.
LockAgent(p) ==
    /\ agent[p] = "locking"
    /\ \/ /\ agentLock = None
          /\ agentLock' = p
          /\ agent' = [agent EXCEPT ![p] = "removing"]
       \/ /\ agentLock # None
          /\ agent' = [agent EXCEPT ![p] = "exited"]
          /\ UNCHANGED agentLock
    /\ UNCHANGED <<config, req, client, socket, kills>>

\* run returns: its deferred unlock.
exit(p) ==
    /\ agent' = [agent EXCEPT ![p] = "exited"]
    /\ agentLock' = IF agentLock = p THEN None ELSE agentLock

\* bind: the file of an agent that did not remove it is in the way.
RemoveSocket(p) ==
    /\ agent[p] = "removing"
    /\ \/ /\ socket' = None
          /\ agent' = [agent EXCEPT ![p] = "binding"]
          /\ UNCHANGED agentLock
       \/ exit(p) /\ UNCHANGED socket
    /\ UNCHANGED <<config, req, client, kills>>

BindSocket(p) ==
    /\ agent[p] = "binding"
    /\ \/ /\ socket = None
          /\ socket' = p
          /\ agent' = [agent EXCEPT ![p] = "starting"]
          /\ UNCHANGED agentLock
       \/ exit(p) /\ UNCHANGED socket
    /\ UNCHANGED <<config, req, client, kills>>

\* Run: without a configuration file the listener is closed again; otherwise
\* the tokens are looked after and serve begins.
StartServing(p) ==
    /\ agent[p] = "starting"
    /\ \/ /\ agent' = [agent EXCEPT ![p] = "serving"]
          /\ UNCHANGED <<req, agentLock, socket>>
       \/ /\ exit(p)
          /\ socket' = None
          /\ dropped(p, {"queued"})
          /\ UNCHANGED conn
    /\ UNCHANGED <<config, client, kills>>

\* serve: the accept loop starts a session.
Accept(c) ==
    /\ request[c] = "queued"
    /\ agent[conn[c]] = "serving"
    /\ request' = [request EXCEPT ![c] = "accepted"]
    /\ UNCHANGED <<config, conn, client, server>>

\* runCommand answers, or with an error; a session may still do so while the
\* agent shuts down.
Answer(c) ==
    /\ request[c] = "accepted"
    /\ \E reply \in {"answered", "closed"} : request' = [request EXCEPT ![c] = reply]
    /\ UNCHANGED <<config, conn, client, server>>

\* Connections that are in use are left to end by themselves.
CloseSession_onlyIdle(c) ==
    /\ request[c] = "accepted"
    /\ agent[conn[c]] = "draining"
    /\ request' = [request EXCEPT ![c] = "closed"]
    /\ UNCHANGED <<config, conn, client, server>>

\* runSession's goroutine closes the connection when the context is done.
CloseSession(c) ==
    /\ \/ request[c] = "accepted"
       \/ request[c] = "answered" /\ pc[c] = "using"
    /\ agent[conn[c]] = "draining"
    /\ request' = [request EXCEPT ![c] = "closed"]
    /\ UNCHANGED <<config, conn, client, server>>

\* kill: shutdown closes the listener, which unlinks the path.
HandleKill(p) ==
    /\ agent[p] = "serving"
    /\ kills[p] # {}
    /\ agent' = [agent EXCEPT ![p] = "closing"]
    /\ socket' = None
    /\ dropped(p, {"queued"})
    /\ UNCHANGED <<config, conn, client, agentLock, kills>>

\* serve: Accept's error ends the loop and cancels the sessions' context.
LoopEnds(p) ==
    /\ agent[p] = "closing"
    /\ agent' = [agent EXCEPT ![p] = "draining"]
    /\ UNCHANGED <<config, req, client, agentLock, socket, kills>>

\* SIGINT or SIGTERM cancels the context, and serve closes the listener.
Interrupt(p) ==
    /\ agent[p] = "serving"
    /\ agent' = [agent EXCEPT ![p] = "draining"]
    /\ socket' = None
    /\ dropped(p, {"queued"})
    /\ UNCHANGED <<config, conn, client, agentLock, kills>>

\* serve: eg.Wait returns when no session is left.
inSession(p) ==
    { c \in Clients : /\ conn[c] = p
                      /\ \/ request[c] = "accepted"
                         \/ request[c] = "answered" /\ pc[c] = "using" }

Exit(p) ==
    /\ agent[p] = "draining"
    /\ inSession(p) = {}
    /\ exit(p)
    /\ UNCHANGED <<config, req, client, socket, kills>>

\* The process dies: the system drops its locks and connections, not the file.
\* (Before it has a lock that is no different from failing in Setup.)
Crash(p) ==
    /\ agent[p] \notin {"none", "forked", "locking", "exited"}
    /\ exit(p)
    /\ request' = [c \in Clients |->
                    IF /\ conn[c] = p
                       /\ \/ request[c] \in {"queued", "accepted"}
                          \/ request[c] = "answered" /\ pc[c] = "using"
                    THEN "closed" ELSE request[c]]
    /\ UNCHANGED <<config, conn, client, socket, kills>>

ClientStep(c) ==
    \/ PruneInvalidPeers(c) \/ Connect(c) \/ RequestFails(c) \/ Pong(c)
    \/ Kill(c) \/ KillFails(c) \/ WaitUntilDeleted(c)
    \/ LockStart(c) \/ Fork(c) \/ Connected(c)

SessionStep(c) == Accept(c) \/ Answer(c) \/ CloseSession(c)

AgentStep(p) ==
    \/ Setup(p) \/ LockAgent(p) \/ RemoveSocket(p) \/ BindSocket(p) \/ StartServing(p)
    \/ HandleKill(p) \/ LoopEnds(p) \/ Exit(p)

Next ==
    \/ \E c \in Clients : ClientStep(c) \/ PollTimeout(c) \/ Hangup(c) \/ SessionStep(c)
    \/ \E p \in Procs : AgentStep(p) \/ Interrupt(p) \/ Crash(p)

Spec == Init /\ [][Next]_vars

\* Neither a signal, a crash nor the end of a user's connection is certain.
FairSpec ==
    /\ Spec
    /\ \A c \in Clients : /\ WF_vars(ClientStep(c))
                          /\ WF_vars(PollTimeout(c))
                          /\ WF_vars(SessionStep(c))
    /\ \A p \in Procs : WF_vars(AgentStep(p))

-----------------------------------------------------------------------------
(* Properties *)

\* The variables have their types, and a request that is under way has an
\* agent at its other end (dialContext fails when nobody listens).
TypeOK ==
    /\ cmd \in [Clients -> Commands]
    /\ version \in [Procs -> Versions]
    /\ background \in {Procs, Clients}
    /\ pc \in [Clients -> Pinging \cup {"prune", "connect", "using", "kill", "killFirst",
                                        "waitUntilDeleted", "lock", "fork", "done", "failed"}]
    /\ conn \in [Clients -> Procs \cup {None}]
    /\ request \in [Clients -> {"none", "queued", "accepted", "answered", "closed"}]
    /\ \A c \in Clients : request[c] # "none" => conn[c] \in Procs
    /\ got \in [Clients -> Procs \cup {None}]
    /\ startLock \in Clients \cup {None}
    /\ agentLock \in Procs \cup {None}
    /\ socket \in Procs \cup {None}
    /\ agent \in [Procs -> {"none", "forked", "locking", "removing", "binding", "starting",
                            "serving", "closing", "draining", "exited"}]
    /\ kills \in [Procs -> SUBSET Clients]

\* An agent that waits for connections is the one at the socket's path, and
\* so the only one: no starting, stopping or crashed agent removes or takes
\* over the path of a running one (bind removes whatever is there, and
\* closing a listener unlinks the path without looking).
ServingIsReachable ==
    \A p \in Procs : agent[p] \in {"starting", "serving"} => socket = p

\* Every command returns, unless it is a connection its user keeps open:
\* Establish's ping has no timeout of its own and relies on the agent
\* answering or closing every connection it has queued.
CommandsReturn == \A c \in Clients : <>(pc[c] \in {"using", "done", "failed"})

\* An agent told to stop ends and frees its lock, whatever connections are
\* open, so that the next agent can start (shutdown closes the listener only;
\* the rest follows from the accept loop's error).
ShutdownEnds == \A p \in Procs : agent[p] = "closing" ~> agent[p] = "exited"
=============================================================================
