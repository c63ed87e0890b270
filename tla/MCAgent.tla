------------------------------ MODULE MCAgent ------------------------------
(* Who runs what in the run of the agent's life. *)
EXTENDS Agent, TLC

CONSTANTS c1, c2

TwoClients == {c1, c2}

Setup2(k1, k2, v1, v2, bg) ==
    [cmd |-> c1 :> k1 @@ c2 :> k2,
     version |-> c1 :> v1 @@ c2 :> v2 @@ Initial :> 1,
     background |-> bg]

\* Two users after an upgrade of flyctl, with an old agent in the background
\* or in the foreground; users of two versions; and the agent's commands
\* beside a user of the same version.
SomeSetups ==
    { Setup2("use", "use", 2, 2, Procs),
      Setup2("use", "use", 2, 1, Clients),
      Setup2("use", "restart", 1, 1, Procs),
      Setup2("start", "stop", 1, 1, Procs) }
=============================================================================
