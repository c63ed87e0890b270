---------------------------- MODULE ConfigTokens ----------------------------
(***************************************************************************)
(* The access tokens in the configuration file and in the processes that   *)
(* share it (internal/config/file.go, internal/config/tokens.go,           *)
(* flyctl/flyctl.go, agent/server/server.go).                              *)
(*                                                                         *)
(* Long-running processes, the agent and a deploy, keep the tokens in      *)
(* memory: a monitor copies the file into memory every fifteen seconds,    *)
(* and a refresher renews the tokens every minute, first in memory, then   *)
(* in the file.  Short commands log in, log out or set another key of the  *)
(* file.  Every change of the file reads all of it under a shared lock and *)
(* writes all of it under an exclusive lock taken afterwards.  Before any  *)
(* of this a process reads the file once without the lock, into viper; of  *)
(* that copy it uses the maps it writes back whole, the WireGuard peers    *)
(* and the minimum versions of the secrets.  A process may be killed at    *)
(* any step.                                                               *)
(*                                                                         *)
(* Of the file are kept the tokens, as the login they come from and how    *)
(* often they were renewed, and whether the maps still have the entries    *)
(* they had at the start.                                                  *)
(***************************************************************************)
EXTENDS Naturals, Sequences

CONSTANTS Holders,        \* processes that keep the tokens in memory
          Commands,       \* short commands, each run once
          FromEnv,        \* holders that start with FLY_API_TOKEN
          Free,           \* of the locks
          MaxLogins,      \* bound: logins
          MaxRefreshes    \* bound: renewals by the API

Writers == Holders \cup Commands

ASSUME TokensAssumption ==
    /\ FromEnv \subseteq Holders
    /\ Holders \cap Commands = {}
    /\ Free \notin Writers
    /\ MaxLogins \in Nat \ {0}
    /\ MaxRefreshes \in Nat

VARIABLES
    file,       \* what is in the file
    flock,      \* who holds flyctl.config.lock to write
    todo,       \* the changes of the file a process has still to make
    wpc,        \* where its current change stands
    snap,       \* the file as it read it
    viper,      \* the maps as a command read them when it started
    mem,        \* the tokens a holder has in memory
    hpc,        \* a holder: off, starting or running
    source,     \* where its tokens come from: env or file
    monitor,    \* its monitor: off, waiting or replacing
    seen,       \* the file as the monitor or set-token read it
    refresher,  \* its refresher: waiting, asking or saving
    local,      \* the copy of the tokens the refresher works on
    before,     \* the copy it compares with later
    persist,    \* the refresher still writes the file
    logins, refreshes,
    torn,       \* a process was killed while it wrote
    cleared     \* a login or a logout has begun

fil     == <<file, flock, torn>>
sets    == <<todo, wpc, snap>>
user    == <<viper, cleared>>
watch   == <<monitor, seen>>
fresh   == <<refresher, local, before, persist>>
issued  == <<logins, refreshes>>
vars    == <<fil, sets, user, mem, hpc, source, watch, fresh, issued>>

Token   == [login : 0 .. MaxLogins, rev : 0 .. MaxRefreshes]
NoToken == [login |-> 0, rev |-> 0]

Maps     == {"there", "none"}
Contents == [tok : Token, maps : Maps]

\* The decoders take an empty file for one without keys.
Empty == [tok |-> NoToken, maps |-> "none"]

\* A change of the file sets some keys and keeps the others; one that "must"
\* succeed ends its process when it fails.
Change(keys, new, must) == [keys |-> keys, new |-> new, must |-> must]

SetToken(tok, must) == Change({"tok"}, [tok |-> tok, maps |-> "none"], must)
SetMaps(maps)       == Change({"maps"}, [tok |-> NoToken, maps |-> maps], TRUE)
SetOther(must)      == Change({}, Empty, must)
Clear(must)         == Change({"tok", "maps"}, Empty, must)

Init ==
    /\ file = [tok |-> [login |-> 1, rev |-> 0], maps |-> "there"]
    /\ flock = Free
    /\ todo = [w \in Writers |-> <<>>]
    /\ wpc = [w \in Writers |-> "idle"]
    /\ snap = [w \in Writers |-> Empty]
    /\ viper = [c \in Commands |-> "unread"]
    /\ mem = [p \in Holders |-> NoToken]
    /\ hpc = [p \in Holders |-> "off"]
    /\ source = [p \in Holders |-> IF p \in FromEnv THEN "env" ELSE "file"]
    /\ monitor = [p \in Holders |-> "off"]
    /\ seen = [p \in Holders |-> NoToken]
    /\ refresher = [p \in Holders |-> "waiting"]
    /\ local = [p \in Holders |-> NoToken]
    /\ before = [p \in Holders |-> NoToken]
    /\ persist = [p \in Holders |-> TRUE]
    /\ logins = 1
    /\ refreshes = 0
    /\ torn = FALSE
    /\ cleared = FALSE

-----------------------------------------------------------------------------
(* Changing the file: set, unmarshal, marshal. *)

\* A command ends after its changes, a holder goes on.
after(w) == IF w \in Commands THEN "gone" ELSE "idle"

begin(w, changes) ==
    /\ todo' = [todo EXCEPT ![w] = changes]
    /\ wpc' = [wpc EXCEPT ![w] = IF changes = <<>> THEN after(w) ELSE "read"]
    /\ UNCHANGED snap

\* The change is over, and the next one begins.
next(w) ==
    /\ todo' = [todo EXCEPT ![w] = Tail(@)]
    /\ wpc' = [wpc EXCEPT ![w] = IF Tail(todo[w]) = <<>> THEN after(w) ELSE "read"]
    /\ snap' = [snap EXCEPT ![w] = Empty]

\* The refresher that fails to write does not try again.
failed(w) == [p \in Holders |-> persist[p] /\ (p = w => refresher[p] # "saving")]

\* unmarshal under the shared lock: readable while nobody writes.
Read_unlocked(w) ==
    /\ wpc[w] = "read"
    /\ snap' = [snap EXCEPT ![w] = file]
    /\ wpc' = [wpc EXCEPT ![w] = "write"]
    /\ UNCHANGED <<fil, todo, user, mem, hpc, source, watch, fresh, issued>>

Read(w) ==
    /\ wpc[w] = "read"
    /\ flock = Free
    /\ snap' = [snap EXCEPT ![w] = file]
    /\ wpc' = [wpc EXCEPT ![w] = "write"]
    /\ UNCHANGED <<fil, todo, user, mem, hpc, source, watch, fresh, issued>>

\* marshal: os.WriteFile empties the file, and then writes.
Truncate(w) ==
    /\ wpc[w] = "write"
    /\ flock = Free
    /\ flock' = w
    /\ file' = Empty
    /\ wpc' = [wpc EXCEPT ![w] = "writing"]
    /\ UNCHANGED <<torn, todo, snap, user, mem, hpc, source, watch, fresh, issued>>

\* set: the new values over the ones read.
copied(c, old) ==
    [ tok  |-> IF "tok" \in c.keys THEN c.new.tok ELSE old.tok,
      maps |-> IF "maps" \in c.keys THEN c.new.maps ELSE old.maps ]

Write(w) ==
    /\ wpc[w] = "writing"
    /\ file' = copied(Head(todo[w]), snap[w])
    /\ flock' = Free
    /\ next(w)
    /\ UNCHANGED <<torn, user, mem, hpc, source, watch, fresh, issued>>

\* filemu: the lock cannot be had within a second.
LockFails(w) ==
    /\ wpc[w] \in {"read", "write"}
    /\ flock # Free
    /\ IF Head(todo[w]).must
       THEN /\ wpc' = [wpc EXCEPT ![w] = after(w)]
            /\ todo' = [todo EXCEPT ![w] = <<>>]
            /\ snap' = [snap EXCEPT ![w] = Empty]
       ELSE next(w)
    /\ persist' = failed(w)
    /\ UNCHANGED <<fil, user, mem, hpc, source, watch, refresher, local, before, issued>>

-----------------------------------------------------------------------------
(* Commands. *)

\* InitConfig: the file is read whether or not somebody writes it.
initViper(c) ==
    /\ viper[c] = "unread"
    /\ viper' = [viper EXCEPT ![c] = file.maps]
    /\ UNCHANGED <<fil, sets, cleared, mem, hpc, source, watch, fresh, issued>>

started(c) == wpc[c] = "idle" /\ viper[c] # "unread"

\* SaveToken: clears the file, sets the new token, and the time of the login.
Login(c) ==
    /\ started(c)
    /\ logins < MaxLogins
    /\ logins' = logins + 1
    /\ cleared' = TRUE
    /\ LET tok == [login |-> logins + 1, rev |-> 0] IN
       begin(c, <<Clear(FALSE), SetToken(tok, TRUE), SetOther(TRUE)>>)
    /\ UNCHANGED <<fil, viper, mem, hpc, source, watch, fresh, refreshes>>

\* runLogout.  It asks the agent to end first, which does so when it can.
Logout(c) ==
    /\ started(c)
    /\ cleared' = TRUE
    /\ begin(c, <<Clear(TRUE)>>)
    /\ UNCHANGED <<fil, viper, mem, hpc, source, watch, fresh, issued>>

\* setWireGuardState and setMinvers write the map of viper, with an entry of
\* their own, back; SetMetricsToken and the like only their own key.
SetKey(c) ==
    /\ started(c)
    /\ \E change \in {SetMaps(viper[c]), SetOther(TRUE)} : begin(c, <<change>>)
    /\ UNCHANGED <<fil, user, mem, hpc, source, watch, fresh, issued>>

-----------------------------------------------------------------------------
(* Holders: MonitorTokens. *)

\* Load: the environment goes before the file.
Load(p) ==
    /\ hpc[p] = "off"
    /\ wpc[p] = "idle"
    /\ flock = Free
    /\ mem' = [mem EXCEPT ![p] = IF source[p] = "env" THEN NoToken ELSE file.tok]
    /\ hpc' = [hpc EXCEPT ![p] = "starting"]
    /\ UNCHANGED <<fil, sets, user, source, watch, fresh, issued>>

\* The API renews the tokens of a login, or has nothing new.
Renewed(tok) ==
    { t \in Token : /\ tok.login # 0
                    /\ refreshes < MaxRefreshes
                    /\ t = [login |-> tok.login, rev |-> refreshes + 1] }

\* MonitorTokens renews once and saves, without a look at the file, before the
\* two loops begin.
StartMonitoring(p) ==
    /\ hpc[p] = "starting"
    /\ wpc[p] = "idle"
    /\ hpc' = [hpc EXCEPT ![p] = "running"]
    /\ monitor' = [monitor EXCEPT ![p] = IF source[p] = "file" THEN "waiting" ELSE "off"]
    /\ \/ /\ UNCHANGED <<mem, refreshes, sets>>
       \/ \E t \in Renewed(mem[p]) :
            /\ mem' = [mem EXCEPT ![p] = t]
            /\ refreshes' = refreshes + 1
            /\ begin(p, IF source[p] = "file" THEN <<SetToken(t, FALSE)>> ELSE <<>>)
    /\ UNCHANGED <<fil, user, source, seen, fresh, logins>>

running(p) == hpc[p] = "running" /\ wpc[p] = "idle"

\* monitorConfigTokenChanges: reads the file, and stops for good when it cannot.
MonitorRead(p) ==
    /\ monitor[p] = "waiting"
    /\ IF flock = Free
       THEN /\ seen' = [seen EXCEPT ![p] = file.tok]
            /\ monitor' = [monitor EXCEPT ![p] = "replacing"]
       ELSE /\ monitor' = [monitor EXCEPT ![p] = "off"]
            /\ UNCHANGED seen
    /\ UNCHANGED <<fil, sets, user, mem, hpc, source, fresh, issued>>

\* Replace under the mutex, which the refresher holds while it saves.
MonitorReplace_ignored(p) ==
    /\ monitor[p] = "replacing"
    /\ refresher[p] # "saving"
    /\ monitor' = [monitor EXCEPT ![p] = "waiting"]
    /\ seen' = [seen EXCEPT ![p] = NoToken]
    /\ UNCHANGED <<fil, sets, user, mem, hpc, source, fresh, issued>>

MonitorReplace(p) ==
    /\ monitor[p] = "replacing"
    /\ refresher[p] # "saving"
    /\ mem' = [mem EXCEPT ![p] = seen[p]]
    /\ monitor' = [monitor EXCEPT ![p] = "waiting"]
    /\ seen' = [seen EXCEPT ![p] = NoToken]
    /\ UNCHANGED <<fil, sets, user, hpc, source, fresh, issued>>

\* keepConfigTokensFresh copies the tokens twice, without its mutex, and asks
\* the API about the first copy.
RefreshBegin(p) ==
    /\ running(p)
    /\ refresher[p] = "waiting"
    /\ Renewed(mem[p]) # {}
    /\ local' = [local EXCEPT ![p] = mem[p]]
    /\ refresher' = [refresher EXCEPT ![p] = "copying"]
    /\ UNCHANGED <<fil, sets, user, mem, hpc, source, watch, before, persist, issued>>

RefreshCopy(p) ==
    /\ refresher[p] = "copying"
    /\ before' = [before EXCEPT ![p] = mem[p]]
    /\ refresher' = [refresher EXCEPT ![p] = "asking"]
    /\ UNCHANGED <<fil, sets, user, mem, hpc, source, watch, local, persist, issued>>

\* The copies are dropped.
forget(p) ==
    /\ local' = [local EXCEPT ![p] = NoToken]
    /\ before' = [before EXCEPT ![p] = NoToken]

\* The answer renews nothing, or the tokens have changed since the second copy.
RefreshSkipped(p) ==
    /\ refresher[p] = "asking"
    /\ refresher' = [refresher EXCEPT ![p] = "waiting"]
    /\ forget(p)
    /\ \/ UNCHANGED refreshes
       \/ /\ mem[p] # before[p]
          /\ Renewed(local[p]) # {}
          /\ refreshes' = refreshes + 1
    /\ UNCHANGED <<fil, sets, user, mem, hpc, source, watch, persist, logins>>

\* The renewed tokens replace those in memory, which are the second copy, then
\* go to the file, whatever it holds by now.
RefreshInstall_unchecked(p) ==
    /\ refresher[p] = "asking"
    /\ \E t \in Renewed(local[p]) :
        /\ mem' = [mem EXCEPT ![p] = t]
        /\ refreshes' = refreshes + 1
        /\ forget(p)
        /\ IF source[p] = "file" /\ persist[p]
           THEN /\ refresher' = [refresher EXCEPT ![p] = "saving"]
                /\ begin(p, <<SetToken(t, FALSE)>>)
           ELSE /\ refresher' = [refresher EXCEPT ![p] = "waiting"]
                /\ UNCHANGED sets
    /\ UNCHANGED <<fil, user, hpc, source, watch, persist, logins>>

RefreshInstall(p) ==
    /\ refresher[p] = "asking"
    /\ mem[p] = before[p]
    /\ \E t \in Renewed(local[p]) :
        /\ mem' = [mem EXCEPT ![p] = t]
        /\ refreshes' = refreshes + 1
        /\ forget(p)
        /\ IF source[p] = "file" /\ persist[p]
           THEN /\ refresher' = [refresher EXCEPT ![p] = "saving"]
                /\ begin(p, <<SetToken(t, FALSE)>>)
           ELSE /\ refresher' = [refresher EXCEPT ![p] = "waiting"]
                /\ UNCHANGED sets
    /\ UNCHANGED <<fil, user, hpc, source, watch, persist, logins>>

\* The refresher has saved, or failed to, and gives the mutex back.
RefreshSaved(p) ==
    /\ refresher[p] = "saving"
    /\ wpc[p] = "idle"
    /\ refresher' = [refresher EXCEPT ![p] = "waiting"]
    /\ UNCHANGED <<fil, sets, user, mem, hpc, source, watch, local, before, persist, issued>>

\* setToken: a session of the agent reads the tokens of its client's file.
setToken(p) ==
    /\ running(p)
    /\ source[p] = "env"
    /\ monitor[p] = "off"
    /\ flock = Free
    /\ seen' = [seen EXCEPT ![p] = file.tok]
    /\ monitor' = [monitor EXCEPT ![p] = "offered"]
    /\ UNCHANGED <<fil, sets, user, mem, hpc, source, fresh, issued>>

\* UpdateTokensFromClient: the loops of the old tokens end, and those of the
\* new ones begin.
UpdateTokensFromClient(p) ==
    /\ monitor[p] = "offered"
    /\ source' = [source EXCEPT ![p] = "file"]
    /\ mem' = [mem EXCEPT ![p] = seen[p]]
    /\ seen' = [seen EXCEPT ![p] = NoToken]
    /\ hpc' = [hpc EXCEPT ![p] = "starting"]
    /\ monitor' = [monitor EXCEPT ![p] = "off"]
    /\ refresher' = [refresher EXCEPT ![p] = "waiting"]
    /\ forget(p)
    /\ persist' = [persist EXCEPT ![p] = TRUE]
    /\ UNCHANGED <<fil, sets, user, issued>>

-----------------------------------------------------------------------------

\* A process is killed; the kernel releases its lock.
Kill(w) ==
    /\ wpc[w] \in {"read", "write", "writing"} \/ (w \in Holders /\ hpc[w] # "off")
    /\ wpc' = [wpc EXCEPT ![w] = "gone"]
    /\ todo' = [todo EXCEPT ![w] = <<>>]
    /\ snap' = [snap EXCEPT ![w] = Empty]
    /\ flock' = IF flock = w THEN Free ELSE flock
    /\ torn' = (torn \/ flock = w)
    /\ hpc' = [p \in Holders |-> IF p = w THEN "off" ELSE hpc[p]]
    /\ monitor' = [p \in Holders |-> IF p = w THEN "off" ELSE monitor[p]]
    /\ refresher' = [p \in Holders |-> IF p = w THEN "waiting" ELSE refresher[p]]
    /\ local' = [p \in Holders |-> IF p = w THEN NoToken ELSE local[p]]
    /\ before' = [p \in Holders |-> IF p = w THEN NoToken ELSE before[p]]
    /\ seen' = [p \in Holders |-> IF p = w THEN NoToken ELSE seen[p]]
    /\ mem' = [p \in Holders |-> IF p = w THEN NoToken ELSE mem[p]]
    /\ persist' = [p \in Holders |-> p = w \/ persist[p]]
    /\ UNCHANGED <<file, user, source, issued>>

SetStep(w) == Read(w) \/ Truncate(w) \/ Write(w) \/ LockFails(w)

Command(c) == initViper(c) \/ Login(c) \/ Logout(c) \/ SetKey(c)

MonitorStep(p) == MonitorRead(p) \/ MonitorReplace(p)

RefreshStep(p) ==
    RefreshCopy(p) \/ RefreshSkipped(p) \/ RefreshInstall(p) \/ RefreshSaved(p)

Next ==
    \/ \E w \in Writers : SetStep(w) \/ Kill(w)
    \/ \E c \in Commands : Command(c)
    \/ \E p \in Holders :
        \/ Load(p) \/ StartMonitoring(p) \/ MonitorStep(p)
        \/ RefreshBegin(p) \/ RefreshStep(p) \/ setToken(p) \/ UpdateTokensFromClient(p)

Spec == Init /\ [][Next]_vars

\* Requests end, and tickers fire; a lock that is free now and then is had or
\* given up on.
FairSpec ==
    /\ Spec
    /\ \A w \in Writers : WF_vars(SetStep(w))
    /\ \A p \in Holders :
        /\ WF_vars(StartMonitoring(p))
        /\ WF_vars(RefreshStep(p))
        /\ WF_vars(UpdateTokensFromClient(p))
        /\ WF_vars(MonitorRead(p))
        /\ SF_vars(MonitorReplace(p))

-----------------------------------------------------------------------------
(* Properties *)

\* Types; who writes the file holds its lock, and the refresher that saves has
\* a change to make.
TypeOK ==
    /\ file \in Contents
    /\ flock \in Writers \cup {Free}
    /\ wpc \in [Writers -> {"idle", "read", "write", "writing", "gone"}]
    /\ \A w \in Writers : wpc[w] = "writing" <=> flock = w
    /\ \A w \in Writers : wpc[w] \in {"read", "write", "writing"} <=> todo[w] # <<>>
    /\ snap \in [Writers -> Contents]
    /\ viper \in [Commands -> Maps \cup {"unread"}]
    /\ mem \in [Holders -> Token]
    /\ hpc \in [Holders -> {"off", "starting", "running"}]
    /\ source \in [Holders -> {"env", "file"}]
    /\ monitor \in [Holders -> {"off", "waiting", "replacing", "offered"}]
    /\ seen \in [Holders -> Token]
    /\ refresher \in [Holders -> {"waiting", "copying", "asking", "saving"}]
    /\ local \in [Holders -> Token] /\ before \in [Holders -> Token]
    /\ persist \in [Holders -> BOOLEAN]
    /\ logins \in 1 .. MaxLogins
    /\ refreshes \in 0 .. MaxRefreshes
    /\ torn \in BOOLEAN /\ cleared \in BOOLEAN

\* Until somebody logs in or out, and unless a process was killed while it
\* wrote, every change of the file leaves the login in it, in whatever order
\* processes read, empty and write it (set): a locked read never finds it empty.
\* The maps stay too, unless a process that started while another one wrote
\* found none: its read is not locked (initViper).
KeysKept ==
    (~torn /\ ~cleared /\ flock = Free) =>
        /\ file.tok.login # 0
        /\ file.maps = "there" \/ \E c \in Commands : viper[c] = "none"

\* A holder changes from one login to another only by what it has read from
\* the file: a refresh that began before never brings the old login back
\* (keepConfigTokensFresh compares the tokens with the ones it copied), unless
\* the tokens were replaced between its two copies.
RefreshKeepsLogin ==
    [][\A p \in Holders :
        mem'[p].login # mem[p].login =>
            \/ mem'[p].login = seen[p].login
            \/ "off" \in {hpc[p], hpc'[p]}
            \/ refresher[p] = "asking" /\ local[p].login # before[p].login]_vars

\* In the end a holder that monitors the file is logged in as the file says,
\* in whatever order logins, refreshes and other processes' writes overlap.
HoldersFollowFile ==
    <>[](\A p \in Holders :
            monitor[p] \in {"waiting", "replacing"} => mem[p].login = file.tok.login)
=============================================================================
