------------------------ MODULE ConfigTokensProofs ------------------------
(***************************************************************************)
(* Proofs about the tokens in the configuration file, for any number of    *)
(* processes, logins and renewals.                                         *)
(***************************************************************************)
EXTENDS ConfigTokens, SequenceTheorems, TLAPS

(* The changes a process may have to make.                                   *)
Changes == [keys : SUBSET {"tok", "maps"}, new : Contents, must : BOOLEAN]

(* TypeOK does not say what is in todo, nor that a refresher asks the API    *)
(* only when its process has nothing to write; without the second, a renewed *)
(* token could replace a change under way.                                   *)
TodoInv == todo \in [Writers -> Seq(Changes)]

RefresherInv ==
    \A p \in Holders :
        /\ refresher[p] \in {"copying", "asking"} => wpc[p] = "idle"
        /\ hpc[p] # "running" => refresher[p] = "waiting"

TInv == TypeOK /\ TodoInv /\ RefresherInv

LEMMA NoTokenType == NoToken \in Token
BY TokensAssumption DEF NoToken, Token

LEMMA EmptyType == Empty \in Contents
BY NoTokenType DEF Empty, Contents, Maps

(* Lists of one and of three changes.                                        *)
LEMMA OneInSeq == ASSUME NEW S, NEW x \in S PROVE <<x>> \in Seq(S)
OBVIOUS

LEMMA ThreeInSeq ==
    ASSUME NEW S, NEW x \in S, NEW y \in S, NEW z \in S PROVE <<x, y, z>> \in Seq(S)
OBVIOUS

LEMMA ChangeType ==
    ASSUME NEW tok \in Token, NEW maps \in Maps, NEW must \in BOOLEAN
    PROVE  /\ SetToken(tok, must) \in Changes
           /\ SetMaps(maps) \in Changes
           /\ SetOther(must) \in Changes
           /\ Clear(must) \in Changes
<1>1. \A keys \in SUBSET {"tok", "maps"}, new \in Contents, b \in BOOLEAN :
        Change(keys, new, b) \in Changes
  BY DEF Change, Changes
<1>2. /\ [tok |-> tok, maps |-> "none"] \in Contents
      /\ [tok |-> NoToken, maps |-> maps] \in Contents
  BY NoTokenType DEF Contents, Maps
<1> QED
  BY <1>1, <1>2, EmptyType DEF SetToken, SetMaps, SetOther, Clear

LEMMA CopiedType ==
    ASSUME NEW c \in Changes, NEW old \in Contents
    PROVE  copied(c, old) \in Contents
<1>1. c.new \in Contents
  BY DEF Changes
<1> QED
  BY <1>1 DEF copied, Contents

(* The API renews a token for the same login.                                *)
LEMMA RenewedType ==
    ASSUME NEW tok \in Token, NEW t \in Renewed(tok)
    PROVE  t \in Token /\ t.login = tok.login /\ refreshes < MaxRefreshes
BY DEF Renewed

-----------------------------------------------------------------------------
(* Type correctness, in two parts: the processes' changes of the file, and   *)
(* the rest.                                                                 *)

Busy == {"read", "write", "writing"}

SetsOK ==
    /\ flock \in Writers \cup {Free}
    /\ wpc \in [Writers -> {"idle", "read", "write", "writing", "gone"}]
    /\ \A w \in Writers : wpc[w] = "writing" <=> flock = w
    /\ \A w \in Writers : wpc[w] \in Busy <=> todo[w] # <<>>
    /\ snap \in [Writers -> Contents]
    /\ TodoInv

DataOK ==
    /\ file \in Contents
    /\ viper \in [Commands -> Maps \cup {"unread"}]
    /\ mem \in [Holders -> Token]
    /\ hpc \in [Holders -> {"off", "starting", "running"}]
    /\ source \in [Holders -> {"env", "file"}]
    /\ monitor \in [Holders -> {"off", "waiting", "replacing", "offered"}]
    /\ seen \in [Holders -> Token]
    /\ refresher \in [Holders -> {"waiting", "copying", "asking", "saving"}]
    /\ local \in [Holders -> Token] /\ before \in [Holders -> Token]
    /\ persist \in [Holders -> BOOLEAN]
    /\ logins \in 1 .. MaxLogins
    /\ refreshes \in 0 .. MaxRefreshes
    /\ torn \in BOOLEAN /\ cleared \in BOOLEAN

LEMMA TypeParts == TypeOK /\ TodoInv <=> SetsOK /\ DataOK
BY DEF TypeOK, SetsOK, DataOK, Busy

LEMMA TypeInit == Init => TInv
<1> SUFFICES ASSUME Init PROVE TInv
  OBVIOUS
<1>1. SetsOK
  <2>1. TodoInv
    BY DEF Init, TodoInv
  <2>2. \A w \in Writers : wpc[w] = "idle" /\ todo[w] = <<>> /\ flock # w
    BY TokensAssumption DEF Init
  <2>3. snap \in [Writers -> Contents]
    BY EmptyType DEF Init
  <2>4. wpc \in [Writers -> {"idle", "read", "write", "writing", "gone"}]
    BY DEF Init
  <2> QED
    BY <2>1, <2>2, <2>3, <2>4 DEF Init, SetsOK, Busy
<1>2. file \in Contents
  <2>1. [login |-> 1, rev |-> 0] \in Token
    BY TokensAssumption DEF Token
  <2> QED
    BY <2>1 DEF Init, Contents, Maps
<1>3. DataOK
  <2>1. file \in Contents /\ logins \in 1 .. MaxLogins /\ refreshes \in 0 .. MaxRefreshes
    BY <1>2, TokensAssumption DEF Init
  <2>2. /\ mem \in [Holders -> Token] /\ before \in [Holders -> Token]
        /\ seen \in [Holders -> Token] /\ local \in [Holders -> Token]
    BY NoTokenType DEF Init
  <2>3. source \in [Holders -> {"env", "file"}]
    BY DEF Init
  <2> QED
    BY <2>1, <2>2, <2>3 DEF Init, DataOK
<1>4. RefresherInv
  BY DEF Init, RefresherInv
<1> QED
  BY <1>1, <1>3, <1>4, TypeParts DEF TInv

(* A process begins a list of changes when it has none.                      *)
LEMMA BeginType ==
    ASSUME SetsOK, NEW w \in Writers, wpc[w] \notin Busy,
           NEW changes \in Seq(Changes), begin(w, changes), UNCHANGED flock
    PROVE  SetsOK'
<1>1. after(w) \in {"gone", "idle"}
  BY DEF after
<1>2. todo' = [todo EXCEPT ![w] = changes]
  BY DEF begin
<1>3. TodoInv'
  BY <1>2 DEF SetsOK, TodoInv
<1>4. wpc' = [wpc EXCEPT ![w] = IF changes = <<>> THEN after(w) ELSE "read"]
  BY DEF begin
<1>5. UNCHANGED snap
  BY DEF begin
<1> QED
  BY <1>1, <1>2, <1>3, <1>4, <1>5 DEF SetsOK, Busy, TodoInv

(* A change ends, done or given up, and with it the lock.                    *)
LEMMA NextType ==
    ASSUME SetsOK, NEW w \in Writers, wpc[w] \in Busy, next(w),
           flock' = IF flock = w THEN Free ELSE flock
    PROVE  SetsOK'
<1>1. after(w) \in {"gone", "idle"}
  BY DEF after
<1>2. todo[w] \in Seq(Changes) /\ todo[w] # <<>>
  BY DEF SetsOK, TodoInv
<1>3. Tail(todo[w]) \in Seq(Changes)
  BY <1>2, HeadTailProperties
<1>4. todo' = [todo EXCEPT ![w] = Tail(todo[w])]
  BY DEF next
<1>5. TodoInv'
  BY <1>3, <1>4 DEF SetsOK, TodoInv
<1>6. /\ wpc' = [wpc EXCEPT ![w] = IF Tail(todo[w]) = <<>> THEN after(w) ELSE "read"]
      /\ snap' = [snap EXCEPT ![w] = Empty]
  BY DEF next
<1> QED
  BY <1>1, <1>4, <1>5, <1>6, EmptyType, TokensAssumption DEF SetsOK, Busy, TodoInv

(* A process gives up all its changes.                                       *)
LEMMA EndType ==
    ASSUME SetsOK, NEW w \in Writers, NEW label \in {"idle", "gone"},
           wpc' = [wpc EXCEPT ![w] = label],
           todo' = [todo EXCEPT ![w] = <<>>],
           snap' = [snap EXCEPT ![w] = Empty],
           flock' = IF flock = w THEN Free ELSE flock
    PROVE  SetsOK'
<1>1. TodoInv'
  BY DEF SetsOK, TodoInv
<1> QED
  BY <1>1, EmptyType, TokensAssumption DEF SetsOK, Busy, TodoInv

(* The head of the changes of a process that is busy.                        *)
LEMMA HeadType ==
    ASSUME SetsOK, NEW w \in Writers, wpc[w] \in Busy
    PROVE  Head(todo[w]) \in Changes
<1>1. todo[w] \in Seq(Changes) /\ todo[w] # <<>>
  BY DEF SetsOK, TodoInv
<1> QED
  BY <1>1, HeadTailProperties

LEMMA SetType ==
    ASSUME TInv, NEW w \in Writers, SetStep(w) \/ Kill(w)
    PROVE  TInv'
<1> USE TypeParts, TokensAssumption
<1> USE DEF TInv, RefresherInv, fil, user, watch, fresh, issued, DataOK, Writers
<1> SUFFICES SetsOK' /\ DataOK' /\ RefresherInv'
  BY DEF TypeOK, SetsOK, Busy, TodoInv
<1>1. CASE Read(w)
  <2>1. SetsOK'
    BY <1>1 DEF Read, SetsOK, Busy, TodoInv
  <2> QED
    BY <1>1, <2>1 DEF Read, SetsOK
<1>2. CASE Truncate(w)
  <2>1. SetsOK'
    BY <1>2 DEF Truncate, SetsOK, Busy, TodoInv
  <2> QED
    BY <1>2, <2>1, EmptyType DEF Truncate, SetsOK
<1>3. CASE Write(w)
  <2>1. wpc[w] \in Busy /\ next(w) /\ flock = w /\ flock' = Free
    BY <1>3 DEF Write, Busy, SetsOK
  <2>2. SetsOK'
    BY <2>1, NextType
  <2>3. Head(todo[w]) \in Changes /\ snap[w] \in Contents
    BY <2>1, HeadType DEF SetsOK
  <2>4. file' \in Contents
    BY <1>3, <2>3, CopiedType DEF Write
  <2>5. wpc[w] # "idle" /\ \A v \in Writers : v # w => wpc'[v] = wpc[v]
    BY <2>1 DEF Busy, next, SetsOK
  <2> QED
    BY <1>3, <2>2, <2>4, <2>5 DEF Write
<1>4. CASE LockFails(w)
  <2>1. wpc[w] \in Busy /\ UNCHANGED flock /\ flock # w
    BY <1>4 DEF LockFails, Busy, SetsOK
  <2>2. SetsOK'
    <3>1. CASE next(w)
      BY <2>1, <3>1, NextType
    <3>2. CASE /\ wpc' = [wpc EXCEPT ![w] = after(w)]
               /\ todo' = [todo EXCEPT ![w] = <<>>]
               /\ snap' = [snap EXCEPT ![w] = Empty]
      <4>1. after(w) \in {"idle", "gone"}
        BY DEF after
      <4> QED
        BY <2>1, <3>2, <4>1, EndType
    <3> QED
      BY <1>4, <3>1, <3>2 DEF LockFails
  <2>3. persist' \in [Holders -> BOOLEAN]
    BY <1>4 DEF LockFails, failed
  <2>4. wpc[w] # "idle" /\ \A v \in Writers : v # w => wpc'[v] = wpc[v]
    BY <1>4 DEF LockFails, next, SetsOK
  <2> QED
    BY <1>4, <2>2, <2>3, <2>4 DEF LockFails
<1>5. CASE Kill(w)
  <2>1. SetsOK'
    <3>1. /\ wpc' = [wpc EXCEPT ![w] = "gone"]
          /\ todo' = [todo EXCEPT ![w] = <<>>]
          /\ snap' = [snap EXCEPT ![w] = Empty]
          /\ flock' = IF flock = w THEN Free ELSE flock
      BY <1>5 DEF Kill
    <3> QED
      BY <3>1, EndType
  <2>2. DataOK'
    BY <1>5, NoTokenType DEF Kill
  <2>3. RefresherInv'
    BY <1>5 DEF Kill, SetsOK
  <2> QED
    BY <2>1, <2>2, <2>3
<1> QED
  BY <1>1, <1>2, <1>3, <1>4, <1>5 DEF SetStep

LEMMA CommandType ==
    ASSUME TInv, NEW c \in Commands, Command(c)
    PROVE  TInv'
<1> USE TypeParts
<1> USE DEF TInv, DataOK, RefresherInv
<1> SUFFICES SetsOK' /\ DataOK' /\ RefresherInv'
  BY DEF TypeOK, SetsOK, Busy, TodoInv
<1>1. c \in Writers /\ c \notin Holders /\ Holders \subseteq Writers
  BY TokensAssumption DEF Writers
<1>2. ASSUME NEW changes \in Seq(Changes), begin(c, changes), wpc[c] = "idle",
             UNCHANGED <<fil, viper, mem, hpc, source, watch, fresh, refreshes>>,
             logins' \in 1 .. MaxLogins, cleared' \in BOOLEAN
      PROVE  SetsOK' /\ DataOK' /\ RefresherInv'
  <2>1. SetsOK'
    BY <1>1, <1>2, BeginType DEF Busy, fil
  <2>2. \A p \in Holders : wpc'[p] = wpc[p]
    BY <1>1, <1>2 DEF begin, SetsOK
  <2> QED
    BY <1>2, <2>1, <2>2 DEF fil, watch, fresh
<1>3. CASE initViper(c)
  <2>1. file.maps \in Maps
    BY DEF Contents
  <2>2. SetsOK'
    BY <1>3 DEF initViper, SetsOK, sets, fil, TodoInv
  <2> QED
    BY <1>3, <2>1, <2>2 DEF initViper, sets, fil, watch, fresh, issued
<1>4. CASE Login(c)
  <2> DEFINE tok == [login |-> logins + 1, rev |-> 0]
  <2>1. tok \in Token /\ logins + 1 \in 1 .. MaxLogins
    BY <1>4, TokensAssumption DEF Login, Token
  <2> HIDE DEF tok
  <2>2. Clear(FALSE) \in Changes /\ SetToken(tok, TRUE) \in Changes /\ SetOther(TRUE) \in Changes
    BY <2>1, ChangeType DEF Maps
  <2>3. <<Clear(FALSE), SetToken(tok, TRUE), SetOther(TRUE)>> \in Seq(Changes)
    BY <2>2, ThreeInSeq
  <2>4. /\ begin(c, <<Clear(FALSE), SetToken(tok, TRUE), SetOther(TRUE)>>)
        /\ wpc[c] = "idle" /\ cleared' = TRUE
        /\ UNCHANGED <<fil, viper, mem, hpc, source, watch, fresh, refreshes>>
        /\ logins' = logins + 1
    BY <1>4 DEF Login, started, tok
  <2> QED
    BY <1>2, <2>1, <2>3, <2>4
<1>5. CASE Logout(c)
  <2>1. Clear(TRUE) \in Changes
    BY NoTokenType, ChangeType DEF Maps
  <2>2. <<Clear(TRUE)>> \in Seq(Changes)
    BY <2>1, OneInSeq
  <2> QED
    BY <1>2, <1>5, <2>2 DEF Logout, started, issued
<1>6. CASE SetKey(c)
  <2>1. viper[c] \in Maps /\ wpc[c] = "idle"
    BY <1>6 DEF SetKey, started
  <2>2. SetMaps(viper[c]) \in Changes /\ SetOther(TRUE) \in Changes
    BY <2>1, NoTokenType, ChangeType
  <2>3. PICK change \in {SetMaps(viper[c]), SetOther(TRUE)} : begin(c, <<change>>)
    BY <1>6 DEF SetKey
  <2>4. <<change>> \in Seq(Changes)
    BY <2>2, OneInSeq
  <2> QED
    BY <1>2, <1>6, <2>1, <2>3, <2>4 DEF SetKey, user, issued
<1> QED
  BY <1>3, <1>4, <1>5, <1>6 DEF Command

(* A holder's own step: what it has to write, it writes later.               *)
LEMMA HolderType ==
    ASSUME TInv, NEW p \in Holders,
           \/ Load(p) \/ StartMonitoring(p) \/ MonitorStep(p)
           \/ RefreshBegin(p) \/ RefreshStep(p) \/ setToken(p) \/ UpdateTokensFromClient(p)
    PROVE  TInv'
<1> USE TypeParts
<1> USE DEF TInv, RefresherInv, DataOK, fil, user, watch, fresh, issued
<1> SUFFICES SetsOK' /\ DataOK' /\ RefresherInv'
  BY DEF TypeOK, SetsOK, Busy, TodoInv
<1>w. p \in Writers /\ p \notin Commands /\ Holders \subseteq Writers
  BY TokensAssumption DEF Writers
<1>s. UNCHANGED <<sets, flock>> => SetsOK'
  BY DEF SetsOK, sets, TodoInv
<1>b. ASSUME NEW t \in Token, begin(p, <<SetToken(t, FALSE)>>),
             wpc[p] = "idle", UNCHANGED flock
      PROVE  SetsOK' /\ wpc'[p] # "idle" /\ \A q \in Holders : q # p => wpc'[q] = wpc[q]
  <2>1. SetToken(t, FALSE) \in Changes
    BY ChangeType DEF Maps
  <2>2. <<SetToken(t, FALSE)>> \in Seq(Changes)
    BY <2>1, OneInSeq
  <2>3. SetsOK'
    BY <1>b, <1>w, <2>2, BeginType DEF Busy
  <2>4. wpc' = [wpc EXCEPT ![p] = "read"]
    BY <1>b DEF begin
  <2> QED
    BY <1>w, <2>3, <2>4 DEF SetsOK
<1>1. CASE Load(p)
  <2>1. file.tok \in Token
    BY DEF Contents
  <2>2. UNCHANGED <<sets, flock>>
    BY <1>1 DEF Load
  <2> QED
    BY <1>1, <1>s, <2>1, <2>2, NoTokenType DEF Load, sets
<1>2. CASE StartMonitoring(p)
  <2>1. CASE UNCHANGED <<mem, refreshes, sets>>
    BY <1>2, <2>1, <1>s DEF StartMonitoring, sets
  <2>2. ASSUME NEW t \in Renewed(mem[p]),
               mem' = [mem EXCEPT ![p] = t],
               refreshes' = refreshes + 1,
               begin(p, IF source[p] = "file" THEN <<SetToken(t, FALSE)>> ELSE <<>>)
        PROVE  SetsOK' /\ DataOK' /\ RefresherInv'
    <3>1. t \in Token /\ refreshes < MaxRefreshes
      BY RenewedType
    <3>2. DataOK'
      BY <1>2, <2>2, <3>1, TokensAssumption DEF StartMonitoring
    <3>3. wpc[p] = "idle" /\ UNCHANGED flock
      BY <1>2 DEF StartMonitoring
    <3>4. SetsOK' /\ \A q \in Holders : q # p => wpc'[q] = wpc[q]
      <4>1. CASE source[p] = "file"
        BY <2>2, <3>1, <3>3, <4>1, <1>b
      <4>2. CASE source[p] # "file"
        <5>1. begin(p, <<>>)
          BY <2>2, <4>2
        <5>2. <<>> \in Seq(Changes)
          OBVIOUS
        <5>3. SetsOK'
          BY <1>w, <3>3, <5>1, <5>2, BeginType DEF Busy
        <5> QED
          BY <1>w, <5>1, <5>3 DEF begin, SetsOK
      <4> QED
        BY <4>1, <4>2
    <3>5. RefresherInv'
      BY <1>2, <3>4 DEF StartMonitoring
    <3> QED
      BY <3>2, <3>4, <3>5
  <2> QED
    BY <1>2, <2>1, <2>2 DEF StartMonitoring
<1>3. CASE MonitorRead(p)
  BY <1>3, <1>s DEF MonitorRead, sets, Contents
<1>4. CASE MonitorReplace(p)
  BY <1>4, <1>s, NoTokenType DEF MonitorReplace, sets
<1>5. CASE RefreshBegin(p)
  BY <1>5, <1>s DEF RefreshBegin, running, sets
<1>6. CASE RefreshSkipped(p)
  <2>1. refreshes' \in 0 .. MaxRefreshes
    <3>1. CASE Renewed(local[p]) # {} /\ refreshes' = refreshes + 1
      BY <3>1, TokensAssumption DEF Renewed
    <3> QED
      BY <1>6, <3>1 DEF RefreshSkipped
  <2> QED
    BY <1>6, <1>s, <2>1, NoTokenType DEF RefreshSkipped, forget, sets
<1>7. CASE RefreshInstall(p)
  <2>1. PICK t \in Renewed(local[p]) :
            /\ mem' = [mem EXCEPT ![p] = t]
            /\ refreshes' = refreshes + 1
            /\ forget(p)
            /\ IF source[p] = "file" /\ persist[p]
               THEN /\ refresher' = [refresher EXCEPT ![p] = "saving"]
                    /\ begin(p, <<SetToken(t, FALSE)>>)
               ELSE /\ refresher' = [refresher EXCEPT ![p] = "waiting"]
                    /\ UNCHANGED sets
    BY <1>7 DEF RefreshInstall
  <2>2. t \in Token /\ refreshes < MaxRefreshes
    BY RenewedType
  <2>3. wpc[p] = "idle" /\ hpc[p] = "running" /\ UNCHANGED flock
    BY <1>7 DEF RefreshInstall
  <2>4. DataOK'
    BY <1>7, <2>1, <2>2, NoTokenType, TokensAssumption DEF RefreshInstall, forget
  <2>5. SetsOK' /\ \A q \in Holders : q # p => wpc'[q] = wpc[q]
    BY <2>1, <2>2, <2>3, <1>b, <1>s DEF sets
  <2>6. RefresherInv'
    BY <1>7, <2>1, <2>3, <2>5 DEF RefreshInstall
  <2> QED
    BY <2>4, <2>5, <2>6
<1>8. CASE RefreshSaved(p)
  BY <1>8, <1>s DEF RefreshSaved, sets
<1>9. CASE setToken(p)
  BY <1>9, <1>s DEF setToken, running, sets, Contents
<1>10. CASE UpdateTokensFromClient(p)
  BY <1>10, <1>s, NoTokenType DEF UpdateTokensFromClient, forget, sets
<1>11. CASE RefreshCopy(p)
  BY <1>11, <1>s DEF RefreshCopy, sets
<1> QED
  BY <1>1, <1>2, <1>3, <1>4, <1>5, <1>6, <1>7, <1>8, <1>9, <1>10, <1>11
     DEF MonitorStep, RefreshStep

LEMMA TypeStep == TInv /\ [Next]_vars => TInv'
<1>1. ASSUME TInv, UNCHANGED vars PROVE TInv'
  BY <1>1 DEF TInv, TypeOK, TodoInv, RefresherInv, vars, fil, sets, user, watch, fresh, issued
<1> QED
  BY <1>1, SetType, CommandType, HolderType DEF Next

(* Every reachable state is well-typed, and a renewed token never takes the  *)
(* place of a change its process is in the middle of (keepConfigTokensFresh  *)
(* asks the API only when nothing is being saved).                           *)
THEOREM TypeCorrect == Spec => []TInv
BY TypeInit, TypeStep, PTL DEF Spec

-----------------------------------------------------------------------------
(* KeysKept is not inductive: it says nothing of what processes have read    *)
(* and are about to write.  Between the two steps of os.WriteFile the file   *)
(* is empty, but then the lock is taken; so what a process has read under    *)
(* the shared lock is whole, and so is what it writes over it.               *)

(* A command has found the file empty when it started.                       *)
Misread == \E c \in Commands : viper[c] = "none"

Whole(f) == f.tok.login # 0 /\ (f.maps = "there" \/ Misread)

(* Changes that lose nothing.                                                *)
Keeping ==
    { c \in Changes : /\ "tok" \in c.keys => c.new.tok.login # 0
                      /\ "maps" \in c.keys => c.new.maps = "there" \/ Misread }

ChangesKeep == ~cleared => \A w \in Writers : todo[w] \in Seq(Keeping)

CopiesWhole ==
    ~torn /\ ~cleared =>
        /\ flock = Free => Whole(file)
        /\ \A w \in Writers : wpc[w] \in {"write", "writing"} => Whole(snap[w])

KInv == ChangesKeep /\ CopiesWhole

LEMMA KInit == Init => KInv
<1> SUFFICES ASSUME Init PROVE KInv
  OBVIOUS
<1>1. Whole(file)
  BY DEF Init, Whole
<1>2. \A w \in Writers : wpc[w] = "idle" /\ todo[w] = <<>>
  BY DEF Init
<1>3. <<>> \in Seq(Keeping)
  BY EmptySeq
<1> QED
  BY <1>1, <1>2, <1>3 DEF KInv, ChangesKeep, CopiesWhole

(* A change that keeps, written over what is whole, leaves the file whole.   *)
LEMMA CopiedWhole ==
    ASSUME NEW c \in Keeping, NEW old, Whole(old)
    PROVE  Whole(copied(c, old))
BY DEF Keeping, Whole, copied

LEMMA KeepsBegin ==
    ASSUME TInv, KInv, NEW w \in Writers, NEW changes \in Seq(Keeping),
           begin(w, changes), UNCHANGED <<fil, user>>
    PROVE  KInv'
<1>1. UNCHANGED <<Misread, Keeping>> /\ \A f : Whole(f)' <=> Whole(f)
  BY DEF Misread, Keeping, Whole, user
<1>2. after(w) \notin {"write", "writing"}
  BY DEF after
<1>3. ChangesKeep'
  BY <1>1 DEF KInv, ChangesKeep, begin, user, TInv, TodoInv
<1>4. CopiesWhole'
  BY <1>1, <1>2 DEF KInv, CopiesWhole, Whole, Misread, begin, fil, user, TInv, TypeOK
<1> QED
  BY <1>3, <1>4 DEF KInv

LEMMA SetKeeps ==
    ASSUME TInv, KInv, NEW w \in Writers, SetStep(w) \/ Kill(w)
    PROVE  KInv'
<1> USE TokensAssumption, TypeParts
<1>0. UNCHANGED user
  BY DEF SetStep, Read, Truncate, Write, LockFails, Kill
<1>1. UNCHANGED <<Misread, Keeping>> /\ \A f : Whole(f)' <=> Whole(f)
  BY <1>0 DEF Misread, Keeping, Whole, user
<1>2. /\ todo \in [Writers -> Seq(Changes)] /\ snap \in [Writers -> Contents]
      /\ wpc \in [Writers -> {"idle", "read", "write", "writing", "gone"}]
      /\ \A v \in Writers : wpc[v] = "writing" <=> flock = v
      /\ wpc[w] \in Busy <=> todo[w] # <<>>
  BY DEF TInv, SetsOK, TodoInv
<1>3. after(w) \notin {"write", "writing"}
  BY DEF after
<1>4. CASE Read(w)
  <2>1. ChangesKeep'
    BY <1>0, <1>1, <1>4 DEF Read, KInv, ChangesKeep, user
  <2>2. CopiesWhole'
    BY <1>0, <1>2, <1>4 DEF Read, KInv, CopiesWhole, Whole, Misread, fil, user
  <2> QED
    BY <2>1, <2>2 DEF KInv
<1>5. CASE Truncate(w)
  <2>1. ChangesKeep'
    BY <1>0, <1>1, <1>5 DEF Truncate, KInv, ChangesKeep, user
  <2>2. w # Free
    BY DEF Writers
  <2>3. CopiesWhole'
    BY <1>0, <1>2, <1>5, <2>2 DEF Truncate, KInv, CopiesWhole, Whole, Misread, user
  <2> QED
    BY <2>1, <2>3 DEF KInv
(* The next change, or none, is left of those that keep.                     *)
<1>n. ASSUME ~cleared, todo[w] # <<>>
      PROVE  /\ Head(todo[w]) \in Keeping
             /\ Tail(todo[w]) \in Seq(Keeping)
  BY <1>n, HeadTailProperties DEF KInv, ChangesKeep
<1>e. <<>> \in Seq(Keeping)
  BY EmptySeq
<1>6. CASE Write(w)
  <2>1. wpc[w] = "writing" /\ next(w) /\ todo[w] # <<>>
    BY <1>2, <1>6 DEF Write, Busy
  <2>2. ChangesKeep'
    BY <1>0, <1>1, <1>2, <1>n, <2>1 DEF KInv, ChangesKeep, next, user
  <2>3. /\ \A v \in Writers : v # w => wpc'[v] = wpc[v] /\ snap'[v] = snap[v]
        /\ wpc'[w] \notin {"write", "writing"}
    BY <1>2, <1>3, <2>1 DEF next
  <2>4. ~torn /\ ~cleared => Whole(file)'
    <3> SUFFICES ASSUME ~torn, ~cleared PROVE Whole(file)'
      OBVIOUS
    <3>1. Whole(snap[w]) /\ Head(todo[w]) \in Keeping
      BY <1>n, <2>1 DEF KInv, CopiesWhole
    <3>2. Whole(copied(Head(todo[w]), snap[w]))
      BY <3>1, CopiedWhole
    <3> QED
      BY <1>0, <1>6, <3>2 DEF Write, Whole, Misread, user
  <2>5. CopiesWhole'
    BY <1>0, <1>6, <2>3, <2>4 DEF Write, KInv, CopiesWhole, Whole, Misread, user
  <2> QED
    BY <2>2, <2>5 DEF KInv
<1>7. CASE LockFails(w)
  <2>1. wpc[w] \in Busy /\ todo[w] # <<>> /\ UNCHANGED fil
    BY <1>2, <1>7 DEF LockFails, Busy
  <2>2. /\ \A v \in Writers : v # w => wpc'[v] = wpc[v] /\ snap'[v] = snap[v] /\ todo'[v] = todo[v]
        /\ wpc'[w] \notin {"write", "writing"}
        /\ todo'[w] \in {<<>>, Tail(todo[w])}
    BY <1>2, <1>3, <1>7 DEF LockFails, next
  <2>3. ChangesKeep'
    BY <1>0, <1>1, <1>e, <1>n, <2>1, <2>2 DEF KInv, ChangesKeep, user
  <2>4. CopiesWhole'
    BY <1>0, <2>1, <2>2 DEF KInv, CopiesWhole, Whole, Misread, fil, user
  <2> QED
    BY <2>3, <2>4 DEF KInv
<1>8. CASE Kill(w)
  <2>1. /\ \A v \in Writers : v # w => wpc'[v] = wpc[v] /\ snap'[v] = snap[v] /\ todo'[v] = todo[v]
        /\ wpc'[w] = "gone" /\ todo'[w] = <<>>
    BY <1>2, <1>8 DEF Kill
  <2>2. ~torn' => ~torn /\ flock' = flock
    BY <1>8 DEF Kill, TInv, TypeOK
  <2>3. ChangesKeep'
    BY <1>0, <1>1, <1>e, <2>1 DEF KInv, ChangesKeep, user
  <2>4. UNCHANGED <<file, cleared, Misread>>
    BY <1>0, <1>1, <1>8 DEF Kill, user
  <2>5. CopiesWhole'
    BY <2>1, <2>2, <2>4 DEF KInv, CopiesWhole, Whole
  <2> QED
    BY <2>3, <2>5 DEF KInv
<1> QED
  BY <1>4, <1>5, <1>6, <1>7, <1>8 DEF SetStep

LEMMA CommandKeeps ==
    ASSUME TInv, KInv, NEW c \in Commands, Command(c)
    PROVE  KInv'
<1>0. c \in Writers
  BY DEF Writers
<1>1. CASE initViper(c)
  <2>1. viper \in [Commands -> Maps \cup {"unread"}] /\ viper[c] = "unread"
    BY <1>1 DEF initViper, TInv, TypeOK
  <2>2. Misread => Misread'
    BY <1>1, <2>1 DEF initViper, Misread
  <2>3. Keeping \subseteq Keeping'
    BY <2>2 DEF Keeping
  <2>4. ChangesKeep'
    BY <1>1, <2>3, SeqMonotonic DEF initViper, KInv, ChangesKeep, sets
  <2>5. CopiesWhole'
    BY <1>1, <2>2 DEF initViper, KInv, CopiesWhole, Whole, fil, sets
  <2> QED
    BY <2>4, <2>5 DEF KInv
<1>2. CASE Login(c) \/ Logout(c)
  <2>1. cleared' = TRUE
    BY <1>2 DEF Login, Logout
  <2> QED
    BY <2>1 DEF KInv, ChangesKeep, CopiesWhole
<1>3. CASE SetKey(c)
  <2>1. PICK change \in {SetMaps(viper[c]), SetOther(TRUE)} : begin(c, <<change>>)
    BY <1>3 DEF SetKey
  <2>2. viper[c] \in Maps
    BY <1>3 DEF SetKey, started, TInv, TypeOK
  <2>3. SetMaps(viper[c]) \in Changes /\ SetOther(TRUE) \in Changes
    BY <2>2, NoTokenType, ChangeType
  <2>4. viper[c] = "there" \/ Misread
    BY <2>2 DEF Maps, Misread
  <2>5. change \in Keeping
    <3>1. /\ SetMaps(viper[c]).keys = {"maps"} /\ SetMaps(viper[c]).new.maps = viper[c]
          /\ SetOther(TRUE).keys = {}
      BY DEF SetMaps, SetOther, Change
    <3>2. "tok" \notin {"maps"}
      OBVIOUS
    <3>3. SetMaps(viper[c]) \in Keeping
      BY <2>3, <2>4, <3>1, <3>2, Zenon DEF Keeping
    <3>4. SetOther(TRUE) \in Keeping
      BY <2>3, <3>1 DEF Keeping
    <3> QED
      BY <3>3, <3>4
  <2>6. <<change>> \in Seq(Keeping)
    BY <2>5, OneInSeq
  <2> QED
    BY <1>0, <1>3, <2>1, <2>6, KeepsBegin DEF SetKey
<1> QED
  BY <1>1, <1>2, <1>3 DEF Command

LEMMA HolderKeeps ==
    ASSUME TInv, KInv, NEW p \in Holders,
           \/ Load(p) \/ StartMonitoring(p) \/ MonitorStep(p)
           \/ RefreshBegin(p) \/ RefreshStep(p) \/ setToken(p) \/ UpdateTokensFromClient(p)
    PROVE  KInv'
<1>0. p \in Writers
  BY DEF Writers
<1>1. UNCHANGED <<fil, user>>
  BY DEF Load, StartMonitoring, MonitorStep, MonitorRead, MonitorReplace, RefreshBegin,
         RefreshStep, RefreshCopy, RefreshSkipped, RefreshInstall, RefreshSaved, setToken,
         UpdateTokensFromClient
<1>2. ASSUME UNCHANGED sets PROVE KInv'
  <2>1. UNCHANGED <<Misread, Keeping>>
    BY <1>1 DEF Misread, Keeping, user
  <2>2. ChangesKeep'
    BY <1>1, <1>2, <2>1 DEF KInv, ChangesKeep, sets, user
  <2>3. CopiesWhole'
    BY <1>1, <1>2, <2>1 DEF KInv, CopiesWhole, Whole, sets, fil, user
  <2> QED
    BY <2>2, <2>3 DEF KInv
<1>3. ASSUME NEW tok \in Token, NEW t \in Renewed(tok), begin(p, <<SetToken(t, FALSE)>>)
      PROVE  KInv'
  <2>1. t \in Token /\ t.login # 0
    BY RenewedType DEF Renewed
  <2>2. SetToken(t, FALSE) \in Changes
    BY <2>1, ChangeType DEF Maps
  <2>3. SetToken(t, FALSE) \in Keeping
    BY <2>1, <2>2 DEF Keeping, SetToken, Change
  <2>4. <<SetToken(t, FALSE)>> \in Seq(Keeping)
    BY <2>3, OneInSeq
  <2> QED
    BY <1>0, <1>1, <1>3, <2>4, KeepsBegin
<1>4. mem[p] \in Token /\ local[p] \in Token
  BY DEF TInv, TypeOK
<1>5. CASE StartMonitoring(p)
  <2>1. ASSUME begin(p, <<>>) PROVE KInv'
    <3>1. <<>> \in Seq(Keeping)
      OBVIOUS
    <3> QED
      BY <1>0, <1>1, <2>1, <3>1, KeepsBegin
  <2> QED
    BY <1>2, <1>3, <1>4, <1>5, <2>1 DEF StartMonitoring
<1>6. CASE RefreshInstall(p)
  BY <1>2, <1>3, <1>4, <1>6 DEF RefreshInstall
<1>7. CASE ~StartMonitoring(p) /\ ~RefreshInstall(p)
  BY <1>2, <1>7 DEF Load, MonitorStep, MonitorRead, MonitorReplace, RefreshBegin,
         RefreshStep, RefreshCopy, RefreshSkipped, RefreshSaved, setToken,
         UpdateTokensFromClient
<1> QED
  BY <1>5, <1>6, <1>7

LEMMA KStep == TInv /\ KInv /\ [Next]_vars => KInv'
<1>1. ASSUME KInv, UNCHANGED vars PROVE KInv'
  BY <1>1 DEF KInv, ChangesKeep, CopiesWhole, Whole, Keeping, Misread, vars, fil, sets, user
<1> QED
  BY <1>1, SetKeeps, CommandKeeps, HolderKeeps DEF Next

(* With any number of processes, no change of the file loses the login, and  *)
(* none loses the maps but by what a process read of them, without the lock, *)
(* when it started: until somebody logs in or out, and as long as no process *)
(* was killed while it wrote (set, unmarshal, marshal, initViper).           *)
THEOREM FileKeepsKeys == Spec => []KeysKept
<1>1. KInv => KeysKept
  BY DEF KInv, CopiesWhole, Whole, Misread, KeysKept
<1> QED
  BY <1>1, TypeInit, TypeStep, KInit, KStep, PTL DEF Spec

-----------------------------------------------------------------------------
(* Which step may change the login in a holder's memory.                     *)

LoginFromFile(p) ==
    mem'[p].login # mem[p].login =>
        \/ mem'[p].login = seen[p].login
        \/ "off" \in {hpc[p], hpc'[p]}
        \/ refresher[p] = "asking" /\ local[p].login # before[p].login

LEMMA LoginStep == TInv /\ [Next]_vars => \A q \in Holders : LoginFromFile(q)
<1> SUFFICES ASSUME TInv, [Next]_vars, NEW q \in Holders PROVE LoginFromFile(q)
  OBVIOUS
<1>m. mem \in [Holders -> Token] /\ local \in [Holders -> Token] /\ before \in [Holders -> Token]
  BY DEF TInv, TypeOK
<1>u. mem'[q] = mem[q] => LoginFromFile(q)
  BY DEF LoginFromFile
<1>1. ASSUME NEW w \in Writers, SetStep(w) PROVE UNCHANGED mem
  BY <1>1 DEF SetStep, Read, Truncate, Write, LockFails
<1>2. ASSUME NEW w \in Writers, Kill(w) PROVE LoginFromFile(q)
  BY <1>2, <1>u DEF Kill, LoginFromFile
<1>3. ASSUME NEW c \in Commands, Command(c) PROVE UNCHANGED mem
  BY <1>3 DEF Command, initViper, Login, Logout, SetKey
<1>4. ASSUME NEW p \in Holders,
             \/ Load(p) \/ StartMonitoring(p) \/ MonitorStep(p)
             \/ RefreshBegin(p) \/ RefreshStep(p) \/ setToken(p) \/ UpdateTokensFromClient(p)
      PROVE  LoginFromFile(q)
  <2>1. CASE Load(p)
    BY <2>1, <1>m DEF Load, LoginFromFile
  <2>2. CASE StartMonitoring(p)
    <3>1. ASSUME NEW t \in Renewed(mem[p]), mem' = [mem EXCEPT ![p] = t]
          PROVE  mem'[q].login = mem[q].login
      BY <3>1, <1>m, RenewedType
    <3> QED
      BY <2>2, <3>1 DEF StartMonitoring, LoginFromFile
  <2>3. CASE MonitorReplace(p)
    BY <2>3, <1>m DEF MonitorReplace, LoginFromFile
  <2>4. CASE RefreshInstall(p)
    <3>1. ASSUME NEW t \in Renewed(local[p]), mem' = [mem EXCEPT ![p] = t]
          PROVE  LoginFromFile(q)
      <4>1. t.login = local[p].login /\ mem[p] = before[p] /\ refresher[p] = "asking"
        BY <2>4, <1>m, RenewedType DEF RefreshInstall
      <4> QED
        BY <3>1, <4>1, <1>m DEF LoginFromFile
    <3> QED
      BY <2>4, <3>1 DEF RefreshInstall
  <2>5. CASE UpdateTokensFromClient(p)
    BY <2>5, <1>m DEF UpdateTokensFromClient, LoginFromFile
  <2>6. CASE \/ MonitorRead(p) \/ RefreshBegin(p) \/ RefreshCopy(p) \/ RefreshSkipped(p)
             \/ RefreshSaved(p) \/ setToken(p)
    BY <2>6, <1>u DEF MonitorRead, RefreshBegin, RefreshCopy, RefreshSkipped, RefreshSaved,
                      setToken
  <2> QED
    BY <1>4, <2>1, <2>2, <2>3, <2>4, <2>5, <2>6 DEF MonitorStep, RefreshStep
<1>5. CASE UNCHANGED vars
  BY <1>5, <1>u DEF vars
<1> QED
  BY <1>1, <1>2, <1>3, <1>4, <1>5, <1>u DEF Next

(* With any number of holders, commands and renewals, a holder changes its   *)
(* login only by what it has read from the file, or by a refresh between     *)
(* whose two copies the tokens were replaced: one that has both its copies   *)
(* before a login reaches the holder never undoes it.                        *)
THEOREM LoginOnlyFromFile == Spec => RefreshKeepsLogin
<1>1. TInv /\ [Next]_vars =>
        [\A p \in Holders :
            mem'[p].login # mem[p].login =>
                \/ mem'[p].login = seen[p].login
                \/ "off" \in {hpc[p], hpc'[p]}
                \/ refresher[p] = "asking" /\ local[p].login # before[p].login]_vars
  BY LoginStep DEF LoginFromFile
<1> QED
  BY <1>1, TypeInit, TypeStep, PTL DEF Spec, RefreshKeepsLogin
=============================================================================
