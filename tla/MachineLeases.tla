--------------------------- MODULE MachineLeases ---------------------------
(***************************************************************************)
(* Leases on a set of machines: internal/machine/machine_set.go over       *)
(* internal/machine/leasable_machine.go, as `fly deploy` uses them         *)
(* (updateExistingMachines): acquire a lease on every machine, refresh     *)
(* them in the background, work, release them all.                         *)
(*                                                                         *)
(* Three kinds of goroutines share a leasableMachine: the ones of          *)
(* AcquireLeases, the background refresher, and the ones of ReleaseLeases; *)
(* `mu` keeps the last two apart.  The server is external: it has at most  *)
(* one lease per machine, lets leases expire, gives them to others, and    *)
(* answers a refresh, which is the same request as an acquire, of a lease  *)
(* it no longer has with an error or with a new lease.  A request may have *)
(* been carried out when its caller sees a canceled context.               *)
(***************************************************************************)
EXTENDS Integers

CONSTANTS Machines,     \* ms.machines
          MaxGrants     \* bound: leases the server grants per machine

ASSUME GrantsAssumption == MaxGrants \in Nat \ {0}

VARIABLES
    pc,         \* the caller: acquiring, working, releasing or done
    ctx,        \* the caller's context: "live" or "canceled"
    leaseCtx,   \* the error group's context derived from it
    acquire,    \* AcquireLease's goroutine for m
    nonce,      \* lm.leaseNonce, 0 when empty
    destroyed,  \* lm.destroyed
    refresher,  \* refreshLeaseUntilCanceled's goroutine for m
    refreshCtx, \* the context lm.leaseRefreshCancelFunc cancels
    mu,         \* who holds lm.mu
    release,    \* ReleaseLease's goroutine for m
    saved,      \* the nonce it saved
    result,     \* the error it returns
    server,     \* the lease the server has on m: its nonce, Free or Other
    grants,     \* leases granted so far, the source of fresh nonces
    released    \* machines whose lease the server gave up at our request

vars == <<pc, ctx, leaseCtx, acquire, nonce, destroyed, refresher, refreshCtx,
          mu, release, saved, result, server, grants, released>>

Free  == 0
Other == -1

rel == <<release, saved, result>>

client == <<acquire, nonce, destroyed, refresher, refreshCtx, mu, rel>>

Init ==
    /\ pc = "acquire"
    /\ ctx = "live"
    /\ leaseCtx = "live"
    /\ acquire = [m \in Machines |-> "todo"]
    /\ nonce = [m \in Machines |-> 0]
    /\ destroyed = [m \in Machines |-> FALSE]
    /\ refresher = [m \in Machines |-> "off"]
    /\ refreshCtx = [m \in Machines |-> "live"]
    /\ mu = [m \in Machines |-> "free"]
    /\ release = [m \in Machines |-> "todo"]
    /\ saved = [m \in Machines |-> 0]
    /\ result = [m \in Machines |-> "none"]
    /\ server \in [Machines -> {Free, Other}]
    /\ grants = [m \in Machines |-> 0]
    /\ released = {}

-----------------------------------------------------------------------------
(* The server and the world (external).                                      *)

Grant(m) ==
    /\ grants[m] < MaxGrants
    /\ grants' = [grants EXCEPT ![m] = @ + 1]
    /\ server' = [server EXCEPT ![m] = grants[m] + 1]

OtherAcquires(m) ==
    /\ server[m] = Free
    /\ ~destroyed[m]
    /\ server' = [server EXCEPT ![m] = Other]
    /\ UNCHANGED <<pc, ctx, leaseCtx, client, grants, released>>

(* A lease ends: ours was not refreshed in time, or the other one is over.   *)
Expire(m) ==
    /\ server[m] # Free
    /\ server' = [server EXCEPT ![m] = Free]
    /\ UNCHANGED <<pc, ctx, leaseCtx, client, grants, released>>

(* The user presses Ctrl-C: the context and those derived from it end.       *)
Cancel ==
    /\ pc # "returned"
    /\ ctx = "live"
    /\ ctx' = "canceled"
    /\ leaseCtx' = "canceled"
    /\ refreshCtx' = [m \in Machines |-> "canceled"]
    /\ UNCHANGED <<pc, acquire, nonce, destroyed, refresher, mu, rel,
                   server, grants, released>>

-----------------------------------------------------------------------------
(* AcquireLeases: one goroutine per machine.                                 *)

(* Mutant: a goroutine whose context is canceled never reports.              *)
SendAcquire_onlyLive(m) ==
    /\ pc = "acquire"
    /\ acquire[m] = "todo"
    /\ leaseCtx = "live"
    /\ acquire' = [acquire EXCEPT ![m] = "sent"]
    /\ UNCHANGED <<pc, ctx, leaseCtx, nonce, destroyed, refresher, refreshCtx, mu,
                   rel, server, grants, released>>

SendAcquire(m) ==
    /\ pc = "acquire"
    /\ acquire[m] = "todo"
    /\ acquire' = [acquire EXCEPT ![m] = IF leaseCtx = "live" THEN "sent" ELSE "err"]
    /\ UNCHANGED <<pc, ctx, leaseCtx, nonce, destroyed, refresher, refreshCtx, mu,
                   rel, server, grants, released>>

ServeAcquire(m) ==
    /\ acquire[m] = "sent"
    /\ server[m] = Free
    /\ Grant(m)
    /\ acquire' = [acquire EXCEPT ![m] = "granted"]
    /\ UNCHANGED <<pc, ctx, leaseCtx, nonce, destroyed, refresher, refreshCtx, mu,
                   rel, released>>

AcquireLease(m) ==
    /\ acquire[m] = "granted"
    /\ nonce' = [nonce EXCEPT ![m] = grants[m]]
    /\ acquire' = [acquire EXCEPT ![m] = "ok"]
    /\ UNCHANGED <<pc, ctx, leaseCtx, destroyed, refresher, refreshCtx, mu,
                   rel, server, grants, released>>

(* The goroutine gets an error, which cancels the others: the server refused *)
(* or failed the request, or the context was canceled, possibly after the    *)
(* server had granted the lease.                                             *)
AcquireFails(m) ==
    /\ \/ acquire[m] = "sent"
       \/ acquire[m] = "granted" /\ leaseCtx = "canceled"
    /\ acquire' = [acquire EXCEPT ![m] = "err"]
    /\ leaseCtx' = "canceled"
    /\ UNCHANGED <<pc, ctx, nonce, destroyed, refresher, refreshCtx, mu, rel,
                   server, grants, released>>

(* All leases held: the refreshers are started.  Otherwise those that were   *)
(* acquired are released again.                                              *)
AcquireDone ==
    /\ pc = "acquire"
    /\ \A m \in Machines : acquire[m] \in {"ok", "err"}
    /\ IF \A m \in Machines : acquire[m] = "ok"
       THEN pc' = "work" /\ refresher' = [m \in Machines |-> "sleep"]
       ELSE pc' = "release" /\ UNCHANGED refresher
    /\ UNCHANGED <<ctx, leaseCtx, acquire, nonce, destroyed, refreshCtx, mu, rel,
                   server, grants, released>>

-----------------------------------------------------------------------------
(* The work: machines are destroyed, then everything is released (deferred). *)

Destroy(m) ==
    /\ pc = "work"
    /\ ~destroyed[m]
    /\ ctx = "live"
    /\ server[m] \in {Free, nonce[m]}
    /\ destroyed' = [destroyed EXCEPT ![m] = TRUE]
    /\ server' = [server EXCEPT ![m] = Free]
    /\ UNCHANGED <<pc, ctx, leaseCtx, acquire, nonce, refresher, refreshCtx, mu,
                   rel, grants, released>>

WorkDone ==
    /\ pc = "work"
    /\ pc' = "release"
    /\ UNCHANGED <<ctx, leaseCtx, client, server, grants, released>>

-----------------------------------------------------------------------------
(* refreshLeaseUntilCanceled.                                                *)

Wake(m) ==
    /\ refresher[m] = "sleep"
    /\ refresher' = [refresher EXCEPT ![m] = IF destroyed[m] THEN "gone" ELSE "lock"]
    /\ UNCHANGED <<pc, ctx, leaseCtx, acquire, nonce, destroyed, refreshCtx, mu,
                   rel, server, grants, released>>

(* Mutant: RefreshLease does not lock.                                       *)
LockForRefresh_noMutex(m) ==
    /\ refresher[m] = "lock"
    /\ refresher' = [refresher EXCEPT ![m] = "call"]
    /\ UNCHANGED <<pc, ctx, leaseCtx, acquire, nonce, destroyed, refreshCtx, mu,
                   rel, server, grants, released>>

LockForRefresh(m) ==
    /\ refresher[m] = "lock"
    /\ mu[m] = "free"
    /\ mu' = [mu EXCEPT ![m] = "refresher"]
    /\ refresher' = [refresher EXCEPT ![m] = "call"]
    /\ UNCHANGED <<pc, ctx, leaseCtx, acquire, nonce, destroyed, refreshCtx,
                   rel, server, grants, released>>

(* The request under a live context.  A lease that is still ours is          *)
(* extended; when there is none the server may grant a new one.              *)
ServeRefresh(m) ==
    /\ refresher[m] = "call"
    /\ refreshCtx[m] = "live"
    /\ \/ server[m] = Free /\ ~destroyed[m] /\ Grant(m)
       \/ UNCHANGED <<server, grants>>
    /\ refresher' = [refresher EXCEPT ![m] = "served"]
    /\ UNCHANGED <<pc, ctx, leaseCtx, acquire, nonce, destroyed, refreshCtx, mu,
                   rel, released>>

(* Mutant: a canceled context is one more error to warn about.               *)
refreshEnds_onlyIfGone(m) == destroyed[m]

(* The errors that end the refresher.                                        *)
refreshEnds(m) == refreshCtx[m] = "canceled" \/ destroyed[m]

(* RefreshLease returns.  A canceled context or a machine that is gone ends  *)
(* the refresher, any other error, a new nonce included, is a warning.       *)
RefreshLease(m) ==
    /\ \/ refresher[m] = "call" /\ refreshCtx[m] = "canceled"
       \/ refresher[m] = "served"
    /\ mu' = [mu EXCEPT ![m] = "free"]
    /\ \/ /\ refreshEnds(m)
          /\ refresher' = [refresher EXCEPT ![m] = "gone"]
       \/ /\ refresher[m] = "served" \/ ~refreshEnds(m)
          /\ refresher' = [refresher EXCEPT ![m] = "sleep"]
    /\ UNCHANGED <<pc, ctx, leaseCtx, acquire, nonce, destroyed, refreshCtx,
                   rel, server, grants, released>>

-----------------------------------------------------------------------------
(* ReleaseLeases: one goroutine per machine.                                 *)

(* Mutant: the lease is not forgotten, and the refresher not told.           *)
resetLease_missing(m) == UNCHANGED <<nonce, refreshCtx>>

resetLease(m) ==
    /\ nonce' = [nonce EXCEPT ![m] = 0]
    /\ refreshCtx' = [refreshCtx EXCEPT ![m] = "canceled"]

(* ReleaseLease takes the lock, forgets the nonce and stops the refresher;   *)
(* without a lease, or without a machine, there is nothing to send.          *)
LockForRelease(m) ==
    /\ pc = "release"
    /\ release[m] = "todo"
    /\ mu[m] = "free"
    /\ resetLease(m)
    /\ IF nonce[m] = 0 \/ destroyed[m]
       THEN /\ release' = [release EXCEPT ![m] = "done"]
            /\ UNCHANGED <<mu, saved>>
       ELSE /\ release' = [release EXCEPT ![m] = "call"]
            /\ saved' = [saved EXCEPT ![m] = nonce[m]]
            /\ mu' = [mu EXCEPT ![m] = "release"]
    /\ UNCHANGED <<pc, ctx, leaseCtx, acquire, destroyed, refresher, result,
                   server, grants, released>>

(* The request is carried out, finds no such lease, or fails.                *)
ServeRelease(m) ==
    /\ release[m] = "call"
    /\ ctx = "live"
    /\ release' = [release EXCEPT ![m] = "served"]
    /\ IF server[m] = saved[m]
       THEN /\ server' = [server EXCEPT ![m] = Free]
            /\ released' = released \cup {m}
            /\ result' = [result EXCEPT ![m] = "nil"]
       ELSE /\ result' = [result EXCEPT ![m] = "notFound"]
            /\ UNCHANGED <<server, released>>
    /\ UNCHANGED <<pc, ctx, leaseCtx, acquire, nonce, destroyed, refresher,
                   refreshCtx, mu, saved, grants>>

ReleaseFails(m) ==
    /\ release[m] = "call"
    /\ release' = [release EXCEPT ![m] = "served"]
    /\ result' = [result EXCEPT ![m] = IF ctx = "live" THEN "error" ELSE "unsent"]
    /\ UNCHANGED <<pc, ctx, leaseCtx, acquire, nonce, destroyed, refresher,
                   refreshCtx, mu, saved, server, grants, released>>

(* ReleaseLease returns and unlocks.  The 500ms that a canceled context is   *)
(* given are derived from that context and are over before they begin.       *)
ReleaseLease(m) ==
    /\ release[m] = "served"
    /\ release' = [release EXCEPT ![m] = "done"]
    /\ mu' = [mu EXCEPT ![m] = "free"]
    /\ UNCHANGED <<pc, ctx, leaseCtx, acquire, nonce, destroyed, refresher,
                   refreshCtx, saved, result, server, grants, released>>

ReleaseDone ==
    /\ pc = "release"
    /\ \A m \in Machines : release[m] = "done"
    /\ pc' = "returned"
    /\ UNCHANGED <<ctx, leaseCtx, client, server, grants, released>>

Finished ==
    /\ pc = "returned"
    /\ \A m \in Machines : refresher[m] \in {"off", "gone"}
    /\ UNCHANGED vars

-----------------------------------------------------------------------------
RefresherStep(m) == Wake(m) \/ LockForRefresh(m) \/ ServeRefresh(m) \/ RefreshLease(m)

AcquireStep(m) == SendAcquire(m) \/ ServeAcquire(m) \/ AcquireLease(m) \/ AcquireFails(m)

ReleaseStep(m) == LockForRelease(m) \/ ServeRelease(m) \/ ReleaseFails(m) \/ ReleaseLease(m)

MachineStep(m) ==
    \/ AcquireStep(m) \/ RefresherStep(m) \/ ReleaseStep(m)
    \/ Destroy(m) \/ OtherAcquires(m) \/ Expire(m)

Next ==
    \/ AcquireDone \/ WorkDone \/ ReleaseDone \/ Cancel \/ Finished
    \/ \E m \in Machines : MachineStep(m)

Spec == Init /\ [][Next]_vars

(* Goroutines are scheduled and requests return.  A goroutine that waits for *)
(* mu gets it although the refresher keeps coming back: sync.Mutex hands     *)
(* itself to a waiter that has starved for 1ms.                              *)
Fairness ==
    /\ WF_vars(AcquireDone) /\ WF_vars(WorkDone) /\ WF_vars(ReleaseDone)
    /\ \A m \in Machines :
          /\ WF_vars(AcquireStep(m))
          /\ WF_vars(RefresherStep(m))
          /\ WF_vars(ReleaseStep(m))
          /\ SF_vars(LockForRelease(m))

FairSpec == Spec /\ Fairness

-----------------------------------------------------------------------------
(* Properties.                                                               *)

(* The state is well-typed.                                                  *)
TypeOK ==
    /\ pc \in {"acquire", "work", "release", "returned"}
    /\ ctx \in {"live", "canceled"} /\ leaseCtx \in {"live", "canceled"}
    /\ acquire \in [Machines -> {"todo", "sent", "granted", "ok", "err"}]
    /\ nonce \in [Machines -> 0 .. MaxGrants]
    /\ destroyed \in [Machines -> BOOLEAN]
    /\ refresher \in [Machines -> {"off", "sleep", "lock", "call", "served", "gone"}]
    /\ refreshCtx \in [Machines -> {"live", "canceled"}]
    /\ mu \in [Machines -> {"free", "refresher", "release"}]
    /\ release \in [Machines -> {"todo", "call", "served", "done"}]
    /\ saved \in [Machines -> 0 .. MaxGrants]
    /\ result \in [Machines -> {"none", "nil", "notFound", "error", "unsent"}]
    /\ server \in [Machines -> Other .. MaxGrants]
    /\ grants \in [Machines -> 0 .. MaxGrants]
    /\ released \subseteq Machines

Held(m) == server[m] > 0

(* Once the server has given up our lease at our request, no refresh that    *)
(* was under way, or still comes, brings one back: other deployments can     *)
(* have the machine.                                                         *)
ReleasedStaysReleased == \A m \in released : ~Held(m)

(* A refresh is never sent with an empty nonce, which the server could only  *)
(* take for a request for a new lease, and no release empties the nonce      *)
(* while the refresh that it will be compared with is under way.             *)
RefreshHasNonce == \A m \in Machines : refresher[m] = "served" => nonce[m] # 0

(* Every run of the program releases or gives up all its leases and returns, *)
(* even against refreshers that keep taking the lock.                        *)
AlwaysReturns == <>(pc = "returned")

(* No refresher outlives the release: the goroutines end.                    *)
RefreshersStop == <>[](\A m \in Machines : refresher[m] \in {"off", "gone"})
=============================================================================
