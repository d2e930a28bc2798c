---------------------------- MODULE WorkerControl ----------------------------
(***************************************************************************)
(* Who may control one session worker, and which data streams it serves    *)
(* (crates/session-worker/src/lease.rs, and server.rs: serve_control,      *)
(* acquire_request, release_request, open_data_request, TokenState,        *)
(* serve_data, redeem_data_grant and the lease arm of drive_stream).       *)
(*                                                                         *)
(* A control connection acquires the one controller lease and mints one-use *)
(* tokens; a data connection redeems a token and is served until the lease *)
(* epoch moves on.  Releasing the lease and bumping the epoch are two      *)
(* steps: the lease book and the epoch watch have locks of their own.      *)
(*                                                                         *)
(* A lease id and a token are random values, so they are the identity of   *)
(* the connection that got the lease and a member of Tokens minted once.   *)
(***************************************************************************)
EXTENDS Integers, FiniteSets

CONSTANTS Peers,        \* daemon processes (pid and start identity)
          Controls,     \* control connections, none of them reused
          Datas,        \* data connections, none of them reused
          Tokens,       \* token values random_value can draw
          VaultSize,    \* TokenState::maximum
          TokenTtl,     \* data_token_ttl, in clock ticks
          MaxTime       \* bound: clock ticks

ASSUME VaultAssumption == VaultSize \in Nat \ {0}
ASSUME TimeAssumption  == TokenTtl \in Nat /\ MaxTime \in Nat

Nobody == "nobody"
NoToken == "no token"
ASSUME NamesAssumption == Nobody \notin Peers \union Controls /\ NoToken \notin Tokens

VARIABLES
    alive,     \* the peers whose process still runs
    now,       \* Shared::now_ms
    lease,     \* ControllerLease.active: [holder, peer]
    epoch,     \* Shared.lease_epoch_tx
    control,   \* per control connection: [pc, peer]
    grants,    \* TokenState.grants
    data,      \* per data connection
    issued     \* history: tokens drawn so far

vars == <<alive, now, lease, epoch, control, grants, data, issued>>

NoLease == [holder |-> Nobody, peer |-> Nobody]

Grant == [token : Tokens, holder : Controls, peer : Peers, epoch : Nat, expires : Nat]
NoGrant == [token |-> NoToken, holder |-> Nobody, peer |-> Nobody, epoch |-> 0, expires |-> 0]

Init ==
    /\ alive = Peers
    /\ now = 0
    /\ lease = NoLease
    /\ epoch = 0
    /\ control = [c \in Controls |-> [pc |-> "new", peer |-> Nobody]]
    /\ grants = {}
    /\ data = [d \in Datas |-> [pc |-> "new", peer |-> Nobody, token |-> NoToken,
                                seen |-> 0, redeemed |-> 0, grant |-> NoGrant]]
    /\ issued = {}

-----------------------------------------------------------------------------
(* The environment *)

\* A daemon process exits; a descriptor it handed on may stay open.
PeerExit(p) ==
    /\ p \in alive
    /\ alive' = alive \ {p}
    /\ UNCHANGED <<now, lease, epoch, control, grants, data, issued>>

Tick ==
    /\ now < MaxTime
    /\ now' = now + 1
    /\ UNCHANGED <<alive, lease, epoch, control, grants, data, issued>>

-----------------------------------------------------------------------------
(* Control connections *)

Connect(c, p) ==
    /\ control[c].pc = "new" /\ p \in alive
    /\ control' = [control EXCEPT ![c] = [pc |-> "open", peer |-> p]]
    /\ UNCHANGED <<alive, now, lease, epoch, grants, data, issued>>

\* authorize_control_request
Authorized(c) == control[c].peer \in alive

\* Mutant: the lease is booked under the process instead of the connection.
AcquireForPeer(c) ==
    /\ control[c].pc = "open" /\ Authorized(c)
    /\ lease = NoLease
    /\ lease' = [holder |-> control[c].peer, peer |-> control[c].peer]
    /\ control' = [control EXCEPT ![c].pc = "acquiring"]
    /\ UNCHANGED <<alive, now, epoch, grants, data, issued>>

\* acquire_request takes the lease, then awaits the PTY before the connection
\* learns that it holds one.  Anyone else's lease means Busy.
AcquireLease(c) ==
    /\ control[c].pc = "open" /\ Authorized(c)
    /\ lease = NoLease
    /\ lease' = [holder |-> c, peer |-> control[c].peer]
    /\ control' = [control EXCEPT ![c].pc = "acquiring"]
    /\ UNCHANGED <<alive, now, epoch, grants, data, issued>>

AcquireDone(c) ==
    /\ control[c].pc = "acquiring"
    /\ control' = [control EXCEPT ![c].pc = "leased"]
    /\ UNCHANGED <<alive, now, lease, epoch, grants, data, issued>>

Owns(c) == lease = [holder |-> c, peer |-> control[c].peer]

Unexpired == {g \in grants : g.expires > now}

\* TokenState::insert accepts a grant only below the maximum.
HasRoom == Cardinality(Unexpired) < VaultSize

\* open_data_request: purge, refuse beyond the capacity, insert.  (A drawn value
\* already in the vault is refused too; random values do not repeat.)
OpenData(c, t) ==
    LET grant == [token |-> t, holder |-> c, peer |-> control[c].peer, epoch |-> epoch,
                  expires |-> now + TokenTtl]
    IN  /\ control[c].pc = "leased" /\ Authorized(c) /\ Owns(c)
        /\ t \notin issued
        /\ grant.expires > now
        /\ HasRoom
        /\ grants' = Unexpired \union {grant}
        /\ issued' = issued \union {t}
        /\ UNCHANGED <<alive, now, lease, epoch, control, data>>

\* ReleaseController, first step: release compares and clears under one lock.
Release(c) ==
    /\ control[c].pc = "leased" /\ Authorized(c) /\ Owns(c)
    /\ lease' = NoLease
    /\ control' = [control EXCEPT ![c].pc = "released"]
    /\ UNCHANGED <<alive, now, epoch, grants, data, issued>>

\* Mutant: a connection that just ends leaves its lease behind.
EndLeasedKeeping(c) ==
    /\ control[c].pc = "leased"
    /\ control' = [control EXCEPT ![c].pc = "ended"]
    /\ UNCHANGED <<alive, now, lease, epoch, grants, data, issued>>

\* The loop of a leased connection ends: EOF, a protocol error, a failed write, a
\* peer that is no longer the owner (rechecked every LEASE_PEER_RECHECK).
\* serve_control releases exactly this connection's lease.
EndLeased(c) ==
    /\ control[c].pc = "leased"
    /\ lease' = IF Owns(c) THEN NoLease ELSE lease
    /\ control' = [control EXCEPT ![c].pc = IF Owns(c) THEN "released" ELSE "ended"]
    /\ UNCHANGED <<alive, now, epoch, grants, data, issued>>

\* Mutant: the release does not move the epoch.
BumpNothing(c) ==
    /\ control[c].pc = "released"
    /\ control' = [control EXCEPT ![c].pc = "ended"]
    /\ UNCHANGED <<alive, now, lease, epoch, grants, data, issued>>

\* bump_lease_epoch, after either release.
BumpEpoch(c) ==
    /\ control[c].pc = "released"
    /\ epoch' = epoch + 1
    /\ control' = [control EXCEPT ![c].pc = "ended"]
    /\ UNCHANGED <<alive, now, lease, grants, data, issued>>

EndUnleased(c) ==
    /\ control[c].pc = "open"
    /\ control' = [control EXCEPT ![c].pc = "ended"]
    /\ UNCHANGED <<alive, now, lease, epoch, grants, data, issued>>

-----------------------------------------------------------------------------
(* Data connections *)

\* serve_data subscribes to the epoch before it reads the open frame: the watch
\* receiver will report any value set after this one.  A token travels over a
\* control connection, so it is drawn before anyone presents it.
DataOpen(d, p, t) ==
    /\ data[d].pc = "new" /\ p \in alive /\ t \in issued
    /\ data' = [data EXCEPT ![d] = [@ EXCEPT !.pc = "opened", !.peer = p, !.token = t,
                                             !.seen = epoch]]
    /\ UNCHANGED <<alive, now, lease, epoch, control, grants, issued>>

\* The epoch is borrowed before redemption ...
DataBorrow(d) ==
    /\ data[d].pc = "opened"
    /\ data' = [data EXCEPT ![d] = [@ EXCEPT !.pc = "borrowed", !.redeemed = epoch]]
    /\ UNCHANGED <<alive, now, lease, epoch, control, grants, issued>>

Close(d) == data' = [data EXCEPT ![d].pc = "closed"]

GrantsOf(t) == {g \in Unexpired : g.token = t}

\* Mutant: only the liveness of the presenting process is checked.
ForeignIfDead(d, g) == data[d].peer \notin alive

\* The presenting process is gone, or not the one the grant was minted for.
Foreign(d, g) == data[d].peer \notin alive \/ g.peer # data[d].peer

\* Mutant: redemption reads the grant and leaves it in the vault.
ConsumedNot(t) == Unexpired

\* TokenState::redeem removes the grant.
Consumed(t) == Unexpired \ GrantsOf(t)

\* redeem_data_grant under the token lock: a foreign peer is turned away before
\* the grant is touched; otherwise the grant is consumed whatever follows: its
\* lease or epoch may be over, or the open frame may not match it.
DataRedeem(d) ==
    LET mine == GrantsOf(data[d].token)
    IN  /\ data[d].pc = "borrowed"
        /\ IF \E g \in mine : Foreign(d, g)
           THEN grants' = Unexpired /\ Close(d)
           ELSE /\ grants' = Consumed(data[d].token)
                /\ \/ \E g \in mine :
                         /\ lease = [holder |-> g.holder, peer |-> g.peer]
                         /\ g.epoch = data[d].redeemed
                         /\ data' = [data EXCEPT ![d] = [@ EXCEPT !.pc = "redeemed",
                                                                  !.grant = g]]
                   \/ Close(d)
        /\ UNCHANGED <<alive, now, lease, epoch, control, issued>>

\* Mutant: the epoch is subscribed to only now, and not compared.
DataServeLate(d) ==
    /\ data[d].pc = "redeemed"
    /\ data' = [data EXCEPT ![d].pc = "served", ![d].seen = epoch]
    /\ UNCHANGED <<alive, now, lease, epoch, control, grants, issued>>

\* ... and compared once more before the stream is served, if there is a runtime.
DataServe(d) ==
    /\ data[d].pc = "redeemed"
    /\ \/ epoch = data[d].grant.epoch /\ data' = [data EXCEPT ![d].pc = "served"]
       \/ Close(d)
    /\ UNCHANGED <<alive, now, lease, epoch, control, grants, issued>>

\* drive_stream: the epoch changed since the subscription.
DataRevoked(d) ==
    /\ data[d].pc = "served" /\ epoch # data[d].seen
    /\ data' = [data EXCEPT ![d].pc = "revoked"]
    /\ UNCHANGED <<alive, now, lease, epoch, control, grants, issued>>

\* The peer closes the stream, or a frame finds it gone (authorize_data_frame).
DataEnd(d) ==
    /\ data[d].pc = "served"
    /\ Close(d)
    /\ UNCHANGED <<alive, now, lease, epoch, control, grants, issued>>

-----------------------------------------------------------------------------
ControlStep(c) ==
    \/ \E p \in Peers : Connect(c, p)
    \/ AcquireLease(c) \/ AcquireDone(c)
    \/ \E t \in Tokens : OpenData(c, t)
    \/ Release(c) \/ EndLeased(c) \/ BumpEpoch(c) \/ EndUnleased(c)

DataStep(d) ==
    \/ \E p \in Peers, t \in Tokens : DataOpen(d, p, t)
    \/ DataBorrow(d) \/ DataRedeem(d) \/ DataServe(d) \/ DataRevoked(d) \/ DataEnd(d)

Next ==
    \/ \E p \in Peers : PeerExit(p)
    \/ Tick
    \/ \E c \in Controls : ControlStep(c)
    \/ \E d \in Datas : DataStep(d)

Spec == Init /\ [][Next]_vars

\* A dead peer's connection is ended by the periodic recheck or by EOF.
Recheck(c) == control[c].peer \notin alive /\ EndLeased(c)

\* The worker's tasks run: a handler that was entered returns, a leased
\* connection is rechecked, a served stream polls its lease arm.  Nothing is
\* assumed of the daemons.
FairSpec ==
    /\ Spec
    /\ \A c \in Controls : WF_vars(AcquireDone(c)) /\ WF_vars(BumpEpoch(c)) /\ WF_vars(Recheck(c))
    /\ \A d \in Datas : /\ WF_vars(DataBorrow(d)) /\ WF_vars(DataRedeem(d))
                        /\ WF_vars(DataServe(d)) /\ WF_vars(DataRevoked(d))

-----------------------------------------------------------------------------
(* Properties *)

DataState ==
    [pc : {"new", "opened", "borrowed", "redeemed", "served", "revoked", "closed"},
     peer : Peers \union {Nobody}, token : Tokens \union {NoToken},
     seen : Nat, redeemed : Nat, grant : Grant \union {NoGrant}]

TypeOK ==
    /\ alive \subseteq Peers
    /\ now \in Nat /\ epoch \in Nat
    /\ lease \in [holder : Controls \union {Nobody}, peer : Peers \union {Nobody}]
    /\ control \in [Controls ->
          [pc : {"new", "open", "acquiring", "leased", "released", "ended"},
           peer : Peers \union {Nobody}]]
    /\ grants \subseteq Grant
    /\ data \in [Datas -> DataState]
    /\ issued \subseteq Tokens

\* The lease is never leaked: it is held exactly while the one connection that
\* acquired it is still going to release it (serve_control; a leak would answer
\* Busy to every later daemon).
HeldBy(c) == control[c].pc \in {"acquiring", "leased"}
LeaseNotLeaked ==
    \A c \in Controls : HeldBy(c) <=> Owns(c) /\ control[c].peer \in Peers

\* A token is used once: no two data connections were given the same grant, and
\* a used one is gone from the vault (TokenState::redeem).
Used(d) == data[d].grant # NoGrant
TokensOneUse ==
    /\ \A d, e \in Datas : Used(d) /\ Used(e) /\ data[d].grant.token = data[e].grant.token => d = e
    /\ \A d \in Datas : Used(d) => \A g \in grants : g.token # data[d].grant.token

\* Only the process a grant was minted for is served under it.
ServedToOwner ==
    \A d \in Datas : data[d].pc \in {"redeemed", "served"} => data[d].grant.peer = data[d].peer

\* A stream never silently outlives its lease: once the lease it was granted
\* under is gone and the release is complete, its close signal is pending,
\* wherever the release fell in the redemption (serve_data, release_request).
Bumping == \E c \in Controls : control[c].pc = "released"
RevocationPending ==
    \A d \in Datas :
        data[d].pc = "served" /\ lease.holder # data[d].grant.holder /\ ~Bumping =>
            epoch # data[d].seen

\* A foreign or late attempt leaves other tokens alone: a step removes a grant
\* only when it expired or its own process presented it.
TokensNotBurned ==
    [][\A g \in grants \ grants' :
          \/ g.expires <= now
          \/ \E d \in Datas : data[d].token = g.token /\ data[d].peer = g.peer]_vars

\* The vault stays within its capacity.
VaultBounded == Cardinality(grants) <= VaultSize

\* A stream of a released lease is eventually closed.
StreamsRevoked ==
    \A d \in Datas :
        (data[d].pc = "served" /\ lease.holder # data[d].grant.holder) ~> (data[d].pc # "served")

\* A controller whose process died loses the lease, even if its descriptor
\* lives on in another process (LEASE_PEER_RECHECK).
DeadControllerReleased ==
    \A c \in Controls :
        (Owns(c) /\ control[c].peer \in Peers \ alive) ~> (lease.holder # c)

\* "A released connection must not revoke a replacement" (serve_control): a
\* stream of the active lease is not closed as released.
ReplacementNotRevoked ==
    \A d \in Datas : data[d].pc = "served" /\ lease.holder = data[d].grant.holder =>
        epoch = data[d].seen
=============================================================================
