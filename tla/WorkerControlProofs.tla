------------------------- MODULE WorkerControlProofs -------------------------
(***************************************************************************)
(* Proofs about WorkerControl for any number of peers, connections, tokens *)
(* and any capacity and lifetime of the token vault.                       *)
(***************************************************************************)
EXTENDS WorkerControl, TLAPS, FiniteSetTheorems

-----------------------------------------------------------------------------
\* Every variable of the lease and token books keeps its type under every step
\* of serve_control and serve_data.
LEMMA TypeStep == TypeOK /\ [Next]_vars => TypeOK'
<1> SUFFICES ASSUME TypeOK, [Next]_vars PROVE TypeOK'
    OBVIOUS
<1> USE DEF TypeOK
<1>1. ASSUME NEW p \in Peers, PeerExit(p) PROVE TypeOK'
    BY <1>1 DEF PeerExit
<1>2. CASE Tick
    BY <1>2 DEF Tick
<1>3. ASSUME NEW c \in Controls, NEW p \in Peers, Connect(c, p) PROVE TypeOK'
    BY <1>3 DEF Connect
<1>4. ASSUME NEW c \in Controls, AcquireLease(c) PROVE TypeOK'
    BY <1>4 DEF AcquireLease, Authorized
<1>5. ASSUME NEW c \in Controls, AcquireDone(c) PROVE TypeOK'
    BY <1>5 DEF AcquireDone
<1>6. ASSUME NEW c \in Controls, NEW t \in Tokens, OpenData(c, t) PROVE TypeOK'
    BY <1>6, TimeAssumption DEF OpenData, Authorized, Unexpired, Grant
<1>7. ASSUME NEW c \in Controls, Release(c) PROVE TypeOK'
    BY <1>7 DEF Release, NoLease
<1>8. ASSUME NEW c \in Controls, EndLeased(c) PROVE TypeOK'
    BY <1>8 DEF EndLeased, NoLease
<1>9. ASSUME NEW c \in Controls, BumpEpoch(c) PROVE TypeOK'
    BY <1>9 DEF BumpEpoch
<1>10. ASSUME NEW c \in Controls, EndUnleased(c) PROVE TypeOK'
    BY <1>10 DEF EndUnleased
<1>11. ASSUME NEW d \in Datas, NEW p \in Peers, NEW t \in Tokens, DataOpen(d, p, t)
       PROVE  TypeOK'
    <2> DEFINE r1 == [data[d] EXCEPT !.pc = "opened"]
               r2 == [r1 EXCEPT !.peer = p]
               r3 == [r2 EXCEPT !.token = t]
               r4 == [r3 EXCEPT !.seen = epoch]
    <2>1. r1 \in DataState BY DEF DataState
    <2>2. r2 \in DataState BY <2>1 DEF DataState
    <2>3. r3 \in DataState BY <2>2 DEF DataState
    <2>4. r4 \in DataState BY <2>3 DEF DataState
    <2>5. data' = [data EXCEPT ![d] = r4] BY <1>11 DEF DataOpen
    <2> HIDE DEF r4
    <2> QED BY <1>11, <2>4, <2>5 DEF DataOpen
<1>12. ASSUME NEW d \in Datas, DataBorrow(d) PROVE TypeOK'
    <2> DEFINE r1 == [data[d] EXCEPT !.pc = "borrowed"]
               r2 == [r1 EXCEPT !.redeemed = epoch]
    <2>1. r1 \in DataState BY DEF DataState
    <2>2. r2 \in DataState BY <2>1 DEF DataState
    <2>3. data' = [data EXCEPT ![d] = r2] BY <1>12 DEF DataBorrow
    <2> HIDE DEF r2
    <2> QED BY <1>12, <2>2, <2>3 DEF DataBorrow
<1>13. ASSUME NEW d \in Datas, DataRedeem(d) PROVE TypeOK'
    <2>1. grants' \subseteq grants
        BY <1>13 DEF DataRedeem, Consumed, Unexpired
    <2>2. CASE Close(d)
        BY <1>13, <2>1, <2>2, ZenonT(60) DEF DataRedeem, Close, DataState
    <2>3. CASE ~Close(d)
        <3>1. PICK g \in grants :
                data' = [data EXCEPT ![d] = [@ EXCEPT !.pc = "redeemed", !.grant = g]]
            BY <1>13, <2>3 DEF DataRedeem, GrantsOf, Unexpired
        <3> DEFINE r1 == [data[d] EXCEPT !.pc = "redeemed"]
                   r2 == [r1 EXCEPT !.grant = g]
        <3>2. r1 \in DataState BY DEF DataState
        <3>3. r2 \in DataState BY <3>2 DEF DataState
        <3>4. data' = [data EXCEPT ![d] = r2] BY <3>1
        <3> HIDE DEF r2
        <3> QED BY <1>13, <2>1, <3>3, <3>4 DEF DataRedeem
    <2> QED BY <2>2, <2>3
<1>14. ASSUME NEW d \in Datas, DataServe(d) PROVE TypeOK'
    BY <1>14 DEF DataServe, Close, DataState
<1>15. ASSUME NEW d \in Datas, DataRevoked(d) PROVE TypeOK'
    BY <1>15 DEF DataRevoked, DataState
<1>16. ASSUME NEW d \in Datas, DataEnd(d) PROVE TypeOK'
    BY <1>16 DEF DataEnd, Close, DataState
<1>17. CASE UNCHANGED vars
    BY <1>17 DEF vars
<1> QED
    BY <1>1, <1>2, <1>3, <1>4, <1>5, <1>6, <1>7, <1>8, <1>9, <1>10, <1>11, <1>12, <1>13,
       <1>14, <1>15, <1>16, <1>17
    DEF Next, ControlStep, DataStep

\* The lease and token books hold what their types say, for every execution.
THEOREM TypeCorrect == Spec => []TypeOK
<1>1. Init => TypeOK
    BY DEF Init, TypeOK, NoLease, DataState
<1> QED
    BY <1>1, TypeStep, PTL DEF Spec

-----------------------------------------------------------------------------
(* The inductive invariant *)

\* The lease is booked for exactly the connection that will release it.
LeaseInv ==
    /\ \A c \in Controls : HeldBy(c) => Owns(c) /\ control[c].peer \in Peers
    /\ lease # NoLease => lease.holder \in Controls /\ HeldBy(lease.holder)

\* A grant was minted by a connection that held the lease, in an epoch that is
\* over once that connection has ended.
GrantInv(g) ==
    /\ g.token \in issued
    /\ g.epoch <= epoch
    /\ control[g.holder].pc \in {"leased", "released", "ended"}
    /\ control[g.holder].pc = "ended" => g.epoch < epoch

VaultInv ==
    /\ \A g \in grants : GrantInv(g)
    /\ \A g, h \in grants : g.token = h.token => g = h

\* A stream subscribed to the epoch before it borrowed it, and borrowed it before
\* it redeemed the grant it now owns alone.
StreamOf(d) ==
    /\ data[d].seen <= epoch
    /\ data[d].pc \in {"borrowed", "redeemed", "served"} =>
          data[d].seen <= data[d].redeemed /\ data[d].redeemed <= epoch
    /\ data[d].pc \in {"redeemed", "served"} =>
          /\ Used(d)
          /\ data[d].grant.epoch = data[d].redeemed
          /\ data[d].grant.peer = data[d].peer
    /\ data[d].pc \in {"new", "opened", "borrowed"} => ~Used(d)
    /\ Used(d) => GrantInv(data[d].grant)

StreamInv == \A d \in Datas : StreamOf(d)

IInv == TypeOK /\ LeaseInv /\ VaultInv /\ StreamInv /\ TokensOneUse

\* The steps that touch neither the lease nor a control connection.
DataSide == (\E p \in Peers : PeerExit(p)) \/ Tick \/ (\E d \in Datas : DataStep(d))

\* A data connection, a clock tick or an exit leaves the control side as it was.
LEMMA DataSideFrame == DataSide => UNCHANGED <<lease, epoch, control, issued>>
BY DEF DataSide, PeerExit, Tick, DataStep, DataOpen, DataBorrow, DataRedeem, DataServe,
       DataRevoked, DataEnd

\* acquire, release and the end of a connection keep the lease booked for the
\* one connection that will give it back.
LEMMA LeaseStep == TypeOK /\ LeaseInv /\ [Next]_vars => LeaseInv'
<1> SUFFICES ASSUME TypeOK, LeaseInv, [Next]_vars PROVE LeaseInv'
    OBVIOUS
<1> USE NamesAssumption DEF TypeOK, LeaseInv, HeldBy, Owns, NoLease
<1>1. CASE DataSide \/ UNCHANGED vars
    BY <1>1, DataSideFrame DEF vars
<1>2. ASSUME NEW c \in Controls, NEW p \in Peers, Connect(c, p) PROVE LeaseInv'
    BY <1>2 DEF Connect
<1>3. ASSUME NEW c \in Controls, AcquireLease(c) PROVE LeaseInv'
    BY <1>3 DEF AcquireLease, Authorized
<1>4. ASSUME NEW c \in Controls, AcquireDone(c) PROVE LeaseInv'
    BY <1>4 DEF AcquireDone
<1>5. ASSUME NEW c \in Controls, NEW t \in Tokens, OpenData(c, t) PROVE LeaseInv'
    BY <1>5 DEF OpenData
<1>6. ASSUME NEW c \in Controls, Release(c) PROVE LeaseInv'
    BY <1>6 DEF Release
<1>7. ASSUME NEW c \in Controls, EndLeased(c) PROVE LeaseInv'
    BY <1>7 DEF EndLeased
<1>8. ASSUME NEW c \in Controls, BumpEpoch(c) PROVE LeaseInv'
    BY <1>8 DEF BumpEpoch
<1>9. ASSUME NEW c \in Controls, EndUnleased(c) PROVE LeaseInv'
    BY <1>9 DEF EndUnleased
<1> QED
    BY <1>1, <1>2, <1>3, <1>4, <1>5, <1>6, <1>7, <1>8, <1>9 DEF Next, ControlStep, DataSide

\* Whoever holds a grant, its epoch stays in step with the connection that
\* minted it: serve_control bumps the epoch before the connection ends.
LEMMA GrantStep ==
    ASSUME TypeOK, LeaseInv, [Next]_vars, NEW g \in Grant, GrantInv(g)
    PROVE  /\ g.token \in issued'
           /\ g.epoch <= epoch'
           /\ control'[g.holder].pc \in {"leased", "released", "ended"}
           /\ control'[g.holder].pc = "ended" => g.epoch < epoch'
<1> DEFINE Goal == /\ g.token \in issued'
                   /\ g.epoch <= epoch'
                   /\ control'[g.holder].pc \in {"leased", "released", "ended"}
                   /\ control'[g.holder].pc = "ended" => g.epoch < epoch'
<1>0. g.epoch \in Nat /\ g.holder \in Controls /\ epoch \in Nat
    BY DEF Grant, TypeOK
<1> USE <1>0 DEF TypeOK, GrantInv
<1>1. CASE DataSide \/ UNCHANGED vars
    BY <1>1, DataSideFrame DEF vars
<1>2. ASSUME NEW c \in Controls, NEW p \in Peers, Connect(c, p) PROVE Goal
    BY <1>2 DEF Connect
<1>3. ASSUME NEW c \in Controls, AcquireLease(c) PROVE Goal
    BY <1>3 DEF AcquireLease
<1>4. ASSUME NEW c \in Controls, AcquireDone(c) PROVE Goal
    BY <1>4 DEF AcquireDone
<1>5. ASSUME NEW c \in Controls, NEW t \in Tokens, OpenData(c, t) PROVE Goal
    BY <1>5 DEF OpenData
<1>6. ASSUME NEW c \in Controls, Release(c) PROVE Goal
    BY <1>6 DEF Release
<1>7. ASSUME NEW c \in Controls, EndLeased(c) PROVE Goal
    BY <1>7 DEF EndLeased, LeaseInv, HeldBy
<1>8. ASSUME NEW c \in Controls, BumpEpoch(c) PROVE Goal
    BY <1>8 DEF BumpEpoch
<1>9. ASSUME NEW c \in Controls, EndUnleased(c) PROVE Goal
    BY <1>9 DEF EndUnleased
<1> QED
    BY <1>1, <1>2, <1>3, <1>4, <1>5, <1>6, <1>7, <1>8, <1>9 DEF Next, ControlStep, DataSide

\* Only open_data_request adds a grant; every other step leaves the vault alone or
\* takes grants out of it.
LEMMA VaultGrows ==
    ASSUME [Next]_vars
    PROVE  \/ grants' \subseteq grants
           \/ \E c \in Controls, t \in Tokens : OpenData(c, t)
BY DEF Next, vars, PeerExit, Tick, ControlStep, Connect, AcquireLease, AcquireDone, Release,
       EndLeased, BumpEpoch, EndUnleased, DataStep, DataOpen, DataBorrow, DataRedeem,
       DataServe, DataRevoked, DataEnd, Consumed, Unexpired

\* TokenState::insert never adds a second grant of one token.
LEMMA VaultStep == TypeOK /\ LeaseInv /\ VaultInv /\ [Next]_vars => VaultInv'
<1> SUFFICES ASSUME TypeOK, LeaseInv, VaultInv, [Next]_vars PROVE VaultInv'
    OBVIOUS
<1>1. \A g \in grants : GrantInv(g)'
    BY GrantStep DEF TypeOK, VaultInv, GrantInv
<1>2. CASE grants' \subseteq grants
    BY <1>1, <1>2 DEF VaultInv
<1>3. ASSUME NEW c \in Controls, NEW t \in Tokens, OpenData(c, t) PROVE VaultInv'
    <2>1. PICK new : new = [token |-> t, holder |-> c, peer |-> control[c].peer,
                            epoch |-> epoch, expires |-> now + TokenTtl]
        OBVIOUS
    <2>2. grants' = Unexpired \union {new}
        BY <1>3, <2>1, Zenon DEF OpenData
    <2>3. grants' \subseteq grants \union {new}
        BY <2>2 DEF Unexpired
    <2>4. new.token = t /\ GrantInv(new)'
        BY <1>3, <2>1 DEF OpenData, GrantInv, TypeOK
    <2>5. \A g \in grants : g.token # t
        BY <1>3 DEF OpenData, VaultInv, GrantInv
    <2>6. \A g \in grants' : GrantInv(g)'
        BY <1>1, <2>3, <2>4
    <2>7. \A g, h \in grants' : g.token = h.token => g = h
        BY <2>3, <2>4, <2>5 DEF VaultInv
    <2> QED BY <2>6, <2>7 DEF VaultInv
<1> QED BY <1>2, <1>3, VaultGrows

\* The steps of redeem_data_grant that hand out a grant: it is the only one of its
\* token, minted for the presenting process in the borrowed epoch, and gone from
\* the vault.
LEMMA RedeemGrants ==
    ASSUME TypeOK, VaultInv, NEW d \in Datas, DataRedeem(d), ~Close(d)
    PROVE  \E g \in grants :
               /\ data' = [data EXCEPT ![d] = [@ EXCEPT !.pc = "redeemed", !.grant = g]]
               /\ g.epoch = data[d].redeemed /\ g.peer = data[d].peer
               /\ g.token = data[d].token
               /\ \A h \in grants' : h \in grants /\ h.token # g.token
BY ZenonT(60) DEF DataRedeem, GrantsOf, Unexpired, Consumed, Foreign, VaultInv

\* bump_lease_epoch only counts up.
LEMMA EpochGrows ==
    ASSUME TypeOK, [Next]_vars PROVE epoch \in Nat /\ epoch' \in Nat /\ epoch <= epoch'
<1>1. epoch \in Nat
    BY DEF TypeOK
<1>2. epoch' = epoch \/ epoch' = epoch + 1
    <2>1. CASE DataSide \/ UNCHANGED vars
        BY <2>1, DataSideFrame DEF vars
    <2>2. CASE \E c \in Controls : ControlStep(c)
        BY <2>2 DEF ControlStep, Connect, AcquireLease, AcquireDone, OpenData, Release,
                    EndLeased, BumpEpoch, EndUnleased
    <2> QED BY <2>1, <2>2 DEF Next, DataSide
<1> QED BY <1>1, <1>2

\* A data connection changes only by its own steps.
LEMMA DataFrame ==
    ASSUME TypeOK, [Next]_vars, NEW e \in Datas
    PROVE  data'[e] = data[e] \/ DataStep(e)
<1>1. CASE UNCHANGED data
    BY <1>1
<1>2. ASSUME NEW d \in Datas, DataStep(d), d # e PROVE data'[e] = data[e]
    BY <1>2 DEF TypeOK, DataStep, DataOpen, DataBorrow, DataRedeem, DataServe, DataRevoked,
                DataEnd, Close
<1>3. ASSUME NEW c \in Controls, ControlStep(c) PROVE UNCHANGED data
    BY <1>3 DEF ControlStep, Connect, AcquireLease, AcquireDone, OpenData, Release,
                EndLeased, BumpEpoch, EndUnleased
<1>4. CASE (\E p \in Peers : PeerExit(p)) \/ Tick \/ UNCHANGED vars
    BY <1>4 DEF PeerExit, Tick, vars
<1> QED BY <1>1, <1>2, <1>3, <1>4 DEF Next

\* A stream that does not move keeps its part of the invariant while the control
\* side goes on: the epoch only grows and its grant follows GrantStep.
LEMMA StreamFrame ==
    ASSUME TypeOK, LeaseInv, [Next]_vars, NEW e \in Datas, StreamOf(e), data'[e] = data[e]
    PROVE  StreamOf(e)'
<1>1. data[e] \in DataState
    BY DEF TypeOK
<1>2. data[e].seen \in Nat /\ data[e].redeemed \in Nat
    BY <1>1 DEF DataState
<1>3. Used(e) => data[e].grant \in Grant
    BY <1>1 DEF DataState, Used
<1>4. Used(e) => GrantInv(data[e].grant)'
    BY <1>3, GrantStep DEF StreamOf, GrantInv
<1> QED
    BY <1>2, <1>4, EpochGrows DEF StreamOf, Used

\* Every step of serve_data keeps the order in which it subscribes, borrows and
\* redeems.
LEMMA StreamStep ==
    TypeOK /\ LeaseInv /\ VaultInv /\ StreamInv /\ [Next]_vars => StreamInv'
<1> SUFFICES ASSUME TypeOK, LeaseInv, VaultInv, StreamInv, [Next]_vars, NEW e \in Datas
             PROVE  StreamOf(e)'
    BY DEF StreamInv
<1>0. /\ data[e] \in DataState /\ StreamOf(e)
      /\ data[e].seen \in Nat /\ data[e].redeemed \in Nat /\ epoch \in Nat
    BY DEF TypeOK, StreamInv, DataState
<1>1. CASE data'[e] = data[e]
    BY <1>0, <1>1, StreamFrame
<1>2. ASSUME NEW p \in Peers, NEW t \in Tokens, DataOpen(e, p, t) PROVE StreamOf(e)'
    <2>1. /\ data'[e].pc = "opened" /\ data'[e].seen = epoch /\ epoch' = epoch
          /\ data'[e].grant = data[e].grant /\ data[e].pc = "new"
        BY <1>0, <1>2 DEF DataOpen, TypeOK, DataState
    <2> QED BY <1>0, <2>1 DEF StreamOf, Used
<1>3. CASE DataBorrow(e)
    <2>1. /\ data'[e].pc = "borrowed" /\ data'[e].redeemed = epoch /\ epoch' = epoch
          /\ data'[e].seen = data[e].seen
          /\ data'[e].grant = data[e].grant /\ data[e].pc = "opened"
        BY <1>0, <1>3 DEF DataBorrow, TypeOK, DataState
    <2> QED BY <1>0, <2>1 DEF StreamOf, Used
<1>4. ASSUME Close(e), UNCHANGED <<epoch, control, issued>> PROVE StreamOf(e)'
    <2>1. /\ data'[e].pc = "closed"
          /\ data'[e].seen = data[e].seen /\ data'[e].grant = data[e].grant
        BY <1>0, <1>4 DEF Close, TypeOK, DataState
    <2> QED BY <1>0, <1>4, <2>1 DEF StreamOf, Used, GrantInv
<1>5. CASE DataRedeem(e) /\ ~Close(e)
    <2>1. PICK g \in grants :
               /\ data' = [data EXCEPT ![e] = [@ EXCEPT !.pc = "redeemed", !.grant = g]]
               /\ g.epoch = data[e].redeemed /\ g.peer = data[e].peer
        BY <1>5, RedeemGrants
    <2>2. /\ data'[e].pc = "redeemed" /\ data'[e].grant = g
          /\ data'[e].seen = data[e].seen /\ data'[e].redeemed = data[e].redeemed
          /\ data'[e].peer = data[e].peer
        BY <1>0, <2>1 DEF TypeOK, DataState
    <2>3. data[e].pc = "borrowed" /\ UNCHANGED <<epoch, control, issued>>
        BY <1>5 DEF DataRedeem
    <2>4. g # NoGrant /\ GrantInv(g)
        BY NamesAssumption DEF TypeOK, Grant, NoGrant, VaultInv
    <2> QED BY <1>0, <2>1, <2>2, <2>3, <2>4 DEF StreamOf, Used, GrantInv
<1>6. CASE (DataServe(e) \/ DataRevoked(e)) /\ ~Close(e)
    <2>1. /\ data[e].pc \in {"redeemed", "served"}
          /\ data'[e].pc \in {"served", "revoked"}
          /\ data'[e].seen = data[e].seen /\ data'[e].redeemed = data[e].redeemed
          /\ data'[e].peer = data[e].peer /\ data'[e].grant = data[e].grant
          /\ UNCHANGED <<epoch, control, issued>>
        BY <1>0, <1>6 DEF DataServe, DataRevoked, TypeOK, DataState
    <2> QED BY <1>0, <2>1 DEF StreamOf, Used, GrantInv
<1>7. CASE DataEnd(e)
    BY <1>4, <1>7 DEF DataEnd
<1>8. CASE (DataRedeem(e) \/ DataServe(e) \/ DataRevoked(e)) /\ Close(e)
    BY <1>4, <1>8 DEF DataRedeem, DataServe, DataRevoked
<1> QED
    BY <1>1, <1>2, <1>3, <1>5, <1>6, <1>7, <1>8, DataFrame DEF DataStep

\* Only a redemption changes the grant a data connection holds.
LEMMA GrantFrame ==
    ASSUME TypeOK, [Next]_vars, NEW e \in Datas
    PROVE  data'[e].grant = data[e].grant \/ (DataRedeem(e) /\ ~Close(e))
<1>0. data[e] \in DataState
    BY DEF TypeOK
<1>1. ASSUME NEW p \in Peers, NEW t \in Tokens, DataOpen(e, p, t)
      PROVE  data'[e].grant = data[e].grant
    BY <1>0, <1>1 DEF DataOpen, TypeOK, DataState
<1>2. CASE DataBorrow(e)
    BY <1>0, <1>2 DEF DataBorrow, TypeOK, DataState
<1>3. CASE Close(e)
    BY <1>0, <1>3 DEF Close, TypeOK, DataState
<1>4. CASE (DataServe(e) \/ DataRevoked(e)) /\ ~Close(e)
    BY <1>0, <1>4 DEF DataServe, DataRevoked, TypeOK, DataState
<1> QED
    BY <1>1, <1>2, <1>3, <1>4, DataFrame DEF DataStep, DataEnd

\* redeem takes the grant out of the vault for the one stream it serves, and a
\* drawn token never comes back.
LEMMA OneUseStep ==
    TypeOK /\ VaultInv /\ StreamInv /\ TokensOneUse /\ [Next]_vars => TokensOneUse'
<1> SUFFICES ASSUME TypeOK, VaultInv, StreamInv, TokensOneUse, [Next]_vars
             PROVE  TokensOneUse'
    OBVIOUS
<1>1. ASSUME NEW d \in Datas, DataRedeem(d), ~Close(d) PROVE TokensOneUse'
    <2>1. PICK g \in grants :
               /\ data' = [data EXCEPT ![d] = [@ EXCEPT !.pc = "redeemed", !.grant = g]]
               /\ \A h \in grants' : h \in grants /\ h.token # g.token
        BY <1>1, RedeemGrants
    <2>2. data'[d].grant = g /\ \A e \in Datas \ {d} : data'[e] = data[e]
        BY <2>1 DEF TypeOK, DataState
    <2>3. \A e \in Datas : Used(e) => data[e].grant.token # g.token
        BY DEF TokensOneUse
    <2> QED BY <2>1, <2>2, <2>3 DEF TokensOneUse, Used
<1>2. ASSUME \A e \in Datas : data'[e].grant = data[e].grant PROVE TokensOneUse'
    <2>1. CASE grants' \subseteq grants
        BY <1>2, <2>1 DEF TokensOneUse, Used
    <2>2. ASSUME NEW c \in Controls, NEW t \in Tokens, OpenData(c, t) PROVE TokensOneUse'
        <3>1. PICK new : new = [token |-> t, holder |-> c, peer |-> control[c].peer,
                                epoch |-> epoch, expires |-> now + TokenTtl]
            OBVIOUS
        <3>2. grants' = Unexpired \union {new}
            BY <2>2, <3>1, Zenon DEF OpenData
        <3>3. grants' \subseteq grants \union {new} /\ new.token \notin issued
            BY <2>2, <3>1, <3>2 DEF Unexpired, OpenData
        <3>4. \A e \in Datas : Used(e) => data[e].grant.token \in issued
            BY DEF StreamInv, StreamOf, GrantInv
        <3> QED BY <1>2, <3>3, <3>4 DEF TokensOneUse, Used
    <2> QED BY <2>1, <2>2, VaultGrows
<1> QED BY <1>1, <1>2, GrantFrame

\* The invariant holds initially and is kept by every step.
THEOREM Invariance == Spec => []IInv
<1>1. Init => IInv
    <2> SUFFICES ASSUME Init PROVE IInv
        OBVIOUS
    <2>1. TypeOK
        BY DEF Init, TypeOK, NoLease, DataState
    <2>2. LeaseInv /\ VaultInv /\ StreamInv /\ TokensOneUse
        BY NamesAssumption
        DEF Init, LeaseInv, VaultInv, StreamInv, StreamOf, TokensOneUse, HeldBy, Used
    <2> QED BY <2>1, <2>2 DEF IInv
<1>2. IInv /\ [Next]_vars => IInv'
    BY TypeStep, LeaseStep, VaultStep, StreamStep, OneUseStep DEF IInv
<1> QED
    BY <1>1, <1>2, PTL DEF Spec

\* The lease is never leaked: it is held exactly while the one connection that
\* acquired it is still going to release it (ControllerLease, serve_control).
THEOREM LeaseSafe == Spec => []LeaseNotLeaked
<1>1. IInv => LeaseNotLeaked
    BY NamesAssumption DEF IInv, TypeOK, LeaseInv, LeaseNotLeaked, HeldBy, Owns, NoLease
<1> QED BY <1>1, Invariance, PTL

\* No two data connections are given the same grant, and a grant that was given
\* is gone from the vault (TokenState::redeem).
THEOREM TokenSafe == Spec => []TokensOneUse
BY Invariance, PTL DEF IInv

\* Only the process a grant was minted for is served under it.
THEOREM OwnerServed == Spec => []ServedToOwner
<1>1. IInv => ServedToOwner
    BY DEF IInv, StreamInv, StreamOf, ServedToOwner
<1> QED BY <1>1, Invariance, PTL

\* A stream never silently outlives its lease, wherever the release fell in its
\* redemption: the grant's epoch is over once its minter has ended, and the
\* stream subscribed no later than that epoch (serve_data, release_request).
THEOREM RevocationSafe == Spec => []RevocationPending
<1>1. IInv => RevocationPending
    <2> SUFFICES ASSUME IInv, NEW d \in Datas, data[d].pc = "served",
                        lease.holder # data[d].grant.holder, ~Bumping
                 PROVE  epoch # data[d].seen
        BY DEF RevocationPending
    <2>1. data[d] \in DataState /\ StreamOf(d) /\ epoch \in Nat
        BY DEF IInv, TypeOK, StreamInv
    <2>2. data[d].grant \in Grant /\ GrantInv(data[d].grant)
        BY <2>1 DEF StreamOf, Used, DataState
    <2>3. control[data[d].grant.holder].pc = "ended"
        BY <2>2 DEF IInv, LeaseInv, HeldBy, Owns, GrantInv, Grant, Bumping
    <2>4. data[d].grant.epoch < epoch /\ data[d].seen <= data[d].grant.epoch
        BY <2>1, <2>2, <2>3 DEF StreamOf, GrantInv
    <2>5. data[d].seen \in Nat /\ data[d].grant.epoch \in Nat
        BY <2>1, <2>2 DEF DataState, Grant
    <2> QED BY <2>1, <2>4, <2>5
<1> QED BY <1>1, Invariance, PTL

\* A step takes an unexpired grant out of the vault only when the process it was
\* minted for presented its token (redeem_data_grant, TokenState::purge_expired).
THEOREM BurnSafe == Spec => TokensNotBurned
<1> DEFINE Kept == \A g \in grants \ grants' :
                      \/ g.expires <= now
                      \/ \E d \in Datas : data[d].token = g.token /\ data[d].peer = g.peer
<1>1. TypeOK /\ [Next]_vars => [Kept]_vars
    <2> SUFFICES ASSUME TypeOK, Next, NEW g \in grants, g \notin grants', ~(g.expires <= now)
                 PROVE  \E d \in Datas : data[d].token = g.token /\ data[d].peer = g.peer
        BY DEF vars
    <2>1. g.expires \in Nat /\ now \in Nat
        BY DEF TypeOK, Grant
    <2>2. g \in Unexpired
        BY <2>1 DEF Unexpired
    <2>3. ASSUME NEW c \in Controls, ControlStep(c) PROVE FALSE
        <3>1. CASE \E t \in Tokens : OpenData(c, t)
            BY <2>2, <3>1 DEF OpenData
        <3>2. CASE UNCHANGED grants
            BY <3>2
        <3> QED BY <2>3, <3>1, <3>2 DEF ControlStep, Connect, AcquireLease, AcquireDone,
                   Release, EndLeased, BumpEpoch, EndUnleased
    <2>4. ASSUME NEW d \in Datas, DataStep(d)
          PROVE  data[d].token = g.token /\ data[d].peer = g.peer
        <3>1. DataRedeem(d)
            BY <2>4 DEF DataStep, DataOpen, DataBorrow, DataServe, DataRevoked, DataEnd
        <3>2. g \in GrantsOf(data[d].token)
            BY <2>2, <3>1 DEF DataRedeem, Consumed
        <3>3. ~Foreign(d, g)
            BY <2>2, <3>1, <3>2 DEF DataRedeem
        <3> QED BY <3>2, <3>3 DEF GrantsOf, Foreign
    <2> QED BY <2>3, <2>4 DEF Next, PeerExit, Tick
<1> QED BY <1>1, TypeCorrect, PTL DEF Spec, TokensNotBurned

\* open_data_request refuses a grant beyond the capacity of the vault, whatever
\* expired, was redeemed or is held by dead processes.
THEOREM VaultSafe == Spec => [](IsFiniteSet(grants) /\ VaultBounded)
<1> DEFINE Bounded == IsFiniteSet(grants) /\ VaultBounded
<1>1. Init => Bounded
    BY FS_EmptySet, VaultAssumption DEF Init, VaultBounded
<1>2. Bounded /\ [Next]_vars => Bounded'
    <2> SUFFICES ASSUME Bounded, [Next]_vars PROVE Bounded'
        OBVIOUS
    <2>1. CASE grants' \subseteq grants
        <3>1. /\ IsFiniteSet(grants') /\ Cardinality(grants') <= Cardinality(grants)
              /\ Cardinality(grants) \in Nat /\ Cardinality(grants') \in Nat
            BY <2>1, FS_Subset, FS_CardinalityType
        <3> QED BY <3>1, VaultAssumption DEF VaultBounded
    <2>2. ASSUME NEW c \in Controls, NEW t \in Tokens, OpenData(c, t) PROVE Bounded'
        <3>1. PICK new : grants' = Unexpired \union {new}
            BY <2>2, Zenon DEF OpenData
        <3>2. IsFiniteSet(Unexpired) /\ Cardinality(Unexpired) \in Nat
            BY FS_Subset, FS_CardinalityType DEF Unexpired
        <3>3. Cardinality(Unexpired) < VaultSize
            BY <2>2 DEF OpenData, HasRoom
        <3>4. /\ IsFiniteSet(grants')
              /\ Cardinality(grants') \in {Cardinality(Unexpired), Cardinality(Unexpired) + 1}
            BY <3>1, <3>2, FS_AddElement
        <3> QED BY <3>2, <3>3, <3>4, VaultAssumption DEF VaultBounded
    <2> QED BY <2>1, <2>2, VaultGrows
<1> QED BY <1>1, <1>2, PTL DEF Spec
=============================================================================
