------------------------ MODULE DownloaderSync_proofs ------------------------
(***************************************************************************)
(* Proofs that every reachable state of DownloaderSync is well typed, that *)
(* the cancel channel is closed whenever the single-flight guard is free,  *)
(* and that a running sync still owns d.cancelCh.                          *)
(***************************************************************************)
EXTENDS DownloaderSync, TLAPS

\* The guard is held exactly when some caller is inside synchronise.
GuardHeld ==
    synchronising = 1 <=> \E c \in Callers : pc[c] # "idle"

\* At most one caller is inside synchronise.
OneSync ==
    \A c, e \in Callers : pc[c] # "idle" /\ pc[e] # "idle" => c = e

\* A caller inside synchronise names a real peer.
InSyncPeer ==
    \A c \in Callers : pc[c] # "idle" => syncPeer[c] \in Peers

\* Between the CAS and the making of its channel a caller has issued no
\* request, and a channel is still free to be made.
ArmState ==
    \A c \in Callers : pc[c] = "arm" => round[c] = 0 /\ cancelGen < MaxSyncs

\* A sync about to request has requests left.
RequestState ==
    \A c \in Callers : pc[c] = "request" => round[c] < MaxRounds

\* A sync that has made its channel refers to an existing channel.
OwnedGen ==
    \A c \in Callers : pc[c] \in {"request", "wait", "cancel"} => cancelGen \in Gens

\* A sync that has run its deferred Cancel has closed the current channel.
ReleaseClosed ==
    \A c \in Callers : pc[c] = "release" => cancelGen \in closed

\* The inductive invariant.
IInv ==
    /\ TypeOK
    /\ GuardHeld
    /\ OneSync
    /\ InSyncPeer
    /\ ArmState
    /\ RequestState
    /\ OwnedGen
    /\ ReleaseClosed
    /\ ActiveSyncOwnsChannel
    /\ CancelClosedWhenIdle

-----------------------------------------------------------------------------

LEMMA InitIInv == Init => IInv
BY Assumptions DEF Init, IInv, TypeOK, GuardHeld, OneSync, InSyncPeer, ArmState,
   RequestState, OwnedGen, ReleaseClosed, ActiveSyncOwnsChannel,
   CancelClosedWhenIdle, Packets, Deliveries, Gens, PCs, Errors

LEMMA StartIInv ==
    ASSUME IInv, NEW c \in Callers, NEW p \in Peers, SynchroniseStart(c, p)
    PROVE  IInv'
<1>1. TypeOK'
    BY Assumptions DEF IInv, SynchroniseStart, TypeOK, PCs, Errors
<1>2. GuardHeld'
    BY Assumptions DEF IInv, SynchroniseStart, GuardHeld, TypeOK
<1>3. OneSync'
    BY Assumptions DEF IInv, SynchroniseStart, OneSync, TypeOK, GuardHeld
<1>4. InSyncPeer'
    BY Assumptions DEF IInv, SynchroniseStart, InSyncPeer, TypeOK
<1>5. ArmState'
    BY Assumptions DEF IInv, SynchroniseStart, ArmState, TypeOK
<1>6. RequestState'
    BY Assumptions DEF IInv, SynchroniseStart, RequestState, TypeOK
<1>7. OwnedGen'
    BY Assumptions DEF IInv, SynchroniseStart, OwnedGen, TypeOK
<1>8. ReleaseClosed'
    BY Assumptions DEF IInv, SynchroniseStart, ReleaseClosed, TypeOK
<1>9. ActiveSyncOwnsChannel'
    BY Assumptions DEF IInv, SynchroniseStart, ActiveSyncOwnsChannel, TypeOK
<1>10. CancelClosedWhenIdle'
    BY Assumptions DEF IInv, SynchroniseStart, CancelClosedWhenIdle, TypeOK
<1>11. QED
    BY <1>1, <1>2, <1>3, <1>4, <1>5, <1>6, <1>7, <1>8, <1>9, <1>10 DEF IInv

LEMMA ArmRegisteredIInv ==
    ASSUME IInv, NEW c \in Callers, ArmCancel(c), syncPeer[c] \in registered
    PROVE  IInv'
<1>1. TypeOK'
    <2>1. cancelGen + 1 \in 0..MaxSyncs
        BY Assumptions DEF IInv, ArmCancel, TypeOK, ArmState
    <2>2. pc' = [pc EXCEPT ![c] = "request"] /\ err' = err
        BY DEF ArmCancel
    <2>3. pc' \in [Callers -> PCs]
        BY <2>2 DEF IInv, TypeOK, PCs
    <2>4. gen' \in [Callers -> 0..MaxSyncs]
        BY <2>1 DEF IInv, ArmCancel, TypeOK
    <2>5. cancelPeer' \in Peers \cup {NoPeer}
        BY DEF IInv, ArmCancel, TypeOK
    <2>6. QED
        BY <2>1, <2>2, <2>3, <2>4, <2>5 DEF IInv, ArmCancel, TypeOK
<1>2. GuardHeld'
    BY Assumptions DEF IInv, ArmCancel, GuardHeld, TypeOK
<1>3. OneSync'
    BY Assumptions DEF IInv, ArmCancel, OneSync, TypeOK
<1>4. InSyncPeer'
    BY Assumptions DEF IInv, ArmCancel, InSyncPeer, TypeOK
<1>5. ArmState'
    BY Assumptions DEF IInv, ArmCancel, ArmState, TypeOK, OneSync
<1>6. RequestState'
    BY Assumptions DEF IInv, ArmCancel, RequestState, TypeOK, ArmState
<1>7. OwnedGen'
    BY Assumptions DEF IInv, ArmCancel, OwnedGen, TypeOK, OneSync, ArmState, Gens
<1>8. ReleaseClosed'
    BY Assumptions DEF IInv, ArmCancel, ReleaseClosed, TypeOK, OneSync
<1>9. ActiveSyncOwnsChannel'
    BY Assumptions DEF IInv, ArmCancel, ActiveSyncOwnsChannel, TypeOK, OneSync
<1>10. CancelClosedWhenIdle'
    BY Assumptions DEF IInv, ArmCancel, CancelClosedWhenIdle, TypeOK, GuardHeld
<1>11. QED
    BY <1>1, <1>2, <1>3, <1>4, <1>5, <1>6, <1>7, <1>8, <1>9, <1>10 DEF IInv

LEMMA ArmUnknownIInv ==
    ASSUME IInv, NEW c \in Callers, ArmCancel(c), syncPeer[c] \notin registered
    PROVE  IInv'
<1>1. TypeOK'
    <2>1. pc' = [pc EXCEPT ![c] = "cancel"] /\ err' = [err EXCEPT ![c] = "unknownPeer"]
        BY DEF ArmCancel
    <2>2. err' \in [Callers -> Errors] /\ pc' \in [Callers -> PCs]
        BY <2>1 DEF IInv, TypeOK, Errors, PCs
    <2>3. QED
        BY <2>2, Assumptions DEF IInv, ArmCancel, TypeOK, ArmState, Gens
<1>2. GuardHeld'
    BY Assumptions DEF IInv, ArmCancel, GuardHeld, TypeOK
<1>3. OneSync'
    BY Assumptions DEF IInv, ArmCancel, OneSync, TypeOK
<1>4. InSyncPeer'
    BY Assumptions DEF IInv, ArmCancel, InSyncPeer, TypeOK
<1>5. ArmState'
    BY Assumptions DEF IInv, ArmCancel, ArmState, TypeOK, OneSync
<1>6. RequestState'
    BY Assumptions DEF IInv, ArmCancel, RequestState, TypeOK, ArmState
<1>7. OwnedGen'
    BY Assumptions DEF IInv, ArmCancel, OwnedGen, TypeOK, OneSync, ArmState, Gens
<1>8. ReleaseClosed'
    BY Assumptions DEF IInv, ArmCancel, ReleaseClosed, TypeOK, OneSync
<1>9. ActiveSyncOwnsChannel'
    BY Assumptions DEF IInv, ArmCancel, ActiveSyncOwnsChannel, TypeOK, OneSync
<1>10. CancelClosedWhenIdle'
    BY Assumptions DEF IInv, ArmCancel, CancelClosedWhenIdle, TypeOK, GuardHeld
<1>11. QED
    BY <1>1, <1>2, <1>3, <1>4, <1>5, <1>6, <1>7, <1>8, <1>9, <1>10 DEF IInv

LEMMA RequestIInv ==
    ASSUME IInv, NEW c \in Callers, RequestHeaders(c)
    PROVE  IInv'
<1>1. TypeOK'
    BY Assumptions DEF IInv, RequestHeaders, TypeOK, InSyncPeer, RequestState, OwnedGen, ActiveSyncOwnsChannel, PCs, Packets, Gens
<1>2. GuardHeld'
    BY Assumptions DEF IInv, RequestHeaders, GuardHeld, TypeOK
<1>3. OneSync'
    BY Assumptions DEF IInv, RequestHeaders, OneSync, TypeOK
<1>4. InSyncPeer'
    BY Assumptions DEF IInv, RequestHeaders, InSyncPeer, TypeOK
<1>5. ArmState'
    BY Assumptions DEF IInv, RequestHeaders, ArmState, TypeOK
<1>6. RequestState'
    BY Assumptions DEF IInv, RequestHeaders, RequestState, TypeOK
<1>7. OwnedGen'
    BY Assumptions DEF IInv, RequestHeaders, OwnedGen, TypeOK
<1>8. ReleaseClosed'
    BY Assumptions DEF IInv, RequestHeaders, ReleaseClosed, TypeOK
<1>9. ActiveSyncOwnsChannel'
    BY Assumptions DEF IInv, RequestHeaders, ActiveSyncOwnsChannel, TypeOK
<1>10. CancelClosedWhenIdle'
    BY Assumptions DEF IInv, RequestHeaders, CancelClosedWhenIdle, TypeOK
<1>11. QED
    BY <1>1, <1>2, <1>3, <1>4, <1>5, <1>6, <1>7, <1>8, <1>9, <1>10 DEF IInv

LEMMA ReceiveIInv ==
    ASSUME IInv, NEW c \in Callers, ReceiveHeaders(c)
    PROVE  IInv'
<1>1. TypeOK'
    BY Assumptions DEF IInv, ReceiveHeaders, TypeOK, PCs
<1>2. GuardHeld'
    BY Assumptions DEF IInv, ReceiveHeaders, GuardHeld, TypeOK
<1>3. OneSync'
    BY Assumptions DEF IInv, ReceiveHeaders, OneSync, TypeOK
<1>4. InSyncPeer'
    BY Assumptions DEF IInv, ReceiveHeaders, InSyncPeer, TypeOK
<1>5. ArmState'
    BY Assumptions DEF IInv, ReceiveHeaders, ArmState, TypeOK
<1>6. RequestState'
    BY Assumptions DEF IInv, ReceiveHeaders, RequestState, TypeOK
<1>7. OwnedGen'
    BY Assumptions DEF IInv, ReceiveHeaders, OwnedGen, TypeOK
<1>8. ReleaseClosed'
    BY Assumptions DEF IInv, ReceiveHeaders, ReleaseClosed, TypeOK
<1>9. ActiveSyncOwnsChannel'
    BY Assumptions DEF IInv, ReceiveHeaders, ActiveSyncOwnsChannel, TypeOK
<1>10. CancelClosedWhenIdle'
    BY Assumptions DEF IInv, ReceiveHeaders, CancelClosedWhenIdle, TypeOK
<1>11. QED
    BY <1>1, <1>2, <1>3, <1>4, <1>5, <1>6, <1>7, <1>8, <1>9, <1>10 DEF IInv

LEMMA TimeoutIInv ==
    ASSUME IInv, NEW c \in Callers, HeaderTimeout(c)
    PROVE  IInv'
<1>1. TypeOK'
    BY Assumptions DEF IInv, HeaderTimeout, TypeOK, PCs, Errors
<1>2. GuardHeld'
    BY Assumptions DEF IInv, HeaderTimeout, GuardHeld, TypeOK
<1>3. OneSync'
    BY Assumptions DEF IInv, HeaderTimeout, OneSync, TypeOK
<1>4. InSyncPeer'
    BY Assumptions DEF IInv, HeaderTimeout, InSyncPeer, TypeOK
<1>5. ArmState'
    BY Assumptions DEF IInv, HeaderTimeout, ArmState, TypeOK
<1>6. RequestState'
    BY Assumptions DEF IInv, HeaderTimeout, RequestState, TypeOK
<1>7. OwnedGen'
    BY Assumptions DEF IInv, HeaderTimeout, OwnedGen, TypeOK
<1>8. ReleaseClosed'
    BY Assumptions DEF IInv, HeaderTimeout, ReleaseClosed, TypeOK
<1>9. ActiveSyncOwnsChannel'
    BY Assumptions DEF IInv, HeaderTimeout, ActiveSyncOwnsChannel, TypeOK
<1>10. CancelClosedWhenIdle'
    BY Assumptions DEF IInv, HeaderTimeout, CancelClosedWhenIdle, TypeOK
<1>11. QED
    BY <1>1, <1>2, <1>3, <1>4, <1>5, <1>6, <1>7, <1>8, <1>9, <1>10 DEF IInv

LEMMA CanceledIInv ==
    ASSUME IInv, NEW c \in Callers, SyncCanceled(c)
    PROVE  IInv'
<1>1. TypeOK'
    BY Assumptions DEF IInv, SyncCanceled, TypeOK, PCs, Errors
<1>2. GuardHeld'
    BY Assumptions DEF IInv, SyncCanceled, GuardHeld, TypeOK
<1>3. OneSync'
    BY Assumptions DEF IInv, SyncCanceled, OneSync, TypeOK
<1>4. InSyncPeer'
    BY Assumptions DEF IInv, SyncCanceled, InSyncPeer, TypeOK
<1>5. ArmState'
    BY Assumptions DEF IInv, SyncCanceled, ArmState, TypeOK
<1>6. RequestState'
    BY Assumptions DEF IInv, SyncCanceled, RequestState, TypeOK
<1>7. OwnedGen'
    BY Assumptions DEF IInv, SyncCanceled, OwnedGen, TypeOK
<1>8. ReleaseClosed'
    BY Assumptions DEF IInv, SyncCanceled, ReleaseClosed, TypeOK
<1>9. ActiveSyncOwnsChannel'
    BY Assumptions DEF IInv, SyncCanceled, ActiveSyncOwnsChannel, TypeOK
<1>10. CancelClosedWhenIdle'
    BY Assumptions DEF IInv, SyncCanceled, CancelClosedWhenIdle, TypeOK
<1>11. QED
    BY <1>1, <1>2, <1>3, <1>4, <1>5, <1>6, <1>7, <1>8, <1>9, <1>10 DEF IInv

LEMMA DeferredCancelIInv ==
    ASSUME IInv, NEW c \in Callers, DeferredCancel(c)
    PROVE  IInv'
<1>1. TypeOK'
    BY Assumptions DEF IInv, DeferredCancel, TypeOK, OwnedGen, PCs, Gens
<1>2. GuardHeld'
    BY Assumptions DEF IInv, DeferredCancel, GuardHeld, TypeOK
<1>3. OneSync'
    BY Assumptions DEF IInv, DeferredCancel, OneSync, TypeOK
<1>4. InSyncPeer'
    BY Assumptions DEF IInv, DeferredCancel, InSyncPeer, TypeOK
<1>5. ArmState'
    BY Assumptions DEF IInv, DeferredCancel, ArmState, TypeOK
<1>6. RequestState'
    BY Assumptions DEF IInv, DeferredCancel, RequestState, TypeOK
<1>7. OwnedGen'
    BY Assumptions DEF IInv, DeferredCancel, OwnedGen, TypeOK
<1>8. ReleaseClosed'
    BY Assumptions DEF IInv, DeferredCancel, ReleaseClosed, TypeOK
<1>9. ActiveSyncOwnsChannel'
    BY Assumptions DEF IInv, DeferredCancel, ActiveSyncOwnsChannel, TypeOK
<1>10. CancelClosedWhenIdle'
    BY Assumptions DEF IInv, DeferredCancel, CancelClosedWhenIdle, TypeOK
<1>11. QED
    BY <1>1, <1>2, <1>3, <1>4, <1>5, <1>6, <1>7, <1>8, <1>9, <1>10 DEF IInv

LEMMA ReleaseIInv ==
    ASSUME IInv, NEW c \in Callers, ReleaseGuard(c)
    PROVE  IInv'
<1>1. TypeOK'
    BY Assumptions DEF IInv, ReleaseGuard, TypeOK, InSyncPeer, PCs
<1>2. GuardHeld'
    BY Assumptions DEF IInv, ReleaseGuard, GuardHeld, TypeOK, OneSync
<1>3. OneSync'
    BY Assumptions DEF IInv, ReleaseGuard, OneSync, TypeOK
<1>4. InSyncPeer'
    BY Assumptions DEF IInv, ReleaseGuard, InSyncPeer, TypeOK
<1>5. ArmState'
    BY Assumptions DEF IInv, ReleaseGuard, ArmState, TypeOK
<1>6. RequestState'
    BY Assumptions DEF IInv, ReleaseGuard, RequestState, TypeOK
<1>7. OwnedGen'
    BY Assumptions DEF IInv, ReleaseGuard, OwnedGen, TypeOK
<1>8. ReleaseClosed'
    BY Assumptions DEF IInv, ReleaseGuard, ReleaseClosed, TypeOK
<1>9. ActiveSyncOwnsChannel'
    BY Assumptions DEF IInv, ReleaseGuard, ActiveSyncOwnsChannel, TypeOK
<1>10. CancelClosedWhenIdle'
    BY Assumptions DEF IInv, ReleaseGuard, CancelClosedWhenIdle, TypeOK, ReleaseClosed
<1>11. QED
    BY <1>1, <1>2, <1>3, <1>4, <1>5, <1>6, <1>7, <1>8, <1>9, <1>10 DEF IInv

LEMMA RegisterIInv ==
    ASSUME IInv, NEW p \in Peers, RegisterPeer(p)
    PROVE  IInv'
<1>1. TypeOK'
    BY Assumptions DEF IInv, RegisterPeer, TypeOK
<1>2. GuardHeld'
    BY Assumptions DEF IInv, RegisterPeer, GuardHeld, TypeOK
<1>3. OneSync'
    BY Assumptions DEF IInv, RegisterPeer, OneSync, TypeOK
<1>4. InSyncPeer'
    BY Assumptions DEF IInv, RegisterPeer, InSyncPeer, TypeOK
<1>5. ArmState'
    BY Assumptions DEF IInv, RegisterPeer, ArmState, TypeOK
<1>6. RequestState'
    BY Assumptions DEF IInv, RegisterPeer, RequestState, TypeOK
<1>7. OwnedGen'
    BY Assumptions DEF IInv, RegisterPeer, OwnedGen, TypeOK
<1>8. ReleaseClosed'
    BY Assumptions DEF IInv, RegisterPeer, ReleaseClosed, TypeOK
<1>9. ActiveSyncOwnsChannel'
    BY Assumptions DEF IInv, RegisterPeer, ActiveSyncOwnsChannel, TypeOK
<1>10. CancelClosedWhenIdle'
    BY Assumptions DEF IInv, RegisterPeer, CancelClosedWhenIdle, TypeOK
<1>11. QED
    BY <1>1, <1>2, <1>3, <1>4, <1>5, <1>6, <1>7, <1>8, <1>9, <1>10 DEF IInv

LEMMA UnregisterIInv ==
    ASSUME IInv, NEW p \in Peers, UnregisterPeer(p)
    PROVE  IInv'
<1>1. TypeOK'
    BY Assumptions DEF IInv, UnregisterPeer, TypeOK
<1>2. GuardHeld'
    BY Assumptions DEF IInv, UnregisterPeer, GuardHeld, TypeOK
<1>3. OneSync'
    BY Assumptions DEF IInv, UnregisterPeer, OneSync, TypeOK
<1>4. InSyncPeer'
    BY Assumptions DEF IInv, UnregisterPeer, InSyncPeer, TypeOK
<1>5. ArmState'
    BY Assumptions DEF IInv, UnregisterPeer, ArmState, TypeOK
<1>6. RequestState'
    BY Assumptions DEF IInv, UnregisterPeer, RequestState, TypeOK
<1>7. OwnedGen'
    BY Assumptions DEF IInv, UnregisterPeer, OwnedGen, TypeOK
<1>8. ReleaseClosed'
    BY Assumptions DEF IInv, UnregisterPeer, ReleaseClosed, TypeOK
<1>9. ActiveSyncOwnsChannel'
    BY Assumptions DEF IInv, UnregisterPeer, ActiveSyncOwnsChannel, TypeOK
<1>10. CancelClosedWhenIdle'
    BY Assumptions DEF IInv, UnregisterPeer, CancelClosedWhenIdle, TypeOK
<1>11. QED
    BY <1>1, <1>2, <1>3, <1>4, <1>5, <1>6, <1>7, <1>8, <1>9, <1>10 DEF IInv

LEMMA CancelIInv ==
    ASSUME IInv, Cancel
    PROVE  IInv'
<1>1. TypeOK'
    BY Assumptions DEF IInv, Cancel, TypeOK, Gens
<1>2. GuardHeld'
    BY Assumptions DEF IInv, Cancel, GuardHeld, TypeOK
<1>3. OneSync'
    BY Assumptions DEF IInv, Cancel, OneSync, TypeOK
<1>4. InSyncPeer'
    BY Assumptions DEF IInv, Cancel, InSyncPeer, TypeOK
<1>5. ArmState'
    BY Assumptions DEF IInv, Cancel, ArmState, TypeOK
<1>6. RequestState'
    BY Assumptions DEF IInv, Cancel, RequestState, TypeOK
<1>7. OwnedGen'
    BY Assumptions DEF IInv, Cancel, OwnedGen, TypeOK
<1>8. ReleaseClosed'
    BY Assumptions DEF IInv, Cancel, ReleaseClosed, TypeOK
<1>9. ActiveSyncOwnsChannel'
    BY Assumptions DEF IInv, Cancel, ActiveSyncOwnsChannel, TypeOK
<1>10. CancelClosedWhenIdle'
    BY Assumptions DEF IInv, Cancel, CancelClosedWhenIdle, TypeOK
<1>11. QED
    BY <1>1, <1>2, <1>3, <1>4, <1>5, <1>6, <1>7, <1>8, <1>9, <1>10 DEF IInv

LEMMA DeliverReadIInv ==
    ASSUME IInv, NEW r \in requests, DeliverRead(r)
    PROVE  IInv'
<1>1. TypeOK'
    BY Assumptions DEF IInv, DeliverRead, TypeOK, Deliveries, Gens
<1>2. GuardHeld'
    BY Assumptions DEF IInv, DeliverRead, GuardHeld, TypeOK
<1>3. OneSync'
    BY Assumptions DEF IInv, DeliverRead, OneSync, TypeOK
<1>4. InSyncPeer'
    BY Assumptions DEF IInv, DeliverRead, InSyncPeer, TypeOK
<1>5. ArmState'
    BY Assumptions DEF IInv, DeliverRead, ArmState, TypeOK
<1>6. RequestState'
    BY Assumptions DEF IInv, DeliverRead, RequestState, TypeOK
<1>7. OwnedGen'
    BY Assumptions DEF IInv, DeliverRead, OwnedGen, TypeOK
<1>8. ReleaseClosed'
    BY Assumptions DEF IInv, DeliverRead, ReleaseClosed, TypeOK
<1>9. ActiveSyncOwnsChannel'
    BY Assumptions DEF IInv, DeliverRead, ActiveSyncOwnsChannel, TypeOK
<1>10. CancelClosedWhenIdle'
    BY Assumptions DEF IInv, DeliverRead, CancelClosedWhenIdle, TypeOK
<1>11. QED
    BY <1>1, <1>2, <1>3, <1>4, <1>5, <1>6, <1>7, <1>8, <1>9, <1>10 DEF IInv

LEMMA DeliverSendIInv ==
    ASSUME IInv, NEW d \in delivering, DeliverSend(d)
    PROVE  IInv'
<1>1. TypeOK'
    <2>1. d.pkt \in Packets
        BY DEF IInv, TypeOK, Deliveries
    <2>2. CASE Len(headerCh) < HeaderChCap /\ headerCh' = Append(headerCh, d.pkt)
        BY <2>1, <2>2, Assumptions DEF IInv, DeliverSend, TypeOK
    <2>3. CASE d.ch \in closed /\ UNCHANGED headerCh
        BY <2>3, Assumptions DEF IInv, DeliverSend, TypeOK
    <2>4. QED
        BY <2>2, <2>3 DEF DeliverSend
<1>2. GuardHeld'
    BY Assumptions DEF IInv, DeliverSend, GuardHeld, TypeOK
<1>3. OneSync'
    BY Assumptions DEF IInv, DeliverSend, OneSync, TypeOK
<1>4. InSyncPeer'
    BY Assumptions DEF IInv, DeliverSend, InSyncPeer, TypeOK
<1>5. ArmState'
    BY Assumptions DEF IInv, DeliverSend, ArmState, TypeOK
<1>6. RequestState'
    BY Assumptions DEF IInv, DeliverSend, RequestState, TypeOK
<1>7. OwnedGen'
    BY Assumptions DEF IInv, DeliverSend, OwnedGen, TypeOK
<1>8. ReleaseClosed'
    BY Assumptions DEF IInv, DeliverSend, ReleaseClosed, TypeOK
<1>9. ActiveSyncOwnsChannel'
    BY Assumptions DEF IInv, DeliverSend, ActiveSyncOwnsChannel, TypeOK
<1>10. CancelClosedWhenIdle'
    BY Assumptions DEF IInv, DeliverSend, CancelClosedWhenIdle, TypeOK
<1>11. QED
    BY <1>1, <1>2, <1>3, <1>4, <1>5, <1>6, <1>7, <1>8, <1>9, <1>10 DEF IInv

LEMMA NextIInv == IInv /\ [Next]_vars => IInv'
<1> SUFFICES ASSUME IInv, [Next]_vars PROVE IInv'
    OBVIOUS
<1>1. CASE \E c \in Callers, p \in Peers : SynchroniseStart(c, p)
    BY <1>1, StartIInv
<1>2. CASE \E c \in Callers : SyncStep(c)
    BY <1>2, ArmRegisteredIInv, ArmUnknownIInv, RequestIInv, ReceiveIInv, TimeoutIInv, CanceledIInv,
       DeferredCancelIInv, ReleaseIInv DEF SyncStep
<1>3. CASE \E p \in Peers : RegisterPeer(p) \/ UnregisterPeer(p)
    BY <1>3, RegisterIInv, UnregisterIInv
<1>4. CASE Cancel
    BY <1>4, CancelIInv
<1>5. CASE \E r \in requests : DeliverRead(r)
    BY <1>5, DeliverReadIInv
<1>6. CASE \E d \in delivering : DeliverSend(d)
    BY <1>6, DeliverSendIInv
<1>7. CASE UNCHANGED vars
    BY <1>7 DEF vars, IInv, TypeOK, GuardHeld, OneSync, InSyncPeer, ArmState,
       RequestState, OwnedGen, ReleaseClosed, ActiveSyncOwnsChannel,
       CancelClosedWhenIdle
<1>8. QED
    BY <1>1, <1>2, <1>3, <1>4, <1>5, <1>6, <1>7 DEF Next

\* Every reachable state satisfies the inductive invariant.
THEOREM IInvHolds == Spec => []IInv
BY InitIInv, NextIInv, PTL DEF Spec

\* Type correctness of the session layer.
THEOREM TypeCorrect == Spec => []TypeOK
BY IInvHolds, PTL DEF IInv

\* Between syncs the cancel channel is nil or closed, so Deliver* cannot
\* block on it.
THEOREM SessionSafety == Spec => []CancelClosedWhenIdle
BY IInvHolds, PTL DEF IInv

\* A running sync still owns d.cancelCh: the single-flight CAS keeps a
\* second Synchronise from replacing the channel under a running sync.
THEOREM ChannelOwnership == Spec => []ActiveSyncOwnsChannel
BY IInvHolds, PTL DEF IInv

-----------------------------------------------------------------------------
(***************************************************************************)
(* Channel replacement.  A caller between the CAS and the making of its   *)
(* channel sees d.cancelCh nil or closed: it won the CAS on a free guard,  *)
(* which CancelClosedWhenIdle ties to a nil or closed channel, and closed  *)
(* channels stay closed.  The one step that changes cancelGen is that      *)
(* caller's ArmCancel, so the channel it replaces is nil or closed.        *)
(***************************************************************************)

\* A caller about to make its channel finds the current one nil or closed.
ArmClosed ==
    \A c \in Callers : pc[c] = "arm" => cancelGen = 0 \/ cancelGen \in closed

LEMMA InitArmClosed == Init => ArmClosed
BY DEF Init, ArmClosed

\* Only ArmCancel changes cancelGen, closed only grows, and only
\* SynchroniseStart moves a caller to "arm".
LEMMA NextArmClosed == IInv /\ ArmClosed /\ [Next]_vars => ArmClosed'
<1> SUFFICES ASSUME IInv, ArmClosed, [Next]_vars PROVE ArmClosed'
    OBVIOUS
<1>1. CASE \E c \in Callers, p \in Peers : SynchroniseStart(c, p)
    BY <1>1 DEF IInv, TypeOK, CancelClosedWhenIdle, ArmClosed, SynchroniseStart
<1>2. ASSUME NEW c \in Callers, ArmCancel(c) PROVE ArmClosed'
    BY <1>2 DEF IInv, TypeOK, OneSync, ArmClosed, ArmCancel
<1>3. ASSUME NEW c \in Callers, SyncStep(c) /\ ~ArmCancel(c) PROVE ArmClosed'
    BY <1>3 DEF IInv, TypeOK, ArmClosed, SyncStep, RequestHeaders,
       ReceiveHeaders, HeaderTimeout, SyncCanceled, DeferredCancel, ReleaseGuard
<1>4. CASE \E p \in Peers : RegisterPeer(p) \/ UnregisterPeer(p)
    BY <1>4 DEF ArmClosed, RegisterPeer, UnregisterPeer
<1>5. CASE Cancel
    BY <1>5 DEF ArmClosed, Cancel
<1>6. CASE \E r \in requests : DeliverRead(r)
    BY <1>6 DEF ArmClosed, DeliverRead
<1>7. CASE \E d \in delivering : DeliverSend(d)
    BY <1>7 DEF ArmClosed, DeliverSend
<1>8. CASE UNCHANGED vars
    BY <1>8 DEF vars, ArmClosed
<1>9. QED
    BY <1>1, <1>2, <1>3, <1>4, <1>5, <1>6, <1>7, <1>8 DEF Next

\* The body of ReplacedChannelClosed holds of every step from a state
\* satisfying both invariants.
LEMMA ReplaceStep ==
    ASSUME IInv, ArmClosed, [Next]_vars, cancelGen' # cancelGen
    PROVE  /\ synchronising = 1
           /\ cancelGen' = cancelGen + 1
           /\ (cancelGen = 0 \/ cancelGen \in closed)
<1>1. PICK c \in Callers : ArmCancel(c)
    BY DEF Next, vars, SyncStep, SynchroniseStart, RegisterPeer, UnregisterPeer,
       Cancel, DeliverRead, DeliverSend, RequestHeaders, ReceiveHeaders,
       HeaderTimeout, SyncCanceled, DeferredCancel, ReleaseGuard
<1>2. synchronising = 1
    BY <1>1 DEF IInv, GuardHeld, ArmCancel
<1>3. QED
    BY <1>1, <1>2 DEF ArmClosed, ArmCancel

\* A fresh cancel channel is made only under the single-flight guard and
\* only over a nil or closed one (synchronise's defer order: d.Cancel runs
\* before the store that frees d.synchronising).
THEOREM ChannelReplacement == Spec => ReplacedChannelClosed
<1>1. Spec => [](IInv /\ ArmClosed)
    BY InitIInv, NextIInv, InitArmClosed, NextArmClosed, PTL DEF Spec
<1>2. IInv /\ ArmClosed /\ [Next]_vars =>
        [cancelGen' # cancelGen =>
            /\ synchronising = 1
            /\ cancelGen' = cancelGen + 1
            /\ (cancelGen = 0 \/ cancelGen \in closed)]_vars
    BY ReplaceStep
<1>3. QED
    BY <1>1, <1>2, PTL DEF Spec, ReplacedChannelClosed

=============================================================================
