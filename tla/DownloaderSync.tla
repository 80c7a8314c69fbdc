--------------------------- MODULE DownloaderSync ---------------------------
(***************************************************************************)
(* The session layer of the downloader (src/eth/downloader/downloader.go): *)
(* the single-flight guard of Synchronise, the per-sync cancel channel,    *)
(* the buffered header delivery channel headerCh, and the external         *)
(* Deliver* callbacks that push peer responses into it.                    *)
(*                                                                         *)
(* A sync is abstracted to the part that talks over headerCh: a series of  *)
(* header requests to the master peer (fetchHead, the ancestor span probe, *)
(* the binary search steps, the header fetcher), each answered through     *)
(* headerCh or ended by a timeout or a cancellation.  A response is a      *)
(* packet that carries, as a ghost, the sync generation and round of the   *)
(* request it answers, so that a trace shows which request a packet       *)
(* answers; the code itself keeps only the peer id.                        *)
(***************************************************************************)
EXTENDS Naturals, Sequences, FiniteSets

CONSTANTS
    Callers,      \* goroutines that may call Synchronise concurrently
    Peers,        \* peer ids
    NoPeer,       \* the empty peer id
    MaxSyncs,     \* bound on the number of cancel channels ever created
    MaxRounds,    \* header requests a sync makes before it completes
    HeaderChCap   \* capacity of headerCh: make(chan dataPack, 1)

ASSUME Assumptions ==
    /\ Callers # {}
    /\ Peers # {}
    /\ NoPeer \notin Peers
    /\ MaxSyncs \in Nat \ {0}
    /\ MaxRounds \in Nat \ {0}
    /\ HeaderChCap \in Nat \ {0}

VARIABLES
    synchronising, \* d.synchronising, the single-flight flag
    cancelGen,     \* d.cancelCh: 0 is nil, g > 0 the g-th channel made
    closed,        \* the cancel channels that have been closed
    cancelPeer,    \* d.cancelPeer, the master peer of the last sync
    registered,    \* the ids in the peer set d.peers
    pc,            \* where each caller is in synchronise
    syncPeer,      \* the id argument of each caller's Synchronise call
    gen,           \* the cancel channel each caller's sync made
    round,         \* the number of header requests its sync has issued
    err,           \* the error its sync is about to return
    requests,      \* requests a peer has received and not yet answered
    headerCh,      \* d.headerCh, a FIFO buffer of packets
    delivering,    \* Deliver* calls past reading d.cancelCh, not returned
    dropped        \* the peers passed to the dropPeer callback

vars == <<synchronising, cancelGen, closed, cancelPeer, registered, pc,
          syncPeer, gen, round, err, requests, headerCh, delivering, dropped>>

Gens == 1..MaxSyncs

\* A header response: the answering peer, and (ghost) the request it answers.
Packets == [peer : Peers, gen : Gens, round : 1..MaxRounds]

\* A Deliver* call that read the cancel channel ch and now blocks in select.
Deliveries == [pkt : Packets, ch : Gens]

Errors == {"none", "timeout", "canceled", "unknownPeer"}

\* The errors on which Synchronise calls dropPeer: errTimeout, and
\* errBadPeer that the header fetcher returns after a request timed out.
DropErrors == {"timeout"}

PCs == {"idle", "arm", "request", "wait", "cancel", "release"}

-----------------------------------------------------------------------------

Init ==
    /\ synchronising = 0
    /\ cancelGen = 0
    /\ closed = {}
    /\ cancelPeer = NoPeer
    /\ registered = {}
    /\ pc = [c \in Callers |-> "idle"]
    /\ syncPeer = [c \in Callers |-> NoPeer]
    /\ gen = [c \in Callers |-> 0]
    /\ round = [c \in Callers |-> 0]
    /\ err = [c \in Callers |-> "none"]
    /\ requests = {}
    /\ headerCh = <<>>
    /\ delivering = {}
    /\ dropped = {}

\* RegisterPeer: the peer set accepts an id that is not registered yet.
RegisterPeer(p) ==
    /\ p \notin registered
    /\ registered' = registered \cup {p}
    /\ UNCHANGED <<synchronising, cancelGen, closed, cancelPeer, pc, syncPeer,
                   gen, round, err, requests, headerCh, delivering, dropped>>

\* UnregisterPeer: removes a registered id (its queue reservations are
\* revoked by the queue, which this module does not hold).
UnregisterPeer(p) ==
    /\ p \in registered
    /\ registered' = registered \ {p}
    /\ UNCHANGED <<synchronising, cancelGen, closed, cancelPeer, pc, syncPeer,
                   gen, round, err, requests, headerCh, delivering, dropped>>

\* Fault model: synchronise without the CAS guard (a plain store of 1).
SynchroniseStartUnguarded(c, p) ==
    /\ pc[c] = "idle"
    /\ cancelGen < MaxSyncs
    /\ synchronising' = 1
    /\ headerCh' = <<>>
    /\ pc' = [pc EXCEPT ![c] = "arm"]
    /\ syncPeer' = [syncPeer EXCEPT ![c] = p]
    /\ err' = [err EXCEPT ![c] = "none"]
    /\ round' = [round EXCEPT ![c] = 0]
    /\ UNCHANGED <<cancelGen, closed, cancelPeer, registered, gen, requests,
                   delivering, dropped>>

\* synchronise: the CAS on d.synchronising succeeds, then the queue and peer
\* statistics are reset and the delivery channels drained.  When the CAS
\* fails the call returns errBusy and changes nothing.
SynchroniseStart(c, p) ==
    /\ pc[c] = "idle"
    /\ synchronising = 0
    /\ cancelGen < MaxSyncs
    /\ synchronising' = 1
    /\ headerCh' = <<>>
    /\ pc' = [pc EXCEPT ![c] = "arm"]
    /\ syncPeer' = [syncPeer EXCEPT ![c] = p]
    /\ err' = [err EXCEPT ![c] = "none"]
    /\ round' = [round EXCEPT ![c] = 0]
    /\ UNCHANGED <<cancelGen, closed, cancelPeer, registered, gen, requests,
                   delivering, dropped>>

\* synchronise: a fresh cancel channel and master peer are installed under
\* cancelLock, then the master is looked up; an unknown id fails the sync.
ArmCancel(c) ==
    /\ pc[c] = "arm"
    /\ cancelGen' = cancelGen + 1
    /\ gen' = [gen EXCEPT ![c] = cancelGen + 1]
    /\ cancelPeer' = syncPeer[c]
    /\ IF syncPeer[c] \in registered
          THEN /\ pc' = [pc EXCEPT ![c] = "request"]
               /\ UNCHANGED err
          ELSE /\ pc' = [pc EXCEPT ![c] = "cancel"]
               /\ err' = [err EXCEPT ![c] = "unknownPeer"]
    /\ UNCHANGED <<synchronising, closed, registered, syncPeer, round,
                   requests, headerCh, delivering, dropped>>

\* go p.peer.RequestHeadersBy...: the master peer is asked for headers and
\* the sync starts waiting on its select.
RequestHeaders(c) ==
    /\ pc[c] = "request"
    /\ round' = [round EXCEPT ![c] = round[c] + 1]
    /\ requests' = requests \cup
                     {[peer |-> syncPeer[c], gen |-> gen[c], round |-> round[c] + 1]}
    /\ pc' = [pc EXCEPT ![c] = "wait"]
    /\ UNCHANGED <<synchronising, cancelGen, closed, cancelPeer, registered,
                   syncPeer, gen, err, headerCh, delivering, dropped>>

\* case packet := <-d.headerCh: a packet of another peer is dropped and the
\* wait goes on; one of the master peer is taken as the answer.
ReceiveHeaders(c) ==
    /\ pc[c] = "wait"
    /\ headerCh # <<>>
    /\ headerCh' = Tail(headerCh)
    /\ pc' = [pc EXCEPT ![c] =
                IF Head(headerCh).peer # syncPeer[c] THEN "wait"
                ELSE IF round[c] < MaxRounds THEN "request"
                ELSE "cancel"]
    /\ UNCHANGED <<synchronising, cancelGen, closed, cancelPeer, registered,
                   syncPeer, gen, round, err, requests, delivering, dropped>>

\* case <-timeout: the request TTL expired; the sync fails with errTimeout.
HeaderTimeout(c) ==
    /\ pc[c] = "wait"
    /\ pc' = [pc EXCEPT ![c] = "cancel"]
    /\ err' = [err EXCEPT ![c] = "timeout"]
    /\ UNCHANGED <<synchronising, cancelGen, closed, cancelPeer, registered,
                   syncPeer, gen, round, requests, headerCh, delivering, dropped>>

\* case <-d.cancelCh: the sync's channel was closed; it fails with errCanceled.
SyncCanceled(c) ==
    /\ pc[c] = "wait"
    /\ gen[c] \in closed
    /\ pc' = [pc EXCEPT ![c] = "cancel"]
    /\ err' = [err EXCEPT ![c] = "canceled"]
    /\ UNCHANGED <<synchronising, cancelGen, closed, cancelPeer, registered,
                   syncPeer, gen, round, requests, headerCh, delivering, dropped>>

\* Fault model: the deferred Cancel is missing; the guard is released with
\* the sync's cancel channel still open.
DeferredCancelMissing(c) ==
    /\ pc[c] = "cancel"
    /\ pc' = [pc EXCEPT ![c] = "release"]
    /\ UNCHANGED <<synchronising, cancelGen, closed, cancelPeer, registered,
                   syncPeer, gen, round, err, requests, headerCh, delivering,
                   dropped>>

\* defer d.Cancel(): closes d.cancelCh unless already closed.
DeferredCancel(c) ==
    /\ pc[c] = "cancel"
    /\ closed' = closed \cup {cancelGen}
    /\ pc' = [pc EXCEPT ![c] = "release"]
    /\ UNCHANGED <<synchronising, cancelGen, cancelPeer, registered, syncPeer,
                   gen, round, err, requests, headerCh, delivering, dropped>>

\* defer atomic.StoreInt32(&d.synchronising, 0), then Synchronise drops the
\* master peer when the error is one that blames it.
ReleaseGuard(c) ==
    /\ pc[c] = "release"
    /\ synchronising' = 0
    /\ pc' = [pc EXCEPT ![c] = "idle"]
    /\ dropped' = IF err[c] \in DropErrors THEN dropped \cup {syncPeer[c]}
                                           ELSE dropped
    /\ UNCHANGED <<cancelGen, closed, cancelPeer, registered, syncPeer, gen,
                   round, err, requests, headerCh, delivering>>

\* Cancel (also the cancel half of Terminate), called from outside the sync:
\* closes the current cancel channel if it exists and is open.
Cancel ==
    /\ cancelGen # 0
    /\ cancelGen \notin closed
    /\ closed' = closed \cup {cancelGen}
    /\ UNCHANGED <<synchronising, cancelGen, cancelPeer, registered, pc,
                   syncPeer, gen, round, err, requests, headerCh, delivering,
                   dropped>>

\* deliver, first half: a peer answers request r; under cancelLock the call
\* reads d.cancelCh.  (A nil channel returns errNoSyncActive; no request is
\* outstanding before the first sync made a channel.)
DeliverRead(r) ==
    /\ r \in requests
    /\ cancelGen # 0
    /\ requests' = requests \ {r}
    /\ delivering' = delivering \cup {[pkt |-> r, ch |-> cancelGen]}
    /\ UNCHANGED <<synchronising, cancelGen, closed, cancelPeer, registered, pc,
                   syncPeer, gen, round, err, headerCh, dropped>>

\* Fault model: deliver sends without selecting on the cancel channel.
DeliverSendBlocking(d) ==
    /\ d \in delivering
    /\ Len(headerCh) < HeaderChCap
    /\ headerCh' = Append(headerCh, d.pkt)
    /\ delivering' = delivering \ {d}
    /\ UNCHANGED <<synchronising, cancelGen, closed, cancelPeer, registered, pc,
                   syncPeer, gen, round, err, requests, dropped>>

\* Fault model: the send ignores the channel's capacity.
DeliverSendUnbounded(d) ==
    /\ d \in delivering
    /\ \/ headerCh' = Append(headerCh, d.pkt)
       \/ /\ d.ch \in closed
          /\ UNCHANGED headerCh
    /\ delivering' = delivering \ {d}
    /\ UNCHANGED <<synchronising, cancelGen, closed, cancelPeer, registered, pc,
                   syncPeer, gen, round, err, requests, dropped>>

\* deliver, second half: select { case destCh <- packet: ; case <-cancel: }
\* where cancel is the channel read in the first half; either ready case
\* may be taken.
DeliverSend(d) ==
    /\ d \in delivering
    /\ \/ /\ Len(headerCh) < HeaderChCap
          /\ headerCh' = Append(headerCh, d.pkt)
       \/ /\ d.ch \in closed
          /\ UNCHANGED headerCh
    /\ delivering' = delivering \ {d}
    /\ UNCHANGED <<synchronising, cancelGen, closed, cancelPeer, registered, pc,
                   syncPeer, gen, round, err, requests, dropped>>

\* Every step a running sync takes by itself.
SyncStep(c) ==
    \/ ArmCancel(c)
    \/ RequestHeaders(c)
    \/ ReceiveHeaders(c)
    \/ HeaderTimeout(c)
    \/ SyncCanceled(c)
    \/ DeferredCancel(c)
    \/ ReleaseGuard(c)

Next ==
    \/ \E c \in Callers, p \in Peers : SynchroniseStart(c, p)
    \/ \E c \in Callers : SyncStep(c)
    \/ \E p \in Peers : RegisterPeer(p) \/ UnregisterPeer(p)
    \/ Cancel
    \/ \E r \in requests : DeliverRead(r)
    \/ \E d \in delivering : DeliverSend(d)

\* Goroutines the Go runtime runs: a started sync and a blocked Deliver*
\* call.  Callers of Synchronise, peers and Cancel are the environment.
Fairness ==
    /\ \A c \in Callers : WF_vars(SyncStep(c))
    /\ \A d \in Deliveries : WF_vars(DeliverSend(d))

Spec == Init /\ [][Next]_vars /\ Fairness

-----------------------------------------------------------------------------

TypeOK ==
    /\ synchronising \in {0, 1}
    /\ cancelGen \in 0..MaxSyncs
    /\ closed \subseteq Gens
    /\ cancelPeer \in Peers \cup {NoPeer}
    /\ registered \subseteq Peers
    /\ pc \in [Callers -> PCs]
    /\ syncPeer \in [Callers -> Peers \cup {NoPeer}]
    /\ gen \in [Callers -> 0..MaxSyncs]
    /\ round \in [Callers -> 0..MaxRounds]
    /\ err \in [Callers -> Errors]
    /\ requests \subseteq Packets
    /\ headerCh \in Seq(Packets)
    /\ Len(headerCh) <= HeaderChCap
    /\ delivering \subseteq Deliveries
    /\ dropped \subseteq Peers

\* When no sync holds the guard, the cancel channel is nil or closed, so a
\* Deliver* call made between syncs cannot block on a channel nobody reads.
CancelClosedWhenIdle ==
    synchronising = 0 => (cancelGen = 0 \/ cancelGen \in closed)

\* While a sync runs, d.cancelCh is still the channel it made: no other
\* Synchronise call replaced it, so Cancel reaches this sync's goroutines.
ActiveSyncOwnsChannel ==
    \A c \in Callers :
        pc[c] \in {"request", "wait", "cancel"} => gen[c] = cancelGen

\* Every Deliver* call returns: a blocked send is released by a reader or
\* by the close of the cancel channel it read.
DeliverTerminates ==
    \A d \in Deliveries : (d \in delivering) ~> (d \notin delivering)

\* synchronise installs a fresh d.cancelCh only over a nil or closed one:
\* the previous sync's deferred Cancel ran before its guard was released,
\* so no Deliver* call is left holding an open channel that nothing will
\* ever close.  The replacement also happens only under the guard.
ReplacedChannelClosed ==
    [][cancelGen' # cancelGen =>
         /\ synchronising = 1
         /\ cancelGen' = cancelGen + 1
         /\ (cancelGen = 0 \/ cancelGen \in closed)]_vars

=============================================================================
