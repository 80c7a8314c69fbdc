------------------------------ MODULE FastSync ------------------------------
(***************************************************************************)
(* One fast-sync session of the downloader (src/eth/downloader/            *)
(* downloader.go) after the common ancestor is found: the tasks spawnSync  *)
(* starts and what they share.                                             *)
(*                                                                         *)
(*   header fetcher   fetchHeaders: skeleton batches, pivot probes, then    *)
(*                    contiguous batches with reorg protection             *)
(*   header processor processHeaders: header-chain insertion, rollback,    *)
(*                    scheduling of bodies and receipts                    *)
(*   bodies/receipts  fetchBodies/fetchReceipts over the queue (queue.go,  *)
(*                    not in src/: modelled from the spec)                 *)
(*   content          processFastSyncContent: pivot moves, state sync,     *)
(*                    receipt-chain insertion, pivot commit, block import  *)
(*   spawnSync        joins the tasks, closes the queue, cancels           *)
(*                                                                         *)
(* Heights are numbers; a header, block or result is its height.  The      *)
(* remote peer serves the canonical chain 1..remoteHead, which may grow,   *)
(* except that the headers at BadHeaders fail header-chain verification.  *)
(* The chain store (BlockChain) is its three head pointers.                *)
(***************************************************************************)
EXTENDS Naturals, Sequences, FiniteSets

CONSTANTS
    Origin,               \* the common ancestor found by findAncestor
    InitHead,             \* the remote head announced to Synchronise (td)
    MaxHeight,            \* bound on the growth of the remote chain
    BadHeaders,           \* heights whose remote header fails verification
    FsMinFullBlocks,      \* fsMinFullBlocks (64)
    ReorgProtHeaderDelay, \* reorgProtHeaderDelay (2)
    ReorgProtThreshold,   \* reorgProtThreshold (48)
    PivotConfirmGap,      \* the 8 of the pivot probe: pivot + 2*64 - 8
    FsHeaderSafetyNet,    \* fsHeaderSafetyNet (2048)
    MaxHeaderFetch,       \* MaxHeaderFetch (192): batch size and stride
    MaxSkeletonSize,      \* MaxSkeletonSize (128)
    MaxHeadersProcess,    \* maxHeadersProcess (2048)
    MaxQueuedHeaders,     \* maxQueuedHeaders (32768)
    MaxResultsProcess,    \* maxResultsProcess (2048)
    StateSyncFails,       \* whether a state sync session may fail
    HeaderTimeouts        \* whether a header request may time out

ASSUME Assumptions ==
    /\ Origin \in Nat
    /\ InitHead \in Nat /\ Origin < InitHead
    /\ MaxHeight \in Nat /\ InitHead <= MaxHeight
    /\ BadHeaders \subseteq 1..MaxHeight
    /\ FsMinFullBlocks \in Nat \ {0}
    /\ ReorgProtHeaderDelay \in Nat /\ ReorgProtHeaderDelay < FsMinFullBlocks
    /\ ReorgProtThreshold \in Nat
    /\ PivotConfirmGap \in Nat /\ PivotConfirmGap < FsMinFullBlocks
    /\ FsHeaderSafetyNet \in Nat \ {0}
    /\ MaxHeaderFetch \in Nat \ {0}
    /\ MaxSkeletonSize \in Nat \ {0}
    /\ MaxHeadersProcess \in Nat \ {0}
    /\ MaxQueuedHeaders \in Nat \ {0}
    /\ MaxResultsProcess \in Nat \ {0}
    /\ StateSyncFails \in BOOLEAN
    /\ HeaderTimeouts \in BOOLEAN

Heights == 0..MaxHeight

\* The tasks spawnSync runs in fast sync, and what a task can return.
Tasks == {"headers", "bodies", "receipts", "process", "content"}
Results == {"running", "nil", "canceled", "invalidChain", "badPeer",
            "stalling", "stateFailed", "stateCanceled", "commitFailed",
            "panic"}

\* The status of a state sync session: running, finished, failed, ended by
\* sync.Cancel() (errCancelStateFetch) or by d.cancelCh (errCanceled).
StateStatuses == {"running", "done", "failed", "stopped", "canceled"}

\* Errors that blame the peer: Synchronise drops it.
PeerFaults == {"invalidChain", "badPeer", "stalling"}

VARIABLES
    remoteHead,   \* height of the peer's chain
    headerHead,   \* lightchain.CurrentHeader()
    fastHead,     \* blockchain.CurrentFastBlock()
    blockHead,    \* blockchain.CurrentBlock()
    pivot,        \* d.pivotHeader
    committed,    \* d.committed
    cancelled,    \* d.cancelCh is closed
    qClosed,      \* the queue has been closed
    ret,          \* what each task returned, "running" while it runs
    errc,         \* spawnSync's errc: the tasks in the order they returned
    received,     \* how many results spawnSync has received from errc
    syncResult,   \* what spawnSync returned, "running" until it returns
    \* header fetcher
    from, skeleton, pivoting, probeBase,
    headerProcCh, \* d.headerProcCh (capacity 1); an empty run is nil
    \* header processor
    pRun,         \* the rest of the run being processed
    pChunk,       \* last height of a chunk inserted, not yet scheduled (0: none)
    pOrigin,      \* processHeaders' origin: the next height it schedules
    rollback, gotHeaders,
    \* queue and the body/receipt fetchers
    scheduledTo, completeTo, resultsTo, wakeFinished,
    \* content processor and its state sync session
    cState, oldPivot, oldTail, waitAfter, stateRoot, stateStatus,
    \* history of the chain store calls
    executed,     \* heights imported by InsertChain
    fastInserted, \* heights inserted by InsertReceiptChain
    commitLog     \* <<pivot, state root>> of each FastSyncCommitHead

fetcherVars == <<from, skeleton, pivoting, probeBase>>
procVars == <<pRun, pChunk, pOrigin, rollback, gotHeaders>>
queueVars == <<scheduledTo, completeTo, resultsTo, wakeFinished>>
contentVars == <<cState, oldPivot, oldTail, waitAfter, stateRoot, stateStatus>>
chainVars == <<headerHead, fastHead, blockHead>>
logVars == <<executed, fastInserted, commitLog>>
vars == <<remoteHead, pivot, committed, cancelled, qClosed, ret, errc,
          received, syncResult,
          headerProcCh, fetcherVars, procVars, queueVars, contentVars,
          chainVars, logVars>>

-----------------------------------------------------------------------------
(* Sequences of heights.                                                   *)

\* The headers lo..hi as a sequence (empty when hi < lo).
Span(lo, hi) == [i \in 1..(IF hi < lo THEN 0 ELSE hi - lo + 1) |-> lo + i - 1]

LastOf(s) == s[Len(s)]

\* Each element follows the previous one by one.
Contiguous(s) == \A i \in 1..(Len(s) - 1) : s[i + 1] = s[i] + 1

SeqSet(s) == {s[i] : i \in DOMAIN s}

\* A run of headers on headerProcCh: the heights lo..hi; lo > hi is nil.
Run(lo, hi) == [lo |-> lo, hi |-> hi]
NilRun == Run(1, 0)
IsNil(r) == r.hi < r.lo

-----------------------------------------------------------------------------
(* Sync set-up in syncWithPeer (lines 457-558) for fast sync.              *)

\* fetchHead: a pivot at head - 64 comes with the head when head > 64;
\* otherwise the pivot is the local current block.
InitPivot == IF InitHead > FsMinFullBlocks THEN InitHead - FsMinFullBlocks
                                           ELSE Origin

\* The origin is reset to 0 for short chains and below the pivot otherwise.
SyncOrigin ==
    IF InitHead <= FsMinFullBlocks THEN 0
    ELSE IF InitPivot <= Origin THEN InitPivot - 1
    ELSE Origin

Init ==
    /\ remoteHead = InitHead
    /\ headerHead = Origin /\ fastHead = Origin /\ blockHead = Origin
    /\ pivot = InitPivot
    /\ committed = IF InitPivot # 0 THEN 0 ELSE 1
    /\ cancelled = FALSE
    /\ qClosed = FALSE
    /\ ret = [t \in Tasks |-> "running"]
    /\ errc = <<>>
    /\ received = 0
    /\ syncResult = "running"
    /\ from = SyncOrigin + 1
    /\ skeleton = TRUE
    /\ pivoting = FALSE
    /\ probeBase = 0
    /\ headerProcCh = <<>>
    /\ pRun = NilRun
    /\ pChunk = 0
    /\ pOrigin = SyncOrigin + 1
    /\ rollback = 0
    /\ gotHeaders = FALSE
    /\ scheduledTo = SyncOrigin
    /\ completeTo = SyncOrigin
    /\ resultsTo = SyncOrigin
    /\ wakeFinished = FALSE
    /\ cState = "loop"
    /\ oldPivot = 0
    /\ oldTail = <<>>
    /\ waitAfter = <<>>
    /\ stateRoot = InitPivot
    /\ stateStatus = "running"
    /\ executed = {}
    /\ fastInserted = {}
    /\ commitLog = {}

-----------------------------------------------------------------------------
(* Helpers.                                                                *)

MinOf(a, b) == IF a < b THEN a ELSE b
MaxOf(a, b) == IF a < b THEN b ELSE a

Running(t) == ret[t] = "running"

\* A task returns err.
Return(t, err) ==
    /\ ret' = [ret EXCEPT ![t] = err]
    /\ errc' = Append(errc, t)

\* The task goes on.
Continue == UNCHANGED <<ret, errc>>

\* lightchain.SetHead(h): every head pointer of the store is rewound to h.
SetHead(h) ==
    /\ headerHead' = MinOf(headerHead, h)
    /\ fastHead' = MinOf(fastHead, h)
    /\ blockHead' = MinOf(blockHead, h)

\* The deferred rollback of processHeaders: SetHead(rollback - 1) if set.
RollbackOnReturn(rb) ==
    IF rb > 0 THEN SetHead(rb - 1) ELSE UNCHANGED chainVars

-----------------------------------------------------------------------------
(* Header fetcher: fetchHeaders (lines 969-1192).  Each action handles one *)
(* response to the request the previous one issued.  The two waits that   *)
(* retry the same request after fsHeaderContCheck (no headers while the    *)
(* pivot is uncommitted; all headers held back by reorg protection) leave  *)
(* the state unchanged and are not actions.                                *)

\* The next skeleton has k slots: headers from+191, from+383, ... that exist.
SkeletonSlots ==
    IF remoteHead + 1 < from + MaxHeaderFetch THEN 0
    ELSE MinOf(MaxSkeletonSize, (remoteHead + 1 - from) \div MaxHeaderFetch)

\* A skeleton response.  An empty one switches to contiguous fetching; a
\* full one is filled (fillHeaderSkeleton) and the filled headers are sent
\* to the processor; while a pivot exists the next request probes it.
FetchSkeleton ==
    /\ Running("headers")
    /\ skeleton /\ ~pivoting
    /\ IF SkeletonSlots = 0
          THEN /\ skeleton' = FALSE
               /\ UNCHANGED <<from, pivoting, probeBase, headerProcCh>>
          ELSE LET last == from + SkeletonSlots * MaxHeaderFetch - 1
               IN /\ Len(headerProcCh) < 1
                  /\ headerProcCh' = Append(headerProcCh, Run(from, last))
                  /\ from' = last + 1
                  /\ IF pivot > 0
                        THEN pivoting' = TRUE /\ probeBase' = pivot
                        ELSE UNCHANGED <<pivoting, probeBase>>
                  /\ UNCHANGED skeleton
    /\ UNCHANGED <<remoteHead, pivot, committed, cancelled, qClosed, ret,
                   errc, received, syncResult, procVars, queueVars, contentVars,
                   chainVars, logVars>>

\* The response to getNextPivot: headers at probeBase + 64 and probeBase +
\* 2*64 - 8 when the peer has them.  They are checked against the pivot as
\* it is now; if it still equals the probe base the pivot moves forward.
FetchPivotProbe ==
    /\ Running("headers")
    /\ pivoting
    /\ LET two == remoteHead >= probeBase + 2 * FsMinFullBlocks - PivotConfirmGap
       IN IF two /\ probeBase # pivot
             THEN /\ Return("headers", "invalidChain")
                  /\ UNCHANGED <<pivot, pivoting>>
             ELSE /\ pivot' = IF two THEN probeBase + FsMinFullBlocks ELSE pivot
                  /\ pivoting' = FALSE
                  /\ Continue
    /\ UNCHANGED <<remoteHead, committed, cancelled, qClosed, received,
                   syncResult, from, skeleton, probeBase, headerProcCh,
                   procVars, queueVars, contentVars, chainVars, logVars>>

\* The local head reorg protection compares against.
LocalHead == MaxOf(MaxOf(fastHead, blockHead), SyncOrigin + 1)

\* Fault model: from advances past the headers held back.
FetchContiguousAdvanceAll ==
    /\ Running("headers")
    /\ ~skeleton /\ ~pivoting
    /\ LET last == MinOf(from + MaxHeaderFetch - 1, remoteHead)
           n == IF last < from THEN 0 ELSE last - from + 1
           keep == IF LocalHead + ReorgProtThreshold < last
                      THEN n - MinOf(ReorgProtHeaderDelay, n) ELSE n
       IN IF n = 0
             THEN /\ ~(committed = 0 /\ pivot <= from)
                  /\ Len(headerProcCh) < 1
                  /\ headerProcCh' = Append(headerProcCh, NilRun)
                  /\ Return("headers", "nil")
                  /\ UNCHANGED from
             ELSE /\ keep > 0
                  /\ Len(headerProcCh) < 1
                  /\ headerProcCh' = Append(headerProcCh, Run(from, from + keep - 1))
                  /\ from' = from + n
                  /\ Continue
    /\ UNCHANGED <<remoteHead, pivot, committed, cancelled, qClosed, received,
                   syncResult, skeleton, pivoting, probeBase, procVars,
                   queueVars, contentVars, chainVars, logVars>>

\* A contiguous response from..last.  Empty: the nil run ends the fetch
\* unless the pivot is uncommitted at or below from.  Non-empty: the last
\* reorgProtHeaderDelay headers are held back when the local head lags.
FetchContiguous ==
    /\ Running("headers")
    /\ ~skeleton /\ ~pivoting
    /\ LET last == MinOf(from + MaxHeaderFetch - 1, remoteHead)
           n == IF last < from THEN 0 ELSE last - from + 1
           keep == IF LocalHead + ReorgProtThreshold < last
                      THEN n - MinOf(ReorgProtHeaderDelay, n) ELSE n
       IN IF n = 0
             THEN /\ ~(committed = 0 /\ pivot <= from)
                  /\ Len(headerProcCh) < 1
                  /\ headerProcCh' = Append(headerProcCh, NilRun)
                  /\ Return("headers", "nil")
                  /\ UNCHANGED from
             ELSE /\ keep > 0
                  /\ Len(headerProcCh) < 1
                  /\ headerProcCh' = Append(headerProcCh, Run(from, from + keep - 1))
                  /\ from' = from + keep
                  /\ Continue
    /\ UNCHANGED <<remoteHead, pivot, committed, cancelled, qClosed, received,
                   syncResult, skeleton, pivoting, probeBase, procVars,
                   queueVars, contentVars, chainVars, logVars>>

\* case <-timeout.C: the peer did not answer.  The peer is dropped, the
\* body and receipt fetchers are woken with false, the nil run is sent
\* (unless d.cancelCh is closed first) and errBadPeer is returned.
FetchTimeout ==
    /\ HeaderTimeouts
    /\ Running("headers")
    /\ \/ /\ Len(headerProcCh) < 1
          /\ headerProcCh' = Append(headerProcCh, NilRun)
       \/ /\ cancelled
          /\ UNCHANGED headerProcCh
    /\ wakeFinished' = TRUE
    /\ Return("headers", "badPeer")
    /\ UNCHANGED <<remoteHead, pivot, committed, cancelled, qClosed, received,
                   syncResult, fetcherVars, procVars, scheduledTo, completeTo,
                   resultsTo, contentVars, chainVars, logVars>>

\* case <-d.cancelCh in any select of the fetcher.
FetchCanceled ==
    /\ Running("headers")
    /\ cancelled
    /\ Return("headers", "canceled")
    /\ UNCHANGED <<remoteHead, pivot, committed, cancelled, qClosed, received,
                   syncResult, headerProcCh, fetcherVars, procVars, queueVars,
                   contentVars, chainVars, logVars>>

-----------------------------------------------------------------------------
(* Header processor: processHeaders (lines 1482-1654).  Every return but  *)
(* the successful one runs the deferred SetHead(rollback - 1).             *)

\* processHeaders returns err: the deferred rollback runs with rb.
ProcReturn(err, rb) ==
    /\ Return("process", err)
    /\ rollback' = rb
    /\ RollbackOnReturn(rb)

\* Fault model: the header head equal to the announced head counts as stalling.
StallingOffByOne ==
    \/ ~gotHeaders /\ InitHead > blockHead
    \/ InitHead >= headerHead

\* errStallingPeer: the peer announced a heavier chain (td of InitHead)
\* than the local head reached; heights stand for total difficulty.
Stalling ==
    \/ ~gotHeaders /\ InitHead > blockHead
    \/ InitHead > headerHead

\* A run is received.  The nil run wakes the body and receipt fetchers with
\* false (they finish once the queue drains), then ends the processor with
\* errStallingPeer or with success, which alone clears the rollback.
ProcRecv ==
    /\ Running("process")
    /\ IsNil(pRun) /\ pChunk = 0
    /\ headerProcCh # <<>>
    /\ headerProcCh' = Tail(headerProcCh)
    /\ LET r == Head(headerProcCh)
       IN IF IsNil(r)
             THEN /\ wakeFinished' = TRUE
                  /\ IF Stalling
                        THEN ProcReturn("stalling", rollback)
                        ELSE /\ Return("process", "nil")
                             /\ rollback' = 0
                             /\ UNCHANGED chainVars
                  /\ UNCHANGED <<pRun, gotHeaders>>
             ELSE /\ pRun' = r
                  /\ gotHeaders' = TRUE
                  /\ Continue
                  /\ UNCHANGED <<wakeFinished, rollback, chainVars>>
    /\ UNCHANGED <<remoteHead, pivot, committed, cancelled, qClosed, received,
                   syncResult, fetcherVars, pChunk, pOrigin, scheduledTo,
                   completeTo, resultsTo, contentVars, logVars>>

\* The next chunk of the run: at most maxHeadersProcess headers.
ChunkEnd == MinOf(pRun.lo + MaxHeadersProcess - 1, pRun.hi)

\* InsertHeaderChain(chunk) validates the whole chunk before writing any of
\* it.  On failure at index n the rollback is set to the chunk's first
\* height, unless already set; on success the header head advances and the
\* rollback is moved to fsHeaderSafetyNet below it, or to 1.
ProcInsert ==
    /\ Running("process")
    /\ ~IsNil(pRun) /\ pChunk = 0
    /\ ~cancelled
    /\ LET bad == {h \in BadHeaders : pRun.lo <= h /\ h <= ChunkEnd}
       IN IF bad # {}
             THEN LET n == CHOOSE h \in bad : \A g \in bad : h <= g
                  IN ProcReturn("invalidChain",
                                IF n > pRun.lo /\ rollback = 0 THEN pRun.lo
                                                              ELSE rollback)
                     /\ UNCHANGED pChunk
             ELSE /\ headerHead' = MaxOf(headerHead, ChunkEnd)
                  /\ rollback' = IF ChunkEnd - rollback > FsHeaderSafetyNet
                                    THEN ChunkEnd - FsHeaderSafetyNet ELSE 1
                  /\ pChunk' = ChunkEnd
                  /\ Continue
                  /\ UNCHANGED <<fastHead, blockHead>>
    /\ UNCHANGED <<remoteHead, pivot, committed, cancelled, qClosed, received,
                   syncResult, headerProcCh, fetcherVars, pRun, pOrigin,
                   gotHeaders, queueVars, contentVars, logVars>>

\* Once fewer than maxQueuedHeaders blocks are pending, queue.Schedule
\* (chunk, origin) takes the chunk; it refuses headers that do not start at
\* origin, and the processor then fails with errBadPeer.
ProcSchedule ==
    /\ Running("process")
    /\ pChunk # 0
    /\ scheduledTo - completeTo < MaxQueuedHeaders
    /\ IF pRun.lo = pOrigin
          THEN /\ scheduledTo' = pChunk
                  \* origin += limit
               /\ pOrigin' = pChunk + 1
               /\ pRun' = Run(pChunk + 1, pRun.hi)
               /\ pChunk' = 0
               /\ Continue
               /\ UNCHANGED <<rollback, chainVars>>
          ELSE /\ ProcReturn("badPeer", rollback)
               /\ UNCHANGED <<scheduledTo, pOrigin, pRun, pChunk>>
    /\ UNCHANGED <<remoteHead, pivot, committed, cancelled, qClosed, received,
                   syncResult, headerProcCh, fetcherVars, gotHeaders,
                   completeTo, resultsTo, wakeFinished, contentVars, logVars>>

\* case <-d.cancelCh: waiting for a run, before a chunk, or in the
\* backpressure wait.  The rollback is not cleared.
ProcCanceled ==
    /\ Running("process")
    /\ cancelled
    /\ ProcReturn("canceled", rollback)
    /\ UNCHANGED <<remoteHead, pivot, committed, cancelled, qClosed, received,
                   syncResult, headerProcCh, fetcherVars, pRun, pChunk,
                   pOrigin, gotHeaders, queueVars, contentVars, logVars>>

-----------------------------------------------------------------------------
(* Body and receipt fetchers over the queue (fetchBodies, fetchReceipts,   *)
(* fetchParts, lines 1240-1477; queue.go is not under src/).  Scheduled    *)
(* blocks complete in height order once both parts are delivered.          *)

\* Fault model: deliveries complete one result past the scheduled ones.
PartsDeliverPastSchedule ==
    /\ Running("bodies") /\ Running("receipts")
    /\ \E n \in completeTo + 1 .. scheduledTo + 1 : completeTo' = n
    /\ UNCHANGED <<remoteHead, pivot, committed, cancelled, qClosed, ret, errc,
                   received, syncResult, headerProcCh, fetcherVars, procVars,
                   scheduledTo, resultsTo, wakeFinished, contentVars,
                   chainVars, logVars>>

\* Deliveries complete the next scheduled results.
PartsDeliver ==
    /\ Running("bodies") /\ Running("receipts")
    /\ \E n \in completeTo + 1 .. scheduledTo : completeTo' = n
    /\ UNCHANGED <<remoteHead, pivot, committed, cancelled, qClosed, ret, errc,
                   received, syncResult, headerProcCh, fetcherVars, procVars,
                   scheduledTo, resultsTo, wakeFinished, contentVars,
                   chainVars, logVars>>

\* Woken with false and nothing pending or in flight, a fetcher returns
\* nil; on d.cancelCh it returns errCanceled.
PartsReturn(t) ==
    /\ Running(t)
    /\ \/ wakeFinished /\ completeTo = scheduledTo /\ Return(t, "nil")
       \/ cancelled /\ Return(t, "canceled")
    /\ UNCHANGED <<remoteHead, pivot, committed, cancelled, qClosed, received,
                   syncResult, headerProcCh, fetcherVars, procVars, queueVars,
                   contentVars, chainVars, logVars>>

-----------------------------------------------------------------------------
(* State sync sessions (statesync.go, not under src/).  Only the session   *)
(* the content processor holds is modelled; the root is the pivot height.  *)

\* The session downloads the whole state trie of its root.
StateSyncDone ==
    /\ stateStatus = "running"
    /\ stateStatus' = "done"
    /\ UNCHANGED <<remoteHead, pivot, committed, cancelled, qClosed, ret, errc,
                   received, syncResult, headerProcCh, fetcherVars, procVars,
                   queueVars, cState, oldPivot, oldTail, waitAfter, stateRoot,
                   chainVars, logVars>>

\* The session fails; closeOnErr closes the queue (lines 1723-1728).
StateSyncFail ==
    /\ StateSyncFails
    /\ stateStatus = "running"
    /\ stateStatus' = "failed"
    /\ qClosed' = TRUE
    /\ UNCHANGED <<remoteHead, pivot, committed, cancelled, ret, errc,
                   received, syncResult, headerProcCh, fetcherVars, procVars,
                   queueVars, cState, oldPivot, oldTail, waitAfter, stateRoot,
                   chainVars, logVars>>

\* The session sees d.cancelCh and ends with errCanceled.
StateSyncCanceled ==
    /\ stateStatus = "running" /\ cancelled
    /\ stateStatus' = "canceled"
    /\ UNCHANGED <<remoteHead, pivot, committed, cancelled, qClosed, ret, errc,
                   received, syncResult, headerProcCh, fetcherVars, procVars,
                   queueVars, cState, oldPivot, oldTail, waitAfter, stateRoot,
                   chainVars, logVars>>

\* sync.Cancel(): a running session stops with errCancelStateFetch.
Stop(st) == IF st = "running" THEN "stopped" ELSE st

\* What s.Wait() returns, as the error of a task.
SessionErr(st) ==
    CASE st = "done" -> "nil"
      [] st = "failed" -> "stateFailed"
      [] st = "canceled" -> "canceled"
      [] OTHER -> "stateCanceled"

-----------------------------------------------------------------------------
(* Content processor: processFastSyncContent and the calls it makes        *)
(* (lines 1709-1911).  Every return runs the deferred sync.Cancel().       *)

\* queue.Results: the completed results after those already taken.
ResultsBatch == Span(resultsTo + 1, MinOf(completeTo, resultsTo + MaxResultsProcess))

\* InsertReceiptChain accepts a contiguous run whose headers are known.
ReceiptChainOK(s) == Contiguous(s) /\ \A i \in DOMAIN s : s[i] <= headerHead

\* InsertChain accepts a contiguous run whose parent block (at or below the
\* head block) is present.
ChainOK(s, block) == Contiguous(s) /\ s[1] <= block + 1

\* processFastSyncContent returns err; the session is stopped.
ContentReturn(err, st) ==
    /\ Return("content", err)
    /\ stateStatus' = Stop(st)

\* importBlockResults(after), from the fast and full heads fast and block.
ImportBlocks(after, fast, block) ==
    IF after = <<>> \/ ChainOK(after, block)
       THEN /\ blockHead' = IF after = <<>> THEN block ELSE MaxOf(block, LastOf(after))
            /\ fastHead' = IF after = <<>> THEN fast ELSE MaxOf(fast, LastOf(after))
            /\ executed' = executed \cup SeqSet(after)
            /\ Continue
       ELSE /\ Return("content", "invalidChain")
            /\ fastHead' = fast
            /\ blockHead' = block
            /\ UNCHANGED executed

\* An uncommitted pivot is stale once the results reach 2*64-2 above it.
PivotStale(latest) ==
    committed = 0 /\ latest >= pivot + 2 * FsMinFullBlocks - ReorgProtHeaderDelay

\* splitAroundPivot: the results below and above the pivot p.
SplitBefore(p, rs) == SelectSeq(rs, LAMBDA h : h < p)

\* Fault model: a batch ending below the pivot is returned as after.
SplitAfterShortBatch(p, rs) ==
    IF LastOf(rs) < p THEN rs ELSE SelectSeq(rs, LAMBDA h : h > p)

SplitAfter(p, rs) == SelectSeq(rs, LAMBDA h : h > p)

\* Fault model: the session is kept when the pivot differs from the pending one.
PivotSessionRootKept(P, root) == root

\* The session root after reaching the pivot P: a pivot other than the
\* pending one restarts the session on P's root.
PivotSessionRoot(P, root) == IF oldPivot # P THEN P ELSE root

\* One turn of the loop with the results res (possibly empty while a pivot
\* is pending).  With no pending pivot the session follows the pivot; else
\* the pending pivot and tail are put in front.  An uncommitted pivot that
\* became stale moves to results[len-1-64+2]; a negative index panics.  The
\* results before the pivot are inserted with their receipts; at the pivot
\* the loop waits for its state; the results after it are imported.
ContentIterate(res) ==
    LET rs == IF oldPivot = 0 THEN res ELSE <<oldPivot>> \o oldTail \o res
        restart == oldPivot = 0 /\ pivot # stateRoot
        root1 == IF restart THEN pivot ELSE stateRoot
        st1 == IF restart THEN "running" ELSE stateStatus
        stale == PivotStale(LastOf(rs))
        idx == Len(rs) - FsMinFullBlocks + ReorgProtHeaderDelay
        P == IF stale THEN rs[idx] ELSE pivot
        before == SplitBefore(P, rs)
        after == SplitAfter(P, rs)
        hasP == \E i \in DOMAIN rs : rs[i] = P
        fast1 == IF before = <<>> THEN fastHead ELSE MaxOf(fastHead, LastOf(before))
    IN /\ resultsTo' = resultsTo + Len(res)
       /\ IF stale /\ idx < 1
             THEN /\ ContentReturn("panic", st1)
                  /\ stateRoot' = root1
                  /\ UNCHANGED <<pivot, cState, oldPivot, oldTail, waitAfter,
                                 chainVars, logVars>>
          ELSE IF before # <<>> /\ st1 \notin {"running", "done"}
             THEN /\ ContentReturn(SessionErr(st1), st1)
                  /\ pivot' = P /\ stateRoot' = root1
                  /\ UNCHANGED <<cState, oldPivot, oldTail, waitAfter,
                                 chainVars, logVars>>
          ELSE IF before # <<>> /\ ~ReceiptChainOK(before)
             THEN /\ ContentReturn("invalidChain", st1)
                  /\ pivot' = P /\ stateRoot' = root1
                  /\ UNCHANGED <<cState, oldPivot, oldTail, waitAfter,
                                 chainVars, logVars>>
          ELSE /\ pivot' = P
               /\ fastInserted' = fastInserted \cup SeqSet(before)
               /\ IF hasP
                     THEN /\ stateRoot' = PivotSessionRoot(P, root1)
                          /\ stateStatus' = IF oldPivot # P THEN "running" ELSE st1
                          /\ oldPivot' = P
                          /\ cState' = "wait" /\ waitAfter' = after
                          /\ fastHead' = fast1
                          /\ Continue
                          /\ UNCHANGED <<oldTail, blockHead, headerHead,
                                         executed, commitLog>>
                     ELSE /\ stateRoot' = root1
                          /\ ImportBlocks(after, fast1, blockHead)
                          /\ stateStatus' = IF ret'["content"] = "running"
                                               THEN st1 ELSE Stop(st1)
                          /\ UNCHANGED <<cState, oldPivot, oldTail, waitAfter,
                                         headerHead, commitLog>>

\* The top of the loop.  With no pending pivot Results blocks until there
\* are results or the queue is closed, and then returns sync.Cancel().
\* With a pending pivot Results does not block: on d.cancelCh the
\* processor returns errCanceled, otherwise the loop goes on.
ContentLoop ==
    /\ Running("content") /\ cState = "loop"
    /\ LET res == ResultsBatch
       IN \/ /\ res = <<>> /\ oldPivot = 0 /\ qClosed
             /\ ContentReturn(SessionErr(Stop(stateStatus)), stateStatus)
             /\ UNCHANGED <<pivot, resultsTo, cState, oldPivot, oldTail,
                            waitAfter, stateRoot, chainVars, logVars>>
          \/ /\ res = <<>> /\ oldPivot # 0 /\ cancelled
             /\ ContentReturn("canceled", stateStatus)
             /\ UNCHANGED <<pivot, resultsTo, cState, oldPivot, oldTail,
                            waitAfter, stateRoot, chainVars, logVars>>
          \/ /\ res # <<>> \/ (oldPivot # 0 /\ ~cancelled)
             /\ ContentIterate(res)
    /\ UNCHANGED <<remoteHead, committed, cancelled, qClosed, received,
                   syncResult, headerProcCh, fetcherVars, procVars,
                   scheduledTo, completeTo, wakeFinished>>

\* The pivot's state is synced: commitPivotBlock inserts it with its
\* receipts and makes it the head (FastSyncCommitHead), committed becomes
\* 1, and the results after it are imported.
PivotCommit ==
    /\ Running("content") /\ cState = "wait"
    /\ stateStatus = "done"
    /\ cState' = "loop"
    /\ IF oldPivot <= headerHead
          THEN /\ committed' = 1
               /\ commitLog' = commitLog \cup {<<oldPivot, stateRoot>>}
               /\ fastInserted' = fastInserted \cup {oldPivot}
               /\ oldPivot' = 0
               /\ ImportBlocks(waitAfter, MaxOf(fastHead, oldPivot), oldPivot)
               /\ UNCHANGED <<stateStatus>>
          ELSE /\ ContentReturn("commitFailed", stateStatus)
               /\ UNCHANGED <<committed, commitLog, fastInserted, oldPivot,
                              blockHead, fastHead, executed>>
    /\ UNCHANGED <<remoteHead, pivot, cancelled, qClosed, received, syncResult,
                   headerProcCh, fetcherVars, procVars, queueVars, oldTail,
                   waitAfter, stateRoot, headerHead>>

\* The pivot's session ended with an error: it is returned.
PivotStateFailed ==
    /\ Running("content") /\ cState = "wait"
    /\ stateStatus \in {"failed", "canceled"}
    /\ ContentReturn(SessionErr(stateStatus), stateStatus)
    /\ UNCHANGED <<remoteHead, pivot, committed, cancelled, qClosed, received,
                   syncResult, headerProcCh, fetcherVars, procVars, queueVars,
                   cState, oldPivot, oldTail, waitAfter, stateRoot, chainVars,
                   logVars>>

\* After a second without the state: keep the results after the pivot as
\* the tail and go round the loop (the pivot stays pending).
PivotWaitTimeout ==
    /\ Running("content") /\ cState = "wait"
    /\ stateStatus = "running"
    /\ cState' = "loop"
    /\ oldTail' = waitAfter
    /\ UNCHANGED <<remoteHead, pivot, committed, cancelled, qClosed, ret, errc,
                   received, syncResult, headerProcCh, fetcherVars, procVars,
                   queueVars, oldPivot, waitAfter, stateRoot, stateStatus,
                   chainVars, logVars>>

-----------------------------------------------------------------------------
(* spawnSync (lines 560-586) and the remote chain.                         *)

\* Fault model: the queue is closed only after the last result.
SpawnCollectNoEarlyClose ==
    /\ syncResult = "running"
    /\ received < Len(errc)
    /\ LET err == ret[errc[received + 1]]
       IN /\ received' = received + 1
          /\ IF err \notin {"nil", "canceled"} \/ received + 1 = Cardinality(Tasks)
                THEN /\ qClosed' = TRUE
                     /\ cancelled' = TRUE
                     /\ syncResult' = err
                ELSE UNCHANGED <<qClosed, cancelled, syncResult>>
    /\ UNCHANGED <<remoteHead, pivot, committed, ret, errc, headerProcCh,
                   fetcherVars, procVars, queueVars, contentVars, chainVars,
                   logVars>>

\* spawnSync receives the next result from errc.  Before the last receive
\* it closes the queue; on an error other than errCanceled, or after the
\* last, it closes the queue, cancels the sync and returns that error.
SpawnCollect ==
    /\ syncResult = "running"
    /\ received < Len(errc)
    /\ LET err == ret[errc[received + 1]]
       IN /\ received' = received + 1
          /\ IF err \notin {"nil", "canceled"} \/ received + 1 = Cardinality(Tasks)
                THEN /\ qClosed' = TRUE
                     /\ cancelled' = TRUE
                     /\ syncResult' = err
                ELSE /\ qClosed' = (qClosed \/ received + 1 = Cardinality(Tasks) - 1)
                     /\ UNCHANGED <<cancelled, syncResult>>
    /\ UNCHANGED <<remoteHead, pivot, committed, ret, errc, headerProcCh,
                   fetcherVars, procVars, queueVars, contentVars, chainVars,
                   logVars>>

\* The peer's chain grows by a block.
RemoteGrow ==
    /\ syncResult = "running"
    /\ remoteHead < MaxHeight
    /\ remoteHead' = remoteHead + 1
    /\ UNCHANGED <<headerHead, fastHead, blockHead, pivot, committed, cancelled,
                   qClosed, ret, errc, received, syncResult, headerProcCh,
                   fetcherVars, procVars, queueVars, contentVars, logVars>>

-----------------------------------------------------------------------------

Fetcher == FetchSkeleton \/ FetchPivotProbe \/ FetchContiguous \/ FetchCanceled
Processor == ProcRecv \/ ProcInsert \/ ProcSchedule \/ ProcCanceled
Content == ContentLoop \/ PivotCommit \/ PivotStateFailed \/ PivotWaitTimeout

Next ==
    \/ Fetcher
    \/ FetchTimeout
    \/ Processor
    \/ PartsDeliver
    \/ \E t \in {"bodies", "receipts"} : PartsReturn(t)
    \/ Content
    \/ StateSyncDone \/ StateSyncFail \/ StateSyncCanceled
    \/ SpawnCollect
    \/ RemoteGrow

\* Every goroutine runs when it can; peers deliver what is requested and a
\* state sync that is not canceled completes (the peer serves the state).
\* The growth of the remote chain, a state sync failure and a header
\* request timeout are not forced.
Fairness ==
    /\ WF_vars(Fetcher) /\ WF_vars(Processor) /\ WF_vars(Content)
    /\ WF_vars(PartsDeliver)
    /\ \A t \in {"bodies", "receipts"} : WF_vars(PartsReturn(t))
    /\ WF_vars(StateSyncDone) /\ WF_vars(StateSyncCanceled)
    /\ WF_vars(SpawnCollect)

Spec == Init /\ [][Next]_vars /\ Fairness

-----------------------------------------------------------------------------
(* Properties.                                                             *)

TypeOK ==
    /\ remoteHead \in Heights
    /\ {headerHead, fastHead, blockHead, pivot} \subseteq Heights
    /\ committed \in {0, 1}
    /\ cancelled \in BOOLEAN /\ qClosed \in BOOLEAN
    /\ ret \in [Tasks -> Results]
    /\ errc \in Seq(Tasks) /\ received \in 0..Len(errc)
    /\ syncResult \in Results
    /\ from \in 1..MaxHeight + 1
    /\ skeleton \in BOOLEAN /\ pivoting \in BOOLEAN /\ probeBase \in Heights
    /\ headerProcCh \in Seq([lo : 1..MaxHeight + 1, hi : Heights])
    /\ Len(headerProcCh) <= 1
    /\ pRun \in [lo : 1..MaxHeight + 1, hi : Heights]
    /\ pChunk \in Heights /\ pOrigin \in 1..MaxHeight + 1
    /\ rollback \in Heights /\ gotHeaders \in BOOLEAN
    /\ {scheduledTo, completeTo, resultsTo} \subseteq Heights
    /\ resultsTo <= completeTo /\ completeTo <= scheduledTo
    /\ wakeFinished \in BOOLEAN
    /\ cState \in {"loop", "wait"}
    /\ oldPivot \in Heights /\ oldTail \in Seq(Heights) /\ waitAfter \in Seq(Heights)
    /\ stateRoot \in Heights /\ stateStatus \in StateStatuses
    /\ executed \subseteq Heights /\ fastInserted \subseteq Heights
    /\ commitLog \subseteq Heights \X Heights

\* The fetcher and the processor agree on heights: a run on headerProcCh
\* starts right after the last header the processor has taken (fill,
\* reorg protection and chunking may never leave a gap or an overlap).
HeaderRunsContiguous ==
    (Running("process") /\ headerProcCh # <<>> /\ ~IsNil(Head(headerProcCh)))
        => Head(headerProcCh).lo = IF IsNil(pRun) THEN pOrigin ELSE pRun.hi + 1

\* Spec section 8.4: no block is executed by InsertChain above a pivot
\* before FastSyncCommitHead of a pivot below it has returned.
NoExecBeforeCommit ==
    \A h \in executed : InitPivot = 0 \/ \E e \in commitLog : e[1] < h

\* The head is committed only on the state root the session synced: the
\* session restarts on every pivot move (lines 1762-1768, 1799-1806).
CommitMatchesStateRoot == \A e \in commitLog : e[1] = e[2]

\* A sync with a peer that serves a valid chain never ends in an error that
\* Synchronise blames on the peer (errInvalidChain, errBadPeer,
\* errStallingPeer), nor in a panic of the content processor.
HonestPeerNotBlamed ==
    BadHeaders = {} => syncResult \notin PeerFaults \cup {"panic"}

\* The pivot probe of the header fetcher never rejects a valid chain.
HonestPivotProbe == BadHeaders = {} => ret["headers"] # "invalidChain"

\* The results the content processor holds back with a pending pivot (the
\* pivot and the tail after it) end where queue.Results resumes, so the
\* next batch it builds from them is contiguous.
PendingResultsContiguous ==
    (Running("content") /\ oldPivot # 0)
        => LastOf(<<oldPivot>> \o (IF cState = "wait" THEN waitAfter ELSE oldTail))
           = resultsTo

\* The processor's deferred SetHead never rewinds below a committed pivot
\* (spec section 7: rollback never deletes committed pivot blocks).
RollbackKeepsCommittedPivot == \A e \in commitLog : blockHead >= e[1]

\* Once the pivot is committed the node is in full mode: no block is again
\* inserted with its receipts only, without execution.
FullModeAfterCommit ==
    [][committed = 1 => fastInserted' = fastInserted]_vars

\* spawnSync returns and every task it started returns.
Termination == <>(syncResult # "running" /\ \A t \in Tasks : ret[t] # "running")

=============================================================================
