# TLA+ models of the eth downloader

This directory holds a verification development for the chain downloader in
`src/eth/downloader/downloader.go` (with `modes.go`). It contains TLA+ modules
that model the downloader's concurrency, TLC configurations that check them on
small instances, and TLAPS proofs, for every value of the constants, of the
session-layer invariants, of the head locator's contract and of the bounds of
the request timeout.

## 1. The system

The downloader synchronises the local chain with one remote peer, the
*master*. It also accepts responses from every peer through callbacks. Its
parts are:

| Part | Code | State it owns |
|---|---|---|
| Synchronise guard | `Synchronise`, `synchronise` (335-426) | `d.synchronising` (CAS flag), `d.cancelCh`, `d.cancelPeer` |
| Cancellation | `cancel`, `Cancel`, `Terminate` (591-630) | closes `d.cancelCh` under `cancelLock` |
| Response delivery | `deliver` (1933-1956), called by `DeliverHeaders` etc. | reads `d.cancelCh`, sends to `d.headerCh` (capacity 1) and the other channels |
| Sync driver | `syncWithPeer` (435-558) | picks the origin and the pivot, then starts the tasks |
| Task join | `spawnSync` (563-586) | the `errc` channel; closes the queue, then cancels |
| Header fetcher | `fetchHeaders` (960-1191) | `skeleton`, `pivoting`, `from`; reads and moves `d.pivotHeader` |
| Header processor | `processHeaders` (1482-1654) | `rollback`, `gotHeaders`; inserts headers, schedules bodies and receipts |
| Body/receipt fetchers | `fetchParts` (1297-1480) | request expiry and the wake channel |
| Content processor | `processFastSyncContent` (1709-1829), `commitFastSyncData`, `commitPivotBlock` | `oldPivot`, `oldTail`, the state sync session `sync`; moves the pivot, commits it |
| Head locator | `calculateRequestSpan`, `findAncestor` (705-959) | pure search |
| QoS tuner | `qosTuner`, `qosReduceConfidence` (called by `RegisterPeer`), `requestRTT`, `requestTTL` (1958-2029) | `d.rttEstimate`, `d.rttConfidence`, updated with atomic loads and stores |
| Sync modes | `modes.go` | conversions between a mode and its name |

The queue (`queue.go`), the peer set (`peer.go`) and state sync
(`statesync.go`) are called by this code but are not in `src/`. The model
follows their specified behaviour where the downloader calls them. Those
definitions are marked `spec_modelled` in `PROJECT.json`.

How the parts interact:

- Several goroutines may call `Synchronise`. Only the one that wins the CAS
  runs a sync. It makes a fresh cancel channel and releases the guard when
  the sync ends.
- Peer handlers call `deliver` at any time. A delivery first checks under the
  read lock that a cancel channel exists. After releasing the lock it blocks
  on the data channel until a sync reads the packet or the channel it saw is
  closed.
- During a fast sync, five goroutines share the chain store, the queue and
  `d.pivotHeader`:
  - the header fetcher, which sends header runs to the processor over
    `headerProcCh`;
  - the header processor;
  - the body fetcher and the receipt fetcher;
  - the content processor, which starts, restarts and waits on state sync
    sessions.
- The header fetcher and the content processor both move the pivot. The
  header processor rolls the chain back on failure.
- `spawnSync` returns the first error other than nil or cancel. It closes the
  queue before the last receive.
- Before the pipeline starts, `syncWithPeer` runs the head locator
  (`findAncestor`) against the master peer. The mode it branches on is
  parsed from text by `modes.go`. The pipeline model starts from the
  locator's result, a fixed `Origin`.
- The `qosTuner` goroutine runs for the downloader's lifetime. Every
  `RegisterPeer` call lowers the confidence from the peer handler's
  goroutine. The fetchers and `findAncestor` wait `requestTTL()` for an
  answer.

## 2. Modules

| Module | Models | Kind |
|---|---|---|
| `DownloaderSync` | guard, cancel channels, `headerCh`, `deliver`, `fetchHead`, peer registration, `dropPeer` | component |
| `MC_DownloaderSync` | two callers and two peers as model values | TLC instance |
| `DownloaderSync_proofs` | inductive invariant, the three session invariants and the channel-replacement action property for `DownloaderSync` | TLAPS |
| `FastSync_proofs` | inductive invariant of the fast-sync pipeline; `HeaderRunsContiguous`, `CommitMatchesStateRoot` | TLAPS |
| `SyncModes_proofs` | the text round trip for every mode | TLAPS |
| `FastSync` | one fast sync after the ancestor search: all five tasks and `spawnSync` | composition of components |
| `MC_FastSync` | remote chains: valid, bad at 6, bad at 8 | TLC instance |
| `SyncModes` | `modes.go`: the modes, `IsValid`, `String`, `MarshalText`, `UnmarshalText` | component (pure) |
| `AncestorSearch` | `calculateRequestSpan`, `findAncestor`: one search, honest or lying peer | component |
| `AncestorSpec` | what `findAncestor` promises `syncWithPeer` | abstract specification |
| `MC_AncestorSearch` | chains up to 28, the mode texts | TLC instance |
| `AncestorSearch_proofs` | `AncestorSearch` implements `AncestorSpec`; type correctness | TLAPS |
| `AncestorHonest_proofs` | `HonestAncestor` for every value of the constants | TLAPS |
| `QoS` | `qosTuner`, `qosReduceConfidence`, `RegisterPeer`, `UnregisterPeer`, `requestRTT`, `requestTTL` | component |
| `QoSSpec` | the estimator with atomic updates, as specification section 4.1 describes it | abstract specification |
| `MC_QoS` | three peers as model values, two medians | TLC instance |
| `QoS_proofs` | bounds of `requestTTL` and `requestRTT`; type correctness | TLAPS |

### DownloaderSync

**State.**

- `synchronising` is `d.synchronising`.
- `cancelGen` is the generation of `d.cancelCh`, with 0 for nil. `closed`
  holds the closed generations.
- `cancelPeer` is `d.cancelPeer` and `registered` is the peer set.
- Each caller has a program counter `pc`, a peer `syncPeer`, a generation
  `gen`, a request `round` and a pending error `err`.
- `requests` holds the requests a peer has not yet answered.
- `headerCh` is a FIFO of capacity `HeaderChCap`.
- `delivering` holds the `deliver` calls that are past the read of `cancelCh`.
- `dropped` holds the peers passed to `dropPeer`.

**Actions.**

| Action | Code |
|---|---|
| `SynchroniseStart` | the CAS and the guard's early returns |
| `ArmCancel` | lines 411-426 |
| `RequestHeaders` | one header request made by a sync |
| `ReceiveHeaders`, `HeaderTimeout`, `SyncCanceled` | the three cases of `fetchHead`'s select, including the peer-id filter; the packet checks at 661-684 (count, checkpoint, pivot number) are left out, and every master-peer packet is accepted |
| `DeferredCancel` | `defer d.cancel()` |
| `ReleaseGuard` | the deferred store of 0, and `dropPeer` for faults in `Synchronise` |
| `Cancel` | the external cancel |
| `DeliverRead`, `DeliverSend` | the two halves of `deliver` |

A packet carries the generation and the round of the request it answers as a
ghost, so that a trace shows which request a packet answers. The code keeps
only the peer id. A late answer to an earlier sync's request can therefore be
taken by the next sync with the same peer (hazard at line 1942). No property
states otherwise: specification section 9 accepts matching replies by peer id
and order, and calls request ids an optional extra.

### FastSync

**Data abstraction.** A header, a block and a result are all their height.
The remote chain is `1..remoteHead`. It may grow up to `MaxHeight`. The
headers in `BadHeaders` fail verification. The chain store is its three heads:
`headerHead` (`CurrentHeader`), `fastHead` (`CurrentFastBlock`) and
`blockHead` (`CurrentBlock`). `executed` is the set of blocks imported with
execution, and `fastInserted` the set of blocks inserted receipts-only.

**Fetcher.**

- `FetchSkeleton` is `getHeaders` in skeleton mode followed by the fill.
- `FetchPivotProbe` is the pivoting branch.
- `FetchContiguous` is the non-skeleton batch. It includes the empty-answer
  end and reorg protection (`LocalHead`, holding back `ReorgProtHeaderDelay`
  headers).
- `FetchTimeout` and `FetchCanceled`.

**Processor.**

- `ProcRecv` is the receive. It includes the stall checks (`Stalling`) and
  the success return on a nil packet.
- `ProcInsert` inserts one chunk. It includes the `rollback` update and the
  failure path.
- `ProcSchedule` is the backpressure wait followed by `queue.Schedule`.
- `ProcCanceled`.
- Every return runs the deferred `SetHead(rollback-1)` (`ProcReturn`).

**Bodies and receipts.** `PartsDeliver` completes scheduled results.
`PartsReturn` is the return of `fetchParts` on `d.cancelCh`, or when nothing
is pending or in flight after the wake with `false` (1415-1421). The rest of
the `update` case is not modelled: the ticker, `errNoPeers`, request expiry
and peer drops (1375-1414).

**Abstractions that over-approximate.**

- `FetchSkeleton` delivers the skeleton fill as one run.
- `FetchSkeleton` allows the pivot probe after every skeleton batch. The code
  probes only when the fill left a remainder (1138-1151).
- `Stop` is the effect of the `sync.Cancel()` calls of
  `processFastSyncContent` (the deferred one at 1715-1720, and those before
  a restart or a return) on the session.

**Content.**

- `ContentLoop` is a `Results` call followed by one iteration
  (`ContentIterate`): restart, stale-pivot move, split, commit of the
  receipts, then the wait state or block import.
- `PivotCommit`, `PivotStateFailed` and `PivotWaitTimeout` are the three
  cases of the select on `sync.done`.

**State sync.** The sessions are `StateSyncDone`, `StateSyncFail` (with
`closeOnErr`) and `StateSyncCanceled`.

**Join.** `SpawnCollect` is `spawnSync`'s loop and its ending. `errc` is a
FIFO of the tasks that returned.

**Environment.** `RemoteGrow` lets the remote chain grow.

Every return of a task sends on `errc` (`Return`). `spawnSync` receives in
order, closes the queue before the last receive, stops at the first real
error, and then runs `Close` and `Cancel`. After that, every task sees
`cancelled`.


### SyncModes

`FullSync`, `FastSync` and `LightSync` are 0, 1 and 2, as the `iota`
constants of `modes.go`. `IsValid` is `mode >= FullSync && mode <= LightSync`.
`ModeString` is `String`, with `"unknown"` for other modes. `MarshalText` gives
the name, or no text and an error for a mode that is not valid.
`UnmarshalText` gives the mode of `"full"`, `"fast"` or `"light"`, and
otherwise an error with `*mode` unchanged. A text is a string. Only the four
texts of the run are ever parsed, so no text is built character by character.

### AncestorSearch

**Data abstraction.** A header is its height. The remote chain is
`0..remoteHeight`. The local store holds genesis and the remote headers
`lowest..anc`, where `anc` is the highest block both chains have. The light
client's checkpoint sync is why `lowest` can be above 1. Blocks of the local
chain above `anc` are on a fork and not on the remote chain.

**State.**

- The inputs are `mode` (parsed from a text with `UnmarshalText`),
  `remoteHeight`, `localHeight`, `lowest` and `anc`.
- `span` is `<<from, count, skip, max>>` from `calculateRequestSpan`.
- `floor` comes from the immutability threshold, or from the light client's
  genesis walk.
- `phase`, `start`, `end` and `check` are the binary search.
- `result` and `err` are the return values.

**Actions.**

| Action | Code |
|---|---|
| `Init` | `findAncestor` up to the span request: the local height per mode, the floor, the request span |
| `SpanAnswer` | the span probe's answer: the empty, count, ordering and known-header checks, the floor check (874), or the start of the binary search |
| `SearchStep`, `SearchAnswer` | one step of the binary search: the request of `check`, and the single-header, number and known checks of its answer |
| `SearchDone` | the loop's end and the final floor check |
| `Timeout`, `Canceled` | the timeout and cancel cases of both selects |

An honest peer answers with its own chain. A lying peer (`PeerLies`) may
answer any prefix of the request, in or out of order, and may claim any
height the local store holds. Go's truncated division of a negative span
is `GoDiv`.

`AncestorSpec` states the contract. `findAncestor` returns once, with an
error, or with a height above the floor that the peer claims and the local
store holds. The refinement mapping sends the abstract `claimable` to the
common blocks (`Known`) for an honest peer, and to the locally held blocks
(`LocalHas`) for a lying one. It sends `lowBound` to `floor` and `done` to
`phase = "done"`.

### QoS

**Units.** Durations are in units of 10 ms: `rttMinEstimate` is 200,
`rttMaxEstimate` is 2000 and `ttlLimit` is 6000. The confidence is in
millionths, as in the code: 1 is `1000000` and `rttMinConfidence` is
`100000`. The float arithmetic of the code is integer division in the model.
`peers.medianRTT` (`peer.go`, not under `src/`) returns any value of the
constant set `Medians`. The specification bounds it by
`[rttMinEstimate, rttMaxEstimate]`.

**State.**

- `rttEstimate` and `rttConfidence` are the two atomics.
- `tuner` is the tuner loop's place, and `tunerConf` is its local `conf`.
- `registered` is the peer set.
- `reg`, `regN` and `regConf` are each peer goroutine's place in
  `qosReduceConfidence`, its `peers` and its `conf`.
- `ticks` and `regs` count tuner iterations and `RegisterPeer` calls, bounded
  by `MaxTicks` and `MaxRegs`.

**Actions.** Every atomic load or store of the code is a step of its own.

| Action | Code |
|---|---|
| `TunerRTT` | 1961-1962: the smoothed estimate and its store. Only the tuner writes it. |
| `TunerConfLoad`, `TunerConfStore` | 1965 and 1966-1967 |
| `TunerSleep`, `TunerQuit` | the select of 1971-1975: `time.After`, or `d.quitCh` closed by `Terminate` |
| `RegisterPeer` | `d.peers.Register` (302) |
| `ReduceLen` | 1983-1995: `peers.Len()` and its three early returns |
| `ReduceReset` | 1988-1990 |
| `ReduceLoad`, `ReduceStore` | 1997-2000 (with the floor) and 2001 |
| `UnregisterPeer` | `d.peers.Unregister`, at any time, even while the peer's `RegisterPeer` is still reducing |

`RequestRTT` and `RequestTTL` are the two derived values. `QoSSpec` is the
estimator as specification section 4.1 describes it, with each update
applied atomically to the current confidence. `QoS` refines it only if no
update is lost (finding 6).

## 3. Runs

Run every configuration with `tlc -workers 2 -config <cfg> <MC module>`.

### DownloaderSync runs

| Run | Cfg | Instance | Checks | Result |
|---|---|---|---|---|
| sync_safety | `DownloaderSync_safety.cfg` | callers `{c1,c2}`, peers `{p1,p2}`, `MaxSyncs = 2`, `MaxRounds = 2`, `HeaderChCap = 1` | `TypeOK`, `CancelClosedWhenIdle`, `ActiveSyncOwnsChannel`, `DeliverTerminates`, `ReplacedChannelClosed` | pass, 109 k distinct states, 1 min |

Two sessions are enough for both callers to race on the CAS, and for a
delivery read under the first session to be sent during the second.
Two rounds make a request/response pair follow another one within one sync.
`HeaderChCap = 1` is the code's value. The proofs cover every number of sessions.

### FastSync runs

Instance for the `FastSync` runs:

- `Origin = 0`, `InitHead = 5`;
- `FsMinFullBlocks = 2`, `ReorgProtHeaderDelay = 1`,
  `ReorgProtThreshold = 1`, `PivotConfirmGap = 1`, `FsHeaderSafetyNet = 3`;
- batches of 2 (`MaxHeaderFetch`), a skeleton of 2 slots, chunks of 2;
- `MaxQueuedHeaders = 4`, `MaxResultsProcess = 3`.

These values keep the code's order relations:

- the pivot lies inside the chain;
- reorg protection holds back at least one header;
- the skeleton covers part of the chain;
- a probe can land above the batch boundary;
- the safety net can be smaller than the rollback distance.

The remote head grows from 5 up to 7 or 8. Height 8 is needed for a second
contiguous batch after reorg protection: the `FetchContiguousAdvanceAll`
mutant survives at 7. Every run ends in a state where the sync has returned,
which is a real stop, so the cfgs set `CHECK_DEADLOCK FALSE`.

| Run | Cfg | Checks | Result |
|---|---|---|---|
| fast_safety | `FastSync_safety.cfg` | `TypeOK`, `HeaderRunsContiguous`, `NoExecBeforeCommit`, `CommitMatchesStateRoot` | pass, 11 M distinct states, about 1 min; growing chain to 8, bad header 8, state sync failures, header timeouts |
| fast_static | `FastSync_static.cfg` | `HonestPeerNotBlamed`, `Termination` | pass, 872 states; valid chain of 7 that does not grow, no timeouts, no state sync failure |
| fast_probe_race | `FastSync_probe_race.cfg` | `HonestPivotProbe` | violation (finding 1) |
| fast_pending_gap | `FastSync_pending_gap.cfg` | `PendingResultsContiguous` | violation (finding 2) |
| fast_rollback | `FastSync_rollback.cfg` | `RollbackKeepsCommittedPivot` | violation (finding 3) |
| fast_commit_move | `FastSync_commit_move.cfg` | `FullModeAfterCommit` | violation (finding 4) |
| fast_hang | `FastSync_hang.cfg` | `Termination` | violation (finding 5) |

`HonestPeerNotBlamed` is checked on a chain that does not grow. On a growing
chain, the content processor moves the pivot, and the pivot-probe race of
finding 1 blames an honest peer with `errInvalidChain`. TLC finds that in 20
steps with `InitHead = 5` and `MaxHeight = 7`. A timed-out peer is blamed
(`errBadPeer`) by design, so timeouts are off too. `Termination` is checked on
the same instance, where neither blame ends the sync early.

### AncestorSearch runs

| Run | Cfg | Checks | Result |
|---|---|---|---|
| ancestor_honest | `AncestorSearch_honest.cfg` | `TypeOK`, `HonestAncestor`, `ModeTextRoundTrip`, `Termination` | pass, 1.9 M distinct states, 40 s |
| ancestor_lying | `AncestorSearch_lying.cfg` | `ImplementsAncestorSpec` | pass, 7.2 M distinct states, 30 s |

The instance has the following:

- every local and remote height up to 28;
- every `lowest` and `anc`;
- the three modes, parsed from the texts `"full"`, `"fast"` and `"light"`,
  and from one text the parser rejects;
- `MaxHeaderFetch = 192` as in the code, so that the span probe uses strides
  above 2;
- immutability thresholds of 20 and 10 (90000 and 30000 in the code), so
  that the floor lies inside the chains.

Heights up to 28 give a probe of up to 12 headers and binary searches of
several steps. The lying run uses the same instance with `PeerLies = TRUE`.
There the peer may claim any locally held header, answer with any prefix of
the request, break the ordering, or answer a search step with several
headers or the wrong number. Only there does the refinement say more than
`HonestAncestor`: the liar can keep every check "unknown" and drive the
search down to the floor, and only the floor check after the search keeps
the floor from being returned. The `Refinement` theorem covers every
height.

### QoS runs

| Run | Cfg | Checks | Result |
|---|---|---|---|
| qos_safety | `QoS_safety.cfg` | `TypeOK`, `QoSBounds` | pass, 7.4 M distinct states, 50 s |
| qos_atomic | `QoS_atomic.cfg` | `ImplementsQoSSpec` | violation (finding 6) |

The instance has the following:

- three peers with symmetry;
- the medians 2 s and 20 s, the extremes;
- `QosConfidenceCap = 3`, so that with three peers a registration sees one
  peer (reset), two (reduce) or three (at the cap);
- `MaxTicks = 1` (two tuner iterations) and `MaxRegs = 5`.

Five registrations are the fewest that reach the floor at `rttMinConfidence`
without a tuner raise in between: a reset, then four halvings
1 → 0.5 → 0.25 → 0.125 → below 0.1. The `ReduceLoadNoFloor` mutant shows the
floor is reached. Termination of the tuner and the bound on registrations are
real stops, so the cfgs set `CHECK_DEADLOCK FALSE`.

### What the passing properties say

- **`ActiveSyncOwnsChannel`.** A running sync always owns the current cancel
  channel, and no other sync shares it.
- **`CancelClosedWhenIdle`.** When no sync runs, the current cancel channel
  is nil or closed. A delivery therefore never blocks on a channel nobody
  reads.
- **`ReplacedChannelClosed`** (action property). Every step that installs
  a new cancel channel is taken under the guard and replaces a nil or
  closed channel. This is what Go's last-in-first-out defers buy:
  `d.Cancel` (deferred at line 416) runs before the store that frees
  `d.synchronising` (deferred at 372).
- **`DeliverTerminates`.** Every `deliver` past its read of `cancelCh`
  eventually returns.
- **`HeaderRunsContiguous`.** Each header run the fetcher sends starts right
  after the processor's last header.
- **`NoExecBeforeCommit`.** No block above the pivot is executed before a
  pivot commit.
- **`CommitMatchesStateRoot`.** The pivot is committed only on the state of
  its own root.
- **`HonestPeerNotBlamed`.** A sync on a valid chain that does not grow never
  blames the peer.
- **`Termination`** (`FastSync`). `spawnSync` and all its tasks return.
- **`HonestAncestor`.** With an honest peer, `findAncestor` fails only by
  timeout, cancel or `errInvalidAncestor`. A returned block is common,
  above the floor, and at most one span stride below the highest common
  block. An honest peer is rejected only when the highest common block is
  at most one stride above the floor: the span probe samples the chain and
  can miss common blocks in that gap (hazard at line 874).
- **`ModeTextRoundTrip`.** `MarshalText` succeeds exactly for valid modes,
  writes `String`'s text, and `UnmarshalText` restores the mode. This is
  checked on modes 0-3 and 2^31-1.
- **`Termination`** (`AncestorSearch`). Every search returns.
- **`ImplementsAncestorSpec`** (lying peer). The search implements
  `AncestorSpec`: it returns an error or a locally held block above the
  floor, whatever the peer answers.
- **`TypeOK`** (`QoS`). The estimate stays in [2 s, 20 s] and the
  confidence in [0.1, 1], whatever stale values the goroutines store.
- **`QoSBounds`.** `requestTTL` stays in [6 s, 1 min] and `requestRTT` below
  it.

Each property of a passing run has a mutant in `PROJECT.json`. The mutant is a
plausible bug in the code it models, and TLC finds the property violated under
that run's cfg.

## 4. Fairness

`FastSync` assumes weak fairness on:

- the fetcher, the processor and the content processor, which are goroutines
  that run when they are enabled;
- part delivery and the return of `fetchParts`, because the peers serve what
  is asked;
- state sync completion and its cancellation;
- `spawnSync`.

Nothing forces the remote chain to grow, a state sync to fail or a header
request to time out.

In `DownloaderSync`, the steps of a started sync (`SyncStep`) and the blocked
send of a `deliver` call are weakly fair: they are goroutines the Go runtime
runs. The callers of `Synchronise`, the peers (registration and answers) and
`Cancel` are the environment and are not forced. A peer that does not answer
is covered by the request timeout.

`AncestorSearch` assumes weak fairness on:

- the search goroutine's own steps (`SearchStep`, `SearchDone`);
- the end of each wait: the peer answers, or the `requestTTL()` timer fires.
  The timer always fires, so a wait cannot last forever.

`QoS` has no fairness: its properties are safety properties.

## 5. Findings

1. **The pivot probe race.** The probe is requested from the pivot read at
   1003-1005. The answer is checked against the pivot re-read at 1032-1036. The content
   processor can move the pivot in between (1782-1788). The check then
   rejects an honest peer with `errInvalidChain`.
2. **A gap after a pending pivot.** A pending pivot (`oldPivot`) is kept
   across iterations. When a later batch does not contain the current pivot,
   it is committed past the pending one and not kept in `oldTail` (1799). The
   next batch, `[oldPivot, gap...]`, is then rejected by
   `InsertReceiptChain`.
3. **Rollback below the committed pivot (spec §7).** The deferred
   `SetHead(rollback-1)` (1489-1499) can rewind below the committed pivot
   when a header fails after the commit.
4. **The pivot moves after the commit.** `getNextPivot` (1149) does not check
   `d.committed`. After the commit, blocks are again inserted receipts-only,
   although the spec says the commit switches to full mode.
5. **The sync hangs after a state sync failure.** A failed state sync session
   closes the queue (`closeOnErr`, 1725). The content processor restarts a
   session, commits and returns nil. Meanwhile the header fetcher, holding
   back headers under reorg protection, waits forever, and so does
   `spawnSync`.
6. **Lost confidence updates (spec §4.1).**
   - `qosTuner` loads `d.rttConfidence` (1965) and stores the raised value
     (1967). `qosReduceConfidence` likewise loads (1997) and stores (2001).
     Each is a separate atomic operation.
   - A registration's reset to 1 (1989) or reduction between the tuner's
     load and store is overwritten. TLC shows 0.5 loaded, 1 stored by a
     registration, and then 0.75 stored by the tuner. No sequence of the
     atomic updates of section 4.1 produces that.
   - The bounds still hold (`TypeOK`, `QoSBounds`, and the theorem
     `TTLBounded`), because every stored value is computed from a value in
     range.

## 6. Proofs

Run `tlapm <module>.tla` for each proof module. Each is checked to the last
leaf, for every value of the constants that satisfies the module's
`Assumptions`.

**`DownloaderSync_proofs`.** For every set of callers and peers and every
bound:

- `TypeCorrect`: `Spec => []TypeOK`;
- `SessionSafety`: `Spec => []CancelClosedWhenIdle`;
- `ChannelOwnership`: `Spec => []ActiveSyncOwnsChannel`;
- `ChannelReplacement`: `Spec => ReplacedChannelClosed`, the action
  property.

The two invariants are not inductive on their own. `ActiveSyncOwnsChannel`
can be broken by a step from a state in which two callers are past the CAS,
or in which a caller holds a generation that was already closed, and such
states are unreachable. The strengthening `IInv` adds the following:

- `GuardHeld`: the flag is set exactly when some caller is inside
  `synchronise`;
- `OneSync`: at most one caller is inside `synchronise`;
- `InSyncPeer`: a caller inside `synchronise` names a real peer;
- `ArmState`: between the CAS and making its channel, a caller has issued no
  request and a channel generation is still free;
- `RequestState`: a sync about to request has requests left;
- `OwnedGen`: a sync that has made its channel refers to an existing one;
- `ReleaseClosed`: a sync that has run its deferred cancel has closed the
  current channel.

The proof has these parts:

- `InitIInv` shows that the initial states satisfy `IInv`.
- There is one lemma per action. Each shows that the action preserves `IInv`,
  with one step per conjunct the action can disturb.
- `NextIInv` combines the action lemmas.
- `IInvHolds` is `Spec => []IInv`, proved by PTL.
- The theorems follow from it.

`ChannelReplacement` needs one more invariant, `ArmClosed`: a caller
between the CAS and making its channel sees `d.cancelCh` nil or closed.
`SynchroniseStart` establishes it, because the CAS succeeds only on a free
guard, and `CancelClosedWhenIdle` ties a free guard to a nil or closed
channel. Closed channels stay closed, and `OneSync` keeps every other
caller from changing `cancelGen` meanwhile (`NextArmClosed`). The only step
that changes `cancelGen` is that caller's `ArmCancel` (`ReplaceStep`).
`GuardHeld` shows the guard is held during it, and `ArmClosed` shows the
replaced channel is nil or closed. PTL combines `[](IInv /\ ArmClosed)`
with this step lemma into the `[][...]_vars` form.

`AncestorSearch_proofs` and `QoS_proofs` also prove `TypeCorrect`:
`Spec => []TypeOK`.

- In `AncestorSearch`, the hard part is `calculateRequestSpan`
  (`SpanType`). Go's truncated division (`GoDiv`) and the clamps keep
  `from`, the stride and the count in range. This holds at local height 0,
  where `localHeight - 1` is -1, and when the remote is shorter than the
  local chain. `FloorRange` shows the floor stays in -1..`MaxHeight`.
- In `QoS`, `TypeCorrect` follows from the same `IInv` as `TTLBounded`.
  That `IInv` bounds the tick and registration counters by their
  constants.

**`FastSync_proofs`.** For every remote chain, bad-header set and bound:

- `HeadersContiguous`: `Spec => []HeaderRunsContiguous`;
- `CommitOnSyncedRoot`: `Spec => []CommitMatchesStateRoot`;
- `IInvHolds`: `Spec => []IInv`.

The inductive invariant `IInv` has these conjuncts:

- `Shape`: the field types the arithmetic needs, and `headerProcCh`
  holding at most one run.
- `HandOff`: the header fetcher's `from` and the processor's expected next
  number agree. The expected number is `pRun.hi + 1`, or the origin before
  the first run. When a run is in flight on `headerProcCh`, it starts at the
  expected number and ends just below `from`. Otherwise `from` is the
  expected number.
- `ChunkInRun`: a pending chunk start lies inside the current run.
- `PendingRoot`: while a pivot commit waits for its state sync, and
  whenever an old pivot is pending, the session's `stateRoot` is that
  pivot.
- `CommitMatchesStateRoot` itself.

`HeaderRunsContiguous` holds only while the processor runs, so it is not
inductive. `HandOff` is the form that is inductive: it holds in every
state, before the processor starts and after it ends. The fetcher's steps
(skeleton fill, pivot probe, contiguous fetch, timeout, cancel) keep it
because each advances `from` by exactly the run it sends (`SendRunIInv`).
A nil packet leaves the expected number alone (`SendNilIInv`).
`ProcRecvIInv` takes the run off the channel; it uses `SequenceTheorems`
for `Head`/`Tail` of a one-element sequence.

`CommitMatchesStateRoot` needs `PendingRoot`. The hard step is one turn
of the content processor's loop (`ContentIterateRoot`). The pivot the loop
starts to wait for is one of three:

- a pivot that differs from the one held, in which case the session
  restarts on it;
- the held pivot, whose session already runs on it;
- with no pivot held, the current pivot. The session was switched to its
  root at the top of the loop.

When the current pivot is stale, it moves to the number of a result of the
batch. That number is at least 1, so it is never confused with "no pivot
pending" (0). `PivotCommitIInv` then commits exactly the root the session
synced.

TLC checked `IInv` as an invariant of the `fast_safety` instance
(11 million distinct states) before it was proved.

**`SyncModes_proofs`.** `RoundTripAllModes` states, for every natural
number `m` (so for every uint32 mode), what `ModeTextRoundTrip` checks on
five modes. `MarshalText` succeeds exactly when `IsValid(m)`, writes
`String`'s text, and `UnmarshalText` of that text restores `m` whatever
the destination held. `ModeTextAgreement` derives the checked five-mode
property from it. The `CASE` expressions are unfolded with Zenon, one
lemma per conversion (`MarshalCases`, `StringCases`, `UnmarshalCases`),
because the SMT back-end does not translate `CASE` over records.

**`AncestorSearch_proofs`.** `Refinement`: `Spec => ImplementsAncestorSpec`,
for every height, threshold, mode and an honest or a lying peer.

- The search's inputs never change, so `Claimable` and the floor are fixed
  (`ClaimableFixed`).
- The answers the peer can give have the fields of the right types, and a
  known top is claimable (`SpanAnswersType`, `SearchAnswersType`).
- The invariant `StartBound` holds: while the binary search runs, `start` is
  claimable or at most the floor. Its first value is 0, or the floor when
  the floor is above 0, and it moves only to a check the peer answered as
  known.
- Then every step that returns (`Finish`) returns a claimable height above
  the floor or an error. This is a `Locate` step (`FinishRefines`). Every
  other step leaves the abstract variables unchanged (`StutterRefines`).

**`AncestorHonest_proofs`.** `HonestAncestorHolds`:
`Spec => []HonestAncestor`, for every chain height bound, fetch limit,
immutability threshold, mode and light-client checkpoint. With a lying
peer the property says nothing, and every step keeps it.

The argument has three parts:

- The common blocks above the floor form an interval. They run up to the
  highest one, `TopVal` (`anc`, or 0 when the local store lacks `anc`'s
  range). This interval is `IntervalAboveFloor`. In light mode the floor
  is at least `lowest - 1`, because the walk for `d.genesis` stops at the
  lowest stored header at the latest (`FloorAboveGap`). So the headers
  missing below a checkpoint lie at or below the floor.
- `calculateRequestSpan` asks for a grid of step `skip + 1` from `from`.
  The grid starts at or below `remoteHeight - 1` and reaches at least that
  height (`SpanGrid`, `RequestedGrid`). Below any height in that range lies
  a grid point within `skip` (`GridBelow`). So the walk's header `t`, the
  highest requested header that is known, is within `skip` of `TopVal`
  when `t` is above the floor. When it is not, `TopVal` is within `skip` of
  the floor (`SpanTop`): a grid point above the floor and at most `TopVal`
  would be a known requested header above `t`. An honest answer is never
  empty (`HonestCountPos`).
- The binary search keeps the invariant `SearchInv`:
  - `start` is its first value, or a common block above the floor;
  - `TopVal < end`;
  - a pending check lies strictly between them.

  An unknown check lies above the floor, so it lies above `TopVal`
  (otherwise the interval would make it known), and it may become `end`.
  When the loop stops, `TopVal <= start`. So `start` is rejected only with
  `TopVal` at or below the floor, and is otherwise a common block, hence
  `TopVal` itself.

The inductive invariant `HInv` also records that the inputs keep their
initial values (`InputsFixed`). TLC checked `HInv` on the honest instance,
and on one with `MaxHeight = 40` (5.6 million distinct states), before it
was proved.

**`QoS_proofs`.** `TTLBounded`: `Spec => []QoSBounds`, for any peers, medians
in [2 s, 20 s] and confidence cap, under every interleaving.

- `QoSBounds` is not inductive, because a goroutine may store a value it
  loaded before other stores.
- The invariant `IInv` therefore also bounds the goroutines' local copies.
  The tuner's `conf` and a registration's `conf`, once computed, lie in
  [0.1, 1], and a registration about to load has 2 ≤ `peers` < cap.
- The arithmetic lemmas show that each update stays in range.
  `SmoothBounds` covers the weighted mean. `RaiseBounds` covers raising
  half-way to 1. `ReduceBounds` covers scaling by (n-1)/n with the floor.
  `DivideConf` shows that dividing by a confidence at most 1 does not shorten
  the estimate.
- The SMT back-end overflows on intervals with literal bounds of a million.
  The constants are therefore used through `ConstFacts`.

TLC checked each strengthening as an invariant before it was proved.

These stay with TLC:

- liveness (`DeliverTerminates`, both `Termination`s), because the proof
  system does not reason about `ENABLED` and fairness;
- `NoExecBeforeCommit` and `FastSync`'s `TypeOK`. The content processor
  splits a batch around the pivot with `SelectSeq`, and what `SelectSeq`
  keeps is a fact about a recursive definition for every input. That is
  induction over data, which the library offers only through an operator
  parameter that none of the installed provers can instantiate.
- `HonestPeerNotBlamed`, whose statement ranges over the whole error
  pipeline of a valid chain; it is checked on the bounded chains.

## 7. Not modelled

- `processFullSyncContent`: the import loop is the same step as the
  fast-sync content processor's block import.
- Request expiry and peer dropping in `fetchParts`: they need a peer set
  with several peers.
- The `d.genesis` cache of the light client's floor across several searches.
- The read-only accessors (`Progress`, `Synchronising`, `getMode`).
- The `QoS` model's `peers.medianRTT` is a nondeterministic choice from
  `Medians`. The peer set's RTT tracking is in `peer.go`, outside `src/`.
