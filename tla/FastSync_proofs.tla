---------------------------- MODULE FastSync_proofs ----------------------------
(***************************************************************************)
(* Proofs about one fast-sync session (FastSync), for every value of the  *)
(* constants: chain lengths, batch sizes, thresholds and fault switches.   *)
(*                                                                         *)
(* Header hand-off.  fetchHeaders and processHeaders agree on heights: the *)
(* fetcher's from is always the height after the last header it sent, and *)
(* the processor's next expected height (processHeaders' origin, or the    *)
(* height after the run it is chunking) equals from whenever headerProcCh  *)
(* is empty or holds the nil run.  A run the fetcher sends therefore       *)
(* starts where the processor expects it.                                  *)
(*                                                                         *)
(* Pivot commit.  processFastSyncContent holds a pending pivot (oldPivot)  *)
(* only while its state sync session runs on that pivot's root, and waits  *)
(* for the session only on the pending pivot, so FastSyncCommitHead always *)
(* commits the pivot with the root the session synced.                     *)
(***************************************************************************)
EXTENDS FastSync, Integers, SequenceTheorems, TLAPS

\* The height processHeaders expects next: its origin between runs, the
\* height after the run while it chunks one.
Expected == IF IsNil(pRun) THEN pOrigin ELSE pRun.hi + 1

\* The header hand-off invariant.
HandOff ==
    IF headerProcCh = <<>> \/ IsNil(Head(headerProcCh))
       THEN Expected = from
       ELSE /\ Head(headerProcCh).lo = Expected
            /\ Head(headerProcCh).hi + 1 = from

\* A chunk inserted and not yet scheduled lies within the run.
ChunkInRun == pChunk # 0 => pRun.lo <= pChunk /\ pChunk <= pRun.hi

\* The pending pivot's session runs on the pivot's root.
PendingRoot ==
    /\ cState = "wait" => stateRoot = oldPivot
    /\ oldPivot # 0 => stateRoot = oldPivot

\* The runs on headerProcCh, and the one being processed.
Runs == [lo : Int, hi : Int]

\* The shape of the variables the two invariants read.
Shape ==
    /\ remoteHead \in Nat /\ from \in Int
    /\ pOrigin \in Int /\ pChunk \in Int
    /\ pRun \in Runs
    /\ headerProcCh \in Seq(Runs) /\ Len(headerProcCh) <= 1
    /\ resultsTo \in Nat /\ completeTo \in Int

\* The inductive invariant.
IInv ==
    /\ Shape
    /\ HandOff /\ ChunkInRun
    /\ PendingRoot /\ CommitMatchesStateRoot

-----------------------------------------------------------------------------
(* Lemmas.                                                                 *)

\* Span(lo, hi) is the sequence lo, lo+1, ..., hi of integers.
LEMMA SpanFacts ==
    ASSUME NEW lo \in Int, NEW hi \in Int
    PROVE  /\ Span(lo, hi) \in Seq(Int)
           /\ Len(Span(lo, hi)) = IF hi < lo THEN 0 ELSE hi - lo + 1
           /\ \A i \in 1..Len(Span(lo, hi)) : Span(lo, hi)[i] = lo + i - 1
<1> DEFINE n == IF hi < lo THEN 0 ELSE hi - lo + 1
<1>1. n \in Nat
    OBVIOUS
<1>2. Span(lo, hi) = [i \in 1..n |-> lo + i - 1]
    BY DEF Span
<1>3. Span(lo, hi) \in [1..n -> Int]
    BY <1>2
<1> HIDE DEF n
<1>4. Span(lo, hi) \in Seq(Int)
    BY <1>1, <1>3
<1>5. Len(Span(lo, hi)) = n
    BY <1>1, <1>3, <1>4
<1>6. QED
    BY <1>2, <1>4, <1>5 DEF n

\* The height the content processor starts from is a natural number.
LEMMA SyncOriginNat == SyncOrigin \in Nat
BY Assumptions DEF SyncOrigin, InitPivot

LEMMA InitIInv == Init => IInv
<1> SUFFICES ASSUME Init PROVE IInv
    OBVIOUS
<1>1. SyncOrigin \in Nat
    BY SyncOriginNat
<1>2. Expected = from
    BY <1>1 DEF Init, Expected, IsNil, NilRun, Run
<1>3. QED
    BY <1>1, <1>2, Assumptions
       DEF Init, IInv, Shape, Runs, HandOff, ChunkInRun, PendingRoot,
           CommitMatchesStateRoot, NilRun, Run

\* A step that leaves the hand-off and the pending pivot alone keeps the
\* invariant.
LEMMA FrameIInv ==
    ASSUME IInv,
           UNCHANGED <<from, headerProcCh, pRun, pOrigin, pChunk>>,
           UNCHANGED <<resultsTo, oldPivot, stateRoot, cState, commitLog>>,
           remoteHead' \in Nat, completeTo' \in Int
    PROVE  IInv'
BY DEF IInv, Shape, Runs, HandOff, Expected, ChunkInRun, PendingRoot,
       CommitMatchesStateRoot, IsNil

\* The fetcher sends a run to the processor through the empty channel.
LEMMA SendRunIInv ==
    ASSUME IInv, headerProcCh = <<>>,
           NEW lo \in Int, NEW hi \in Int, lo = from,
           headerProcCh' = <<Run(lo, hi)>>,
           from' = IF hi < lo THEN from ELSE hi + 1,
           UNCHANGED <<pRun, pOrigin, pChunk>>,
           UNCHANGED <<resultsTo, oldPivot, stateRoot, cState, commitLog>>,
           remoteHead' \in Nat, completeTo' \in Int
    PROVE  IInv'
<1>1. Expected = from
    BY DEF IInv, HandOff
<1>2. Expected' = Expected
    BY DEF Expected
<1>3. headerProcCh' \in Seq(Runs) /\ Len(headerProcCh') = 1
      /\ Head(headerProcCh') = [lo |-> lo, hi |-> hi]
    BY DEF Run, Runs
<1>4. HandOff'
    BY <1>1, <1>2, <1>3 DEF HandOff, IsNil
<1>5. QED
    BY <1>3, <1>4 DEF IInv, Shape, Runs, ChunkInRun, PendingRoot,
       CommitMatchesStateRoot

LEMMA FetchSkeletonIInv ==
    ASSUME IInv, FetchSkeleton
    PROVE  IInv'
<1>1. CASE SkeletonSlots = 0
    <2>1. /\ UNCHANGED <<from, headerProcCh, pRun, pOrigin, pChunk>>
          /\ UNCHANGED <<resultsTo, oldPivot, stateRoot, cState, commitLog>>
          /\ UNCHANGED <<remoteHead, completeTo>>
        BY <1>1 DEF FetchSkeleton, procVars, queueVars, contentVars, logVars
    <2>2. QED
        BY <2>1, FrameIInv DEF IInv, Shape, Runs
<1>2. CASE SkeletonSlots # 0
    <2> DEFINE last == from + SkeletonSlots * MaxHeaderFetch - 1
    <2>1. /\ headerProcCh = <<>>
          /\ headerProcCh' = <<Run(from, last)>>
          /\ from' = last + 1
          /\ UNCHANGED <<pRun, pOrigin, pChunk>>
          /\ UNCHANGED <<resultsTo, oldPivot, stateRoot, cState, commitLog>>
          /\ UNCHANGED <<remoteHead, completeTo>>
        BY <1>2 DEF FetchSkeleton, IInv, Shape, procVars, queueVars,
                    contentVars, logVars
    <2>2. SkeletonSlots \in Nat \ {0}
        <3>1. remoteHead + 1 >= from + MaxHeaderFetch
            BY <1>2, Assumptions DEF SkeletonSlots, IInv, Shape
        <3>2. (remoteHead + 1 - from) \div MaxHeaderFetch \in Nat \ {0}
            BY <3>1, Assumptions DEF IInv, Shape, Runs
        <3>3. QED
            BY <1>2, <3>2, Assumptions DEF SkeletonSlots, MinOf
    <2>3. last \in Int /\ ~(last < from)
        <3>1. SkeletonSlots * MaxHeaderFetch \in Nat \ {0}
            BY <2>2, Assumptions
        <3>2. QED
            BY <3>1 DEF IInv, Shape, Runs
    <2> HIDE DEF last
    <2>4. QED
        BY <2>1, <2>3, SendRunIInv DEF IInv, Shape, Runs
<1>3. QED
    BY <1>1, <1>2

\* The fetcher sends the nil run, ending the header stream.
LEMMA SendNilIInv ==
    ASSUME IInv, headerProcCh = <<>>, headerProcCh' = <<NilRun>>,
           UNCHANGED <<from, pRun, pOrigin, pChunk>>,
           UNCHANGED <<resultsTo, oldPivot, stateRoot, cState, commitLog>>,
           remoteHead' \in Nat, completeTo' \in Int
    PROVE  IInv'
<1>1. Expected = from /\ Expected' = Expected
    BY DEF IInv, HandOff, Expected
<1>2. headerProcCh' \in Seq(Runs) /\ Len(headerProcCh') = 1
      /\ IsNil(Head(headerProcCh'))
    BY DEF NilRun, Run, IsNil, Runs
<1>3. QED
    BY <1>1, <1>2 DEF IInv, Shape, Runs, HandOff, ChunkInRun, PendingRoot,
       CommitMatchesStateRoot

LEMMA FetchPivotProbeIInv ==
    ASSUME IInv, FetchPivotProbe
    PROVE  IInv'
<1>1. /\ UNCHANGED <<from, headerProcCh, pRun, pOrigin, pChunk>>
      /\ UNCHANGED <<resultsTo, oldPivot, stateRoot, cState, commitLog>>
      /\ UNCHANGED <<remoteHead, completeTo>>
    BY DEF FetchPivotProbe, procVars, queueVars, contentVars, logVars
<1>2. QED
    BY <1>1, FrameIInv DEF IInv, Shape, Runs

LEMMA FetchContiguousIInv ==
    ASSUME IInv, FetchContiguous
    PROVE  IInv'
<1> DEFINE last == MinOf(from + MaxHeaderFetch - 1, remoteHead)
           n == IF last < from THEN 0 ELSE last - from + 1
           keep == IF LocalHead + ReorgProtThreshold < last
                      THEN n - MinOf(ReorgProtHeaderDelay, n) ELSE n
<1>1. /\ UNCHANGED <<pRun, pOrigin, pChunk>>
      /\ UNCHANGED <<resultsTo, oldPivot, stateRoot, cState, commitLog>>
      /\ UNCHANGED <<remoteHead, completeTo>>
      /\ headerProcCh = <<>>
    BY DEF FetchContiguous, procVars, queueVars, contentVars, logVars, IInv,
           Shape
<1>2. n \in Int /\ keep \in Int
    BY Assumptions DEF IInv, Shape, Runs, MinOf
<1>3. CASE n = 0
    <2>1. headerProcCh' = <<NilRun>> /\ from' = from
        BY <1>1, <1>3 DEF FetchContiguous
    <2>2. QED
        BY <1>1, <2>1, SendNilIInv DEF IInv, Shape, Runs
<1>4. CASE n # 0
    <2>1. headerProcCh' = <<Run(from, from + keep - 1)>> /\ from' = from + keep
          /\ keep > 0
        BY <1>1, <1>4 DEF FetchContiguous
    <2> HIDE DEF last, n, keep
    <2>2. QED
        BY <1>1, <1>2, <2>1, SendRunIInv DEF IInv, Shape, Runs
<1>5. QED
    BY <1>3, <1>4

LEMMA FetchTimeoutIInv ==
    ASSUME IInv, FetchTimeout
    PROVE  IInv'
<1>1. /\ UNCHANGED <<from, pRun, pOrigin, pChunk>>
      /\ UNCHANGED <<resultsTo, oldPivot, stateRoot, cState, commitLog>>
      /\ UNCHANGED <<remoteHead, completeTo>>
    BY DEF FetchTimeout, fetcherVars, procVars, contentVars, logVars
<1>2. CASE headerProcCh' = headerProcCh
    BY <1>1, <1>2, FrameIInv DEF IInv, Shape, Runs
<1>3. CASE headerProcCh' # headerProcCh
    <2>1. Len(headerProcCh) < 1 /\ headerProcCh' = Append(headerProcCh, NilRun)
        BY <1>3 DEF FetchTimeout
    <2>2. headerProcCh = <<>>
        BY <2>1 DEF IInv, Shape, Runs
    <2>3. headerProcCh' = <<NilRun>>
        BY <2>1, <2>2
    <2>4. QED
        BY <1>1, <2>2, <2>3, SendNilIInv DEF IInv, Shape, Runs
<1>4. QED
    BY <1>2, <1>3

LEMMA FetchCanceledIInv ==
    ASSUME IInv, FetchCanceled
    PROVE  IInv'
<1>1. /\ UNCHANGED <<from, headerProcCh, pRun, pOrigin, pChunk>>
      /\ UNCHANGED <<resultsTo, oldPivot, stateRoot, cState, commitLog>>
      /\ UNCHANGED <<remoteHead, completeTo>>
    BY DEF FetchCanceled, fetcherVars, procVars, queueVars, contentVars,
           logVars
<1>2. QED
    BY <1>1, FrameIInv DEF IInv, Shape, Runs

LEMMA ProcRecvIInv ==
    ASSUME IInv, ProcRecv
    PROVE  IInv'
<1> DEFINE r == Head(headerProcCh)
<1>1. /\ UNCHANGED <<from, pOrigin, pChunk>>
      /\ UNCHANGED <<resultsTo, oldPivot, stateRoot, cState, commitLog>>
      /\ UNCHANGED <<remoteHead, completeTo>>
      /\ headerProcCh # <<>> /\ headerProcCh' = Tail(headerProcCh)
      /\ pChunk = 0
      /\ pRun' = IF IsNil(r) THEN pRun ELSE r
    BY DEF ProcRecv, fetcherVars, contentVars, logVars
<1>2. Len(headerProcCh) = 1 /\ headerProcCh' = <<>> /\ r \in Runs
    <2>0. headerProcCh \in Seq(Runs) /\ Len(headerProcCh) <= 1
        BY DEF IInv, Shape
    <2>1. headerProcCh \in Seq(Runs) /\ Len(headerProcCh) = 1
        <3>1. Len(headerProcCh) \in Nat \ {0}
            BY <1>1, <2>0, EmptySeq
        <3>2. Len(headerProcCh) = 1
            <4>1. Len(headerProcCh) <= 1
                BY <2>0
            <4>2. QED
                BY <3>1, <4>1, SMT
        <3>3. QED
            BY <2>0, <3>2, Zenon
    <2>2. /\ Len(Tail(headerProcCh)) = 0
          /\ Tail(headerProcCh) \in Seq(Runs)
          /\ Head(headerProcCh) \in Runs
        BY <1>1, <2>1, HeadTailProperties
    <2>3. Tail(headerProcCh) = <<>>
        BY <2>2, EmptySeq
    <2>4. QED
        BY <1>1, <2>1, <2>2, <2>3
<1>3. Expected' = from
    <2>1. CASE IsNil(r)
        BY <1>1, <2>1 DEF IInv, HandOff, Expected
    <2>2. CASE ~IsNil(r)
        BY <1>1, <1>2, <2>2 DEF IInv, HandOff, Expected
    <2>3. QED
        BY <2>1, <2>2
<1>4. pRun' \in Runs
    BY <1>1, <1>2 DEF IInv, Shape, Runs
<1>5. Shape'
    <2>1. headerProcCh' \in Seq(Runs) /\ Len(headerProcCh') <= 1
        BY <1>2, EmptySeq
    <2>2. QED
        BY <1>1, <1>4, <2>1 DEF IInv, Shape
<1>6. HandOff'
    BY <1>1, <1>2, <1>3 DEF HandOff
<1>7. QED
    BY <1>1, <1>5, <1>6 DEF IInv, ChunkInRun, PendingRoot,
       CommitMatchesStateRoot

LEMMA ProcInsertIInv ==
    ASSUME IInv, ProcInsert
    PROVE  IInv'
<1>1. /\ UNCHANGED <<from, headerProcCh, pRun, pOrigin>>
      /\ UNCHANGED <<resultsTo, oldPivot, stateRoot, cState, commitLog>>
      /\ UNCHANGED <<remoteHead, completeTo>>
      /\ ~IsNil(pRun)
      /\ pChunk' \in {pChunk, ChunkEnd}
    BY DEF ProcInsert, ProcReturn, fetcherVars, queueVars, contentVars, logVars
<1>2. ChunkEnd \in Int /\ pRun.lo <= ChunkEnd /\ ChunkEnd <= pRun.hi
    BY <1>1, Assumptions DEF ChunkEnd, MinOf, IsNil, IInv, Shape, Runs
<1>3. QED
    BY <1>1, <1>2 DEF IInv, Shape, Runs, HandOff, Expected, ChunkInRun,
       PendingRoot, CommitMatchesStateRoot

LEMMA ProcScheduleIInv ==
    ASSUME IInv, ProcSchedule
    PROVE  IInv'
<1>1. /\ UNCHANGED <<from, headerProcCh>>
      /\ UNCHANGED <<resultsTo, oldPivot, stateRoot, cState, commitLog>>
      /\ UNCHANGED <<remoteHead, completeTo>>
      /\ pChunk # 0
    BY DEF ProcSchedule, fetcherVars, contentVars, logVars
<1>2. CASE pRun.lo = pOrigin
    <2>1. /\ pOrigin' = pChunk + 1
          /\ pRun' = Run(pChunk + 1, pRun.hi)
          /\ pChunk' = 0
        BY <1>2 DEF ProcSchedule
    <2>2. pRun.lo <= pChunk /\ pChunk <= pRun.hi
        BY <1>1 DEF IInv, ChunkInRun
    <2>3. Expected' = Expected
        BY <2>1, <2>2 DEF IInv, Shape, Runs, Expected, IsNil, Run
    <2>4. pRun' \in Runs
        BY <2>1 DEF IInv, Shape, Runs, Run
    <2>5. QED
        BY <1>1, <2>1, <2>3, <2>4 DEF IInv, Shape, Runs, HandOff, ChunkInRun,
           PendingRoot, CommitMatchesStateRoot
<1>3. CASE pRun.lo # pOrigin
    <2>1. UNCHANGED <<pRun, pOrigin, pChunk>>
        BY <1>3 DEF ProcSchedule
    <2>2. QED
        BY <1>1, <2>1, FrameIInv DEF IInv, Shape, Runs
<1>4. QED
    BY <1>2, <1>3

LEMMA ProcCanceledIInv ==
    ASSUME IInv, ProcCanceled
    PROVE  IInv'
<1>1. /\ UNCHANGED <<from, headerProcCh, pRun, pOrigin, pChunk>>
      /\ UNCHANGED <<resultsTo, oldPivot, stateRoot, cState, commitLog>>
      /\ UNCHANGED <<remoteHead, completeTo>>
    BY DEF ProcCanceled, ProcReturn, fetcherVars, queueVars, contentVars,
           logVars
<1>2. QED
    BY <1>1, FrameIInv DEF IInv, Shape, Runs

\* One turn of processFastSyncContent's loop keeps the pending pivot's
\* root: a pivot the loop starts to wait for either differs from the one it
\* held, and the session restarts on it, or is the held one, whose session
\* already runs on it; with none held, the pivot it waits for is the current
\* one (a stale pivot moves to a result, at a height of at least 1), whose
\* root the session was switched to at the top of the loop.
LEMMA ContentIterateRoot ==
    ASSUME IInv, cState = "loop", ContentIterate(ResultsBatch)
    PROVE  /\ PendingRoot' /\ commitLog' = commitLog
           /\ resultsTo' \in Nat
<1> DEFINE Res == ResultsBatch
           Rs == IF oldPivot = 0 THEN Res ELSE <<oldPivot>> \o oldTail \o Res
           Restart == oldPivot = 0 /\ pivot # stateRoot
           Root1 == IF Restart THEN pivot ELSE stateRoot
           Stale == PivotStale(LastOf(Rs))
           Idx == Len(Rs) - FsMinFullBlocks + ReorgProtHeaderDelay
           Pv == IF Stale THEN Rs[Idx] ELSE pivot
           HasP == \E i \in DOMAIN Rs : Rs[i] = Pv
<1>1. /\ Res \in Seq(Int)
      /\ \A i \in 1..Len(Res) : Res[i] = resultsTo + i
    <2> DEFINE lo == resultsTo + 1
               hi == MinOf(completeTo, resultsTo + MaxResultsProcess)
    <2>1. lo \in Int /\ hi \in Int
        BY Assumptions DEF IInv, Shape, MinOf
    <2>2. Res = Span(lo, hi)
        BY DEF ResultsBatch
    <2> HIDE DEF lo, hi
    <2>3. /\ Span(lo, hi) \in Seq(Int)
          /\ \A i \in 1..Len(Span(lo, hi)) : Span(lo, hi)[i] = lo + i - 1
        BY <2>1, SpanFacts
    <2>4. QED
        BY <2>2, <2>3 DEF lo, IInv, Shape
<1>2. resultsTo' = resultsTo + Len(Res) /\ commitLog' = commitLog
    BY DEF ContentIterate, ContentReturn, Return, ImportBlocks, Continue,
           logVars
<1>3. resultsTo' \in Nat
    BY <1>1, <1>2 DEF IInv, Shape
<1>4. \/ /\ oldPivot' = oldPivot /\ cState' = cState /\ stateRoot' = Root1
      \/ /\ ~(Stale /\ Idx < 1) /\ oldPivot' = Pv /\ cState' = "wait"
         /\ stateRoot' = PivotSessionRoot(Pv, Root1)
    BY DEF ContentIterate, ContentReturn, Return, ImportBlocks, Continue,
           logVars
<1>5. oldPivot # 0 => Root1 = oldPivot
    BY DEF IInv, PendingRoot
<1>6. CASE oldPivot' = oldPivot /\ cState' = cState /\ stateRoot' = Root1
    BY <1>2, <1>3, <1>5, <1>6 DEF PendingRoot
<1>7. CASE /\ ~(Stale /\ Idx < 1) /\ oldPivot' = Pv /\ cState' = "wait"
           /\ stateRoot' = PivotSessionRoot(Pv, Root1)
    <2>1. SUFFICES stateRoot' = Pv
        BY <1>2, <1>3, <1>7 DEF PendingRoot
    <2>2. CASE oldPivot # Pv
        BY <1>7, <2>2 DEF PivotSessionRoot
    <2>3. CASE oldPivot = Pv /\ oldPivot # 0
        BY <1>5, <1>7, <2>3 DEF PivotSessionRoot
    <2>4. CASE oldPivot = Pv /\ oldPivot = 0
        <3>1. Rs = Res
            BY <2>4
        <3>2. CASE Stale
            <4>1. Idx \in 1..Len(Res) - 1
                BY <1>1, <1>7, <3>1, <3>2, Assumptions, LenProperties
            <4>2. Idx \in 1..Len(Res)
                BY <1>1, <4>1, LenProperties
            <4>3. Pv = Res[Idx]
                BY <3>1, <3>2
            <4>4. Pv = resultsTo + Idx
                BY <1>1, <4>2, <4>3
            <4>5. Pv # 0
                BY <4>1, <4>4 DEF IInv, Shape
            <4>6. QED
                BY <2>4, <4>5
        <3>3. CASE ~Stale
            BY <1>7, <2>4, <3>3 DEF PivotSessionRoot
        <3>4. QED
            BY <3>2, <3>3
    <2>5. QED
        BY <2>2, <2>3, <2>4
<1>8. QED
    BY <1>2, <1>3, <1>4, <1>6, <1>7

LEMMA ContentLoopIInv ==
    ASSUME IInv, ContentLoop
    PROVE  IInv'
<1>1. /\ UNCHANGED <<from, headerProcCh, pRun, pOrigin, pChunk>>
      /\ UNCHANGED <<remoteHead, completeTo>>
      /\ cState = "loop"
    BY DEF ContentLoop, fetcherVars, procVars
<1>2. CASE UNCHANGED <<resultsTo, oldPivot, stateRoot, cState, commitLog>>
    BY <1>1, <1>2, FrameIInv DEF IInv, Shape, Runs
<1>3. CASE ContentIterate(ResultsBatch)
    <2>1. /\ PendingRoot' /\ commitLog' = commitLog
          /\ resultsTo' \in Nat
        BY <1>1, <1>3, ContentIterateRoot
    <2>2. QED
        BY <1>1, <2>1 DEF IInv, Shape, Runs, HandOff, Expected, ChunkInRun,
           CommitMatchesStateRoot
<1>4. QED
    BY <1>2, <1>3 DEF ContentLoop, ContentReturn, Return, contentVars, logVars

\* FastSyncCommitHead commits the pending pivot, on whose root the session
\* ran.
LEMMA PivotCommitIInv ==
    ASSUME IInv, PivotCommit
    PROVE  IInv'
<1>1. /\ UNCHANGED <<from, headerProcCh, pRun, pOrigin, pChunk>>
      /\ UNCHANGED <<remoteHead, completeTo, resultsTo, stateRoot>>
      /\ cState = "wait" /\ cState' = "loop"
      /\ \/ commitLog' = commitLog \cup {<<oldPivot, stateRoot>>} /\ oldPivot' = 0
         \/ UNCHANGED <<commitLog, oldPivot>>
    BY DEF PivotCommit, ContentReturn, fetcherVars, procVars, queueVars
<1>2. stateRoot = oldPivot
    BY <1>1 DEF IInv, PendingRoot
<1>3. PendingRoot' /\ CommitMatchesStateRoot'
    BY <1>1, <1>2 DEF IInv, PendingRoot, CommitMatchesStateRoot
<1>4. QED
    BY <1>1, <1>3 DEF IInv, Shape, Runs, HandOff, Expected, ChunkInRun

\* The pending pivot's session failed, or the loop stops waiting for it.
LEMMA PivotOtherIInv ==
    ASSUME IInv, PivotStateFailed \/ PivotWaitTimeout
    PROVE  IInv'
<1>1. /\ UNCHANGED <<from, headerProcCh, pRun, pOrigin, pChunk>>
      /\ UNCHANGED <<remoteHead, completeTo, resultsTo, stateRoot>>
      /\ UNCHANGED <<oldPivot, commitLog>>
      /\ cState' \in {cState, "loop"}
    BY DEF PivotStateFailed, PivotWaitTimeout, ContentReturn, fetcherVars,
           procVars, queueVars, logVars
<1>2. QED
    BY <1>1 DEF IInv, Shape, Runs, HandOff, Expected, ChunkInRun,
       PendingRoot, CommitMatchesStateRoot

\* The body and receipt fetchers, the state sync session, spawnSync and
\* the remote chain do not touch the hand-off or the pending pivot.
LEMMA OtherIInv ==
    ASSUME IInv,
           \/ PartsDeliver
           \/ \E t \in {"bodies", "receipts"} : PartsReturn(t)
           \/ StateSyncDone \/ StateSyncFail \/ StateSyncCanceled
           \/ SpawnCollect \/ RemoteGrow
    PROVE  IInv'
<1>1. /\ UNCHANGED <<from, headerProcCh, pRun, pOrigin, pChunk>>
      /\ UNCHANGED <<resultsTo, oldPivot, stateRoot, cState, commitLog>>
    BY DEF PartsDeliver, PartsReturn, StateSyncDone, StateSyncFail,
           StateSyncCanceled, SpawnCollect, RemoteGrow, fetcherVars,
           procVars, queueVars, contentVars, logVars
<1>2. remoteHead' \in Nat /\ completeTo' \in Int
    <2>1. CASE PartsDeliver
        BY <2>1 DEF PartsDeliver, IInv, Shape
    <2>2. CASE \E t \in {"bodies", "receipts"} : PartsReturn(t)
        BY <2>2 DEF PartsReturn, queueVars, IInv, Shape
    <2>3. CASE StateSyncDone \/ StateSyncFail \/ StateSyncCanceled
        BY <2>3 DEF StateSyncDone, StateSyncFail, StateSyncCanceled,
               queueVars, IInv, Shape
    <2>4. CASE SpawnCollect
        BY <2>4 DEF SpawnCollect, queueVars, IInv, Shape
    <2>5. CASE RemoteGrow
        BY <2>5 DEF RemoteGrow, queueVars, IInv, Shape
    <2>6. QED
        BY <2>1, <2>2, <2>3, <2>4, <2>5
<1>3. QED
    BY <1>1, <1>2, FrameIInv

LEMMA NextIInv == IInv /\ [Next]_vars => IInv'
<1> SUFFICES ASSUME IInv, [Next]_vars PROVE IInv'
    OBVIOUS
<1>1. CASE Fetcher
    BY <1>1, FetchSkeletonIInv, FetchPivotProbeIInv, FetchContiguousIInv,
       FetchCanceledIInv DEF Fetcher
<1>2. CASE FetchTimeout
    BY <1>2, FetchTimeoutIInv
<1>3. CASE Processor
    BY <1>3, ProcRecvIInv, ProcInsertIInv, ProcScheduleIInv, ProcCanceledIInv
       DEF Processor
<1>4. CASE ContentLoop
    BY <1>4, ContentLoopIInv
<1>5. CASE PivotCommit
    BY <1>5, PivotCommitIInv
<1>6. CASE PivotStateFailed \/ PivotWaitTimeout
    BY <1>6, PivotOtherIInv
<1>7. CASE UNCHANGED vars
    <2>1. /\ UNCHANGED <<from, headerProcCh, pRun, pOrigin, pChunk>>
          /\ UNCHANGED <<resultsTo, oldPivot, stateRoot, cState, commitLog>>
          /\ UNCHANGED <<remoteHead, completeTo>>
        BY <1>7 DEF vars, fetcherVars, procVars, queueVars, contentVars,
               logVars
    <2>2. QED
        BY <2>1, FrameIInv DEF IInv, Shape
<1>8. QED
    BY <1>1, <1>2, <1>3, <1>4, <1>5, <1>6, <1>7, OtherIInv DEF Next, Content

-----------------------------------------------------------------------------
(* Theorems.                                                               *)

\* IInv holds in every reachable state.
THEOREM IInvHolds == Spec => []IInv
BY InitIInv, NextIInv, PTL DEF Spec

\* For every chain, batch size and threshold: a run fetchHeaders sends on
\* headerProcCh starts at the height processHeaders expects next, so the
\* skeleton fill, the pivot probes, reorg protection and chunking never
\* leave a gap or an overlap between the fetcher and the processor.
THEOREM HeadersContiguous == Spec => []HeaderRunsContiguous
<1>1. IInv => HeaderRunsContiguous
    BY DEF IInv, HandOff, HeaderRunsContiguous, Expected
<1>2. QED
    BY <1>1, IInvHolds, PTL

\* For every value of the constants, and however the pivot moves and state
\* sync sessions fail or restart: FastSyncCommitHead commits a pivot only
\* with the state root the session synced, because processFastSyncContent
\* restarts the session whenever the pivot it waits for changes.
THEOREM CommitOnSyncedRoot == Spec => []CommitMatchesStateRoot
<1>1. IInv => CommitMatchesStateRoot
    BY DEF IInv
<1>2. QED
    BY <1>1, IInvHolds, PTL

=============================================================================
