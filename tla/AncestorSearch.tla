--------------------------- MODULE AncestorSearch ---------------------------
(***************************************************************************)
(* The head locator of the downloader (src/eth/downloader/downloader.go):  *)
(* calculateRequestSpan and findAncestor.  One search against the master   *)
(* peer: the span probe (one request of count headers at a stride), then,  *)
(* if it found no known header, the binary search over [floor, remote).    *)
(*                                                                         *)
(* A header is its height.  The remote chain is 0..remoteHeight; the local *)
(* store knows the remote headers at 0 and at lowest..anc (anc is the      *)
(* highest remote block the local store has; a light client synced from a *)
(* checkpoint lacks the headers below lowest).  An honest peer answers     *)
(* with its own chain; a lying peer (PeerLies) may answer with any headers *)
(* of the requested heights, claim any height the local store holds, send  *)
(* the wrong number of headers or break the ordering.  Timeouts and        *)
(* cancellation end the search at any wait.                                *)
(***************************************************************************)
EXTENDS Integers, FiniteSets, SyncModes

CONSTANTS
    MaxHeaderFetch,       \* MaxHeaderFetch (192)
    FullMaxForkAncestry,  \* params.FullImmutabilityThreshold (90000)
    LightMaxForkAncestry, \* params.LightImmutabilityThreshold (30000)
    MaxHeight,            \* bound on the heights of the two chains
    ModeTexts,            \* the texts the sync mode is parsed from
    PeerLies              \* whether the master peer may lie

ASSUME Assumptions ==
    /\ MaxHeaderFetch \in Nat /\ MaxHeaderFetch >= 32
    /\ FullMaxForkAncestry \in Nat \ {0}
    /\ LightMaxForkAncestry \in Nat \ {0}
    /\ MaxHeight \in Nat \ {0}
    /\ PeerLies \in BOOLEAN

VARIABLES
    mode,         \* d.getMode()
    remoteHeight, \* remoteHeader.Number
    localHeight,  \* CurrentBlock / CurrentFastBlock / CurrentHeader
    lowest,       \* the lowest header the local chain holds above genesis
    anc,          \* the highest remote header the local store holds
    floor,        \* the lowest height the search may not return
    span,         \* <<from, count, skip, max>> of calculateRequestSpan
    phase,        \* "span", "search", "searchWait" or "done"
    start, end,   \* the binary search interval
    check,        \* the height requested by the current search step
    result,       \* the returned ancestor
    err           \* the returned error, "none" on success

vars == <<mode, remoteHeight, localHeight, lowest, anc, floor, span, phase,
          start, end, check, result, err>>

inputs == <<mode, remoteHeight, localHeight, lowest, anc, span>>

Heights == 0..MaxHeight
Errors == {"none", "canceled", "timeout", "emptyHeaderSet", "invalidChain",
           "badPeer", "invalidAncestor"}

\* Integer division of Go: truncated towards zero.
GoDiv(a, b) == IF a >= 0 THEN a \div b ELSE -((-a) \div b)

MinOf(a, b) == IF a <= b THEN a ELSE b
MaxOf(a, b) == IF a >= b THEN a ELSE b

\* Fault model: the request start is not clamped at 0.
RequestSpanNoClamp(remote, local) ==
    LET maxCount == MaxHeaderFetch \div 16
        requestHead == MaxOf(remote - 1, 0)
        requestBottom == MaxOf(IF local = 0 THEN -1 ELSE local - 1, 0)
        totalSpan == requestHead - requestBottom
        stride == MinOf(MaxOf(1 + GoDiv(totalSpan, maxCount), 2), 16)
        count == MaxOf(MinOf(1 + GoDiv(totalSpan, stride), maxCount), 2)
        from == requestHead - (count - 1) * stride
    IN  <<from, count, stride - 1, from + (count - 1) * stride>>

\* calculateRequestSpan: <<from, count, skip, max>>.  int(localHeight - 1)
\* wraps the uint64 0 - 1 to the int -1, which the clamp then sets to 0.
RequestSpan(remote, local) ==
    LET maxCount == MaxHeaderFetch \div 16
        requestHead == MaxOf(remote - 1, 0)
        requestBottom == MaxOf(IF local = 0 THEN -1 ELSE local - 1, 0)
        totalSpan == requestHead - requestBottom
        stride == MinOf(MaxOf(1 + GoDiv(totalSpan, maxCount), 2), 16)
        count == MaxOf(MinOf(1 + GoDiv(totalSpan, stride), maxCount), 2)
        from == MaxOf(requestHead - (count - 1) * stride, 0)
    IN  <<from, count, stride - 1, from + (count - 1) * stride>>

\* The first n heights the span request asks for, and all of them.
Prefix(n) == {span[1] + i * (span[3] + 1) : i \in 0..n - 1}
Requested == Prefix(span[2])

\* The remote headers the local store knows (HasBlock, HasFastBlock or
\* HasHeader with the remote header's hash).
Known == {h \in 0..remoteHeight : h = 0 \/ (lowest <= h /\ h <= anc)}

\* The heights at which the local store holds some header: a lying peer
\* can make any of them look known by sending the local header.
LocalHas == {0} \cup (lowest..MaxOf(localHeight, anc))

Highest(S) == CHOOSE h \in S : \A g \in S : g <= h

\* The floor from the immutability threshold, raised in light mode to
\* below the lowest header reached walking down parent links from the
\* head (d.genesis): the walk stops at the first header at most floor + 1,
\* or where the parent is missing (at lowest, or at 0 when lowest is 1).
Floor(m, local, low) ==
    LET ancestry == IF m = LightSync THEN LightMaxForkAncestry
                    ELSE FullMaxForkAncestry
        f0 == IF local >= ancestry THEN local - ancestry ELSE -1
        bottom == IF low = 1 THEN 0 ELSE low
        genesis == IF local <= f0 + 1 THEN local ELSE MaxOf(f0 + 1, bottom)
    IN  IF m = LightSync THEN MaxOf(f0, genesis - 1) ELSE f0

Init ==
    /\ \E t \in ModeTexts : mode = UnmarshalText(FullSync, t).mode
    /\ remoteHeight \in 1..MaxHeight
    /\ localHeight \in Heights
    /\ lowest \in IF mode = LightSync THEN 1..MaxOf(localHeight, 1) ELSE {1}
    \* The remote head is not a block the local store has: the chain store
    \* keeps the heaviest block as its head, so a stored remote head would
    \* not be heavier and the peer would not be synchronised with.
    /\ anc \in 0..MinOf(localHeight, remoteHeight - 1)
    /\ floor = Floor(mode, localHeight, lowest)
    /\ span = RequestSpan(remoteHeight, localHeight)
    /\ phase = "span"
    /\ start = 0 /\ end = 0 /\ check = 0
    /\ result = 0 /\ err = "none"

Finish(r, e) ==
    /\ phase' = "done" /\ result' = r /\ err' = e
    /\ UNCHANGED <<inputs, floor, start, end, check>>

\* The answer to the span request: n headers (the first n requested), of
\* which top is the highest the local store knows (-1: none).  An honest
\* peer sends the requested headers up to its head; a lying one any prefix
\* of the request, in or out of order, whose known headers are local ones.
HonestCount == Cardinality({h \in Requested : h <= remoteHeight})
LiedSpanAnswers ==
    UNION {{[n |-> k, ordered |-> o, top |-> t] :
              o \in BOOLEAN, t \in {-1} \cup (Prefix(k) \cap LocalHas)}
            : k \in 0..span[2]}

\* Fault model: the walk over the answer takes the lowest known header.
SpanAnswersLowestFirst ==
    LET seen == Known \cap Requested
        tops == IF seen = {} THEN {-1}
                ELSE {t \in seen : \A g \in seen : t <= g}
    IN  IF PeerLies THEN LiedSpanAnswers
        ELSE {[n |-> HonestCount, ordered |-> TRUE, top |-> t] : t \in tops}

SpanAnswers ==
    LET seen == Known \cap Requested
        tops == IF seen = {} THEN {-1}
                ELSE {t \in seen : \A g \in seen : g <= t}
    IN  IF PeerLies THEN LiedSpanAnswers
        ELSE {[n |-> HonestCount, ordered |-> TRUE, top |-> t] : t \in tops}

\* The span case of findAncestor's select: the empty check, the ordering
\* check, the walk from the highest header down, then either the floor
\* check of the header found or the start of the binary search.
SpanAnswer ==
    /\ phase = "span"
    /\ \E a \in SpanAnswers :
        \/ a.n = 0 /\ Finish(0, "emptyHeaderSet")
        \/ a.n > 0 /\ ~a.ordered /\ Finish(0, "invalidChain")
        \/ /\ a.n > 0 /\ a.ordered /\ a.top >= 0
           /\ IF a.top <= floor THEN Finish(0, "invalidAncestor")
                                ELSE Finish(a.top, "none")
        \/ /\ a.n > 0 /\ a.ordered /\ a.top < 0
           /\ phase' = "search"
           /\ start' = IF floor > 0 THEN floor ELSE 0
           /\ end' = remoteHeight
           /\ UNCHANGED <<inputs, floor, check, result, err>>

\* Fault model: the loop runs while start < end.
SearchStepPastEnd ==
    /\ phase = "search" /\ start < end
    /\ check' = (start + end) \div 2
    /\ phase' = "searchWait"
    /\ UNCHANGED <<inputs, floor, start, end, result, err>>

\* One turn of the binary search loop: request the middle header.
SearchStep ==
    /\ phase = "search" /\ start + 1 < end
    /\ check' = (start + end) \div 2
    /\ phase' = "searchWait"
    /\ UNCHANGED <<inputs, floor, start, end, result, err>>

\* Fault model: start is returned without the floor check.
SearchDoneNoFloor ==
    /\ phase = "search" /\ ~(start + 1 < end)
    /\ Finish(start, "none")

\* The loop has ended: the floor check of start.
SearchDone ==
    /\ phase = "search" /\ ~(start + 1 < end)
    /\ IF start <= floor THEN Finish(0, "invalidAncestor")
                         ELSE Finish(start, "none")

\* The answer to a search request: whether it is one header, whether that
\* header is known locally, and whether its number is the one requested
\* (checked only for a known header).
SearchAnswers ==
    IF PeerLies
    THEN {[single |-> s, known |-> k, atCheck |-> c] :
            s \in BOOLEAN, k \in BOOLEAN, c \in BOOLEAN}
         \cap {a \in [single : BOOLEAN, known : BOOLEAN, atCheck : BOOLEAN] :
                 a.known /\ a.atCheck => check \in LocalHas}
    ELSE {[single |-> TRUE, known |-> check \in Known, atCheck |-> TRUE]}

SearchAnswer ==
    /\ phase = "searchWait"
    /\ \E a \in SearchAnswers :
        \/ ~a.single /\ Finish(0, "badPeer")
        \/ /\ a.single /\ ~a.known
           /\ end' = check /\ phase' = "search"
           /\ UNCHANGED <<inputs, floor, start, check, result, err>>
        \/ a.single /\ a.known /\ ~a.atCheck /\ Finish(0, "badPeer")
        \/ /\ a.single /\ a.known /\ a.atCheck
           /\ start' = check /\ phase' = "search"
           /\ UNCHANGED <<inputs, floor, end, check, result, err>>

\* The timeout and cancel cases of both selects.
Timeout == phase \in {"span", "searchWait"} /\ Finish(0, "timeout")

Canceled == phase \in {"span", "searchWait"} /\ Finish(0, "canceled")

Next ==
    \/ SpanAnswer \/ SearchStep \/ SearchDone \/ SearchAnswer
    \/ Timeout \/ Canceled

\* The search goroutine runs; a request is answered or its timer fires.
Fairness ==
    /\ WF_vars(SearchStep) /\ WF_vars(SearchDone)
    /\ WF_vars(SpanAnswer \/ SearchAnswer \/ Timeout)

Spec == Init /\ [][Next]_vars /\ Fairness

-----------------------------------------------------------------------------
(* Properties.                                                             *)

TypeOK ==
    /\ mode \in {FullSync, FastSync, LightSync}
    /\ remoteHeight \in 1..MaxHeight /\ localHeight \in Heights
    /\ lowest \in Heights /\ anc \in Heights
    /\ floor \in -1..MaxHeight
    /\ span \in Heights \X (2..MaxHeaderFetch \div 16) \X (1..15) \X Nat
    /\ phase \in {"span", "search", "searchWait", "done"}
    /\ {start, end, check, result} \subseteq Heights
    /\ err \in Errors

\* The highest remote block the local store has, up to the remote head.
Top == Highest(Known)

\* With an honest peer, findAncestor fails only by timeout, cancellation
\* or errInvalidAncestor, and when it succeeds it returns a block both
\* chains have, above the floor, at most one span stride below the highest
\* common block (exactly that block when the binary search ran).  It is
\* rejected with errInvalidAncestor only when the highest common block is
\* at most one stride above the floor: the span probe may miss common
\* blocks in that gap (specification section 4.4 rejects only an ancestor
\* at or below the floor).
HonestAncestor ==
    (~PeerLies /\ phase = "done") =>
        /\ err \in {"none", "invalidAncestor", "timeout", "canceled"}
        /\ err = "none" => /\ result \in Known /\ result > floor
                           /\ Top - result <= span[3]
        /\ err = "invalidAncestor" => Top - floor <= span[3]

\* The heights the search may return: the common blocks for an honest
\* peer, the locally held blocks for a lying one.
Claimable == IF PeerLies THEN LocalHas ELSE Known

Abstract == INSTANCE AncestorSpec
    WITH claimable <- Claimable, lowBound <- floor, done <- (phase = "done")

\* The search implements AncestorSpec whatever the peer answers: every step
\* is a step of Locate or leaves the returned values unchanged, so a lying
\* peer can make findAncestor fail but never return a height the local
\* store lacks or one at or below the floor (the floor check after the
\* binary search, and the span probe's, reject it).
ImplementsAncestorSpec == Abstract!Spec

\* findAncestor returns whatever the peer answers: the span probe and the
\* binary search both end (each search step halves [start, end)).
Termination == <>(phase = "done")
=============================================================================
