----------------------- MODULE AncestorHonest_proofs -----------------------
(***************************************************************************)
(* Proof of HonestAncestor: with an honest peer, findAncestor returns the *)
(* highest common block or one at most a span stride below it, and        *)
(* rejects the peer only when that block is at most a stride above the    *)
(* floor.                                                                  *)
(*                                                                         *)
(* The argument.  The common blocks above the floor form an interval up    *)
(* to the highest one, Top (IntervalAboveFloor): the light client's floor  *)
(* lies at or above the header just below its lowest stored header.  The   *)
(* span request samples the remote chain on a grid of step stride that     *)
(* reaches up to the remote head, so the highest grid point at or below    *)
(* Top is common and within stride - 1 of it unless it is at or below the *)
(* floor.  The binary search keeps Top below end (a check above the floor  *)
(* and at most Top would be common) and start at its first value or at a   *)
(* common block above the floor, so when it ends start is Top.             *)
(***************************************************************************)
EXTENDS AncestorSearch_proofs, FiniteSetTheorems

\* The first value of start in the binary search.
SearchBase == IF floor > 0 THEN floor ELSE 0

\* The highest common block, in closed form.
TopVal == IF lowest <= anc THEN anc ELSE 0

\* The inputs keep the values Init gave them.
InputsFixed ==
    /\ mode \in {FullSync, FastSync, LightSync}
    /\ remoteHeight \in 1..MaxHeight
    /\ localHeight \in Heights
    /\ lowest \in IF mode = LightSync THEN 1..MaxOf(localHeight, 1) ELSE {1}
    /\ anc \in 0..MinOf(localHeight, remoteHeight - 1)
    /\ floor = Floor(mode, localHeight, lowest)
    /\ span = RequestSpan(remoteHeight, localHeight)

\* While an honest search runs, start is its first value or a common block
\* above the floor, every common block lies below end, and a pending check
\* lies strictly inside (start, end).
SearchInv ==
    (~PeerLies /\ phase \in {"search", "searchWait"}) =>
        /\ start \in Nat /\ end \in Nat
        /\ start = SearchBase \/ (start \in Known /\ start > floor)
        /\ TopVal < end
        /\ phase = "searchWait" => check \in Nat /\ start < check /\ check < end

\* The inductive invariant.
HInv ==
    /\ InputsFixed
    /\ phase \in {"span", "search", "searchWait", "done"}
    /\ SearchInv
    /\ HonestAncestor

-----------------------------------------------------------------------------
(* The common blocks.                                                      *)

\* TopVal is a common block and no common block lies above it.
LEMMA TopValMax ==
    ASSUME InputsFixed
    PROVE  /\ TopVal \in Known
           /\ \A g \in Known : g <= TopVal
           /\ TopVal \in 0..remoteHeight - 1
BY Assumptions DEF InputsFixed, TopVal, Known, MinOf, Heights

\* Highest(Known), the block HonestAncestor measures against, is TopVal.
LEMMA TopIsTopVal ==
    ASSUME InputsFixed
    PROVE  Top = TopVal
<1>1. \E h \in Known : \A g \in Known : g <= h
    BY TopValMax
<1>2. Top \in Known /\ \A g \in Known : g <= Top
    BY <1>1 DEF Top, Highest
<1>3. Known \subseteq Int
    BY DEF Known
<1>4. QED
    BY <1>2, <1>3, TopValMax

\* A light client missing the headers below lowest has its floor at or
\* above lowest - 1: the walk for d.genesis stops at lowest at the latest.
LEMMA FloorAboveGap ==
    ASSUME InputsFixed, lowest > 1
    PROVE  floor >= lowest - 1
<1>1. mode = LightSync /\ lowest \in 2..localHeight /\ localHeight \in Nat
    BY Assumptions DEF InputsFixed, MaxOf, Heights, FullSync, FastSync, LightSync
<1>2. QED
    BY <1>1, Assumptions DEF InputsFixed, Floor, MaxOf

\* The floor is at least -1.
LEMMA FloorLow ==
    ASSUME InputsFixed
    PROVE  floor \in Int /\ floor >= -1
<1>1. localHeight \in Heights /\ lowest \in Heights
    BY Assumptions DEF InputsFixed, MaxOf, Heights
<1>2. QED
    BY <1>1, FloorRange DEF InputsFixed

\* Every block above the floor and at most TopVal is common.
LEMMA IntervalAboveFloor ==
    ASSUME InputsFixed, NEW h \in Int, floor < h, h <= TopVal
    PROVE  h \in Known
<1>1. floor \in Int /\ floor >= -1
    BY FloorLow
<1>0. /\ TopVal \in 0..remoteHeight - 1 /\ remoteHeight \in Nat
      /\ lowest \in Nat \ {0} /\ anc \in Nat
    BY TopValMax, Assumptions DEF InputsFixed, MaxOf, MinOf, Heights
<1>2. CASE lowest > 1
    <2>1. floor >= lowest - 1
        BY <1>2, FloorAboveGap
    <2>2. QED
        BY <1>0, <1>1, <1>2, <2>1 DEF TopVal, Known
<1>3. CASE lowest <= 1
    BY <1>0, <1>1, <1>3 DEF TopVal, Known
<1>4. QED
    BY <1>2, <1>3 DEF InputsFixed, MaxOf


-----------------------------------------------------------------------------
(* The span request's grid.                                                *)

\* calculateRequestSpan starts its grid at or below the remote head's
\* parent and, clamped at 0 or not, ends it at or above that parent.
LEMMA SpanGrid ==
    ASSUME InputsFixed
    PROVE  /\ span[1] \in Nat /\ span[2] \in Nat /\ span[2] >= 2
           /\ span[3] \in 1..15
           /\ span[1] <= remoteHeight - 1
           /\ span[1] + (span[2] - 1) * (span[3] + 1) >= remoteHeight - 1
<1> DEFINE maxCount == MaxHeaderFetch \div 16
           requestHead == MaxOf(remoteHeight - 1, 0)
           requestBottom == MaxOf(IF localHeight = 0 THEN -1 ELSE localHeight - 1, 0)
           totalSpan == requestHead - requestBottom
           stride == MinOf(MaxOf(1 + GoDiv(totalSpan, maxCount), 2), 16)
           count == MaxOf(MinOf(1 + GoDiv(totalSpan, stride), maxCount), 2)
           from == MaxOf(requestHead - (count - 1) * stride, 0)
<1>1. span = <<from, count, stride - 1, from + (count - 1) * stride>>
    BY DEF InputsFixed, RequestSpan
<1>2. maxCount \in Nat /\ maxCount >= 2
    BY Assumptions
<1>3. requestHead = remoteHeight - 1 /\ remoteHeight \in Nat \ {0}
      /\ totalSpan \in Int
    BY Assumptions DEF InputsFixed, MaxOf, Heights
<1>4. GoDiv(totalSpan, maxCount) \in Int
    BY <1>2, <1>3 DEF GoDiv
<1>5. stride \in 2..16
    BY <1>4 DEF MinOf, MaxOf
<1>6. GoDiv(totalSpan, stride) \in Int
    BY <1>3, <1>5 DEF GoDiv
<1>7. count \in 2..maxCount
    BY <1>2, <1>6 DEF MinOf, MaxOf
<1> HIDE DEF maxCount, requestBottom, totalSpan, stride, count, from
<1>8. (count - 1) * stride \in Nat
    BY <1>5, <1>7
<1>9. /\ from \in Nat
      /\ from <= requestHead /\ from + (count - 1) * stride >= requestHead
    BY <1>3, <1>8 DEF from, MaxOf
<1>10. QED
    BY <1>1, <1>3, <1>5, <1>7, <1>9

\* Below any height T in the grid's range lies a grid point within
\* stride - 1 of T.
LEMMA GridBelow ==
    ASSUME NEW f \in Nat, NEW c \in Nat, NEW st \in Nat, st >= 1,
           NEW T \in Nat, f <= T, T <= f + (c - 1) * st
    PROVE  \E i \in 0..c - 1 : f + i * st <= T /\ T - (f + i * st) <= st - 1
<1> DEFINE q == (T - f) \div st
<1>1. q \in Nat /\ q * st <= T - f /\ T - f - q * st <= st - 1
    BY SMT
<1> HIDE DEF q
<1>2. q <= c - 1
    <2>1. SUFFICES ASSUME q >= c PROVE FALSE
        BY <1>1
    <2>2. q * st >= c * st
        BY <1>1, <2>1
    <2>3. QED
        BY <1>1, <2>2
<1>3. q \in 0..c - 1
    BY <1>1, <1>2
<1>4. f + q * st <= T /\ T - (f + q * st) <= st - 1
    BY <1>1
<1>5. QED
    BY <1>3, <1>4, Zenon

\* Two grid points: the higher one lies a whole stride above the lower.
LEMMA GridGap ==
    ASSUME NEW f \in Int, NEW st \in Nat, NEW i \in Nat, NEW j \in Nat, i < j
    PROVE  f + i * st + st <= f + j * st
<1>1. (j - i) * st >= st
    BY SMT
<1>2. QED
    BY <1>1

\* The span request's grid, as a set of heights.
LEMMA RequestedGrid ==
    ASSUME InputsFixed
    PROVE  Requested = {span[1] + i * (span[3] + 1) : i \in 0..span[2] - 1}
BY DEF Requested, Prefix

\* An honest peer answers the span request with at least one header: the
\* lowest requested height is at most its head.
LEMMA HonestCountPos ==
    ASSUME InputsFixed
    PROVE  HonestCount > 0
<1> DEFINE S == {h \in Requested : h <= remoteHeight}
<1>1. span[1] \in S
    <2>1. span[1] \in Requested
        <3>1. 0 \in 0..span[2] - 1 /\ span[1] = span[1] + 0 * (span[3] + 1)
            BY SpanGrid
        <3>2. QED
            BY <3>1, RequestedGrid
    <2>2. span[1] <= remoteHeight /\ remoteHeight \in Nat
        BY SpanGrid DEF InputsFixed
    <2>3. QED
        BY <2>1, <2>2
<1>2. S \subseteq 0..remoteHeight
    <2>1. \A i \in 0..span[2] - 1 : span[1] + i * (span[3] + 1) \in Nat
        BY SpanGrid
    <2>2. QED
        BY <2>1, RequestedGrid
<1>3. IsFiniteSet(S)
    <2>1. remoteHeight \in Int
        BY DEF InputsFixed
    <2>2. IsFiniteSet(0..remoteHeight)
        BY <2>1, FS_Interval
    <2>3. QED
        BY <1>2, <2>2, FS_Subset, Zenon
<1>4. Cardinality(S) # 0
    BY <1>1, <1>3, FS_EmptySet
<1>5. QED
    BY <1>3, <1>4, FS_CardinalityType DEF HonestCount

\* The walk over an honest span answer stops at the highest requested
\* header the local store knows, t.  If t is above the floor it lies within
\* skip of TopVal; if it is not, TopVal lies within skip of the floor: a
\* grid point between them would be common and requested.
LEMMA SpanTop ==
    ASSUME InputsFixed, NEW t \in Known \cap Requested,
           \A g \in Known \cap Requested : g <= t
    PROVE  /\ t <= floor => TopVal - floor <= span[3]
           /\ t > floor => TopVal - t <= span[3]
<1> DEFINE f == span[1]
           c == span[2]
           st == span[3] + 1
           T == TopVal
<1>1. /\ f \in Nat /\ c \in Nat /\ span[3] \in 1..15 /\ st \in Nat /\ st >= 1
      /\ f <= remoteHeight - 1 /\ f + (c - 1) * st >= remoteHeight - 1
    BY SpanGrid
<1>2. T \in 0..remoteHeight - 1 /\ remoteHeight \in Nat /\ t \in Nat /\ t <= T
    BY TopValMax DEF InputsFixed, Known
<1>3. floor \in Int /\ floor >= -1
    BY FloorLow
<1>0. st = span[3] + 1 /\ T = TopVal
    OBVIOUS
<1> HIDE DEF f, c, st, T
<1>4. CASE T <= floor
    BY <1>0, <1>1, <1>2, <1>3, <1>4
<1>5. CASE T > floor
    <2>1. PICK j \in 0..c - 1 : t = f + j * st
        BY RequestedGrid DEF f, c, st
    <2>2. j * st \in Nat
        BY <1>1, <2>1
    <2>3. f <= T /\ T <= f + (c - 1) * st
        BY <1>1, <1>2, <2>1, <2>2
    <2>4. \E i \in 0..c - 1 : f + i * st <= T /\ T - (f + i * st) <= st - 1
        <3>1. T \in Nat
            BY <1>2
        <3>2. QED
            BY <1>1, <2>3, <3>1, GridBelow
    <2>5. PICK i \in 0..c - 1 : f + i * st <= T /\ T - (f + i * st) <= st - 1
        BY <2>4
    <2>6. i * st \in Nat
        BY <1>1, <2>5
    <2>7. CASE f + i * st > floor
        <3>1. f + i * st \in Known
            BY <1>0, <1>1, <1>5, <2>5, <2>6, <2>7, IntervalAboveFloor
        <3>2. f + i * st \in Requested
            BY <2>5, RequestedGrid DEF f, c, st
        <3>3. f + i * st <= t
            BY <3>1, <3>2
        <3>4. t > floor
            BY <1>2, <1>1, <1>3, <2>6, <2>7, <3>3
        <3>5. T - t <= st - 1
            BY <1>1, <1>2, <2>5, <2>6, <3>3
        <3>6. QED
            BY <1>0, <1>1, <1>2, <1>3, <3>4, <3>5
    <2>8. CASE f + i * st <= floor
        <3>1. t <= floor
            <4>1. SUFFICES ASSUME t > floor PROVE FALSE
                BY <1>2, <1>3
            <4>2. i < j
                <5>1. SUFFICES ASSUME j <= i PROVE FALSE
                    BY <2>1, <2>5
                <5>2. j * st <= i * st
                    BY <1>1, <2>1, <2>5, <5>1
                <5>3. QED
                    BY <1>1, <1>3, <2>1, <2>2, <2>6, <2>8, <4>1, <5>2
            <4>3. f + i * st + st <= f + j * st
                BY <1>1, <2>1, <2>5, <4>2, GridGap
            <4>4. QED
                BY <1>0, <1>1, <1>2, <2>1, <2>2, <2>5, <2>6, <4>3
        <3>2. QED
            BY <1>0, <1>1, <1>2, <1>3, <2>5, <2>6, <2>8, <3>1
    <2>9. QED
        BY <2>7, <2>8, <2>6, <1>1, <1>3
<1>6. QED
    BY <1>0, <1>2, <1>3, <1>4, <1>5

-----------------------------------------------------------------------------
(* The steps.                                                              *)

\* No step of findAncestor changes its inputs or the floor.
LEMMA InputsStay ==
    ASSUME [Next]_vars
    PROVE  UNCHANGED <<inputs, floor>>
<1>1. CASE SpanAnswer
    BY <1>1 DEF SpanAnswer, Finish
<1>2. CASE SearchAnswer
    BY <1>2 DEF SearchAnswer, Finish
<1>3. CASE SearchStep \/ SearchDone \/ Timeout \/ Canceled
    BY <1>3 DEF SearchStep, SearchDone, Timeout, Canceled, Finish
<1>4. CASE UNCHANGED vars
    BY <1>4 DEF vars, inputs
<1>5. QED
    BY <1>1, <1>2, <1>3, <1>4 DEF Next

\* Fixed inputs fix the common blocks, the highest of them and the first
\* value of start.
LEMMA SameBlocks ==
    ASSUME UNCHANGED <<inputs, floor>>
    PROVE  /\ InputsFixed' = InputsFixed
           /\ Known' = Known /\ TopVal' = TopVal /\ Top' = Top
           /\ SearchBase' = SearchBase /\ span' = span /\ floor' = floor
BY DEF inputs, InputsFixed, Known, TopVal, Top, SearchBase

LEMMA InitHInv == Init => HInv
<1> SUFFICES ASSUME Init PROVE HInv
    OBVIOUS
<1>1. mode \in {FullSync, FastSync, LightSync}
    BY ModeRange DEF Init
<1>2. InputsFixed
    BY <1>1 DEF Init, InputsFixed
<1>3. QED
    BY <1>2 DEF Init, HInv, SearchInv, HonestAncestor

\* A timeout or a cancellation ends the search with an error the honest
\* case allows.
LEMMA AbortHInv ==
    ASSUME HInv, Timeout \/ Canceled
    PROVE  SearchInv' /\ HonestAncestor'
<1>1. phase' = "done" /\ err' \in {"timeout", "canceled"}
    BY DEF Timeout, Canceled, Finish
<1>2. QED
    BY <1>1 DEF SearchInv, HonestAncestor

\* The span probe with an honest peer: if no requested header is known the
\* binary search starts with every common block below end = remoteHeight;
\* otherwise the walk's header t is returned or rejected as SpanTop allows.
LEMMA SpanHInv ==
    ASSUME HInv, ~PeerLies, SpanAnswer
    PROVE  SearchInv' /\ HonestAncestor'
<1> DEFINE seen == Known \cap Requested
<1>1. InputsFixed
    BY DEF HInv
<1>2. UNCHANGED <<inputs, floor>>
    <2>1. [Next]_vars
        BY DEF Next
    <2>2. QED
        BY <2>1, InputsStay
<1>3. /\ Known' = Known /\ TopVal' = TopVal /\ Top' = Top
      /\ SearchBase' = SearchBase /\ span' = span /\ floor' = floor
    BY <1>2, SameBlocks
<1>4. PICK a \in SpanAnswers :
        \/ a.n = 0 /\ Finish(0, "emptyHeaderSet")
        \/ a.n > 0 /\ ~a.ordered /\ Finish(0, "invalidChain")
        \/ /\ a.n > 0 /\ a.ordered /\ a.top >= 0
           /\ IF a.top <= floor THEN Finish(0, "invalidAncestor")
                                ELSE Finish(a.top, "none")
        \/ /\ a.n > 0 /\ a.ordered /\ a.top < 0
           /\ phase' = "search"
           /\ start' = IF floor > 0 THEN floor ELSE 0
           /\ end' = remoteHeight
           /\ UNCHANGED <<inputs, floor, check, result, err>>
    BY DEF SpanAnswer
<1>5. HonestCount > 0
    BY <1>1, HonestCountPos
<1>6. PICK t \in IF seen = {} THEN {-1}
                 ELSE {x \in seen : \A g \in seen : g <= x} :
        a = [n |-> HonestCount, ordered |-> TRUE, top |-> t]
    BY <1>4 DEF SpanAnswers
<1>7. a.n > 0 /\ a.ordered /\ a.top = t
    BY <1>5, <1>6
<1>8. floor \in Int /\ floor >= -1
    BY <1>1, FloorLow
<1>9. CASE seen = {}
    <2>1. t = -1
        BY <1>6, <1>9
    <2>2. phase' = "search" /\ start' = SearchBase /\ end' = remoteHeight
        BY <1>4, <1>7, <2>1 DEF Finish, SearchBase
    <2>3. SearchBase \in Nat /\ remoteHeight \in Nat /\ TopVal < remoteHeight
        BY <1>1, <1>8, TopValMax DEF SearchBase, InputsFixed
    <2>4. QED
        BY <1>3, <2>2, <2>3 DEF SearchInv, HonestAncestor
<1>10. CASE seen # {}
    <2>1. t \in seen /\ \A g \in seen : g <= t
        BY <1>6, <1>10
    <2>2. t \in Nat
        BY <2>1 DEF Known
    <2>3. /\ phase' = "done"
          /\ t <= floor => result' = 0 /\ err' = "invalidAncestor"
          /\ ~(t <= floor) => result' = t /\ err' = "none"
        BY <1>4, <1>7, <2>2 DEF Finish
    <2>4. /\ t <= floor => TopVal - floor <= span[3]
          /\ t > floor => TopVal - t <= span[3]
        BY <1>1, <2>1, SpanTop
    <2>5. Top = TopVal
        BY <1>1, TopIsTopVal
    <2>6. t \in Known
        BY <2>1
    <2>7. QED
        BY <1>3, <1>8, <2>2, <2>3, <2>4, <2>5, <2>6
           DEF SearchInv, HonestAncestor
<1>11. QED
    BY <1>9, <1>10

\* The start of a running search is at or above the floor.
LEMMA StartAboveFloor ==
    ASSUME InputsFixed, SearchInv, ~PeerLies, phase \in {"search", "searchWait"}
    PROVE  start \in Nat /\ end \in Nat /\ start >= floor /\ TopVal < end
<1>1. floor \in Int /\ floor >= -1
    BY FloorLow
<1>2. QED
    BY <1>1 DEF SearchInv, SearchBase, Known

\* A search step asks for a height strictly between start and end.
LEMMA SearchStepHInv ==
    ASSUME HInv, ~PeerLies, SearchStep
    PROVE  SearchInv' /\ HonestAncestor'
<1>1. InputsFixed /\ SearchInv /\ phase = "search"
    BY DEF HInv, SearchStep
<1>2. start \in Nat /\ end \in Nat /\ start + 1 < end
    BY <1>1, StartAboveFloor DEF SearchStep
<1>3. check' \in Nat /\ start < check' /\ check' < end
    BY <1>2 DEF SearchStep
<1>4. /\ Known' = Known /\ TopVal' = TopVal /\ SearchBase' = SearchBase
      /\ floor' = floor
    BY SameBlocks DEF SearchStep
<1>5. QED
    BY <1>1, <1>3, <1>4 DEF SearchStep, SearchInv, HonestAncestor

\* An honest answer to a search step: a check the local store does not know
\* lies above the floor and so above every common block, and becomes end;
\* a known one is a common block above the floor and becomes start.
LEMMA SearchAnswerHInv ==
    ASSUME HInv, ~PeerLies, SearchAnswer
    PROVE  SearchInv' /\ HonestAncestor'
<1>1. InputsFixed /\ SearchInv /\ phase = "searchWait"
    BY DEF HInv, SearchAnswer
<1>2. /\ start \in Nat /\ end \in Nat /\ start >= floor /\ TopVal < end
      /\ check \in Nat /\ start < check /\ check < end
    BY <1>1, StartAboveFloor DEF SearchInv
<1>3. UNCHANGED <<inputs, floor>>
    <2>1. [Next]_vars
        BY DEF Next
    <2>2. QED
        BY <2>1, InputsStay
<1>4. /\ Known' = Known /\ TopVal' = TopVal /\ SearchBase' = SearchBase
      /\ floor' = floor
    BY <1>3, SameBlocks
<1> DEFINE a0 == [single |-> TRUE, known |-> check \in Known, atCheck |-> TRUE]
<1>5. \/ /\ ~(check \in Known)
         /\ end' = check /\ phase' = "search"
         /\ UNCHANGED <<start, check>>
      \/ /\ check \in Known
         /\ start' = check /\ phase' = "search"
         /\ UNCHANGED <<end, check>>
    <2>1. SearchAnswers = {a0}
        BY DEF SearchAnswers
    <2>2. PICK a \in {a0} :
            \/ ~a.single /\ Finish(0, "badPeer")
            \/ /\ a.single /\ ~a.known
               /\ end' = check /\ phase' = "search"
               /\ UNCHANGED <<inputs, floor, start, check, result, err>>
            \/ a.single /\ a.known /\ ~a.atCheck /\ Finish(0, "badPeer")
            \/ /\ a.single /\ a.known /\ a.atCheck
               /\ start' = check /\ phase' = "search"
               /\ UNCHANGED <<inputs, floor, end, check, result, err>>
        BY <2>1 DEF SearchAnswer
    <2>3. a.single = TRUE /\ a.known = (check \in Known) /\ a.atCheck = TRUE
        BY <2>2
    <2>4. QED
        BY <2>2, <2>3, Zenon
<1>6. check \in Nat /\ check > floor
    <2>1. floor \in Int
        BY <1>1, FloorLow
    <2>2. QED
        BY <1>2, <2>1
<1>7. CASE ~(check \in Known)
    <2>1. TopVal < check
        <3>1. SUFFICES ASSUME check <= TopVal PROVE FALSE
            BY <1>6, <1>1, TopValMax
        <3>2. check \in Known
            BY <1>1, <1>6, <3>1, IntervalAboveFloor
        <3>3. QED
            BY <1>7, <3>2
    <2>2. end' = check /\ phase' = "search" /\ start' = start /\ check' = check
        BY <1>5, <1>7
    <2>3. start = SearchBase \/ (start \in Known /\ start > floor)
        BY <1>1 DEF SearchInv
    <2>4. QED
        BY <1>2, <1>4, <1>6, <2>1, <2>2, <2>3 DEF SearchInv, HonestAncestor
<1>8. CASE check \in Known
    BY <1>2, <1>4, <1>5, <1>6, <1>8 DEF SearchInv, HonestAncestor
<1>9. QED
    BY <1>7, <1>8

\* The end of the search: TopVal < end <= start + 1 leaves TopVal <= start,
\* so start is rejected only when TopVal is at most the floor, and is
\* otherwise a common block, hence TopVal itself.
LEMMA SearchDoneHInv ==
    ASSUME HInv, ~PeerLies, SearchDone
    PROVE  SearchInv' /\ HonestAncestor'
<1>1. InputsFixed /\ SearchInv /\ phase = "search"
    BY DEF HInv, SearchDone
<1>2. start \in Nat /\ end \in Nat /\ start >= floor /\ TopVal < end
    BY <1>1, StartAboveFloor
<1>3. TopVal <= start
    BY <1>1, <1>2, TopValMax DEF SearchDone
<1>4. /\ Known' = Known /\ Top' = Top /\ span' = span /\ floor' = floor
    BY SameBlocks DEF SearchDone, Finish
<1>5. Top = TopVal /\ TopVal \in Nat /\ span[3] \in 1..15
    <2>1. Top = TopVal
        BY <1>1, TopIsTopVal
    <2>2. TopVal \in 0..remoteHeight - 1
        BY <1>1, TopValMax
    <2>3. span[3] \in 1..15
        BY <1>1, SpanGrid
    <2>4. QED
        BY <2>1, <2>2, <2>3
<1>6. floor \in Int
    BY <1>1, FloorLow
<1>7. CASE start <= floor
    <2>1. phase' = "done" /\ err' = "invalidAncestor"
        BY <1>7 DEF SearchDone, Finish
    <2>2. Top' - floor' <= span'[3]
        BY <1>2, <1>3, <1>4, <1>5, <1>6, <1>7
    <2>3. QED
        BY <2>1, <2>2 DEF SearchInv, HonestAncestor
<1>8. CASE ~(start <= floor)
    <2>1. phase' = "done" /\ err' = "none" /\ result' = start
        BY <1>8 DEF SearchDone, Finish
    <2>2. start \in Known
        <3>0. start = SearchBase \/ (start \in Known /\ start > floor)
            BY <1>1 DEF SearchInv
        <3>1. CASE start = SearchBase
            <4>1. start = 0
                BY <1>6, <1>8, <3>1 DEF SearchBase
            <4>2. QED
                BY <1>1, <4>1 DEF InputsFixed, Known
        <3>2. QED
            BY <3>0, <3>1
    <2>3. start <= TopVal
        BY <1>1, <2>2, TopValMax
    <2>4. /\ result' \in Known' /\ result' > floor'
          /\ Top' - result' <= span'[3]
        BY <1>2, <1>3, <1>4, <1>5, <1>6, <1>8, <2>1, <2>2, <2>3
    <2>5. QED
        BY <2>1, <2>4 DEF SearchInv, HonestAncestor
<1>9. QED
    BY <1>7, <1>8

LEMMA NextHInv == HInv /\ [Next]_vars => HInv'
<1> SUFFICES ASSUME HInv, [Next]_vars PROVE HInv'
    OBVIOUS
<1>1. UNCHANGED <<inputs, floor>>
    BY InputsStay
<1>2. /\ InputsFixed' = InputsFixed /\ Known' = Known /\ TopVal' = TopVal
      /\ Top' = Top /\ SearchBase' = SearchBase /\ span' = span
      /\ floor' = floor
    BY <1>1, SameBlocks
<1>3. InputsFixed'
    BY <1>2 DEF HInv
<1>4. phase' \in {"span", "search", "searchWait", "done"}
    <2>1. CASE SpanAnswer
        BY <2>1 DEF SpanAnswer, Finish
    <2>2. CASE SearchAnswer
        BY <2>2 DEF SearchAnswer, Finish
    <2>3. CASE SearchStep \/ SearchDone \/ Timeout \/ Canceled
        BY <2>3 DEF SearchStep, SearchDone, Timeout, Canceled, Finish
    <2>4. CASE UNCHANGED vars
        BY <2>4 DEF vars, HInv
    <2>5. QED
        BY <2>1, <2>2, <2>3, <2>4 DEF Next
<1>5. SearchInv' /\ HonestAncestor'
    <2>1. CASE PeerLies
        BY <2>1 DEF SearchInv, HonestAncestor
    <2>2. CASE ~PeerLies
        <3>1. CASE SpanAnswer
            BY <2>2, <3>1, SpanHInv
        <3>2. CASE SearchStep
            BY <2>2, <3>2, SearchStepHInv
        <3>3. CASE SearchDone
            BY <2>2, <3>3, SearchDoneHInv
        <3>4. CASE SearchAnswer
            BY <2>2, <3>4, SearchAnswerHInv
        <3>5. CASE Timeout \/ Canceled
            BY <3>5, AbortHInv
        <3>6. CASE UNCHANGED vars
            BY <1>2, <3>6 DEF vars, HInv, SearchInv, HonestAncestor
        <3>7. QED
            BY <3>1, <3>2, <3>3, <3>4, <3>5, <3>6 DEF Next
    <2>3. QED
        BY <2>1, <2>2
<1>6. QED
    BY <1>3, <1>4, <1>5 DEF HInv

\* HonestAncestor holds in every reachable state, for every value of the
\* constants: with an honest master peer, findAncestor fails only by
\* timeout, cancellation or errInvalidAncestor with the highest common block
\* at most one stride above the floor, and otherwise returns a common block
\* above the floor at most one stride below the highest.
THEOREM HonestAncestorHolds == Spec => []HonestAncestor
<1>1. Init => HInv
    BY InitHInv
<1>2. HInv /\ [Next]_vars => HInv'
    BY NextHInv
<1>3. HInv => HonestAncestor
    BY DEF HInv
<1>4. QED
    BY <1>1, <1>2, <1>3, PTL DEF Spec

=============================================================================
