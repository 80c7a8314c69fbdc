------------------------------ MODULE QoS_proofs ------------------------------
(***************************************************************************)
(* Proof that the request TTL stays within [2 s * 3, 60 s] and requestRTT *)
(* below it, for any peers, medians within [2 s, 20 s] and bounds, however *)
(* the tuner and the registrations interleave.                             *)
(*                                                                         *)
(* The argument: every value stored into d.rttEstimate is a weighted mean  *)
(* of the estimate and a median, and every value stored into              *)
(* d.rttConfidence is computed from a loaded confidence in                 *)
(* [rttMinConfidence, 1] and stays there (raising half way to 1, scaling   *)
(* by (n-1)/n with the floor, or resetting to 1).  A load may be stale     *)
(* when it is stored, so the invariant bounds the goroutines' local copies *)
(* as well.  The TTL bounds then follow by arithmetic.                     *)
(***************************************************************************)
EXTENDS QoS, FiniteSetTheorems, TLAPS

\* A confidence in [rttMinConfidence, 1].
ConfRange == RttMinConfidence..ConfOne

\* The inductive invariant.
IInv ==
    /\ rttEstimate \in RttMinEstimate..RttMaxEstimate
    /\ rttConfidence \in ConfRange
    /\ tuner \in {"rtt", "confLoad", "confStore", "sleep", "done"}
    /\ tunerConf \in Nat /\ ticks \in 0..MaxTicks /\ regs \in 0..MaxRegs
    /\ registered \subseteq Peers
    /\ reg \in [Peers -> RegPCs]
    /\ regN \in [Peers -> Nat] /\ regConf \in [Peers -> Nat]
    /\ tuner = "confStore" => tunerConf \in ConfRange
    /\ \A p \in Peers : reg[p] = "load" => regN[p] \in 2..QosConfidenceCap
    /\ \A p \in Peers : reg[p] = "store" => regConf[p] \in ConfRange

-----------------------------------------------------------------------------
(* Arithmetic.  The constants are used through ConstFacts only: the SMT    *)
(* back-end is not given their literal values inside intervals.            *)

\* The facts about the constants of downloader.go the proofs need.
LEMMA ConstFacts ==
    /\ ConfOne \in Nat /\ RttMinConfidence \in Nat
    /\ 0 < RttMinConfidence /\ 2 * RttMinConfidence <= ConfOne
    /\ RttMinEstimate = 200 /\ RttMaxEstimate = 2000
    /\ TtlLimit = 6000 /\ TtlScaling = 3
BY DEF ConfOne, RttMinConfidence, RttMinEstimate, RttMaxEstimate, TtlLimit,
   TtlScaling

\* The smoothed estimate lies between the estimate and the median.
LEMMA SmoothBounds ==
    ASSUME NEW r \in RttMinEstimate..RttMaxEstimate,
           NEW m \in RttMinEstimate..RttMaxEstimate
    PROVE  (3 * r + m) \div 4 \in RttMinEstimate..RttMaxEstimate
BY DEF RttMinEstimate, RttMaxEstimate

\* Raising half way to 1 keeps a confidence in range.
LEMMA RaiseBounds ==
    ASSUME NEW c \in ConfRange
    PROVE  c + (ConfOne - c) \div 2 \in ConfRange
BY ConstFacts DEF ConfRange

\* Scaling by (n-1)/n does not raise a confidence.
LEMMA ScaleBelow ==
    ASSUME NEW c \in Nat, NEW n \in Nat, n >= 1
    PROVE  (c * (n - 1)) \div n \in 0..c
<1>1. c * (n - 1) \in Nat /\ c * (n - 1) <= c * n
    OBVIOUS
<1>2. (c * (n - 1)) \div n \in Nat
    BY <1>1
<1>3. (c * (n - 1)) \div n <= c
    BY <1>1
<1>4. QED
    BY <1>2, <1>3

\* qosReduceConfidence's new value is in range.
LEMMA ReduceBounds ==
    ASSUME NEW c \in ConfRange, NEW n \in Nat, n >= 2
    PROVE  LET conf == (c * (n - 1)) \div n
           IN  (IF conf < RttMinConfidence THEN RttMinConfidence ELSE conf)
                   \in ConfRange
<1>1. (c * (n - 1)) \div n \in 0..c
    BY ScaleBelow, ConstFacts DEF ConfRange
<1>2. QED
    BY <1>1, ConstFacts DEF ConfRange

\* Dividing by a confidence of at most 1 does not shorten a duration.
LEMMA DivideConf ==
    ASSUME NEW r \in Nat, NEW c \in ConfRange
    PROVE  (r * ConfOne) \div c >= r
<1>1. c \in 1..ConfOne
    BY ConstFacts DEF ConfRange
<1>2. r * c <= r * ConfOne
    BY <1>1, ConstFacts
<1>3. QED
    BY <1>1, <1>2, ConstFacts

-----------------------------------------------------------------------------
(* The invariant.                                                          *)

LEMMA InitIInv == Init => IInv
BY Assumptions, ConstFacts DEF Init, IInv, ConfRange, RegPCs

LEMMA NextIInv == IInv /\ [Next]_vars => IInv'
<1> SUFFICES ASSUME IInv, [Next]_vars PROVE IInv'
    OBVIOUS
<1>1. CASE TunerRTT
    BY <1>1, SmoothBounds, Assumptions DEF TunerRTT, IInv
<1>2. CASE TunerConfLoad
    BY <1>2, ConstFacts DEF TunerConfLoad, IInv, ConfRange
<1>3. CASE TunerConfStore
    BY <1>3, RaiseBounds DEF TunerConfStore, IInv
<1>4. CASE TunerSleep
    BY <1>4, Assumptions DEF TunerSleep, IInv
<1>5. CASE TunerQuit
    BY <1>5 DEF TunerQuit, IInv
<1>6. ASSUME NEW p \in Peers, RegisterPeer(p) PROVE IInv'
    BY <1>6, Assumptions DEF RegisterPeer, IInv, RegPCs
<1>7. ASSUME NEW p \in Peers, ReduceLen(p) PROVE IInv'
    <2>1. Cardinality(registered) \in Nat
        BY Assumptions, FS_Subset, FS_CardinalityType DEF IInv
    <2>2. QED
        BY <1>7, <2>1, Assumptions DEF ReduceLen, IInv, RegPCs
<1>8. ASSUME NEW p \in Peers, ReduceReset(p) PROVE IInv'
    BY <1>8, ConstFacts DEF ReduceReset, IInv, RegPCs, ConfRange
<1>9. ASSUME NEW p \in Peers, ReduceLoad(p) PROVE IInv'
    <2>1. regN[p] \in 2..QosConfidenceCap
        BY <1>9 DEF ReduceLoad, IInv
    <2>2. LET conf == (rttConfidence * (regN[p] - 1)) \div regN[p]
          IN  (IF conf < RttMinConfidence THEN RttMinConfidence ELSE conf)
                  \in ConfRange
        BY <2>1, ReduceBounds DEF IInv
    <2>3. QED
        BY <1>9, <2>2, ConstFacts DEF ReduceLoad, IInv, RegPCs, ConfRange
<1>10. ASSUME NEW p \in Peers, ReduceStore(p) PROVE IInv'
    BY <1>10 DEF ReduceStore, IInv, RegPCs
<1>11. ASSUME NEW p \in Peers, UnregisterPeer(p) PROVE IInv'
    BY <1>11 DEF UnregisterPeer, IInv
<1>12. CASE UNCHANGED vars
    BY <1>12 DEF vars, IInv
<1>13. QED
    BY <1>1, <1>2, <1>3, <1>4, <1>5, <1>6, <1>7, <1>8, <1>9, <1>10, <1>11,
       <1>12 DEF Next

-----------------------------------------------------------------------------

\* The invariant bounds the request TTL and the request RTT.
LEMMA IInvBounds == IInv => QoSBounds
<1> SUFFICES ASSUME IInv PROVE QoSBounds
    OBVIOUS
<1> DEFINE x == (rttEstimate * ConfOne) \div rttConfidence
<1>1. x >= rttEstimate
    BY DivideConf, ConstFacts DEF IInv
<1>2. x \in Nat
    BY ConstFacts DEF IInv, ConfRange
<1>3. RequestRTT <= rttEstimate
    BY ConstFacts DEF RequestRTT, IInv
<1>4. RequestTTL = IF TtlScaling * x > TtlLimit THEN TtlLimit ELSE TtlScaling * x
    BY DEF RequestTTL
<1>5. rttEstimate \in 200..2000
    BY ConstFacts DEF IInv
<1> HIDE DEF x
<1>6. RequestTTL \in 600..6000
    BY <1>1, <1>2, <1>4, <1>5, ConstFacts
<1>7. RequestRTT <= RequestTTL
    <2>1. RequestRTT \in Int
        BY ConstFacts DEF RequestRTT, IInv
    <2>2. CASE TtlScaling * x > TtlLimit
        BY <2>1, <2>2, <1>3, <1>4, <1>5, ConstFacts
    <2>3. CASE ~(TtlScaling * x > TtlLimit)
        BY <2>1, <2>3, <1>1, <1>2, <1>3, <1>4, <1>5, ConstFacts
    <2>4. QED
        BY <2>2, <2>3
<1>8. QED
    BY <1>6, <1>7, ConstFacts DEF QoSBounds

\* The invariant implies the type invariant.
LEMMA IInvTypeOK == IInv => TypeOK
BY DEF IInv, TypeOK, ConfRange

\* Every reachable state of the tuner and the registrations is well typed:
\* in particular the estimate stays in [2 s, 20 s] and the confidence in
\* [rttMinConfidence, 1], however stale the goroutines' loaded copies are.
THEOREM TypeCorrect == Spec => []TypeOK
<1>1. Spec => []IInv
    BY InitIInv, NextIInv, PTL DEF Spec
<1>2. QED
    BY <1>1, IInvTypeOK, PTL

\* requestTTL stays within [2 s * 3, 60 s] and requestRTT below it in every
\* reachable state of the tuner and any number of registering peers.
THEOREM TTLBounded == Spec => []QoSBounds
<1>1. Spec => []IInv
    BY InitIInv, NextIInv, PTL DEF Spec
<1>2. QED
    BY <1>1, IInvBounds, PTL
=============================================================================
