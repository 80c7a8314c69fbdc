--------------------------------- MODULE QoS ---------------------------------
(***************************************************************************)
(* The QoS tuner of the downloader (src/eth/downloader/downloader.go):     *)
(* d.rttEstimate and d.rttConfidence, the qosTuner goroutine, the          *)
(* qosReduceConfidence call of every RegisterPeer, and the requestRTT and  *)
(* requestTTL values derived from them.                                    *)
(*                                                                         *)
(* Each atomic load or store of the code is a step of its own: the tuner   *)
(* and the registering peers' goroutines interleave between them.         *)
(* Durations are in units of 10 ms; the confidence is in millionths, as in *)
(* the code.  peers.medianRTT (peer.go) returns a value of Medians.        *)
(***************************************************************************)
EXTENDS Integers, FiniteSets

CONSTANTS
    Peers,       \* the peer ids that register and unregister
    Medians,     \* the values peers.medianRTT may return
    MaxTicks,    \* bound on the tuner's iterations
    MaxRegs,     \* bound on the number of RegisterPeer calls
    QosConfidenceCap \* qosConfidenceCap (10)

\* The constants of downloader.go in the model's units.
RttMinEstimate == 200      \* 2 s
RttMaxEstimate == 2000     \* 20 s
TtlLimit       == 6000     \* time.Minute
TtlScaling     == 3
ConfOne        == 1000000
RttMinConfidence == 100000 \* uint64(0.1 * 1000000)

ASSUME Assumptions ==
    /\ IsFiniteSet(Peers)
    /\ Medians \subseteq RttMinEstimate..RttMaxEstimate /\ Medians # {}
    /\ MaxTicks \in Nat /\ MaxRegs \in Nat
    /\ QosConfidenceCap \in Nat /\ QosConfidenceCap >= 2

VARIABLES
    rttEstimate,   \* d.rttEstimate
    rttConfidence, \* d.rttConfidence
    tuner,         \* the qosTuner loop: "rtt", "confLoad", "confStore", "sleep"
                   \* or "done" once d.quitCh is closed
    tunerConf,     \* the tuner's local conf
    ticks,         \* iterations of the tuner loop
    registered,    \* the peer set d.peers
    reg,           \* each peer goroutine's place in RegisterPeer
    regN,          \* its local peers (d.peers.Len())
    regConf,       \* its local conf
    regs           \* RegisterPeer calls so far

vars == <<rttEstimate, rttConfidence, tuner, tunerConf, ticks, registered,
          reg, regN, regConf, regs>>

RegPCs == {"idle", "len", "reset", "load", "store"}

Init ==
    /\ rttEstimate = RttMaxEstimate
    /\ rttConfidence = ConfOne
    /\ tuner = "rtt" /\ tunerConf = 0 /\ ticks = 0
    /\ registered = {}
    /\ reg = [p \in Peers |-> "idle"]
    /\ regN = [p \in Peers |-> 0]
    /\ regConf = [p \in Peers |-> 0]
    /\ regs = 0

-----------------------------------------------------------------------------
(* qosTuner.                                                               *)

\* rtt := 0.75 * rttEstimate + 0.25 * medianRTT, stored.
TunerRTT ==
    /\ tuner = "rtt"
    /\ \E m \in Medians : rttEstimate' = (3 * rttEstimate + m) \div 4
    /\ tuner' = "confLoad"
    /\ UNCHANGED <<rttConfidence, tunerConf, ticks, registered, reg, regN, regConf, regs>>

TunerConfLoad ==
    /\ tuner = "confLoad"
    /\ tunerConf' = rttConfidence
    /\ tuner' = "confStore"
    /\ UNCHANGED <<rttEstimate, rttConfidence, ticks, registered, reg, regN, regConf, regs>>

\* conf = conf + (1000000 - conf) / 2, stored.
TunerConfStore ==
    /\ tuner = "confStore"
    /\ rttConfidence' = tunerConf + (ConfOne - tunerConf) \div 2
    /\ tuner' = "sleep"
    /\ UNCHANGED <<rttEstimate, tunerConf, ticks, registered, reg, regN, regConf, regs>>

\* The wait of time.After(rtt); the loop starts over.
TunerSleep ==
    /\ tuner = "sleep" /\ ticks < MaxTicks
    /\ tuner' = "rtt" /\ ticks' = ticks + 1
    /\ UNCHANGED <<rttEstimate, rttConfidence, tunerConf, registered, reg, regN, regConf, regs>>

-----------------------------------------------------------------------------
(* RegisterPeer, qosReduceConfidence and UnregisterPeer.                   *)

RegisterPeer(p) ==
    /\ reg[p] = "idle" /\ p \notin registered /\ regs < MaxRegs
    /\ registered' = registered \cup {p}
    /\ reg' = [reg EXCEPT ![p] = "len"]
    /\ regs' = regs + 1
    /\ UNCHANGED <<rttEstimate, rttConfidence, tuner, tunerConf, ticks, regN, regConf>>

\* peers := d.peers.Len(), and the early returns on it.
ReduceLen(p) ==
    /\ reg[p] = "len"
    /\ LET n == Cardinality(registered)
       IN  /\ regN' = [regN EXCEPT ![p] = n]
           /\ reg' = [reg EXCEPT ![p] =
                        IF n = 0 \/ n >= QosConfidenceCap THEN "idle"
                        ELSE IF n = 1 THEN "reset" ELSE "load"]
    /\ UNCHANGED <<rttEstimate, rttConfidence, tuner, tunerConf, ticks, registered, regConf, regs>>

\* A single peer: the confidence is stored as 1.
ReduceReset(p) ==
    /\ reg[p] = "reset"
    /\ rttConfidence' = ConfOne
    /\ reg' = [reg EXCEPT ![p] = "idle"]
    /\ UNCHANGED <<rttEstimate, tuner, tunerConf, ticks, registered, regN, regConf, regs>>

\* Fault model: the floor at rttMinConfidence is missing.
ReduceLoadNoFloor(p) ==
    /\ reg[p] = "load"
    /\ regConf' = [regConf EXCEPT ![p] = (rttConfidence * (regN[p] - 1)) \div regN[p]]
    /\ reg' = [reg EXCEPT ![p] = "store"]
    /\ UNCHANGED <<rttEstimate, rttConfidence, tuner, tunerConf, ticks, registered, regN, regs>>

\* conf := load * (peers - 1) / peers, raised to rttMinConfidence.
ReduceLoad(p) ==
    /\ reg[p] = "load"
    /\ LET conf == (rttConfidence * (regN[p] - 1)) \div regN[p]
       IN  regConf' = [regConf EXCEPT ![p] =
                          IF conf < RttMinConfidence THEN RttMinConfidence ELSE conf]
    /\ reg' = [reg EXCEPT ![p] = "store"]
    /\ UNCHANGED <<rttEstimate, rttConfidence, tuner, tunerConf, ticks, registered, regN, regs>>

ReduceStore(p) ==
    /\ reg[p] = "store"
    /\ rttConfidence' = regConf[p]
    /\ reg' = [reg EXCEPT ![p] = "idle"]
    /\ UNCHANGED <<rttEstimate, tuner, tunerConf, ticks, registered, regN, regConf, regs>>

\* The peer is dropped (by its handler or by the downloader's dropPeer),
\* possibly while its RegisterPeer call is still reducing the confidence.
UnregisterPeer(p) ==
    /\ p \in registered
    /\ registered' = registered \ {p}
    /\ UNCHANGED <<rttEstimate, rttConfidence, tuner, tunerConf, ticks, reg, regN, regConf, regs>>

\* Terminate closes d.quitCh: the tuner returns from its wait.
TunerQuit ==
    /\ tuner = "sleep"
    /\ tuner' = "done"
    /\ UNCHANGED <<rttEstimate, rttConfidence, tunerConf, ticks, registered, reg, regN, regConf, regs>>

Next ==
    \/ TunerRTT \/ TunerConfLoad \/ TunerConfStore \/ TunerSleep \/ TunerQuit
    \/ \E p \in Peers :
          \/ RegisterPeer(p) \/ ReduceLen(p) \/ ReduceReset(p)
          \/ ReduceLoad(p) \/ ReduceStore(p) \/ UnregisterPeer(p)

Spec == Init /\ [][Next]_vars

-----------------------------------------------------------------------------
(* The derived timeouts.                                                   *)

\* requestRTT: 0.9 of the estimate.
RequestRTT == (rttEstimate * 9) \div 10

\* Fault model: the TTL is not capped at ttlLimit.
RequestTTLNoLimit == TtlScaling * ((rttEstimate * ConfOne) \div rttConfidence)

\* requestTTL: 3 * rtt / conf, capped at ttlLimit.
RequestTTL ==
    LET ttl == TtlScaling * ((rttEstimate * ConfOne) \div rttConfidence)
    IN  IF ttl > TtlLimit THEN TtlLimit ELSE ttl

-----------------------------------------------------------------------------
(* Properties.                                                             *)

\* The estimate stays in [rttMinEstimate, rttMaxEstimate] and the
\* confidence in [rttMinConfidence, 1] (specification section 4.1).
TypeOK ==
    /\ rttEstimate \in RttMinEstimate..RttMaxEstimate
    /\ rttConfidence \in RttMinConfidence..ConfOne
    /\ tuner \in {"rtt", "confLoad", "confStore", "sleep", "done"}
    /\ tunerConf \in Nat /\ ticks \in 0..MaxTicks
    /\ registered \subseteq Peers
    /\ reg \in [Peers -> RegPCs]
    /\ regN \in [Peers -> Nat] /\ regConf \in [Peers -> Nat]
    /\ regs \in 0..MaxRegs

\* Specification section 4.1, invariant 6: whatever the tuner and the
\* registrations interleave, the request TTL the fetchers and findAncestor
\* wait for stays within [2 s * 3, 60 s] and requestRTT (the capacity
\* pacing) does not exceed it.
QoSBounds ==
    /\ RequestTTL \in TtlScaling * RttMinEstimate..TtlLimit
    /\ RequestRTT <= RequestTTL

Abstract == INSTANCE QoSSpec
    WITH rtt <- rttEstimate, conf <- rttConfidence,
         ConfOne <- ConfOne, MinConf <- RttMinConfidence,
         ConfCap <- QosConfidenceCap

\* Specification section 4.1: each update of the confidence by the tuner
\* or by qosReduceConfidence is one of the atomic updates of QoSSpec
\* applied to the current confidence.
ImplementsQoSSpec == Abstract!Spec
=============================================================================
