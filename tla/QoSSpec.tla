------------------------------- MODULE QoSSpec -------------------------------
(***************************************************************************)
(* The QoS estimator as specification section 4.1 describes it: the RTT  *)
(* estimate and the confidence, each operation applied atomically.  The    *)
(* tuner smooths the estimate towards a peer median and raises the         *)
(* confidence half way to 1; a registration resets the confidence to 1    *)
(* (one peer) or scales it by (N-1)/N with a floor (1 < N < cap).  The     *)
(* peer count N is not tracked here: any N of that range is allowed.       *)
(* Durations and the confidence use the units of QoS.                      *)
(***************************************************************************)
EXTENDS Integers

CONSTANTS
    Medians,     \* the values peers.medianRTT may return
    ConfOne,     \* confidence 1
    MinConf,     \* rttMinConfidence
    ConfCap      \* qosConfidenceCap

VARIABLES
    rtt,         \* the RTT estimate
    conf         \* the confidence

qvars == <<rtt, conf>>

Raised(c) == c + (ConfOne - c) \div 2

Reduced(c, n) == IF (c * (n - 1)) \div n < MinConf THEN MinConf
                 ELSE (c * (n - 1)) \div n

Init == rtt \in Nat /\ conf \in MinConf..ConfOne

\* One tuner tick, in two atomic parts.
SmoothRTT == \E m \in Medians : rtt' = (3 * rtt + m) \div 4 /\ conf' = conf
RaiseConf == conf' = Raised(conf) /\ rtt' = rtt

\* qosReduceConfidence applied atomically.
ReduceConf ==
    /\ \/ conf' = ConfOne
       \/ \E n \in 2..ConfCap - 1 : conf' = Reduced(conf, n)
    /\ rtt' = rtt

Next == SmoothRTT \/ RaiseConf \/ ReduceConf

Spec == Init /\ [][Next]_qvars
=============================================================================
