---------------------------- MODULE AncestorSpec ----------------------------
(***************************************************************************)
(* What findAncestor promises its caller syncWithPeer: it returns once,    *)
(* either an error or a block above the floor that the local store holds  *)
(* and that the peer claims (a block of both chains when the peer is      *)
(* honest).  The candidates and the floor are fixed for one search.       *)
(***************************************************************************)
EXTENDS Integers

VARIABLES
    claimable, \* the heights findAncestor may return
    lowBound,  \* the floor: a returned height lies above it
    done,      \* whether findAncestor has returned
    result,    \* the returned height
    err        \* the returned error, "none" on success

avars == <<claimable, lowBound, done, result, err>>

Failures == {"canceled", "timeout", "emptyHeaderSet", "invalidChain",
             "badPeer", "invalidAncestor"}

Init ==
    /\ claimable \subseteq Nat /\ lowBound \in Int
    /\ done = FALSE /\ result = 0 /\ err = "none"

\* findAncestor returns: a claimable height above the floor, or an error.
Locate ==
    /\ ~done /\ done'
    /\ \/ result' \in claimable /\ result' > lowBound /\ err' = "none"
       \/ result' = 0 /\ err' \in Failures
    /\ UNCHANGED <<claimable, lowBound>>

Spec == Init /\ [][Locate]_avars
=============================================================================
