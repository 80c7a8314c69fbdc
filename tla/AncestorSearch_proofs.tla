------------------------ MODULE AncestorSearch_proofs ------------------------
(***************************************************************************)
(* Proof that the head locator (findAncestor) implements AncestorSpec for *)
(* every value of the constants, honest or lying peer: it returns once,    *)
(* and a returned height lies above the floor and is one the local store   *)
(* holds (one both chains have when the peer is honest).                   *)
(*                                                                         *)
(* The argument: the inputs and hence Claimable and the floor never change *)
(* during a search; the binary search keeps start either at or below the   *)
(* floor (its first value when floor > 0) or at a claimable height (0, or  *)
(* a check the peer answered as known), so the final floor check of start  *)
(* leaves only claimable heights above the floor.                          *)
(***************************************************************************)
EXTENDS AncestorSearch, TLAPS

\* While the binary search runs, start is claimable or at most the floor.
StartBound ==
    phase \in {"search", "searchWait"} => start \in Claimable \/ start <= floor

\* The inductive invariant: the shape of the state and StartBound.
IInv ==
    /\ phase \in {"span", "search", "searchWait", "done"}
    /\ remoteHeight \in Nat /\ localHeight \in Nat
    /\ lowest \in Nat /\ anc \in Nat
    /\ floor \in Int /\ start \in Int /\ check \in Int
    /\ StartBound

-----------------------------------------------------------------------------

\* Floor(...) is an integer, whatever the mode.
LEMMA FloorInt ==
    ASSUME NEW m, NEW local \in Nat, NEW low \in Nat
    PROVE  Floor(m, local, low) \in Int
BY Assumptions DEF Floor, MaxOf

\* Every claimable height is a natural number and 0 is always claimable.
LEMMA ClaimableNat ==
    ASSUME remoteHeight \in Nat, lowest \in Nat
    PROVE  /\ Claimable \subseteq Nat
           /\ 0 \in Claimable
BY DEF Claimable, Known, LocalHas, MaxOf

\* The inputs fix the claimable heights.
LEMMA ClaimableFixed ==
    ASSUME UNCHANGED inputs
    PROVE  Claimable' = Claimable
BY DEF inputs, Claimable, Known, LocalHas

\* The fields of a span answer the search reads are typed, and a header
\* the answer shows as known is at a claimable height.
LEMMA SpanAnswersType ==
    ASSUME remoteHeight \in Nat, lowest \in Nat
    PROVE  \A a \in SpanAnswers :
               /\ a.top \in Int /\ a.ordered \in BOOLEAN
               /\ a.top >= 0 => a.top \in Claimable
<1>1. Known \subseteq Int /\ LocalHas \subseteq Int
    BY DEF Known, LocalHas, MaxOf
<1> TAKE a \in SpanAnswers
<1>2. CASE PeerLies
    <2>1. PICK k \in 0..span[2] :
            a \in {[n |-> k, ordered |-> o, top |-> t] :
                    o \in BOOLEAN, t \in {-1} \cup (Prefix(k) \cap LocalHas)}
        BY <1>2 DEF SpanAnswers, LiedSpanAnswers
    <2>2. PICK o \in BOOLEAN, t \in {-1} \cup (Prefix(k) \cap LocalHas) :
            a = [n |-> k, ordered |-> o, top |-> t]
        BY <2>1
    <2>3. QED
        BY <1>1, <1>2, <2>2 DEF Claimable
<1>3. CASE ~PeerLies
    <2>1. PICK t \in {-1} \cup Known :
            a = [n |-> HonestCount, ordered |-> TRUE, top |-> t]
        BY <1>3 DEF SpanAnswers
    <2>2. QED
        BY <1>1, <1>3, <2>1 DEF Claimable
<1>4. QED
    BY <1>2, <1>3, Assumptions

\* A search answer is three Booleans, and an answer of a known header at
\* the requested height is one of a height the local store holds (a
\* common one when the peer is honest).
LEMMA SearchAnswersType ==
    \A a \in SearchAnswers :
        /\ a.single \in BOOLEAN /\ a.known \in BOOLEAN /\ a.atCheck \in BOOLEAN
        /\ a.known /\ a.atCheck => check \in Claimable
<1> TAKE a \in SearchAnswers
<1>1. CASE PeerLies
    <2>1. a \in [single : BOOLEAN, known : BOOLEAN, atCheck : BOOLEAN]
          /\ (a.known /\ a.atCheck => check \in LocalHas)
        BY <1>1 DEF SearchAnswers
    <2>2. QED
        BY <2>1, <1>1 DEF Claimable
<1>2. CASE ~PeerLies
    <2>1. a = [single |-> TRUE, known |-> check \in Known, atCheck |-> TRUE]
        BY <1>2 DEF SearchAnswers
    <2>2. a.known = (check \in Known) /\ a.single = TRUE /\ a.atCheck = TRUE
        BY <2>1
    <2>3. Claimable = Known
        BY <1>2 DEF Claimable
    <2>4. a.single \in BOOLEAN /\ a.known \in BOOLEAN /\ a.atCheck \in BOOLEAN
        <3>1. (check \in Known) \in BOOLEAN
            OBVIOUS
        <3>2. QED
            BY <2>2, <3>1, Zenon
    <2>5. a.known /\ a.atCheck => check \in Claimable
        BY <2>2, <2>3
    <2>6. QED
        BY <2>4, <2>5
<1>3. QED
    BY <1>1, <1>2, Assumptions

LEMMA InitIInv == Init => IInv
<1> SUFFICES ASSUME Init PROVE IInv
    OBVIOUS
<1>1. remoteHeight \in Nat /\ localHeight \in Nat /\ lowest \in Nat /\ anc \in Nat
    BY Assumptions DEF Init, Heights, MaxOf, MinOf
<1>2. floor \in Int
    BY <1>1, FloorInt DEF Init
<1>3. QED
    BY <1>1, <1>2 DEF Init, IInv, StartBound

\* The steps of Next that end the search.
LEMMA FinishIInv ==
    ASSUME IInv, NEW r, NEW e, Finish(r, e)
    PROVE  IInv'
BY DEF IInv, Finish, inputs, StartBound, Claimable, Known, LocalHas

LEMMA NextIInv == IInv /\ [Next]_vars => IInv'
<1> SUFFICES ASSUME IInv, [Next]_vars PROVE IInv'
    OBVIOUS
<1>1. CASE SpanAnswer
    <2>1. PICK a \in SpanAnswers :
            \/ a.n = 0 /\ Finish(0, "emptyHeaderSet")
            \/ a.n > 0 /\ ~a.ordered /\ Finish(0, "invalidChain")
            \/ /\ a.n > 0 /\ a.ordered /\ a.top >= 0
               /\ IF a.top <= floor THEN Finish(0, "invalidAncestor")
                                    ELSE Finish(a.top, "none")
            \/ /\ a.n > 0 /\ a.ordered /\ a.top < 0
               /\ phase' = "search"
               /\ start' = IF floor > 0 THEN floor ELSE 0
               /\ end' = remoteHeight
               /\ UNCHANGED <<inputs, floor, check, result, err>>
        BY <1>1 DEF SpanAnswer
    <2>2. CASE a.n > 0 /\ a.ordered /\ a.top < 0
        <3>0. ~(a.n = 0) /\ ~(a.top >= 0) /\ a.ordered = TRUE
            BY <2>1, <2>2, SpanAnswersType DEF IInv
        <3>1. /\ phase' = "search"
              /\ start' = IF floor > 0 THEN floor ELSE 0
              /\ UNCHANGED <<inputs, floor, check, result, err>>
            BY <2>1, <2>2, <3>0, Zenon
        <3>2. 0 \in Claimable'
            BY <3>1, ClaimableNat, ClaimableFixed DEF IInv
        <3>3. QED
            BY <3>1, <3>2 DEF IInv, inputs, StartBound
    <2>3. QED
        BY <2>1, <2>2, FinishIInv
<1>2. CASE SearchStep
    BY <1>2 DEF SearchStep, IInv, inputs, StartBound, Claimable, Known, LocalHas
<1>3. CASE SearchDone
    BY <1>3, FinishIInv DEF SearchDone
<1>4. CASE SearchAnswer
    <2>1. PICK a \in SearchAnswers :
            \/ ~a.single /\ Finish(0, "badPeer")
            \/ /\ a.single /\ ~a.known
               /\ end' = check /\ phase' = "search"
               /\ UNCHANGED <<inputs, floor, start, check, result, err>>
            \/ a.single /\ a.known /\ ~a.atCheck /\ Finish(0, "badPeer")
            \/ /\ a.single /\ a.known /\ a.atCheck
               /\ start' = check /\ phase' = "search"
               /\ UNCHANGED <<inputs, floor, end, check, result, err>>
        BY <1>4 DEF SearchAnswer
    <2>0. a.single \in BOOLEAN /\ a.known \in BOOLEAN /\ a.atCheck \in BOOLEAN
          /\ (a.known /\ a.atCheck => check \in Claimable)
        BY <2>1, SearchAnswersType
    <2>2. CASE a.single /\ ~a.known
        <3>1. /\ phase' = "search"
              /\ UNCHANGED <<inputs, floor, start, check, result, err>>
            BY <2>0, <2>1, <2>2, Zenon
        <3>2. QED
            BY <1>4, <3>1, ClaimableFixed DEF SearchAnswer, IInv, inputs, StartBound
    <2>3. CASE a.single /\ a.known /\ a.atCheck
        <3>3. /\ phase' = "search" /\ start' = check
              /\ UNCHANGED <<inputs, floor, end, check, result, err>>
            BY <2>0, <2>1, <2>3, Zenon
        \* The peer answered the check as a known header: check is claimable.
        <3>4. check \in Claimable
            BY <2>0, <2>3
        <3>5. QED
            BY <3>3, <3>4, ClaimableFixed DEF IInv, inputs, StartBound
    <2>4. CASE \E r, e : Finish(r, e)
        BY <2>4, FinishIInv
    <2>5. QED
        BY <2>0, <2>1, <2>2, <2>3, <2>4, Zenon
<1>5. CASE Timeout
    BY <1>5, FinishIInv DEF Timeout
<1>6. CASE Canceled
    BY <1>6, FinishIInv DEF Canceled
<1>7. CASE UNCHANGED vars
    BY <1>7 DEF vars, IInv, StartBound, Claimable, Known, LocalHas
<1>8. QED
    BY <1>1, <1>2, <1>3, <1>4, <1>5, <1>6, <1>7 DEF Next
-----------------------------------------------------------------------------
(* The refinement.                                                         *)

\* A step that ends the search with a result the abstract search allows is
\* a Locate step.
LEMMA FinishRefines ==
    ASSUME IInv, phase # "done", NEW r, NEW e, Finish(r, e),
           \/ r \in Claimable /\ r > floor /\ e = "none"
           \/ r = 0 /\ e \in Abstract!Failures
    PROVE  Abstract!Locate
<1>1. UNCHANGED inputs /\ floor' = floor
    BY DEF Finish
<1>2. QED
    BY <1>1, ClaimableFixed DEF Finish, Abstract!Locate

\* A step that leaves phase, result and err as they are and does not end
\* the search is a stutter of the abstract search.
LEMMA StutterRefines ==
    ASSUME UNCHANGED <<inputs, floor, result, err>>,
           phase # "done", phase' # "done"
    PROVE  UNCHANGED Abstract!avars
BY ClaimableFixed DEF Abstract!avars

LEMMA StepRefines ==
    IInv /\ [Next]_vars => [Abstract!Locate]_Abstract!avars
<1> SUFFICES ASSUME IInv, [Next]_vars
             PROVE  [Abstract!Locate]_Abstract!avars
    OBVIOUS
<1>1. CASE SpanAnswer
    <2>1. PICK a \in SpanAnswers :
            \/ a.n = 0 /\ Finish(0, "emptyHeaderSet")
            \/ a.n > 0 /\ ~a.ordered /\ Finish(0, "invalidChain")
            \/ /\ a.n > 0 /\ a.ordered /\ a.top >= 0
               /\ IF a.top <= floor THEN Finish(0, "invalidAncestor")
                                    ELSE Finish(a.top, "none")
            \/ /\ a.n > 0 /\ a.ordered /\ a.top < 0
               /\ phase' = "search"
               /\ start' = IF floor > 0 THEN floor ELSE 0
               /\ end' = remoteHeight
               /\ UNCHANGED <<inputs, floor, check, result, err>>
        BY <1>1 DEF SpanAnswer
    <2>2. phase = "span"
        BY <1>1 DEF SpanAnswer
    <2>3. /\ a.top \in Int /\ a.ordered \in BOOLEAN
          /\ a.top >= 0 => a.top \in Claimable
        BY <2>1, SpanAnswersType DEF IInv
    <2>4. CASE a.top >= 0 /\ a.top > floor /\ Finish(a.top, "none")
        BY <2>2, <2>3, <2>4, FinishRefines
    <2>5. CASE \E e \in Abstract!Failures : Finish(0, e)
        BY <2>2, <2>5, FinishRefines
    <2>6. CASE a.top < 0 /\ phase' = "search"
               /\ UNCHANGED <<inputs, floor, check, result, err>>
        BY <2>2, <2>6, StutterRefines
    <2>7. CASE a.n = 0 /\ Finish(0, "emptyHeaderSet")
        BY <2>5, <2>7 DEF Abstract!Failures
    <2>8. CASE a.n > 0 /\ ~a.ordered /\ Finish(0, "invalidChain")
        BY <2>5, <2>8 DEF Abstract!Failures
    <2>9. CASE /\ a.n > 0 /\ a.ordered /\ a.top >= 0
               /\ IF a.top <= floor THEN Finish(0, "invalidAncestor")
                                    ELSE Finish(a.top, "none")
        <3>1. CASE a.top <= floor
            BY <2>5, <2>9, <3>1 DEF Abstract!Failures
        <3>2. CASE ~(a.top <= floor)
            BY <2>3, <2>4, <2>9, <3>2 DEF IInv
        <3>3. QED
            BY <3>1, <3>2
    <2>10. CASE /\ a.n > 0 /\ a.ordered /\ a.top < 0
                /\ phase' = "search"
                /\ start' = IF floor > 0 THEN floor ELSE 0
                /\ end' = remoteHeight
                /\ UNCHANGED <<inputs, floor, check, result, err>>
        BY <2>6, <2>10
    <2>11. QED
        BY <2>1, <2>7, <2>8, <2>9, <2>10
<1>2. CASE SearchStep
    BY <1>2, StutterRefines DEF SearchStep
<1>3. CASE SearchDone
    <2>1. phase = "search"
        BY <1>3 DEF SearchDone
    <2>2. CASE start <= floor
        BY <1>3, <2>1, <2>2, FinishRefines DEF SearchDone, Abstract!Failures
    <2>3. CASE ~(start <= floor)
        <3>1. start \in Claimable /\ start > floor
            BY <2>1, <2>3 DEF IInv, StartBound
        <3>2. QED
            BY <1>3, <2>1, <2>3, <3>1, FinishRefines DEF SearchDone
    <2>4. QED
        BY <2>2, <2>3
<1>4. CASE SearchAnswer
    <2>1. phase = "searchWait"
        BY <1>4 DEF SearchAnswer
    <2>2. CASE Finish(0, "badPeer")
        BY <2>1, <2>2, FinishRefines DEF Abstract!Failures
    <2>3. CASE phase' = "search" /\ UNCHANGED <<inputs, floor, result, err>>
        BY <2>1, <2>3, StutterRefines
    <2>4. QED
        BY <1>4, <2>2, <2>3 DEF SearchAnswer
<1>5. CASE Timeout
    BY <1>5, FinishRefines DEF Timeout, Abstract!Failures
<1>6. CASE Canceled
    BY <1>6, FinishRefines DEF Canceled, Abstract!Failures
<1>7. CASE UNCHANGED vars
    BY <1>7, ClaimableFixed DEF vars, inputs, Abstract!avars
<1>8. QED
    BY <1>1, <1>2, <1>3, <1>4, <1>5, <1>6, <1>7 DEF Next

\* findAncestor implements its contract for every value of the constants
\* and against an honest or a lying peer: from a search's start, it ends
\* at most once, with an error or with a height the local store holds (a
\* common block when the peer is honest) above the floor of the
\* immutability threshold and the light client's checkpoint.
THEOREM Refinement == Spec => ImplementsAncestorSpec
<1>1. Init => Abstract!Init
    BY InitIInv, ClaimableNat DEF Init, IInv, Abstract!Init
<1>2. Spec => []IInv
    BY InitIInv, NextIInv, PTL DEF Spec
<1>3. QED
    BY <1>1, <1>2, StepRefines, PTL DEF Spec, ImplementsAncestorSpec, Abstract!Spec
-----------------------------------------------------------------------------
(* Type correctness.  TypeOK is inductive as it stands; the initial state *)
(* needs the ranges of calculateRequestSpan and of the floor.              *)

\* calculateRequestSpan asks for 2..MaxHeaderFetch/16 headers from a height
\* at most the remote head, at a stride of 2..16 (skip 1..15).
LEMMA SpanType ==
    ASSUME NEW remote \in 1..MaxHeight, NEW local \in Heights
    PROVE  RequestSpan(remote, local)
               \in Heights \X (2..MaxHeaderFetch \div 16) \X (1..15) \X Nat
<1> DEFINE maxCount == MaxHeaderFetch \div 16
           requestHead == MaxOf(remote - 1, 0)
           requestBottom == MaxOf(IF local = 0 THEN -1 ELSE local - 1, 0)
           totalSpan == requestHead - requestBottom
           stride == MinOf(MaxOf(1 + GoDiv(totalSpan, maxCount), 2), 16)
           count == MaxOf(MinOf(1 + GoDiv(totalSpan, stride), maxCount), 2)
           from == MaxOf(requestHead - (count - 1) * stride, 0)
<1>1. maxCount \in Nat /\ maxCount >= 2
    BY Assumptions
<1>2. requestHead \in 0..MaxHeight - 1 /\ totalSpan \in Int
    BY Assumptions DEF MaxOf, Heights
<1>3. GoDiv(totalSpan, maxCount) \in Int
    BY <1>1, <1>2 DEF GoDiv
<1>4. stride \in 2..16
    BY <1>3 DEF MinOf, MaxOf
<1>5. GoDiv(totalSpan, stride) \in Int
    BY <1>2, <1>4 DEF GoDiv
<1>6. count \in 2..maxCount
    BY <1>1, <1>5 DEF MinOf, MaxOf
<1>7. (count - 1) * stride \in Nat
    BY <1>4, <1>6
<1>8. from \in 0..requestHead
    BY <1>2, <1>7 DEF MaxOf
<1>9. RequestSpan(remote, local)
          = <<from, count, stride - 1, from + (count - 1) * stride>>
    BY DEF RequestSpan
<1> HIDE DEF maxCount, requestHead, requestBottom, totalSpan, stride, count, from
<1>10. from \in Heights /\ count \in 2..MaxHeaderFetch \div 16
       /\ stride - 1 \in 1..15 /\ from + (count - 1) * stride \in Nat
    BY <1>2, <1>4, <1>6, <1>7, <1>8, Assumptions DEF Heights, maxCount
<1>11. QED
    BY <1>9, <1>10

\* The floor lies in -1..MaxHeight for a local head and a lowest header
\* within the chain.
LEMMA FloorRange ==
    ASSUME NEW m, NEW local \in Heights, NEW low \in Heights
    PROVE  Floor(m, local, low) \in -1..MaxHeight
BY Assumptions DEF Floor, MaxOf, Heights

\* The initial mode is one of the three the parser accepts.
LEMMA ModeRange ==
    ASSUME NEW t
    PROVE  UnmarshalText(FullSync, t).mode \in {FullSync, FastSync, LightSync}
BY DEF UnmarshalText, FullSync, FastSync, LightSync

\* The claimable heights lie within the chain.
LEMMA ClaimableHeights ==
    ASSUME TypeOK
    PROVE  Claimable \subseteq Heights
<1>1. Known \subseteq Heights
    BY Assumptions DEF TypeOK, Known, Heights
<1>2. LocalHas \subseteq Heights
    BY Assumptions DEF TypeOK, LocalHas, MaxOf, Heights
<1>3. QED
    BY <1>1, <1>2 DEF Claimable

LEMMA InitTypeOK == Init => TypeOK
<1> SUFFICES ASSUME Init PROVE TypeOK
    OBVIOUS
<1>1. remoteHeight \in 1..MaxHeight /\ localHeight \in Heights
      /\ lowest \in Heights /\ anc \in Heights
    BY Assumptions DEF Init, Heights, MaxOf, MinOf
<1>2. mode \in {FullSync, FastSync, LightSync}
    BY ModeRange DEF Init
<1>3. floor \in -1..MaxHeight
    BY <1>1, FloorRange DEF Init
<1>4. span \in Heights \X (2..MaxHeaderFetch \div 16) \X (1..15) \X Nat
    BY <1>1, SpanType DEF Init
<1>5. QED
    BY <1>1, <1>2, <1>3, <1>4, Assumptions DEF Init, TypeOK, Heights, Errors

\* The steps that end the search keep the type.
LEMMA FinishTypeOK ==
    ASSUME TypeOK, NEW r \in Heights, NEW e \in Errors, Finish(r, e)
    PROVE  TypeOK'
BY DEF TypeOK, Finish, inputs

LEMMA NextTypeOK == TypeOK /\ [Next]_vars => TypeOK'
<1> SUFFICES ASSUME TypeOK, [Next]_vars PROVE TypeOK'
    OBVIOUS
<1>0. 0 \in Heights
    BY Assumptions DEF Heights
<1>1. CASE SpanAnswer
    <2>1. PICK a \in SpanAnswers :
            \/ a.n = 0 /\ Finish(0, "emptyHeaderSet")
            \/ a.n > 0 /\ ~a.ordered /\ Finish(0, "invalidChain")
            \/ /\ a.n > 0 /\ a.ordered /\ a.top >= 0
               /\ IF a.top <= floor THEN Finish(0, "invalidAncestor")
                                    ELSE Finish(a.top, "none")
            \/ /\ a.n > 0 /\ a.ordered /\ a.top < 0
               /\ phase' = "search"
               /\ start' = IF floor > 0 THEN floor ELSE 0
               /\ end' = remoteHeight
               /\ UNCHANGED <<inputs, floor, check, result, err>>
        BY <1>1 DEF SpanAnswer
    <2>2. a.top \in Int /\ (a.top >= 0 => a.top \in Heights)
        BY SpanAnswersType, ClaimableHeights DEF TypeOK, Heights
    <2>3. CASE a.n > 0 /\ a.ordered /\ a.top < 0
        <3>1. /\ phase' = "search"
              /\ start' = IF floor > 0 THEN floor ELSE 0
              /\ end' = remoteHeight
              /\ UNCHANGED <<inputs, floor, check, result, err>>
            BY <2>1, <2>2, <2>3
        <3>2. QED
            BY <3>1, Assumptions DEF TypeOK, inputs, Heights
    <2>4. CASE a.top >= 0 /\ Finish(a.top, "none")
        BY <2>2, <2>4, FinishTypeOK DEF Errors
    <2>5. CASE \E e \in Errors : Finish(0, e)
        BY <1>0, <2>5, FinishTypeOK
    <2>6. QED
        BY <2>1, <2>3, <2>4, <2>5 DEF Errors
<1>2. CASE SearchStep
    BY <1>2, Assumptions DEF SearchStep, TypeOK, inputs, Heights
<1>3. CASE SearchDone
    BY <1>0, <1>3, FinishTypeOK DEF SearchDone, TypeOK, Errors
<1>4. CASE SearchAnswer
    <2>1. CASE \E e \in Errors : Finish(0, e)
        BY <1>0, <2>1, FinishTypeOK
    <2>2. CASE /\ phase' = "search"
               /\ \/ end' = check /\ UNCHANGED <<start>>
                  \/ start' = check /\ UNCHANGED <<end>>
               /\ UNCHANGED <<inputs, floor, check, result, err>>
        BY <2>2 DEF TypeOK, inputs
    <2>3. QED
        BY <1>4, <2>1, <2>2 DEF SearchAnswer, Errors
<1>5. CASE Timeout \/ Canceled
    BY <1>0, <1>5, FinishTypeOK DEF Timeout, Canceled, Errors
<1>6. CASE UNCHANGED vars
    BY <1>6 DEF vars, TypeOK
<1>7. QED
    BY <1>1, <1>2, <1>3, <1>4, <1>5, <1>6 DEF Next

\* Every state findAncestor reaches is well typed for every value of the
\* constants and an honest or lying peer: the request span, the floor, the
\* binary search interval and the returned height stay within the chain.
THEOREM TypeCorrect == Spec => []TypeOK
BY InitTypeOK, NextTypeOK, PTL DEF Spec
=============================================================================
