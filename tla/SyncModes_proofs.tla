--------------------------- MODULE SyncModes_proofs ---------------------------
(***************************************************************************)
(* The conversions of modes.go agree on every uint32 mode, not only on the *)
(* five that TLC evaluates in MC_AncestorSearch.                           *)
(***************************************************************************)
EXTENDS SyncModes, TLAPS

\* The agreement ModeTextRoundTrip states, for one mode m.
RoundTrip(m) ==
    /\ MarshalText(m).ok <=> IsValid(m)
    /\ MarshalText(m).ok =>
           /\ MarshalText(m).text = ModeString(m)
           /\ UnmarshalText(LightSync + 1, MarshalText(m).text)
                  = [mode |-> m, ok |-> TRUE]

\* The three named modes are distinct numbers.
LEMMA ModesDistinct ==
    /\ FullSync # FastSync /\ FullSync # LightSync /\ FastSync # LightSync
    /\ FullSync \in Nat /\ FastSync \in Nat /\ LightSync \in Nat
BY DEF FullSync, FastSync, LightSync

\* What the CASE of MarshalText gives on each mode.
LEMMA MarshalCases ==
    ASSUME NEW m \in Nat
    PROVE  /\ m = FullSync => MarshalText(m) = [text |-> "full", ok |-> TRUE]
           /\ m = FastSync => MarshalText(m) = [text |-> "fast", ok |-> TRUE]
           /\ m = LightSync => MarshalText(m) = [text |-> "light", ok |-> TRUE]
           /\ m \notin {FullSync, FastSync, LightSync} =>
                  MarshalText(m) = [text |-> NoText, ok |-> FALSE]
BY ModesDistinct, Zenon DEF MarshalText

\* What the CASE of ModeString gives on each named mode.
LEMMA StringCases ==
    /\ ModeString(FullSync) = "full"
    /\ ModeString(FastSync) = "fast"
    /\ ModeString(LightSync) = "light"
BY ModesDistinct, Zenon DEF ModeString

\* UnmarshalText of a named text sets that mode, whatever *mode held.
LEMMA UnmarshalCases ==
    \A old :
        /\ UnmarshalText(old, "full") = [mode |-> FullSync, ok |-> TRUE]
        /\ UnmarshalText(old, "fast") = [mode |-> FastSync, ok |-> TRUE]
        /\ UnmarshalText(old, "light") = [mode |-> LightSync, ok |-> TRUE]
BY Zenon DEF UnmarshalText

\* For every mode a SyncMode can hold, MarshalText succeeds exactly when
\* IsValid accepts it, writes the text String gives, and UnmarshalText of
\* that text restores the mode whatever *mode held.
THEOREM RoundTripAllModes == \A m \in Nat : RoundTrip(m)
<1> SUFFICES ASSUME NEW m \in Nat PROVE RoundTrip(m)
    OBVIOUS
<1> DEFINE junk == LightSync + 1
<1>1. CASE m = FullSync
    <2>1. MarshalText(m) = [text |-> "full", ok |-> TRUE]
        BY <1>1, MarshalCases
    <2>2. UnmarshalText(junk, "full") = [mode |-> m, ok |-> TRUE]
        <3>1. UnmarshalText(junk, "full") = [mode |-> FullSync, ok |-> TRUE]
            BY UnmarshalCases, Zenon
        <3>2. QED
            BY <1>1, <3>1
    <2>3. ModeString(m) = "full"
        BY <1>1, StringCases
    <2>4. IsValid(m)
        BY <1>1 DEF IsValid, FullSync, LightSync
    <2>5. QED
        BY <2>1, <2>2, <2>3, <2>4 DEF RoundTrip
<1>2. CASE m = FastSync
    <2>1. MarshalText(m) = [text |-> "fast", ok |-> TRUE]
        BY <1>2, MarshalCases
    <2>2. UnmarshalText(junk, "fast") = [mode |-> m, ok |-> TRUE]
        <3>1. UnmarshalText(junk, "fast") = [mode |-> FastSync, ok |-> TRUE]
            BY UnmarshalCases, Zenon
        <3>2. QED
            BY <1>2, <3>1
    <2>3. ModeString(m) = "fast"
        BY <1>2, StringCases
    <2>4. IsValid(m)
        BY <1>2 DEF IsValid, FullSync, FastSync, LightSync
    <2>5. QED
        BY <2>1, <2>2, <2>3, <2>4 DEF RoundTrip
<1>3. CASE m = LightSync
    <2>1. MarshalText(m) = [text |-> "light", ok |-> TRUE]
        BY <1>3, MarshalCases
    <2>2. UnmarshalText(junk, "light") = [mode |-> m, ok |-> TRUE]
        <3>1. UnmarshalText(junk, "light") = [mode |-> LightSync, ok |-> TRUE]
            BY UnmarshalCases, Zenon
        <3>2. QED
            BY <1>3, <3>1
    <2>3. ModeString(m) = "light"
        BY <1>3, StringCases
    <2>4. IsValid(m)
        BY <1>3 DEF IsValid, FullSync, LightSync
    <2>5. QED
        BY <2>1, <2>2, <2>3, <2>4 DEF RoundTrip
<1>4. CASE m \notin {FullSync, FastSync, LightSync}
    <2>1. MarshalText(m) = [text |-> NoText, ok |-> FALSE]
        BY <1>4, MarshalCases
    <2>2. ~IsValid(m)
        BY <1>4 DEF IsValid, FullSync, FastSync, LightSync
    <2>3. QED
        BY <2>1, <2>2 DEF RoundTrip
<1>5. QED
    BY <1>1, <1>2, <1>3, <1>4

\* ModeTextRoundTrip, which TLC evaluates, is the case of five modes.
THEOREM ModeTextAgreement == ModeTextRoundTrip
<1> DEFINE Checked == {FullSync, FastSync, LightSync, LightSync + 1, 2147483647}
<1>1. Checked \subseteq Nat
    BY SMT DEF FullSync, FastSync, LightSync
<1>2. \A m \in Checked : RoundTrip(m)
    BY <1>1, RoundTripAllModes
<1> HIDE DEF Checked
<1>3. QED
    BY <1>2, PTL DEF ModeTextRoundTrip, RoundTrip, Checked
=============================================================================
