------------------------------ MODULE SyncModes ------------------------------
(***************************************************************************)
(* The sync modes of src/eth/downloader/modes.go: a SyncMode is a uint32;  *)
(* the three named values, their validity test, and the conversions to and *)
(* from text (String, MarshalText, UnmarshalText).  Texts are TLA+ strings;*)
(* the error of a failed conversion is the value NoText / an unchanged     *)
(* mode with ok = FALSE.                                                   *)
(***************************************************************************)
EXTENDS Naturals

FullSync  == 0
FastSync  == 1
LightSync == 2

\* Fault model: LightSync is not accepted as valid.
IsValidOffByOne(mode) == mode >= FullSync /\ mode < LightSync

IsValid(mode) == mode >= FullSync /\ mode <= LightSync

ModeString(mode) ==
    CASE mode = FullSync  -> "full"
      [] mode = FastSync  -> "fast"
      [] mode = LightSync -> "light"
      [] OTHER            -> "unknown"

NoText == "<nil>"

\* MarshalText: the text, or NoText with an error.
MarshalText(mode) ==
    CASE mode = FullSync  -> [text |-> "full", ok |-> TRUE]
      [] mode = FastSync  -> [text |-> "fast", ok |-> TRUE]
      [] mode = LightSync -> [text |-> "light", ok |-> TRUE]
      [] OTHER            -> [text |-> NoText, ok |-> FALSE]

\* UnmarshalText into *mode: the new value of *mode (unchanged on error).
UnmarshalText(mode, text) ==
    CASE text = "full"  -> [mode |-> FullSync, ok |-> TRUE]
      [] text = "fast"  -> [mode |-> FastSync, ok |-> TRUE]
      [] text = "light" -> [mode |-> LightSync, ok |-> TRUE]
      [] OTHER          -> [mode |-> mode, ok |-> FALSE]
\* The three conversions of modes.go agree on every mode, including the
\* first value past LightSync and a large uint32: MarshalText succeeds
\* exactly for the modes IsValid accepts, it writes the text String gives,
\* and UnmarshalText of that text restores the mode, whatever *mode held.
ModeTextRoundTrip ==
    \A m \in {FullSync, FastSync, LightSync, LightSync + 1, 2147483647} :
        /\ MarshalText(m).ok <=> IsValid(m)
        /\ MarshalText(m).ok =>
               /\ MarshalText(m).text = ModeString(m)
               /\ UnmarshalText(LightSync + 1, MarshalText(m).text)
                      = [mode |-> m, ok |-> TRUE]
=============================================================================
