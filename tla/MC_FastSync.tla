---------------------------- MODULE MC_FastSync ----------------------------
(* Small instances of FastSync for TLC.                                    *)
EXTENDS FastSync

\* A valid remote chain; one whose header 6 fails verification; one whose
\* header 8, reached only if the chain grows, fails verification.
MCNoBadHeaders == {}
MCBadHeader == {6}
MCLateBadHeader == {8}
=============================================================================
