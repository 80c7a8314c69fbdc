------------------------- MODULE MC_DownloaderSync -------------------------
(* Model-checking instance of DownloaderSync: two concurrent callers of   *)
(* Synchronise, two peers, two or three sync sessions (MaxSyncs) of two   *)
(* header requests.                                                        *)
EXTENDS DownloaderSync

CONSTANTS c1, c2, p1, p2

MCCallers == {c1, c2}
MCPeers == {p1, p2}
=============================================================================
