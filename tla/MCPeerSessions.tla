--------------------------- MODULE MCPeerSessions ---------------------------
(* Small instances of PeerSessions for TLC.                                *)
EXTENDS PeerSessions
CONSTANTS m1, p1, p2, a1, a2

(* Two processes of one minion.                                            *)
TwinOf == p1 :> m1 @@ p2 :> m1
=============================================================================
