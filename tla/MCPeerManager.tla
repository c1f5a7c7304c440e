--------------------------- MODULE MCPeerManager ---------------------------
(***************************************************************************)
(* Instances of PeerManager for TLC.                                       *)
(***************************************************************************)
EXTENDS PeerManager

CONSTANTS i1, i2, l1, l2
=============================================================================
