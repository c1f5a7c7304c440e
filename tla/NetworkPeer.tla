---------------------------- MODULE NetworkPeer ----------------------------
(***************************************************************************)
(* One peer of a PeerNetwork, seen on its own: a SyncNode.  What SyncNode  *)
(* leaves open - which messages arrive, and when - is what the other peers *)
(* and the streams of the network decide.                                  *)
(***************************************************************************)
EXTENDS PeerNetwork

CONSTANT Me     \* the peer

ASSUME PeerAssumption == Me \in Pubkey

\* The dials of Me that no PeerInit has answered.
Unanswered == [c \in Conn |-> IF c[1] = Me THEN dials[c] - inits[c] ELSE 0]

\* Nobody subscribes to anything in the network.
Node == INSTANCE SyncNodeProofs WITH
  MyName <- NameOf[Me], Configs <- {ConfigOf[Me]}, Messages <- {}, MaxUnanswered <- MaxDials,
  peers <- peers[Me], subscriptions <- [t \in {} |-> {}],
  pending_peer_init <- pending_peer_init[Me], peering_config <- ConfigOf[Me],
  todo <- todo[Me], unanswered <- Unanswered, wanted <- {}, released <- {}

\* The peer does nothing that SyncNode does not allow: a host that takes its
\* messages from streams, in order, is one in an environment that may send
\* anything at any moment, so that what is proved there holds of it.
PeerIsSyncNode == Node!Spec
=============================================================================
