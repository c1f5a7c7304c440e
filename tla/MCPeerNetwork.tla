--------------------------- MODULE MCPeerNetwork ---------------------------
(***************************************************************************)
(* Instances of PeerNetwork for TLC, with one of its peers looked at.      *)
(***************************************************************************)
EXTENDS NetworkPeer

CONSTANTS p1, p2

Public == [mode |-> "PublicAgent", whitelist |-> {}, blacklist |-> {}]
Asking == [mode |-> "Confirm", whitelist |-> {}, blacklist |-> {}]

\* Every peer goes by its key.
KeyNames == [n \in Pubkey |-> n]

AllPublic == [n \in Pubkey |-> Public]
\* p1 asks its user, p2 accepts everybody.
OneAsks == [n \in Pubkey |-> IF n = p1 THEN Asking ELSE Public]

OneWay == {<<p2, p1>>}
BothWays == {<<p1, p2>>, <<p2, p1>>}

NoSteps == {}
\* A ping is due after a hundred seconds.  A dial may wait for so long and an
\* inactive peer be silent for so long, for two hundred seconds they may not.
HundredSeconds == {100}
=============================================================================
