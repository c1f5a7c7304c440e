----------------------------- MODULE MCSealing -----------------------------
(***************************************************************************)
(* Instances of Sealing for TLC.                                           *)
(***************************************************************************)
EXTENDS Sealing, TLC

CONSTANTS p1, p2, p3, b1, n1, n2

\* p3 cannot deserialize what the others can.
SomeTypes == [k \in Pubkey |-> IF k = p3 THEN {} ELSE Body]

Symmetry == Permutations(Nonce) \cup Permutations({p1, p2})
=============================================================================
