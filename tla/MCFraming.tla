----------------------------- MODULE MCFraming -----------------------------
(***************************************************************************)
(* An instance of Framing for TLC.  Bytes have two values, so lengths wrap *)
(* at 16.                                                                  *)
(***************************************************************************)
EXTENDS Framing

Zeros(n) == [i \in 1..n |-> 0]

\* The empty body, bodies whose bytes look like (part of) a length, and bodies
\* of the largest length the reader can take and the smallest it cannot.
MixedBodies == {<<>>, <<1>>, <<0, 0, 0, 1, 0>>, Zeros(11), Zeros(12)}

\* What the theorems of FramingProofs assume of the bodies.
ASSUME NoneWrapsHere == NoneWraps
=============================================================================
