------------------------------ MODULE FifoLink ------------------------------
(***************************************************************************)
(* What the peers of PeerNetwork rely on of a connection, in one           *)
(* direction: the messages one end writes reach the other in the order     *)
(* they were written, none twice and none skipped, until the connection    *)
(* is over; then nothing more arrives.  The manager (PeerManager) and the  *)
(* framing of the stream under it (Framing) both implement this.           *)
(***************************************************************************)
EXTENDS Naturals, Sequences

VARIABLES
  written,     \* what one end has written, in order
  delivered,   \* what has come out at the other end
  over         \* nothing comes out any more

vars == <<written, delivered, over>>

Init == written = <<>> /\ delivered = <<>> /\ over = FALSE

\* One more message is written; what it says is its own affair.
Write ==
  /\ Len(written') = Len(written) + 1
  /\ SubSeq(written', 1, Len(written)) = written
  /\ UNCHANGED <<delivered, over>>

Deliver ==
  /\ ~over
  /\ Len(delivered) < Len(written)
  /\ delivered' = Append(delivered, written[Len(delivered) + 1])
  /\ UNCHANGED <<written, over>>

End ==
  /\ ~over
  /\ over' = TRUE
  /\ UNCHANGED <<written, delivered>>

Next == Write \/ Deliver \/ End

Spec == Init /\ [][Next]_vars
=============================================================================
