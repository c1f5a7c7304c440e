------------------------------ MODULE Framing ------------------------------
(***************************************************************************)
(* FramedConnection of src/tests/common/mod.rs: messages as frames on a    *)
(* byte stream, a length of four bytes before each body.  The stream comes *)
(* in pieces that need not end where a frame does.  A byte has Base values *)
(* (256 in the code), so that lengths wrap at the fourth power of Base.    *)
(***************************************************************************)
EXTENDS Integers, Sequences, SequencesExt, FiniteSetsExt

CONSTANTS
  Base,          \* values of a byte
  Bodies,        \* the messages that are sent, as sequences of bytes
  ReadSize,      \* bytes one read gets at most: 4096 in the code
  MaxWritten     \* bound: messages written

Byte == 0..Base - 1
Wrap == Base * Base * Base * Base     \* 2^32

ASSUME BaseAssumption == Base \in Nat \ {0, 1} /\ ReadSize \in Nat \ {0}
ASSUME BodiesAssumption == Bodies \subseteq Seq(Byte)
ASSUME BoundAssumption == MaxWritten \in Nat

VARIABLES
  written,     \* messages written, in order
  closed,      \* the remote end has closed the stream
  cut,         \* history: bytes of a last frame it did not finish
  stream,      \* bytes written and not yet read
  buffer,      \* bytes read and not yet decoded
  frames,      \* messages of the last poll, not yet handed on
  delivered,   \* messages handed on
  reader       \* "reading", "ended" (told so), "failed" or "panicked"

vars == <<written, closed, cut, stream, buffer, frames, delivered, reader>>

Init ==
  /\ written = <<>> /\ closed = FALSE /\ cut = <<>> /\ stream = <<>>
  /\ buffer = <<>> /\ frames = <<>> /\ delivered = <<>> /\ reader = "reading"

-----------------------------------------------------------------------------
\* Slip: the digits of the length are not cut to a byte.
Faulty_put_u32(n) == <<n \div (Base * Base * Base), n \div (Base * Base), n \div Base, n>>

\* The four bytes of a length, the highest first; it is cast to u32.
put_u32(n) ==
  <<(n \div (Base * Base * Base)) % Base, (n \div (Base * Base)) % Base, (n \div Base) % Base, n % Base>>
u32(bytes) == ((bytes[1] * Base + bytes[2]) * Base + bytes[3]) * Base + bytes[4]

\* Slip: the bytes of the length are put in the other order.
Faulty_create_framed_message(body) == Reverse(put_u32(Len(body))) \o body

create_framed_message(body) == put_u32(Len(body)) \o body

HasFrame(bytes) == Len(bytes) >= 4 /\ Len(bytes) >= u32(bytes) + 4

\* Slip: the length is taken for a signed number.
Faulty_Overflows(bytes) == Len(bytes) >= 4 /\ u32(bytes) + 4 >= Wrap \div 2

\* len + 4 does not fit for the four largest lengths: the addition panics, or
\* it wraps and split_off is asked for more than split_to returned, which
\* panics as well.
Overflows(bytes) == Len(bytes) >= 4 /\ u32(bytes) + 4 >= Wrap

FirstBody(bytes) == SubSeq(bytes, 5, u32(bytes) + 4)
AfterFirst(bytes) == SubSeq(bytes, u32(bytes) + 5, Len(bytes))

\* One round of the loop: the first whole frame of what is left goes to the
\* result.  A panic takes the result along.
decode_round(r) ==
  IF Overflows(r.rest) THEN [panic |-> TRUE, frames |-> <<>>, rest |-> r.rest]
  ELSE IF HasFrame(r.rest)
    THEN [r EXCEPT !.frames = Append(@, FirstBody(r.rest)), !.rest = AfterFirst(r.rest)]
  ELSE r

Undecoded(bytes) == [panic |-> FALSE, frames |-> <<>>, rest |-> bytes]

\* Slip: one frame per read.
Faulty_frame_decode(bytes) == decode_round(Undecoded(bytes))

\* All whole frames at the front of bytes, and the rest.  A frame takes four
\* bytes at least, which bounds the rounds; when the loop returns earlier, the
\* remaining rounds change nothing.
frame_decode(bytes) ==
  LET round[i \in 0..(Len(bytes) \div 4)] == IF i = 0 THEN Undecoded(bytes) ELSE decode_round(round[i - 1])
  IN  round[Len(bytes) \div 4]

-----------------------------------------------------------------------------
(* The remote end. *)

Write(body) ==
  /\ ~closed /\ Len(written) < MaxWritten
  /\ written' = Append(written, body)
  /\ stream' = stream \o create_framed_message(body)
  /\ UNCHANGED <<closed, cut, buffer, frames, delivered, reader>>

\* It goes, maybe in the middle of a write.
Close ==
  /\ ~closed /\ closed' = TRUE
  /\ \E body \in Bodies : LET f == create_framed_message(body) IN
       \E n \in 0..Len(f) - 1 : cut' = SubSeq(f, 1, n)
  /\ stream' = stream \o cut'
  /\ UNCHANGED <<written, buffer, frames, delivered, reader>>

-----------------------------------------------------------------------------
(* poll_frames, and the loop of the reader around it. *)

\* Slip: what is left of the last poll is thrown away.
Faulty_Poll ==
  /\ reader = "reading" /\ frames = <<>> /\ stream # <<>>
  /\ \E n \in 1..Min({ReadSize, Len(stream)}) :
       LET r == frame_decode(SubSeq(stream, 1, n))
       IN /\ buffer' = r.rest
          /\ frames' = r.frames
          /\ stream' = SubSeq(stream, n + 1, Len(stream))
          /\ reader' = IF r.panic THEN "panicked" ELSE "reading"
  /\ UNCHANGED <<written, closed, cut, delivered>>

Poll ==
  /\ reader = "reading" /\ frames = <<>> /\ stream # <<>>
  /\ \E n \in 1..Min({ReadSize, Len(stream)}) :
       LET r == frame_decode(buffer \o SubSeq(stream, 1, n))
       IN /\ buffer' = r.rest
          /\ frames' = r.frames
          /\ stream' = SubSeq(stream, n + 1, Len(stream))
          /\ reader' = IF r.panic THEN "panicked" ELSE "reading"
  /\ UNCHANGED <<written, closed, cut, delivered>>

Deliver ==
  /\ reader = "reading" /\ frames # <<>>
  /\ delivered' = Append(delivered, Head(frames))
  /\ frames' = Tail(frames)
  /\ UNCHANGED <<written, closed, cut, stream, buffer, reader>>

\* Slip: the end is looked at before what is left in the stream.
Faulty_ReadEnd ==
  /\ reader = "reading" /\ frames = <<>> /\ closed
  /\ reader' = "ended"
  /\ UNCHANGED <<written, closed, cut, stream, buffer, frames, delivered>>

\* A read of no bytes: whatever the buffer holds is dropped.
ReadEnd ==
  /\ reader = "reading" /\ frames = <<>> /\ stream = <<>> /\ closed
  /\ reader' = "ended"
  /\ UNCHANGED <<written, closed, cut, stream, buffer, frames, delivered>>

\* The connection was reset.
ReadFails ==
  /\ reader = "reading" /\ frames = <<>> /\ closed
  /\ reader' = "failed"
  /\ UNCHANGED <<written, closed, cut, stream, buffer, frames, delivered>>

Next ==
  \/ \E body \in Bodies : Write(body)
  \/ Close
  \/ Poll
  \/ Deliver
  \/ ReadEnd
  \/ ReadFails

Spec == Init /\ [][Next]_vars

\* The reader's task runs; nobody has to write or to close.
FairSpec == Spec /\ WF_vars(Poll) /\ WF_vars(Deliver) /\ WF_vars(ReadEnd)

-----------------------------------------------------------------------------
(* Properties. *)

TypeOK ==
  /\ written \in Seq(Bodies) /\ closed \in BOOLEAN
  /\ cut \in Seq(Byte) /\ stream \in Seq(Byte) /\ buffer \in Seq(Byte)
  /\ frames \in Seq(Seq(Byte)) /\ delivered \in Seq(Seq(Byte))
  /\ reader \in {"reading", "ended", "failed", "panicked"}

\* No message is so long that its length is not a u32.
NoneWraps == \A body \in Bodies : Len(body) < Wrap

\* A length the reader's arithmetic can take.
Small(body) == Len(body) + 4 < Wrap

\* The bytes that messages are written as.
Framed(messages) == FlattenSeq([i \in DOMAIN messages |-> create_framed_message(messages[i])])

Ahead == Len(delivered) + Len(frames)

\* However the stream is cut into reads, the buffer begins where a frame does:
\* what is delivered, decoded, buffered and in flight is together what was
\* written and the unfinished frame after it, until a length is too large for
\* the reader; and the buffer holds no whole message.
NothingLost ==
  reader # "panicked" =>
    /\ Ahead <= Len(written) /\ delivered \o frames = SubSeq(written, 1, Ahead)
    /\ buffer \o stream = Framed(SubSeq(written, Ahead + 1, Len(written))) \o cut
    /\ Ahead < Len(written) =>
         Len(buffer) < Len(create_framed_message(written[Ahead + 1]))

\* The reader dies of a frame only when a length is within four of 2^32, and
\* then everything it had handed on is right: a frame before that one, or a body
\* whose bytes look like such a length, does not kill it.
PanicsOnlyOnHuge ==
  reader = "panicked" =>
    /\ \/ \E i \in Len(delivered) + 1..Len(written) : ~Small(written[i])
       \/ Overflows(cut)
    /\ IsPrefix(delivered, written)

\* A connection that ended in good order has delivered all that was written.
EndMeansAll == reader = "ended" => delivered = written

\* The stream of frames is a link: see FifoLink.
Link == INSTANCE FifoLink WITH over <- reader # "reading"
ImplementsLink == Link!Spec

\* Everything written with a length that fits arrives, whatever the reads
\* return, unless the connection is reset or dies of a larger one: again and
\* again all that was written has been handed on.
EverythingArrives ==
  []<>(Len(delivered) = Len(written) \/ reader \in {"failed", "panicked"})
=============================================================================
