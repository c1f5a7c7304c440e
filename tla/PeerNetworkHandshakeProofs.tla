---------------------- MODULE PeerNetworkHandshakeProofs ----------------------
(***************************************************************************)
(* What the handshakes of a PeerNetwork come to, checked by TLAPS for as   *)
(* long as no dial goes stale and no peer is dropped: no host gives up,    *)
(* that is no handler is handed a message of a peer it does not know       *)
(* (HInv), and peers that accept each other agree whether they are active  *)
(* once nothing is under way (QInv), whatever is dialed, lost or delayed.  *)
(***************************************************************************)
EXTENDS PeerNetworkProofs

-----------------------------------------------------------------------------
(* That no host has failed is not inductive: it depends on who is in whose *)
(* book when a message arrives.  A peer that greets another has it in its  *)
(* book, and the other keeps its dial until the greeting arrives; a ping   *)
(* may overtake the handshake only behind the greeting it follows, or on a *)
(* stream that is cut.                                                     *)

\* n has k in its book, or is about to.
WillKnow(n, k) ==
  Known(n, k) \/ \E i \in DOMAIN todo[n] : todo[n][i].type = "SetPeer" /\ todo[n][i].peer_info.peer.pubkey = k

\* n waits for a Hello over c, or has had it.
Awaits(n, c) == is_pending(Self(n), c) \/ WillKnow(n, OtherEnd(c, n))

\* What the other end of c sends to n over c arrives when n knows it, if it
\* arrives.
Reached(c, n) ==
  \/ WillKnow(n, OtherEnd(c, n))
  \/ <<c, n>> \in cut
  \/ \E i \in DOMAIN wire[c][n] : IsEvent(wire[c][n][i], "Hello")

\* A list writes the record of k before its i-th action, if it is not there.
KnownBy(n, l, i, k) ==
  \/ Known(n, k)
  \/ \E j \in DOMAIN l : j < i /\ l[j].type = "SetPeer" /\ l[j].peer_info.peer.pubkey = k

GreetsOver(l, c) ==
  \E j \in DOMAIN l : l[j].type = "MessageSend" /\ IsEvent(l[j].message, "Hello") /\ l[j].to = c

\* A record of another peer: what is sent to it arrives when it knows n.
Met(n, l, info) == Reached(info.connection_info, info.peer.pubkey) \/ GreetsOver(l, info.connection_info)

SendSafe(n, l, i) ==
  LET c == l[i].to
      m == l[i].message
      k == OtherEnd(c, n)
  IN /\ m.type = "Init" =>
          Awaits(n, c) \/ \E j \in DOMAIN l : j < i /\ l[j].type = "SetPendingPeer"
                                              /\ l[j].pending_peer.connection_info = c
     /\ m.type = "Sealed" => KnownBy(n, l, i, k)
     /\ IsEvent(m, "Hello") => Awaits(k, c)
     /\ IsEvent(m, "Ping") => Reached(c, k)
     /\ m.type = "Sealed" /\ m.body.kind \in {"PeerInit", "PeerConfirm", "Pong"} => Known(k, n)

ActionSafe(n, l, i) ==
  /\ l[i].type # "UnsetPeer"
  /\ l[i].type = "UnsetPendingPeer" => KnownBy(n, l, i, OtherEnd(l[i].connection_info, n))
  /\ l[i].type = "SetPeer" => Met(n, l, l[i].peer_info)
  /\ l[i].type = "MessageSend" => SendSafe(n, l, i)

ListSafe(n, l) == \A i \in DOMAIN l : ActionSafe(n, l, i)

MessageSafe(s, i, c, n) ==
  LET m == s[i]
      k == m.from
  IN /\ m.type = "Init" => Awaits(k, c)
     /\ m.type = "Sealed" => Known(k, n)
     /\ IsEvent(m, "Hello") => Awaits(n, c)
     /\ IsEvent(m, "Ping") => WillKnow(n, k) \/ \E j \in DOMAIN s : j < i /\ IsEvent(s[j], "Hello")
     /\ m.type = "Sealed" /\ m.body.kind \in {"PeerInit", "PeerConfirm", "Pong"} => Known(n, k)

BooksSafe == \A n \in Pubkey : \A k \in DOMAIN peers[n] : Met(n, todo[n], peers[n][k])

TodoSafe == \A n \in Pubkey : ListSafe(n, todo[n])

WireSafe == \A c \in Conn, n \in Pubkey : \A i \in DOMAIN wire[c][n] : MessageSafe(wire[c][n], i, c, n)

\* Who asked has the one it asked in its book.
PromptsSafe == \A n \in Pubkey : \A k \in prompts[n] : Known(k, n)

HInv == HostsSurvive /\ BooksSafe /\ TodoSafe /\ WireSafe /\ PromptsSafe

-----------------------------------------------------------------------------
(* What is known, awaited or reached stays so. *)

Steady ==
  /\ \A n, k \in Pubkey : Known(n, k) => Known(n, k)'
  /\ \A n, k \in Pubkey : WillKnow(n, k) => WillKnow(n, k)'
  /\ \A c \in Conn, n \in Pubkey : Awaits(n, c) => Awaits(n, c)'
  /\ \A c \in Conn, n \in Pubkey : Reached(c, n) => Reached(c, n)'

\* The other end of a stream is a peer.
LEMMA EndIsPeer ==
  ASSUME NEW c \in Conn, NEW n
  PROVE  OtherEnd(c, n) \in Pubkey
BY StreamsAssumption DEF OtherEnd

\* Who is met stays met.
LEMMA MetLasts ==
  ASSUME Steady, NEW n, NEW l, NEW info, RecordOK(n, info), Met(n, l, info)
  PROVE  Met(n, l, info)'
<1>1. info.connection_info \in Conn /\ info.peer.pubkey \in Pubkey
  BY DEF RecordOK, Joins
<1> QED
  BY <1>1 DEF Met, Steady, GreetsOver, IsEvent

\* An action of a list that is safe stays so.
LEMMA SafeLasts ==
  ASSUME Steady, NEW n \in Pubkey, NEW l, NEW i \in DOMAIN l, ActionOK(n, l[i]), ActionSafe(n, l, i)
  PROVE  ActionSafe(n, l, i)'
<1>1. ASSUME NEW k \in Pubkey, KnownBy(n, l, i, k) PROVE KnownBy(n, l, i, k)'
  BY <1>1 DEF Steady, KnownBy
<1>2. l[i].type = "UnsetPendingPeer" => KnownBy(n, l, i, OtherEnd(l[i].connection_info, n))'
  <2> SUFFICES ASSUME l[i].type = "UnsetPendingPeer"
               PROVE  KnownBy(n, l, i, OtherEnd(l[i].connection_info, n))'
    OBVIOUS
  <2>1. PICK k : k = OtherEnd(l[i].connection_info, n)
    OBVIOUS
  <2>2. l[i].connection_info \in Conn
    BY DEF ActionOK, Action, SyncAction
  <2>3. k \in Pubkey /\ KnownBy(n, l, i, k)
    BY <2>1, <2>2, EndIsPeer DEF ActionSafe
  <2> QED
    BY <1>1, <2>1, <2>3 DEF OtherEnd
<1>3. l[i].type = "SetPeer" => Met(n, l, l[i].peer_info)'
  <2> SUFFICES ASSUME l[i].type = "SetPeer" PROVE Met(n, l, l[i].peer_info)'
    OBVIOUS
  <2>1. PICK info : info = l[i].peer_info
    OBVIOUS
  <2>2. info.connection_info \in Conn /\ info.peer.pubkey \in Pubkey /\ Met(n, l, info)
    BY <2>1 DEF ActionOK, RecordOK, Joins, ActionSafe
  <2>3. Met(n, l, info)'
    BY <2>2 DEF Met, Steady, GreetsOver, IsEvent
  <2> QED
    BY <2>1, <2>3
<1>4. l[i].type = "MessageSend" => SendSafe(n, l, i)'
  <2> SUFFICES ASSUME l[i].type = "MessageSend" PROVE SendSafe(n, l, i)'
    OBVIOUS
  <2>1. PICK c : c = l[i].to
    OBVIOUS
  <2>2. PICK k : k = OtherEnd(c, n)
    OBVIOUS
  <2>3. c \in Conn /\ k \in Pubkey /\ SendSafe(n, l, i)
    <3>1. c \in Conn
      BY <2>1 DEF ActionOK, MessageOK, Joins
    <3> QED
      BY <2>2, <3>1, EndIsPeer DEF ActionSafe
  <2> QED
    BY <1>1, <2>1, <2>2, <2>3 DEF SendSafe, Steady, IsEvent, OtherEnd
<1> QED
  BY <1>2, <1>3, <1>4 DEF ActionSafe

\* So does a message on its way.
LEMMA MessageLasts ==
  ASSUME Steady, NEW c \in Conn, NEW n \in Pubkey, NEW s, NEW i, s[i].from \in Pubkey, MessageSafe(s, i, c, n)
  PROVE  MessageSafe(s, i, c, n)'
BY DEF MessageSafe, Steady, IsEvent

\* A host takes a list: what it knows it still knows, if the greetings on the
\* streams are there still or were heard.
LEMMA TakeSteady ==
  ASSUME NInv, NEW n \in Pubkey, NEW l, todo[n] = <<>>, todo' = [todo EXCEPT ![n] = l],
         UNCHANGED <<peers, pending_peer_init, cut>>,
         \A c \in Conn, k \in Pubkey : \A i \in DOMAIN wire[c][k] : IsEvent(wire[c][k][i], "Hello") =>
           Reached(c, k)'
  PROVE  Steady
<1>1. DOMAIN todo = Pubkey
  BY DEF NInv, Domains
<1>2. \A j, k \in Pubkey : Known(j, k) => Known(j, k)'
  BY DEF Known
<1>3. ASSUME NEW j \in Pubkey, NEW k, WillKnow(j, k) PROVE WillKnow(j, k)'
  <2>1. CASE Known(j, k)
    BY <2>1 DEF WillKnow, Known
  <2>2. CASE ~Known(j, k)
    <3>1. j # n /\ todo'[j] = todo[j]
      BY <1>1, <1>3, <2>2 DEF WillKnow
    <3> QED
      BY <1>3, <3>1 DEF WillKnow, Known
  <2> QED
    BY <2>1, <2>2
<1>4. ASSUME NEW c \in Conn, NEW j \in Pubkey, Awaits(j, c) PROVE Awaits(j, c)'
  BY <1>3, <1>4 DEF Awaits, is_pending, Self, OtherEnd
<1>5. ASSUME NEW c \in Conn, NEW j \in Pubkey, Reached(c, j) PROVE Reached(c, j)'
  BY <1>3, <1>5 DEF Reached, OtherEnd
<1> QED
  BY <1>2, <1>3, <1>4, <1>5 DEF Steady

\* The list is safe, and so are the lists and the books of the others.
LEMMA TakeSafe ==
  ASSUME NInv, HInv, Steady, NEW n \in Pubkey, NEW l, todo[n] = <<>>, todo' = [todo EXCEPT ![n] = l],
         UNCHANGED peers, ListSafe(n, l)'
  PROVE  TodoSafe' /\ BooksSafe'
<1>1. DOMAIN todo = Pubkey
  BY DEF NInv, Domains
<1>2. ASSUME NEW j \in Pubkey PROVE ListSafe(j, todo[j])'
  <2>1. CASE j = n
    BY <1>1, <2>1
  <2>2. CASE j # n
    <3>1. PICK s : s = todo[j]
      OBVIOUS
    <3>2. todo'[j] = s
      BY <1>1, <2>2, <3>1
    <3>3. \A i \in DOMAIN s : ActionOK(j, s[i]) /\ ActionSafe(j, s, i)
      BY <3>1 DEF NInv, PeerOK, ListOK, HInv, TodoSafe, ListSafe
    <3>4. \A i \in DOMAIN s : ActionSafe(j, s, i)'
      BY <3>3, SafeLasts
    <3> QED
      BY <3>2, <3>4 DEF ListSafe
  <2> QED
    BY <2>1, <2>2
<1>3. ASSUME NEW j \in Pubkey, NEW k \in DOMAIN peers[j] PROVE Met(j, todo[j], peers[j][k])'
  <2>1. PICK info : info = peers[j][k]
    OBVIOUS
  <2>2. info.connection_info \in Conn /\ info.peer.pubkey \in Pubkey /\ Met(j, todo[j], info)
    BY <1>3, <2>1 DEF NInv, PeerOK, BookOK, RecordOK, Joins, HInv, BooksSafe
  <2>3. PICK s : s = todo[j]
    OBVIOUS
  <2>4. Reached(info.connection_info, info.peer.pubkey)' \/ GreetsOver(s, info.connection_info)
    BY <2>2, <2>3 DEF Met, Steady
  <2>5. GreetsOver(s, info.connection_info) => GreetsOver(todo'[j], info.connection_info)
    <3>1. CASE j = n
      BY <2>3, <3>1 DEF GreetsOver
    <3>2. CASE j # n
      BY <1>1, <2>3, <3>2
    <3> QED
      BY <3>1, <3>2
  <2>6. Met(j, todo[j], info)'
    BY <2>4, <2>5 DEF Met, GreetsOver, IsEvent
  <2> QED
    BY <2>1, <2>6
<1> QED
  BY <1>2, <1>3 DEF TodoSafe, BooksSafe

\* Streams that stay as they are.
LEMMA WireStays ==
  ASSUME NInv, WireSafe, Steady, UNCHANGED wire
  PROVE  WireSafe'
<1> SUFFICES ASSUME NEW c \in Conn, NEW n \in Pubkey, NEW i \in DOMAIN wire[c][n]
             PROVE  MessageSafe(wire[c][n], i, c, n)'
  BY DEF WireSafe
<1>1. PICK s : s = wire[c][n]
  OBVIOUS
<1>2. s[i].from \in Pubkey /\ MessageSafe(s, i, c, n)
  BY <1>1 DEF NInv, WireOK, MessageOK, Joins, WireSafe
<1>3. MessageSafe(s, i, c, n)'
  BY <1>2, MessageLasts
<1> QED
  BY <1>1, <1>3

\* Books and lists that stay as they are.
LEMMA StaySafe ==
  ASSUME NInv, HInv, Steady, UNCHANGED <<peers, todo, failed>>, \A n \in Pubkey : prompts'[n] \subseteq prompts[n]
  PROVE  TodoSafe' /\ BooksSafe' /\ HostsSurvive' /\ PromptsSafe'
<1>1. ASSUME NEW j \in Pubkey PROVE ListSafe(j, todo[j])'
  <2>1. PICK s : s = todo[j]
    OBVIOUS
  <2>2. \A i \in DOMAIN s : ActionOK(j, s[i]) /\ ActionSafe(j, s, i)
    BY <2>1 DEF NInv, PeerOK, ListOK, HInv, TodoSafe, ListSafe
  <2>3. \A i \in DOMAIN s : ActionSafe(j, s, i)'
    BY <2>2, SafeLasts
  <2> QED
    BY <2>1, <2>3 DEF ListSafe
<1>2. ASSUME NEW j \in Pubkey, NEW k \in DOMAIN peers[j] PROVE Met(j, todo[j], peers[j][k])'
  <2>1. PICK info : info = peers[j][k]
    OBVIOUS
  <2>2. RecordOK(j, info) /\ Met(j, todo[j], info)
    BY <1>2, <2>1 DEF NInv, PeerOK, BookOK, HInv, BooksSafe
  <2>3. PICK s : s = todo[j]
    OBVIOUS
  <2>4. Met(j, s, info)'
    BY <2>2, <2>3, MetLasts
  <2> QED
    BY <2>1, <2>3, <2>4
<1>3. HostsSurvive' /\ PromptsSafe'
  BY DEF HInv, HostsSurvive, PromptsSafe, Known
<1> QED
  BY <1>1, <1>2, <1>3 DEF TodoSafe, BooksSafe

\* A step that leaves the peers, the streams and the users alone.
LEMMA QuietSafe ==
  ASSUME NInv, HInv, UNCHANGED <<peers, pending_peer_init, todo, failed, wire, cut>>,
         \A n \in Pubkey : prompts'[n] \subseteq prompts[n]
  PROVE  HInv'
<1>1. Steady
  BY DEF Steady, Known, WillKnow, Awaits, is_pending, Self, Reached, OtherEnd, IsEvent
<1>2. TodoSafe' /\ BooksSafe' /\ HostsSurvive' /\ PromptsSafe'
  BY <1>1, StaySafe
<1>3. WireSafe'
  BY <1>1, WireStays DEF HInv
<1> QED
  BY <1>2, <1>3 DEF HInv

-----------------------------------------------------------------------------
(* Handlers that do not fail, and what they give a host to do. *)

\* No handler fails on an Init, a Hello or a message of a peer in the book.
LEMMA HandlerOk ==
  ASSUME NEW n, BookOK(n), NEW m, NEW c, MessageOK(m, c, n),
         m.type = "Init" \/ IsEvent(m, "Hello") \/ Known(n, m.from)
  PROVE  Handler(Self(n), m, c).result = "Ok"
<1> DEFINE k == m.from
<1>1. CASE m.type = "Init"
  BY <1>1 DEF Handler, process_init_message, Ok
<1>2. CASE m.type # "Init"
  <2>1. m \in MessageSealed /\ m.type = "Sealed" /\ m.to = n /\ BodyOK(m.body)
    BY <1>2 DEF MessageOK, MessageInit, MessageSealed
  <2>2. IsEvent(m, "Hello") \/ Known(n, k)
    BY <1>2
  <2>3. unwrap_incoming_message(Self(n), m) = "Ok"
    BY <2>1, <2>2 DEF unwrap_incoming_message, Self, known, Known, IsEvent
  <2>4. CASE m.body.kind = "Hello"
    BY <2>1, <2>3, <2>4 DEF Handler, process_event_hello, Ok
  <2>5. CASE m.body.kind = "PeerInit"
    <3>1. Handler(Self(n), m, c) = process_event_peer_init(Self(n), m.body, k, now)
      BY <2>1, <2>3, <2>5 DEF Handler
    <3>2. CASE Accepts(n, k)
      BY <2>1, <2>2, <2>5, <3>2, AcceptSaid DEF IsEvent
    <3>3. CASE ~Accepts(n, k)
      BY <2>5, <3>1, <3>3 DEF process_event_peer_init, Accepts, Self, Ok
    <3> QED
      BY <3>2, <3>3
  <2>6. CASE m.body.kind \in {"PeerConfirm", "Ping", "Pong"}
    <3>1. Known(n, k)
      BY <2>2, <2>6 DEF IsEvent
    <3>2. \/ /\ m.body.kind = "PeerConfirm"
             /\ Handler(Self(n), m, c) = process_event_peer_confirm(Self(n), m.body, k, now)
          \/ m.body.kind = "Ping" /\ Handler(Self(n), m, c) = process_event_ping(Self(n), m.body, k, now)
          \/ m.body.kind = "Pong" /\ Handler(Self(n), m, c) = process_event_pong(Self(n), m.body, k, now)
      BY <2>1, <2>3, <2>6 DEF Handler
    <3> QED
      BY <3>1, <3>2 DEF process_event_peer_confirm, process_event_ping, process_event_pong, FromPeer, Ok,
                        known, Known, Self
  <2> QED
    BY <2>1, <2>4, <2>5, <2>6 DEF BodyOK
<1> QED
  BY <1>1, <1>2

\* A Hello that is awaited brings its sender into the book.
LEMMA HelloHeard ==
  ASSUME NEW n, NEW m, NEW c, MessageOK(m, c, n), IsEvent(m, "Hello"), is_pending(Self(n), c),
         NEW l \in Handler(Self(n), m, c).lists
  PROVE  1 \in DOMAIN l /\ l[1].type = "SetPeer" /\ l[1].peer_info.peer.pubkey = m.from
<1>1. m.type = "Sealed" /\ m.body.kind = "Hello" /\ m.to = n
  BY DEF IsEvent, MessageOK, MessageInit, MessageSealed
<1>2. Handler(Self(n), m, c) = process_event_hello(Self(n), m.body, m.from, c, now)
  BY <1>1 DEF Handler, unwrap_incoming_message, Self
<1>3. l = <<SetPeer(new_info(tmp(m.from), c, now)), UnsetPendingPeer(c),
            MessageSend(c, create_sealed_message(Self(n), tmp(m.from), PeerInit(Self(n).name)))>>
  BY <1>1, <1>2 DEF process_event_hello, Ok
<1> QED
  BY <1>3 DEF SetPeer, new_info, tmp

\* Writing a record is safe if its peer is met,
LEMMA SafeRecord ==
  ASSUME NEW n, NEW l, NEW i \in DOMAIN l, NEW info, l[i] = SetPeer(info), Met(n, l, info)'
  PROVE  ActionSafe(n, l, i)'
<1>1. l[i].type = "SetPeer" /\ l[i].peer_info = info
  BY DEF SetPeer
<1> QED
  BY <1>1 DEF ActionSafe

\* and a message if each knows the other.
LEMMA SafeSend ==
  ASSUME NEW n, NEW k, NEW c, Joins(c, n, k), NEW body, NEW l, NEW i \in DOMAIN l, l[i] = Sends(n, c, k, body),
         KnownBy(n, l, i, k)',
         body.kind = "Hello" => Awaits(k, c)',
         body.kind = "Ping" => Reached(c, k)',
         body.kind \in {"PeerInit", "PeerConfirm", "Pong"} => Known(k, n)'
  PROVE  ActionSafe(n, l, i)'
<1>1. PICK a : a = l[i]
  OBVIOUS
<1>2. a.type = "MessageSend" /\ a.to = c /\ a.message.type = "Sealed" /\ a.message.body = body
  BY <1>1 DEF Sends, MessageSend, create_sealed_message
<1>3. OtherEnd(c, n) = k
  BY JoinsEnds
<1>4. SendSafe(n, l, i)'
  BY <1>1, <1>2, <1>3 DEF SendSafe, IsEvent, OtherEnd
<1> QED
  BY <1>1, <1>2, <1>4 DEF ActionSafe

\* A peer that knows n is met by n.
LEMMA MetByKnown ==
  ASSUME NEW n, NEW k, NEW c, Joins(c, n, k), Known(k, n)'
  PROVE  /\ Reached(c, k)'
         /\ \A l, info : info.connection_info = c /\ info.peer.pubkey = k => Met(n, l, info)'
<1>1. OtherEnd(c, k) = n
  BY JoinsEnds
<1>2. Reached(c, k)'
  BY <1>1 DEF Reached, WillKnow, OtherEnd
<1> QED
  BY <1>2 DEF Met

\* A list of a record of a peer that knows n, and perhaps a message to it.
LEMMA RecordSafe ==
  ASSUME NEW n, NEW k, NEW c, Joins(c, n, k), Known(k, n)',
         NEW info, info.connection_info = c, info.peer.pubkey = k
  PROVE  /\ \A l : l = <<SetPeer(info)>> => ListSafe(n, l)'
         /\ \A l, body : l = <<SetPeer(info), Sends(n, c, k, body)>>
                         /\ body.kind \in {"PeerConfirm", "Pong"} => ListSafe(n, l)'
<1>1. \A l : Met(n, l, info)'
  BY MetByKnown
<1>2. ASSUME NEW l, 1 \in DOMAIN l, l[1] = SetPeer(info) PROVE ActionSafe(n, l, 1)'
  BY <1>1, <1>2, SafeRecord
<1>3. ASSUME NEW l, l = <<SetPeer(info)>> PROVE ListSafe(n, l)'
  <2>1. DOMAIN l = {1} /\ l[1] = SetPeer(info)
    BY <1>3
  <2> QED
    BY <1>2, <2>1 DEF ListSafe
<1>4. ASSUME NEW l, NEW body, l = <<SetPeer(info), Sends(n, c, k, body)>>, body.kind \in {"PeerConfirm", "Pong"}
      PROVE  ListSafe(n, l)'
  <2>1. DOMAIN l = {1, 2} /\ l[1] = SetPeer(info) /\ l[2] = Sends(n, c, k, body)
    BY <1>4
  <2>2. KnownBy(n, l, 2, k)'
    <3>1. l[1].type = "SetPeer" /\ l[1].peer_info = info
      BY <2>1 DEF SetPeer
    <3> QED
      BY <2>1, <3>1 DEF KnownBy
  <2>3. ActionSafe(n, l, 2)'
    BY <1>4, <2>1, <2>2, SafeSend
  <2> QED
    BY <1>2, <2>1, <2>3 DEF ListSafe
<1> QED
  BY <1>3, <1>4

\* A Hello to a peer that awaits it, after its record.
LEMMA GreetSafe ==
  ASSUME NInv, NEW n \in Pubkey, NEW k, NEW c, Joins(c, n, k), Awaits(k, c)', NEW l, l = GreetList(n, k, c)
  PROVE  ListSafe(n, l)'
<1>1. PICK info : info = new_info(tmp(k), c, now)
  OBVIOUS
<1>2. info.peer.pubkey = k /\ info.connection_info = c
  BY <1>1 DEF new_info, tmp
<1>3. DOMAIN l = {1, 2} /\ l[1] = SetPeer(info) /\ l[2] = Sends(n, c, k, Hello)
  BY <1>1 DEF GreetList
<1>4. l[1].type = "SetPeer" /\ l[1].peer_info = info
  BY <1>3 DEF SetPeer
<1>5. l[2].type = "MessageSend" /\ l[2].to = c /\ IsEvent(l[2].message, "Hello")
  BY <1>3 DEF Sends, MessageSend, create_sealed_message, IsEvent, Hello
<1>6. Met(n, l, info)'
  BY <1>2, <1>3, <1>5 DEF Met, GreetsOver, IsEvent
<1>7. ActionSafe(n, l, 1)'
  BY <1>3, <1>6, SafeRecord
<1>8. KnownBy(n, l, 2, k)'
  BY <1>2, <1>3, <1>4 DEF KnownBy
<1>9. ActionSafe(n, l, 2)'
  BY <1>3, <1>8, SafeSend, EventKinds
<1> QED
  BY <1>3, <1>7, <1>9 DEF ListSafe

\* The answer to a Hello: its sender knows n.
LEMMA InitSafe ==
  ASSUME NInv, NEW n \in Pubkey, NEW k, NEW c, Joins(c, n, k), Known(k, n)', NEW l, l = InitList(n, k, c)
  PROVE  ListSafe(n, l)'
<1>1. PICK info : info = new_info(tmp(k), c, now)
  OBVIOUS
<1>2. info.peer.pubkey = k /\ info.connection_info = c
  BY <1>1 DEF new_info, tmp
<1>3. DOMAIN l = {1, 2, 3} /\ l[1] = SetPeer(info) /\ l[2] = UnsetPendingPeer(c)
      /\ l[3] = Sends(n, c, k, PeerInit(NameOf[n]))
  BY <1>1 DEF InitList
<1>4. l[1].type = "SetPeer" /\ l[1].peer_info = info
  BY <1>3 DEF SetPeer
<1>5. Met(n, l, info)'
  BY <1>2, MetByKnown
<1>6. ActionSafe(n, l, 1)'
  BY <1>3, <1>5, SafeRecord
<1>7. KnownBy(n, l, 2, k)' /\ KnownBy(n, l, 3, k)'
  BY <1>2, <1>3, <1>4 DEF KnownBy
<1>8. ActionSafe(n, l, 2)'
  <2>1. l[2].type = "UnsetPendingPeer" /\ l[2].connection_info = c
    BY <1>3 DEF UnsetPendingPeer
  <2>2. OtherEnd(c, n) = k
    BY JoinsEnds
  <2> QED
    BY <1>7, <2>1, <2>2 DEF ActionSafe, OtherEnd
<1>9. ActionSafe(n, l, 3)'
  BY <1>3, <1>7, SafeSend, EventKinds
<1> QED
  BY <1>3, <1>6, <1>8, <1>9 DEF ListSafe

\* Whatever arrives, the list is safe.
LEMMA AnswerSafe ==
  ASSUME NInv, Steady, NEW n \in Pubkey, NEW m, NEW c, MessageOK(m, c, n),
         m.type = "Init" => Awaits(m.from, c), m.type = "Sealed" => Known(m.from, n),
         NEW l, Answer(n, m, c, l)
  PROVE  ListSafe(n, l)'
<1> DEFINE k == m.from
<1>1. Joins(c, n, k) /\ BookOK(n) /\ Domains /\ k \in Pubkey /\ c \in Conn
  BY DEF MessageOK, NInv, PeerOK, Joins
<1>2. m.type = "Init" => Awaits(k, c)'
  BY <1>1 DEF Steady
<1>3. m.type = "Sealed" => Known(k, n)'
  BY <1>1 DEF Steady
<1>4. CASE l = <<>>
  BY <1>4 DEF ListSafe
<1>5. CASE m.type = "Init" /\ l = GreetList(n, k, c)
  BY <1>1, <1>2, <1>5, GreetSafe
<1>6. CASE IsEvent(m, "Hello") /\ is_pending(Self(n), c) /\ l = InitList(n, k, c)
  BY <1>1, <1>3, <1>6, InitSafe DEF IsEvent
<1>7. CASE IsEvent(m, "PeerInit") /\ l = <<Confirm(m.body)>>
  BY <1>7 DEF ListSafe, ActionSafe, Confirm
<1>8. ASSUME Known(n, k)
      PROVE  /\ RecordOK(n, peers[n][k]) /\ peers[n][k].peer.pubkey = k
             /\ Joins(peers[n][k].connection_info, n, k)
  BY <1>1, <1>8, BookKeys DEF Known
<1>9. CASE IsEvent(m, "PeerInit") /\ Accepts(n, k) /\ Known(n, k) /\ l = ConfirmList(n, k, m.body.name)
  <2>1. m.body.name \in Name
    BY <1>9 DEF IsEvent, MessageOK, MessageInit, BodyOK
  <2>2. PICK info : info = confirmed(peers[n][k], m.body.name, now)
    OBVIOUS
  <2>3. info.peer.pubkey = k /\ info.connection_info = peers[n][k].connection_info
    BY <1>8, <1>9, <2>2 DEF confirmed, RecordOK, PeerInfo, Peer
  <2> QED
    BY <1>3, <1>8, <1>9, <2>2, <2>3, RecordSafe, EventKinds DEF ConfirmList, IsEvent
<1>10. CASE IsEvent(m, "PeerConfirm") /\ Known(n, k) /\ l = <<SetPeer(confirmed(peers[n][k], m.body.name, now))>>
  <2>1. m.body.name \in Name
    BY <1>10 DEF IsEvent, MessageOK, MessageInit, BodyOK
  <2>2. PICK info : info = confirmed(peers[n][k], m.body.name, now)
    OBVIOUS
  <2>3. info.peer.pubkey = k /\ info.connection_info = peers[n][k].connection_info
    BY <1>8, <1>10, <2>2 DEF confirmed, RecordOK, PeerInfo, Peer
  <2> QED
    BY <1>3, <1>8, <1>10, <2>2, <2>3, RecordSafe DEF IsEvent
<1>11. CASE \/ /\ IsEvent(m, "Ping") /\ Known(n, k)
               /\ l = <<SetPeer(seen(peers[n][k], now)), Sends(n, peers[n][k].connection_info, k, Pong)>>
            \/ IsEvent(m, "Pong") /\ Known(n, k) /\ l = <<SetPeer(seen(peers[n][k], now))>>
  <2>1. PICK info : info = seen(peers[n][k], now)
    OBVIOUS
  <2>2. info.peer.pubkey = k /\ info.connection_info = peers[n][k].connection_info
    BY <1>1, <1>8, <1>11, <2>1, RecordsOK
  <2> QED
    BY <1>3, <1>8, <1>11, <2>1, <2>2, RecordSafe, EventKinds DEF IsEvent
<1> QED
  BY <1>4, <1>5, <1>6, <1>7, <1>9, <1>10, <1>11 DEF Answer

-----------------------------------------------------------------------------
(* Steps. *)

\* A host takes a list without a message: what it knows it still knows.
LEMMA TakeQuietSteady ==
  ASSUME NInv, NEW n \in Pubkey, NEW l, todo[n] = <<>>, todo' = [todo EXCEPT ![n] = l],
         UNCHANGED <<peers, pending_peer_init, cut, wire>>
  PROVE  Steady
<1>1. ASSUME NEW c \in Conn, NEW k \in Pubkey, NEW i \in DOMAIN wire[c][k], IsEvent(wire[c][k][i], "Hello")
      PROVE  Reached(c, k)'
  BY <1>1 DEF Reached, IsEvent
<1> QED
  BY <1>1, TakeSteady

\* If the list is safe, so is everything.
LEMMA TakeQuietSafe ==
  ASSUME NInv, HInv, NEW n \in Pubkey, NEW l, todo[n] = <<>>, todo' = [todo EXCEPT ![n] = l],
         UNCHANGED <<peers, pending_peer_init, cut, wire, failed>>,
         \A k \in Pubkey : prompts'[k] \subseteq prompts[k], ListSafe(n, l)'
  PROVE  HInv'
<1>1. Steady
  BY TakeQuietSteady
<1>2. HostsSurvive' /\ PromptsSafe'
  BY DEF HInv, HostsSurvive, PromptsSafe, Known
<1>3. TodoSafe' /\ BooksSafe'
  BY <1>1, TakeSafe
<1>4. WireSafe'
  BY <1>1, WireStays DEF HInv
<1> QED
  BY <1>2, <1>3, <1>4 DEF HInv

\* Dialing: the stream is pending before the Init leaves.
LEMMA DialSafe ==
  ASSUME NInv, HInv, NEW c \in Conn, Dial(c)
  PROVE  HInv'
<1>1. PICK n : n = c[1]
  OBVIOUS
<1>2. n \in Pubkey
  BY <1>1, StreamJoins DEF Joins
<1>3. PICK l : /\ l \in init_comm(Self(n), c, now).lists /\ todo' = [todo EXCEPT ![n] = l] /\ todo[n] = <<>>
               /\ UNCHANGED <<peers, pending_peer_init, cut, wire, failed, prompts>>
  BY <1>1 DEF Dial, Take, Ready
<1>4. l = <<SetPendingPeer([connection_info |-> c, created |-> now]),
            MessageSend(c, [type |-> "Init", from |-> n])>>
  BY <1>3 DEF init_comm, Ok, Self
<1>5. /\ DOMAIN l = {1, 2} /\ l[1].type = "SetPendingPeer" /\ l[1].pending_peer.connection_info = c
      /\ l[2].type = "MessageSend" /\ l[2].to = c /\ l[2].message.type = "Init"
  BY <1>4 DEF SetPendingPeer, MessageSend
<1>6. ActionSafe(n, l, 1)'
  BY <1>5 DEF ActionSafe
<1>7. SendSafe(n, l, 2)'
  BY <1>5 DEF SendSafe, IsEvent
<1>8. ListSafe(n, l)'
  BY <1>5, <1>6, <1>7 DEF ListSafe, ActionSafe
<1> QED
  BY <1>2, <1>3, <1>8, TakeQuietSafe

\* Nobody is forgotten: tick only pings.
LEMMA TickPings ==
  ASSUME NInv, NothingForgotten, NEW n \in Pubkey, NEW l \in tick(Self(n), now).lists, NEW i \in DOMAIN l
  PROVE  \E k \in DOMAIN peers[n] : l[i] = Sends(n, peers[n][k].connection_info, k, Ping)
<1>1. PeerOK(n) /\ BookOK(n) /\ now \in Nat
  BY DEF NInv, PeerOK, Domains
<1>2. \A x \in DOMAIN l :
        \/ \E k \in due(Self(n), now) : l[x] = tick_peer(Self(n), k, now)
        \/ \E p \in stale(Self(n), now) : l[x] = UnsetPendingPeer(p.connection_info)
  BY <1>1, TickFinite, TickActions
<1>3. stale(Self(n), now) = {}
  <2>1. \A p \in pending_peer_init[n] : p.created \in Nat /\ now - p.created < 120
    BY <1>1 DEF NothingForgotten, PeerOK, PendingOK, PendingPeer, Time
  <2> QED
    BY <1>1, <2>1 DEF stale, Self
<1>4. PICK k \in due(Self(n), now) : l[i] = tick_peer(Self(n), k, now)
  BY <1>2, <1>3
<1>5. Known(n, k)
  BY <1>1, TickPeer
<1>6. Joins(peers[n][k].connection_info, n, k) /\ RecordOK(n, peers[n][k]) /\ peers[n][k].peer.pubkey = k
  BY <1>1, <1>5, BookKeys DEF Known
<1>7. ~(now - peers[n][k].last_ping > 180 /\ ~peers[n][k].active)
  <2>1. peers[n][k].last_ping \in Nat
    BY <1>6 DEF RecordOK, PeerInfo, Time
  <2>2. ~peers[n][k].active => now - peers[n][k].last_ping <= 180
    BY <1>5 DEF NothingForgotten, Known
  <2> QED
    BY <1>1, <2>1, <2>2
<1>8. tick_peer(Self(n), k, now) = MessageSend(peers[n][k].connection_info,
                                     create_sealed_message(Self(n), peers[n][k].peer, Ping))
  BY <1>7 DEF tick_peer, Self
<1>9. l[i] = Sends(n, peers[n][k].connection_info, k, Ping)
  BY <1>1, <1>4, <1>5, <1>8, BookKeys DEF Known
<1> QED
  BY <1>5, <1>9 DEF Known

\* The timer: who is pinged is met.
LEMMA TickSafe ==
  ASSUME NInv, HInv, NothingForgotten, NEW n \in Pubkey, Tick(n)
  PROVE  HInv'
<1>1. PICK l : /\ l \in tick(Self(n), now).lists /\ todo' = [todo EXCEPT ![n] = l] /\ todo[n] = <<>>
               /\ UNCHANGED <<peers, pending_peer_init, cut, wire, failed, prompts>>
  BY DEF Tick, Take, Ready
<1>2. Steady
  BY <1>1, TakeQuietSteady
<1>3. PeerOK(n) /\ BookOK(n)
  BY DEF NInv, PeerOK
<1>4. \A i \in DOMAIN l : \E k \in DOMAIN peers[n] : l[i] = Sends(n, peers[n][k].connection_info, k, Ping)
  BY <1>1, TickPings
<1>5. ASSUME NEW i \in DOMAIN l PROVE ActionSafe(n, l, i)'
  <2>1. PICK k \in DOMAIN peers[n] : l[i] = Sends(n, peers[n][k].connection_info, k, Ping)
    BY <1>4
  <2>2. Joins(peers[n][k].connection_info, n, k) /\ RecordOK(n, peers[n][k]) /\ peers[n][k].peer.pubkey = k
    BY <1>3, BookKeys
  <2>3. Reached(peers[n][k].connection_info, k)
    BY <1>1, <2>2 DEF HInv, BooksSafe, Met, GreetsOver
  <2>4. PICK c : c = peers[n][k].connection_info
    OBVIOUS
  <2>5. c \in Conn /\ k \in Pubkey /\ Reached(c, k) /\ Joins(c, n, k)
    BY <2>2, <2>3, <2>4 DEF Joins
  <2>6. Reached(c, k)' /\ KnownBy(n, l, i, k)'
    BY <1>1, <1>2, <2>5 DEF Steady, KnownBy, Known
  <2> QED
    BY <2>1, <2>4, <2>5, <2>6, SafeSend, EventKinds
<1>6. ListSafe(n, l)'
  BY <1>5 DEF ListSafe
<1> QED
  BY <1>1, <1>6, TakeQuietSafe

\* The user's consent: who asked has n in its book.
LEMMA UserConfirmSafe ==
  ASSUME NInv, HInv, NEW n \in Pubkey, NEW k \in Pubkey, UserConfirm(n, k)
  PROVE  HInv'
<1>1. PICK l : /\ l \in peer_confirm(Self(n), k, NameOf[k], now).lists
               /\ todo' = [todo EXCEPT ![n] = l] /\ todo[n] = <<>>
               /\ UNCHANGED <<peers, pending_peer_init, cut, wire, failed>>
  BY DEF UserConfirm, Take, Ready
<1>2. k \in prompts[n] /\ prompts' = [prompts EXCEPT ![n] = @ \ {k}]
  BY DEF UserConfirm
<1>3. \A j \in Pubkey : prompts'[j] \subseteq prompts[j]
  BY <1>2 DEF NInv, Domains
<1>4. BookOK(n) /\ NameOf[k] \in Name /\ Domains
  BY PeersAssumption DEF NInv, PeerOK
<1>5. l = <<>> \/ (Known(n, k) /\ l = ConfirmList(n, k, NameOf[k]))
  BY <1>1, <1>4, PeerConfirmList
<1>6. Known(k, n)'
  BY <1>1, <1>2 DEF HInv, PromptsSafe, Known
<1>7. CASE l = <<>>
  <2>1. ListSafe(n, l)'
    BY <1>7 DEF ListSafe
  <2> QED
    BY <1>1, <1>3, <2>1, TakeQuietSafe
<1>8. CASE Known(n, k) /\ l = ConfirmList(n, k, NameOf[k])
  <2>1. RecordOK(n, peers[n][k]) /\ peers[n][k].peer.pubkey = k /\ Joins(peers[n][k].connection_info, n, k)
    BY <1>4, <1>8, BookKeys DEF Known
  <2>2. PICK info : info = confirmed(peers[n][k], NameOf[k], now)
    OBVIOUS
  <2>3. info.peer.pubkey = k /\ info.connection_info = peers[n][k].connection_info
    BY <2>1, <2>2 DEF confirmed, RecordOK, PeerInfo, Peer
  <2>4. ListSafe(n, l)'
    BY <1>6, <1>8, <2>1, <2>2, <2>3, RecordSafe, EventKinds DEF ConfirmList
  <2> QED
    BY <1>1, <1>3, <2>4, TakeQuietSafe
<1> QED
  BY <1>5, <1>7, <1>8

\* What a cut leaves of a stream; what is lost was sent over a stream that
\* is cut.
LEMMA CutSafe ==
  ASSUME NInv, HInv, NEW c \in Conn, NEW n \in Pubkey, Cut(c, n)
  PROVE  HInv'
<1> DEFINE s == wire[c][n]
<1>1. /\ cut' = cut \cup {<<c, n>>} /\ Domains
      /\ UNCHANGED <<peers, pending_peer_init, todo, failed, prompts>>
  BY DEF Cut, node, NInv
<1>2. PICK x \in 0..Len(s) : wire' = [wire EXCEPT ![c][n] = SubSeq(@, 1, x)]
  BY DEF Cut
<1>3. /\ wire'[c][n] = SubSeq(s, 1, x) /\ s \in Seq(MessageWrapped)
      /\ \A d \in Conn, k \in Pubkey : d # c \/ k # n => wire'[d][k] = wire[d][k]
  BY <1>1, <1>2 DEF Domains, NInv, WireOK
<1>4. PICK t : t = wire'[c][n]
  OBVIOUS
<1>5. \A i \in DOMAIN t : i \in Nat /\ i \in DOMAIN s /\ t[i] = s[i] /\ \A j \in DOMAIN s : j < i => j \in DOMAIN t
  <2> HIDE DEF s
  <2>1. t = SubSeq(s, 1, x) /\ x \in 0..Len(s) /\ s \in Seq(MessageWrapped)
    BY <1>2, <1>3, <1>4
  <2>2. DOMAIN t = 1..x /\ DOMAIN s = 1..Len(s) /\ \A i \in 1..x : t[i] = s[i]
    BY <2>1
  <2> QED
    BY <2>1, <2>2
<1>6. Steady
  <2>1. /\ \A j, k \in Pubkey : Known(j, k) => Known(j, k)'
        /\ \A j, k \in Pubkey : WillKnow(j, k) => WillKnow(j, k)'
        /\ \A d \in Conn, j \in Pubkey : Awaits(j, d) => Awaits(j, d)'
    BY <1>1 DEF Known, WillKnow, Awaits, is_pending, Self, OtherEnd
  <2>2. ASSUME NEW d \in Conn, NEW j \in Pubkey, Reached(d, j) PROVE Reached(d, j)'
    <3>1. CASE d = c /\ j = n
      BY <1>1, <3>1 DEF Reached
    <3>2. CASE d # c \/ j # n
      <4>1. wire'[d][j] = wire[d][j]
        BY <1>3, <3>2
      <4> QED
        BY <1>1, <2>2, <4>1 DEF Reached, WillKnow, Known, OtherEnd, IsEvent
    <3> QED
      BY <3>1, <3>2
  <2> QED
    BY <2>1, <2>2 DEF Steady
<1>7. TodoSafe' /\ BooksSafe' /\ HostsSurvive' /\ PromptsSafe'
  BY <1>1, <1>6, StaySafe
<1>8. ASSUME NEW d \in Conn, NEW k \in Pubkey, NEW i \in DOMAIN wire'[d][k]
      PROVE  MessageSafe(wire[d][k], i, d, k)'
  <2>1. CASE d = c /\ k = n
    <3>1. i \in DOMAIN t /\ i \in DOMAIN s
      BY <1>4, <1>5, <1>8, <2>1
    <3>2. s[i].from \in Pubkey /\ MessageSafe(s, i, c, n)
      BY <3>1 DEF NInv, WireOK, MessageOK, Joins, HInv, WireSafe
    <3>3. PICK v : v = s
      OBVIOUS
    <3>4. MessageSafe(v, i, c, n)'
      BY <1>6, <3>2, <3>3, MessageLasts
    <3>5. MessageSafe(t, i, c, n)'
      BY <1>5, <3>1, <3>3, <3>4 DEF MessageSafe, IsEvent
    <3> QED
      BY <1>4, <2>1, <3>5
  <2>2. CASE d # c \/ k # n
    <3>1. PICK v : v = wire[d][k]
      OBVIOUS
    <3>2. wire'[d][k] = v /\ i \in DOMAIN v
      BY <1>3, <1>8, <2>2, <3>1
    <3>3. v[i].from \in Pubkey /\ MessageSafe(v, i, d, k)
      BY <3>1, <3>2 DEF NInv, WireOK, MessageOK, Joins, HInv, WireSafe
    <3>4. MessageSafe(v, i, d, k)'
      BY <1>6, <3>3, MessageLasts
    <3> QED
      BY <3>2, <3>4
  <2> QED
    BY <2>1, <2>2
<1> QED
  BY <1>7, <1>8 DEF HInv, WireSafe

\* Receiving: no handler is handed a message it has no peer for.
LEMMA ReceiveSafe ==
  ASSUME NInv, HInv, NEW n \in Pubkey, NEW c \in Conn, Receive(n, c)
  PROVE  HInv'
<1>1. PICK m : m = Head(wire[c][n])
  OBVIOUS
<1>2. /\ wire[c][n] # <<>> /\ wire' = [wire EXCEPT ![c][n] = Tail(@)] /\ BookOK(n) /\ Domains /\ todo[n] = <<>>
      /\ UNCHANGED <<peers, pending_peer_init, cut>>
  BY DEF Receive, Take, Ready, NInv, PeerOK
<1>3. PICK l : l \in Handler(Self(n), m, c).lists /\ todo' = [todo EXCEPT ![n] = l]
  BY <1>1 DEF Receive, Take
<1>4. PICK s : s = wire[c][n]
  OBVIOUS
<1>5. PICK t : t = wire'[c][n]
  OBVIOUS
<1>6. /\ MessageOK(m, c, n) /\ m = s[1] /\ 1 \in DOMAIN s /\ MessageSafe(s, 1, c, n)
      /\ \A i \in DOMAIN t : i + 1 \in DOMAIN s /\ t[i] = s[i + 1] /\ i \in Nat
      /\ \A i \in DOMAIN s : i # 1 => i - 1 \in DOMAIN t /\ t[i - 1] = s[i] /\ i \in Nat
  <2>1. s \in Seq(MessageWrapped) /\ s # <<>> /\ t = Tail(s) /\ m = Head(s)
    <3>1. t = Tail(s)
      BY <1>2, <1>4, <1>5, HeadOfWire
    <3>2. s \in Seq(MessageWrapped)
      BY <1>4 DEF NInv, WireOK
    <3> QED
      BY <1>1, <1>2, <1>4, <3>1, <3>2
  <2>2. MessageOK(m, c, n)
    BY <1>1, <1>2, HeadOfWire
  <2>3. m = s[1] /\ 1 \in DOMAIN s
    BY <2>1
  <2>4. MessageSafe(s, 1, c, n)
    BY <1>4, <2>3 DEF HInv, WireSafe
  <2>5. /\ \A i \in DOMAIN t : i + 1 \in DOMAIN s /\ t[i] = s[i + 1] /\ i \in Nat
        /\ \A i \in DOMAIN s : i # 1 => i - 1 \in DOMAIN t /\ t[i - 1] = s[i] /\ i \in Nat
    BY <2>1
  <2> QED
    BY <2>2, <2>3, <2>4, <2>5
<1>7. \A d \in Conn, k \in Pubkey : d # c \/ k # n => wire'[d][k] = wire[d][k]
  BY <1>2, HeadOfWire
<1>8. PICK k : k = m.from
  OBVIOUS
<1>9. k \in Pubkey /\ OtherEnd(c, n) = k
  <2>1. Joins(c, n, k)
    BY <1>6, <1>8 DEF MessageOK
  <2> QED
    BY <2>1, JoinsEnds DEF Joins
<1>10. todo'[n] = l
  BY <1>2, <1>3 DEF Domains
<1>11. IsEvent(m, "Hello") => WillKnow(n, k)'
  <2> SUFFICES ASSUME IsEvent(m, "Hello") PROVE WillKnow(n, k)'
    OBVIOUS
  <2>1. Awaits(n, c)
    BY <1>6 DEF MessageSafe
  <2>2. CASE is_pending(Self(n), c)
    <3>1. 1 \in DOMAIN l /\ l[1].type = "SetPeer" /\ l[1].peer_info.peer.pubkey = k
      BY <1>2, <1>3, <1>6, <1>8, <2>2, HelloHeard
    <3> QED
      BY <1>10, <3>1 DEF WillKnow
  <2>3. CASE WillKnow(n, OtherEnd(c, n))
    BY <1>2, <1>9, <2>3 DEF WillKnow, Known
  <2> QED
    BY <2>1, <2>2, <2>3 DEF Awaits
<1>12. ASSUME NEW d \in Conn, NEW j \in Pubkey, NEW i \in DOMAIN wire[d][j], IsEvent(wire[d][j][i], "Hello")
       PROVE  Reached(d, j)'
  <2>1. CASE d = c /\ j = n
    <3>1. CASE i = 1
      BY <1>4, <1>6, <1>9, <1>11, <1>12, <2>1, <3>1 DEF Reached, OtherEnd
    <3>2. CASE i # 1
      <4>1. i - 1 \in DOMAIN t /\ t[i - 1] = wire[d][j][i]
        BY <1>4, <1>6, <1>12, <2>1, <3>2
      <4> QED
        BY <1>5, <1>12, <2>1, <4>1 DEF Reached, IsEvent
    <3> QED
      BY <3>1, <3>2
  <2>2. CASE d # c \/ j # n
    <3>1. wire'[d][j] = wire[d][j]
      BY <1>7, <2>2
    <3> QED
      BY <1>12, <3>1 DEF Reached, IsEvent
  <2> QED
    BY <2>1, <2>2
<1>13. Steady
  BY <1>2, <1>3, <1>12, TakeSteady
<1>14. HostsSurvive'
  <2>1. m.type = "Init" \/ IsEvent(m, "Hello") \/ Known(n, k)
    <3> SUFFICES ASSUME m.type # "Init", ~IsEvent(m, "Hello") PROVE Known(n, k)
      OBVIOUS
    <3>1. m.type = "Sealed" /\ m.body.kind \in {"PeerInit", "PeerConfirm", "Ping", "Pong"}
      BY <1>6 DEF MessageOK, MessageInit, MessageSealed, BodyOK, IsEvent
    <3>2. CASE m.body.kind = "Ping"
      <4>1. WillKnow(n, k) \/ \E j \in DOMAIN s : j < 1 /\ IsEvent(s[j], "Hello")
        BY <1>6, <1>8, <3>1, <3>2 DEF MessageSafe, IsEvent
      <4>2. \A j \in DOMAIN s : ~(j < 1)
        BY <1>6
      <4> QED
        BY <1>2, <4>1, <4>2 DEF WillKnow
    <3>3. CASE m.body.kind # "Ping"
      BY <1>6, <1>8, <3>1, <3>3 DEF MessageSafe
    <3> QED
      BY <3>2, <3>3
  <2>2. Handler(Self(n), m, c).result = "Ok"
    BY <1>2, <1>6, <1>8, <2>1, HandlerOk
  <2>3. failed' = failed
    BY <1>1, <2>2 DEF Receive
  <2> QED
    BY <2>3 DEF HInv, HostsSurvive
<1>15. ListSafe(n, l)'
  <2>1. Answer(n, m, c, l)
    BY <1>2, <1>3, <1>6, HandlerAnswers
  <2>2. m.type = "Init" => Awaits(m.from, c)
    BY <1>6 DEF MessageSafe
  <2>3. m.type = "Sealed" => Known(m.from, n)
    BY <1>6 DEF MessageSafe
  <2> QED
    BY <1>6, <1>13, <2>1, <2>2, <2>3, AnswerSafe
<1>16. TodoSafe' /\ BooksSafe'
  BY <1>2, <1>3, <1>13, <1>15, TakeSafe
<1>17. PromptsSafe'
  <2>1. prompts' = prompts \/ (IsEvent(m, "PeerInit") /\ prompts' = [prompts EXCEPT ![n] = @ \cup {k}])
    BY <1>1, <1>8 DEF Receive
  <2>2. IsEvent(m, "PeerInit") => Known(k, n)
    BY <1>6, <1>8 DEF MessageSafe, IsEvent
  <2>3. \A j \in Pubkey : \A i \in prompts'[j] : i \in prompts[j] \/ (j = n /\ i = k /\ Known(k, n))
    BY <1>2, <2>1, <2>2 DEF Domains
  <2> QED
    BY <1>2, <2>3 DEF HInv, PromptsSafe, Known
<1>18. ASSUME NEW d \in Conn, NEW j \in Pubkey, NEW i \in DOMAIN wire'[d][j]
       PROVE  MessageSafe(wire[d][j], i, d, j)'
  <2>1. CASE d = c /\ j = n
    <3>1. i \in DOMAIN t /\ i + 1 \in DOMAIN s /\ t[i] = s[i + 1] /\ i \in Nat
      BY <1>5, <1>6, <1>18, <2>1
    <3>2. s[i + 1].from \in Pubkey /\ MessageSafe(s, i + 1, c, n) /\ s[i + 1].from = k
      <4>1. MessageOK(s[i + 1], c, n)
        BY <1>4, <3>1 DEF NInv, WireOK
      <4>2. Joins(c, n, s[i + 1].from)
        BY <4>1 DEF MessageOK
      <4>3. OtherEnd(c, n) = s[i + 1].from
        BY <4>2, JoinsEnds
      <4> QED
        BY <1>4, <1>9, <3>1, <4>3 DEF HInv, WireSafe
    <3>3. MessageSafe(s, i + 1, c, n)'
      BY <1>13, <3>2, MessageLasts
    <3>4. IsEvent(t[i], "Ping") => WillKnow(n, k)' \/ \E x \in DOMAIN t : x < i /\ IsEvent(t[x], "Hello")
      <4> SUFFICES ASSUME IsEvent(t[i], "Ping"), ~WillKnow(n, k)'
                   PROVE  \E x \in DOMAIN t : x < i /\ IsEvent(t[x], "Hello")
        OBVIOUS
      <4>1. PICK x \in DOMAIN s : x < i + 1 /\ IsEvent(s[x], "Hello")
        BY <3>1, <3>2, <3>3 DEF MessageSafe, IsEvent
      <4>2. x # 1
        BY <1>6, <1>11, <4>1
      <4> QED
        BY <1>6, <3>1, <4>1, <4>2
    <3>5. MessageSafe(t, i, c, n)'
      BY <3>1, <3>2, <3>3, <3>4 DEF MessageSafe, IsEvent
    <3> QED
      BY <1>5, <2>1, <3>5
  <2>2. CASE d # c \/ j # n
    <3>1. PICK v : v = wire[d][j]
      OBVIOUS
    <3>2. wire'[d][j] = v /\ i \in DOMAIN v
      BY <1>7, <1>18, <2>2, <3>1
    <3>3. v[i].from \in Pubkey /\ MessageSafe(v, i, d, j)
      BY <3>1, <3>2 DEF NInv, WireOK, MessageOK, Joins, HInv, WireSafe
    <3>4. MessageSafe(v, i, d, j)'
      BY <1>13, <3>3, MessageLasts
    <3> QED
      BY <3>2, <3>4
  <2> QED
    BY <2>1, <2>2
<1> QED
  BY <1>14, <1>16, <1>17, <1>18 DEF HInv, WireSafe

\* A host that carries out an action puts a message at the end of a stream
\* or leaves it alone.
LEMMA WireGrows ==
  ASSUME NInv, NEW n \in Pubkey, Dispatch(n), NEW c \in Conn, NEW j \in Pubkey
  PROVE  \A i \in DOMAIN wire[c][j] : i \in DOMAIN wire'[c][j] /\ wire'[c][j][i] = wire[c][j][i]
<1>1. PICK w : w = wire[c][j]
  OBVIOUS
<1>2. w \in Seq(MessageWrapped)
  BY <1>1 DEF NInv, WireOK
<1>3. wire'[c][j] = w \/ \E m : wire'[c][j] = Append(w, m)
  <2> DEFINE b == todo[n][1]
             e == OtherEnd(b.to, n)
  <2>1. \A d \in Conn, k \in Pubkey :
          \/ wire'[d][k] = wire[d][k]
          \/ /\ b.type = "MessageSend" /\ d = b.to /\ k = e /\ <<d, k>> \notin cut
             /\ wire'[d][k] = Append(wire[d][k], b.message)
    BY DispatchSends, Zenon
  <2> HIDE DEF b, e
  <2> QED
    BY <1>1, <2>1
<1>4. \A m : \A i \in DOMAIN w : i \in DOMAIN Append(w, m) /\ Append(w, m)[i] = w[i]
  BY <1>2
<1> QED
  BY <1>1, <1>3, <1>4

\* Carrying out an action: what it does to the peers.
LEMMA DispatchSteady ==
  ASSUME NInv, HInv, NEW n \in Pubkey, Dispatch(n)
  PROVE  Steady
<1> PICK a : a = todo[n][1]
  OBVIOUS
<1>1. /\ 1 \in DOMAIN todo[n] /\ ActionOK(n, a) /\ ActionSafe(n, todo[n], 1)
      /\ peers'[n] = apply_peers(peers[n], a) /\ pending_peer_init'[n] = apply_pending(pending_peer_init[n], a)
      /\ \A k \in Pubkey : k # n => /\ peers'[k] = peers[k] /\ todo'[k] = todo[k]
                                    /\ pending_peer_init'[k] = pending_peer_init[k]
      /\ \A i \in DOMAIN todo[n] : i # 1 => i - 1 \in DOMAIN todo'[n] /\ todo'[n][i - 1] = todo[n][i]
      /\ \A i \in DOMAIN todo[n] : ~(i < 1)
  <2>1. \A i \in DOMAIN todo[n] : ~(i < 1)
    BY HeadOfTodo
  <2> QED
    BY <2>1, HeadOfTodo DEF HInv, TodoSafe, ListSafe
<1>2. a.type # "UnsetPeer"
  BY <1>1 DEF ActionSafe
<1>3. ASSUME NEW j \in Pubkey, NEW k, Known(j, k) PROVE Known(j, k)'
  <2>1. CASE j = n
    BY <1>1, <1>2, <1>3, <2>1 DEF Known, apply_peers
  <2>2. CASE j # n
    BY <1>1, <1>3, <2>2 DEF Known
  <2> QED
    BY <2>1, <2>2
<1>4. ASSUME NEW j \in Pubkey, NEW k, WillKnow(j, k) PROVE WillKnow(j, k)'
  <2>1. CASE Known(j, k)
    BY <1>3, <2>1 DEF WillKnow
  <2>2. CASE ~Known(j, k) /\ j = n
    <3>1. PICK i \in DOMAIN todo[n] : todo[n][i].type = "SetPeer" /\ todo[n][i].peer_info.peer.pubkey = k
      BY <1>4, <2>2 DEF WillKnow
    <3>2. CASE i = 1
      BY <1>1, <2>2, <3>1, <3>2 DEF WillKnow, Known, apply_peers
    <3>3. CASE i # 1
      BY <1>1, <2>2, <3>1, <3>3 DEF WillKnow
    <3> QED
      BY <3>2, <3>3
  <2>3. CASE ~Known(j, k) /\ j # n
    BY <1>1, <1>4, <2>3 DEF WillKnow, Known
  <2> QED
    BY <2>1, <2>2, <2>3
<1>5. ASSUME NEW c \in Conn, NEW j \in Pubkey, Awaits(j, c) PROVE Awaits(j, c)'
  <2>1. CASE WillKnow(j, OtherEnd(c, j))
    <3>1. PICK k : k = OtherEnd(c, j)
      OBVIOUS
    <3>2. WillKnow(j, k)'
      BY <1>4, <2>1, <3>1
    <3> QED
      BY <3>1, <3>2 DEF Awaits, OtherEnd
  <2>2. CASE is_pending(Self(j), c) /\ j # n
    BY <1>1, <2>2 DEF Awaits, is_pending, Self
  <2>3. CASE is_pending(Self(j), c) /\ j = n
    <3>1. CASE a.type = "UnsetPendingPeer" /\ a.connection_info = c
      <4>1. Known(n, OtherEnd(c, n))
        BY <1>1, <3>1 DEF ActionSafe, KnownBy
      <4>2. WillKnow(n, OtherEnd(c, n))
        BY <4>1 DEF WillKnow
      <4> QED
        BY <2>1, <2>3, <4>2
    <3>2. CASE ~(a.type = "UnsetPendingPeer" /\ a.connection_info = c)
      <4>1. PICK p \in pending_peer_init[n] : p.connection_info = c
        BY <2>3 DEF is_pending, Self
      <4>2. p \in apply_pending(pending_peer_init[n], a)
        BY <3>2, <4>1 DEF apply_pending
      <4>3. p \in pending_peer_init'[n]
        BY <1>1, <4>2
      <4> QED
        BY <2>3, <4>1, <4>3 DEF Awaits, is_pending, Self
    <3> QED
      BY <3>1, <3>2
  <2> QED
    BY <1>5, <2>1, <2>2, <2>3 DEF Awaits
<1>6. ASSUME NEW c \in Conn, NEW j \in Pubkey, Reached(c, j) PROVE Reached(c, j)'
  <2>1. CASE WillKnow(j, OtherEnd(c, j))
    <3>1. PICK k : k = OtherEnd(c, j)
      OBVIOUS
    <3>2. WillKnow(j, k)'
      BY <1>4, <2>1, <3>1
    <3> QED
      BY <3>1, <3>2 DEF Reached, OtherEnd
  <2>2. CASE <<c, j>> \in cut
    BY <2>2 DEF Reached, Dispatch
  <2>3. CASE \E i \in DOMAIN wire[c][j] : IsEvent(wire[c][j][i], "Hello")
    <3>1. PICK i : i \in DOMAIN wire[c][j] /\ IsEvent(wire[c][j][i], "Hello")
      BY <2>3
    <3>2. i \in DOMAIN wire'[c][j] /\ wire'[c][j][i] = wire[c][j][i]
      BY <3>1, WireGrows
    <3> QED
      BY <3>1, <3>2 DEF Reached, IsEvent
  <2> QED
    BY <1>6, <2>1, <2>2, <2>3 DEF Reached
<1> QED
  BY <1>3, <1>4, <1>5, <1>6 DEF Steady

\* What it does to the list: who was met, by the list or without it, still is.
LEMMA DispatchMeets ==
  ASSUME NInv, HInv, Steady, NEW n \in Pubkey, Dispatch(n), NEW info, RecordOK(n, info), NEW s, s = todo[n],
         Met(n, s, info), NEW t, t = todo'[n]
  PROVE  Met(n, t, info)'
<1>1. PICK c : c = info.connection_info
  OBVIOUS
<1>2. PICK k : k = info.peer.pubkey
  OBVIOUS
<1>3. Joins(c, n, k) /\ c \in Conn /\ k \in Pubkey /\ OtherEnd(c, n) = k
  <2>1. Joins(c, n, k)
    BY <1>1, <1>2 DEF RecordOK
  <2> QED
    BY <2>1, JoinsEnds DEF Joins
<1>4. CASE Reached(c, k)
  BY <1>1, <1>2, <1>3, <1>4 DEF Steady, Met
<1>5. CASE GreetsOver(s, c)
  <2>1. PICK j : j \in DOMAIN s /\ s[j].type = "MessageSend" /\ IsEvent(s[j].message, "Hello") /\ s[j].to = c
    BY <1>5 DEF GreetsOver
  <2>2. CASE j = 1
    <3>1. CASE <<c, k>> \in cut
      BY <1>1, <1>2, <3>1 DEF Dispatch, Met, Reached
    <3>2. CASE <<c, k>> \notin cut
      <4>1. wire'[c][k] = Append(wire[c][k], s[1].message)
        BY <1>3, <2>1, <2>2, <3>2, DispatchSends
      <4>2. wire[c][k] \in Seq(MessageWrapped)
        BY <1>3 DEF NInv, WireOK
      <4>3. \E i \in DOMAIN wire'[c][k] : wire'[c][k][i] = s[1].message
        BY <4>1, <4>2
      <4>4. Reached(c, k)'
        BY <2>1, <2>2, <4>3 DEF Reached, IsEvent
      <4> QED
        BY <1>1, <1>2, <4>4 DEF Met
    <3> QED
      BY <3>1, <3>2
  <2>3. CASE j # 1
    <3>1. j - 1 \in DOMAIN t /\ t[j - 1] = s[j]
      BY <2>1, <2>3, HeadOfTodo
    <3>2. GreetsOver(t, c)'
      BY <2>1, <3>1 DEF GreetsOver, IsEvent
    <3> QED
      BY <1>1, <3>2 DEF Met
  <2> QED
    BY <2>2, <2>3
<1> QED
  BY <1>1, <1>2, <1>4, <1>5 DEF Met

\* What is left of the list is safe: what its first action prepared is done.
LEMMA DispatchLists ==
  ASSUME NInv, HInv, Steady, NEW n \in Pubkey, Dispatch(n), NEW s, s = todo[n], NEW t, t = todo'[n]
  PROVE  ListSafe(n, t)'
<1> SUFFICES ASSUME NEW i \in DOMAIN t PROVE ActionSafe(n, t, i)'
  BY DEF ListSafe
<1> PICK a : a = s[1]
  OBVIOUS
<1>1. /\ i + 1 \in DOMAIN s /\ t[i] = s[i + 1] /\ i \in Nat /\ DOMAIN s \subseteq Nat
      /\ \A j \in DOMAIN s : j # 1 => j - 1 \in DOMAIN t /\ t[j - 1] = s[j]
      /\ peers'[n] = apply_peers(peers[n], a) /\ pending_peer_init'[n] = apply_pending(pending_peer_init[n], a)
  BY HeadOfTodo
<1>2. ActionOK(n, s[i + 1]) /\ ActionSafe(n, s, i + 1)
  BY <1>1 DEF NInv, PeerOK, ListOK, HInv, TodoSafe, ListSafe
<1>3. ActionSafe(n, s, i + 1)'
  BY <1>1, <1>2, SafeLasts
<1>4. PICK b : b = t[i]
  OBVIOUS
<1>5. ASSUME NEW k, KnownBy(n, s, i + 1, k)' PROVE KnownBy(n, t, i, k)'
  <2>1. CASE Known(n, k)'
    BY <2>1 DEF KnownBy
  <2>2. CASE ~Known(n, k)'
    <3>1. PICK j \in DOMAIN s : j < i + 1 /\ s[j].type = "SetPeer" /\ s[j].peer_info.peer.pubkey = k
      BY <1>5, <2>2 DEF KnownBy
    <3>2. j # 1
      BY <1>1, <2>2, <3>1 DEF Known, apply_peers
    <3> QED
      BY <1>1, <3>1, <3>2 DEF KnownBy
  <2> QED
    BY <2>1, <2>2
<1>6. b.type # "UnsetPeer"
  BY <1>1, <1>3, <1>4 DEF ActionSafe
<1>7. b.type = "UnsetPendingPeer" => KnownBy(n, t, i, OtherEnd(b.connection_info, n))'
  <2> SUFFICES ASSUME b.type = "UnsetPendingPeer"
               PROVE  KnownBy(n, t, i, OtherEnd(b.connection_info, n))'
    OBVIOUS
  <2>1. PICK k : k = OtherEnd(b.connection_info, n)
    OBVIOUS
  <2>2. KnownBy(n, s, i + 1, k)'
    BY <1>1, <1>3, <1>4, <2>1 DEF ActionSafe, OtherEnd
  <2> QED
    BY <1>5, <2>1, <2>2 DEF OtherEnd
<1>8. b.type = "SetPeer" => Met(n, t, b.peer_info)'
  <2> SUFFICES ASSUME b.type = "SetPeer" PROVE Met(n, t, b.peer_info)'
    OBVIOUS
  <2>1. PICK info : info = b.peer_info
    OBVIOUS
  <2>2. RecordOK(n, info) /\ Met(n, s, info)
    BY <1>1, <1>2, <1>4, <2>1 DEF ActionOK, ActionSafe
  <2>3. Met(n, t, info)'
    BY <2>2, DispatchMeets
  <2> QED
    BY <2>1, <2>3
<1>9. b.type = "MessageSend" => SendSafe(n, t, i)'
  <2> SUFFICES ASSUME b.type = "MessageSend" PROVE SendSafe(n, t, i)'
    OBVIOUS
  <2>1. PICK c : c = b.to
    OBVIOUS
  <2>2. PICK k : k = OtherEnd(c, n)
    OBVIOUS
  <2>3. SendSafe(n, s, i + 1)'
    BY <1>1, <1>3, <1>4 DEF ActionSafe
  <2>4. b.message.type = "Init" =>
          \/ Awaits(n, c)'
          \/ \E j \in DOMAIN t : j < i /\ t[j].type = "SetPendingPeer" /\ t[j].pending_peer.connection_info = c
    <3> SUFFICES ASSUME b.message.type = "Init", ~Awaits(n, c)'
                 PROVE  \E j \in DOMAIN t : j < i /\ t[j].type = "SetPendingPeer"
                                            /\ t[j].pending_peer.connection_info = c
      OBVIOUS
    <3>1. PICK j \in DOMAIN s : j < i + 1 /\ s[j].type = "SetPendingPeer" /\ s[j].pending_peer.connection_info = c
      BY <1>1, <1>4, <2>1, <2>3 DEF SendSafe
    <3>2. j # 1
      <4> SUFFICES ASSUME j = 1 PROVE FALSE
        OBVIOUS
      <4>1. a.type = "SetPendingPeer" /\ a.pending_peer.connection_info = c
        BY <3>1
      <4>2. \E p \in apply_pending(pending_peer_init[n], a) : p.connection_info = c
        BY <4>1 DEF apply_pending
      <4>3. Awaits(n, c)'
        BY <1>1, <4>2 DEF Awaits, is_pending, Self
      <4> QED
        BY <4>3
    <3> QED
      BY <1>1, <3>1, <3>2
  <2>5. b.message.type = "Sealed" => KnownBy(n, t, i, k)'
    BY <1>1, <1>4, <1>5, <2>1, <2>2, <2>3 DEF SendSafe, OtherEnd
  <2>6. /\ IsEvent(b.message, "Hello") => Awaits(k, c)'
        /\ IsEvent(b.message, "Ping") => Reached(c, k)'
        /\ b.message.type = "Sealed" /\ b.message.body.kind \in {"PeerInit", "PeerConfirm", "Pong"} => Known(k, n)'
    BY <1>1, <1>4, <2>1, <2>2, <2>3 DEF SendSafe, IsEvent, OtherEnd
  <2> QED
    BY <1>4, <2>1, <2>2, <2>4, <2>5, <2>6 DEF SendSafe, IsEvent, OtherEnd
<1> QED
  BY <1>4, <1>6, <1>7, <1>8, <1>9 DEF ActionSafe

\* The message that leaves: what it needs was prepared before.
LEMMA DispatchPrepared ==
  ASSUME NInv, HInv, NEW n \in Pubkey, Dispatch(n), todo[n][1].type = "MessageSend"
  PROVE  LET m == todo[n][1].message
             c == todo[n][1].to
             k == OtherEnd(c, n)
         IN /\ m.from = n /\ MessageOK(m, c, k)
            /\ m.type = "Init" => Awaits(n, c)
            /\ m.type = "Sealed" => Known(n, k)
            /\ IsEvent(m, "Hello") => Awaits(k, c)
            /\ IsEvent(m, "Ping") => Reached(c, k)
            /\ m.type = "Sealed" /\ m.body.kind \in {"PeerInit", "PeerConfirm", "Pong"} => Known(k, n)
<1>1. ActionOK(n, todo[n][1]) /\ 1 \in DOMAIN todo[n] /\ \A i \in DOMAIN todo[n] : ~(i < 1)
  BY HeadOfTodo
<1>2. SendSafe(n, todo[n], 1)
  BY <1>1 DEF HInv, TodoSafe, ListSafe, ActionSafe
<1> QED
  BY <1>1, <1>2 DEF SendSafe, KnownBy, ActionOK

\* So it may leave.
LEMMA DispatchMessage ==
  ASSUME NInv, Steady, NEW n \in Pubkey, NEW m, m.from = n, NEW c, NEW k, MessageOK(m, c, k), <<c, k>> \notin cut,
         m.type = "Init" => Awaits(n, c),
         m.type = "Sealed" => Known(n, k),
         IsEvent(m, "Hello") => Awaits(k, c),
         IsEvent(m, "Ping") => Reached(c, k),
         m.type = "Sealed" /\ m.body.kind \in {"PeerInit", "PeerConfirm", "Pong"} => Known(k, n),
         NEW w, w = wire[c][k], NEW v, v = Append(w, m)
  PROVE  Len(w) + 1 \in DOMAIN v /\ MessageSafe(v, Len(w) + 1, c, k)'
<1>1. Joins(c, k, n) /\ OtherEnd(c, k) = n /\ k \in Pubkey /\ c \in Conn
  <2>1. Joins(c, k, n)
    BY DEF MessageOK
  <2>2. OtherEnd(c, k) = n
    BY <2>1, JoinsEnds
  <2> QED
    BY <2>1, <2>2 DEF Joins
<1>2. w \in Seq(MessageWrapped)
  BY <1>1 DEF NInv, WireOK
<1> DEFINE e == Len(w) + 1
<1>3. /\ e \in DOMAIN v /\ v[e] = m
      /\ \A i \in DOMAIN w : i \in DOMAIN v /\ i < e /\ v[i] = w[i]
  BY <1>2
<1> HIDE DEF e
<1>4. IsEvent(m, "Ping") => WillKnow(k, n) \/ \E j \in DOMAIN v : j < e /\ IsEvent(v[j], "Hello")
  BY <1>1, <1>3 DEF Reached
<1>5. MessageSafe(v, e, c, k)
  BY <1>3, <1>4 DEF MessageSafe
<1>6. MessageSafe(v, e, c, k)'
  BY <1>1, <1>3, <1>5, MessageLasts
<1> QED
  BY <1>3, <1>6 DEF e

\* Carrying out an action keeps everything safe.
LEMMA DispatchSafe ==
  ASSUME NInv, HInv, NEW n \in Pubkey, Dispatch(n)
  PROVE  HInv'
<1> PICK a : a = todo[n][1]
  OBVIOUS
<1>1. Steady
  BY DispatchSteady
<1>2. /\ ActionOK(n, a) /\ ActionSafe(n, todo[n], 1) /\ peers'[n] = apply_peers(peers[n], a)
      /\ \A k \in Pubkey : k # n => peers'[k] = peers[k] /\ todo'[k] = todo[k]
      /\ UNCHANGED <<failed, prompts>>
  BY HeadOfTodo DEF Dispatch, HInv, TodoSafe, ListSafe
<1>3. HostsSurvive' /\ PromptsSafe'
  <2>1. PromptsSafe'
    <3> SUFFICES ASSUME NEW j \in Pubkey, NEW k \in prompts[j] PROVE Known(k, j)'
      BY <1>2 DEF PromptsSafe
    <3>1. k \in Pubkey /\ Known(k, j)
      BY DEF NInv, UsersOK, HInv, PromptsSafe
    <3> QED
      BY <1>1, <3>1 DEF Steady
  <2> QED
    BY <1>2, <2>1 DEF HInv, HostsSurvive
<1>4. ASSUME NEW j \in Pubkey PROVE ListSafe(j, todo[j])'
  <2>1. CASE j = n
    <3>1. PICK t : t = todo'[n]
      OBVIOUS
    <3>2. PICK s : s = todo[n]
      OBVIOUS
    <3>3. ListSafe(n, t)'
      BY <1>1, <3>1, <3>2, DispatchLists
    <3> QED
      BY <2>1, <3>1, <3>3
  <2>2. CASE j # n
    <3>1. PICK s : s = todo[j]
      OBVIOUS
    <3>2. \A i \in DOMAIN s : ActionOK(j, s[i]) /\ ActionSafe(j, s, i)
      BY <3>1 DEF NInv, PeerOK, ListOK, HInv, TodoSafe, ListSafe
    <3>3. \A i \in DOMAIN s : ActionSafe(j, s, i)'
      BY <1>1, <3>2, SafeLasts
    <3> QED
      BY <1>2, <2>2, <3>1, <3>3 DEF ListSafe
  <2> QED
    BY <2>1, <2>2
<1>5. ASSUME NEW j \in Pubkey, NEW k \in DOMAIN peers'[j] PROVE Met(j, todo[j], peers[j][k])'
  <2>1. PICK info : info = peers'[j][k]
    OBVIOUS
  <2>2. RecordOK(j, info) /\ Met(j, todo[j], info)
    <3>1. CASE k \in DOMAIN peers[j] /\ info = peers[j][k]
      BY <3>1 DEF NInv, PeerOK, BookOK, HInv, BooksSafe
    <3>2. CASE ~(k \in DOMAIN peers[j] /\ info = peers[j][k])
      <4>1. j = n
        BY <1>2, <1>5, <2>1, <3>2
      <4>2. a.type = "SetPeer" /\ info = a.peer_info
        BY <1>2, <1>5, <2>1, <3>2, <4>1 DEF apply_peers
      <4> QED
        BY <1>2, <4>1, <4>2 DEF ActionOK, ActionSafe
    <3> QED
      BY <3>1, <3>2
  <2>3. PICK s : s = todo[j]
    OBVIOUS
  <2>4. PICK t : t = todo'[j]
    OBVIOUS
  <2>5. Met(j, t, info)'
    <3>1. CASE j = n
      BY <1>1, <2>2, <2>3, <2>4, <3>1, DispatchMeets
    <3>2. CASE j # n
      <4>1. t = s /\ Met(j, s, info)
        BY <1>2, <2>2, <2>3, <2>4, <3>2
      <4>2. Met(j, s, info)'
        BY <1>1, <2>2, <4>1, MetLasts
      <4> QED
        BY <4>1, <4>2
    <3> QED
      BY <3>1, <3>2
  <2> QED
    BY <2>1, <2>4, <2>5
<1>6. ASSUME NEW c \in Conn, NEW k \in Pubkey, NEW i \in DOMAIN wire'[c][k]
      PROVE  MessageSafe(wire[c][k], i, c, k)'
  <2>1. PICK w : w = wire[c][k]
    OBVIOUS
  <2>2. PICK v : v = wire'[c][k]
    OBVIOUS
  <2>3. w \in Seq(MessageWrapped) /\ \A x \in DOMAIN w : w[x].from \in Pubkey /\ MessageSafe(w, x, c, k)
    BY <2>1 DEF NInv, WireOK, MessageOK, Joins, HInv, WireSafe
  <2>4. \A x \in DOMAIN w : MessageSafe(w, x, c, k)'
    BY <1>1, <2>3, MessageLasts
  <2>5. CASE v = w
    BY <1>6, <2>2, <2>4, <2>5
  <2>6. CASE v # w
    <3>1. a.type = "MessageSend" /\ c = a.to /\ k = OtherEnd(c, n) /\ <<c, k>> \notin cut /\ v = Append(w, a.message)
      <4> DEFINE b == todo[n][1]
                 e == OtherEnd(b.to, n)
      <4>1. \A d \in Conn, j \in Pubkey :
              \/ wire'[d][j] = wire[d][j]
              \/ /\ b.type = "MessageSend" /\ d = b.to /\ j = e /\ <<d, j>> \notin cut
                 /\ wire'[d][j] = Append(wire[d][j], b.message)
        BY DispatchSends, Zenon
      <4>2. a = b /\ e = OtherEnd(a.to, n)
        OBVIOUS
      <4> HIDE DEF b, e
      <4> QED
        BY <2>1, <2>2, <2>6, <4>1, <4>2
    <3>2. MessageSafe(v, Len(w) + 1, c, k)'
      <4>1. PICK m : m = a.message
        OBVIOUS
      <4>2. /\ m.from = n /\ MessageOK(m, c, k)
            /\ m.type = "Init" => Awaits(n, c)
            /\ m.type = "Sealed" => Known(n, k)
            /\ IsEvent(m, "Hello") => Awaits(k, c)
            /\ IsEvent(m, "Ping") => Reached(c, k)
            /\ m.type = "Sealed" /\ m.body.kind \in {"PeerInit", "PeerConfirm", "Pong"} => Known(k, n)
        BY <3>1, <4>1, DispatchPrepared
      <4>3. v = Append(w, m) /\ w = wire[c][k] /\ <<c, k>> \notin cut
        BY <2>1, <3>1, <4>1
      <4> QED
        BY <1>1, <4>2, <4>3, DispatchMessage
    <3>3. /\ DOMAIN v = DOMAIN w \cup {Len(w) + 1}
          /\ \A x \in DOMAIN w : v[x] = w[x]
      BY <2>3, <3>1
    <3>4. \A x \in DOMAIN w : MessageSafe(v, x, c, k)'
      <4> SUFFICES ASSUME NEW x \in DOMAIN w PROVE MessageSafe(v, x, c, k)'
        OBVIOUS
      <4>1. MessageSafe(w, x, c, k)'
        BY <2>4
      <4> QED
        BY <3>3, <4>1 DEF MessageSafe, IsEvent
    <3> QED
      BY <1>6, <2>2, <3>2, <3>3, <3>4
  <2> QED
    BY <2>5, <2>6
<1> QED
  BY <1>3, <1>4, <1>5, <1>6 DEF HInv, TodoSafe, BooksSafe, WireSafe

-----------------------------------------------------------------------------
(* The theorems. *)

\* The initial states, where nothing is under way.
LEMMA InitHInv == Init => HInv
<1> SUFFICES ASSUME Init PROVE HInv
  OBVIOUS
<1>1. \A n \in Pubkey : /\ peers[n] = [k \in {} |-> {}] /\ todo[n] = <<>> /\ prompts[n] = {} /\ failed[n] = ""
                        /\ \A c \in Conn : wire[c][n] = <<>>
  BY DEF Init
<1>2. HostsSurvive /\ PromptsSafe
  BY <1>1 DEF HostsSurvive, PromptsSafe
<1>3. BooksSafe
  <2>1. \A n \in Pubkey : DOMAIN peers[n] = {}
    BY <1>1
  <2> QED
    BY <2>1 DEF BooksSafe
<1>4. TodoSafe
  <2>1. \A n \in Pubkey : todo[n] = <<>>
    BY <1>1
  <2> QED
    BY <2>1 DEF TodoSafe, ListSafe
<1>5. WireSafe
  <2>1. \A c \in Conn, n \in Pubkey : wire[c][n] = <<>>
    BY <1>1
  <2> QED
    BY <2>1 DEF WireSafe
<1> QED
  BY <1>2, <1>3, <1>4, <1>5 DEF HInv

\* Every step, as long as nobody is forgotten.
LEMMA NextHInv == NInv /\ HInv /\ NothingForgotten /\ [Next]_vars => HInv'
<1> SUFFICES ASSUME NInv, HInv, NothingForgotten, [Next]_vars PROVE HInv'
  OBVIOUS
<1>1. ASSUME NEW c \in Conn, Dial(c) PROVE HInv'
  BY <1>1, DialSafe
<1>2. ASSUME NEW n \in Pubkey, NEW c \in Conn, Receive(n, c) \/ Cut(c, n) PROVE HInv'
  BY <1>2, ReceiveSafe, CutSafe
<1>3. ASSUME NEW n \in Pubkey, NEW k \in Pubkey, UserConfirm(n, k) PROVE HInv'
  BY <1>3, UserConfirmSafe
<1>4. ASSUME NEW n \in Pubkey, NEW k \in Pubkey, UserDecline(n, k) PROVE HInv'
  <2>1. \A j \in Pubkey : prompts'[j] \subseteq prompts[j]
    BY <1>4 DEF UserDecline, NInv, Domains
  <2> QED
    BY <1>4, <2>1, QuietSafe DEF UserDecline, node
<1>5. ASSUME NEW n \in Pubkey, Tick(n) \/ Dispatch(n) PROVE HInv'
  BY <1>5, TickSafe, DispatchSafe
<1>6. ASSUME UNCHANGED <<peers, pending_peer_init, todo, failed, wire, cut, prompts>> PROVE HInv'
  BY <1>6, QuietSafe
<1>7. Advance \/ UNCHANGED vars => UNCHANGED <<peers, pending_peer_init, todo, failed, wire, cut, prompts>>
  BY DEF Advance, vars, node
<1> QED
  BY <1>1, <1>2, <1>3, <1>4, <1>5, <1>6, <1>7 DEF Next

\* As long as no dial goes stale and no inactive peer is silent for three
\* minutes, no host gives up: whatever is dialed, confirmed, cut or under way,
\* no handler is handed a message of a peer it does not know.
THEOREM HostsSurviveRemembered == Spec /\ []NothingForgotten => []HostsSurvive
<1>1. HInv => HostsSurvive
  BY DEF HInv
<1> QED
  BY <1>1, InitHInv, NextHInv, NInvAlways, PTL DEF Spec

\* In less than two minutes nobody is forgotten.
LEMMA ShortMemory ==
  ASSUME MaxTime < 120
  PROVE  NInv /\ now <= MaxTime => NothingForgotten
<1> SUFFICES ASSUME NInv, now <= MaxTime PROVE NothingForgotten
  OBVIOUS
<1>1. now \in Nat /\ MaxTime \in Nat
  BY BoundsAssumption DEF NInv, Domains
<1>2. ASSUME NEW n \in Pubkey, NEW p \in pending_peer_init[n] PROVE now - p.created < 120
  <2>1. p.created \in Nat
    BY <1>2 DEF NInv, PeerOK, PendingOK, PendingPeer, Time
  <2> QED
    BY <1>1, <2>1
<1>3. ASSUME NEW n \in Pubkey, NEW k \in DOMAIN peers[n] PROVE now - peers[n][k].last_ping <= 180
  <2>1. peers[n][k].last_ping \in Nat
    BY <1>3 DEF NInv, PeerOK, BookOK, RecordOK, PeerInfo, Time
  <2> QED
    BY <1>1, <2>1
<1> QED
  BY <1>2, <1>3 DEF NothingForgotten

\* Time does not go beyond its bound.
LEMMA NothingForgottenShort ==
  ASSUME MaxTime < 120
  PROVE  Spec => []NothingForgotten
<1>1. Init => now <= MaxTime
  <2>1. Init => now = 0
    BY DEF Init
  <2>2. MaxTime \in Nat
    BY BoundsAssumption
  <2> QED
    BY <2>1, <2>2
<1>2. now <= MaxTime /\ [Next]_vars => (now <= MaxTime)'
  BY DEF Next, vars, Dial, Receive, Cut, UserConfirm, UserDecline, Tick, Dispatch, Advance
<1>3. NInv /\ now <= MaxTime => NothingForgotten
  BY ShortMemory
<1> QED
  BY <1>1, <1>2, <1>3, NInvAlways, PTL DEF Spec

\* So no host gives up in the first two minutes, for any number of peers and
\* streams and any dials, answers, ticks and cuts in that time.
THEOREM HostsSurviveShort ==
  ASSUME MaxTime < 120
  PROVE  Spec => []HostsSurvive
BY NothingForgottenShort, HostsSurviveRemembered, PTL

-----------------------------------------------------------------------------
(* Agreement.  That quiet peers agree is not inductive: it depends on what *)
(* is under way.  A handshake that has begun is finished: a dial that is   *)
(* pending has its Init or its Hello under way, and an Init, which makes   *)
(* an active peer inactive, is followed by a PeerInit, which makes it      *)
(* active again and is answered by a PeerConfirm.                          *)

Is(m, kind) == IsEvent(m, kind) \/ (m.type = "Init" /\ kind = "Init")

\* What a list sends over c, and whether it notes a dial of c.
ListSends(l, c, kind) == \E i \in DOMAIN l : l[i].type = "MessageSend" /\ l[i].to = c /\ Is(l[i].message, kind)

ListDials(l, c) == \E i \in DOMAIN l : l[i].type = "SetPendingPeer" /\ l[i].pending_peer.connection_info = c

Travelling(c, n, kind) == \E i \in DOMAIN wire[c][n] : Is(wire[c][n][i], kind)

\* On its way from k to n over c, or about to leave.
Coming(c, k, n, kind) == Travelling(c, n, kind) \/ ListSends(todo[k], c, kind)

Dialing(n, k) == is_pending(Self(n), <<n, k>>) \/ ListDials(todo[n], <<n, k>>)

\* A handshake that n began and that will make n active at k, and k at n.
Shakes(n, k) == <<n, k>> \in Conn /\ (Dialing(n, k) \/ Coming(<<n, k>>, n, k, "PeerInit"))

\* k is telling n that it made n active.
Told(n, k) == \E c \in Conn : Joins(c, n, k) /\ Coming(c, k, n, "PeerConfirm")

Writes(n, k) == 1 \in DOMAIN todo[n] /\ todo[n][1].type = "SetPeer" /\ todo[n][1].peer_info.peer.pubkey = k

\* k is an active peer of n, when n has carried out its list.
WillBeActive(n, k) == IF Writes(n, k) THEN todo[n][1].peer_info.active ELSE Active(n, k)

\* n and k accept each other, and nothing between them is lost.
Whole(n, k) == n # k /\ Accepts(n, k) /\ Accepts(k, n) /\ ~Severed(n, k)

ListInOrder(l) ==
  \A i \in DOMAIN l :
    /\ l[i].type = "SetPeer" => i = 1
    /\ l[i].type = "UnsetPendingPeer" =>
         /\ \A j \in DOMAIN l : l[j].type = "MessageSend" => l[j].message.type # "Init"
         /\ \E j \in DOMAIN l : j > i /\ l[j].type = "MessageSend" /\ l[j].to = l[i].connection_info
                                /\ IsEvent(l[j].message, "PeerInit")

ListsInOrder == \A n \in Pubkey : ListInOrder(todo[n])

\* Only who is not accepted at once is a question for the user.
OnlyAsked == \A n \in Pubkey : \A k \in prompts[n] : ~Accepts(n, k)

\* A dial is still to be answered.
DialAnswered(n, k) ==
  <<n, k>> \in Conn /\ Dialing(n, k) =>
    \/ Coming(<<n, k>>, n, k, "Init")
    \/ Coming(<<n, k>>, k, n, "Hello")
    \/ ListSends(todo[n], <<n, k>>, "PeerInit")

\* A PeerInit comes after the i-th message.
Followed(s, i) == \E j \in DOMAIN s : j > i /\ IsEvent(s[j], "PeerInit")

InitFollowed(n, k) ==
  <<n, k>> \in Conn =>
    /\ ListSends(todo[n], <<n, k>>, "Init") => Dialing(n, k)
    /\ \A i \in DOMAIN wire[<<n, k>>][k] : wire[<<n, k>>][k][i].type = "Init" =>
         \/ Dialing(n, k) \/ ListSends(todo[n], <<n, k>>, "PeerInit")
         \/ Followed(wire[<<n, k>>][k], i)

\* If n has k as active or hears that k has n so, it is the same with k, or
\* will be.
Agreed(n, k) ==
  WillBeActive(n, k) \/ Told(n, k) =>
    WillBeActive(k, n) \/ Told(k, n) \/ Shakes(n, k) \/ Shakes(k, n)

PairOK(n, k) == Whole(n, k) => DialAnswered(n, k) /\ InitFollowed(n, k) /\ Agreed(n, k)

QInv == ListsInOrder /\ OnlyAsked /\ \A n, k \in Pubkey : PairOK(n, k)

-----------------------------------------------------------------------------
(* When nothing is under way. *)

\* Then quiet peers agree.
LEMMA QuietAgree == QInv => QuietPeersAgree
<1> SUFFICES ASSUME QInv, Quiet, NEW n \in Pubkey, NEW k \in Pubkey, Accepts(n, k), Accepts(k, n), ~Severed(n, k)
             PROVE  Active(n, k) <=> Active(k, n)
  BY DEF QuietPeersAgree
<1>1. CASE n = k
  BY <1>1
<1>2. CASE n # k
  <2>1. PairOK(n, k) /\ PairOK(k, n) /\ Whole(n, k) /\ Whole(k, n)
    BY <1>2 DEF QInv, Whole, Severed
  <2>2. \A c \in Conn, j \in Pubkey : wire[c][j] = <<>>
    BY DEF Quiet
  <2>3. todo[n] = <<>> /\ todo[k] = <<>>
    BY DEF Quiet
  <2>4. \A c, kind : ~ListSends(todo[n], c, kind) /\ ~ListSends(todo[k], c, kind)
    BY <2>3 DEF ListSends
  <2>5. \A c \in Conn, j \in Pubkey : \A kind : ~Travelling(c, j, kind)
    BY <2>2 DEF Travelling
  <2>6. ~Shakes(n, k) /\ ~Shakes(k, n)
    BY <2>1, <2>4, <2>5 DEF PairOK, DialAnswered, Shakes, Coming
  <2>7. ~Told(n, k) /\ ~Told(k, n)
    BY <2>4, <2>5 DEF Told, Coming
  <2>8. (WillBeActive(n, k) <=> Active(n, k)) /\ (WillBeActive(k, n) <=> Active(k, n))
    BY <2>3 DEF WillBeActive, Writes
  <2> QED
    BY <2>1, <2>6, <2>7, <2>8 DEF PairOK, Agreed
<1> QED
  BY <1>1, <1>2

\* The initial states.
LEMMA InitQInv == Init => QInv
<1> SUFFICES ASSUME Init PROVE QInv
  OBVIOUS
<1>1. \A n \in Pubkey : /\ peers[n] = [k \in {} |-> {}] /\ todo[n] = <<>> /\ prompts[n] = {}
                        /\ pending_peer_init[n] = {}
  BY DEF Init
<1>2. \A c \in Conn, j \in Pubkey : wire[c][j] = <<>>
  BY DEF Init
<1>3. \A n \in Pubkey : \A c, kind : ~ListSends(todo[n], c, kind) /\ ~ListDials(todo[n], c)
  BY <1>1 DEF ListSends, ListDials
<1>4. \A c \in Conn, j \in Pubkey : DOMAIN wire[c][j] = {} /\ \A kind : ~Travelling(c, j, kind)
  BY <1>2 DEF Travelling
<1>5. ListsInOrder
  BY <1>1 DEF ListsInOrder, ListInOrder
<1>6. OnlyAsked
  BY <1>1 DEF OnlyAsked
<1>7. ASSUME NEW n \in Pubkey, NEW k \in Pubkey PROVE PairOK(n, k)
  <2>1. ~Dialing(n, k)
    BY <1>1, <1>3 DEF Dialing, is_pending, Self
  <2>2. ~WillBeActive(n, k)
    BY <1>1 DEF WillBeActive, Writes, Active
  <2>3. ~Told(n, k)
    BY <1>3, <1>4 DEF Told, Coming
  <2> QED
    BY <1>3, <1>4, <2>1, <2>2, <2>3 DEF PairOK, DialAnswered, InitFollowed, Agreed
<1> QED
  BY <1>5, <1>6, <1>7 DEF QInv

-----------------------------------------------------------------------------
(* Lists. *)

\* A list of a record, and perhaps one message.
LEMMA RecordList ==
  ASSUME NEW n, NEW k, NEW c, NEW info, NEW body, NEW l,
         l = <<SetPeer(info)>> \/ l = <<SetPeer(info), Sends(n, c, k, body)>>
  PROVE  /\ ListInOrder(l) /\ \A d : ~ListDials(l, d)
         /\ 1 \in DOMAIN l /\ l[1].type = "SetPeer" /\ l[1].peer_info = info
         /\ \A d, kind : ListSends(l, d, kind) <=>
              l = <<SetPeer(info), Sends(n, c, k, body)>> /\ d = c /\ kind = body.kind
<1> PICK a : a = Sends(n, c, k, body)
  OBVIOUS
<1>1. SetPeer(info).type = "SetPeer" /\ SetPeer(info).peer_info = info
  BY DEF SetPeer
<1>2. a.type = "MessageSend" /\ a.to = c /\ \A kind : Is(a.message, kind) <=> kind = body.kind
  BY DEF Sends, MessageSend, create_sealed_message, Is, IsEvent
<1>3. CASE l = <<SetPeer(info)>>
  <2>1. DOMAIN l = {1} /\ l[1] = SetPeer(info) /\ l # <<SetPeer(info), a>>
    BY <1>3
  <2> QED
    BY <1>1, <2>1 DEF ListInOrder, ListDials, ListSends
<1>4. CASE l = <<SetPeer(info), a>>
  <2>1. DOMAIN l = {1, 2} /\ l[1] = SetPeer(info) /\ l[2] = a
    BY <1>4
  <2>2. \A d, kind : ListSends(l, d, kind) <=> d = c /\ kind = body.kind
    BY <1>1, <1>2, <2>1 DEF ListSends
  <2>3. ListInOrder(l)
    BY <1>1, <1>2, <2>1 DEF ListInOrder
  <2> QED
    <3>1. \A d : ~ListDials(l, d)
      BY <1>1, <1>2, <2>1 DEF ListDials
    <3> QED
      BY <1>1, <1>4, <2>1, <2>2, <2>3, <3>1
<1> QED
  BY <1>3, <1>4

\* The answer to a Hello.
LEMMA InitListShape ==
  ASSUME NEW n, NEW k, NEW c, NEW l, l = InitList(n, k, c)
  PROVE  /\ ListInOrder(l) /\ \A d : ~ListDials(l, d)
         /\ \A d, kind : ListSends(l, d, kind) <=> d = c /\ kind = "PeerInit"
         /\ 1 \in DOMAIN l /\ l[1].type = "SetPeer" /\ l[1].peer_info.peer.pubkey = k
<1> PICK a : a = Sends(n, c, k, PeerInit(NameOf[n]))
  OBVIOUS
<1> DEFINE b == SetPeer(new_info(tmp(k), c, now))
<1>1. b.type = "SetPeer" /\ b.peer_info.peer.pubkey = k
  BY DEF SetPeer, new_info, tmp
<1>2. /\ a.type = "MessageSend" /\ a.to = c /\ a.message.type = "Sealed"
      /\ \A kind : (Is(a.message, kind) <=> kind = "PeerInit") /\ (IsEvent(a.message, kind) <=> kind = "PeerInit")
  BY EventKinds DEF Sends, MessageSend, create_sealed_message, Is, IsEvent
<1>3. UnsetPendingPeer(c).type = "UnsetPendingPeer" /\ UnsetPendingPeer(c).connection_info = c
  BY DEF UnsetPendingPeer
<1>4. l = <<b, UnsetPendingPeer(c), a>>
  BY DEF InitList
<1> HIDE DEF b
<1>5. DOMAIN l = {1, 2, 3} /\ l[1] = b /\ l[2] = UnsetPendingPeer(c) /\ l[3] = a
  BY <1>4
<1>6. ListInOrder(l)
  BY <1>1, <1>2, <1>3, <1>5 DEF ListInOrder
<1>7. \A d, kind : ListSends(l, d, kind) <=> d = c /\ kind = "PeerInit"
  BY <1>1, <1>2, <1>3, <1>5 DEF ListSends
<1>8. \A d : ~ListDials(l, d)
  BY <1>1, <1>2, <1>3, <1>5 DEF ListDials
<1> QED
  BY <1>1, <1>5, <1>6, <1>7, <1>8

-----------------------------------------------------------------------------
(* A host takes a list. *)

\* A list that a host may take after a message m of k over c, when nobody
\* else does anything.  A dial is noted and sent, an Init and a Hello are
\* answered, and only a PeerInit or a PeerConfirm makes k active.
GoodList(n, k, c, m, l) ==
  /\ ListInOrder(l)
  /\ \A d : ListDials(l, d) <=> ListSends(l, d, "Init")
  /\ Joins(c, n, k) /\ Is(m, "Init") => ListSends(l, c, "Hello")
  /\ Joins(c, n, k) /\ Is(m, "Hello") /\ is_pending(Self(n), c) => ListSends(l, c, "PeerInit")
  /\ \A i \in DOMAIN l : l[i].type = "SetPeer" => l[i].peer_info.peer.pubkey = k
  /\ \A d : ListSends(l, d, "PeerInit") \/ ListSends(l, d, "PeerConfirm") => Joins(d, n, k)

\* What k is at n when the list is taken.
Made(n, k, l) == IF 1 \in DOMAIN l /\ l[1].type = "SetPeer" THEN l[1].peer_info.active ELSE Active(n, k)

GoodFor(n, k, c, m, l) ==
  \/ Shakes(k, n)' \/ Shakes(n, k)'
  \/ Made(n, k, l) /\ \E d : Joins(d, n, k) /\ ListSends(l, d, "PeerConfirm")
  \/ Made(n, k, l) /\ Told(n, k) /\ ~Is(m, "PeerInit")
  \/ /\ Made(n, k, l) <=> Active(n, k)
     /\ \A d : ~ListSends(l, d, "PeerConfirm")
     /\ ~Is(m, "PeerInit") /\ ~Is(m, "PeerConfirm")

\* Only m is taken off a stream, the first one of c.
Takes(n, k, c, m) ==
  /\ \A d \in Conn, j \in Pubkey : \A kind :
       /\ Travelling(d, j, kind)' => Travelling(d, j, kind)
       /\ Travelling(d, j, kind) => Travelling(d, j, kind)' \/ (d = c /\ j = n /\ Joins(c, n, k) /\ Is(m, kind))
  /\ \A d \in Conn, j \in Pubkey : \A i \in DOMAIN wire'[d][j] : wire'[d][j][i].type = "Init" =>
       \E x \in DOMAIN wire[d][j] : /\ wire[d][j][x].type = "Init"
                                    /\ Followed(wire[d][j], x) => Followed(wire'[d][j], i)

\* What the others have to do stays, and n has nothing to do before.
LEMMA TakeEffect ==
  ASSUME NInv, NEW n \in Pubkey, NEW l, todo[n] = <<>>, todo' = [todo EXCEPT ![n] = l],
         UNCHANGED <<peers, pending_peer_init>>
  PROVE  /\ \A d, kind : ~ListSends(todo[n], d, kind) /\ ~ListDials(todo[n], d)
         /\ todo'[n] = l
         /\ \A j \in Pubkey : j # n => todo'[j] = todo[j]
         /\ \A j, i \in Pubkey : j # n => (WillBeActive(j, i)' <=> WillBeActive(j, i))
         /\ \A j, i \in Pubkey : j # n => (Dialing(j, i)' <=> Dialing(j, i))
         /\ \A i \in Pubkey : Dialing(n, i) <=> is_pending(Self(n), <<n, i>>)
         /\ \A i \in Pubkey : Dialing(n, i)' <=> Dialing(n, i) \/ ListDials(l, <<n, i>>)
         /\ \A i \in Pubkey : WillBeActive(n, i) <=> Active(n, i)
         /\ \A i \in Pubkey : Active(n, i)' <=> Active(n, i)
<1>1. DOMAIN todo = Pubkey
  BY DEF NInv, Domains
<1>2. todo'[n] = l /\ \A j \in Pubkey : j # n => todo'[j] = todo[j]
  BY <1>1
<1>3. \A d, kind : ~ListSends(todo[n], d, kind) /\ ~ListDials(todo[n], d)
  BY DEF ListSends, ListDials
<1>4. \A j, i \in Pubkey : Active(j, i)' <=> Active(j, i)
  BY DEF Active
<1>5. ASSUME NEW j \in Pubkey, NEW i \in Pubkey, j # n
      PROVE  (WillBeActive(j, i)' <=> WillBeActive(j, i)) /\ (Dialing(j, i)' <=> Dialing(j, i))
  BY <1>2, <1>4, <1>5 DEF WillBeActive, Writes, Active, Dialing, ListDials, is_pending, Self
<1>6. ASSUME NEW i \in Pubkey
      PROVE  (Dialing(n, i) <=> is_pending(Self(n), <<n, i>>)) /\ (WillBeActive(n, i) <=> Active(n, i))
  BY <1>3 DEF Dialing, WillBeActive, Writes
<1>7. ASSUME NEW i \in Pubkey PROVE Dialing(n, i)' <=> Dialing(n, i) \/ ListDials(l, <<n, i>>)
  BY <1>2, <1>3 DEF Dialing, ListDials, is_pending, Self
<1> QED
  BY <1>2, <1>3, <1>4, <1>5, <1>6, <1>7

\* The dials of every pair stay answered and every Init followed.
LEMMA TakeDials ==
  ASSUME NInv, QInv, NEW n \in Pubkey, NEW k \in Pubkey, NEW c, NEW m, NEW l, todo[n] = <<>>,
         todo' = [todo EXCEPT ![n] = l], UNCHANGED <<peers, pending_peer_init, cut>>,
         Takes(n, k, c, m), GoodList(n, k, c, m, l),
         NEW i \in Pubkey, NEW j \in Pubkey, Whole(i, j)
  PROVE  DialAnswered(i, j)' /\ InitFollowed(i, j)'
<1>1. DialAnswered(i, j) /\ InitFollowed(i, j) /\ i # j
  BY DEF QInv, PairOK, Whole
<1>2. /\ \A d, kind : ~ListSends(todo[n], d, kind) /\ ~ListDials(todo[n], d)
      /\ todo'[n] = l /\ \A x \in Pubkey : x # n => todo'[x] = todo[x]
  BY TakeEffect
<1>3. /\ i # n => (Dialing(i, j)' <=> Dialing(i, j))
      /\ Dialing(n, j) <=> is_pending(Self(n), <<n, j>>)
      /\ Dialing(n, j)' <=> Dialing(n, j) \/ ListDials(l, <<n, j>>)
  BY TakeEffect
<1>4. Dialing(i, j) => Dialing(i, j)'
  BY <1>3
<1> DEFINE e == <<i, j>>
<1>5. ASSUME e \in Conn, Dialing(i, j)'
      PROVE  Coming(e, i, j, "Init")' \/ Coming(e, j, i, "Hello")' \/ ListSends(todo'[i], e, "PeerInit")
  <2>1. \A kind : Travelling(e, j, kind) => Travelling(e, j, kind)' \/ (e = c /\ j = n /\ Joins(c, n, k) /\ Is(m, kind))
    BY <1>5 DEF Takes
  <2>2. \A kind : Travelling(e, i, kind) => Travelling(e, i, kind)' \/ (e = c /\ i = n /\ Joins(c, n, k) /\ Is(m, kind))
    BY <1>5 DEF Takes
  <2>3. CASE i # n
    <3>1. Coming(e, i, j, "Init") \/ Coming(e, j, i, "Hello") \/ ListSends(todo[i], e, "PeerInit")
      BY <1>1, <1>3, <1>5, <2>3 DEF DialAnswered
    <3>2. todo'[i] = todo[i]
      BY <1>2, <2>3
    <3>3. CASE Travelling(e, j, "Init")
      <4>1. CASE Travelling(e, j, "Init")'
        BY <4>1 DEF Coming
      <4>2. CASE e = c /\ j = n /\ Joins(c, n, k) /\ Is(m, "Init")
        <5>1. ListSends(todo'[j], e, "Hello")
          BY <1>2, <4>2 DEF GoodList
        <5> QED
          BY <5>1 DEF Coming
      <4> QED
        BY <2>1, <3>3, <4>1, <4>2
    <3>4. CASE ListSends(todo[j], e, "Hello")
      <4>1. ListSends(todo'[j], e, "Hello")
        BY <1>2, <3>4
      <4> QED
        BY <4>1 DEF Coming
    <3>5. CASE Travelling(e, i, "Hello")
      BY <2>2, <2>3, <3>5 DEF Coming
    <3> QED
      BY <3>1, <3>2, <3>3, <3>4, <3>5 DEF Coming
  <2>4. CASE i = n /\ ListDials(l, e)
    <3>1. ListSends(todo'[i], e, "Init")
      BY <1>2, <2>4 DEF GoodList
    <3> QED
      BY <3>1 DEF Coming
  <2>5. CASE i = n /\ Dialing(i, j)
    <3>1. Travelling(e, j, "Init") \/ Coming(e, j, i, "Hello")
      BY <1>1, <1>2, <1>5, <2>5 DEF DialAnswered, Coming
    <3>2. CASE Travelling(e, j, "Init")
      BY <1>1, <2>1, <2>5, <3>2 DEF Coming
    <3>3. CASE ListSends(todo[j], e, "Hello")
      <4>1. ListSends(todo'[j], e, "Hello")
        BY <1>1, <1>2, <2>5, <3>3
      <4> QED
        BY <4>1 DEF Coming
    <3>4. CASE Travelling(e, i, "Hello")
      <4>1. CASE Travelling(e, i, "Hello")'
        BY <4>1 DEF Coming
      <4>2. CASE e = c /\ Joins(c, n, k) /\ Is(m, "Hello")
        <5>1. is_pending(Self(n), c)
          BY <1>3, <2>5, <4>2
        <5> QED
          BY <1>2, <2>5, <4>2, <5>1 DEF GoodList
      <4> QED
        BY <2>2, <3>4, <4>1, <4>2
    <3> QED
      BY <3>1, <3>2, <3>3, <3>4 DEF Coming
  <2> QED
    BY <1>3, <1>5, <2>3, <2>4, <2>5
<1>6. ASSUME e \in Conn, ListSends(todo'[i], e, "Init") PROVE Dialing(i, j)'
  <2>1. CASE i = n
    <3>1. ListDials(l, e)
      BY <1>2, <1>6, <2>1 DEF GoodList
    <3> QED
      BY <1>3, <2>1, <3>1
  <2>2. CASE i # n
    BY <1>1, <1>2, <1>3, <1>6, <2>2 DEF InitFollowed
  <2> QED
    BY <2>1, <2>2
<1>7. ASSUME e \in Conn, NEW x \in DOMAIN wire'[e][j], wire'[e][j][x].type = "Init"
      PROVE  Dialing(i, j)' \/ ListSends(todo'[i], e, "PeerInit") \/ Followed(wire'[e][j], x)
  <2>1. PICK y \in DOMAIN wire[e][j] : /\ wire[e][j][y].type = "Init"
                                       /\ Followed(wire[e][j], y) => Followed(wire'[e][j], x)
    BY <1>7 DEF Takes
  <2>2. Dialing(i, j) \/ ListSends(todo[i], e, "PeerInit") \/ Followed(wire[e][j], y)
    BY <1>1, <1>7, <2>1 DEF InitFollowed
  <2>3. ListSends(todo[i], e, "PeerInit") => ListSends(todo'[i], e, "PeerInit")
    BY <1>2
  <2> QED
    BY <1>4, <2>1, <2>2, <2>3
<1> QED
  BY <1>5, <1>6, <1>7 DEF DialAnswered, InitFollowed, ListSends, Followed

\* The pairs that do not take part stay as they are.
LEMMA TakeOthers ==
  ASSUME NInv, QInv, NEW n \in Pubkey, NEW k \in Pubkey, NEW c, NEW m, NEW l, todo[n] = <<>>,
         todo' = [todo EXCEPT ![n] = l], UNCHANGED <<peers, pending_peer_init, cut>>,
         Takes(n, k, c, m), GoodList(n, k, c, m, l),
         NEW i \in Pubkey, NEW j \in Pubkey, {i, j} # {n, k}
  PROVE  /\ WillBeActive(i, j)' <=> WillBeActive(i, j)
         /\ Told(i, j)' <=> Told(i, j)
         /\ Shakes(i, j) => Shakes(i, j)'
<1>1. /\ \A d, kind : ~ListSends(todo[n], d, kind) /\ ~ListDials(todo[n], d)
      /\ todo'[n] = l /\ \A x \in Pubkey : x # n => todo'[x] = todo[x]
  BY TakeEffect
<1>2. /\ i # n => (WillBeActive(i, j)' <=> WillBeActive(i, j)) /\ (Dialing(i, j)' <=> Dialing(i, j))
      /\ WillBeActive(n, j) <=> Active(n, j)
      /\ Active(n, j)' <=> Active(n, j)
      /\ Dialing(n, j)' <=> Dialing(n, j) \/ ListDials(l, <<n, j>>)
  BY TakeEffect
<1>3. \A d : ~Joins(d, n, k) \/ ~(d = <<i, j>> \/ Joins(d, i, j))
  BY DEF Joins
<1>4. WillBeActive(i, j)' <=> WillBeActive(i, j)
  <2>1. CASE i = n
    <3>1. ~Writes(n, j)'
      BY <1>1, <2>1 DEF Writes, GoodList
    <3> QED
      BY <1>2, <2>1, <3>1 DEF WillBeActive
  <2> QED
    BY <1>2, <2>1
<1>5. ASSUME NEW d, Joins(d, i, j)
      PROVE  Coming(d, j, i, "PeerConfirm")' <=> Coming(d, j, i, "PeerConfirm")
  <2>1. d \in Conn /\ ~Joins(d, n, k)
    BY <1>3, <1>5 DEF Joins
  <2>2. Travelling(d, i, "PeerConfirm")' <=> Travelling(d, i, "PeerConfirm")
    BY <2>1 DEF Takes
  <2>3. ListSends(todo'[j], d, "PeerConfirm") <=> ListSends(todo[j], d, "PeerConfirm")
    <3>1. j = n => ~ListSends(todo'[j], d, "PeerConfirm") /\ ~ListSends(todo[j], d, "PeerConfirm")
      BY <1>1, <2>1 DEF GoodList
    <3> QED
      BY <1>1, <3>1
  <2>4. ListSends(todo[j], d, "PeerConfirm")' <=> ListSends(todo'[j], d, "PeerConfirm")
    BY DEF ListSends
  <2> QED
    BY <2>2, <2>3, <2>4 DEF Coming
<1>6. Told(i, j)' <=> Told(i, j)
  BY <1>5 DEF Told, Joins
<1>7. ASSUME Shakes(i, j) PROVE Shakes(i, j)'
  <2> DEFINE e == <<i, j>>
  <2>1. e \in Conn /\ ~Joins(e, n, k)
    BY <1>3, <1>7 DEF Shakes
  <2>2. Travelling(e, j, "PeerInit") => Travelling(e, j, "PeerInit")'
    BY <2>1 DEF Takes
  <2>3. ListSends(todo[i], e, "PeerInit") => ListSends(todo'[i], e, "PeerInit")
    BY <1>1
  <2>4. ListSends(todo[i], e, "PeerInit")' <=> ListSends(todo'[i], e, "PeerInit")
    BY DEF ListSends
  <2>5. Dialing(i, j) => Dialing(i, j)'
    BY <1>2
  <2> QED
    BY <1>7, <2>2, <2>3, <2>4, <2>5 DEF Shakes, Coming
<1> QED
  BY <1>4, <1>6, <1>7

\* The two that do agree afterwards.
LEMMA TakeAgrees ==
  ASSUME NInv, QInv, NEW n \in Pubkey, NEW k \in Pubkey, NEW c, NEW m, NEW l, todo[n] = <<>>,
         todo' = [todo EXCEPT ![n] = l], UNCHANGED <<peers, pending_peer_init, cut>>,
         Takes(n, k, c, m), GoodList(n, k, c, m, l), Whole(n, k), GoodFor(n, k, c, m, l)
  PROVE  Agreed(n, k)' /\ Agreed(k, n)'
<1>1. Agreed(n, k) /\ Agreed(k, n) /\ n # k
  <2>1. Whole(k, n) /\ n # k
    BY DEF Whole, Severed
  <2> QED
    BY <2>1 DEF QInv, PairOK
<1>2. /\ \A d, kind : ~ListSends(todo[n], d, kind) /\ ~ListDials(todo[n], d)
      /\ todo'[n] = l /\ todo'[k] = todo[k]
  BY <1>1, TakeEffect
<1>3. /\ WillBeActive(k, n)' <=> WillBeActive(k, n)
      /\ Dialing(k, n)' <=> Dialing(k, n)
      /\ WillBeActive(n, k) <=> Active(n, k)
      /\ Active(n, k)' <=> Active(n, k)
      /\ Dialing(n, k) => Dialing(n, k)'
  <2>1. /\ WillBeActive(k, n)' <=> WillBeActive(k, n)
        /\ Dialing(k, n)' <=> Dialing(k, n)
    BY <1>1, TakeEffect
  <2>2. /\ WillBeActive(n, k) <=> Active(n, k)
        /\ Active(n, k)' <=> Active(n, k)
        /\ Dialing(n, k)' <=> Dialing(n, k) \/ ListDials(l, <<n, k>>)
    BY TakeEffect
  <2> QED
    BY <2>1, <2>2
<1>4. WillBeActive(n, k)' <=> Made(n, k, l)
  BY <1>2, <1>3 DEF WillBeActive, Writes, Made, GoodList
<1>5. ASSUME NEW d, Joins(d, n, k)
      PROVE  /\ Coming(d, n, k, "PeerConfirm")' <=> Coming(d, n, k, "PeerConfirm") \/ ListSends(l, d, "PeerConfirm")
             /\ ~Is(m, "PeerConfirm") => (Coming(d, k, n, "PeerConfirm")' <=> Coming(d, k, n, "PeerConfirm"))
             /\ d = <<n, k>> /\ Coming(d, n, k, "PeerInit") => Coming(d, n, k, "PeerInit")'
             /\ ~Is(m, "PeerInit") /\ Coming(d, k, n, "PeerInit") => Coming(d, k, n, "PeerInit")'
  <2>1. d \in Conn
    BY <1>5 DEF Joins
  <2>2. \A kind : Travelling(d, k, kind)' <=> Travelling(d, k, kind)
    BY <1>1, <2>1 DEF Takes
  <2>3. \A kind : ~Is(m, kind) => (Travelling(d, n, kind)' <=> Travelling(d, n, kind))
    BY <1>1, <2>1 DEF Takes
  <2>4. /\ ListSends(todo[n], d, "PeerConfirm")' <=> ListSends(l, d, "PeerConfirm")
        /\ ListSends(todo[k], d, "PeerConfirm")' <=> ListSends(todo[k], d, "PeerConfirm")
        /\ ListSends(todo[k], d, "PeerInit")' <=> ListSends(todo[k], d, "PeerInit")
    BY <1>2 DEF ListSends
  <2>5. ~ListSends(todo[n], d, "PeerConfirm") /\ ~ListSends(todo[n], d, "PeerInit")
    BY <1>2
  <2>6. Travelling(d, k, "PeerConfirm")' <=> Travelling(d, k, "PeerConfirm")
    BY <2>2
  <2>7. Travelling(d, k, "PeerInit")' <=> Travelling(d, k, "PeerInit")
    BY <2>2
  <2>8. ~Is(m, "PeerConfirm") => (Travelling(d, n, "PeerConfirm")' <=> Travelling(d, n, "PeerConfirm"))
    BY <2>3
  <2>9. ~Is(m, "PeerInit") => (Travelling(d, n, "PeerInit")' <=> Travelling(d, n, "PeerInit"))
    BY <2>3
  <2> QED
    BY <2>4, <2>5, <2>6, <2>7, <2>8, <2>9 DEF Coming
<1>6. \A d : Joins(d, n, k) <=> Joins(d, k, n)
  BY DEF Joins
<1>7. ~Is(m, "PeerConfirm") => (Told(n, k)' <=> Told(n, k))
  BY <1>5 DEF Told, Joins
<1>8. Told(k, n)' <=> Told(k, n) \/ \E d : Joins(d, n, k) /\ ListSends(l, d, "PeerConfirm")
  BY <1>5, <1>6 DEF Told, Joins
<1>9. Shakes(n, k) => Shakes(n, k)'
  BY <1>1, <1>3, <1>5 DEF Shakes, Joins
<1>10. ~Is(m, "PeerInit") /\ Shakes(k, n) => Shakes(k, n)'
  BY <1>1, <1>3, <1>5 DEF Shakes, Joins
<1>11. CASE Shakes(k, n)' \/ Shakes(n, k)'
  BY <1>11 DEF Agreed
<1>12. CASE Made(n, k, l) /\ \E d : Joins(d, n, k) /\ ListSends(l, d, "PeerConfirm")
  BY <1>4, <1>8, <1>12 DEF Agreed
<1>13. CASE Made(n, k, l) /\ Told(n, k) /\ ~Is(m, "PeerInit")
  BY <1>1, <1>3, <1>4, <1>8, <1>9, <1>10, <1>13 DEF Agreed
<1>14. CASE /\ Made(n, k, l) <=> Active(n, k)
            /\ \A d : ~ListSends(l, d, "PeerConfirm")
            /\ ~Is(m, "PeerInit") /\ ~Is(m, "PeerConfirm")
  BY <1>1, <1>3, <1>4, <1>7, <1>8, <1>9, <1>10, <1>14 DEF Agreed
<1> QED
  BY <1>11, <1>12, <1>13, <1>14 DEF GoodFor

\* All of it.
LEMMA TakePairs ==
  ASSUME NInv, QInv, NEW n \in Pubkey, NEW k \in Pubkey, NEW c, NEW m, NEW l, todo[n] = <<>>,
         todo' = [todo EXCEPT ![n] = l], UNCHANGED <<peers, pending_peer_init, cut>>,
         Takes(n, k, c, m), GoodList(n, k, c, m, l), Whole(n, k) => GoodFor(n, k, c, m, l)
  PROVE  ListsInOrder' /\ \A i, j \in Pubkey : PairOK(i, j)'
<1>1. ListsInOrder'
  <2>1. todo'[n] = l /\ \A x \in Pubkey : x # n => todo'[x] = todo[x]
    BY TakeEffect
  <2> QED
    BY <2>1 DEF ListsInOrder, QInv, GoodList
<1>2. ASSUME NEW i \in Pubkey, NEW j \in Pubkey, Whole(i, j)' PROVE Agreed(i, j)'
  <2>1. Whole(i, j) /\ Whole(j, i) /\ (Whole(i, j) => Agreed(i, j))
    BY <1>2 DEF Whole, Severed, Accepts, QInv, PairOK
  <2>2. CASE {i, j} = {n, k}
    <3>1. (i = n /\ j = k) \/ (i = k /\ j = n)
      BY <2>2
    <3> QED
      BY <2>1, <3>1, TakeAgrees
  <2>3. CASE {i, j} # {n, k}
    <3>1. {j, i} # {n, k}
      BY <2>3
    <3>2. /\ WillBeActive(i, j)' <=> WillBeActive(i, j)
          /\ Told(i, j)' <=> Told(i, j)
          /\ Shakes(i, j) => Shakes(i, j)'
      BY <2>3, TakeOthers
    <3>3. /\ WillBeActive(j, i)' <=> WillBeActive(j, i)
          /\ Told(j, i)' <=> Told(j, i)
          /\ Shakes(j, i) => Shakes(j, i)'
      BY <3>1, TakeOthers
    <3> QED
      BY <2>1, <3>2, <3>3 DEF Agreed
  <2> QED
    BY <2>2, <2>3
<1>3. ASSUME NEW i \in Pubkey, NEW j \in Pubkey, Whole(i, j)' PROVE DialAnswered(i, j)' /\ InitFollowed(i, j)'
  <2>1. Whole(i, j)
    BY <1>3 DEF Whole, Severed, Accepts
  <2> QED
    BY <2>1, TakeDials
<1>4. ASSUME NEW i \in Pubkey, NEW j \in Pubkey PROVE PairOK(i, j)'
  BY <1>2, <1>3 DEF PairOK
<1> QED
  BY <1>1, <1>4

-----------------------------------------------------------------------------
(* The lists of the handlers. *)

\* No list, or a question to the user.
LEMMA NoListShape ==
  ASSUME NEW body, NEW l, l = <<>> \/ l = <<Confirm(body)>>
  PROVE  /\ ListInOrder(l) /\ \A i \in DOMAIN l : l[i].type # "SetPeer"
         /\ \A d : ~ListDials(l, d)
         /\ \A d, kind : ~ListSends(l, d, kind)
<1>1. \A i \in DOMAIN l : l[i].type = "Confirm"
  BY DEF Confirm
<1> QED
  BY <1>1 DEF ListInOrder, ListDials, ListSends

\* What a message is: one kind, of those that travel.
LEMMA OneKind ==
  ASSUME NEW m, NEW c, NEW n, MessageOK(m, c, n)
  PROVE  /\ Is(m, "Init") <=> m.type = "Init"
         /\ m.type \in {"Init", "Sealed"}
         /\ m.type = "Sealed" => m.body.kind \in {"Hello", "PeerInit", "PeerConfirm", "Ping", "Pong"}
         /\ \A kind : Is(m, kind) /\ kind # "Init" <=> m.type = "Sealed" /\ kind = m.body.kind
BY DEF MessageOK, MessageInit, MessageSealed, BodyOK, Is, IsEvent

\* An answer is a good list.
LEMMA AnswerGood ==
  ASSUME NInv, NEW n \in Pubkey, NEW c \in Conn, NEW m, MessageOK(m, c, n), NEW k, k = m.from,
         NEW l, Answer(n, m, c, l)
  PROVE  GoodList(n, k, c, m, l)
<1>1. Joins(c, n, k)
  BY DEF MessageOK
<1>2. \A kind \in {"Init", "Hello"} : Is(m, kind) <=> (kind = "Init" /\ m.type = "Init") \/ (kind = "Hello" /\ IsEvent(m, "Hello"))
  BY OneKind DEF IsEvent
<1>3. BookOK(n)
  BY DEF NInv, PeerOK
<1>4. ASSUME NEW body, l = <<>> \/ l = <<Confirm(body)>>, m.type # "Init", ~(IsEvent(m, "Hello") /\ is_pending(Self(n), c))
      PROVE  GoodList(n, k, c, m, l)
  <2>1. /\ ListInOrder(l) /\ \A i \in DOMAIN l : l[i].type # "SetPeer"
        /\ \A d : ~ListDials(l, d)
        /\ \A d, kind : ~ListSends(l, d, kind)
    BY <1>4, NoListShape
  <2> QED
    BY <1>2, <1>4, <2>1 DEF GoodList
<1>5. ASSUME NEW info, NEW e, NEW body, l = <<SetPeer(info)>> \/ l = <<SetPeer(info), Sends(n, e, k, body)>>,
             info.peer.pubkey = k, Joins(e, n, k), body.kind \notin {"Init", "PeerInit"},
             IsEvent(m, "Hello") => ~is_pending(Self(n), c),
             m.type = "Init" => l = <<SetPeer(info), Sends(n, c, k, Hello)>> /\ e = c /\ body = Hello
      PROVE  GoodList(n, k, c, m, l)
  <2>1. /\ ListInOrder(l) /\ \A d : ~ListDials(l, d)
        /\ \A d, kind : ListSends(l, d, kind) <=>
              l = <<SetPeer(info), Sends(n, e, k, body)>> /\ d = e /\ kind = body.kind
    BY <1>5, RecordList
  <2>2. \A i \in DOMAIN l : l[i].type = "SetPeer" => l[i].peer_info.peer.pubkey = k
    BY <1>5 DEF SetPeer, Sends, MessageSend
  <2>3. Hello.kind = "Hello"
    BY DEF Hello
  <2> QED
    BY <1>2, <1>5, <2>1, <2>2, <2>3 DEF GoodList
<1>6. CASE m.type = "Init" /\ l = GreetList(n, k, c)
  <2>1. new_info(tmp(k), c, now).peer.pubkey = k
    BY DEF new_info, tmp
  <2>2. ~IsEvent(m, "Hello")
    BY <1>6 DEF IsEvent
  <2> QED
    BY <1>1, <1>5, <1>6, <2>1, <2>2 DEF GreetList, Hello
<1>7. CASE IsEvent(m, "Hello") /\ is_pending(Self(n), c) /\ l = InitList(n, k, c)
  <2>1. /\ ListInOrder(l) /\ \A d : ~ListDials(l, d)
        /\ \A d, kind : ListSends(l, d, kind) <=> d = c /\ kind = "PeerInit"
    BY <1>7, InitListShape
  <2>2. \A i \in DOMAIN l : l[i].type = "SetPeer" => l[i].peer_info.peer.pubkey = k
    BY <1>7 DEF InitList, SetPeer, UnsetPendingPeer, Sends, MessageSend, new_info, tmp
  <2>3. m.type # "Init"
    BY <1>7 DEF IsEvent
  <2> QED
    BY <1>1, <1>2, <2>1, <2>2, <2>3 DEF GoodList
<1>8. CASE Known(n, k) /\ m.type = "Sealed" /\ ~IsEvent(m, "Hello")
  <2>1. RecordOK(n, peers[n][k]) /\ peers[n][k].peer.pubkey = k /\ Joins(peers[n][k].connection_info, n, k)
    BY <1>3, <1>8, BookKeys DEF Known
  <2>2. \A name : confirmed(peers[n][k], name, now).peer.pubkey = k
    BY <2>1 DEF confirmed, RecordOK, PeerInfo, Peer
  <2>3. seen(peers[n][k], now).peer.pubkey = k
    BY <2>1 DEF seen, RecordOK, PeerInfo, Peer
  <2>4. PeerConfirm(NameOf[n]).kind \notin {"Init", "PeerInit"} /\ Pong.kind \notin {"Init", "PeerInit"}
    BY DEF PeerConfirm, Pong
  <2>5. m.type # "Init"
    BY <1>8
  <2>6. CASE l = ConfirmList(n, k, m.body.name)
    BY <1>5, <1>8, <2>1, <2>2, <2>4, <2>5, <2>6 DEF ConfirmList
  <2>7. CASE l = <<SetPeer(confirmed(peers[n][k], m.body.name, now))>>
    BY <1>5, <1>8, <2>1, <2>2, <2>4, <2>5, <2>7
  <2>8. CASE l = <<SetPeer(seen(peers[n][k], now)), Sends(n, peers[n][k].connection_info, k, Pong)>>
    BY <1>5, <1>8, <2>1, <2>3, <2>4, <2>5, <2>8
  <2>9. CASE l = <<SetPeer(seen(peers[n][k], now))>>
    BY <1>5, <1>8, <2>1, <2>3, <2>4, <2>5, <2>9
  <2>10. CASE l = <<>> \/ l = <<Confirm(m.body)>>
    BY <1>4, <1>8, <2>5, <2>10
  <2> QED
    BY <1>8, <2>5, <2>6, <2>7, <2>8, <2>9, <2>10 DEF Answer
<1>9. CASE (l = <<>> \/ l = <<Confirm(m.body)>>) /\ m.type # "Init" /\ ~(IsEvent(m, "Hello") /\ is_pending(Self(n), c))
  BY <1>4, <1>9
<1> QED
  <2>1. \A kind : IsEvent(m, kind) => m.type = "Sealed" /\ (IsEvent(m, "Hello") <=> kind = "Hello")
    BY DEF IsEvent
  <2> QED
    BY <1>6, <1>7, <1>8, <1>9, <2>1 DEF Answer

\* And it keeps the two in agreement: an Init is answered while the PeerInit
\* is still to come, a Hello by a PeerInit, and a PeerInit by a PeerConfirm.
LEMMA AnswerAgrees ==
  ASSUME NInv, QInv, NEW n \in Pubkey, NEW c \in Conn, NEW m, MessageOK(m, c, n), NEW k, k = m.from,
         NEW l, Answer(n, m, c, l), todo[n] = <<>>, todo' = [todo EXCEPT ![n] = l],
         UNCHANGED <<peers, pending_peer_init, cut>>, Takes(n, k, c, m), Whole(n, k),
         1 \in DOMAIN wire[c][n], m = wire[c][n][1],
         m.type = "Sealed" /\ m.body.kind \in {"PeerInit", "PeerConfirm", "Pong"} => Known(n, k)
  PROVE  GoodFor(n, k, c, m, l)
<1>1. Joins(c, n, k) /\ k \in Pubkey /\ n # k /\ c \in Conn
  BY DEF MessageOK, Joins
<1>2. BookOK(n) /\ Domains
  BY DEF NInv, PeerOK
<1>3. todo'[n] = l /\ todo'[k] = todo[k]
  BY <1>1, TakeEffect
<1>4. /\ \A kind : IsEvent(m, kind) => m.type = "Sealed" /\ m.body.kind = kind
      /\ \A kind : Is(m, kind) => (m.type = "Init" /\ kind = "Init") \/ (m.type = "Sealed" /\ m.body.kind = kind)
  BY DEF Is, IsEvent
<1>5. CASE m.type = "Init" /\ l = GreetList(n, k, c)
  <2>1. c = <<k, n>>
    BY <1>5 DEF MessageOK, MessageSealed
  <2>2. Whole(k, n)
    BY DEF Whole, Severed
  <2>3. InitFollowed(k, n)
    BY <1>1, <2>2 DEF QInv, PairOK
  <2>4. Dialing(k, n) \/ ListSends(todo[k], c, "PeerInit") \/ Followed(wire[c][n], 1)
    BY <1>1, <1>5, <2>1, <2>3 DEF InitFollowed
  <2>5. Dialing(k, n)' <=> Dialing(k, n)
    BY <1>1, TakeEffect
  <2>6. ListSends(todo[k], c, "PeerInit")' <=> ListSends(todo[k], c, "PeerInit")
    BY <1>3 DEF ListSends
  <2>7. Followed(wire[c][n], 1) => Travelling(c, n, "PeerInit")'
    <3>1. Followed(wire[c][n], 1) => Travelling(c, n, "PeerInit")
      BY DEF Followed, Travelling, Is
    <3>2. ~Is(m, "PeerInit")
      BY <1>4, <1>5
    <3> QED
      BY <1>1, <3>1, <3>2 DEF Takes
  <2>8. Shakes(k, n)'
    BY <1>1, <2>1, <2>4, <2>5, <2>6, <2>7 DEF Shakes, Coming
  <2> QED
    BY <2>8 DEF GoodFor
<1>6. CASE IsEvent(m, "Hello") /\ l = InitList(n, k, c)
  <2>1. c = <<n, k>>
    BY <1>4, <1>6 DEF MessageOK, MessageInit
  <2>2. \A d, kind : ListSends(l, d, kind) <=> d = c /\ kind = "PeerInit"
    BY <1>6, InitListShape
  <2>3. ListSends(l, c, "PeerInit")
    BY <2>2
  <2>4. ListSends(todo[n], c, "PeerInit")'
    BY <1>3, <2>3 DEF ListSends
  <2>5. Shakes(n, k)'
    BY <1>1, <2>1, <2>4 DEF Shakes, Coming
  <2> QED
    BY <2>5 DEF GoodFor
<1>7. ASSUME NEW body, l = <<>> \/ l = <<Confirm(body)>>, ~Is(m, "PeerInit"), ~Is(m, "PeerConfirm")
      PROVE  GoodFor(n, k, c, m, l)
  <2>1. \A i \in DOMAIN l : l[i].type # "SetPeer"
    BY <1>7, NoListShape
  <2>2. \A d, kind : ~ListSends(l, d, kind)
    BY <1>7, NoListShape
  <2> QED
    BY <1>7, <2>1, <2>2 DEF GoodFor, Made
<1>8. ASSUME Known(n, k)
      PROVE  LET info == peers[n][k]
             IN /\ RecordOK(n, info) /\ info.peer.pubkey = k /\ Joins(info.connection_info, n, k)
                /\ \A name : confirmed(info, name, now).active
                /\ seen(info, now).active = info.active
                /\ Active(n, k) <=> info.active
  <2>1. RecordOK(n, peers[n][k]) /\ peers[n][k].peer.pubkey = k /\ Joins(peers[n][k].connection_info, n, k)
    BY <1>2, <1>8, BookKeys DEF Known
  <2> QED
    BY <1>8, <2>1 DEF confirmed, seen, RecordOK, PeerInfo, Peer, Active, Known
<1>16. ASSUME NEW info, NEW e, NEW body, l = <<SetPeer(info)>> \/ l = <<SetPeer(info), Sends(n, e, k, body)>>
       PROVE  /\ Made(n, k, l) <=> info.active
              /\ \A d : ListSends(l, d, "PeerConfirm") <=>
                    l = <<SetPeer(info), Sends(n, e, k, body)>> /\ d = e /\ "PeerConfirm" = body.kind
  <2>1. /\ ListInOrder(l) /\ \A d : ~ListDials(l, d)
        /\ \A d, kind : ListSends(l, d, kind) <=>
              l = <<SetPeer(info), Sends(n, e, k, body)>> /\ d = e /\ kind = body.kind
    BY <1>16, RecordList
  <2>2. 1 \in DOMAIN l /\ l[1].type = "SetPeer" /\ l[1].peer_info = info
    BY <1>16 DEF SetPeer
  <2> QED
    BY <2>1, <2>2 DEF Made
<1>9. CASE IsEvent(m, "PeerInit") /\ Known(n, k) /\ l = ConfirmList(n, k, m.body.name)
  <2>1. PICK info : info = confirmed(peers[n][k], m.body.name, now)
    OBVIOUS
  <2>2. PICK e : e = peers[n][k].connection_info
    OBVIOUS
  <2>3. PICK body : body = PeerConfirm(NameOf[n])
    OBVIOUS
  <2>4. l = <<SetPeer(info), Sends(n, e, k, body)>> /\ info.active /\ Joins(e, n, k) /\ body.kind = "PeerConfirm"
    BY <1>8, <1>9, <2>1, <2>2, <2>3, EventKinds DEF ConfirmList
  <2>5. Made(n, k, l) /\ ListSends(l, e, "PeerConfirm")
    BY <1>16, <2>4
  <2> QED
    BY <2>4, <2>5 DEF GoodFor
<1>10. CASE IsEvent(m, "PeerConfirm") /\ Known(n, k) /\ l = <<SetPeer(confirmed(peers[n][k], m.body.name, now))>>
  <2>1. Made(n, k, l)
    <3>1. PICK info : info = confirmed(peers[n][k], m.body.name, now)
      OBVIOUS
    <3>2. info.active /\ l = <<SetPeer(info)>>
      BY <1>8, <1>10, <3>1
    <3> QED
      BY <1>16, <3>2
  <2>2. Travelling(c, n, "PeerConfirm")
    BY <1>10 DEF Travelling, Is
  <2>3. Told(n, k)
    BY <1>1, <2>2 DEF Told, Coming
  <2>4. ~Is(m, "PeerInit")
    BY <1>4, <1>10
  <2> QED
    BY <2>1, <2>3, <2>4 DEF GoodFor
<1>11. ASSUME Known(n, k), ~Is(m, "PeerInit"), ~Is(m, "PeerConfirm"),
              \/ l = <<SetPeer(seen(peers[n][k], now))>>
              \/ l = <<SetPeer(seen(peers[n][k], now)), Sends(n, peers[n][k].connection_info, k, Pong)>>
       PROVE  GoodFor(n, k, c, m, l)
  <2>1. PICK info : info = seen(peers[n][k], now)
    OBVIOUS
  <2>2. PICK e : e = peers[n][k].connection_info
    OBVIOUS
  <2>3. PICK body : body = Pong
    OBVIOUS
  <2>4. l = <<SetPeer(info)>> \/ l = <<SetPeer(info), Sends(n, e, k, body)>>
    BY <1>11, <2>1, <2>2, <2>3
  <2>5. (info.active <=> Active(n, k)) /\ body.kind # "PeerConfirm"
    BY <1>8, <1>11, <2>1, <2>3, EventKinds
  <2>6. CASE l = <<SetPeer(info)>>
    <3>1. (Made(n, k, l) <=> info.active) /\ \A d : ~ListSends(l, d, "PeerConfirm")
      BY <1>16, <2>5, <2>6
    <3> QED
      BY <1>11, <2>5, <3>1 DEF GoodFor
  <2>7. CASE l = <<SetPeer(info), Sends(n, e, k, body)>>
    <3>1. (Made(n, k, l) <=> info.active) /\ \A d : ~ListSends(l, d, "PeerConfirm")
      BY <1>16, <2>5, <2>7
    <3> QED
      BY <1>11, <2>5, <3>1 DEF GoodFor
  <2> QED
    BY <2>4, <2>6, <2>7
<1>12. Accepts(n, k)
  BY DEF Whole
<1>13. CASE IsEvent(m, "Hello") /\ l = <<>>
  <2>1. ~Is(m, "PeerInit") /\ ~Is(m, "PeerConfirm")
    BY <1>4, <1>13
  <2> QED
    BY <1>7, <1>13, <2>1
<1>14. CASE m.type = "Sealed" /\ ~IsEvent(m, "Hello") /\ ~Known(n, k) /\ l = <<>>
  <2>1. ~Is(m, "PeerInit") /\ ~Is(m, "PeerConfirm")
    BY <1>4, <1>14
  <2> QED
    BY <1>7, <1>14, <2>1
<1>15. IsEvent(m, "Ping") \/ IsEvent(m, "Pong") => ~Is(m, "PeerInit") /\ ~Is(m, "PeerConfirm")
  BY <1>4
<1> QED
  BY <1>5, <1>6, <1>9, <1>10, <1>11, <1>12, <1>13, <1>14, <1>15 DEF Answer

-----------------------------------------------------------------------------
(* The steps in which a host takes a list. *)

\* When no message is taken off a stream.
LEMMA TakesNone ==
  ASSUME UNCHANGED wire, NEW n, NEW k, NEW c, NEW m
  PROVE  Takes(n, k, c, m)
BY DEF Takes, Travelling, Followed

\* The user is asked about nobody that is accepted at once.
LEMMA TakeQInv ==
  ASSUME NInv, QInv, NEW n \in Pubkey, NEW k \in Pubkey, NEW c, NEW m, NEW l, todo[n] = <<>>,
         todo' = [todo EXCEPT ![n] = l], UNCHANGED <<peers, pending_peer_init, cut>>,
         Takes(n, k, c, m), GoodList(n, k, c, m, l), Whole(n, k) => GoodFor(n, k, c, m, l),
         \A j \in Pubkey : \A i \in prompts'[j] : i \in prompts[j] \/ ~Accepts(j, i)
  PROVE  QInv'
<1>1. ListsInOrder' /\ \A i, j \in Pubkey : PairOK(i, j)'
  BY TakePairs
<1>2. OnlyAsked'
  BY DEF QInv, OnlyAsked, Accepts
<1> QED
  BY <1>1, <1>2 DEF QInv

\* Dialing notes the dial and sends its Init.
LEMMA DialAgrees ==
  ASSUME NInv, QInv, NEW c \in Conn, Dial(c)
  PROVE  QInv'
<1>1. PICK n : n = c[1]
  OBVIOUS
<1>2. PICK k : k = c[2]
  OBVIOUS
<1>3. n \in Pubkey /\ k \in Pubkey
  BY <1>1, <1>2, StreamJoins DEF Joins
<1>4. PICK l : /\ l \in init_comm(Self(n), c, now).lists /\ todo' = [todo EXCEPT ![n] = l] /\ todo[n] = <<>>
               /\ UNCHANGED <<peers, pending_peer_init, cut, wire, prompts>>
  BY <1>1 DEF Dial, Take, Ready
<1>5. l = <<SetPendingPeer([connection_info |-> c, created |-> now]),
            MessageSend(c, [type |-> "Init", from |-> n])>>
  BY <1>4 DEF init_comm, Ok, Self
<1>6. /\ DOMAIN l = {1, 2} /\ l[1].type = "SetPendingPeer" /\ l[1].pending_peer.connection_info = c
      /\ l[2].type = "MessageSend" /\ l[2].to = c /\ l[2].message.type = "Init"
  BY <1>5 DEF SetPendingPeer, MessageSend
<1>7. \A d, kind : ListSends(l, d, kind) <=> d = c /\ kind = "Init"
  BY <1>6 DEF ListSends, Is, IsEvent
<1>8. \A d : ListDials(l, d) <=> d = c
  BY <1>6 DEF ListDials
<1>9. ListInOrder(l)
  BY <1>6 DEF ListInOrder
<1>10. PICK m : m = [type |-> "none"]
  OBVIOUS
<1>11. \A kind : ~Is(m, kind)
  BY <1>10 DEF Is, IsEvent
<1>12. GoodList(n, k, c, m, l)
  BY <1>6, <1>7, <1>8, <1>9, <1>11 DEF GoodList
<1>13. GoodFor(n, k, c, m, l)
  BY <1>6, <1>7, <1>11 DEF GoodFor, Made
<1>14. Takes(n, k, c, m)
  BY <1>4, TakesNone
<1> QED
  BY <1>3, <1>4, <1>12, <1>13, <1>14, TakeQInv

\* The timer: a ping is no part of a handshake.
LEMMA TickAgrees ==
  ASSUME NInv, QInv, NothingForgotten, NEW n \in Pubkey, Tick(n)
  PROVE  QInv'
<1>1. PICK l : /\ l \in tick(Self(n), now).lists /\ todo' = [todo EXCEPT ![n] = l] /\ todo[n] = <<>>
               /\ UNCHANGED <<peers, pending_peer_init, cut, wire, prompts>>
  BY DEF Tick, Take, Ready
<1>2. \A i \in DOMAIN l : /\ l[i].type = "MessageSend"
                          /\ \A kind : Is(l[i].message, kind) => kind = "Ping"
  <2>1. \A i \in DOMAIN l : \E k \in DOMAIN peers[n] : l[i] = Sends(n, peers[n][k].connection_info, k, Ping)
    BY <1>1, TickPings
  <2> QED
    BY <2>1, EventKinds DEF Sends, MessageSend, create_sealed_message, Is, IsEvent
<1>3. ListInOrder(l)
  BY <1>2 DEF ListInOrder
<1>4. \A d : ~ListDials(l, d) /\ \A kind : ListSends(l, d, kind) => kind = "Ping"
  BY <1>2 DEF ListDials, ListSends
<1>5. PICK m : m = [type |-> "none"]
  OBVIOUS
<1>6. \A kind : ~Is(m, kind)
  BY <1>5 DEF Is, IsEvent
<1>7. GoodList(n, n, m, m, l)
  BY <1>2, <1>3, <1>4, <1>6 DEF GoodList
<1>8. Takes(n, n, m, m)
  BY <1>1, TakesNone
<1>9. ~Whole(n, n)
  BY DEF Whole
<1> QED
  BY <1>1, <1>7, <1>8, <1>9, TakeQInv

\* The user decides about a peer that is not accepted at once.
LEMMA UserConfirmAgrees ==
  ASSUME NInv, QInv, NEW n \in Pubkey, NEW k \in Pubkey, UserConfirm(n, k)
  PROVE  QInv'
<1>1. PICK l : /\ l \in peer_confirm(Self(n), k, NameOf[k], now).lists
               /\ todo' = [todo EXCEPT ![n] = l] /\ todo[n] = <<>>
               /\ UNCHANGED <<peers, pending_peer_init, cut, wire>>
  BY DEF UserConfirm, Take, Ready
<1>2. k \in prompts[n] /\ prompts' = [prompts EXCEPT ![n] = @ \ {k}]
  BY DEF UserConfirm
<1>3. \A j \in Pubkey : prompts'[j] \subseteq prompts[j]
  BY <1>2 DEF NInv, Domains
<1>4. ~Whole(n, k)
  BY <1>2 DEF Whole, QInv, OnlyAsked
<1>5. BookOK(n)
  BY DEF NInv, PeerOK
<1>6. l = <<>> \/ (Known(n, k) /\ l = ConfirmList(n, k, NameOf[k]))
  BY <1>1, <1>5, PeerConfirmList
<1>7. PICK m : m = [type |-> "none"]
  OBVIOUS
<1>8. \A kind : ~Is(m, kind)
  BY <1>7 DEF Is, IsEvent
<1>9. GoodList(n, k, m, m, l)
  <2>1. CASE l = <<>>
    <3>1. /\ ListInOrder(l) /\ \A i \in DOMAIN l : l[i].type # "SetPeer"
          /\ \A d : ~ListDials(l, d)
          /\ \A d, kind : ~ListSends(l, d, kind)
      BY <2>1, NoListShape
    <3> QED
      BY <1>8, <3>1 DEF GoodList
  <2>2. CASE Known(n, k) /\ l = ConfirmList(n, k, NameOf[k])
    <3>1. PICK info : info = confirmed(peers[n][k], NameOf[k], now)
      OBVIOUS
    <3>2. PICK e : e = peers[n][k].connection_info
      OBVIOUS
    <3>3. PICK body : body = PeerConfirm(NameOf[n])
      OBVIOUS
    <3>4. l = <<SetPeer(info), Sends(n, e, k, body)>> /\ body.kind = "PeerConfirm"
      BY <2>2, <3>1, <3>2, <3>3, EventKinds DEF ConfirmList
    <3>5. info.peer.pubkey = k /\ Joins(e, n, k)
      <4>1. RecordOK(n, peers[n][k]) /\ peers[n][k].peer.pubkey = k /\ Joins(peers[n][k].connection_info, n, k)
        BY <1>5, <2>2, BookKeys DEF Known
      <4> QED
        BY <3>1, <3>2, <4>1 DEF confirmed, RecordOK, PeerInfo, Peer
    <3>6. /\ ListInOrder(l) /\ \A d : ~ListDials(l, d)
          /\ \A d, kind : ListSends(l, d, kind) <=>
                l = <<SetPeer(info), Sends(n, e, k, body)>> /\ d = e /\ kind = body.kind
      BY <3>4, RecordList
    <3>7. \A i \in DOMAIN l : l[i].type = "SetPeer" => l[i].peer_info.peer.pubkey = k
      BY <3>4, <3>5 DEF SetPeer, Sends, MessageSend
    <3> QED
      BY <1>8, <3>4, <3>5, <3>6, <3>7 DEF GoodList
  <2> QED
    BY <1>6, <2>1, <2>2
<1>10. Takes(n, k, m, m)
  BY <1>1, TakesNone
<1> QED
  BY <1>1, <1>3, <1>4, <1>9, <1>10, TakeQInv

\* A message that is received is taken off its stream.
LEMMA TakesHead ==
  ASSUME NInv, NEW n \in Pubkey, NEW c \in Conn, wire[c][n] # <<>>, wire' = [wire EXCEPT ![c][n] = Tail(@)],
         NEW k, NEW m, k = m.from, m = Head(wire[c][n])
  PROVE  /\ Takes(n, k, c, m) /\ MessageOK(m, c, n)
         /\ 1 \in DOMAIN wire[c][n] /\ m = wire[c][n][1]
<1>1. PICK s : s = wire[c][n]
  OBVIOUS
<1>2. PICK t : t = wire'[c][n]
  OBVIOUS
<1>3. /\ MessageOK(m, c, n) /\ m = s[1] /\ 1 \in DOMAIN s /\ t = Tail(s)
      /\ \A d \in Conn, j \in Pubkey : d # c \/ j # n => wire'[d][j] = wire[d][j]
  <2>1. /\ MessageOK(Head(wire[c][n]), c, n) /\ Head(wire[c][n]) = wire[c][n][1] /\ 1 \in DOMAIN wire[c][n]
        /\ wire'[c][n] = Tail(wire[c][n])
    BY HeadOfWire
  <2>2. \A d \in Conn, j \in Pubkey : d # c \/ j # n => wire'[d][j] = wire[d][j]
    BY HeadOfWire
  <2> QED
    BY <1>1, <1>2, <2>1, <2>2
<1>4. s \in Seq(MessageWrapped) /\ s # <<>>
  BY <1>1 DEF NInv, WireOK
<1>5. /\ \A i \in DOMAIN t : i + 1 \in DOMAIN s /\ t[i] = s[i + 1] /\ i \in Nat
      /\ \A i \in DOMAIN s : i # 1 => i - 1 \in DOMAIN t /\ t[i - 1] = s[i] /\ i \in Nat
  BY <1>3, <1>4
<1>6. Joins(c, n, k)
  BY <1>3 DEF MessageOK
<1>7. ASSUME NEW kind
      PROVE  /\ Travelling(c, n, kind)' => Travelling(c, n, kind)
             /\ Travelling(c, n, kind) => Travelling(c, n, kind)' \/ Is(m, kind)
  <2>1. Travelling(c, n, kind)' <=> \E i \in DOMAIN t : Is(t[i], kind)
    BY <1>2 DEF Travelling, Is, IsEvent
  <2>2. Travelling(c, n, kind) <=> \E i \in DOMAIN s : Is(s[i], kind)
    BY <1>1 DEF Travelling
  <2> QED
    BY <1>3, <1>5, <2>1, <2>2
<1>8. ASSUME NEW i \in DOMAIN t, t[i].type = "Init"
      PROVE  \E x \in DOMAIN s : s[x].type = "Init" /\ (Followed(s, x) => Followed(t, i))
  <2>1. i + 1 \in DOMAIN s /\ s[i + 1].type = "Init" /\ i \in Nat
    BY <1>5, <1>8
  <2>2. ASSUME Followed(s, i + 1) PROVE Followed(t, i)
    <3>1. PICK j \in DOMAIN s : j > i + 1 /\ IsEvent(s[j], "PeerInit")
      BY <2>2 DEF Followed
    <3>2. j # 1 /\ j \in Int
      BY <1>4, <2>1, <3>1
    <3>3. j - 1 \in DOMAIN t /\ t[j - 1] = s[j] /\ j - 1 > i
      BY <1>5, <2>1, <3>1, <3>2
    <3> QED
      BY <3>1, <3>3 DEF Followed
  <2> QED
    BY <2>1, <2>2
<1>9. ASSUME NEW d \in Conn, NEW j \in Pubkey, d # c \/ j # n
      PROVE  wire'[d][j] = wire[d][j] /\ \A kind : Travelling(d, j, kind)' <=> Travelling(d, j, kind)
  <2>1. wire'[d][j] = wire[d][j]
    BY <1>3, <1>9
  <2> QED
    BY <2>1 DEF Travelling, Is, IsEvent
<1>10. ASSUME NEW d \in Conn, NEW j \in Pubkey, NEW kind
       PROVE  /\ Travelling(d, j, kind)' => Travelling(d, j, kind)
              /\ Travelling(d, j, kind) => Travelling(d, j, kind)' \/ (d = c /\ j = n /\ Joins(c, n, k) /\ Is(m, kind))
  <2>1. CASE d = c /\ j = n
    BY <1>6, <1>7, <2>1
  <2>2. CASE d # c \/ j # n
    BY <1>9, <2>2
  <2> QED
    BY <2>1, <2>2
<1>11. ASSUME NEW d \in Conn, NEW j \in Pubkey, NEW i \in DOMAIN wire'[d][j], wire'[d][j][i].type = "Init"
       PROVE  \E x \in DOMAIN wire[d][j] : /\ wire[d][j][x].type = "Init"
                                           /\ Followed(wire[d][j], x) => Followed(wire'[d][j], i)
  <2>1. CASE d = c /\ j = n
    BY <1>1, <1>2, <1>8, <1>11, <2>1
  <2>2. CASE d # c \/ j # n
    BY <1>9, <1>11, <2>2
  <2> QED
    BY <2>1, <2>2
<1>12. Takes(n, k, c, m)
  BY <1>10, <1>11 DEF Takes
<1> QED
  BY <1>1, <1>3, <1>12

\* A message received, and what its handler answers.
LEMMA ReceiveAgrees ==
  ASSUME NInv, HInv, QInv, NEW n \in Pubkey, NEW c \in Conn, Receive(n, c)
  PROVE  QInv'
<1>1. PICK m : m = Head(wire[c][n])
  OBVIOUS
<1>2. PICK k : k = m.from
  OBVIOUS
<1>3. /\ wire[c][n] # <<>> /\ wire' = [wire EXCEPT ![c][n] = Tail(@)] /\ BookOK(n) /\ Domains /\ todo[n] = <<>>
      /\ UNCHANGED <<peers, pending_peer_init, cut>>
  BY DEF Receive, Take, Ready, NInv, PeerOK
<1>4. PICK l : l \in Handler(Self(n), m, c).lists /\ todo' = [todo EXCEPT ![n] = l]
  BY <1>1 DEF Receive, Take
<1>5. /\ Takes(n, k, c, m) /\ MessageOK(m, c, n)
      /\ 1 \in DOMAIN wire[c][n] /\ m = wire[c][n][1]
  BY <1>1, <1>2, <1>3, TakesHead
<1>6. k \in Pubkey
  BY <1>2, <1>5 DEF MessageOK, Joins
<1>7. Answer(n, m, c, l)
  BY <1>3, <1>4, <1>5, HandlerAnswers
<1>8. m.type = "Sealed" /\ m.body.kind \in {"PeerInit", "PeerConfirm", "Pong"} => Known(n, k)
  <2>1. MessageSafe(wire[c][n], 1, c, n)
    BY <1>5 DEF HInv, WireSafe
  <2> QED
    BY <1>2, <1>5, <2>1 DEF MessageSafe
<1>9. GoodList(n, k, c, m, l)
  BY <1>2, <1>5, <1>7, AnswerGood
<1>10. ASSUME Whole(n, k) PROVE GoodFor(n, k, c, m, l)
  BY <1>2, <1>3, <1>4, <1>5, <1>7, <1>8, <1>10, AnswerAgrees
<1>11. ASSUME NEW j \in Pubkey, NEW i \in prompts'[j] PROVE i \in prompts[j] \/ ~Accepts(j, i)
  <2>1. \/ prompts' = prompts
        \/ prompts' = [prompts EXCEPT ![n] = @ \cup {k}] /\ can_confirm(ConfigOf[n], k) = "ask"
    BY <1>1, <1>2 DEF Receive
  <2>2. DOMAIN prompts = Pubkey
    BY <1>3 DEF Domains
  <2> QED
    BY <1>11, <2>1, <2>2 DEF Accepts
<1> QED
  BY <1>3, <1>4, <1>5, <1>6, <1>9, <1>10, <1>11, TakeQInv

-----------------------------------------------------------------------------
(* A host carries out an action. *)

\* Nothing that two peers send each other is lost.
LEMMA WholeStreams ==
  ASSUME NEW n, NEW k, Whole(n, k), NEW c, Joins(c, n, k)
  PROVE  <<c, n>> \notin cut /\ <<c, k>> \notin cut
BY DEF Whole, Severed, Joins

\* What was to be sent is sent.
LEMMA DispatchComing ==
  ASSUME NInv, NEW n \in Pubkey, Dispatch(n), NEW c, NEW i, NEW j, Joins(c, i, j), <<c, j>> \notin cut
  PROVE  \A kind : Coming(c, i, j, kind)' <=> Coming(c, i, j, kind)
<1> PICK a : a = todo[n][1]
  OBVIOUS
<1> DEFINE Sent(kind) == a.type = "MessageSend" /\ a.to = c /\ i = n /\ Is(a.message, kind)
<1>1. /\ c \in Conn /\ i \in Pubkey /\ j \in Pubkey /\ OtherEnd(c, i) = j /\ i # j
      /\ \A x : OtherEnd(c, x) = j /\ Joins(c, x, j) => x = i
  BY JoinsEnds DEF Joins
<1>2. a.type = "MessageSend" => Joins(a.to, n, OtherEnd(a.to, n))
  BY DispatchSends
<1>3. \/ wire'[c][j] = wire[c][j] /\ ~(a.type = "MessageSend" /\ a.to = c /\ i = n)
      \/ /\ a.type = "MessageSend" /\ a.to = c /\ i = n
         /\ wire'[c][j] = Append(wire[c][j], a.message)
  <2> DEFINE b == todo[n][1]
             e == OtherEnd(b.to, n)
  <2>1. \A d \in Conn, k \in Pubkey :
          \/ wire'[d][k] = wire[d][k]
          \/ /\ b.type = "MessageSend" /\ d = b.to /\ k = e /\ <<d, k>> \notin cut
             /\ wire'[d][k] = Append(wire[d][k], b.message)
    BY DispatchSends, Zenon
  <2>2. b.type = "MessageSend" /\ <<b.to, e>> \notin cut => wire'[b.to][e] = Append(wire[b.to][e], b.message)
    BY DispatchSends, Zenon
  <2>3. a.type = "MessageSend" /\ a.to = c /\ i = n => e = j
    BY <1>1
  <2>4. a.type = "MessageSend" /\ a.to = c /\ j = e => i = n
    BY <1>1, <1>2
  <2>5. a = b
    OBVIOUS
  <2> HIDE DEF b, e
  <2> QED
    BY <1>1, <2>1, <2>2, <2>3, <2>4, <2>5
<1>4. wire[c][j] \in Seq(MessageWrapped)
  BY <1>1 DEF NInv, WireOK
<1>5. ASSUME NEW kind PROVE Travelling(c, j, kind)' <=> Travelling(c, j, kind) \/ Sent(kind)
  <2>1. PICK w : w = wire[c][j]
    OBVIOUS
  <2>2. Travelling(c, j, kind) <=> \E x \in DOMAIN w : Is(w[x], kind)
    BY <2>1 DEF Travelling
  <2>3. Travelling(c, j, kind)' <=> \E x \in DOMAIN wire'[c][j] : Is(wire'[c][j][x], kind)
    BY DEF Travelling, Is, IsEvent
  <2>4. CASE wire'[c][j] = w /\ ~(a.type = "MessageSend" /\ a.to = c /\ i = n)
    BY <2>2, <2>3, <2>4
  <2>5. CASE a.type = "MessageSend" /\ a.to = c /\ i = n /\ wire'[c][j] = Append(w, a.message)
    <3>2. PICK v : v = Append(w, a.message)
      OBVIOUS
    <3>3. /\ \A x \in DOMAIN v : v[x] = a.message \/ (x \in DOMAIN w /\ v[x] = w[x])
          /\ \A x \in DOMAIN w : x \in DOMAIN v /\ v[x] = w[x]
          /\ \E x \in DOMAIN v : v[x] = a.message
      <4>1. DOMAIN v = 1..(Len(w) + 1) /\ v[Len(w) + 1] = a.message /\ \A x \in 1..Len(w) : v[x] = w[x]
        BY <1>4, <2>1, <3>2
      <4>2. DOMAIN w = 1..Len(w) /\ Len(w) \in Nat
        BY <1>4, <2>1
      <4> QED
        BY <4>1, <4>2
    <3> QED
      BY <2>2, <2>3, <2>5, <3>2, <3>3
  <2> QED
    BY <1>3, <2>1, <2>4, <2>5
<1>6. ASSUME NEW kind PROVE ListSends(todo[i], c, kind) <=> ListSends(todo'[i], c, kind) \/ Sent(kind)
  <2>1. CASE i = n
    <3>1. /\ 1 \in DOMAIN todo[n] /\ DOMAIN todo[n] \subseteq Nat \ {0}
          /\ \A x \in DOMAIN todo'[n] : x + 1 \in DOMAIN todo[n] /\ todo'[n][x] = todo[n][x + 1] /\ x \in Nat \ {0}
          /\ \A x \in DOMAIN todo[n] : x # 1 => x - 1 \in DOMAIN todo'[n] /\ todo'[n][x - 1] = todo[n][x]
      BY HeadOfTodo
    <3> QED
      BY <2>1, <3>1 DEF ListSends
  <2>2. CASE i # n
    BY <1>1, <2>2, HeadOfTodo DEF ListSends
  <2> QED
    BY <2>1, <2>2
<1>7. \A kind : ListSends(todo[i], c, kind)' <=> ListSends(todo'[i], c, kind)
  BY DEF ListSends
<1> HIDE DEF Sent
<1> QED
  BY <1>5, <1>6, <1>7 DEF Coming

\* The rest of a list in order is in order.
LEMMA DispatchInOrder ==
  ASSUME NInv, QInv, NEW n \in Pubkey, Dispatch(n)
  PROVE  ListsInOrder'
<1>1. /\ \A i \in DOMAIN todo'[n] : i + 1 \in DOMAIN todo[n] /\ todo'[n][i] = todo[n][i + 1] /\ i \in Nat \ {0}
      /\ \A i \in DOMAIN todo[n] : i # 1 => i - 1 \in DOMAIN todo'[n] /\ todo'[n][i - 1] = todo[n][i]
      /\ DOMAIN todo[n] \subseteq Nat \ {0}
      /\ \A k \in Pubkey : k # n => todo'[k] = todo[k]
  BY HeadOfTodo
<1>2. PICK s : s = todo[n]
  OBVIOUS
<1>3. PICK t : t = todo'[n]
  OBVIOUS
<1>4. ListInOrder(s)
  BY <1>2 DEF QInv, ListsInOrder
<1>5. /\ \A i \in DOMAIN t : i + 1 \in DOMAIN s /\ t[i] = s[i + 1] /\ i \in Nat \ {0}
      /\ \A i \in DOMAIN s : i # 1 => i - 1 \in DOMAIN t /\ t[i - 1] = s[i]
      /\ DOMAIN s \subseteq Nat \ {0}
  BY <1>1, <1>2, <1>3
<1>6. ASSUME NEW i \in DOMAIN t, t[i].type = "SetPeer" PROVE FALSE
  BY <1>4, <1>5, <1>6 DEF ListInOrder
<1>7. ASSUME NEW i \in DOMAIN t, t[i].type = "UnsetPendingPeer"
      PROVE  /\ \A j \in DOMAIN t : t[j].type = "MessageSend" => t[j].message.type # "Init"
             /\ \E j \in DOMAIN t : j > i /\ t[j].type = "MessageSend" /\ t[j].to = t[i].connection_info
                                    /\ IsEvent(t[j].message, "PeerInit")
  <2>1. i + 1 \in DOMAIN s /\ t[i] = s[i + 1] /\ i \in Nat \ {0}
    BY <1>5
  <2>2. /\ \A j \in DOMAIN s : s[j].type = "MessageSend" => s[j].message.type # "Init"
        /\ \E j \in DOMAIN s : j > i + 1 /\ s[j].type = "MessageSend" /\ s[j].to = s[i + 1].connection_info
                               /\ IsEvent(s[j].message, "PeerInit")
    BY <1>4, <1>7, <2>1 DEF ListInOrder
  <2>3. PICK j \in DOMAIN s : j > i + 1 /\ s[j].type = "MessageSend" /\ s[j].to = s[i + 1].connection_info
                              /\ IsEvent(s[j].message, "PeerInit")
    BY <2>2
  <2>4. j - 1 \in DOMAIN t /\ t[j - 1] = s[j] /\ j - 1 > i
    BY <1>5, <2>1, <2>3
  <2> QED
    BY <1>5, <2>1, <2>2, <2>3, <2>4
<1>8. ListInOrder(t)
  BY <1>6, <1>7 DEF ListInOrder
<1> QED
  BY <1>1, <1>3, <1>8 DEF QInv, ListsInOrder

\* A list writes one record, first of all, and drops none.
LEMMA DispatchActive ==
  ASSUME NInv, HInv, QInv, NEW n \in Pubkey, Dispatch(n), NEW i \in Pubkey, NEW j \in Pubkey
  PROVE  WillBeActive(i, j)' <=> WillBeActive(i, j)
<1> PICK a : a = todo[n][1]
  OBVIOUS
<1>1. /\ 1 \in DOMAIN todo[n] /\ peers'[n] = apply_peers(peers[n], a)
      /\ \A x \in DOMAIN todo'[n] : x + 1 \in DOMAIN todo[n] /\ todo'[n][x] = todo[n][x + 1] /\ x \in Nat \ {0}
      /\ \A k \in Pubkey : k # n => peers'[k] = peers[k] /\ todo'[k] = todo[k]
  BY HeadOfTodo
<1>2. a.type # "UnsetPeer"
  BY <1>1 DEF HInv, TodoSafe, ListSafe, ActionSafe
<1>3. CASE i # n
  BY <1>1, <1>3 DEF WillBeActive, Writes, Active
<1>4. CASE i = n
  <2>1. ListInOrder(todo[n])
    BY DEF QInv, ListsInOrder
  <2>2. ~Writes(n, j)'
    BY <1>1, <2>1 DEF Writes, ListInOrder
  <2>3. Writes(n, j) <=> a.type = "SetPeer" /\ a.peer_info.peer.pubkey = j
    BY <1>1 DEF Writes
  <2>4. CASE a.type = "SetPeer"
    <3>1. peers'[n] = [x \in DOMAIN peers[n] \cup {a.peer_info.peer.pubkey} |->
                         IF x = a.peer_info.peer.pubkey THEN a.peer_info ELSE peers[n][x]]
      BY <1>1, <2>4 DEF apply_peers
    <3> QED
      BY <1>4, <2>2, <2>3, <2>4, <3>1 DEF WillBeActive, Active
  <2>5. CASE a.type # "SetPeer"
    <3>1. peers'[n] = peers[n]
      BY <1>1, <1>2, <2>5 DEF apply_peers
    <3> QED
      BY <1>4, <2>2, <2>3, <2>5, <3>1 DEF WillBeActive, Active
  <2> QED
    BY <2>4, <2>5
<1> QED
  BY <1>3, <1>4

\* A dial is over only when the PeerInit is about to leave.
LEMMA DispatchDialing ==
  ASSUME NInv, QInv, NEW n \in Pubkey, Dispatch(n), NEW i \in Pubkey, NEW j \in Pubkey, Dialing(i, j)
  PROVE  Dialing(i, j)' \/ (i = n /\ todo[n][1].type = "UnsetPendingPeer" /\ ListSends(todo'[n], <<i, j>>, "PeerInit"))
<1> PICK a : a = todo[n][1]
  OBVIOUS
<1> DEFINE c == <<i, j>>
<1>1. /\ 1 \in DOMAIN todo[n] /\ pending_peer_init'[n] = apply_pending(pending_peer_init[n], a)
      /\ \A x \in DOMAIN todo[n] : x # 1 => x - 1 \in DOMAIN todo'[n] /\ todo'[n][x - 1] = todo[n][x]
      /\ \A k \in Pubkey : k # n => pending_peer_init'[k] = pending_peer_init[k] /\ todo'[k] = todo[k]
      /\ DOMAIN todo[n] \subseteq Nat \ {0}
  BY HeadOfTodo
<1>2. Dialing(i, j)' <=> (\E p \in pending_peer_init'[i] : p.connection_info = c) \/ ListDials(todo'[i], c)
  BY DEF Dialing, is_pending, Self, ListDials
<1>3. (\E p \in pending_peer_init[i] : p.connection_info = c) \/ ListDials(todo[i], c)
  BY DEF Dialing, is_pending, Self
<1>4. CASE i # n
  BY <1>1, <1>2, <1>3, <1>4
<1>5. CASE i = n /\ a.type = "UnsetPendingPeer" /\ a.connection_info = c
  <2>1. ListInOrder(todo[n])
    BY DEF QInv, ListsInOrder
  <2>2. PICK x \in DOMAIN todo[n] : x > 1 /\ todo[n][x].type = "MessageSend" /\ todo[n][x].to = c
                                    /\ IsEvent(todo[n][x].message, "PeerInit")
    BY <1>1, <1>5, <2>1 DEF ListInOrder
  <2>3. x - 1 \in DOMAIN todo'[n] /\ todo'[n][x - 1] = todo[n][x]
    BY <1>1, <2>2
  <2>4. ListSends(todo'[n], c, "PeerInit")
    BY <2>2, <2>3 DEF ListSends, Is
  <2> QED
    BY <1>5, <2>4
<1>6. CASE i = n /\ ~(a.type = "UnsetPendingPeer" /\ a.connection_info = c)
  <2>1. CASE \E p \in pending_peer_init[n] : p.connection_info = c
    <3>1. PICK p \in pending_peer_init[n] : p.connection_info = c
      BY <2>1
    <3>2. p \in apply_pending(pending_peer_init[n], a)
      BY <1>6, <3>1 DEF apply_pending
    <3> QED
      BY <1>1, <1>2, <1>6, <3>1, <3>2
  <2>2. CASE ListDials(todo[n], c)
    <3>1. PICK x \in DOMAIN todo[n] : todo[n][x].type = "SetPendingPeer" /\ todo[n][x].pending_peer.connection_info = c
      BY <2>2 DEF ListDials
    <3>2. CASE x = 1
      <4>1. a.type = "SetPendingPeer" /\ a.pending_peer.connection_info = c
        BY <3>1, <3>2
      <4>2. \E p \in apply_pending(pending_peer_init[n], a) : p.connection_info = c
        BY <4>1 DEF apply_pending
      <4> QED
        BY <1>1, <1>2, <1>6, <4>2
    <3>3. CASE x # 1
      <4>1. ListDials(todo'[n], c)
        BY <1>1, <3>1, <3>3 DEF ListDials
      <4> QED
        BY <1>2, <1>6, <4>1
    <3> QED
      BY <3>2, <3>3
  <2> QED
    BY <1>3, <1>6, <2>1, <2>2
<1> QED
  BY <1>4, <1>5, <1>6

\* A dial that is not over was one before.
LEMMA DispatchDialed ==
  ASSUME NInv, NEW n \in Pubkey, Dispatch(n), NEW i \in Pubkey, NEW j \in Pubkey, Dialing(i, j)'
  PROVE  Dialing(i, j)
<1> PICK a : a = todo[n][1]
  OBVIOUS
<1> DEFINE c == <<i, j>>
<1>1. /\ 1 \in DOMAIN todo[n] /\ pending_peer_init'[n] = apply_pending(pending_peer_init[n], a)
      /\ \A x \in DOMAIN todo'[n] : x + 1 \in DOMAIN todo[n] /\ todo'[n][x] = todo[n][x + 1] /\ x \in Nat \ {0}
      /\ \A k \in Pubkey : k # n => pending_peer_init'[k] = pending_peer_init[k] /\ todo'[k] = todo[k]
  BY HeadOfTodo
<1>2. (\E p \in pending_peer_init'[i] : p.connection_info = c) \/ ListDials(todo'[i], c)
  BY DEF Dialing, is_pending, Self, ListDials
<1>3. Dialing(i, j) <=> (\E p \in pending_peer_init[i] : p.connection_info = c) \/ ListDials(todo[i], c)
  BY DEF Dialing, is_pending, Self
<1>4. CASE i # n
  BY <1>1, <1>2, <1>3, <1>4
<1>5. CASE i = n /\ ListDials(todo'[n], c)
  <2>1. ListDials(todo[n], c)
    BY <1>1, <1>5 DEF ListDials
  <2> QED
    BY <1>3, <1>5, <2>1
<1>6. CASE i = n /\ \E p \in pending_peer_init'[n] : p.connection_info = c
  <2>1. PICK p \in apply_pending(pending_peer_init[n], a) : p.connection_info = c
    BY <1>1, <1>6
  <2>2. p \in pending_peer_init[n] \/ (a.type = "SetPendingPeer" /\ p = a.pending_peer)
    BY <2>1 DEF apply_pending
  <2>3. a.type = "SetPendingPeer" /\ p = a.pending_peer => ListDials(todo[n], c)
    BY <1>1, <2>1 DEF ListDials
  <2> QED
    BY <1>3, <1>6, <2>1, <2>2, <2>3
<1> QED
  BY <1>2, <1>4, <1>5, <1>6

\* A PeerInit that is about to leave ends its dial.
LEMMA HeadPeerInit ==
  ASSUME NInv, NEW n \in Pubkey, Dispatch(n), NEW k \in Pubkey,
         SendsPeerInit(todo[n][1]), todo[n][1].to = <<n, k>>
  PROVE  ~Dialing(n, k)
<1>1. 1 \in DOMAIN todo[n] /\ \A x \in DOMAIN todo[n] : ~(x < 1)
  <2>1. 1 \in DOMAIN todo[n] /\ DOMAIN todo[n] \subseteq Nat \ {0}
    BY HeadOfTodo
  <2> QED
    BY <2>1
<1>2. DialList(n, todo[n])
  BY DEF NInv, PeerOK, ListOK
<1>3. /\ \A j \in DOMAIN todo[n] : todo[n][j].type # "SetPendingPeer"
      /\ ~\E p \in pending_peer_init[n] : p.connection_info = <<n, k>>
  BY <1>1, <1>2 DEF DialList
<1> QED
  BY <1>3 DEF Dialing, ListDials, is_pending, Self

\* What a list sends is sent next or later.
LEMMA SendsLater ==
  ASSUME NInv, NEW n \in Pubkey, Dispatch(n), NEW c, NEW kind
  PROVE  ListSends(todo[n], c, kind) <=>
           \/ ListSends(todo'[n], c, kind)
           \/ todo[n][1].type = "MessageSend" /\ todo[n][1].to = c /\ Is(todo[n][1].message, kind)
<1>1. /\ 1 \in DOMAIN todo[n] /\ DOMAIN todo[n] \subseteq Nat \ {0}
      /\ \A x \in DOMAIN todo'[n] : x + 1 \in DOMAIN todo[n] /\ todo'[n][x] = todo[n][x + 1] /\ x \in Nat \ {0}
      /\ \A x \in DOMAIN todo[n] : x # 1 => x - 1 \in DOMAIN todo'[n] /\ todo'[n][x - 1] = todo[n][x]
  BY HeadOfTodo
<1> QED
  BY <1>1 DEF ListSends

\* The dials of every pair stay answered.
LEMMA DispatchAnswered ==
  ASSUME NInv, QInv, NEW n \in Pubkey, Dispatch(n), NEW i \in Pubkey, NEW j \in Pubkey, Whole(i, j)
  PROVE  DialAnswered(i, j)'
<1> DEFINE c == <<i, j>>
<1> SUFFICES ASSUME c \in Conn, Dialing(i, j)'
             PROVE  Coming(c, i, j, "Init")' \/ Coming(c, j, i, "Hello")' \/ ListSends(todo'[i], c, "PeerInit")
  BY DEF DialAnswered, ListSends
<1>1. Dialing(i, j) /\ i # j
  BY DispatchDialed DEF Whole
<1>2. Joins(c, i, j) /\ Joins(c, j, i)
  BY <1>1 DEF Joins
<1>3. <<c, i>> \notin cut /\ <<c, j>> \notin cut
  BY <1>2, WholeStreams
<1>4. Coming(c, i, j, "Init") \/ Coming(c, j, i, "Hello") \/ ListSends(todo[i], c, "PeerInit")
  BY <1>1 DEF QInv, PairOK, DialAnswered
<1>5. Coming(c, i, j, "Init")' <=> Coming(c, i, j, "Init")
  BY <1>2, <1>3, DispatchComing
<1>6. Coming(c, j, i, "Hello")' <=> Coming(c, j, i, "Hello")
  BY <1>2, <1>3, DispatchComing
<1>7. ListSends(todo[i], c, "PeerInit") => ListSends(todo'[i], c, "PeerInit")
  <2>1. CASE i = n
    <3>1. PICK a : a = todo[n][1]
      OBVIOUS
    <3>2. ~(a.type = "MessageSend" /\ a.to = c /\ IsEvent(a.message, "PeerInit"))
      BY <1>1, <2>1, <3>1, HeadPeerInit DEF SendsPeerInit
    <3>3. ~(a.type = "MessageSend" /\ a.to = c /\ Is(a.message, "PeerInit"))
      BY <3>2 DEF Is
    <3> QED
      BY <2>1, <3>1, <3>3, SendsLater
  <2>2. CASE i # n
    BY <2>2, HeadOfTodo
  <2> QED
    BY <2>1, <2>2
<1> QED
  BY <1>4, <1>5, <1>6, <1>7

\* Every Init stays followed.
LEMMA DispatchFollowed ==
  ASSUME NInv, QInv, NEW n \in Pubkey, Dispatch(n), NEW i \in Pubkey, NEW j \in Pubkey, Whole(i, j)
  PROVE  InitFollowed(i, j)'
<1> DEFINE c == <<i, j>>
<1> SUFFICES ASSUME c \in Conn
             PROVE  /\ ListSends(todo'[i], c, "Init") => Dialing(i, j)'
                    /\ \A x \in DOMAIN wire'[c][j] : wire'[c][j][x].type = "Init" =>
                         \/ Dialing(i, j)' \/ ListSends(todo'[i], c, "PeerInit")
                         \/ Followed(wire'[c][j], x)
  BY DEF InitFollowed, ListSends, Followed
<1>1. i # j /\ Joins(c, i, j)
  BY DEF Whole, Joins
<1>2. <<c, j>> \notin cut
  BY <1>1, WholeStreams
<1>3. /\ ListSends(todo[i], c, "Init") => Dialing(i, j)
      /\ \A x \in DOMAIN wire[c][j] : wire[c][j][x].type = "Init" =>
           Dialing(i, j) \/ ListSends(todo[i], c, "PeerInit") \/ Followed(wire[c][j], x)
  BY DEF QInv, PairOK, InitFollowed
<1> PICK a : a = todo[n][1]
  OBVIOUS
<1>4. Dialing(i, j) => Dialing(i, j)' \/ (i = n /\ a.type = "UnsetPendingPeer" /\ ListSends(todo'[i], c, "PeerInit"))
  BY DispatchDialing
<1>5. i = n => \A kind : ListSends(todo[i], c, kind) <=>
                 ListSends(todo'[i], c, kind) \/ (a.type = "MessageSend" /\ a.to = c /\ Is(a.message, kind))
  BY SendsLater
<1>6. i # n => todo'[i] = todo[i]
  BY HeadOfTodo
<1>7. ASSUME ListSends(todo[i], c, "Init") PROVE Dialing(i, j)'
  <2>1. ListInOrder(todo[i])
    BY DEF QInv, ListsInOrder
  <2>2. 1 \in DOMAIN todo[n]
    BY HeadOfTodo
  <2>3. PICK x \in DOMAIN todo[i] : todo[i][x].type = "MessageSend" /\ Is(todo[i][x].message, "Init") /\ todo[i][x].to = c
    BY <1>7 DEF ListSends
  <2>4. todo[i][x].message.type = "Init"
    <3>1. ActionOK(i, todo[i][x])
      BY DEF NInv, PeerOK, ListOK
    <3>2. MessageOK(todo[i][x].message, c, OtherEnd(c, i))
      BY <2>3, <3>1 DEF ActionOK
    <3> QED
      BY <2>3, <3>2, OneKind
  <2>5. i = n => a.type # "UnsetPendingPeer"
    BY <2>1, <2>2, <2>3, <2>4 DEF ListInOrder
  <2> QED
    BY <1>3, <1>4, <1>7, <2>5
<1>8. ListSends(todo'[i], c, "Init") => Dialing(i, j)'
  BY <1>5, <1>6, <1>7
<1>9. ASSUME NEW x \in DOMAIN wire'[c][j], wire'[c][j][x].type = "Init"
      PROVE  Dialing(i, j)' \/ ListSends(todo'[i], c, "PeerInit") \/ Followed(wire'[c][j], x)
  <2> PICK w : w = wire[c][j]
    OBVIOUS
  <2> PICK v : v = wire'[c][j]
    OBVIOUS
  <2>1. w \in Seq(MessageWrapped)
    BY DEF NInv, WireOK
  <2>2. v = w \/ (a.type = "MessageSend" /\ a.to = c /\ v = Append(w, a.message))
    <3> DEFINE b == todo[n][1]
               e == OtherEnd(b.to, n)
    <3>1. \A d \in Conn, k \in Pubkey :
            \/ wire'[d][k] = wire[d][k]
            \/ /\ b.type = "MessageSend" /\ d = b.to /\ k = e /\ <<d, k>> \notin cut
               /\ wire'[d][k] = Append(wire[d][k], b.message)
      BY DispatchSends, Zenon
    <3>2. a = b
      OBVIOUS
    <3> HIDE DEF b, e
    <3> QED
      BY <3>1, <3>2
  <2>3. \A y \in DOMAIN w : y \in DOMAIN v /\ v[y] = w[y]
    BY WireGrows
  <2>4. \A y \in DOMAIN v : y \in DOMAIN w \/ (a.type = "MessageSend" /\ a.to = c /\ v[y] = a.message)
    BY <2>1, <2>2
  <2>5. CASE x \in DOMAIN w
    <3>1. w[x].type = "Init"
      BY <1>9, <2>3, <2>5
    <3>2. CASE Dialing(i, j)
      BY <1>4, <3>2
    <3>3. CASE Followed(w, x)
      BY <2>3, <3>3 DEF Followed
    <3>4. CASE ListSends(todo[i], c, "PeerInit")
      <4>1. CASE ListSends(todo'[i], c, "PeerInit")
        BY <4>1
      <4>2. CASE ~ListSends(todo'[i], c, "PeerInit")
        <5>1. i = n /\ a.type = "MessageSend" /\ a.to = c /\ Is(a.message, "PeerInit")
          BY <1>5, <1>6, <3>4, <4>2
        <5>2. v = Append(w, a.message)
          <6> DEFINE b == todo[n][1]
                     e == OtherEnd(b.to, n)
          <6>1. b.type = "MessageSend" /\ <<b.to, e>> \notin cut => wire'[b.to][e] = Append(wire[b.to][e], b.message)
            BY DispatchSends, Zenon
          <6>2. e = j
            BY <1>1, <5>1, JoinsEnds
          <6>3. a = b
            OBVIOUS
          <6> HIDE DEF b, e
          <6> QED
            BY <1>2, <5>1, <6>1, <6>2, <6>3
        <5>3. x \in 1..Len(w) /\ Len(w) \in Nat
          BY <2>1, <2>5
        <5>4. Len(w) + 1 \in DOMAIN v /\ v[Len(w) + 1] = a.message /\ Len(w) + 1 > x
          BY <2>1, <5>2, <5>3
        <5>5. IsEvent(a.message, "PeerInit")
          BY <5>1 DEF Is
        <5> QED
          BY <5>4, <5>5 DEF Followed
      <4> QED
        BY <4>1, <4>2
    <3> QED
      BY <1>3, <2>5, <3>1, <3>2, <3>3, <3>4
  <2>6. CASE x \notin DOMAIN w
    <3>1. a.type = "MessageSend" /\ a.to = c /\ a.message.type = "Init"
      BY <1>9, <2>4, <2>6
    <3>2. i = n
      <4>1. ActionOK(n, a) /\ 1 \in DOMAIN todo[n]
        BY HeadOfTodo
      <4>2. a.message.from = n /\ MessageOK(a.message, c, OtherEnd(c, n))
        BY <3>1, <4>1 DEF ActionOK
      <4>3. c = <<n, OtherEnd(c, n)>>
        BY <3>1, <4>2 DEF MessageOK, MessageSealed
      <4> QED
        BY <4>3
    <3>3. Is(a.message, "Init")
      BY <3>1 DEF Is
    <3>4. ListSends(todo[i], c, "Init")
      BY <1>5, <3>1, <3>2, <3>3
    <3> QED
      BY <1>7, <3>4
  <2> QED
    BY <2>5, <2>6
<1> QED
  BY <1>8, <1>9

\* What a list brings about is counted from the start.
LEMMA DispatchPair ==
  ASSUME NInv, HInv, QInv, NEW n \in Pubkey, Dispatch(n), NEW i \in Pubkey, NEW j \in Pubkey, Whole(i, j)
  PROVE  /\ WillBeActive(i, j)' <=> WillBeActive(i, j)
         /\ Told(i, j)' <=> Told(i, j)
         /\ Shakes(i, j) => Shakes(i, j)'
<1>1. WillBeActive(i, j)' <=> WillBeActive(i, j)
  BY DispatchActive
<1>2. ASSUME NEW c \in Conn, Joins(c, i, j)
      PROVE  Coming(c, j, i, "PeerConfirm")' <=> Coming(c, j, i, "PeerConfirm")
  <2>1. Joins(c, j, i) /\ <<c, i>> \notin cut
    BY <1>2, JoinsEnds, WholeStreams
  <2> QED
    BY <2>1, DispatchComing
<1>3. Told(i, j)' <=> Told(i, j)
  BY <1>2 DEF Told, Joins
<1>4. ASSUME Shakes(i, j) PROVE Shakes(i, j)'
  <2> DEFINE c == <<i, j>>
  <2>1. c \in Conn /\ i # j
    BY <1>4 DEF Shakes, Whole
  <2>2. Joins(c, i, j)
    BY <2>1 DEF Joins
  <2>3. <<c, j>> \notin cut
    BY <2>2, WholeStreams
  <2>4. Coming(c, i, j, "PeerInit")' <=> Coming(c, i, j, "PeerInit")
    BY <2>2, <2>3, DispatchComing
  <2>5. CASE Coming(c, i, j, "PeerInit")
    BY <2>1, <2>4, <2>5 DEF Shakes
  <2>6. CASE Dialing(i, j)
    <3>1. Dialing(i, j)' \/ ListSends(todo'[i], c, "PeerInit")
      BY <2>6, DispatchDialing
    <3>2. ListSends(todo'[i], c, "PeerInit") <=> ListSends(todo[i], c, "PeerInit")'
      BY DEF ListSends
    <3> QED
      BY <2>1, <3>1, <3>2 DEF Shakes, Coming
  <2> QED
    BY <1>4, <2>5, <2>6 DEF Shakes
<1> QED
  BY <1>1, <1>3, <1>4

\* Carrying out an action.
LEMMA DispatchAgrees ==
  ASSUME NInv, HInv, QInv, NEW n \in Pubkey, Dispatch(n)
  PROVE  QInv'
<1>1. ListsInOrder'
  BY DispatchInOrder
<1>2. UNCHANGED <<prompts, cut>>
  BY DEF Dispatch
<1>3. OnlyAsked'
  BY <1>2 DEF QInv, OnlyAsked, Accepts
<1>4. ASSUME NEW i \in Pubkey, NEW j \in Pubkey, Whole(i, j)'
      PROVE  DialAnswered(i, j)' /\ InitFollowed(i, j)' /\ Agreed(i, j)'
  <2>1. Whole(i, j) /\ Whole(j, i) /\ Agreed(i, j)
    BY <1>2, <1>4 DEF Whole, Severed, Accepts, QInv, PairOK
  <2>2. DialAnswered(i, j)' /\ InitFollowed(i, j)'
    BY <2>1, DispatchAnswered, DispatchFollowed
  <2>3. /\ WillBeActive(i, j)' <=> WillBeActive(i, j)
        /\ Told(i, j)' <=> Told(i, j)
        /\ Shakes(i, j) => Shakes(i, j)'
    BY <2>1, DispatchPair
  <2>4. /\ WillBeActive(j, i)' <=> WillBeActive(j, i)
        /\ Told(j, i)' <=> Told(j, i)
        /\ Shakes(j, i) => Shakes(j, i)'
    BY <2>1, DispatchPair
  <2> QED
    BY <2>1, <2>2, <2>3, <2>4 DEF Agreed
<1> QED
  BY <1>1, <1>3, <1>4 DEF QInv, PairOK

-----------------------------------------------------------------------------
(* The invariant. *)

\* A step that leaves the peers alone, and the streams between those that lose
\* nothing.
LEMMA QuietAgrees ==
  ASSUME QInv, UNCHANGED <<peers, pending_peer_init, todo>>, cut \subseteq cut',
         \A n \in Pubkey : prompts'[n] \subseteq prompts[n],
         \A n, k \in Pubkey : Whole(n, k)' => \A c \in Conn : Joins(c, n, k) => wire'[c][n] = wire[c][n]
  PROVE  QInv'
<1>1. ListsInOrder' /\ OnlyAsked'
  BY DEF QInv, ListsInOrder, OnlyAsked, Accepts
<1>2. ASSUME NEW n \in Pubkey, NEW k \in Pubkey, Whole(n, k)'
      PROVE  /\ Whole(n, k) /\ Whole(k, n)'
             /\ WillBeActive(n, k)' <=> WillBeActive(n, k)
             /\ Dialing(n, k)' <=> Dialing(n, k)
             /\ \A c, kind : Joins(c, n, k) => (Coming(c, k, n, kind)' <=> Coming(c, k, n, kind))
             /\ \A c, d, kind : ListSends(todo[n], c, kind)' <=> ListSends(todo[n], c, kind)
  <2>1. Whole(n, k) /\ Whole(k, n)'
    BY <1>2 DEF Whole, Severed, Accepts
  <2>2. WillBeActive(n, k)' <=> WillBeActive(n, k)
    BY DEF WillBeActive, Writes, Active
  <2>3. Dialing(n, k)' <=> Dialing(n, k)
    BY DEF Dialing, is_pending, Self, ListDials
  <2>4. \A j, c, kind : ListSends(todo[j], c, kind)' <=> ListSends(todo[j], c, kind)
    BY DEF ListSends
  <2>5. ASSUME NEW c, NEW kind, Joins(c, n, k) PROVE Coming(c, k, n, kind)' <=> Coming(c, k, n, kind)
    <3>1. wire'[c][n] = wire[c][n]
      BY <1>2, <2>5 DEF Joins
    <3> QED
      BY <2>4, <3>1 DEF Coming, Travelling, Is, IsEvent
  <2> QED
    BY <2>1, <2>2, <2>3, <2>4, <2>5
<1>3. ASSUME NEW n \in Pubkey, NEW k \in Pubkey, Whole(n, k)'
      PROVE  /\ Told(n, k)' <=> Told(n, k)
             /\ Shakes(n, k)' <=> Shakes(n, k)
  <2>1. Told(n, k)' <=> Told(n, k)
    BY <1>2, <1>3 DEF Told
  <2>2. <<n, k>> \in Conn => Joins(<<n, k>>, k, n)
    BY <1>3 DEF Joins, Whole
  <2>3. <<n, k>> \in Conn => (Coming(<<n, k>>, n, k, "PeerInit")' <=> Coming(<<n, k>>, n, k, "PeerInit"))
    BY <1>2, <1>3, <2>2
  <2>4. Dialing(n, k)' <=> Dialing(n, k)
    BY <1>2, <1>3
  <2> QED
    BY <2>1, <2>3, <2>4 DEF Shakes
<1>4. ASSUME NEW n \in Pubkey, NEW k \in Pubkey, Whole(n, k)'
      PROVE  DialAnswered(n, k)' /\ InitFollowed(n, k)' /\ Agreed(n, k)'
  <2>1. Whole(n, k) /\ Whole(k, n)' /\ PairOK(n, k)
    BY <1>2, <1>4 DEF QInv
  <2>2. Agreed(n, k)'
    <3>1. /\ WillBeActive(n, k)' <=> WillBeActive(n, k)
          /\ WillBeActive(k, n)' <=> WillBeActive(k, n)
          /\ Told(n, k)' <=> Told(n, k)
          /\ Told(k, n)' <=> Told(k, n)
          /\ Shakes(n, k)' <=> Shakes(n, k)
          /\ Shakes(k, n)' <=> Shakes(k, n)
      BY <1>2, <1>3, <1>4, <2>1
    <3> QED
      BY <2>1, <3>1 DEF PairOK, Agreed
  <2> DEFINE c == <<n, k>>
  <2>3. c \in Conn => /\ Joins(c, n, k) /\ Joins(c, k, n) /\ wire'[c][n] = wire[c][n] /\ wire'[c][k] = wire[c][k]
                      /\ Coming(c, n, k, "Init")' <=> Coming(c, n, k, "Init")
                      /\ Coming(c, k, n, "Hello")' <=> Coming(c, k, n, "Hello")
    <3>1. c \in Conn => Joins(c, n, k) /\ Joins(c, k, n)
      BY <2>1 DEF Joins, Whole
    <3> QED
      BY <1>2, <1>4, <2>1, <3>1
  <2>4. Dialing(n, k)' <=> Dialing(n, k)
    BY <1>2, <1>4
  <2>5. /\ ListSends(todo[n], c, "Init")' <=> ListSends(todo[n], c, "Init")
        /\ ListSends(todo[n], c, "PeerInit")' <=> ListSends(todo[n], c, "PeerInit")
    BY DEF ListSends
  <2>6. DialAnswered(n, k)'
    BY <2>1, <2>3, <2>4, <2>5 DEF PairOK, DialAnswered
  <2>7. InitFollowed(n, k)'
    <3> SUFFICES ASSUME c \in Conn
                 PROVE  /\ ListSends(todo[n], c, "Init")' => Dialing(n, k)'
                        /\ \A i \in DOMAIN wire'[c][k] : wire'[c][k][i].type = "Init" =>
                             \/ Dialing(n, k)' \/ ListSends(todo[n], c, "PeerInit")'
                             \/ Followed(wire'[c][k], i)
      BY DEF InitFollowed, Followed
    <3> QED
      BY <2>1, <2>3, <2>4, <2>5 DEF PairOK, InitFollowed
  <2> QED
    BY <2>2, <2>6, <2>7
<1> QED
  BY <1>1, <1>4 DEF QInv, PairOK

\* A cut excuses the two ends of its stream and concerns nobody else.
LEMMA CutAgrees ==
  ASSUME NInv, QInv, NEW c \in Conn, NEW n \in Pubkey, Cut(c, n)
  PROVE  QInv'
<1>1. /\ cut' = cut \cup {<<c, n>>} /\ n \in {c[1], c[2]} /\ Domains
      /\ UNCHANGED <<peers, pending_peer_init, todo, prompts>>
  BY DEF Cut, node, NInv
<1>2. \A d \in Conn, k \in Pubkey : d # c \/ k # n => wire'[d][k] = wire[d][k]
  BY <1>1 DEF Cut, Domains
<1>3. ASSUME NEW i \in Pubkey, NEW j \in Pubkey, Whole(i, j)', NEW d \in Conn, Joins(d, i, j)
      PROVE  wire'[d][i] = wire[d][i]
  <2>1. <<d, i>> \notin cut'
    BY <1>3 DEF Whole, Severed, Joins
  <2> QED
    BY <1>1, <1>2, <2>1
<1> QED
  BY <1>1, <1>3, QuietAgrees

\* Every step, as long as nobody is forgotten.
LEMMA NextQInv == NInv /\ HInv /\ QInv /\ NothingForgotten /\ [Next]_vars => QInv'
<1> SUFFICES ASSUME NInv, HInv, QInv, NothingForgotten, [Next]_vars PROVE QInv'
  OBVIOUS
<1>1. ASSUME NEW c \in Conn, Dial(c) PROVE QInv'
  BY <1>1, DialAgrees
<1>2. ASSUME NEW n \in Pubkey, NEW c \in Conn, Receive(n, c) \/ Cut(c, n) PROVE QInv'
  BY <1>2, ReceiveAgrees, CutAgrees
<1>3. ASSUME NEW n \in Pubkey, NEW k \in Pubkey, UserConfirm(n, k) PROVE QInv'
  BY <1>3, UserConfirmAgrees
<1>4. ASSUME NEW n \in Pubkey, NEW k \in Pubkey, UserDecline(n, k) PROVE QInv'
  <2>1. \A j \in Pubkey : prompts'[j] \subseteq prompts[j]
    BY <1>4 DEF UserDecline, NInv, Domains
  <2> QED
    BY <1>4, <2>1, QuietAgrees DEF UserDecline, node
<1>5. ASSUME NEW n \in Pubkey, Tick(n) \/ Dispatch(n) PROVE QInv'
  BY <1>5, TickAgrees, DispatchAgrees
<1>6. ASSUME UNCHANGED <<peers, pending_peer_init, todo, wire, cut, prompts>> PROVE QInv'
  BY <1>6, QuietAgrees
<1>7. Advance \/ UNCHANGED vars => UNCHANGED <<peers, pending_peer_init, todo, wire, cut, prompts>>
  BY DEF Advance, vars, node
<1> QED
  BY <1>1, <1>2, <1>3, <1>4, <1>5, <1>6, <1>7 DEF Next

\* As long as nobody is forgotten, two peers that accept each other agree
\* whether they are active whenever nothing is under way, however their dials
\* cross, repeat or overtake each other, unless a stream between the two was
\* cut.
THEOREM QuietAgreeRemembered == Spec /\ []NothingForgotten => []QuietPeersAgree
BY QuietAgree, InitQInv, NextQInv, InitHInv, NextHInv, NInvAlways, PTL DEF Spec

\* So they do in the first two minutes, whatever happens.
THEOREM QuietAgreeShort ==
  ASSUME MaxTime < 120
  PROVE  Spec => []QuietPeersAgree
BY NothingForgottenShort, QuietAgreeRemembered, PTL
=============================================================================
