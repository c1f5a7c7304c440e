-------------------------- MODULE PeerNetworkProofs --------------------------
(***************************************************************************)
(* Theorems about PeerNetwork, checked by TLAPS for any finite number of   *)
(* peers and streams and any number of dials.  NInv says what each peer    *)
(* holds and what may be under way between two peers; CInv adds who asked  *)
(* whom and who agreed.                                                    *)
(***************************************************************************)
EXTENDS PeerNetwork, SyncObjectProofs

-----------------------------------------------------------------------------
(* The inductive invariant: what a peer holds and what is on the streams. *)

\* c is a stream between n and k, opened by either.
Joins(c, n, k) ==
  /\ c \in Conn /\ n \in Pubkey /\ k \in Pubkey /\ n # k
  /\ c = <<n, k>> \/ c = <<k, n>>

\* A record that n may have of another peer: its address is a stream to it.
RecordOK(n, info) == info \in PeerInfo /\ Joins(info.connection_info, n, info.peer.pubkey)

\* The events of a network.
BodyOK(body) ==
  body \in [kind : {"Hello", "Ping", "Pong"}] \cup [kind : {"PeerInit", "PeerConfirm"}, name : Name]

\* A message that may travel to n over c.  The peer that dialed sends Init
\* and PeerInit, the other one Hello.
MessageOK(m, c, n) ==
  /\ Joins(c, n, m.from)
  /\ \/ m \in MessageInit /\ c = <<m.from, n>>
     \/ /\ m \in MessageSealed /\ m.to = n /\ BodyOK(m.body)
        /\ m.body.kind = "Hello" => c = <<n, m.from>>
        /\ m.body.kind = "PeerInit" => c = <<m.from, n>>

\* An action that n may have to carry out.
ActionOK(n, a) ==
  /\ a \in Action /\ a.type \notin {"SetSubscription", "UnsetSubscription"}
  /\ a.type = "SetPeer" => RecordOK(n, a.peer_info)
  /\ a.type = "SetPendingPeer" => a.pending_peer.connection_info[1] = n
  /\ a.type = "MessageSend" => a.message.from = n /\ MessageOK(a.message, a.to, OtherEnd(a.to, n))

SendsPeerInit(a) == a.type = "MessageSend" /\ IsEvent(a.message, "PeerInit")

\* A list of n that sends a PeerInit sends one, which answers a dial, and
\* takes the stream off the pending list first.
DialList(n, l) ==
  \A i \in DOMAIN l :
    /\ l[i].type = "SetPendingPeer" =>
         inits[l[i].pending_peer.connection_info] < dials[l[i].pending_peer.connection_info]
    /\ SendsPeerInit(l[i]) =>
         /\ inits[l[i].to] < dials[l[i].to]
         /\ \A j \in DOMAIN l : j # i => ~SendsPeerInit(l[j])
         /\ \A j \in DOMAIN l : l[j].type # "SetPendingPeer"
         /\ (\E p \in pending_peer_init[n] : p.connection_info = l[i].to) =>
              \E j \in DOMAIN l : j < i /\ l[j] = UnsetPendingPeer(l[i].to)

ListOK(n, l) == l \in Seq(Action) /\ (\A i \in DOMAIN l : ActionOK(n, l[i])) /\ DialList(n, l)

BookOK(n) == \A k \in DOMAIN peers[n] : RecordOK(n, peers[n][k]) /\ peers[n][k].peer.pubkey = k

\* n dialed the streams it has pending, and has not sent their PeerInits.
PendingOK(n) ==
  /\ pending_peer_init[n] \subseteq PendingPeer
  /\ \A p \in pending_peer_init[n] :
       /\ p.connection_info[1] = n
       /\ inits[p.connection_info] < dials[p.connection_info]
       /\ \A q \in pending_peer_init[n] : q.connection_info = p.connection_info => q = p

PeerOK(n) == BookOK(n) /\ PendingOK(n) /\ ListOK(n, todo[n])

WireOK(c, n) ==
  /\ wire[c][n] \in Seq(MessageWrapped)
  /\ \A i \in DOMAIN wire[c][n] : MessageOK(wire[c][n][i], c, n)

\* Every peer and every stream has its part of each variable.
Domains ==
  /\ DOMAIN peers = Pubkey /\ DOMAIN pending_peer_init = Pubkey /\ DOMAIN todo = Pubkey
  /\ DOMAIN prompts = Pubkey /\ DOMAIN accepted = Pubkey /\ DOMAIN failed = Pubkey
  /\ DOMAIN wire = Conn /\ \A c \in Conn : DOMAIN wire[c] = Pubkey
  /\ dials \in [Conn -> Nat] /\ inits \in [Conn -> Nat]
  /\ now \in Nat /\ cut \subseteq Conn \X Pubkey

UsersOK == \A n \in Pubkey : prompts[n] \subseteq Pubkey \ {n} /\ accepted[n] \subseteq Pubkey \ {n}

CountsOK == \A c \in Conn : dials[c] <= MaxDials /\ inits[c] <= dials[c]

NInv ==
  /\ Domains
  /\ \A n \in Pubkey : PeerOK(n)
  /\ \A c \in Conn, n \in Pubkey : WireOK(c, n)
  /\ UsersOK
  /\ CountsOK

-----------------------------------------------------------------------------
(* Streams, messages and records. *)

\* The other end of a stream between n and k is k.
LEMMA JoinsEnds ==
  ASSUME NEW c, NEW n, NEW k, Joins(c, n, k)
  PROVE  OtherEnd(c, n) = k /\ OtherEnd(c, k) = n /\ Joins(c, k, n)
BY DEF Joins, OtherEnd

\* A stream of the network is between its two ends.
LEMMA StreamJoins ==
  ASSUME NEW c \in Conn
  PROVE  /\ Joins(c, c[1], c[2]) /\ c = <<c[1], c[2]>> /\ OtherEnd(c, c[1]) = c[2]
BY StreamsAssumption DEF Joins, OtherEnd

\* n may send what MessageOK lets travel to k over a stream between the two.
Sends(n, c, k, body) == MessageSend(c, create_sealed_message(Self(n), [pubkey |-> k], body))

\* The fields of such a message, and that it may be sent.
LEMMA SendOK ==
  ASSUME NEW n, NEW c, NEW k, NEW body, Joins(c, n, k), BodyOK(body),
         body.kind = "Hello" => c = <<k, n>>, body.kind = "PeerInit" => c = <<n, k>>
  PROVE  LET a == Sends(n, c, k, body)
         IN /\ ActionOK(n, a) /\ a.type = "MessageSend" /\ a.to = c
            /\ a.message.type = "Sealed" /\ a.message.from = n /\ a.message.to = k /\ a.message.body = body
<1> DEFINE a == Sends(n, c, k, body)
           m == [type |-> "Sealed", from |-> n, to |-> k, body |-> body]
<1>1. a = [type |-> "MessageSend", to |-> c, message |-> m]
  BY DEF Sends, MessageSend, create_sealed_message, Self
<1>2. OtherEnd(c, n) = k /\ Joins(c, k, n)
  BY JoinsEnds
<1>3. body \in Event
  BY DEF BodyOK, Event
<1>4. m \in MessageSealed /\ c \in Conn
  BY <1>3 DEF MessageSealed, Joins
<1>5. MessageOK(m, c, k)
  BY <1>2, <1>4 DEF MessageOK
<1>6. a \in Action
  BY <1>1, <1>4 DEF Action, MessageWrapped
<1> QED
  BY <1>1, <1>2, <1>5, <1>6 DEF ActionOK

\* The bodies that handlers send.
LEMMA BodiesOK ==
  /\ BodyOK(Hello) /\ BodyOK(Ping) /\ BodyOK(Pong)
  /\ \A n \in Pubkey : BodyOK(PeerInit(NameOf[n])) /\ BodyOK(PeerConfirm(NameOf[n]))
BY PeersAssumption DEF BodyOK, Hello, Ping, Pong, PeerInit, PeerConfirm

\* The records that handlers write.
LEMMA RecordsOK ==
  ASSUME NEW n, Domains
  PROVE  /\ \A k, c : Joins(c, n, k) =>
              /\ RecordOK(n, new_info(tmp(k), c, now)) /\ ~new_info(tmp(k), c, now).active
              /\ new_info(tmp(k), c, now).peer.pubkey = k /\ new_info(tmp(k), c, now).connection_info = c
         /\ \A info : RecordOK(n, info) =>
              /\ RecordOK(n, seen(info, now)) /\ seen(info, now).active = info.active
              /\ seen(info, now).peer = info.peer /\ seen(info, now).connection_info = info.connection_info
         /\ \A info, name : RecordOK(n, info) /\ name \in Name =>
              /\ RecordOK(n, confirmed(info, name, now)) /\ confirmed(info, name, now).active
              /\ confirmed(info, name, now).peer.pubkey = info.peer.pubkey
              /\ confirmed(info, name, now).connection_info = info.connection_info
<1>1. now \in Nat
  BY DEF Domains
<1>2. ASSUME NEW k, NEW c, Joins(c, n, k)
      PROVE  LET info == new_info(tmp(k), c, now)
             IN RecordOK(n, info) /\ ~info.active /\ info.peer.pubkey = k /\ info.connection_info = c
  <2>1. c \in Conn /\ k \in Pubkey
    BY <1>2 DEF Joins
  <2> QED
    BY <1>1, <1>2, <2>1 DEF RecordOK, new_info, tmp, PeerInfo, Peer, Time
<1>3. ASSUME NEW info, RecordOK(n, info)
      PROVE  /\ RecordOK(n, seen(info, now)) /\ seen(info, now).active = info.active
             /\ seen(info, now).peer = info.peer /\ seen(info, now).connection_info = info.connection_info
  <2>1. info \in PeerInfo /\ Joins(info.connection_info, n, info.peer.pubkey)
    BY <1>3 DEF RecordOK
  <2>2. /\ seen(info, now) \in PeerInfo /\ seen(info, now).active = info.active
        /\ seen(info, now).peer = info.peer /\ seen(info, now).connection_info = info.connection_info
    BY <1>1, <2>1 DEF seen, PeerInfo, Time
  <2> QED
    BY <2>1, <2>2 DEF RecordOK
<1>4. ASSUME NEW info, NEW name, RecordOK(n, info), name \in Name
      PROVE  /\ RecordOK(n, confirmed(info, name, now)) /\ confirmed(info, name, now).active
             /\ confirmed(info, name, now).peer.pubkey = info.peer.pubkey
             /\ confirmed(info, name, now).connection_info = info.connection_info
  <2>1. info \in PeerInfo /\ Joins(info.connection_info, n, info.peer.pubkey)
    BY <1>4 DEF RecordOK
  <2>2. /\ confirmed(info, name, now) \in PeerInfo /\ confirmed(info, name, now).active
        /\ confirmed(info, name, now).peer.pubkey = info.peer.pubkey
        /\ confirmed(info, name, now).connection_info = info.connection_info
    BY <1>1, <1>4, <2>1 DEF confirmed, PeerInfo, Peer, Time
  <2> QED
    BY <2>1, <2>2 DEF RecordOK
<1> QED
  BY <1>2, <1>3, <1>4

-----------------------------------------------------------------------------
(* What a host has to do after a message. *)

Known(n, k) == k \in DOMAIN peers[n]

\* Handshake: a new record and a Hello; a new record and, if the dial is
\* pending, its end and the PeerInit.
GreetList(n, k, c) == <<SetPeer(new_info(tmp(k), c, now)), Sends(n, c, k, Hello)>>

InitList(n, k, c) ==
  <<SetPeer(new_info(tmp(k), c, now)), UnsetPendingPeer(c), Sends(n, c, k, PeerInit(NameOf[n]))>>

\* The record of k made active, and k told so.
ConfirmList(n, k, name) ==
  <<SetPeer(confirmed(peers[n][k], name, now)),
    Sends(n, peers[n][k].connection_info, k, PeerConfirm(NameOf[n]))>>

\* The lists a message m that came over c may give n to do.
Answer(n, m, c, l) ==
  LET k == m.from
  IN \/ m.type = "Sealed" /\ ~IsEvent(m, "Hello") /\ ~Known(n, k) /\ l = <<>>
     \/ m.type = "Init" /\ l = GreetList(n, k, c)
     \/ IsEvent(m, "Hello") /\ ~is_pending(Self(n), c) /\ l = <<>>
     \/ IsEvent(m, "Hello") /\ is_pending(Self(n), c) /\ l = InitList(n, k, c)
     \/ IsEvent(m, "PeerInit") /\ ~Accepts(n, k) /\ (l = <<>> \/ l = <<Confirm(m.body)>>)
     \/ IsEvent(m, "PeerInit") /\ Accepts(n, k) /\ Known(n, k) /\ l = ConfirmList(n, k, m.body.name)
     \/ IsEvent(m, "PeerConfirm") /\ Known(n, k) /\ l = <<SetPeer(confirmed(peers[n][k], m.body.name, now))>>
     \/ IsEvent(m, "Ping") /\ Known(n, k)
        /\ l = <<SetPeer(seen(peers[n][k], now)), Sends(n, peers[n][k].connection_info, k, Pong)>>
     \/ IsEvent(m, "Pong") /\ Known(n, k) /\ l = <<SetPeer(seen(peers[n][k], now))>>

\* A record of n is of the key it is filed under.
LEMMA BookKeys ==
  ASSUME NEW n, BookOK(n), NEW k \in DOMAIN peers[n]
  PROVE  /\ RecordOK(n, peers[n][k]) /\ peers[n][k].peer.pubkey = k
         /\ Joins(peers[n][k].connection_info, n, k)
         /\ \A body : MessageSend(peers[n][k].connection_info,
                                  create_sealed_message(Self(n), peers[n][k].peer, body))
                        = Sends(n, peers[n][k].connection_info, k, body)
BY DEF BookOK, RecordOK, Sends, create_sealed_message

\* peer_confirm: nothing for a key that is not in the book.
LEMMA PeerConfirmList ==
  ASSUME NEW n, BookOK(n), NEW k, NEW name
  PROVE  /\ \A l \in peer_confirm(Self(n), k, name, now).lists :
              (~Known(n, k) /\ l = <<>>) \/ (Known(n, k) /\ l = ConfirmList(n, k, name))
         /\ peer_confirm(Self(n), k, name, now).result =
              IF Known(n, k) THEN "Ok" ELSE "PeerNotFound"
<1>1. CASE ~Known(n, k)
  BY <1>1 DEF peer_confirm, known, Known, Self, Err
<1>2. CASE Known(n, k)
  <2> DEFINE info == confirmed(peers[n][k], name, now)
             send == MessageSend(peers[n][k].connection_info,
                       create_sealed_message(Self(n), peers[n][k].peer, PeerConfirm(NameOf[n])))
  <2>1. peer_confirm(Self(n), k, name, now) = Ok({<<SetPeer(info), send>>})
    BY <1>2 DEF peer_confirm, known, Known, Self
  <2>2. <<SetPeer(info), send>> = ConfirmList(n, k, name)
    BY <1>2, BookKeys DEF ConfirmList, Known
  <2> QED
    BY <1>2, <2>1, <2>2 DEF Ok
<1> QED
  BY <1>1, <1>2

\* The host's choice of handler, whatever arrives.
LEMMA HandlerAnswers ==
  ASSUME NEW n, BookOK(n), NEW m, NEW c, MessageOK(m, c, n), NEW l \in Handler(Self(n), m, c).lists
  PROVE  Answer(n, m, c, l)
<1> DEFINE k == m.from
<1>1. CASE m \in MessageInit
  <2>1. m.type = "Init"
    BY <1>1 DEF MessageInit
  <2>2. Handler(Self(n), m, c).lists = {GreetList(n, k, c)}
    BY <2>1 DEF Handler, process_init_message, Ok, GreetList, Sends, tmp, create_sealed_message
  <2> QED
    BY <2>1, <2>2 DEF Answer
<1>2. CASE m \notin MessageInit
  <2>1. m \in MessageSealed /\ m.type = "Sealed" /\ m.to = n /\ BodyOK(m.body)
    BY <1>2 DEF MessageOK, MessageSealed
  <2>2. CASE ~Known(n, k) /\ m.body.kind \notin {"Hello", "PeerInit"}
    <3>1. unwrap_incoming_message(Self(n), m) = "PeerNotFound"
      BY <2>1, <2>2 DEF unwrap_incoming_message, Self, known, Known
    <3>2. Handler(Self(n), m, c).lists = {<<>>}
      BY <2>1, <3>1 DEF Handler, Err
    <3> QED
      BY <2>1, <2>2, <3>2 DEF Answer, IsEvent
  <2>3. CASE Known(n, k) \/ m.body.kind \in {"Hello", "PeerInit"}
    <3>1. unwrap_incoming_message(Self(n), m) = "Ok"
      BY <2>1, <2>3 DEF unwrap_incoming_message, Self, known, Known
    <3>2. CASE m.body.kind = "Hello"
      <4>1. Handler(Self(n), m, c) = process_event_hello(Self(n), m.body, k, c, now)
        BY <2>1, <3>1, <3>2 DEF Handler
      <4>2. \/ ~is_pending(Self(n), c) /\ l = <<>>
            \/ is_pending(Self(n), c) /\ l = InitList(n, k, c)
        BY <3>2, <4>1 DEF process_event_hello, Ok, InitList, Sends, Self, tmp, create_sealed_message
      <4> QED
        BY <2>1, <3>2, <4>2 DEF Answer, IsEvent
    <3>3. CASE m.body.kind = "PeerInit"
      <4>1. Handler(Self(n), m, c) = process_event_peer_init(Self(n), m.body, k, now)
        BY <2>1, <3>1, <3>3 DEF Handler
      <4>2. CASE Accepts(n, k)
        <5>1. process_event_peer_init(Self(n), m.body, k, now) = peer_confirm(Self(n), k, m.body.name, now)
          BY <3>3, <4>2 DEF process_event_peer_init, Accepts, Self
        <5> QED
          BY <2>1, <3>3, <4>1, <4>2, <5>1, PeerConfirmList DEF Answer, IsEvent
      <4>3. CASE ~Accepts(n, k)
        <5>1. l = <<>> \/ l = <<Confirm(m.body)>>
          BY <3>3, <4>1, <4>3 DEF process_event_peer_init, Accepts, Self, Ok
        <5> QED
          BY <2>1, <3>3, <4>3, <5>1 DEF Answer, IsEvent
      <4> QED
        BY <4>2, <4>3
    <3>4. CASE m.body.kind = "PeerConfirm"
      <4>1. Handler(Self(n), m, c) = process_event_peer_confirm(Self(n), m.body, k, now)
        BY <2>1, <3>1, <3>4 DEF Handler
      <4>2. l = <<SetPeer(confirmed(peers[n][k], m.body.name, now))>> /\ Known(n, k)
        BY <2>3, <3>4, <4>1 DEF process_event_peer_confirm, FromPeer, Ok, known, Known, Self
      <4> QED
        BY <2>1, <3>4, <4>2 DEF Answer, IsEvent
    <3>5. CASE m.body.kind = "Ping"
      <4> DEFINE send == MessageSend(peers[n][k].connection_info,
                           create_sealed_message(Self(n), peers[n][k].peer, Pong))
      <4>1. Handler(Self(n), m, c) = process_event_ping(Self(n), m.body, k, now)
        BY <2>1, <3>1, <3>5 DEF Handler
      <4>2. l = <<SetPeer(seen(peers[n][k], now)), send>> /\ Known(n, k)
        BY <2>3, <3>5, <4>1 DEF process_event_ping, FromPeer, Ok, known, Known, Self
      <4>3. send = Sends(n, peers[n][k].connection_info, k, Pong)
        BY <4>2, BookKeys DEF Known
      <4> QED
        BY <2>1, <3>5, <4>2, <4>3 DEF Answer, IsEvent
    <3>6. CASE m.body.kind = "Pong"
      <4>1. Handler(Self(n), m, c) = process_event_pong(Self(n), m.body, k, now)
        BY <2>1, <3>1, <3>6 DEF Handler
      <4>2. l = <<SetPeer(seen(peers[n][k], now))>> /\ Known(n, k)
        BY <2>3, <3>6, <4>1 DEF process_event_pong, FromPeer, Ok, known, Known, Self
      <4> QED
        BY <2>1, <3>6, <4>2 DEF Answer, IsEvent
    <3> QED
      BY <2>1, <3>2, <3>3, <3>4, <3>5, <3>6 DEF BodyOK
  <2> QED
    BY <2>2, <2>3
<1> QED
  BY <1>1, <1>2

-----------------------------------------------------------------------------
(* Those lists are in order. *)

\* The empty list is.
LEMMA EmptyListOK == \A n : ListOK(n, <<>>)
BY DEF ListOK, DialList

\* So are a record alone, and a record and a message that is no PeerInit.
LEMMA RecordListOK ==
  ASSUME NEW n, NEW info, RecordOK(n, info), NEW a, ActionOK(n, a),
         a.type = "MessageSend", a.message.type = "Sealed", a.message.body.kind # "PeerInit"
  PROVE  ListOK(n, <<SetPeer(info)>>) /\ ListOK(n, <<SetPeer(info), a>>)
<1> DEFINE w == SetPeer(info)
<1>1. w.type = "SetPeer" /\ w.peer_info = info /\ w \in Action
  BY DEF SetPeer, RecordOK, Action, SyncAction
<1> HIDE DEF w
<1>2. ActionOK(n, w) /\ ~SendsPeerInit(w) /\ ~SendsPeerInit(a) /\ a \in Action
  BY <1>1 DEF ActionOK, SendsPeerInit, IsEvent
<1>3. ListOK(n, <<w>>)
  BY <1>1, <1>2 DEF ListOK, DialList
<1>4. ListOK(n, <<w, a>>)
  BY <1>1, <1>2 DEF ListOK, DialList
<1> QED
  BY <1>3, <1>4 DEF w

\* The list of a Hello is: the dial was pending, so it has no PeerInit yet.
LEMMA InitListOK ==
  ASSUME NInv, NEW n \in Pubkey, NEW k, NEW c, c = <<n, k>>, Joins(c, n, k), is_pending(Self(n), c)
  PROVE  ListOK(n, InitList(n, k, c))
<1> DEFINE info == new_info(tmp(k), c, now)
           a1 == SetPeer(info)
           a2 == UnsetPendingPeer(c)
           a3 == Sends(n, c, k, PeerInit(NameOf[n]))
<1>1. RecordOK(n, info)
  BY RecordsOK DEF NInv
<1>2. a1.type = "SetPeer" /\ a1.peer_info = info /\ a1 \in Action
  BY <1>1 DEF SetPeer, RecordOK, Action, SyncAction
<1>3. a2.type = "UnsetPendingPeer" /\ a2 \in Action
  BY DEF UnsetPendingPeer, Action, SyncAction, Joins
<1>4. /\ ActionOK(n, a3) /\ a3.type = "MessageSend" /\ a3.to = c /\ a3 \in Action
  BY SendOK, BodiesOK, EventKinds DEF ActionOK
<1>5. inits[c] < dials[c]
  BY DEF is_pending, Self, NInv, PeerOK, PendingOK
<1>6. InitList(n, k, c) = <<a1, a2, a3>> /\ a2 = UnsetPendingPeer(a3.to)
  BY <1>4 DEF InitList
<1> HIDE DEF info, a1, a2, a3
<1>7. ActionOK(n, a1) /\ ~SendsPeerInit(a1) /\ ActionOK(n, a2) /\ ~SendsPeerInit(a2)
  BY <1>1, <1>2, <1>3 DEF ActionOK, SendsPeerInit
<1> DEFINE l == <<a1, a2, a3>>
<1>8. l \in Seq(Action) /\ DOMAIN l = 1..3 /\ l[1] = a1 /\ l[2] = a2 /\ l[3] = a3
  BY <1>2, <1>3, <1>4
<1> HIDE DEF l
<1>9. \A i \in DOMAIN l : ActionOK(n, l[i])
  BY <1>4, <1>7, <1>8
<1>10. DialList(n, l)
  BY <1>2, <1>3, <1>4, <1>5, <1>6, <1>7, <1>8 DEF DialList
<1> QED
  BY <1>6, <1>8, <1>9, <1>10 DEF ListOK, l

\* The confirmation of a peer, by rule or by the user, is.
LEMMA ConfirmListOK ==
  ASSUME NInv, NEW n \in Pubkey, NEW k, Known(n, k), NEW name \in Name
  PROVE  ListOK(n, ConfirmList(n, k, name))
<1>1. RecordOK(n, peers[n][k]) /\ Joins(peers[n][k].connection_info, n, k)
  BY BookKeys DEF NInv, PeerOK, Known
<1>2. RecordOK(n, confirmed(peers[n][k], name, now))
  BY <1>1, RecordsOK DEF NInv
<1> DEFINE a == Sends(n, peers[n][k].connection_info, k, PeerConfirm(NameOf[n]))
<1>3. ActionOK(n, a) /\ a.type = "MessageSend" /\ a.message.type = "Sealed" /\ a.message.body.kind # "PeerInit"
  BY <1>1, SendOK, BodiesOK, EventKinds
<1> QED
  BY <1>2, <1>3, RecordListOK DEF ConfirmList

\* Whatever arrives, the host has a list in order to carry out.
LEMMA AnswersOK ==
  ASSUME NInv, NEW n \in Pubkey, NEW m, NEW c, MessageOK(m, c, n), NEW l, Answer(n, m, c, l)
  PROVE  ListOK(n, l)
<1> DEFINE k == m.from
<1>1. Joins(c, n, k) /\ BookOK(n) /\ Domains
  BY DEF MessageOK, NInv, PeerOK
<1>2. CASE l = <<>>
  BY <1>2, EmptyListOK
<1>3. CASE m.type = "Init" /\ l = GreetList(n, k, c)
  <2>1. c = <<k, n>>
    BY <1>3 DEF MessageOK, MessageSealed
  <2> DEFINE a == Sends(n, c, k, Hello)
  <2>2. ActionOK(n, a) /\ a.type = "MessageSend" /\ a.message.type = "Sealed" /\ a.message.body.kind # "PeerInit"
    BY <1>1, <2>1, SendOK, BodiesOK, EventKinds
  <2> QED
    BY <1>1, <1>3, <2>2, RecordsOK, RecordListOK DEF GreetList
<1>4. CASE IsEvent(m, "Hello") /\ is_pending(Self(n), c) /\ l = InitList(n, k, c)
  <2>1. c = <<n, k>>
    BY <1>4 DEF MessageOK, IsEvent, MessageInit
  <2> QED
    BY <1>1, <1>4, <2>1, InitListOK
<1>5. CASE IsEvent(m, "PeerInit") /\ l = <<Confirm(m.body)>>
  <2> DEFINE a == Confirm(m.body)
  <2>1. m.body \in Event
    BY <1>5 DEF IsEvent, MessageOK, MessageInit, BodyOK, Event
  <2>2. a \in Action /\ a.type = "Confirm"
    BY <2>1 DEF Confirm, Action
  <2> HIDE DEF a
  <2>3. ListOK(n, <<a>>)
    BY <2>2 DEF ListOK, ActionOK, DialList, SendsPeerInit
  <2> QED
    BY <1>5, <2>3 DEF a
<1>6. CASE IsEvent(m, "PeerInit") /\ Accepts(n, k) /\ Known(n, k) /\ l = ConfirmList(n, k, m.body.name)
  <2>1. m.body.name \in Name
    BY <1>6 DEF IsEvent, MessageOK, MessageInit, BodyOK
  <2> QED
    BY <1>6, <2>1, ConfirmListOK
<1>7. ASSUME NEW info, RecordOK(n, info), NEW ci, Joins(ci, n, k)
      PROVE  ListOK(n, <<SetPeer(info)>>) /\ ListOK(n, <<SetPeer(info), Sends(n, ci, k, Pong)>>)
  <2> DEFINE a == Sends(n, ci, k, Pong)
  <2>1. ActionOK(n, a) /\ a.type = "MessageSend" /\ a.message.type = "Sealed" /\ a.message.body.kind # "PeerInit"
    BY <1>7, SendOK, BodiesOK, EventKinds
  <2> QED
    BY <1>7, <2>1, RecordListOK
<1>8. CASE IsEvent(m, "PeerConfirm") /\ Known(n, k) /\ l = <<SetPeer(confirmed(peers[n][k], m.body.name, now))>>
  <2>1. m.body.name \in Name
    BY <1>8 DEF IsEvent, MessageOK, MessageInit, BodyOK
  <2> QED
    BY <1>1, <1>7, <1>8, <2>1, BookKeys, RecordsOK DEF Known
<1>9. CASE /\ IsEvent(m, "Ping") /\ Known(n, k)
           /\ l = <<SetPeer(seen(peers[n][k], now)), Sends(n, peers[n][k].connection_info, k, Pong)>>
  BY <1>1, <1>7, <1>9, BookKeys, RecordsOK DEF Known
<1>10. CASE IsEvent(m, "Pong") /\ Known(n, k) /\ l = <<SetPeer(seen(peers[n][k], now))>>
  BY <1>1, <1>7, <1>10, BookKeys, RecordsOK DEF Known
<1> QED
  BY <1>2, <1>3, <1>4, <1>5, <1>6, <1>8, <1>9, <1>10 DEF Answer

\* A peer knows finitely many others and has finitely many dials pending.
LEMMA TickFinite ==
  ASSUME NEW n \in Pubkey, PeerOK(n)
  PROVE  IsFiniteSet(due(Self(n), now)) /\ IsFiniteSet(stale(Self(n), now))
<1>1. IsFiniteSet(due(Self(n), now))
  <2>1. due(Self(n), now) \subseteq Pubkey
    BY DEF due, Self, PeerOK, BookOK, RecordOK, Joins
  <2> QED
    BY <2>1, PubkeyAssumption, FS_Subset
<1>2. IsFiniteSet(pending_peer_init[n])
  <2> DEFINE f == [p \in pending_peer_init[n] |-> p.connection_info]
  <2>1. f \in Injection(pending_peer_init[n], Conn)
    BY DEF PeerOK, PendingOK, PendingPeer, Injection, IsInjective
  <2> QED
    BY <2>1, ConnAssumption, FS_Injection
<1>3. stale(Self(n), now) \subseteq pending_peer_init[n]
  BY DEF stale, Self
<1> QED
  BY <1>1, <1>2, <1>3, FS_Subset

\* tick drops a peer of the book or pings it.
LEMMA TickPeer ==
  ASSUME NEW n, BookOK(n), NEW k \in due(Self(n), now)
  PROVE  /\ Known(n, k) /\ now - peers[n][k].last_ping >= 60
         /\ \/ tick_peer(Self(n), k, now) = UnsetPeer(k) /\ now - peers[n][k].last_ping > 180
            \/ tick_peer(Self(n), k, now) = Sends(n, peers[n][k].connection_info, k, Ping)
<1>1. Known(n, k) /\ now - peers[n][k].last_ping >= 60
  BY DEF due, Self, Known
<1>2. CASE now - peers[n][k].last_ping > 180 /\ ~peers[n][k].active
  BY <1>1, <1>2 DEF tick_peer, Self
<1>3. CASE ~(now - peers[n][k].last_ping > 180 /\ ~peers[n][k].active)
  <2>1. tick_peer(Self(n), k, now) = MessageSend(peers[n][k].connection_info,
                                       create_sealed_message(Self(n), peers[n][k].peer, Ping))
    BY <1>3 DEF tick_peer, Self
  <2> QED
    BY <1>1, <2>1, BookKeys DEF Known
<1> QED
  BY <1>1, <1>2, <1>3

\* The list of tick is in order.
LEMMA TickListOK ==
  ASSUME NInv, NEW n \in Pubkey, NEW l \in tick(Self(n), now).lists
  PROVE  ListOK(n, l)
<1> DEFINE Fits(a) == ActionOK(n, a) /\ a.type # "SetPendingPeer" /\ ~SendsPeerInit(a)
           All == {tick_peer(Self(n), k, now) : k \in due(Self(n), now)}
                    \cup {UnsetPendingPeer(p.connection_info) : p \in stale(Self(n), now)}
<1>1. PeerOK(n)
  BY DEF NInv
<1>2. /\ l \in Seq(All)
      /\ \A i \in DOMAIN l :
           \/ \E k \in due(Self(n), now) : l[i] = tick_peer(Self(n), k, now)
           \/ \E p \in stale(Self(n), now) : l[i] = UnsetPendingPeer(p.connection_info)
  <2>1. IsFiniteSet(due(Self(n), now)) /\ IsFiniteSet(stale(Self(n), now))
    BY <1>1, TickFinite
  <2> QED
    BY <2>1, TickActions
<1>3. ASSUME NEW k \in due(Self(n), now) PROVE Fits(tick_peer(Self(n), k, now))
  <2>1. BookOK(n)
    BY <1>1 DEF PeerOK
  <2>2. Known(n, k)
    BY <2>1, TickPeer
  <2>3. Joins(peers[n][k].connection_info, n, k)
    BY <2>1, <2>2, BookKeys DEF Known
  <2>4. CASE tick_peer(Self(n), k, now) = UnsetPeer(k)
    <3>1. k \in Pubkey
      BY <2>3 DEF Joins
    <3> QED
      BY <2>4, <3>1 DEF UnsetPeer, ActionOK, Action, SyncAction, SendsPeerInit
  <2>5. CASE tick_peer(Self(n), k, now) = Sends(n, peers[n][k].connection_info, k, Ping)
    <3> DEFINE a == Sends(n, peers[n][k].connection_info, k, Ping)
    <3>1. ActionOK(n, a) /\ a.type = "MessageSend" /\ a.message.body = Ping
      BY <2>3, SendOK, BodiesOK, EventKinds
    <3> QED
      BY <2>5, <3>1, EventKinds DEF SendsPeerInit, IsEvent
  <2> QED
    BY <2>1, <2>4, <2>5, TickPeer
<1>4. ASSUME NEW p \in stale(Self(n), now) PROVE Fits(UnsetPendingPeer(p.connection_info))
  <2>1. p.connection_info \in Conn
    BY <1>1 DEF stale, Self, PeerOK, PendingOK, PendingPeer
  <2> QED
    BY <2>1 DEF UnsetPendingPeer, ActionOK, Action, SyncAction, SendsPeerInit
<1> HIDE DEF Fits, All
<1>5. \A i \in DOMAIN l : Fits(l[i])
  BY <1>2, <1>3, <1>4
<1>6. l \in Seq(Action)
  BY <1>2, <1>5 DEF Fits, ActionOK
<1> QED
  BY <1>5, <1>6 DEF ListOK, DialList, Fits

-----------------------------------------------------------------------------
(* Steps. *)

\* What a peer holds stays in order while it and its dials stay as they are.
LEMMA PeerKeeps ==
  ASSUME NEW n, PeerOK(n),
         peers'[n] = peers[n], pending_peer_init'[n] = pending_peer_init[n], todo'[n] = todo[n],
         \A c \in Conn : c[1] = n => dials'[c] = dials[c] /\ inits'[c] = inits[c]
  PROVE  PeerOK(n)'
<1>1. BookOK(n)'
  BY DEF PeerOK, BookOK, RecordOK
<1>2. PendingOK(n)'
  BY DEF PeerOK, PendingOK, PendingPeer
<1>3. ListOK(n, todo[n])
  BY DEF PeerOK
<1>4. \A i \in DOMAIN todo[n] :
        /\ todo[n][i].type = "SetPendingPeer" =>
             /\ todo[n][i].pending_peer.connection_info \in Conn
             /\ todo[n][i].pending_peer.connection_info[1] = n
        /\ SendsPeerInit(todo[n][i]) => todo[n][i].to \in Conn /\ todo[n][i].to[1] = n
  BY <1>3 DEF ListOK, ActionOK, Action, SyncAction, PendingPeer, SendsPeerInit, IsEvent, MessageOK,
              MessageInit, Joins
<1>5. DialList(n, todo[n])'
  BY <1>3, <1>4 DEF ListOK, DialList, SendsPeerInit, IsEvent
<1>6. ListOK(n, todo[n])'
  BY <1>3, <1>5 DEF ListOK, ActionOK, MessageOK, OtherEnd
<1> QED
  BY <1>1, <1>2, <1>6 DEF PeerOK

\* A step that leaves the peers and the streams alone.
LEMMA QuietStep ==
  ASSUME NInv, UNCHANGED <<peers, pending_peer_init, todo, wire, dials, inits>>,
         (Domains /\ UsersOK)'
  PROVE  NInv'
<1>1. \A n \in Pubkey : PeerOK(n)'
  BY PeerKeeps DEF NInv
<1>2. \A c \in Conn, n \in Pubkey : WireOK(c, n)'
  BY DEF NInv, WireOK
<1> QED
  BY <1>1, <1>2 DEF NInv, CountsOK

\* A host takes a list that is in order.
LEMMA TakeStep ==
  ASSUME NInv, NEW n \in Pubkey, NEW l, ListOK(n, l), todo' = [todo EXCEPT ![n] = l],
         UNCHANGED <<peers, pending_peer_init, dials, inits>>
  PROVE  \A k \in Pubkey : PeerOK(k)'
<1>1. ASSUME NEW k \in Pubkey, k # n PROVE PeerOK(k)'
  BY <1>1, PeerKeeps DEF NInv, Domains
<1>2. PeerOK(n)'
  <2>1. todo'[n] = l
    BY DEF NInv, Domains
  <2>2. BookOK(n)' /\ PendingOK(n)'
    BY DEF NInv, PeerOK, BookOK, PendingOK
  <2>3. ListOK(n, todo[n])'
    BY <2>1 DEF ListOK, ActionOK, DialList
  <2> QED
    BY <2>2, <2>3 DEF PeerOK
<1> QED
  BY <1>1, <1>2

\* Dialing: one dial more, and a list that notes it and sends an Init.
LEMMA DialStep ==
  ASSUME NInv, NEW c \in Conn, Dial(c), NEW n, n = c[1]
  PROVE  NInv'
<1> DEFINE p == [connection_info |-> c, created |-> now]
           m == [type |-> "Init", from |-> n]
           a1 == SetPendingPeer(p)
           a2 == MessageSend(c, m)
           l == <<a1, a2>>
<1>1. /\ todo' = [todo EXCEPT ![n] = l] /\ dials' = [dials EXCEPT ![c] = @ + 1] /\ dials[c] < MaxDials
      /\ UNCHANGED <<peers, pending_peer_init, failed, wire, cut, prompts, ticked, now, inits, accepted>>
  BY DEF Dial, Take, init_comm, Ok, Self
<1>2. n \in Pubkey /\ Joins(c, n, c[2]) /\ c = <<n, c[2]>> /\ OtherEnd(c, n) = c[2] /\ Joins(c, c[2], n)
  BY StreamJoins, JoinsEnds DEF Joins
<1>3. Domains' /\ UsersOK' /\ CountsOK'
  BY <1>1, BoundsAssumption DEF NInv, Domains, UsersOK, CountsOK
<1>4. p \in PendingPeer
  BY DEF PendingPeer, Time, NInv, Domains
<1>5. /\ a1.type = "SetPendingPeer" /\ a1.pending_peer = p /\ ActionOK(n, a1) /\ a1 \in Action
      /\ ~SendsPeerInit(a1)
  BY <1>4 DEF SetPendingPeer, ActionOK, Action, SyncAction, SendsPeerInit
<1>6. /\ a2.type = "MessageSend" /\ ActionOK(n, a2) /\ a2 \in Action /\ ~SendsPeerInit(a2)
  BY <1>2 DEF MessageSend, ActionOK, Action, MessageWrapped, MessageOK, MessageInit, SendsPeerInit, IsEvent
<1>7. dials'[c] = dials[c] + 1 /\ inits'[c] = inits[c] /\ inits[c] <= dials[c] /\ dials[c] \in Nat /\ inits[c] \in Nat
  BY <1>1 DEF NInv, Domains, CountsOK
<1>8. p.connection_info = c
  OBVIOUS
<1> HIDE DEF p, a1, a2
<1>9. todo'[n] = l /\ ListOK(n, todo[n])'
  <2>0. todo'[n] = l
    BY <1>1, <1>2 DEF NInv, Domains
  <2>1. l \in Seq(Action) /\ \A i \in DOMAIN l : ActionOK(n, l[i])
    BY <1>5, <1>6
  <2>2. DOMAIN l = 1..2 /\ l[1] = a1 /\ l[2] = a2
    OBVIOUS
  <2> HIDE DEF l
  <2>3. \A i \in DOMAIN l : ~SendsPeerInit(l[i]) /\ (l[i].type = "SetPendingPeer" => l[i].pending_peer.connection_info = c)
    BY <1>5, <1>6, <1>8, <2>2
  <2>4. DialList(n, todo[n])'
    BY <1>7, <2>0, <2>3 DEF DialList, SendsPeerInit, IsEvent
  <2> QED
    BY <2>0, <2>1, <2>4 DEF ListOK, ActionOK
<1>10. PeerOK(n)'
  <2>2. BookOK(n)'
    BY <1>1, <1>2 DEF NInv, PeerOK, BookOK, RecordOK
  <2>3. PendingOK(n)'
    <3>1. \A d \in Conn : dials[d] <= dials'[d] /\ dials[d] \in Nat /\ dials'[d] \in Nat /\ inits[d] \in Nat
      BY <1>1 DEF NInv, Domains
    <3>2. PendingOK(n) /\ pending_peer_init' = pending_peer_init /\ inits' = inits
      BY <1>1, <1>2 DEF NInv, PeerOK
    <3>3. \A q \in pending_peer_init[n] : q.connection_info \in Conn
      BY <3>2 DEF PendingOK, PendingPeer
    <3> QED
      BY <3>1, <3>2, <3>3 DEF PendingOK
  <2> QED
    BY <1>9, <2>2, <2>3 DEF PeerOK
<1>11. ASSUME NEW k \in Pubkey, k # n PROVE PeerOK(k)'
  <2>1. todo'[k] = todo[k] /\ \A d \in Conn : d[1] = k => dials'[d] = dials[d]
    BY <1>1, <1>11 DEF NInv, Domains
  <2> QED
    BY <1>1, <2>1, PeerKeeps DEF NInv
<1>12. \A d \in Conn, k \in Pubkey : WireOK(d, k)'
  BY <1>1 DEF NInv, WireOK
<1> QED
  BY <1>3, <1>10, <1>11, <1>12 DEF NInv

\* The message a host takes off a stream, and what is left on it.
LEMMA HeadOfWire ==
  ASSUME NInv, NEW n \in Pubkey, NEW c \in Conn, wire[c][n] # <<>>,
         wire' = [wire EXCEPT ![c][n] = Tail(@)]
  PROVE  /\ MessageOK(Head(wire[c][n]), c, n) /\ Head(wire[c][n]) = wire[c][n][1] /\ 1 \in DOMAIN wire[c][n]
         /\ wire'[c][n] = Tail(wire[c][n])
         /\ \A i \in DOMAIN wire'[c][n] : i + 1 \in DOMAIN wire[c][n] /\ wire'[c][n][i] = wire[c][n][i + 1]
         /\ \A d \in Conn, k \in Pubkey : d # c \/ k # n => wire'[d][k] = wire[d][k]
         /\ DOMAIN wire' = Conn /\ \A d \in Conn : DOMAIN wire'[d] = Pubkey
         /\ \A d \in Conn, k \in Pubkey : WireOK(d, k)'
<1> DEFINE s == wire[c][n]
<1>1. s \in Seq(MessageWrapped) /\ s # <<>> /\ \A i \in DOMAIN s : MessageOK(s[i], c, n)
  BY DEF NInv, WireOK
<1>2. /\ wire'[c][n] = Tail(s) /\ \A d \in Conn, k \in Pubkey : d # c \/ k # n => wire'[d][k] = wire[d][k]
      /\ DOMAIN wire' = Conn /\ \A d \in Conn : DOMAIN wire'[d] = Pubkey
  BY DEF NInv, Domains
<1> HIDE DEF s
<1>3. /\ Head(s) = s[1] /\ 1 \in DOMAIN s /\ Tail(s) \in Seq(MessageWrapped)
      /\ \A i \in DOMAIN Tail(s) : i + 1 \in DOMAIN s /\ Tail(s)[i] = s[i + 1]
  BY <1>1
<1>4. ASSUME NEW d \in Conn, NEW k \in Pubkey PROVE WireOK(d, k)'
  <2>1. CASE d = c /\ k = n
    <3> DEFINE t == Tail(s)
    <3>1. t \in Seq(MessageWrapped) /\ \A i \in DOMAIN t : MessageOK(t[i], c, n)
      BY <1>1, <1>3
    <3>2. wire'[c][n] = t
      BY <1>2
    <3> HIDE DEF t
    <3> QED
      BY <2>1, <3>1, <3>2 DEF WireOK
  <2>2. CASE d # c \/ k # n
    BY <1>2, <2>2 DEF NInv, WireOK
  <2> QED
    BY <2>1, <2>2
<1>5. MessageOK(Head(s), c, n)
  BY <1>1, <1>3
<1> QED
  BY <1>2, <1>3, <1>4, <1>5 DEF s

\* Receiving: an answer to a message that may travel here.
LEMMA ReceiveStep ==
  ASSUME NInv, NEW n \in Pubkey, NEW c \in Conn, Receive(n, c)
  PROVE  NInv'
<1> DEFINE m == Head(wire[c][n])
<1>1. /\ wire[c][n] # <<>> /\ wire' = [wire EXCEPT ![c][n] = Tail(@)]
      /\ UNCHANGED <<peers, pending_peer_init, cut, ticked, now, dials, inits>>
      /\ failed' = failed \/ failed' = [failed EXCEPT ![n] = m.body.kind]
      /\ prompts' = prompts \/ prompts' = [prompts EXCEPT ![n] = @ \cup {m.from}]
      /\ accepted' = accepted \/ accepted' = [accepted EXCEPT ![n] = @ \cup {m.from}]
  BY DEF Receive, Take
<1>2. PICK l \in Handler(Self(n), m, c).lists : todo' = [todo EXCEPT ![n] = l]
  BY DEF Receive, Take
<1>3. MessageOK(m, c, n)
  BY <1>1, HeadOfWire
<1> HIDE DEF m
<1>4. ListOK(n, l)
  <2>1. BookOK(n)
    BY DEF NInv, PeerOK
  <2> QED
    BY <1>3, <2>1, HandlerAnswers, AnswersOK
<1>5. \A k \in Pubkey : PeerOK(k)'
  BY <1>1, <1>2, <1>4, TakeStep
<1>6. m.from \in Pubkey \ {n}
  BY <1>3 DEF MessageOK, Joins
<1>7. UsersOK'
  BY <1>1, <1>6 DEF NInv, Domains, UsersOK
<1>8. Domains'
  <2>1. DOMAIN wire' = Conn /\ \A d \in Conn : DOMAIN wire'[d] = Pubkey
    BY <1>1, HeadOfWire
  <2> QED
    BY <1>1, <1>2, <2>1 DEF NInv, Domains
<1>9. \A d \in Conn, k \in Pubkey : WireOK(d, k)'
  BY <1>1, HeadOfWire
<1> QED
  BY <1>1, <1>5, <1>7, <1>8, <1>9 DEF NInv, CountsOK

\* The user's consent, of a peer that is known or not any more.
LEMMA UserConfirmStep ==
  ASSUME NInv, NEW n \in Pubkey, NEW k \in Pubkey, UserConfirm(n, k)
  PROVE  NInv'
<1>1. /\ k \in prompts[n] /\ prompts' = [prompts EXCEPT ![n] = @ \ {k}]
      /\ UNCHANGED <<peers, pending_peer_init, failed, wire, cut, ticked, now, dials, inits>>
      /\ accepted' = accepted \/ accepted' = [accepted EXCEPT ![n] = @ \cup {k}]
  BY DEF UserConfirm, Take
<1>2. PICK l \in peer_confirm(Self(n), k, NameOf[k], now).lists : todo' = [todo EXCEPT ![n] = l]
  BY DEF UserConfirm, Take
<1>3. ListOK(n, l)
  <2>1. BookOK(n) /\ NameOf[k] \in Name
    BY PeersAssumption DEF NInv, PeerOK
  <2>2. l = <<>> \/ (Known(n, k) /\ l = ConfirmList(n, k, NameOf[k]))
    BY <2>1, PeerConfirmList
  <2> QED
    BY <2>1, <2>2, EmptyListOK, ConfirmListOK
<1>4. \A j \in Pubkey : PeerOK(j)'
  BY <1>1, <1>2, <1>3, TakeStep
<1>5. Domains' /\ UsersOK' /\ CountsOK'
  BY <1>1, <1>2 DEF NInv, Domains, UsersOK, CountsOK
<1>6. \A d \in Conn, j \in Pubkey : WireOK(d, j)'
  BY <1>1 DEF NInv, WireOK
<1> QED
  BY <1>4, <1>5, <1>6 DEF NInv

\* The timer.
LEMMA TickStep ==
  ASSUME NInv, NEW n \in Pubkey, Tick(n)
  PROVE  NInv'
<1>1. UNCHANGED <<peers, pending_peer_init, failed, wire, cut, prompts, now, dials, inits, accepted>>
  BY DEF Tick, Take
<1>2. PICK l \in tick(Self(n), now).lists : todo' = [todo EXCEPT ![n] = l]
  BY DEF Tick, Take
<1>3. \A j \in Pubkey : PeerOK(j)'
  BY <1>1, <1>2, TickListOK, TakeStep
<1>4. Domains' /\ UsersOK' /\ CountsOK'
  BY <1>1, <1>2 DEF NInv, Domains, UsersOK, CountsOK
<1>5. \A d \in Conn, j \in Pubkey : WireOK(d, j)'
  BY <1>1 DEF NInv, WireOK
<1> QED
  BY <1>3, <1>4, <1>5 DEF NInv

\* What is left on a stream that is cut was there before.
LEMMA CutStep ==
  ASSUME NInv, NEW c \in Conn, NEW n \in Pubkey, Cut(c, n)
  PROVE  NInv'
<1> DEFINE s == wire[c][n]
<1>1. /\ cut' = cut \cup {<<c, n>>}
      /\ UNCHANGED <<peers, pending_peer_init, todo, failed, prompts, ticked, now, dials, inits, accepted>>
  BY DEF Cut, node
<1>2. PICK i \in 0..Len(s) : wire' = [wire EXCEPT ![c][n] = SubSeq(@, 1, i)]
  BY DEF Cut
<1>3. s \in Seq(MessageWrapped) /\ \A j \in DOMAIN s : MessageOK(s[j], c, n)
  BY DEF NInv, WireOK
<1>4. /\ wire'[c][n] = SubSeq(s, 1, i) /\ \A d \in Conn, k \in Pubkey : d # c \/ k # n => wire'[d][k] = wire[d][k]
      /\ DOMAIN wire' = Conn /\ \A d \in Conn : DOMAIN wire'[d] = Pubkey
  BY <1>2 DEF NInv, Domains
<1> HIDE DEF s
<1>5. /\ SubSeq(s, 1, i) \in Seq(MessageWrapped)
      /\ \A j \in DOMAIN SubSeq(s, 1, i) : j \in DOMAIN s /\ SubSeq(s, 1, i)[j] = s[j]
  BY <1>2, <1>3
<1>6. ASSUME NEW d \in Conn, NEW k \in Pubkey PROVE WireOK(d, k)'
  <2>1. CASE d = c /\ k = n
    BY <1>3, <1>4, <1>5, <2>1 DEF WireOK
  <2>2. CASE d # c \/ k # n
    BY <1>4, <2>2 DEF NInv, WireOK
  <2> QED
    BY <2>1, <2>2
<1>7. \A k \in Pubkey : PeerOK(k)'
  BY <1>1, PeerKeeps DEF NInv
<1>8. Domains' /\ UsersOK' /\ CountsOK'
  BY <1>1, <1>4 DEF NInv, Domains, UsersOK, CountsOK
<1> QED
  BY <1>6, <1>7, <1>8 DEF NInv

\* The action a host carries out, the ones it is left with, and the book.
LEMMA HeadOfTodo ==
  ASSUME NInv, NEW n \in Pubkey, Dispatch(n)
  PROVE  /\ 1 \in DOMAIN todo[n] /\ Head(todo[n]) = todo[n][1] /\ ActionOK(n, todo[n][1])
         /\ todo'[n] \in Seq(Action) /\ DOMAIN todo' = Pubkey
         /\ \A i \in DOMAIN todo'[n] : i + 1 \in DOMAIN todo[n] /\ todo'[n][i] = todo[n][i + 1] /\ i \in Nat \ {0}
         /\ \A i \in DOMAIN todo[n] : i # 1 => i - 1 \in DOMAIN todo'[n] /\ todo'[n][i - 1] = todo[n][i]
         /\ DOMAIN todo[n] \subseteq Nat \ {0}
         /\ peers'[n] = apply_peers(peers[n], todo[n][1]) /\ DOMAIN peers' = Pubkey
         /\ pending_peer_init'[n] = apply_pending(pending_peer_init[n], todo[n][1])
         /\ DOMAIN pending_peer_init' = Pubkey
         /\ \A k \in Pubkey : k # n => /\ peers'[k] = peers[k] /\ todo'[k] = todo[k]
                                       /\ pending_peer_init'[k] = pending_peer_init[k]
<1> DEFINE s == todo[n]
<1>1. s \in Seq(Action) /\ s # <<>> /\ \A i \in DOMAIN s : ActionOK(n, s[i])
  BY DEF NInv, PeerOK, ListOK, Dispatch
<1>2. /\ todo'[n] = Tail(s) /\ DOMAIN todo' = Pubkey /\ DOMAIN peers' = Pubkey
      /\ peers'[n] = apply_peers(peers[n], Head(s))
      /\ pending_peer_init'[n] = apply_pending(pending_peer_init[n], Head(s))
      /\ DOMAIN pending_peer_init' = Pubkey
      /\ \A k \in Pubkey : k # n => /\ peers'[k] = peers[k] /\ todo'[k] = todo[k]
                                    /\ pending_peer_init'[k] = pending_peer_init[k]
  BY DEF Dispatch, NInv, Domains
<1> HIDE DEF s
<1>3. /\ 1 \in DOMAIN s /\ Head(s) = s[1] /\ Tail(s) \in Seq(Action) /\ DOMAIN s \subseteq Nat \ {0}
      /\ \A i \in DOMAIN Tail(s) : i + 1 \in DOMAIN s /\ Tail(s)[i] = s[i + 1] /\ i \in Nat \ {0}
      /\ \A i \in DOMAIN s : i # 1 => i - 1 \in DOMAIN Tail(s) /\ Tail(s)[i - 1] = s[i]
  BY <1>1
<1> QED
  BY <1>1, <1>2, <1>3 DEF s

\* What carrying out an action puts on the streams, and how it is counted.
LEMMA DispatchSends ==
  ASSUME NInv, NEW n \in Pubkey, Dispatch(n)
  PROVE  LET a == todo[n][1]
             k == OtherEnd(a.to, n)
         IN /\ a.type = "MessageSend" => /\ a.to \in Conn /\ k \in Pubkey /\ a.message.from = n
                                         /\ MessageOK(a.message, a.to, k) /\ Joins(a.to, n, k)
            /\ SendsPeerInit(a) => a.to = <<n, k>> /\ a.message.to = k
            /\ \A c \in Conn : inits'[c] = IF SendsPeerInit(a) /\ a.to = c THEN inits[c] + 1 ELSE inits[c]
            /\ inits' \in [Conn -> Nat]
            /\ \A c \in Conn, j \in Pubkey :
                 \/ wire'[c][j] = wire[c][j]
                 \/ /\ a.type = "MessageSend" /\ c = a.to /\ j = k /\ <<c, j>> \notin cut
                    /\ wire'[c][j] = Append(wire[c][j], a.message)
            /\ a.type = "MessageSend" /\ <<a.to, k>> \notin cut => wire'[a.to][k] = Append(wire[a.to][k], a.message)
            /\ DOMAIN wire' = Conn /\ \A c \in Conn : DOMAIN wire'[c] = Pubkey
<1> DEFINE a == todo[n][1]
           k == OtherEnd(a.to, n)
<1>1. ActionOK(n, a) /\ Head(todo[n]) = a
  BY HeadOfTodo
<1>2. /\ wire' = IF a.type = "MessageSend" /\ <<a.to, k>> \notin cut
                 THEN [wire EXCEPT ![a.to][k] = Append(@, a.message)] ELSE wire
      /\ inits' = IF SendsPeerInit(a) THEN [inits EXCEPT ![a.to] = @ + 1] ELSE inits
  BY <1>1 DEF Dispatch, SendsPeerInit
<1>3. inits \in [Conn -> Nat] /\ DOMAIN wire = Conn /\ \A c \in Conn : DOMAIN wire[c] = Pubkey
  BY DEF NInv, Domains
<1>4. a.type = "MessageSend" => a.message.from = n /\ MessageOK(a.message, a.to, k)
  BY <1>1 DEF ActionOK
<1> HIDE DEF a
<1>5. a.type = "MessageSend" => a.to \in Conn /\ k \in Pubkey /\ Joins(a.to, n, k)
  BY <1>4, JoinsEnds DEF MessageOK, Joins
<1>6. SendsPeerInit(a) => a.to = <<n, k>> /\ a.message.to = k
  BY <1>4 DEF MessageOK, SendsPeerInit, IsEvent, MessageInit
<1>7. SendsPeerInit(a) => a.type = "MessageSend"
  BY DEF SendsPeerInit
<1>8. /\ \A c \in Conn : inits'[c] = IF SendsPeerInit(a) /\ a.to = c THEN inits[c] + 1 ELSE inits[c]
      /\ inits' \in [Conn -> Nat]
  BY <1>2, <1>3, <1>5, <1>7
<1>9. CASE a.type = "MessageSend" /\ <<a.to, k>> \notin cut
  <2>1. /\ wire'[a.to][k] = Append(wire[a.to][k], a.message)
        /\ \A c \in Conn, j \in Pubkey : c # a.to \/ j # k => wire'[c][j] = wire[c][j]
        /\ DOMAIN wire' = Conn /\ \A c \in Conn : DOMAIN wire'[c] = Pubkey
    BY <1>2, <1>3, <1>5, <1>9
  <2> HIDE DEF k
  <2> QED
    BY <1>4, <1>5, <1>6, <1>8, <1>9, <2>1 DEF a, k
<1>10. CASE ~(a.type = "MessageSend" /\ <<a.to, k>> \notin cut)
  <2>1. wire' = wire
    BY <1>2, <1>10
  <2> HIDE DEF k
  <2> QED
    BY <1>3, <1>4, <1>5, <1>6, <1>8, <1>10, <2>1 DEF a, k
<1> QED
  BY <1>9, <1>10

\* Carrying out an action keeps the book in order.
LEMMA DispatchBook ==
  ASSUME NInv, NEW n \in Pubkey, Dispatch(n)
  PROVE  BookOK(n)'
<1> DEFINE a == todo[n][1]
<1>1. peers'[n] = apply_peers(peers[n], a) /\ ActionOK(n, a) /\ BookOK(n)
  BY HeadOfTodo DEF NInv, PeerOK
<1> HIDE DEF a
<1>2. CASE a.type = "SetPeer"
  <2> DEFINE k == a.peer_info.peer.pubkey
  <2>1. peers'[n] = [x \in DOMAIN peers[n] \cup {k} |-> IF x = k THEN a.peer_info ELSE peers[n][x]]
    BY <1>1, <1>2 DEF apply_peers
  <2>2. RecordOK(n, a.peer_info)
    BY <1>1, <1>2 DEF ActionOK
  <2> QED
    BY <1>1, <2>1, <2>2 DEF BookOK, RecordOK
<1>3. CASE a.type = "UnsetPeer"
  <2>1. peers'[n] = [x \in DOMAIN peers[n] \ {a.pubkey} |-> peers[n][x]]
    BY <1>1, <1>3 DEF apply_peers
  <2> QED
    BY <1>1, <2>1 DEF BookOK, RecordOK
<1>4. CASE a.type \notin {"SetPeer", "UnsetPeer"}
  BY <1>1, <1>4 DEF apply_peers, BookOK, RecordOK
<1> QED
  BY <1>2, <1>3, <1>4

\* It keeps the account of the dials: the PeerInit that takes one off the
\* account leaves after its stream left the pending list.
LEMMA DispatchDials ==
  ASSUME NInv, NEW n \in Pubkey, Dispatch(n)
  PROVE  PendingOK(n)' /\ DialList(n, todo[n])' /\ CountsOK'
<1> DEFINE a == todo[n][1]
           P == pending_peer_init[n]
<1>1. /\ ActionOK(n, a) /\ DialList(n, todo[n]) /\ PendingOK(n) /\ CountsOK
      /\ pending_peer_init'[n] = apply_pending(P, a) /\ dials' = dials /\ 1 \in DOMAIN todo[n]
      /\ dials \in [Conn -> Nat] /\ inits \in [Conn -> Nat]
  BY HeadOfTodo DEF NInv, PeerOK, ListOK, Dispatch, Domains
<1>2. /\ \A i \in DOMAIN todo'[n] : i + 1 \in DOMAIN todo[n] /\ todo'[n][i] = todo[n][i + 1] /\ i \in Nat \ {0}
      /\ \A i \in DOMAIN todo[n] : i # 1 => i - 1 \in DOMAIN todo'[n] /\ todo'[n][i - 1] = todo[n][i]
      /\ DOMAIN todo[n] \subseteq Nat \ {0}
  BY HeadOfTodo
<1>3. /\ \A c \in Conn : inits'[c] = IF SendsPeerInit(a) /\ a.to = c THEN inits[c] + 1 ELSE inits[c]
      /\ SendsPeerInit(a) => a.to \in Conn
  BY DispatchSends DEF SendsPeerInit
<1>4. \A i \in DOMAIN todo[n] :
        /\ todo[n][i].type = "SetPendingPeer" =>
             todo[n][i].pending_peer \in PendingPeer /\ todo[n][i].pending_peer.connection_info[1] = n
        /\ SendsPeerInit(todo[n][i]) => todo[n][i].to \in Conn
  BY DEF NInv, PeerOK, ListOK, ActionOK, Action, SyncAction, SendsPeerInit, IsEvent, MessageOK, Joins
<1>5. \A p \in P : p.connection_info \in Conn
  BY <1>1 DEF PendingOK, PendingPeer
<1> DEFINE t == todo'[n]
<1>6. /\ \A i \in DOMAIN t : i + 1 \in DOMAIN todo[n] /\ t[i] = todo[n][i + 1] /\ i \in Nat \ {0}
      /\ \A i \in DOMAIN todo[n] : i # 1 => i - 1 \in DOMAIN t /\ t[i - 1] = todo[n][i]
  BY <1>2
<1> HIDE DEF t
<1>7. CASE SendsPeerInit(a)
  <2>1. /\ inits[a.to] < dials[a.to] /\ ~(\E p \in P : p.connection_info = a.to)
        /\ \A i \in DOMAIN t : ~SendsPeerInit(t[i]) /\ t[i].type # "SetPendingPeer"
    BY <1>1, <1>2, <1>6, <1>7 DEF DialList
  <2>2. pending_peer_init'[n] = P
    BY <1>1, <1>7 DEF apply_pending, SendsPeerInit
  <2>3. CountsOK'
    BY <1>1, <1>3, <1>7, <2>1 DEF CountsOK
  <2>4. PendingOK(n)'
    BY <1>1, <1>3, <1>5, <2>1, <2>2 DEF PendingOK
  <2>5. DialList(n, todo[n])'
    BY <2>1 DEF DialList, SendsPeerInit, IsEvent, t
  <2> QED
    BY <2>3, <2>4, <2>5
<1>8. CASE ~SendsPeerInit(a)
  <2>1. \A c \in Conn : inits'[c] = inits[c]
    BY <1>3, <1>8
  <2>2. CountsOK'
    BY <1>1, <2>1 DEF CountsOK
  <2>3. a.type = "SetPendingPeer" =>
          /\ a.pending_peer \in PendingPeer /\ a.pending_peer.connection_info[1] = n
          /\ a.pending_peer.connection_info \in Conn
          /\ inits[a.pending_peer.connection_info] < dials[a.pending_peer.connection_info]
    BY <1>1, <1>4 DEF DialList, PendingPeer
  <2>4. PendingOK(n)'
    <3> HIDE DEF a
    <3> QED
      BY <1>1, <1>5, <2>1, <2>3 DEF PendingOK, apply_pending
  <2>5. ASSUME NEW i \in DOMAIN t, SendsPeerInit(t[i]),
               NEW p \in pending_peer_init'[n], p.connection_info = t[i].to
        PROVE  \E j \in DOMAIN t : j < i /\ t[j] = UnsetPendingPeer(t[i].to)
    <3> DEFINE c == t[i].to
    <3>1. a.type # "SetPendingPeer"
      BY <1>1, <1>6, <2>5 DEF DialList
    <3>2. p \in P /\ a # UnsetPendingPeer(c)
      BY <1>1, <2>5, <3>1 DEF apply_pending, UnsetPendingPeer
    <3>3. PICK j \in DOMAIN todo[n] : j < i + 1 /\ todo[n][j] = UnsetPendingPeer(c)
      BY <1>1, <1>6, <2>5, <3>2 DEF DialList
    <3>4. j # 1
      BY <3>2, <3>3
    <3> QED
      BY <1>2, <1>6, <3>3, <3>4
  <2>6. ASSUME NEW i \in DOMAIN t
        PROVE  /\ t[i].type = "SetPendingPeer" =>
                    inits'[t[i].pending_peer.connection_info] < dials'[t[i].pending_peer.connection_info]
               /\ SendsPeerInit(t[i]) =>
                    /\ inits'[t[i].to] < dials'[t[i].to]
                    /\ \A j \in DOMAIN t : j # i => ~SendsPeerInit(t[j])
                    /\ \A j \in DOMAIN t : t[j].type # "SetPendingPeer"
    <3>1. i + 1 \in DOMAIN todo[n] /\ t[i] = todo[n][i + 1] /\ i \in Nat
      BY <1>6
    <3>2. t[i].type = "SetPendingPeer" => t[i].pending_peer.connection_info \in Conn
      BY <1>4, <3>1 DEF PendingPeer
    <3> QED
      BY <1>1, <1>4, <1>6, <2>1, <3>1, <3>2 DEF DialList
  <2>7. DialList(n, todo[n])'
    BY <2>5, <2>6 DEF DialList, t, SendsPeerInit, IsEvent
  <2> QED
    BY <2>2, <2>4, <2>7
<1> QED
  BY <1>7, <1>8

\* Carrying out an action keeps everything in order.
LEMMA DispatchStep ==
  ASSUME NInv, NEW n \in Pubkey, Dispatch(n)
  PROVE  NInv'
<1> DEFINE a == todo[n][1]
           k == OtherEnd(a.to, n)
<1>1. UNCHANGED <<failed, cut, prompts, ticked, now, dials, accepted>>
  BY DEF Dispatch
<1>2. /\ \A c \in Conn : inits'[c] = IF SendsPeerInit(a) /\ a.to = c THEN inits[c] + 1 ELSE inits[c]
      /\ SendsPeerInit(a) => a.to = <<n, k>>
      /\ inits' \in [Conn -> Nat]
      /\ DOMAIN wire' = Conn /\ \A c \in Conn : DOMAIN wire'[c] = Pubkey
  BY DispatchSends
<1>3. /\ \A c \in Conn, j \in Pubkey :
           \/ wire'[c][j] = wire[c][j]
           \/ /\ a.type = "MessageSend" /\ c = a.to /\ j = k /\ <<c, j>> \notin cut
              /\ wire'[c][j] = Append(wire[c][j], a.message)
      /\ a.type = "MessageSend" => MessageOK(a.message, a.to, k)
  BY DispatchSends, Zenon
<1> HIDE DEF a, k
<1>4. PeerOK(n)'
  <2>1. ListOK(n, todo[n])
    BY DEF NInv, PeerOK
  <2>2. \A i \in DOMAIN todo'[n] : ActionOK(n, todo'[n][i])
    BY <2>1, HeadOfTodo DEF ListOK
  <2>3. ListOK(n, todo[n])'
    BY <2>2, HeadOfTodo, DispatchDials DEF ListOK, ActionOK
  <2> QED
    BY <2>3, DispatchBook, DispatchDials DEF PeerOK
<1>5. ASSUME NEW j \in Pubkey, j # n PROVE PeerOK(j)'
  <2>1. \A c \in Conn : c[1] = j => inits'[c] = inits[c]
    BY <1>2, <1>5
  <2> QED
    BY <1>1, <1>5, <2>1, HeadOfTodo, PeerKeeps DEF NInv
<1>6. ASSUME NEW c \in Conn, NEW j \in Pubkey PROVE WireOK(c, j)'
  <2> DEFINE w == wire[c][j]
  <2>1. w \in Seq(MessageWrapped) /\ \A i \in DOMAIN w : MessageOK(w[i], c, j)
    BY DEF NInv, WireOK
  <2>2. CASE wire'[c][j] = w
    BY <2>1, <2>2 DEF WireOK
  <2>3. CASE a.type = "MessageSend" /\ c = a.to /\ j = k /\ wire'[c][j] = Append(w, a.message)
    <3>1. MessageOK(a.message, c, j) /\ a.message \in MessageWrapped
      BY <1>3, <2>3 DEF MessageOK, MessageWrapped
    <3> DEFINE v == Append(w, a.message)
    <3> HIDE DEF w
    <3>2. v \in Seq(MessageWrapped) /\ \A i \in DOMAIN v : MessageOK(v[i], c, j)
      BY <2>1, <3>1
    <3> HIDE DEF v
    <3>3. wire'[c][j] = v
      BY <2>3 DEF v
    <3> QED
      BY <3>2, <3>3 DEF WireOK
  <2> QED
    BY <1>3, <2>2, <2>3
<1>7. Domains' /\ UsersOK'
  BY <1>1, <1>2, HeadOfTodo DEF NInv, Domains, UsersOK
<1>8. CountsOK'
  BY DispatchDials
<1> QED
  BY <1>4, <1>5, <1>6, <1>7, <1>8 DEF NInv

\* The initial states are in order.
LEMMA InitNInv == Init => NInv
<1> SUFFICES ASSUME Init PROVE NInv
  OBVIOUS
<1>1. Domains /\ UsersOK /\ CountsOK
  <2>1. Domains
    BY DEF Init, Domains
  <2>2. UsersOK
    BY DEF Init, UsersOK
  <2>3. \A c \in Conn : dials[c] = 0 /\ inits[c] = 0
    BY DEF Init
  <2> QED
    BY <2>1, <2>2, <2>3, BoundsAssumption DEF CountsOK
<1>2. ASSUME NEW n \in Pubkey PROVE PeerOK(n)
  <2>1. peers[n] = [k \in {} |-> {}] /\ pending_peer_init[n] = {} /\ todo[n] = <<>>
    BY DEF Init
  <2>2. BookOK(n) /\ PendingOK(n)
    BY <2>1 DEF BookOK, PendingOK
  <2>3. ListOK(n, todo[n])
    BY <2>1, EmptyListOK
  <2> QED
    BY <2>2, <2>3 DEF PeerOK
<1>3. ASSUME NEW c \in Conn, NEW n \in Pubkey PROVE WireOK(c, n)
  <2>1. wire[c][n] = <<>>
    BY DEF Init
  <2> QED
    BY <2>1 DEF WireOK
<1> QED
  BY <1>1, <1>2, <1>3 DEF NInv

\* Every step keeps them so.
LEMMA NextNInv == NInv /\ [Next]_vars => NInv'
<1> SUFFICES ASSUME NInv, [Next]_vars PROVE NInv'
  OBVIOUS
<1>1. ASSUME NEW c \in Conn, Dial(c) PROVE NInv'
  <2>1. PICK n : n = c[1]
    OBVIOUS
  <2> QED
    BY <1>1, <2>1, DialStep
<1>2. ASSUME NEW n \in Pubkey, NEW c \in Conn, Receive(n, c) \/ Cut(c, n) PROVE NInv'
  BY <1>2, ReceiveStep, CutStep
<1>3. ASSUME NEW n \in Pubkey, NEW k \in Pubkey, UserConfirm(n, k) PROVE NInv'
  BY <1>3, UserConfirmStep
<1>4. ASSUME NEW n \in Pubkey, NEW k \in Pubkey, UserDecline(n, k) PROVE NInv'
  <2>1. (Domains /\ UsersOK)'
    BY <1>4 DEF UserDecline, node, NInv, Domains, UsersOK
  <2> QED
    BY <1>4, <2>1, QuietStep DEF UserDecline, node
<1>5. ASSUME NEW n \in Pubkey, Tick(n) \/ Dispatch(n) PROVE NInv'
  BY <1>5, TickStep, DispatchStep
<1>6. CASE Advance
  <2>1. now' \in Nat
    BY <1>6, BoundsAssumption DEF Advance, NInv, Domains
  <2>2. (Domains /\ UsersOK)'
    BY <1>6, <2>1 DEF Advance, node, NInv, Domains, UsersOK
  <2> QED
    BY <1>6, <2>2, QuietStep DEF Advance, node
<1>7. CASE UNCHANGED vars
  <2>1. (Domains /\ UsersOK)'
    BY <1>7 DEF vars, node, NInv, Domains, UsersOK
  <2> QED
    BY <1>7, <2>1, QuietStep DEF vars, node
<1> QED
  BY <1>1, <1>2, <1>3, <1>4, <1>5, <1>6, <1>7 DEF Next

\* So everything is always in order.
THEOREM NInvAlways == Spec => []NInv
BY InitNInv, NextNInv, PTL DEF Spec

\* NInv says of every part of the state what type it has.
LEMMA NInvTypes == NInv => TypeOK
<1> SUFFICES ASSUME NInv PROVE TypeOK
  OBVIOUS
<1>1. ASSUME NEW n \in Pubkey
      PROVE  /\ DOMAIN peers[n] \subseteq Pubkey \ {n}
             /\ \A k \in DOMAIN peers[n] : peers[n][k] \in PeerInfo /\ peers[n][k].peer.pubkey = k
  BY DEF NInv, PeerOK, BookOK, RecordOK, Joins
<1>2. ASSUME NEW n \in Pubkey
      PROVE  /\ pending_peer_init[n] \subseteq PendingPeer /\ todo[n] \in Seq(Action)
             /\ prompts[n] \subseteq Pubkey /\ accepted[n] \subseteq Pubkey
  BY DEF NInv, PeerOK, PendingOK, ListOK, UsersOK
<1>3. \A c \in Conn, n \in Pubkey : wire[c][n] \in Seq(MessageWrapped)
  BY DEF NInv, WireOK
<1>4. \A c \in Conn : dials[c] \in 0..MaxDials /\ inits[c] \in 0..MaxDials
  BY BoundsAssumption DEF NInv, Domains, CountsOK
<1> QED
  BY <1>1, <1>2, <1>3, <1>4 DEF TypeOK, NInv, Domains

\* The state keeps its types: in particular no peer has itself in its book,
\* every record is filed under its key, and a stream carries no more
\* PeerInits than the dials that were asked for.
THEOREM TypeCorrect == Spec => []TypeOK
BY NInvAlways, NInvTypes, PTL

-----------------------------------------------------------------------------
(* Consent.  That a record is active only by consent is not inductive: a   *)
(* PeerConfirm that is under way makes one active when it arrives, and is  *)
(* sent because of a PeerInit that arrived earlier, perhaps by way of the  *)
(* user's prompt.  CInv follows the consent along that way.                *)

Consent(n, k) == k \in accepted[n] \/ (Asked(n, k) /\ n \in accepted[k])

\* A PeerInit shows that the sender asked, a PeerConfirm that it agreed to
\* what it was asked.
MessageConsent(m, n) ==
  /\ IsEvent(m, "PeerInit") => Asked(m.from, n)
  /\ IsEvent(m, "PeerConfirm") => Asked(n, m.from) /\ n \in accepted[m.from]

ActionConsent(n, a) ==
  /\ a.type = "SetPeer" /\ a.peer_info.active => Consent(n, a.peer_info.peer.pubkey)
  /\ a.type = "MessageSend" /\ IsEvent(a.message, "PeerConfirm") =>
       Asked(a.message.to, n) /\ a.message.to \in accepted[n]

PromptsAsked == \A n, k \in Pubkey : k \in prompts[n] => Asked(k, n)

TodoConsent == \A n \in Pubkey : \A i \in DOMAIN todo[n] : ActionConsent(n, todo[n][i])

WireConsent ==
  \A c \in Conn, n \in Pubkey : \A i \in DOMAIN wire[c][n] : MessageConsent(wire[c][n][i], n)

CInv == NInv /\ PromptsAsked /\ ActiveByConsent /\ TodoConsent /\ WireConsent

\* Nobody takes back a request or an agreement.
Lasting ==
  /\ \A n, k \in Pubkey : Asked(n, k) => Asked(n, k)'
  /\ \A n \in Pubkey : accepted[n] \subseteq accepted'[n]

\* No step does.
LEMMA NextLasting ==
  ASSUME NInv, [Next]_vars
  PROVE  Lasting
<1>1. /\ DOMAIN accepted = Pubkey /\ inits \in [Conn -> Nat]
  BY DEF NInv, Domains
<1>2. \A c \in Conn : inits'[c] = inits[c] \/ inits'[c] = inits[c] + 1
  <2>1. ASSUME NEW n \in Pubkey, Dispatch(n) PROVE \A c \in Conn : inits'[c] = inits[c] \/ inits'[c] = inits[c] + 1
    BY <2>1, DispatchSends
  <2>2. CASE ~ \E n \in Pubkey : Dispatch(n)
    BY <2>2 DEF Next, vars, Dial, Receive, Cut, UserConfirm, UserDecline, Tick, Advance
  <2> QED
    BY <2>1, <2>2
<1>3. \A n, k \in Pubkey : Asked(n, k) => Asked(n, k)'
  BY <1>1, <1>2 DEF Asked
<1>4. \/ accepted' = accepted
      \/ \E n \in Pubkey : \E k : accepted' = [accepted EXCEPT ![n] = @ \cup {k}]
  BY DEF Next, vars, Dial, Receive, Cut, UserConfirm, UserDecline, Tick, Dispatch, Advance
<1>5. \A n \in Pubkey : accepted[n] \subseteq accepted'[n]
  BY <1>1, <1>4
<1> QED
  BY <1>3, <1>5 DEF Lasting

\* So what was consented to stays so.
LEMMA ConsentLasts ==
  ASSUME Lasting
  PROVE  /\ \A n, k \in Pubkey : Consent(n, k) => Consent(n, k)'
         /\ \A n \in Pubkey : \A m : m.from \in Pubkey /\ MessageConsent(m, n) => MessageConsent(m, n)'
         /\ \A n \in Pubkey : \A a : ActionOK(n, a) /\ ActionConsent(n, a) => ActionConsent(n, a)'
<1>1. \A n, k \in Pubkey : Consent(n, k) => Consent(n, k)'
  BY DEF Lasting, Consent
<1>2. \A n \in Pubkey : \A m : m.from \in Pubkey /\ MessageConsent(m, n) => MessageConsent(m, n)'
  BY DEF Lasting, MessageConsent, IsEvent
<1>3. ASSUME NEW n \in Pubkey, NEW a, ActionOK(n, a), ActionConsent(n, a) PROVE ActionConsent(n, a)'
  <2>1. a.type = "SetPeer" => a.peer_info.peer.pubkey \in Pubkey
    BY <1>3 DEF ActionOK, RecordOK, Joins
  <2>2. a.type = "MessageSend" /\ IsEvent(a.message, "PeerConfirm") => a.message.to \in Pubkey
    BY <1>3 DEF ActionOK, MessageOK, IsEvent, MessageInit, MessageSealed
  <2> QED
    BY <1>1, <1>3, <2>1, <2>2 DEF ActionConsent, Lasting, IsEvent
<1> QED
  BY <1>1, <1>2, <1>3

\* A host that is handed a request it accepts says so.
LEMMA AcceptSaid ==
  ASSUME NEW n, BookOK(n), NEW m, NEW c, MessageOK(m, c, n), IsEvent(m, "PeerInit"),
         Accepts(n, m.from), Known(n, m.from)
  PROVE  Handler(Self(n), m, c).result = "Ok"
<1>1. m \in MessageSealed /\ m.type = "Sealed" /\ m.to = n /\ m.body.kind = "PeerInit"
  BY DEF IsEvent, MessageOK, MessageInit
<1>2. unwrap_incoming_message(Self(n), m) = "Ok"
  BY <1>1 DEF unwrap_incoming_message, Self
<1>3. Handler(Self(n), m, c) = process_event_peer_init(Self(n), m.body, m.from, now)
  BY <1>1, <1>2 DEF Handler
<1>4. process_event_peer_init(Self(n), m.body, m.from, now) = peer_confirm(Self(n), m.from, m.body.name, now)
  BY <1>1 DEF process_event_peer_init, Accepts, Self
<1> QED
  BY <1>3, <1>4, PeerConfirmList

\* The record of a peer that was consented to, and a message that is no
\* PeerConfirm or goes to a peer that asked and was accepted.
LEMMA ActionsConsent ==
  ASSUME NEW n \in Pubkey, NEW k, Lasting
  PROVE  /\ \A info, a : a = SetPeer(info) /\ info.peer.pubkey = k /\ (info.active => Consent(n, k)') =>
                           ActionConsent(n, a)'
         /\ \A d, body, a :
              /\ a = Sends(n, d, k, body)
              /\ body.kind = "PeerConfirm" => Asked(k, n)' /\ k \in accepted'[n]
              => ActionConsent(n, a)'
<1>1. ASSUME NEW info, NEW a, a = SetPeer(info), info.peer.pubkey = k, info.active => Consent(n, k)'
      PROVE  ActionConsent(n, a)'
  <2>1. a.type = "SetPeer" /\ a.peer_info = info
    BY <1>1 DEF SetPeer
  <2> QED
    BY <1>1, <2>1 DEF ActionConsent
<1>2. ASSUME NEW d, NEW body, NEW a, a = Sends(n, d, k, body),
             body.kind = "PeerConfirm" => Asked(k, n)' /\ k \in accepted'[n]
      PROVE  ActionConsent(n, a)'
  <2>1. a.type = "MessageSend" /\ a.message.body = body /\ a.message.to = k
    BY <1>2 DEF Sends, MessageSend, create_sealed_message
  <2> QED
    BY <1>2, <2>1 DEF ActionConsent, IsEvent
<1> QED
  BY <1>1, <1>2

\* The confirmation of a peer that asked and is accepted.
LEMMA ConfirmConsent ==
  ASSUME NInv, Lasting, NEW n \in Pubkey, NEW k, Known(n, k), NEW name \in Name,
         Asked(k, n)', k \in accepted'[n], NEW l, l = ConfirmList(n, k, name)
  PROVE  \A i \in DOMAIN l : ActionConsent(n, l[i])'
<1>1. BookOK(n) /\ Domains
  BY DEF NInv, PeerOK
<1>2. RecordOK(n, peers[n][k]) /\ peers[n][k].peer.pubkey = k
  BY <1>1, BookKeys DEF Known
<1>3. confirmed(peers[n][k], name, now).peer.pubkey = k
  BY <1>2 DEF confirmed, RecordOK, PeerInfo, Peer
<1>4. Consent(n, k)'
  BY DEF Consent
<1>5. \A a : a = SetPeer(confirmed(peers[n][k], name, now)) => ActionConsent(n, a)'
  BY <1>3, <1>4, ActionsConsent
<1>6. \A a : a = Sends(n, peers[n][k].connection_info, k, PeerConfirm(NameOf[n])) => ActionConsent(n, a)'
  BY ActionsConsent
<1> QED
  BY <1>5, <1>6 DEF ConfirmList

\* What a host has to do after a message.
LEMMA AnswerConsent ==
  ASSUME CInv, Lasting, NEW n \in Pubkey, NEW m, NEW c, MessageOK(m, c, n), MessageConsent(m, n),
         NEW l, Answer(n, m, c, l),
         IsEvent(m, "PeerInit") /\ Accepts(n, m.from) /\ Known(n, m.from) => m.from \in accepted'[n]
  PROVE  \A i \in DOMAIN l : ActionConsent(n, l[i])'
<1> DEFINE k == m.from
<1>1. Joins(c, n, k) /\ BookOK(n) /\ Domains /\ NInv /\ k \in Pubkey
  BY DEF MessageOK, CInv, NInv, PeerOK, Joins
<1>2. Known(n, k) => /\ RecordOK(n, peers[n][k]) /\ peers[n][k].peer.pubkey = k
                     /\ peers[n][k].active => Consent(n, k)'
  <2>1. Known(n, k) /\ peers[n][k].active => Consent(n, k)
    BY <1>1 DEF CInv, ActiveByConsent, Active, Known, Consent
  <2> QED
    BY <1>1, <2>1, BookKeys, ConsentLasts DEF Known
<1>3. CASE l = <<>>
  BY <1>3
<1>13. \A d, body, a : a = Sends(n, d, k, body) /\ body.kind # "PeerConfirm" => ActionConsent(n, a)'
  BY ActionsConsent
<1>4. \A a : a = SetPeer(new_info(tmp(k), c, now)) => ActionConsent(n, a)'
  BY <1>1, RecordsOK, ActionsConsent
<1>5. CASE m.type = "Init" /\ l = GreetList(n, k, c)
  <2>1. \A a : a = Sends(n, c, k, Hello) => ActionConsent(n, a)'
    BY <1>13, EventKinds
  <2> QED
    BY <1>4, <1>5, <2>1 DEF GreetList
<1>6. CASE IsEvent(m, "Hello") /\ is_pending(Self(n), c) /\ l = InitList(n, k, c)
  <2>1. \A a : a = Sends(n, c, k, PeerInit(NameOf[n])) => ActionConsent(n, a)'
    BY <1>13, EventKinds
  <2>2. \A a : a = UnsetPendingPeer(c) => ActionConsent(n, a)'
    BY DEF ActionConsent, UnsetPendingPeer
  <2> QED
    BY <1>4, <1>6, <2>1, <2>2 DEF InitList
<1>7. CASE IsEvent(m, "PeerInit") /\ l = <<Confirm(m.body)>>
  BY <1>7 DEF ActionConsent, Confirm
<1>8. CASE IsEvent(m, "PeerInit") /\ Accepts(n, k) /\ Known(n, k) /\ l = ConfirmList(n, k, m.body.name)
  <2>1. m.body.name \in Name
    BY <1>8 DEF IsEvent, MessageOK, MessageInit, BodyOK
  <2>2. Asked(k, n)'
    BY <1>1, <1>8 DEF MessageConsent, Lasting
  <2> QED
    BY <1>1, <1>8, <2>1, <2>2, ConfirmConsent
<1>9. CASE IsEvent(m, "PeerConfirm") /\ Known(n, k) /\ l = <<SetPeer(confirmed(peers[n][k], m.body.name, now))>>
  <2>1. m.body.name \in Name
    BY <1>9 DEF IsEvent, MessageOK, MessageInit, BodyOK
  <2>2. Consent(n, k)'
    <3>1. Consent(n, k)
      BY <1>9 DEF MessageConsent, Consent
    <3> QED
      BY <1>1, <3>1, ConsentLasts
  <2>3. confirmed(peers[n][k], m.body.name, now).peer.pubkey = k
    BY <1>2, <1>9 DEF confirmed, RecordOK, PeerInfo, Peer
  <2>4. \A a : a = SetPeer(confirmed(peers[n][k], m.body.name, now)) => ActionConsent(n, a)'
    BY <2>2, <2>3, ActionsConsent
  <2> QED
    BY <1>9, <2>4
<1>10. \A a : Known(n, k) /\ a = SetPeer(seen(peers[n][k], now)) => ActionConsent(n, a)'
  <2>1. Known(n, k) => /\ seen(peers[n][k], now).peer.pubkey = k
                       /\ seen(peers[n][k], now).active => Consent(n, k)'
    BY <1>2 DEF seen, RecordOK, PeerInfo, Peer
  <2> QED
    BY <2>1, ActionsConsent
<1>11. CASE /\ IsEvent(m, "Ping") /\ Known(n, k)
            /\ l = <<SetPeer(seen(peers[n][k], now)), Sends(n, peers[n][k].connection_info, k, Pong)>>
  <2>1. \A a : a = Sends(n, peers[n][k].connection_info, k, Pong) => ActionConsent(n, a)'
    BY <1>13, EventKinds
  <2> QED
    BY <1>10, <1>11, <2>1
<1>12. CASE IsEvent(m, "Pong") /\ Known(n, k) /\ l = <<SetPeer(seen(peers[n][k], now))>>
  BY <1>10, <1>12
<1> QED
  BY <1>3, <1>5, <1>6, <1>7, <1>8, <1>9, <1>11, <1>12 DEF Answer

\* A host takes a list in which it acts by consent.
LEMMA TakeConsent ==
  ASSUME CInv, Lasting, NEW n \in Pubkey, NEW l, todo' = [todo EXCEPT ![n] = l], UNCHANGED peers,
         \A i \in DOMAIN l : ActionConsent(n, l[i])'
  PROVE  TodoConsent' /\ ActiveByConsent'
<1>1. NInv /\ DOMAIN todo = Pubkey
  BY DEF CInv, NInv, Domains
<1>2. ASSUME NEW j \in Pubkey, NEW i \in DOMAIN todo'[j] PROVE ActionConsent(j, todo[j][i])'
  <2>1. CASE j = n
    <3>1. todo'[j] = l
      BY <1>1, <2>1
    <3> QED
      BY <1>2, <2>1, <3>1 DEF ActionConsent
  <2>2. CASE j # n
    <3>1. todo'[j] = todo[j] /\ i \in DOMAIN todo[j]
      BY <1>1, <1>2, <2>2
    <3>2. ActionOK(j, todo[j][i]) /\ ActionConsent(j, todo[j][i])
      BY <1>1, <3>1 DEF CInv, NInv, PeerOK, ListOK, TodoConsent
    <3>3. \A a : a = todo[j][i] => ActionConsent(j, a)'
      BY <3>2, ConsentLasts
    <3> QED
      BY <3>1, <3>3 DEF ActionConsent
  <2> QED
    BY <2>1, <2>2
<1>3. ActiveByConsent'
  <2>1. \A j, k \in Pubkey : Active(j, k)' => Consent(j, k)
    BY DEF CInv, ActiveByConsent, Active, Consent
  <2> QED
    BY <2>1, ConsentLasts DEF ActiveByConsent, Consent
<1> QED
  BY <1>2, <1>3 DEF TodoConsent

\* What is left on the streams was sent by consent.
LEMMA WireKeeps ==
  ASSUME CInv, Lasting,
         \A c \in Conn, n \in Pubkey : \A i \in DOMAIN wire'[c][n] :
           \E j \in DOMAIN wire[c][n] : wire'[c][n][i] = wire[c][n][j]
  PROVE  WireConsent'
<1> SUFFICES ASSUME NEW c \in Conn, NEW n \in Pubkey, NEW i \in DOMAIN wire'[c][n]
             PROVE  MessageConsent(wire[c][n][i], n)'
  BY DEF WireConsent
<1>1. PICK m : m = wire'[c][n][i]
  OBVIOUS
<1>2. MessageConsent(m, n) /\ m.from \in Pubkey
  BY <1>1 DEF CInv, WireConsent, NInv, WireOK, MessageOK, Joins
<1>3. MessageConsent(m, n)'
  BY <1>2, ConsentLasts
<1> QED
  BY <1>1, <1>3 DEF MessageConsent

\* A step that leaves the books, the lists and the streams alone and asks no
\* user.
LEMMA QuietConsent ==
  ASSUME CInv, Lasting, UNCHANGED <<peers, todo, wire>>, \A n \in Pubkey : prompts'[n] \subseteq prompts[n]
  PROVE  PromptsAsked' /\ ActiveByConsent' /\ TodoConsent' /\ WireConsent'
<1>1. PromptsAsked'
  BY DEF CInv, PromptsAsked, Lasting
<1>2. ActiveByConsent'
  <2>1. \A j, k \in Pubkey : Active(j, k)' => Consent(j, k)
    BY DEF CInv, ActiveByConsent, Active, Consent
  <2> QED
    BY <2>1, ConsentLasts DEF ActiveByConsent, Consent
<1>3. ASSUME NEW j \in Pubkey, NEW i \in DOMAIN todo[j] PROVE ActionConsent(j, todo[j][i])'
  <2>1. ActionOK(j, todo[j][i]) /\ ActionConsent(j, todo[j][i])
    BY <1>3 DEF CInv, NInv, PeerOK, ListOK, TodoConsent
  <2>2. \A a : a = todo[j][i] => ActionConsent(j, a)'
    BY <2>1, ConsentLasts
  <2> QED
    BY <2>2 DEF ActionConsent
<1>4. WireConsent'
  BY WireKeeps
<1> QED
  BY <1>1, <1>2, <1>3, <1>4 DEF TodoConsent

\* Dialing, and the list of tick, act on no consent.
LEMMA DialConsent ==
  ASSUME CInv, Lasting, NEW c \in Conn, Dial(c)
  PROVE  PromptsAsked' /\ ActiveByConsent' /\ TodoConsent' /\ WireConsent'
<1>1. PICK n : n = c[1]
  OBVIOUS
<1>2. n \in Pubkey
  BY <1>1, StreamJoins DEF Joins
<1>3. PICK l : /\ l \in init_comm(Self(n), c, now).lists
               /\ todo' = [todo EXCEPT ![n] = l] /\ UNCHANGED <<peers, wire, prompts>>
  BY <1>1 DEF Dial, Take
<1>4. l = <<SetPendingPeer([connection_info |-> c, created |-> now]),
            MessageSend(c, [type |-> "Init", from |-> n])>>
  BY <1>3 DEF init_comm, Ok, Self
<1>5. \A i \in DOMAIN l : ActionConsent(n, l[i])'
  BY <1>4 DEF ActionConsent, SetPendingPeer, MessageSend, IsEvent
<1>6. PromptsAsked' /\ WireConsent'
  BY <1>3, WireKeeps DEF CInv, PromptsAsked, Lasting
<1> QED
  BY <1>2, <1>3, <1>5, <1>6, TakeConsent

\* The list of tick.
LEMMA TickConsent ==
  ASSUME CInv, Lasting, NEW n \in Pubkey, Tick(n)
  PROVE  PromptsAsked' /\ ActiveByConsent' /\ TodoConsent' /\ WireConsent'
<1>1. PICK l : /\ l \in tick(Self(n), now).lists
               /\ todo' = [todo EXCEPT ![n] = l] /\ UNCHANGED <<peers, wire, prompts>>
  BY DEF Tick, Take
<1>2. PeerOK(n) /\ BookOK(n)
  BY DEF CInv, NInv, PeerOK
<1>3. \A i \in DOMAIN l :
        \/ \E k \in due(Self(n), now) : l[i] = tick_peer(Self(n), k, now)
        \/ \E p \in stale(Self(n), now) : l[i] = UnsetPendingPeer(p.connection_info)
  BY <1>1, <1>2, TickFinite, TickActions
<1>4. ASSUME NEW a, NEW k \in due(Self(n), now), a = tick_peer(Self(n), k, now) PROVE ActionConsent(n, a)'
  <2>1. CASE a = UnsetPeer(k)
    BY <2>1 DEF ActionConsent, UnsetPeer
  <2>2. CASE a = Sends(n, peers[n][k].connection_info, k, Ping)
    <3>1. \A d, body, b : b = Sends(n, d, k, body) /\ body.kind # "PeerConfirm" => ActionConsent(n, b)'
      BY ActionsConsent
    <3> QED
      BY <2>2, <3>1, EventKinds
  <2> QED
    BY <1>2, <1>4, <2>1, <2>2, TickPeer
<1>5. ASSUME NEW a, NEW p, a = UnsetPendingPeer(p.connection_info) PROVE ActionConsent(n, a)'
  BY <1>5 DEF ActionConsent, UnsetPendingPeer
<1>6. \A i \in DOMAIN l : ActionConsent(n, l[i])'
  <2> SUFFICES ASSUME NEW i \in DOMAIN l, NEW a, a = l[i] PROVE ActionConsent(n, a)'
    BY DEF ActionConsent
  <2> QED
    BY <1>3, <1>4, <1>5
<1>7. PromptsAsked' /\ WireConsent'
  BY <1>1, WireKeeps DEF CInv, PromptsAsked, Lasting
<1> QED
  BY <1>1, <1>6, <1>7, TakeConsent

\* Receiving: who is agreed with, or put to the user, did ask.
LEMMA ReceiveConsent ==
  ASSUME CInv, Lasting, NEW n \in Pubkey, NEW c \in Conn, Receive(n, c)
  PROVE  PromptsAsked' /\ ActiveByConsent' /\ TodoConsent' /\ WireConsent'
<1>1. PICK m : m = Head(wire[c][n])
  OBVIOUS
<1>2. NInv /\ wire[c][n] # <<>> /\ wire' = [wire EXCEPT ![c][n] = Tail(@)] /\ BookOK(n) /\ Domains
  BY DEF CInv, Receive, NInv, PeerOK
<1>3. /\ UNCHANGED peers
      /\ prompts' = prompts \/ (IsEvent(m, "PeerInit") /\ prompts' = [prompts EXCEPT ![n] = @ \cup {m.from}])
  BY <1>1 DEF Receive, Take
<1>4. PICK l : l \in Handler(Self(n), m, c).lists /\ todo' = [todo EXCEPT ![n] = l]
  BY <1>1 DEF Receive, Take
<1>5. MessageOK(m, c, n) /\ MessageConsent(m, n) /\ m.from \in Pubkey
  <2>1. m = wire[c][n][1] /\ 1 \in DOMAIN wire[c][n] /\ MessageOK(m, c, n)
    BY <1>1, <1>2, HeadOfWire
  <2> QED
    BY <2>1 DEF CInv, WireConsent, MessageOK, Joins
<1>6. Answer(n, m, c, l)
  BY <1>2, <1>4, <1>5, HandlerAnswers
<1>7. IsEvent(m, "PeerInit") /\ Accepts(n, m.from) /\ Known(n, m.from) => m.from \in accepted'[n]
  <2> SUFFICES ASSUME IsEvent(m, "PeerInit"), Accepts(n, m.from), Known(n, m.from)
               PROVE  m.from \in accepted'[n]
    OBVIOUS
  <2>1. Handler(Self(n), m, c).result = "Ok"
    BY <1>2, <1>5, AcceptSaid
  <2>2. accepted' = [accepted EXCEPT ![n] = @ \cup {m.from}]
    BY <1>1, <2>1 DEF Receive, Accepts
  <2> QED
    BY <1>2, <2>2 DEF Domains
<1>8. \A i \in DOMAIN l : ActionConsent(n, l[i])'
  BY <1>5, <1>6, <1>7, AnswerConsent
<1>9. PromptsAsked'
  <2>1. \A j, k \in Pubkey : k \in prompts'[j] => k \in prompts[j] \/ (j = n /\ k = m.from /\ Asked(k, n))
    BY <1>2, <1>3, <1>5 DEF Domains, MessageConsent
  <2> QED
    BY <2>1 DEF CInv, PromptsAsked, Lasting
<1>10. WireConsent'
  <2>2. \A i \in DOMAIN wire'[c][n] : i + 1 \in DOMAIN wire[c][n] /\ wire'[c][n][i] = wire[c][n][i + 1]
    BY <1>2, HeadOfWire
  <2>1. ASSUME NEW d \in Conn, NEW k \in Pubkey, NEW i \in DOMAIN wire'[d][k]
        PROVE  \E j \in DOMAIN wire[d][k] : wire'[d][k][i] = wire[d][k][j]
    <3>1. CASE d = c /\ k = n
      BY <2>1, <2>2, <3>1
    <3>2. CASE d # c \/ k # n
      <4>1. wire'[d][k] = wire[d][k]
        BY <1>2, <3>2, HeadOfWire
      <4> QED
        BY <2>1, <4>1
    <3> QED
      BY <3>1, <3>2
  <2> QED
    BY <2>1, WireKeeps
<1> QED
  BY <1>3, <1>4, <1>8, <1>9, <1>10, TakeConsent

\* The user agrees to a peer that asked.
LEMMA UserConfirmConsent ==
  ASSUME CInv, Lasting, NEW n \in Pubkey, NEW k \in Pubkey, UserConfirm(n, k)
  PROVE  PromptsAsked' /\ ActiveByConsent' /\ TodoConsent' /\ WireConsent'
<1>1. /\ k \in prompts[n] /\ prompts' = [prompts EXCEPT ![n] = @ \ {k}] /\ UNCHANGED <<peers, wire>>
      /\ NInv /\ BookOK(n) /\ Domains /\ NameOf[k] \in Name
  BY PeersAssumption DEF UserConfirm, Take, CInv, NInv, PeerOK
<1>2. PICK l : /\ l \in peer_confirm(Self(n), k, NameOf[k], now).lists
               /\ todo' = [todo EXCEPT ![n] = l]
  BY DEF UserConfirm, Take
<1>3. l = <<>> \/ (Known(n, k) /\ l = ConfirmList(n, k, NameOf[k]))
  BY <1>1, <1>2, PeerConfirmList
<1>4. Known(n, k) => k \in accepted'[n]
  <2>1. Known(n, k) => accepted' = [accepted EXCEPT ![n] = @ \cup {k}]
    BY <1>1, PeerConfirmList DEF UserConfirm
  <2> QED
    BY <1>1, <2>1 DEF Domains
<1>5. Asked(k, n)'
  BY <1>1 DEF CInv, PromptsAsked, Lasting
<1>6. \A i \in DOMAIN l : ActionConsent(n, l[i])'
  BY <1>1, <1>3, <1>4, <1>5, ConfirmConsent
<1>7. PromptsAsked' /\ WireConsent'
  <2>1. \A j \in Pubkey : prompts'[j] \subseteq prompts[j]
    BY <1>1 DEF Domains
  <2> QED
    BY <1>1, <2>1, WireKeeps DEF CInv, PromptsAsked, Lasting
<1> QED
  BY <1>1, <1>2, <1>6, <1>7, TakeConsent

\* What is left on a stream that is cut.
LEMMA CutConsent ==
  ASSUME CInv, Lasting, NEW c \in Conn, NEW n \in Pubkey, Cut(c, n)
  PROVE  PromptsAsked' /\ ActiveByConsent' /\ TodoConsent' /\ WireConsent'
<1>1. UNCHANGED <<peers, todo, prompts>> /\ Domains
  BY DEF Cut, node, CInv, NInv
<1>2. PICK i \in 0..Len(wire[c][n]) : wire' = [wire EXCEPT ![c][n] = SubSeq(@, 1, i)]
  BY DEF Cut
<1>3. ASSUME NEW d \in Conn, NEW k \in Pubkey, NEW x \in DOMAIN wire'[d][k]
      PROVE  \E j \in DOMAIN wire[d][k] : wire'[d][k][x] = wire[d][k][j]
  <2>1. CASE d = c /\ k = n
    <3> DEFINE s == wire[c][n]
    <3>1. wire'[c][n] = SubSeq(s, 1, i) /\ s \in Seq(MessageWrapped) /\ i \in 0..Len(s)
      BY <1>1, <1>2 DEF Domains, CInv, NInv, WireOK
    <3> HIDE DEF s
    <3>2. \A y \in DOMAIN SubSeq(s, 1, i) : y \in DOMAIN s /\ SubSeq(s, 1, i)[y] = s[y]
      BY <3>1
    <3> QED
      BY <1>3, <2>1, <3>1, <3>2 DEF s
  <2>2. CASE d # c \/ k # n
    <3>1. wire'[d][k] = wire[d][k]
      BY <1>1, <1>2, <2>2 DEF Domains
    <3> QED
      BY <1>3, <3>1
  <2> QED
    BY <2>1, <2>2
<1>4. PromptsAsked' /\ ActiveByConsent' /\ TodoConsent'
  <2>1. PromptsAsked'
    BY <1>1 DEF CInv, PromptsAsked, Lasting
  <2>2. \A j, k \in Pubkey : Active(j, k)' => Consent(j, k)
    BY <1>1 DEF CInv, ActiveByConsent, Active, Consent
  <2>3. ASSUME NEW j \in Pubkey, NEW x \in DOMAIN todo[j] PROVE ActionConsent(j, todo[j][x])'
    <3>1. ActionOK(j, todo[j][x]) /\ ActionConsent(j, todo[j][x])
      BY <2>3 DEF CInv, NInv, PeerOK, ListOK, TodoConsent
    <3>2. \A a : a = todo[j][x] => ActionConsent(j, a)'
      BY <3>1, ConsentLasts
    <3> QED
      BY <1>1, <3>2 DEF ActionConsent
  <2> QED
    BY <1>1, <2>1, <2>2, <2>3, ConsentLasts DEF TodoConsent, ActiveByConsent, Consent
<1> QED
  BY <1>3, <1>4, WireKeeps

\* Carrying out an action: a record becomes active by the consent that its
\* SetPeer has, a PeerInit that leaves is a request from then on.
LEMMA DispatchConsent ==
  ASSUME CInv, Lasting, NEW n \in Pubkey, Dispatch(n)
  PROVE  PromptsAsked' /\ ActiveByConsent' /\ TodoConsent' /\ WireConsent'
<1> PICK a : a = todo[n][1]
  OBVIOUS
<1> PICK k : k = OtherEnd(a.to, n)
  OBVIOUS
<1>1. NInv /\ UNCHANGED prompts
  BY DEF CInv, Dispatch
<1>2. ActionConsent(n, a) /\ ActionOK(n, a) /\ peers'[n] = apply_peers(peers[n], a)
  BY <1>1, HeadOfTodo DEF CInv, TodoConsent
<1>3. /\ \A c \in Conn, j \in Pubkey :
           \/ wire'[c][j] = wire[c][j]
           \/ /\ a.type = "MessageSend" /\ c = a.to /\ j = k /\ <<c, j>> \notin cut
              /\ wire'[c][j] = Append(wire[c][j], a.message)
      /\ a.type = "MessageSend" => MessageOK(a.message, a.to, k) /\ k \in Pubkey /\ a.to \in Conn
                                   /\ a.message.from = n
  <2> DEFINE b == todo[n][1]
             e == OtherEnd(b.to, n)
  <2>1. /\ \A c \in Conn, j \in Pubkey :
             \/ wire'[c][j] = wire[c][j]
             \/ /\ b.type = "MessageSend" /\ c = b.to /\ j = e /\ <<c, j>> \notin cut
                /\ wire'[c][j] = Append(wire[c][j], b.message)
        /\ b.type = "MessageSend" => MessageOK(b.message, b.to, e) /\ e \in Pubkey /\ b.to \in Conn
                                     /\ b.message.from = n
    BY <1>1, DispatchSends, Zenon
  <2>2. a = b /\ k = e
    OBVIOUS
  <2> HIDE DEF b, e
  <2> QED
    BY <2>1, <2>2
<1>4. SendsPeerInit(a) => Asked(n, k)'
  <2> SUFFICES ASSUME SendsPeerInit(a) PROVE Asked(n, k)'
    OBVIOUS
  <2>1. /\ a.to = <<n, k>> /\ a.to \in Conn /\ inits'[a.to] = inits[a.to] + 1 /\ inits[a.to] \in Nat
    BY <1>1, DispatchSends DEF SendsPeerInit, NInv, Domains
  <2> QED
    BY <2>1 DEF Asked
<1>5. PromptsAsked'
  BY <1>1 DEF CInv, PromptsAsked, Lasting
<1>6. ActiveByConsent'
  <2> SUFFICES ASSUME NEW i \in Pubkey, NEW j \in Pubkey, Active(i, j)' PROVE Consent(i, j)'
    BY DEF ActiveByConsent, Consent
  <2>1. CASE Active(i, j)
    BY <2>1, ConsentLasts DEF CInv, ActiveByConsent, Consent
  <2>2. CASE ~Active(i, j)
    <3>1. i = n
      BY <1>1, <2>2, HeadOfTodo DEF Active
    <3>2. a.type = "SetPeer" /\ a.peer_info.peer.pubkey = j /\ a.peer_info.active
      BY <1>2, <2>2, <3>1 DEF Active, apply_peers
    <3>3. Consent(n, j)
      BY <1>2, <3>2 DEF ActionConsent
    <3> QED
      BY <3>1, <3>3, ConsentLasts
  <2> QED
    BY <2>1, <2>2
<1>7. ASSUME NEW j \in Pubkey, NEW x \in DOMAIN todo'[j] PROVE ActionConsent(j, todo[j][x])'
  <2>1. \E y \in DOMAIN todo[j] : todo'[j][x] = todo[j][y]
    <3>1. CASE j = n
      BY <1>1, <1>7, <3>1, HeadOfTodo
    <3>2. CASE j # n
      BY <1>1, <1>7, <3>2, HeadOfTodo
    <3> QED
      BY <3>1, <3>2
  <2>2. ActionOK(j, todo'[j][x]) /\ ActionConsent(j, todo'[j][x])
    BY <2>1 DEF CInv, NInv, PeerOK, ListOK, TodoConsent
  <2>3. \A b : b = todo'[j][x] => ActionConsent(j, b)'
    BY <2>2, ConsentLasts
  <2> QED
    BY <2>3 DEF ActionConsent
<1>8. ASSUME NEW c \in Conn, NEW j \in Pubkey, NEW x \in DOMAIN wire'[c][j] PROVE MessageConsent(wire[c][j][x], j)'
  <2>1. PICK m : m = wire'[c][j][x]
    OBVIOUS
  <2>2. CASE x \in DOMAIN wire[c][j] /\ m = wire[c][j][x]
    <3>1. m.from \in Pubkey /\ MessageConsent(m, j)
      BY <2>2 DEF CInv, WireConsent, NInv, WireOK, MessageOK, Joins
    <3>2. MessageConsent(m, j)'
      BY <3>1, ConsentLasts
    <3> QED
      BY <2>1, <3>2 DEF MessageConsent
  <2>3. CASE a.type = "MessageSend" /\ j = k /\ m = a.message
    <3>1. IsEvent(m, "PeerInit") => Asked(m.from, j)'
      BY <1>3, <1>4, <2>3 DEF SendsPeerInit
    <3>2. IsEvent(m, "PeerConfirm") => Asked(j, n) /\ j \in accepted[n] /\ m.from = n
      <4>1. IsEvent(m, "PeerConfirm") => m.to = j
        BY <1>3, <2>3 DEF MessageOK, IsEvent, MessageInit
      <4> QED
        BY <1>2, <1>3, <2>3, <4>1 DEF ActionConsent
    <3> QED
      BY <2>1, <3>1, <3>2 DEF MessageConsent, IsEvent, Lasting
  <2>4. (x \in DOMAIN wire[c][j] /\ m = wire[c][j][x]) \/ (a.type = "MessageSend" /\ j = k /\ m = a.message)
    <3> DEFINE w == wire[c][j]
    <3>1. w \in Seq(MessageWrapped)
      BY <1>1 DEF NInv, WireOK
    <3>2. wire'[c][j] = w \/ (a.type = "MessageSend" /\ j = k /\ wire'[c][j] = Append(w, a.message))
      BY <1>3
    <3> HIDE DEF w
    <3>3. \A e : \A y \in DOMAIN Append(w, e) : (y \in DOMAIN w /\ Append(w, e)[y] = w[y]) \/ Append(w, e)[y] = e
      BY <3>1
    <3> QED
      BY <1>8, <2>1, <3>2, <3>3 DEF w
  <2> QED
    BY <2>2, <2>3, <2>4
<1> QED
  BY <1>5, <1>6, <1>7, <1>8 DEF TodoConsent, WireConsent

\* The initial states, where nobody knows anybody.
LEMMA InitCInv == Init => CInv
<1> SUFFICES ASSUME Init PROVE CInv
  OBVIOUS
<1>1. NInv
  BY InitNInv
<1>2. \A n \in Pubkey : /\ peers[n] = [k \in {} |-> {}] /\ todo[n] = <<>> /\ prompts[n] = {}
                        /\ \A c \in Conn : wire[c][n] = <<>>
  BY DEF Init
<1>3. PromptsAsked /\ ActiveByConsent
  BY <1>2 DEF PromptsAsked, ActiveByConsent, Active
<1>4. TodoConsent /\ WireConsent
  BY <1>2 DEF TodoConsent, WireConsent
<1> QED
  BY <1>1, <1>3, <1>4 DEF CInv

\* Every step.
LEMMA NextCInv == CInv /\ [Next]_vars => CInv'
<1> SUFFICES ASSUME CInv, [Next]_vars PROVE CInv'
  OBVIOUS
<1>1. NInv' /\ Lasting
  BY NextNInv, NextLasting DEF CInv
<1> DEFINE Rest == PromptsAsked /\ ActiveByConsent /\ TodoConsent /\ WireConsent
<1>2. ASSUME NEW c \in Conn, Dial(c) PROVE Rest'
  BY <1>1, <1>2, DialConsent
<1>3. ASSUME NEW n \in Pubkey, NEW c \in Conn, Receive(n, c) \/ Cut(c, n) PROVE Rest'
  BY <1>1, <1>3, ReceiveConsent, CutConsent
<1>4. ASSUME NEW n \in Pubkey, NEW k \in Pubkey, UserConfirm(n, k) PROVE Rest'
  BY <1>1, <1>4, UserConfirmConsent
<1>5. ASSUME NEW n \in Pubkey, NEW k \in Pubkey, UserDecline(n, k) PROVE Rest'
  <2>1. \A j \in Pubkey : prompts'[j] \subseteq prompts[j]
    BY <1>5 DEF UserDecline, CInv, NInv, Domains
  <2> QED
    BY <1>1, <1>5, <2>1, QuietConsent DEF UserDecline, node
<1>6. ASSUME NEW n \in Pubkey, Tick(n) \/ Dispatch(n) PROVE Rest'
  BY <1>1, <1>6, TickConsent, DispatchConsent
<1>7. ASSUME UNCHANGED <<peers, todo, wire, prompts>> PROVE Rest'
  BY <1>1, <1>7, QuietConsent
<1>8. Advance \/ UNCHANGED vars => UNCHANGED <<peers, todo, wire, prompts>>
  BY DEF Advance, vars, node
<1>9. Rest'
  BY <1>2, <1>3, <1>4, <1>5, <1>6, <1>7, <1>8 DEF Next
<1> QED
  BY <1>1, <1>9 DEF CInv

\* So who is active, and what is on its way, is always by consent.
THEOREM CInvAlways == Spec => []CInv
BY InitCInv, NextCInv, PTL DEF Spec

\* Nobody becomes an active peer against the will of either side, whatever
\* is under way from earlier handshakes, whenever users answer, and though
\* peers are forgotten and met again and streams are cut.
THEOREM NobodyActiveUnasked == Spec => []ActiveByConsent
<1>1. CInv => ActiveByConsent
  BY DEF CInv
<1> QED
  BY <1>1, CInvAlways, PTL
=============================================================================
