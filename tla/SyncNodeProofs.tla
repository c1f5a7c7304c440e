--------------------------- MODULE SyncNodeProofs ---------------------------
(***************************************************************************)
(* Theorems about SyncNode, checked by TLAPS for every value of its        *)
(* constants.  One inductive invariant, IInv, carries them: it says what   *)
(* the actions the host still has to carry out may be, relative to the     *)
(* object they were computed from.                                         *)
(***************************************************************************)
EXTENDS SyncNode, SyncObjectProofs

-----------------------------------------------------------------------------
(* The inductive invariant: the outstanding actions fit the object. *)

\* Nobody was heard from in the future.
HeardInPast == \A k \in DOMAIN peers : peers[k].last_ping <= now

IInv ==
  /\ TypeOK
  /\ HeardInPast
  /\ PeerInitsAnswerDials
  /\ PendingAwaitsHello
  /\ ListOK(todo)

-----------------------------------------------------------------------------
(* Lists. *)

\* An action that neither writes nor drops a record, nor dials.
Harmless(a) ==
  /\ a \in Action
  /\ a.type \notin {"SetPeer", "UnsetPeer", "SetPendingPeer"}
  /\ ~IsSend(a, "PeerInit")

\* A list of harmless actions is in order whatever the object holds.
LEMMA HarmlessList ==
  ASSUME NEW l, l \in Seq(Action), \A i \in DOMAIN l : Harmless(l[i])
  PROVE  ListOK(l)
BY DEF ListOK, BookActions, DialActions, Harmless

\* A list of one harmless action, such as a lone Pong or Confirm, is in order.
LEMMA HarmlessSingleton ==
  ASSUME NEW a, Harmless(a)
  PROVE  ListOK(<<a>>)
<1>1. a \in Action
  BY DEF Harmless
<1> DEFINE l == <<a>>
<1>2. l \in Seq(Action) /\ \A i \in DOMAIN l : Harmless(l[i])
  BY <1>1
<1> HIDE DEF l
<1>3. ListOK(l)
  BY <1>2, HarmlessList
<1> QED
  BY <1>3 DEF l

\* So is a list that writes a renewed record first, and only that.
LEMMA RenewingList ==
  ASSUME NEW info \in PeerInfo, Renews(info), NEW a, Harmless(a)
  PROVE  ListOK(<<SetPeer(info)>>) /\ ListOK(<<SetPeer(info), a>>)
<1>1. SetPeer(info) \in Action /\ ~IsSend(SetPeer(info), "PeerInit")
  BY DEF SetPeer, Action, SyncAction, IsSend
<1>2. a \in Action
  BY DEF Harmless
<1>3. SetPeer(info).type = "SetPeer" /\ SetPeer(info).peer_info = info
  BY DEF SetPeer
<1> HIDE DEF SetPeer
<1>4. <<SetPeer(info)>> \in Seq(Action) /\ <<SetPeer(info), a>> \in Seq(Action)
  BY <1>1, <1>2
<1>5. ListOK(<<SetPeer(info)>>)
  BY <1>1, <1>3, <1>4 DEF ListOK, BookActions, DialActions
<1>6. ListOK(<<SetPeer(info), a>>)
  BY <1>1, <1>3, <1>4 DEF ListOK, BookActions, DialActions, Harmless
<1> QED
  BY <1>5, <1>6

-----------------------------------------------------------------------------
(* Every handler returns lists that fit the object it was called on. *)

\* The empty list, returned with every error, fits.
LEMMA EmptyList == ListOK(<<>>)
BY DEF ListOK, BookActions, DialActions

\* A sealed message from us to a key, unless it is a PeerInit, is harmless.
LEMMA SealedHarmless ==
  ASSUME NEW c \in Conn, NEW p \in Peer, NEW body \in Event, body.kind # "PeerInit"
  PROVE  Harmless(MessageSend(c, create_sealed_message(Self, p, body)))
<1>1. create_sealed_message(Self, p, body) \in MessageSealed
  BY MeAssumption DEF create_sealed_message, Self, Peer, MessageSealed
<1> QED
  BY <1>1 DEF Harmless, MessageSend, create_sealed_message, Action, SyncAction, MessageWrapped, IsSend

\* process_init_message: a new, inactive record and a Hello.
LEMMA InitMessageLists ==
  ASSUME IInv, NEW k \in Remote, NEW c \in Conn,
         NEW l \in process_init_message(Self, [type |-> "Init", from |-> k], c, now).lists
  PROVE  ListOK(l)
<1> DEFINE info == new_info(tmp(k), c, now)
           send == MessageSend(c, create_sealed_message(Self, tmp(k), Hello))
<1>1. l = <<SetPeer(info), send>>
  BY DEF process_init_message, Ok
<1>2. tmp(k) \in Peer /\ info \in PeerInfo
  BY DEF tmp, Peer, new_info, PeerInfo, Remote, IInv, TypeOK, Time
<1>3. Harmless(send)
  BY <1>2, SealedHarmless, EventsTyped DEF Hello
<1>4. Renews(info)
  BY DEF Renews, new_info, tmp, IInv, HeardInPast, TypeOK, PeerInfo, Time
<1> QED
  BY <1>1, <1>2, <1>3, <1>4, RenewingList

\* peer_confirm: the peer's record made active, and a PeerConfirm.
LEMMA PeerConfirmLists ==
  ASSUME IInv, NEW k \in Remote, NEW n \in Name, NEW l \in peer_confirm(Self, k, n, now).lists
  PROVE  ListOK(l)
<1>1. CASE ~known(Self, k)
  BY <1>1, EmptyList DEF peer_confirm, Err
<1>2. CASE known(Self, k)
  <2> DEFINE info == confirmed(peers[k], n, now)
             send == MessageSend(peers[k].connection_info,
                       create_sealed_message(Self, peers[k].peer, PeerConfirm(MyName)))
  <2>1. l = <<SetPeer(info), send>>
    BY <1>2 DEF peer_confirm, Ok, Self
  <2>2. k \in DOMAIN peers /\ peers[k] \in PeerInfo /\ peers[k].peer.pubkey = k
    BY <1>2 DEF known, Self, IInv, TypeOK
  <2>3. info \in PeerInfo
    BY <2>2 DEF confirmed, PeerInfo, Peer, IInv, TypeOK, Time
  <2>4. Renews(info)
    BY <2>2 DEF Renews, confirmed, PeerInfo, Peer, IInv, TypeOK, HeardInPast, Time
  <2>5. Harmless(send)
    BY <2>2, SealedHarmless, EventsTyped, MeAssumption DEF PeerConfirm, PeerInfo
  <2> QED
    BY <2>1, <2>3, <2>4, <2>5, RenewingList
<1> QED
  BY <1>1, <1>2

\* process_event_peer_init: what peer_confirm returns, a Confirm, or nothing.
LEMMA PeerInitLists ==
  ASSUME IInv, NEW k \in Remote, NEW n \in Name,
         NEW l \in process_event_peer_init(Self, PeerInit(n), k, now).lists
  PROVE  ListOK(l)
<1>1. PeerInit(n).kind = "PeerInit" /\ PeerInit(n).name = n
  BY DEF PeerInit
<1>2. CASE can_confirm(Self.peering_config, k) = "yes"
  BY <1>1, <1>2, PeerConfirmLists DEF process_event_peer_init
<1>3. CASE can_confirm(Self.peering_config, k) = "no"
  BY <1>1, <1>3, EmptyList DEF process_event_peer_init, Ok
<1>4. CASE can_confirm(Self.peering_config, k) \notin {"yes", "no"}
  <2>1. l = <<Confirm(PeerInit(n))>>
    BY <1>1, <1>4 DEF process_event_peer_init, Ok
  <2>2. Harmless(Confirm(PeerInit(n)))
    BY EventsTyped DEF Confirm, Harmless, Action, IsSend
  <2> QED
    BY <2>1, <2>2, HarmlessSingleton
<1> QED
  BY <1>2, <1>3, <1>4

\* process_event_peer_confirm: the sender's record made active.
LEMMA PeerConfirmEventLists ==
  ASSUME IInv, NEW k \in Remote, NEW n \in Name,
         NEW l \in process_event_peer_confirm(Self, PeerConfirm(n), k, now).lists
  PROVE  ListOK(l)
<1>1. CASE ~known(Self, k)
  BY <1>1, EmptyList DEF process_event_peer_confirm, FromPeer, Err
<1>2. CASE known(Self, k)
  <2> DEFINE info == confirmed(peers[k], n, now)
  <2>1. l = <<SetPeer(info)>>
    BY <1>2 DEF process_event_peer_confirm, FromPeer, Ok, Self, PeerConfirm
  <2>2. k \in DOMAIN peers /\ peers[k] \in PeerInfo /\ peers[k].peer.pubkey = k
    BY <1>2 DEF known, Self, IInv, TypeOK
  <2>3. info \in PeerInfo
    BY <2>2 DEF confirmed, PeerInfo, Peer, IInv, TypeOK, Time
  <2>4. Renews(info)
    BY <2>2 DEF Renews, confirmed, PeerInfo, Peer, IInv, TypeOK, HeardInPast, Time
  <2>5. Harmless(Confirm(Hello))
    BY EventsTyped DEF Confirm, Harmless, Action, IsSend
  <2> QED
    BY <2>1, <2>3, <2>4, <2>5, RenewingList
<1> QED
  BY <1>1, <1>2

\* process_event_hello: of an address that is pending, the record of the
\* sender, the end of the dial, and the one PeerInit that answers it.
LEMMA HelloLists ==
  ASSUME IInv, NEW k \in Remote, NEW c \in Conn,
         NEW l \in process_event_hello(Self, Hello, k, c, now).lists
  PROVE  ListOK(l)
<1>1. CASE ~is_pending(Self, c)
  BY <1>1, EmptyList DEF process_event_hello, Ok, Hello
<1>2. CASE is_pending(Self, c)
  <2> DEFINE info == new_info(tmp(k), c, now)
             m == create_sealed_message(Self, tmp(k), PeerInit(MyName))
             a1 == SetPeer(info)
             a2 == UnsetPendingPeer(c)
             a3 == MessageSend(c, m)
  <2>1. l = <<a1, a2, a3>>
    BY <1>2 DEF process_event_hello, Ok, Hello, Self
  <2>2. tmp(k) \in Peer /\ info \in PeerInfo
    BY DEF tmp, Peer, new_info, PeerInfo, Remote, IInv, TypeOK, Time
  <2>3. Renews(info)
    BY DEF Renews, new_info, tmp, IInv, HeardInPast, TypeOK, PeerInfo, Time
  <2>4. a1 \in Action /\ a1.type = "SetPeer" /\ a1.peer_info = info /\ ~IsSend(a1, "PeerInit")
    BY <2>2 DEF SetPeer, Action, SyncAction, IsSend
  <2>5. a2 \in Action /\ a2.type = "UnsetPendingPeer" /\ ~IsSend(a2, "PeerInit")
    BY DEF UnsetPendingPeer, Action, SyncAction, IsSend
  <2>6. m \in MessageSealed
    BY <2>2, EventsTyped, MeAssumption DEF create_sealed_message, Self, Peer, MessageSealed
  <2>7. a3 \in Action /\ a3.type = "MessageSend" /\ a3.to = c
    BY <2>6 DEF MessageSend, Action, MessageWrapped
  <2>8. unanswered[c] > 0
    BY <1>2 DEF is_pending, Self, IInv, PendingAwaitsHello
  <2>9. a2 = UnsetPendingPeer(a3.to)
    BY <2>7
  <2> HIDE DEF info, m, a1, a2, a3
  <2>10. l \in Seq(Action)
    BY <2>1, <2>4, <2>5, <2>7
  <2>11. DOMAIN l = 1..3 /\ l[1] = a1 /\ l[2] = a2 /\ l[3] = a3
    BY <2>1
  <2>12. BookActions(l)
    BY <2>3, <2>4, <2>5, <2>7, <2>11 DEF BookActions
  <2>13. DialActions(l)
    BY <2>4, <2>5, <2>7, <2>8, <2>9, <2>11 DEF DialActions
  <2> QED
    BY <2>10, <2>12, <2>13 DEF ListOK
<1> QED
  BY <1>1, <1>2

\* process_event_ping: the sender's record marked seen, and a Pong.
LEMMA PingLists ==
  ASSUME IInv, NEW k \in Remote, NEW l \in process_event_ping(Self, Ping, k, now).lists
  PROVE  ListOK(l)
<1>1. CASE ~known(Self, k)
  BY <1>1, EmptyList DEF process_event_ping, FromPeer, Err
<1>2. CASE known(Self, k)
  <2> DEFINE info == seen(peers[k], now)
             send == MessageSend(peers[k].connection_info,
                       create_sealed_message(Self, peers[k].peer, Pong))
  <2>1. l = <<SetPeer(info), send>>
    BY <1>2 DEF process_event_ping, FromPeer, Ok, Self, Ping
  <2>2. k \in DOMAIN peers /\ peers[k] \in PeerInfo /\ peers[k].peer.pubkey = k
    BY <1>2 DEF known, Self, IInv, TypeOK
  <2>3. info \in PeerInfo
    BY <2>2 DEF seen, PeerInfo, IInv, TypeOK, Time
  <2>4. Renews(info)
    BY <2>2 DEF Renews, seen, PeerInfo, IInv, TypeOK, HeardInPast, Time
  <2>5. Harmless(send)
    BY <2>2, SealedHarmless, EventsTyped DEF Pong, PeerInfo
  <2> QED
    BY <2>1, <2>3, <2>4, <2>5, RenewingList
<1> QED
  BY <1>1, <1>2

\* process_event_pong: the sender's record marked seen.
LEMMA PongLists ==
  ASSUME IInv, NEW k \in Remote, NEW l \in process_event_pong(Self, Pong, k, now).lists
  PROVE  ListOK(l)
<1>1. CASE ~known(Self, k)
  BY <1>1, EmptyList DEF process_event_pong, FromPeer, Err
<1>2. CASE known(Self, k)
  <2> DEFINE info == seen(peers[k], now)
  <2>1. l = <<SetPeer(info)>>
    BY <1>2 DEF process_event_pong, FromPeer, Ok, Self, Pong
  <2>2. k \in DOMAIN peers /\ peers[k] \in PeerInfo /\ peers[k].peer.pubkey = k
    BY <1>2 DEF known, Self, IInv, TypeOK
  <2>3. info \in PeerInfo
    BY <2>2 DEF seen, PeerInfo, IInv, TypeOK, Time
  <2>4. Renews(info)
    BY <2>2 DEF Renews, seen, PeerInfo, IInv, TypeOK, HeardInPast, Time
  <2>5. Harmless(Confirm(Hello))
    BY EventsTyped DEF Confirm, Harmless, Action, IsSend
  <2> QED
    BY <2>1, <2>3, <2>4, <2>5, RenewingList
<1> QED
  BY <1>1, <1>2

-----------------------------------------------------------------------------
(* tick, and the handlers that walk a set. *)

\* The pending list is finite: it has at most one entry per address.
LEMMA PendingFinite ==
  ASSUME IInv
  PROVE  IsFiniteSet(pending_peer_init)
<1> DEFINE f == [p \in pending_peer_init |-> p.connection_info]
<1>1. f \in Injection(pending_peer_init, Conn)
  BY DEF IInv, TypeOK, PendingAwaitsHello, PendingPeer, Injection, IsInjective
<1> QED
  BY <1>1, ConnAssumption, FS_Injection

\* So tick walks finitely many peers and dials.
LEMMA DueFinite ==
  ASSUME IInv
  PROVE  IsFiniteSet(due(Self, now)) /\ IsFiniteSet(stale(Self, now))
<1>1. IsFiniteSet(due(Self, now))
  BY PubkeyAssumption, FS_Subset DEF due, Self, IInv, TypeOK, Remote
<1>2. IsFiniteSet(stale(Self, now))
  BY PendingFinite, FS_Subset DEF stale, Self
<1> QED
  BY <1>1, <1>2

\* tick: expired records dropped, pings, and old dials given up.
LEMMA TickLists ==
  ASSUME IInv, NEW l \in tick(Self, now).lists
  PROVE  ListOK(l)
<1> DEFINE Fits(a) == /\ a \in Action /\ a.type \notin {"SetPeer", "SetPendingPeer"}
                      /\ ~IsSend(a, "PeerInit")
                      /\ a.type = "UnsetPeer" => Expired(a.pubkey)
<1>1. IsFiniteSet(due(Self, now)) /\ IsFiniteSet(stale(Self, now))
  BY DueFinite
<1>2. ASSUME NEW k \in due(Self, now)
      PROVE  Fits(tick_peer(Self, k, now))
  <2>1. k \in DOMAIN peers /\ k \in Remote /\ peers[k] \in PeerInfo
    BY DEF due, Self, IInv, TypeOK
  <2>2. CASE now - peers[k].last_ping > 180 /\ ~peers[k].active
    <3>1. tick_peer(Self, k, now) = UnsetPeer(k)
      BY <2>2 DEF tick_peer, Self
    <3> QED
      BY <2>1, <2>2, <3>1 DEF UnsetPeer, Expired, Action, SyncAction, IsSend, Remote
  <2>3. CASE ~(now - peers[k].last_ping > 180 /\ ~peers[k].active)
    <3> DEFINE send == MessageSend(peers[k].connection_info,
                         create_sealed_message(Self, peers[k].peer, Ping))
    <3>1. tick_peer(Self, k, now) = send
      BY <2>3 DEF tick_peer, Self
    <3>2. Harmless(send)
      BY <2>1, SealedHarmless, EventsTyped DEF Ping, PeerInfo
    <3> QED
      BY <3>1, <3>2 DEF Harmless
  <2> QED
    BY <2>2, <2>3
<1>3. ASSUME NEW p \in stale(Self, now)
      PROVE  Fits(UnsetPendingPeer(p.connection_info))
  BY DEF stale, Self, IInv, TypeOK, PendingPeer, UnsetPendingPeer, Action, SyncAction, IsSend
<1> HIDE DEF Fits
<1>4. l \in Seq({tick_peer(Self, k, now) : k \in due(Self, now)}
                  \cup {UnsetPendingPeer(p.connection_info) : p \in stale(Self, now)})
      /\ \A i \in DOMAIN l : Fits(l[i])
  BY <1>1, <1>2, <1>3, TickActions
<1>5. l \in Seq(Action) /\ \A i \in DOMAIN l : Fits(l[i])
  BY <1>4 DEF Fits
<1> QED
  BY <1>5 DEF ListOK, BookActions, DialActions, Fits

\* process_event_subscribe: one SetSubscription per verified subscription.
LEMMA SubscribeLists ==
  ASSUME IInv, NEW k \in Remote, NEW subs \in SUBSET Subscription,
         NEW l \in process_event_subscribe(Self, [kind |-> "Subscribe", subscriptions |-> subs], k).lists
  PROVE  ListOK(l)
<1> DEFINE valid == {s \in subs : s.valid}
           act(s) == SetSubscription(s.topic, peers[k].peer)
<1>1. CASE ~known(Self, k)
  BY <1>1, EmptyList DEF process_event_subscribe, FromPeer, Err
<1>2. CASE known(Self, k)
  <2>1. PICK o \in SetToSeqs(valid) : l = [i \in DOMAIN o |-> act(o[i])]
    BY <1>2 DEF process_event_subscribe, FromPeer, InAnyOrder, Ok, Self
  <2>2. IsFiniteSet(valid)
    <3> DEFINE f == [s \in valid |-> s.topic]
    <3>1. f \in Injection(valid, Topic)
      BY DEF Injection, IsInjective, Subscription
    <3> QED
      BY <3>1, TopicAssumption, FS_Injection
  <2>3. o \in Seq(valid) /\ \A i \in DOMAIN o : o[i] \in valid
    BY <2>2, AnyOrderIsSeq
  <2>4. peers[k].peer \in Peer
    BY <1>2 DEF known, Self, IInv, TypeOK, PeerInfo
  <2>5. \A s \in valid : Harmless(act(s))
    BY <2>4 DEF SetSubscription, Subscription, Harmless, Action, SyncAction, IsSend
  <2> HIDE DEF act
  <2>6. l \in Seq(Action) /\ \A i \in DOMAIN l : Harmless(l[i])
    BY <2>1, <2>3, <2>5 DEF Harmless
  <2> QED
    BY <2>6, HarmlessList
<1> QED
  BY <1>1, <1>2

\* process_event_unsubscribe: one UnsetSubscription per topic.
LEMMA UnsubscribeLists ==
  ASSUME IInv, NEW k \in Remote, NEW topics \in SUBSET Topic,
         NEW l \in process_event_unsubscribe(Self, [kind |-> "Unsubscribe", topics |-> topics], k).lists
  PROVE  ListOK(l)
<1> DEFINE act(t) == UnsetSubscription(t, peers[k].peer)
<1>1. CASE ~known(Self, k)
  BY <1>1, EmptyList DEF process_event_unsubscribe, FromPeer, Err
<1>2. CASE known(Self, k)
  <2>1. PICK o \in SetToSeqs(topics) : l = [i \in DOMAIN o |-> act(o[i])]
    BY <1>2 DEF process_event_unsubscribe, FromPeer, InAnyOrder, Ok, Self
  <2>2. o \in Seq(topics) /\ \A i \in DOMAIN o : o[i] \in topics
    BY TopicAssumption, FS_Subset, AnyOrderIsSeq
  <2>3. peers[k].peer \in Peer
    BY <1>2 DEF known, Self, IInv, TypeOK, PeerInfo
  <2>4. \A t \in topics : Harmless(act(t))
    BY <2>3 DEF UnsetSubscription, Harmless, Action, SyncAction, IsSend
  <2> HIDE DEF act
  <2>5. l \in Seq(Action) /\ \A i \in DOMAIN l : Harmless(l[i])
    BY <2>1, <2>2, <2>4 DEF Harmless
  <2> QED
    BY <2>5, HarmlessList
<1> QED
  BY <1>1, <1>2

\* process_event_query_subscriptions: one ActiveSubscriptions.
LEMMA QuerySubscriptionsLists ==
  ASSUME IInv, NEW k \in Remote,
         NEW l \in process_event_query_subscriptions(Self, [kind |-> "QuerySubscriptions"], k).lists
  PROVE  ListOK(l)
<1>1. CASE ~known(Self, k)
  BY <1>1, EmptyList DEF process_event_query_subscriptions, FromPeer, Err
<1>2. CASE known(Self, k)
  <2> DEFINE topics == {t \in DOMAIN subscriptions : peers[k].peer \in subscriptions[t]}
             send == MessageSend(peers[k].connection_info,
                       create_sealed_message(Self, peers[k].peer, ActiveSubscriptions(topics)))
  <2>1. l = <<send>>
    BY <1>2 DEF process_event_query_subscriptions, FromPeer, Ok, Self
  <2>2. peers[k] \in PeerInfo /\ topics \in SUBSET Topic
    BY <1>2 DEF known, Self, IInv, TypeOK
  <2>3. ActiveSubscriptions(topics) \in Event /\ ActiveSubscriptions(topics).kind # "PeerInit"
    BY <2>2, EventsTyped DEF ActiveSubscriptions
  <2>4. Harmless(send)
    BY <2>2, <2>3, SealedHarmless DEF PeerInfo
  <2> QED
    BY <2>1, <2>4, HarmlessSingleton
<1> QED
  BY <1>1, <1>2

\* process_event_query_messages_*: one User message per message found that
\* the sender subscribes to.
LEMMA QueryMessagesLists ==
  ASSUME IInv, NEW k \in Remote, NEW kind, NEW body, NEW found \in SUBSET Messages,
         NEW l \in SendSubscribed(Self, body, kind, k, found).lists
  PROVE  ListOK(l)
<1> DEFINE sent == {m \in found : filter_message_by_peer(Self, peers[k].peer, m)}
           act(m) == MessageSend(peers[k].connection_info,
                       create_sealed_message(Self, peers[k].peer, User(m)))
<1>1. CASE found = {} \/ body.kind # kind \/ ~known(Self, k)
  BY <1>1, EmptyList DEF SendSubscribed, FromPeer, Err, Ok
<1>2. CASE found # {} /\ body.kind = kind /\ known(Self, k)
  <2>1. PICK o \in SetToSeqs(sent) : l = [i \in DOMAIN o |-> act(o[i])]
    BY <1>2 DEF SendSubscribed, FromPeer, InAnyOrder, Ok, Self
  <2>2. IsFiniteSet(sent)
    BY MessagesAssumption, FS_Subset
  <2>3. o \in Seq(sent) /\ \A i \in DOMAIN o : o[i] \in sent
    BY <2>2, AnyOrderIsSeq
  <2>4. peers[k] \in PeerInfo
    BY <1>2 DEF known, Self, IInv, TypeOK
  <2>5. ASSUME NEW m \in sent PROVE Harmless(act(m))
    <3>1. User(m) \in Event /\ User(m).kind # "PeerInit"
      BY MessagesAssumption, EventsTyped DEF User
    <3> QED
      BY <2>4, <3>1, SealedHarmless DEF PeerInfo
  <2> HIDE DEF act
  <2>6. l \in Seq(Action) /\ \A i \in DOMAIN l : Harmless(l[i])
    BY <2>1, <2>3, <2>5 DEF Harmless
  <2> QED
    BY <2>6, HarmlessList
<1> QED
  BY <1>1, <1>2

-----------------------------------------------------------------------------
(* Invariance.  A handler's step leaves the object alone and its list fits  *)
(* (the lemmas above); carrying out an action keeps the rest of the list    *)
(* fitting.                                                                 *)

\* The invariant holds of a new Sync object (sync.rs:159) with nothing to do.
LEMMA InitIInv == Init => IInv
<1> SUFFICES ASSUME Init PROVE IInv
  OBVIOUS
<1>1. TypeOK
  BY ConfigsAssumption DEF Init, TypeOK, Action
<1>2. ListOK(todo)
  BY EmptyList DEF Init
<1> QED
  BY <1>1, <1>2 DEF Init, IInv, HeardInPast, PeerInitsAnswerDials, PendingAwaitsHello

\* What a handler's step that only returns a list does to the invariant.
LEMMA HandlerStep ==
  ASSUME IInv, UNCHANGED <<object, peering_config, now, unanswered>>, ListOK(todo'),
         wanted' \subseteq Topic \X Peer, released' \subseteq Topic \X Pubkey
  PROVE  IInv'
<1>1. TypeOK'
  BY DEF IInv, TypeOK, object, ListOK
<1>2. ListOK(todo)'
  BY DEF ListOK, BookActions, DialActions, Renews, Expired, IsPending, object
<1> QED
  BY <1>1, <1>2 DEF IInv, HeardInPast, PeerInitsAnswerDials, PendingAwaitsHello, object

\* Dialing: the new entry of the pending list counts as one dial more.
LEMMA InitCommStep ==
  ASSUME IInv, NEW c \in Conn, InitComm(c)
  PROVE  IInv'
<1> DEFINE p == [connection_info |-> c, created |-> now]
           m == [type |-> "Init", from |-> Me]
           a1 == SetPendingPeer(p)
           a2 == MessageSend(c, m)
<1>1. todo' = <<a1, a2>> /\ UNCHANGED <<object, peering_config, now, wanted, released>>
  BY DEF InitComm, Handle, init_comm, Ok, Self
<1>2. unanswered' = [unanswered EXCEPT ![c] = @ + 1] /\ unanswered \in [Conn -> Int]
  BY DEF InitComm, IInv, TypeOK
<1>3. a1 \in Action /\ a1.type = "SetPendingPeer" /\ a1.pending_peer.connection_info = c /\ ~IsSend(a1, "PeerInit")
  BY DEF SetPendingPeer, Action, SyncAction, PendingPeer, Time, IInv, TypeOK, IsSend
<1>4. a2 \in Action /\ a2.type = "MessageSend" /\ ~IsSend(a2, "PeerInit")
  BY MeAssumption DEF MessageSend, Action, MessageWrapped, MessageInit, IsSend
<1>5. unanswered'[c] > 0 /\ \A d \in Conn : unanswered'[d] >= unanswered[d]
  BY <1>2 DEF IInv, PeerInitsAnswerDials
<1> HIDE DEF a1, a2
<1>6. todo' \in Seq(Action) /\ DOMAIN todo' = 1..2 /\ todo'[1] = a1 /\ todo'[2] = a2
  BY <1>1, <1>3, <1>4
<1>7. ListOK(todo)'
  BY <1>3, <1>4, <1>5, <1>6 DEF ListOK, BookActions, DialActions, IsSend
<1>8. TypeOK'
  BY <1>1, <1>2, <1>6 DEF IInv, TypeOK, object
<1>9. PeerInitsAnswerDials' /\ PendingAwaitsHello'
  BY <1>1, <1>2, <1>5 DEF IInv, TypeOK, PendingPeer, PeerInitsAnswerDials, PendingAwaitsHello, object
<1> QED
  BY <1>1, <1>7, <1>8, <1>9 DEF IInv, HeardInPast, object

\* Carrying out an action keeps the object well-formed.
LEMMA DispatchType ==
  ASSUME IInv, Dispatch
  PROVE  TypeOK'
<1> DEFINE a == Head(todo)
<1>1. todo \in Seq(Action) /\ todo # <<>> /\ a \in Action /\ Tail(todo) \in Seq(Action) /\ a = todo[1] /\ 1 \in DOMAIN todo
  BY DEF IInv, ListOK, Dispatch
<1> HIDE DEF a
<1>2. /\ DOMAIN peers' \subseteq Remote /\ peers' \in [DOMAIN peers' -> PeerInfo]
      /\ \A k \in DOMAIN peers' : peers'[k].peer.pubkey = k
  <2>0. peers' = apply_peers(peers, a)
    BY DEF Dispatch, a
  <2>1. CASE a.type = "SetPeer"
    <3>1. a.peer_info \in PeerInfo /\ a.peer_info.peer.pubkey \in Remote
      BY <1>1, <2>1 DEF Action, SyncAction, IInv, ListOK, BookActions, Renews
    <3>2. peers' = [x \in DOMAIN peers \cup {a.peer_info.peer.pubkey} |->
                     IF x = a.peer_info.peer.pubkey THEN a.peer_info ELSE peers[x]]
      BY <2>0, <2>1 DEF apply_peers
    <3> QED
      BY <3>1, <3>2 DEF IInv, TypeOK
  <2>2. CASE a.type = "UnsetPeer"
    BY <2>0, <2>2 DEF apply_peers, IInv, TypeOK
  <2>3. CASE a.type \notin {"SetPeer", "UnsetPeer"}
    BY <2>0, <2>3 DEF apply_peers, IInv, TypeOK
  <2> QED
    BY <2>1, <2>2, <2>3
<1>3. pending_peer_init' \in SUBSET PendingPeer
  <2>0. pending_peer_init' = apply_pending(pending_peer_init, a)
    BY DEF Dispatch, a
  <2>1. a.type = "SetPendingPeer" => a.pending_peer \in PendingPeer
    BY <1>1 DEF Action, SyncAction
  <2> QED
    BY <2>0, <2>1 DEF apply_pending, IInv, TypeOK
<1>4. DOMAIN subscriptions' \subseteq Topic /\ subscriptions' \in [DOMAIN subscriptions' -> SUBSET Peer]
  <2>0. subscriptions' = apply_subscriptions(subscriptions, a)
    BY DEF Dispatch, a
  <2>1. a.type \in {"SetSubscription", "UnsetSubscription"} => a.topic \in Topic /\ a.peer \in Peer
    BY <1>1 DEF Action, SyncAction
  <2>2. CASE a.type = "SetSubscription"
    <3>1. subscriptions' = [t \in DOMAIN subscriptions \cup {a.topic} |->
            IF t = a.topic THEN subscribers(subscriptions, t) \cup {a.peer} ELSE subscriptions[t]]
      BY <2>0, <2>2 DEF apply_subscriptions
    <3> QED
      BY <2>1, <2>2, <3>1 DEF subscribers, IInv, TypeOK
  <2>3. CASE a.type = "UnsetSubscription"
    <3> DEFINE left == subscribers(subscriptions, a.topic) \ {a.peer}
    <3>1. subscriptions' = [t \in IF left = {} THEN DOMAIN subscriptions \ {a.topic} ELSE DOMAIN subscriptions |->
                             IF t = a.topic THEN left ELSE subscriptions[t]]
      BY <2>0, <2>3 DEF apply_subscriptions
    <3>2. left \in SUBSET Peer
      BY DEF subscribers, IInv, TypeOK
    <3> QED
      BY <2>1, <2>3, <3>1, <3>2 DEF IInv, TypeOK
  <2>4. CASE a.type \notin {"SetSubscription", "UnsetSubscription"}
    BY <2>0, <2>4 DEF apply_subscriptions, IInv, TypeOK
  <2> QED
    BY <2>2, <2>3, <2>4
<1>5. unanswered' \in [Conn -> Int]
  <2>1. unanswered' = IF IsSend(a, "PeerInit") THEN [unanswered EXCEPT ![a.to] = @ - 1] ELSE unanswered
    BY DEF Dispatch, a
  <2>2. unanswered \in [Conn -> Int]
    BY DEF IInv, TypeOK
  <2>3. CASE IsSend(a, "PeerInit")
    <3>1. a.to \in Conn
      BY <1>1, <2>3 DEF IsSend, Action, SyncAction
    <3>2. unanswered' = [unanswered EXCEPT ![a.to] = @ - 1]
      BY <2>1, <2>3
    <3> QED
      BY <2>2, <3>1, <3>2
  <2> QED
    BY <2>1, <2>2, <2>3
<1> QED
  BY <1>1, <1>2, <1>3, <1>4, <1>5 DEF Dispatch, IInv, TypeOK, a

\* Carrying out an action keeps the rest of the list fitting the book.
LEMMA DispatchBook ==
  ASSUME IInv, Dispatch
  PROVE  HeardInPast' /\ BookActions(todo)'
<1> DEFINE a == Head(todo)
<1>1. todo \in Seq(Action) /\ todo # <<>> /\ a \in Action /\ a = todo[1] /\ 1 \in DOMAIN todo
  BY DEF IInv, ListOK, Dispatch
<1>2. todo' = Tail(todo) /\ now' = now /\ peers' = apply_peers(peers, a)
  BY DEF Dispatch
<1>3. \A i \in DOMAIN todo' : i + 1 \in DOMAIN todo /\ todo'[i] = todo[i + 1] /\ i \in Nat \ {0}
  BY <1>1, <1>2
<1> HIDE DEF a
<1>4. BookActions(todo) /\ HeardInPast /\ now \in Nat
  BY DEF IInv, ListOK, TypeOK
<1>5. \A i \in DOMAIN todo' : todo'[i].type # "SetPeer"
  BY <1>3, <1>4 DEF BookActions
<1>6. \A i \in DOMAIN todo' : todo'[i].type = "UnsetPeer" => Expired(todo'[i].pubkey)
  BY <1>3, <1>4 DEF BookActions
<1>7. CASE a.type = "SetPeer"
  <2>1. Renews(a.peer_info) /\ \A j \in DOMAIN todo : todo[j].type # "UnsetPeer"
    BY <1>1, <1>4, <1>7 DEF BookActions
  <2>2. peers' = [x \in DOMAIN peers \cup {a.peer_info.peer.pubkey} |->
                   IF x = a.peer_info.peer.pubkey THEN a.peer_info ELSE peers[x]]
    BY <1>2, <1>7 DEF apply_peers
  <2>3. HeardInPast'
    BY <1>2, <1>4, <2>1, <2>2 DEF HeardInPast, Renews
  <2>4. BookActions(todo)'
    BY <1>3, <1>5, <2>1 DEF BookActions
  <2> QED
    BY <2>3, <2>4
<1>8. CASE a.type = "UnsetPeer"
  <2>1. peers' = [x \in DOMAIN peers \ {a.pubkey} |-> peers[x]]
    BY <1>2, <1>8 DEF apply_peers
  <2>2. HeardInPast'
    BY <1>2, <1>4, <2>1 DEF HeardInPast
  <2>3. BookActions(todo)'
    BY <1>2, <1>5, <1>6, <2>1 DEF BookActions, Expired
  <2> QED
    BY <2>2, <2>3
<1>9. CASE a.type \notin {"SetPeer", "UnsetPeer"}
  <2>1. peers' = peers
    BY <1>2, <1>9 DEF apply_peers
  <2>2. HeardInPast'
    BY <1>2, <1>4, <2>1 DEF HeardInPast
  <2>3. BookActions(todo)'
    BY <1>2, <1>5, <1>6, <2>1 DEF BookActions, Expired
  <2> QED
    BY <2>2, <2>3
<1> QED
  BY <1>7, <1>8, <1>9

\* Carrying out an action keeps the account of the dials: the PeerInit that
\* takes one off the account leaves after its address left the list.
LEMMA DispatchDials ==
  ASSUME IInv, Dispatch
  PROVE  PeerInitsAnswerDials' /\ PendingAwaitsHello' /\ DialActions(todo)'
<1> DEFINE a == Head(todo)
<1>1. todo \in Seq(Action) /\ todo # <<>> /\ a \in Action /\ a = todo[1] /\ 1 \in DOMAIN todo
  BY DEF IInv, ListOK, Dispatch
<1>2. /\ todo' = Tail(todo)
      /\ pending_peer_init' = apply_pending(pending_peer_init, a)
      /\ unanswered' = IF IsSend(a, "PeerInit") THEN [unanswered EXCEPT ![a.to] = @ - 1] ELSE unanswered
  BY DEF Dispatch
<1>3. /\ \A i \in DOMAIN todo' : i + 1 \in DOMAIN todo /\ todo'[i] = todo[i + 1] /\ i \in Nat \ {0}
      /\ \A i \in DOMAIN todo : i # 1 => i - 1 \in DOMAIN todo' /\ todo'[i - 1] = todo[i]
      /\ DOMAIN todo \subseteq Nat \ {0}
  BY <1>1, <1>2
<1> HIDE DEF a
<1>4. /\ DialActions(todo) /\ PeerInitsAnswerDials /\ PendingAwaitsHello
      /\ unanswered \in [Conn -> Int] /\ pending_peer_init \in SUBSET PendingPeer
  BY DEF IInv, ListOK, TypeOK
<1>5. \A i \in DOMAIN todo' : todo'[i] \in Action
  BY <1>1, <1>3
<1>6. CASE IsSend(a, "PeerInit")
  <2>1. a.to \in Conn /\ unanswered[a.to] > 0 /\ ~IsPending(a.to)
    BY <1>1, <1>3, <1>4, <1>6 DEF DialActions, Action, SyncAction, IsSend
  <2>2. \A i \in DOMAIN todo' : ~IsSend(todo'[i], "PeerInit") /\ todo'[i].type # "SetPendingPeer"
    BY <1>1, <1>3, <1>4, <1>6 DEF DialActions
  <2>3. pending_peer_init' = pending_peer_init
    BY <1>2, <1>6 DEF apply_pending, IsSend
  <2>4. unanswered' = [unanswered EXCEPT ![a.to] = @ - 1]
    BY <1>2, <1>6
  <2>5. PeerInitsAnswerDials'
    BY <1>4, <2>1, <2>4 DEF PeerInitsAnswerDials
  <2>6. PendingAwaitsHello'
    BY <1>4, <2>1, <2>3, <2>4 DEF PendingAwaitsHello, IsPending, PendingPeer
  <2> QED
    BY <2>2, <2>5, <2>6 DEF DialActions
<1>7. CASE ~IsSend(a, "PeerInit")
  <2>1. unanswered' = unanswered
    BY <1>2, <1>7
  <2>2. PeerInitsAnswerDials'
    BY <1>4, <2>1 DEF PeerInitsAnswerDials
  <2>3. a.type = "SetPendingPeer" =>
          a.pending_peer \in PendingPeer /\ unanswered[a.pending_peer.connection_info] > 0
    BY <1>1, <1>4 DEF DialActions, Action, SyncAction
  <2>4. PendingAwaitsHello'
    BY <1>2, <1>4, <2>1, <2>3 DEF PendingAwaitsHello, apply_pending
  <2>5. ASSUME NEW i \in DOMAIN todo', IsSend(todo'[i], "PeerInit"),
               NEW p \in pending_peer_init', p.connection_info = todo'[i].to
        PROVE  \E j \in DOMAIN todo' : j < i /\ todo'[j] = UnsetPendingPeer(todo'[i].to)
    <3> DEFINE c == todo'[i].to
    <3>1. a.type # "SetPendingPeer"
      BY <1>1, <1>3, <1>4, <2>5 DEF DialActions
    <3>2. p \in pending_peer_init /\ a # UnsetPendingPeer(c)
      BY <1>2, <2>5, <3>1 DEF apply_pending, UnsetPendingPeer
    <3>3. PICK j \in DOMAIN todo : j < i + 1 /\ todo[j] = UnsetPendingPeer(c)
      BY <1>3, <1>4, <2>5, <3>2 DEF DialActions, IsPending
    <3>4. j # 1
      BY <1>1, <3>2, <3>3
    <3> QED
      BY <1>3, <3>3, <3>4
  <2>6. ASSUME NEW i \in DOMAIN todo'
        PROVE  /\ todo'[i].type = "SetPendingPeer" => unanswered'[todo'[i].pending_peer.connection_info] > 0
               /\ IsSend(todo'[i], "PeerInit") =>
                    /\ unanswered'[todo'[i].to] > 0
                    /\ \A j \in DOMAIN todo' : j # i => ~IsSend(todo'[j], "PeerInit")
                    /\ \A j \in DOMAIN todo' : todo'[j].type # "SetPendingPeer"
    BY <1>3, <1>4, <2>1 DEF DialActions
  <2>7. DialActions(todo)'
    BY <2>5, <2>6 DEF DialActions, IsPending
  <2> QED
    BY <2>2, <2>4, <2>7
<1> QED
  BY <1>6, <1>7

\* So carrying out an action preserves the invariant.
LEMMA DispatchStep ==
  ASSUME IInv, Dispatch
  PROVE  IInv'
<1>1. (todo \in Seq(Action))'
  BY DispatchType DEF TypeOK
<1> QED
  BY <1>1, DispatchType, DispatchBook, DispatchDials DEF IInv, ListOK

\* Time only makes last_pings older.
LEMMA AdvanceStep ==
  ASSUME IInv, Advance
  PROVE  IInv'
<1>1. now' \in Nat /\ now <= now' /\ UNCHANGED <<object, peering_config, todo, history>>
  BY TimeAssumption DEF Advance, IInv, TypeOK
<1>2. TypeOK'
  BY <1>1 DEF IInv, TypeOK, object, history
<1>3. HeardInPast'
  BY <1>1 DEF IInv, TypeOK, HeardInPast, object, PeerInfo, Time
<1>4. PeerInitsAnswerDials' /\ PendingAwaitsHello' /\ DialActions(todo)'
  BY <1>1 DEF IInv, ListOK, PeerInitsAnswerDials, PendingAwaitsHello, DialActions, IsPending, object, history
<1>5. BookActions(todo)'
  <2>1. \A i \in DOMAIN todo : todo[i].type = "SetPeer" => todo[i].peer_info \in PeerInfo
    BY DEF IInv, ListOK, Action, SyncAction
  <2> QED
    BY <1>1, <2>1 DEF IInv, ListOK, TypeOK, BookActions, Renews, Expired, PeerInfo, Time, object
<1> QED
  BY <1>1, <1>2, <1>3, <1>4, <1>5 DEF IInv, ListOK, TypeOK

-----------------------------------------------------------------------------
(* The theorems. *)

\* A handler's step with the history of subscriptions unchanged.
LEMMA PlainHandlerStep ==
  ASSUME IInv, UNCHANGED <<object, peering_config, now, history>>, ListOK(todo')
  PROVE  IInv'
BY HandlerStep DEF IInv, TypeOK, history

\* Subscribing only adds to the history of subscriptions, and that well-typed.
LEMMA SubscribeStep ==
  ASSUME IInv, NEW k \in Remote, NEW subs \in SUBSET Subscription, ReceiveSubscribe(k, subs)
  PROVE  IInv'
<1> DEFINE body == [kind |-> "Subscribe", subscriptions |-> subs]
           topics == {s.topic : s \in {x \in subs : x.valid}}
<1>1. ListOK(todo') /\ UNCHANGED <<object, peering_config, now, unanswered>>
  BY SubscribeLists DEF ReceiveSubscribe, Handle
<1>2. k \in DOMAIN peers
  BY DEF ReceiveSubscribe, Unwraps, unwrap_incoming_message, known, Self
<1>3. topics \subseteq Topic /\ peers[k].peer \in Peer /\ k \in Pubkey
  BY <1>2 DEF Subscription, IInv, TypeOK, PeerInfo, Remote
<1>4. wanted' = wanted \cup (topics \X {peers[k].peer}) /\ released' = released \ (topics \X {k})
  BY DEF ReceiveSubscribe
<1>5. wanted' \subseteq Topic \X Peer /\ released' \subseteq Topic \X Pubkey
  BY <1>3, <1>4 DEF IInv, TypeOK
<1> QED
  BY <1>1, <1>5, HandlerStep

\* Unsubscribing only takes from it, and notes who was released.
LEMMA UnsubscribeStep ==
  ASSUME IInv, NEW k \in Remote, NEW topics \in SUBSET Topic, ReceiveUnsubscribe(k, topics)
  PROVE  IInv'
<1>1. ListOK(todo') /\ UNCHANGED <<object, peering_config, now, unanswered>>
  BY UnsubscribeLists DEF ReceiveUnsubscribe, Handle
<1>2. wanted' = wanted \ (topics \X {peers[k].peer}) /\ released' = released \cup (topics \X {k})
  BY DEF ReceiveUnsubscribe
<1>3. wanted' \subseteq Topic \X Peer /\ released' \subseteq Topic \X Pubkey
  BY <1>2 DEF IInv, TypeOK, Remote
<1> QED
  BY <1>1, <1>3, HandlerStep

\* Every step preserves the invariant.
LEMMA NextIInv == IInv /\ [Next]_vars => IInv'
<1> SUFFICES ASSUME IInv, [Next]_vars PROVE IInv'
  OBVIOUS
<1>1. ASSUME NEW c \in Conn, InitComm(c) PROVE IInv'
  BY <1>1, InitCommStep
<1>2. ASSUME NEW k \in Remote, NEW c \in Conn, ReceiveInit(k, c) PROVE IInv'
  BY <1>2, InitMessageLists, PlainHandlerStep DEF ReceiveInit, Handle
<1>3. ASSUME NEW k \in Remote, NEW c \in Conn, ReceiveHello(k, c) PROVE IInv'
  BY <1>3, HelloLists, PlainHandlerStep DEF ReceiveHello, Handle
<1>4. ASSUME NEW k \in Remote, NEW n \in Name, ReceivePeerInit(k, n) PROVE IInv'
  BY <1>4, PeerInitLists, PlainHandlerStep DEF ReceivePeerInit, Handle
<1>5. ASSUME NEW k \in Remote, NEW n \in Name, UserConfirm(k, n) PROVE IInv'
  BY <1>5, PeerConfirmLists, PlainHandlerStep DEF UserConfirm, Handle
<1>6. ASSUME NEW k \in Remote, NEW n \in Name, ReceivePeerConfirm(k, n) PROVE IInv'
  BY <1>6, PeerConfirmEventLists, PlainHandlerStep DEF ReceivePeerConfirm, Handle
<1>7. ASSUME NEW k \in Remote, ReceivePing(k) PROVE IInv'
  BY <1>7, PingLists, PlainHandlerStep DEF ReceivePing, Handle
<1>8. ASSUME NEW k \in Remote, ReceivePong(k) PROVE IInv'
  BY <1>8, PongLists, PlainHandlerStep DEF ReceivePong, Handle
<1>9. ASSUME Tick PROVE IInv'
  BY <1>9, TickLists, PlainHandlerStep DEF Tick, Handle
<1>10. ASSUME NEW k \in Remote, NEW subs \in SUBSET Subscription, ReceiveSubscribe(k, subs) PROVE IInv'
  BY <1>10, SubscribeStep
<1>11. ASSUME NEW k \in Remote, NEW topics \in SUBSET Topic, ReceiveUnsubscribe(k, topics) PROVE IInv'
  BY <1>11, UnsubscribeStep
<1>12. ASSUME NEW k \in Remote, NEW topics \in SUBSET Topic, ReceiveActiveSubscriptions(k, topics) PROVE IInv'
  <2>1. todo' = <<>>
    BY <1>12 DEF ReceiveActiveSubscriptions, Handle, process_event_active_subscriptions, FromPeer, Ok, Err
  <2> QED
    BY <1>12, <2>1, EmptyList, PlainHandlerStep DEF ReceiveActiveSubscriptions, Handle
<1>13. ASSUME NEW k \in Remote, ReceiveQuerySubscriptions(k) PROVE IInv'
  BY <1>13, QuerySubscriptionsLists, PlainHandlerStep DEF ReceiveQuerySubscriptions, Handle
<1>14. ASSUME NEW k \in Remote, NEW found \in SUBSET Messages, ReceiveQueryMessagesByID(k, found) PROVE IInv'
  BY <1>14, QueryMessagesLists, PlainHandlerStep
     DEF ReceiveQueryMessagesByID, process_event_query_messages_by_id, Handle
<1>15. ASSUME NEW k \in Remote, NEW found \in SUBSET Messages, ReceiveQueryMessagesByDepth(k, found) PROVE IInv'
  BY <1>15, QueryMessagesLists, PlainHandlerStep
     DEF ReceiveQueryMessagesByDepth, process_event_query_messages_by_depth, Handle
<1>16. ASSUME Dispatch PROVE IInv'
  BY <1>16, DispatchStep
<1>17. ASSUME Advance PROVE IInv'
  BY <1>17, AdvanceStep
<1>18. ASSUME UNCHANGED vars PROVE IInv'
  BY <1>18, PlainHandlerStep DEF vars, IInv
<1> QED
  BY <1>1, <1>2, <1>3, <1>4, <1>5, <1>6, <1>7, <1>8, <1>9, <1>10, <1>11, <1>12, <1>13, <1>14,
     <1>15, <1>16, <1>17, <1>18 DEF Next, Handshake, KeepInTouch, TopicRequest

\* The invariant holds whatever handlers the host calls, and between actions.
LEMMA Invariance == Spec => []IInv
BY InitIInv, NextIInv, PTL DEF Spec

\* The object and the list of outstanding actions keep their types: the
\* book is filed under each record's own key, whatever the messages.
THEOREM TypeCorrect == Spec => []TypeOK
BY Invariance, PTL DEF IInv

\* No address is sent more PeerInits than it was dialed (sync.rs:95).
THEOREM PeerInitsOnlyAnswer == Spec => []PeerInitsAnswerDials
BY Invariance, PTL DEF IInv

\* The pending list has one entry per address, each of an unanswered dial.
THEOREM PendingIsDialed == Spec => []PendingAwaitsHello
BY Invariance, PTL DEF IInv

\* Actions are never stale when the host carries them out.
THEOREM TodoNeverStale == Spec => []TodoFits
<1>1. IInv => TodoFits
  BY DEF IInv, TodoFits
<1> QED
  BY <1>1, Invariance, PTL

-----------------------------------------------------------------------------
(* The peer list implements PeerLifecycle: writing a record meets or        *)
(* confirms its key, dropping one forgets it.                               *)

\* A new Sync object has met nobody.
LEMMA InitLifecycle == Init => Lifecycle!Init
BY DEF Init, Lifecycle!Init, BookStatus, BookHeard

\* A step that leaves the peers and the clock alone.
LEMMA LifecycleStutter ==
  ASSUME UNCHANGED <<peers, now>>
  PROVE  UNCHANGED Lifecycle!vars
BY DEF Lifecycle!vars, BookStatus, BookHeard

\* Carrying out an action meets, confirms or forgets one key, or none.
LEMMA DispatchLifecycle ==
  ASSUME IInv, Dispatch
  PROVE  [Lifecycle!Next]_(Lifecycle!vars)
<1> DEFINE a == Head(todo)
<1>1. todo \in Seq(Action) /\ todo # <<>> /\ a \in Action /\ a = todo[1] /\ 1 \in DOMAIN todo
  BY DEF IInv, ListOK, Dispatch
<1>2. now' = now /\ peers' = apply_peers(peers, a)
  BY DEF Dispatch
<1> HIDE DEF a
<1>3. /\ BookActions(todo) /\ now \in Nat /\ DOMAIN peers \subseteq Remote
      /\ peers \in [DOMAIN peers -> PeerInfo] /\ HeardInPast
  BY DEF IInv, ListOK, TypeOK
<1>4. CASE a.type = "SetPeer"
  <2> DEFINE info == a.peer_info
             k == info.peer.pubkey
  <2>1. info \in PeerInfo /\ Renews(info)
    BY <1>1, <1>3, <1>4 DEF BookActions, Action, SyncAction
  <2>2. peers' = [x \in DOMAIN peers \cup {k} |-> IF x = k THEN info ELSE peers[x]]
    BY <1>2, <1>4 DEF apply_peers
  <2> HIDE DEF info
  <2>3. k \in Remote /\ info.last_ping \in Nat /\ info.active \in BOOLEAN
    BY <2>1 DEF Renews, PeerInfo, Time
  <2>4. BookHeard' = [BookHeard EXCEPT ![k] = info.last_ping]
    BY <2>2, <2>3 DEF BookHeard
  <2>5. info.last_ping \in BookHeard[k] .. now
    BY <1>3, <2>1, <2>3 DEF BookHeard, Renews, PeerInfo, Time
  <2>6. Lifecycle!Renew(k)
    BY <2>4, <2>5 DEF Lifecycle!Renew
  <2>7. CASE info.active
    <3>1. BookStatus[k] # "absent"
      BY <2>1, <2>3, <2>7 DEF BookStatus, Renews
    <3>2. BookStatus' = [BookStatus EXCEPT ![k] = "active"]
      BY <2>2, <2>3, <2>7 DEF BookStatus
    <3> QED
      BY <1>2, <2>3, <2>6, <3>1, <3>2 DEF Lifecycle!Next, Lifecycle!Confirm
  <2>8. CASE ~info.active
    <3>1. BookStatus' = [BookStatus EXCEPT ![k] = "inactive"]
      BY <2>2, <2>3, <2>8 DEF BookStatus
    <3> QED
      BY <1>2, <2>3, <2>6, <3>1 DEF Lifecycle!Next, Lifecycle!Meet
  <2> QED
    BY <2>7, <2>8
<1>5. CASE a.type = "UnsetPeer"
  <2> DEFINE k == a.pubkey
  <2>1. Expired(k)
    BY <1>1, <1>3, <1>5 DEF BookActions
  <2>2. peers' = [x \in DOMAIN peers \ {k} |-> peers[x]]
    BY <1>2, <1>5 DEF apply_peers
  <2> HIDE DEF k
  <2>3. CASE k \in DOMAIN peers
    <3>1. BookStatus[k] = "inactive" /\ now - BookHeard[k] > 180 /\ k \in Remote
      BY <1>3, <2>1, <2>3 DEF Expired, BookStatus, BookHeard
    <3>2. BookStatus' = [BookStatus EXCEPT ![k] = "absent"]
      BY <1>3, <2>2, <2>3 DEF BookStatus
    <3>3. BookHeard' = [BookHeard EXCEPT ![k] = 0]
      BY <1>3, <2>2, <2>3 DEF BookHeard
    <3> QED
      BY <1>2, <3>1, <3>2, <3>3 DEF Lifecycle!Next, Lifecycle!Forget
  <2>4. CASE k \notin DOMAIN peers
    <3>1. peers' = peers
      BY <1>3, <2>2, <2>4
    <3> QED
      BY <1>2, <3>1, LifecycleStutter
  <2> QED
    BY <2>3, <2>4
<1>6. CASE a.type \notin {"SetPeer", "UnsetPeer"}
  <2>1. peers' = peers
    BY <1>2, <1>6 DEF apply_peers
  <2> QED
    BY <1>2, <2>1, LifecycleStutter
<1> QED
  BY <1>4, <1>5, <1>6

\* Every step of the node is a step of the lifecycle or leaves it alone: the
\* handlers only read the book, and only apply_sync_actions writes it.
LEMMA NextLifecycle == IInv /\ [Next]_vars => [Lifecycle!Next]_(Lifecycle!vars)
<1> SUFFICES ASSUME IInv, [Next]_vars PROVE [Lifecycle!Next]_(Lifecycle!vars)
  OBVIOUS
<1>1. CASE Dispatch
  BY <1>1, DispatchLifecycle
<1>2. CASE Advance
  <2>1. now \in Nat /\ now' \in Nat /\ now < now' /\ peers' = peers
    BY <1>2, TimeAssumption DEF Advance, IInv, TypeOK, object
  <2>2. BookStatus' = BookStatus /\ BookHeard' = BookHeard
    BY <2>1 DEF BookStatus, BookHeard
  <2> QED
    BY <2>1, <2>2 DEF Lifecycle!Next, Lifecycle!Elapse
<1>3. CASE Handshake \/ KeepInTouch \/ TopicRequest \/ UNCHANGED vars
  <2>1. UNCHANGED <<peers, now>>
    BY <1>3 DEF Handshake, KeepInTouch, TopicRequest, InitComm, ReceiveInit, ReceiveHello, ReceivePeerInit,
      UserConfirm, ReceivePeerConfirm, ReceivePing, ReceivePong, Tick, ReceiveSubscribe, ReceiveUnsubscribe,
      ReceiveActiveSubscriptions, ReceiveQuerySubscriptions, ReceiveQueryMessagesByID,
      ReceiveQueryMessagesByDepth, Handle, object, vars
  <2> QED
    BY <2>1, LifecycleStutter
<1> QED
  BY <1>1, <1>2, <1>3 DEF Next

\* Every behaviour of the node is one the lifecycle allows: a peer is met
\* before it is confirmed, stays active until it is met anew, is dropped
\* only when inactive and silent for over 180 seconds, and its last_ping
\* never goes back.
THEOREM Implementation == Spec => ImplementsLifecycle
BY InitLifecycle, Invariance, NextLifecycle, PTL DEF Spec, ImplementsLifecycle, Lifecycle!Spec

-----------------------------------------------------------------------------
(***************************************************************************)
(* To whom messages leave, and what subscriptions are kept.  SInv          *)
(* strengthens IInv with what the actions still to be carried out may      *)
(* send, and with the subscriptions they will make.                        *)
(***************************************************************************)

IsSealedSend(a) == a.type = "MessageSend" /\ a.message.type = "Sealed"

\* The record is that of the receiver of the sealed message.
Addresses(info, a) ==
  /\ info.peer.pubkey = a.message.to
  /\ info.connection_info = a.to
  /\ IsSend(a, "PeerConfirm") => info.active

\* A list that starts by writing a record sends to that peer only; any other
\* list sends to peers of the book that it does not drop.
SendActions(l) ==
  \A i \in DOMAIN l :
    IsSealedSend(l[i]) =>
      /\ l[1].type = "SetPeer" => Addresses(l[1].peer_info, l[i])
      /\ l[1].type # "SetPeer" =>
           /\ l[i].message.to \in DOMAIN peers
           /\ Addresses(peers[l[i].message.to], l[i])
           /\ \A j \in DOMAIN l : l[j].type = "UnsetPeer" => l[j].pubkey # l[i].message.to

Sets(l, t, p) == \E i \in DOMAIN l : l[i] = SetSubscription(t, p)
Unsets(l, t, p) == \E i \in DOMAIN l : l[i] = UnsetSubscription(t, p)

\* What is asked for is what is subscribed, once the list is carried out.
SubscriptionActions(l) ==
  /\ \A t \in DOMAIN subscriptions : subscriptions[t] # {}
  /\ \A t \in Topic, p \in Peer :
       /\ ~(Sets(l, t, p) /\ Unsets(l, t, p))
       /\ <<t, p>> \in wanted <=>
            Sets(l, t, p) \/ (p \in subscribers(subscriptions, t) /\ ~Unsets(l, t, p))

\* A list that sends stored messages does nothing else.
StoredActions(l) ==
  \A i \in DOMAIN l :
    IsSend(l[i], "User") =>
      /\ \A j \in DOMAIN l : l[j].type = "MessageSend"
      /\ l[i].message.to \in DOMAIN peers
      /\ \E t \in l[i].message.body.topics : <<t, peers[l[i].message.to].peer>> \in wanted

SInv == IInv /\ SendActions(todo) /\ SubscriptionActions(todo) /\ StoredActions(todo)

-----------------------------------------------------------------------------
(* Lists. *)

\* A list without subscriptions and without stored messages.
Plain(l) ==
  \A i \in DOMAIN l :
    l[i].type \notin {"SetSubscription", "UnsetSubscription"} /\ ~IsSend(l[i], "User")

\* Such a list leaves the subscriptions as they are.
LEMMA PlainKeeps ==
  ASSUME SubscriptionActions(<<>>), NEW l, Plain(l)
  PROVE  SubscriptionActions(l) /\ StoredActions(l)
<1>1. \A t \in Topic, p \in Peer : ~Sets(l, t, p) /\ ~Unsets(l, t, p)
  BY DEF Plain, Sets, Unsets, SetSubscription, UnsetSubscription
<1>2. \A t \in Topic, p \in Peer : ~Sets(<<>>, t, p) /\ ~Unsets(<<>>, t, p)
  BY DEF Sets, Unsets
<1>3. SubscriptionActions(l)
  BY <1>1, <1>2 DEF SubscriptionActions
<1>4. StoredActions(l)
  BY DEF StoredActions, Plain
<1> QED
  BY <1>3, <1>4

\* The empty list subscribes nobody to nothing.
LEMMA NothingAsked == \A t, p : ~Sets(<<>>, t, p) /\ ~Unsets(<<>>, t, p)
BY DEF Sets, Unsets

\* A handler called between two lists finds the subscriptions as asked for.
LEMMA BetweenLists ==
  ASSUME SInv, todo = <<>>
  PROVE  SubscriptionActions(<<>>)
BY DEF SInv

\* The empty list sends nothing.
LEMMA EmptySends == SendActions(<<>>) /\ Plain(<<>>)
BY DEF SendActions, Plain

\* A sealed message that is not a stored one.
LEMMA SealedPlain ==
  ASSUME NEW c, NEW p, NEW body, body.kind # "User"
  PROVE  LET a == MessageSend(c, create_sealed_message(Self, p, body))
         IN /\ a.type = "MessageSend" /\ a.to = c /\ a.message.to = p.pubkey
            /\ IsSealedSend(a) /\ ~IsSend(a, "User")
            /\ IsSend(a, "PeerConfirm") <=> body.kind = "PeerConfirm"
BY DEF MessageSend, create_sealed_message, IsSealedSend, IsSend

\* A record is written, and a message may follow to the peer it is of.
LEMMA WriteThenSend ==
  ASSUME NEW info, NEW body, body.kind # "User", body.kind = "PeerConfirm" => info.active,
         NEW p, p.pubkey = info.peer.pubkey
  PROVE  LET a == MessageSend(info.connection_info, create_sealed_message(Self, p, body))
         IN /\ SendActions(<<SetPeer(info)>>) /\ Plain(<<SetPeer(info)>>)
            /\ SendActions(<<SetPeer(info), a>>) /\ Plain(<<SetPeer(info), a>>)
<1> DEFINE a == MessageSend(info.connection_info, create_sealed_message(Self, p, body))
           w == SetPeer(info)
<1>1. /\ a.type = "MessageSend" /\ ~IsSend(a, "User") /\ a.to = info.connection_info
      /\ a.message.to = p.pubkey /\ (IsSend(a, "PeerConfirm") => info.active)
  BY SealedPlain
<1>2. w.type = "SetPeer" /\ w.peer_info = info /\ ~IsSealedSend(w) /\ ~IsSend(w, "User")
  BY DEF SetPeer, IsSealedSend, IsSend
<1> HIDE DEF a, w
<1>3. SendActions(<<w>>) /\ SendActions(<<w, a>>)
  BY <1>1, <1>2 DEF SendActions, Addresses
<1>4. Plain(<<w>>) /\ Plain(<<w, a>>)
  BY <1>1, <1>2 DEF Plain
<1> QED
  BY <1>3, <1>4 DEF a, w

-----------------------------------------------------------------------------
(* What each handler sends. *)

\* process_init_message: the Hello goes where the Init came from.
LEMMA InitMessageSends ==
  ASSUME NEW k, NEW c,
         NEW l \in process_init_message(Self, [type |-> "Init", from |-> k], c, now).lists
  PROVE  SendActions(l) /\ Plain(l)
<1>1. l = <<SetPeer(new_info(tmp(k), c, now)), MessageSend(c, create_sealed_message(Self, tmp(k), Hello))>>
  BY DEF process_init_message, Ok
<1>2. new_info(tmp(k), c, now).connection_info = c /\ new_info(tmp(k), c, now).peer.pubkey = tmp(k).pubkey
  BY DEF new_info
<1> QED
  BY <1>1, <1>2, WriteThenSend, EventKinds

\* process_event_hello: so does the PeerInit.
LEMMA HelloSends ==
  ASSUME NEW k, NEW c, NEW l \in process_event_hello(Self, Hello, k, c, now).lists
  PROVE  SendActions(l) /\ Plain(l)
<1>1. CASE ~is_pending(Self, c)
  BY <1>1, EmptySends DEF process_event_hello, Ok, Hello
<1>2. CASE is_pending(Self, c)
  <2> DEFINE info == new_info(tmp(k), c, now)
             w == SetPeer(info)
             u == UnsetPendingPeer(c)
             a == MessageSend(c, create_sealed_message(Self, tmp(k), PeerInit(MyName)))
  <2>1. l = <<w, u, a>>
    BY <1>2 DEF process_event_hello, Ok, Hello, Self
  <2>2. info.connection_info = c /\ info.peer.pubkey = tmp(k).pubkey
    BY DEF new_info
  <2>3. w.type = "SetPeer" /\ w.peer_info = info /\ ~IsSealedSend(w) /\ ~IsSend(w, "User")
    BY DEF SetPeer, IsSealedSend, IsSend
  <2>4. u.type = "UnsetPendingPeer" /\ ~IsSealedSend(u) /\ ~IsSend(u, "User")
    BY DEF UnsetPendingPeer, IsSealedSend, IsSend
  <2>5. /\ a.type = "MessageSend" /\ ~IsSend(a, "User") /\ a.to = c
        /\ a.message.to = tmp(k).pubkey /\ ~IsSend(a, "PeerConfirm")
    BY SealedPlain, EventKinds
  <2> HIDE DEF info, w, u, a
  <2>6. DOMAIN l = 1..3 /\ l[1] = w /\ l[2] = u /\ l[3] = a
    BY <2>1
  <2>7. SendActions(l)
    BY <2>2, <2>3, <2>4, <2>5, <2>6 DEF SendActions, Addresses
  <2>8. Plain(l)
    BY <2>3, <2>4, <2>5, <2>6 DEF Plain
  <2> QED
    BY <2>7, <2>8
<1> QED
  BY <1>1, <1>2

\* peer_confirm: the PeerConfirm follows the record that makes the peer active.
LEMMA PeerConfirmSends ==
  ASSUME IInv, NEW k, NEW n, NEW l \in peer_confirm(Self, k, n, now).lists
  PROVE  SendActions(l) /\ Plain(l)
<1>1. CASE ~known(Self, k)
  BY <1>1, EmptySends DEF peer_confirm, Err
<1>2. CASE known(Self, k)
  <2> DEFINE info == confirmed(peers[k], n, now)
  <2>1. k \in DOMAIN peers /\ peers[k] \in PeerInfo
    BY <1>2 DEF known, Self, IInv, TypeOK
  <2>2. /\ info.connection_info = peers[k].connection_info /\ info.active
        /\ info.peer.pubkey = peers[k].peer.pubkey
    BY <2>1 DEF confirmed, PeerInfo, Peer
  <2>3. l = <<SetPeer(info), MessageSend(info.connection_info,
                               create_sealed_message(Self, peers[k].peer, PeerConfirm(MyName)))>>
    BY <1>2, <2>2 DEF peer_confirm, Ok, Self
  <2> QED
    BY <2>2, <2>3, WriteThenSend, EventKinds
<1> QED
  BY <1>1, <1>2

\* process_event_peer_init: as peer_confirm, or a question to the user.
LEMMA PeerInitSends ==
  ASSUME IInv, NEW k, NEW n, NEW l \in process_event_peer_init(Self, PeerInit(n), k, now).lists
  PROVE  SendActions(l) /\ Plain(l)
<1>1. CASE can_confirm(Self.peering_config, k) = "yes"
  BY <1>1, EventKinds, PeerConfirmSends DEF process_event_peer_init
<1>2. CASE can_confirm(Self.peering_config, k) = "no"
  BY <1>2, EventKinds, EmptySends DEF process_event_peer_init, Ok
<1>3. CASE can_confirm(Self.peering_config, k) \notin {"yes", "no"}
  <2>1. l = <<Confirm(PeerInit(n))>>
    BY <1>3, EventKinds DEF process_event_peer_init, Ok
  <2> QED
    BY <2>1 DEF SendActions, Plain, IsSealedSend, IsSend, Confirm
<1> QED
  BY <1>1, <1>2, <1>3

\* process_event_peer_confirm and process_event_pong send nothing.
LEMMA PeerConfirmEventSends ==
  ASSUME NEW k, NEW n, NEW l \in process_event_peer_confirm(Self, PeerConfirm(n), k, now).lists
  PROVE  SendActions(l) /\ Plain(l)
<1>1. l = <<>> \/ l = <<SetPeer(confirmed(peers[k], n, now))>>
  BY EventKinds DEF process_event_peer_confirm, FromPeer, Ok, Err, Self
<1> QED
  BY <1>1, EmptySends DEF SendActions, Plain, IsSealedSend, IsSend, SetPeer

\* The answer to a Ping.
LEMMA PongSends ==
  ASSUME NEW k, NEW l \in process_event_pong(Self, Pong, k, now).lists
  PROVE  SendActions(l) /\ Plain(l)
<1>1. l = <<>> \/ l = <<SetPeer(seen(peers[k], now))>>
  BY DEF process_event_pong, FromPeer, Ok, Err, Self
<1> QED
  BY <1>1, EmptySends DEF SendActions, Plain, IsSealedSend, IsSend, SetPeer

\* process_event_ping: the Pong goes to the address of the record.
LEMMA PingSends ==
  ASSUME IInv, NEW k, NEW l \in process_event_ping(Self, Ping, k, now).lists
  PROVE  SendActions(l) /\ Plain(l)
<1>1. CASE ~known(Self, k)
  BY <1>1, EmptySends DEF process_event_ping, FromPeer, Err
<1>2. CASE known(Self, k)
  <2> DEFINE info == seen(peers[k], now)
  <2>1. k \in DOMAIN peers /\ peers[k] \in PeerInfo
    BY <1>2 DEF known, Self, IInv, TypeOK
  <2>2. info.connection_info = peers[k].connection_info /\ info.peer = peers[k].peer
    BY <2>1 DEF seen, PeerInfo
  <2>3. l = <<SetPeer(info), MessageSend(info.connection_info,
                               create_sealed_message(Self, peers[k].peer, Pong))>>
    BY <1>2, <2>2 DEF process_event_ping, FromPeer, Ok, Self, Ping
  <2> QED
    BY <2>2, <2>3, WriteThenSend, EventKinds
<1> QED
  BY <1>1, <1>2

\* init_comm: no sealed message, and no subscription.
LEMMA InitCommSends ==
  ASSUME NEW c, NEW l \in init_comm(Self, c, now).lists
  PROVE  SendActions(l) /\ Plain(l)
<1>1. l = <<SetPendingPeer([connection_info |-> c, created |-> now]),
            MessageSend(c, [type |-> "Init", from |-> Me])>>
  BY DEF init_comm, Ok, Self
<1> QED
  BY <1>1 DEF SendActions, Plain, IsSealedSend, IsSend, SetPendingPeer, MessageSend

\* tick: a peer of the book is either pinged or dropped.
LEMMA TickPeerSends ==
  ASSUME IInv, NEW k \in due(Self, now)
  PROVE  LET a == tick_peer(Self, k, now)
         IN /\ ~IsSend(a, "User") /\ a.type \in {"UnsetPeer", "MessageSend"}
            /\ a.type = "UnsetPeer" => a.pubkey = k
            /\ IsSealedSend(a) => k \in DOMAIN peers /\ a.message.to = k /\ Addresses(peers[k], a)
<1> DEFINE a == tick_peer(Self, k, now)
<1>1. k \in DOMAIN peers /\ peers[k].peer.pubkey = k
  BY DEF due, Self, IInv, TypeOK
<1>2. CASE now - peers[k].last_ping > 180 /\ ~peers[k].active
  <2>1. a = UnsetPeer(k)
    BY <1>2 DEF tick_peer, Self
  <2> QED
    BY <2>1 DEF UnsetPeer, IsSealedSend, IsSend
<1>3. CASE ~(now - peers[k].last_ping > 180 /\ ~peers[k].active)
  <2>1. a = MessageSend(peers[k].connection_info, create_sealed_message(Self, peers[k].peer, Ping))
    BY <1>3 DEF tick_peer, Self
  <2>2. /\ a.type = "MessageSend" /\ ~IsSend(a, "User") /\ a.to = peers[k].connection_info
        /\ a.message.to = peers[k].peer.pubkey /\ ~IsSend(a, "PeerConfirm")
    BY <2>1, SealedPlain, EventKinds
  <2> HIDE DEF a
  <2>3. /\ ~IsSend(a, "User") /\ a.type = "MessageSend"
        /\ k \in DOMAIN peers /\ a.message.to = k /\ Addresses(peers[k], a)
    BY <1>1, <2>2 DEF Addresses
  <2> QED
    BY <2>3 DEF a
<1> QED
  BY <1>2, <1>3

\* tick: so its list pings no peer that it drops.
LEMMA TickSends ==
  ASSUME IInv, NEW l \in tick(Self, now).lists
  PROVE  SendActions(l) /\ Plain(l)
<1> DEFINE Pings(a) == \E k \in due(Self, now) : a = tick_peer(Self, k, now)
           Prunes(a) == \E p \in stale(Self, now) : a = UnsetPendingPeer(p.connection_info)
<1>1. /\ \A i \in DOMAIN l : Pings(l[i]) \/ Prunes(l[i])
      /\ DOMAIN l # {} => 1 \in DOMAIN l
  <2>1. IsFiniteSet(due(Self, now)) /\ IsFiniteSet(stale(Self, now))
    BY DueFinite
  <2> QED
    BY <2>1, TickActions
<1>2. \A a : Prunes(a) => a.type = "UnsetPendingPeer" /\ ~IsSealedSend(a) /\ ~IsSend(a, "User")
  BY DEF UnsetPendingPeer, IsSealedSend, IsSend
<1> HIDE DEF Prunes
<1>3. \A i \in DOMAIN l : l[i].type # "SetPeer" /\ ~IsSend(l[i], "User")
                          /\ l[i].type \notin {"SetSubscription", "UnsetSubscription"}
  BY <1>1, <1>2, TickPeerSends
<1>4. ASSUME NEW i \in DOMAIN l, IsSealedSend(l[i])
      PROVE  /\ l[i].message.to \in DOMAIN peers
             /\ Addresses(peers[l[i].message.to], l[i])
             /\ \A j \in DOMAIN l : l[j].type = "UnsetPeer" => l[j].pubkey # l[i].message.to
  <2>1. PICK k \in due(Self, now) : l[i] = tick_peer(Self, k, now)
    BY <1>1, <1>2, <1>4
  <2>2. k \in DOMAIN peers /\ l[i].message.to = k /\ Addresses(peers[k], l[i])
    BY <1>4, <2>1, TickPeerSends
  <2>3. ASSUME NEW j \in DOMAIN l, l[j].type = "UnsetPeer"
        PROVE  l[j].pubkey # k
    <3>1. PICK m \in due(Self, now) : l[j] = tick_peer(Self, m, now)
      BY <1>1, <1>2, <2>3
    <3>2. l[j].pubkey = m
      BY <2>3, <3>1, TickPeerSends
    <3>3. m # k
      BY <1>4, <2>1, <2>3, <3>1 DEF IsSealedSend
    <3> QED
      BY <3>2, <3>3
  <2> QED
    BY <2>2, <2>3
<1>5. SendActions(l)
  BY <1>1, <1>3, <1>4 DEF SendActions
<1> QED
  BY <1>3, <1>5 DEF Plain

\* process_event_query_subscriptions: the answer goes to the address of the record.
LEMMA QuerySubscriptionsSends ==
  ASSUME IInv, NEW k,
         NEW l \in process_event_query_subscriptions(Self, [kind |-> "QuerySubscriptions"], k).lists
  PROVE  SendActions(l) /\ Plain(l)
<1>1. CASE ~known(Self, k)
  BY <1>1, EmptySends DEF process_event_query_subscriptions, FromPeer, Err
<1>2. CASE known(Self, k)
  <2> DEFINE topics == {t \in DOMAIN subscriptions : peers[k].peer \in subscriptions[t]}
             send == MessageSend(peers[k].connection_info,
                       create_sealed_message(Self, peers[k].peer, ActiveSubscriptions(topics)))
  <2>1. l = <<send>>
    BY <1>2 DEF process_event_query_subscriptions, FromPeer, Ok, Self
  <2>2. k \in DOMAIN peers /\ peers[k].peer.pubkey = k
    BY <1>2 DEF known, Self, IInv, TypeOK
  <2>3. /\ send.type = "MessageSend" /\ ~IsSend(send, "User") /\ send.to = peers[k].connection_info
        /\ send.message.to = peers[k].peer.pubkey /\ ~IsSend(send, "PeerConfirm")
    BY SealedPlain, EventKinds
  <2> HIDE DEF send
  <2> QED
    BY <2>1, <2>2, <2>3 DEF SendActions, Plain, Addresses
<1> QED
  BY <1>1, <1>2

\* process_event_query_messages_*: the stored messages go to the address of
\* the record, and only those under a topic its peer subscribes to.
LEMMA QueryMessagesSends ==
  ASSUME IInv, SubscriptionActions(<<>>),
         NEW k, NEW kind, NEW body, NEW found \in SUBSET Messages,
         NEW l \in SendSubscribed(Self, body, kind, k, found).lists
  PROVE  SendActions(l) /\ StoredActions(l) /\ SubscriptionActions(l)
<1> DEFINE sent == {m \in found : filter_message_by_peer(Self, peers[k].peer, m)}
           act(m) == MessageSend(peers[k].connection_info,
                       create_sealed_message(Self, peers[k].peer, User(m)))
<1>1. CASE found = {} \/ body.kind # kind \/ ~known(Self, k)
  <2>1. l = <<>>
    BY <1>1 DEF SendSubscribed, FromPeer, Err, Ok
  <2> QED
    BY <2>1, EmptySends, PlainKeeps
<1>2. CASE found # {} /\ body.kind = kind /\ known(Self, k)
  <2>1. PICK o \in SetToSeqs(sent) : l = [i \in DOMAIN o |-> act(o[i])]
    BY <1>2 DEF SendSubscribed, FromPeer, InAnyOrder, Ok, Self
  <2>2. IsFiniteSet(sent)
    BY MessagesAssumption, FS_Subset
  <2>3. o \in Seq(sent) /\ \A i \in DOMAIN o : o[i] \in sent
    BY <2>2, AnyOrderIsSeq
  <2>4. k \in DOMAIN peers /\ peers[k] \in PeerInfo /\ peers[k].peer.pubkey = k
    BY <1>2 DEF known, Self, IInv, TypeOK
  <2>5. ASSUME NEW m
        PROVE  /\ act(m).type = "MessageSend" /\ act(m).to = peers[k].connection_info
               /\ act(m).message.to = k /\ act(m).message.body.topics = m
               /\ IsSealedSend(act(m)) /\ ~IsSend(act(m), "PeerConfirm")
    BY <2>4, EventKinds DEF MessageSend, create_sealed_message, IsSealedSend, IsSend
  <2>6. ASSUME NEW m \in sent
        PROVE  \E t \in m : <<t, peers[k].peer>> \in wanted
    <3>1. PICK t \in m : t \in DOMAIN subscriptions /\ peers[k].peer \in subscriptions[t]
      BY DEF filter_message_by_peer, is_peer_subscribed_to_topic, Self
    <3>2. t \in Topic /\ peers[k].peer \in Peer
      BY <2>4, <3>1 DEF IInv, TypeOK, PeerInfo
    <3> QED
      BY <3>1, <3>2 DEF SubscriptionActions, subscribers, Sets, Unsets
  <2> HIDE DEF act
  <2>7. \A i \in DOMAIN l : o[i] \in sent /\ l[i] = act(o[i])
    BY <2>1, <2>3
  <2>8. DOMAIN l # {} => 1 \in DOMAIN l
    BY <2>1, <2>3
  <2> HIDE DEF sent
  <2>9. SendActions(l)
    BY <2>4, <2>5, <2>7, <2>8 DEF SendActions, Addresses
  <2>10. StoredActions(l)
    BY <2>4, <2>5, <2>6, <2>7 DEF StoredActions
  <2>11. \A t \in Topic, p \in Peer : ~Sets(l, t, p) /\ ~Unsets(l, t, p)
    BY <2>5, <2>7 DEF Sets, Unsets, SetSubscription, UnsetSubscription
  <2>12. SubscriptionActions(l)
    BY <2>11 DEF SubscriptionActions, Sets, Unsets
  <2> QED
    BY <2>9, <2>10, <2>12
<1> QED
  BY <1>1, <1>2

\* process_event_subscribe: nothing is sent, and what the sender asks for is
\* what the list subscribes it to.
LEMMA SubscribeSends ==
  ASSUME IInv, SubscriptionActions(<<>>), NEW k \in Remote, NEW subs \in SUBSET Subscription,
         ReceiveSubscribe(k, subs)
  PROVE  (SendActions(todo) /\ SubscriptionActions(todo) /\ StoredActions(todo))'
<1> DEFINE valid == {s \in subs : s.valid}
           topics == {s.topic : s \in valid}
           me == peers[k].peer
           act(s) == SetSubscription(s.topic, me)
<1>1. /\ todo' \in process_event_subscribe(Self, [kind |-> "Subscribe", subscriptions |-> subs], k).lists
      /\ wanted' = wanted \cup (topics \X {me})
      /\ peers' = peers /\ subscriptions' = subscriptions
  BY DEF ReceiveSubscribe, Handle, object
<1>2. k \in DOMAIN peers
  BY DEF ReceiveSubscribe, Unwraps, unwrap_incoming_message, known, Self
<1>3. PICK o \in SetToSeqs(valid) : todo' = [i \in DOMAIN o |-> act(o[i])]
  BY <1>1, <1>2 DEF process_event_subscribe, FromPeer, InAnyOrder, Ok, Self, known
<1>4. IsFiniteSet(valid)
  <2> DEFINE f == [s \in valid |-> s.topic]
  <2>1. f \in Injection(valid, Topic)
    BY DEF Injection, IsInjective, Subscription
  <2> QED
    BY <2>1, TopicAssumption, FS_Injection
<1>5. (\A i \in DOMAIN o : o[i] \in valid) /\ (\A s \in valid : \E i \in DOMAIN o : o[i] = s)
  BY <1>4, AnyOrderIsSeq, AnyOrderHitsAll
<1>6. \A s : act(s) = [type |-> "SetSubscription", topic |-> s.topic, peer |-> me]
  BY DEF SetSubscription
<1> HIDE DEF act, valid, me
<1>7. \A i \in DOMAIN todo' : o[i] \in valid /\ todo'[i] = act(o[i])
  BY <1>3, <1>5
<1>8. (SendActions(todo) /\ StoredActions(todo))'
  BY <1>6, <1>7 DEF SendActions, StoredActions, IsSealedSend, IsSend
<1>9. ASSUME NEW t \in Topic, NEW p \in Peer
      PROVE  Sets(todo', t, p) <=> t \in topics /\ p = me
  <2>1. CASE t \in topics /\ p = me
    <3>1. PICK s \in valid : s.topic = t
      BY <2>1
    <3>2. PICK i \in DOMAIN o : o[i] = s
      BY <1>5
    <3>3. i \in DOMAIN todo' /\ todo'[i] = SetSubscription(t, p)
      BY <1>3, <1>6, <2>1, <3>1, <3>2 DEF SetSubscription
    <3> QED
      BY <2>1, <3>3 DEF Sets
  <2>2. CASE Sets(todo', t, p)
    <3>1. PICK i \in DOMAIN todo' : todo'[i] = SetSubscription(t, p)
      BY <2>2 DEF Sets
    <3>2. o[i] \in valid /\ o[i].topic = t /\ p = me
      BY <1>6, <1>7, <3>1 DEF SetSubscription
    <3> QED
      BY <2>2, <3>2
  <2> QED
    BY <2>1, <2>2
<1>10. \A t \in Topic, p \in Peer : ~Unsets(todo', t, p)
  BY <1>6, <1>7 DEF Unsets, UnsetSubscription
<1>11. \A t \in Topic, p \in Peer : <<t, p>> \in wanted' <=> (<<t, p>> \in wanted \/ (t \in topics /\ p = me))
  BY <1>1
<1>12. \A t \in Topic, p \in Peer : <<t, p>> \in wanted <=> p \in subscribers(subscriptions, t)
  BY NothingAsked DEF SubscriptionActions
<1>13. SubscriptionActions(todo)'
  BY <1>1, <1>9, <1>10, <1>11, <1>12 DEF SubscriptionActions, Sets, Unsets, SetSubscription, UnsetSubscription
<1> QED
  BY <1>8, <1>13

\* process_event_unsubscribe: what the sender gives up is what the list removes.
LEMMA UnsubscribeSends ==
  ASSUME IInv, SubscriptionActions(<<>>), NEW k \in Remote, NEW topics \in SUBSET Topic,
         ReceiveUnsubscribe(k, topics)
  PROVE  (SendActions(todo) /\ SubscriptionActions(todo) /\ StoredActions(todo))'
<1> DEFINE me == peers[k].peer
           act(t) == UnsetSubscription(t, me)
<1>1. /\ todo' \in process_event_unsubscribe(Self, [kind |-> "Unsubscribe", topics |-> topics], k).lists
      /\ wanted' = wanted \ (topics \X {me})
      /\ peers' = peers /\ subscriptions' = subscriptions
  BY DEF ReceiveUnsubscribe, Handle, object
<1>2. k \in DOMAIN peers
  BY DEF ReceiveUnsubscribe, Unwraps, unwrap_incoming_message, known, Self
<1>3. PICK o \in SetToSeqs(topics) : todo' = [i \in DOMAIN o |-> act(o[i])]
  BY <1>1, <1>2 DEF process_event_unsubscribe, FromPeer, InAnyOrder, Ok, Self, known
<1>4. (\A i \in DOMAIN o : o[i] \in topics) /\ (\A t \in topics : \E i \in DOMAIN o : o[i] = t)
  BY TopicAssumption, FS_Subset, AnyOrderIsSeq, AnyOrderHitsAll
<1>5. \A t : act(t) = [type |-> "UnsetSubscription", topic |-> t, peer |-> me]
  BY DEF UnsetSubscription
<1> HIDE DEF act, me
<1>6. \A i \in DOMAIN todo' : o[i] \in topics /\ todo'[i] = act(o[i])
  BY <1>3, <1>4
<1>7. (SendActions(todo) /\ StoredActions(todo))'
  BY <1>5, <1>6 DEF SendActions, StoredActions, IsSealedSend, IsSend
<1>8. ASSUME NEW t \in Topic, NEW p \in Peer
      PROVE  Unsets(todo', t, p) <=> t \in topics /\ p = me
  <2>1. CASE t \in topics /\ p = me
    <3>1. PICK i \in DOMAIN o : o[i] = t
      BY <1>4, <2>1
    <3>2. i \in DOMAIN todo' /\ todo'[i] = UnsetSubscription(t, p)
      BY <1>3, <1>5, <2>1, <3>1 DEF UnsetSubscription
    <3> QED
      BY <2>1, <3>2 DEF Unsets
  <2>2. CASE Unsets(todo', t, p)
    <3>1. PICK i \in DOMAIN todo' : todo'[i] = UnsetSubscription(t, p)
      BY <2>2 DEF Unsets
    <3>2. o[i] \in topics /\ o[i] = t /\ p = me
      BY <1>5, <1>6, <3>1 DEF UnsetSubscription
    <3> QED
      BY <2>2, <3>2
  <2> QED
    BY <2>1, <2>2
<1>9. \A t \in Topic, p \in Peer : ~Sets(todo', t, p)
  BY <1>5, <1>6 DEF Sets, SetSubscription
<1>10. \A t \in Topic, p \in Peer : <<t, p>> \in wanted' <=> (<<t, p>> \in wanted /\ ~(t \in topics /\ p = me))
  BY <1>1
<1>11. \A t \in Topic, p \in Peer : <<t, p>> \in wanted <=> p \in subscribers(subscriptions, t)
  BY NothingAsked DEF SubscriptionActions
<1>12. SubscriptionActions(todo)'
  BY <1>1, <1>8, <1>9, <1>10, <1>11 DEF SubscriptionActions, Sets, Unsets, SetSubscription, UnsetSubscription
<1> QED
  BY <1>7, <1>12

-----------------------------------------------------------------------------
(* Invariance. *)

\* A new Sync object with nothing to do, that nobody has asked for anything.
LEMMA InitSInv == Init => SInv
<1> SUFFICES ASSUME Init PROVE SInv
  OBVIOUS
<1>1. todo = <<>> /\ wanted = {} /\ subscriptions = [t \in {} |-> {}]
  BY DEF Init
<1>2. SendActions(todo) /\ StoredActions(todo)
  BY <1>1, EmptySends DEF StoredActions
<1>3. SubscriptionActions(todo)
  BY <1>1, NothingAsked DEF SubscriptionActions, subscribers
<1> QED
  BY <1>2, <1>3, InitIInv DEF SInv

\* The list of a handler that leaves the history alone is the new todo.
LEMMA ListBecomesTodo ==
  ASSUME UNCHANGED <<object, wanted>>,
         SendActions(todo'), SubscriptionActions(todo'), StoredActions(todo')
  PROVE  (SendActions(todo) /\ SubscriptionActions(todo) /\ StoredActions(todo))'
<1>1. SendActions(todo)'
  BY DEF SendActions, Addresses, IsSealedSend, IsSend, object
<1>2. SubscriptionActions(todo)'
  BY DEF SubscriptionActions, Sets, Unsets, subscribers, SetSubscription, UnsetSubscription, object
<1>3. StoredActions(todo)'
  BY DEF StoredActions, IsSend, object
<1> QED
  BY <1>1, <1>2, <1>3

\* In particular a plain one.
LEMMA PlainBecomesTodo ==
  ASSUME SubscriptionActions(<<>>), UNCHANGED <<object, history>>, SendActions(todo'), Plain(todo')
  PROVE  (SendActions(todo) /\ SubscriptionActions(todo) /\ StoredActions(todo))'
<1>1. SubscriptionActions(todo') /\ StoredActions(todo')
  BY PlainKeeps
<1> QED
  BY <1>1, ListBecomesTodo DEF history

\* The head and the tail of the outstanding actions.
LEMMA HeadAndTail ==
  ASSUME IInv, Dispatch
  PROVE  /\ 1 \in DOMAIN todo /\ Head(todo) = todo[1] /\ todo[1] \in Action
         /\ \A i \in DOMAIN todo' : i + 1 \in DOMAIN todo /\ todo'[i] = todo[i + 1] /\ i \in Nat \ {0}
         /\ \A i \in DOMAIN todo : i # 1 => i - 1 \in DOMAIN todo' /\ todo'[i - 1] = todo[i]
         /\ DOMAIN todo # {} /\ DOMAIN todo \subseteq Nat \ {0}
<1>1. todo \in Seq(Action) /\ todo # <<>> /\ todo' = Tail(todo)
  BY DEF IInv, ListOK, Dispatch
<1> QED
  BY <1>1

\* Carrying out an action keeps the receivers of the rest in the book.
LEMMA DispatchSends ==
  ASSUME SInv, Dispatch
  PROVE  SendActions(todo)'
<1> DEFINE a == todo[1]
<1>1. IInv /\ SendActions(todo) /\ BookActions(todo)
  BY DEF SInv, IInv, ListOK
<1>2. peers' = apply_peers(peers, a)
  BY <1>1, HeadAndTail DEF Dispatch
<1>3. \A i \in DOMAIN todo' : i + 1 \in DOMAIN todo /\ todo'[i] = todo[i + 1] /\ i \in Nat \ {0}
  BY <1>1, HeadAndTail
<1>4. 1 \in DOMAIN todo
  BY <1>1, HeadAndTail
<1> HIDE DEF a
<1>5. \A i \in DOMAIN todo' : todo'[i].type # "SetPeer"
  BY <1>1, <1>3 DEF BookActions
<1>6. ASSUME NEW i \in DOMAIN todo', IsSealedSend(todo'[i])
      PROVE  /\ todo'[i].message.to \in DOMAIN peers'
             /\ Addresses(peers'[todo'[i].message.to], todo'[i])
             /\ \A j \in DOMAIN todo' : todo'[j].type = "UnsetPeer" => todo'[j].pubkey # todo'[i].message.to
  <2> DEFINE s == todo'[i]
             k == s.message.to
  <2>1. i + 1 \in DOMAIN todo /\ s = todo[i + 1] /\ IsSealedSend(todo[i + 1])
    BY <1>3, <1>6
  <2> HIDE DEF s
  <2>2. CASE a.type = "SetPeer"
    <3>1. Addresses(a.peer_info, s)
      BY <1>1, <2>1, <2>2 DEF SendActions, a
    <3>2. \A j \in DOMAIN todo' : todo'[j].type # "UnsetPeer"
      BY <1>1, <1>3, <1>4, <2>2 DEF BookActions, a
    <3>3. peers' = [x \in DOMAIN peers \cup {a.peer_info.peer.pubkey} |->
                     IF x = a.peer_info.peer.pubkey THEN a.peer_info ELSE peers[x]]
      BY <1>2, <2>2 DEF apply_peers
    <3>4. a.peer_info.peer.pubkey = k
      BY <3>1 DEF Addresses
    <3>5. k \in DOMAIN peers' /\ peers'[k] = a.peer_info
      BY <3>3, <3>4
    <3> QED
      BY <3>1, <3>2, <3>5 DEF s
  <2>3. CASE a.type # "SetPeer"
    <3>1. /\ k \in DOMAIN peers /\ Addresses(peers[k], s)
          /\ \A j \in DOMAIN todo : todo[j].type = "UnsetPeer" => todo[j].pubkey # k
      BY <1>1, <2>1, <2>3 DEF SendActions, a
    <3>2. k \in DOMAIN peers' /\ peers'[k] = peers[k]
      BY <1>2, <1>4, <2>3, <3>1 DEF apply_peers, a
    <3> QED
      BY <1>3, <3>1, <3>2 DEF s
  <2> QED
    BY <2>2, <2>3
<1>7. todo'[1].type = "SetPeer" => 1 \notin DOMAIN todo'
  BY <1>5
<1>8. \A i \in DOMAIN todo' : 1 \in DOMAIN todo'
  <2>1. todo' \in Seq(Action)
    BY <1>1, DispatchStep DEF IInv, ListOK
  <2> QED
    BY <2>1
<1> QED
  BY <1>6, <1>7, <1>8 DEF SendActions, Addresses, IsSealedSend, IsSend

\* Carrying out an action turns what is to be subscribed into what is.
LEMMA DispatchSubscriptions ==
  ASSUME SInv, Dispatch
  PROVE  SubscriptionActions(todo)'
<1> DEFINE a == todo[1]
<1>1. IInv /\ SubscriptionActions(todo)
  BY DEF SInv
<1>2. subscriptions' = apply_subscriptions(subscriptions, a) /\ wanted' = wanted
  BY <1>1, HeadAndTail DEF Dispatch
<1>3. a \in Action
  BY <1>1, HeadAndTail
<1>4. ASSUME NEW t \in Topic, NEW p \in Peer
      PROVE  /\ Sets(todo, t, p) <=> a = SetSubscription(t, p) \/ Sets(todo', t, p)
             /\ Unsets(todo, t, p) <=> a = UnsetSubscription(t, p) \/ Unsets(todo', t, p)
  BY <1>1, HeadAndTail DEF Sets, Unsets
<1> HIDE DEF a
<1>5. \A t \in DOMAIN subscriptions : subscriptions[t] # {}
  BY <1>1 DEF SubscriptionActions
<1>6. ASSUME NEW t \in Topic, NEW p \in Peer
      PROVE  /\ ~(Sets(todo, t, p) /\ Unsets(todo, t, p))
             /\ <<t, p>> \in wanted <=>
                  Sets(todo, t, p) \/ (p \in subscribers(subscriptions, t) /\ ~Unsets(todo, t, p))
  BY <1>1 DEF SubscriptionActions
<1>7. ASSUME NEW t \in Topic, NEW p \in Peer
      PROVE  p \in subscribers(subscriptions', t) <=>
               a = SetSubscription(t, p) \/ (p \in subscribers(subscriptions, t) /\ a # UnsetSubscription(t, p))
  <2>1. CASE a.type = "SetSubscription"
    <3>1. a = SetSubscription(a.topic, a.peer)
      BY <1>3, <2>1 DEF Action, SyncAction, SetSubscription
    <3>2. a # UnsetSubscription(t, p) /\ (a = SetSubscription(t, p) <=> t = a.topic /\ p = a.peer)
      BY <2>1, <3>1 DEF SetSubscription, UnsetSubscription
    <3>3. subscriptions' = [x \in DOMAIN subscriptions \cup {a.topic} |->
            IF x = a.topic THEN subscribers(subscriptions, x) \cup {a.peer} ELSE subscriptions[x]]
      BY <1>2, <2>1 DEF apply_subscriptions
    <3> QED
      BY <3>2, <3>3 DEF subscribers
  <2>2. CASE a.type = "UnsetSubscription"
    <3> DEFINE left == subscribers(subscriptions, a.topic) \ {a.peer}
    <3>1. a = UnsetSubscription(a.topic, a.peer)
      BY <1>3, <2>2 DEF Action, SyncAction, UnsetSubscription
    <3>2. a # SetSubscription(t, p) /\ (a = UnsetSubscription(t, p) <=> t = a.topic /\ p = a.peer)
      BY <2>2, <3>1 DEF SetSubscription, UnsetSubscription
    <3>3. subscriptions' = [x \in IF left = {} THEN DOMAIN subscriptions \ {a.topic} ELSE DOMAIN subscriptions |->
                             IF x = a.topic THEN left ELSE subscriptions[x]]
      BY <1>2, <2>2 DEF apply_subscriptions
    <3> QED
      BY <3>2, <3>3 DEF subscribers
  <2>3. CASE a.type \notin {"SetSubscription", "UnsetSubscription"}
    BY <1>2, <2>3 DEF apply_subscriptions, SetSubscription, UnsetSubscription
  <2> QED
    BY <2>1, <2>2, <2>3
<1>8. \A t \in DOMAIN subscriptions' : subscriptions'[t] # {}
  BY <1>2, <1>5 DEF apply_subscriptions, subscribers
<1>9. ASSUME NEW t \in Topic, NEW p \in Peer
      PROVE  a # SetSubscription(t, p) \/ a # UnsetSubscription(t, p)
  BY DEF SetSubscription, UnsetSubscription
<1>10. ASSUME NEW t \in Topic, NEW p \in Peer
       PROVE  /\ ~(Sets(todo', t, p) /\ Unsets(todo', t, p))
              /\ <<t, p>> \in wanted' <=>
                   Sets(todo', t, p) \/ (p \in subscribers(subscriptions', t) /\ ~Unsets(todo', t, p))
  BY <1>2, <1>4, <1>6, <1>7, <1>9
<1> QED
  BY <1>8, <1>10 DEF SubscriptionActions, Sets, Unsets, subscribers, SetSubscription, UnsetSubscription

\* Carrying out an action keeps the stored messages for subscribers.
LEMMA DispatchStored ==
  ASSUME SInv, Dispatch
  PROVE  StoredActions(todo)'
<1>1. IInv /\ StoredActions(todo)
  BY DEF SInv
<1>2. /\ peers' = apply_peers(peers, todo[1]) /\ wanted' = wanted
      /\ 1 \in DOMAIN todo
      /\ \A i \in DOMAIN todo' : i + 1 \in DOMAIN todo /\ todo'[i] = todo[i + 1]
  BY <1>1, HeadAndTail DEF Dispatch
<1>3. ASSUME NEW i \in DOMAIN todo', IsSend(todo'[i], "User")
      PROVE  /\ \A j \in DOMAIN todo' : todo'[j].type = "MessageSend"
             /\ todo'[i].message.to \in DOMAIN peers'
             /\ \E t \in todo'[i].message.body.topics : <<t, peers'[todo'[i].message.to].peer>> \in wanted'
  <2>1. i + 1 \in DOMAIN todo /\ IsSend(todo[i + 1], "User") /\ todo'[i] = todo[i + 1]
    BY <1>2, <1>3
  <2>2. /\ \A j \in DOMAIN todo : todo[j].type = "MessageSend"
        /\ todo[i + 1].message.to \in DOMAIN peers
        /\ \E t \in todo[i + 1].message.body.topics : <<t, peers[todo[i + 1].message.to].peer>> \in wanted
    BY <1>1, <2>1 DEF StoredActions
  <2>3. peers' = peers
    BY <1>2, <2>2 DEF apply_peers
  <2> QED
    BY <1>2, <2>1, <2>2, <2>3
<1> QED
  BY <1>3 DEF StoredActions, IsSend

\* A handler's step: whatever it returned from between two lists is a list
\* that fits; no other step makes one.
LEMMA NextSends ==
  ASSUME SInv, [Next]_vars
  PROVE  (SendActions(todo) /\ SubscriptionActions(todo) /\ StoredActions(todo))'
<1> DEFINE Fit == SendActions(todo) /\ SubscriptionActions(todo) /\ StoredActions(todo)
<1>1. IInv
  BY DEF SInv
<1>2. ASSUME NEW r, Handle(r), UNCHANGED history, \A l \in r.lists : SendActions(l) /\ Plain(l)
      PROVE  Fit'
  BY <1>2, BetweenLists, PlainBecomesTodo DEF Handle
<1>3. ASSUME NEW c \in Conn, InitComm(c) PROVE Fit'
  <2>1. SendActions(todo') /\ Plain(todo') /\ UNCHANGED <<object, wanted>> /\ SubscriptionActions(<<>>)
    BY <1>3, InitCommSends, BetweenLists DEF InitComm, Handle
  <2>2. SubscriptionActions(todo') /\ StoredActions(todo')
    BY <2>1, PlainKeeps
  <2> QED
    BY <2>1, <2>2, ListBecomesTodo
<1>4. ASSUME NEW k \in Remote, NEW c \in Conn, ReceiveInit(k, c) PROVE Fit'
  BY <1>2, <1>4, InitMessageSends DEF ReceiveInit
<1>5. ASSUME NEW k \in Remote, NEW c \in Conn, ReceiveHello(k, c) PROVE Fit'
  BY <1>2, <1>5, HelloSends DEF ReceiveHello
<1>6. ASSUME NEW k \in Remote, NEW n \in Name, ReceivePeerInit(k, n) PROVE Fit'
  BY <1>1, <1>2, <1>6, PeerInitSends DEF ReceivePeerInit
<1>7. ASSUME NEW k \in Remote, NEW n \in Name, UserConfirm(k, n) PROVE Fit'
  BY <1>1, <1>2, <1>7, PeerConfirmSends DEF UserConfirm
<1>8. ASSUME NEW k \in Remote, NEW n \in Name, ReceivePeerConfirm(k, n) PROVE Fit'
  BY <1>2, <1>8, PeerConfirmEventSends DEF ReceivePeerConfirm
<1>9. ASSUME NEW k \in Remote, ReceivePing(k) PROVE Fit'
  BY <1>1, <1>2, <1>9, PingSends DEF ReceivePing
<1>10. ASSUME NEW k \in Remote, ReceivePong(k) PROVE Fit'
  BY <1>2, <1>10, PongSends DEF ReceivePong
<1>11. ASSUME Tick PROVE Fit'
  BY <1>1, <1>2, <1>11, TickSends DEF Tick
<1>12. ASSUME NEW k \in Remote, NEW subs \in SUBSET Subscription, ReceiveSubscribe(k, subs) PROVE Fit'
  BY <1>1, <1>12, BetweenLists, SubscribeSends DEF ReceiveSubscribe, Handle
<1>13. ASSUME NEW k \in Remote, NEW topics \in SUBSET Topic, ReceiveUnsubscribe(k, topics) PROVE Fit'
  BY <1>1, <1>13, BetweenLists, UnsubscribeSends DEF ReceiveUnsubscribe, Handle
<1>14. ASSUME NEW k \in Remote, NEW topics \in SUBSET Topic, ReceiveActiveSubscriptions(k, topics) PROVE Fit'
  <2>1. \A l \in process_event_active_subscriptions(Self, ActiveSubscriptions(topics), k).lists : l = <<>>
    BY DEF process_event_active_subscriptions, FromPeer, Ok, Err
  <2> QED
    BY <1>2, <1>14, <2>1, EmptySends DEF ReceiveActiveSubscriptions
<1>15. ASSUME NEW k \in Remote, ReceiveQuerySubscriptions(k) PROVE Fit'
  BY <1>1, <1>2, <1>15, QuerySubscriptionsSends DEF ReceiveQuerySubscriptions
<1>16. ASSUME NEW kind, NEW body, NEW k, NEW found \in SUBSET Messages,
              Handle(SendSubscribed(Self, body, kind, k, found)), UNCHANGED history
       PROVE  Fit'
  BY <1>1, <1>16, BetweenLists, QueryMessagesSends, ListBecomesTodo DEF Handle, history
<1>17. ASSUME NEW k \in Remote, NEW found \in SUBSET Messages, ReceiveQueryMessagesByID(k, found) PROVE Fit'
  BY <1>16, <1>17 DEF ReceiveQueryMessagesByID, process_event_query_messages_by_id
<1>18. ASSUME NEW k \in Remote, NEW found \in SUBSET Messages, ReceiveQueryMessagesByDepth(k, found) PROVE Fit'
  BY <1>16, <1>18 DEF ReceiveQueryMessagesByDepth, process_event_query_messages_by_depth
<1>19. ASSUME Dispatch PROVE Fit'
  BY <1>19, DispatchSends, DispatchSubscriptions, DispatchStored
<1>20. ASSUME Advance \/ UNCHANGED vars PROVE Fit'
  <2>1. UNCHANGED <<object, todo, wanted>>
    BY <1>20 DEF Advance, vars, history
  <2> QED
    BY <2>1, ListBecomesTodo DEF SInv
<1> HIDE DEF Fit
<1>21. Fit'
  BY <1>3, <1>4, <1>5, <1>6, <1>7, <1>8, <1>9, <1>10, <1>11, <1>12, <1>13, <1>14, <1>15,
     <1>17, <1>18, <1>19, <1>20 DEF Next, Handshake, KeepInTouch, TopicRequest
<1> QED
  BY <1>21 DEF Fit

\* Every step.
LEMMA NextSInv == SInv /\ [Next]_vars => SInv'
BY NextSends, NextIInv DEF SInv

\* So what the host has yet to send is always as it should be.
LEMMA SendInvariance == Spec => []SInv
BY InitSInv, NextSInv, PTL DEF Spec

-----------------------------------------------------------------------------
(* The theorems. *)

\* When a sealed message leaves, its receiver is in the book under the
\* address it leaves for; a PeerConfirm leaves once the peer is active, and
\* a PeerInit once its dial is off the pending list (sync.rs:184, 378, 437).
THEOREM SendsFollow == Spec => []SendsFollowBook
<1>1. SInv => SendsFollowBook
  <2> SUFFICES ASSUME SInv, todo # <<>>, IsSealedSend(Head(todo))
               PROVE  LET a == Head(todo)
                          k == a.message.to
                      IN /\ k \in DOMAIN peers
                         /\ peers[k].connection_info = a.to
                         /\ IsSend(a, "PeerConfirm") => peers[k].active
                         /\ IsSend(a, "PeerInit") => \A p \in pending_peer_init : p.connection_info # a.to
    BY DEF SendsFollowBook, IsSealedSend
  <2>1. 1 \in DOMAIN todo /\ Head(todo) = todo[1] /\ DOMAIN todo \subseteq Nat \ {0}
    <3>1. todo \in Seq(Action)
      BY DEF SInv, IInv, ListOK
    <3> QED
      BY <3>1
  <2>2. SendActions(todo) /\ DialActions(todo) /\ todo[1].type # "SetPeer"
    BY <2>1 DEF SInv, IInv, ListOK, IsSealedSend
  <2>3. todo[1].message.to \in DOMAIN peers /\ Addresses(peers[todo[1].message.to], todo[1])
    BY <2>1, <2>2 DEF SendActions
  <2>4. IsSend(todo[1], "PeerInit") => ~IsPending(todo[1].to)
    BY <2>1, <2>2 DEF DialActions
  <2> QED
    BY <2>1, <2>3, <2>4 DEF Addresses, IsPending
<1> QED
  BY <1>1, SendInvariance, PTL

\* Between two lists the subscriptions are exactly what the peers, under the
\* name they then had, last asked for, and no topic is kept without a
\* subscriber (sync.rs:195-209).
THEOREM SubscriptionsAsAsked == Spec => []SubscriptionsExact
<1>1. SInv => SubscriptionsExact
  <2> SUFFICES ASSUME SInv, todo = <<>>
               PROVE  subscriptions =
                        [t \in {w[1] : w \in wanted} |-> {w[2] : w \in {v \in wanted : v[1] = t}}]
    BY DEF SubscriptionsExact
  <2>1. SubscriptionActions(<<>>)
    BY BetweenLists
  <2>2. /\ wanted \subseteq Topic \X Peer /\ DOMAIN subscriptions \subseteq Topic
        /\ subscriptions \in [DOMAIN subscriptions -> SUBSET Peer]
    BY DEF SInv, IInv, TypeOK
  <2>3. \A t \in Topic, p \in Peer : <<t, p>> \in wanted <=> p \in subscribers(subscriptions, t)
    BY <2>1, NothingAsked DEF SubscriptionActions
  <2>4. \A t \in DOMAIN subscriptions : subscriptions[t] # {}
    BY <2>1 DEF SubscriptionActions
  <2>5. DOMAIN subscriptions = {w[1] : w \in wanted}
    <3>1. ASSUME NEW t \in DOMAIN subscriptions PROVE t \in {w[1] : w \in wanted}
      <4>1. PICK p \in subscriptions[t] : TRUE
        BY <2>4
      <4>2. <<t, p>> \in wanted
        BY <2>2, <2>3, <4>1 DEF subscribers
      <4> QED
        BY <4>2
    <3>2. ASSUME NEW w \in wanted PROVE w[1] \in DOMAIN subscriptions
      <4>1. w[1] \in Topic /\ w[2] \in Peer /\ w = <<w[1], w[2]>>
        BY <2>2
      <4> QED
        BY <2>3, <4>1 DEF subscribers
    <3> QED
      BY <3>1, <3>2
  <2>6. ASSUME NEW t \in DOMAIN subscriptions
        PROVE  subscriptions[t] = {w[2] : w \in {v \in wanted : v[1] = t}}
    <3>1. ASSUME NEW p \in subscriptions[t] PROVE p \in {w[2] : w \in {v \in wanted : v[1] = t}}
      <4>1. <<t, p>> \in wanted
        BY <2>2, <2>3 DEF subscribers
      <4> QED
        BY <4>1
    <3>2. ASSUME NEW w \in wanted, w[1] = t PROVE w[2] \in subscriptions[t]
      <4>1. w[1] \in Topic /\ w[2] \in Peer /\ w = <<w[1], w[2]>>
        BY <2>2
      <4> QED
        BY <2>3, <3>2, <4>1 DEF subscribers
    <3> QED
      BY <3>1, <3>2
  <2> QED
    BY <2>2, <2>5, <2>6
<1> QED
  BY <1>1, SendInvariance, PTL

\* A stored message leaves only for a peer that is, at that moment and under
\* the name we have for it, a subscriber of one of its topics (sync.rs:455, 485).
THEOREM StoredOnlyToSubscribers == Spec => []SendsOnlySubscribed
<1>1. SInv => SendsOnlySubscribed
  <2> SUFFICES ASSUME SInv, todo # <<>>, IsSend(Head(todo), "User")
               PROVE  LET m == Head(todo).message
                      IN \E t \in m.body.topics : m.to \in DOMAIN peers /\ <<t, peers[m.to].peer>> \in wanted
    BY DEF SendsOnlySubscribed
  <2>1. 1 \in DOMAIN todo /\ Head(todo) = todo[1]
    <3>1. todo \in Seq(Action)
      BY DEF SInv, IInv, ListOK
    <3> QED
      BY <3>1
  <2> QED
    BY <2>1 DEF SInv, StoredActions
<1> QED
  BY <1>1, SendInvariance, PTL
=============================================================================
