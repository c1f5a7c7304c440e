----------------------------- MODULE SyncObject -----------------------------
(***************************************************************************)
(* The handlers of the Sync object (src/src/sync.rs) as operators.  Every  *)
(* method of Sync takes &self and returns the list of actions its caller   *)
(* should carry out; only apply_sync_actions takes &mut self.  So a        *)
(* handler is an operator from the object (the record `self`), the message *)
(* and the caller's clock to a result: Ok with the action lists it may     *)
(* return (several, when the code walks a HashMap), or an Err.             *)
(*                                                                         *)
(* A Vec whose order and multiplicity no code reads is a set here, and an  *)
(* encrypted body is a record that only the key it is sealed to can open.  *)
(* Times are whole seconds: the code compares num_seconds() only.          *)
(*                                                                         *)
(* An operator named Faulty_... or Other_... is no part of the model: it   *)
(* is the handler after a plausible slip, kept to show that some property  *)
(* would notice.                                                           *)
(***************************************************************************)
EXTENDS Integers, FiniteSets, Sequences, SequencesExt

CONSTANTS Pubkey,    \* peer public keys
          Conn,      \* socket addresses (ConnectionInfo)
          Name,      \* names peers go by
          TmpName,   \* the name "<tmp>" of a peer that has not told us its own
          Topic      \* topics

ASSUME PubkeyAssumption == IsFiniteSet(Pubkey)
ASSUME ConnAssumption == IsFiniteSet(Conn)
ASSUME TopicAssumption == IsFiniteSet(Topic)

-----------------------------------------------------------------------------
(* Data. *)

Time == Nat

Peer == [name : Name \cup {TmpName}, pubkey : Pubkey]
PeerInfo == [peer : Peer, connection_info : Conn, active : BOOLEAN, last_ping : Time]
PendingPeer == [connection_info : Conn, created : Time]
PeeringConfig == [mode : {"Private", "Confirm", "PublicAgent"},
                  whitelist : SUBSET Pubkey, blacklist : SUBSET Pubkey]

\* A subscription names a topic; `valid` is the outcome of its verify().
Subscription == [topic : Topic, valid : BOOLEAN]

\* Message IDs, parents and depths are never read by Sync.  A User body
\* stands for an application message with the topics of its topic_graph.
Event ==
       [kind : {"Hello", "Ping", "Pong", "QueryMessagesByID",
                "QueryMessagesByDepth", "QuerySubscriptions"}]
  \cup [kind : {"PeerInit", "PeerConfirm"}, name : Name \cup {TmpName}]
  \cup [kind : {"Subscribe"}, subscriptions : SUBSET Subscription]
  \cup [kind : {"Unsubscribe", "ActiveSubscriptions", "User"}, topics : SUBSET Topic]

MessageSealed == [type : {"Sealed"}, from : Pubkey, to : Pubkey, body : Event]
MessageInit == [type : {"Init"}, from : Pubkey]
MessageWrapped == MessageSealed \cup MessageInit

SyncAction ==
       [type : {"SetPeer"}, peer_info : PeerInfo]
  \cup [type : {"UnsetPeer"}, pubkey : Pubkey]
  \cup [type : {"SetPendingPeer"}, pending_peer : PendingPeer]
  \cup [type : {"UnsetPendingPeer"}, connection_info : Conn]
  \cup [type : {"SetSubscription", "UnsetSubscription"}, topic : Topic, peer : Peer]

Action ==
       SyncAction
  \cup [type : {"MessageSend"}, to : Conn, message : MessageWrapped]
  \cup [type : {"Confirm"}, event : Event]

SetPeer(info) == [type |-> "SetPeer", peer_info |-> info]
UnsetPeer(k) == [type |-> "UnsetPeer", pubkey |-> k]
SetPendingPeer(p) == [type |-> "SetPendingPeer", pending_peer |-> p]
UnsetPendingPeer(c) == [type |-> "UnsetPendingPeer", connection_info |-> c]
SetSubscription(t, p) == [type |-> "SetSubscription", topic |-> t, peer |-> p]
UnsetSubscription(t, p) == [type |-> "UnsetSubscription", topic |-> t, peer |-> p]
MessageSend(c, m) == [type |-> "MessageSend", to |-> c, message |-> m]
Confirm(e) == [type |-> "Confirm", event |-> e]

Hello == [kind |-> "Hello"]
Ping == [kind |-> "Ping"]
Pong == [kind |-> "Pong"]
PeerInit(n) == [kind |-> "PeerInit", name |-> n]
PeerConfirm(n) == [kind |-> "PeerConfirm", name |-> n]
ActiveSubscriptions(ts) == [kind |-> "ActiveSubscriptions", topics |-> ts]
User(ts) == [kind |-> "User", topics |-> ts]

\* Result<Vec<Action>>: the lists an Ok may carry, or the error.
Ok(ls) == [result |-> "Ok", lists |-> ls]
Err(e) == [result |-> e, lists |-> {<<>>}]

tmp(k) == [name |-> TmpName, pubkey |-> k]
new_info(p, c, now) ==
  [peer |-> p, connection_info |-> c, active |-> FALSE, last_ping |-> now]
seen(info, now) == [info EXCEPT !.last_ping = now]
confirmed(info, name, now) ==
  [info EXCEPT !.peer.name = name, !.active = TRUE, !.last_ping = now]

-----------------------------------------------------------------------------
(* Reading the object. *)

\* Some(true), Some(false) and None.
can_confirm(config, k) ==
  CASE config.mode = "Private" -> IF k \in config.whitelist THEN "yes" ELSE "no"
    [] config.mode = "Confirm" -> IF k \in config.blacklist THEN "no"
                                  ELSE IF k \in config.whitelist THEN "yes" ELSE "ask"
    [] OTHER -> IF k \in config.blacklist THEN "no" ELSE "yes"

known(self, k) == k \in DOMAIN self.peers

is_pending(self, c) == \E p \in self.pending_peer_init : p.connection_info = c

create_sealed_message(self, to, body) ==
  [type |-> "Sealed", from |-> self.pubkey, to |-> to.pubkey, body |-> body]

\* Slip: subscribers are looked up by key alone.
Faulty_is_peer_subscribed_to_topic(self, t, p) ==
  t \in DOMAIN self.subscriptions /\ \E q \in self.subscriptions[t] : q.pubkey = p.pubkey

\* Peers are compared whole: same key and same name.
is_peer_subscribed_to_topic(self, t, p) ==
  t \in DOMAIN self.subscriptions /\ p \in self.subscriptions[t]

filter_message_by_peer(self, p, topic_graph) ==
  \E t \in topic_graph : is_peer_subscribed_to_topic(self, t, p)

-----------------------------------------------------------------------------
(* apply_sync_actions, for one action and one field of the object. *)

apply_peers(peers, a) ==
  CASE a.type = "SetPeer" ->
         LET k == a.peer_info.peer.pubkey
         IN [x \in DOMAIN peers \cup {k} |-> IF x = k THEN a.peer_info ELSE peers[x]]
    [] a.type = "UnsetPeer" -> [x \in DOMAIN peers \ {a.pubkey} |-> peers[x]]
    [] OTHER -> peers

\* Slip: a second dial of an address is filed next to the first.
Faulty_apply_pending(pending, a) ==
  CASE a.type = "SetPendingPeer" -> pending \cup {a.pending_peer}
    [] a.type = "UnsetPendingPeer" ->
         {p \in pending : p.connection_info # a.connection_info}
    [] OTHER -> pending

apply_pending(pending, a) ==
  CASE a.type = "SetPendingPeer" ->
         IF \E p \in pending : p.connection_info = a.pending_peer.connection_info
         THEN pending ELSE pending \cup {a.pending_peer}
    [] a.type = "UnsetPendingPeer" ->
         {p \in pending : p.connection_info # a.connection_info}
    [] OTHER -> pending

subscribers(subs, t) == IF t \in DOMAIN subs THEN subs[t] ELSE {}

\* Slip: a key that subscribed already, under whatever name, is not added.
Faulty_apply_subscriptions(subs, a) ==
  CASE a.type = "SetSubscription" ->
         IF \E q \in subscribers(subs, a.topic) : q.pubkey = a.peer.pubkey THEN subs
         ELSE [t \in DOMAIN subs \cup {a.topic} |->
                 IF t = a.topic THEN subscribers(subs, t) \cup {a.peer} ELSE subs[t]]
    [] a.type = "UnsetSubscription" ->
         LET left == subscribers(subs, a.topic) \ {a.peer}
         IN [t \in IF left = {} THEN DOMAIN subs \ {a.topic} ELSE DOMAIN subs |->
               IF t = a.topic THEN left ELSE subs[t]]
    [] OTHER -> subs

apply_subscriptions(subs, a) ==
  CASE a.type = "SetSubscription" ->
         [t \in DOMAIN subs \cup {a.topic} |->
            IF t = a.topic THEN subscribers(subs, t) \cup {a.peer} ELSE subs[t]]
    [] a.type = "UnsetSubscription" ->
         LET left == subscribers(subs, a.topic) \ {a.peer}
         IN [t \in IF left = {} THEN DOMAIN subs \ {a.topic} ELSE DOMAIN subs |->
               IF t = a.topic THEN left ELSE subs[t]]
    [] OTHER -> subs

-----------------------------------------------------------------------------
(* tick. *)

\* Slip: peers that are active are left alone.
Faulty_due(self, now) ==
  {k \in DOMAIN self.peers : now - self.peers[k].last_ping >= 60 /\ ~self.peers[k].active}

\* Peers heard from in the last minute are skipped, silent ones that were
\* never confirmed are dropped after three, everyone else is pinged.
due(self, now) == {k \in DOMAIN self.peers : now - self.peers[k].last_ping >= 60}

\* Slip: silence is enough to drop a peer, active or not.
Faulty_tick_peer(self, k, now) ==
  LET info == self.peers[k]
  IN IF now - info.last_ping > 180
     THEN UnsetPeer(k)
     ELSE MessageSend(info.connection_info, create_sealed_message(self, info.peer, Ping))

\* Slip: whoever is silent is pinged, never dropped.
Other_tick_peer(self, k, now) ==
  MessageSend(self.peers[k].connection_info,
              create_sealed_message(self, self.peers[k].peer, Ping))

tick_peer(self, k, now) ==
  LET info == self.peers[k]
  IN IF now - info.last_ping > 180 /\ ~info.active
     THEN UnsetPeer(k)
     ELSE MessageSend(info.connection_info, create_sealed_message(self, info.peer, Ping))

\* Slip: the comparison the wrong way round.
Faulty_stale(self, now) == {p \in self.pending_peer_init : now - p.created < 120}

stale(self, now) == {p \in self.pending_peer_init : now - p.created >= 120}

tick_list(self, ks, ps, now) ==
  [i \in DOMAIN ks |-> tick_peer(self, ks[i], now)]
    \o [i \in DOMAIN ps |-> UnsetPendingPeer(ps[i].connection_info)]

\* The peers come in the HashMap's order, that is in any order.
tick(self, now) ==
  Ok({tick_list(self, order[1], order[2], now) :
      order \in SetToSeqs(due(self, now)) \X SetToSeqs(stale(self, now))})

-----------------------------------------------------------------------------
(* The handshake. *)

init_comm(self, c, now) ==
  Ok({<<SetPendingPeer([connection_info |-> c, created |-> now]),
        MessageSend(c, [type |-> "Init", from |-> self.pubkey])>>})

\* Slip: our own key for the sender's.
Faulty_process_init_message(self, msg, c, now) ==
  IF msg.type # "Init" THEN Err("MessageNotInit")
  ELSE Ok({<<SetPeer(new_info(tmp(self.pubkey), c, now)),
             MessageSend(c, create_sealed_message(self, tmp(msg.from), Hello))>>})

\* Slip: the sender is answered and not recorded.
Other_process_init_message(self, msg, c, now) ==
  IF msg.type # "Init" THEN Err("MessageNotInit")
  ELSE Ok({<<MessageSend(c, create_sealed_message(self, tmp(msg.from), Hello))>>})

process_init_message(self, msg, c, now) ==
  IF msg.type # "Init" THEN Err("MessageNotInit")
  ELSE Ok({<<SetPeer(new_info(tmp(msg.from), c, now)),
             MessageSend(c, create_sealed_message(self, tmp(msg.from), Hello))>>})

\* What unwrap_incoming_message says of a sealed message.
unwrap_incoming_message(self, sealed) ==
  CASE sealed.to # self.pubkey -> "MessageOpenFailed"
    [] sealed.to = self.pubkey /\ ~known(self, sealed.from)
         /\ sealed.body.kind \notin {"Hello", "PeerInit"} -> "PeerNotFound"
    [] OTHER -> "Ok"

\* Slip: a Hello nobody asked for is answered like any other.
Faulty_process_event_hello(self, body, k, c, now) ==
  IF body.kind # "Hello" THEN Err("EventMismatch")
  ELSE Ok({<<SetPeer(new_info(tmp(k), c, now)),
             UnsetPendingPeer(c),
             MessageSend(c, create_sealed_message(self, tmp(k), PeerInit(self.name)))>>})

\* Slip: a peer that is in the book already is not greeted back.
Other_process_event_hello(self, body, k, c, now) ==
  IF body.kind # "Hello" THEN Err("EventMismatch")
  ELSE IF ~is_pending(self, c) \/ known(self, k) THEN Ok({<<>>})
  ELSE Ok({<<SetPeer(new_info(tmp(k), c, now)),
             UnsetPendingPeer(c),
             MessageSend(c, create_sealed_message(self, tmp(k), PeerInit(self.name)))>>})

process_event_hello(self, body, k, c, now) ==
  IF body.kind # "Hello" THEN Err("EventMismatch")
  ELSE IF ~is_pending(self, c) THEN Ok({<<>>})
  ELSE Ok({<<SetPeer(new_info(tmp(k), c, now)),
             UnsetPendingPeer(c),
             MessageSend(c, create_sealed_message(self, tmp(k), PeerInit(self.name)))>>})

\* Slip: the confirmation leaves before the book is written.
Faulty_peer_confirm(self, k, name, now) ==
  IF ~known(self, k) THEN Err("PeerNotFound")
  ELSE LET info == self.peers[k]
       IN Ok({<<MessageSend(info.connection_info,
                            create_sealed_message(self, info.peer, PeerConfirm(self.name))),
                SetPeer(confirmed(info, name, now))>>})

\* Slip: a peer that counts as active is not told again.
Other_peer_confirm(self, k, name, now) ==
  IF ~known(self, k) THEN Err("PeerNotFound")
  ELSE LET info == self.peers[k]
           answer == MessageSend(info.connection_info,
                       create_sealed_message(self, info.peer, PeerConfirm(self.name)))
       IN Ok({<<SetPeer(confirmed(info, name, now))>> \o
              (IF info.active THEN <<>> ELSE <<answer>>)})

peer_confirm(self, k, name, now) ==
  IF ~known(self, k) THEN Err("PeerNotFound")
  ELSE LET info == self.peers[k]
       IN Ok({<<SetPeer(confirmed(info, name, now)),
                MessageSend(info.connection_info,
                            create_sealed_message(self, info.peer, PeerConfirm(self.name)))>>})

\* Slip: None is taken for Some(true).
Faulty_process_event_peer_init(self, body, k, now) ==
  IF body.kind # "PeerInit" THEN Err("EventMismatch")
  ELSE IF can_confirm(self.peering_config, k) = "no" THEN Ok({<<>>})
  ELSE peer_confirm(self, k, body.name, now)

process_event_peer_init(self, body, k, now) ==
  IF body.kind # "PeerInit" THEN Err("EventMismatch")
  ELSE CASE can_confirm(self.peering_config, k) = "yes" -> peer_confirm(self, k, body.name, now)
         [] can_confirm(self.peering_config, k) = "no" -> Ok({<<>>})
         [] OTHER -> Ok({<<Confirm(body)>>})

\* The handlers below look up the sender after checking the event's kind.
FromPeer(self, body, kind, k, ok) ==
  IF body.kind # kind THEN Err("EventMismatch")
  ELSE IF ~known(self, k) THEN Err("PeerNotFound")
  ELSE ok

process_event_peer_confirm(self, body, k, now) ==
  FromPeer(self, body, "PeerConfirm", k,
           Ok({<<SetPeer(confirmed(self.peers[k], body.name, now))>>}))

-----------------------------------------------------------------------------
(* Keeping in touch. *)

process_event_ping(self, body, k, now) ==
  FromPeer(self, body, "Ping", k,
           Ok({<<SetPeer(seen(self.peers[k], now)),
                 MessageSend(self.peers[k].connection_info,
                             create_sealed_message(self, self.peers[k].peer, Pong))>>}))

process_event_pong(self, body, k, now) ==
  FromPeer(self, body, "Pong", k, Ok({<<SetPeer(seen(self.peers[k], now))>>}))

-----------------------------------------------------------------------------
(* Subscriptions and queries. *)

\* The Vec the sender wrote its entries in may be in any order.
InAnyOrder(S, Op(_)) == {[i \in DOMAIN s |-> Op(s[i])] : s \in SetToSeqs(S)}

process_event_subscribe(self, body, k) ==
  FromPeer(self, body, "Subscribe", k,
           Ok(InAnyOrder({s \in body.subscriptions : s.valid},
                         LAMBDA s : SetSubscription(s.topic, self.peers[k].peer))))

process_event_unsubscribe(self, body, k) ==
  FromPeer(self, body, "Unsubscribe", k,
           Ok(InAnyOrder(body.topics,
                         LAMBDA t : UnsetSubscription(t, self.peers[k].peer))))

process_event_query_subscriptions(self, body, k) ==
  FromPeer(self, body, "QuerySubscriptions", k,
           LET p == self.peers[k].peer
               topics == {t \in DOMAIN self.subscriptions : p \in self.subscriptions[t]}
           IN Ok({<<MessageSend(self.peers[k].connection_info,
                                create_sealed_message(self, p, ActiveSubscriptions(topics)))>>}))

process_event_active_subscriptions(self, body, k) ==
  FromPeer(self, body, "ActiveSubscriptions", k, Ok({<<>>}))

\* The caller passes the messages it found in its own store, each given by
\* the topics of its topic_graph.
SendSubscribed(self, body, kind, k, messages) ==
  IF messages = {} THEN Ok({<<>>})
  ELSE FromPeer(self, body, kind, k,
         Ok(InAnyOrder({m \in messages : filter_message_by_peer(self, self.peers[k].peer, m)},
              LAMBDA m : MessageSend(self.peers[k].connection_info,
                           create_sealed_message(self, self.peers[k].peer, User(m))))))

process_event_query_messages_by_id(self, body, k, messages) ==
  SendSubscribed(self, body, "QueryMessagesByID", k, messages)

process_event_query_messages_by_depth(self, body, k, messages) ==
  SendSubscribed(self, body, "QueryMessagesByDepth", k, messages)

=============================================================================
