------------------------------ MODULE SyncNode ------------------------------
(***************************************************************************)
(* One peer: a Sync object (src/src/sync.rs) and the host that drives it,  *)
(* as in the loop of src/tests/connect.rs.  The host takes a message, a    *)
(* user's decision or a timer tick, calls the handler for it, and carries  *)
(* out the returned actions one at a time before it looks at the next one. *)
(* Time may pass between two actions.  The environment is open: any key    *)
(* may send any message at any moment.                                     *)
(***************************************************************************)
EXTENDS SyncObject

CONSTANTS Me, MyName,       \* our key and our name
          Configs,          \* the peering configurations to consider
          Messages,         \* messages in the host's store, by their topics
          TimeSteps,        \* how far the clock may move in one step
          MaxTime,          \* bound: where the clock stops
          MaxUnanswered     \* bound: dials of one address without a PeerInit

ASSUME MeAssumption == Me \in Pubkey /\ MyName \in Name
ASSUME ConfigsAssumption == Configs \subseteq PeeringConfig
ASSUME MessagesAssumption == IsFiniteSet(Messages) /\ Messages \subseteq SUBSET Topic
ASSUME TimeAssumption == TimeSteps \subseteq Nat \ {0} /\ MaxTime \in Nat
ASSUME MaxUnansweredAssumption == MaxUnanswered \in Nat

VARIABLES
  peers,              \* HashMap<Pubkey, PeerInfo>
  subscriptions,      \* HashMap<T, Vec<PeerInfo>>: the subscribers of each topic
  pending_peer_init,  \* Vec<PendingPeer>
  peering_config,     \* given at creation, never written
  todo,               \* actions the host has yet to carry out, the next one first
  now,                \* the clock the host passes to the handlers
  unanswered,         \* history: dials of each address minus PeerInits sent to it
  wanted,             \* history: <<topic, peer>> the peer last asked to subscribe
  released            \* history: <<topic, key>> the key last asked to unsubscribe

object == <<peers, subscriptions, pending_peer_init>>
history == <<unanswered, wanted, released>>
vars == <<object, peering_config, todo, now, history>>

Remote == Pubkey \ {Me}

Self == [pubkey |-> Me, name |-> MyName, peering_config |-> peering_config,
         peers |-> peers, subscriptions |-> subscriptions,
         pending_peer_init |-> pending_peer_init]

Init ==
  /\ peers = [k \in {} |-> {}]
  /\ subscriptions = [t \in {} |-> {}]
  /\ pending_peer_init = {}
  /\ peering_config \in Configs
  /\ todo = <<>>
  /\ now = 0
  /\ unanswered = [c \in Conn |-> 0]
  /\ wanted = {}
  /\ released = {}

-----------------------------------------------------------------------------
(* The host calls a handler only when it has carried out the last list. *)

\* Slip (see SyncObject): the host queues the lists and calls the next handler.
Faulty_Handle(r) ==
  /\ todo' \in {todo \o l : l \in r.lists}
  /\ UNCHANGED <<object, peering_config, now>>

\* After an error there is nothing to carry out, and this host goes on.  The one
\* of connect.rs ends, which leaves a part of these behaviours.
Handle(r) ==
  /\ todo = <<>>
  /\ todo' \in r.lists
  /\ UNCHANGED <<object, peering_config, now>>

\* unwrap_incoming_message lets a message from k with this body through.
Unwraps(k, body) ==
  unwrap_incoming_message(Self, [type |-> "Sealed", from |-> k, to |-> Me, body |-> body]) = "Ok"

InitComm(c) ==
  /\ unanswered[c] < MaxUnanswered
  /\ Handle(init_comm(Self, c, now))
  /\ unanswered' = [unanswered EXCEPT ![c] = @ + 1]
  /\ UNCHANGED <<wanted, released>>

ReceiveInit(k, c) ==
  /\ Handle(process_init_message(Self, [type |-> "Init", from |-> k], c, now))
  /\ UNCHANGED history

ReceiveHello(k, c) ==
  /\ Unwraps(k, Hello)
  /\ Handle(process_event_hello(Self, Hello, k, c, now))
  /\ UNCHANGED history

ReceivePeerInit(k, n) ==
  /\ Unwraps(k, PeerInit(n))
  /\ Handle(process_event_peer_init(Self, PeerInit(n), k, now))
  /\ UNCHANGED history

\* The user answers a Confirm action, whenever they get round to it.
UserConfirm(k, n) ==
  /\ Handle(peer_confirm(Self, k, n, now))
  /\ UNCHANGED history

ReceivePeerConfirm(k, n) ==
  /\ Unwraps(k, PeerConfirm(n))
  /\ Handle(process_event_peer_confirm(Self, PeerConfirm(n), k, now))
  /\ UNCHANGED history

ReceivePing(k) ==
  /\ Unwraps(k, Ping)
  /\ Handle(process_event_ping(Self, Ping, k, now))
  /\ UNCHANGED history

ReceivePong(k) ==
  /\ Unwraps(k, Pong)
  /\ Handle(process_event_pong(Self, Pong, k, now))
  /\ UNCHANGED history

ReceiveSubscribe(k, subs) ==
  LET body == [kind |-> "Subscribe", subscriptions |-> subs]
      topics == {s.topic : s \in {x \in subs : x.valid}}
  IN /\ Unwraps(k, body)
     /\ Handle(process_event_subscribe(Self, body, k))
     /\ wanted' = wanted \cup (topics \X {peers[k].peer})
     /\ released' = released \ (topics \X {k})
     /\ UNCHANGED unanswered

ReceiveUnsubscribe(k, topics) ==
  LET body == [kind |-> "Unsubscribe", topics |-> topics]
  IN /\ Unwraps(k, body)
     /\ Handle(process_event_unsubscribe(Self, body, k))
     /\ wanted' = wanted \ (topics \X {peers[k].peer})
     /\ released' = released \cup (topics \X {k})
     /\ UNCHANGED unanswered

ReceiveQuerySubscriptions(k) ==
  LET body == [kind |-> "QuerySubscriptions"]
  IN /\ Unwraps(k, body)
     /\ Handle(process_event_query_subscriptions(Self, body, k))
     /\ UNCHANGED history

ReceiveActiveSubscriptions(k, topics) ==
  /\ Unwraps(k, ActiveSubscriptions(topics))
  /\ Handle(process_event_active_subscriptions(Self, ActiveSubscriptions(topics), k))
  /\ UNCHANGED history

ReceiveQueryMessagesByID(k, found) ==
  LET body == [kind |-> "QueryMessagesByID"]
  IN /\ Unwraps(k, body)
     /\ Handle(process_event_query_messages_by_id(Self, body, k, found))
     /\ UNCHANGED history

ReceiveQueryMessagesByDepth(k, found) ==
  LET body == [kind |-> "QueryMessagesByDepth"]
  IN /\ Unwraps(k, body)
     /\ Handle(process_event_query_messages_by_depth(Self, body, k, found))
     /\ UNCHANGED history

Tick ==
  /\ Handle(tick(Self, now))
  /\ UNCHANGED history

-----------------------------------------------------------------------------
(* The host carries out the next action of the list: it applies it to the  *)
(* object, hands the message to the network or asks the user.              *)

IsSend(a, kind) ==
  a.type = "MessageSend" /\ a.message.type = "Sealed" /\ a.message.body.kind = kind

Dispatch ==
  /\ todo # <<>>
  /\ LET a == Head(todo)
     IN /\ peers' = apply_peers(peers, a)
        /\ pending_peer_init' = apply_pending(pending_peer_init, a)
        /\ subscriptions' = apply_subscriptions(subscriptions, a)
        /\ unanswered' = IF IsSend(a, "PeerInit")
                         THEN [unanswered EXCEPT ![a.to] = @ - 1] ELSE unanswered
  /\ todo' = Tail(todo)
  /\ UNCHANGED <<peering_config, now, wanted, released>>

Advance ==
  /\ \E d \in TimeSteps : now + d <= MaxTime /\ now' = now + d
  /\ UNCHANGED <<object, peering_config, todo, history>>

-----------------------------------------------------------------------------

Handshake ==
  \/ \E c \in Conn : InitComm(c)
  \/ \E k \in Remote, c \in Conn : ReceiveInit(k, c) \/ ReceiveHello(k, c)
  \/ \E k \in Remote, n \in Name :
       ReceivePeerInit(k, n) \/ UserConfirm(k, n) \/ ReceivePeerConfirm(k, n)

KeepInTouch ==
  \/ \E k \in Remote : ReceivePing(k) \/ ReceivePong(k)
  \/ Tick

TopicRequest ==
  \/ \E k \in Remote, subs \in SUBSET Subscription : ReceiveSubscribe(k, subs)
  \/ \E k \in Remote, topics \in SUBSET Topic :
       ReceiveUnsubscribe(k, topics) \/ ReceiveActiveSubscriptions(k, topics)
  \/ \E k \in Remote : ReceiveQuerySubscriptions(k)
  \/ \E k \in Remote, found \in SUBSET Messages :
       ReceiveQueryMessagesByID(k, found) \/ ReceiveQueryMessagesByDepth(k, found)

Next == Handshake \/ KeepInTouch \/ TopicRequest \/ Dispatch \/ Advance

Spec == Init /\ [][Next]_vars

\* The host finishes the lists it is handed, time does not stop before
\* MaxTime, and tick is "called periodically": a busy host postpones it
\* but gets to it again and again.
Fairness == WF_vars(Dispatch) /\ WF_vars(Advance) /\ SF_vars(Tick)

FairSpec == Spec /\ Fairness

-----------------------------------------------------------------------------
(* Properties. *)

\* Every field keeps its type; in particular the book is a HashMap filed
\* under each record's own key, and no list holds an ill-formed action.
TypeOK ==
  /\ DOMAIN peers \subseteq Remote
  /\ peers \in [DOMAIN peers -> PeerInfo]
  /\ \A k \in DOMAIN peers : peers[k].peer.pubkey = k
  /\ DOMAIN subscriptions \subseteq Topic
  /\ subscriptions \in [DOMAIN subscriptions -> SUBSET Peer]
  /\ pending_peer_init \in SUBSET PendingPeer
  /\ peering_config \in Configs
  /\ todo \in Seq(Action)
  /\ now \in Nat
  /\ unanswered \in [Conn -> Int]
  /\ wanted \subseteq Topic \X Peer
  /\ released \subseteq Topic \X Pubkey

\* A PeerInit goes only to an address we dialed, and at most once per dial
\* (sync.rs:95): however Hellos, dials, prunings and deferred actions
\* interleave, no address is ever sent more PeerInits than it was dialed.
PeerInitsAnswerDials == \A c \in Conn : unanswered[c] >= 0

\* The pending list has one entry per address, and an address that is
\* pending was dialed and has not been sent the PeerInit of that dial: a
\* second dial, a repeated Hello or a pruning never leaves an entry behind
\* that a stray Hello could use (sync.rs:184-193).
PendingAwaitsHello ==
  \A p \in pending_peer_init :
    /\ unanswered[p.connection_info] > 0
    /\ \A q \in pending_peer_init : q.connection_info = p.connection_info => q = p

\* When a sealed message leaves, its receiver is in the book under the
\* address it leaves for; a PeerConfirm leaves only once the peer is
\* active, and a PeerInit once the pending entry is gone.  The addresses
\* were read when the list was made, some actions earlier.
SendsFollowBook ==
  todo # <<>> =>
    LET a == Head(todo)
    IN a.type = "MessageSend" /\ a.message.type = "Sealed" =>
         LET k == a.message.to
         IN /\ k \in DOMAIN peers
            /\ peers[k].connection_info = a.to
            /\ IsSend(a, "PeerConfirm") => peers[k].active
            /\ IsSend(a, "PeerInit") => \A p \in pending_peer_init : p.connection_info # a.to

\* Between two lists the subscriptions are exactly what the peers, under
\* the name they then had, last asked for, and no topic is kept without a
\* subscriber (sync.rs:195-209).
SubscriptionsExact ==
  todo = <<>> =>
    subscriptions = [t \in {w[1] : w \in wanted} |-> {w[2] : w \in {v \in wanted : v[1] = t}}]

\* A stored message leaves only for a peer that is, at that moment and
\* under the name we have for it, a subscriber of one of its topics
\* (sync.rs:455, 485).
SendsOnlySubscribed ==
  todo # <<>> /\ IsSend(Head(todo), "User") =>
    LET m == Head(todo).message
    IN \E t \in m.body.topics :
         m.to \in DOMAIN peers /\ <<t, peers[m.to].peer>> \in wanted

\* The peer list as PeerLifecycle sees it.
BookStatus ==
  [k \in Remote |-> IF k \notin DOMAIN peers THEN "absent"
                    ELSE IF peers[k].active THEN "active" ELSE "inactive"]
BookHeard == [k \in Remote |-> IF k \in DOMAIN peers THEN peers[k].last_ping ELSE 0]

Lifecycle == INSTANCE PeerLifecycle WITH
  Key <- Remote, Patience <- 180, clock <- now, status <- BookStatus, heard <- BookHeard

\* What the peer list promises of every key: the action lists, carried out
\* one by one while the clock moves, implement PeerLifecycle.  In
\* particular tick never drops a peer that is active or was heard from in
\* the last three minutes (sync.rs:230), and no last_ping goes back.
ImplementsLifecycle == Lifecycle!Spec

\* An inactive peer that is never heard from again is dropped (sync.rs:230):
\* a record does not stay inactive with the same last_ping for ever, unless
\* the clock stops before it is old enough.
SilentPeerForgotten ==
  \A k \in Remote : \A t \in {s \in 0..MaxTime : MaxTime - s > 180} :
    LET silent == k \in DOMAIN peers /\ ~peers[k].active /\ peers[k].last_ping = t
    IN silent ~> ~silent

\* An active peer that has been silent for a minute is pinged, and again for
\* as long as it stays silent (sync.rs:236): it is never given up, and neither
\* other peers nor other lists keep the ping from leaving.
SilentPeerPinged ==
  \A k \in Remote :
    LET silent == k \in DOMAIN peers /\ peers[k].active /\ now - peers[k].last_ping >= 60
    IN silent ~> ~silent \/ (todo # <<>> /\ IsSend(Head(todo), "Ping") /\ Head(todo).message.to = k)

\* A dial that gets no Hello does not stay pending for ever (sync.rs:243).
PendingExpires ==
  \A c \in Conn : \A t \in {s \in 0..MaxTime : MaxTime - s >= 120} :
    LET waiting == [connection_info |-> c, created |-> t] \in pending_peer_init
    IN waiting ~> ~waiting

-----------------------------------------------------------------------------
(* The actions of a list were computed from the object as it was when the  *)
(* handler ran.  They are still right when the host carries them out.      *)

\* A record about to be written is of a remote key, does not turn its
\* last_ping back, and is active only if the key is already in the book.
Renews(info) ==
  LET k == info.peer.pubkey
  IN /\ k \in Remote
     /\ info.last_ping <= now
     /\ k \in DOMAIN peers => peers[k].last_ping <= info.last_ping
     /\ info.active => k \in DOMAIN peers

\* A key about to be dropped is inactive and silent for over three minutes.
Expired(k) ==
  k \in DOMAIN peers => ~peers[k].active /\ now - peers[k].last_ping > 180

IsPending(c) == \E p \in pending_peer_init : p.connection_info = c

\* A list writes at most one record, first, and then drops none.
BookActions(l) ==
  \A i \in DOMAIN l :
    /\ l[i].type = "SetPeer" =>
         /\ i = 1
         /\ Renews(l[i].peer_info)
         /\ \A j \in DOMAIN l : l[j].type # "UnsetPeer"
    /\ l[i].type = "UnsetPeer" => Expired(l[i].pubkey)

\* A list that sends a PeerInit sends one, to an address it first takes off
\* the pending list, and puts none on it.
DialActions(l) ==
  \A i \in DOMAIN l :
    /\ l[i].type = "SetPendingPeer" => unanswered[l[i].pending_peer.connection_info] > 0
    /\ IsSend(l[i], "PeerInit") =>
         /\ unanswered[l[i].to] > 0
         /\ \A j \in DOMAIN l : j # i => ~IsSend(l[j], "PeerInit")
         /\ \A j \in DOMAIN l : l[j].type # "SetPendingPeer"
         /\ IsPending(l[i].to) => \E j \in DOMAIN l : j < i /\ l[j] = UnsetPendingPeer(l[i].to)

\* The list fits the object it is about to be applied to.
ListOK(l) == l \in Seq(Action) /\ BookActions(l) /\ DialActions(l)

\* What the host has yet to carry out fits the object as it is now: between
\* the handler and the last of its actions nothing makes them stale
\* (action.rs:15-19 lets the caller apply them whenever it likes).
TodoFits == ListOK(todo)

-----------------------------------------------------------------------------
(* What the repository's comments say and the code does not do. *)

\* "Unsubscribe from topic(s)." (event.rs:60): once a peer's request to
\* unsubscribe from a topic is carried out, no subscription of its key to
\* that topic is left.
UnsubscribeRemoves ==
  todo = <<>> =>
    \A t \in DOMAIN subscriptions : \A p \in subscriptions[t] : <<t, p.pubkey>> \notin released
=============================================================================
