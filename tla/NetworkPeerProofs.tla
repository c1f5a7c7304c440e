-------------------------- MODULE NetworkPeerProofs --------------------------
(***************************************************************************)
(* A peer of the network is a SyncNode, checked by TLAPS, so that what     *)
(* SyncNodeProofs proves of a peer whose environment may do anything holds *)
(* of each peer of a network.                                              *)
(***************************************************************************)
EXTENDS NetworkPeer, PeerNetworkProofs

-----------------------------------------------------------------------------
(* Node has the same handlers. *)

\* Node sees the object that the handlers of Me are called with.
LEMMA SameSelf == Node!Self = Self(Me)
BY DEF Node!Self, Self

\* The handlers of a SyncNode's messages are those of the network's.
LEMMA SameReading ==
  ASSUME NEW self
  PROVE  /\ \A config, k : Node!can_confirm(config, k) = can_confirm(config, k)
         /\ \A k : Node!known(self, k) = known(self, k)
         /\ \A c : Node!is_pending(self, c) = is_pending(self, c)
         /\ \A to, body : Node!create_sealed_message(self, to, body) = create_sealed_message(self, to, body)
         /\ \A m : Node!unwrap_incoming_message(self, m) = unwrap_incoming_message(self, m)
<1>1. \A config, k : Node!can_confirm(config, k) = can_confirm(config, k)
  BY DEF Node!can_confirm, can_confirm
<1>2. \A k : Node!known(self, k) = known(self, k)
  BY DEF Node!known, known
<1>3. \A c : Node!is_pending(self, c) = is_pending(self, c)
  BY DEF Node!is_pending, is_pending
<1>4. \A to, body : Node!create_sealed_message(self, to, body) = create_sealed_message(self, to, body)
  BY DEF Node!create_sealed_message, create_sealed_message
<1>5. \A m : Node!unwrap_incoming_message(self, m) = unwrap_incoming_message(self, m)
  BY <1>2 DEF Node!unwrap_incoming_message, unwrap_incoming_message
<1> QED
  BY <1>1, <1>2, <1>3, <1>4, <1>5

\* The messages, actions and records of Node are those of the network.
LEMMA SameData ==
  ASSUME NEW t
  PROVE  /\ \A ls : Node!Ok(ls) = Ok(ls) /\ Node!Err(ls) = Err(ls)
         /\ \A k, c : Node!new_info(Node!tmp(k), c, t) = new_info(tmp(k), c, t)
         /\ \A k : Node!tmp(k) = tmp(k)
         /\ \A info : Node!seen(info, t) = seen(info, t)
         /\ \A info, name : Node!confirmed(info, name, t) = confirmed(info, name, t)
         /\ \A x : Node!SetPeer(x) = SetPeer(x) /\ Node!UnsetPeer(x) = UnsetPeer(x)
                   /\ Node!SetPendingPeer(x) = SetPendingPeer(x) /\ Node!UnsetPendingPeer(x) = UnsetPendingPeer(x)
                   /\ Node!Confirm(x) = Confirm(x)
         /\ \A c, m : Node!MessageSend(c, m) = MessageSend(c, m)
         /\ Node!Hello = Hello /\ Node!Ping = Ping /\ Node!Pong = Pong
         /\ \A name : Node!PeerInit(name) = PeerInit(name) /\ Node!PeerConfirm(name) = PeerConfirm(name)
<1>1. \A ls : Node!Ok(ls) = Ok(ls) /\ Node!Err(ls) = Err(ls)
  BY DEF Node!Ok, Ok, Node!Err, Err
<1>2. \A k : Node!tmp(k) = tmp(k)
  BY DEF Node!tmp, tmp
<1>3. \A k, c : Node!new_info(Node!tmp(k), c, t) = new_info(tmp(k), c, t)
  BY <1>2 DEF Node!new_info, new_info
<1>4. \A info : Node!seen(info, t) = seen(info, t)
  BY DEF Node!seen, seen
<1>5. \A info, name : Node!confirmed(info, name, t) = confirmed(info, name, t)
  BY DEF Node!confirmed, confirmed
<1>6. \A x : Node!SetPeer(x) = SetPeer(x) /\ Node!UnsetPeer(x) = UnsetPeer(x)
             /\ Node!SetPendingPeer(x) = SetPendingPeer(x) /\ Node!UnsetPendingPeer(x) = UnsetPendingPeer(x)
             /\ Node!Confirm(x) = Confirm(x)
  BY DEF Node!SetPeer, SetPeer, Node!UnsetPeer, UnsetPeer, Node!SetPendingPeer, SetPendingPeer,
         Node!UnsetPendingPeer, UnsetPendingPeer, Node!Confirm, Confirm
<1>7. \A c, m : Node!MessageSend(c, m) = MessageSend(c, m)
  BY DEF Node!MessageSend, MessageSend
<1>8. Node!Hello = Hello /\ Node!Ping = Ping /\ Node!Pong = Pong
  BY DEF Node!Hello, Hello, Node!Ping, Ping, Node!Pong, Pong
<1>9. \A name : Node!PeerInit(name) = PeerInit(name) /\ Node!PeerConfirm(name) = PeerConfirm(name)
  BY DEF Node!PeerInit, PeerInit, Node!PeerConfirm, PeerConfirm
<1> QED
  BY <1>1, <1>2, <1>3, <1>4, <1>5, <1>6, <1>7, <1>8, <1>9

\* Its handlers give the same results.
LEMMA SameHandlers ==
  ASSUME NEW self, NEW t
  PROVE  /\ \A c : Node!init_comm(self, c, t) = init_comm(self, c, t)
         /\ \A m, c : Node!process_init_message(self, m, c, t) = process_init_message(self, m, c, t)
         /\ \A b, k, c : Node!process_event_hello(self, b, k, c, t) = process_event_hello(self, b, k, c, t)
         /\ \A k, name : Node!peer_confirm(self, k, name, t) = peer_confirm(self, k, name, t)
         /\ \A b, k : Node!process_event_peer_init(self, b, k, t) = process_event_peer_init(self, b, k, t)
         /\ \A b, k : Node!process_event_peer_confirm(self, b, k, t) = process_event_peer_confirm(self, b, k, t)
         /\ \A b, k : Node!process_event_ping(self, b, k, t) = process_event_ping(self, b, k, t)
         /\ \A b, k : Node!process_event_pong(self, b, k, t) = process_event_pong(self, b, k, t)
<1>1. \A c : Node!init_comm(self, c, t) = init_comm(self, c, t)
  BY SameData DEF Node!init_comm, init_comm
<1>2. \A m, c : Node!process_init_message(self, m, c, t) = process_init_message(self, m, c, t)
  BY SameData, SameReading DEF Node!process_init_message, process_init_message
<1>3. \A b, k, c : Node!process_event_hello(self, b, k, c, t) = process_event_hello(self, b, k, c, t)
  BY SameData, SameReading DEF Node!process_event_hello, process_event_hello
<1>4. \A k, name : Node!peer_confirm(self, k, name, t) = peer_confirm(self, k, name, t)
  BY SameData, SameReading DEF Node!peer_confirm, peer_confirm
<1>5. \A b, k : Node!process_event_peer_init(self, b, k, t) = process_event_peer_init(self, b, k, t)
  BY <1>4, SameData, SameReading DEF Node!process_event_peer_init, process_event_peer_init
<1>6. \A b, k : Node!process_event_peer_confirm(self, b, k, t) = process_event_peer_confirm(self, b, k, t)
  BY SameData, SameReading DEF Node!process_event_peer_confirm, process_event_peer_confirm, Node!FromPeer, FromPeer
<1>7. \A b, k : Node!process_event_ping(self, b, k, t) = process_event_ping(self, b, k, t)
  BY SameData, SameReading DEF Node!process_event_ping, process_event_ping, Node!FromPeer, FromPeer
<1>8. \A b, k : Node!process_event_pong(self, b, k, t) = process_event_pong(self, b, k, t)
  BY SameData, SameReading DEF Node!process_event_pong, process_event_pong, Node!FromPeer, FromPeer
<1> QED
  BY <1>1, <1>2, <1>3, <1>4, <1>5, <1>6, <1>7, <1>8

\* So does its timer.
LEMMA SameTick ==
  ASSUME NEW self, NEW t
  PROVE  Node!tick(self, t) = tick(self, t)
<1>1. \A k : Node!tick_peer(self, k, t) = tick_peer(self, k, t)
  BY SameData, SameReading DEF Node!tick_peer, tick_peer
<1>2. \A ks, ps : Node!tick_list(self, ks, ps, t) = tick_list(self, ks, ps, t)
  BY <1>1, SameData DEF Node!tick_list, tick_list
<1>3. Node!due(self, t) = due(self, t) /\ Node!stale(self, t) = stale(self, t)
  BY DEF Node!due, due, Node!stale, stale
<1>4. \A S : Node!SetToSeqs(S) = SetToSeqs(S)
  BY DEF Node!SetToSeqs, SetToSeqs, Node!Cardinality, Cardinality, Node!IsFiniteSet, IsFiniteSet
<1> QED
  BY <1>2, <1>3, <1>4, SameData DEF Node!tick, tick

\* Its dispatcher does the same to the book and the dials.
LEMMA SameApply ==
  ASSUME NEW x, NEW a
  PROVE  Node!apply_peers(x, a) = apply_peers(x, a) /\ Node!apply_pending(x, a) = apply_pending(x, a)
BY DEF Node!apply_peers, apply_peers, Node!apply_pending, apply_pending

-----------------------------------------------------------------------------
(* The state and the steps of Me are those of Node. *)

\* What the steps below need of the peer.
LEMMA MeOK ==
  ASSUME NInv
  PROVE  /\ Me \in Pubkey /\ BookOK(Me) /\ PeerOK(Me) /\ Domains
         /\ \A c \in Conn : dials[c] \in Nat /\ inits[c] \in Nat /\ inits[c] <= dials[c]
         /\ \A c \in Conn : Unanswered[c] = IF c[1] = Me THEN dials[c] - inits[c] ELSE 0
BY PeerAssumption DEF NInv, PeerOK, Domains, CountsOK, Unanswered

\* A step in which neither Me nor the clock moves.
LEMMA Stutter ==
  ASSUME NInv, todo'[Me] = todo[Me], peers'[Me] = peers[Me], pending_peer_init'[Me] = pending_peer_init[Me],
         now' = now, \A c \in Conn : c[1] = Me => dials'[c] = dials[c] /\ inits'[c] = inits[c]
  PROVE  UNCHANGED Node!vars
<1>1. Unanswered' = Unanswered
  BY DEF Unanswered
<1> QED
  BY <1>1 DEF Node!vars, Node!object, Node!history

\* Me takes the list of a handler.
LEMMA Handles ==
  ASSUME NInv, NEW r, todo[Me] = <<>>, NEW l \in r.lists, todo' = [todo EXCEPT ![Me] = l],
         UNCHANGED <<peers, pending_peer_init, now>>
  PROVE  Node!Handle(r) /\ todo'[Me] = l
<1>1. todo'[Me] = l
  BY MeOK DEF Domains
<1> QED
  BY <1>1 DEF Node!Handle, Node!object

\* A dial of Me is an InitComm; one of another peer is nothing to Me.
LEMMA DialIsStep ==
  ASSUME NInv, NEW c \in Conn, Dial(c)
  PROVE  Node!Next \/ UNCHANGED Node!vars
<1>1. /\ dials' = [dials EXCEPT ![c] = @ + 1] /\ dials[c] < MaxDials
      /\ UNCHANGED <<peers, pending_peer_init, now, inits>> /\ todo[c[1]] = <<>>
  BY DEF Dial, Take, Ready
<1>2. PICK l \in init_comm(Self(c[1]), c, now).lists : todo' = [todo EXCEPT ![c[1]] = l]
  BY DEF Dial, Take
<1>3. c[1] \in Pubkey /\ \A d \in Conn : dials'[d] = IF d = c THEN dials[d] + 1 ELSE dials[d]
  BY <1>1, StreamJoins, MeOK DEF Joins, Domains
<1>4. CASE c[1] = Me
  <2>1. Node!Handle(init_comm(Self(Me), c, now))
    BY <1>1, <1>2, <1>4, Handles
  <2>2. Node!Handle(Node!init_comm(Node!Self, c, now))
    BY <2>1, SameSelf, SameHandlers
  <2>3. Unanswered[c] < MaxDials
    BY <1>1, <1>4, MeOK, BoundsAssumption
  <2>4. Unanswered' = [Unanswered EXCEPT ![c] = @ + 1]
    <3> DEFINE u == [Unanswered EXCEPT ![c] = @ + 1]
    <3>1. u = [d \in Conn |-> IF d = c THEN Unanswered[d] + 1 ELSE Unanswered[d]]
      BY DEF Unanswered
    <3>2. \A d \in Conn : (IF d[1] = Me THEN dials'[d] - inits'[d] ELSE 0)
                            = IF d = c THEN Unanswered[d] + 1 ELSE Unanswered[d]
      BY <1>1, <1>3, <1>4, MeOK
    <3> HIDE DEF u
    <3>3. Unanswered' = [d \in Conn |-> IF d = c THEN Unanswered[d] + 1 ELSE Unanswered[d]]
      BY <3>2 DEF Unanswered
    <3> QED
      BY <3>1, <3>3 DEF u
  <2>5. Node!InitComm(c)
    BY <2>2, <2>3, <2>4 DEF Node!InitComm
  <2> QED
    BY <2>5 DEF Node!Next, Node!Handshake
<1>5. CASE c[1] # Me
  <2>1. todo'[Me] = todo[Me]
    BY <1>2, <1>3, <1>5, MeOK DEF Domains
  <2> QED
    BY <1>1, <1>3, <1>5, <2>1, Stutter
<1> QED
  BY <1>4, <1>5

\* What Me receives comes from another peer and is a message SyncNode
\* handles, or one the host cannot open: then it has nothing to do.
LEMMA ReceiveIsStep ==
  ASSUME NInv, NEW n \in Pubkey, NEW c \in Conn, Receive(n, c)
  PROVE  Node!Next \/ UNCHANGED Node!vars
<1>1. PICK m : m = Head(wire[c][n])
  OBVIOUS
<1>2. /\ UNCHANGED <<peers, pending_peer_init, now, dials, inits>> /\ todo[n] = <<>>
      /\ wire[c][n] # <<>> /\ wire' = [wire EXCEPT ![c][n] = Tail(@)]
  BY DEF Receive, Take, Ready
<1>3. PICK l \in Handler(Self(n), m, c).lists : todo' = [todo EXCEPT ![n] = l]
  BY <1>1 DEF Receive, Take
<1>4. CASE n # Me
  <2>1. todo'[Me] = todo[Me]
    BY <1>3, <1>4, MeOK DEF Domains
  <2> QED
    BY <1>2, <2>1, Stutter
<1>5. CASE n = Me
  <2>1. MessageOK(m, c, Me)
    BY <1>1, <1>2, <1>5, HeadOfWire
  <2> DEFINE k == m.from
  <2>2. k \in Node!Remote
    BY <2>1 DEF MessageOK, Joins, Node!Remote
  <2>3. Node!Handle(Handler(Self(Me), m, c))
    BY <1>2, <1>3, <1>5, Handles
  <2>4. UNCHANGED Node!history
    <3>1. Unanswered' = Unanswered
      BY <1>2 DEF Unanswered
    <3> QED
      BY <3>1 DEF Node!history
  <2>5. CASE m \in MessageInit
    <3>1. m = [type |-> "Init", from |-> k]
      BY <2>5 DEF MessageInit
    <3>2. Handler(Self(Me), m, c) = process_init_message(Self(Me), m, c, now)
      BY <3>1 DEF Handler
    <3>3. Node!Handle(Node!process_init_message(Node!Self, [type |-> "Init", from |-> k], c, now))
      BY <2>3, <3>1, <3>2, SameSelf, SameHandlers
    <3>4. Node!ReceiveInit(k, c)
      BY <2>4, <3>3 DEF Node!ReceiveInit
    <3> QED
      BY <2>2, <3>4 DEF Node!Next, Node!Handshake
  <2>6. CASE m \notin MessageInit /\ unwrap_incoming_message(Self(Me), m) # "Ok"
    <3>1. m.type # "Init"
      BY <2>1, <2>6 DEF MessageOK, MessageSealed
    <3>2. Handler(Self(Me), m, c).lists = {<<>>}
      BY <2>6, <3>1 DEF Handler, Err
    <3>3. todo'[Me] = todo[Me]
      BY <1>2, <1>3, <1>5, <3>2, MeOK DEF Domains
    <3> QED
      BY <1>2, <3>3, Stutter
  <2>7. CASE m \notin MessageInit /\ unwrap_incoming_message(Self(Me), m) = "Ok"
    <3> DEFINE b == m.body
    <3>1. /\ m = [type |-> "Sealed", from |-> k, to |-> Me, body |-> b]
          /\ m.type # "Init" /\ BodyOK(b)
      BY <2>1, <2>7 DEF MessageOK, MessageSealed
    <3>2. Node!Unwraps(k, b)
      BY <2>7, <3>1, SameSelf, SameReading DEF Node!Unwraps
    <3>3. CASE b.kind = "Hello"
      <4>1. b = Node!Hello
        BY <3>1, <3>3 DEF BodyOK, Node!Hello
      <4>2. Handler(Self(Me), m, c) = process_event_hello(Self(Me), b, k, c, now)
        BY <2>7, <3>1, <3>3 DEF Handler
      <4>3. Node!ReceiveHello(k, c)
        BY <2>3, <2>4, <3>2, <4>1, <4>2, SameSelf, SameHandlers DEF Node!ReceiveHello
      <4> QED
        BY <2>2, <4>3 DEF Node!Next, Node!Handshake
    <3>4. CASE b.kind = "PeerInit"
      <4>1. b = Node!PeerInit(b.name) /\ b.name \in Name
        BY <3>1, <3>4 DEF BodyOK, Node!PeerInit
      <4>2. Handler(Self(Me), m, c) = process_event_peer_init(Self(Me), b, k, now)
        BY <2>7, <3>1, <3>4 DEF Handler
      <4>3. Node!ReceivePeerInit(k, b.name)
        BY <2>3, <2>4, <3>2, <4>1, <4>2, SameSelf, SameHandlers DEF Node!ReceivePeerInit
      <4> QED
        BY <2>2, <4>1, <4>3 DEF Node!Next, Node!Handshake
    <3>5. CASE b.kind = "PeerConfirm"
      <4>1. b = Node!PeerConfirm(b.name) /\ b.name \in Name
        BY <3>1, <3>5 DEF BodyOK, Node!PeerConfirm
      <4>2. Handler(Self(Me), m, c) = process_event_peer_confirm(Self(Me), b, k, now)
        BY <2>7, <3>1, <3>5 DEF Handler
      <4>3. Node!ReceivePeerConfirm(k, b.name)
        BY <2>3, <2>4, <3>2, <4>1, <4>2, SameSelf, SameHandlers DEF Node!ReceivePeerConfirm
      <4> QED
        BY <2>2, <4>1, <4>3 DEF Node!Next, Node!Handshake
    <3>6. CASE b.kind = "Ping"
      <4>1. b = Node!Ping
        BY <3>1, <3>6 DEF BodyOK, Node!Ping
      <4>2. Handler(Self(Me), m, c) = process_event_ping(Self(Me), b, k, now)
        BY <2>7, <3>1, <3>6 DEF Handler
      <4>3. Node!ReceivePing(k)
        BY <2>3, <2>4, <3>2, <4>1, <4>2, SameSelf, SameHandlers DEF Node!ReceivePing
      <4> QED
        BY <2>2, <4>3 DEF Node!Next, Node!KeepInTouch
    <3>7. CASE b.kind = "Pong"
      <4>1. b = Node!Pong
        BY <3>1, <3>7 DEF BodyOK, Node!Pong
      <4>2. Handler(Self(Me), m, c) = process_event_pong(Self(Me), b, k, now)
        BY <2>7, <3>1, <3>7 DEF Handler
      <4>3. Node!ReceivePong(k)
        BY <2>3, <2>4, <3>2, <4>1, <4>2, SameSelf, SameHandlers DEF Node!ReceivePong
      <4> QED
        BY <2>2, <4>3 DEF Node!Next, Node!KeepInTouch
    <3> QED
      BY <3>1, <3>3, <3>4, <3>5, <3>6, <3>7 DEF BodyOK
  <2> QED
    BY <2>5, <2>6, <2>7
<1> QED
  BY <1>4, <1>5

\* A decision of the user of Me is one in SyncNode.
LEMMA UserConfirmIsStep ==
  ASSUME NInv, NEW n \in Pubkey, NEW k \in Pubkey, UserConfirm(n, k)
  PROVE  Node!Next \/ UNCHANGED Node!vars
<1>1. UNCHANGED <<peers, pending_peer_init, now, dials, inits>> /\ todo[n] = <<>> /\ k \in prompts[n]
  BY DEF UserConfirm, Take, Ready
<1>2. PICK l \in peer_confirm(Self(n), k, NameOf[k], now).lists : todo' = [todo EXCEPT ![n] = l]
  BY DEF UserConfirm, Take
<1>3. CASE n # Me
  <2>1. todo'[Me] = todo[Me]
    BY <1>2, <1>3, MeOK DEF Domains
  <2> QED
    BY <1>1, <2>1, Stutter
<1>4. CASE n = Me
  <2>1. Node!Handle(Node!peer_confirm(Node!Self, k, NameOf[k], now))
    <3>1. Node!Handle(peer_confirm(Self(Me), k, NameOf[k], now))
      BY <1>1, <1>2, <1>4, Handles
    <3> QED
      BY <3>1, SameSelf, SameHandlers
  <2>2. UNCHANGED Node!history
    BY <1>1 DEF Node!history, Unanswered
  <2>3. k \in Node!Remote /\ NameOf[k] \in Name
    BY <1>1, <1>4, PeersAssumption DEF NInv, UsersOK, Node!Remote
  <2>4. Node!UserConfirm(k, NameOf[k])
    BY <2>1, <2>2 DEF Node!UserConfirm
  <2> QED
    BY <2>3, <2>4 DEF Node!Next, Node!Handshake
<1> QED
  BY <1>3, <1>4

\* A tick of Me is one of SyncNode.
LEMMA TickIsStep ==
  ASSUME NInv, NEW n \in Pubkey, Tick(n)
  PROVE  Node!Next \/ UNCHANGED Node!vars
<1>1. UNCHANGED <<peers, pending_peer_init, now, dials, inits>> /\ todo[n] = <<>>
  BY DEF Tick, Take, Ready
<1>2. PICK l \in tick(Self(n), now).lists : todo' = [todo EXCEPT ![n] = l]
  BY DEF Tick, Take
<1>3. CASE n # Me
  <2>1. todo'[Me] = todo[Me]
    BY <1>2, <1>3, MeOK DEF Domains
  <2> QED
    BY <1>1, <2>1, Stutter
<1>4. CASE n = Me
  <2>1. Node!Handle(Node!tick(Node!Self, now))
    <3>1. Node!Handle(tick(Self(Me), now))
      BY <1>1, <1>2, <1>4, Handles
    <3> QED
      BY <3>1, SameSelf, SameTick
  <2>2. UNCHANGED Node!history
    BY <1>1 DEF Node!history, Unanswered
  <2> QED
    BY <2>1, <2>2 DEF Node!Next, Node!KeepInTouch, Node!Tick
<1> QED
  BY <1>3, <1>4

\* An action that Me carries out may send a PeerInit over a stream of its
\* own, another peer's only over one of theirs.
LEMMA DispatchIsStep ==
  ASSUME NInv, NEW n \in Pubkey, Dispatch(n)
  PROVE  Node!Next \/ UNCHANGED Node!vars
<1>1. PICK a : a = todo[n][1]
  OBVIOUS
<1>2. UNCHANGED <<now, dials>> /\ todo[n] # <<>> /\ todo' = [todo EXCEPT ![n] = Tail(@)]
  BY DEF Dispatch
<1>3. /\ \A c \in Conn : inits'[c] = IF SendsPeerInit(a) /\ a.to = c THEN inits[c] + 1 ELSE inits[c]
      /\ SendsPeerInit(a) => a.to[1] = n /\ a.to \in Conn
  <2> DEFINE b == todo[n][1]
             k == OtherEnd(b.to, n)
  <2>1. /\ \A c \in Conn : inits'[c] = IF SendsPeerInit(b) /\ b.to = c THEN inits[c] + 1 ELSE inits[c]
        /\ SendsPeerInit(b) => b.to = <<n, k>>
        /\ b.type = "MessageSend" => b.to \in Conn
    BY DispatchSends
  <2>2. a = b
    BY <1>1
  <2> HIDE DEF b, k
  <2> QED
    BY <2>1, <2>2 DEF SendsPeerInit
<1>4. CASE n # Me
  <2>1. /\ todo'[Me] = todo[Me] /\ peers'[Me] = peers[Me]
        /\ pending_peer_init'[Me] = pending_peer_init[Me]
    BY <1>4, HeadOfTodo, MeOK
  <2>2. \A c \in Conn : c[1] = Me => inits'[c] = inits[c]
    BY <1>3, <1>4
  <2> QED
    BY <1>2, <2>1, <2>2, Stutter
<1>5. CASE n = Me
  <2>1. /\ ActionOK(Me, a) /\ Head(todo[Me]) = a /\ todo'[Me] = Tail(todo[Me])
        /\ peers'[Me] = apply_peers(peers[Me], a)
        /\ pending_peer_init'[Me] = apply_pending(pending_peer_init[Me], a)
    BY <1>1, <1>2, <1>5, HeadOfTodo, MeOK DEF Domains
  <2>2. /\ peers'[Me] = Node!apply_peers(peers[Me], a)
        /\ pending_peer_init'[Me] = Node!apply_pending(pending_peer_init[Me], a)
    BY <2>1, SameApply
  <2>3. [t \in {} |-> {}] = Node!apply_subscriptions([t \in {} |-> {}], a)
    BY <2>1 DEF ActionOK, Node!apply_subscriptions
  <2>4. SendsPeerInit(a) <=> Node!IsSend(a, "PeerInit")
    BY DEF SendsPeerInit, IsEvent, Node!IsSend
  <2>5. Unanswered' = IF Node!IsSend(a, "PeerInit") THEN [Unanswered EXCEPT ![a.to] = @ - 1] ELSE Unanswered
    <3>1. CASE SendsPeerInit(a)
      <4> DEFINE u == [Unanswered EXCEPT ![a.to] = @ - 1]
      <4>1. u = [d \in Conn |-> IF d = a.to THEN Unanswered[d] - 1 ELSE Unanswered[d]]
        BY DEF Unanswered
      <4>2. \A d \in Conn : (IF d[1] = Me THEN dials'[d] - inits'[d] ELSE 0)
                              = IF d = a.to THEN Unanswered[d] - 1 ELSE Unanswered[d]
        BY <1>2, <1>3, <1>5, <3>1, MeOK
      <4> HIDE DEF u
      <4>3. Unanswered' = [d \in Conn |-> IF d = a.to THEN Unanswered[d] - 1 ELSE Unanswered[d]]
        BY <4>2 DEF Unanswered
      <4> QED
        BY <2>4, <3>1, <4>1, <4>3 DEF u
    <3>2. CASE ~SendsPeerInit(a)
      <4>1. Unanswered' = Unanswered
        BY <1>2, <1>3, <3>2 DEF Unanswered
      <4> QED
        BY <2>4, <3>2, <4>1
    <3> QED
      BY <3>1, <3>2
  <2>6. Node!Dispatch
    BY <1>2, <1>5, <2>1, <2>2, <2>3, <2>5 DEF Node!Dispatch
  <2> QED
    BY <2>6 DEF Node!Next
<1> QED
  BY <1>4, <1>5

\* The clock moves for Me as for everybody.
LEMMA AdvanceIsStep ==
  ASSUME Advance
  PROVE  Node!Next
<1>1. UNCHANGED <<peers, pending_peer_init, todo, dials, inits>>
  BY DEF Advance, node
<1>2. UNCHANGED Node!history /\ UNCHANGED Node!object
  BY <1>1 DEF Node!history, Node!object, Unanswered
<1>3. Node!Advance
  BY <1>1, <1>2 DEF Advance, Node!Advance
<1> QED
  BY <1>3 DEF Node!Next

\* Every step of the network is one of SyncNode, or leaves Me alone.
LEMMA NextIsStep ==
  ASSUME NInv, [Next]_vars
  PROVE  [Node!Next]_(Node!vars)
<1> DEFINE Step == Node!Next \/ UNCHANGED Node!vars
<1>1. ASSUME UNCHANGED <<peers, pending_peer_init, todo, now, dials, inits>> PROVE UNCHANGED Node!vars
  BY <1>1, Stutter
<1>2. ASSUME NEW c \in Conn, Dial(c) PROVE Step
  BY <1>2, DialIsStep
<1>3. ASSUME NEW n \in Pubkey, NEW c \in Conn, Receive(n, c) PROVE Step
  BY <1>3, ReceiveIsStep
<1>4. ASSUME NEW n \in Pubkey, NEW c \in Conn, Cut(c, n) PROVE Step
  BY <1>1, <1>4 DEF Cut, node
<1>5. ASSUME NEW n \in Pubkey, NEW k \in Pubkey, UserConfirm(n, k) PROVE Step
  BY <1>5, UserConfirmIsStep
<1>6. ASSUME NEW n \in Pubkey, NEW k \in Pubkey, UserDecline(n, k) PROVE Step
  BY <1>1, <1>6 DEF UserDecline, node
<1>7. ASSUME NEW n \in Pubkey, Tick(n) \/ Dispatch(n) PROVE Step
  BY <1>7, TickIsStep, DispatchIsStep
<1>8. CASE Advance
  BY <1>8, AdvanceIsStep
<1>9. CASE UNCHANGED vars
  BY <1>1, <1>9 DEF vars, node
<1> QED
  BY <1>2, <1>3, <1>4, <1>5, <1>6, <1>7, <1>8, <1>9 DEF Next

\* The initial states are those of SyncNode.
LEMMA InitIsInit ==
  ASSUME Init
  PROVE  Node!Init
<1>1. /\ peers[Me] = [k \in {} |-> {}] /\ pending_peer_init[Me] = {} /\ todo[Me] = <<>> /\ now = 0
  BY PeerAssumption DEF Init
<1>2. Unanswered = [c \in Conn |-> 0]
  <2>1. \A c \in Conn : dials[c] = 0 /\ inits[c] = 0
    BY DEF Init
  <2>2. \A c \in Conn : (IF c[1] = Me THEN dials[c] - inits[c] ELSE 0) = 0
    BY <2>1
  <2> QED
    BY <2>2 DEF Unanswered
<1> QED
  BY <1>1, <1>2 DEF Node!Init

\* Any peer of any network is a SyncNode: streams in order, cut or not, and
\* honest peers at their other ends are one of the environments that SyncNode
\* allows for.
THEOREM PeersAreNodes == Spec => PeerIsSyncNode
<1>1. Init => Node!Init
  BY InitIsInit
<1>2. NInv /\ [Next]_vars => [Node!Next]_(Node!vars)
  BY NextIsStep
<1> QED
  BY <1>1, <1>2, NInvAlways, PTL DEF Spec, PeerIsSyncNode, Node!Spec

-----------------------------------------------------------------------------
(* What is proved of a SyncNode holds of the peer. *)

\* The constants of Node are what SyncObject and SyncNode assume of theirs.
LEMMA NodeConstants ==
  /\ Node!IsFiniteSet(Pubkey) /\ Node!IsFiniteSet(Conn) /\ Node!IsFiniteSet(Topic)
  /\ Node!IsFiniteSet({}) /\ {ConfigOf[Me]} \subseteq Node!PeeringConfig
<1>1. \A S : Node!IsFiniteSet(S) <=> IsFiniteSet(S)
  BY DEF Node!IsFiniteSet, IsFiniteSet
<1>2. IsFiniteSet({})
  BY FS_EmptySet
<1>3. ConfigOf[Me] \in Node!PeeringConfig
  BY PeersAssumption, PeerAssumption DEF PeeringConfig, Node!PeeringConfig
<1> QED
  BY <1>1, <1>2, <1>3, PubkeyAssumption, ConnAssumption, TopicAssumption

\* In a network too the list of a peer fits its book until its last action,
\* what it sends goes where its book says, and its book implements
\* PeerLifecycle: it never drops an active peer, however the dials, the
\* handshakes and the pings of several peers cross and are lost.
THEOREM PeersAsProved ==
  Spec => []Node!TodoFits /\ []Node!SendsFollowBook /\ Node!ImplementsLifecycle
<1>1. Me \in Pubkey /\ NameOf[Me] \in Name /\ {} \subseteq SUBSET Topic /\ TimeSteps \subseteq Nat \ {0}
      /\ MaxTime \in Nat /\ MaxDials \in Nat
  BY PeerAssumption, PeersAssumption, BoundsAssumption
<1>2. Node!Spec => []Node!TodoFits
  BY <1>1, NodeConstants, Node!TodoNeverStale
<1>3. Node!Spec => []Node!SendsFollowBook
  BY <1>1, NodeConstants, Node!SendsFollow
<1>4. Node!Spec => Node!ImplementsLifecycle
  BY <1>1, NodeConstants, Node!Implementation
<1> QED
  BY <1>2, <1>3, <1>4, PeersAreNodes, PTL DEF PeerIsSyncNode
=============================================================================
