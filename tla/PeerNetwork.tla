---------------------------- MODULE PeerNetwork ----------------------------
(***************************************************************************)
(* Several peers, each a Sync object driven by the loop of                 *)
(* src/tests/connect.rs, connected by the streams of the PeerManager of    *)
(* src/tests/common/mod.rs.                                                *)
(*                                                                         *)
(* A peer is named by its key.  The stream <<d, l>> is the one that d      *)
(* opens when it first sends to the listening address of l, and that both  *)
(* ends reuse from then on (mod.rs:200-211); each end knows it by a        *)
(* ConnectionInfo of its own, and both are written <<d, l>> here.  Streams *)
(* are TCP: what one end writes reaches the other in order, until the      *)
(* direction is cut (a FifoLink, which PeerManager shows to hold).         *)
(***************************************************************************)
EXTENDS SyncObject

CONSTANTS NameOf, ConfigOf,   \* the name and the peering configuration of each peer
          TimeSteps, MaxTime, \* bound: how the clock moves, where it stops
          MaxDials,           \* bound: dials of one address by one peer
          MaxCuts             \* bound: directions of streams that are cut

ASSUME StreamsAssumption == \A c \in Conn : c \in Pubkey \X Pubkey /\ c[1] # c[2]
ASSUME PeersAssumption == NameOf \in [Pubkey -> Name] /\ ConfigOf \in [Pubkey -> PeeringConfig]
ASSUME BoundsAssumption == TimeSteps \subseteq Nat \ {0} /\ {MaxTime, MaxDials, MaxCuts} \subseteq Nat

VARIABLES
  peers,              \* the book of each peer
  pending_peer_init,  \* the pending dials of each peer
  todo,               \* the actions each host has yet to carry out
  wire,               \* wire[c][n]: what travels to n over stream c
  cut,                \* <<c, n>>: nothing more reaches n over stream c
  failed,             \* the event a host gave up on, "" while it runs
  prompts,            \* the keys each user has been asked to confirm
  ticked,             \* the peers that had their tick since the clock moved
  now,                \* the time
  dials, inits,       \* history: Inits and PeerInits sent over each stream
  accepted            \* history: the keys each peer agreed to peer with

node == <<peers, pending_peer_init, todo, failed>>
vars == <<node, wire, cut, prompts, ticked, now, dials, inits, accepted>>

Self(n) == [pubkey |-> n, name |-> NameOf[n], peering_config |-> ConfigOf[n],
            peers |-> peers[n], subscriptions |-> [t \in {} |-> {}],
            pending_peer_init |-> pending_peer_init[n]]

OtherEnd(c, n) == IF c[1] = n THEN c[2] ELSE c[1]

Init ==
  /\ peers = [n \in Pubkey |-> [k \in {} |-> {}]]
  /\ pending_peer_init = [n \in Pubkey |-> {}]
  /\ todo = [n \in Pubkey |-> <<>>]
  /\ wire = [c \in Conn |-> [n \in Pubkey |-> <<>>]]
  /\ cut = {}
  /\ failed = [n \in Pubkey |-> ""]
  /\ prompts = [n \in Pubkey |-> {}]
  /\ ticked = {}
  /\ now = 0
  /\ dials = [c \in Conn |-> 0]
  /\ inits = [c \in Conn |-> 0]
  /\ accepted = [n \in Pubkey |-> {}]

-----------------------------------------------------------------------------
(* A host runs one handler at a time and carries out its list before it    *)
(* looks for the next message.                                             *)

\* Slip (see SyncObject): a host that runs does not finish its list first.
Faulty_Ready(n) == failed[n] = ""

Ready(n) == failed[n] = "" /\ todo[n] = <<>>

Take(n, r) ==
  /\ \E l \in r.lists : todo' = [todo EXCEPT ![n] = l]
  /\ UNCHANGED <<peers, pending_peer_init>>

Dial(c) ==
  LET n == c[1]
  IN /\ Ready(n) /\ dials[c] < MaxDials
     /\ Take(n, init_comm(Self(n), c, now))
     /\ dials' = [dials EXCEPT ![c] = @ + 1]
     /\ UNCHANGED <<failed, wire, cut, prompts, ticked, now, inits, accepted>>

\* The host's choice of handler for a message.
Handler(self, m, c) ==
  CASE m.type = "Init" -> process_init_message(self, m, c, now)
    [] m.type # "Init" /\ unwrap_incoming_message(self, m) # "Ok" ->
         Err(unwrap_incoming_message(self, m))
    [] OTHER ->
         CASE m.body.kind = "Hello" -> process_event_hello(self, m.body, m.from, c, now)
           [] m.body.kind = "PeerInit" -> process_event_peer_init(self, m.body, m.from, now)
           [] m.body.kind = "PeerConfirm" -> process_event_peer_confirm(self, m.body, m.from, now)
           [] m.body.kind = "Ping" -> process_event_ping(self, m.body, m.from, now)
           [] m.body.kind = "Pong" -> process_event_pong(self, m.body, m.from, now)

IsEvent(m, kind) == m.type = "Sealed" /\ m.body.kind = kind

\* An error of the handler ends the host's loop.  A Confirm does not say
\* whom it is about, so the host remembers the message it came from.
Receive(n, c) ==
  /\ Ready(n) /\ wire[c][n] # <<>>
  /\ LET m == Head(wire[c][n])
         r == Handler(Self(n), m, c)
         access == can_confirm(ConfigOf[n], m.from)
     IN /\ Take(n, r)
        /\ failed' = IF r.result = "Ok" THEN failed
                     ELSE [failed EXCEPT ![n] = m.body.kind]
        /\ prompts' = IF IsEvent(m, "PeerInit") /\ access = "ask"
                      THEN [prompts EXCEPT ![n] = @ \cup {m.from}] ELSE prompts
        /\ accepted' = IF IsEvent(m, "PeerInit") /\ access = "yes" /\ r.result = "Ok"
                       THEN [accepted EXCEPT ![n] = @ \cup {m.from}] ELSE accepted
  /\ wire' = [wire EXCEPT ![c][n] = Tail(@)]
  /\ UNCHANGED <<cut, ticked, now, dials, inits>>

\* The user says yes; if the peer is no longer known nothing comes of it.
UserConfirm(n, k) ==
  /\ Ready(n) /\ k \in prompts[n]
  /\ LET r == peer_confirm(Self(n), k, NameOf[k], now)
     IN /\ Take(n, r)
        /\ accepted' = IF r.result = "Ok" THEN [accepted EXCEPT ![n] = @ \cup {k}] ELSE accepted
  /\ prompts' = [prompts EXCEPT ![n] = @ \ {k}]
  /\ UNCHANGED <<failed, wire, cut, ticked, now, dials, inits>>

UserDecline(n, k) ==
  /\ k \in prompts[n]
  /\ prompts' = [prompts EXCEPT ![n] = @ \ {k}]
  /\ UNCHANGED <<node, wire, cut, ticked, now, dials, inits, accepted>>

\* The timer fires once for every move of the clock.
Tick(n) ==
  /\ Ready(n) /\ n \notin ticked
  /\ Take(n, tick(Self(n), now))
  /\ ticked' = ticked \cup {n}
  /\ UNCHANGED <<failed, wire, cut, prompts, now, dials, inits, accepted>>

Dispatch(n) ==
  /\ todo[n] # <<>>
  /\ LET a == Head(todo[n])
     IN /\ peers' = [peers EXCEPT ![n] = apply_peers(@, a)]
        /\ pending_peer_init' = [pending_peer_init EXCEPT ![n] = apply_pending(@, a)]
        /\ wire' = IF a.type = "MessageSend" /\ <<a.to, OtherEnd(a.to, n)>> \notin cut
                   THEN [wire EXCEPT ![a.to][OtherEnd(a.to, n)] = Append(@, a.message)]
                   ELSE wire
        /\ inits' = IF a.type = "MessageSend" /\ IsEvent(a.message, "PeerInit")
                    THEN [inits EXCEPT ![a.to] = @ + 1] ELSE inits
  /\ todo' = [todo EXCEPT ![n] = Tail(@)]
  /\ UNCHANGED <<failed, cut, prompts, ticked, now, dials, accepted>>

\* One direction of a stream ends: the connection closes, or a manager stops
\* writing or accepting (handler = Failed in PeerManager).  Some of what is
\* under way may still arrive; what is sent later is lost, silently.
Cut(c, n) ==
  /\ n \in {c[1], c[2]} /\ <<c, n>> \notin cut /\ Cardinality(cut) < MaxCuts
  /\ cut' = cut \cup {<<c, n>>}
  /\ \E i \in 0..Len(wire[c][n]) : wire' = [wire EXCEPT ![c][n] = SubSeq(@, 1, i)]
  /\ UNCHANGED <<node, prompts, ticked, now, dials, inits, accepted>>

Advance ==
  /\ \E d \in TimeSteps : now + d <= MaxTime /\ now' = now + d
  /\ ticked' = {}
  /\ UNCHANGED <<node, wire, cut, prompts, dials, inits, accepted>>

Next ==
  \/ \E c \in Conn : Dial(c)
  \/ \E n \in Pubkey, c \in Conn : Receive(n, c) \/ Cut(c, n)
  \/ \E n, k \in Pubkey : UserConfirm(n, k) \/ UserDecline(n, k)
  \/ \E n \in Pubkey : Tick(n) \/ Dispatch(n)
  \/ Advance

Spec == Init /\ [][Next]_vars

\* A host that runs keeps polling its streams and finishes its lists.
Fairness ==
  /\ \A n \in Pubkey : WF_vars(Dispatch(n))
  /\ \A n \in Pubkey, c \in Conn : WF_vars(Receive(n, c))

FairSpec == Spec /\ Fairness

-----------------------------------------------------------------------------
(* Properties. *)

Active(n, k) == k \in DOMAIN peers[n] /\ peers[n][k].active
Accepts(n, k) == can_confirm(ConfigOf[n], k) = "yes"
Asked(n, k) == \E c \in Conn : c = <<n, k>> /\ inits[c] > 0

TypeOK ==
  /\ \A n \in Pubkey :
       /\ DOMAIN peers[n] \subseteq Pubkey \ {n}
       /\ \A k \in DOMAIN peers[n] : peers[n][k] \in PeerInfo /\ peers[n][k].peer.pubkey = k
       /\ pending_peer_init[n] \subseteq PendingPeer
       /\ todo[n] \in Seq(Action)
       /\ prompts[n] \subseteq Pubkey /\ accepted[n] \subseteq Pubkey
  /\ \A c \in Conn, n \in Pubkey : wire[c][n] \in Seq(MessageWrapped)
  /\ cut \subseteq Conn \X Pubkey
  /\ \A c \in Conn : dials[c] \in 0..MaxDials /\ inits[c] \in 0..MaxDials

\* Nobody becomes an active peer against the will of either side: n counts
\* k as active only if n agreed to peer with k, or n asked k and k agreed.
\* Messages from earlier handshakes are still under way while later ones
\* begin, users answer late and peers are forgotten and met again.
ActiveByConsent ==
  \A n, k \in Pubkey : Active(n, k) => k \in accepted[n] \/ (Asked(n, k) /\ n \in accepted[k])

\* Nothing under way.
Quiet ==
  /\ \A c \in Conn, n \in Pubkey : wire[c][n] = <<>>
  /\ \A n \in Pubkey : todo[n] = <<>> /\ prompts[n] = {}

Severed(n, k) ==
  \E c \in Conn : {c[1], c[2]} = {n, k} /\ (<<c, n>> \in cut \/ <<c, k>> \in cut)

\* When nothing is under way, two peers that both accept the other agree
\* whether they are active, however their dials crossed or repeated.  Only
\* messages lost between the two excuse them: what becomes of a third peer's
\* streams does not matter.
QuietPeersAgree ==
  Quiet => \A n, k \in Pubkey : Accepts(n, k) /\ Accepts(k, n) =>
             (Active(n, k) <=> Active(k, n)) \/ Severed(n, k)

\* No dial goes stale and no inactive peer is silent for longer than tick
\* waits for it.
NothingForgotten ==
  \A n \in Pubkey :
    /\ \A p \in pending_peer_init[n] : now - p.created < 120
    /\ \A k \in DOMAIN peers[n] : ~peers[n][k].active => now - peers[n][k].last_ping <= 180

\* n takes k for a peer at once, or its user was asked about k once and said
\* yes.  Who dials again is asked about again, and then the answer may be no.
Agrees(n, k) ==
  Accepts(n, k) \/ (k \in accepted[n] /\ \A c \in Conn : c = <<k, n>> => inits[c] = 1)

\* Dials between two peers that agree to each other make both active in the end,
\* with two exceptions.  Tick may have given up a dial or dropped a peer before
\* the handshake was through: a late Hello or PeerInit is refused.  And a stream
\* between the two may be cut: it need not be the one that was dialed, since
\* answers go to the address the book has.
DialsPeer ==
  []NothingForgotten =>
    []<>(\A c \in Conn : dials[c] > 0 /\ Agrees(c[1], c[2]) /\ Agrees(c[2], c[1]) =>
           (Active(c[1], c[2]) /\ Active(c[2], c[1])) \/ Severed(c[1], c[2]))

\* No host gives up: as long as no peer is forgotten in the middle of a
\* handshake, no handler is handed a message it has no peer for.
HostsSurvive == \A n \in Pubkey : failed[n] = ""

-----------------------------------------------------------------------------
(* What the repository's comments say and the code does not do. *)

\* "Hello and PeerInit don't require a known sender" (sync.rs:304): no host
\* fails on one.
PeerInitNeedsNoKnownSender == \A n \in Pubkey : failed[n] \notin {"Hello", "PeerInit"}

\* "if we haven't already, add this peer to our list (as inactive)"
\* (sync.rs:334): a Hello does not turn an active peer inactive.  The list
\* of a Hello is the one that sets a peer and drops a dial.
HelloKeepsActive ==
  \A n \in Pubkey : \A i, j \in DOMAIN todo[n] :
    todo[n][i].type = "SetPeer" /\ todo[n][j].type = "UnsetPendingPeer" =>
      ~Active(n, todo[n][i].peer_info.peer.pubkey)
=============================================================================
