-------------------------- MODULE SyncObjectProofs --------------------------
(***************************************************************************)
(* Lemmas about the operators of SyncObject, checked by TLAPS: the events, *)
(* the orders in which a HashMap or a Vec may be walked, and the lists     *)
(* that the handlers return of any object.  The proofs about one node and  *)
(* about a network both rest on them.                                      *)
(***************************************************************************)
EXTENDS SyncObject, FiniteSetTheorems, SequenceTheorems, TLAPS

-----------------------------------------------------------------------------
(* Events. *)

\* The fixed events are events.
LEMMA EventsTyped ==
  /\ Hello \in Event /\ Ping \in Event /\ Pong \in Event
  /\ \A n \in Name \cup {TmpName} : PeerInit(n) \in Event /\ PeerConfirm(n) \in Event
  /\ \A ts \in SUBSET Topic : ActiveSubscriptions(ts) \in Event /\ User(ts) \in Event
BY DEF Hello, Ping, Pong, PeerInit, PeerConfirm, ActiveSubscriptions, User, Event

\* The fixed events carry no stored message.
LEMMA EventKinds ==
  /\ Hello.kind = "Hello" /\ Ping.kind = "Ping" /\ Pong.kind = "Pong"
  /\ \A n : PeerInit(n).kind = "PeerInit" /\ PeerConfirm(n).kind = "PeerConfirm"
  /\ \A n : PeerInit(n).name = n /\ PeerConfirm(n).name = n
  /\ \A ts : ActiveSubscriptions(ts).kind = "ActiveSubscriptions"
  /\ \A ts : User(ts).kind = "User" /\ User(ts).topics = ts
BY DEF Hello, Ping, Pong, PeerInit, PeerConfirm, ActiveSubscriptions, User

-----------------------------------------------------------------------------
(* Orders and lists. *)

\* The orders of a finite set are sequences over it.
LEMMA AnyOrderIsSeq ==
  ASSUME NEW S, IsFiniteSet(S), NEW s \in SetToSeqs(S)
  PROVE  s \in Seq(S) /\ \A i \in DOMAIN s : s[i] \in S
<1>1. Cardinality(S) \in Nat
  BY FS_CardinalityType
<1>2. s \in [1..Cardinality(S) -> S]
  BY DEF SetToSeqs
<1> QED
  BY <1>1, <1>2

\* An order of a finite set names each of its elements.
LEMMA AnyOrderHitsAll ==
  ASSUME NEW S, IsFiniteSet(S), NEW o \in SetToSeqs(S)
  PROVE  \A x \in S : \E i \in DOMAIN o : o[i] = x
<1> DEFINE D == 1 .. Cardinality(S)
<1>1. Cardinality(S) \in Nat
  BY FS_CardinalityType
<1>2. o \in Injection(D, S)
  BY DEF SetToSeqs, Injection, IsInjective
<1>3. Cardinality(D) = Cardinality(S)
  BY <1>1, FS_Interval
<1>4. o \in Surjection(D, S)
  BY <1>2, <1>3, FS_Injection
<1> QED
  BY <1>4 DEF Surjection

\* Two lists one after the other hold the actions of both.
LEMMA ConcatActions ==
  ASSUME NEW S, NEW s \in Seq(S), NEW t \in Seq(S)
  PROVE  /\ s \o t \in Seq(S)
         /\ \A i \in DOMAIN (s \o t) :
              \/ \E j \in DOMAIN s : (s \o t)[i] = s[j]
              \/ \E j \in DOMAIN t : (s \o t)[i] = t[j]
<1>1. s \o t \in Seq(S) /\ Len(s \o t) = Len(s) + Len(t)
  OBVIOUS
<1>2. ASSUME NEW i \in 1 .. Len(s) + Len(t)
      PROVE  \/ \E j \in DOMAIN s : (s \o t)[i] = s[j]
             \/ \E j \in DOMAIN t : (s \o t)[i] = t[j]
  <2>1. CASE i <= Len(s)
    BY <2>1
  <2>2. CASE i > Len(s)
    <3>1. (s \o t)[i] = t[i - Len(s)] /\ i - Len(s) \in DOMAIN t
      BY <2>2
    <3> QED
      BY <3>1
  <2> QED
    BY <2>1, <2>2
<1> QED
  BY <1>1, <1>2

\* The lists an Ok was made of.
LEMMA OkLists ==
  ASSUME NEW ls
  PROVE  Ok(ls).lists = ls
BY DEF Ok

-----------------------------------------------------------------------------
(* tick. *)

\* The actions tick returns of an object with finitely many peers and pending
\* dials: one of a peer that is due, or the end of a dial that is stale.
LEMMA TickActions ==
  ASSUME NEW self, NEW t, IsFiniteSet(due(self, t)), IsFiniteSet(stale(self, t)),
         NEW l \in tick(self, t).lists
  PROVE  /\ l \in Seq({tick_peer(self, k, t) : k \in due(self, t)}
                        \cup {UnsetPendingPeer(p.connection_info) : p \in stale(self, t)})
         /\ \A i \in DOMAIN l :
              \/ \E k \in due(self, t) : l[i] = tick_peer(self, k, t)
              \/ \E p \in stale(self, t) : l[i] = UnsetPendingPeer(p.connection_info)
         /\ DOMAIN l # {} => 1 \in DOMAIN l
<1>1. PICK ks \in SetToSeqs(due(self, t)), ps \in SetToSeqs(stale(self, t)) :
        l = [i \in DOMAIN ks |-> tick_peer(self, ks[i], t)]
              \o [i \in DOMAIN ps |-> UnsetPendingPeer(ps[i].connection_info)]
  <2>1. PICK order \in SetToSeqs(due(self, t)) \X SetToSeqs(stale(self, t)) :
          l = tick_list(self, order[1], order[2], t)
    BY OkLists DEF tick
  <2> QED
    BY <2>1 DEF tick_list
<1> DEFINE pings == [i \in DOMAIN ks |-> tick_peer(self, ks[i], t)]
           prunes == [i \in DOMAIN ps |-> UnsetPendingPeer(ps[i].connection_info)]
           All == {tick_peer(self, k, t) : k \in due(self, t)}
                    \cup {UnsetPendingPeer(p.connection_info) : p \in stale(self, t)}
<1>2. ks \in Seq(due(self, t)) /\ \A i \in DOMAIN ks : ks[i] \in due(self, t)
  BY AnyOrderIsSeq
<1>3. ps \in Seq(stale(self, t)) /\ \A i \in DOMAIN ps : ps[i] \in stale(self, t)
  BY AnyOrderIsSeq
<1>4. pings \in Seq(All) /\ \A i \in DOMAIN pings : \E k \in due(self, t) : pings[i] = tick_peer(self, k, t)
  BY <1>2
<1>5. prunes \in Seq(All) /\ \A i \in DOMAIN prunes :
                               \E p \in stale(self, t) : prunes[i] = UnsetPendingPeer(p.connection_info)
  BY <1>3
<1> HIDE DEF All
<1>6. l = pings \o prunes
  BY <1>1
<1> HIDE DEF pings, prunes
<1>7. /\ pings \o prunes \in Seq(All)
      /\ \A i \in DOMAIN (pings \o prunes) :
           \/ \E j \in DOMAIN pings : (pings \o prunes)[i] = pings[j]
           \/ \E j \in DOMAIN prunes : (pings \o prunes)[i] = prunes[j]
  <2>1. pings \in Seq(All) /\ prunes \in Seq(All)
    BY <1>4, <1>5
  <2> QED
    BY <2>1, ConcatActions
<1>8. l \in Seq(All) /\ (DOMAIN l # {} => 1 \in DOMAIN l)
  BY <1>6, <1>7
<1>9. ASSUME NEW i \in DOMAIN l
      PROVE  \/ \E k \in due(self, t) : l[i] = tick_peer(self, k, t)
             \/ \E p \in stale(self, t) : l[i] = UnsetPendingPeer(p.connection_info)
  BY <1>4, <1>5, <1>6, <1>7
<1> QED
  BY <1>8, <1>9 DEF All

=============================================================================
