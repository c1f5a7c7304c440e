------------------------- MODULE PeerManagerProofs -------------------------
(***************************************************************************)
(* Theorems about PeerManager, checked by TLAPS for any number of          *)
(* connections and messages and any capacity of the channels.  The         *)
(* inductive invariant has a part for each of: which task has a new        *)
(* connection, who may be replied to, what is on `app`, what is on `ev`.   *)
(***************************************************************************)
EXTENDS PeerManager, TLAPS

Incoming_(c) == [kind |-> "Incoming", conn |-> c]
Send_(c, n) == [kind |-> "Send", conn |-> c, n |-> n]
Recv_(c, n) == [kind |-> "Recv", conn |-> c, n |-> n]
Disconnect_(c) == [kind |-> "Disconnect", conn |-> c]

\* A connection is handed from the backlog to the accept task to `ev`, where
\* it stands once, and only then gets a reader; a connection that was dialed
\* gets reader and writer at once.
Arrivals ==
  /\ \A c \in arriving : binder # c /\ reader[c] = "none"
  /\ binder \in Incoming => reader[binder] = "none"
  /\ \A i \in DOMAIN ev : ev[i].kind = "Incoming" =>
       /\ ev[i].conn \notin arriving /\ binder # ev[i].conn
       /\ reader[ev[i].conn] = "none"
       /\ \A j \in DOMAIN ev : ev[j] = ev[i] => j = i
  /\ \A c \in Listening : reader[c] # "none" => c \in writers

\* The host can answer c: it listens, or its reader was started.
Reachable(c) == c \in Listening \/ reader[c] # "none"
ReachableNext(c) == c \in Listening \/ reader'[c] # "none"

\* A connection that was accepted and has a reader has a writer too, or the
\* handler is about to keep it; and only reachable addresses are written to.
WriterKept ==
  \A c \in Incoming :
    reader[c] # "none" =>
      c \in writers \/ handler = [doing |-> "connect", conn |-> c] \/ handler = Failed

AppReachable == \A i \in DOMAIN app : app[i].kind = "Recv" => Reachable(app[i].conn)
ReceivedReachable == \A c \in Conn : received[c] # <<>> => Reachable(c)
TodoReachable == \A i \in DOMAIN todo : Reachable(todo[i])
EvReachable == \A i \in DOMAIN ev : ev[i].kind = "Send" => Reachable(ev[i].conn)

Replies ==
  /\ WriterKept
  /\ AppReachable /\ ReceivedReachable /\ TodoReachable /\ EvReachable
  /\ RepliesUseConnection

\* `app` holds, for each connection, the messages its reader has pushed and
\* the host has not taken, in order.
ReceivedInOrder ==
  \A c \in Conn :
    /\ pushed[c] <= polled[c] /\ polled[c] <= wrote[c]
    /\ Len(received[c]) <= pushed[c]
    /\ \A k \in 1..Len(received[c]) : received[c][k] = k

NoneLost ==
  \A c \in Conn : \A k \in Len(received[c]) + 1..pushed[c] :
    \E i \in DOMAIN app : app[i] = Recv_(c, k)

RecvsInOrder ==
  \A i \in DOMAIN app : app[i].kind = "Recv" =>
    /\ Len(received[app[i].conn]) < app[i].n /\ app[i].n <= pushed[app[i].conn]
    /\ \A j \in DOMAIN app :
         i < j /\ app[j].kind = "Recv" /\ app[j].conn = app[i].conn => app[i].n < app[j].n

AppInOrder == ReceivedInOrder /\ NoneLost /\ RecvsInOrder

\* A Disconnect was put on `app` after everything that was written, and the
\* host that has taken it has taken all the rest.
Complete(c) == c \in closed /\ reader[c] = "ended" /\ pushed[c] = wrote[c]

LastOnApp ==
  \A i \in DOMAIN app : app[i].kind = "Disconnect" =>
    /\ Complete(app[i].conn)
    /\ \A j \in DOMAIN app : app[j].kind = "Recv" /\ app[j].conn = app[i].conn => j < i

LastTaken == \A c \in ended : Complete(c) /\ Len(received[c]) = wrote[c]

DisconnectLast == LastOnApp /\ LastTaken

\* `ev` and the handler hold, for each address, the messages that were sent
\* and not written, in order.
WireInOrder ==
  \A c \in Conn :
    /\ Len(wire[c]) <= sent[c]
    /\ \A k \in 1..Len(wire[c]) : wire[c][k] = k

NoneDropped ==
  handler # Failed =>
    \A c \in Conn : \A k \in Len(wire[c]) + 1..sent[c] :
      \/ handler = [doing |-> "send", conn |-> c, n |-> k]
      \/ \E i \in DOMAIN ev : ev[i] = Send_(c, k)

SendsInOrder ==
  \A i \in DOMAIN ev : ev[i].kind = "Send" =>
    /\ Len(wire[ev[i].conn]) < ev[i].n /\ ev[i].n <= sent[ev[i].conn]
    /\ \A j \in DOMAIN ev :
         i < j /\ ev[j].kind = "Send" /\ ev[j].conn = ev[i].conn => ev[i].n < ev[j].n

HandlerNext ==
  handler.doing = "send" =>
    /\ handler.n = Len(wire[handler.conn]) + 1 /\ handler.n <= sent[handler.conn]
    /\ \A i \in DOMAIN ev :
         ev[i].kind = "Send" /\ ev[i].conn = handler.conn => handler.n < ev[i].n

EvInOrder == WireInOrder /\ NoneDropped /\ SendsInOrder /\ HandlerNext

IInv ==
  /\ TypeOK
  /\ Arrivals
  /\ Replies
  /\ AppInOrder
  /\ DisconnectLast
  /\ EvInOrder

-----------------------------------------------------------------------------
(* Queues. *)

\* A queue with one more element at its end.
LEMMA AppendQ ==
  ASSUME NEW S, NEW q \in Seq(S), NEW e \in S, NEW r, r = Append(q, e)
  PROVE  /\ r \in Seq(S) /\ Len(r) = Len(q) + 1
         /\ DOMAIN q = 1..Len(q) /\ DOMAIN r = 1..Len(q) + 1
         /\ Len(q) \in Nat
         /\ \A i \in DOMAIN q : i \in DOMAIN r /\ r[i] = q[i]
         /\ r[Len(q) + 1] = e
         /\ \A i \in DOMAIN r : i \in DOMAIN q \/ i = Len(q) + 1
OBVIOUS

\* A queue without its first element.
LEMMA TailQ ==
  ASSUME NEW S, NEW q \in Seq(S), q # <<>>, NEW r, r = Tail(q)
  PROVE  /\ r \in Seq(S) /\ Len(r) = Len(q) - 1
         /\ DOMAIN q = 1..Len(q) /\ DOMAIN r = 1..Len(q) - 1
         /\ Len(q) \in Nat \ {0}
         /\ Head(q) = q[1] /\ Head(q) \in S /\ 1 \in DOMAIN q
         /\ \A i \in DOMAIN r : i \in Nat /\ i + 1 \in DOMAIN q /\ r[i] = q[i + 1]
         /\ \A i \in DOMAIN q : i = 1 \/ (i - 1 \in DOMAIN r /\ r[i - 1] = q[i] /\ i - 1 \in Nat)
OBVIOUS

\* A channel with room takes one more element.
LEMMA PutQ ==
  ASSUME NEW S, NEW q \in Seq(S), NEW e \in S, NEW capacity \in Nat, Len(q) < capacity
  PROVE  Append(q, e) \in Seq(S) /\ Len(Append(q, e)) <= capacity
OBVIOUS

\* A channel that is not empty gives its first element.
LEMMA TakeQ ==
  ASSUME NEW S, NEW q \in Seq(S), NEW capacity \in Nat, q # <<>>, Len(q) <= capacity
  PROVE  Head(q) \in S /\ Tail(q) \in Seq(S) /\ Len(Tail(q)) <= capacity
OBVIOUS

\* The capacities are numbers.
LEMMA Capacities == EvCapacity \in Nat /\ AppCapacity \in Nat
BY CapacityAssumption

-----------------------------------------------------------------------------
(* Types. *)

\* What the handler may be doing, and what follows from it.
LEMMA HandlerTypes ==
  ASSUME TypeOK
  PROVE  /\ handler.doing = "connect" => handler.conn \in Incoming /\ handler.conn \in Conn
         /\ handler.doing = "send" => handler.conn \in Conn /\ handler.n \in Nat
         /\ handler.doing = "connect" => handler = [doing |-> "connect", conn |-> handler.conn]
         /\ handler.doing = "send" =>
              handler = [doing |-> "send", conn |-> handler.conn, n |-> handler.n]
         /\ handler.doing \in {"recv", "failed", "connect", "send"}
         /\ handler.doing = "recv" <=> handler = Idle
         /\ handler.doing = "failed" <=> handler = Failed
<1>1. CASE handler = Idle
  BY <1>1 DEF Idle, Failed
<1>2. CASE handler = Failed
  BY <1>2 DEF Idle, Failed
<1>3. CASE handler \in [doing : {"connect"}, conn : Incoming]
  BY <1>3 DEF Idle, Failed, Conn
<1>4. CASE handler \in [doing : {"send"}, conn : Conn, n : Nat]
  BY <1>4 DEF Idle, Failed
<1> QED
  BY <1>1, <1>2, <1>3, <1>4 DEF TypeOK, Doing

\* The events on the two channels.
LEMMA EventTypes ==
  /\ \A c \in Incoming : [kind |-> "Incoming", conn |-> c] \in EvEvent
  /\ \A c \in Conn, n \in Nat : [kind |-> "Send", conn |-> c, n |-> n] \in EvEvent
  /\ \A e \in EvEvent :
       \/ e.kind = "Incoming" /\ e.conn \in Incoming /\ e.conn \in Conn /\ e = Incoming_(e.conn)
       \/ e.kind = "Send" /\ e.conn \in Conn /\ e.n \in Nat /\ e = Send_(e.conn, e.n)
  /\ \A c \in Conn : [kind |-> "Connect", conn |-> c] \in AppEvent
  /\ \A c \in Conn : [kind |-> "Disconnect", conn |-> c] \in AppEvent
  /\ \A c \in Conn, n \in Nat : [kind |-> "Recv", conn |-> c, n |-> n] \in AppEvent
  /\ \A e \in AppEvent :
       /\ e.conn \in Conn
       /\ e.kind \in {"Connect", "Disconnect", "Recv"}
       /\ e.kind = "Recv" => e.n \in Nat /\ e = Recv_(e.conn, e.n)
BY DEF EvEvent, AppEvent, Incoming_, Send_, Recv_, Conn

\* Every step keeps the types.
LEMMA TypeStep == TypeOK /\ [Next]_vars => TypeOK'
<1> SUFFICES ASSUME TypeOK, [Next]_vars PROVE TypeOK'
  OBVIOUS
<1>0. Conn = Incoming \cup Listening
  BY DEF Conn
<1>1. ASSUME NEW c \in Incoming, Accept(c) PROVE TypeOK'
  BY <1>1 DEF Accept, TypeOK, readers, hosting
<1>2. ASSUME AcceptFails PROVE TypeOK'
  BY <1>2 DEF AcceptFails, TypeOK, remotes, readers, hosting
<1>3. ASSUME Announce PROVE TypeOK'
  <2>1. ev' \in Seq(EvEvent) /\ Len(ev') <= EvCapacity
    BY <1>3, EventTypes, Capacities, PutQ DEF Announce, HasRoom, TypeOK
  <2> QED
    BY <1>3, <2>1 DEF Announce, TypeOK, remotes, readers, hosting
<1>4. ASSUME HandlerTakes PROVE TypeOK'
  <2>1. ev \in Seq(EvEvent) /\ ev # <<>> /\ Len(ev) <= EvCapacity /\ ev' = Tail(ev)
    BY <1>4 DEF HandlerTakes, TypeOK
  <2>2. Head(ev) \in EvEvent /\ ev' \in Seq(EvEvent) /\ Len(ev') <= EvCapacity
    BY <2>1, Capacities, TakeQ
  <2>3. handler' \in Doing
    BY <1>4, <2>2, EventTypes DEF HandlerTakes, Doing
  <2>4. reader' \in [Conn -> {"none", "reading", "ended"}]
    BY <1>4, <2>2, EventTypes DEF HandlerTakes, StartReader, TypeOK
  <2> QED
    BY <1>4, <2>2, <2>3, <2>4 DEF HandlerTakes, TypeOK, remotes, hosting
<1>5. ASSUME HandlerConnects PROVE TypeOK'
  <2>1. handler.conn \in Conn
    BY <1>5, HandlerTypes DEF HandlerConnects
  <2>2. app' \in Seq(AppEvent) /\ Len(app') <= AppCapacity
    BY <1>5, <2>1, EventTypes, Capacities, PutQ DEF HandlerConnects, PutApp, HasRoom, TypeOK
  <2>3. handler' \in Doing
    BY <1>5 DEF HandlerConnects, Doing
  <2> QED
    BY <1>5, <2>1, <2>2, <2>3 DEF HandlerConnects, TypeOK, remotes, readers, hosting
<1>6. ASSUME HandlerDials PROVE TypeOK'
  BY <1>6, <1>0 DEF HandlerDials, StartReader, TypeOK, remotes, hosting
<1>7. ASSUME HandlerWrites PROVE TypeOK'
  <2>1. handler.conn \in Conn /\ handler.n \in Nat
    BY <1>7, HandlerTypes DEF HandlerWrites
  <2>2. wire' \in [Conn -> Seq(Nat)]
    BY <1>7, <2>1 DEF HandlerWrites, TypeOK
  <2>3. handler' \in Doing
    BY <1>7 DEF HandlerWrites, Doing
  <2> QED
    BY <1>7, <2>2, <2>3 DEF HandlerWrites, TypeOK, remotes, readers, hosting
<1>8. ASSUME HandlerFails PROVE TypeOK'
  <2>1. handler' \in Doing
    BY <1>8 DEF HandlerFails, Doing
  <2> QED
    BY <1>8, <2>1 DEF HandlerFails, TypeOK, remotes, readers, hosting
<1>9. ASSUME NEW c \in Conn, ReaderPolls(c) PROVE TypeOK'
  <2>1. PICK n \in polled[c] + 1..wrote[c] : polled' = [polled EXCEPT ![c] = n]
    BY <1>9 DEF ReaderPolls
  <2>2. polled' \in [Conn -> Nat]
    BY <2>1 DEF TypeOK
  <2> QED
    BY <1>9, <2>2 DEF ReaderPolls, TypeOK, remotes, manager, hosting
<1>10. ASSUME NEW c \in Conn, ReaderPushes(c) PROVE TypeOK'
  <2>1. pushed[c] + 1 \in Nat /\ pushed' \in [Conn -> Nat]
    BY <1>10 DEF ReaderPushes, TypeOK
  <2>2. app' \in Seq(AppEvent) /\ Len(app') <= AppCapacity
    BY <1>10, <2>1, EventTypes, Capacities, PutQ DEF ReaderPushes, PutApp, HasRoom, TypeOK
  <2> QED
    BY <1>10, <2>1, <2>2 DEF ReaderPushes, TypeOK, remotes, manager, hosting
<1>11. ASSUME NEW c \in Conn, ReaderDisconnects(c) PROVE TypeOK'
  <2>1. app' \in Seq(AppEvent) /\ Len(app') <= AppCapacity
    BY <1>11, EventTypes, Capacities, PutQ DEF ReaderDisconnects, PutApp, HasRoom, TypeOK
  <2> QED
    BY <1>11, <2>1 DEF ReaderDisconnects, TypeOK, remotes, manager, hosting
<1>12. ASSUME NEW c \in Conn, ReaderFails(c) PROVE TypeOK'
  BY <1>12 DEF ReaderFails, TypeOK, remotes, manager, hosting
<1>13. ASSUME HostTakes PROVE TypeOK'
  <2>1. app \in Seq(AppEvent) /\ app # <<>> /\ Len(app) <= AppCapacity /\ app' = Tail(app)
    BY <1>13 DEF HostTakes, TypeOK
  <2>2. Head(app) \in AppEvent /\ app' \in Seq(AppEvent) /\ Len(app') <= AppCapacity
    BY <2>1, Capacities, TakeQ
  <2>3. Head(app).conn \in Conn /\ (Head(app).kind = "Recv" => Head(app).n \in Nat)
    BY <2>2, EventTypes
  <2>4. received' \in [Conn -> Seq(Nat)]
    <3>1. CASE Head(app).kind = "Recv"
      <4>1. received' = [received EXCEPT ![Head(app).conn] = Append(@, Head(app).n)]
        BY <1>13, <3>1 DEF HostTakes
      <4> QED
        BY <2>3, <3>1, <4>1 DEF TypeOK
    <3>2. CASE Head(app).kind # "Recv"
      BY <1>13, <3>2 DEF HostTakes, TypeOK
    <3> QED
      BY <3>1, <3>2
  <2>5. ended' \subseteq Conn /\ host' \in {"running", "ended"}
    BY <1>13, <2>3 DEF HostTakes, TypeOK
  <2>6. todo' \in Seq(Conn)
    <3>1. Known(Head(app).conn) \subseteq Conn
      BY <2>3, <1>0 DEF Known
    <3>2. ASSUME NEW r \in 0..MaxReplies, NEW l \in [1..r -> Known(Head(app).conn)]
          PROVE  l \in Seq(Conn)
      <4>1. MaxReplies \in Nat
        BY BoundAssumption
      <4>2. r \in Nat /\ l \in [1..r -> Conn]
        BY <3>1, <4>1
      <4> QED
        BY <4>2
    <3>3. \/ \E r \in 0..MaxReplies : todo' \in [1..r -> Known(Head(app).conn)]
          \/ todo' = todo
      BY <1>13 DEF HostTakes
    <3> QED
      BY <3>2, <3>3 DEF TypeOK
  <2> QED
    BY <1>13, <2>2, <2>4, <2>5, <2>6 DEF HostTakes, TypeOK, remotes, manager, readers
<1>14. ASSUME NEW c \in Listening, HostDials(c) PROVE TypeOK'
  <2>1. todo' \in Seq(Conn)
    BY <1>14, <1>0 DEF HostDials
  <2> QED
    BY <1>14, <2>1 DEF HostDials, TypeOK, remotes, manager, readers
<1>15. ASSUME HostSends PROVE TypeOK'
  <2>1. Head(todo) \in Conn /\ todo' \in Seq(Conn)
    BY <1>15 DEF HostSends, TypeOK
  <2>2. sent[Head(todo)] + 1 \in Nat /\ sent' \in [Conn -> Nat]
    <3> DEFINE h == Head(todo)
    <3>1. sent' = [sent EXCEPT ![h] = @ + 1] /\ sent \in [Conn -> Nat] /\ h \in Conn
      BY <1>15, <2>1 DEF HostSends, TypeOK
    <3> HIDE DEF h
    <3>2. sent[h] + 1 \in Nat /\ sent' \in [Conn -> Nat]
      BY <3>1
    <3> QED
      BY <3>2 DEF h
  <2>3. ev' \in Seq(EvEvent) /\ Len(ev') <= EvCapacity
    BY <1>15, <2>1, <2>2, EventTypes, Capacities, PutQ DEF HostSends, HasRoom, TypeOK
  <2> QED
    BY <1>15, <2>1, <2>2, <2>3 DEF HostSends, TypeOK, remotes, manager, readers
<1>16. ASSUME HostEnds PROVE TypeOK'
  BY <1>16 DEF HostEnds, TypeOK, remotes, manager, readers
<1>17. ASSUME NEW c \in Conn, RemoteWrites(c) PROVE TypeOK'
  BY <1>17 DEF RemoteWrites, TypeOK, manager, readers, hosting
<1>18. ASSUME NEW c \in Conn, RemoteReads(c) PROVE TypeOK'
  <2>1. taken \in [Conn -> Nat] /\ taken' = [taken EXCEPT ![c] = @ + 1]
    BY <1>18 DEF RemoteReads, TypeOK
  <2>2. taken' \in [Conn -> Nat]
    BY <2>1
  <2> QED
    BY <1>18, <2>2 DEF RemoteReads, TypeOK, manager, readers, hosting
<1>19. ASSUME NEW c \in Conn, RemoteCloses(c) PROVE TypeOK'
  BY <1>19 DEF RemoteCloses, TypeOK, manager, readers, hosting
<1>20. ASSUME UNCHANGED vars PROVE TypeOK'
  BY <1>20 DEF vars, TypeOK, remotes, manager, readers, hosting
<1> QED
  BY <1>1, <1>2, <1>3, <1>4, <1>5, <1>6, <1>7, <1>8, <1>9, <1>10, <1>11, <1>12, <1>13, <1>14,
     <1>15, <1>16, <1>17, <1>18, <1>19, <1>20 DEF Next, Handler, Host, Reader, Remote

\* What HostSends puts on `ev`.
LEMMA NextSend ==
  ASSUME TypeOK, HostSends
  PROVE  LET h == Head(todo)
             e == Send_(h, sent[h] + 1)
         IN /\ h \in Conn /\ sent[h] + 1 \in Nat
            /\ e \in EvEvent /\ e.kind = "Send" /\ e.conn = h /\ e.n = sent[h] + 1
            /\ ev' = Append(ev, e)
            /\ sent' = [sent EXCEPT ![h] = @ + 1]
<1> DEFINE h == Head(todo)
<1>1. h \in Conn /\ sent \in [Conn -> Nat]
  <2>1. todo \in Seq(Conn) /\ todo # <<>> /\ sent \in [Conn -> Nat]
    BY DEF HostSends, TypeOK
  <2> QED
    BY <2>1, TailQ
<1>2. ev' = Append(ev, Send_(h, sent[h] + 1)) /\ sent' = [sent EXCEPT ![h] = @ + 1]
  BY DEF HostSends, Send_
<1> HIDE DEF h
<1>3. sent[h] + 1 \in Nat
  BY <1>1
<1>4. LET e == Send_(h, sent[h] + 1)
      IN e \in EvEvent /\ e.kind = "Send" /\ e.conn = h /\ e.n = sent[h] + 1
  BY <1>1, <1>3, EventTypes DEF Send_
<1> QED
  BY <1>1, <1>2, <1>3, <1>4 DEF h

-----------------------------------------------------------------------------
(* Where new connections are. *)

\* The addresses remote peers connect from are none of those they listen on,
\* and no word for the accept task's state.
LEMMA Disjoint ==
  /\ \A c \in Incoming : c \notin Listening /\ c # "idle" /\ c # "failed" /\ c \in Conn
  /\ \A c \in Listening : c \in Conn
  /\ \A c \in Conn : c \in Incoming \/ c \in Listening
BY ConnAssumption DEF Conn

\* Arrivals speaks of these variables only.
LEMMA ArrivalsFrame ==
  ASSUME Arrivals, UNCHANGED <<arriving, binder, ev, reader, writers>>
  PROVE  Arrivals'
BY DEF Arrivals

\* Every step keeps Arrivals.
LEMMA ArrivalsStep ==
  ASSUME TypeOK, Arrivals, [Next]_vars
  PROVE  Arrivals'
<1>1. ASSUME NEW c \in Incoming, Accept(c) PROVE Arrivals'
  <2>1. /\ c \in arriving /\ arriving' = arriving \ {c} /\ binder' = c
        /\ UNCHANGED <<ev, reader, writers>>
    BY <1>1 DEF Accept, readers
  <2>2. \A d \in arriving' : binder' # d /\ reader'[d] = "none"
    BY <2>1 DEF Arrivals
  <2>3. reader'[binder'] = "none"
    BY <2>1 DEF Arrivals
  <2>4. ASSUME NEW i \in DOMAIN ev', ev'[i].kind = "Incoming"
        PROVE  /\ ev'[i].conn \notin arriving' /\ binder' # ev'[i].conn
               /\ reader'[ev'[i].conn] = "none"
               /\ \A j \in DOMAIN ev' : ev'[j] = ev'[i] => j = i
    BY <2>1, <2>4 DEF Arrivals
  <2>5. \A d \in Listening : reader'[d] # "none" => d \in writers'
    BY <2>1 DEF Arrivals
  <2> QED
    BY <2>2, <2>3, <2>4, <2>5 DEF Arrivals
<1>2. ASSUME AcceptFails PROVE Arrivals'
  <2>1. binder' = "failed" /\ binder' \notin Incoming /\ UNCHANGED <<arriving, ev, reader, writers>>
    BY <1>2, Disjoint DEF AcceptFails, remotes, readers
  <2>2. \A c \in arriving' : binder' # c /\ reader'[c] = "none"
    BY <2>1 DEF Arrivals, TypeOK
  <2>3. ASSUME NEW i \in DOMAIN ev', ev'[i].kind = "Incoming"
        PROVE  /\ ev'[i].conn \notin arriving' /\ binder' # ev'[i].conn
               /\ reader'[ev'[i].conn] = "none"
               /\ \A j \in DOMAIN ev' : ev'[j] = ev'[i] => j = i
    <3>1. ev[i] \in EvEvent
      BY <2>1 DEF TypeOK
    <3>2. ev'[i].conn \in Incoming
      BY <2>1, <2>3, <3>1, EventTypes
    <3> QED
      BY <2>1, <2>3, <3>2 DEF Arrivals
  <2>4. \A d \in Listening : reader'[d] # "none" => d \in writers'
    BY <2>1 DEF Arrivals
  <2> QED
    BY <2>1, <2>2, <2>3, <2>4 DEF Arrivals
<1>3. ASSUME Announce PROVE Arrivals'
  <2> DEFINE e == Incoming_(binder)
  <2>1. e.kind = "Incoming" /\ e.conn = binder /\ binder \in Incoming /\ binder' = "idle"
    BY <1>3 DEF Announce, Incoming_
  <2>2. ev \in Seq(EvEvent) /\ e \in EvEvent /\ ev' = Append(ev, e)
    BY <1>3, EventTypes DEF Announce, Incoming_, TypeOK
  <2> HIDE DEF e
  <2>3. UNCHANGED <<arriving, reader, writers>>
    BY <1>3 DEF Announce, remotes, readers
  <2>4. binder \notin arriving /\ reader[binder] = "none"
    BY <2>1 DEF Arrivals
  <2>5. \A i \in DOMAIN ev : ev[i].kind = "Incoming" => ev[i].conn # binder
    BY <2>1 DEF Arrivals
  <2>6. ASSUME NEW i \in DOMAIN ev', ev'[i].kind = "Incoming"
        PROVE  /\ ev'[i].conn \notin arriving' /\ binder' # ev'[i].conn
               /\ reader'[ev'[i].conn] = "none"
               /\ \A j \in DOMAIN ev' : ev'[j] = ev'[i] => j = i
    <3>1. ev'[i] \in EvEvent
      BY <2>2, <2>6
    <3>2. ev'[i].conn \in Incoming
      BY <2>6, <3>1, EventTypes
    <3> QED
      BY <2>1, <2>2, <2>3, <2>4, <2>5, <2>6, <3>2, AppendQ, Disjoint DEF Arrivals
  <2> QED
    BY <2>1, <2>3, <2>6, Disjoint DEF Arrivals, TypeOK
<1>4. ASSUME HandlerTakes PROVE Arrivals'
  <2>1. ev \in Seq(EvEvent) /\ ev # <<>> /\ ev' = Tail(ev) /\ UNCHANGED <<arriving, binder, writers>>
    BY <1>4 DEF HandlerTakes, TypeOK, remotes
  <2>2. ASSUME NEW i \in DOMAIN ev' PROVE ev'[i] = ev[i + 1] /\ i + 1 \in DOMAIN ev /\ i \in Nat
    BY <2>1, TailQ
  <2>3. Head(ev) = ev[1] /\ 1 \in DOMAIN ev /\ Head(ev) \in EvEvent
    BY <2>1, TailQ
  <2>4. CASE Head(ev).kind = "Incoming"
    <3> DEFINE c == Head(ev).conn
    <3>1. c \in Incoming /\ c \in Conn /\ reader' = [reader EXCEPT ![c] = "reading"]
      BY <1>4, <2>3, <2>4, EventTypes DEF HandlerTakes, StartReader
    <3>2. c \notin arriving /\ binder # c
      BY <2>3, <2>4 DEF Arrivals
    <3>3. ASSUME NEW i \in DOMAIN ev', ev'[i].kind = "Incoming" PROVE ev'[i].conn # c
      <4>1. ev[i + 1] \in EvEvent /\ ev[i + 1].kind = "Incoming" /\ i + 1 # 1
        BY <2>1, <2>2, <3>3
      <4>2. ev[i + 1] = Incoming_(ev[i + 1].conn) /\ Head(ev) = Incoming_(c)
        BY <2>3, <2>4, <4>1, EventTypes
      <4>3. ev[i + 1] # ev[1]
        BY <2>2, <2>3, <2>4, <4>1 DEF Arrivals
      <4> QED
        BY <2>2, <2>3, <4>2, <4>3
    <3> HIDE DEF c
    <3>4. ASSUME NEW i \in DOMAIN ev', ev'[i].kind = "Incoming"
          PROVE  /\ ev'[i].conn \notin arriving' /\ binder' # ev'[i].conn
                 /\ reader'[ev'[i].conn] = "none"
                 /\ \A j \in DOMAIN ev' : ev'[j] = ev'[i] => j = i
      <4>1. ev[i + 1] \in EvEvent /\ ev[i + 1].kind = "Incoming"
        BY <2>1, <2>2, <3>4
      <4>2. /\ ev[i + 1].conn \notin arriving /\ binder # ev[i + 1].conn
            /\ reader[ev[i + 1].conn] = "none"
            /\ \A j \in DOMAIN ev : ev[j] = ev[i + 1] => j = i + 1
        BY <2>2, <4>1 DEF Arrivals
      <4>3. ev'[i].conn # c /\ ev'[i].conn \in Conn
        BY <2>2, <3>3, <3>4, <4>1, EventTypes
      <4>4. reader'[ev'[i].conn] = "none"
        BY <2>2, <3>1, <4>2, <4>3 DEF TypeOK
      <4> QED
        BY <2>1, <2>2, <4>2, <4>4
    <3>5. \A d \in arriving' : binder' # d /\ reader'[d] = "none"
      BY <2>1, <3>1, <3>2, Disjoint DEF Arrivals, TypeOK
    <3>6. binder' \in Incoming => reader'[binder'] = "none"
      BY <2>1, <3>1, <3>2, Disjoint DEF Arrivals, TypeOK
    <3>7. \A d \in Listening : reader'[d] # "none" => d \in writers'
      BY <2>1, <3>1, Disjoint DEF Arrivals, TypeOK
    <3> QED
      BY <3>4, <3>5, <3>6, <3>7 DEF Arrivals
  <2>5. CASE Head(ev).kind # "Incoming"
    <3>1. UNCHANGED reader
      BY <1>4, <2>5 DEF HandlerTakes
    <3>2. ASSUME NEW i \in DOMAIN ev', ev'[i].kind = "Incoming"
          PROVE  /\ ev'[i].conn \notin arriving' /\ binder' # ev'[i].conn
                 /\ reader'[ev'[i].conn] = "none"
                 /\ \A j \in DOMAIN ev' : ev'[j] = ev'[i] => j = i
      <4>1. ev[i + 1].kind = "Incoming" /\ i + 1 \in DOMAIN ev
        BY <2>2, <3>2
      <4>2. /\ ev[i + 1].conn \notin arriving /\ binder # ev[i + 1].conn
            /\ reader[ev[i + 1].conn] = "none"
            /\ \A j \in DOMAIN ev : ev[j] = ev[i + 1] => j = i + 1
        BY <4>1 DEF Arrivals
      <4> QED
        BY <2>1, <2>2, <3>1, <4>2
    <3> QED
      BY <2>1, <3>1, <3>2 DEF Arrivals
  <2> QED
    BY <2>4, <2>5
<1>5. ASSUME HandlerConnects PROVE Arrivals'
  BY <1>5 DEF HandlerConnects, Arrivals, remotes, readers
<1>6. ASSUME HandlerDials PROVE Arrivals'
  <2>1. /\ handler.conn \in Listening /\ reader' = [reader EXCEPT ![handler.conn] = "reading"]
        /\ writers' = writers \cup {handler.conn} /\ UNCHANGED <<arriving, binder, ev>>
    BY <1>6 DEF HandlerDials, StartReader, remotes
  <2>2. \A c \in Incoming : reader'[c] = reader[c]
    BY <2>1, Disjoint DEF TypeOK
  <2>3. ASSUME NEW i \in DOMAIN ev, ev[i].kind = "Incoming" PROVE ev[i].conn \in Incoming
    BY <2>3, EventTypes DEF TypeOK
  <2>4. \A c \in Listening : reader'[c] # "none" => c \in writers'
    BY <2>1, Disjoint DEF Arrivals, TypeOK
  <2> QED
    BY <2>1, <2>2, <2>3, <2>4 DEF Arrivals, TypeOK
<1>7. ASSUME NEW c \in Conn, ReaderDisconnects(c) \/ ReaderFails(c) PROVE Arrivals'
  <2>1. /\ reader[c] = "reading" /\ reader' = [reader EXCEPT ![c] = "ended"]
        /\ UNCHANGED <<arriving, binder, ev, writers>>
    BY <1>7 DEF ReaderDisconnects, ReaderFails, remotes, manager
  <2>2. \A d \in Conn : reader[d] = "none" <=> reader'[d] = "none"
    BY <2>1 DEF TypeOK
  <2>3. ASSUME NEW i \in DOMAIN ev PROVE ev[i].conn \in Conn
    BY EventTypes DEF TypeOK
  <2> QED
    BY <2>1, <2>2, <2>3, Disjoint DEF Arrivals, TypeOK
<1>8. ASSUME HostSends PROVE Arrivals'
  <2> DEFINE e == Send_(Head(todo), sent[Head(todo)] + 1)
  <2>1. ev \in Seq(EvEvent) /\ ev' = Append(ev, e) /\ e.kind = "Send"
    BY <1>8, NextSend DEF TypeOK
  <2>3. e \in EvEvent
    BY <1>8, NextSend
  <2> HIDE DEF e
  <2>4. UNCHANGED <<arriving, binder, reader, writers>>
    BY <1>8 DEF HostSends, remotes, manager, readers
  <2>5. ASSUME NEW i \in DOMAIN ev', ev'[i].kind = "Incoming"
        PROVE  /\ ev'[i].conn \notin arriving' /\ binder' # ev'[i].conn
               /\ reader'[ev'[i].conn] = "none"
               /\ \A j \in DOMAIN ev' : ev'[j] = ev'[i] => j = i
    <3>1. i \in DOMAIN ev /\ ev'[i] = ev[i]
      BY <2>1, <2>3, <2>5, AppendQ
    <3>2. \A j \in DOMAIN ev' : ev'[j] = ev'[i] => j \in DOMAIN ev /\ ev'[j] = ev[j]
      BY <2>1, <2>3, <2>5, AppendQ
    <3> QED
      BY <2>4, <2>5, <3>1, <3>2 DEF Arrivals
  <2> QED
    BY <2>4, <2>5 DEF Arrivals
<1>9. CASE UNCHANGED <<arriving, binder, ev, reader, writers>>
  BY <1>9, ArrivalsFrame
<1>10. ASSUME NEW c \in Conn, ReaderPolls(c) \/ ReaderPushes(c) \/ Remote(c)
       PROVE  UNCHANGED <<arriving, binder, ev, reader, writers>>
  BY <1>10 DEF ReaderPolls, ReaderPushes, Remote, RemoteWrites, RemoteReads, RemoteCloses,
     remotes, manager, readers
<1>11. ASSUME HandlerWrites \/ HandlerFails \/ HostTakes \/ HostEnds \/ UNCHANGED vars
       PROVE  UNCHANGED <<arriving, binder, ev, reader, writers>>
  BY <1>11 DEF HandlerWrites, HandlerFails, HostTakes, HostEnds, vars, remotes, manager, readers
<1>12. ASSUME NEW c \in Listening, HostDials(c)
       PROVE  UNCHANGED <<arriving, binder, ev, reader, writers>>
  BY <1>12 DEF HostDials, remotes, manager, readers
<1> QED
  BY <1>1, <1>2, <1>3, <1>4, <1>5, <1>6, <1>7, <1>8, <1>9, <1>10, <1>11, <1>12
  DEF Next, Handler, Host, Reader
-----------------------------------------------------------------------------
(* Which steps change what. *)

\* The steps that put something on `ev` or take something off it.
LEMMA EvSteps == [Next]_vars => ev' = ev \/ Announce \/ HandlerTakes \/ HostSends
BY DEF vars, remotes, manager, readers, hosting, Next, Handler, Host, Reader, Remote,
  Accept, AcceptFails, HandlerConnects, HandlerDials, HandlerWrites, HandlerFails,
  ReaderPolls, ReaderPushes, ReaderDisconnects, ReaderFails, HostTakes, HostDials, HostEnds,
  RemoteWrites, RemoteReads, RemoteCloses

\* The steps that put something on `app` or take something off it.
LEMMA AppSteps ==
  [Next]_vars =>
    \/ app' = app
    \/ HandlerConnects \/ HostTakes
    \/ \E c \in Conn : ReaderPushes(c) \/ ReaderDisconnects(c)
BY DEF vars, remotes, manager, readers, hosting, Next, Handler, Host, Reader, Remote,
  Accept, AcceptFails, Announce, HandlerTakes, HandlerDials, HandlerWrites, HandlerFails,
  ReaderPolls, ReaderFails, HostSends, HostDials, HostEnds,
  RemoteWrites, RemoteReads, RemoteCloses

\* The steps after which the handler does something else.
LEMMA HandlerSteps ==
  [Next]_vars =>
    \/ handler' = handler
    \/ HandlerTakes
    \/ handler' = Idle /\ (HandlerConnects \/ HandlerWrites)
    \/ handler' = Failed /\ HandlerFails
BY DEF vars, remotes, manager, readers, hosting, Next, Handler, Host, Reader, Remote,
  Accept, AcceptFails, Announce, HandlerConnects, HandlerDials, HandlerWrites, HandlerFails,
  ReaderPolls, ReaderPushes, ReaderDisconnects, ReaderFails, HostTakes, HostSends, HostDials,
  HostEnds, RemoteWrites, RemoteReads, RemoteCloses

\* The steps that start or end a reader.
LEMMA ReaderSteps ==
  [Next]_vars =>
    \/ reader' = reader
    \/ HandlerTakes \/ HandlerDials
    \/ \E c \in Conn : ReaderDisconnects(c) \/ ReaderFails(c)
BY DEF vars, remotes, manager, readers, hosting, Next, Handler, Host, Reader, Remote,
  Accept, AcceptFails, Announce, HandlerConnects, HandlerWrites, HandlerFails,
  ReaderPolls, ReaderPushes, HostTakes, HostSends, HostDials,
  HostEnds, RemoteWrites, RemoteReads, RemoteCloses

\* A writer stays for good.
LEMMA WritersSteps == [Next]_vars => writers \subseteq writers'
BY DEF vars, remotes, manager, readers, hosting, Next, Handler, Host, Reader, Remote,
  Accept, AcceptFails, Announce, HandlerTakes, HandlerConnects, HandlerDials, HandlerWrites,
  HandlerFails, ReaderPolls, ReaderPushes, ReaderDisconnects, ReaderFails, HostTakes, HostSends,
  HostDials, HostEnds, RemoteWrites, RemoteReads, RemoteCloses

\* The steps that change what the host knows and has to do.
LEMMA HostSteps ==
  [Next]_vars =>
    /\ UNCHANGED <<received, ended>> \/ HostTakes
    /\ todo' = todo \/ HostTakes \/ HostSends \/ \E c \in Listening : HostDials(c)
BY DEF vars, remotes, manager, readers, hosting, Next, Handler, Host, Reader, Remote,
  Accept, AcceptFails, Announce, HandlerTakes, HandlerConnects, HandlerDials, HandlerWrites,
  HandlerFails, ReaderPolls, ReaderPushes, ReaderDisconnects, ReaderFails, HostTakes, HostSends,
  HostDials, HostEnds, RemoteWrites, RemoteReads, RemoteCloses

\* What HandlerTakes finds at the head of `ev`, and what it does with it.
LEMMA HandlerTakesWhat ==
  ASSUME TypeOK, HandlerTakes
  PROVE  /\ handler = Idle /\ ev \in Seq(EvEvent) /\ ev # <<>> /\ ev' = Tail(ev)
         /\ 1 \in DOMAIN ev /\ ev[1] \in EvEvent /\ ev[1].conn \in Conn
         /\ ev[1].kind \in {"Incoming", "Send"}
         /\ ev[1].kind = "Incoming" =>
              /\ ev[1].conn \in Incoming
              /\ handler' = [doing |-> "connect", conn |-> ev[1].conn]
              /\ reader' = [reader EXCEPT ![ev[1].conn] = "reading"]
         /\ ev[1].kind = "Send" =>
              /\ ev[1].n \in Nat
              /\ handler' = [doing |-> "send", conn |-> ev[1].conn, n |-> ev[1].n]
              /\ reader' = reader
         /\ UNCHANGED <<app, remotes, binder, writers, wire, polled, pushed, hosting>>
<1>1. handler = Idle /\ ev \in Seq(EvEvent) /\ ev # <<>> /\ ev' = Tail(ev)
  BY DEF HandlerTakes, TypeOK
<1>2. Head(ev) = ev[1] /\ 1 \in DOMAIN ev /\ ev[1] \in EvEvent
  BY <1>1, TailQ
<1>3. /\ ev[1].conn \in Conn /\ ev[1].kind \in {"Incoming", "Send"}
      /\ ev[1].kind = "Incoming" => ev[1].conn \in Incoming
      /\ ev[1].kind = "Send" => ev[1].n \in Nat
  BY <1>2, EventTypes
<1> QED
  BY <1>1, <1>2, <1>3 DEF HandlerTakes, StartReader

\* What HostTakes finds at the head of `app`, and what it does with it.
LEMMA HostTakesWhat ==
  ASSUME TypeOK, HostTakes
  PROVE  /\ app \in Seq(AppEvent) /\ app # <<>> /\ app' = Tail(app)
         /\ 1 \in DOMAIN app /\ app[1] \in AppEvent /\ app[1].conn \in Conn
         /\ app[1].kind \in {"Connect", "Disconnect", "Recv"}
         /\ app[1].kind = "Recv" =>
              /\ app[1].n \in Nat
              /\ received' = [received EXCEPT ![app[1].conn] = Append(@, app[1].n)]
              /\ UNCHANGED ended
         /\ app[1].kind # "Recv" => UNCHANGED <<received, todo>>
         /\ app[1].kind = "Disconnect" => ended' = ended \cup {app[1].conn}
         /\ app[1].kind = "Connect" => UNCHANGED ended
         /\ UNCHANGED <<ev, remotes, manager, readers, sent>>
<1>1. app \in Seq(AppEvent) /\ app # <<>> /\ app' = Tail(app)
  BY DEF HostTakes, TypeOK
<1>2. Head(app) = app[1] /\ 1 \in DOMAIN app /\ app[1] \in AppEvent
  BY <1>1, TailQ
<1>3. /\ app[1].conn \in Conn /\ app[1].kind \in {"Connect", "Disconnect", "Recv"}
      /\ app[1].kind = "Recv" => app[1].n \in Nat
  BY <1>2, EventTypes
<1> QED
  BY <1>1, <1>2, <1>3 DEF HostTakes

-----------------------------------------------------------------------------
(* Who is replied to. *)

\* A reader, once started, is never forgotten.
LEMMA ReachableStays ==
  ASSUME TypeOK, [Next]_vars
  PROVE  \A c \in Conn : Reachable(c) => ReachableNext(c)
<1> SUFFICES ASSUME NEW c \in Conn, reader[c] # "none" PROVE reader'[c] # "none"
  BY DEF Reachable, ReachableNext
<1>1. CASE HandlerTakes
  <2>1. reader' = reader \/ reader' = [reader EXCEPT ![ev[1].conn] = "reading"]
    BY <1>1, HandlerTakesWhat
  <2> QED
    BY <2>1 DEF TypeOK
<1>2. CASE HandlerDials
  BY <1>2 DEF HandlerDials, StartReader, TypeOK
<1>3. ASSUME NEW d \in Conn, ReaderDisconnects(d) \/ ReaderFails(d) PROVE reader'[c] # "none"
  BY <1>3 DEF ReaderDisconnects, ReaderFails, TypeOK
<1> QED
  BY <1>1, <1>2, <1>3, ReaderSteps

\* Every step keeps WriterKept.
LEMMA WriterKeptStep ==
  ASSUME TypeOK, WriterKept, [Next]_vars
  PROVE  WriterKept'
<1> SUFFICES ASSUME NEW c \in Incoming, reader'[c] # "none"
             PROVE  \/ c \in writers' \/ handler' = [doing |-> "connect", conn |-> c]
                    \/ handler' = Failed
  BY DEF WriterKept
<1>0. c \in Conn /\ c \notin Listening
  BY Disjoint
<1>1. CASE HandlerTakes
  <2>1. CASE reader[c] # "none"
    BY <1>1, <2>1, HandlerTakesWhat DEF WriterKept, Idle, Failed
  <2>2. CASE reader[c] = "none"
    <3>1. ev[1].kind = "Incoming" /\ reader' = [reader EXCEPT ![ev[1].conn] = "reading"]
      BY <1>1, <2>2, HandlerTakesWhat
    <3>2. ev[1].conn = c
      BY <1>0, <2>2, <3>1 DEF TypeOK
    <3> QED
      BY <1>1, <3>1, <3>2, HandlerTakesWhat
  <2> QED
    BY <2>1, <2>2
<1>2. CASE ~HandlerTakes
  <2>1. reader[c] # "none"
    <3>1. CASE HandlerDials
      BY <1>0, <3>1 DEF HandlerDials, StartReader, TypeOK
    <3>2. ASSUME NEW d \in Conn, ReaderDisconnects(d) \/ ReaderFails(d) PROVE reader[c] # "none"
      BY <3>2, <1>0 DEF ReaderDisconnects, ReaderFails, TypeOK
    <3> QED
      BY <1>2, <3>1, <3>2, ReaderSteps
  <2>2. c \in writers \/ handler = [doing |-> "connect", conn |-> c] \/ handler = Failed
    BY <2>1 DEF WriterKept
  <2>3. CASE HandlerConnects
    BY <2>2, <2>3 DEF HandlerConnects, Failed
  <2>4. CASE HandlerWrites
    BY <2>2, <2>4 DEF HandlerWrites, Failed
  <2> QED
    BY <1>2, <2>2, <2>3, <2>4, HandlerSteps, WritersSteps
<1> QED
  BY <1>1, <1>2

\* Every step keeps AppReachable.
LEMMA AppReachableStep ==
  ASSUME TypeOK, AppReachable, [Next]_vars
  PROVE  AppReachable'
<1> SUFFICES ASSUME NEW i \in DOMAIN app', app'[i].kind = "Recv" PROVE ReachableNext(app'[i].conn)
  BY DEF AppReachable, Reachable, ReachableNext
<1>0. app \in Seq(AppEvent)
  BY DEF TypeOK
<1>1. ASSUME NEW j \in DOMAIN app, app'[i] = app[j] PROVE ReachableNext(app'[i].conn)
  <2>1. app[j].conn \in Conn
    BY <1>0, EventTypes
  <2> QED
    BY <1>1, <2>1, ReachableStays DEF AppReachable
<1>2. ASSUME NEW e \in AppEvent, app' = Append(app, e) 
      PROVE  app'[i] = e \/ (i \in DOMAIN app /\ app'[i] = app[i])
  BY <1>0, <1>2, AppendQ
<1>3. CASE HandlerConnects
  <2> DEFINE e == [kind |-> "Connect", conn |-> handler.conn]
  <2>1. e \in AppEvent /\ app' = Append(app, e) /\ e.kind # "Recv"
    BY <1>3, HandlerTypes, EventTypes DEF HandlerConnects, PutApp
  <2> HIDE DEF e
  <2> QED
    BY <1>1, <1>2, <2>1
<1>4. ASSUME NEW c \in Conn, ReaderPushes(c) \/ ReaderDisconnects(c) PROVE ReachableNext(app'[i].conn)
  <2> DEFINE r == Recv_(c, pushed[c] + 1)
             d == Disconnect_(c)
  <2>0. pushed[c] + 1 \in Nat
    BY DEF TypeOK
  <2>1. r \in AppEvent /\ d \in AppEvent /\ r.conn = c /\ d.conn = c
    BY <2>0, EventTypes DEF Recv_, Disconnect_
  <2>2. app' = Append(app, r) \/ app' = Append(app, d)
    BY <1>4 DEF ReaderPushes, ReaderDisconnects, PutApp, Recv_, Disconnect_
  <2>3. Reachable(c)
    BY <1>4 DEF ReaderPushes, ReaderDisconnects, Reachable
  <2> HIDE DEF r, d
  <2> QED
    BY <1>1, <1>2, <2>1, <2>2, <2>3, ReachableStays
<1>5. CASE HostTakes
  <2>1. app # <<>> /\ app' = Tail(app)
    BY <1>5, HostTakesWhat
  <2>2. i + 1 \in DOMAIN app /\ app'[i] = app[i + 1]
    BY <1>0, <2>1, TailQ
  <2> QED
    BY <1>1, <2>2
<1> QED
  BY <1>1, <1>3, <1>4, <1>5, AppSteps

\* Every step keeps ReceivedReachable.
LEMMA ReceivedReachableStep ==
  ASSUME TypeOK, AppReachable, ReceivedReachable, [Next]_vars
  PROVE  ReceivedReachable'
<1> SUFFICES ASSUME NEW c \in Conn, received'[c] # <<>> PROVE ReachableNext(c)
  BY DEF ReceivedReachable, Reachable, ReachableNext
<1>1. CASE received[c] # <<>>
  BY <1>1, ReachableStays DEF ReceivedReachable
<1>2. CASE received[c] = <<>>
  <2>1. HostTakes
    BY <1>2, HostSteps
  <2>2. app[1].kind = "Recv" /\ app[1].conn = c
    BY <1>2, <2>1, HostTakesWhat DEF TypeOK
  <2> QED
    BY <2>1, <2>2, HostTakesWhat, ReachableStays DEF AppReachable
<1> QED
  BY <1>1, <1>2

\* Every step keeps TodoReachable.
LEMMA TodoReachableStep ==
  ASSUME TypeOK, AppReachable, ReceivedReachable, TodoReachable, [Next]_vars
  PROVE  TodoReachable'
<1>0. todo \in Seq(Conn)
  BY DEF TypeOK
<1>1. ASSUME NEW i \in DOMAIN todo PROVE ReachableNext(todo[i])
  BY <1>0, ReachableStays DEF TodoReachable, Reachable, ReachableNext
<1>2. CASE HostTakes
  <2>1. CASE todo' = todo
    BY <1>1, <2>1 DEF TodoReachable, Reachable, ReachableNext
  <2>2. CASE todo' # todo
    <3>1. app[1].kind = "Recv" /\ app[1].conn \in Conn /\ 1 \in DOMAIN app /\ Head(app) = app[1]
      BY <1>2, <2>2, HostTakesWhat, TailQ
    <3>2. PICK r \in 0..MaxReplies : todo' \in [1..r -> Known(app[1].conn)]
      BY <1>2, <2>2, <3>1 DEF HostTakes
    <3>3. \A c \in Known(app[1].conn) : c \in Conn /\ Reachable(c)
      BY <3>1, Disjoint DEF Known, AppReachable, ReceivedReachable, Reachable
    <3> QED
      BY <3>2, <3>3, ReachableStays DEF TodoReachable, Reachable, ReachableNext
  <2> QED
    BY <2>1, <2>2
<1>3. CASE HostSends
  BY <1>0, <1>1, <1>3, TailQ DEF HostSends, TodoReachable, Reachable, ReachableNext
<1>4. ASSUME NEW c \in Listening, HostDials(c) PROVE TodoReachable'
  BY <1>4 DEF HostDials, TodoReachable, Reachable
<1>5. CASE todo' = todo
  BY <1>1, <1>5 DEF TodoReachable, Reachable, ReachableNext
<1> QED
  BY <1>2, <1>3, <1>4, <1>5, HostSteps

\* Every step keeps EvReachable.
LEMMA EvReachableStep ==
  ASSUME TypeOK, TodoReachable, EvReachable, [Next]_vars
  PROVE  EvReachable'
<1> SUFFICES ASSUME NEW i \in DOMAIN ev', ev'[i].kind = "Send" PROVE ReachableNext(ev'[i].conn)
  BY DEF EvReachable, Reachable, ReachableNext
<1>0. ev \in Seq(EvEvent)
  BY DEF TypeOK
<1>1. ASSUME NEW j \in DOMAIN ev, ev'[i] = ev[j] PROVE ReachableNext(ev'[i].conn)
  <2>1. ev[j].conn \in Conn
    BY <1>0, EventTypes
  <2> QED
    BY <1>1, <2>1, ReachableStays DEF EvReachable
<1>2. ASSUME NEW e \in EvEvent, ev' = Append(ev, e) 
      PROVE  ev'[i] = e \/ (i \in DOMAIN ev /\ ev'[i] = ev[i])
  BY <1>0, <1>2, AppendQ
<1>3. CASE Announce
  <2> DEFINE e == Incoming_(binder)
  <2>1. e \in EvEvent /\ ev' = Append(ev, e) /\ e.kind # "Send"
    BY <1>3, EventTypes DEF Announce, Incoming_
  <2> HIDE DEF e
  <2> QED
    BY <1>1, <1>2, <2>1
<1>4. CASE HandlerTakes
  BY <1>1, <1>4, HandlerTakesWhat, TailQ
<1>5. CASE HostSends
  <2> DEFINE e == Send_(Head(todo), sent[Head(todo)] + 1)
  <2>1. e \in EvEvent /\ ev' = Append(ev, e) /\ e.conn = Head(todo) /\ Head(todo) \in Conn
    BY <1>5, NextSend
  <2>2. Reachable(Head(todo))
    <3>1. todo \in Seq(Conn) /\ todo # <<>>
      BY <1>5 DEF HostSends, TypeOK
    <3>2. Head(todo) = todo[1] /\ 1 \in DOMAIN todo
      BY <3>1, TailQ
    <3> QED
      BY <3>2 DEF TodoReachable
  <2> HIDE DEF e
  <2> QED
    BY <1>1, <1>2, <2>1, <2>2, ReachableStays
<1> QED
  BY <1>1, <1>3, <1>4, <1>5, EvSteps

\* The handler takes up a reply only when the writer of its connection is kept.
LEMMA RepliesUseConnectionStep ==
  ASSUME TypeOK, Replies, [Next]_vars
  PROVE  RepliesUseConnection'
<1> SUFFICES ASSUME handler'.doing = "send", handler'.conn \in Incoming
             PROVE  handler'.conn \in writers'
  BY DEF RepliesUseConnection
<1>1. CASE HandlerTakes
  <2>1. ev[1].kind = "Send" /\ handler'.conn = ev[1].conn
    BY <1>1, HandlerTakesWhat
  <2>2. reader[ev[1].conn] # "none"
    BY <1>1, <2>1, HandlerTakesWhat, Disjoint DEF Replies, EvReachable, Reachable
  <2> QED
    BY <1>1, <2>1, <2>2, HandlerTakesWhat DEF Replies, WriterKept, Idle, Failed
<1>2. CASE handler' = handler
  BY <1>2, WritersSteps DEF Replies, RepliesUseConnection
<1> QED
  BY <1>1, <1>2, HandlerSteps DEF Idle, Failed

\* Every step keeps Replies.
LEMMA RepliesStep ==
  ASSUME TypeOK, Replies, [Next]_vars
  PROVE  Replies'
BY WriterKeptStep, AppReachableStep, ReceivedReachableStep, TodoReachableStep, EvReachableStep,
   RepliesUseConnectionStep DEF Replies

-----------------------------------------------------------------------------
(* Messages to remote peers. *)

\* The steps that write to a connection or send to one.
LEMMA WireSteps ==
  [Next]_vars => (wire' = wire \/ HandlerWrites) /\ (sent' = sent \/ HostSends)
BY DEF vars, remotes, manager, readers, hosting, Next, Handler, Host, Reader, Remote,
  Accept, AcceptFails, Announce, HandlerTakes, HandlerConnects, HandlerDials,
  HandlerWrites, HandlerFails, ReaderPolls, ReaderPushes, ReaderDisconnects, ReaderFails, HostTakes, HostSends,
  HostDials, HostEnds, RemoteWrites, RemoteReads, RemoteCloses

\* What HandlerWrites does to the connection of the message.
LEMMA WritesWhat ==
  ASSUME TypeOK, HandlerWrites
  PROVE  /\ handler.conn \in Conn /\ handler.n \in Nat
         /\ handler = [doing |-> "send", conn |-> handler.conn, n |-> handler.n]
         /\ handler.doing = "send" /\ handler' = Idle
         /\ wire'[handler.conn] = Append(wire[handler.conn], handler.n)
         /\ Len(wire'[handler.conn]) = Len(wire[handler.conn]) + 1
         /\ \A k \in 1..Len(wire[handler.conn]) : wire'[handler.conn][k] = wire[handler.conn][k]
         /\ wire'[handler.conn][Len(wire[handler.conn]) + 1] = handler.n
         /\ \A c \in Conn : c # handler.conn => wire'[c] = wire[c]
         /\ UNCHANGED <<ev, sent>>
<1>1. /\ handler.conn \in Conn /\ handler.n \in Nat
      /\ handler = [doing |-> "send", conn |-> handler.conn, n |-> handler.n]
      /\ handler.doing = "send" /\ handler' = Idle /\ UNCHANGED <<ev, sent>>
  BY HandlerTypes DEF HandlerWrites, hosting
<1> DEFINE h == handler.conn
           n == handler.n
<1>2. /\ h \in Conn /\ n \in Nat /\ wire \in [Conn -> Seq(Nat)]
      /\ wire' = [wire EXCEPT ![h] = Append(@, n)]
  BY <1>1 DEF HandlerWrites, TypeOK
<1> HIDE DEF h, n
<1>3. wire'[h] = Append(wire[h], n) /\ wire[h] \in Seq(Nat)
  BY <1>2
<1>4. \A c \in Conn : c # h => wire'[c] = wire[c]
  BY <1>2
<1>5. /\ Len(wire'[h]) = Len(wire[h]) + 1
      /\ \A k \in 1..Len(wire[h]) : wire'[h][k] = wire[h][k]
      /\ wire'[h][Len(wire[h]) + 1] = n
  BY <1>2, <1>3, AppendQ
<1> QED
  BY <1>1, <1>3, <1>4, <1>5 DEF h, n

\* What HostSends does to the count of the address.
LEMMA SendsWhat ==
  ASSUME TypeOK, HostSends
  PROVE  /\ sent'[Head(todo)] = sent[Head(todo)] + 1 /\ sent[Head(todo)] \in Nat
         /\ \A c \in Conn : c # Head(todo) => sent'[c] = sent[c]
         /\ UNCHANGED <<handler, wire>>
<1> DEFINE h == Head(todo)
<1>1. h \in Conn /\ sent' = [sent EXCEPT ![h] = @ + 1] /\ sent \in [Conn -> Nat]
  BY NextSend DEF TypeOK
<1>2. UNCHANGED <<handler, wire>>
  BY DEF HostSends, manager
<1> HIDE DEF h
<1>3. sent'[h] = sent[h] + 1 /\ sent[h] \in Nat /\ \A c \in Conn : c # h => sent'[c] = sent[c]
  BY <1>1
<1> QED
  BY <1>2, <1>3 DEF h

\* The numbers of the messages on a connection and to an address.
LEMMA SentNat ==
  TypeOK => \A c \in Conn : sent[c] \in Nat /\ wire[c] \in Seq(Nat) /\ Len(wire[c]) \in Nat
BY DEF TypeOK

\* Every step keeps WireInOrder.
LEMMA WireInOrderStep ==
  ASSUME TypeOK, WireInOrder, HandlerNext, [Next]_vars
  PROVE  WireInOrder'
<1> SUFFICES ASSUME NEW c \in Conn
             PROVE  /\ Len(wire'[c]) <= sent'[c]
                    /\ \A k \in 1..Len(wire'[c]) : wire'[c][k] = k
  BY DEF WireInOrder
<1>0. /\ sent[c] \in Nat /\ Len(wire[c]) \in Nat
      /\ Len(wire[c]) <= sent[c] /\ \A k \in 1..Len(wire[c]) : wire[c][k] = k
  BY SentNat DEF WireInOrder
<1>1. CASE HandlerWrites
  <2>1. CASE c = handler.conn
    <3>1. handler.n = Len(wire[c]) + 1 /\ handler.n <= sent[c]
      BY <1>1, <2>1, WritesWhat DEF HandlerNext
    <3>2. Len(wire'[c]) = Len(wire[c]) + 1 /\ sent'[c] = sent[c]
      BY <1>1, <2>1, WritesWhat
    <3>3. wire'[c][Len(wire[c]) + 1] = handler.n /\ \A k \in 1..Len(wire[c]) : wire'[c][k] = wire[c][k]
      BY <1>1, <2>1, WritesWhat
    <3> QED
      BY <1>0, <3>1, <3>2, <3>3
  <2>2. CASE c # handler.conn
    <3>1. wire'[c] = wire[c] /\ sent'[c] = sent[c]
      BY <1>1, <2>2, WritesWhat
    <3> QED
      BY <1>0, <3>1
  <2> QED
    BY <2>1, <2>2
<1>2. CASE HostSends
  <2>1. wire'[c] = wire[c] /\ (sent'[c] = sent[c] \/ sent'[c] = sent[c] + 1)
    BY <1>2, SendsWhat
  <2> QED
    BY <1>0, <2>1
<1>3. CASE wire' = wire /\ sent' = sent
  BY <1>0, <1>3
<1> QED
  BY <1>1, <1>2, <1>3, WireSteps, WritesWhat, SendsWhat

\* Every step keeps NoneDropped.
LEMMA NoneDroppedStep ==
  ASSUME TypeOK, NoneDropped, HandlerNext, [Next]_vars
  PROVE  NoneDropped'
<1> SUFFICES ASSUME handler' # Failed, NEW c \in Conn, NEW k \in Len(wire'[c]) + 1..sent'[c]
             PROVE  \/ handler' = [doing |-> "send", conn |-> c, n |-> k]
                    \/ \E i \in DOMAIN ev' : ev'[i] = Send_(c, k)
  BY DEF NoneDropped, Send_
<1>0. sent[c] \in Nat /\ Len(wire[c]) \in Nat /\ ev \in Seq(EvEvent)
  BY SentNat DEF TypeOK
<1>1. handler # Failed
  BY HandlerSteps DEF HandlerTakes, HandlerConnects, HandlerWrites, Failed, Idle
<1>2. ASSUME k \in Len(wire[c]) + 1..sent[c]
      PROVE  \/ handler = [doing |-> "send", conn |-> c, n |-> k]
             \/ \E i \in DOMAIN ev : ev[i] = Send_(c, k)
  BY <1>1, <1>2 DEF NoneDropped
<1>3. CASE HandlerTakes
  <2>1. wire' = wire /\ sent' = sent /\ handler = Idle /\ ev # <<>> /\ ev' = Tail(ev)
    BY <1>3, HandlerTakesWhat DEF hosting
  <2>2. PICK i \in DOMAIN ev : ev[i] = Send_(c, k)
    BY <1>2, <2>1 DEF Idle
  <2>3. CASE i = 1
    <3>1. ev[1].kind = "Send" /\ ev[1].conn = c /\ ev[1].n = k
      BY <2>2, <2>3 DEF Send_
    <3> QED
      BY <1>3, <3>1, HandlerTakesWhat
  <2>4. CASE i # 1
    <3>1. i - 1 \in DOMAIN ev' /\ ev'[i - 1] = ev[i]
      BY <1>0, <2>1, <2>4, TailQ
    <3> QED
      BY <2>2, <3>1
  <2> QED
    BY <2>3, <2>4
<1>4. CASE HandlerWrites
  <2>1. CASE c = handler.conn
    <3>1. handler.n = Len(wire[c]) + 1
      BY <1>4, <2>1, WritesWhat DEF HandlerNext
    <3>2. Len(wire'[c]) = Len(wire[c]) + 1 /\ sent' = sent /\ ev' = ev
      BY <1>4, <2>1, WritesWhat
    <3>3. k \in Len(wire[c]) + 1..sent[c] /\ k # handler.n
      BY <1>0, <3>1, <3>2
    <3> QED
      BY <1>2, <3>2, <3>3
  <2>2. CASE c # handler.conn
    <3>1. wire'[c] = wire[c] /\ sent' = sent /\ ev' = ev
      BY <1>4, <2>2, WritesWhat
    <3> QED
      BY <1>2, <2>2, <3>1
  <2> QED
    BY <2>1, <2>2
<1>5. CASE HostSends
  <2> DEFINE e == Send_(Head(todo), sent[Head(todo)] + 1)
  <2>1. e \in EvEvent /\ ev' = Append(ev, e)
    BY <1>5, NextSend
  <2>2. /\ handler' = handler /\ wire' = wire
        /\ c # Head(todo) => sent'[c] = sent[c]
        /\ c = Head(todo) => sent'[c] = sent[c] + 1
    BY <1>5, SendsWhat
  <2>3. CASE k \in Len(wire[c]) + 1..sent[c]
    <3> HIDE DEF e
    <3>1. ASSUME NEW i \in DOMAIN ev PROVE i \in DOMAIN ev' /\ ev'[i] = ev[i]
      BY <1>0, <2>1, AppendQ
    <3> QED
      BY <1>2, <2>2, <2>3, <3>1
  <2>4. CASE k \notin Len(wire[c]) + 1..sent[c]
    <3>1. c = Head(todo) /\ k = sent[c] + 1
      BY <1>0, <2>2, <2>4
    <3>2. e = Send_(c, k)
      BY <3>1
    <3> HIDE DEF e
    <3>3. Len(ev) + 1 \in DOMAIN ev' /\ ev'[Len(ev) + 1] = e
      BY <1>0, <2>1, AppendQ
    <3> QED
      BY <3>2, <3>3
  <2> QED
    BY <2>3, <2>4
<1>6. CASE Announce
  <2>1. /\ Incoming_(binder) \in EvEvent /\ ev' = Append(ev, Incoming_(binder))
        /\ handler' = handler /\ wire' = wire /\ sent' = sent
    BY <1>6, EventTypes DEF Announce, Incoming_, hosting
  <2>2. ASSUME NEW i \in DOMAIN ev PROVE i \in DOMAIN ev' /\ ev'[i] = ev[i]
    BY <1>0, <2>1, AppendQ
  <2> QED
    BY <1>2, <2>1, <2>2
<1>7. CASE HandlerConnects
  <2>1. wire' = wire /\ sent' = sent /\ ev' = ev /\ handler.doing = "connect"
    BY <1>7 DEF HandlerConnects, hosting
  <2> QED
    BY <1>2, <2>1
<1>8. CASE handler' = handler /\ wire' = wire /\ sent' = sent /\ ev' = ev
  BY <1>2, <1>8
<1> QED
  BY <1>3, <1>4, <1>5, <1>6, <1>7, <1>8, EvSteps, HandlerSteps, WireSteps

\* Every step keeps SendsInOrder.
LEMMA SendsInOrderStep ==
  ASSUME TypeOK, WireInOrder, SendsInOrder, HandlerNext, [Next]_vars
  PROVE  SendsInOrder'
<1>0. /\ ev \in Seq(EvEvent)
      /\ \A i \in DOMAIN ev : ev[i] \in EvEvent /\ ev[i].conn \in Conn
      /\ \A i \in DOMAIN ev : ev[i].kind = "Send" => ev[i].n \in Nat
  BY EventTypes DEF TypeOK
<1>1. CASE HandlerTakes
  <2>1. wire' = wire /\ sent' = sent /\ ev # <<>> /\ ev' = Tail(ev)
    BY <1>1, HandlerTakesWhat DEF hosting
  <2>2. \A i \in DOMAIN ev' : i \in Nat /\ i + 1 \in DOMAIN ev /\ ev'[i] = ev[i + 1]
    BY <1>0, <2>1, TailQ
  <2>3. SUFFICES ASSUME NEW i \in DOMAIN ev', ev'[i].kind = "Send"
        PROVE  /\ Len(wire[ev'[i].conn]) < ev'[i].n /\ ev'[i].n <= sent[ev'[i].conn]
               /\ \A j \in DOMAIN ev' :
                    i < j /\ ev'[j].kind = "Send" /\ ev'[j].conn = ev'[i].conn => ev'[i].n < ev'[j].n
    BY <2>1 DEF SendsInOrder
  <2>4. ASSUME NEW j \in DOMAIN ev', i < j PROVE i + 1 < j + 1
    BY <2>2, <2>4
  <2> QED
    BY <2>2, <2>3, <2>4 DEF SendsInOrder
<1>2. CASE HandlerWrites
  <2>1. sent' = sent /\ ev' = ev
    BY <1>2, WritesWhat
  <2>2. ASSUME NEW i \in DOMAIN ev, ev[i].kind = "Send" PROVE Len(wire'[ev[i].conn]) < ev[i].n
    <3>1. CASE ev[i].conn = handler.conn
      <4>1. Len(wire'[ev[i].conn]) = handler.n /\ handler.n < ev[i].n
        BY <1>2, <2>2, <3>1, WritesWhat DEF HandlerNext
      <4> QED
        BY <4>1
    <3>2. CASE ev[i].conn # handler.conn
      <4>1. wire'[ev[i].conn] = wire[ev[i].conn]
        BY <1>0, <1>2, <3>2, WritesWhat
      <4> QED
        BY <2>2, <4>1 DEF SendsInOrder
    <3> QED
      BY <3>1, <3>2
  <2> QED
    BY <2>1, <2>2 DEF SendsInOrder
<1>3. CASE HostSends
  <2> DEFINE e == Send_(Head(todo), sent[Head(todo)] + 1)
  <2>1. /\ e \in EvEvent /\ ev' = Append(ev, e)
        /\ e.kind = "Send" /\ e.conn = Head(todo) /\ e.n = sent[Head(todo)] + 1
        /\ e.conn \in Conn
    BY <1>3, NextSend
  <2>2. wire' = wire /\ \A c \in Conn : sent[c] <= sent'[c] /\ sent[c] \in Nat /\ sent'[c] \in Nat
    <3>1. \A c \in Conn : sent'[c] = sent[c] \/ sent'[c] = sent[c] + 1
      BY <1>3, SendsWhat
    <3> QED
      BY <1>3, <3>1, SendsWhat, SentNat
  <2>3. sent'[e.conn] = e.n
    BY <1>3, <2>1, SendsWhat
  <2>5. sent[e.conn] < e.n
    BY <2>1, <2>2
  <2> HIDE DEF e
  <2>4. /\ DOMAIN ev' = DOMAIN ev \cup {Len(ev) + 1} /\ ev'[Len(ev) + 1] = e
        /\ \A i \in DOMAIN ev : ev'[i] = ev[i] /\ i <= Len(ev) /\ i \in Nat
        /\ Len(ev) \in Nat
    BY <1>0, <2>1, AppendQ
  <2>6. ASSUME NEW i \in DOMAIN ev', ev'[i].kind = "Send"
        PROVE  Len(wire'[ev'[i].conn]) < ev'[i].n /\ ev'[i].n <= sent'[ev'[i].conn]
    <3>1. CASE i \in DOMAIN ev
      <4>1. Len(wire[ev[i].conn]) < ev[i].n /\ ev[i].n <= sent[ev[i].conn]
        BY <2>4, <2>6, <3>1 DEF SendsInOrder
      <4>2. ev[i].n \in Nat /\ ev[i].conn \in Conn /\ ev'[i] = ev[i]
        BY <1>0, <2>4, <2>6, <3>1
      <4>3. ev[i].n <= sent'[ev[i].conn]
        BY <2>2, <4>1, <4>2
      <4> QED
        BY <2>2, <4>1, <4>2, <4>3
    <3>2. CASE i = Len(ev) + 1
      <4>1. Len(wire[e.conn]) <= sent[e.conn]
        BY <2>1 DEF WireInOrder
      <4> QED
        BY <2>1, <2>2, <2>3, <2>4, <2>5, <3>2, <4>1, SentNat
    <3> QED
      BY <2>4, <3>1, <3>2
  <2>7. ASSUME NEW i \in DOMAIN ev', ev'[i].kind = "Send", NEW j \in DOMAIN ev', i < j,
               ev'[j].kind = "Send", ev'[j].conn = ev'[i].conn
        PROVE  ev'[i].n < ev'[j].n
    <3>1. i \in DOMAIN ev /\ ev'[i] = ev[i] /\ ev[i].n \in Nat /\ ev[i].conn \in Conn
      BY <1>0, <2>4, <2>7
    <3>2. CASE j \in DOMAIN ev
      BY <2>4, <2>7, <3>1, <3>2 DEF SendsInOrder
    <3>3. CASE j = Len(ev) + 1
      <4>1. ev[i].n <= sent[e.conn] /\ ev'[j] = e
        BY <2>4, <2>7, <3>1, <3>3 DEF SendsInOrder
      <4> QED
        BY <2>1, <2>2, <2>5, <3>1, <4>1
    <3> QED
      BY <2>4, <3>2, <3>3
  <2> QED
    BY <2>6, <2>7 DEF SendsInOrder
<1>4. CASE Announce
  <2> DEFINE e == Incoming_(binder)
  <2>1. e \in EvEvent /\ ev' = Append(ev, e) /\ e.kind # "Send" /\ wire' = wire /\ sent' = sent
    BY <1>4, EventTypes DEF Announce, Incoming_, hosting
  <2> HIDE DEF e
  <2>2. \A i \in DOMAIN ev' : ev'[i].kind = "Send" => i \in DOMAIN ev /\ ev'[i] = ev[i]
    BY <1>0, <2>1, AppendQ
  <2> QED
    BY <2>1, <2>2 DEF SendsInOrder
<1>5. CASE wire' = wire /\ sent' = sent /\ ev' = ev
  BY <1>5 DEF SendsInOrder
<1> QED
  BY <1>1, <1>2, <1>3, <1>4, <1>5, EvSteps, WireSteps

\* Every step keeps HandlerNext: the message the handler takes off `ev` is the
\* next one for its address.
LEMMA HandlerNextStep ==
  ASSUME TypeOK, EvInOrder, [Next]_vars
  PROVE  HandlerNext'
<1> USE DEF EvInOrder
<1>0. /\ ev \in Seq(EvEvent)
      /\ \A i \in DOMAIN ev : ev[i] \in EvEvent /\ ev[i].conn \in Conn
      /\ \A i \in DOMAIN ev : ev[i].kind = "Send" => ev[i].n \in Nat
  BY EventTypes DEF TypeOK
<1>1. CASE HandlerTakes
  <2> SUFFICES ASSUME handler'.doing = "send"
               PROVE  /\ handler'.n = Len(wire[handler'.conn]) + 1
                      /\ handler'.n <= sent[handler'.conn]
                      /\ \A i \in DOMAIN ev' :
                           ev'[i].kind = "Send" /\ ev'[i].conn = handler'.conn =>
                             handler'.n < ev'[i].n
    BY <1>1, HandlerTakesWhat DEF HandlerNext, hosting
  <2>1. handler = Idle /\ ev # <<>> /\ ev' = Tail(ev) /\ 1 \in DOMAIN ev
    BY <1>1, HandlerTakesWhat
  <2>2. ev[1].kind = "Send" /\ handler'.conn = ev[1].conn /\ handler'.n = ev[1].n
    BY <1>1, HandlerTakesWhat
  <2> DEFINE c == ev[1].conn
             n == ev[1].n
             k == Len(wire[c]) + 1
  <2>3. c \in Conn /\ n \in Nat /\ Len(wire[c]) < n /\ n <= sent[c]
    BY <1>0, <2>1, <2>2 DEF SendsInOrder
  <2>4. \A j \in DOMAIN ev : 1 < j /\ ev[j].kind = "Send" /\ ev[j].conn = c => n < ev[j].n
    BY <2>1, <2>2 DEF SendsInOrder
  <2> HIDE DEF c, n
  <2>5. Len(wire[c]) \in Nat /\ sent[c] \in Nat
    BY <2>3, SentNat
  <2>6. n = k
    <3>1. k \in Len(wire[c]) + 1..sent[c]
      BY <2>3, <2>5
    <3> HIDE DEF k
    <3>2. PICK i \in DOMAIN ev : ev[i] = Send_(c, k)
      BY <2>1, <2>3, <3>1 DEF NoneDropped, Idle, Failed
    <3>3. ev[i].kind = "Send" /\ ev[i].conn = c /\ ev[i].n = k
      BY <3>2 DEF Send_
    <3>4. i = 1 \/ 1 < i
      BY <1>0
    <3>5. CASE i = 1
      BY <3>3, <3>5 DEF n
    <3>6. CASE 1 < i
      <4>1. n < k
        BY <2>4, <3>3, <3>6
      <4> QED
        BY <2>3, <2>5, <4>1 DEF k
    <3> QED
      BY <3>4, <3>5, <3>6
  <2>7. ASSUME NEW i \in DOMAIN ev', ev'[i].kind = "Send", ev'[i].conn = c PROVE n < ev'[i].n
    <3>1. i + 1 \in DOMAIN ev /\ ev'[i] = ev[i + 1] /\ 1 < i + 1
      <4>1. i + 1 \in DOMAIN ev /\ ev'[i] = ev[i + 1] /\ DOMAIN ev' = 1..Len(ev) - 1 /\ Len(ev) \in Nat
        BY <1>0, <2>1, TailQ
      <4> QED
        BY <4>1
    <3> QED
      BY <2>4, <2>7, <3>1
  <2> QED
    BY <2>2, <2>3, <2>6, <2>7 DEF c, n
<1>2. CASE HostSends
  <2> DEFINE e == Send_(Head(todo), sent[Head(todo)] + 1)
  <2>1. /\ e \in EvEvent /\ ev' = Append(ev, e)
        /\ e.kind = "Send" /\ e.conn = Head(todo) /\ e.n = sent[Head(todo)] + 1
        /\ e.conn \in Conn
    BY <1>2, NextSend
  <2>2. /\ wire' = wire /\ handler' = handler
        /\ \A c \in Conn : sent'[c] = sent[c] \/ sent'[c] = sent[c] + 1
    BY <1>2, SendsWhat
  <2> HIDE DEF e
  <2> SUFFICES ASSUME handler.doing = "send"
               PROVE  /\ handler.n = Len(wire[handler.conn]) + 1
                      /\ handler.n <= sent'[handler.conn]
                      /\ \A i \in DOMAIN ev' :
                           ev'[i].kind = "Send" /\ ev'[i].conn = handler.conn =>
                             handler.n < ev'[i].n
    BY <2>2 DEF HandlerNext
  <2>3. /\ handler.conn \in Conn /\ handler.n \in Nat
        /\ handler.n = Len(wire[handler.conn]) + 1 /\ handler.n <= sent[handler.conn]
    BY HandlerTypes DEF HandlerNext
  <2>4. handler.n <= sent'[handler.conn] /\ sent[handler.conn] \in Nat
    BY <2>2, <2>3, SentNat
  <2>5. ASSUME NEW i \in DOMAIN ev', ev'[i].kind = "Send", ev'[i].conn = handler.conn
        PROVE  handler.n < ev'[i].n
    <3>1. ev'[i] = e \/ (i \in DOMAIN ev /\ ev'[i] = ev[i])
      BY <1>0, <2>1, AppendQ
    <3>2. CASE ev'[i] = e
      BY <2>1, <2>3, <2>4, <2>5, <3>2
    <3>3. CASE i \in DOMAIN ev /\ ev'[i] = ev[i]
      BY <2>5, <3>3 DEF HandlerNext
    <3> QED
      BY <3>1, <3>2, <3>3
  <2> QED
    BY <2>3, <2>4, <2>5
<1>3. CASE Announce
  <2> DEFINE e == Incoming_(binder)
  <2>1. /\ e \in EvEvent /\ ev' = Append(ev, e) /\ e.kind # "Send"
        /\ UNCHANGED <<wire, sent, handler>>
    BY <1>3, EventTypes DEF Announce, Incoming_, hosting
  <2> HIDE DEF e
  <2>2. \A i \in DOMAIN ev' : ev'[i].kind = "Send" => i \in DOMAIN ev /\ ev'[i] = ev[i]
    BY <1>0, <2>1, AppendQ
  <2> QED
    BY <2>1, <2>2 DEF HandlerNext
<1>4. CASE UNCHANGED <<handler, wire, sent, ev>>
  BY <1>4 DEF HandlerNext
<1>5. CASE handler' = Idle \/ handler' = Failed
  BY <1>5 DEF HandlerNext, Idle, Failed
<1>6. HandlerWrites => handler' = Idle
  BY DEF HandlerWrites
<1> QED
  BY <1>1, <1>2, <1>3, <1>4, <1>5, <1>6, EvSteps, WireSteps, HandlerSteps

\* Every step keeps EvInOrder.
LEMMA EvInOrderStep ==
  ASSUME TypeOK, EvInOrder, [Next]_vars
  PROVE  EvInOrder'
BY WireInOrderStep, NoneDroppedStep, SendsInOrderStep, HandlerNextStep DEF EvInOrder

-----------------------------------------------------------------------------
(* Messages from remote peers. *)

\* The steps that count messages from remote peers.
LEMMA CountSteps ==
  [Next]_vars =>
    /\ pushed' = pushed \/ \E c \in Conn : ReaderPushes(c)
    /\ polled' = polled \/ \E c \in Conn : ReaderPolls(c)
    /\ wrote' = wrote \/ \E c \in Conn : RemoteWrites(c)
    /\ closed' = closed \/ \E c \in Conn : RemoteCloses(c)
BY DEF vars, remotes, manager, readers, hosting, Next, Handler, Host, Reader, Remote,
  Accept, AcceptFails, Announce, HandlerTakes, HandlerConnects, HandlerDials, HandlerWrites,
  HandlerFails, ReaderPolls, ReaderPushes, ReaderDisconnects, ReaderFails, HostTakes, HostSends,
  HostDials, HostEnds, RemoteWrites, RemoteReads, RemoteCloses

\* The counts are numbers.
LEMMA CountNat ==
  TypeOK =>
    /\ app \in Seq(AppEvent)
    /\ \A c \in Conn :
         /\ pushed[c] \in Nat /\ polled[c] \in Nat /\ wrote[c] \in Nat
         /\ received[c] \in Seq(Nat) /\ Len(received[c]) \in Nat
BY DEF TypeOK

\* What is on `app`.
LEMMA AppTypes ==
  TypeOK =>
    \A i \in DOMAIN app :
      /\ i \in Nat /\ (i = 1 \/ 1 < i)
      /\ app[i] \in AppEvent /\ app[i].conn \in Conn
      /\ app[i].kind = "Recv" => app[i].n \in Nat
<1> SUFFICES ASSUME TypeOK, NEW i \in DOMAIN app
             PROVE  /\ i \in Nat /\ (i = 1 \/ 1 < i)
                    /\ app[i] \in AppEvent /\ app[i].conn \in Conn
                    /\ app[i].kind = "Recv" => app[i].n \in Nat
  OBVIOUS
<1>1. app \in Seq(AppEvent)
  BY DEF TypeOK
<1>2. i \in Nat /\ (i = 1 \/ 1 < i) /\ app[i] \in AppEvent
  BY <1>1
<1> QED
  BY <1>2, EventTypes

\* What HostTakes does to the connection of a message.
LEMMA ReceivesWhat ==
  ASSUME TypeOK, HostTakes, app[1].kind = "Recv"
  PROVE  /\ app[1].conn \in Conn /\ app[1].n \in Nat
         /\ received'[app[1].conn] = Append(received[app[1].conn], app[1].n)
         /\ Len(received'[app[1].conn]) = Len(received[app[1].conn]) + 1
         /\ \A k \in 1..Len(received[app[1].conn]) :
              received'[app[1].conn][k] = received[app[1].conn][k]
         /\ received'[app[1].conn][Len(received[app[1].conn]) + 1] = app[1].n
         /\ \A c \in Conn : c # app[1].conn => received'[c] = received[c]
<1> DEFINE h == app[1].conn
           n == app[1].n
<1>1. /\ h \in Conn /\ n \in Nat /\ received \in [Conn -> Seq(Nat)]
      /\ received' = [received EXCEPT ![h] = Append(@, n)]
  BY HostTakesWhat DEF TypeOK
<1> HIDE DEF h, n
<1>2. received'[h] = Append(received[h], n) /\ received[h] \in Seq(Nat)
  BY <1>1
<1>3. \A c \in Conn : c # h => received'[c] = received[c]
  BY <1>1
<1>4. /\ Len(received'[h]) = Len(received[h]) + 1
      /\ \A k \in 1..Len(received[h]) : received'[h][k] = received[h][k]
      /\ received'[h][Len(received[h]) + 1] = n
  BY <1>1, <1>2, AppendQ
<1> QED
  BY <1>1, <1>2, <1>3, <1>4 DEF h, n

\* What ReaderPushes puts on `app`.
LEMMA PushesWhat ==
  ASSUME TypeOK, NEW c \in Conn, ReaderPushes(c)
  PROVE  LET e == Recv_(c, pushed[c] + 1)
         IN /\ pushed[c] < polled[c] /\ reader[c] = "reading" /\ pushed'[c] = pushed[c] + 1
            /\ \A d \in Conn : d # c => pushed'[d] = pushed[d]
            /\ e \in AppEvent /\ app' = Append(app, e)
            /\ e.kind = "Recv" /\ e.conn = c /\ e.n = pushed[c] + 1
            /\ UNCHANGED <<remotes, manager, reader, polled, hosting>>
<1>1. pushed[c] + 1 \in Nat /\ pushed'[c] = pushed[c] + 1 /\ \A d \in Conn : d # c => pushed'[d] = pushed[d]
  BY DEF ReaderPushes, TypeOK
<1> QED
  BY <1>1, EventTypes DEF ReaderPushes, PutApp, Recv_

\* An event that is no message: Connect or Disconnect.
LEMMA OtherPutWhat ==
  ASSUME TypeOK, NEW c \in Conn, HandlerConnects \/ ReaderDisconnects(c)
  PROVE  \E e \in AppEvent :
           /\ app' = Append(app, e) /\ e.kind # "Recv"
           /\ HandlerConnects => e.kind = "Connect"
           /\ ReaderDisconnects(c) => e.kind = "Disconnect" /\ e.conn = c
           /\ UNCHANGED <<remotes, polled, pushed, hosting>>
<1>1. CASE HandlerConnects /\ ~ReaderDisconnects(c)
  <2>1. handler.conn \in Conn
    BY <1>1, HandlerTypes DEF HandlerConnects
  <2> QED
    BY <1>1, <2>1, EventTypes DEF HandlerConnects, PutApp, readers
<1>2. CASE ReaderDisconnects(c)
  <2>1. ~HandlerConnects
    BY <1>2 DEF ReaderDisconnects, HandlerConnects, manager, Idle
  <2> QED
    BY <1>2, <2>1, EventTypes DEF ReaderDisconnects, PutApp
<1> QED
  BY <1>1, <1>2

\* A message that is at the head of `app` is the next one from its connection.
LEMMA NextReceived ==
  ASSUME TypeOK, AppInOrder, 1 \in DOMAIN app, app[1].kind = "Recv"
  PROVE  app[1].n = Len(received[app[1].conn]) + 1 /\ app[1].n <= pushed[app[1].conn]
<1> DEFINE c == app[1].conn
           n == app[1].n
           k == Len(received[c]) + 1
<1>1. c \in Conn /\ n \in Nat /\ Len(received[c]) < n /\ n <= pushed[c]
  BY AppTypes DEF AppInOrder, RecvsInOrder
<1>2. \A j \in DOMAIN app : 1 < j /\ app[j].kind = "Recv" /\ app[j].conn = c => n < app[j].n
  BY DEF AppInOrder, RecvsInOrder
<1> HIDE DEF c, n
<1>3. Len(received[c]) \in Nat /\ pushed[c] \in Nat
  BY <1>1, CountNat
<1>4. k \in Len(received[c]) + 1..pushed[c]
  BY <1>1, <1>3
<1>5. k \in Nat /\ (n = k \/ k < n)
  BY <1>1, <1>3
<1> HIDE DEF k
<1>6. PICK i \in DOMAIN app : app[i] = Recv_(c, k)
  BY <1>1, <1>4 DEF AppInOrder, NoneLost
<1>7. app[i].kind = "Recv" /\ app[i].conn = c /\ app[i].n = k
  BY <1>6 DEF Recv_
<1>8. i = 1 \/ 1 < i
  BY AppTypes
<1>9. CASE i = 1
  BY <1>1, <1>7, <1>9 DEF n, k, c
<1>10. CASE 1 < i
  <2>1. n < k
    BY <1>2, <1>7, <1>10
  <2>2. n = k
    BY <1>1, <1>5, <2>1
  <2> QED
    BY <1>1, <2>2 DEF n, k, c
<1> QED
  BY <1>8, <1>9, <1>10

\* Every step keeps ReceivedInOrder.
LEMMA ReceivedInOrderStep ==
  ASSUME TypeOK, AppInOrder, [Next]_vars
  PROVE  ReceivedInOrder'
<1> SUFFICES ASSUME NEW c \in Conn
             PROVE  /\ pushed'[c] <= polled'[c] /\ polled'[c] <= wrote'[c]
                    /\ Len(received'[c]) <= pushed'[c]
                    /\ \A k \in 1..Len(received'[c]) : received'[c][k] = k
  BY DEF ReceivedInOrder
<1>0. /\ pushed[c] \in Nat /\ polled[c] \in Nat /\ wrote[c] \in Nat /\ Len(received[c]) \in Nat
      /\ pushed[c] <= polled[c] /\ polled[c] <= wrote[c] /\ Len(received[c]) <= pushed[c]
      /\ \A k \in 1..Len(received[c]) : received[c][k] = k
  BY CountNat DEF AppInOrder, ReceivedInOrder
<1>1. CASE HostTakes
  <2>1. UNCHANGED <<pushed, polled, wrote>>
    BY <1>1, HostTakesWhat DEF remotes, readers
  <2>2. CASE app[1].kind = "Recv" /\ app[1].conn = c
    <3>1. app[1].n = Len(received[c]) + 1 /\ app[1].n <= pushed[c]
      BY <1>1, <2>2, HostTakesWhat, NextReceived
    <3>2. /\ Len(received'[c]) = Len(received[c]) + 1
          /\ \A k \in 1..Len(received[c]) : received'[c][k] = received[c][k]
          /\ received'[c][Len(received[c]) + 1] = app[1].n
      BY <1>1, <2>2, ReceivesWhat
    <3> QED
      BY <1>0, <2>1, <3>1, <3>2
  <2>3. CASE ~(app[1].kind = "Recv" /\ app[1].conn = c)
    <3>1. received'[c] = received[c]
      BY <1>1, <2>3, HostTakesWhat, ReceivesWhat
    <3> QED
      BY <1>0, <2>1, <3>1
  <2> QED
    BY <2>2, <2>3
<1>2. ASSUME NEW d \in Conn, ReaderPushes(d)
      PROVE  /\ UNCHANGED <<polled, wrote, received>>
             /\ pushed'[c] = pushed[c] \/ (pushed'[c] = pushed[c] + 1 /\ pushed[c] < polled[c])
  <2>1. UNCHANGED <<polled, wrote, received>>
    BY <1>2, PushesWhat DEF remotes, hosting
  <2>2. pushed'[c] = pushed[c] \/ (pushed'[c] = pushed[c] + 1 /\ pushed[c] < polled[c])
    BY <1>2, PushesWhat
  <2> QED
    BY <2>1, <2>2
<1>3. ASSUME NEW d \in Conn, ReaderPolls(d)
      PROVE  /\ UNCHANGED <<pushed, wrote, received>>
             /\ polled'[c] = polled[c] \/ polled'[c] \in polled[c] + 1..wrote[c]
  BY <1>3 DEF ReaderPolls, remotes, hosting, TypeOK
<1>4. ASSUME NEW d \in Conn, RemoteWrites(d)
      PROVE  /\ UNCHANGED <<pushed, polled, received>>
             /\ wrote'[c] = wrote[c] \/ wrote'[c] = wrote[c] + 1
  BY <1>4 DEF RemoteWrites, readers, hosting, TypeOK
<1>5. ASSUME NEW d \in Conn, ReaderPushes(d) \/ ReaderPolls(d) \/ RemoteWrites(d)
      PROVE  /\ pushed'[c] <= polled'[c] /\ polled'[c] <= wrote'[c]
             /\ Len(received'[c]) <= pushed'[c]
             /\ \A k \in 1..Len(received'[c]) : received'[c][k] = k
  <2>1. CASE ReaderPushes(d)
    BY <1>0, <1>2, <2>1
  <2>2. CASE ReaderPolls(d)
    BY <1>0, <1>3, <2>2
  <2>3. CASE RemoteWrites(d)
    BY <1>0, <1>4, <2>3
  <2> QED
    BY <1>5, <2>1, <2>2, <2>3
<1>6. CASE UNCHANGED <<pushed, polled, wrote, received>>
  BY <1>0, <1>6
<1> QED
  BY <1>1, <1>5, <1>6, CountSteps, HostSteps

\* Every step keeps NoneLost.
LEMMA NoneLostStep ==
  ASSUME TypeOK, AppInOrder, [Next]_vars
  PROVE  NoneLost'
<1> SUFFICES ASSUME NEW c \in Conn, NEW k \in Len(received'[c]) + 1..pushed'[c]
             PROVE  \E i \in DOMAIN app' : app'[i] = Recv_(c, k)
  BY DEF NoneLost, Recv_
<1>0. pushed[c] \in Nat /\ Len(received[c]) \in Nat /\ app \in Seq(AppEvent)
  BY CountNat
<1>1. ASSUME k \in Len(received[c]) + 1..pushed[c]
      PROVE  \E i \in DOMAIN app : app[i] = Recv_(c, k)
  BY <1>1 DEF AppInOrder, NoneLost
<1>2. ASSUME NEW e \in AppEvent, app' = Append(app, e)
      PROVE  /\ \A i \in DOMAIN app : i \in DOMAIN app' /\ app'[i] = app[i]
             /\ \E i \in DOMAIN app' : app'[i] = e
  <2>1. Len(app) + 1 \in DOMAIN app' /\ app'[Len(app) + 1] = e
    BY <1>0, <1>2, AppendQ
  <2>2. \A i \in DOMAIN app : i \in DOMAIN app' /\ app'[i] = app[i]
    BY <1>0, <1>2, AppendQ
  <2> QED
    BY <2>1, <2>2
<1>3. CASE HostTakes
  <2>1. pushed' = pushed /\ app # <<>> /\ app' = Tail(app)
    BY <1>3, HostTakesWhat DEF readers
  <2>2. ASSUME NEW i \in DOMAIN app, i # 1 PROVE i - 1 \in DOMAIN app' /\ app'[i - 1] = app[i]
    BY <1>0, <2>1, <2>2, TailQ
  <2>3. CASE app[1].kind = "Recv" /\ app[1].conn = c
    <3>1. app[1].n = Len(received[c]) + 1
      BY <1>3, <2>3, HostTakesWhat, NextReceived
    <3>2. Len(received'[c]) = Len(received[c]) + 1
      BY <1>3, <2>3, ReceivesWhat
    <3>3. k \in Len(received[c]) + 1..pushed[c] /\ k # app[1].n
      BY <1>0, <2>1, <3>1, <3>2
    <3>4. PICK i \in DOMAIN app : app[i] = Recv_(c, k)
      BY <1>1, <3>3
    <3>5. i # 1
      BY <3>3, <3>4 DEF Recv_
    <3> QED
      BY <2>2, <3>4, <3>5
  <2>4. CASE ~(app[1].kind = "Recv" /\ app[1].conn = c)
    <3>1. received'[c] = received[c]
      BY <1>3, <2>4, HostTakesWhat, ReceivesWhat
    <3>2. PICK i \in DOMAIN app : app[i] = Recv_(c, k)
      BY <1>1, <2>1, <3>1
    <3>3. i # 1
      BY <2>4, <3>2 DEF Recv_
    <3> QED
      BY <2>2, <3>2, <3>3
  <2> QED
    BY <2>3, <2>4
<1>4. ASSUME NEW d \in Conn, ReaderPushes(d) PROVE \E i \in DOMAIN app' : app'[i] = Recv_(c, k)
  <2> DEFINE e == Recv_(d, pushed[d] + 1)
  <2>1. e \in AppEvent /\ app' = Append(app, e) /\ received' = received
    BY <1>4, PushesWhat DEF hosting
  <2>2. CASE k \in Len(received[c]) + 1..pushed[c]
    BY <1>1, <1>2, <2>1, <2>2
  <2>3. CASE k \notin Len(received[c]) + 1..pushed[c]
    <3>1. c = d
      BY <1>4, <2>1, <2>3, PushesWhat
    <3>2. pushed'[c] = pushed[c] + 1
      BY <1>4, <3>1, PushesWhat
    <3>3. k = pushed[c] + 1
      BY <1>0, <2>1, <2>3, <3>2
    <3> QED
      BY <1>2, <2>1, <3>1, <3>3
  <2> QED
    BY <2>2, <2>3
<1>5. ASSUME NEW d \in Conn, HandlerConnects \/ ReaderDisconnects(d)
      PROVE  \E i \in DOMAIN app' : app'[i] = Recv_(c, k)
  <2>1. UNCHANGED <<pushed, received>> /\ \E e \in AppEvent : app' = Append(app, e)
    BY <1>5, OtherPutWhat DEF hosting
  <2> QED
    BY <1>1, <1>2, <2>1
<1>6. CASE UNCHANGED <<app, pushed, received>>
  BY <1>1, <1>6
<1>7. CASE HandlerConnects
  BY <1>5, <1>7
<1> QED
  BY <1>3, <1>4, <1>5, <1>6, <1>7, AppSteps, CountSteps, HostSteps

\* Every step keeps RecvsInOrder.
LEMMA RecvsInOrderStep ==
  ASSUME TypeOK, AppInOrder, [Next]_vars
  PROVE  RecvsInOrder'
<1>0. /\ app \in Seq(AppEvent)
      /\ \A i \in DOMAIN app : app[i] \in AppEvent /\ app[i].conn \in Conn
      /\ \A i \in DOMAIN app : app[i].kind = "Recv" => app[i].n \in Nat
  BY CountNat, AppTypes
<1>1. CASE HostTakes
  <2>1. pushed' = pushed /\ app # <<>> /\ app' = Tail(app) /\ 1 \in DOMAIN app
    BY <1>1, HostTakesWhat DEF readers
  <2>2. \A i \in DOMAIN app' : i \in Nat /\ i + 1 \in DOMAIN app /\ app'[i] = app[i + 1]
    BY <1>0, <2>1, TailQ
  <2>3. \A i \in DOMAIN app' : 1 < i + 1
    BY <1>0, <2>1, TailQ
  <2>4. ASSUME NEW i \in DOMAIN app', app'[i].kind = "Recv"
        PROVE  Len(received'[app'[i].conn]) < app'[i].n /\ app'[i].n <= pushed'[app'[i].conn]
    <3> DEFINE c == app[i + 1].conn
               n == app[i + 1].n
    <3>1. c \in Conn /\ n \in Nat /\ app[i + 1].kind = "Recv" /\ i + 1 \in DOMAIN app
      BY <1>0, <2>2, <2>4
    <3>2. Len(received[c]) < n /\ n <= pushed[c]
      BY <3>1 DEF AppInOrder, RecvsInOrder
    <3>3. CASE app[1].kind = "Recv" /\ app[1].conn = c
      <4>1. app[1].n < n
        BY <2>1, <2>3, <3>1, <3>3 DEF AppInOrder, RecvsInOrder
      <4>2. Len(received'[c]) = app[1].n
        BY <1>1, <2>1, <3>3, NextReceived, ReceivesWhat
      <4> QED
        BY <2>1, <2>2, <3>2, <4>1, <4>2
    <3>4. CASE ~(app[1].kind = "Recv" /\ app[1].conn = c)
      <4>1. received'[c] = received[c]
        BY <1>1, <3>1, <3>4, HostTakesWhat, ReceivesWhat
      <4> QED
        BY <2>1, <2>2, <3>2, <4>1
    <3> QED
      BY <3>3, <3>4
  <2>5. ASSUME NEW i \in DOMAIN app', app'[i].kind = "Recv", NEW j \in DOMAIN app', i < j,
               app'[j].kind = "Recv", app'[j].conn = app'[i].conn
        PROVE  app'[i].n < app'[j].n
    <3>1. i + 1 < j + 1
      BY <2>2, <2>5
    <3> QED
      BY <2>2, <2>5, <3>1 DEF AppInOrder, RecvsInOrder
  <2> QED
    BY <2>4, <2>5 DEF RecvsInOrder
<1>2. ASSUME NEW c \in Conn, ReaderPushes(c) PROVE RecvsInOrder'
  <2> DEFINE e == Recv_(c, pushed[c] + 1)
  <2>1. /\ e \in AppEvent /\ app' = Append(app, e) /\ received' = received
        /\ e.kind = "Recv" /\ e.conn = c /\ e.n = pushed[c] + 1
    BY <1>2, PushesWhat DEF hosting
  <2>2. \A d \in Conn : pushed[d] \in Nat /\ (pushed'[d] = pushed[d] \/ pushed'[d] = pushed[d] + 1)
    BY <1>2, PushesWhat, CountNat
  <2>3. pushed'[c] = e.n /\ pushed[c] < e.n /\ Len(received[c]) < e.n /\ e.n \in Nat
    <3>1. pushed'[c] = pushed[c] + 1 /\ Len(received[c]) <= pushed[c]
      BY <1>2, PushesWhat DEF AppInOrder, ReceivedInOrder
    <3> QED
      BY <2>1, <2>2, <3>1, CountNat
  <2> HIDE DEF e
  <2>4. /\ DOMAIN app' = DOMAIN app \cup {Len(app) + 1} /\ app'[Len(app) + 1] = e
        /\ \A i \in DOMAIN app : app'[i] = app[i] /\ i <= Len(app) /\ i \in Nat
        /\ Len(app) \in Nat
    BY <1>0, <2>1, AppendQ
  <2>5. ASSUME NEW i \in DOMAIN app', app'[i].kind = "Recv"
        PROVE  Len(received'[app'[i].conn]) < app'[i].n /\ app'[i].n <= pushed'[app'[i].conn]
    <3>1. CASE i \in DOMAIN app
      <4>1. Len(received[app[i].conn]) < app[i].n /\ app[i].n <= pushed[app[i].conn]
        BY <2>4, <2>5, <3>1 DEF AppInOrder, RecvsInOrder
      <4>2. app[i].n \in Nat /\ app[i].conn \in Conn /\ app'[i] = app[i]
        BY <1>0, <2>4, <2>5, <3>1
      <4>3. app[i].n <= pushed'[app[i].conn]
        BY <2>2, <4>1, <4>2
      <4> QED
        BY <2>1, <4>1, <4>2, <4>3
    <3>2. CASE i = Len(app) + 1
      BY <2>1, <2>3, <2>4, <3>2
    <3> QED
      BY <2>4, <3>1, <3>2
  <2>6. ASSUME NEW i \in DOMAIN app', app'[i].kind = "Recv", NEW j \in DOMAIN app', i < j,
               app'[j].kind = "Recv", app'[j].conn = app'[i].conn
        PROVE  app'[i].n < app'[j].n
    <3>1. i \in DOMAIN app /\ app'[i] = app[i] /\ app[i].n \in Nat /\ app[i].conn \in Conn
      BY <1>0, <2>4, <2>6
    <3>2. CASE j \in DOMAIN app
      BY <2>4, <2>6, <3>1, <3>2 DEF AppInOrder, RecvsInOrder
    <3>3. CASE j = Len(app) + 1
      <4>1. app[i].n <= pushed[c] /\ app'[j] = e
        BY <2>1, <2>4, <2>6, <3>1, <3>3 DEF AppInOrder, RecvsInOrder
      <4> QED
        BY <2>2, <2>3, <3>1, <4>1
    <3> QED
      BY <2>4, <3>2, <3>3
  <2> QED
    BY <2>5, <2>6 DEF RecvsInOrder
<1>3. ASSUME NEW c \in Conn, HandlerConnects \/ ReaderDisconnects(c) PROVE RecvsInOrder'
  <2>1. PICK e \in AppEvent : app' = Append(app, e) /\ e.kind # "Recv" /\ UNCHANGED <<pushed, received>>
    BY <1>3, OtherPutWhat DEF hosting
  <2>2. \A i \in DOMAIN app' : app'[i].kind = "Recv" => i \in DOMAIN app /\ app'[i] = app[i]
    BY <1>0, <2>1, AppendQ
  <2> QED
    BY <2>1, <2>2 DEF AppInOrder, RecvsInOrder
<1>4. CASE UNCHANGED <<app, pushed, received>>
  BY <1>4 DEF AppInOrder, RecvsInOrder
<1>5. CASE HandlerConnects
  <2>1. handler.conn \in Conn
    BY <1>5, HandlerTypes DEF HandlerConnects
  <2> QED
    BY <1>3, <1>5, <2>1
<1> QED
  BY <1>1, <1>2, <1>3, <1>4, <1>5, AppSteps, CountSteps, HostSteps

\* Every step keeps AppInOrder.
LEMMA AppInOrderStep ==
  ASSUME TypeOK, AppInOrder, [Next]_vars
  PROVE  AppInOrder'
BY ReceivedInOrderStep, NoneLostStep, RecvsInOrderStep DEF AppInOrder

-----------------------------------------------------------------------------
(* The end of a connection. *)

\* Nothing is read, written or pushed on a connection that was read to its end.
LEMMA CompleteStays ==
  ASSUME TypeOK, Arrivals, [Next]_vars, NEW c \in Conn, Complete(c)
  PROVE  c \in closed' /\ reader'[c] = "ended" /\ pushed'[c] = pushed[c] /\ wrote'[c] = wrote[c]
<1>0. c \in closed /\ reader[c] = "ended"
  BY DEF Complete
<1>1. c \in closed'
  BY <1>0, CountSteps DEF RemoteCloses
<1>2. wrote'[c] = wrote[c]
  <2>1. ASSUME NEW d \in Conn, RemoteWrites(d) PROVE wrote'[c] = wrote[c]
    BY <1>0, <2>1 DEF RemoteWrites, Open, TypeOK
  <2> QED
    BY <2>1, CountSteps
<1>3. pushed'[c] = pushed[c]
  <2>1. ASSUME NEW d \in Conn, ReaderPushes(d) PROVE pushed'[c] = pushed[c]
    <3>1. d # c
      BY <1>0, <2>1, PushesWhat
    <3> QED
      BY <2>1, <3>1, PushesWhat
  <2> QED
    BY <2>1, CountSteps
<1>4. reader'[c] = "ended"
  <2>1. CASE HandlerTakes
    <3>1. ev[1].kind = "Incoming" => reader[ev[1].conn] = "none"
      BY <2>1, HandlerTakesWhat DEF Arrivals
    <3>2. reader' = reader \/ (reader' = [reader EXCEPT ![ev[1].conn] = "reading"] /\ ev[1].conn # c)
      BY <1>0, <2>1, <3>1, HandlerTakesWhat
    <3> QED
      BY <1>0, <3>2 DEF TypeOK
  <2>2. CASE HandlerDials
    <3>1. handler.conn # c
      BY <1>0, <2>2, Disjoint DEF HandlerDials, Arrivals
    <3> QED
      BY <1>0, <2>2, <3>1 DEF HandlerDials, StartReader, TypeOK
  <2>3. ASSUME NEW d \in Conn, ReaderDisconnects(d) \/ ReaderFails(d) PROVE reader'[c] = "ended"
    BY <1>0, <2>3 DEF ReaderDisconnects, ReaderFails, TypeOK
  <2> QED
    BY <1>0, <2>1, <2>2, <2>3, ReaderSteps
<1> QED
  BY <1>1, <1>2, <1>3, <1>4

\* Every step keeps LastOnApp.
LEMMA LastOnAppStep ==
  ASSUME TypeOK, Arrivals, AppInOrder, LastOnApp, [Next]_vars
  PROVE  LastOnApp'
<1> DEFINE Done(c) ==
      c \in closed' /\ reader'[c] = "ended" /\ pushed'[c] = wrote'[c]
<1>0. app \in Seq(AppEvent) /\ \A i \in DOMAIN app : app[i] \in AppEvent /\ app[i].conn \in Conn
  BY CountNat, AppTypes
<1>1. ASSUME NEW c \in Conn, Complete(c) PROVE Done(c)
  BY <1>1, CompleteStays DEF Complete
<1> HIDE DEF Done
<1>2. SUFFICES ASSUME NEW i \in DOMAIN app', app'[i].kind = "Disconnect"
               PROVE  /\ Done(app'[i].conn)
                      /\ \A j \in DOMAIN app' :
                           app'[j].kind = "Recv" /\ app'[j].conn = app'[i].conn => j < i
  BY DEF LastOnApp, Complete, Done
<1>3. CASE HostTakes
  <2>1. app # <<>> /\ app' = Tail(app)
    BY <1>3, HostTakesWhat
  <2>2. \A j \in DOMAIN app' : j \in Nat /\ j + 1 \in DOMAIN app /\ app'[j] = app[j + 1]
    BY <1>0, <2>1, TailQ
  <2>3. Done(app'[i].conn)
    BY <1>0, <1>1, <1>2, <2>2 DEF LastOnApp
  <2>4. ASSUME NEW j \in DOMAIN app', app'[j].kind = "Recv", app'[j].conn = app'[i].conn
        PROVE  j < i
    <3>1. j + 1 < i + 1
      BY <1>2, <2>2, <2>4 DEF LastOnApp
    <3> QED
      BY <2>2, <3>1
  <2> QED
    BY <2>3, <2>4
<1>4. ASSUME NEW c \in Conn, ReaderPushes(c)
      PROVE  /\ Done(app'[i].conn)
             /\ \A j \in DOMAIN app' :
                  app'[j].kind = "Recv" /\ app'[j].conn = app'[i].conn => j < i
  <2> DEFINE e == Recv_(c, pushed[c] + 1)
  <2>1. /\ e \in AppEvent /\ app' = Append(app, e) /\ e.kind = "Recv" /\ e.conn = c
        /\ reader[c] = "reading"
    BY <1>4, PushesWhat
  <2> HIDE DEF e
  <2>2. i \in DOMAIN app /\ app'[i] = app[i]
    BY <1>0, <1>2, <2>1, AppendQ
  <2>3. Complete(app[i].conn) /\ app[i].conn \in Conn
    BY <1>0, <1>2, <2>2 DEF LastOnApp
  <2>4. app[i].conn # c
    BY <2>1, <2>3 DEF Complete
  <2>5. \A j \in DOMAIN app' : app'[j] = e \/ (j \in DOMAIN app /\ app'[j] = app[j])
    BY <1>0, <2>1, AppendQ
  <2> QED
    BY <1>1, <1>2, <2>1, <2>2, <2>3, <2>4, <2>5 DEF LastOnApp
<1>5. ASSUME NEW c \in Conn, HandlerConnects \/ ReaderDisconnects(c)
      PROVE  /\ Done(app'[i].conn)
             /\ \A j \in DOMAIN app' :
                  app'[j].kind = "Recv" /\ app'[j].conn = app'[i].conn => j < i
  <2>1. PICK e \in AppEvent :
          /\ app' = Append(app, e) /\ e.kind # "Recv"
          /\ HandlerConnects => e.kind = "Connect"
          /\ ReaderDisconnects(c) => e.kind = "Disconnect" /\ e.conn = c
          /\ UNCHANGED <<remotes, polled, pushed, hosting>>
    BY <1>5, OtherPutWhat
  <2>2. \A j \in DOMAIN app' : app'[j].kind = "Recv" => j \in DOMAIN app /\ app'[j] = app[j]
    BY <1>0, <2>1, AppendQ
  <2>3. CASE i \in DOMAIN app
    <3>1. app'[i] = app[i]
      BY <1>0, <2>1, <2>3, AppendQ
    <3> QED
      BY <1>0, <1>1, <1>2, <2>2, <2>3, <3>1 DEF LastOnApp
  <2>4. CASE i \notin DOMAIN app
    <3>1. i = Len(app) + 1 /\ app'[i] = e /\ DOMAIN app = 1..Len(app) /\ Len(app) \in Nat
      BY <1>0, <2>1, <2>4, AppendQ
    <3>2. ReaderDisconnects(c) /\ app'[i].conn = c
      BY <1>2, <1>5, <2>1, <3>1
    <3>3. Done(c)
      BY <2>1, <3>2 DEF ReaderDisconnects, remotes, Done, TypeOK
    <3> QED
      BY <2>2, <3>1, <3>2, <3>3
  <2> QED
    BY <2>3, <2>4
<1>6. CASE app' = app
  BY <1>0, <1>1, <1>2, <1>6 DEF LastOnApp
<1>7. CASE HandlerConnects
  <2>1. handler.conn \in Conn
    BY <1>7, HandlerTypes DEF HandlerConnects
  <2> QED
    BY <1>5, <1>7, <2>1
<1> QED
  BY <1>3, <1>4, <1>5, <1>6, <1>7, AppSteps

\* Every step keeps LastTaken.
LEMMA LastTakenStep ==
  ASSUME TypeOK, Arrivals, AppInOrder, DisconnectLast, [Next]_vars
  PROVE  LastTaken'
<1> USE DEF DisconnectLast
<1> SUFFICES ASSUME NEW c \in ended'
             PROVE  /\ c \in closed' /\ reader'[c] = "ended" /\ pushed'[c] = wrote'[c]
                    /\ Len(received'[c]) = wrote'[c]
  BY DEF LastTaken, Complete
<1>1. CASE c \in ended
  <2>1. c \in Conn /\ Complete(c) /\ Len(received[c]) = wrote[c] /\ pushed[c] = wrote[c]
    BY <1>1 DEF LastTaken, Complete, TypeOK
  <2>2. received'[c] = received[c]
    <3>1. CASE HostTakes /\ app[1].kind = "Recv"
      <4>1. 1 \in DOMAIN app /\ app[1].conn \in Conn
        BY <3>1, HostTakesWhat
      <4>2. app[1].n = Len(received[app[1].conn]) + 1 /\ app[1].n <= pushed[app[1].conn]
        BY <3>1, <4>1, NextReceived
      <4>3. app[1].conn # c
        BY <2>1, <4>2, CountNat
      <4> QED
        BY <2>1, <3>1, <4>3, ReceivesWhat
    <3>2. CASE HostTakes /\ app[1].kind # "Recv"
      BY <3>2, HostTakesWhat
    <3> QED
      BY <3>1, <3>2, HostSteps
  <2> QED
    BY <2>1, <2>2, CompleteStays
<1>2. CASE c \notin ended
  <2>1. HostTakes /\ 1 \in DOMAIN app
    BY <1>2, HostSteps, HostTakesWhat
  <2>2. app[1].kind = "Disconnect" /\ app[1].conn = c /\ c \in Conn
    BY <1>2, <2>1, HostTakesWhat
  <2>3. Complete(c) /\ pushed[c] = wrote[c]
    BY <2>1, <2>2 DEF LastOnApp, Complete
  <2>4. Len(received[c]) = pushed[c]
    <3>1. pushed[c] \in Nat /\ Len(received[c]) \in Nat /\ Len(received[c]) <= pushed[c]
      BY <2>2, CountNat DEF AppInOrder, ReceivedInOrder
    <3>2. SUFFICES ASSUME Len(received[c]) < pushed[c] PROVE FALSE
      BY <3>1
    <3>3. pushed[c] \in Len(received[c]) + 1..pushed[c]
      BY <3>1, <3>2
    <3>4. PICK i \in DOMAIN app : app[i] = Recv_(c, pushed[c])
      BY <2>2, <3>3 DEF AppInOrder, NoneLost
    <3>5. app[i].kind = "Recv" /\ app[i].conn = c
      BY <3>4 DEF Recv_
    <3>6. i < 1
      BY <2>1, <2>2, <3>5 DEF LastOnApp
    <3> QED
      BY <3>6, AppTypes
  <2>5. received'[c] = received[c]
    BY <2>1, <2>2, HostTakesWhat
  <2> QED
    BY <2>2, <2>3, <2>4, <2>5, CompleteStays
<1> QED
  BY <1>1, <1>2

\* Every step keeps DisconnectLast.
LEMMA DisconnectLastStep ==
  ASSUME TypeOK, Arrivals, AppInOrder, DisconnectLast, [Next]_vars
  PROVE  DisconnectLast'
BY LastOnAppStep, LastTakenStep DEF DisconnectLast

-----------------------------------------------------------------------------
(* The theorems. *)

\* The invariant holds at first: nothing has arrived or been sent.
LEMMA InitIInv == Init => IInv
<1> SUFFICES ASSUME Init PROVE IInv
  OBVIOUS
<1>0. /\ ev = <<>> /\ app = <<>> /\ todo = <<>> /\ arriving = Incoming /\ binder = "idle"
      /\ handler = Idle /\ writers = {} /\ closed = {} /\ ended = {} /\ host = "running"
      /\ reader = [c \in Conn |-> "none"]
      /\ DOMAIN ev = {} /\ DOMAIN app = {} /\ DOMAIN todo = {}
  BY DEF Init
<1>1. /\ \A c \in Conn : pushed[c] = 0 /\ polled[c] = 0 /\ wrote[c] = 0 /\ sent[c] = 0
      /\ \A c \in Conn : received[c] = <<>> /\ wire[c] = <<>> /\ reader[c] = "none"
      /\ Len(<<>>) = 0
  BY DEF Init
<1>2. TypeOK
  <2>1. Len(<<>>) <= EvCapacity /\ Len(<<>>) <= AppCapacity
    BY Capacities, CapacityAssumption
  <2>2. <<>> \in Seq(EvEvent) /\ <<>> \in Seq(AppEvent) /\ <<>> \in Seq(Conn) /\ <<>> \in Seq(Nat)
    OBVIOUS
  <2> QED
    BY <1>0, <2>1, <2>2 DEF TypeOK, Init, Doing
<1>3. Arrivals
  BY <1>0, <1>1, Disjoint DEF Arrivals
<1>4. Replies
  <2>1. RepliesUseConnection
    BY <1>0 DEF RepliesUseConnection, Idle
  <2> QED
    BY <1>0, <1>1, <2>1, Disjoint DEF Replies, WriterKept, AppReachable, ReceivedReachable,
       TodoReachable, EvReachable
<1>5. AppInOrder
  BY <1>0, <1>1 DEF AppInOrder, ReceivedInOrder, NoneLost, RecvsInOrder
<1>6. DisconnectLast
  BY <1>0 DEF DisconnectLast, LastOnApp, LastTaken
<1>7. EvInOrder
  <2>1. handler.doing # "send"
    BY <1>0 DEF Idle
  <2> QED
    BY <1>0, <1>1, <2>1 DEF EvInOrder, WireInOrder, NoneDropped, SendsInOrder, HandlerNext
<1> QED
  BY <1>2, <1>3, <1>4, <1>5, <1>6, <1>7 DEF IInv

\* Every step keeps the invariant.
LEMMA NextIInv == IInv /\ [Next]_vars => IInv'
BY TypeStep, ArrivalsStep, RepliesStep, AppInOrderStep, DisconnectLastStep, EvInOrderStep DEF IInv

\* The invariant always holds.
THEOREM Invariance == Spec => []IInv
BY InitIInv, NextIInv, PTL DEF Spec

\* Every variable always has its type; no channel is ever over its capacity.
THEOREM TypeCorrect == Spec => []TypeOK
<1>1. IInv => TypeOK
  BY DEF IInv
<1> QED
  BY <1>1, Invariance, PTL

\* A message for an address a connection came from always finds its writer:
\* event_handler never dials the address of an incoming connection.
THEOREM RepliesNeverDial == Spec => []RepliesUseConnection
<1>1. IInv => RepliesUseConnection
  BY DEF IInv, Replies
<1> QED
  BY <1>1, Invariance, PTL

\* When the host is told that a connection has ended it has got every message
\* that was written to it.
THEOREM NothingAfterDisconnect == Spec => []DisconnectComesLast
<1>1. IInv => DisconnectComesLast
  BY DEF IInv, DisconnectLast, LastTaken, DisconnectComesLast
<1> QED
  BY <1>1, Invariance, PTL

-----------------------------------------------------------------------------
(* The two directions of a connection are FIFO links. *)

\* The messages 1..m, with one more.
LEMMA OneMore ==
  ASSUME NEW m \in Nat, NEW s, s = [i \in 1..m |-> i], NEW t, t = [i \in 1..m + 1 |-> i]
  PROVE  /\ Len(s) = m /\ Len(t) = Len(s) + 1
         /\ SubSeq(t, 1, Len(s)) = s
OBVIOUS

\* What a step does to one direction of c: a message from the remote end is
\* written, the next one is handed to the host, the end is told, or nothing.
LEMMA ArriveStep ==
  ASSUME IInv, [Next]_vars, NEW c \in Conn
  PROVE  In(c)!Next \/ UNCHANGED In(c)!vars
<1>0. wrote[c] \in Nat /\ Len(received[c]) \in Nat /\ Len([i \in 1..wrote[c] |-> i]) = wrote[c]
  BY CountNat DEF IInv
<1>1. CASE HostTakes
  <2>1. wrote' = wrote /\ 1 \in DOMAIN app
    BY <1>1, HostTakesWhat DEF IInv, remotes
  <2>2. CASE app[1].kind = "Recv" /\ app[1].conn = c
    <3>1. app[1].n = Len(received[c]) + 1 /\ app[1].n <= pushed[c]
      BY <2>1, <2>2, NextReceived DEF IInv
    <3>2. pushed[c] \in Nat /\ polled[c] \in Nat /\ pushed[c] <= polled[c] /\ polled[c] <= wrote[c]
      BY CountNat DEF IInv, AppInOrder, ReceivedInOrder
    <3>3. Len(received[c]) + 1 \in 1..wrote[c]
      BY <1>0, <3>1, <3>2
    <3>4. received'[c] = Append(received[c], Len(received[c]) + 1) /\ UNCHANGED ended
      BY <1>1, <2>2, <3>1, ReceivesWhat, HostTakesWhat DEF IInv
    <3>5. c \notin ended
      BY <1>0, <3>3 DEF IInv, DisconnectLast, LastTaken
    <3>6. [i \in 1..wrote[c] |-> i][Len(received[c]) + 1] = Len(received[c]) + 1
      BY <3>3
    <3>7. Len(received[c]) < Len([i \in 1..wrote[c] |-> i])
      BY <1>0, <3>3
    <3>8. In(c)!Deliver
      BY <2>1, <3>4, <3>5, <3>6, <3>7 DEF In!Deliver
    <3> QED
      BY <3>8 DEF In!Next
  <2>3. CASE app[1].kind = "Disconnect" /\ app[1].conn = c
    <3>1. received' = received /\ ended' = ended \cup {c}
      BY <1>1, <2>3, HostTakesWhat DEF IInv
    <3>2. CASE c \in ended
      BY <2>1, <3>1, <3>2 DEF In!vars
    <3>3. CASE c \notin ended
      BY <2>1, <3>1, <3>3 DEF In!End, In!Next
    <3> QED
      BY <3>2, <3>3
  <2>4. CASE ~(app[1].kind \in {"Recv", "Disconnect"} /\ app[1].conn = c)
    <3>1. received'[c] = received[c] /\ (c \in ended' <=> c \in ended)
      BY <1>1, <2>4, HostTakesWhat, ReceivesWhat DEF IInv
    <3> QED
      BY <2>1, <3>1 DEF In!vars
  <2> QED
    BY <2>2, <2>3, <2>4
<1>2. CASE UNCHANGED <<received, ended>>
  <2>1. CASE wrote'[c] = wrote[c]
    BY <1>2, <2>1 DEF In!vars
  <2>2. CASE wrote'[c] # wrote[c]
    <3>1. PICK d \in Conn : RemoteWrites(d)
      BY <2>2, CountSteps
    <3>2. wrote'[c] = wrote[c] + 1
      BY <2>2, <3>1 DEF RemoteWrites, IInv, TypeOK
    <3> DEFINE s == [i \in 1..wrote[c] |-> i]
               t == [i \in 1..wrote'[c] |-> i]
    <3>3. Len(t) = Len(s) + 1 /\ SubSeq(t, 1, Len(s)) = s
      BY <1>0, <3>2, OneMore
    <3>4. In(c)!Write
      BY <1>2, <3>3 DEF In!Write
    <3> QED
      BY <3>4 DEF In!Next
  <2> QED
    BY <2>1, <2>2
<1> QED
  BY <1>1, <1>2, HostSteps

\* From a remote peer to the host every connection is a FIFO link, although
\* its messages share one channel with those of all others.
THEOREM ArrivalIsFifo == Spec => MessagesArriveInOrder
<1>1. ASSUME Init, NEW c \in Conn PROVE In(c)!Init
  BY <1>1 DEF Init, In!Init
<1>2. IInv /\ [Next]_vars => [\A c \in Conn : In(c)!Next \/ UNCHANGED In(c)!vars]_vars
  BY ArriveStep
<1>3. Init => \A c \in Conn : In(c)!Init
  BY <1>1
<1> QED
  BY <1>2, <1>3, Invariance, PTL DEF Spec, MessagesArriveInOrder

\* What a step does to the other direction: the host sends, the handler
\* writes the next message, or fails for good.
LEMMA LeaveStep ==
  ASSUME IInv, [Next]_vars, NEW c \in Conn
  PROVE  Out(c)!Next \/ UNCHANGED Out(c)!vars
<1>0. sent[c] \in Nat /\ Len(wire[c]) \in Nat /\ Len([i \in 1..sent[c] |-> i]) = sent[c]
  BY SentNat DEF IInv
<1>1. CASE HandlerWrites
  <2>1. sent' = sent /\ handler # Failed /\ handler' # Failed
    BY <1>1, WritesWhat DEF IInv, Failed, Idle
  <2>2. CASE handler.conn = c
    <3>1. handler.n = Len(wire[c]) + 1 /\ handler.n <= sent[c]
      BY <1>1, <2>2, WritesWhat DEF IInv, EvInOrder, HandlerNext
    <3>2. wire'[c] = Append(wire[c], Len(wire[c]) + 1)
      BY <1>1, <2>2, <3>1, WritesWhat DEF IInv
    <3>3. Len(wire[c]) + 1 \in 1..sent[c]
      BY <1>0, <3>1
    <3>4. /\ [i \in 1..sent[c] |-> i][Len(wire[c]) + 1] = Len(wire[c]) + 1
          /\ Len(wire[c]) < Len([i \in 1..sent[c] |-> i])
      BY <1>0, <3>3
    <3>5. Out(c)!Deliver
      BY <2>1, <3>2, <3>4 DEF Out!Deliver
    <3> QED
      BY <3>5 DEF Out!Next
  <2>3. CASE handler.conn # c
    <3>1. wire'[c] = wire[c]
      BY <1>1, <2>3, WritesWhat DEF IInv
    <3> QED
      BY <2>1, <3>1 DEF Out!vars
  <2> QED
    BY <2>2, <2>3
<1>2. CASE HostSends
  <2>1. UNCHANGED <<handler, wire>>
    BY <1>2, SendsWhat DEF IInv
  <2>2. CASE Head(todo) = c
    <3>1. sent'[c] = sent[c] + 1
      BY <1>2, <2>2, SendsWhat DEF IInv
    <3> DEFINE s == [i \in 1..sent[c] |-> i]
               t == [i \in 1..sent'[c] |-> i]
    <3>2. Len(t) = Len(s) + 1 /\ SubSeq(t, 1, Len(s)) = s
      BY <1>0, <3>1, OneMore
    <3>3. Out(c)!Write
      BY <2>1, <3>2 DEF Out!Write
    <3> QED
      BY <3>3 DEF Out!Next
  <2>3. CASE Head(todo) # c
    <3>1. sent'[c] = sent[c]
      BY <1>2, <2>3, SendsWhat DEF IInv
    <3> QED
      BY <2>1, <3>1 DEF Out!vars
  <2> QED
    BY <2>2, <2>3
<1>3. CASE HandlerFails
  <2>1. UNCHANGED <<sent, wire>> /\ handler' = Failed /\ handler # Failed
    BY <1>3 DEF HandlerFails, hosting, Failed, Idle
  <2> QED
    BY <2>1 DEF Out!End, Out!Next
<1>4. CASE UNCHANGED <<sent, wire>> /\ (handler = Failed <=> handler' = Failed)
  BY <1>4 DEF Out!vars
<1>5. CASE HandlerTakes \/ HandlerConnects
  <2>1. UNCHANGED <<sent, wire>> /\ handler # Failed /\ handler' # Failed
    BY <1>5 DEF HandlerTakes, HandlerConnects, hosting, Failed, Idle
  <2> QED
    BY <1>4, <2>1
<1> QED
  BY <1>1, <1>2, <1>3, <1>4, <1>5, HandlerSteps, WireSteps

\* From the host to a remote peer every connection is a FIFO link until the
\* handler fails, whichever side opened it.
THEOREM DepartureIsFifo == Spec => MessagesLeaveInOrder
<1>1. ASSUME Init, NEW c \in Conn PROVE Out(c)!Init
  BY <1>1 DEF Init, Out!Init, Idle, Failed
<1>2. IInv /\ [Next]_vars => [\A c \in Conn : Out(c)!Next \/ UNCHANGED Out(c)!vars]_vars
  BY LeaveStep
<1>3. Init => \A c \in Conn : Out(c)!Init
  BY <1>1
<1> QED
  BY <1>2, <1>3, Invariance, PTL DEF Spec, MessagesLeaveInOrder

-----------------------------------------------------------------------------
(* The circular wait. *)

\* No task's step ends a circular wait: the host's and the handler's wait for
\* each other, the others need room or leave both alone.
LEMMA CircularStep == CircularWait /\ [Next]_vars => CircularWait'
<1> SUFFICES ASSUME CircularWait, [Next]_vars PROVE CircularWait'
  OBVIOUS
<1> USE DEF CircularWait
<1>0. /\ handler # Idle /\ ~EvClosed /\ ~AppClosed
      /\ handler.doing # "send" /\ todo # <<>> /\ host = "running"
  BY DEF Idle, Failed, EvClosed, AppClosed
<1>1. ASSUME NEW c \in Incoming, Accept(c) PROVE CircularWait'
  BY <1>1 DEF Accept, HasRoom, hosting
<1>2. CASE AcceptFails
  BY <1>2 DEF AcceptFails, HasRoom, hosting
<1>3. CASE Announce
  BY <1>3 DEF Announce
<1>4. CASE Handler
  BY <1>0, <1>4 DEF Handler, HandlerTakes, HandlerConnects, HandlerDials, HandlerWrites, HandlerFails, PutApp
<1>5. ASSUME NEW c \in Listening, HostDials(c) PROVE CircularWait'
  BY <1>0, <1>5 DEF HostDials
<1>6. CASE Host
  BY <1>0, <1>6 DEF Host, HostTakes, HostSends, HostEnds
<1>7. ASSUME NEW c \in Conn, Reader(c) PROVE CircularWait'
  BY <1>7 DEF Reader, ReaderPolls, ReaderPushes, ReaderDisconnects, ReaderFails, PutApp, HasRoom, manager, hosting
<1>8. ASSUME NEW c \in Conn, Remote(c) PROVE CircularWait'
  BY <1>8 DEF Remote, RemoteWrites, RemoteReads, RemoteCloses, HasRoom, manager, hosting
<1>9. CASE UNCHANGED vars
  BY <1>9 DEF vars, HasRoom, manager, hosting
<1> QED
  BY <1>1, <1>2, <1>3, <1>4, <1>5, <1>6, <1>7, <1>8, <1>9 DEF Next

\* Once the host and the handler wait for each other they do so for ever,
\* whatever the capacities, and whatever remote peers and other tasks do.
THEOREM CircularWaitIsFinal == Spec => CircularWaitStays
BY CircularStep, PTL DEF Spec, CircularWaitStays
=============================================================================
