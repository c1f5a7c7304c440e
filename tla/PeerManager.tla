---------------------------- MODULE PeerManager ----------------------------
(***************************************************************************)
(* The PeerManager of src/tests/common/mod.rs and the host loop of         *)
(* src/tests/connect.rs around it.  Tasks talk over two bounded channels:  *)
(* `ev` takes the work for the manager (connections that were accepted,    *)
(* messages to send), `app` the events for the host.  One task accepts     *)
(* connections, one carries out the work, and every connection has a       *)
(* reader.  An address has at most one connection: the manager never dials *)
(* one it has a writer for, and no remote port is used twice.              *)
(* Messages are numbered, per connection and direction.                    *)
(***************************************************************************)
EXTENDS Naturals, Sequences, FiniteSets

CONSTANTS
  Incoming,      \* addresses remote peers connect from
  Listening,     \* addresses remote peers listen on
  EvCapacity, AppCapacity,   \* of the channels: 64 and 64 in the code
  SocketRoom,    \* messages a socket holds that its remote end has not read
  MaxReplies,    \* messages the host sends for one it receives
  MaxWritten,    \* bound: messages a remote peer writes on a connection
  MaxSent        \* bound: messages the host sends to an address

Conn == Incoming \cup Listening

ASSUME ConnAssumption ==
  /\ IsFiniteSet(Conn) /\ Incoming \cap Listening = {}
  /\ Conn \cap {"idle", "failed"} = {}
ASSUME CapacityAssumption == {EvCapacity, AppCapacity, SocketRoom} \subseteq Nat \ {0}
ASSUME BoundAssumption == {MaxReplies, MaxWritten, MaxSent} \subseteq Nat

VARIABLES
  ev, app,     \* the two channels
  arriving,    \* connections in the listener's backlog or still to come
  binder,      \* bind: the connection it announces, "idle" or "failed"
  handler,     \* event_handler: what it is doing, and for which connection
  writers,     \* HashMap<ConnectionInfo, WriteHalf>: its keys
  reader,      \* what each connection's reader is doing
  polled,      \* messages each reader has taken off its stream
  pushed,      \* messages each reader has put on `app`
  wrote,       \* messages the remote end of each connection has written
  closed,      \* connections whose remote end has gone
  wire,        \* messages written to each connection, in order
  taken,       \* how many of them the remote end has read
  todo,        \* addresses the host has yet to send a message to
  sent,        \* messages the host has sent to each address
  received,    \* messages the host has got from each connection, in order
  ended,       \* connections the host was told have ended
  host         \* the host loop runs, or has ended

remotes == <<arriving, wrote, closed, taken>>
manager == <<binder, handler, writers, wire>>
readers == <<reader, polled, pushed>>
hosting == <<todo, sent, received, ended, host>>
vars == <<ev, app, remotes, manager, readers, hosting>>

Idle == [doing |-> "recv"]
Failed == [doing |-> "failed"]

EvEvent == [kind : {"Incoming"}, conn : Incoming] \cup [kind : {"Send"}, conn : Conn, n : Nat]
AppEvent == [kind : {"Connect", "Disconnect"}, conn : Conn] \cup [kind : {"Recv"}, conn : Conn, n : Nat]
Doing ==
  {Idle, Failed} \cup [doing : {"connect"}, conn : Incoming]
    \cup [doing : {"send"}, conn : Conn, n : Nat]

TypeOK ==
  /\ ev \in Seq(EvEvent) /\ Len(ev) <= EvCapacity
  /\ app \in Seq(AppEvent) /\ Len(app) <= AppCapacity
  /\ arriving \subseteq Incoming
  /\ binder \in Incoming \cup {"idle", "failed"}
  /\ handler \in Doing
  /\ writers \subseteq Conn
  /\ reader \in [Conn -> {"none", "reading", "ended"}]
  /\ polled \in [Conn -> Nat] /\ pushed \in [Conn -> Nat]
  /\ wrote \in [Conn -> Nat] /\ closed \subseteq Conn
  /\ wire \in [Conn -> Seq(Nat)] /\ taken \in [Conn -> Nat]
  /\ todo \in Seq(Conn) /\ sent \in [Conn -> Nat]
  /\ received \in [Conn -> Seq(Nat)] /\ ended \subseteq Conn
  /\ host \in {"running", "ended"}

Init ==
  /\ ev = <<>> /\ app = <<>>
  /\ arriving = Incoming
  /\ binder = "idle" /\ handler = Idle /\ writers = {}
  /\ reader = [c \in Conn |-> "none"]
  /\ polled = [c \in Conn |-> 0] /\ pushed = [c \in Conn |-> 0]
  /\ wrote = [c \in Conn |-> 0] /\ closed = {}
  /\ wire = [c \in Conn |-> <<>>] /\ taken = [c \in Conn |-> 0]
  /\ todo = <<>> /\ sent = [c \in Conn |-> 0]
  /\ received = [c \in Conn |-> <<>>] /\ ended = {} /\ host = "running"

(***************************************************************************)
(* The channels.  A send waits for room and fails once nobody can receive; *)
(* the manager itself holds an end of each, until `start` returns.         *)
(* Operators named Faulty_ are slips of this code that some property       *)
(* excludes; no specification uses them.                                   *)
(***************************************************************************)
\* Slip: room for one too many.
Faulty_HasRoom(channel, capacity) == Len(channel) <= capacity

HasRoom(channel, capacity) == Len(channel) < capacity
EvClosed == binder = "failed" /\ handler = Failed
AppClosed == binder = "failed" /\ host = "ended"
AppDone == EvClosed /\ \A c \in Conn : reader[c] # "reading"

PutApp(e) ==
  /\ HasRoom(app, AppCapacity) /\ ~AppClosed
  /\ app' = Append(app, e)

-----------------------------------------------------------------------------
(* bind: accept connections, announce each on `ev`. *)

\* Slip: the accept task starts the reader itself.
Faulty_Accept(c) ==
  /\ binder = "idle"
  /\ c \in arriving
  /\ arriving' = arriving \ {c}
  /\ binder' = c
  /\ reader' = [reader EXCEPT ![c] = "reading"]
  /\ UNCHANGED <<ev, app, wrote, closed, taken, handler, writers, wire, polled, pushed, hosting>>

Accept(c) ==
  /\ binder = "idle"
  /\ c \in arriving
  /\ arriving' = arriving \ {c}
  /\ binder' = c
  /\ UNCHANGED <<ev, app, wrote, closed, taken, handler, writers, wire, readers, hosting>>

\* accept returns an error: bind and start return, and the task panics.
AcceptFails ==
  /\ binder = "idle"
  /\ binder' = "failed"
  /\ UNCHANGED <<ev, app, remotes, handler, writers, wire, readers, hosting>>

Announce ==
  /\ binder \in Incoming
  /\ HasRoom(ev, EvCapacity)
  /\ ev' = Append(ev, [kind |-> "Incoming", conn |-> binder])
  /\ binder' = "idle"
  /\ UNCHANGED <<app, remotes, handler, writers, wire, readers, hosting>>

-----------------------------------------------------------------------------
(* event_handler: one piece of work at a time, to its end. *)

StartReader(c) == reader' = [reader EXCEPT ![c] = "reading"]

HandlerTakes ==
  /\ handler = Idle
  /\ ev # <<>>
  /\ ev' = Tail(ev)
  /\ LET e == Head(ev) IN
       IF e.kind = "Incoming"
         THEN /\ handler' = [doing |-> "connect", conn |-> e.conn]
              /\ StartReader(e.conn)
         ELSE /\ handler' = [doing |-> "send", conn |-> e.conn, n |-> e.n]
              /\ UNCHANGED reader
  /\ UNCHANGED <<app, remotes, binder, writers, wire, polled, pushed, hosting>>

\* Slip: the host is told of the connection if there is room for it.
Faulty_HandlerConnects ==
  /\ handler.doing = "connect"
  /\ \/ PutApp([kind |-> "Connect", conn |-> handler.conn])
     \/ ~HasRoom(app, AppCapacity) /\ UNCHANGED app
  /\ writers' = writers \cup {handler.conn}
  /\ handler' = Idle
  /\ UNCHANGED <<ev, remotes, binder, wire, readers, hosting>>

\* The host is told of the connection, then the writer is kept.
HandlerConnects ==
  /\ handler.doing = "connect"
  /\ PutApp([kind |-> "Connect", conn |-> handler.conn])
  /\ writers' = writers \cup {handler.conn}
  /\ handler' = Idle
  /\ UNCHANGED <<ev, remotes, binder, wire, readers, hosting>>

HandlerDials ==
  /\ handler.doing = "send" /\ handler.conn \notin writers
  /\ handler.conn \in Listening
  /\ writers' = writers \cup {handler.conn}
  /\ StartReader(handler.conn)
  /\ UNCHANGED <<ev, app, remotes, binder, handler, wire, polled, pushed, hosting>>

\* Slip: the handler tells the host of every message it writes.
Faulty_HandlerWrites ==
  /\ handler.doing = "send" /\ handler.conn \in writers
  /\ \/ handler.conn \in closed
     \/ Len(wire[handler.conn]) - taken[handler.conn] < SocketRoom
  /\ PutApp([kind |-> "Connect", conn |-> handler.conn])
  /\ wire' = [wire EXCEPT ![handler.conn] = Append(@, handler.n)]
  /\ handler' = Idle
  /\ UNCHANGED <<ev, remotes, binder, writers, readers, hosting>>

HandlerWrites ==
  /\ handler.doing = "send" /\ handler.conn \in writers
  /\ \/ handler.conn \in closed     \* accepted by the socket all the same
     \/ Len(wire[handler.conn]) - taken[handler.conn] < SocketRoom
  /\ wire' = [wire EXCEPT ![handler.conn] = Append(@, handler.n)]
  /\ handler' = Idle
  /\ UNCHANGED <<ev, app, remotes, binder, writers, readers, hosting>>

\* Slip: the handler drops the message and carries on.
Faulty_HandlerFails ==
  /\ \/ handler.doing = "send" /\ handler.conn \notin writers \ closed
     \/ handler.doing = "connect" /\ AppClosed
  /\ handler' = Idle
  /\ UNCHANGED <<ev, app, remotes, binder, writers, wire, readers, hosting>>

\* Nobody answers the dial, the connection has gone, `app` is closed, or nobody
\* is left to send on `ev`: the handler returns the error, and nobody looks at it
\* (start waits for bind).
HandlerFails ==
  /\ \/ handler.doing = "send" /\ handler.conn \notin writers \ closed
     \/ handler.doing = "connect" /\ AppClosed
     \/ handler = Idle /\ ev = <<>> /\ binder = "failed" /\ host = "ended"
  /\ handler' = Failed
  /\ UNCHANGED <<ev, app, remotes, binder, writers, wire, readers, hosting>>

-----------------------------------------------------------------------------
(* The reader of a connection. *)

\* poll_frames gets some of what the remote end has written.
ReaderPolls(c) ==
  /\ reader[c] = "reading" /\ pushed[c] = polled[c]
  /\ \E n \in polled[c] + 1..wrote[c] : polled' = [polled EXCEPT ![c] = n]
  /\ UNCHANGED <<ev, app, remotes, manager, reader, pushed, hosting>>

\* Slip: the frames of a poll are taken from the end.
Faulty_ReaderPushes(c) ==
  /\ reader[c] = "reading" /\ pushed[c] < polled[c]
  /\ PutApp([kind |-> "Recv", conn |-> c, n |-> polled[c] - pushed[c]])
  /\ pushed' = [pushed EXCEPT ![c] = @ + 1]
  /\ UNCHANGED <<ev, remotes, manager, reader, polled, hosting>>

ReaderPushes(c) ==
  /\ reader[c] = "reading" /\ pushed[c] < polled[c]
  /\ PutApp([kind |-> "Recv", conn |-> c, n |-> pushed[c] + 1])
  /\ pushed' = [pushed EXCEPT ![c] = @ + 1]
  /\ UNCHANGED <<ev, remotes, manager, reader, polled, hosting>>

\* Slip: the end of the connection is told at once.
Faulty_ReaderDisconnects(c) ==
  /\ reader[c] = "reading" /\ pushed[c] = polled[c]
  /\ c \in closed
  /\ PutApp([kind |-> "Disconnect", conn |-> c])
  /\ reader' = [reader EXCEPT ![c] = "ended"]
  /\ UNCHANGED <<ev, remotes, manager, polled, pushed, hosting>>

\* The stream has been read to its end.
ReaderDisconnects(c) ==
  /\ reader[c] = "reading" /\ pushed[c] = polled[c]
  /\ c \in closed /\ polled[c] = wrote[c]
  /\ PutApp([kind |-> "Disconnect", conn |-> c])
  /\ reader' = [reader EXCEPT ![c] = "ended"]
  /\ UNCHANGED <<ev, remotes, manager, polled, pushed, hosting>>

\* Reading a connection that was reset fails, and the host is not told; the
\* length of a message panics (see Framing); or there is nobody left to tell.
ReaderFails(c) ==
  /\ reader[c] = "reading"
  /\ \/ pushed[c] = polled[c] /\ (c \in closed \/ polled[c] < wrote[c])
     \/ pushed[c] < polled[c] /\ AppClosed
  /\ reader' = [reader EXCEPT ![c] = "ended"]
  /\ UNCHANGED <<ev, app, remotes, manager, polled, pushed, hosting>>

-----------------------------------------------------------------------------
(* The host: main_loop and action_dispatcher. *)

\* Where a message may go: where one came from, or an address the user gave.
Known(from) == Listening \cup {from} \cup {c \in Conn : received[c] # <<>>}

\* The bound on the messages to one address.
WithinBound(l) ==
  \A c \in Conn : sent[c] + Cardinality({i \in DOMAIN l : l[i] = c}) <= MaxSent

HostTakes ==
  /\ host = "running" /\ todo = <<>>
  /\ app # <<>>
  /\ app' = Tail(app)
  /\ LET e == Head(app) IN
       \/ /\ e.kind = "Recv"
          /\ received' = [received EXCEPT ![e.conn] = Append(@, e.n)]
          /\ \/ /\ \E r \in 0..MaxReplies :
                      \E l \in [1..r -> Known(e.conn)] : WithinBound(l) /\ todo' = l
                /\ UNCHANGED host
             \/ host' = "ended" /\ UNCHANGED todo     \* the handler's error
          /\ UNCHANGED ended
       \/ /\ e.kind = "Disconnect"
          /\ ended' = ended \cup {e.conn}
          /\ UNCHANGED <<todo, received, host>>
       \/ /\ e.kind = "Connect"
          /\ UNCHANGED <<todo, received, ended, host>>
  /\ UNCHANGED <<ev, remotes, manager, readers, sent>>

\* The user has the host send to an address (init_comm, a tick).
HostDials(c) ==
  /\ host = "running" /\ todo = <<>>
  /\ WithinBound(<<c>>) /\ todo' = <<c>>
  /\ UNCHANGED <<ev, app, remotes, manager, readers, sent, received, ended, host>>

HostSends ==
  /\ host = "running" /\ todo # <<>>
  /\ HasRoom(ev, EvCapacity) /\ ~EvClosed
  /\ LET c == Head(todo) IN
       /\ ev' = Append(ev, [kind |-> "Send", conn |-> c, n |-> sent[c] + 1])
       /\ sent' = [sent EXCEPT ![c] = @ + 1]
  /\ todo' = Tail(todo)
  /\ UNCHANGED <<app, remotes, manager, readers, received, ended, host>>

\* A channel is closed.
HostEnds ==
  /\ host = "running"
  /\ \/ todo # <<>> /\ EvClosed
     \/ todo = <<>> /\ app = <<>> /\ AppDone
  /\ host' = "ended"
  /\ UNCHANGED <<ev, app, remotes, manager, readers, todo, sent, received, ended>>

-----------------------------------------------------------------------------
(***************************************************************************)
(* The remote ends, which are managers like this one: their handlers write *)
(* and their readers read.  A reader waits while its own `app` is full, so *)
(* a remote end may read late or never.                                    *)
(***************************************************************************)

Open(c) == c \notin closed /\ (c \in Incoming \/ c \in writers)

RemoteWrites(c) ==
  /\ Open(c) /\ wrote[c] < MaxWritten
  /\ wrote' = [wrote EXCEPT ![c] = @ + 1]
  /\ UNCHANGED <<ev, app, arriving, closed, taken, manager, readers, hosting>>

RemoteReads(c) ==
  /\ Open(c) /\ taken[c] < Len(wire[c])
  /\ taken' = [taken EXCEPT ![c] = @ + 1]
  /\ UNCHANGED <<ev, app, arriving, wrote, closed, manager, readers, hosting>>

RemoteCloses(c) ==
  /\ Open(c)
  /\ closed' = closed \cup {c}
  /\ UNCHANGED <<ev, app, arriving, wrote, taken, manager, readers, hosting>>

-----------------------------------------------------------------------------
Handler == HandlerTakes \/ HandlerConnects \/ HandlerDials \/ HandlerWrites \/ HandlerFails
Reader(c) == ReaderPolls(c) \/ ReaderPushes(c) \/ ReaderDisconnects(c) \/ ReaderFails(c)
Host == HostTakes \/ HostSends \/ HostEnds
Remote(c) == RemoteWrites(c) \/ RemoteReads(c) \/ RemoteCloses(c)

Next ==
  \/ \E c \in Incoming : Accept(c)
  \/ AcceptFails
  \/ Announce
  \/ Handler
  \/ \E c \in Listening : HostDials(c)
  \/ Host
  \/ \E c \in Conn : Reader(c) \/ Remote(c)

Spec == Init /\ [][Next]_vars

\* The executor runs every task that can run; no remote end has to connect,
\* write, read or close, and nobody has to dial.
FairSpec ==
  /\ Spec
  /\ WF_vars(Announce) /\ WF_vars(Handler) /\ WF_vars(Host)
  /\ \A c \in Conn : WF_vars(Reader(c))

\* The same, among remote ends that keep reading.
ReadingSpec == FairSpec /\ \A c \in Conn : WF_vars(RemoteReads(c))

-----------------------------------------------------------------------------
(* Properties. *)

\* What the remote end of c writes reaches the host in order and without gaps,
\* though a reader takes several frames at a time and every reader, the accept
\* task and the host share two channels; nothing follows a Disconnect.
In(c) == INSTANCE FifoLink WITH
  written <- [i \in 1..wrote[c] |-> i],
  delivered <- received[c],
  over <- c \in ended

MessagesArriveInOrder ==
  /\ \A c \in Conn : In(c)!Init
  /\ [][\A c \in Conn : In(c)!Next \/ UNCHANGED In(c)!vars]_vars

\* What the host sends to an address is written to its connection in order and
\* without gaps, whichever side opened it, until the handler fails for good.
Out(c) == INSTANCE FifoLink WITH
  written <- [i \in 1..sent[c] |-> i],
  delivered <- wire[c],
  over <- handler = Failed

MessagesLeaveInOrder ==
  /\ \A c \in Conn : Out(c)!Init
  /\ [][\A c \in Conn : Out(c)!Next \/ UNCHANGED Out(c)!vars]_vars

\* The manager never dials the address an incoming connection came from: a
\* reply finds the writer of that connection, although the first message may
\* overtake the Connect event and is answered before the writer is kept.
RepliesUseConnection ==
  handler.doing = "send" /\ handler.conn \in Incoming => handler.conn \in writers

\* When the host is told that a connection has ended it has every message that
\* was written to it.
DisconnectComesLast ==
  \A c \in ended : Len(received[c]) = wrote[c]

\* The host waits for room on `ev`, which only the handler makes, and the
\* handler for room on `app`, which only the host makes.
CircularWait ==
  /\ host = "running" /\ todo # <<>> /\ ~HasRoom(ev, EvCapacity)
  /\ handler.doing = "connect" /\ ~HasRoom(app, AppCapacity)

\* The handler waits for a remote peer to read.
StalledWrite ==
  /\ handler.doing = "send" /\ handler.conn \in writers \ closed
  /\ Len(wire[handler.conn]) - taken[handler.conn] >= SocketRoom

\* While the handler and the host run, the only ways for all tasks to wait with
\* work left are these two: no other order of sends and receives on the two
\* channels locks the program up.
StuckOnlyByCircularWait ==
  \/ ENABLED (Announce \/ Handler \/ Host \/ \E c \in Conn : Reader(c))
  \/ ev = <<>> /\ app = <<>> /\ todo = <<>> /\ handler = Idle /\ binder \notin Incoming
  \/ handler = Failed \/ host = "ended"
  \/ CircularWait \/ StalledWrite

\* The circular wait is for good: whatever arrives, closes or fails, no error
\* and no other task ever wakes the host or the handler.
CircularWaitStays == [][CircularWait => CircularWait']_vars

AllWritten == \A c \in Conn : Len(wire[c]) = sent[c]

\* Again and again every message the host has handed to the manager has been
\* written to its connection, while handler and host run: only two things keep
\* one from leaving, the circular wait and a remote end that has stopped reading
\* for good, whichever side opened the connection.
SendsUnlessStuck ==
  \/ <>[]StalledWrite
  \/ []<>(AllWritten \/ handler = Failed \/ host = "ended" \/ CircularWait)

-----------------------------------------------------------------------------
(* What the repository's comments say and the code does not do. *)

\* "instruct the peer manager to send a message" (mod.rs:116): with nothing but
\* failures that keeps a message from leaving.
SendsHappen == []<>(AllWritten \/ handler = Failed \/ host = "ended")
=============================================================================
