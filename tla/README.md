# A verification development for tp2p

tp2p is a Rust library for peer-to-peer syncing. Its heart is the `Sync` object
(`src/src/sync.rs`): it holds what a node knows of its peers, turns each incoming
message into a list of *actions*, and leaves it to its caller to carry them out.
This directory models that object, the caller's loop, several such nodes talking to
each other, the connections and channels between them, and the envelopes their
messages travel in, in TLA+; TLC checks small instances and TLAPS proves the central
results for every value of the constants.

All paths below are relative to the repository's parent, as in `PROJECT.json`
(`src/src/sync.rs` is the library's `sync.rs`).

## The system

| Component | State | Operations | Talks to |
|---|---|---|---|
| `Sync` handlers (`sync.rs`) | none: every handler takes `&self` | `init_comm`, `process_init_message`, `unwrap_incoming_message`, `process_event_*`, `peer_confirm`, `tick`; each returns `Vec<Action>` or an error | the host, by return values |
| Peer book (`Sync.peers`) | one `PeerInfo` per key: name, address, active, last_ping | `SetPeer`, `UnsetPeer` through `apply_sync_actions` | written only by the host's dispatcher |
| Pending dials (`Sync.pending_peer_init`) | address and time of each dial that waits for a Hello | `SetPendingPeer`, `UnsetPendingPeer` | as above |
| Subscriptions (`Sync.subscriptions`) | the subscribers of each topic | `SetSubscription`, `UnsetSubscription` | as above |
| Peering configuration (`peer.rs`) | mode, whitelist, blacklist; constant | `can_confirm` | read on PeerInit |
| Host loop (`tests/connect.rs`, `action_dispatcher` in `tests/common/mod.rs`) | the list it is working on | receive, call the handler, carry out the actions one by one | `Sync`, PeerManager, the user |
| PeerManager (`tests/common/mod.rs`) | writers by address, one reader task per connection, two channels of 64 | accept, connect on first send, reuse, write, read, report the end | host, other nodes |
| FramedConnection (`tests/common/mod.rs`) | bytes read and not yet decoded | write a frame, decode frames from reads of any size | PeerManager |
| Messages (`message.rs`), keys (`peer.rs`) | – | create, seal, open; precompute a key | crypto library |
| Identities, topics, serialization, errors | – | wrappers of libraries, declarations | – |

The handshake: the dialer sends `Init` (its key, in the clear); the other side
records the key as a nameless inactive peer and answers `Hello`; the dialer, if it
still has the dial pending, records the peer, forgets the dial and sends
`PeerInit`; the other side accepts, refuses or asks its user; accepting makes the
peer active and sends `PeerConfirm`; that makes the dialer's record active too.
Ping and Pong renew `last_ping`; `tick` pings, drops silent inactive peers and
prunes old dials.

What is hard here:

- **Deferred actions.** A handler decides on the object as it was; the actions are
  carried out later, one at a time, with awaits between them.
- **Overwriting.** `Init` and `Hello` replace a record whatever it held, so
  handshakes that cross or repeat disturb each other's records.
- **Timeouts.** Peers are forgotten and dials pruned while their messages are still
  under way, or while the user thinks.
- **Names as identity.** Subscribers are compared with their names, and names change.
- **Channels and streams** of the test host: four kinds of tasks over two bounded
  channels, errors that end one task and not the others, writers that are never
  removed, streams that lose what they had under way, frames split over reads.
- **Nonces as names.** A message is sealed under the nonce of its ID, also when a
  stored one is sealed again for another peer.

`PROJECT.json` lists these hazards at the lines where they bite, with the
properties aimed at each.

What makes each part correct: handlers – their lists still fit when carried out;
book – a key is met before it is confirmed and never dropped while active or heard
from; pending dials – one entry per unanswered dial, one PeerInit per dial;
subscriptions – exactly what was asked for, and messages to subscribers only;
handshake – consent of both sides, and both active in the end; host – no loop ends
on a message the protocol itself produced; manager – each direction of a connection
delivers in order and without gaps, its end is told last, and tasks wait for each
other as little as possible; framing – frames come out as they went in; envelopes –
only the receiver opens them, and IDs and nonces name one message.

## Modules

| Module | Models | Extends / instantiates |
|---|---|---|
| `SyncObject` | the data types and every handler, as operators from the object to a result | – |
| `PeerLifecycle` | abstract: what the book promises of each key | – |
| `SyncNode` | one node: object, host loop, clock, against an open environment | extends `SyncObject`, `Lifecycle == INSTANCE PeerLifecycle` |
| `SyncObjectProofs` | lemmas about the handlers: their events, their lists, the orders in which they walk sets | extends `SyncObject`, `TLAPS` |
| `SyncNodeProofs` | the theorems about `SyncNode`: book and dials, then sends and subscriptions | extends `SyncNode`, `SyncObjectProofs` |
| `PeerNetwork` | several nodes and the streams between them | extends `SyncObject` |
| `NetworkPeer` | one peer of the network, any one, as a `SyncNode` | extends `PeerNetwork`, `Node == INSTANCE SyncNodeProofs` |
| `PeerNetworkProofs` | the theorems about types and consent | extends `PeerNetwork`, `SyncObjectProofs` |
| `NetworkPeerProofs` | the refinement of `SyncNode` by a peer, and what follows from it | extends `NetworkPeer`, `PeerNetworkProofs` |
| `PeerNetworkHandshakeProofs` | the theorems about hosts that do not give up and peers that agree | extends `PeerNetworkProofs` |
| `FifoLink` | abstract: one direction of a connection, in order until it is over | – |
| `PeerManager` | accept task, `event_handler`, readers, host loop and the channels between them | `In(c)`, `Out(c)`: instances of `FifoLink` |
| `PeerManagerProofs` | the theorems about `PeerManager` | extends `PeerManager`, `TLAPS` |
| `Framing` | `FramedConnection` on a stream of bytes | `Link == INSTANCE FifoLink` |
| `FramingProofs` | the theorems about `frame_decode` and about `Framing` | extends `Framing`, `SequenceTheorems`, `WellFoundedInduction`, `TLAPS` |
| `Sealing` | messages, IDs, keys and envelopes | – |
| `SealingProofs` | the theorems about `Sealing` | extends `Sealing`, `TLAPS` |
| `MCSyncNode`, `MCPeerNetwork`, `MCPeerManager`, `MCFraming`, `MCSealing` | constants for TLC | extend the above (`MCPeerNetwork` extends `NetworkPeer`) |

The layers meet in three places. `NetworkPeer` shows each peer of a `PeerNetwork` to be a
`SyncNode`. `PeerNetwork` takes streams for FIFO until they are
cut; that is `FifoLink`, which `PeerManager` implements at the level of messages and
`Framing` at the level of bytes. And `SyncObject` takes a sealed message for a record
that only its receiver opens; that is what `Sealing` shows of the envelopes.

### How the model corresponds to the code

`SyncObject` keeps the source's names (`process_event_hello` is
`process_event_hello`). An operator takes `self` (a record of the fields of `Sync`),
the message and the caller's clock, and returns `Ok(lists)` or `Err(name)`. There
are several lists only where the code walks a `HashMap` (tick) or a `Vec` whose
order the model does not fix (subscriptions, topics, messages).
`apply_sync_actions` is split by the field it writes: `apply_peers`,
`apply_pending`, `apply_subscriptions`; none of its arms writes two fields.

Operators named `Faulty_...` or `Other_...` are not part of the model. Each is a
handler after a plausible slip and is used to show that a property notices it.

`SyncNode` has the three mutable fields of `Sync` (`peers`, `pending_peer_init`,
`subscriptions`), its configuration, the host's remaining actions `todo` and the
clock `now`. There is one action per handler; each requires `todo = <<>>` (the loop
carries out a list before it receives again, `connect.rs:78`) and puts the returned
list in `todo`. `Dispatch` is one call of `action_dispatcher`. `Advance` moves the
clock between any two steps. Three history variables record what happened
(`unanswered`, `wanted`, `released`); no guard except the bound on dials reads them.
A handler's error leaves an empty list and the host goes on. The library leaves that to
its caller: `connect.rs` ends its loop instead (`?`), and its behaviours are those of
`SyncNode` up to that moment. For safety the model is a superset; the three liveness
properties speak of a host that survives such errors.

`PeerNetwork` gives each peer its own fields and connects peers by streams. The
stream `<<d, l>>` is the one `d` opens by first sending to `l`'s listening address;
both ends reuse it (`mod.rs:199-211`), and messages on it stay in order. A handler's
error ends the loop (`failed`), as `?` does in `connect.rs`. `Cut` ends one direction
of a stream at any moment: some suffix of what is under way is lost, and so is, silently,
whatever is sent later (a writer is never removed, `mod.rs:199-215`; a reader that fails
stops, `mod.rs:180`). `prompts` are users who
have been asked; they may say yes or no at any later moment, or never answer. The user
is environment: `mod.rs:48-50` only prints the question.
History: `dials`, `inits`, `accepted`.

`PeerManager` has one variable per channel and per task. `ev` is the channel to the
manager, `app` the one to the host. `binder` is the task of `bind` (`mod.rs:225-237`),
`handler` that of `event_handler`: idle, telling the host of a connection
(`mod.rs:194-197`), sending (`mod.rs:199-215`) or failed. `reader[c]` is the task of a
connection (`mod.rs:164-186`): it polls, hands on frame by frame, and tells the end; it
may also die, of an error, of a length that makes `frame_decode` panic (`mod.rs:78-79`) or
of a host that is gone.
The host takes an event, and then hands over its answers one by one; an error of a
handler of `Sync` may end it at any message. A send waits for room and fails when
nobody can receive any more; a receive fails when all senders are gone (`mod.rs:189-190`).
The remote ends are programs like this one (`mod.rs:86-97`, `mod.rs:199-215`), seen only
through what they write and read, and they may read late or never. Writing waits when the socket holds `SocketRoom` messages
the remote end has not read; to a connection that is gone it succeeds or fails. Messages
are numbered per connection and direction.

`Framing` works on bytes. `Poll` is one read of any size and `frame_decode` on what the
buffer then holds; `Deliver` is the reader's loop over the frames. The remote end may go
in the middle of a frame. A byte has `Base` values, so that lengths wrap at `Base ^ 4`.
`frame_decode` is a loop in the code and a recursive function here: `decode_round` is one
round, and a buffer of `n` bytes allows `n \div 4` rounds that do something.

`Sealing` takes ciphers by their rules: what is sealed with a key and a nonce opens with
these and gives the text; the precomputed key of two peers is the set of the two. Peers
send new messages (`Send`), make messages for their store (`Publish`), pass stored ones
on (`PassOn`, the answer to a query) and open envelopes (`Receive`), which stay available
to everybody for ever, so that all repeats, delays and misdeliveries occur.

Abstractions, in `SyncNode` and `PeerNetwork`:

- a `Vec` whose order and repetitions no code reads is a set;
- a sealed message is a record that only its receiver can open; message IDs,
  `parents` and `depth`, which no handler reads, are left out;
- the precomputed key of a `Peer` is a function of its public key and is left out, so
  peers are equal when key and name are;
- times are whole seconds, since the code compares `num_seconds()`;
- a node does not send to itself or dial itself;
- parsing an address does not fail in `init_comm`.

Abstractions, in the other modules:

- `PeerEvent::Quit` is sent by nobody and left out;
- a remote peer's ephemeral port is not used again for another connection, so an
  address has at most one connection;
- a connection that is reset is one that is closed and whose reader fails; bytes that
  were read before stay readable;
- a body longer than the largest `u32` is written under a wrong length (`as u32`,
  `mod.rs:101`), and so it is in `put_u32`; what the properties of `Framing` say of
  lengths is for bodies that are shorter (`NoneWraps`);
- random nonces of 24 bytes are taken to be new (`Fresh`), and the body of a message
  stands for event and topic graph;
- the host of `Sealing` may or may not keep what it opens: keeping is left to the caller.

The loop of `connect.rs` has arms that are not finished (`Subscribe` returns no
list, `Unsubscribe` and what follows panics). `SyncNode` models a host that calls the
handler the library offers for the event; in `PeerNetwork` nobody sends these.

## Runs

| Run | Instance | States | Question |
|---|---|---|---|
| `SyncNodeAddresses` | 2 remote keys, 2 addresses, 2 unanswered dials of each, 4 configurations, clock 0, 240 | 354,860 | `TypeOK`, `TodoFits`, `PeerInitsAnswerDials`, `PendingAwaitsHello`, `SendsFollowBook`, `ImplementsLifecycle` |
| `SyncNodeRenamed` | 1 key with 2 names, 2 topics, 2 stored messages, clock 0, 240 | 37,236 | `SubscriptionsExact`, `SendsOnlySubscribed`, across renames and being forgotten |
| `SyncNodeProgress` | 1 key, 1 address, 4 configurations, clock 0..240 by 60, fairness | 11,016 | `TodoFits`, `ImplementsLifecycle`, `SilentPeerForgotten`, `SilentPeerPinged`, `PendingExpires` |
| `NetworkCrossing` | 2 public peers, both dial, twice each, one direction of a stream is cut, fairness | 407,096 | `QuietPeersAgree`, `HostsSurvive`, `DialsPeer` |
| `NetworkConsent` | 2 peers, both dial once, one asks its user, clock 0..200 by 100, fairness | 584,692 | `TypeOK`, `ActiveByConsent`, `PeerIsSyncNode`, `DialsPeer` |
| `ManagerChannels` | 1 incoming, 1 dialed connection, channels and sockets of 1, 2 messages each way, 1 answer per message, fairness | 760,497 | `TypeOK`, `RepliesUseConnection`, `DisconnectComesLast`, `StuckOnlyByCircularWait`, `MessagesArriveInOrder`, `MessagesLeaveInOrder`, `CircularWaitStays`, `SendsUnlessStuck` |
| `FramingReads` | 2 messages of 0, 1, 5, 11, 12 bytes and a part of a third, bytes of 2 values, reads up to 20 bytes, fairness | 68,852 | `TypeOK`, `NothingLost`, `PanicsOnlyOnHuge`, `EndMeansAll`, `ImplementsLink`, `EverythingArrives` |
| `SealingPassOn` | 3 peers, one of them with types that cannot deserialize, 2 nonces, 2 moments | 48,532 | `TypeOK`, `OpenedWasPosted`, `PostedOpens`, `NonceNamesOneText`, `RepeatsRecognised` |
| `SyncNodeUnsubscribe`, `NetworkForgotten`, `NetworkRedial`, `ManagerCircular` | | | disagreements with the comments, below |

Why the bounds are enough to see the cases that matter: the comparisons of `tick` are
with 60, 120 and 180 seconds, so a grid of minutes up to four has moments below, at and
above each; one step of four minutes is enough for a ping, a pruned dial and a forgotten
peer at once. Two dials per address are needed for a second entry, a repeated Hello and a
re-dial of an active peer. Steps of 100 seconds are the coarsest in which a dial may wait
one step and not two, a silent peer likewise, so that a handshake may be late or in time;
`NetworkCrossing` stops the clock and has the crossings, `NetworkConsent` has the clock and
fewer of them. Two remote keys show that one key's messages do not touch another's record;
three names of a key (two, and none yet) and two topics give topics with zero, one and
several subscribers. Two peers that dial each other give every crossing of two handshakes; a
third peer shares no record with them. One direction cut at any moment leaves the other
three working, which is where a half-lost handshake meets a whole one.

A channel of one is full after one event, so that with two messages every task comes to
wait for room, with and without something behind it; 64 only makes the same waits rarer.
Two messages per direction are the fewest that can be in the wrong order, and two frames
in one read the fewest that a reader can lose. With two values a byte, lengths wrap at 16
as they do at 2^32; of the lengths 11 and 12 the first just fits and the second does not;
the body 0,0,0,1,0 is a frame itself. Reads of up to 20 bytes end at every place of every
frame and cover more than one. In `Sealing`, two nonces are enough for two messages to be
confused, three peers for an envelope to stray.

Only `SyncNode` runs check for deadlock, since an open environment can always send. The
other systems stop when their bounds are used up; whether `PeerManager` stops too early
is what `StuckOnlyByCircularWait` and `SendsUnlessStuck` ask.

### Properties

`SyncNode`:

- `TodoFits` – the actions not yet carried out fit the object *as it is now*: a record
  about to be written does not turn `last_ping` back or make an unknown key active, a
  key about to be dropped is inactive and silent for over 180 seconds, a PeerInit
  about to leave answers a dial.
- `ImplementsLifecycle` – the book implements `PeerLifecycle`, with
  `status`, `heard` read off the records.
- `PeerInitsAnswerDials`, `PendingAwaitsHello` – PeerInits and pending entries against
  the account of dials.
- `SendsFollowBook` – when a sealed message leaves, the receiver is in the book under
  that address, and active if it is told so.
- `SubscriptionsExact`, `SendsOnlySubscribed` – subscriptions against the history of
  requests, under the names peers had then.
- `SilentPeerForgotten`, `SilentPeerPinged`, `PendingExpires` – liveness.

`PeerNetwork`:

- `ActiveByConsent` – n has k as an active peer only if n agreed, or n asked and k agreed.
- `QuietPeersAgree` – with nothing under way, mutually accepting peers agree on
  being active, unless a stream between them was cut.
- `DialsPeer` – dials between two peers that agree to each other make both active. A peer
  agrees if it accepts the other at once, or if its user was asked once and said yes: a peer
  that is dialed again makes the dialer inactive and asks again, and the user may then say
  no. Two exceptions. Tick may have given up a dial or dropped a peer before the handshake
  was through (`NothingForgotten` fails): then the late Hello is rogue (`sync.rs:328`) or
  the late PeerInit unknown (`sync.rs:607`), and nobody becomes active although nothing was
  cut. And a stream between the two may be cut, any stream and not the dialed one only:
  `process_event_peer_init` is given the connection of the PeerInit and ignores it, and
  `peer_confirm` answers to the address in the book (`sync.rs:609`), which a crossing Init
  or Hello may have set to the stream that is dead.
- `HostsSurvive` – while no peer is forgotten in mid-handshake, no handler fails,
  whatever is lost.
- `PeerIsSyncNode` – a peer of the network, `Me`, is a `SyncNode`: what reaches it over the
  streams is something the open environment of `SyncNode` may send. The run looks at the
  peer that asks its user, the theorem at any.

`PeerManager`:

- `MessagesArriveInOrder`, `MessagesLeaveInOrder` – remote end to host and host to wire
  are each a `FifoLink`, over shared channels and whichever side opened the connection.
- `DisconnectComesLast` – the host has all messages when it is told of the end.
- `RepliesUseConnection` – an answer never makes the manager dial the ephemeral port of
  an incoming connection, although the reader starts before the writer is kept.
- `StuckOnlyByCircularWait` – while handler and host run, the only ways for the tasks of
  a node to stand still with work left are the circular wait below and a write to a
  remote end that does not read.
- `CircularWaitStays` – and that circular wait is for good: not a close, nor an error, nor
  another task's step ends it, so only a restart does.
- `SendsUnlessStuck` – what the host hands over is written, unless that wait, a remote end
  that has stopped reading for good, a failed handler or the end of the host prevents it.
  No remote end is assumed to read.

`Framing`:

- `NothingLost` – delivered, decoded, buffered and in flight make up what was written,
  and the buffer holds no whole frame.
- `EndMeansAll`, `EverythingArrives`, `ImplementsLink` – the same seen from outside.
- `PanicsOnlyOnHuge` – the reader dies only of a length within four of the modulus.

`Sealing`:

- `OpenedWasPosted`, `PostedOpens` – only the receiver opens an envelope, gets what the
  named sender sealed, and always can.
- `NonceNamesOneText` – no two texts under one key and nonce.
- `RepeatsRecognised` – by its ID a receiver can tell every repeat, as the comment at
  `message.rs:73` asks, and nothing else is taken for one.

### Fairness

`SyncNode!Fairness`: WF of `Dispatch` (the loop finishes the list it has), WF of
`Advance` (time passes) and SF of `Tick`, whose documentation asks for it to be
"called periodically (like every 60s or something)" (`sync.rs:214`). It must be strong
because a host that is busy with a list cannot call tick at that moment.
`PeerNetwork!Fairness`: WF of `Dispatch(n)` and of `Receive(n, c)`, for a loop that
polls its channel every 50 ms and streams that deliver. Nothing is assumed of dials,
users, ticks, the clock or cuts there. A conjunction of leads-to formulas is stated as
one `[]<>`, which is stronger and says the same of dials that are bounded.
`PeerManager!FairSpec`: WF of the accept task's announcement, of the handler, the host and
each reader, which are tasks the executor runs when they can go on; nothing is assumed of
connecting, dialing, of `accept` failing, or of the remote ends: they need not write, close
or read. A remote end is another node, and its reader stops for good when its own `app`
stays full (`mod.rs:166-173`), so that it reads is not this code's to promise. Only
`ManagerCircular` assumes it (`ReadingSpec`), to show that the circular wait needs no slow peer. A reader may lose the race for room on `app` to another
sender, and WF does not say it wins one day; with finitely many messages it does, so no
strong fairness of a channel is assumed. `Framing!FairSpec`: WF of the reader's steps.

### Where code and comments disagree

- `UnsubscribeRemoves` (`event.rs:60`): a peer that subscribed before it got its name
  cannot unsubscribe, because subscribers are compared with their names (`sync.rs:203`).
- `PeerInitNeedsNoKnownSender` (`sync.rs:304`): a PeerInit whose sender was forgotten
  meanwhile fails with `PeerNotFound` (`sync.rs:607`).
- `HelloKeepsActive` (`sync.rs:334`): "if we haven't already, add this peer" – the Hello
  of a re-dialed active peer makes it inactive. `QuietPeersAgree` and `DialsPeer` show
  that the rest of the handshake repairs it if it completes.
- `SendsHappen` (`mod.rs:116`): with `app` full, `event_handler` waits to announce a
  connection (`mod.rs:195`), while the host waits in `action_dispatcher` for room on `ev`
  (`mod.rs:44`), and neither goes on. `StuckOnlyByCircularWait` shows it is the only such
  cycle among the tasks of one node.

The model also shows three things that no run is spent on. The dialing side of a
handshake is active without having sent a PeerConfirm, unlike `peer.rs:125` says. And
`start` awaits `bind` before `event_task` (`mod.rs:155-156`), so that an error of
`event_handler` is not seen as long as `accept` succeeds: `handler` may be `Failed` for
ever while `binder` goes on; `connect.rs:107` expects such an error to end the task. And the
handler writes to one connection at a time and waits for it (`mod.rs:213`), so a peer that has
stopped reading keeps messages from peers that read (`StalledWrite`). Two nodes can lock each
other up that way: each handler writes to the other node, whose reader waits for its host,
which waits for room on `ev`, which only that node's handler makes. Neither is in the circular
wait; in the model of one node it is a write that stays stalled.

## Proofs

Every theorem below is checked by TLAPS for all values of the constants that satisfy the
named ASSUMEs of the module it extends. The bounds of the runs (`MaxTime`, `MaxWritten`
and so on) are constants too, and are arbitrary natural numbers there.

### `SyncNodeProofs`

For any finite sets of keys, addresses and topics, any configurations and time steps.
First the book and the dials:

| Theorem | States |
|---|---|
| `TypeCorrect` | `Spec => []TypeOK` |
| `PeerInitsOnlyAnswer` | `Spec => []PeerInitsAnswerDials` |
| `PendingIsDialed` | `Spec => []PendingAwaitsHello` |
| `TodoNeverStale` | `Spec => []TodoFits` |
| `Implementation` | `Spec => ImplementsLifecycle` |

The inductive invariant is

    IInv == TypeOK /\ HeardInPast /\ PeerInitsAnswerDials /\ PendingAwaitsHello /\ TodoFits

None of the properties is inductive alone. That a PeerInit never exceeds the
dials depends on what is still in `todo`: the pending entry and the PeerInit that
answers it belong to the same dial, and between `UnsetPendingPeer` and `MessageSend`
only the list knows of it. `DialActions` says so: a list that sends a PeerInit sends
one, has a dial left to answer, and takes the address off the pending list first.
`BookActions` says that a list writes at most one record, first, and then drops none.
`HeardInPast` (no `last_ping` is in the future) is needed for a record that is
renewed with the present moment.

The argument has three layers. One lemma per handler (`HelloLists`, `TickLists`, ...):
what it returns fits the object it was called on. `DispatchType`, `DispatchBook` and
`DispatchDials`: carrying out the head keeps the object well-formed and the tail
fitting. `AdvanceStep`: time makes silent peers more silent. `NextIInv` puts them
together, one step per action. The refinement uses `IInv`: writing a record is `Meet`
or `Confirm`, dropping one is `Forget`, by `BookActions` of the head.

Then, from the same assumptions, what is sent and who subscribes:

| Theorem | States |
|---|---|
| `SendsFollow` | `Spec => []SendsFollowBook` |
| `SubscriptionsAsAsked` | `Spec => []SubscriptionsExact` |
| `StoredOnlyToSubscribers` | `Spec => []SendsOnlySubscribed` |

    SInv == IInv /\ SendActions(todo) /\ SubscriptionActions(todo) /\ StoredActions(todo)

These properties speak of the head of the list, so that `SInv` has to speak of all of it.
`SendActions`: a list that starts by writing a record (Init, Hello, a confirmation, a
Ping) sends to that peer, at the address of that record; any other list sends to peers
of the book as it is and drops none of them. It is here that the order of a list matters:
were the message first, it would leave before the record is there.
`SubscriptionActions`: what was asked for is what is subscribed when the list has been
carried out; no list both subscribes and unsubscribes the same peer, so the order of its
actions, which the model leaves open, does not matter. `StoredActions`: a list of
stored messages does nothing but send, so the peer cannot be renamed before the last of
them leaves.

### `PeerNetworkProofs`

For any finite number of peers and streams, any names, configurations, time steps, dials
and cuts (`PubkeyAssumption`, `ConnAssumption`, `TopicAssumption`, `StreamsAssumption`,
`PeersAssumption`, `BoundsAssumption`):

| Theorem | States |
|---|---|
| `TypeCorrect` | `Spec => []TypeOK` |
| `NobodyActiveUnasked` | `Spec => []ActiveByConsent` |

`NInv` is what all other proofs about the network rest on: a record of a peer has the
address of a stream to that peer, a message on a stream is from the other end, an Init
and a PeerInit are from the end that dialed and a Hello is from the other one, a pending
dial is the peer's own and has not been answered with a PeerInit. The bound of `inits` in
`TypeOK` needs the list as in `SyncNodeProofs` (`DialList`).

    CInv == NInv /\ PromptsAsked /\ ActiveByConsent /\ TodoConsent /\ WireConsent

A record becomes active in three places: the peer's own PeerInit that is accepted at once,
the user who says yes to it later, and a PeerConfirm. For the last one, consent has to be
followed backwards along the way of the message: a PeerInit on a stream shows that its
sender asked (`WireConsent`), so does a prompt of the user (`PromptsAsked`); a PeerConfirm
in a list or on a stream shows that the receiver asked and the sender agreed. A request
and an agreement are never taken back (`Lasting`), which is why it does no harm that
messages arrive late.

### `NetworkPeerProofs`

| Theorem | States |
|---|---|
| `PeersAreNodes` | `Spec => PeerIsSyncNode` |
| `PeersAsProved` | `Spec => []Node!TodoFits /\ []Node!SendsFollowBook /\ Node!ImplementsLifecycle` |

`Me` is any peer (`PeerAssumption`). The refinement maps the fields of `Me` to those of the
node, has no subscriptions and counts as `unanswered` the Inits of `Me` less its PeerInits.
Each action of `Me` is one of `SyncNode` and every action of another peer, every cut and
every answer of a user is a stutter or a message the environment of `SyncNode` may send; that a
message on a stream is such a one is `NInv`. `PeersAsProved` cites the theorems of
`SyncNodeProofs` through the instance, so nothing of them is proved again.

### `PeerNetworkHandshakeProofs`

| Theorem | States |
|---|---|
| `HostsSurviveRemembered` | `Spec /\ []NothingForgotten => []HostsSurvive` |
| `HostsSurviveShort` | `MaxTime < 120` implies `Spec => []HostsSurvive` |
| `QuietAgreeRemembered` | `Spec /\ []NothingForgotten => []QuietPeersAgree` |
| `QuietAgreeShort` | `MaxTime < 120` implies `Spec => []QuietPeersAgree` |

`NothingForgotten`, the excuse of `DialsPeer` as well, says that no dial has waited for two minutes and no inactive peer has been
silent for more than three, the moments at which `tick` drops them. Without it
`HostsSurvive` is false: `NetworkForgotten` shows it. `HostsSurviveShort` and
`QuietAgreeShort` are what `NetworkCrossing` checks, for any network.

    HInv == HostsSurvive /\ BooksSafe /\ TodoSafe /\ WireSafe /\ PromptsSafe

A host fails when a message is from a peer it does not know, or when a Hello finds neither
a dial nor a peer. So every message that is under way must find its receiver prepared:

- a Hello goes to a peer that still has the dial pending or has the sender in its book
  (`Awaits`): the dial is dropped only by the list that writes the record, and after it;
- a PeerInit, a PeerConfirm and a Pong answer a message, so the receiver had the sender in
  its book when it sent that, and books do not lose anybody;
- a Ping is the hard one. A peer that has just sent a Hello may ping the other side,
  which does not know it yet. The Ping must be behind a Hello on the same stream, or the
  stream be cut (`Reached`): `BooksSafe` says so of every address in a book, since a later Init may
  change the address that Pings go to. A cut keeps a prefix, so it never takes the Hello
  and leaves the Ping.

`Steady` (nobody is forgotten) makes most of this last; one lemma per action
shows the rest, and `DispatchSafe` that what leaves the list may be on the stream.

    QInv == ListsInOrder /\ OnlyAsked /\ \A n, k : PairOK(n, k)

`QuietPeersAgree` is about quiet moments, and says nothing of the steps between them.
`PairOK` says of two peers that accept each other, with no cut between them, what a
handshake that is going on owes:

- `DialAnswered`: a dial that is pending has its Init or its Hello under way, or its
  PeerInit is in the list that ends it. Without that, a handshake could count as going
  on (`Shakes`) while nothing is under way;
- `InitFollowed`: an Init makes an active peer inactive (`sync.rs` writes a new record),
  so after each Init comes a PeerInit on the same stream, or the dial is still pending;
- `Agreed`: for a peer that is active, or will be when its list is carried out
  (`WillBeActive`), or was told to be by a PeerConfirm under way (`Told`), the other one
  is so as well, or a handshake between them is still going on (`Shakes`).

`ListsInOrder` is what a list promises about the order of its actions: the record comes
first, and a dial is dropped before the PeerInit is sent. `OnlyAsked`: the user is only
asked about peers that are not accepted at once, so the user's answers concern no such
pair. A message is counted from the moment it is in a list until it is received
(`Coming`), so that `Dispatch` changes little; what a new list does to the pairs is shown
once, for any list (`TakePairs`), and each handler gives a list of that kind. That a
received message is from a peer in the book is `HInv`.

### `PeerManagerProofs`

For any finite number of incoming and dialed connections, any capacities and any number
of messages (`ConnAssumption`, `CapacityAssumption`, `BoundAssumption`):

| Theorem | States |
|---|---|
| `TypeCorrect` | `Spec => []TypeOK` |
| `RepliesNeverDial` | `Spec => []RepliesUseConnection` |
| `NothingAfterDisconnect` | `Spec => []DisconnectComesLast` |
| `ArrivalIsFifo` | `Spec => MessagesArriveInOrder` |
| `DepartureIsFifo` | `Spec => MessagesLeaveInOrder` |
| `CircularWaitIsFinal` | `Spec => CircularWaitStays` |

    IInv == TypeOK /\ Arrivals /\ Replies /\ AppInOrder /\ DisconnectLast /\ EvInOrder

- `Arrivals`: a new connection is in one place at a time – the backlog, the accept task,
  `ev` – and has no reader before it left the last of them.
- `Replies`: what is on `app`, was received, is to be answered or is on `ev` as a Send
  names a connection with a reader, or one the manager may dial. `WriterKept` is the
  point of it: between the start of the reader (`mod.rs:194`) and the insertion of the
  writer (`mod.rs:197`) the handler is busy with just that connection, so it cannot take
  an answer off `ev` too early.
- `AppInOrder`: of each connection, `app` holds what the reader has pushed and the host
  has not taken, each message once, in order.
- `DisconnectLast`: a Disconnect on `app` has the last message before it.
- `EvInOrder`: the same for `ev` and the message in the hands of the handler, up to
  what is on the wire.

Each part has a lemma per action (or one for the actions that do not touch its
variables); `Invariance` joins them. The two refinements follow: a step that lengthens
`received[c]` takes the head of `app`, which `AppInOrder` says is the next message.

`CircularWaitIsFinal` needs no invariant. `CircularStep` goes through all actions: host and
handler each need the other's step; every other task that sends needs the same room; and
a reader or a remote end changes neither what waits nor what is in the channels.

### `FramingProofs`

For bytes with any number of values (`BaseAssumption`), any bodies (`BodiesAssumption`),
reads of up to any size and any number of messages. About `frame_decode` alone, for any bytes:

| Theorem | States |
|---|---|
| `DecodesFramed` | the frames of messages whose lengths fit, with a part of a frame after them, are decoded to those messages and that part |
| `DecodesAny` | if it does not panic, the bytes are the frames of what it returns and the rest, which holds no whole frame |
| `ReadsJoin` | decoding what one read got, and its rest with what the next got, is decoding both at once |

About the system:

| Theorem | States |
|---|---|
| `TypeCorrect` | `Spec => []TypeOK` |
| `Inductive` | `NoneWraps` implies `Spec => []IInv` |
| `NeverLost` | `NoneWraps` implies `Spec => []NothingLost` |
| `PanicsRarely` | `NoneWraps` implies `Spec => []PanicsOnlyOnHuge` |
| `EndIsComplete` | `NoneWraps` implies `Spec => []EndMeansAll` |
| `Implements` | `NoneWraps` implies `Spec => ImplementsLink` |

`NoneWraps`: no body has 2^32 bytes or more. The code does not enforce it; without it the
properties are false, as such a body's length is cut (`mod.rs:101`). `MCFraming` has TLC
evaluate it on the instance of `FramingReads`.

Both layers need induction over data. The library's induction theorems take a predicate as
a parameter, which the provers cannot instantiate; `NatSets` and `SeqSets` take a set
instead (every set of numbers with 0 and successors has all of `Nat`; the same for sequences
and `Append`) and follow from the well-foundedness of `<` (`WFMin`). With these,
`FlattenAppend` and `FlattenCons` show what `FlattenSeq` does at either end, and
`LoopInvariant` is the rule for the loop of `frame_decode`: a set of results that has the
first one and is closed under `decode_round` has the last one, and the last one is one where
the code's loop returns.

`LengthRead` is the arithmetic: four digits to `Base` give back a length below `Base ^ 4`,
by three uses of the uniqueness of quotients. `FirstFrame` follows: bytes that begin
with a frame of a length that fits have that body first, whatever comes after it.
`DecodesFramed` is `LoopInvariant` with "what is returned and what is left are together the
messages". `PutRead` (a length that is read is written with the same four bytes) gives the
other direction, `DecodesAny`, and the two give `ReadsJoin`.

    IInv == /\ TypeOK
            /\ ~HasFrame(cut) /\ (~closed => cut = <<>>)
            /\ reader \in {"ended", "panicked"} => frames = <<>>
            /\ reader # "panicked" => ~HasFrame(buffer) /\ \E messages \in Seq(Bodies) : Left(messages)
            /\ reader = "panicked" => \E messages \in Seq(Bodies) : Killed(messages)
            /\ reader = "ended" => closed /\ delivered = written

None of the properties is inductive. `NothingLost` speaks of a reader that did not panic,
and `PanicsOnlyOnHuge` needs, in the step that panics, that the buffer began where a frame
does: `Left` says so, `Killed` keeps the reason when the buffer is gone. That the last
frame was not finished (`~HasFrame(cut)`), and that no whole frame waits in the buffer, are
what an end of the stream needs to be sure that nothing is left to hand on. `PollInv` is the
step that matters. It rests on `DecodesFront`: of bytes that begin what is left, `frame_decode`
returns the messages whose frames are complete and keeps the rest, or panics, and then one
of the lengths did not fit.

### `SealingProofs`

For any numbers of peers, nonces, moments and bodies:

| Theorem | States |
|---|---|
| `TypeCorrect` | `Spec => []TypeOK` |
| `OpenedOnlyAsPosted` | `Spec => []OpenedWasPosted` |
| `PostedCanBeOpened` | `Spec => []PostedOpens` |
| `NoNonceTwice` | `Spec => []NonceNamesOneText` |
| `IDsNameMessages` | `Spec => []RepeatsRecognised` |

`IInv` says that nonces of messages that were made are used and unlike each other, that
stores hold messages that were made, and that what was sent are the envelopes of what
was posted. `EnvelopeFields` and `OpensForReceiver` give the two directions of the
envelope. All rests on ciphers that follow their rules and on `Fresh`.

### Only model-checked

- All liveness: `SilentPeerForgotten`, `SilentPeerPinged`, `PendingExpires`, `DialsPeer`,
  `SendsUnlessStuck`, `EverythingArrives`. The proof system does not reach fairness.
- `StuckOnlyByCircularWait`, which is about ENABLED.

All other invariants and action properties of the passing runs are proved.

`HostsSurvive` and `QuietPeersAgree` are checked and proved for networks that forget
nobody. Once a dial has gone stale or a peer was dropped, the first is false
(`NetworkForgotten`) and nothing is claimed of the second. `DialsPeer` has the same
restriction in its statement, and `NetworkConsent` checks it where the clock can break it.

## Plan

Done: `SyncObject`, `SyncNode`, `PeerNetwork` with cut streams, `NetworkPeer`, `PeerManager`,
`Framing`, `Sealing`, and the theorems above. What is left, in this order:

1. `PeerNetwork` with three peers, with whitelist and blacklist modes, and with a
   subscription and a published message across the network.
2. A loop with atomic lists as an abstraction of the loop that carries out one action
   at a time.

## Not modelled

- Encryption and serialization: libraries; `Sealing` models what the code relies on.
- Identities (`identity.rs`): declarations and constructors; no handler verifies a proof,
  and nothing writes `Sync.identities`.
- `topic.rs`, an example of an application's topic, and `SubscriptionConfig`, which
  nothing reads.
- Restarts: `action.rs` leaves persistence to the caller, and no code in the repository
  stores or restores a `Sync`.
- `PeerEvent::Quit`, which nothing sends; ephemeral ports that are used again; logging;
  formatting of errors.
