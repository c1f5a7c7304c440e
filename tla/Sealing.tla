------------------------------ MODULE Sealing ------------------------------
(***************************************************************************)
(* Messages, their IDs and their envelopes (src/src/message.rs), and the   *)
(* keys they are sealed with (src/src/peer.rs).  SyncObject and PeerNetwork *)
(* take a sealed message for a record that only its receiver opens; here   *)
(* is what is behind that.  The cipher is symbolic: what was sealed with a *)
(* key and a nonce opens with these two and with nothing else.  Peers send *)
(* messages of their own and pass on stored ones, as the answers to        *)
(* queries do; anything sent may arrive any number of times, late, or at a *)
(* peer it was not meant for.                                              *)
(***************************************************************************)
CONSTANTS
  Pubkey,    \* the peers, by their public keys
  Nonce,     \* the nonces there are
  Time,      \* timestamps
  Body,      \* events, each with its topic graph
  Types      \* the bodies the type parameters of each peer can deserialize

ASSUME TypesAssumption == Types \in [Pubkey -> SUBSET Body]

VARIABLES
  used,      \* nonces that were generated
  store,     \* messages the host of each peer keeps
  sent,      \* sealed messages that were sent
  made,      \* history: messages that were created
  posted,    \* history: <<from, to, message>> for what was sealed and sent
  opened     \* history: <<from, to, message>> for what was opened, from being
             \* who the envelope names

vars == <<used, store, sent, made, posted, opened>>

-----------------------------------------------------------------------------
(* Keys. *)

Keypair(k) == [pubkey |-> k, seckey |-> [of |-> k]]

\* Both ends compute the same key, each from its own secret.
precompute(pubkey, seckey) == {pubkey, seckey.of}

\* Slip: the key is made of the peer's half alone.
Faulty_Peer(pubkey, our_seckey) == [pubkey |-> pubkey, precomputed |-> {pubkey}]

Peer(pubkey, our_seckey) ==
  [pubkey |-> pubkey, precomputed |-> precompute(pubkey, our_seckey)]

-----------------------------------------------------------------------------
(* Messages. *)

MessageID == [timestamp : Time, nonce : Nonce]
Message == [id : MessageID, body : Body]

new_message(timestamp, nonce, body) ==
  [id |-> [timestamp |-> timestamp, nonce |-> nonce], body |-> body]

\* Slip: the envelope shows the whole ID of the message.
Faulty_seal(pubkey_sender, peer_to, message) ==
  [nonce |-> message.id,
   pubkey_sender |-> pubkey_sender,
   sealed_body |-> [key |-> peer_to.precomputed, nonce |-> message.id.nonce, text |-> message]]

seal(pubkey_sender, peer_to, message) ==
  [nonce |-> message.id.nonce,
   pubkey_sender |-> pubkey_sender,
   sealed_body |-> [key |-> peer_to.precomputed, nonce |-> message.id.nonce, text |-> message]]

\* Slip: the cipher's verdict is not looked at.
Faulty_open(sealed, peer_from, types) ==
  IF sealed.sealed_body.text.body \in types THEN {sealed.sealed_body.text} ELSE {}

\* The message, or an error: MessageOpenFailed or Deserialize.
open(sealed, peer_from, types) ==
  LET box == sealed.sealed_body
  IN IF box.key = peer_from.precomputed /\ box.nonce = sealed.nonce /\ box.text.body \in types
     THEN {box.text} ELSE {}

-----------------------------------------------------------------------------

Init ==
  /\ used = {}
  /\ store = [k \in Pubkey |-> {}]
  /\ sent = {} /\ made = {} /\ posted = {} /\ opened = {}

\* gen_nonce: 24 random bytes are taken to be new.
Fresh(n) == n \notin used /\ used' = used \cup {n}

Post(a, b, m) ==
  /\ sent' = sent \cup {seal(a, Peer(b, Keypair(a).seckey), m)}
  /\ posted' = posted \cup {<<a, b, m>>}

\* Slip: a message to a peer takes the nonce of one that came from it.
Faulty_Send(a, b, t, n, body) ==
  LET m == new_message(t, n, body)
  IN /\ n \in used \/ used = {}
     /\ used' = used \cup {n}
     /\ made' = made \cup {m}
     /\ Post(a, b, m)
     /\ UNCHANGED <<store, opened>>

\* create_sealed_message: a handler's message to b.
Send(a, b, t, n, body) ==
  LET m == new_message(t, n, body)
  IN /\ Fresh(n)
     /\ made' = made \cup {m}
     /\ Post(a, b, m)
     /\ UNCHANGED <<store, opened>>

\* The host makes a message for its store.
Publish(a, t, n, body) ==
  LET m == new_message(t, n, body)
  IN /\ Fresh(n)
     /\ made' = made \cup {m}
     /\ store' = [store EXCEPT ![a] = @ \cup {m}]
     /\ UNCHANGED <<sent, posted, opened>>

\* Slip: a stored message is passed on under a new timestamp.
Faulty_PassOn(a, b, m) ==
  /\ m \in store[a]
  /\ \E t \in Time : Post(a, b, new_message(t, m.id.nonce, m.body))
  /\ UNCHANGED <<used, store, made, opened>>

\* The answer to a query: a stored message, as it is.
PassOn(a, b, m) ==
  /\ m \in store[a]
  /\ Post(a, b, m)
  /\ UNCHANGED <<used, store, made, opened>>

\* unwrap_incoming_message; the host may keep what it gets.
Receive(b, s) ==
  /\ \E m \in open(s, Peer(s.pubkey_sender, Keypair(b).seckey), Types[b]) :
       /\ opened' = opened \cup {<<s.pubkey_sender, b, m>>}
       /\ store' \in {store, [store EXCEPT ![b] = @ \cup {m}]}
  /\ UNCHANGED <<used, sent, made, posted>>

Next ==
  \/ \E a, b \in Pubkey, t \in Time, n \in Nonce, body \in Body : a # b /\ Send(a, b, t, n, body)
  \/ \E a \in Pubkey, t \in Time, n \in Nonce, body \in Body : Publish(a, t, n, body)
  \/ \E a, b \in Pubkey : a # b /\ \E m \in store[a] : PassOn(a, b, m)
  \/ \E b \in Pubkey, s \in sent : Receive(b, s)

Spec == Init /\ [][Next]_vars

-----------------------------------------------------------------------------
(* Properties. *)

MessageSealed ==
  [nonce : Nonce, pubkey_sender : Pubkey,
   sealed_body : [key : SUBSET Pubkey, nonce : Nonce, text : Message]]

TypeOK ==
  /\ used \subseteq Nonce
  /\ store \in [Pubkey -> SUBSET Message]
  /\ sent \subseteq MessageSealed
  /\ made \subseteq Message
  /\ posted \subseteq Pubkey \X Pubkey \X Message
  /\ opened \subseteq Pubkey \X Pubkey \X Message

\* What a peer opens was sent to it, just as it is, by the peer the envelope
\* names: an envelope that strays, or comes twice, opens nowhere else.
OpenedWasPosted == opened \subseteq posted

\* What is sent to a peer opens at that peer, with the key it computes from
\* its own secret, whenever its types can deserialize the body.
PostedOpens ==
  \A p \in posted : p[3].body \in Types[p[2]] =>
    \E s \in sent : /\ s.pubkey_sender = p[1]
                    /\ open(s, Peer(p[1], Keypair(p[2]).seckey), Types[p[2]]) = {p[3]}

\* No two texts are ever sealed with the same key and nonce, although a stored
\* message is sealed again and again under the nonce of its ID (message.rs:132)
\* and both ends of a pair seal with the same key.
NonceNamesOneText ==
  \A r, s \in sent :
    LET x == r.sealed_body
        y == s.sealed_body
    IN x.key = y.key /\ x.nonce = y.nonce => x.text = y.text

\* A receiver that keeps the IDs of what it has opened knows every repeat, and
\* takes nothing new for one (message.rs:73): whoever passes a message on, and
\* however often, it keeps the ID it was made with, and no other has it.
RepeatsRecognised ==
  \A o \in opened : o[3] \in made /\ \A m \in made : m.id = o[3].id => m = o[3]
=============================================================================
