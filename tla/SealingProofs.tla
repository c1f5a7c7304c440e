--------------------------- MODULE SealingProofs ---------------------------
(***************************************************************************)
(* Theorems about Sealing, checked by TLAPS for any number of peers,       *)
(* nonces, timestamps and bodies.  They rest on the cipher being what      *)
(* Sealing says it is, and on gen_nonce never returning a nonce twice.     *)
(***************************************************************************)
EXTENDS Sealing, TLAPS

\* The envelope of a message from a to b.
Envelope(a, b, m) == seal(a, Peer(b, Keypair(a).seckey), m)

\* One nonce, one message; everything kept or sent was made; and the
\* envelopes are those of what was posted.
IInv ==
  /\ TypeOK
  /\ \A m \in made : m.id.nonce \in used
  /\ \A m, n \in made : m.id.nonce = n.id.nonce => m = n
  /\ \A k \in Pubkey : store[k] \subseteq made
  /\ \A p \in posted : p[1] # p[2] /\ p[3] \in made /\ Envelope(p[1], p[2], p[3]) \in sent
  /\ \A s \in sent : \E p \in posted : s = Envelope(p[1], p[2], p[3])
  /\ opened \subseteq posted

-----------------------------------------------------------------------------
(* Envelopes. *)

\* What an envelope holds, field by field.
LEMMA EnvelopeFields ==
  ASSUME NEW a \in Pubkey, NEW b \in Pubkey, NEW m \in Message
  PROVE  LET s == Envelope(a, b, m)
         IN /\ s \in MessageSealed
            /\ s.pubkey_sender = a
            /\ s.nonce = m.id.nonce
            /\ s.sealed_body.key = {a, b}
            /\ s.sealed_body.nonce = m.id.nonce
            /\ s.sealed_body.text = m
BY DEF Envelope, seal, Peer, precompute, Keypair, MessageSealed, Message, MessageID

\* An envelope from a to b opens for c, as coming from a, only if c is b, and
\* gives what was sealed (MessageSealed::open).
LEMMA OpensForReceiver ==
  ASSUME NEW a \in Pubkey, NEW b \in Pubkey, a # b, NEW c \in Pubkey, NEW m \in Message,
         NEW x \in open(Envelope(a, b, m), Peer(a, Keypair(c).seckey), Types[c])
  PROVE  c = b /\ x = m
<1> DEFINE s == Envelope(a, b, m)
<1>1. s.sealed_body.key = {a, b} /\ s.sealed_body.text = m
  BY EnvelopeFields
<1>2. Peer(a, Keypair(c).seckey).precomputed = {a, c}
  BY DEF Peer, precompute, Keypair
<1> HIDE DEF s
<1>3. s.sealed_body.key = Peer(a, Keypair(c).seckey).precomputed /\ x = s.sealed_body.text
  BY DEF open, s
<1>4. {a, b} = {a, c}
  BY <1>1, <1>2, <1>3
<1> QED
  BY <1>1, <1>3, <1>4

\* It does open for b, if b's types can deserialize the body.
LEMMA OpensForB ==
  ASSUME NEW a \in Pubkey, NEW b \in Pubkey, NEW m \in Message, m.body \in Types[b]
  PROVE  open(Envelope(a, b, m), Peer(a, Keypair(b).seckey), Types[b]) = {m}
<1> DEFINE s == Envelope(a, b, m)
<1>1. s.sealed_body.key = {a, b} /\ s.sealed_body.text = m /\ s.sealed_body.nonce = s.nonce
  BY EnvelopeFields
<1>2. Peer(a, Keypair(b).seckey).precomputed = {a, b}
  BY DEF Peer, precompute, Keypair
<1> HIDE DEF s
<1>3. open(s, Peer(a, Keypair(b).seckey), Types[b]) = {m}
  BY <1>1, <1>2 DEF open
<1> QED
  BY <1>3 DEF s

-----------------------------------------------------------------------------
(* The invariant is inductive. *)

\* Posting a message that was made keeps the two histories in step.
LEMMA PostKeeps ==
  ASSUME IInv, NEW a \in Pubkey, NEW b \in Pubkey, a # b, NEW m \in Message,
         Post(a, b, m), m \in made', made \subseteq made'
  PROVE  /\ sent' \subseteq MessageSealed
         /\ posted' \subseteq Pubkey \X Pubkey \X Message
         /\ \A p \in posted' : p[1] # p[2] /\ p[3] \in made' /\ Envelope(p[1], p[2], p[3]) \in sent'
         /\ \A s \in sent' : \E p \in posted' : s = Envelope(p[1], p[2], p[3])
         /\ posted \subseteq posted'
<1> DEFINE e == <<a, b, m>>
<1>1. sent' = sent \cup {Envelope(a, b, m)} /\ posted' = posted \cup {e}
  BY DEF Post, Envelope
<1>2. Envelope(a, b, m) \in MessageSealed
  BY EnvelopeFields
<1>3. e \in Pubkey \X Pubkey \X Message /\ e[1] = a /\ e[2] = b /\ e[3] = m
  OBVIOUS
<1> HIDE DEF e
<1>4. sent' \subseteq MessageSealed /\ posted' \subseteq Pubkey \X Pubkey \X Message
  BY <1>1, <1>2, <1>3 DEF IInv, TypeOK
<1>5. \A p \in posted' : p[1] # p[2] /\ p[3] \in made' /\ Envelope(p[1], p[2], p[3]) \in sent'
  BY <1>1, <1>3 DEF IInv
<1>6. ASSUME NEW s \in sent'
      PROVE  \E p \in posted' : s = Envelope(p[1], p[2], p[3])
  <2>1. CASE s \in sent
    BY <2>1, <1>1 DEF IInv
  <2>2. CASE s = Envelope(a, b, m)
    BY <2>2, <1>1, <1>3
  <2> QED
    BY <1>1, <2>1, <2>2
<1> QED
  BY <1>1, <1>4, <1>5, <1>6

\* A message made with a fresh nonce is the only one with that nonce.
LEMMA FreshKeeps ==
  ASSUME IInv, NEW t \in Time, NEW n \in Nonce, NEW body \in Body, Fresh(n),
         made' = made \cup {new_message(t, n, body)}
  PROVE  /\ new_message(t, n, body) \in Message
         /\ used' \subseteq Nonce
         /\ made' \subseteq Message
         /\ \A x \in made' : x.id.nonce \in used'
         /\ \A x, y \in made' : x.id.nonce = y.id.nonce => x = y
<1> DEFINE m == new_message(t, n, body)
<1>1. m \in Message /\ m.id.nonce = n
  BY DEF new_message, Message, MessageID
<1> HIDE DEF m
<1>2. used' = used \cup {n} /\ n \notin used /\ made' = made \cup {m}
  BY DEF Fresh, m
<1>3. used' \subseteq Nonce /\ made' \subseteq Message
  BY <1>1, <1>2 DEF IInv, TypeOK
<1>4. \A x \in made' : x.id.nonce \in used'
  BY <1>1, <1>2 DEF IInv
<1>5. \A x \in made : x.id.nonce # n
  BY <1>2 DEF IInv
<1>6. \A x, y \in made' : x.id.nonce = y.id.nonce => x = y
  BY <1>1, <1>2, <1>5 DEF IInv
<1> QED
  BY <1>1, <1>3, <1>4, <1>6 DEF m

\* IInv holds at the start.
LEMMA Initially == Init => IInv
BY DEF Init, IInv, TypeOK

\* A handler's message keeps IInv.
LEMMA SendKeeps ==
  ASSUME IInv, NEW a \in Pubkey, NEW b \in Pubkey, a # b,
         NEW t \in Time, NEW n \in Nonce, NEW body \in Body, Send(a, b, t, n, body)
  PROVE  IInv'
<1> DEFINE m == new_message(t, n, body)
<1>1. Fresh(n) /\ made' = made \cup {m} /\ Post(a, b, m) /\ UNCHANGED <<store, opened>>
  BY DEF Send
<1>2. /\ m \in Message /\ used' \subseteq Nonce /\ made' \subseteq Message
      /\ \A x \in made' : x.id.nonce \in used'
      /\ \A x, y \in made' : x.id.nonce = y.id.nonce => x = y
  BY <1>1, FreshKeeps
<1> HIDE DEF m
<1>3. /\ sent' \subseteq MessageSealed
      /\ posted' \subseteq Pubkey \X Pubkey \X Message
      /\ \A p \in posted' : p[1] # p[2] /\ p[3] \in made' /\ Envelope(p[1], p[2], p[3]) \in sent'
      /\ \A s \in sent' : \E p \in posted' : s = Envelope(p[1], p[2], p[3])
      /\ posted \subseteq posted'
  BY <1>1, <1>2, PostKeeps
<1>4. TypeOK'
  BY <1>1, <1>2, <1>3 DEF IInv, TypeOK
<1>5. (\A k \in Pubkey : store[k] \subseteq made)'
  BY <1>1 DEF IInv
<1>6. (opened \subseteq posted)'
  BY <1>1, <1>3 DEF IInv
<1> QED
  BY <1>2, <1>3, <1>4, <1>5, <1>6 DEF IInv

\* A message for the host's own store keeps IInv.
LEMMA PublishKeeps ==
  ASSUME IInv, NEW a \in Pubkey, NEW t \in Time, NEW n \in Nonce, NEW body \in Body,
         Publish(a, t, n, body)
  PROVE  IInv'
<1> DEFINE m == new_message(t, n, body)
<1>1. /\ Fresh(n) /\ made' = made \cup {m}
      /\ store' = [store EXCEPT ![a] = @ \cup {m}]
      /\ UNCHANGED <<sent, posted, opened>>
  BY DEF Publish
<1>2. /\ m \in Message /\ used' \subseteq Nonce /\ made' \subseteq Message
      /\ \A x \in made' : x.id.nonce \in used'
      /\ \A x, y \in made' : x.id.nonce = y.id.nonce => x = y
  BY <1>1, FreshKeeps
<1> HIDE DEF m
<1>3. TypeOK'
  BY <1>1, <1>2 DEF IInv, TypeOK
<1>4. ASSUME NEW k \in Pubkey PROVE store'[k] \subseteq made'
  <2>1. store[k] \subseteq made /\ store \in [Pubkey -> SUBSET Message]
    BY DEF IInv, TypeOK
  <2> QED
    BY <1>1, <2>1
<1>5. \A p \in posted' : p[1] # p[2] /\ p[3] \in made' /\ Envelope(p[1], p[2], p[3]) \in sent'
  BY <1>1 DEF IInv
<1>6. \A s \in sent' : \E p \in posted' : s = Envelope(p[1], p[2], p[3])
  BY <1>1 DEF IInv
<1> QED
  BY <1>1, <1>2, <1>3, <1>4, <1>5, <1>6 DEF IInv

\* Passing on a stored message keeps IInv.
LEMMA PassOnKeeps ==
  ASSUME IInv, NEW a \in Pubkey, NEW b \in Pubkey, a # b, NEW m \in store[a], PassOn(a, b, m)
  PROVE  IInv'
<1>1. Post(a, b, m) /\ UNCHANGED <<used, store, made, opened>>
  BY DEF PassOn
<1>2. m \in made /\ m \in Message
  BY DEF IInv, TypeOK
<1>3. /\ sent' \subseteq MessageSealed
      /\ posted' \subseteq Pubkey \X Pubkey \X Message
      /\ \A p \in posted' : p[1] # p[2] /\ p[3] \in made' /\ Envelope(p[1], p[2], p[3]) \in sent'
      /\ \A s \in sent' : \E p \in posted' : s = Envelope(p[1], p[2], p[3])
      /\ posted \subseteq posted'
  BY <1>1, <1>2, PostKeeps
<1>4. TypeOK'
  BY <1>1, <1>3 DEF IInv, TypeOK
<1>5. (opened \subseteq posted)'
  BY <1>1, <1>3 DEF IInv
<1> QED
  BY <1>1, <1>3, <1>4, <1>5 DEF IInv

\* Opening an envelope, also one that strayed, keeps IInv.
LEMMA ReceiveKeeps ==
  ASSUME IInv, NEW b \in Pubkey, NEW s \in sent, Receive(b, s)
  PROVE  IInv'
<1>1. PICK m \in open(s, Peer(s.pubkey_sender, Keypair(b).seckey), Types[b]) :
        /\ opened' = opened \cup {<<s.pubkey_sender, b, m>>}
        /\ store' \in {store, [store EXCEPT ![b] = @ \cup {m}]}
  BY DEF Receive
<1>2. UNCHANGED <<used, sent, made, posted>>
  BY DEF Receive
<1>3. PICK p \in posted : s = Envelope(p[1], p[2], p[3])
  BY DEF IInv
<1>4. /\ p[1] \in Pubkey /\ p[2] \in Pubkey /\ p[3] \in Message /\ p = <<p[1], p[2], p[3]>>
      /\ p[1] # p[2] /\ p[3] \in made
  BY DEF IInv, TypeOK
<1>5. s.pubkey_sender = p[1]
  BY <1>3, <1>4, EnvelopeFields
<1>6. b = p[2] /\ m = p[3]
  BY <1>1, <1>3, <1>4, <1>5, OpensForReceiver
<1>7. <<s.pubkey_sender, b, m>> = p
  BY <1>4, <1>5, <1>6
<1>8. opened' \subseteq posted'
  BY <1>1, <1>2, <1>7 DEF IInv
<1>9. ASSUME NEW k \in Pubkey PROVE store'[k] \subseteq made
  <2>1. store[k] \subseteq made /\ store \in [Pubkey -> SUBSET Message] /\ m \in made
    BY <1>4, <1>6 DEF IInv, TypeOK
  <2> QED
    BY <1>1, <2>1
<1>10. TypeOK'
  <2>1. store' \in [Pubkey -> SUBSET Message]
    BY <1>1, <1>4, <1>6 DEF IInv, TypeOK
  <2>2. opened' \subseteq Pubkey \X Pubkey \X Message
    BY <1>2, <1>8 DEF IInv, TypeOK
  <2> QED
    BY <1>2, <2>1, <2>2 DEF IInv, TypeOK
<1> QED
  BY <1>2, <1>8, <1>9, <1>10 DEF IInv

\* Every step keeps IInv.
LEMMA StepKeeps == IInv /\ [Next]_vars => IInv'
<1> SUFFICES ASSUME IInv, [Next]_vars PROVE IInv'
  OBVIOUS
<1>1. CASE \E a, b \in Pubkey, t \in Time, n \in Nonce, body \in Body : a # b /\ Send(a, b, t, n, body)
  BY <1>1, SendKeeps
<1>2. CASE \E a \in Pubkey, t \in Time, n \in Nonce, body \in Body : Publish(a, t, n, body)
  BY <1>2, PublishKeeps
<1>3. CASE \E a, b \in Pubkey : a # b /\ \E m \in store[a] : PassOn(a, b, m)
  BY <1>3, PassOnKeeps
<1>4. CASE \E b \in Pubkey, s \in sent : Receive(b, s)
  BY <1>4, ReceiveKeeps
<1>5. CASE UNCHANGED vars
  BY <1>5 DEF vars, IInv, TypeOK
<1> QED
  BY <1>1, <1>2, <1>3, <1>4, <1>5 DEF Next

\* IInv holds throughout.
LEMMA Invariance == Spec => []IInv
<1> QED
  BY Initially, StepKeeps, PTL DEF Spec

-----------------------------------------------------------------------------
(* The theorems. *)

\* Everything keeps its type.
THEOREM TypeCorrect == Spec => []TypeOK
<1>1. IInv => TypeOK
  BY DEF IInv
<1> QED
  BY <1>1, Invariance, PTL

\* Whatever is opened was posted, unchanged, to whoever opens it by the peer
\* its envelope names: MessageSealed::open accepts nothing else.
THEOREM OpenedOnlyAsPosted == Spec => []OpenedWasPosted
<1>1. IInv => OpenedWasPosted
  BY DEF IInv, OpenedWasPosted
<1> QED
  BY <1>1, Invariance, PTL

\* Whatever is posted opens at its receiver: both ends compute the same key,
\* and the envelope carries the nonce of the message.
THEOREM PostedCanBeOpened == Spec => []PostedOpens
<1>1. ASSUME IInv PROVE PostedOpens
  <2> SUFFICES ASSUME NEW p \in posted, p[3].body \in Types[p[2]]
               PROVE  \E s \in sent :
                        /\ s.pubkey_sender = p[1]
                        /\ open(s, Peer(p[1], Keypair(p[2]).seckey), Types[p[2]]) = {p[3]}
    BY DEF PostedOpens
  <2>1. PICK a \in Pubkey, b \in Pubkey, m \in Message : p = <<a, b, m>>
    BY <1>1 DEF IInv, TypeOK
  <2>2. p[1] = a /\ p[2] = b /\ p[3] = m
    BY <2>1
  <2>3. Envelope(a, b, m) \in sent /\ m.body \in Types[b]
    BY <1>1, <2>2 DEF IInv
  <2>4. Envelope(a, b, m).pubkey_sender = a
    BY EnvelopeFields
  <2>5. open(Envelope(a, b, m), Peer(a, Keypair(b).seckey), Types[b]) = {m}
    BY <2>3, OpensForB
  <2> QED
    BY <2>2, <2>3, <2>4, <2>5
<1> QED
  BY <1>1, Invariance, PTL

\* No key and nonce ever seal two texts, however often and by whomever stored
\* messages are sealed again.
THEOREM NoNonceTwice == Spec => []NonceNamesOneText
<1>1. ASSUME IInv PROVE NonceNamesOneText
  <2> SUFFICES ASSUME NEW r \in sent, NEW s \in sent, r.sealed_body.nonce = s.sealed_body.nonce
               PROVE  r.sealed_body.text = s.sealed_body.text
    BY DEF NonceNamesOneText
  <2>1. PICK p \in posted : r = Envelope(p[1], p[2], p[3])
    BY <1>1 DEF IInv
  <2>2. PICK q \in posted : s = Envelope(q[1], q[2], q[3])
    BY <1>1 DEF IInv
  <2>3. /\ p[1] \in Pubkey /\ p[2] \in Pubkey /\ p[3] \in Message /\ p[3] \in made
        /\ q[1] \in Pubkey /\ q[2] \in Pubkey /\ q[3] \in Message /\ q[3] \in made
    BY <1>1 DEF IInv, TypeOK
  <2>4. /\ r.sealed_body.nonce = p[3].id.nonce /\ r.sealed_body.text = p[3]
        /\ s.sealed_body.nonce = q[3].id.nonce /\ s.sealed_body.text = q[3]
    BY <2>1, <2>2, <2>3, EnvelopeFields
  <2> QED
    BY <1>1, <2>3, <2>4 DEF IInv
<1> QED
  BY <1>1, Invariance, PTL

\* A message keeps the ID it was made with on every way it takes, and no other
\* message has it.
THEOREM IDsNameMessages == Spec => []RepeatsRecognised
<1>1. ASSUME IInv PROVE RepeatsRecognised
  <2> SUFFICES ASSUME NEW o \in opened
               PROVE  o[3] \in made /\ \A m \in made : m.id = o[3].id => m = o[3]
    BY DEF RepeatsRecognised
  <2>1. o[3] \in made
    BY <1>1 DEF IInv
  <2> QED
    BY <1>1, <2>1 DEF IInv
<1> QED
  BY <1>1, Invariance, PTL
=============================================================================
