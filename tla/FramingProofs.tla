--------------------------- MODULE FramingProofs ---------------------------
(***************************************************************************)
(* What FramedConnection promises, checked by TLAPS for bytes of any size, *)
(* reads of any length and any messages: the frames that come out of the   *)
(* buffer are the messages that were written, wherever reads end.          *)
(***************************************************************************)
EXTENDS Framing, SequenceTheorems, WellFoundedInduction, TLAPS

-----------------------------------------------------------------------------
(* Induction, with a set for the predicate. *)

\* A set of numbers that has 0 and, with a number, the next one has all.
LEMMA NatSets ==
  ASSUME NEW N, 0 \in N, \A n \in Nat : n \in N => n + 1 \in N
  PROVE  Nat \subseteq N
<1> DEFINE Missing == Nat \ N
           Less == {ss \in Nat \X Nat : ss[1] < ss[2]}
<1> SUFFICES ASSUME Missing # {} PROVE FALSE
  OBVIOUS
<1>1. IsWellFoundedOn(Less, Nat)
  BY NatLessThanWellFounded DEF OpToRel
<1>2. PICK m \in Missing : \A k \in Missing : <<k, m>> \notin Less
  <2>1. Missing \subseteq Nat /\ Missing # {}
    OBVIOUS
  <2> HIDE DEF Less, Missing
  <2> QED
    BY <1>1, <2>1, WFMin
<1>3. m \in Nat /\ m # 0 /\ m \notin N
  OBVIOUS
<1>4. m - 1 \in Nat /\ m - 1 < m
  BY <1>3
<1>5. m - 1 \notin Missing
  BY <1>2, <1>3, <1>4
<1> QED
  BY <1>3, <1>4, <1>5

\* A set of sequences that has the empty one and, with a sequence, every
\* longer one by one element has all.
LEMMA SeqSets ==
  ASSUME NEW S, NEW Q, <<>> \in Q, \A s \in Seq(S), e \in S : s \in Q => Append(s, e) \in Q
  PROVE  Seq(S) \subseteq Q
<1> DEFINE N == {n \in Nat : \A s \in Seq(S) : Len(s) = n => s \in Q}
<1>1. 0 \in N
  BY EmptySeq
<1>2. ASSUME NEW n \in Nat, n \in N PROVE n + 1 \in N
  <2> SUFFICES ASSUME NEW s \in Seq(S), Len(s) = n + 1 PROVE s \in Q
    BY <1>2
  <2>1. s # <<>>
    OBVIOUS
  <2>2. PICK t \in Seq(S), e \in S : s = Append(t, e)
    BY <2>1, SequenceEmptyOrAppend
  <2>3. Len(t) = n
    BY <2>2
  <2> QED
    BY <1>2, <2>2, <2>3
<1>3. Nat \subseteq N
  <2> HIDE DEF N
  <2> QED
    BY <1>1, <1>2, NatSets
<1> QED
  BY <1>3, LenProperties

-----------------------------------------------------------------------------
(* FlattenSeq. *)

\* What FlattenSeq's recursion asks of a function on the first n elements.
Flattens(f, ss, n) == f = [i \in 1..n |-> IF i = 1 THEN ss[i] ELSE f[i - 1] \o ss[i]]

\* There is such a function.
LEMMA FlattenExists ==
  ASSUME NEW ss, NEW n \in Nat
  PROVE  \E f : Flattens(f, ss, n)
<1> DEFINE N == {k \in Nat : \E f : Flattens(f, ss, k)}
<1>1. 0 \in N
  <2> DEFINE f == [i \in 1..0 |-> ss]
  <2>1. Flattens(f, ss, 0)
    BY DEF Flattens
  <2> QED
    BY <2>1
<1>2. ASSUME NEW k \in Nat, k \in N PROVE k + 1 \in N
  <2>1. PICK f : Flattens(f, ss, k)
    BY <1>2
  <2> DEFINE g == [i \in 1..k + 1 |-> IF i <= k THEN f[i] ELSE IF i = 1 THEN ss[i] ELSE f[i - 1] \o ss[i]]
  <2>2. ASSUME NEW i \in 1..k + 1 PROVE g[i] = IF i = 1 THEN ss[i] ELSE g[i - 1] \o ss[i]
    <3>1. CASE i <= k
      <4>1. i \in 1..k /\ (i # 1 => i - 1 \in 1..k)
        BY <3>1
      <4>2. g[i] = f[i] /\ (i # 1 => g[i - 1] = f[i - 1])
        BY <3>1, <4>1
      <4>3. f[i] = IF i = 1 THEN ss[i] ELSE f[i - 1] \o ss[i]
        BY <2>1, <4>1 DEF Flattens
      <4> HIDE DEF g
      <4> QED
        BY <4>2, <4>3
    <3>2. CASE i = k + 1
      <4>1. g[i] = (IF i = 1 THEN ss[i] ELSE f[i - 1] \o ss[i]) /\ (i # 1 => g[i - 1] = f[i - 1])
        BY <3>2
      <4> HIDE DEF g
      <4> QED
        BY <4>1
    <3> QED
      BY <3>1, <3>2
  <2>3. Flattens(g, ss, k + 1)
    <3>1. g = [i \in 1..k + 1 |-> g[i]]
      OBVIOUS
    <3> HIDE DEF g
    <3> QED
      BY <2>2, <3>1 DEF Flattens
  <2> HIDE DEF g
  <2> QED
    BY <2>3
<1>3. Nat \subseteq N
  <2> HIDE DEF N
  <2> QED
    BY <1>1, <1>2, NatSets
<1> QED
  BY <1>3

\* FlattenSeq is the last value of such a function.
LEMMA FlattenSeqDef ==
  ASSUME NEW ss, NEW n \in Nat \ {0}, Len(ss) = n
  PROVE  \E f : Flattens(f, ss, n) /\ FlattenSeq(ss) = f[n]
<1> DEFINE f == CHOOSE f : Flattens(f, ss, n)
<1>1. Flattens(f, ss, n)
  BY FlattenExists
<1>2. FlattenSeq(ss) = f[n]
  BY DEF FlattenSeq, Flattens
<1> QED
  BY <1>1, <1>2

\* FlattenSeq of no sequences is empty.
LEMMA FlattenEmpty == FlattenSeq(<<>>) = <<>>
BY DEF FlattenSeq

\* FlattenSeq of one more sequence has it at its end.
LEMMA FlattenAppend ==
  ASSUME NEW S, NEW ss \in Seq(Seq(S)), NEW x \in Seq(S)
  PROVE  FlattenSeq(Append(ss, x)) = FlattenSeq(ss) \o x
<1> DEFINE n == Len(ss)
           tt == Append(ss, x)
<1>1. n \in Nat /\ Len(tt) = n + 1 /\ tt[n + 1] = x /\ \A i \in 1..n : tt[i] = ss[i]
  BY AppendProperties
<1> HIDE DEF tt
<1>2. PICK g : Flattens(g, tt, n + 1) /\ FlattenSeq(tt) = g[n + 1]
  BY <1>1, FlattenSeqDef
<1>a. \A i \in 1..n + 1 : g[i] = IF i = 1 THEN tt[i] ELSE g[i - 1] \o tt[i]
  BY <1>2 DEF Flattens
<1>3. CASE n = 0
  <2>1. g[1] = tt[1]
    BY <1>1, <1>a
  <2>2. ss = <<>>
    BY <1>3
  <2> QED
    BY <1>1, <1>2, <1>3, <2>1, <2>2, FlattenEmpty, ConcatEmptySeq DEF tt
<1>4. CASE n # 0
  <2>1. PICK f : Flattens(f, ss, n) /\ FlattenSeq(ss) = f[n]
    BY <1>1, <1>4, FlattenSeqDef
  <2>a. \A i \in 1..n : f[i] = IF i = 1 THEN ss[i] ELSE f[i - 1] \o ss[i]
    BY <2>1 DEF Flattens
  <2> DEFINE N == {k \in Nat : k + 1 <= n => f[k + 1] = g[k + 1]}
  <2>2. 0 \in N
    BY <1>1, <1>a, <1>4, <2>a
  <2>3. ASSUME NEW k \in Nat, k \in N PROVE k + 1 \in N
    <3> SUFFICES ASSUME k + 2 <= n PROVE f[k + 2] = g[k + 2]
      OBVIOUS
    <3>1. k + 2 \in 1..n /\ k + 2 \in 1..n + 1 /\ k + 2 # 1 /\ (k + 2) - 1 = k + 1
      BY <1>1
    <3>2. f[k + 1] = g[k + 1] /\ tt[k + 2] = ss[k + 2]
      BY <1>1, <2>3, <3>1
    <3>3. f[k + 2] = f[k + 1] \o ss[k + 2]
      BY <2>a, <3>1
    <3>4. g[k + 2] = g[k + 1] \o tt[k + 2]
      BY <1>a, <3>1
    <3> QED
      BY <3>2, <3>3, <3>4
  <2>4. Nat \subseteq N
    <3> HIDE DEF N
    <3> QED
      BY <2>2, <2>3, NatSets
  <2>5. f[n] = g[n]
    <3>1. n - 1 \in Nat /\ (n - 1) + 1 = n
      BY <1>1, <1>4
    <3>2. n - 1 \in N
      BY <2>4, <3>1
    <3> QED
      BY <1>1, <3>1, <3>2
  <2>6. g[n + 1] = g[n] \o x
    <3>1. n + 1 \in 1..n + 1 /\ n + 1 # 1 /\ (n + 1) - 1 = n
      BY <1>1, <1>4
    <3> QED
      BY <1>1, <1>a, <3>1
  <2> QED
    BY <1>2, <2>1, <2>5, <2>6 DEF tt
<1> QED
  BY <1>3, <1>4

\* FlattenSeq returns a sequence over the same set.
LEMMA FlattenType ==
  ASSUME NEW S, NEW ss \in Seq(Seq(S))
  PROVE  FlattenSeq(ss) \in Seq(S)
<1> DEFINE Q == {tt \in Seq(Seq(S)) : FlattenSeq(tt) \in Seq(S)}
<1>1. <<>> \in Q
  BY FlattenEmpty, EmptySeq
<1>2. ASSUME NEW tt \in Seq(Seq(S)), NEW e \in Seq(S), tt \in Q PROVE Append(tt, e) \in Q
  <2>1. FlattenSeq(Append(tt, e)) = FlattenSeq(tt) \o e
    BY FlattenAppend
  <2>2. FlattenSeq(tt) \o e \in Seq(S) /\ Append(tt, e) \in Seq(Seq(S))
    BY <1>2, ConcatProperties, AppendProperties
  <2> QED
    BY <2>1, <2>2
<1>3. Seq(Seq(S)) \subseteq Q
  <2> HIDE DEF Q
  <2> QED
    BY <1>1, <1>2, SeqSets
<1> QED
  BY <1>3

\* FlattenSeq of a sequence put in front has it at its front.
LEMMA FlattenCons ==
  ASSUME NEW S, NEW ss \in Seq(Seq(S)), NEW x \in Seq(S)
  PROVE  FlattenSeq(<<x>> \o ss) = x \o FlattenSeq(ss)
<1> DEFINE Q == {tt \in Seq(Seq(S)) : FlattenSeq(<<x>> \o tt) = x \o FlattenSeq(tt)}
<1>1. <<x>> \in Seq(Seq(S))
  OBVIOUS
<1>2. <<>> \in Q
  <2>1. <<x>> \o <<>> = Append(<<>>, x)
    BY <1>1, ConcatEmptySeq
  <2>2. FlattenSeq(Append(<<>>, x)) = FlattenSeq(<<>>) \o x
    BY EmptySeq, FlattenAppend
  <2>3. <<>> \o x = x /\ x \o <<>> = x
    BY ConcatEmptySeq
  <2> QED
    BY <2>1, <2>2, <2>3, FlattenEmpty, EmptySeq
<1>3. ASSUME NEW tt \in Seq(Seq(S)), NEW e \in Seq(S), tt \in Q PROVE Append(tt, e) \in Q
  <2>1. <<x>> \o Append(tt, e) = Append(<<x>> \o tt, e)
    <3>1. Append(tt, e) = tt \o <<e>> /\ Append(<<x>> \o tt, e) = (<<x>> \o tt) \o <<e>>
      BY <1>1, AppendIsConcat, ConcatProperties
    <3>2. <<e>> \in Seq(Seq(S))
      OBVIOUS
    <3> QED
      BY <1>1, <3>1, <3>2, ConcatAssociative
  <2>2. FlattenSeq(Append(<<x>> \o tt, e)) = FlattenSeq(<<x>> \o tt) \o e
    BY <1>1, ConcatProperties, FlattenAppend
  <2>3. FlattenSeq(Append(tt, e)) = FlattenSeq(tt) \o e
    BY FlattenAppend
  <2>4. (x \o FlattenSeq(tt)) \o e = x \o (FlattenSeq(tt) \o e)
    <3>1. FlattenSeq(tt) \in Seq(S)
      BY FlattenType
    <3> HIDE DEF Q
    <3> QED
      BY <3>1, ConcatAssociative
  <2>5. FlattenSeq(<<x>> \o tt) = x \o FlattenSeq(tt)
    BY <1>3
  <2>6. FlattenSeq(<<x>> \o Append(tt, e)) = x \o FlattenSeq(Append(tt, e))
    BY <2>1, <2>2, <2>3, <2>4, <2>5
  <2>7. Append(tt, e) \in Seq(Seq(S))
    BY AppendProperties
  <2> QED
    BY <2>6, <2>7
<1>4. Seq(Seq(S)) \subseteq Q
  <2> HIDE DEF Q
  <2> QED
    BY <1>2, <1>3, SeqSets
<1> QED
  BY <1>4

-----------------------------------------------------------------------------
(* Lengths. *)

\* What \div and % return.
LEMMA Division ==
  ASSUME NEW n \in Nat, NEW b \in Nat \ {0}
  PROVE  /\ n \div b \in Nat /\ n % b \in 0..b - 1
         /\ n = b * (n \div b) + (n % b)
<1>1. n % b \in 0..b - 1
  OBVIOUS
<1>2. n \div b \in Nat
  OBVIOUS
<1>3. n = b * (n \div b) + (n % b)
  OBVIOUS
<1> QED
  BY <1>1, <1>2, <1>3

\* A product grows with its second factor.
LEMMA TimesMonotone ==
  ASSUME NEW a \in Nat, NEW b \in Nat, NEW c \in Nat, a >= b
  PROVE  c * a >= c * b
<1>1. PICK d \in Nat : a = b + d
  <2>1. a - b \in Nat /\ a = b + (a - b)
    OBVIOUS
  <2> QED
    BY <2>1
<1>2. c * a = c * b + c * d /\ c * d \in Nat
  BY <1>1
<1> QED
  BY <1>2

\* There is one quotient and one remainder.
LEMMA QuotientUnique ==
  ASSUME NEW n \in Nat, NEW b \in Nat \ {0}, NEW q \in Nat, NEW r \in 0..b - 1, n = b * q + r
  PROVE  n \div b = q /\ n % b = r
<1> DEFINE p == n \div b
           s == n % b
<1>1. p \in Nat /\ s \in 0..b - 1 /\ b * p + s = b * q + r
  BY Division
<1> HIDE DEF p, s
<1>2. p = q
  <2>1. ASSUME p < q PROVE FALSE
    <3>1. q = p + 1 + (q - p - 1) /\ q - p - 1 \in Nat
      BY <1>1, <2>1
    <3> DEFINE d == q - p - 1
    <3>2. b * q = b * p + b + b * d /\ b * d >= 0
      <4>1. d \in Nat /\ q = p + 1 + d
        BY <3>1
      <4> HIDE DEF d
      <4> QED
        BY <1>1, <4>1
    <3> QED
      BY <1>1, <3>2
  <2>2. ASSUME q < p PROVE FALSE
    <3>1. p = q + 1 + (p - q - 1) /\ p - q - 1 \in Nat
      BY <1>1, <2>2
    <3> DEFINE d == p - q - 1
    <3>2. b * p = b * q + b + b * d /\ b * d >= 0
      <4>1. d \in Nat /\ p = q + 1 + d
        BY <3>1
      <4> HIDE DEF d
      <4> QED
        BY <1>1, <4>1
    <3> QED
      BY <1>1, <3>2
  <2> QED
    BY <1>1, <2>1, <2>2
<1> QED
  BY <1>1, <1>2 DEF p, s

\* Dividing twice is dividing by the product.
LEMMA QuotientTwice ==
  ASSUME NEW n \in Nat, NEW a \in Nat \ {0}, NEW b \in Nat \ {0}
  PROVE  n \div (a * b) = (n \div a) \div b
<1> DEFINE q == n \div a
           r == n % a
           p == q \div b
           s == q % b
<1>1. q \in Nat /\ r \in 0..a - 1 /\ n = a * q + r
  BY Division
<1> HIDE DEF q, r
<1>2. p \in Nat /\ s \in 0..b - 1 /\ q = b * p + s
  BY <1>1, Division
<1> HIDE DEF p, s
<1>3. a * q = (a * b) * p + a * s
  BY <1>1, <1>2
<1>4. a * s <= a * (b - 1) /\ a * (b - 1) = a * b - a /\ a * s >= 0
  BY <1>2
<1>5. a * b \in Nat \ {0} /\ a * s + r \in 0..(a * b) - 1 /\ n = (a * b) * p + (a * s + r)
  BY <1>1, <1>2, <1>3, <1>4
<1> HIDE DEF q
<1>6. n \div (a * b) = p
  BY <1>2, <1>5, QuotientUnique
<1> QED
  BY <1>6 DEF p, q

\* Base and Wrap are large enough for what follows.
LEMMA WrapType == Base \in Nat /\ Base > 1 /\ Wrap \in Nat /\ Wrap > 15
  BY BaseAssumption DEF Wrap

\* A length is put as four bytes, whatever it is.
LEMMA LengthType ==
  ASSUME NEW n \in Nat
  PROVE  put_u32(n) \in Seq(Byte) /\ Len(put_u32(n)) = 4
<1>1. Base \in Nat \ {0} /\ Base * Base \in Nat \ {0} /\ Base * Base * Base \in Nat \ {0}
  BY BaseAssumption
<1>2. \A m \in Nat : m % Base \in Byte
  BY <1>1, Division DEF Byte
<1>3. /\ n \div Base \in Nat /\ n \div (Base * Base) \in Nat /\ n \div (Base * Base * Base) \in Nat
  BY <1>1, Division
<1>4. \A a, b, c, d \in Byte : <<a, b, c, d>> \in Seq(Byte) /\ Len(<<a, b, c, d>>) = 4
  OBVIOUS
<1> QED
  BY <1>2, <1>3, <1>4 DEF put_u32

\* Four bytes are read as a number.
LEMMA ReadType ==
  ASSUME NEW bytes \in Seq(Byte), Len(bytes) >= 4
  PROVE  u32(bytes) \in Nat
<1>1. Base \in Nat
  BY BaseAssumption
<1>2. bytes[1] \in Nat /\ bytes[2] \in Nat /\ bytes[3] \in Nat /\ bytes[4] \in Nat
  BY <1>1 DEF Byte
<1>3. \A a, b \in Nat : a * Base + b \in Nat
  BY <1>1
<1> QED
  BY <1>2, <1>3 DEF u32

\* The length is in the first four bytes.
LEMMA ReadFront ==
  ASSUME NEW a \in Seq(Byte), NEW b \in Seq(Byte), NEW c \in Seq(Byte), NEW d \in Seq(Byte),
         a \o b = c \o d, Len(a) >= 4, Len(c) >= 4
  PROVE  u32(a) = u32(c)
<1>1. ASSUME NEW i \in 1..4 PROVE a[i] = c[i]
  <2>1. (a \o b)[i] = a[i] /\ (c \o d)[i] = c[i]
    OBVIOUS
  <2> QED
    BY <2>1
<1>2. a[1] = c[1] /\ a[2] = c[2] /\ a[3] = c[3] /\ a[4] = c[4]
  BY <1>1
<1> QED
  BY <1>2 DEF u32

\* The reader computes the length that was written, up to the width of a u32.
LEMMA LengthRead ==
  ASSUME NEW n \in Nat, n < Wrap
  PROVE  u32(put_u32(n)) = n
<1> DEFINE q1 == n \div Base
           q2 == q1 \div Base
           q3 == q2 \div Base
<1>0. Base \in Nat \ {0} /\ Base * Base \in Nat \ {0} /\ Base * Base * Base \in Nat \ {0}
  BY BaseAssumption
<1>1. q1 \in Nat /\ n = Base * q1 + (n % Base) /\ n % Base \in Byte
  BY <1>0, Division DEF Byte
<1> HIDE DEF q1
<1>2. q2 \in Nat /\ q1 = Base * q2 + (q1 % Base) /\ q1 % Base \in Byte
  BY <1>0, <1>1, Division DEF Byte
<1> HIDE DEF q2
<1>3. q3 \in Nat /\ q2 = Base * q3 + (q2 % Base) /\ q2 % Base \in Byte
  BY <1>0, <1>2, Division DEF Byte
<1> HIDE DEF q3
<1>4. q3 % Base = q3 /\ q3 \in Byte
  <2>1. ASSUME q3 >= Base PROVE FALSE
    <3>1. q2 >= Base * q3 /\ q1 >= Base * q2 /\ n >= Base * q1
      BY <1>0, <1>1, <1>2, <1>3 DEF Byte
    <3>2. Base * q3 >= Base * Base
      BY <1>0, <1>3, <2>1, TimesMonotone
    <3>3. q2 >= Base * Base
      BY <1>0, <1>2, <1>3, <3>1, <3>2
    <3>4. Base * q2 >= Base * (Base * Base)
      BY <1>0, <1>2, <3>3, TimesMonotone
    <3>5. q1 >= Base * (Base * Base) /\ Base * (Base * Base) \in Nat
      BY <1>0, <1>1, <1>2, <3>1, <3>4
    <3>6. Base * q1 >= Base * (Base * (Base * Base))
      BY <1>0, <1>1, <3>5, TimesMonotone
    <3>7. Wrap = Base * (Base * (Base * Base))
      BY <1>0 DEF Wrap
    <3> QED
      BY <1>0, <1>1, <3>1, <3>6, <3>7, WrapType
  <2>2. q3 \in 0..Base - 1 /\ q3 = Base * 0 + q3
    BY <1>0, <1>3, <2>1
  <2> QED
    BY <1>0, <1>3, <2>2, QuotientUnique DEF Byte
<1>5. n \div (Base * Base) = q2 /\ n \div (Base * Base * Base) = q3
  <2>1. n \div (Base * Base) = q2
    BY <1>0, QuotientTwice DEF q1, q2
  <2>2. n \div ((Base * Base) * Base) = (n \div (Base * Base)) \div Base
    BY <1>0, QuotientTwice
  <2> QED
    BY <2>1, <2>2 DEF q3
<1>6. put_u32(n) = <<q3, q2 % Base, q1 % Base, n % Base>>
  BY <1>4, <1>5 DEF put_u32, q1
<1>7. u32(put_u32(n)) = ((q3 * Base + (q2 % Base)) * Base + (q1 % Base)) * Base + (n % Base)
  BY <1>6 DEF u32
<1>8. q3 * Base + (q2 % Base) = q2 /\ q2 * Base + (q1 % Base) = q1 /\ q1 * Base + (n % Base) = n
  BY <1>0, <1>1, <1>2, <1>3 DEF Byte
<1> QED
  BY <1>7, <1>8

-----------------------------------------------------------------------------
(* Frames. *)

\* A frame is the body and four bytes.
LEMMA FrameType ==
  ASSUME NEW body \in Seq(Byte)
  PROVE  create_framed_message(body) \in Seq(Byte) /\ Len(create_framed_message(body)) = Len(body) + 4
<1>1. Len(body) \in Nat
  OBVIOUS
<1>2. put_u32(Len(body)) \in Seq(Byte) /\ Len(put_u32(Len(body))) = 4
  BY <1>1, LengthType
<1>3. create_framed_message(body) = put_u32(Len(body)) \o body
  BY DEF create_framed_message
<1>4. /\ put_u32(Len(body)) \o body \in Seq(Byte)
      /\ Len(put_u32(Len(body)) \o body) = Len(put_u32(Len(body))) + Len(body)
  BY <1>2, ConcatProperties
<1> QED
  BY <1>1, <1>2, <1>3, <1>4

Frames(messages) == [i \in DOMAIN messages |-> create_framed_message(messages[i])]

\* The frames of messages are bytes.
LEMMA FramesType ==
  ASSUME NEW messages \in Seq(Seq(Byte))
  PROVE  Frames(messages) \in Seq(Seq(Byte)) /\ Framed(messages) \in Seq(Byte)
<1>1. Frames(messages) \in Seq(Seq(Byte))
  <2>1. DOMAIN messages = 1..Len(messages) /\ \A i \in 1..Len(messages) : messages[i] \in Seq(Byte)
    OBVIOUS
  <2>2. \A i \in 1..Len(messages) : create_framed_message(messages[i]) \in Seq(Byte)
    BY <2>1, FrameType
  <2> QED
    BY <2>1, <2>2 DEF Frames
<1> QED
  BY <1>1, FlattenType DEF Framed, Frames

\* No messages are no bytes.
LEMMA FramedEmpty == Framed(<<>>) = <<>>
<1>1. Frames(<<>>) = <<>>
  BY DEF Frames
<1> QED
  BY <1>1, FlattenEmpty DEF Framed, Frames

\* One more message puts its frame at the end.
LEMMA FramedAppend ==
  ASSUME NEW messages \in Seq(Seq(Byte)), NEW body \in Seq(Byte)
  PROVE  Framed(Append(messages, body)) = Framed(messages) \o create_framed_message(body)
<1>1. Frames(Append(messages, body)) = Append(Frames(messages), create_framed_message(body))
  <2>1. Append(messages, body) \in Seq(Seq(Byte)) /\ Append(Frames(messages), create_framed_message(body)) \in Seq(Seq(Byte))
    BY FramesType, FrameType, AppendProperties
  <2>2. Len(Frames(Append(messages, body))) = Len(messages) + 1 /\ Len(Frames(messages)) = Len(messages)
    BY <2>1, FramesType DEF Frames
  <2>3. ASSUME NEW i \in 1..Len(messages) + 1
        PROVE  Frames(Append(messages, body))[i] = Append(Frames(messages), create_framed_message(body))[i]
    <3>1. Frames(Append(messages, body))[i] = create_framed_message(Append(messages, body)[i])
      BY <2>1 DEF Frames
    <3>2. CASE i <= Len(messages)
      <4>1. Append(messages, body)[i] = messages[i]
        BY <3>2
      <4>2. Append(Frames(messages), create_framed_message(body))[i] = Frames(messages)[i]
        BY <2>2, <3>2, FramesType
      <4>3. Frames(messages)[i] = create_framed_message(messages[i])
        BY <3>2 DEF Frames
      <4> QED
        BY <3>1, <4>1, <4>2, <4>3
    <3>3. CASE i = Len(messages) + 1
      <4>1. Append(messages, body)[i] = body
        BY <3>3
      <4>2. Append(Frames(messages), create_framed_message(body))[i] = create_framed_message(body)
        BY <2>2, <3>3, FramesType
      <4> QED
        BY <3>1, <4>1, <4>2
    <3>4. i <= Len(messages) \/ i = Len(messages) + 1
      OBVIOUS
    <3> QED
      BY <3>2, <3>3, <3>4
  <2>4. Len(Append(Frames(messages), create_framed_message(body))) = Len(messages) + 1
    <3>1. Frames(messages) \in Seq(Seq(Byte)) /\ create_framed_message(body) \in Seq(Byte)
      BY FramesType, FrameType
    <3>2. Len(Append(Frames(messages), create_framed_message(body))) = Len(Frames(messages)) + 1
      BY <3>1, AppendProperties
    <3> QED
      BY <2>2, <3>2
  <2>5. Frames(Append(messages, body)) \in Seq(Seq(Byte))
    BY <2>1, FramesType
  <2> QED
    BY <2>1, <2>2, <2>3, <2>4, <2>5, SeqEqual
<1>2. FlattenSeq(Append(Frames(messages), create_framed_message(body))) = FlattenSeq(Frames(messages)) \o create_framed_message(body)
  BY FramesType, FrameType, FlattenAppend
<1> QED
  BY <1>1, <1>2 DEF Framed, Frames

\* The first of several messages has its frame at the front.
LEMMA FramedCons ==
  ASSUME NEW messages \in Seq(Seq(Byte)), messages # <<>>
  PROVE  Framed(messages) = create_framed_message(Head(messages)) \o Framed(Tail(messages))
<1> DEFINE h == create_framed_message(Head(messages))
<1>1. /\ Head(messages) = messages[1] /\ Head(messages) \in Seq(Byte) /\ Tail(messages) \in Seq(Seq(Byte))
      /\ Len(messages) \in Nat /\ Len(messages) > 0 /\ Len(Tail(messages)) = Len(messages) - 1
      /\ \A i \in 1..Len(messages) - 1 : Tail(messages)[i] = messages[i + 1]
  BY HeadTailProperties
<1>2. h \in Seq(Byte) /\ <<h>> \in Seq(Seq(Byte))
  BY <1>1, FrameType
<1>3. Frames(messages) = <<h>> \o Frames(Tail(messages))
  <2>1. /\ Frames(messages) \in Seq(Seq(Byte)) /\ Frames(Tail(messages)) \in Seq(Seq(Byte))
        /\ <<h>> \o Frames(Tail(messages)) \in Seq(Seq(Byte))
    BY <1>1, <1>2, FramesType, ConcatProperties
  <2>2. Len(Frames(messages)) = Len(messages) /\ Len(Frames(Tail(messages))) = Len(messages) - 1
    BY <1>1, <2>1 DEF Frames
  <2>3. Len(<<h>> \o Frames(Tail(messages))) = Len(messages)
    <3>1. Len(<<h>> \o Frames(Tail(messages))) = Len(<<h>>) + Len(Frames(Tail(messages)))
      BY <1>2, <2>1, ConcatProperties
    <3>2. Len(<<h>>) = 1
      OBVIOUS
    <3>3. Len(messages) \in Nat
      OBVIOUS
    <3> HIDE DEF h
    <3> QED
      BY <2>2, <3>1, <3>2, <3>3
  <2>4. ASSUME NEW i \in 1..Len(messages)
        PROVE  Frames(messages)[i] = (<<h>> \o Frames(Tail(messages)))[i]
    <3>1. Frames(messages)[i] = create_framed_message(messages[i])
      BY DEF Frames
    <3>2. CASE i = 1
      <4>1. (<<h>> \o Frames(Tail(messages)))[i] = h
        BY <1>2, <2>1, <2>2, <3>2
      <4> QED
        BY <1>1, <3>1, <3>2, <4>1
    <3>3. CASE i > 1
      <4>1. (<<h>> \o Frames(Tail(messages)))[i] = Frames(Tail(messages))[i - 1]
        BY <1>1, <1>2, <2>1, <2>2, <3>3
      <4>2. i - 1 \in 1..Len(messages) - 1 /\ i - 1 \in DOMAIN Tail(messages)
        BY <1>1, <3>3
      <4>3. Frames(Tail(messages))[i - 1] = create_framed_message(Tail(messages)[i - 1])
        BY <4>2 DEF Frames
      <4>4. Tail(messages)[i - 1] = messages[i]
        BY <1>1, <4>2
      <4> QED
        BY <3>1, <4>1, <4>3, <4>4
    <3>4. i = 1 \/ i > 1
      BY <1>1
    <3> QED
      BY <3>2, <3>3, <3>4
  <2> QED
    BY <2>1, <2>2, <2>3, <2>4, SeqEqual
<1>4. FlattenSeq(<<h>> \o Frames(Tail(messages))) = h \o FlattenSeq(Frames(Tail(messages)))
  BY <1>1, <1>2, FramesType, FlattenCons
<1> QED
  BY <1>3, <1>4 DEF Framed, Frames

\* What stands at the front of bytes is the first frame of what was written,
\* whatever follows, if all of it is there.
LEMMA FirstFrame ==
  ASSUME NEW bytes \in Seq(Byte), NEW ahead \in Seq(Byte), NEW body \in Seq(Byte), NEW rest \in Seq(Byte),
         Len(body) < Wrap, bytes \o ahead = create_framed_message(body) \o rest
  PROVE  /\ Len(bytes) >= 4 => u32(bytes) = Len(body)
         /\ HasFrame(bytes) => /\ FirstBody(bytes) = body
                              /\ AfterFirst(bytes) \in Seq(Byte)
                              /\ AfterFirst(bytes) \o ahead = rest
<1> DEFINE f == create_framed_message(body)
           n == Len(body)
           b == Len(bytes)
<1>1. n \in Nat /\ b \in Nat /\ f \in Seq(Byte) /\ Len(f) = n + 4 /\ Len(rest) \in Nat /\ Len(ahead) \in Nat
  <2>1. n \in Nat /\ b \in Nat /\ Len(rest) \in Nat /\ Len(ahead) \in Nat
    OBVIOUS
  <2> QED
    BY <2>1, FrameType
<1>2. f = put_u32(n) \o body /\ put_u32(n) \in Seq(Byte) /\ Len(put_u32(n)) = 4 /\ u32(put_u32(n)) = n
  BY <1>1, LengthType, LengthRead DEF create_framed_message
<1>3. \A i \in 1..n : f[i + 4] = body[i]
  BY <1>1, <1>2
<1>4. u32(f) = n
  <2>1. f \o <<>> = put_u32(n) \o body
    BY <1>1, <1>2, ConcatEmptySeq
  <2>2. /\ f \in Seq(Byte) /\ put_u32(n) \in Seq(Byte) /\ <<>> \in Seq(Byte)
        /\ Len(f) >= 4 /\ Len(put_u32(n)) >= 4
    BY <1>1, <1>2, EmptySeq
  <2> HIDE DEF f
  <2>3. u32(f) = u32(put_u32(n))
    BY <2>1, <2>2, ReadFront
  <2> QED
    BY <1>2, <2>3
<1> HIDE DEF f
<1>5. bytes \o ahead = f \o rest
  BY DEF f
<1>6. b >= 4 => u32(bytes) = n
  <2> SUFFICES ASSUME b >= 4 PROVE u32(bytes) = n
    OBVIOUS
  <2>1. Len(f) >= 4
    BY <1>1
  <2>2. u32(bytes) = u32(f)
    BY <1>1, <1>5, <2>1, ReadFront
  <2> QED
    BY <1>4, <2>2
<1>7. ASSUME HasFrame(bytes)
      PROVE  /\ FirstBody(bytes) = body /\ AfterFirst(bytes) \in Seq(Byte)
             /\ AfterFirst(bytes) \o ahead = rest
  <2>1. b >= n + 4 /\ u32(bytes) = n
    BY <1>1, <1>6, <1>7 DEF HasFrame
  <2>2. b + Len(ahead) = n + 4 + Len(rest)
    <3>1. Len(bytes \o ahead) = b + Len(ahead)
      BY ConcatProperties
    <3>2. Len(f \o rest) = Len(f) + Len(rest)
      BY <1>1, ConcatProperties
    <3> QED
      BY <1>1, <1>5, <3>1, <3>2
  <2>3. \A i \in 1..b + Len(ahead) : (bytes \o ahead)[i] = IF i <= b THEN bytes[i] ELSE ahead[i - b]
    BY <1>1, ConcatProperties
  <2>4. \A i \in 1..b + Len(ahead) : (f \o rest)[i] = IF i <= n + 4 THEN f[i] ELSE rest[i - (n + 4)]
    BY <1>1, <2>2, ConcatProperties
  <2>5. \A i \in 1..n + 4 : bytes[i] = f[i]
    BY <1>1, <1>5, <2>1, <2>3, <2>4
  <2>6. FirstBody(bytes) = body
    <3>1. FirstBody(bytes) = SubSeq(bytes, 5, n + 4)
      BY <2>1 DEF FirstBody
    <3>2. /\ SubSeq(bytes, 5, n + 4) \in Seq(Byte) /\ Len(SubSeq(bytes, 5, n + 4)) = n
          /\ \A i \in 1..n : SubSeq(bytes, 5, n + 4)[i] = bytes[i + 4]
      <4>1. \A i \in 5..n + 4 : bytes[i] \in Byte
        BY <1>1, <2>1
      <4> QED
        BY <1>1, <4>1, SubSeqProperties
    <3>3. \A i \in 1..n : SubSeq(bytes, 5, n + 4)[i] = body[i]
      <4>1. \A i \in 1..n : i + 4 \in 1..n + 4
        BY <1>1
      <4> QED
        BY <1>1, <1>3, <2>5, <3>2, <4>1
    <3> QED
      BY <3>1, <3>2, <3>3, SeqEqual
  <2>7. /\ AfterFirst(bytes) \in Seq(Byte) /\ Len(AfterFirst(bytes)) = b - (n + 4)
        /\ \A i \in 1..b - (n + 4) : AfterFirst(bytes)[i] = bytes[i + (n + 4)]
    <3>1. AfterFirst(bytes) = SubSeq(bytes, n + 5, b)
      BY <2>1 DEF AfterFirst
    <3>2. \A i \in n + 5..b : bytes[i] \in Byte
      BY <1>1
    <3> QED
      BY <1>1, <2>1, <3>1, <3>2, SubSeqProperties
  <2>8. AfterFirst(bytes) \o ahead = rest
    <3> DEFINE a == AfterFirst(bytes)
    <3>1. a \o ahead \in Seq(Byte) /\ Len(a \o ahead) = Len(rest)
      BY <1>1, <2>1, <2>2, <2>7, ConcatProperties
    <3>2. ASSUME NEW i \in 1..Len(rest) PROVE (a \o ahead)[i] = rest[i]
      <4> DEFINE j == i + (n + 4)
      <4>1. j \in 1..b + Len(ahead) /\ j > n + 4 /\ j - (n + 4) = i
        BY <1>1, <2>2
      <4>2. rest[i] = (bytes \o ahead)[j]
        BY <1>1, <1>5, <2>4, <4>1
      <4>3. (a \o ahead)[i] = IF i <= b - (n + 4) THEN a[i] ELSE ahead[i - (b - (n + 4))]
        BY <1>1, <2>1, <2>2, <2>7, ConcatProperties
      <4>4. CASE i <= b - (n + 4)
        <5>1. j <= b /\ i \in 1..b - (n + 4)
          BY <1>1, <4>4
        <5>2. a[i] = bytes[j]
          BY <2>7, <5>1
        <5> QED
          BY <2>3, <4>1, <4>2, <4>3, <4>4, <5>1, <5>2
      <4>5. CASE ~(i <= b - (n + 4))
        <5>1. ~(j <= b) /\ j - b = i - (b - (n + 4))
          BY <1>1, <4>5
        <5> QED
          BY <2>3, <4>1, <4>2, <4>3, <4>5, <5>1
      <4> QED
        BY <4>4, <4>5
    <3> QED
      BY <3>1, <3>2, SeqEqual
  <2> QED
    BY <2>6, <2>7, <2>8
<1> QED
  BY <1>6, <1>7

\* Bytes with nothing ahead that begin with a frame have it whole.
LEMMA WholeFrame ==
  ASSUME NEW bytes \in Seq(Byte), NEW body \in Seq(Byte), NEW rest \in Seq(Byte), Len(body) < Wrap,
         bytes \o <<>> = create_framed_message(body) \o rest
  PROVE  HasFrame(bytes)
<1> DEFINE f == create_framed_message(body)
<1>1. f \in Seq(Byte) /\ Len(f) = Len(body) + 4 /\ Len(body) \in Nat /\ Len(rest) \in Nat /\ Len(bytes) \in Nat
  <2>1. Len(body) \in Nat /\ Len(rest) \in Nat /\ Len(bytes) \in Nat
    OBVIOUS
  <2> QED
    BY <2>1, FrameType
<1> HIDE DEF f
<1>2. bytes = f \o rest /\ Len(f \o rest) = Len(f) + Len(rest)
  BY <1>1, ConcatEmptySeq, ConcatProperties DEF f
<1>3. Len(bytes) >= Len(body) + 4
  BY <1>1, <1>2
<1>4. u32(bytes) = Len(body)
  <2>1. Len(bytes) >= 4 /\ <<>> \in Seq(Byte)
    BY <1>1, <1>3, EmptySeq
  <2>2. Len(bytes) >= 4 => u32(bytes) = Len(body)
    BY <2>1, FirstFrame
  <2> QED
    BY <2>1, <2>2
<1> QED
  BY <1>1, <1>3, <1>4 DEF HasFrame

\* A part of an unfinished frame is no frame either, and its length the same.
LEMMA NoFrame ==
  ASSUME NEW bytes \in Seq(Byte), NEW ahead \in Seq(Byte), NEW unfinished \in Seq(Byte),
         bytes \o ahead = unfinished, ~HasFrame(unfinished)
  PROVE  ~HasFrame(bytes) /\ (Overflows(bytes) => Overflows(unfinished))
<1>1. Len(unfinished) = Len(bytes) + Len(ahead) /\ Len(bytes) \in Nat /\ Len(ahead) \in Nat
  BY ConcatProperties
<1>2. Len(bytes) >= 4 => u32(bytes) = u32(unfinished) /\ u32(bytes) \in Nat
  <2> SUFFICES ASSUME Len(bytes) >= 4 PROVE u32(bytes) = u32(unfinished) /\ u32(bytes) \in Nat
    OBVIOUS
  <2>1. bytes \o ahead = unfinished \o <<>> /\ <<>> \in Seq(Byte) /\ Len(unfinished) >= 4
    BY <1>1, ConcatEmptySeq, EmptySeq
  <2>2. u32(bytes) = u32(unfinished)
    BY <2>1, ReadFront
  <2> QED
    BY <2>2, ReadType
<1> QED
  BY <1>1, <1>2, WrapType DEF HasFrame, Overflows

-----------------------------------------------------------------------------
(* The loop of frame_decode. *)

Decoding == [panic : BOOLEAN, frames : Seq(Seq(Byte)), rest : Seq(Byte)]

\* The loop has returned or panicked.
Returns(r) == r.panic \/ (~HasFrame(r.rest) /\ ~Overflows(r.rest))

\* The first frame and what is after it are bytes; four at least are taken.
LEMMA BodyType ==
  ASSUME NEW bytes \in Seq(Byte), HasFrame(bytes)
  PROVE  /\ FirstBody(bytes) \in Seq(Byte) /\ AfterFirst(bytes) \in Seq(Byte)
         /\ Len(AfterFirst(bytes)) <= Len(bytes) - 4
<1> DEFINE n == u32(bytes)
           b == Len(bytes)
<1>1. n \in Nat /\ b \in Nat /\ b >= n + 4
  BY ReadType DEF HasFrame
<1>2. FirstBody(bytes) = SubSeq(bytes, 5, n + 4) /\ AfterFirst(bytes) = SubSeq(bytes, n + 5, b)
  BY DEF FirstBody, AfterFirst
<1> HIDE DEF n
<1>3. (\A i \in 5..n + 4 : bytes[i] \in Byte) /\ (\A i \in n + 5..b : bytes[i] \in Byte)
  BY <1>1
<1>4. SubSeq(bytes, 5, n + 4) \in Seq(Byte)
  BY <1>1, <1>3, SubSeqProperties
<1>5. SubSeq(bytes, n + 5, b) \in Seq(Byte) /\ Len(SubSeq(bytes, n + 5, b)) = IF n + 5 <= b THEN b - (n + 5) + 1 ELSE 0
  BY <1>1, <1>3, SubSeqProperties
<1> QED
  BY <1>1, <1>2, <1>4, <1>5

\* A round returns a decoding; it returns for good or takes four bytes.
LEMMA RoundType ==
  ASSUME NEW r \in Decoding
  PROVE  /\ decode_round(r) \in Decoding
         /\ Returns(decode_round(r)) \/ Len(decode_round(r).rest) <= Len(r.rest) - 4
<1>1. r.rest \in Seq(Byte) /\ r.frames \in Seq(Seq(Byte)) /\ r.panic \in BOOLEAN
  BY DEF Decoding
<1>2. CASE Overflows(r.rest)
  BY <1>1, <1>2, EmptySeq DEF decode_round, Decoding, Returns
<1>3. CASE ~Overflows(r.rest) /\ HasFrame(r.rest)
  <2>1. /\ FirstBody(r.rest) \in Seq(Byte) /\ AfterFirst(r.rest) \in Seq(Byte)
        /\ Len(AfterFirst(r.rest)) <= Len(r.rest) - 4
    BY <1>1, <1>3, BodyType
  <2>2. decode_round(r) = [panic |-> r.panic, frames |-> Append(r.frames, FirstBody(r.rest)), rest |-> AfterFirst(r.rest)]
    BY <1>3 DEF decode_round, Decoding
  <2>3. Append(r.frames, FirstBody(r.rest)) \in Seq(Seq(Byte))
    BY <1>1, <2>1, AppendProperties
  <2> QED
    BY <1>1, <2>1, <2>2, <2>3 DEF Decoding
<1>4. CASE ~Overflows(r.rest) /\ ~HasFrame(r.rest)
  BY <1>4 DEF decode_round, Returns
<1> QED
  BY <1>2, <1>3, <1>4

\* What frame_decode's recursion asks of the rounds, n of them.
Loops(f, bytes, n) == f = [i \in 0..n |-> IF i = 0 THEN Undecoded(bytes) ELSE decode_round(f[i - 1])]

\* There is such a function.
LEMMA LoopExists ==
  ASSUME NEW bytes, NEW n \in Nat
  PROVE  \E f : Loops(f, bytes, n)
<1> DEFINE N == {k \in Nat : \E f : Loops(f, bytes, k)}
<1>1. 0 \in N
  <2> DEFINE f == [i \in 0..0 |-> Undecoded(bytes)]
  <2>1. Loops(f, bytes, 0)
    BY DEF Loops
  <2> HIDE DEF f
  <2> QED
    BY <2>1
<1>2. ASSUME NEW k \in Nat, k \in N PROVE k + 1 \in N
  <2>1. PICK f : Loops(f, bytes, k)
    BY <1>2
  <2> DEFINE g == [i \in 0..k + 1 |-> IF i <= k THEN f[i] ELSE decode_round(f[i - 1])]
  <2>2. ASSUME NEW i \in 0..k + 1 PROVE g[i] = IF i = 0 THEN Undecoded(bytes) ELSE decode_round(g[i - 1])
    <3>1. CASE i <= k
      <4>1. i \in 0..k /\ (i # 0 => i - 1 \in 0..k)
        BY <3>1
      <4>2. g[i] = f[i] /\ (i # 0 => g[i - 1] = f[i - 1])
        BY <3>1, <4>1
      <4>3. f[i] = IF i = 0 THEN Undecoded(bytes) ELSE decode_round(f[i - 1])
        BY <2>1, <4>1 DEF Loops
      <4> HIDE DEF g
      <4> QED
        BY <4>2, <4>3
    <3>2. CASE i = k + 1
      <4>1. g[i] = decode_round(f[i - 1]) /\ i # 0 /\ g[i - 1] = f[i - 1]
        BY <3>2
      <4> HIDE DEF g
      <4> QED
        BY <4>1
    <3> QED
      BY <3>1, <3>2
  <2>3. Loops(g, bytes, k + 1)
    <3>1. g = [i \in 0..k + 1 |-> g[i]]
      OBVIOUS
    <3> HIDE DEF g
    <3> QED
      BY <2>2, <3>1 DEF Loops
  <2> HIDE DEF g
  <2> QED
    BY <2>3
<1>3. Nat \subseteq N
  <2> HIDE DEF N
  <2> QED
    BY <1>1, <1>2, NatSets
<1> QED
  BY <1>3

\* The same, without the domain.
LoopOf(f, bytes, n) ==
  /\ f[0] = Undecoded(bytes)
  /\ \A i \in 1..n : f[i] = decode_round(f[i - 1])

\* frame_decode is the last round of such a function.
LEMMA DecodeDef ==
  ASSUME NEW bytes, NEW n \in Nat, n = Len(bytes) \div 4
  PROVE  \E f : LoopOf(f, bytes, n) /\ frame_decode(bytes) = f[n]
<1> DEFINE f == CHOOSE f : Loops(f, bytes, n)
<1>1. Loops(f, bytes, n)
  BY LoopExists
<1>2. frame_decode(bytes) = f[n]
  BY DEF frame_decode, Loops
<1> HIDE DEF f
<1>3. f[0] = Undecoded(bytes) /\ \A i \in 1..n : f[i] = decode_round(f[i - 1])
  BY <1>1 DEF Loops
<1>4. LoopOf(f, bytes, n)
  BY <1>3 DEF LoopOf
<1> QED
  BY <1>2, <1>4

\* A property of the rounds, as a set, that the first has and every round
\* hands on is one of what frame_decode returns; and it returns when there is
\* no whole frame left.
LEMMA LoopInvariant ==
  ASSUME NEW bytes \in Seq(Byte), NEW Q, Undecoded(bytes) \in Q,
         \A r \in Decoding : r \in Q => decode_round(r) \in Q,
         \A r \in Decoding : r \in Q /\ Returns(r) => decode_round(r) = r
  PROVE  frame_decode(bytes) \in Decoding /\ frame_decode(bytes) \in Q /\ Returns(frame_decode(bytes))
<1> DEFINE b == Len(bytes)
           n == b \div 4
<1>1. b \in Nat /\ n \in Nat /\ b < 4 * n + 4
  <2>1. b \in Nat
    OBVIOUS
  <2> HIDE DEF b
  <2> QED
    BY <2>1
<1> HIDE DEF n, b
<1>2. PICK f : LoopOf(f, bytes, n) /\ frame_decode(bytes) = f[n]
  <2>1. n = Len(bytes) \div 4 /\ n \in Nat
    BY <1>1 DEF n, b
  <2> QED
    BY <2>1, DecodeDef
<1> DEFINE P(i) == f[i] \in Decoding /\ f[i] \in Q /\ (Returns(f[i]) \/ Len(f[i].rest) <= b - 4 * i)
           N == {i \in Nat : i <= n => P(i)}
<1>3. P(0)
  <2>1. f[0] \in Decoding /\ f[0].rest = bytes
    BY <1>2, EmptySeq DEF LoopOf, Undecoded, Decoding
  <2>2. Len(f[0].rest) <= b - 4 * 0
    BY <1>1, <2>1 DEF b
  <2> QED
    BY <1>2, <2>1, <2>2 DEF LoopOf
<1>4. ASSUME NEW i \in Nat, i + 1 <= n, P(i) PROVE P(i + 1)
  <2>1. f[i] \in Decoding /\ f[i] \in Q /\ (Returns(f[i]) \/ Len(f[i].rest) <= b - 4 * i)
    BY <1>4
  <2>2. f[i + 1] = decode_round(f[i])
    <3>1. i + 1 \in 1..n /\ (i + 1) - 1 = i
      BY <1>1, <1>4
    <3> QED
      BY <1>2, <3>1 DEF LoopOf
  <2>3. f[i + 1] \in Decoding /\ f[i + 1] \in Q
    BY <2>1, <2>2, RoundType
  <2>4. CASE Returns(f[i])
    BY <2>1, <2>2, <2>3, <2>4
  <2>5. CASE ~Returns(f[i])
    <3>1. Len(f[i].rest) \in Nat /\ Len(f[i + 1].rest) \in Nat
      BY <2>1, <2>3 DEF Decoding
    <3>2. Returns(f[i + 1]) \/ Len(f[i + 1].rest) <= Len(f[i].rest) - 4
      BY <2>1, <2>2, RoundType
    <3>3. Len(f[i].rest) <= b - 4 * i
      BY <2>1, <2>5
    <3>4. Len(f[i + 1].rest) <= Len(f[i].rest) - 4 => Len(f[i + 1].rest) <= b - 4 * (i + 1)
      <4>1. \A x, y \in Nat : x <= b - 4 * i /\ y <= x - 4 => y <= b - 4 * (i + 1)
        BY <1>1
      <4> QED
        BY <3>1, <3>3, <4>1
    <3> QED
      BY <2>3, <3>2, <3>4
  <2> QED
    BY <2>4, <2>5
<1>5. P(n)
  <2> HIDE DEF P
  <2>1. 0 \in N
    BY <1>3
  <2>2. ASSUME NEW i \in Nat, i \in N PROVE i + 1 \in N
    <3>1. i + 1 <= n => i <= n
      BY <1>1
    <3> QED
      BY <1>4, <2>2, <3>1
  <2>3. Nat \subseteq N
    <3> HIDE DEF N
    <3> QED
      BY <2>1, <2>2, NatSets
  <2>4. n \in N /\ n <= n
    BY <1>1, <2>3
  <2> QED
    BY <2>4
<1>6. Len(f[n].rest) <= b - 4 * n => Returns(f[n])
  <2> SUFFICES ASSUME Len(f[n].rest) <= b - 4 * n PROVE Returns(f[n])
    OBVIOUS
  <2>1. Len(f[n].rest) \in Nat
    BY <1>5 DEF Decoding
  <2>2. ~(Len(f[n].rest) >= 4)
    <3>1. \A x \in Nat : x <= b - 4 * n => ~(x >= 4)
      BY <1>1
    <3> QED
      BY <2>1, <3>1
  <2> QED
    BY <2>2 DEF Returns, HasFrame, Overflows
<1> QED
  BY <1>2, <1>5, <1>6

-----------------------------------------------------------------------------
(* What frame_decode returns when it is given the front of a stream of frames. *)

\* The round r, of the decoding of bytes that messages and an unfinished frame
\* after them were written as, but for the bytes ahead.
Decodes(r, S, messages, unfinished, ahead) ==
  /\ r.panic =>
       /\ r.frames = <<>> /\ Overflows(r.rest)
       /\ (\E i \in 1..Len(messages) : ~Small(messages[i])) \/ Overflows(unfinished)
  /\ ~r.panic =>
       \E left \in Seq(S) : /\ messages = r.frames \o left
                            /\ r.rest \o ahead = Framed(left) \o unfinished

\* The first element of what is left goes to what is taken.
LEMMA TakeFirst ==
  ASSUME NEW S, NEW s \in Seq(S), NEW t \in Seq(S), t # <<>>
  PROVE  /\ Head(t) \in S /\ Tail(t) \in Seq(S)
         /\ s \o t = Append(s, Head(t)) \o Tail(t)
         /\ Len(s) + 1 \in 1..Len(s \o t) /\ (s \o t)[Len(s) + 1] = Head(t)
<1>1. Head(t) = t[1] /\ Head(t) \in S /\ Tail(t) \in Seq(S) /\ Len(t) >= 1
      /\ Len(Tail(t)) = Len(t) - 1 /\ \A i \in 1..Len(t) - 1 : Tail(t)[i] = t[i + 1]
  <2>1. Len(t) # 0
    BY EmptySeq
  <2> QED
    BY <2>1, HeadTailProperties
<1>2. Append(s, Head(t)) \in Seq(S) /\ Len(Append(s, Head(t))) = Len(s) + 1
      /\ Append(s, Head(t))[Len(s) + 1] = Head(t) /\ \A i \in 1..Len(s) : Append(s, Head(t))[i] = s[i]
  BY <1>1, AppendProperties
<1>3. s \o t \in Seq(S) /\ Len(s \o t) = Len(s) + Len(t)
      /\ \A i \in 1..Len(s) + Len(t) : (s \o t)[i] = IF i <= Len(s) THEN s[i] ELSE t[i - Len(s)]
  BY ConcatProperties
<1>4. Append(s, Head(t)) \o Tail(t) \in Seq(S) /\ Len(Append(s, Head(t)) \o Tail(t)) = Len(s) + Len(t)
      /\ \A i \in 1..Len(s) + Len(t) : (Append(s, Head(t)) \o Tail(t))[i] =
             IF i <= Len(s) + 1 THEN Append(s, Head(t))[i] ELSE Tail(t)[i - (Len(s) + 1)]
  <2> DEFINE a == Append(s, Head(t))
             b == Tail(t)
  <2>1. a \in Seq(S) /\ b \in Seq(S) /\ Len(a) + Len(b) = Len(s) + Len(t) /\ Len(a) = Len(s) + 1
    BY <1>1, <1>2
  <2> HIDE DEF a, b
  <2>2. a \o b \in Seq(S) /\ Len(a \o b) = Len(a) + Len(b)
        /\ \A i \in 1..Len(a) + Len(b) : (a \o b)[i] = IF i <= Len(a) THEN a[i] ELSE b[i - Len(a)]
    BY <2>1, ConcatProperties
  <2>3. a \o b \in Seq(S) /\ Len(a \o b) = Len(s) + Len(t)
        /\ \A i \in 1..Len(s) + Len(t) : (a \o b)[i] = IF i <= Len(s) + 1 THEN a[i] ELSE b[i - (Len(s) + 1)]
    BY <2>1, <2>2
  <2> QED
    BY <2>3 DEF a, b
<1>5. ASSUME NEW i \in 1..Len(s) + Len(t) PROVE (s \o t)[i] = (Append(s, Head(t)) \o Tail(t))[i]
  <2>1. CASE i <= Len(s)
    BY <1>2, <1>3, <1>4, <2>1
  <2>2. CASE i = Len(s) + 1
    BY <1>1, <1>2, <1>3, <1>4, <2>2
  <2>3. CASE i > Len(s) + 1
    <3>1. i - (Len(s) + 1) \in 1..Len(t) - 1 /\ i - (Len(s) + 1) + 1 = i - Len(s)
      BY <2>3
    <3>2. Tail(t)[i - (Len(s) + 1)] = t[i - Len(s)]
      BY <1>1, <3>1
    <3> QED
      BY <1>3, <1>4, <2>3, <3>2
  <2> QED
    BY <2>1, <2>2, <2>3
<1>6. s \o t = Append(s, Head(t)) \o Tail(t)
  <2> DEFINE a == s \o t
             b == Append(s, Head(t)) \o Tail(t)
  <2>1. a \in Seq(S) /\ b \in Seq(S) /\ Len(a) = Len(b) /\ \A i \in 1..Len(a) : a[i] = b[i]
    BY <1>3, <1>4, <1>5
  <2> HIDE DEF a, b
  <2>2. a = b
    BY <2>1, SeqEqual
  <2> QED
    BY <2>2 DEF a, b
<1>7. Len(s) + 1 \in 1..Len(s \o t) /\ (s \o t)[Len(s) + 1] = Head(t)
  BY <1>1, <1>3
<1> QED
  BY <1>1, <1>6, <1>7

\* One frame of several in front, at the level of the bytes.
LEMMA FramesInFront ==
  ASSUME NEW S, S \subseteq Seq(Byte), NEW left \in Seq(S), left # <<>>, NEW unfinished \in Seq(Byte)
  PROVE  /\ Head(left) \in S /\ Tail(left) \in Seq(S) /\ Framed(Tail(left)) \o unfinished \in Seq(Byte)
         /\ Framed(left) \o unfinished = create_framed_message(Head(left)) \o (Framed(Tail(left)) \o unfinished)
<1>1. Head(left) \in S /\ Tail(left) \in Seq(S)
  BY HeadTailProperties, EmptySeq
<1>2. left \in Seq(Seq(Byte)) /\ Tail(left) \in Seq(Seq(Byte)) /\ Head(left) \in Seq(Byte)
  BY <1>1, SeqMonotonic
<1> DEFINE a == create_framed_message(Head(left))
           b == Framed(Tail(left))
<1>3. a \in Seq(Byte) /\ b \in Seq(Byte) /\ Framed(left) = a \o b
  BY <1>2, FrameType, FramesType, FramedCons
<1> HIDE DEF a, b
<1>4. b \o unfinished \in Seq(Byte) /\ (a \o b) \o unfinished = a \o (b \o unfinished)
  BY <1>3, ConcatProperties, ConcatAssociative
<1> QED
  BY <1>1, <1>3, <1>4 DEF a, b

\* A round keeps to what Decodes says, and a round after the loop's return
\* changes nothing.
LEMMA RoundDecodes ==
  ASSUME NEW S, S \subseteq Seq(Byte), \A x \in S : Len(x) < Wrap,
         NEW messages \in Seq(S), NEW unfinished \in Seq(Byte), ~HasFrame(unfinished), NEW ahead \in Seq(Byte),
         NEW r \in Decoding, Decodes(r, S, messages, unfinished, ahead)
  PROVE  /\ Decodes(decode_round(r), S, messages, unfinished, ahead)
         /\ Returns(r) => decode_round(r) = r
<1>1. r.rest \in Seq(Byte) /\ r.frames \in Seq(Seq(Byte)) /\ r.panic \in BOOLEAN
      /\ r = [panic |-> r.panic, frames |-> r.frames, rest |-> r.rest]
  BY DEF Decoding
<1>2. CASE r.panic
  <2>1. decode_round(r) = r
    <3>1. r.frames = <<>> /\ Overflows(r.rest) /\ r.panic = TRUE
      BY <1>1, <1>2 DEF Decodes
    <3> QED
      BY <1>1, <3>1 DEF decode_round
  <2> QED
    BY <2>1
<1>3. CASE ~r.panic
  <2>1. PICK left \in Seq(S) : messages = r.frames \o left /\ r.rest \o ahead = Framed(left) \o unfinished
    BY <1>3 DEF Decodes
  <2>2. CASE left = <<>>
    <3>1. r.rest \o ahead = unfinished
      BY <2>1, <2>2, FramedEmpty, ConcatEmptySeq
    <3>2. ~HasFrame(r.rest) /\ (Overflows(r.rest) => Overflows(unfinished))
      BY <1>1, <3>1, NoFrame
    <3>3. CASE Overflows(r.rest)
      BY <1>3, <3>2, <3>3 DEF decode_round, Decodes, Returns
    <3>4. CASE ~Overflows(r.rest)
      BY <3>2, <3>4 DEF decode_round
    <3> QED
      BY <3>3, <3>4
  <2>3. CASE left # <<>>
    <3> DEFINE body == Head(left)
               after == Framed(Tail(left)) \o unfinished
    <3>1. /\ body \in S /\ body \in Seq(Byte) /\ Len(body) < Wrap /\ Tail(left) \in Seq(S) /\ after \in Seq(Byte)
          /\ r.rest \o ahead = create_framed_message(body) \o after
      BY <2>1, <2>3, FramesInFront
    <3> HIDE DEF after
    <3>2. /\ Len(r.rest) >= 4 => u32(r.rest) = Len(body)
          /\ HasFrame(r.rest) => FirstBody(r.rest) = body /\ AfterFirst(r.rest) \o ahead = after
      BY <1>1, <3>1, FirstFrame
    <3>3. CASE Overflows(r.rest)
      <4>1. ~Small(body)
        <5>1. Len(body) \in Nat
          BY <3>1
        <5> HIDE DEF body
        <5> QED
          BY <3>2, <3>3, <5>1, WrapType DEF Overflows, Small
      <4>2. \E i \in 1..Len(messages) : messages[i] = body
        <5>1. r.frames \in Seq(Seq(Byte)) /\ left \in Seq(Seq(Byte))
          BY <1>1, SeqMonotonic
        <5>2. Len(r.frames) + 1 \in 1..Len(r.frames \o left) /\ (r.frames \o left)[Len(r.frames) + 1] = Head(left)
          BY <2>3, <5>1, TakeFirst
        <5> QED
          BY <2>1, <5>2
      <4>3. decode_round(r) = [panic |-> TRUE, frames |-> <<>>, rest |-> r.rest]
        BY <3>3 DEF decode_round
      <4>4. ~Returns(r)
        BY <1>3, <3>3 DEF Returns
      <4>5. \E i \in 1..Len(messages) : ~Small(messages[i])
        BY <4>1, <4>2
      <4> QED
        BY <3>3, <4>3, <4>4, <4>5 DEF Decodes
    <3>4. CASE ~Overflows(r.rest) /\ HasFrame(r.rest)
      <4>1. decode_round(r) = [panic |-> r.panic, frames |-> Append(r.frames, FirstBody(r.rest)), rest |-> AfterFirst(r.rest)]
        BY <1>1, <3>4 DEF decode_round
      <4>2. messages = Append(r.frames, body) \o Tail(left)
        <5> DEFINE T == Seq(Byte)
                   taken == r.frames
        <5>1. taken \in Seq(T) /\ left \in Seq(T)
          BY <1>1, SeqMonotonic
        <5> HIDE DEF T, taken
        <5>2. taken \o left = Append(taken, Head(left)) \o Tail(left)
          BY <2>3, <5>1, TakeFirst
        <5> QED
          BY <2>1, <5>2, Zenon DEF taken
      <4>3. AfterFirst(r.rest) \o ahead = Framed(Tail(left)) \o unfinished /\ FirstBody(r.rest) = body
        BY <3>2, <3>4 DEF after
      <4>4. ~Returns(r)
        BY <1>3, <3>4 DEF Returns
      <4>5. /\ ~decode_round(r).panic /\ messages = decode_round(r).frames \o Tail(left)
            /\ decode_round(r).rest \o ahead = Framed(Tail(left)) \o unfinished
        <5>1. /\ decode_round(r).panic = r.panic /\ decode_round(r).frames = Append(r.frames, FirstBody(r.rest))
              /\ decode_round(r).rest = AfterFirst(r.rest)
          BY <4>1
        <5> QED
          BY <1>3, <4>2, <4>3, <5>1
      <4> HIDE DEF body
      <4> QED
        BY <3>1, <4>4, <4>5 DEF Decodes
    <3>5. CASE ~Overflows(r.rest) /\ ~HasFrame(r.rest)
      BY <3>5 DEF decode_round
    <3> QED
      BY <3>3, <3>4, <3>5
  <2> QED
    BY <2>2, <2>3
<1> QED
  BY <1>2, <1>3

\* What frame_decode makes of the front of messages (a set S of them) and an
\* unfinished frame after them.
LEMMA DecodesFront ==
  ASSUME NEW S, S \subseteq Seq(Byte), \A x \in S : Len(x) < Wrap,
         NEW messages \in Seq(S), NEW unfinished \in Seq(Byte), ~HasFrame(unfinished),
         NEW bytes \in Seq(Byte), NEW ahead \in Seq(Byte), bytes \o ahead = Framed(messages) \o unfinished
  PROVE  /\ frame_decode(bytes) \in Decoding /\ Returns(frame_decode(bytes))
         /\ Decodes(frame_decode(bytes), S, messages, unfinished, ahead)
<1> DEFINE Q == {r \in Decoding : Decodes(r, S, messages, unfinished, ahead)}
<1>1. Undecoded(bytes) \in Q
  <2>1. Undecoded(bytes) \in Decoding
    BY EmptySeq DEF Undecoded, Decoding
  <2>2. messages = <<>> \o messages
    BY ConcatEmptySeq
  <2>3. Decodes(Undecoded(bytes), S, messages, unfinished, ahead)
    BY <2>2 DEF Decodes, Undecoded
  <2> QED
    BY <2>1, <2>3
<1>2. ASSUME NEW r \in Decoding, r \in Q PROVE decode_round(r) \in Q /\ (Returns(r) => decode_round(r) = r)
  BY <1>2, RoundDecodes, RoundType
<1> HIDE DEF Q
<1>3. frame_decode(bytes) \in Decoding /\ frame_decode(bytes) \in Q /\ Returns(frame_decode(bytes))
  BY <1>1, <1>2, LoopInvariant
<1> QED
  BY <1>3 DEF Q

\* Round trip: the frames of any messages whose lengths fit, and the part of a
\* frame after them, are decoded to those messages, in order, and that part.
THEOREM DecodesFramed ==
  ASSUME NEW messages \in Seq({x \in Seq(Byte) : Small(x)}),
         NEW part \in Seq(Byte), ~HasFrame(part), ~Overflows(part)
  PROVE  frame_decode(Framed(messages) \o part) = [panic |-> FALSE, frames |-> messages, rest |-> part]
<1> DEFINE S == {x \in Seq(Byte) : Small(x)}
           bytes == Framed(messages) \o part
           r == frame_decode(bytes)
<1>1. S \subseteq Seq(Byte) /\ \A x \in S : Len(x) < Wrap
  <2>1. \A x \in S : Len(x) \in Nat /\ Len(x) + 4 < Wrap
    BY DEF Small
  <2> QED
    BY <2>1, WrapType
<1>2. messages \in Seq(S) /\ Framed(messages) \in Seq(Byte) /\ <<>> \in Seq(Byte)
  <2>1. messages \in Seq(Seq(Byte))
    BY <1>1, SeqMonotonic
  <2> QED
    BY <2>1, FramesType, EmptySeq
<1>3. bytes \in Seq(Byte) /\ bytes \o <<>> = Framed(messages) \o part
  <2>1. bytes \in Seq(Byte)
    BY <1>2, ConcatProperties
  <2> HIDE DEF bytes
  <2>2. bytes \o <<>> = bytes
    BY <2>1, ConcatEmptySeq
  <2> QED
    BY <2>1, <2>2 DEF bytes
<1>4. \A i \in 1..Len(messages) : Small(messages[i])
  BY ElementOfSeq
<1> HIDE DEF S, bytes
<1>5. r \in Decoding /\ Returns(r) /\ Decodes(r, S, messages, part, <<>>)
  BY <1>1, <1>2, <1>3, DecodesFront
<1> HIDE DEF r
<1>6. ~r.panic
  BY <1>4, <1>5 DEF Decodes
<1>7. PICK left \in Seq(S) : messages = r.frames \o left /\ r.rest \o <<>> = Framed(left) \o part
  BY <1>5, <1>6 DEF Decodes
<1>8. r.rest \in Seq(Byte) /\ left \in Seq(Seq(Byte)) /\ Framed(left) \in Seq(Byte) /\ r.frames \in Seq(Seq(Byte))
  BY <1>1, <1>5, SeqMonotonic, FramesType DEF Decoding
<1>9. left = <<>>
  <2> SUFFICES ASSUME left # <<>> PROVE FALSE
    OBVIOUS
  <2> DEFINE body == Head(left)
             after == Framed(Tail(left)) \o part
  <2>1. /\ body \in Seq(Byte) /\ Len(body) < Wrap /\ after \in Seq(Byte)
        /\ Framed(left) \o part = create_framed_message(body) \o after
    BY <1>1, FramesInFront
  <2> HIDE DEF body, after
  <2>2. r.rest \o <<>> = create_framed_message(body) \o after
    BY <1>7, <2>1
  <2>3. HasFrame(r.rest)
    BY <1>8, <2>1, <2>2, WholeFrame
  <2> QED
    BY <1>5, <1>6, <2>3 DEF Returns
<1>10. r.frames = messages /\ r.rest = part
  <2> DEFINE T == Seq(Byte)
             taken == r.frames
  <2>1. taken \in Seq(T) /\ messages = taken \o <<>>
    BY <1>7, <1>8, <1>9
  <2> HIDE DEF T, taken
  <2>2. taken \o <<>> = taken
    BY <2>1, ConcatEmptySeq
  <2>3. r.rest \o <<>> = r.rest /\ <<>> \o part = part
    BY <1>8, ConcatEmptySeq
  <2>4. r.rest = part
    BY <1>7, <1>9, <2>3, FramedEmpty, Zenon
  <2> QED
    BY <2>1, <2>2, <2>4, Zenon DEF taken
<1>11. r = [panic |-> r.panic, frames |-> r.frames, rest |-> r.rest] /\ r.panic = FALSE
  BY <1>5, <1>6 DEF Decoding
<1> QED
  BY <1>10, <1>11 DEF r, bytes

\* Of any bytes: what frame_decode returns, and that it returns.
LEMMA DecodeType ==
  ASSUME NEW bytes \in Seq(Byte)
  PROVE  /\ frame_decode(bytes) \in Decoding /\ Returns(frame_decode(bytes))
         /\ frame_decode(bytes).panic => frame_decode(bytes).frames = <<>>
<1> DEFINE Q == {r \in Decoding : r.panic => r.frames = <<>> /\ Overflows(r.rest)}
<1>1. Undecoded(bytes) \in Q
  BY EmptySeq DEF Undecoded, Decoding
<1>2. ASSUME NEW r \in Decoding, r \in Q PROVE decode_round(r) \in Q /\ (Returns(r) => decode_round(r) = r)
  <2>1. r = [panic |-> r.panic, frames |-> r.frames, rest |-> r.rest] /\ r.panic \in BOOLEAN
    BY DEF Decoding
  <2>2. decode_round(r) \in Decoding
    BY RoundType
  <2>3. CASE Overflows(r.rest)
    <3>1. decode_round(r) = [panic |-> TRUE, frames |-> <<>>, rest |-> r.rest]
      BY <2>3 DEF decode_round
    <3>2. Returns(r) => r.panic = TRUE /\ r.frames = <<>>
      BY <1>2, <2>1, <2>3 DEF Returns
    <3>3. Returns(r) => decode_round(r) = r
      BY <2>1, <3>1, <3>2
    <3> QED
      BY <2>2, <2>3, <3>1, <3>3
  <2>4. CASE ~Overflows(r.rest) /\ HasFrame(r.rest)
    <3>1. ~r.panic
      BY <1>2, <2>4
    <3>2. decode_round(r).panic = r.panic
      BY <2>1, <2>4 DEF decode_round
    <3>3. ~Returns(r)
      BY <2>4, <3>1 DEF Returns
    <3> QED
      BY <2>2, <3>1, <3>2, <3>3
  <2>5. CASE ~Overflows(r.rest) /\ ~HasFrame(r.rest)
    BY <1>2, <2>5 DEF decode_round
  <2> QED
    BY <2>3, <2>4, <2>5
<1> HIDE DEF Q
<1>3. frame_decode(bytes) \in Decoding /\ frame_decode(bytes) \in Q /\ Returns(frame_decode(bytes))
  BY <1>1, <1>2, LoopInvariant
<1> QED
  BY <1>3 DEF Q

-----------------------------------------------------------------------------
(* Sequences cut in two, and put together. *)

\* A sequence is its first n elements and the rest.
LEMMA CutInTwo ==
  ASSUME NEW S, NEW s \in Seq(S), NEW n \in 0..Len(s)
  PROVE  /\ SubSeq(s, 1, n) \in Seq(S) /\ SubSeq(s, n + 1, Len(s)) \in Seq(S)
         /\ Len(SubSeq(s, 1, n)) = n /\ Len(SubSeq(s, n + 1, Len(s))) = Len(s) - n
         /\ SubSeq(s, 1, n) \o SubSeq(s, n + 1, Len(s)) = s
<1> DEFINE a == SubSeq(s, 1, n)
           b == SubSeq(s, n + 1, Len(s))
           m == Len(s)
<1>0. m \in Nat /\ n \in Nat /\ n <= m /\ \A i \in 1..m : s[i] \in S
  BY ElementOfSeq
<1>1. a \in Seq(S) /\ Len(a) = n /\ \A i \in 1..n : a[i] = s[i]
  <2>1. \A i \in 1..n : s[i] \in S
    BY <1>0
  <2> HIDE DEF m
  <2> QED
    BY <1>0, <2>1, SubSeqProperties
<1>2. b \in Seq(S) /\ Len(b) = m - n /\ \A i \in 1..m - n : b[i] = s[i + n]
  <2>1. \A i \in n + 1..m : s[i] \in S
    BY <1>0
  <2>2. SubSeq(s, n + 1, m) \in Seq(S) /\ Len(SubSeq(s, n + 1, m)) = (IF n + 1 <= m THEN m - (n + 1) + 1 ELSE 0)
        /\ \A i \in 1..m - (n + 1) + 1 : SubSeq(s, n + 1, m)[i] = s[(n + 1) + i - 1]
    <3>1. n + 1 \in Int /\ m \in Int
      BY <1>0
    <3> HIDE DEF m
    <3> QED
      BY <2>1, <3>1, SubSeqProperties
  <2> HIDE DEF m
  <2>3. \A i \in 1..m - n : (n + 1) + i - 1 = i + n /\ i \in 1..m - (n + 1) + 1
    BY <1>0
  <2> QED
    BY <1>0, <2>2, <2>3 DEF m
<1>3. a \o b \in Seq(S) /\ Len(a \o b) = m /\ \A i \in 1..m : (a \o b)[i] = s[i]
  <2> HIDE DEF a, b, m
  <2>1. a \o b \in Seq(S) /\ Len(a \o b) = Len(a) + Len(b)
        /\ \A i \in 1..Len(a) + Len(b) : (a \o b)[i] = IF i <= Len(a) THEN a[i] ELSE b[i - Len(a)]
    <3>1. a \in Seq(S) /\ b \in Seq(S)
      BY <1>1, <1>2
    <3> QED
      BY <3>1, ConcatProperties
  <2>2. \A i \in 1..m : ~(i <= n) => i - n \in 1..m - n /\ (i - n) + n = i
    BY <1>0
  <2> QED
    BY <1>0, <1>1, <1>2, <2>1, <2>2
<1>4. a \o b = s
  <2>1. Len(a \o b) = Len(s) /\ \A i \in 1..Len(a \o b) : (a \o b)[i] = s[i]
    BY <1>3
  <2> HIDE DEF a, b
  <2> QED
    BY <1>3, <2>1, SeqEqual
<1> QED
  BY <1>1, <1>2, <1>4

\* Both parts can be found again in what they were put together to.
LEMMA TwoParts ==
  ASSUME NEW S, NEW a \in Seq(S), NEW b \in Seq(S)
  PROVE  /\ Len(a \o b) = Len(a) + Len(b)
         /\ SubSeq(a \o b, 1, Len(a)) = a
         /\ SubSeq(a \o b, Len(a) + 1, Len(a \o b)) = b
         /\ b # <<>> => (a \o b)[Len(a) + 1] = Head(b)
<1> DEFINE s == a \o b
           n == Len(a)
           x == SubSeq(s, 1, n)
           y == SubSeq(s, n + 1, Len(s))
<1>1. s \in Seq(S) /\ Len(s) = n + Len(b) /\ n \in Nat /\ Len(b) \in Nat
      /\ \A i \in 1..n + Len(b) : s[i] = IF i <= n THEN a[i] ELSE b[i - n]
  BY ConcatProperties
<1>2. \A i \in 1..Len(s) : s[i] \in S
  <2> HIDE DEF s
  <2> QED
    BY <1>1, ElementOfSeq
<1>3. x = a
  <2>1. \A i \in 1..n : s[i] \in S
    BY <1>1, <1>2
  <2>2. x \in Seq(S) /\ Len(x) = n /\ \A i \in 1..n : x[i] = s[i]
    <3> HIDE DEF s, n
    <3> QED
      BY <1>1, <2>1, SubSeqProperties
  <2>3. \A i \in 1..n : x[i] = a[i]
    <3> HIDE DEF s, x
    <3> QED
      BY <1>1, <2>2
  <2> HIDE DEF x
  <2> QED
    BY <2>2, <2>3, SeqEqual
<1>4. y = b
  <2>1. \A i \in n + 1..Len(s) : s[i] \in S
    BY <1>1, <1>2
  <2>2. n + 1 \in Int /\ Len(s) \in Int
    BY <1>1
  <2>3. y \in Seq(S) /\ Len(y) = (IF n + 1 <= Len(s) THEN Len(s) - (n + 1) + 1 ELSE 0)
        /\ \A i \in 1..Len(s) - (n + 1) + 1 : y[i] = s[(n + 1) + i - 1]
    <3> HIDE DEF s, n
    <3> QED
      BY <2>1, <2>2, SubSeqProperties
  <2>4. Len(y) = Len(b)
    <3> HIDE DEF s, y, n
    <3> QED
      BY <1>1, <2>3
  <2>5. ASSUME NEW i \in 1..Len(b) PROVE y[i] = b[i]
    <3>1. i \in 1..Len(s) - (n + 1) + 1 /\ (n + 1) + i - 1 = n + i /\ n + i \in 1..n + Len(b) /\ ~(n + i <= n)
          /\ (n + i) - n = i
      BY <1>1
    <3> HIDE DEF s, y, n
    <3> QED
      BY <1>1, <2>3, <3>1
  <2> HIDE DEF y
  <2> QED
    BY <2>3, <2>4, <2>5, SeqEqual
<1>5. b # <<>> => s[n + 1] = Head(b)
  BY <1>1, EmptySeq
<1> QED
  BY <1>1, <1>3, <1>4, <1>5

-----------------------------------------------------------------------------
(* What frame_decode makes of any bytes. *)

\* Four bytes are the length they are read as.
LEMMA PutRead ==
  ASSUME NEW bytes \in Seq(Byte), Len(bytes) >= 4
  PROVE  put_u32(u32(bytes)) = <<bytes[1], bytes[2], bytes[3], bytes[4]>>
<1> DEFINE b1 == bytes[1]
           b2 == bytes[2]
           b3 == bytes[3]
           b4 == bytes[4]
           q2 == b1 * Base + b2
           q1 == q2 * Base + b3
           n == q1 * Base + b4
<1>1. Base \in Nat \ {0} /\ Base * Base \in Nat \ {0}
  BY BaseAssumption
<1>2. b1 \in 0..Base - 1 /\ b2 \in 0..Base - 1 /\ b3 \in 0..Base - 1 /\ b4 \in 0..Base - 1
  BY <1>1, ElementOfSeq DEF Byte
<1>3. u32(bytes) = n
  BY DEF u32
<1> HIDE DEF b1, b2, b3, b4
<1>4. q2 \in Nat /\ q2 \div Base = b1 /\ q2 % Base = b2
  <2>1. q2 \in Nat /\ b1 \in Nat /\ q2 = Base * b1 + b2
    BY <1>1, <1>2
  <2> HIDE DEF q2
  <2> QED
    BY <1>1, <1>2, <2>1, QuotientUnique
<1> HIDE DEF q2
<1>5. q1 \in Nat /\ q1 \div Base = q2 /\ q1 % Base = b3
  <2>1. q1 \in Nat /\ q1 = Base * q2 + b3
    BY <1>1, <1>2, <1>4
  <2> HIDE DEF q1
  <2> QED
    BY <1>1, <1>2, <1>4, <2>1, QuotientUnique
<1> HIDE DEF q1
<1>6. n \in Nat /\ n \div Base = q1 /\ n % Base = b4
  <2>1. n \in Nat /\ n = Base * q1 + b4
    BY <1>1, <1>2, <1>5
  <2> HIDE DEF n
  <2> QED
    BY <1>1, <1>2, <1>5, <2>1, QuotientUnique
<1> HIDE DEF n
<1>7. b1 % Base = b1
  <2>1. b1 = Base * 0 + b1 /\ b1 \in Nat
    BY <1>1, <1>2
  <2> QED
    BY <1>1, <1>2, <2>1, QuotientUnique
<1>8. n \div (Base * Base) = q2
  BY <1>1, <1>5, <1>6, QuotientTwice
<1>9. n \div (Base * Base * Base) = b1
  <2>1. n \div ((Base * Base) * Base) = (n \div (Base * Base)) \div Base
    BY <1>1, <1>6, QuotientTwice
  <2> QED
    BY <1>4, <1>8, <2>1
<1>10. put_u32(n) = <<b1, b2, b3, b4>>
  BY <1>4, <1>5, <1>6, <1>7, <1>8, <1>9 DEF put_u32
<1> QED
  BY <1>3, <1>10 DEF b1, b2, b3, b4

\* The first frame of any bytes is one that create_framed_message makes.
LEMMA FirstIsFrame ==
  ASSUME NEW bytes \in Seq(Byte), HasFrame(bytes)
  PROVE  /\ FirstBody(bytes) \in Seq(Byte) /\ AfterFirst(bytes) \in Seq(Byte)
         /\ Len(FirstBody(bytes)) = u32(bytes)
         /\ bytes = create_framed_message(FirstBody(bytes)) \o AfterFirst(bytes)
<1> DEFINE n == u32(bytes)
           b == Len(bytes)
           body == FirstBody(bytes)
           front == SubSeq(bytes, 1, n + 4)
<1>1. n \in Nat /\ b \in Nat /\ b >= n + 4 /\ Len(bytes) >= 4
  BY ReadType DEF HasFrame
<1>2. body = SubSeq(bytes, 5, n + 4) /\ AfterFirst(bytes) = SubSeq(bytes, n + 5, b)
  BY DEF FirstBody, AfterFirst
<1>3. put_u32(n) = <<bytes[1], bytes[2], bytes[3], bytes[4]>>
  BY <1>1, PutRead
<1> HIDE DEF n, body
<1>4. body \in Seq(Byte) /\ Len(body) = n /\ \A i \in 1..n : body[i] = bytes[i + 4]
  <2>1. \A i \in 5..n + 4 : bytes[i] \in Byte
    BY <1>1
  <2> QED
    BY <1>1, <1>2, <2>1, SubSeqProperties
<1>5. front \in Seq(Byte) /\ SubSeq(bytes, n + 5, b) \in Seq(Byte) /\ Len(front) = n + 4
      /\ front \o SubSeq(bytes, n + 5, b) = bytes
  <2>1. n + 4 \in 0..Len(bytes) /\ (n + 4) + 1 = n + 5
    BY <1>1
  <2>2. /\ front \in Seq(Byte) /\ SubSeq(bytes, (n + 4) + 1, Len(bytes)) \in Seq(Byte) /\ Len(front) = n + 4
        /\ front \o SubSeq(bytes, (n + 4) + 1, Len(bytes)) = bytes
    BY <2>1, CutInTwo
  <2> QED
    BY <2>1, <2>2
<1>6. \A i \in 1..n + 4 : front[i] = bytes[i]
  <2>1. \A i \in 1..n + 4 : bytes[i] \in Byte
    BY <1>1
  <2> QED
    BY <1>1, <2>1, SubSeqProperties
<1> HIDE DEF front
<1>7. front = create_framed_message(body)
  <2> DEFINE f == create_framed_message(body)
             p == put_u32(n)
  <2>1. f \in Seq(Byte) /\ Len(f) = n + 4 /\ f = p \o body
    <3>1. f \in Seq(Byte) /\ Len(f) = Len(body) + 4
      BY <1>4, FrameType
    <3> QED
      BY <1>4, <3>1 DEF create_framed_message
  <2>2. p \in Seq(Byte) /\ Len(p) = 4
    BY <1>1, LengthType
  <2>3. \A i \in 1..4 : p[i] = bytes[i]
    BY <1>3
  <2> HIDE DEF f, p
  <2>4. \A i \in 1..4 + n : (p \o body)[i] = IF i <= 4 THEN p[i] ELSE body[i - 4]
    <3>1. p \in Seq(Byte) /\ body \in Seq(Byte)
      BY <1>4, <2>2
    <3>2. \A i \in 1..Len(p) + Len(body) : (p \o body)[i] = IF i <= Len(p) THEN p[i] ELSE body[i - Len(p)]
      BY <3>1, ConcatProperties
    <3> QED
      BY <1>4, <2>2, <3>2
  <2>5. ASSUME NEW i \in 1..n + 4 PROVE f[i] = bytes[i]
    <3>1. i \in 1..4 + n /\ i \in Int
      BY <1>1
    <3>2. CASE i <= 4
      <4>1. i \in 1..4
        BY <1>1, <3>2
      <4>2. (p \o body)[i] = p[i]
        BY <2>4, <3>1, <3>2
      <4>3. p[i] = bytes[i]
        BY <2>3, <4>1
      <4> QED
        BY <2>1, <4>2, <4>3, Zenon
    <3>3. CASE ~(i <= 4)
      <4>1. i - 4 \in 1..n /\ (i - 4) + 4 = i
        BY <1>1, <3>3
      <4> QED
        BY <1>4, <2>1, <2>4, <3>1, <3>3, <4>1
    <3> QED
      BY <3>2, <3>3
  <2>6. \A i \in 1..Len(front) : front[i] = f[i]
    BY <1>5, <1>6, <2>5
  <2>7. front = f
    BY <1>5, <2>1, <2>6, SeqEqual
  <2> QED
    BY <2>7 DEF f
<1> QED
  BY <1>2, <1>4, <1>5, <1>7 DEF n, body

\* The frames of messages in two parts are those of the parts.
LEMMA FramedConcat ==
  ASSUME NEW s \in Seq(Seq(Byte)), NEW t \in Seq(Seq(Byte))
  PROVE  Framed(s \o t) = Framed(s) \o Framed(t)
<1> DEFINE T == Seq(Byte)
           Q == {u \in Seq(T) : Framed(s \o u) = Framed(s) \o Framed(u)}
<1>1. <<>> \in Q
  <2>1. s \o <<>> = s /\ <<>> \in Seq(T)
    <3>1. s \in Seq(T)
      OBVIOUS
    <3> HIDE DEF T
    <3> QED
      BY <3>1, ConcatEmptySeq, EmptySeq
  <2>2. Framed(s) \o <<>> = Framed(s)
    BY FramesType, ConcatEmptySeq
  <2> QED
    BY <2>1, <2>2, FramedEmpty
<1>2. ASSUME NEW u \in Seq(T), NEW e \in T, u \in Q PROVE Append(u, e) \in Q
  <2> DEFINE c == <<e>>
             v == Append(u, e)
             su == s \o u
             sv == s \o v
             f == create_framed_message(e)
  <2>1. su \in Seq(T) /\ v \in Seq(T) /\ c \in Seq(T) /\ s \in Seq(T)
    <3>1. s \in Seq(T)
      OBVIOUS
    <3> HIDE DEF T
    <3> QED
      BY <3>1, ConcatProperties, AppendProperties
  <2>2. sv = Append(su, e)
    <3>1. v = u \o c
      BY AppendIsConcat
    <3>2. Append(su, e) = su \o c
      BY <2>1, AppendIsConcat
    <3>3. (s \o u) \o c = s \o (u \o c)
      <4> HIDE DEF T, c
      <4> QED
        BY <2>1, ConcatAssociative
    <3> HIDE DEF v, c
    <3> QED
      BY <3>1, <3>2, <3>3, Zenon
  <2>3. Framed(v) = Framed(u) \o f /\ Framed(Append(su, e)) = Framed(su) \o f
    BY <2>1, FramedAppend
  <2>4. Framed(s) \in Seq(Byte) /\ Framed(u) \in Seq(Byte) /\ f \in Seq(Byte)
    BY <2>1, FramesType, FrameType
  <2>5. Framed(su) = Framed(s) \o Framed(u)
    BY <1>2
  <2> HIDE DEF sv, su, v, f
  <2>6. (Framed(s) \o Framed(u)) \o f = Framed(s) \o (Framed(u) \o f)
    BY <2>4, ConcatAssociative
  <2>7. Framed(sv) = Framed(s) \o Framed(v)
    BY <2>2, <2>3, <2>5, <2>6, Zenon
  <2> QED
    BY <2>1, <2>7, Zenon DEF v, sv
<1>3. Seq(T) \subseteq Q
  <2> HIDE DEF Q, T
  <2> QED
    BY <1>1, <1>2, SeqSets
<1> QED
  BY <1>3

\* Whatever the bytes are, the messages that are decoded are those whose frames
\* the bytes begin with: their frames and the rest are the bytes, no whole frame
\* is left, and a message that is returned is of a length that fits.
THEOREM DecodesAny ==
  ASSUME NEW bytes \in Seq(Byte), ~frame_decode(bytes).panic
  PROVE  /\ frame_decode(bytes).frames \in Seq({x \in Seq(Byte) : Small(x)})
         /\ frame_decode(bytes).rest \in Seq(Byte)
         /\ ~HasFrame(frame_decode(bytes).rest) /\ ~Overflows(frame_decode(bytes).rest)
         /\ bytes = Framed(frame_decode(bytes).frames) \o frame_decode(bytes).rest
<1> DEFINE S == {x \in Seq(Byte) : Small(x)}
           Q == {r \in Decoding :
                   /\ r.panic => r.frames = <<>> /\ Overflows(r.rest)
                   /\ ~r.panic => r.frames \in Seq(S) /\ bytes = Framed(r.frames) \o r.rest}
<1>0. S \subseteq Seq(Byte)
  OBVIOUS
<1>1. Undecoded(bytes) \in Q
  <2>1. <<>> \in Seq(S) /\ bytes = Framed(<<>>) \o bytes
    BY EmptySeq, FramedEmpty, ConcatEmptySeq
  <2>2. Undecoded(bytes) \in Decoding
    BY EmptySeq DEF Undecoded, Decoding
  <2> HIDE DEF S
  <2> QED
    BY <2>1, <2>2 DEF Undecoded
<1>2. ASSUME NEW r \in Decoding, r \in Q PROVE decode_round(r) \in Q /\ (Returns(r) => decode_round(r) = r)
  <2>1. r = [panic |-> r.panic, frames |-> r.frames, rest |-> r.rest] /\ r.panic \in BOOLEAN
        /\ r.rest \in Seq(Byte) /\ r.frames \in Seq(Seq(Byte))
    BY DEF Decoding
  <2>2. decode_round(r) \in Decoding
    BY RoundType
  <2>3. CASE Overflows(r.rest)
    <3>1. decode_round(r) = [panic |-> TRUE, frames |-> <<>>, rest |-> r.rest]
      BY <2>3 DEF decode_round
    <3>2. Returns(r) => r.panic = TRUE /\ r.frames = <<>>
      BY <1>2, <2>1, <2>3 DEF Returns
    <3>3. Returns(r) => decode_round(r) = r
      BY <2>1, <3>1, <3>2
    <3> HIDE DEF S
    <3> QED
      BY <2>2, <2>3, <3>1, <3>3
  <2>4. CASE ~Overflows(r.rest) /\ HasFrame(r.rest)
    <3> DEFINE body == FirstBody(r.rest)
               after == AfterFirst(r.rest)
               more == Append(r.frames, body)
               f == create_framed_message(body)
    <3>1. ~r.panic /\ r.frames \in Seq(S) /\ bytes = Framed(r.frames) \o r.rest
      BY <1>2, <2>4
    <3>2. decode_round(r) = [panic |-> r.panic, frames |-> more, rest |-> after]
      BY <2>1, <2>4 DEF decode_round
    <3>3. /\ body \in Seq(Byte) /\ after \in Seq(Byte) /\ Len(body) = u32(r.rest)
          /\ r.rest = f \o after
      BY <2>1, <2>4, FirstIsFrame
    <3>4. body \in S
      <4>1. Len(r.rest) >= 4 /\ ~(u32(r.rest) + 4 >= Wrap) /\ u32(r.rest) \in Nat
        BY <2>1, <2>4, ReadType DEF HasFrame, Overflows
      <4> HIDE DEF body
      <4>2. Small(body)
        BY <3>3, <4>1, WrapType DEF Small
      <4> QED
        BY <3>3, <4>2
    <3> HIDE DEF S, body, after
    <3>5. more \in Seq(S) /\ Framed(more) = Framed(r.frames) \o f
      BY <2>1, <3>1, <3>3, <3>4, AppendProperties, FramedAppend
    <3>6. Framed(r.frames) \in Seq(Byte) /\ f \in Seq(Byte)
      BY <2>1, <3>3, FramesType, FrameType
    <3> HIDE DEF f, more
    <3>7. (Framed(r.frames) \o f) \o after = Framed(r.frames) \o (f \o after)
      <4>1. after \in Seq(Byte)
        BY <3>3
      <4> QED
        BY <3>6, <4>1, ConcatAssociative
    <3>8. bytes = Framed(more) \o after
      BY <3>1, <3>3, <3>5, <3>7, Zenon
    <3>9. ~Returns(r)
      BY <2>4, <3>1 DEF Returns
    <3>10. decode_round(r).panic = r.panic /\ decode_round(r).frames = more /\ decode_round(r).rest = after
      BY <3>2
    <3> QED
      BY <2>2, <3>1, <3>5, <3>8, <3>9, <3>10
  <2>5. CASE ~Overflows(r.rest) /\ ~HasFrame(r.rest)
    BY <1>2, <2>5 DEF decode_round
  <2> QED
    BY <2>3, <2>4, <2>5
<1> HIDE DEF Q
<1>3. frame_decode(bytes) \in Decoding /\ frame_decode(bytes) \in Q /\ Returns(frame_decode(bytes))
  BY <1>1, <1>2, LoopInvariant
<1> HIDE DEF S
<1>4. frame_decode(bytes).frames \in Seq(S) /\ bytes = Framed(frame_decode(bytes).frames) \o frame_decode(bytes).rest
  BY <1>3 DEF Q
<1>5. frame_decode(bytes).rest \in Seq(Byte)
  BY <1>3 DEF Decoding
<1> QED
  BY <1>3, <1>4, <1>5 DEF Returns, S

\* Where a read ends makes no difference, whatever the bytes are: decoding what
\* one read got, and then its rest with what the next one got, returns the
\* messages and the rest of the two at once.
THEOREM ReadsJoin ==
  ASSUME NEW a \in Seq(Byte), ~frame_decode(a).panic,
         NEW b \in Seq(Byte), ~frame_decode(frame_decode(a).rest \o b).panic
  PROVE  frame_decode(a \o b) =
           [panic  |-> FALSE,
            frames |-> frame_decode(a).frames \o frame_decode(frame_decode(a).rest \o b).frames,
            rest   |-> frame_decode(frame_decode(a).rest \o b).rest]
<1> DEFINE S == {x \in Seq(Byte) : Small(x)}
           m == frame_decode(a).frames
           left == frame_decode(a).rest
           c == left \o b
           n == frame_decode(c).frames
           rest == frame_decode(c).rest
<1>1. m \in Seq(S) /\ left \in Seq(Byte) /\ a = Framed(m) \o left
  BY DecodesAny
<1>2. c \in Seq(Byte)
  BY <1>1, ConcatProperties
<1> HIDE DEF m, left, c
<1>3. ~frame_decode(c).panic
  BY DEF c, left
<1>4. n \in Seq(S) /\ rest \in Seq(Byte) /\ ~HasFrame(rest) /\ ~Overflows(rest) /\ c = Framed(n) \o rest
  BY <1>2, <1>3, DecodesAny
<1> HIDE DEF n, rest
<1>5. m \in Seq(Seq(Byte)) /\ n \in Seq(Seq(Byte)) /\ Framed(m) \in Seq(Byte) /\ Framed(n) \in Seq(Byte)
  <2>1. m \in Seq(Seq(Byte)) /\ n \in Seq(Seq(Byte))
    BY <1>1, <1>4, SeqMonotonic
  <2> QED
    BY <2>1, FramesType
<1>6. a \o b = Framed(m \o n) \o rest
  <2> DEFINE fm == Framed(m)
             fn == Framed(n)
  <2>1. fm \in Seq(Byte) /\ fn \in Seq(Byte) /\ left \in Seq(Byte) /\ rest \in Seq(Byte) /\ b \in Seq(Byte)
    BY <1>1, <1>4, <1>5
  <2>2. Framed(m \o n) = fm \o fn /\ a = fm \o left /\ left \o b = fn \o rest
    BY <1>1, <1>4, <1>5, FramedConcat DEF c
  <2> HIDE DEF fm, fn
  <2>3. (fm \o left) \o b = fm \o (left \o b)
    <3>1. fm \in Seq(Byte) /\ left \in Seq(Byte) /\ b \in Seq(Byte)
      BY <2>1
    <3> QED
      BY ONLY <3>1, ConcatAssociative
  <2>4. (fm \o fn) \o rest = fm \o (fn \o rest)
    <3>1. fm \in Seq(Byte) /\ fn \in Seq(Byte) /\ rest \in Seq(Byte)
      BY <2>1
    <3> QED
      BY ONLY <3>1, ConcatAssociative
  <2> QED
    BY <2>2, <2>3, <2>4, Zenon
<1>7. m \o n \in Seq(S)
  <2> HIDE DEF S
  <2> QED
    BY <1>1, <1>4, ConcatProperties
<1>8. frame_decode(Framed(m \o n) \o rest) = [panic |-> FALSE, frames |-> m \o n, rest |-> rest]
  BY <1>4, <1>7, DecodesFramed
<1> QED
  BY <1>6, <1>8 DEF m, n, rest, c, left

-----------------------------------------------------------------------------
(* The connection. *)

\* A read gets no more than there is.
LEMMA ReadBound ==
  ASSUME TypeOK, NEW n \in 1..Min({ReadSize, Len(stream)})
  PROVE  n \in 1..Len(stream) /\ n \in 0..Len(stream)
<1> DEFINE m == Min({ReadSize, Len(stream)})
<1>1. ReadSize \in Nat /\ Len(stream) \in Nat
  BY BaseAssumption DEF TypeOK
<1>2. m \in {ReadSize, Len(stream)} /\ \A y \in {ReadSize, Len(stream)} : m <= y
  BY <1>1 DEF Min
<1> HIDE DEF m
<1>3. n \in 1..m
  BY DEF m
<1> QED
  BY <1>1, <1>2, <1>3

\* A frame without its end is bytes, and no frame unless its length wraps.
LEMMA UnfinishedFrame ==
  ASSUME NEW body \in Bodies, NEW n \in 0..Len(create_framed_message(body)) - 1
  PROVE  /\ SubSeq(create_framed_message(body), 1, n) \in Seq(Byte)
         /\ Len(body) < Wrap => ~HasFrame(SubSeq(create_framed_message(body), 1, n))
<1> DEFINE f == create_framed_message(body)
           a == SubSeq(f, 1, n)
           b == SubSeq(f, n + 1, Len(f))
<1>1. body \in Seq(Byte)
  BY BodiesAssumption
<1>2. f \in Seq(Byte) /\ Len(f) = Len(body) + 4 /\ Len(body) \in Nat
  <2>1. Len(body) \in Nat
    BY <1>1
  <2> QED
    BY <1>1, <2>1, FrameType
<1>3. n \in 0..Len(f) /\ n < Len(f)
  BY <1>2
<1>4. a \in Seq(Byte) /\ b \in Seq(Byte) /\ Len(a) = n /\ a \o b = f
  <2> HIDE DEF f
  <2> QED
    BY <1>2, <1>3, CutInTwo
<1>5. ASSUME Len(body) < Wrap PROVE ~HasFrame(a)
  <2>1. a \o b = create_framed_message(body) \o <<>> /\ <<>> \in Seq(Byte)
    BY <1>2, <1>4, ConcatEmptySeq, EmptySeq
  <2> HIDE DEF a, b
  <2>2. Len(a) >= 4 => u32(a) = Len(body)
    BY <1>1, <1>4, <1>5, <2>1, FirstFrame
  <2> HIDE DEF f
  <2> QED
    BY <1>2, <1>3, <1>4, <2>2 DEF HasFrame
<1> HIDE DEF f
<1> QED
  BY <1>4, <1>5 DEF f

\* The variables keep their types, whatever the lengths of the messages.
THEOREM TypeCorrect == Spec => []TypeOK
<1>1. Init => TypeOK
  BY EmptySeq DEF Init, TypeOK
<1>2. TypeOK /\ [Next]_vars => TypeOK'
  <2> SUFFICES ASSUME TypeOK, [Next]_vars PROVE TypeOK'
    OBVIOUS
  <2>0. written \in Seq(Bodies) /\ cut \in Seq(Byte) /\ stream \in Seq(Byte) /\ buffer \in Seq(Byte)
        /\ frames \in Seq(Seq(Byte)) /\ delivered \in Seq(Seq(Byte))
    BY DEF TypeOK
  <2>1. ASSUME NEW body \in Bodies, Write(body) PROVE TypeOK'
    <3>1. create_framed_message(body) \in Seq(Byte)
      BY BodiesAssumption, FrameType
    <3>2. written' \in Seq(Bodies) /\ stream' \in Seq(Byte)
      BY <2>0, <2>1, <3>1, AppendProperties, ConcatProperties DEF Write
    <3> QED
      BY <2>1, <3>2 DEF Write, TypeOK
  <2>2. CASE Close
    <3>1. cut' \in Seq(Byte)
      BY <2>2, UnfinishedFrame DEF Close
    <3>2. stream' \in Seq(Byte)
      BY <2>0, <2>2, <3>1, ConcatProperties DEF Close
    <3> QED
      BY <2>2, <3>1, <3>2 DEF Close, TypeOK
  <2>3. CASE Poll
    <3>1. PICK n \in 1..Min({ReadSize, Len(stream)}) :
                 LET r == frame_decode(buffer \o SubSeq(stream, 1, n))
                 IN /\ buffer' = r.rest /\ frames' = r.frames
                    /\ stream' = SubSeq(stream, n + 1, Len(stream))
                    /\ reader' = IF r.panic THEN "panicked" ELSE "reading"
      BY <2>3 DEF Poll
    <3>2. n \in 1..Len(stream) /\ n \in 0..Len(stream)
      BY ReadBound, Zenon
    <3>3. SubSeq(stream, 1, n) \in Seq(Byte) /\ stream' \in Seq(Byte)
      BY <2>0, <3>1, <3>2, CutInTwo
    <3>4. buffer \o SubSeq(stream, 1, n) \in Seq(Byte)
      BY <2>0, <3>3, ConcatProperties
    <3>5. frame_decode(buffer \o SubSeq(stream, 1, n)) \in Decoding
      BY <3>4, DecodeType
    <3>6. buffer' \in Seq(Byte) /\ frames' \in Seq(Seq(Byte))
      BY <3>1, <3>5 DEF Decoding
    <3> QED
      BY <2>3, <3>1, <3>3, <3>6 DEF Poll, TypeOK
  <2>4. CASE Deliver
    <3>1. frames # <<>> /\ delivered' = Append(delivered, Head(frames)) /\ frames' = Tail(frames)
      BY <2>4 DEF Deliver
    <3> DEFINE T == Seq(Byte)
    <3>2. delivered \in Seq(T) /\ frames \in Seq(T)
      BY <2>0
    <3>3. delivered' \in Seq(T) /\ frames' \in Seq(T)
      <4> HIDE DEF T
      <4>1. Head(frames) \in T /\ Tail(frames) \in Seq(T)
        BY <3>1, <3>2, HeadTailProperties
      <4>2. Append(delivered, Head(frames)) \in Seq(T)
        BY <3>2, <4>1, AppendProperties
      <4> QED
        BY <3>1, <4>1, <4>2
    <3> QED
      BY <2>4, <3>3 DEF Deliver, TypeOK
  <2>5. CASE ReadEnd
    BY <2>5 DEF ReadEnd, TypeOK
  <2>6. CASE ReadFails
    BY <2>6 DEF ReadFails, TypeOK
  <2>7. CASE UNCHANGED vars
    BY <2>7 DEF vars, TypeOK
  <2> QED
    BY <2>1, <2>2, <2>3, <2>4, <2>5, <2>6, <2>7 DEF Next
<1> QED
  BY <1>1, <1>2, PTL DEF Spec

-----------------------------------------------------------------------------
(* The inductive invariant. *)

\* The messages that are not handed on: what is buffered and in flight begins
\* with their frames.
Left(messages) ==
  /\ written = (delivered \o frames) \o messages
  /\ buffer \o stream = Framed(messages) \o cut

\* Why the reader panicked, with the messages that it never handed on.
Killed(messages) ==
  /\ written = delivered \o messages
  /\ (\E i \in 1..Len(messages) : ~Small(messages[i])) \/ Overflows(cut)

IInv ==
  /\ TypeOK
  /\ ~HasFrame(cut) /\ (~closed => cut = <<>>)
  /\ reader \in {"ended", "panicked"} => frames = <<>>
  /\ reader # "panicked" => ~HasFrame(buffer) /\ \E messages \in Seq(Bodies) : Left(messages)
  /\ reader = "panicked" => \E messages \in Seq(Bodies) : Killed(messages)
  /\ reader = "ended" => closed /\ delivered = written

\* What TypeOK says, with the messages that came out of the stream.
LEMMA Types ==
  ASSUME TypeOK
  PROVE  /\ written \in Seq(Bodies) /\ cut \in Seq(Byte) /\ stream \in Seq(Byte) /\ buffer \in Seq(Byte)
         /\ frames \in Seq(Seq(Byte)) /\ delivered \in Seq(Seq(Byte)) /\ delivered \o frames \in Seq(Seq(Byte))
         /\ closed \in BOOLEAN
<1> DEFINE T == Seq(Byte)
<1>1. frames \in Seq(T) /\ delivered \in Seq(T)
  BY DEF TypeOK
<1>2. delivered \o frames \in Seq(T)
  <2> HIDE DEF T
  <2> QED
    BY <1>1, ConcatProperties
<1> QED
  BY <1>2 DEF TypeOK

\* NoneWraps, for the bodies as bytes.
LEMMA ShortMessages ==
  ASSUME NoneWraps
  PROVE  Bodies \subseteq Seq(Byte) /\ \A body \in Bodies : Len(body) < Wrap
BY BodiesAssumption DEF NoneWraps

\* At the start there are no bytes anywhere.
LEMMA InitInv == Init => IInv
<1> SUFFICES ASSUME Init PROVE IInv
  OBVIOUS
<1>1. TypeOK
  BY EmptySeq DEF Init, TypeOK
<1>2. ~HasFrame(cut) /\ ~HasFrame(buffer)
  BY EmptySeq DEF Init, HasFrame
<1>3. Left(<<>>) /\ <<>> \in Seq(Bodies)
  BY EmptySeq, FramedEmpty, ConcatEmptySeq DEF Init, Left
<1> QED
  BY <1>1, <1>2, <1>3 DEF Init, IInv

\* A message that is written is left, at the end; a reader that panicked
\* still has its reason to.
LEMMA WriteInv ==
  ASSUME NoneWraps, IInv, TypeOK', NEW body \in Bodies, Write(body)
  PROVE  IInv'
<1>1. /\ body \in Seq(Byte) /\ create_framed_message(body) \in Seq(Byte)
      /\ ~closed /\ cut = <<>> /\ reader # "ended"
  BY BodiesAssumption, FrameType DEF IInv, Write
<1>2. ASSUME reader # "panicked" PROVE \E messages \in Seq(Bodies) : Left(messages)'
  <2>1. PICK messages \in Seq(Bodies) : Left(messages)
    BY <1>2 DEF IInv
  <2>2. messages \in Seq(Seq(Byte)) /\ Append(messages, body) \in Seq(Bodies) /\ Append(messages, body) \in Seq(Seq(Byte))
    <3>1. messages \in Seq(Seq(Byte))
      BY BodiesAssumption, SeqMonotonic
    <3>2. Append(messages, body) \in Seq(Bodies)
      BY AppendProperties
    <3> QED
      BY <3>1, <3>2, BodiesAssumption, SeqMonotonic
  <2>3. written' = (delivered \o frames) \o Append(messages, body)
    <3> DEFINE T == Seq(Byte)
               a == delivered \o frames
               t == Append(messages, body)
               c == <<body>>
    <3>1. a \in Seq(T) /\ messages \in Seq(T) /\ body \in T /\ written \in Seq(T) /\ c \in Seq(T)
      BY <1>1, <2>2, Types, BodiesAssumption, SeqMonotonic DEF IInv
    <3>2. written = a \o messages /\ written' = Append(written, body)
      BY <2>1 DEF Left, Write
    <3>3. Append(written, body) = written \o c /\ t = messages \o c
      BY <3>1, AppendIsConcat
    <3> HIDE DEF T, a, t, c
    <3>4. (a \o messages) \o c = a \o (messages \o c)
      BY <3>1, ConcatAssociative
    <3>5. written' = a \o t
      BY <3>2, <3>3, <3>4, Zenon
    <3> QED
      BY <3>5, Zenon DEF a, t
  <2>4. buffer \o (stream \o create_framed_message(body)) = Framed(Append(messages, body)) \o <<>>
    <3> DEFINE f == create_framed_message(body)
               g == Framed(messages)
    <3>1. stream \in Seq(Byte) /\ buffer \in Seq(Byte) /\ g \in Seq(Byte) /\ f \in Seq(Byte)
      BY <1>1, <2>2, Types, FramesType DEF IInv
    <3>2. buffer \o stream = g
      BY <1>1, <2>1, <3>1, ConcatEmptySeq DEF Left
    <3>3. Framed(Append(messages, body)) = g \o f /\ g \o f \in Seq(Byte)
      BY <1>1, <2>2, <3>1, FramedAppend, ConcatProperties
    <3> HIDE DEF f, g
    <3>4. (buffer \o stream) \o f = buffer \o (stream \o f) /\ (g \o f) \o <<>> = g \o f
      BY <3>1, <3>3, ConcatAssociative, ConcatEmptySeq
    <3>5. buffer \o (stream \o f) = (g \o f) \o <<>>
      BY <3>2, <3>4, Zenon
    <3> QED
      BY <3>3, <3>5, Zenon DEF f
  <2>5. Left(Append(messages, body))'
    BY <1>1, <2>3, <2>4 DEF Left, Write
  <2> QED
    BY <2>2, <2>5
<1>3. ASSUME reader = "panicked" PROVE \E messages \in Seq(Bodies) : Killed(messages)'
  <2>1. PICK messages \in Seq(Bodies) : Killed(messages)
    BY <1>3 DEF IInv
  <2>2. messages \in Seq(Seq(Byte)) /\ Append(messages, body) \in Seq(Bodies)
        /\ Len(Append(messages, body)) = Len(messages) + 1
        /\ \A i \in 1..Len(messages) : Append(messages, body)[i] = messages[i]
    <3>1. messages \in Seq(Seq(Byte))
      BY BodiesAssumption, SeqMonotonic
    <3> QED
      BY <3>1, AppendProperties
  <2>3. written' = delivered \o Append(messages, body)
    <3> DEFINE T == Seq(Byte)
               t == Append(messages, body)
               c == <<body>>
    <3>1. delivered \in Seq(T) /\ messages \in Seq(T) /\ body \in T /\ written \in Seq(T) /\ c \in Seq(T)
      BY <1>1, <2>2, Types, BodiesAssumption, SeqMonotonic DEF IInv
    <3>2. written = delivered \o messages /\ written' = Append(written, body)
      BY <2>1 DEF Killed, Write
    <3>3. Append(written, body) = written \o c /\ t = messages \o c
      BY <3>1, AppendIsConcat
    <3> HIDE DEF T, t, c
    <3>4. (delivered \o messages) \o c = delivered \o (messages \o c)
      BY <3>1, ConcatAssociative
    <3>5. written' = delivered \o t
      BY <3>2, <3>3, <3>4, Zenon
    <3> QED
      BY <3>5, Zenon DEF t
  <2>4. (\E i \in 1..Len(Append(messages, body)) : ~Small(Append(messages, body)[i])) \/ Overflows(cut)
    <3>1. Len(messages) \in Nat
      OBVIOUS
    <3>2. CASE Overflows(cut)
      BY <3>2
    <3>3. CASE \E i \in 1..Len(messages) : ~Small(messages[i])
      <4>1. PICK i \in 1..Len(messages) : ~Small(messages[i])
        BY <3>3
      <4>2. i \in 1..Len(Append(messages, body)) /\ Append(messages, body)[i] = messages[i]
        BY <2>2, <3>1
      <4> QED
        BY <4>1, <4>2
    <3> QED
      BY <2>1, <3>2, <3>3 DEF Killed
  <2>5. Killed(Append(messages, body))'
    BY <2>3, <2>4 DEF Killed, Write
  <2> QED
    BY <2>2, <2>5
<1> QED
  BY <1>1, <1>2, <1>3 DEF IInv, Write

\* The unfinished frame goes to the end of the stream.
LEMMA CloseInv ==
  ASSUME NoneWraps, IInv, TypeOK', Close
  PROVE  IInv'
<1>1. ~closed /\ cut = <<>> /\ closed' /\ ~HasFrame(cut')
  <2>1. PICK body \in Bodies : \E n \in 0..Len(create_framed_message(body)) - 1 :
             cut' = SubSeq(create_framed_message(body), 1, n)
    BY DEF Close
  <2>2. Len(body) < Wrap
    BY ShortMessages
  <2>3. PICK n \in 0..Len(create_framed_message(body)) - 1 : cut' = SubSeq(create_framed_message(body), 1, n)
    BY <2>1
  <2>4. ~HasFrame(SubSeq(create_framed_message(body), 1, n))
    BY <2>2, UnfinishedFrame
  <2> QED
    BY <2>3, <2>4 DEF IInv, Close
<1>2. ASSUME reader # "panicked" PROVE \E messages \in Seq(Bodies) : Left(messages)'
  <2>1. PICK messages \in Seq(Bodies) : Left(messages)
    BY <1>2 DEF IInv
  <2> DEFINE g == Framed(messages)
             c == cut'
  <2>2. stream \in Seq(Byte) /\ buffer \in Seq(Byte) /\ c \in Seq(Byte) /\ g \in Seq(Byte)
    <3>1. messages \in Seq(Seq(Byte))
      BY BodiesAssumption, SeqMonotonic
    <3> QED
      BY <3>1, Types, FramesType DEF IInv, TypeOK
  <2>3. buffer \o stream = g
    BY <1>1, <2>1, <2>2, ConcatEmptySeq DEF Left
  <2> HIDE DEF g, c
  <2>4. (buffer \o stream) \o c = buffer \o (stream \o c)
    BY <2>2, ConcatAssociative
  <2>5. buffer \o (stream \o c) = g \o c
    BY <2>3, <2>4, Zenon
  <2>6. Left(messages)'
    BY <2>1, <2>5 DEF Left, Close, g, c
  <2> QED
    BY <2>6
<1>3. ASSUME reader = "panicked" PROVE \E messages \in Seq(Bodies) : Killed(messages)'
  <2>1. PICK messages \in Seq(Bodies) : Killed(messages)
    BY <1>3 DEF IInv
  <2>2. ~Overflows(cut)
    BY <1>1, EmptySeq DEF Overflows
  <2> QED
    BY <2>1, <2>2 DEF Killed, Close
<1> QED
  BY <1>1, <1>2, <1>3 DEF IInv, Close

\* A read moves the frames that are whole from what is left to the result,
\* or finds a length that is too large.
LEMMA PollInv ==
  ASSUME NoneWraps, IInv, TypeOK', Poll
  PROVE  IInv'
<1>1. PICK n \in 1..Min({ReadSize, Len(stream)}) :
             LET r == frame_decode(buffer \o SubSeq(stream, 1, n))
             IN /\ buffer' = r.rest /\ frames' = r.frames
                /\ stream' = SubSeq(stream, n + 1, Len(stream))
                /\ reader' = IF r.panic THEN "panicked" ELSE "reading"
  BY DEF Poll
<1> DEFINE read == SubSeq(stream, 1, n)
           ahead == SubSeq(stream, n + 1, Len(stream))
           bytes == buffer \o read
           r == frame_decode(bytes)
<1>2. buffer' = r.rest /\ frames' = r.frames /\ stream' = ahead
      /\ reader' = (IF r.panic THEN "panicked" ELSE "reading")
  BY <1>1
<1>3. stream \in Seq(Byte) /\ buffer \in Seq(Byte) /\ cut \in Seq(Byte) /\ ~HasFrame(cut)
  BY Types DEF IInv
<1>4. read \in Seq(Byte) /\ ahead \in Seq(Byte) /\ read \o ahead = stream
  <2>1. TypeOK
    BY DEF IInv
  <2>2. n \in 0..Len(stream)
    BY <2>1, ReadBound, Zenon
  <2> QED
    BY <1>3, <2>2, CutInTwo DEF read, ahead
<1> HIDE DEF read, ahead
<1>5. bytes \in Seq(Byte) /\ bytes \o ahead = buffer \o stream
  <2>1. bytes \in Seq(Byte)
    BY <1>3, <1>4, ConcatProperties
  <2>2. bytes \o ahead = buffer \o (read \o ahead)
    <3>1. buffer \in Seq(Byte) /\ read \in Seq(Byte) /\ ahead \in Seq(Byte)
      BY <1>3, <1>4
    <3> QED
      BY <3>1, ConcatAssociative
  <2> QED
    BY <1>4, <2>1, <2>2, Zenon
<1> HIDE DEF bytes
<1>6. PICK messages \in Seq(Bodies) : Left(messages)
  BY DEF IInv, Poll
<1>7. frames = <<>> /\ delivered \o frames = delivered /\ written = delivered \o messages
  <2>1. frames = <<>> /\ delivered \in Seq(Seq(Byte))
    BY Types DEF IInv, Poll
  <2>2. delivered \o frames = delivered
    BY <2>1, ConcatEmptySeq
  <2> QED
    BY <1>6, <2>1, <2>2 DEF Left
<1>8. bytes \o ahead = Framed(messages) \o cut
  BY <1>5, <1>6, Zenon DEF Left
<1>9. r \in Decoding /\ Returns(r) /\ Decodes(r, Bodies, messages, cut, ahead)
  BY <1>3, <1>4, <1>5, <1>8, ShortMessages, DecodesFront
<1> HIDE DEF r
<1>10. /\ written' = written /\ closed' = closed /\ cut' = cut /\ delivered' = delivered
  BY DEF Poll
<1>11. CASE r.panic
  <2>1. reader' = "panicked" /\ frames' = <<>> /\ ((\E i \in 1..Len(messages) : ~Small(messages[i])) \/ Overflows(cut))
    BY <1>2, <1>9, <1>11 DEF Decodes
  <2>2. Killed(messages)'
    BY <1>7, <1>10, <2>1 DEF Killed
  <2> QED
    BY <1>10, <2>1, <2>2 DEF IInv
<1>12. CASE ~r.panic
  <2>1. PICK left \in Seq(Bodies) : messages = r.frames \o left /\ r.rest \o ahead = Framed(left) \o cut
    BY <1>9, <1>12 DEF Decodes
  <2>2. reader' = "reading" /\ ~HasFrame(buffer')
    BY <1>2, <1>9, <1>12 DEF Returns
  <2>3. written = (delivered \o r.frames) \o left
    <3> DEFINE T == Seq(Byte)
               taken == r.frames
    <3>1. delivered \in Seq(T) /\ taken \in Seq(T) /\ left \in Seq(T)
      BY <1>9, Types, BodiesAssumption, SeqMonotonic DEF Decoding, IInv
    <3>2. written = delivered \o messages /\ messages = taken \o left
      BY <1>7, <2>1
    <3> HIDE DEF T, taken
    <3>3. (delivered \o taken) \o left = delivered \o (taken \o left)
      BY <3>1, ConcatAssociative
    <3>4. written = (delivered \o taken) \o left
      BY <3>2, <3>3, Zenon
    <3> QED
      BY <3>4, Zenon DEF taken
  <2>4. Left(left)'
    BY <1>2, <1>10, <2>1, <2>3 DEF Left
  <2> QED
    BY <1>10, <2>2, <2>4 DEF IInv
<1> QED
  BY <1>11, <1>12

\* Handing on a message moves it to what is delivered.
LEMMA DeliverInv ==
  ASSUME NoneWraps, IInv, TypeOK', Deliver
  PROVE  IInv' /\ delivered' \o frames' = delivered \o frames
<1> DEFINE T == Seq(Byte)
<1>1. frames \in Seq(T) /\ delivered \in Seq(T) /\ frames # <<>>
      /\ delivered' = Append(delivered, Head(frames)) /\ frames' = Tail(frames)
  BY Types DEF IInv, Deliver
<1>2. delivered' \o frames' = delivered \o frames
  <2> HIDE DEF T
  <2>1. delivered \o frames = Append(delivered, Head(frames)) \o Tail(frames)
    BY <1>1, TakeFirst
  <2> QED
    BY <1>1, <2>1, Zenon
<1>3. PICK messages \in Seq(Bodies) : Left(messages)
  BY DEF IInv, Deliver
<1>4. Left(messages)'
  BY <1>2, <1>3 DEF Left, Deliver
<1> QED
  BY <1>2, <1>4 DEF IInv, Deliver

\* When nothing is in the stream and no whole frame in the buffer, nothing
\* is left: the buffer has the unfinished frame at most.
LEMMA ReadEndInv ==
  ASSUME NoneWraps, IInv, TypeOK', ReadEnd
  PROVE  IInv'
<1>1. PICK messages \in Seq(Bodies) : Left(messages)
  BY DEF IInv, ReadEnd
<1>2. stream = <<>> /\ frames = <<>> /\ closed /\ ~HasFrame(buffer) /\ cut \in Seq(Byte) /\ buffer \in Seq(Byte)
      /\ written = (delivered \o frames) \o messages /\ buffer \o <<>> = Framed(messages) \o cut
  BY <1>1, Types DEF IInv, ReadEnd, Left
<1>3. messages = <<>>
  <2> SUFFICES ASSUME messages # <<>> PROVE FALSE
    OBVIOUS
  <2> DEFINE body == Head(messages)
             after == Framed(Tail(messages)) \o cut
  <2>1. /\ body \in Bodies /\ after \in Seq(Byte)
        /\ Framed(messages) \o cut = create_framed_message(body) \o after
    BY <1>2, BodiesAssumption, FramesInFront
  <2>2. body \in Seq(Byte) /\ Len(body) < Wrap
    BY <2>1, ShortMessages
  <2> HIDE DEF body, after
  <2>3. buffer \o <<>> = create_framed_message(body) \o after
    BY <1>2, <2>1
  <2>4. HasFrame(buffer)
    BY <1>2, <2>1, <2>2, <2>3, WholeFrame
  <2> QED
    BY <1>2, <2>4
<1>4. delivered = written
  <2> DEFINE T == Seq(Byte)
  <2>1. delivered \in Seq(T)
    BY Types DEF IInv
  <2> HIDE DEF T
  <2>2. delivered \o <<>> = delivered
    BY <2>1, ConcatEmptySeq
  <2>3. written = (delivered \o <<>>) \o <<>>
    BY <1>2, <1>3
  <2> QED
    BY <2>2, <2>3
<1>5. Left(messages)'
  BY <1>1 DEF Left, ReadEnd
<1> QED
  BY <1>2, <1>4, <1>5 DEF IInv, ReadEnd

\* Every step keeps IInv.
LEMMA NextInv ==
  ASSUME NoneWraps, IInv, TypeOK', [Next]_vars
  PROVE  IInv'
<1>1. ASSUME NEW body \in Bodies, Write(body) PROVE IInv'
  BY <1>1, WriteInv
<1>2. CASE Close
  BY <1>2, CloseInv
<1>3. CASE Poll
  BY <1>3, PollInv
<1>4. CASE Deliver
  BY <1>4, DeliverInv
<1>5. CASE ReadEnd
  BY <1>5, ReadEndInv
<1>6. CASE ReadFails
  <2>1. \A messages : Left(messages) => Left(messages)'
    BY <1>6 DEF Left, ReadFails
  <2> QED
    BY <1>6, <2>1 DEF IInv, ReadFails
<1>7. CASE UNCHANGED vars
  <2>1. \A messages : (Left(messages) => Left(messages)') /\ (Killed(messages) => Killed(messages)')
    BY <1>7 DEF Left, Killed, vars
  <2> QED
    BY <1>7, <2>1 DEF IInv, vars
<1> QED
  BY <1>1, <1>2, <1>3, <1>4, <1>5, <1>6, <1>7 DEF Next

\* It is an invariant.
THEOREM Inductive ==
  ASSUME NoneWraps
  PROVE  Spec => []IInv
<1>1. Spec => []TypeOK
  BY TypeCorrect
<1>2. IInv /\ TypeOK' /\ [Next]_vars => IInv'
  BY NextInv
<1>3. Init => IInv
  BY InitInv
<1> QED
  BY <1>1, <1>2, <1>3, PTL DEF Spec

-----------------------------------------------------------------------------
(* The properties. *)

\* What is left, as a part of what was written.
LEMMA LeftParts ==
  ASSUME IInv, NEW messages \in Seq(Bodies), Left(messages)
  PROVE  /\ Ahead \in Nat /\ Len(written) = Ahead + Len(messages)
         /\ SubSeq(written, 1, Ahead) = delivered \o frames
         /\ SubSeq(written, Ahead + 1, Len(written)) = messages
         /\ messages # <<>> => written[Ahead + 1] = Head(messages)
<1> DEFINE T == Seq(Byte)
           a == delivered \o frames
           w == written
<1>1. frames \in Seq(T) /\ delivered \in Seq(T) /\ a \in Seq(T) /\ messages \in Seq(T) /\ w = a \o messages
  BY Types, BodiesAssumption, SeqMonotonic DEF IInv, Left
<1> HIDE DEF T
<1>2. Len(a) = Ahead /\ Ahead \in Nat
  BY <1>1, ConcatProperties DEF Ahead
<1> HIDE DEF a, w
<1>3. /\ Len(a \o messages) = Len(a) + Len(messages)
      /\ SubSeq(a \o messages, 1, Len(a)) = a
      /\ SubSeq(a \o messages, Len(a) + 1, Len(a \o messages)) = messages
      /\ messages # <<>> => (a \o messages)[Len(a) + 1] = Head(messages)
  BY <1>1, TwoParts
<1>4. /\ Len(w) = Ahead + Len(messages) /\ SubSeq(w, 1, Ahead) = a /\ SubSeq(w, Ahead + 1, Len(w)) = messages
      /\ messages # <<>> => w[Ahead + 1] = Head(messages)
  BY <1>1, <1>2, <1>3
<1> QED
  BY <1>2, <1>4 DEF w, a

\* The buffer holds less than the first frame that is left.
LEMMA NothingLostHolds == NoneWraps /\ IInv => NothingLost
<1> SUFFICES ASSUME NoneWraps, IInv, reader # "panicked"
             PROVE  /\ Ahead <= Len(written) /\ delivered \o frames = SubSeq(written, 1, Ahead)
                    /\ buffer \o stream = Framed(SubSeq(written, Ahead + 1, Len(written))) \o cut
                    /\ Ahead < Len(written) =>
                         Len(buffer) < Len(create_framed_message(written[Ahead + 1]))
  BY DEF NothingLost
<1>1. PICK messages \in Seq(Bodies) : Left(messages)
  BY DEF IInv
<1>2. /\ Ahead \in Nat /\ Len(messages) \in Nat /\ Len(written) = Ahead + Len(messages)
      /\ SubSeq(written, 1, Ahead) = delivered \o frames
      /\ SubSeq(written, Ahead + 1, Len(written)) = messages
      /\ messages # <<>> => written[Ahead + 1] = Head(messages)
  <2>1. Len(messages) \in Nat
    OBVIOUS
  <2>2. /\ Ahead \in Nat /\ Len(written) = Ahead + Len(messages)
        /\ SubSeq(written, 1, Ahead) = delivered \o frames
        /\ SubSeq(written, Ahead + 1, Len(written)) = messages
        /\ messages # <<>> => written[Ahead + 1] = Head(messages)
    BY <1>1, LeftParts, Zenon
  <2> QED
    BY <2>1, <2>2, Zenon
<1>3. buffer \o stream = Framed(SubSeq(written, Ahead + 1, Len(written))) \o cut
  BY <1>1, <1>2 DEF Left
<1>4. ASSUME Ahead < Len(written) PROVE Len(buffer) < Len(create_framed_message(written[Ahead + 1]))
  <2> DEFINE body == Head(messages)
             after == Framed(Tail(messages)) \o cut
  <2>1. messages # <<>>
    BY <1>2, <1>4, EmptySeq
  <2>2. buffer \in Seq(Byte) /\ stream \in Seq(Byte) /\ cut \in Seq(Byte) /\ ~HasFrame(buffer)
    BY Types DEF IInv
  <2>3. /\ body \in Bodies /\ after \in Seq(Byte)
        /\ Framed(messages) \o cut = create_framed_message(body) \o after
    BY <2>1, <2>2, BodiesAssumption, FramesInFront
  <2>4. body \in Seq(Byte) /\ Len(body) < Wrap /\ Len(body) \in Nat
    <3>1. body \in Seq(Byte) /\ Len(body) < Wrap
      BY <2>3, ShortMessages
    <3> HIDE DEF body
    <3> QED
      BY <3>1
  <2>5. written[Ahead + 1] = body
    BY <1>2, <2>1
  <2> HIDE DEF body, after
  <2>6. buffer \o stream = create_framed_message(body) \o after
    BY <1>1, <2>3, Zenon DEF Left
  <2>7. Len(buffer) >= 4 => u32(buffer) = Len(body)
    BY <2>2, <2>3, <2>4, <2>6, FirstFrame
  <2>8. Len(create_framed_message(body)) = Len(body) + 4
    BY <2>4, FrameType
  <2>9. Len(buffer) < Len(body) + 4
    BY <2>2, <2>4, <2>7 DEF HasFrame
  <2> QED
    BY <2>5, <2>8, <2>9
<1> QED
  BY <1>2, <1>3, <1>4

\* Wherever the reads cut the stream, nothing is lost, doubled or put in
\* another order, and a whole message does not wait in the buffer.
THEOREM NeverLost ==
  ASSUME NoneWraps
  PROVE  Spec => []NothingLost
BY Inductive, NothingLostHolds, PTL

\* The message that was too long is one that was not handed on.
LEMMA PanicsHolds == IInv => PanicsOnlyOnHuge
<1> SUFFICES ASSUME IInv, reader = "panicked"
             PROVE  /\ \/ \E i \in Len(delivered) + 1..Len(written) : ~Small(written[i])
                       \/ Overflows(cut)
                    /\ IsPrefix(delivered, written)
  BY DEF PanicsOnlyOnHuge
<1>1. PICK messages \in Seq(Bodies) : Killed(messages)
  BY DEF IInv
<1> DEFINE T == Seq(Byte)
           n == Len(delivered)
<1>2. delivered \in Seq(T) /\ messages \in Seq(T) /\ written = delivered \o messages
  BY <1>1, Types, BodiesAssumption, SeqMonotonic DEF IInv, Killed
<1> HIDE DEF T
<1>3. /\ n \in Nat /\ Len(messages) \in Nat /\ Len(written) = n + Len(messages)
      /\ \A i \in 1..n + Len(messages) : written[i] = IF i <= n THEN delivered[i] ELSE messages[i - n]
  BY <1>2, ConcatProperties
<1>4. IsPrefix(delivered, written)
  <2>1. \A i \in 1..n : written[i] = delivered[i]
    BY <1>3
  <2>2. SubSeq(delivered \o messages, 1, n) = delivered
    BY <1>2, TwoParts
  <2>3. SubSeq(written, 1, n) = delivered
    BY <1>2, <2>2
  <2>4. SubSeq(delivered, 1, n) = delivered
    BY <1>2, SubSeqFull
  <2> QED
    BY <1>2, <1>3, <2>3, <2>4 DEF IsPrefix
<1>5. CASE \E i \in 1..Len(messages) : ~Small(messages[i])
  <2>1. PICK i \in 1..Len(messages) : ~Small(messages[i])
    BY <1>5
  <2>2. n + i \in n + 1..Len(written) /\ ~(n + i <= n) /\ (n + i) - n = i /\ n + i \in 1..n + Len(messages)
    BY <1>3
  <2>3. written[n + i] = messages[i]
    BY <1>3, <2>2
  <2> QED
    BY <1>4, <2>1, <2>2, <2>3
<1> QED
  BY <1>1, <1>4, <1>5 DEF Killed

\* The reader dies of nothing but a length within four of 2^32, and what it
\* had handed on by then was right.
THEOREM PanicsRarely ==
  ASSUME NoneWraps
  PROVE  Spec => []PanicsOnlyOnHuge
BY Inductive, PanicsHolds, PTL

\* At the end of a stream that was not reset everything has been handed on.
THEOREM EndIsComplete ==
  ASSUME NoneWraps
  PROVE  Spec => []EndMeansAll
<1>1. IInv => EndMeansAll
  BY DEF IInv, EndMeansAll
<1> QED
  BY <1>1, Inductive, PTL

-----------------------------------------------------------------------------
(* The refinement. *)

\* Write and Deliver are the link's; a reader that stops ends the link; other
\* steps do not touch it.
LEMMA LinkStep ==
  ASSUME NoneWraps, IInv, IInv', [Next]_vars
  PROVE  [Link!Next]_(Link!vars)
<1> USE DEF Link!vars
<1>1. ASSUME NEW body \in Bodies, Write(body) PROVE [Link!Next]_(Link!vars)
  <2>1. written \in Seq(Bodies) /\ written' = Append(written, body)
    BY <1>1, Types DEF IInv, Write
  <2>2. Len(written') = Len(written) + 1 /\ SubSeq(written', 1, Len(written)) = written
    <3>1. Append(written, body) = written \o <<body>> /\ <<body>> \in Seq(Bodies)
      BY <2>1, AppendIsConcat
    <3>2. Len(Append(written, body)) = Len(written) + 1
      BY <2>1, AppendProperties
    <3>3. SubSeq(written \o <<body>>, 1, Len(written)) = written
      BY <2>1, <3>1, TwoParts
    <3> QED
      BY <2>1, <3>1, <3>2, <3>3
  <2>3. Link!Write
    BY <1>1, <2>2 DEF Write, Link!Write
  <2> QED
    BY <2>3 DEF Link!Next
<1>2. CASE Close
  BY <1>2 DEF Close
<1>3. CASE Poll
  <2>1. reader = "reading" /\ reader' \in {"reading", "panicked"} /\ UNCHANGED <<written, delivered>>
    BY <1>3 DEF Poll
  <2>2. CASE reader' = "reading"
    BY <2>1, <2>2
  <2>3. CASE reader' = "panicked"
    BY <2>1, <2>3 DEF Link!Next, Link!End
  <2> QED
    BY <2>1, <2>2, <2>3
<1>4. CASE Deliver
  <2> DEFINE T == Seq(Byte)
             n == Len(delivered)
  <2>1. frames \in Seq(T) /\ delivered \in Seq(T) /\ frames # <<>> /\ reader = "reading" /\ reader' = reader
        /\ written' = written /\ delivered' = Append(delivered, Head(frames))
    BY <1>4, Types DEF IInv, Deliver
  <2>2. PICK messages \in Seq(Bodies) : Left(messages)
    BY <2>1 DEF IInv
  <2>3. messages \in Seq(T) /\ written = (delivered \o frames) \o messages
    BY <2>2, BodiesAssumption, SeqMonotonic DEF Left
  <2> HIDE DEF T
  <2>4. written = delivered \o (frames \o messages) /\ frames \o messages \in Seq(T)
    <3>1. (delivered \o frames) \o messages = delivered \o (frames \o messages)
      BY <2>1, <2>3, ConcatAssociative
    <3>2. frames \o messages \in Seq(T)
      BY <2>1, <2>3, ConcatProperties
    <3> QED
      BY <2>3, <3>1, <3>2, Zenon
  <2>5. Len(frames) >= 1 /\ Head(frames) = frames[1] /\ Len(frames) \in Nat /\ Len(messages) \in Nat /\ n \in Nat
    BY <2>1, <2>3, EmptySeq
  <2>6. Len(frames \o messages) = Len(frames) + Len(messages) /\ (frames \o messages)[1] = frames[1]
    <3>1. 1 \in 1..Len(frames) + Len(messages) /\ 1 <= Len(frames)
      BY <2>5
    <3> QED
      BY <2>1, <2>3, <3>1, ConcatProperties
  <2>7. Len(written) = n + Len(frames \o messages) /\ written[n + 1] = (frames \o messages)[1]
    <3> DEFINE rest == frames \o messages
    <3>1. rest \in Seq(T) /\ Len(rest) \in Nat /\ Len(rest) >= 1 /\ written = delivered \o rest
      BY <2>4, <2>5, <2>6
    <3> HIDE DEF rest
    <3>2. Len(delivered \o rest) = n + Len(rest)
          /\ \A i \in 1..n + Len(rest) : (delivered \o rest)[i] = IF i <= n THEN delivered[i] ELSE rest[i - n]
      BY <2>1, <3>1, ConcatProperties
    <3>3. n + 1 \in 1..n + Len(rest) /\ ~(n + 1 <= n) /\ (n + 1) - n = 1
      BY <2>5, <3>1
    <3> QED
      BY <3>1, <3>2, <3>3 DEF rest
  <2>8. n < Len(written) /\ Head(frames) = written[n + 1]
    BY <2>5, <2>6, <2>7
  <2>9. Link!Deliver
    BY <2>1, <2>8 DEF Link!Deliver
  <2> QED
    BY <2>9 DEF Link!Next
<1>5. CASE ReadEnd
  BY <1>5 DEF ReadEnd, Link!Next, Link!End
<1>6. CASE ReadFails
  BY <1>6 DEF ReadFails, Link!Next, Link!End
<1>7. CASE UNCHANGED vars
  BY <1>7 DEF vars
<1> QED
  BY <1>1, <1>2, <1>3, <1>4, <1>5, <1>6, <1>7 DEF Next

\* The framed connection is a link: what comes out is what was written, in
\* order, until it is over.
THEOREM Implements ==
  ASSUME NoneWraps
  PROVE  Spec => ImplementsLink
<1>1. Init => Link!Init
  BY DEF Init, Link!Init
<1>2. IInv /\ IInv' /\ [Next]_vars => [Link!Next]_(Link!vars)
  BY LinkStep
<1>3. Spec => []IInv
  BY Inductive
<1> QED
  BY <1>1, <1>2, <1>3, PTL DEF Spec, ImplementsLink, Link!Spec

=============================================================================
