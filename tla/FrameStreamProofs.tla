-------------------------- MODULE FrameStreamProofs --------------------------
(***************************************************************************)
(* Proofs about FrameStream, for any connections, any capacity of the      *)
(* kernel's buffer and any number of messages.                             *)
(***************************************************************************)
EXTENDS FrameStream, ProtocolProofs, FiniteSetTheorems

(* A stream is a sequence g of frames followed by a sequence t of bytes.   *)
FrameSeq == {g \in Seq(Seq(Byte)) : \A j \in 1..Len(g) : Len(g[j]) = MESSAGE_SIZE}

StreamLen(g, t) == MESSAGE_SIZE * Len(g) + Len(t)

StreamAt(g, t, i) ==
    IF i <= MESSAGE_SIZE * Len(g)
    THEN g[((i - 1) \div MESSAGE_SIZE) + 1][((i - 1) % MESSAGE_SIZE) + 1]
    ELSE t[i - MESSAGE_SIZE * Len(g)]

(* What was handed on, then cursor, then wire: its length and i-th byte.   *)
Total == StreamLen(got, cursor \o wire)
At(i) == StreamAt(got, cursor \o wire, i)

Types == /\ conn \in Connections
         /\ nth \in [Writer -> 0..MaxMessages]
         /\ remaining \in [Writer -> 0..MESSAGE_SIZE]
         /\ link \in {"open", "closed", "reset"}
         /\ wire \in Seq(Byte) /\ Len(wire) <= Capacity
         /\ cursor \in Seq(Byte) /\ Len(cursor) < MESSAGE_SIZE
         /\ got \in FrameSeq
         /\ verdict \in {"none", "eof", "error"}

(* Every byte in the stream has been accepted by send. *)
Accepted(b) == \/ b[1][2] < nth[b[1][1]]
               \/ /\ b[1][2] = nth[b[1][1]]
                  /\ b[2] <= MESSAGE_SIZE - remaining[b[1][1]]

AllAccepted == \A i \in 1..Total : Accepted(At(i))

(* The bytes of each writer are in the order of sending. *)
Ordered == \A i, j \in 1..Total : i < j /\ At(i)[1][1] = At(j)[1][1] => Before(At(i), At(j))

(* With one patient writer the stream is exactly what send has accepted,   *)
(* or the beginning of it after a reset.                                   *)
ByteNo(w, i) == <<<<w, ((i - 1) \div MESSAGE_SIZE) + 1>>, ((i - 1) % MESSAGE_SIZE) + 1>>

Sequential ==
    \A w \in Writer : conn.writers = {w} /\ conn.impatient = {} =>
       /\ \A i \in 1..Total : At(i) = ByteNo(w, i)
       /\ link # "reset" => Total = MESSAGE_SIZE * nth[w] - remaining[w]

(* A verdict is given at the end of the stream, and nothing follows it. *)
Verdicts ==
    verdict # "none" =>
       /\ link # "open" /\ wire = <<>>
       /\ verdict = "eof" <=> cursor = <<>> /\ link = "closed"

(* Bytes are left of messages only. *)
Begun == \A w \in Writer : remaining[w] > 0 => nth[w] > 0

IInv == Types /\ Begun /\ AllAccepted /\ Ordered /\ Sequential /\ Verdicts
-----------------------------------------------------------------------------
(* Streams. *)

LEMMA Size == MESSAGE_SIZE = 4 /\ MESSAGE_SIZE \in Nat \ {0}
BY DEF MESSAGE_SIZE

LEMMA Associative ==
  ASSUME NEW c \in Seq(Byte), NEW w \in Seq(Byte), NEW x \in Seq(Byte)
  PROVE  (c \o w) \o x = c \o (w \o x)
BY ConcatAssociative

LEMMA InByte ==
  ASSUME NEW m, NEW i, <<m, i>> \in Byte PROVE m \in Message
BY DEF Byte

LEMMA FrameSeqFacts ==
  ASSUME NEW g \in FrameSeq
  PROVE  /\ g \in Seq(Seq(Byte)) /\ Len(g) \in Nat /\ DOMAIN g = 1..Len(g)
         /\ \A j \in 1..Len(g) : /\ g[j] \in Seq(Byte) /\ Len(g[j]) = MESSAGE_SIZE
                                 /\ g[j] \in [1..MESSAGE_SIZE -> Byte]
<1>1. g \in Seq(Seq(Byte)) /\ \A j \in 1..Len(g) : Len(g[j]) = MESSAGE_SIZE
  BY DEF FrameSeq
<1>2. Len(g) \in Nat /\ DOMAIN g = 1..Len(g)
  BY <1>1, LenProperties
<1>3. \A j \in 1..Len(g) : g[j] \in Seq(Byte)
  BY <1>1, ElementOfSeq
<1> QED
  BY <1>1, <1>2, <1>3, LenProperties

(* Byte i of frame j is byte 4 (j - 1) + i of the stream. *)
LEMMA FrontAt ==
  ASSUME NEW g \in FrameSeq, NEW t \in Seq(Byte), NEW j \in 1..Len(g), NEW i \in 1..MESSAGE_SIZE
  PROVE  /\ MESSAGE_SIZE * (j - 1) + i \in 1..(MESSAGE_SIZE * Len(g))
         /\ MESSAGE_SIZE * (j - 1) + i \in 1..StreamLen(g, t)
         /\ StreamAt(g, t, MESSAGE_SIZE * (j - 1) + i) = g[j][i]
<1> DEFINE k == MESSAGE_SIZE * (j - 1) + i
<1>1. Len(g) \in Nat /\ Len(t) \in Nat
  BY FrameSeqFacts, LenProperties
<1>2. /\ k \in 1..(MESSAGE_SIZE * Len(g))
      /\ ((k - 1) \div MESSAGE_SIZE) + 1 = j
      /\ ((k - 1) % MESSAGE_SIZE) + 1 = i
  BY <1>1, Size, Place
<1> HIDE DEF k
<1>3. k <= MESSAGE_SIZE * Len(g)
  BY <1>2
<1>4. StreamAt(g, t, k) = g[j][i]
  BY <1>2, <1>3 DEF StreamAt
<1>5. k \in 1..StreamLen(g, t)
  BY <1>1, <1>2, Size DEF StreamLen
<1> QED
  BY <1>2, <1>4, <1>5 DEF k

LEMMA BackAt ==
  ASSUME NEW g \in FrameSeq, NEW t \in Seq(Byte), NEW i \in 1..Len(t)
  PROVE  /\ MESSAGE_SIZE * Len(g) + i \in 1..StreamLen(g, t)
         /\ StreamAt(g, t, MESSAGE_SIZE * Len(g) + i) = t[i]
<1>1. Len(g) \in Nat /\ Len(t) \in Nat
  BY FrameSeqFacts, LenProperties
<1>2. /\ MESSAGE_SIZE * Len(g) + i \in 1..StreamLen(g, t)
      /\ ~(MESSAGE_SIZE * Len(g) + i <= MESSAGE_SIZE * Len(g))
      /\ (MESSAGE_SIZE * Len(g) + i) - MESSAGE_SIZE * Len(g) = i
  BY <1>1, Size DEF StreamLen
<1> QED
  BY <1>2 DEF StreamAt

(* Byte i of the n-th message is byte 4 (n - 1) + i of those sent. *)
LEMMA ByteNoAt ==
  ASSUME NEW w, NEW n \in Nat \ {0}, NEW i \in 1..MESSAGE_SIZE
  PROVE  ByteNo(w, MESSAGE_SIZE * (n - 1) + i) = <<<<w, n>>, i>>
<1> DEFINE q == n - 1
           r == i - 1
           k == MESSAGE_SIZE * q + i
<1>1. q \in Nat /\ r \in 0..(MESSAGE_SIZE - 1) /\ q + 1 = n /\ r + 1 = i
  BY Size
<1> HIDE DEF q, r
<1>2. k - 1 = MESSAGE_SIZE * q + r
  BY <1>1, Size
<1> HIDE DEF k
<1>3. (k - 1) \div MESSAGE_SIZE = q /\ (k - 1) % MESSAGE_SIZE = r
  <2>1. (MESSAGE_SIZE * q + r) \div MESSAGE_SIZE = q /\ (MESSAGE_SIZE * q + r) % MESSAGE_SIZE = r
    BY <1>1, Size, Quotient
  <2> QED
    BY <1>2, <2>1
<1>4. ByteNo(w, k) = <<<<w, n>>, i>>
  BY <1>1, <1>3 DEF ByteNo
<1> QED
  BY <1>4 DEF k, q

(* There are no other bytes. *)
LEMMA WhereAt ==
  ASSUME NEW g \in FrameSeq, NEW t \in Seq(Byte), NEW i \in 1..StreamLen(g, t)
  PROVE  \/ \E j \in 1..Len(g), k \in 1..MESSAGE_SIZE : i = MESSAGE_SIZE * (j - 1) + k
         \/ \E k \in 1..Len(t) : i = MESSAGE_SIZE * Len(g) + k
<1>1. Len(g) \in Nat /\ Len(t) \in Nat
  BY FrameSeqFacts, LenProperties
<1>2. CASE i <= MESSAGE_SIZE * Len(g)
  <2> DEFINE q == (i - 1) \div MESSAGE_SIZE
             r == (i - 1) % MESSAGE_SIZE
  <2>1. i - 1 \in Nat
    BY <1>1, Size DEF StreamLen
  <2>2. q \in Nat /\ r \in 0..(MESSAGE_SIZE - 1) /\ i - 1 = MESSAGE_SIZE * q + r
    BY <2>1, Size, Division
  <2> HIDE DEF q, r
  <2>3. q + 1 \in 1..Len(g) /\ r + 1 \in 1..MESSAGE_SIZE
    BY <1>1, <1>2, <2>1, <2>2, Size
  <2>4. i = MESSAGE_SIZE * ((q + 1) - 1) + (r + 1)
    BY <2>1, <2>2, Size
  <2> QED
    BY <2>3, <2>4
<1>3. CASE ~(i <= MESSAGE_SIZE * Len(g))
  <2>1. /\ i - MESSAGE_SIZE * Len(g) \in 1..Len(t)
        /\ i = MESSAGE_SIZE * Len(g) + (i - MESSAGE_SIZE * Len(g))
    BY <1>1, <1>3, Size DEF StreamLen
  <2> QED
    BY <2>1
<1> QED
  BY <1>2, <1>3

LEMMA ByteAt ==
  ASSUME NEW g \in FrameSeq, NEW t \in Seq(Byte), NEW i \in 1..StreamLen(g, t)
  PROVE  StreamAt(g, t, i) \in Byte
<1>0. \/ \E j \in 1..Len(g), k \in 1..MESSAGE_SIZE : i = MESSAGE_SIZE * (j - 1) + k
      \/ \E k \in 1..Len(t) : i = MESSAGE_SIZE * Len(g) + k
  BY WhereAt
<1>1. CASE \E j \in 1..Len(g), k \in 1..MESSAGE_SIZE : i = MESSAGE_SIZE * (j - 1) + k
  <2>1. PICK j \in 1..Len(g), k \in 1..MESSAGE_SIZE : i = MESSAGE_SIZE * (j - 1) + k
    BY <1>1
  <2>2. StreamAt(g, t, MESSAGE_SIZE * (j - 1) + k) = g[j][k]
    BY FrontAt
  <2>3. g[j] \in [1..MESSAGE_SIZE -> Byte]
    BY FrameSeqFacts
  <2> QED
    BY <2>1, <2>2, <2>3
<1>2. CASE \E k \in 1..Len(t) : i = MESSAGE_SIZE * Len(g) + k
  <2>1. PICK k \in 1..Len(t) : i = MESSAGE_SIZE * Len(g) + k
    BY <1>2
  <2>2. StreamAt(g, t, MESSAGE_SIZE * Len(g) + k) = t[k]
    BY BackAt
  <2>3. t[k] \in Byte
    BY ElementOfSeq
  <2> QED
    BY <2>1, <2>2, <2>3
<1> QED
  BY <1>0, <1>1, <1>2

(* Bytes behind it change nothing in a stream. *)
LEMMA Extended ==
  ASSUME NEW g \in FrameSeq, NEW t \in Seq(Byte), NEW x \in Seq(Byte)
  PROVE  /\ t \o x \in Seq(Byte)
         /\ StreamLen(g, t \o x) = StreamLen(g, t) + Len(x)
         /\ StreamLen(g, t) \in Nat /\ Len(x) \in Nat
         /\ \A i \in 1..StreamLen(g, t) : StreamAt(g, t \o x, i) = StreamAt(g, t, i)
         /\ \A i \in 1..Len(x) : StreamAt(g, t \o x, StreamLen(g, t) + i) = x[i]
<1>1. Len(g) \in Nat /\ Len(t) \in Nat /\ Len(x) \in Nat
  BY FrameSeqFacts, LenProperties
<1>2. /\ t \o x \in Seq(Byte) /\ Len(t \o x) = Len(t) + Len(x)
      /\ \A i \in 1..(Len(t) + Len(x)) : (t \o x)[i] = IF i <= Len(t) THEN t[i] ELSE x[i - Len(t)]
  BY ConcatProperties
<1>3. StreamLen(g, t \o x) = StreamLen(g, t) + Len(x) /\ StreamLen(g, t) \in Nat
  BY <1>1, <1>2, Size DEF StreamLen
<1>4. ASSUME NEW i \in 1..StreamLen(g, t)
      PROVE  StreamAt(g, t \o x, i) = StreamAt(g, t, i)
  <2>0. \/ \E j \in 1..Len(g), k \in 1..MESSAGE_SIZE : i = MESSAGE_SIZE * (j - 1) + k
        \/ \E k \in 1..Len(t) : i = MESSAGE_SIZE * Len(g) + k
    BY WhereAt
  <2>1. CASE \E j \in 1..Len(g), k \in 1..MESSAGE_SIZE : i = MESSAGE_SIZE * (j - 1) + k
    <3>1. PICK j \in 1..Len(g), k \in 1..MESSAGE_SIZE : i = MESSAGE_SIZE * (j - 1) + k
      BY <2>1
    <3>2. StreamAt(g, t \o x, MESSAGE_SIZE * (j - 1) + k) = g[j][k]
      BY <1>2, FrontAt
    <3>3. StreamAt(g, t, MESSAGE_SIZE * (j - 1) + k) = g[j][k]
      BY FrontAt
    <3> QED
      BY <3>1, <3>2, <3>3
  <2>2. CASE \E k \in 1..Len(t) : i = MESSAGE_SIZE * Len(g) + k
    <3>1. PICK k \in 1..Len(t) : i = MESSAGE_SIZE * Len(g) + k
      BY <2>2
    <3>2. k \in 1..Len(t \o x) /\ (t \o x)[k] = t[k]
      BY <1>1, <1>2
    <3>3. StreamAt(g, t \o x, MESSAGE_SIZE * Len(g) + k) = (t \o x)[k]
      BY <1>2, <3>2, BackAt
    <3>4. StreamAt(g, t, MESSAGE_SIZE * Len(g) + k) = t[k]
      BY BackAt
    <3> QED
      BY <3>1, <3>2, <3>3, <3>4
  <2> QED
    BY <2>0, <2>1, <2>2
<1>5. ASSUME NEW i \in 1..Len(x)
      PROVE  StreamAt(g, t \o x, StreamLen(g, t) + i) = x[i]
  <2>1. Len(t) + i \in 1..Len(t \o x) /\ (t \o x)[Len(t) + i] = x[i]
    <3>1. /\ Len(t) + i \in 1..(Len(t) + Len(x)) /\ ~(Len(t) + i <= Len(t))
          /\ (Len(t) + i) - Len(t) = i
      BY <1>1
    <3> QED
      BY <1>2, <3>1
  <2>2. MESSAGE_SIZE * Len(g) + (Len(t) + i) = StreamLen(g, t) + i
    BY <1>1, Size DEF StreamLen
  <2>3. StreamAt(g, t \o x, MESSAGE_SIZE * Len(g) + (Len(t) + i)) = (t \o x)[Len(t) + i]
    BY <1>2, <2>1, BackAt
  <2> QED
    BY <2>1, <2>2, <2>3
<1> QED
  BY <1>1, <1>2, <1>3, <1>4, <1>5

(* What both readers do, Recv and OnData, to the bytes behind got: t       *)
(* becomes u, the frames f are taken off its front.                        *)
Takes(t, f, u) ==
    /\ u \in Seq(Byte) /\ Len(t) = MESSAGE_SIZE * Len(f) + Len(u)
    /\ \A j \in 1..Len(f) : \A i \in 1..MESSAGE_SIZE : f[j][i] = t[MESSAGE_SIZE * (j - 1) + i]
    /\ \A i \in 1..Len(u) : u[i] = t[MESSAGE_SIZE * Len(f) + i]

(* g with u behind it holds the bytes that h has with t behind it.         *)
SameStream(g, u, h, t) ==
    /\ StreamLen(g, u) = StreamLen(h, t)
    /\ \A i \in 1..StreamLen(h, t) : StreamAt(g, u, i) = StreamAt(h, t, i)

(* Frames taken off the front of t change nothing in the stream either.    *)
LEMMA Regrouped ==
  ASSUME NEW g \in FrameSeq, NEW t \in Seq(Byte), NEW f \in FrameSeq, NEW u, Takes(t, f, u)
  PROVE  g \o f \in FrameSeq /\ SameStream(g \o f, u, g, t)
<1> DEFINE h == g \o f
<1>0. /\ u \in Seq(Byte) /\ Len(t) = MESSAGE_SIZE * Len(f) + Len(u)
      /\ \A j \in 1..Len(f) : \A i \in 1..MESSAGE_SIZE : f[j][i] = t[MESSAGE_SIZE * (j - 1) + i]
      /\ \A i \in 1..Len(u) : u[i] = t[MESSAGE_SIZE * Len(f) + i]
  BY DEF Takes
<1>1. Len(g) \in Nat /\ Len(f) \in Nat /\ Len(t) \in Nat /\ Len(u) \in Nat
  BY <1>0, FrameSeqFacts, LenProperties
<1>2. /\ h \in Seq(Seq(Byte)) /\ Len(h) = Len(g) + Len(f)
      /\ \A j \in 1..(Len(g) + Len(f)) : h[j] = IF j <= Len(g) THEN g[j] ELSE f[j - Len(g)]
  BY FrameSeqFacts, ConcatProperties
<1> HIDE DEF h
<1>3. \A j \in 1..Len(g) : j \in 1..Len(h) /\ h[j] = g[j]
  BY <1>1, <1>2
<1>4. ASSUME NEW j \in 1..Len(h), j \notin 1..Len(g)
      PROVE  j - Len(g) \in 1..Len(f) /\ h[j] = f[j - Len(g)]
  BY <1>1, <1>2, <1>4
<1>5. h \in FrameSeq
  <2>1. ASSUME NEW j \in 1..Len(h)
        PROVE  Len(h[j]) = MESSAGE_SIZE
    <3>1. CASE j \in 1..Len(g)
      <4>1. Len(g[j]) = MESSAGE_SIZE
        BY <3>1, FrameSeqFacts
      <4> QED
        BY <1>3, <3>1, <4>1
    <3>2. CASE j \notin 1..Len(g)
      <4>1. j - Len(g) \in 1..Len(f) /\ h[j] = f[j - Len(g)]
        BY <1>4, <3>2
      <4>2. \A l \in 1..Len(f) : Len(f[l]) = MESSAGE_SIZE
        BY FrameSeqFacts
      <4> QED
        BY <4>1, <4>2
    <3> QED
      BY <3>1, <3>2
  <2> QED
    BY <1>2, <2>1 DEF FrameSeq
<1>6. StreamLen(h, u) = StreamLen(g, t)
  BY <1>0, <1>1, <1>2, Size DEF StreamLen
<1>7. ASSUME NEW i \in 1..StreamLen(g, t)
      PROVE  StreamAt(h, u, i) = StreamAt(g, t, i)
  <2>0. \/ \E j \in 1..Len(h), k \in 1..MESSAGE_SIZE : i = MESSAGE_SIZE * (j - 1) + k
        \/ \E k \in 1..Len(u) : i = MESSAGE_SIZE * Len(h) + k
    BY <1>0, <1>5, <1>6, WhereAt
  <2>1. ASSUME NEW j \in 1..Len(h), NEW k \in 1..MESSAGE_SIZE, i = MESSAGE_SIZE * (j - 1) + k
        PROVE  StreamAt(h, u, i) = StreamAt(g, t, i)
    <3>1. StreamAt(h, u, MESSAGE_SIZE * (j - 1) + k) = h[j][k]
      BY <1>0, <1>5, FrontAt
    <3>2. CASE j \in 1..Len(g)
      <4>1. StreamAt(g, t, MESSAGE_SIZE * (j - 1) + k) = g[j][k]
        BY <3>2, FrontAt
      <4> QED
        BY <1>3, <2>1, <3>1, <3>2, <4>1
    <3>3. CASE j \notin 1..Len(g)
      <4> DEFINE l == j - Len(g)
                 m == MESSAGE_SIZE * (l - 1) + k
      <4>1. l \in 1..Len(f) /\ h[j] = f[l]
        BY <1>4, <3>3
      <4>2. m \in 1..(MESSAGE_SIZE * Len(f)) /\ f[l][k] = t[m]
        BY <1>0, <4>1, FrontAt
      <4>3. m \in 1..Len(t) /\ i = MESSAGE_SIZE * Len(g) + m
        <5>1. j = Len(g) + l /\ l \in Nat /\ j \in Nat
          BY <1>1, <4>1
        <5> HIDE DEF l
        <5>2. i = MESSAGE_SIZE * Len(g) + m
          BY <1>1, <2>1, <5>1, Size
        <5> HIDE DEF m
        <5>3. m \in 1..Len(t)
          BY <1>0, <1>1, <4>2, Size
        <5> QED
          BY <5>2, <5>3
      <4> HIDE DEF l, m
      <4>4. StreamAt(g, t, MESSAGE_SIZE * Len(g) + m) = t[m]
        BY <4>3, BackAt
      <4> QED
        BY <2>1, <3>1, <4>1, <4>2, <4>3, <4>4
    <3> QED
      BY <3>2, <3>3
  <2>2. ASSUME NEW k \in 1..Len(u), i = MESSAGE_SIZE * Len(h) + k
        PROVE  StreamAt(h, u, i) = StreamAt(g, t, i)
    <3> DEFINE m == MESSAGE_SIZE * Len(f) + k
    <3>1. StreamAt(h, u, MESSAGE_SIZE * Len(h) + k) = u[k]
      BY <1>0, <1>5, BackAt
    <3>2. u[k] = t[m] /\ m \in 1..Len(t) /\ i = MESSAGE_SIZE * Len(g) + m
      BY <1>0, <1>1, <1>2, <2>2, Size
    <3> HIDE DEF m
    <3>3. StreamAt(g, t, MESSAGE_SIZE * Len(g) + m) = t[m]
      BY <3>2, BackAt
    <3> QED
      BY <2>2, <3>1, <3>2, <3>3
  <2>3. CASE \E j \in 1..Len(h), k \in 1..MESSAGE_SIZE : i = MESSAGE_SIZE * (j - 1) + k
    <3>1. PICK j \in 1..Len(h), k \in 1..MESSAGE_SIZE : i = MESSAGE_SIZE * (j - 1) + k
      BY <2>3
    <3> QED
      BY <2>1, <3>1
  <2>4. CASE \E k \in 1..Len(u) : i = MESSAGE_SIZE * Len(h) + k
    BY <2>2, <2>4
  <2> QED
    BY <2>0, <2>3, <2>4
<1> QED
  BY <1>5, <1>6, <1>7 DEF h, SameStream
-----------------------------------------------------------------------------
(* The steps. *)

LEMMA Facts ==
  ASSUME Types
  PROVE  /\ cursor \o wire \in Seq(Byte) /\ Len(cursor \o wire) = Len(cursor) + Len(wire)
         /\ Len(got) \in Nat /\ Len(cursor) \in Nat /\ Len(wire) \in Nat /\ Total \in Nat
         /\ \A w \in Writer : nth[w] \in Nat /\ remaining[w] \in 0..MESSAGE_SIZE
         /\ \A w \in conn.writers : w \in Writer
<1>1. Len(got) \in Nat /\ Len(cursor) \in Nat /\ Len(wire) \in Nat
  BY FrameSeqFacts, LenProperties DEF Types
<1>2. cursor \o wire \in Seq(Byte) /\ Len(cursor \o wire) = Len(cursor) + Len(wire)
  BY ConcatProperties DEF Types
<1>3. Total \in Nat
  BY <1>1, <1>2, Size DEF Total, StreamLen
<1>4. \A w \in Writer : nth[w] \in Nat /\ remaining[w] \in 0..MESSAGE_SIZE
  BY StreamAssumption DEF Types
<1>5. \A w \in conn.writers : w \in Writer
  BY DEF Types, Writer
<1> QED
  BY <1>1, <1>2, <1>3, <1>4, <1>5

LEMMA ByteParts ==
  ASSUME NEW b \in Byte
  PROVE  b[1][1] \in Writer /\ b[1][2] \in Nat /\ b[2] \in 1..MESSAGE_SIZE /\ b[2] \in Nat
<1>1. b[1] \in Message /\ b[2] \in 1..MESSAGE_SIZE
  BY DEF Byte
<1>2. b[1][1] \in Writer /\ b[1][2] \in 1..MaxMessages
  BY <1>1 DEF Message
<1> QED
  BY <1>1, <1>2, Size, StreamAssumption

(* The number of messages begun bounds each writer's. *)
LEMMA BeginBounded ==
  ASSUME Types, NEW w \in Writer, SentSoFar < MaxMessages
  PROVE  nth[w] + 1 \in 0..MaxMessages
<1> DEFINE S == {m \in Message : m[2] <= nth[m[1]]}
           mine == [i \in 1..MaxMessages |-> <<w, i>>]
<1>1. nth[w] \in 0..MaxMessages /\ MaxMessages \in Nat
  BY StreamAssumption DEF Types
<1>2. SUFFICES ASSUME nth[w] = MaxMessages PROVE FALSE
  BY <1>1
<1>3. IsFiniteSet(1..MaxMessages) /\ Cardinality(1..MaxMessages) = MaxMessages
  BY <1>1, FS_Interval
<1>4. IsFiniteSet(S) /\ Cardinality(S) \in Nat
  <2>1. IsFiniteSet(Message)
    BY <1>3, StreamAssumption, FS_Product DEF Message
  <2>2. IsFiniteSet(S)
    BY <2>1, FS_Subset
  <2> HIDE DEF S
  <2> QED
    BY <2>2, FS_CardinalityType
<1>5. mine \in Injection(1..MaxMessages, S)
  <2>1. \A i \in 1..MaxMessages : <<w, i>> \in S
    BY <1>2 DEF Message
  <2>2. mine \in [1..MaxMessages -> S] /\ \A i, j \in 1..MaxMessages : mine[i] = mine[j] => i = j
    BY <2>1
  <2> HIDE DEF mine, S
  <2> QED
    BY <2>2 DEF Injection, IsInjective
<1>6. MaxMessages <= Cardinality(S)
  <2> HIDE DEF mine, S
  <2> QED
    BY <1>3, <1>4, <1>5, FS_Injection
<1>7. SentSoFar = Cardinality(S)
  BY DEF SentSoFar
<1> HIDE DEF S
<1> QED
  BY <1>1, <1>4, <1>6, <1>7

LEMMA TakeChunk ==
  ASSUME NEW c \in Seq(Byte), NEW w \in Seq(Byte), NEW k \in 1..Len(w),
         NEW f \in FrameSeq, NEW d, Takes(c \o SubSeq(w, 1, k), f, d)
  PROVE  Takes(c \o w, f, d \o SubSeq(w, k + 1, Len(w)))
<1> DEFINE b == c \o SubSeq(w, 1, k)
           y == SubSeq(w, k + 1, Len(w))
           t == c \o w
<1>1. /\ b \in Seq(Byte) /\ Len(b) = Len(c) + k /\ y \in Seq(Byte) /\ Len(y) = Len(w) - k
      /\ \A i \in 1..Len(b) : b[i] = t[i]
      /\ \A i \in 1..Len(y) : y[i] = t[Len(b) + i]
  <2>1. Cuts(Byte, c, w, k)
    BY Chunk
  <2> QED
    BY <2>1 DEF Cuts
<1>2. t \in Seq(Byte) /\ Len(t) = Len(c) + Len(w)
  BY ConcatProperties
<1>3. Takes(b, f, d)
  OBVIOUS
<1> HIDE DEF b, y, t
<1>4. /\ Len(c) \in Nat /\ Len(w) \in Nat /\ k \in Nat /\ Len(f) \in Nat /\ Len(d) \in Nat
      /\ Len(y) \in Nat
  <2>1. d \in Seq(Byte)
    BY <1>3 DEF Takes
  <2> QED
    BY <1>1, <2>1, FrameSeqFacts, LenProperties
<1>5. /\ d \o y \in Seq(Byte) /\ Len(d \o y) = Len(d) + Len(y)
      /\ \A i \in 1..(Len(d) + Len(y)) : (d \o y)[i] = IF i <= Len(d) THEN d[i] ELSE y[i - Len(d)]
  <2>1. d \in Seq(Byte)
    BY <1>3 DEF Takes
  <2> QED
    BY <1>1, <2>1, ConcatProperties
<1>6. Len(b) = MESSAGE_SIZE * Len(f) + Len(d) /\ Len(t) = MESSAGE_SIZE * Len(f) + Len(d \o y)
  <2>1. Len(b) = MESSAGE_SIZE * Len(f) + Len(d)
    BY <1>3 DEF Takes
  <2>2. /\ Len(b) = Len(c) + k /\ Len(y) = Len(w) - k /\ Len(t) = Len(c) + Len(w)
        /\ Len(d \o y) = Len(d) + Len(y)
    BY <1>1, <1>2, <1>5
  <2> QED
    BY <1>4, <2>1, <2>2, Size
<1>7. ASSUME NEW j \in 1..Len(f), NEW i \in 1..MESSAGE_SIZE
      PROVE  f[j][i] = t[MESSAGE_SIZE * (j - 1) + i]
  <2> DEFINE m == MESSAGE_SIZE * (j - 1) + i
  <2>1. m \in 1..(MESSAGE_SIZE * Len(f)) /\ f[j][i] = b[m]
    <3>1. f[j][i] = b[m]
      BY <1>3 DEF Takes
    <3>2. m \in 1..(MESSAGE_SIZE * Len(f))
      <4> DEFINE n == Len(f)
      <4>1. n \in Nat /\ j \in 1..n /\ i \in 1..4 /\ MESSAGE_SIZE = 4
        BY <1>4, Size
      <4> HIDE DEF n
      <4>2. 4 * (j - 1) + i \in 1..(4 * n)
        BY <4>1
      <4> QED
        BY <4>1, <4>2 DEF n
    <3> QED
      BY <3>1, <3>2
  <2> HIDE DEF m
  <2>2. m \in 1..Len(b)
    BY <1>4, <1>6, <2>1, Size
  <2> QED
    BY <1>1, <2>1, <2>2 DEF m
<1>8. ASSUME NEW i \in 1..Len(d \o y)
      PROVE  (d \o y)[i] = t[MESSAGE_SIZE * Len(f) + i]
  <2> DEFINE m == MESSAGE_SIZE * Len(f) + i
  <2>1. CASE i <= Len(d)
    <3>1. i \in 1..Len(d) /\ m \in 1..Len(b) /\ i \in 1..(Len(d) + Len(y))
      BY <1>4, <1>5, <1>6, <2>1, Size
    <3>2. d[i] = b[m]
      BY <1>3, <3>1 DEF Takes
    <3> HIDE DEF m
    <3> QED
      BY <1>1, <1>5, <2>1, <3>1, <3>2 DEF m
  <2>2. CASE ~(i <= Len(d))
    <3>1. /\ i - Len(d) \in 1..Len(y) /\ m = Len(b) + (i - Len(d))
          /\ i \in 1..(Len(d) + Len(y))
      BY <1>4, <1>5, <1>6, <2>2, Size
    <3> HIDE DEF m
    <3> QED
      BY <1>1, <1>5, <2>2, <3>1 DEF m
  <2> QED
    BY <2>1, <2>2
<1>9. Takes(t, f, d \o y)
  BY <1>5, <1>6, <1>7, <1>8 DEF Takes
<1> QED
  BY <1>9 DEF t, y

Reads(f) == /\ got' = got \o f
            /\ cursor' \in Seq(Byte) /\ Len(cursor') < MESSAGE_SIZE
            /\ wire' \in Seq(Byte) /\ Len(wire') <= Capacity
            /\ Takes(cursor \o wire, f, cursor' \o wire')
            /\ UNCHANGED <<conn, nth, remaining, link, verdict>>

LEMMA RecvReads ==
  ASSUME Types, Recv
  PROVE  \E f \in FrameSeq : Reads(f)
<1> USE DEF Types
<1>1. PICK k \in 1..Least(MESSAGE_SIZE - Len(cursor), Len(wire)) :
         /\ wire' = SubSeq(wire, k + 1, Len(wire))
         /\ \/ /\ Len(cursor \o SubSeq(wire, 1, k)) = MESSAGE_SIZE
               /\ got' = Append(got, cursor \o SubSeq(wire, 1, k)) /\ cursor' = <<>>
            \/ /\ Len(cursor \o SubSeq(wire, 1, k)) < MESSAGE_SIZE
               /\ cursor' = cursor \o SubSeq(wire, 1, k) /\ UNCHANGED got
  BY DEF Recv
<1> DEFINE b == cursor \o SubSeq(wire, 1, k)
<1>2. /\ Len(got) \in Nat /\ Len(cursor) \in Nat /\ Len(wire) \in Nat /\ Capacity \in Nat
      /\ k \in 1..Len(wire) /\ got \in Seq(Seq(Byte))
  BY Facts, Size, FrameSeqFacts, StreamAssumption DEF Least
<1>3. b \in Seq(Byte) /\ wire' \in Seq(Byte) /\ Len(wire') <= Capacity
  <2>1. Cuts(Byte, cursor, wire, k)
    BY <1>1, <1>2, Chunk
  <2> QED
    <3>1. wire' = SubSeq(wire, k + 1, Len(wire)) /\ Len(wire) <= Capacity /\ Len(wire) \in Nat
      BY <1>1, <1>2
    <3>2. b \in Seq(Byte) /\ wire' \in Seq(Byte) /\ Len(wire') = Len(wire) - k
      BY <2>1, <3>1 DEF Cuts
    <3> DEFINE n == Len(wire)
    <3>3. n - k <= Capacity
      <4>1. n \in Nat /\ n <= Capacity /\ k \in 1..n /\ Capacity \in Nat
        BY <1>2, <3>1
      <4> HIDE DEF n
      <4> QED
        BY <4>1
    <3> QED
      BY <3>2, <3>3
<1>4. UNCHANGED <<conn, nth, remaining, link, verdict>>
  BY DEF Recv, writerVars
<1>5. ASSUME NEW f \in FrameSeq, got' = got \o f, Takes(b, f, cursor'),
             cursor' \in Seq(Byte), Len(cursor') < MESSAGE_SIZE
      PROVE  Reads(f)
  BY <1>1, <1>2, <1>3, <1>4, <1>5, TakeChunk DEF Reads
<1>6. CASE Len(b) = MESSAGE_SIZE /\ got' = Append(got, b) /\ cursor' = <<>>
  <2> DEFINE f == <<b>>
  <2>1. f \in Seq(Seq(Byte)) /\ Len(f) = 1 /\ f[1] = b
    BY <1>3
  <2>2. cursor' \in Seq(Byte) /\ Len(cursor') = 0
    BY <1>6, EmptySeq
  <2>3. got' = got \o f
    BY <1>2, <1>3, <1>6, AppendIsConcat
  <2> HIDE DEF b, f
  <2>4. f \in FrameSeq
    <3>1. \A j \in 1..Len(f) : j = 1
      BY <2>1
    <3> QED
      BY <1>6, <2>1, <3>1 DEF FrameSeq
  <2>5. Takes(b, f, cursor')
    BY <1>6, <2>1, <2>2, Size DEF Takes
  <2>6. Len(cursor') < MESSAGE_SIZE
    BY <2>2, Size
  <2> QED
    BY <1>5, <2>2, <2>3, <2>4, <2>5, <2>6
<1>7. CASE Len(b) < MESSAGE_SIZE /\ cursor' = b /\ UNCHANGED got
  <2> DEFINE f == <<>>
  <2>1. f \in FrameSeq /\ Len(f) = 0
    BY EmptySeq DEF FrameSeq
  <2>2. got' = got \o f
    BY <1>2, <1>7, ConcatEmptySeq
  <2>3. Len(b) \in Nat
    BY <1>3, LenProperties
  <2> HIDE DEF b, f
  <2>4. Takes(b, f, cursor')
    BY <1>3, <1>7, <2>1, <2>3, Size DEF Takes
  <2> QED
    BY <1>3, <1>5, <1>7, <2>1, <2>2, <2>4
<1> QED
  BY <1>1, <1>6, <1>7

LEMMA OnDataReads ==
  ASSUME Types, OnData
  PROVE  \E f \in FrameSeq : Reads(f)
<1> USE DEF Types
<1> DEFINE b(k) == cursor \o SubSeq(wire, 1, k)
           f(k) == decodeFrames(MESSAGE_SIZE, b(k)).messages
           d(k) == decodeFrames(MESSAGE_SIZE, b(k)).remaining
<1>1. PICK k \in 1..Len(wire) : /\ wire' = SubSeq(wire, k + 1, Len(wire))
                                /\ cursor' = d(k) /\ got' = got \o f(k)
  BY DEF OnData
<1>2. Len(wire) \in Nat /\ Capacity \in Nat
  BY Facts, StreamAssumption
<1>3. b(k) \in Seq(Byte) /\ wire' \in Seq(Byte) /\ Len(wire') <= Capacity
  <2>1. Cuts(Byte, cursor, wire, k)
    BY <1>1, <1>2, Chunk
  <2> QED
    BY <1>1, <1>2, <2>1 DEF Cuts
<1> HIDE DEF b
<1>4. /\ f(k) \in Seq(Seq(Byte)) /\ d(k) \in Seq(Byte)
      /\ \A j \in 1..Len(f(k)) : /\ Len(f(k)[j]) = MESSAGE_SIZE
                                 /\ \A i \in 1..MESSAGE_SIZE :
                                       f(k)[j][i] = b(k)[MESSAGE_SIZE * (j - 1) + i]
      /\ Len(f(k)) = Frames(MESSAGE_SIZE, b(k))
      /\ Len(d(k)) = Len(b(k)) - MESSAGE_SIZE * Len(f(k))
      /\ \A i \in 1..Len(d(k)) : d(k)[i] = b(k)[MESSAGE_SIZE * Len(f(k)) + i]
  <2> DEFINE s == b(k)
  <2> HIDE DEF s
  <2>1. s \in Seq(Byte) /\ MESSAGE_SIZE \in Nat \ {0}
    BY <1>3, Size DEF s
  <2>2. Split(MESSAGE_SIZE, Byte, s, decodeFrames(MESSAGE_SIZE, s))
    BY <2>1, Decoded
  <2> QED
    BY <2>2 DEF s, Split
<1>5. Len(b(k)) \in Nat /\ Len(f(k)) \in Nat /\ Len(d(k)) \in 0..(MESSAGE_SIZE - 1)
  <2> DEFINE s == b(k)
  <2> HIDE DEF s
  <2>1. s \in Seq(Byte) /\ MESSAGE_SIZE \in Nat \ {0}
    BY <1>3, Size DEF s
  <2>2. /\ Frames(MESSAGE_SIZE, s) \in Nat /\ Len(s) \in Nat
        /\ Len(s) - MESSAGE_SIZE * Frames(MESSAGE_SIZE, s) \in 0..(MESSAGE_SIZE - 1)
    BY <2>1, FramesFit, LenProperties
  <2> QED
    BY <1>4, <2>2 DEF s
<1> HIDE DEF f, d
<1>6. f(k) \in FrameSeq
  BY <1>4 DEF FrameSeq
<1>7. Takes(b(k), f(k), d(k))
  BY <1>4, <1>5, Size DEF Takes
<1>8. Takes(cursor \o wire, f(k), d(k) \o wire')
  BY <1>1, <1>6, <1>7, TakeChunk DEF b
<1>9. UNCHANGED <<conn, nth, remaining, link, verdict>>
  BY DEF OnData, writerVars
<1> QED
  <2>1. d(k) \in Seq(Byte) /\ Len(d(k)) < MESSAGE_SIZE
    BY <1>4, <1>5, Size
  <2>2. Reads(f(k))
    BY <1>1, <1>3, <1>8, <1>9, <2>1 DEF Reads
  <2> QED
    BY <1>6, <2>2

LEMMA ReadStep ==
  ASSUME IInv, NEW f \in FrameSeq, Reads(f)
  PROVE  /\ Types' /\ Begun' /\ AllAccepted' /\ Ordered' /\ Sequential'
         /\ Total' = Total /\ \A i \in 1..Total : At(i)' = At(i)
<1> USE DEF IInv
<1>1. /\ got' \in FrameSeq /\ Total' = Total
      /\ \A i \in 1..Total : At(i)' = At(i)
  <2> DEFINE t == cursor \o wire
             u == cursor' \o wire'
  <2>1. t \in Seq(Byte) /\ got \in FrameSeq
    BY Facts DEF Types
  <2>2. Takes(t, f, u) /\ got' = got \o f
    BY DEF Reads
  <2> HIDE DEF t, u
  <2>3. got \o f \in FrameSeq /\ SameStream(got \o f, u, got, t)
    BY <2>1, <2>2, Regrouped
  <2>4. /\ got' \in FrameSeq
        /\ StreamLen(got', u) = StreamLen(got, t)
        /\ \A i \in 1..StreamLen(got, t) : StreamAt(got', u, i) = StreamAt(got, t, i)
    BY <2>2, <2>3 DEF SameStream
  <2> QED
    BY <2>4 DEF t, u, Total, At
<1>2. UNCHANGED <<conn, nth, remaining, link, verdict>>
  BY DEF Reads
<1>3. Types' /\ Begun'
  BY <1>1, <1>2 DEF Reads, Types, Begun
<1>4. AllAccepted'
  BY <1>1, <1>2 DEF AllAccepted, Accepted
<1>5. Ordered'
  BY <1>1, <1>2 DEF Ordered
<1>6. Sequential'
  BY <1>1, <1>2 DEF Sequential
<1> QED
  BY <1>1, <1>3, <1>4, <1>5, <1>6

(* What send puts into the buffer. *)
LEMMA SendBytes ==
  ASSUME IInv, NEW w \in Writer, w \in conn.writers, Send(w)
  PROVE  \E k \in 1..remaining[w] : \E x \in Seq(Byte) :
            /\ Len(x) = k /\ \A i \in 1..k : x[i] = <<<<w, nth[w]>>, (MESSAGE_SIZE - remaining[w]) + i>>
            /\ wire' = wire \o x /\ Len(wire) + k <= Capacity
            /\ remaining' = [remaining EXCEPT ![w] = @ - k]
            /\ link = "open" /\ UNCHANGED <<conn, nth, link, cursor, got, verdict>>
<1> USE DEF IInv
<1> DEFINE k == Least(remaining[w], Room)
           x == NextBytes(w, k)
           m == <<w, nth[w]>>
           a == MESSAGE_SIZE - remaining[w]
<1>1. /\ remaining[w] \in 0..MESSAGE_SIZE /\ nth[w] \in 0..MaxMessages /\ MaxMessages \in Nat
      /\ Len(wire) \in Nat /\ Capacity \in Nat
  BY Facts, StreamAssumption DEF Types
<1>2. /\ link = "open" /\ k > 0
      /\ wire' = wire \o x
      /\ remaining' = [remaining EXCEPT ![w] = @ - k]
      /\ UNCHANGED <<conn, nth, link, cursor, got, verdict>>
  BY DEF Send, readerVars
<1>3. Room \in Int /\ Len(wire) + Room = Capacity
  BY <1>1 DEF Room
<1>4. k \in 1..remaining[w] /\ Len(wire) + k <= Capacity
  <2> DEFINE left == remaining[w]
             free == Room
             full == Len(wire)
  <2>1. left \in 0..4 /\ free \in Int /\ full \in Nat /\ Capacity \in Nat /\ full + free = Capacity
    BY <1>1, <1>3, Size
  <2>2. k > 0 /\ k = Least(left, free)
    BY <1>2
  <2> HIDE DEF left, free, full, k
  <2>3. k \in 1..left /\ full + k <= Capacity
    BY <2>1, <2>2 DEF Least
  <2> QED
    BY <2>3 DEF left, full
<1>5. nth[w] > 0 /\ m \in Message
  BY <1>1, <1>4, Size DEF Begun, Message
<1>6. x = SubSeq(Bytes(m), a + 1, a + k)
  BY DEF NextBytes
<1> HIDE DEF k, x
<1>7. /\ a \in Nat /\ a + k <= MESSAGE_SIZE /\ k \in Nat /\ k >= 1
  BY <1>1, <1>4, Size
<1>8. /\ x \in Seq(Byte) /\ Len(x) = k
      /\ \A i \in 1..k : x[i] = <<m, a + i>>
  <2> DEFINE s == Bytes(m)
  <2> HIDE DEF a, m
  <2>1. \A i \in 1..MESSAGE_SIZE : s[i] = <<m, i>> /\ s[i] \in Byte
    BY <1>5 DEF Bytes, Byte
  <2> HIDE DEF s
  <2>2. \A i \in (a + 1)..(a + k) : s[i] \in Byte
    BY <1>7, <2>1, Size
  <2>3. /\ a + 1 \in Int /\ a + k \in Int /\ a + 1 <= a + k /\ ((a + k) - (a + 1)) + 1 = k
    BY <1>7
  <2>4. /\ SubSeq(s, a + 1, a + k) \in Seq(Byte)
        /\ Len(SubSeq(s, a + 1, a + k)) = k
        /\ \A i \in 1..k : SubSeq(s, a + 1, a + k)[i] = s[((a + 1) + i) - 1]
    BY <2>2, <2>3, SubSeqProperties
  <2>5. \A i \in 1..k : ((a + 1) + i) - 1 = a + i /\ a + i \in 1..MESSAGE_SIZE
    BY <1>7, Size
  <2> QED
    BY <1>6, <2>1, <2>4, <2>5 DEF s
<1> QED
  BY <1>2, <1>4, <1>8

LEMMA SendStep ==
  ASSUME IInv, NEW w \in Writer, w \in conn.writers, Send(w)
  PROVE  IInv'
<1> USE DEF IInv
<1>1. PICK k \in 1..remaining[w] : \E x \in Seq(Byte) :
            /\ Len(x) = k /\ \A i \in 1..k : x[i] = <<<<w, nth[w]>>, (MESSAGE_SIZE - remaining[w]) + i>>
            /\ wire' = wire \o x /\ Len(wire) + k <= Capacity
            /\ remaining' = [remaining EXCEPT ![w] = @ - k]
            /\ link = "open" /\ UNCHANGED <<conn, nth, link, cursor, got, verdict>>
  BY SendBytes
<1>2. PICK x \in Seq(Byte) :
            /\ Len(x) = k /\ \A i \in 1..k : x[i] = <<<<w, nth[w]>>, (MESSAGE_SIZE - remaining[w]) + i>>
            /\ wire' = wire \o x /\ Len(wire) + k <= Capacity
            /\ remaining' = [remaining EXCEPT ![w] = @ - k]
            /\ link = "open" /\ UNCHANGED <<conn, nth, link, cursor, got, verdict>>
  BY <1>1
<1>3. /\ remaining[w] \in 0..MESSAGE_SIZE /\ nth[w] \in Nat /\ k \in Nat
      /\ Len(wire) \in Nat /\ Capacity \in Nat /\ Total \in Nat
      /\ remaining'[w] = remaining[w] - k
      /\ \A v \in Writer : v # w => remaining'[v] = remaining[v]
  BY <1>2, Facts, StreamAssumption DEF Types
<1>4. Types'
  <2>1. wire' \in Seq(Byte) /\ Len(wire') = Len(wire) + k
    BY <1>2, ConcatProperties DEF Types
  <2>2. remaining' \in [Writer -> 0..MESSAGE_SIZE]
    <3>1. remaining[w] - k \in 0..MESSAGE_SIZE
      BY <1>3, Size
    <3> QED
      BY <1>2, <3>1 DEF Types
  <2> QED
    BY <1>2, <2>1, <2>2 DEF Types
<1>5. Begun'
  BY <1>2, <1>3, Facts DEF Begun
<1> DEFINE new(i) == StreamAt(got', cursor' \o wire', i)
<1>6. /\ Total' = Total + k
      /\ \A i \in 1..Total : new(i) = At(i)
      /\ \A i \in 1..k : new(Total + i) = x[i]
  <2>1. got \in FrameSeq /\ cursor \o wire \in Seq(Byte) /\ cursor \in Seq(Byte) /\ wire \in Seq(Byte)
    BY Facts DEF Types
  <2>2. cursor' \o wire' = (cursor \o wire) \o x
    <3>1. (cursor \o wire) \o x = cursor \o (wire \o x)
      <4>1. cursor \in Seq(Byte) /\ wire \in Seq(Byte) /\ x \in Seq(Byte)
        BY <2>1
      <4> QED
        BY <4>1, Associative
    <3>2. cursor' = cursor /\ wire' = wire \o x
      BY <1>2
    <3> QED
      BY <3>1, <3>2
  <2> DEFINE t == cursor \o wire
  <2> HIDE DEF t
  <2>3. /\ StreamLen(got, t \o x) = StreamLen(got, t) + Len(x)
        /\ \A i \in 1..StreamLen(got, t) : StreamAt(got, t \o x, i) = StreamAt(got, t, i)
        /\ \A i \in 1..Len(x) : StreamAt(got, t \o x, StreamLen(got, t) + i) = x[i]
    BY <2>1, Extended DEF t
  <2>4. got' = got /\ cursor' \o wire' = t \o x /\ Len(x) = k
    BY <1>2, <2>2 DEF t
  <2>5. Total' = StreamLen(got, t \o x) /\ Total = StreamLen(got, t)
    BY <2>4 DEF Total, t
  <2>6. \A i \in Nat : new(i) = StreamAt(got, t \o x, i) /\ At(i) = StreamAt(got, t, i)
    BY <2>4 DEF At, t
  <2> HIDE DEF new
  <2>7. \A i \in 1..Total : new(i) = At(i)
    BY <1>3, <2>3, <2>5, <2>6
  <2>8. ASSUME NEW i \in 1..k
        PROVE  new(Total + i) = x[i]
    <3>1. Total + i \in Nat
      BY <1>3
    <3> QED
      BY <2>3, <2>4, <2>5, <2>6, <3>1
  <2> QED
    BY <2>3, <2>4, <2>5, <2>7, <2>8
<1>15. /\ \A i \in 1..Total' : At(i)' = new(i)
       /\ Total' = StreamLen(got', cursor' \o wire')
  BY DEF At, Total
<1> HIDE DEF new
<1> DEFINE a == MESSAGE_SIZE - remaining[w]
<1>7. a \in Nat /\ a + k <= MESSAGE_SIZE /\ a + k = MESSAGE_SIZE - remaining'[w]
  BY <1>3, Size
<1>8. \A i \in 1..k : new(Total + i) = <<<<w, nth[w]>>, a + i>>
  BY <1>2, <1>6
<1>9. \A i \in 1..Total' : i \in 1..Total \/ (i - Total \in 1..k /\ Total + (i - Total) = i)
  BY <1>3, <1>6
<1> HIDE DEF a
<1>10. \A i \in 1..Total : At(i) \in Byte
  BY ByteAt, Facts DEF Types, Total, At
<1>11. AllAccepted'
  <2> DEFINE accepted(b) == \/ b[1][2] < nth'[b[1][1]]
                            \/ /\ b[1][2] = nth'[b[1][1]]
                               /\ b[2] <= MESSAGE_SIZE - remaining'[b[1][1]]
  <2>1. ASSUME NEW i \in 1..Total
        PROVE  accepted(new(i))
    <3>1. Accepted(At(i)) /\ At(i)[1][1] \in Writer /\ At(i)[2] \in Nat
      BY <1>10, ByteParts DEF AllAccepted
    <3>2. new(i) = At(i)
      BY <1>6
    <3>3. ASSUME NEW v \in Writer, NEW b \in Nat, b <= MESSAGE_SIZE - remaining[v]
          PROVE  b <= MESSAGE_SIZE - remaining'[v]
      <4>1. remaining[v] \in 0..MESSAGE_SIZE
        BY Facts
      <4>2. remaining'[v] \in Int /\ remaining'[v] <= remaining[v]
        BY <1>3, <4>1, Size
      <4> QED
        BY <3>3, <4>1, <4>2, Size
    <3>4. nth' = nth
      BY <1>2
    <3> QED
      BY <3>1, <3>2, <3>3, <3>4 DEF Accepted
  <2>2. ASSUME NEW i \in 1..k
        PROVE  accepted(new(Total + i))
    <3>1. a + i <= MESSAGE_SIZE - remaining'[w]
      BY <1>3, <1>7
    <3> QED
      BY <1>2, <1>8, <3>1 DEF Accepted
  <2> QED
    <3>1. \A i \in 1..Total' : accepted(new(i))
      BY <1>9, <2>1, <2>2
    <3> QED
      BY <1>15, <3>1 DEF AllAccepted, Accepted
<1>12. Ordered'
  <2>1. ASSUME NEW i \in 1..Total, NEW j \in 1..k, At(i)[1][1] = w
        PROVE  Before(At(i), <<<<w, nth[w]>>, a + j>>)
    <3>1. Accepted(At(i)) /\ At(i)[2] \in Nat
      BY <1>10, ByteParts DEF AllAccepted
    <3>2. At(i)[1][2] < nth[w] \/ (At(i)[1][2] = nth[w] /\ At(i)[2] <= a)
      BY <2>1, <3>1 DEF Accepted, a
    <3>3. At(i)[2] <= a => At(i)[2] < a + j
      BY <1>3, <1>7, <3>1
    <3> QED
      BY <3>2, <3>3 DEF Before
  <2>2. ASSUME NEW i \in 1..k, NEW j \in 1..k, i < j
        PROVE  Before(<<<<w, nth[w]>>, a + i>>, <<<<w, nth[w]>>, a + j>>)
    BY <1>3, <1>7, <2>2 DEF Before
  <2>3. ASSUME NEW i \in 1..Total', NEW j \in 1..Total', i < j, new(i)[1][1] = new(j)[1][1]
        PROVE  Before(new(i), new(j))
    <3>1. CASE i \in 1..Total /\ j \in 1..Total
      BY <1>6, <2>3, <3>1 DEF Ordered
    <3>2. CASE i \in 1..Total /\ j \notin 1..Total
      <4>1. j - Total \in 1..k /\ new(j) = <<<<w, nth[w]>>, a + (j - Total)>>
        BY <1>8, <1>9, <3>2
      <4>2. new(i) = At(i)
        BY <1>6, <3>2
      <4> QED
        BY <2>1, <2>3, <3>2, <4>1, <4>2
    <3>3. CASE i \notin 1..Total
      <4>1. /\ i - Total \in 1..k /\ j - Total \in 1..k /\ i - Total < j - Total
            /\ Total + (i - Total) = i /\ Total + (j - Total) = j
        BY <1>3, <1>6, <1>9, <2>3, <3>3
      <4>2. /\ new(i) = <<<<w, nth[w]>>, a + (i - Total)>>
            /\ new(j) = <<<<w, nth[w]>>, a + (j - Total)>>
        BY <1>8, <4>1
      <4> QED
        BY <2>2, <4>1, <4>2
    <3> QED
      BY <3>1, <3>2, <3>3
  <2> QED
    BY <1>15, <2>3 DEF Ordered
<1>13. Sequential'
  <2> SUFFICES ASSUME NEW v \in Writer, conn.writers = {v}, conn.impatient = {}
               PROVE  /\ \A i \in 1..Total' : new(i) = ByteNo(v, i)
                      /\ Total' = MESSAGE_SIZE * nth[v] - remaining'[v]
    BY <1>2, <1>15 DEF Sequential
  <2>1. \A i \in 1..Total : At(i) = ByteNo(v, i)
    BY DEF Sequential
  <2>2. Total = MESSAGE_SIZE * nth[v] - remaining[v]
    BY <1>2 DEF Sequential
  <2>3. v = w
    OBVIOUS
  <2>4. Total' = MESSAGE_SIZE * nth[v] - remaining'[v]
    <3> DEFINE after == Total'
               before == Total
               n == nth[w]
               owed == remaining[w]
               left == remaining'[w]
    <3>1. /\ after = before + k /\ before = 4 * n - owed /\ left = owed - k
          /\ before \in Nat /\ k \in Nat /\ n \in Nat /\ owed \in 0..4
      BY <1>3, <1>6, <2>2, <2>3, Size
    <3>2. after = 4 * n - left
      <4> HIDE DEF after, before, n, owed, left
      <4> QED
        BY <3>1
    <3> QED
      BY <2>3, <3>2, Size
  <2>5. ASSUME NEW i \in 1..k
        PROVE  <<<<w, nth[w]>>, a + i>> = ByteNo(w, Total + i)
    <3> DEFINE q == nth[w] - 1
               r == (a + i) - 1
    <3>1. q \in Nat /\ r \in 0..(MESSAGE_SIZE - 1) /\ (Total + i) - 1 = MESSAGE_SIZE * q + r
          /\ q + 1 = nth[w] /\ r + 1 = a + i
      <4>1. nth[w] > 0
        <5>1. remaining[w] > 0
          BY <1>3, Size
        <5> QED
          BY <5>1 DEF Begun
      <4>2. Total = MESSAGE_SIZE * nth[w] - remaining[w] /\ remaining[w] = MESSAGE_SIZE - a
        BY <1>3, <2>2, <2>3, Size DEF a
      <4>3. i \in Nat /\ i >= 1 /\ i <= k
        BY <1>3
      <4>4. q \in Nat /\ q + 1 = nth[w] /\ nth[w] \in Nat
        BY <1>3, <4>1
      <4>5. r \in 0..(MESSAGE_SIZE - 1) /\ r + 1 = a + i /\ a \in Nat
        BY <1>3, <1>7, <4>3, Size
      <4> HIDE DEF q, r
      <4>6. /\ Total = 4 * nth[w] - remaining[w] /\ remaining[w] = 4 - a
            /\ r \in Nat /\ Total \in Nat
        BY <1>3, <4>2, <4>5, Size
      <4>7. Total + i = 4 * q + (a + i)
        <5>1. 4 * nth[w] = 4 * q + 4
          BY <4>4
        <5>2. Total = 4 * q + a
          BY <4>4, <4>5, <4>6, <5>1
        <5> QED
          BY <4>3, <4>4, <4>5, <5>2
      <4>8. (Total + i) - 1 = 4 * q + r
        <5> DEFINE sent == Total
        <5>1. sent \in Nat /\ i \in Nat /\ a \in Nat /\ q \in Nat /\ r \in Nat
          BY <4>3, <4>4, <4>5, <4>6
        <5>2. sent + i = 4 * q + (a + i) /\ r + 1 = a + i
          BY <4>5, <4>7
        <5> HIDE DEF sent, a
        <5>3. (sent + i) - 1 = 4 * q + r
          BY <5>1, <5>2
        <5> QED
          BY <5>3 DEF sent
      <4> QED
        BY <4>4, <4>5, <4>8, Size
    <3> HIDE DEF q, r
    <3>2. (MESSAGE_SIZE * q + r) \div MESSAGE_SIZE = q /\ (MESSAGE_SIZE * q + r) % MESSAGE_SIZE = r
      BY <3>1, Size, Quotient
    <3> QED
      BY <3>1, <3>2 DEF ByteNo
  <2>6. \A i \in 1..k : new(Total + i) = ByteNo(v, Total + i)
    BY <1>8, <2>3, <2>5
  <2>7. \A i \in 1..Total : new(i) = ByteNo(v, i)
    BY <1>6, <2>1
  <2>8. ASSUME NEW i \in 1..Total'
        PROVE  new(i) = ByteNo(v, i)
    BY <1>9, <2>6, <2>7
  <2> QED
    BY <2>4, <2>8
<1>14. Verdicts'
  BY <1>2 DEF Verdicts
<1> QED
  BY <1>4, <1>5, <1>11, <1>12, <1>13, <1>14

LEMMA BeginStep ==
  ASSUME IInv, NEW w \in Writer, Begin(w)
  PROVE  IInv'
<1> USE DEF IInv
<1>1. /\ link = "open" /\ remaining[w] = 0
      /\ nth' = [nth EXCEPT ![w] = @ + 1] /\ remaining' = [remaining EXCEPT ![w] = MESSAGE_SIZE]
      /\ UNCHANGED <<conn, link, wire, cursor, got, verdict>>
  BY DEF Begin, readerVars
<1>2. /\ nth'[w] = nth[w] + 1 /\ remaining'[w] = MESSAGE_SIZE /\ nth[w] \in Nat
      /\ \A v \in Writer : v # w => nth'[v] = nth[v] /\ remaining'[v] = remaining[v]
  BY <1>1, Facts DEF Types
<1>3. Types'
  <2>1. nth[w] + 1 \in 0..MaxMessages
    BY BeginBounded DEF Begin
  <2>2. nth' \in [Writer -> 0..MaxMessages]
    BY <1>1, <2>1 DEF Types
  <2>3. remaining' \in [Writer -> 0..MESSAGE_SIZE]
    <3>1. MESSAGE_SIZE \in 0..MESSAGE_SIZE
      BY Size
    <3> QED
      BY <1>1, <3>1 DEF Types
  <2> QED
    BY <1>1, <2>2, <2>3 DEF Types
<1>4. Begun'
  BY <1>2, Size DEF Begun
<1>5. Total' = Total /\ \A i : At(i)' = At(i)
  BY <1>1 DEF Total, At
<1>6. AllAccepted'
  <2>1. ASSUME NEW i \in 1..Total
        PROVE  Accepted(At(i))'
    <3>1. Accepted(At(i)) /\ At(i)[1][1] \in Writer /\ At(i)[1][2] \in Nat
      <4>1. At(i) \in Byte
        BY ByteAt, Facts DEF Types, Total, At
      <4> QED
        BY <4>1, ByteParts DEF AllAccepted
    <3>2. CASE At(i)[1][1] = w
      <4>1. At(i)[1][2] <= nth[w]
        BY <1>2, <3>1, <3>2 DEF Accepted
      <4>2. At(i)[1][2] < nth'[w]
        BY <1>2, <3>1, <4>1
      <4> QED
        BY <1>5, <3>2, <4>2 DEF Accepted
    <3>3. CASE At(i)[1][1] # w
      BY <1>2, <1>5, <3>1, <3>3 DEF Accepted
    <3> QED
      BY <3>2, <3>3
  <2> QED
    BY <1>5, <2>1 DEF AllAccepted
<1>7. Ordered'
  BY <1>5 DEF Ordered
<1>8. Sequential'
  <2>1. MESSAGE_SIZE * nth[w] - remaining[w] = MESSAGE_SIZE * nth'[w] - remaining'[w]
    BY <1>1, <1>2, Size
  <2>2. \A v \in Writer : MESSAGE_SIZE * nth[v] - remaining[v] = MESSAGE_SIZE * nth'[v] - remaining'[v]
    BY <1>2, <2>1
  <2> QED
    BY <1>1, <1>5, <2>2 DEF Sequential
<1>9. Verdicts'
  BY <1>1 DEF Verdicts
<1> QED
  BY <1>3, <1>4, <1>6, <1>7, <1>8, <1>9

LEMMA GiveUpStep ==
  ASSUME IInv, NEW w \in Writer, GiveUp(w)
  PROVE  IInv'
<1> USE DEF IInv
<1>1. /\ conn.impatient # {} /\ remaining' = [remaining EXCEPT ![w] = 0]
      /\ UNCHANGED <<conn, nth, link, wire, cursor, got, verdict>>
  BY DEF GiveUp, readerVars
<1>2. remaining'[w] = 0 /\ \A v \in Writer : v # w => remaining'[v] = remaining[v]
  BY <1>1 DEF Types
<1>3. Types'
  <2>1. 0 \in 0..MESSAGE_SIZE
    BY Size
  <2>2. remaining' \in [Writer -> 0..MESSAGE_SIZE]
    BY <1>1, <2>1 DEF Types
  <2> QED
    BY <1>1, <2>2 DEF Types
<1>4. Begun'
  BY <1>1, <1>2 DEF Begun
<1>5. Total' = Total /\ \A i : At(i)' = At(i)
  BY <1>1 DEF Total, At
<1>6. AllAccepted'
  <2>1. ASSUME NEW i \in 1..Total
        PROVE  Accepted(At(i))'
    <3>1. Accepted(At(i)) /\ At(i)[1][1] \in Writer /\ At(i)[2] \in 1..MESSAGE_SIZE
      <4>1. At(i) \in Byte
        BY ByteAt, Facts DEF Types, Total, At
      <4> QED
        BY <4>1, ByteParts DEF AllAccepted
    <3>2. At(i)[1][1] = w => At(i)[2] <= MESSAGE_SIZE - remaining'[w]
      BY <1>2, <3>1, Size
    <3> QED
      BY <1>1, <1>2, <1>5, <3>1, <3>2 DEF Accepted
  <2> QED
    BY <1>5, <2>1 DEF AllAccepted
<1>7. Ordered'
  BY <1>5 DEF Ordered
<1>8. Sequential'
  BY <1>1 DEF Sequential
<1>9. Verdicts'
  BY <1>1 DEF Verdicts
<1> QED
  BY <1>3, <1>4, <1>6, <1>7, <1>8, <1>9

(* The process dies: a reset takes bytes off the end of the stream. *)
LEMMA DieStep ==
  ASSUME IInv, Die
  PROVE  IInv'
<1> USE DEF IInv
<1>1. /\ link = "open" /\ link' \in {"closed", "reset"}
      /\ \/ link' = "closed" /\ wire' = wire
         \/ link' = "reset" /\ wire' = <<>>
      /\ UNCHANGED <<conn, nth, remaining, cursor, got, verdict>>
  BY DEF Die, readerVars
<1>2. Total' \in 0..Total /\ \A i \in 1..Total' : At(i)' = At(i)
  <2>1. CASE wire' = wire
    <3>1. Total' = Total /\ \A i : At(i)' = At(i)
      BY <1>1, <2>1 DEF Total, At
    <3> QED
      BY <3>1, Facts
  <2>2. CASE wire' = <<>>
    <3>1. got \in FrameSeq /\ cursor \in Seq(Byte) /\ wire \in Seq(Byte)
      BY DEF Types
    <3>2. cursor' \o wire' = cursor
      BY <1>1, <2>2, <3>1, ConcatEmptySeq
    <3>3. /\ StreamLen(got, cursor \o wire) = StreamLen(got, cursor) + Len(wire)
          /\ StreamLen(got, cursor) \in Nat /\ Len(wire) \in Nat
          /\ \A i \in 1..StreamLen(got, cursor) :
                StreamAt(got, cursor \o wire, i) = StreamAt(got, cursor, i)
      BY <3>1, Extended
    <3>4. Total' = StreamLen(got, cursor) /\ \A i : At(i)' = StreamAt(got, cursor, i)
      BY <1>1, <3>2 DEF Total, At
    <3>5. Total = StreamLen(got, cursor \o wire) /\ \A i : At(i) = StreamAt(got, cursor \o wire, i)
      BY DEF Total, At
    <3> QED
      BY <3>3, <3>4, <3>5
  <2> QED
    BY <1>1, <2>1, <2>2
<1>3. \A i \in 1..Total' : i \in 1..Total
  BY <1>2, Facts
<1>4. Types'
  <2>1. <<>> \in Seq(Byte) /\ Len(<<>>) = 0 /\ 0 <= Capacity
    BY EmptySeq, StreamAssumption
  <2>2. wire' \in Seq(Byte) /\ Len(wire') <= Capacity
    <3>1. CASE wire' = wire
      BY <3>1 DEF Types
    <3>2. CASE wire' = <<>>
      BY <2>1, <3>2
    <3> QED
      BY <1>1, <3>1, <3>2
  <2> QED
    BY <1>1, <2>2 DEF Types
<1>5. Begun'
  BY <1>1 DEF Begun
<1>6. AllAccepted'
  BY <1>1, <1>2, <1>3 DEF AllAccepted, Accepted
<1>7. Ordered'
  BY <1>2, <1>3 DEF Ordered
<1>8. Sequential'
  <2>1. link' # "reset" => Total' = Total
    BY <1>1 DEF Total
  <2> QED
    BY <1>1, <1>2, <1>3, <2>1 DEF Sequential
<1>9. Verdicts'
  BY <1>1 DEF Verdicts
<1> QED
  BY <1>4, <1>5, <1>6, <1>7, <1>8, <1>9

LEMMA RecvEofStep ==
  ASSUME IInv, RecvEof
  PROVE  IInv'
<1> USE DEF IInv, RecvEof, writerVars
<1>1. Total' = Total /\ \A i : At(i)' = At(i)
  BY DEF Total, At
<1>2. Types'
  BY DEF Types
<1>3. Begun' /\ AllAccepted'
  BY <1>1 DEF Begun, AllAccepted, Accepted
<1>4. Ordered'
  BY <1>1 DEF Ordered
<1>5. Sequential'
  BY <1>1 DEF Sequential
<1>6. Verdicts'
  BY DEF Verdicts
<1> QED
  BY <1>2, <1>3, <1>4, <1>5, <1>6

LEMMA InitInv == Init => IInv
<1> SUFFICES ASSUME Init PROVE IInv
  OBVIOUS
<1> USE DEF Init
<1>1. /\ wire \in Seq(Byte) /\ cursor \in Seq(Byte) /\ got \in FrameSeq
      /\ Len(wire) = 0 /\ Len(cursor) = 0 /\ Len(got) = 0
  BY EmptySeq DEF FrameSeq
<1>2. Types
  BY <1>1, Size, StreamAssumption DEF Types
<1>3. Total = 0
  BY <1>1, <1>2, Facts, Size DEF Total, StreamLen
<1>4. Begun /\ AllAccepted /\ Ordered
  BY <1>3 DEF Begun, AllAccepted, Ordered
<1>5. Sequential
  BY <1>3, Size DEF Sequential
<1> QED
  BY <1>2, <1>4, <1>5 DEF IInv, Verdicts

LEMMA StepInv ==
  ASSUME IInv, [Next]_vars
  PROVE  IInv'
<1>1. CASE Recv \/ OnData
  <2>1. PICK f \in FrameSeq : Reads(f)
    BY <1>1, RecvReads, OnDataReads DEF IInv
  <2>2. verdict = "none" /\ verdict' = verdict
    <3>1. OnData => wire # <<>>
      BY EmptySeq DEF OnData
    <3> QED
      BY <1>1, <2>1, <3>1 DEF Recv, Reads, IInv, Verdicts
  <2>3. Types' /\ Begun' /\ AllAccepted' /\ Ordered' /\ Sequential'
    BY <2>1, ReadStep
  <2> QED
    BY <2>2, <2>3 DEF IInv, Verdicts
<1>2. CASE RecvEof
  BY <1>2, RecvEofStep
<1>3. ASSUME NEW w \in conn.writers, Write(w)
      PROVE  IInv'
  <2>1. w \in Writer
    BY Facts DEF IInv
  <2> QED
    BY <1>3, <2>1, BeginStep, SendStep, GiveUpStep DEF Write
<1>4. CASE Die
  BY <1>4, DieStep
<1>5. CASE UNCHANGED vars
  <2> USE <1>5 DEF vars, writerVars, readerVars, IInv
  <2>1. Total' = Total /\ \A i : At(i)' = At(i)
    BY DEF Total, At
  <2>2. Types' /\ Begun' /\ Verdicts'
    BY DEF Types, Begun, Verdicts
  <2>3. AllAccepted'
    BY <2>1 DEF AllAccepted, Accepted
  <2>4. Ordered' /\ Sequential'
    BY <2>1 DEF Ordered, Sequential
  <2> QED
    BY <2>2, <2>3, <2>4
<1> QED
  BY <1>1, <1>2, <1>3, <1>4, <1>5 DEF Next, Read, Done, Over

LEMMA Invariance == Spec => []IInv
<1>1. IInv /\ [Next]_vars => IInv'
  BY StepInv
<1> QED
  BY <1>1, InitInv, PTL DEF Spec
-----------------------------------------------------------------------------
(* The invariants. *)

(* TypeOK: every variable stays in its type, the bytes read and buffered   *)
(* are bytes of messages, and neither the kernel's buffer nor the bytes of *)
(* an incomplete message grow beyond their limits.                         *)
THEOREM TypeCorrect == Spec => []TypeOK
<1>1. IInv => TypeOK
  <2> SUFFICES ASSUME IInv PROVE TypeOK
    OBVIOUS
  <2>1. \A j \in DOMAIN got : got[j] \in [1..MESSAGE_SIZE -> Byte]
    BY FrameSeqFacts DEF IInv, Types
  <2> QED
    BY <2>1 DEF IInv, Types, TypeOK
<1> QED
  BY <1>1, Invariance, PTL

(* With one patient writer the j-th frame handed on is its j-th message.   *)
LEMMA GotIs ==
  ASSUME IInv, NEW w \in Writer, conn.writers = {w}, conn.impatient = {}, NEW j \in 1..Len(got)
  PROVE  <<w, j>> \in Message /\ got[j] = Bytes(<<w, j>>)
<1> DEFINE t == cursor \o wire
           k(i) == MESSAGE_SIZE * (j - 1) + i
<1>1. got \in FrameSeq /\ t \in Seq(Byte) /\ Len(got) \in Nat
  BY Facts DEF IInv, Types
<1>2. ASSUME NEW i \in 1..MESSAGE_SIZE
      PROVE  got[j][i] = <<<<w, j>>, i>>
  <2>1. k(i) \in 1..StreamLen(got, t) /\ StreamAt(got, t, k(i)) = got[j][i]
    <3> HIDE DEF t
    <3> QED
      BY <1>1, FrontAt
  <2>2. At(k(i)) = got[j][i] /\ k(i) \in 1..Total
    BY <2>1 DEF At, Total
  <2>3. ByteNo(w, k(i)) = <<<<w, j>>, i>>
    BY <1>1, ByteNoAt
  <2> HIDE DEF k
  <2>4. At(k(i)) = ByteNo(w, k(i))
    BY <2>2 DEF IInv, Sequential
  <2> QED
    BY <2>2, <2>3, <2>4
<1>3. got[j] \in [1..MESSAGE_SIZE -> Byte]
  BY <1>1, FrameSeqFacts
<1>4. got[j] = [i \in 1..MESSAGE_SIZE |-> <<<<w, j>>, i>>]
  BY <1>2, <1>3
<1>5. <<w, j>> \in Message
  <2>1. 1 \in 1..MESSAGE_SIZE
    BY Size
  <2>2. <<<<w, j>>, 1>> \in Byte
    <3>1. got[j][1] = <<<<w, j>>, 1>>
      BY <1>2, <2>1
    <3>2. got[j][1] \in Byte
      BY <1>3, <2>1
    <3> QED
      BY <3>1, <3>2
  <2> QED
    BY <2>2, InByte
<1> QED
  BY <1>4, <1>5 DEF Bytes

(* WholeFrames: a single sender's messages are put together again, however *)
(* send, recv and the chunks of the data callback cut them up.             *)
THEOREM FramesWhole == Spec => []WholeFrames
<1>1. IInv => WholeFrames
  <2> SUFFICES ASSUME IInv, Exclusive, NEW j \in DOMAIN got
               PROVE  \E m \in Message : got[j] = Bytes(m)
    BY DEF WholeFrames, FramesAreMessages
  <2>1. PICK w \in Writer : conn.writers = {w} /\ conn.impatient = {}
    BY DEF Exclusive
  <2>2. j \in 1..Len(got)
    BY FrameSeqFacts DEF IInv, Types
  <2> QED
    BY <2>1, <2>2, GotIs
<1> QED
  BY <1>1, Invariance, PTL

(* EofVerdict: 0 is returned only when every message begun has arrived,    *)
(* -1 only when one was cut short or the connection was reset.             *)
THEOREM VerdictsTrue == Spec => []EofVerdict
<1>1. IInv => EofVerdict
  <2> SUFFICES ASSUME IInv, Exclusive
               PROVE  /\ verdict = "eof" =>
                            \A w \in conn.writers : \A n \in 1..nth[w] :
                               \/ n = nth[w] /\ remaining[w] = MESSAGE_SIZE
                               \/ Contains(got, Bytes(<<w, n>>))
                      /\ verdict = "error" =>
                            link = "reset" \/ \E w \in conn.writers :
                                                 remaining[w] \in 1..(MESSAGE_SIZE - 1)
    BY DEF EofVerdict
  <2>1. PICK w \in Writer : conn.writers = {w} /\ conn.impatient = {}
    BY DEF Exclusive
  <2>2. /\ remaining[w] \in 0..4 /\ nth[w] \in Nat /\ Len(got) \in Nat /\ Len(cursor) \in Nat
        /\ Len(cursor) < 4 /\ Len(cursor \o wire) = Len(cursor) + Len(wire)
    BY Facts, Size DEF IInv, Types
  <2>3. ASSUME verdict # "none", link # "reset"
        PROVE  /\ 4 * Len(got) + Len(cursor) = 4 * nth[w] - remaining[w]
               /\ verdict = "eof" <=> Len(cursor) = 0
    <3>1. link = "closed" /\ wire = <<>> /\ (verdict = "eof" <=> cursor = <<>>)
      BY <2>3 DEF IInv, Types, Verdicts
    <3>2. Len(wire) = 0 /\ (cursor = <<>> <=> Len(cursor) = 0)
      <4>1. cursor # <<>> => Len(cursor) # 0
        BY EmptySeq DEF IInv, Types
      <4>2. Len(<<>>) = 0
        BY EmptySeq
      <4> QED
        BY <3>1, <4>1, <4>2
    <3>3. Total = 4 * Len(got) + Len(cursor)
      BY <2>2, <3>2, Size DEF Total, StreamLen
    <3>4. Total = 4 * nth[w] - remaining[w]
      BY <2>1, <2>3, Size DEF IInv, Sequential
    <3> QED
      BY <3>1, <3>2, <3>3, <3>4
  <2>4. ASSUME verdict = "eof", NEW n \in 1..nth[w], ~(n = nth[w] /\ remaining[w] = MESSAGE_SIZE)
        PROVE  Contains(got, Bytes(<<w, n>>))
    <3>1. link # "reset"
      BY <2>4 DEF IInv, Verdicts
    <3>2. 4 * Len(got) = 4 * nth[w] - remaining[w]
      BY <2>2, <2>3, <2>4, <3>1
    <3>3. n \in 1..Len(got)
      BY <2>2, <2>4, <3>2, Size
    <3>4. got[n] = Bytes(<<w, n>>)
      BY <2>1, <3>3, GotIs
    <3> QED
      BY <3>3, <3>4 DEF Contains
  <2>5. ASSUME verdict = "error", link # "reset"
        PROVE  remaining[w] \in 1..(MESSAGE_SIZE - 1)
    <3>1. 4 * Len(got) + Len(cursor) = 4 * nth[w] - remaining[w] /\ Len(cursor) # 0
      BY <2>3, <2>5
    <3> QED
      BY <2>2, <3>1, Size
  <2> QED
    BY <2>1, <2>4, <2>5
<1> QED
  BY <1>1, Invariance, PTL

(* BytesInOrder: with any number of writers, a reader passes on or keeps   *)
(* every byte, each writer's in the order in which they were sent.         *)
THEOREM BytesOrdered == Spec => []BytesInOrder
<1>1. IInv => BytesInOrder
  <2> DEFINE t == cursor \o wire
             parts == Append(got, t)
             n == Len(got)
             place(j, i) == MESSAGE_SIZE * (j - 1) + i
  <2> SUFFICES ASSUME IInv
               PROVE  \A j, k \in DOMAIN parts : \A i \in DOMAIN parts[j], l \in DOMAIN parts[k] :
                         /\ j < k \/ (j = k /\ i < l)
                         /\ parts[j][i][1][1] = parts[k][l][1][1]
                         => Before(parts[j][i], parts[k][l])
    BY DEF BytesInOrder
  <2>1. got \in FrameSeq /\ t \in Seq(Byte) /\ n \in Nat /\ got \in Seq(Seq(Byte))
    BY Facts, FrameSeqFacts DEF IInv, Types
  <2>2. /\ DOMAIN parts = 1..(n + 1) /\ parts[n + 1] = t
        /\ \A j \in 1..n : parts[j] = got[j]
    BY <2>1, AppendProperties, LenProperties
  <2> HIDE DEF parts
  <2>3. ASSUME NEW j \in DOMAIN parts, NEW i \in DOMAIN parts[j]
        PROVE  /\ place(j, i) \in 1..Total /\ At(place(j, i)) = parts[j][i]
               /\ j \in 1..(n + 1) /\ i \in Nat /\ i >= 1 /\ (j <= n => i <= MESSAGE_SIZE)
    <3>1. CASE j \in 1..n
      <4>1. DOMAIN got[j] = 1..MESSAGE_SIZE
        BY <2>1, <3>1, FrameSeqFacts
      <4>2. i \in 1..MESSAGE_SIZE
        BY <2>2, <3>1, <4>1
      <4>3. place(j, i) \in 1..StreamLen(got, t) /\ StreamAt(got, t, place(j, i)) = got[j][i]
        BY <2>1, <3>1, <4>2, FrontAt
      <4> HIDE DEF place
      <4> QED
        <5>1. place(j, i) \in 1..Total /\ At(place(j, i)) = got[j][i]
          BY <4>3 DEF Total, At
        <5>2. parts[j][i] = got[j][i]
          BY <2>2, <3>1
        <5>3. j \in 1..(n + 1) /\ i \in Nat /\ i >= 1 /\ i <= MESSAGE_SIZE
          BY <2>1, <3>1, <4>2, Size
        <5> QED
          BY <5>1, <5>2, <5>3
    <3>2. CASE j = n + 1
      <4>1. i \in 1..Len(t) /\ Len(t) \in Nat
        BY <2>1, <2>2, <3>2, LenProperties
      <4>2. /\ MESSAGE_SIZE * n + i \in 1..StreamLen(got, t)
            /\ StreamAt(got, t, MESSAGE_SIZE * n + i) = t[i]
        BY <2>1, <4>1, BackAt
      <4>3. place(j, i) = MESSAGE_SIZE * n + i
        <5>1. j - 1 = n
          BY <2>1, <3>2
        <5> QED
          BY <5>1
      <4> HIDE DEF place
      <4>4. ~(j <= n)
        BY <2>1, <3>2
      <4> QED
        BY <2>1, <2>2, <3>2, <4>1, <4>2, <4>3, <4>4, Size, SMTT(30) DEF Total, At
    <3> QED
      BY <2>1, <2>2, <3>1, <3>2
  <2>4. ASSUME NEW j \in DOMAIN parts, NEW i \in DOMAIN parts[j],
               NEW k \in DOMAIN parts, NEW l \in DOMAIN parts[k], j < k \/ (j = k /\ i < l)
        PROVE  place(j, i) < place(k, l)
    <3>1. /\ j \in Nat /\ k \in Nat /\ i \in Nat /\ l \in Nat /\ l >= 1
          /\ j <= n + 1 /\ k <= n + 1 /\ (j <= n => i <= 4)
      <4> DEFINE Cell(c, e) == c \in 1..(n + 1) /\ e \in Nat /\ e >= 1 /\ (c <= n => e <= MESSAGE_SIZE)
      <4>1. Cell(j, i) /\ Cell(k, l) /\ n \in Nat
        BY <2>1, <2>3
      <4> QED
        BY <4>1, Size
    <3>2. CASE j < k
      BY <2>1, <3>1, <3>2, Size
    <3>3. CASE j = k /\ i < l
      BY <2>1, <3>1, <3>3, Size
    <3> QED
      BY <2>4, <3>2, <3>3
  <2>5. ASSUME NEW j \in DOMAIN parts, NEW i \in DOMAIN parts[j],
               NEW k \in DOMAIN parts, NEW l \in DOMAIN parts[k], j < k \/ (j = k /\ i < l),
               parts[j][i][1][1] = parts[k][l][1][1]
        PROVE  Before(parts[j][i], parts[k][l])
    <3>1. place(j, i) < place(k, l)
      BY <2>4, <2>5
    <3>2. /\ place(j, i) \in 1..Total /\ At(place(j, i)) = parts[j][i]
          /\ place(k, l) \in 1..Total /\ At(place(k, l)) = parts[k][l]
      BY <2>3
    <3> HIDE DEF place
    <3> QED
      BY <2>5, <3>1, <3>2 DEF IInv, Ordered
  <2> QED
    BY <2>5
<1> QED
  BY <1>1, Invariance, PTL
-----------------------------------------------------------------------------
(* The refinement: bytes behind got, and the messages they hold. *)

Queue(t) == decodeFrames(MESSAGE_SIZE, t).messages

LEMMA QueueIs ==
  ASSUME NEW t \in Seq(Byte)
  PROVE  /\ Queue(t) \in FrameSeq /\ Queue(t) \in Seq(Seq(Byte)) /\ Len(Queue(t)) \in Nat
         /\ Len(t) \in Nat /\ Len(t) - 4 * Len(Queue(t)) \in 0..3
         /\ \A j \in 1..Len(Queue(t)) :
               /\ Queue(t)[j] \in Seq(Byte) /\ Len(Queue(t)[j]) = 4
               /\ \A i \in 1..4 : Queue(t)[j][i] = t[4 * (j - 1) + i]
<1>1. MESSAGE_SIZE \in Nat \ {0} /\ MESSAGE_SIZE = 4
  BY Size
<1>2. /\ Queue(t) \in Seq(Seq(Byte)) /\ Len(Queue(t)) = Frames(MESSAGE_SIZE, t)
      /\ \A j \in 1..Frames(MESSAGE_SIZE, t) :
            /\ Len(Queue(t)[j]) = MESSAGE_SIZE
            /\ \A i \in 1..MESSAGE_SIZE : Queue(t)[j][i] = t[MESSAGE_SIZE * (j - 1) + i]
  <2> DEFINE size == MESSAGE_SIZE
  <2>1. size \in Nat \ {0}
    BY <1>1
  <2> HIDE DEF size
  <2>2. Split(size, Byte, t, decodeFrames(size, t))
    BY <2>1, Decoded
  <2> QED
    BY <2>2 DEF Queue, size, Split
<1>3. /\ Frames(MESSAGE_SIZE, t) \in Nat
      /\ Len(t) - MESSAGE_SIZE * Frames(MESSAGE_SIZE, t) \in 0..(MESSAGE_SIZE - 1)
  BY <1>1, FramesFit
<1>4. Queue(t) \in FrameSeq
  BY <1>2 DEF FrameSeq
<1>5. \A j \in 1..Len(Queue(t)) : Queue(t)[j] \in Seq(Byte)
  BY <1>4, FrameSeqFacts
<1> QED
  BY <1>1, <1>2, <1>3, <1>4, <1>5, LenProperties

(* Two frames with the same bytes are the same. *)
LEMMA SameFrame ==
  ASSUME NEW a \in Seq(Byte), NEW b \in Seq(Byte), Len(a) = 4, Len(b) = 4,
         \A i \in 1..4 : a[i] = b[i]
  PROVE  a = b
BY SeqEqual

LEMMA InFrame ==
  ASSUME NEW n \in Nat, NEW l \in Nat, l - 4 * n \in 0..3, NEW b \in 1..n, NEW i \in 1..4
  PROVE  4 * (b - 1) + i \in 1..l
OBVIOUS

LEMMA Quarters ==
  ASSUME NEW n \in Nat, NEW m \in Nat, NEW k \in Nat, NEW l \in Nat,
         (4 * n + l) - 4 * m \in 0..3, l - 4 * k \in 0..3
  PROVE  n + k = m
OBVIOUS

(* Frames taken off the front of the bytes are taken off the queue.        *)
LEMMA TakesQueue ==
  ASSUME NEW t \in Seq(Byte), NEW f \in FrameSeq, NEW u, Takes(t, f, u)
  PROVE  /\ Len(f) \in 0..Len(Queue(t))
         /\ f = SubSeq(Queue(t), 1, Len(f))
         /\ Queue(u) = SubSeq(Queue(t), Len(f) + 1, Len(Queue(t)))
<1> DEFINE q == Queue(t)
           r == Queue(u)
           n == Len(f)
           N == Len(q)
<1>1. /\ u \in Seq(Byte) /\ Len(t) = 4 * n + Len(u)
      /\ \A j \in 1..n : \A i \in 1..4 : f[j][i] = t[4 * (j - 1) + i]
      /\ \A i \in 1..Len(u) : u[i] = t[4 * n + i]
  BY Size DEF Takes
<1>2. /\ q \in Seq(Seq(Byte)) /\ N \in Nat /\ Len(t) \in Nat /\ Len(t) - 4 * N \in 0..3
      /\ \A j \in 1..N : /\ q[j] \in Seq(Byte) /\ Len(q[j]) = 4
                         /\ \A i \in 1..4 : q[j][i] = t[4 * (j - 1) + i]
  BY QueueIs
<1>3. /\ r \in Seq(Seq(Byte)) /\ Len(r) \in Nat /\ Len(u) \in Nat /\ Len(u) - 4 * Len(r) \in 0..3
      /\ \A j \in 1..Len(r) : /\ r[j] \in Seq(Byte) /\ Len(r[j]) = 4
                              /\ \A i \in 1..4 : r[j][i] = u[4 * (j - 1) + i]
  BY <1>1, QueueIs
<1>4. /\ f \in Seq(Seq(Byte)) /\ n \in Nat
      /\ \A j \in 1..n : f[j] \in Seq(Byte) /\ Len(f[j]) = 4
  BY FrameSeqFacts, Size
<1> HIDE DEF q, r, n, N
<1>5. n + Len(r) = N
  <2>1. /\ n \in Nat /\ N \in Nat /\ Len(r) \in Nat
        /\ (4 * n + Len(u)) - 4 * N \in 0..3 /\ Len(u) - 4 * Len(r) \in 0..3 /\ Len(u) \in Nat
    BY <1>1, <1>2, <1>3, <1>4
  <2> QED
    BY <2>1, Quarters
<1>6. n \in 0..N
  BY <1>2, <1>3, <1>4, <1>5
<1>7. ASSUME NEW j \in 1..n
      PROVE  f[j] = q[j]
  <2>1. j \in 1..N
    BY <1>2, <1>4, <1>6
  <2>2. \A i \in 1..4 : f[j][i] = q[j][i]
    BY <1>1, <1>2, <2>1, ZenonT(30)
  <2>3. f[j] \in Seq(Byte) /\ q[j] \in Seq(Byte) /\ Len(f[j]) = 4 /\ Len(q[j]) = 4
    BY <1>2, <1>4, <2>1
  <2> QED
    BY <2>2, <2>3, SameFrame
<1>8. ASSUME NEW j \in 1..Len(r)
      PROVE  n + j \in 1..N /\ r[j] = q[n + j]
  <2>1. n + j \in 1..N
    BY <1>3, <1>4, <1>5
  <2>2. ASSUME NEW i \in 1..4
        PROVE  r[j][i] = q[n + j][i]
    <3>1. 4 * (j - 1) + i \in 1..Len(u)
      BY <1>3
    <3>2. 4 * n + (4 * (j - 1) + i) = 4 * ((n + j) - 1) + i
      BY <1>3, <1>4
    <3>3. r[j][i] = t[4 * ((n + j) - 1) + i]
      BY <1>1, <1>3, <3>1, <3>2
    <3> QED
      BY <1>2, <2>1, <3>3
  <2>3. /\ r[j] \in Seq(Byte) /\ q[n + j] \in Seq(Byte)
        /\ Len(r[j]) = 4 /\ Len(q[n + j]) = 4
    BY <1>2, <1>3, <2>1
  <2>4. r[j] = q[n + j]
    BY <2>2, <2>3, SameFrame
  <2> QED
    BY <2>1, <2>4
<1>9. f = SubSeq(q, 1, n)
  <2>1. \A i \in 1..n : q[i] \in Seq(Byte)
    BY <1>4, <1>7
  <2>2. 1 \in Int /\ n \in Int /\ (1 <= n => (n - 1) + 1 = n) /\ (~(1 <= n) => n = 0)
    BY <1>4
  <2>3. /\ SubSeq(q, 1, n) \in Seq(Seq(Byte)) /\ Len(SubSeq(q, 1, n)) = n
        /\ \A i \in 1..((n - 1) + 1) : SubSeq(q, 1, n)[i] = q[(1 + i) - 1]
    BY <2>1, <2>2, SubSeqProperties
  <2>4. \A i \in 1..n : i \in 1..((n - 1) + 1) /\ (1 + i) - 1 = i
    BY <1>4
  <2>5. \A i \in 1..n : f[i] = SubSeq(q, 1, n)[i]
    BY <1>7, <2>3, <2>4
  <2>6. Len(f) = n
    BY DEF n
  <2> QED
    BY <1>4, <2>3, <2>5, <2>6, SeqEqual
<1>10. r = SubSeq(q, n + 1, N)
  <2>1. \A i \in (n + 1)..N : q[i] \in Seq(Byte)
    BY <1>2, <1>4
  <2>2. /\ n + 1 \in Int /\ N \in Int /\ (n + 1 <= N => (N - (n + 1)) + 1 = Len(r))
        /\ (~(n + 1 <= N) => Len(r) = 0) /\ (N - (n + 1)) + 1 = Len(r)
    BY <1>2, <1>3, <1>4, <1>5
  <2>3. /\ SubSeq(q, n + 1, N) \in Seq(Seq(Byte)) /\ Len(SubSeq(q, n + 1, N)) = Len(r)
        /\ \A i \in 1..Len(r) : SubSeq(q, n + 1, N)[i] = q[((n + 1) + i) - 1]
    BY <2>1, <2>2, SubSeqProperties
  <2>4. \A i \in 1..Len(r) : ((n + 1) + i) - 1 = n + i
    BY <1>3, <1>4
  <2>5. \A i \in 1..Len(r) : r[i] = SubSeq(q, n + 1, N)[i]
    BY <1>8, <2>3, <2>4
  <2> QED
    <3> DEFINE e == SubSeq(q, n + 1, N)
    <3>1. r \in Seq(Seq(Byte)) /\ e \in Seq(Seq(Byte)) /\ Len(r) = Len(e)
      BY <1>3, <2>3
    <3>2. \A i \in 1..Len(r) : r[i] = e[i]
      BY <2>5
    <3> HIDE DEF e, r
    <3> QED
      BY <3>1, <3>2, SeqEqual DEF e
<1> QED
  BY <1>6, <1>9, <1>10 DEF q, r, n, N

(* Bytes behind t leave the queue as it is at its front. *)
LEMMA QueueExtended ==
  ASSUME NEW t \in Seq(Byte), NEW x \in Seq(Byte)
  PROVE  /\ t \o x \in Seq(Byte) /\ Len(t \o x) = Len(t) + Len(x)
         /\ Len(Queue(t)) <= Len(Queue(t \o x))
         /\ \A j \in 1..Len(Queue(t)) : Queue(t \o x)[j] = Queue(t)[j]
<1> DEFINE q == Queue(t)
           r == Queue(t \o x)
<1>1. /\ t \o x \in Seq(Byte) /\ Len(t \o x) = Len(t) + Len(x)
      /\ \A i \in 1..(Len(t) + Len(x)) : (t \o x)[i] = IF i <= Len(t) THEN t[i] ELSE x[i - Len(t)]
      /\ Len(x) \in Nat
  BY ConcatProperties, LenProperties
<1>2. /\ Len(q) \in Nat /\ Len(t) \in Nat /\ Len(t) - 4 * Len(q) \in 0..3
      /\ \A j \in 1..Len(q) : /\ q[j] \in Seq(Byte) /\ Len(q[j]) = 4
                              /\ \A i \in 1..4 : q[j][i] = t[4 * (j - 1) + i]
  BY QueueIs
<1>3. /\ Len(r) \in Nat /\ Len(t \o x) - 4 * Len(r) \in 0..3
      /\ \A j \in 1..Len(r) : /\ r[j] \in Seq(Byte) /\ Len(r[j]) = 4
                              /\ \A i \in 1..4 : r[j][i] = (t \o x)[4 * (j - 1) + i]
  BY <1>1, QueueIs
<1> HIDE DEF q, r
<1>4. Len(q) <= Len(r)
  BY <1>1, <1>2, <1>3
<1>5. ASSUME NEW j \in 1..Len(q)
      PROVE  r[j] = q[j]
  <2>1. j \in 1..Len(r)
    BY <1>2, <1>3, <1>4
  <2>2. ASSUME NEW i \in 1..4
        PROVE  r[j][i] = q[j][i]
    <3>1. 4 * (j - 1) + i \in 1..(Len(t) + Len(x)) /\ 4 * (j - 1) + i <= Len(t)
      BY <1>1, <1>2
    <3> QED
      BY <1>1, <1>2, <1>3, <2>1, <3>1
  <2>3. r[j] \in Seq(Byte) /\ q[j] \in Seq(Byte) /\ Len(r[j]) = 4 /\ Len(q[j]) = 4
    BY <1>2, <1>3, <2>1
  <2> QED
    BY <2>2, <2>3, SameFrame
<1> QED
  BY <1>1, <1>4, <1>5 DEF q, r

LEMMA QueueEmpty ==
  ASSUME NEW t \in Seq(Byte), Len(t) < 4
  PROVE  Queue(t) = <<>>
<1> DEFINE n == Len(Queue(t))
<1>1. n \in Nat /\ Len(t) \in Nat /\ Len(t) - 4 * n \in 0..3
  BY QueueIs
<1> HIDE DEF n
<1>2. n = 0
  BY <1>1
<1>3. Queue(t) \in Seq(Seq(Byte)) /\ Len(Queue(t)) = 0
  BY <1>2, QueueIs DEF n
<1> QED
  BY <1>3, EmptySeq
LEMMA BarsAre ==
  /\ queueBar = IF Exclusive THEN Queue(cursor \o wire) ELSE <<>>
  /\ queueBar' = IF Exclusive' THEN Queue(cursor' \o wire') ELSE <<>>
  /\ receivedBar = IF Exclusive THEN got ELSE <<>>
  /\ receivedBar' = IF Exclusive' THEN got' ELSE <<>>
BY DEF queueBar, receivedBar, Queue

LEMMA ConnKept == [Next]_vars => UNCHANGED conn
<1> SUFFICES ASSUME [Next]_vars PROVE UNCHANGED conn
  OBVIOUS
<1> USE DEF vars, writerVars
<1>1. CASE Read
  BY <1>1 DEF Read, Recv, RecvEof, OnData
<1>2. ASSUME NEW w \in conn.writers, Write(w)
      PROVE  UNCHANGED conn
  BY <1>2 DEF Write, Begin, Send, GiveUp
<1>3. CASE Die \/ Done \/ Over \/ UNCHANGED vars
  BY <1>3 DEF Die, Done, Over
<1> QED
  BY <1>1, <1>2, <1>3 DEF Next

(* A reader takes messages off the front of the queue, or only bytes.      *)
LEMMA ReadFifo ==
  ASSUME IInv, Exclusive, Exclusive', NEW f \in FrameSeq, Reads(f)
  PROVE  [Fifo!Next]_(Fifo!fifoVars)
<1> DEFINE t == cursor \o wire
           u == cursor' \o wire'
           n == Len(f)
           q == Queue(t)
<1>1. t \in Seq(Byte) /\ got \in Seq(Seq(Byte))
  BY Facts, FrameSeqFacts DEF IInv, Types
<1>2. Takes(t, f, u) /\ got' = got \o f
  BY DEF Reads
<1>3. /\ queueBar = q /\ queueBar' = Queue(u)
      /\ receivedBar = got /\ receivedBar' = got'
  BY BarsAre
<1> HIDE DEF t, u
<1>4. /\ n \in 0..Len(q) /\ f = SubSeq(q, 1, n)
      /\ Queue(u) = SubSeq(q, n + 1, Len(q))
  BY <1>1, <1>2, TakesQueue
<1>5. /\ queueBar' = SubSeq(queueBar, n + 1, Len(queueBar))
      /\ receivedBar' = receivedBar \o SubSeq(queueBar, 1, n)
      /\ n \in 0..Len(queueBar)
  BY <1>2, <1>3, <1>4
<1>6. n \in Nat
  BY FrameSeqFacts
<1>7. CASE n = 0
  <2>1. f \in Seq(Seq(Byte)) /\ f = <<>>
    BY <1>7, FrameSeqFacts, EmptySeq
  <2>2. got' = got
    BY <1>1, <1>2, <2>1, ConcatEmptySeq
  <2>3. n + 1 = 1
    BY <1>7
  <2>4. q \in Seq(Seq(Byte))
    BY <1>1, QueueIs
  <2>5. SubSeq(q, 1, Len(q)) = q
    BY <2>4, SubSeqFull
  <2>6. Queue(u) = q
    BY <1>4, <2>3, <2>5
  <2> QED
    BY <1>3, <2>2, <2>6 DEF Fifo!fifoVars
<1>8. CASE n # 0
  <2>1. n \in 1..Len(queueBar)
    BY <1>5, <1>6, <1>8
  <2> QED
    BY <1>5, <2>1 DEF Fifo!Next, Fifo!Get
<1> QED
  BY <1>7, <1>8

(* The last byte of a message puts it into the queue. *)
LEMMA SendFifo ==
  ASSUME IInv, Exclusive, Exclusive', NEW w \in Writer, w \in conn.writers, Send(w)
  PROVE  [Fifo!Next]_(Fifo!fifoVars)
<1>1. PICK k \in 1..remaining[w] : \E x \in Seq(Byte) :
            /\ Len(x) = k /\ \A i \in 1..k : x[i] = <<<<w, nth[w]>>, (MESSAGE_SIZE - remaining[w]) + i>>
            /\ wire' = wire \o x /\ Len(wire) + k <= Capacity
            /\ remaining' = [remaining EXCEPT ![w] = @ - k]
            /\ link = "open" /\ UNCHANGED <<conn, nth, link, cursor, got, verdict>>
  BY SendBytes
<1>2. PICK x \in Seq(Byte) :
            /\ Len(x) = k /\ \A i \in 1..k : x[i] = <<<<w, nth[w]>>, (MESSAGE_SIZE - remaining[w]) + i>>
            /\ wire' = wire \o x /\ Len(wire) + k <= Capacity
            /\ remaining' = [remaining EXCEPT ![w] = @ - k]
            /\ link = "open" /\ UNCHANGED <<conn, nth, link, cursor, got, verdict>>
  BY <1>1
<1> DEFINE t == cursor \o wire
           u == cursor' \o wire'
           q == Queue(t)
           r == Queue(u)
           N == nth[w]
           m == Bytes(<<w, N>>)
<1>3. /\ t \in Seq(Byte) /\ u = t \o x /\ got \in FrameSeq
      /\ remaining[w] \in 0..4 /\ N \in Nat /\ k \in 1..remaining[w] /\ Len(got) \in Nat
  <2>1. /\ got \in FrameSeq /\ cursor \in Seq(Byte) /\ wire \in Seq(Byte) /\ t \in Seq(Byte)
        /\ remaining[w] \in 0..4 /\ N \in Nat /\ Len(got) \in Nat
    BY Facts, Size DEF IInv, Types
  <2>2. (cursor \o wire) \o x = cursor \o (wire \o x)
    <3>1. cursor \in Seq(Byte) /\ wire \in Seq(Byte) /\ x \in Seq(Byte)
      BY <2>1
    <3> QED
      BY <3>1, Associative
  <2> QED
    BY <1>2, <2>1, <2>2
<1>4. /\ queueBar = q /\ queueBar' = r
      /\ receivedBar = got /\ receivedBar' = got
  BY <1>2, BarsAre
<1>5. conn.writers = {w} /\ conn.impatient = {}
  BY DEF Exclusive
<1>6. Len(t) + 4 * Len(got) = 4 * N - remaining[w]
  <2>1. Total = 4 * N - remaining[w]
    BY <1>2, <1>5, Size DEF IInv, Sequential
  <2>2. Total = 4 * Len(got) + Len(t) /\ Len(t) \in Nat
    BY <1>3, Size, LenProperties DEF Total, StreamLen
  <2> QED
    BY <1>3, <2>1, <2>2
<1> HIDE DEF t, u
<1>7. /\ u \in Seq(Byte) /\ Len(u) = Len(t) + k
      /\ Len(q) <= Len(r) /\ \A j \in 1..Len(q) : r[j] = q[j]
  BY <1>2, <1>3, QueueExtended
<1>8. /\ Len(q) \in Nat /\ Len(t) \in Nat /\ Len(t) - 4 * Len(q) \in 0..3
      /\ q \in Seq(Seq(Byte))
  BY <1>3, QueueIs
<1>9. /\ Len(r) \in Nat /\ Len(u) - 4 * Len(r) \in 0..3 /\ r \in Seq(Seq(Byte))
      /\ \A j \in 1..Len(r) : /\ r[j] \in Seq(Byte) /\ Len(r[j]) = 4
                              /\ \A i \in 1..4 : r[j][i] = u[4 * (j - 1) + i]
  BY <1>7, QueueIs
<1>10. Len(r) = Len(q) \/ (Len(r) = Len(q) + 1 /\ Len(got) + Len(r) = N)
  <2> DEFINE a == Len(q)
             b == Len(r)
             g == Len(got)
             l == Len(t)
             s == remaining[w]
  <2>1. /\ a \in Nat /\ b \in Nat /\ g \in Nat /\ l \in Nat /\ s \in 0..4 /\ k \in 1..s /\ N \in Nat
        /\ a <= b /\ l + 4 * g = 4 * N - s /\ l - 4 * a \in 0..3 /\ (l + k) - 4 * b \in 0..3
    BY <1>3, <1>6, <1>7, <1>8, <1>9
  <2> HIDE DEF a, b, g, l, s, N
  <2>2. b = a \/ (b = a + 1 /\ g + b = N)
    BY <2>1
  <2> QED
    BY <2>2 DEF a, b, g
<1>11. CASE Len(r) = Len(q)
  <2>1. r = q
    <3>1. q \in Seq(Seq(Byte)) /\ r \in Seq(Seq(Byte)) /\ Len(q) = Len(r)
      BY <1>8, <1>9, <1>11
    <3>2. \A j \in 1..Len(q) : q[j] = r[j]
      BY <1>7
    <3> HIDE DEF q, r
    <3>3. q = r
      BY <3>1, <3>2, SeqEqual
    <3> QED
      BY <3>3
  <2> QED
    BY <1>4, <2>1 DEF Fifo!fifoVars
<1>12. CASE Len(r) = Len(q) + 1 /\ Len(got) + Len(r) = N
  <2> DEFINE b == Len(r)
  <2>1. \A i \in 1..4 : r[b][i] = <<<<w, N>>, i>>
    <3> SUFFICES ASSUME NEW i \in 1..4
                 PROVE  r[b][i] = <<<<w, N>>, i>>
      OBVIOUS
    <3> DEFINE p == 4 * (b - 1) + i
               z == 4 * (N - 1) + i
    <3>1. b \in Nat /\ b >= 1 /\ b \in 1..Len(r) /\ N \in 1..N /\ Len(got) + b = N
      <4> DEFINE a == Len(q)
                 g == Len(got)
      <4>1. b \in Nat /\ a \in Nat /\ g \in Nat /\ N \in Nat
        BY <1>3, <1>8, <1>9
      <4>2. b = a + 1 /\ g + b = N /\ b = Len(r)
        BY <1>12
      <4> HIDE DEF a, b, g, N
      <4>3. b >= 1 /\ N >= 1 /\ b \in 1..b /\ N \in 1..N
        BY <4>1, <4>2
      <4> QED
        BY <4>1, <4>2, <4>3 DEF g
    <3>2. r[b][i] = u[p]
      BY <1>9, <3>1
    <3>3. p \in 1..Len(u)
      <4> HIDE DEF r, u
      <4>1. Len(u) \in Nat
        BY <1>7, LenProperties
      <4> QED
        BY <1>9, <3>1, <4>1, InFrame
    <3>4. 4 * Len(got) + p = z
      <4> HIDE DEF b, N, r, u
      <4>1. b \in Nat /\ N \in Nat /\ Len(got) \in Nat /\ Len(got) + b = N /\ i \in Nat
        BY <1>3, <3>1
      <4> QED
        BY <4>1
    <3>5. /\ MESSAGE_SIZE * Len(got) + p \in 1..StreamLen(got, u)
          /\ StreamAt(got, u, MESSAGE_SIZE * Len(got) + p) = u[p]
      <4> HIDE DEF p
      <4> QED
        BY <1>3, <1>7, <3>3, BackAt
    <3>6. z \in 1..StreamLen(got, u) /\ StreamAt(got, u, z) = u[p]
      BY <3>4, <3>5, Size
    <3> HIDE DEF p, z
    <3>7. got' = got /\ conn' = conn /\ link' = "open"
      BY <1>2
    <3> DEFINE new(l) == StreamAt(got', cursor' \o wire', l)
    <3>8. z \in 1..Total' /\ new(z) = u[p]
      BY <3>6, <3>7 DEF Total, u
    <3>9. u[p] = ByteNo(w, z)
      <4>1. Sequential'
        BY SendStep DEF IInv
      <4>2. \A l \in 1..Total' : new(l) = ByteNo(w, l)
        BY <1>5, <3>7, <4>1 DEF Sequential, At
      <4> HIDE DEF new
      <4> QED
        BY <3>8, <4>2
    <3>10. ByteNo(w, z) = <<<<w, N>>, i>>
      <4> HIDE DEF N
      <4>1. i \in 1..MESSAGE_SIZE /\ MESSAGE_SIZE \in Nat \ {0} /\ N \in Nat /\ N \in 1..N
        BY <1>3, <3>1, Size
      <4>2. N \in Nat \ {0}
        BY <3>1
      <4>3. ByteNo(w, MESSAGE_SIZE * (N - 1) + i) = <<<<w, N>>, i>>
        BY <4>1, <4>2, ByteNoAt
      <4>4. z = MESSAGE_SIZE * (N - 1) + i
        BY Size DEF z
      <4> QED
        BY <4>3, <4>4
    <3> QED
      BY <3>2, <3>9, <3>10
  <2>2. b \in 1..Len(r) /\ r[b] \in Seq(Byte) /\ Len(r[b]) = 4
    <3> HIDE DEF q, r, N
    <3>1. Len(r) \in Nat /\ Len(q) \in Nat /\ Len(r) >= 1 /\ b \in 1..Len(r)
      BY <1>8, <1>9, <1>12
    <3> QED
      BY <1>9, <3>1
  <2>3. r[b] = m
    <3>1. r[b] \in [1..4 -> Byte]
      BY <2>2, LenProperties
    <3>2. r[b] = [i \in 1..4 |-> <<<<w, N>>, i>>]
      BY <2>1, <3>1
    <3> QED
      BY <3>2, Size DEF Bytes
  <2>4. r = Append(q, m)
    <3> DEFINE e == Append(q, m)
    <3> HIDE DEF q, r, m
    <3>1. /\ Append(q, m) \in Seq(Seq(Byte)) /\ Len(Append(q, m)) = Len(q) + 1
          /\ \A j \in 1..Len(q) : Append(q, m)[j] = q[j]
          /\ Append(q, m)[Len(q) + 1] = m
      BY <1>8, <2>2, <2>3, AppendProperties
    <3>2. \A j \in 1..Len(r) : r[j] = e[j]
      BY <1>7, <1>8, <1>12, <2>3, <3>1
    <3>3. e \in Seq(Seq(Byte)) /\ Len(e) = Len(r)
      BY <1>12, <3>1
    <3> HIDE DEF e
    <3>4. r = e
      BY <1>9, <3>2, <3>3, SeqEqual
    <3> QED
      BY <3>4 DEF e
  <2>5. <<w, N>> \in Message
    BY <1>3, <1>12, <1>8 DEF IInv, Types, Message
  <2>6. Fifo!Put(m)
    BY <1>4, <2>4 DEF Fifo!Put
  <2> QED
    BY <2>5, <2>6 DEF Fifo!Next
<1> QED
  BY <1>10, <1>11, <1>12

LEMMA StepFifo ==
  ASSUME IInv, [Next]_vars
  PROVE  [Fifo!Next]_(Fifo!fifoVars)
<1>1. Exclusive' <=> Exclusive
  BY ConnKept DEF Exclusive
<1>2. CASE ~Exclusive
  BY <1>1, <1>2, BarsAre DEF Fifo!fifoVars
<1>3. CASE Exclusive
  <2>1. /\ queueBar = Queue(cursor \o wire) /\ queueBar' = Queue(cursor' \o wire')
        /\ receivedBar = got /\ receivedBar' = got'
    BY <1>1, <1>3, BarsAre
  <2>2. CASE UNCHANGED <<cursor, wire, got>>
    BY <2>1, <2>2 DEF Fifo!fifoVars
  <2>3. CASE Recv \/ OnData
    <3>1. PICK f \in FrameSeq : Reads(f)
      BY <2>3, RecvReads, OnDataReads DEF IInv
    <3> QED
      BY <1>1, <1>3, <3>1, ReadFifo
  <2>4. CASE RecvEof
    BY <2>2, <2>4 DEF RecvEof
  <2>5. ASSUME NEW w \in conn.writers, Write(w)
        PROVE  [Fifo!Next]_(Fifo!fifoVars)
    <3>1. w \in Writer
      BY Facts DEF IInv
    <3>2. CASE Send(w)
      BY <1>1, <1>3, <3>1, <3>2, SendFifo
    <3>3. CASE Begin(w) \/ GiveUp(w)
      BY <2>2, <3>3 DEF Begin, GiveUp, readerVars
    <3> QED
      BY <2>5, <3>2, <3>3 DEF Write
  <2>6. CASE Die
    <3>1. UNCHANGED <<cursor, got>> /\ (wire' = wire \/ wire' = <<>>)
      BY <2>6 DEF Die, readerVars
    <3>2. CASE wire' = <<>>
      <4>1. cursor \in Seq(Byte) /\ Len(cursor) < 4
        BY Size DEF IInv, Types
      <4>2. cursor' \o wire' = cursor
        BY <3>1, <3>2, <4>1, ConcatEmptySeq
      <4>3. queueBar' = <<>> /\ receivedBar' = receivedBar
        BY <2>1, <3>1, <4>1, <4>2, QueueEmpty
      <4> QED
        BY <4>3 DEF Fifo!Next, Fifo!Reset
    <3> QED
      BY <2>2, <3>1, <3>2
  <2>7. CASE Done \/ Over \/ UNCHANGED vars
    BY <2>2, <2>7 DEF Done, Over, vars, readerVars
  <2> QED
    BY <2>3, <2>4, <2>5, <2>6, <2>7 DEF Next, Read
<1> QED
  BY <1>2, <1>3

(* ImplementsFifo: with one patient writer the stream is a queue of whole  *)
(* messages, read in the order of sending, which only a reset empties.     *)
THEOREM Refinement == Spec => ImplementsFifo
<1>1. Init => Fifo!Init
  <2> SUFFICES ASSUME Init PROVE Fifo!Init
    OBVIOUS
  <2>1. cursor \o wire = <<>> /\ <<>> \in Seq(Byte) /\ Len(<<>>) < 4
    BY EmptySeq, ConcatEmptySeq DEF Init
  <2>2. queueBar = <<>> /\ receivedBar = <<>>
    BY <2>1, BarsAre, QueueEmpty DEF Init
  <2> QED
    BY <2>2 DEF Fifo!Init
<1>2. IInv /\ [Next]_vars => [Fifo!Next]_(Fifo!fifoVars)
  BY StepFifo
<1> QED
  BY <1>1, <1>2, Invariance, PTL DEF Spec, ImplementsFifo, Fifo!Spec
=============================================================================
