--------------------------- MODULE ProtocolProofs ---------------------------
(***************************************************************************)
(* Facts about decodeFrames, for messages of any size and a buffer of any  *)
(* length and contents.                                                    *)
(***************************************************************************)
EXTENDS Protocol, SequenceTheorems, TLAPS

LEMMA Division ==
  ASSUME NEW size \in Nat \ {0}, NEW k \in Nat
  PROVE  /\ k \div size \in Nat /\ k % size \in 0..(size - 1)
         /\ k = size * (k \div size) + (k % size)
<1> DEFINE q == k \div size
           r == k % size
<1>1. q \in Int /\ q >= 0
  OBVIOUS
<1>2. r \in 0..(size - 1)
  OBVIOUS
<1>3. r = k - size * q
  OBVIOUS
<1> HIDE DEF q, r
<1>4. k = size * q + r
  BY <1>1, <1>2, <1>3
<1> QED
  BY <1>1, <1>2, <1>4 DEF q, r

LEMMA Quotient ==
  ASSUME NEW size \in Nat \ {0}, NEW q \in Nat, NEW r \in 0..(size - 1)
  PROVE  /\ (size * q + r) \div size = q
         /\ (size * q + r) % size = r
  OBVIOUS

LEMMA Multiples ==
  ASSUME NEW size \in Nat \ {0}, NEW j \in Nat, NEW k \in Nat, j < k
  PROVE  size * j + size <= size * k
<1>1. size * (k - j) >= size
  OBVIOUS
<1>2. size * k = size * j + size * (k - j)
  OBVIOUS
<1> QED
  BY <1>1, <1>2

(* Byte i of frame j has place size * (j - 1) + i. *)
LEMMA Place ==
  ASSUME NEW size \in Nat \ {0}, NEW n \in Nat, NEW j \in 1..n, NEW i \in 1..size
  PROVE  /\ size * (j - 1) + i \in 1..(size * n)
         /\ ((size * (j - 1) + i) - 1) \div size = j - 1
         /\ ((size * (j - 1) + i) - 1) % size = i - 1
<1>1. j - 1 \in Nat /\ j - 1 < n /\ i - 1 \in 0..(size - 1)
  OBVIOUS
<1>2. size * (j - 1) \in Nat /\ size * n \in Nat
  BY <1>1
<1>3. size * (j - 1) + size <= size * n
  BY <1>1, Multiples
<1>4. (size * (j - 1) + i) - 1 = size * (j - 1) + (i - 1)
  BY <1>2
<1>5. size * (j - 1) + i \in 1..(size * n)
  <2> DEFINE a == size * (j - 1)
             b == size * n
  <2> HIDE DEF a, b
  <2>1. a \in Nat /\ b \in Nat /\ a + size <= b
    BY <1>2, <1>3 DEF a, b
  <2>2. a + i \in 1..b
    BY <2>1
  <2> QED
    BY <2>2 DEF a, b
<1>6. /\ (size * (j - 1) + (i - 1)) \div size = j - 1
      /\ (size * (j - 1) + (i - 1)) % size = i - 1
  BY <1>1, Quotient
<1> QED
  BY <1>4, <1>5, <1>6

(* The number of whole frames in a buffer. *)
Frames(size, s) == Len(s) \div size

LEMMA FramesFit ==
  ASSUME NEW size \in Nat \ {0}, NEW S, NEW s \in Seq(S)
  PROVE  /\ Frames(size, s) \in Nat
         /\ size * Frames(size, s) \in 0..Len(s)
         /\ Len(s) - size * Frames(size, s) \in 0..(size - 1)
<1>1. Len(s) \in Nat
  BY LenProperties
<1> DEFINE n == Frames(size, s)
           r == Len(s) % size
<1>2. n \in Nat /\ r \in 0..(size - 1) /\ Len(s) = size * n + r
  BY <1>1, Division DEF Frames
<1> HIDE DEF n, r
<1>3. size * n \in Nat
  BY <1>2
<1>4. size * n \in 0..Len(s) /\ Len(s) - size * n \in 0..(size - 1)
  BY <1>1, <1>2, <1>3
<1> QED
  BY <1>2, <1>4 DEF n

(* d is the buffer s cut into frames of size bytes and a shorter tail, in  *)
(* order, with nothing lost.                                               *)
Split(size, S, s, d) ==
    /\ d.messages \in Seq(Seq(S)) /\ Len(d.messages) = Frames(size, s)
    /\ \A j \in 1..Frames(size, s) :
          /\ Len(d.messages[j]) = size
          /\ \A i \in 1..size : d.messages[j][i] = s[size * (j - 1) + i]
    /\ d.remaining \in Seq(S) /\ Len(d.remaining) = Len(s) - size * Frames(size, s)
    /\ \A i \in 1..(Len(s) - size * Frames(size, s)) :
          d.remaining[i] = s[size * Frames(size, s) + i]

(* decodeFrames splits its buffer. *)
LEMMA Decoded ==
  ASSUME NEW size \in Nat \ {0}, NEW S, NEW s \in Seq(S)
  PROVE  Split(size, S, s, decodeFrames(size, s))
<1> DEFINE n == Frames(size, s)
           frame(j) == SubSeq(s, size * (j - 1) + 1, size * j)
           frames == [j \in 1..n |-> frame(j)]
           tail == SubSeq(s, size * n + 1, Len(s))
<1>1. decodeFrames(size, s).messages = frames /\ decodeFrames(size, s).remaining = tail
  BY DEF decodeFrames, Frames
<1>2. n \in Nat /\ Len(s) \in Nat /\ size * n \in 0..Len(s)
  BY FramesFit, LenProperties
<1>3. ASSUME NEW j \in 1..n
      PROVE  /\ frame(j) \in Seq(S) /\ Len(frame(j)) = size
             /\ \A i \in 1..size : frame(j)[i] = s[size * (j - 1) + i]
  <2> DEFINE a == size * (j - 1)
             b == size * j
  <2>1. a \in Nat /\ b = a + size
    BY <1>2
  <2>2. b <= Len(s)
    <3>1. j - 1 \in Nat /\ n \in Nat /\ j - 1 < n
      BY <1>2
    <3>2. a + size <= size * n
      BY <3>1, Multiples
    <3> HIDE DEF a, b
    <3> QED
      BY <1>2, <2>1, <3>2
  <2> HIDE DEF a, b
  <2>3. \A i \in (a + 1)..b : s[i] \in S
    BY <1>2, <2>1, <2>2, ElementOfSeq
  <2>4. a + 1 \in Int /\ b \in Int /\ a + 1 <= b /\ b - (a + 1) + 1 = size
    BY <2>1
  <2>5. /\ SubSeq(s, a + 1, b) \in Seq(S) /\ Len(SubSeq(s, a + 1, b)) = size
        /\ \A i \in 1..size : SubSeq(s, a + 1, b)[i] = s[(a + 1) + i - 1]
    BY <2>3, <2>4, SubSeqProperties
  <2>6. \A i \in 1..size : (a + 1) + i - 1 = a + i
    BY <2>1
  <2> QED
    BY <2>5, <2>6 DEF a, b
<1>4. frames \in Seq(Seq(S)) /\ Len(frames) = n
  <2>1. frames \in [1..n -> Seq(S)]
    BY <1>3
  <2> HIDE DEF frames
  <2> QED
    BY <1>2, <2>1, SeqDef
<1>5. /\ tail \in Seq(S) /\ Len(tail) = Len(s) - size * n
      /\ \A i \in 1..(Len(s) - size * n) : tail[i] = s[size * n + i]
  <2> DEFINE a == size * n
             L == Len(s)
  <2>1. a \in 0..L /\ L \in Nat
    BY <1>2
  <2> HIDE DEF a, L
  <2>2. \A i \in (a + 1)..L : s[i] \in S
    BY <2>1, ElementOfSeq DEF L
  <2>3. a + 1 \in Int /\ L \in Int /\ L - (a + 1) + 1 = L - a
        /\ (a + 1 <= L => L - (a + 1) + 1 = L - a) /\ (~(a + 1 <= L) => L - a = 0)
    BY <2>1
  <2>4. /\ SubSeq(s, a + 1, L) \in Seq(S) /\ Len(SubSeq(s, a + 1, L)) = L - a
        /\ \A i \in 1..(L - a) : SubSeq(s, a + 1, L)[i] = s[(a + 1) + i - 1]
    BY <2>2, <2>3, SubSeqProperties
  <2>5. \A i \in 1..(L - a) : (a + 1) + i - 1 = a + i
    BY <2>1
  <2> QED
    BY <2>4, <2>5 DEF a, L
<1>6. \A j \in 1..n : frames[j] = frame(j)
  OBVIOUS
<1> DEFINE d == decodeFrames(size, s)
<1>7. /\ d.messages \in Seq(Seq(S)) /\ Len(d.messages) = n
      /\ \A j \in 1..n : /\ Len(d.messages[j]) = size
                         /\ \A i \in 1..size : d.messages[j][i] = s[size * (j - 1) + i]
  <2> HIDE DEF frame, frames, tail, d, n
  <2>1. d.messages = frames
    BY <1>1 DEF d
  <2> QED
    BY <1>3, <1>4, <1>6, <2>1
<1>8. /\ d.remaining \in Seq(S) /\ Len(d.remaining) = Len(s) - size * n
      /\ \A i \in 1..(Len(s) - size * n) : d.remaining[i] = s[size * n + i]
  <2> HIDE DEF frame, frames, tail, d, n
  <2>1. d.remaining = tail
    BY <1>1 DEF d
  <2> QED
    BY <1>5, <2>1
<1> HIDE DEF d
<1>9. Split(size, S, s, d)
  BY <1>7, <1>8 DEF Split
<1> QED
  BY <1>9 DEF d

(* A chunk of k bytes is taken off the front of w and put behind c. *)
Cuts(S, c, w, k) ==
    /\ c \o SubSeq(w, 1, k) \in Seq(S) /\ Len(c \o SubSeq(w, 1, k)) = Len(c) + k
    /\ SubSeq(w, k + 1, Len(w)) \in Seq(S)
    /\ Len(SubSeq(w, k + 1, Len(w))) = Len(w) - k
    /\ \A i \in 1..(Len(c) + k) : (c \o SubSeq(w, 1, k))[i] = (c \o w)[i]
    /\ \A i \in 1..(Len(w) - k) : SubSeq(w, k + 1, Len(w))[i] = (c \o w)[(Len(c) + k) + i]

LEMMA Chunk ==
  ASSUME NEW S, NEW c \in Seq(S), NEW w \in Seq(S), NEW k \in 1..Len(w)
  PROVE  Cuts(S, c, w, k)
<1> DEFINE x == SubSeq(w, 1, k)
           y == SubSeq(w, k + 1, Len(w))
<1>1. Len(c) \in Nat /\ Len(w) \in Nat /\ k \in Nat
  BY LenProperties
<1>2. \A i \in 1..Len(w) : w[i] \in S
  BY ElementOfSeq
<1>3. x \in Seq(S) /\ Len(x) = k /\ \A i \in 1..k : x[i] = w[i]
  <2>1. \A i \in 1..k : w[i] \in S
    BY <1>1, <1>2
  <2>2. 1 \in Int /\ k \in Int /\ 1 <= k /\ (k - 1) + 1 = k
    BY <1>1
  <2>3. x \in Seq(S) /\ Len(x) = k /\ \A i \in 1..k : x[i] = w[(1 + i) - 1]
    BY <2>1, <2>2, SubSeqProperties
  <2>4. \A i \in 1..k : (1 + i) - 1 = i
    BY <1>1
  <2> QED
    BY <2>3, <2>4
<1>4. y \in Seq(S) /\ Len(y) = Len(w) - k /\ \A i \in 1..(Len(w) - k) : y[i] = w[k + i]
  <2> DEFINE n == Len(w)
  <2> HIDE DEF n
  <2>1. \A i \in (k + 1)..n : w[i] \in S
    BY <1>1, <1>2 DEF n
  <2>2. /\ k + 1 \in Int /\ n \in Int /\ k + 1 <= n + 1
        /\ (n - (k + 1)) + 1 = n - k /\ (~(k + 1 <= n) => n - k = 0)
    BY <1>1 DEF n
  <2>3. /\ SubSeq(w, k + 1, n) \in Seq(S) /\ Len(SubSeq(w, k + 1, n)) = n - k
        /\ \A i \in 1..(n - k) : SubSeq(w, k + 1, n)[i] = w[((k + 1) + i) - 1]
    BY <2>1, <2>2, SubSeqProperties
  <2>4. \A i \in 1..(n - k) : ((k + 1) + i) - 1 = k + i
    BY <1>1, <2>2
  <2> QED
    BY <2>3, <2>4 DEF n
<1> HIDE DEF x, y
<1>5. /\ c \o x \in Seq(S) /\ Len(c \o x) = Len(c) + k
      /\ \A i \in 1..(Len(c) + k) : (c \o x)[i] = IF i <= Len(c) THEN c[i] ELSE x[i - Len(c)]
  BY <1>3, ConcatProperties
<1>6. \A i \in 1..(Len(c) + Len(w)) : (c \o w)[i] = IF i <= Len(c) THEN c[i] ELSE w[i - Len(c)]
  BY ConcatProperties
<1>7. ASSUME NEW i \in 1..(Len(c) + k)
      PROVE  (c \o x)[i] = (c \o w)[i]
  <2>1. i \in 1..(Len(c) + Len(w)) /\ (~(i <= Len(c)) => i - Len(c) \in 1..k)
    BY <1>1
  <2> QED
    BY <1>3, <1>5, <1>6, <2>1
<1>8. ASSUME NEW i \in 1..(Len(w) - k)
      PROVE  y[i] = (c \o w)[(Len(c) + k) + i]
  <2>1. /\ (Len(c) + k) + i \in 1..(Len(c) + Len(w)) /\ ~((Len(c) + k) + i <= Len(c))
        /\ ((Len(c) + k) + i) - Len(c) = k + i
    BY <1>1
  <2> QED
    BY <1>4, <1>6, <2>1
<1> QED
  BY <1>4, <1>5, <1>7, <1>8 DEF x, y, Cuts

(* The data callback: what is left of a chunk behind the buffer, and what  *)
(* is still to come, is the stream without the messages decoded.           *)
Continues(size, S, stream, d, y) ==
    /\ Len(d.messages) \in Nat /\ d.remaining \in Seq(S) /\ Len(d.remaining) < size
    /\ DOMAIN d.messages = 1..Len(d.messages)
    /\ y \in Seq(S) /\ d.remaining \o y \in Seq(S)
    /\ Len(stream) = size * Len(d.messages) + Len(d.remaining \o y)
    /\ \A j \in 1..Len(d.messages), i \in 1..size :
          d.messages[j][i] = stream[size * (j - 1) + i]
    /\ \A i \in 1..Len(d.remaining \o y) :
          (d.remaining \o y)[i] = stream[size * Len(d.messages) + i]

LEMMA DecodedChunk ==
  ASSUME NEW size \in Nat \ {0}, NEW S, NEW c \in Seq(S), NEW w \in Seq(S), NEW k \in 1..Len(w),
         NEW d, d = decodeFrames(size, c \o SubSeq(w, 1, k)),
         NEW y, y = SubSeq(w, k + 1, Len(w))
  PROVE  Continues(size, S, c \o w, d, y)
<1> DEFINE b == c \o SubSeq(w, 1, k)
           t == c \o w
           f == d.messages
           r == d.remaining
           n == Len(f)
           u == r \o y
<1>1. /\ b \in Seq(S) /\ Len(b) = Len(c) + k /\ y \in Seq(S) /\ Len(y) = Len(w) - k
      /\ \A i \in 1..(Len(c) + k) : b[i] = t[i]
      /\ \A i \in 1..(Len(w) - k) : y[i] = t[(Len(c) + k) + i]
  <2>1. Cuts(S, c, w, k)
    BY Chunk
  <2> QED
    BY <2>1 DEF Cuts
<1>2. Len(t) = Len(c) + Len(w) /\ Len(c) \in Nat /\ Len(w) \in Nat /\ k \in Nat
  BY ConcatProperties, LenProperties
<1> HIDE DEF b
<1>3. /\ f \in Seq(Seq(S)) /\ n = Frames(size, b)
      /\ \A j \in 1..n, i \in 1..size : f[j][i] = b[size * (j - 1) + i]
      /\ r \in Seq(S) /\ Len(r) = Len(b) - size * n
      /\ \A i \in 1..Len(r) : r[i] = b[size * n + i]
  <2>1. Split(size, S, b, decodeFrames(size, b))
    BY <1>1, Decoded
  <2>2. d = decodeFrames(size, b)
    BY DEF b
  <2> QED
    BY <2>1, <2>2 DEF Split
<1>4. n \in Nat /\ size * n \in 0..Len(b) /\ Len(b) - size * n \in 0..(size - 1)
  <2>1. /\ Frames(size, b) \in Nat /\ size * Frames(size, b) \in 0..Len(b)
        /\ Len(b) - size * Frames(size, b) \in 0..(size - 1)
    BY <1>1, FramesFit
  <2>2. n = Frames(size, b)
    BY <1>3
  <2> QED
    BY <2>1, <2>2
<1> HIDE DEF f, r, t
<1>5. DOMAIN f = 1..n
  BY <1>3, LenProperties
<1>6. /\ u \in Seq(S) /\ Len(u) = Len(r) + Len(y)
      /\ \A i \in 1..(Len(r) + Len(y)) : u[i] = IF i <= Len(r) THEN r[i] ELSE y[i - Len(r)]
  <2>1. r \in Seq(S) /\ y \in Seq(S)
    BY <1>1, <1>3
  <2> QED
    BY <2>1, ConcatProperties
<1> HIDE DEF n, u
<1> DEFINE z == size * n
<1>7. z \in Nat /\ z <= Len(b) /\ Len(r) = Len(b) - z /\ Len(r) \in Nat /\ Len(y) \in Nat
  BY <1>1, <1>2, <1>3, <1>4
<1>8. ASSUME NEW j \in 1..n, NEW i \in 1..size
      PROVE  f[j][i] = t[size * (j - 1) + i]
  <2> DEFINE m == size * (j - 1) + i
  <2>1. m \in 1..z
    BY <1>4, Place
  <2>2. f[j][i] = b[m]
    BY <1>3
  <2> HIDE DEF m, z
  <2>3. m \in 1..(Len(c) + k)
    BY <1>1, <1>2, <1>7, <2>1
  <2> QED
    BY <1>1, <2>2, <2>3 DEF m
<1> HIDE DEF z
<1>9. ASSUME NEW i \in 1..Len(u)
      PROVE  u[i] = t[z + i]
  <2>1. CASE i <= Len(r)
    <3>1. z + i \in 1..(Len(c) + k) /\ i \in 1..Len(r)
      BY <1>1, <1>2, <1>7, <2>1
    <3>2. u[i] = r[i]
      BY <1>6, <2>1
    <3>3. r[i] = b[z + i]
      BY <1>3, <3>1 DEF z
    <3> QED
      BY <1>1, <3>1, <3>2, <3>3
  <2>2. CASE ~(i <= Len(r))
    <3>1. /\ z + Len(r) = Len(c) + k /\ z \in Nat /\ Len(r) \in Nat
          /\ Len(u) = Len(r) + (Len(w) - k) /\ Len(c) \in Nat /\ Len(w) \in Nat /\ k \in Nat
      BY <1>1, <1>2, <1>6, <1>7
    <3>2. i - Len(r) \in 1..(Len(w) - k) /\ (Len(c) + k) + (i - Len(r)) = z + i
      <4> DEFINE a == Len(r)
                 l == Len(c) + k
                 e == Len(w) - k
      <4>1. /\ i \in Int /\ i > a /\ i <= a + e /\ a \in Nat /\ e \in Int
            /\ z + a = l /\ z \in Nat /\ l \in Nat
        BY <2>2, <3>1
      <4> HIDE DEF a, l, e
      <4>2. i - a \in 1..e /\ l + (i - a) = z + i
        BY <4>1
      <4> QED
        BY <4>2 DEF a, l, e
    <3>3. i \in 1..(Len(r) + Len(y))
      BY <1>6
    <3> QED
      BY <1>1, <1>6, <2>2, <3>2, <3>3
  <2> QED
    BY <2>1, <2>2
<1>10. Len(t) = z + Len(u) /\ Len(r) < size
  <2>1. Len(b) - z \in 0..(size - 1)
    BY <1>4 DEF z
  <2>2. /\ Len(b) = Len(c) + k /\ Len(y) = Len(w) - k /\ Len(t) = Len(c) + Len(w)
        /\ Len(u) = Len(r) + Len(y) /\ Len(r) = Len(b) - z /\ z \in Nat
        /\ Len(c) \in Nat /\ Len(w) \in Nat /\ k \in Nat
    BY <1>1, <1>2, <1>6, <1>7
  <2>3. Len(r) < size
    BY <2>1, <2>2
  <2> QED
    BY <2>2, <2>3
<1> QED
  BY <1>1, <1>3, <1>4, <1>5, <1>6, <1>8, <1>9, <1>10 DEF Continues, f, r, n, u, t, z

(* What is behind whole messages keeps its place in a message. *)
LEMMA SamePlace ==
  ASSUME NEW size \in Nat \ {0}, NEW n \in Nat, NEW i \in Nat \ {0}
  PROVE  ((size * n + i) - 1) % size = (i - 1) % size
<1> DEFINE q == (i - 1) \div size
           r == (i - 1) % size
<1>0. i - 1 \in Nat
  OBVIOUS
<1>1. q \in Nat /\ r \in 0..(size - 1) /\ i - 1 = size * q + r
  BY <1>0, Division
<1> HIDE DEF q, r
<1>2. (size * n + i) - 1 = size * n + (size * q + r)
  BY <1>1
<1>3. size * n + (size * q + r) = size * (n + q) + r
  BY <1>1
<1>4. n + q \in Nat
  BY <1>1
<1>5. (size * (n + q) + r) % size = r
  BY <1>1, <1>4, Quotient
<1> QED
  BY <1>2, <1>3, <1>5 DEF r
=============================================================================
