-------------------------- MODULE WebBridgeProofs --------------------------
(***************************************************************************)
(* Proofs about WebBridge, for any pages, payloads, sockets, message size  *)
(* and buffer sizes.                                                       *)
(***************************************************************************)
EXTENDS WebBridge, ProtocolProofs, FiniteSetTheorems

Message == {commandMessage(c) : c \in {d \in Payload : Supported(d)}}

Request == [for : Owner, msg : Message]

LinkTypes ==
    /\ srvUp \in BOOLEAN /\ reconnectTimer \in BOOLEAN
    /\ sock \in [Socket -> {"none", "connecting", "open", "dying"}]
    /\ peer \in [Socket -> {"none", "serving", "gone", "silent"}]
    /\ tcp \in Socket \cup {NoSocket}
    /\ toServer \in [Socket -> Seq(Request)]
    /\ toBridge \in [Socket -> Seq(Bytes)]
    /\ tcpBuffer \in Seq(Bytes) /\ Len(tcpBuffer) < FrameSize

(* A page is in wsClients until its session is known to be over, and has a *)
(* status exactly while it listens.                                        *)
PageTypes ==
    /\ ws \in [Page -> {"none", "connecting", "open", "broken"}]
    /\ wsClients = {p \in Page : ws[p] \in {"open", "broken"}}
    /\ status \in [Page -> {"nothing", "up", "down"}]
    /\ \A p \in Page : status[p] = "nothing" <=> ws[p] # "open"

(* Nothing is on its way on a socket that is not connected. *)
FreshSockets ==
    \A s \in Socket : sock[s] \in {"none", "connecting"} =>
        peer[s] = "none" /\ toServer[s] = <<>> /\ toBridge[s] = <<>>

FreshBuffer == tcp = NoSocket \/ sock[tcp] = "connecting" => tcpBuffer = <<>>

(* As long as the server serves the connection, it has sent whole messages. *)
WholeWhileServing ==
    \A s \in Socket : peer[s] = "serving" =>
        \E n \in Nat : Len(tcpBuffer \o toBridge[s]) = FrameSize * n

(* The positions at which a sequence has a member of E. *)
Marks(E, seq) == {i \in DOMAIN seq : seq[i] \in E}

(* The last byte of a message tells whom it answers. *)
Last(p) == {Byte(p, FrameSize)}

RequestsOf(p) == {r \in Request : r.for = p}

Asked(p) == Cardinality(Marks(RequestsOf(p), toServer[tcp]))

Due(p) == Cardinality(Marks(Last(p), tcpBuffer \o toBridge[tcp]))

Coming(p) == IF ws[p] = "open" THEN Len(clicks[p]) ELSE 0

(* Every click that the bridge has yet to see, request that the server has *)
(* yet to answer and answer that the bridge has yet to pass on is one the  *)
(* page still waits for.                                                   *)
ClicksCounted ==
    /\ clicks \in [Page -> Seq(Payload)] /\ unanswered \in [Page -> 0..MaxClicks]
    /\ \A p \in Page :
          /\ Len(clicks[p]) <= MaxClicks
          /\ ws[p] \in {"none", "connecting"} => clicks[p] = <<>>
          /\ ws[p] # "open" => unanswered[p] = 0
          /\ Coming(p) <= unanswered[p]
          /\ tcp # NoSocket => Coming(p) + (Asked(p) + Due(p)) <= unanswered[p]

Shape == LinkTypes /\ PageTypes /\ OneConnection /\ FreshSockets /\ FreshBuffer

Stream == NoMixedFrames /\ WholeWhileServing

IInv == Shape /\ Stream /\ ClicksCounted
-----------------------------------------------------------------------------
(* Counting marks. *)

LEMMA MarksFinite ==
  ASSUME NEW E, NEW T, NEW s \in Seq(T)
  PROVE  IsFiniteSet(Marks(E, s)) /\ Cardinality(Marks(E, s)) \in Nat
<1>1. DOMAIN s = 1..Len(s) /\ Len(s) \in Nat
  BY LenProperties
<1>2. IsFiniteSet(DOMAIN s)
  BY <1>1, FS_Interval
<1>3. IsFiniteSet(Marks(E, s))
  BY <1>2, FS_Subset DEF Marks
<1> QED
  BY <1>3, FS_CardinalityType

LEMMA Shifted ==
  ASSUME NEW n \in Int, NEW A \in SUBSET Int, IsFiniteSet(A)
  PROVE  /\ IsFiniteSet({i + n : i \in A})
         /\ Cardinality({i + n : i \in A}) = Cardinality(A)
<1> DEFINE B == {i + n : i \in A}
           f == [i \in A |-> i + n]
<1>1. f \in [A -> B] /\ \A i, j \in A : f[i] = f[j] => i = j
  OBVIOUS
<1>2. \A j \in B : \E i \in A : f[i] = j
  OBVIOUS
<1>3. f \in Bijection(A, B)
  <2> HIDE DEF f, B
  <2> QED
    BY <1>1, <1>2 DEF Bijection, Injection, Surjection, IsInjective
<1>4. ExistsBijection(A, B)
  BY <1>3 DEF ExistsBijection
<1> HIDE DEF B
<1>5. IsFiniteSet(B) /\ Cardinality(B) = Cardinality(A)
  BY <1>4, FS_Bijection
<1> QED
  BY <1>5 DEF B

LEMMA MarksConcat ==
  ASSUME NEW E, NEW T, NEW s \in Seq(T), NEW t \in Seq(T)
  PROVE  Cardinality(Marks(E, s \o t)) = Cardinality(Marks(E, s)) + Cardinality(Marks(E, t))
<1> DEFINE n == Len(s)
           m == Len(t)
           A == Marks(E, s)
           B == Marks(E, t)
           C == {i + n : i \in B}
<1>1. /\ n \in Nat /\ m \in Nat /\ DOMAIN s = 1..n /\ DOMAIN t = 1..m
      /\ s \o t \in Seq(T) /\ Len(s \o t) = n + m
      /\ \A i \in 1..(n + m) : (s \o t)[i] = IF i <= n THEN s[i] ELSE t[i - n]
  BY ConcatProperties, LenProperties
<1>2. DOMAIN (s \o t) = 1..(n + m)
  BY <1>1, LenProperties
<1>3. A \subseteq 1..n /\ B \subseteq 1..m /\ B \in SUBSET Int
  BY <1>1 DEF Marks
<1> HIDE DEF n, m
<1>4. Marks(E, s \o t) = A \cup C
  <2>1. ASSUME NEW i \in Marks(E, s \o t)
        PROVE  i \in A \cup C
    <3>1. i \in 1..(n + m) /\ (s \o t)[i] \in E
      BY <1>2 DEF Marks
    <3>2. CASE i <= n
      BY <1>1, <3>1, <3>2 DEF Marks
    <3>3. CASE ~(i <= n)
      <4>1. i - n \in 1..m /\ (i - n) + n = i /\ t[i - n] \in E
        BY <1>1, <3>1, <3>3
      <4> QED
        BY <1>1, <4>1 DEF Marks
    <3> QED
      BY <3>2, <3>3
  <2>2. ASSUME NEW i \in A
        PROVE  i \in Marks(E, s \o t)
    BY <1>1, <1>2 DEF Marks
  <2>3. ASSUME NEW j \in B
        PROVE  j + n \in Marks(E, s \o t)
    <3>1. j \in 1..m /\ t[j] \in E
      BY <1>1 DEF Marks
    <3>2. j + n \in 1..(n + m) /\ ~(j + n <= n) /\ (j + n) - n = j
      BY <1>1, <3>1
    <3> QED
      BY <1>1, <1>2, <3>1, <3>2 DEF Marks
  <2> QED
    BY <2>1, <2>2, <2>3
<1>5. A \cap C = {}
  BY <1>1, <1>3
<1>6. /\ IsFiniteSet(A) /\ IsFiniteSet(B)
      /\ Cardinality(A) \in Nat /\ Cardinality(B) \in Nat
  BY MarksFinite
<1> HIDE DEF A, B
<1>7. IsFiniteSet(C) /\ Cardinality(C) = Cardinality(B)
  <2>1. n \in Int /\ B \in SUBSET Int /\ IsFiniteSet(B)
    BY <1>1, <1>3, <1>6
  <2> QED
    BY <2>1, Shifted, Zenon
<1> HIDE DEF C
<1>8. Cardinality(A \cup C) = Cardinality(A) + Cardinality(C)
  <2>1. Cardinality(A \cup C) = Cardinality(A) + Cardinality(C) - Cardinality(A \cap C)
    BY <1>6, <1>7, FS_Union
  <2>2. Cardinality(A \cap C) = 0
    BY <1>5, FS_EmptySet
  <2> QED
    BY <1>6, <1>7, <2>1, <2>2
<1> QED
  BY <1>4, <1>7, <1>8 DEF A, B

LEMMA NoMarks ==
  \A E : Cardinality(Marks(E, <<>>)) = 0
<1>1. \A E : Marks(E, <<>>) = {}
  BY DEF Marks
<1> QED
  BY <1>1, FS_EmptySet

LEMMA MarkOne ==
  ASSUME NEW E, NEW e
  PROVE  Cardinality(Marks(E, <<e>>)) = IF e \in E THEN 1 ELSE 0
<1>1. DOMAIN <<e>> = {1} /\ <<e>>[1] = e
  OBVIOUS
<1>2. CASE e \in E
  <2>1. Marks(E, <<e>>) = {1}
    BY <1>1, <1>2 DEF Marks
  <2> QED
    BY <1>2, <2>1, FS_Singleton
<1>3. CASE e \notin E
  <2>1. Marks(E, <<e>>) = {}
    BY <1>1, <1>3 DEF Marks
  <2> QED
    BY <1>3, <2>1, FS_EmptySet
<1> QED
  BY <1>2, <1>3

LEMMA MarksAppended ==
  ASSUME NEW E, NEW T, NEW s \in Seq(T), NEW e \in T
  PROVE  Cardinality(Marks(E, Append(s, e)))
           = Cardinality(Marks(E, s)) + (IF e \in E THEN 1 ELSE 0)
<1>1. Append(s, e) = s \o <<e>> /\ <<e>> \in Seq(T)
  BY AppendIsConcat
<1>2. Cardinality(Marks(E, s \o <<e>>))
        = Cardinality(Marks(E, s)) + Cardinality(Marks(E, <<e>>))
  BY <1>1, MarksConcat
<1> QED
  BY <1>1, <1>2, MarkOne

LEMMA MarksTaken ==
  ASSUME NEW E, NEW T, NEW s \in Seq(T), s # <<>>
  PROVE  Cardinality(Marks(E, s))
           = Cardinality(Marks(E, Tail(s))) + (IF Head(s) \in E THEN 1 ELSE 0)
<1> DEFINE h == Head(s)
           t == Tail(s)
<1>1. /\ h \in T /\ t \in Seq(T) /\ Len(t) = Len(s) - 1 /\ Len(s) \in Nat \ {0} /\ h = s[1]
      /\ \A i \in 1..Len(t) : t[i] = s[i + 1]
  BY HeadTailProperties, EmptySeq
<1> HIDE DEF h, t
<1>2. /\ <<h>> \in Seq(T) /\ Len(<<h>>) = 1 /\ <<h>>[1] = h
  BY <1>1
<1>3. /\ <<h>> \o t \in Seq(T) /\ Len(<<h>> \o t) = 1 + Len(t)
      /\ \A i \in 1..(1 + Len(t)) : (<<h>> \o t)[i] = IF i <= 1 THEN <<h>>[i] ELSE t[i - 1]
  BY <1>1, <1>2, ConcatProperties
<1>4. s = <<h>> \o t
  <2>1. Len(s) = Len(<<h>> \o t) /\ Len(t) \in Nat
    BY <1>1, <1>3
  <2>2. ASSUME NEW i \in 1..Len(s)
        PROVE  s[i] = (<<h>> \o t)[i]
    <3>1. i \in 1..(1 + Len(t)) /\ (i <= 1 => i = 1) /\ (~(i <= 1) => i - 1 \in 1..Len(t) /\ (i - 1) + 1 = i)
      BY <1>1
    <3> QED
      BY <1>1, <1>2, <1>3, <3>1
  <2> QED
    BY <1>3, <2>1, <2>2, SeqEqual
<1>5. Cardinality(Marks(E, <<h>> \o t)) = Cardinality(Marks(E, <<h>>)) + Cardinality(Marks(E, t))
  BY <1>1, <1>2, MarksConcat
<1>6. Cardinality(Marks(E, t)) \in Nat
  BY <1>1, MarksFinite
<1>7. Cardinality(Marks(E, <<h>>)) = IF h \in E THEN 1 ELSE 0
  BY MarkOne
<1>8. Cardinality(Marks(E, s)) = Cardinality(Marks(E, <<h>>)) + Cardinality(Marks(E, t))
  BY <1>4, <1>5, Zenon
<1> DEFINE a == Cardinality(Marks(E, t))
           b == Cardinality(Marks(E, <<h>>))
<1>9. a \in Nat /\ b = (IF h \in E THEN 1 ELSE 0) /\ Cardinality(Marks(E, s)) = b + a
  BY <1>6, <1>7, <1>8
<1> HIDE DEF a, b
<1>10. Cardinality(Marks(E, s)) = a + (IF h \in E THEN 1 ELSE 0)
  BY <1>9
<1> QED
  BY <1>10 DEF a, h, t

LEMMA MarksPrefix ==
  ASSUME NEW E, NEW T, NEW s \in Seq(T), NEW k \in 0..Len(s)
  PROVE  /\ SubSeq(s, 1, k) \in Seq(T) /\ Len(SubSeq(s, 1, k)) = k
         /\ \A i \in 1..k : SubSeq(s, 1, k)[i] = s[i]
         /\ Cardinality(Marks(E, SubSeq(s, 1, k))) \in 0..Cardinality(Marks(E, s))
<1> DEFINE t == SubSeq(s, 1, k)
<1>1. Len(s) \in Nat /\ DOMAIN s = 1..Len(s) /\ k \in Int
  BY LenProperties
<1>2. t \in Seq(T) /\ Len(t) = k /\ \A i \in 1..k : t[i] = s[i]
  <2>1. \A i \in 1..k : s[i] \in T
    BY <1>1, ElementOfSeq
  <2>2. 1 \in Int /\ k \in Int /\ (k - 1) + 1 = k /\ (~(1 <= k) => k = 0)
    BY <1>1
  <2>3. /\ t \in Seq(T) /\ Len(t) = k /\ \A i \in 1..k : t[i] = s[(1 + i) - 1]
    BY <2>1, <2>2, SubSeqProperties
  <2>4. \A i \in 1..k : (1 + i) - 1 = i
    BY <1>1
  <2> QED
    BY <2>3, <2>4
<1> HIDE DEF t
<1>3. DOMAIN t = 1..k
  BY <1>2, LenProperties
<1>4. Marks(E, t) \in SUBSET Marks(E, s)
  BY <1>1, <1>2, <1>3 DEF Marks
<1>5. /\ IsFiniteSet(Marks(E, s)) /\ Cardinality(Marks(E, s)) \in Nat
      /\ Cardinality(Marks(E, t)) \in Nat
  BY <1>2, MarksFinite
<1>6. Cardinality(Marks(E, t)) <= Cardinality(Marks(E, s))
  BY <1>4, <1>5, FS_Subset
<1> QED
  BY <1>2, <1>5, <1>6 DEF t
-----------------------------------------------------------------------------
(* Messages. *)

LEMMA SupportedUnderstood ==
  ASSUME NEW c, Supported(c)
  PROVE  Understood(commandMessage(c))
<1>1. CASE c.cmd = "segment"
  <2>1. c.value \in 1..9 /\ commandMessage(c) = Msg("CMD", "SEGMENT", "SET_NUMBER", c.value)
    BY <1>1 DEF Supported, commandMessage
  <2> QED
    BY <2>1 DEF Understood, Msg
<1>2. CASE c.cmd # "segment"
  <2> DEFINE d == c.cmd
  <2>1. d \in DOMAIN FIXED_COMMANDS /\ commandMessage(c) = FIXED_COMMANDS[d]
    BY <1>2 DEF Supported, commandMessage
  <2> HIDE DEF d
  <2>2. ASSUME NEW e \in DOMAIN FIXED_COMMANDS
        PROVE  Understood(FIXED_COMMANDS[e])
    BY DEF FIXED_COMMANDS, Understood, Msg
  <2> QED
    BY <2>1, <2>2
<1> QED
  BY <1>1, <1>2

LEMMA MessageUnderstood == \A m \in Message : Understood(m)
  BY SupportedUnderstood DEF Message

LEMMA ByteEqual ==
  ASSUME NEW p, NEW q, NEW i, NEW j
  PROVE  Byte(p, i) = Byte(q, j) <=> p = q /\ i = j
<1>1. Byte(p, i).for = p /\ Byte(p, i).part = i /\ Byte(q, j).for = q /\ Byte(q, j).part = j
  BY DEF Byte
<1> QED
  BY <1>1

LEMMA FrameProperties ==
  ASSUME NEW q \in Owner
  PROVE  /\ Frame(q) \in Seq(Bytes) /\ Len(Frame(q)) = FrameSize
         /\ \A i \in 1..FrameSize : Frame(q)[i] = Byte(q, i)
         /\ \A p : Cardinality(Marks(Last(p), Frame(q))) = IF p = q THEN 1 ELSE 0
<1>1. FrameSize \in Nat \ {0}
  BY BridgeAssumption
<1>2. \A i \in 1..FrameSize : Byte(q, i) \in Bytes
  BY DEF Byte, Bytes
<1>3. Frame(q) \in [1..FrameSize -> Bytes] /\ \A i \in 1..FrameSize : Frame(q)[i] = Byte(q, i)
  BY <1>2 DEF Frame
<1>4. Frame(q) \in Seq(Bytes) /\ Len(Frame(q)) = FrameSize /\ DOMAIN Frame(q) = 1..FrameSize
  <2> DEFINE f == Frame(q)
             B == Bytes
  <2>1. f \in [1..FrameSize -> B]
    BY <1>3
  <2> HIDE DEF f, B
  <2>2. f \in Seq(B) /\ Len(f) = FrameSize
    BY <1>1, <2>1, SeqDef
  <2> QED
    BY <2>1, <2>2 DEF f, B
<1>5. ASSUME NEW p
      PROVE  Cardinality(Marks(Last(p), Frame(q))) = IF p = q THEN 1 ELSE 0
  <2>1. CASE p = q
    <3>1. Marks(Last(p), Frame(q)) = {FrameSize}
      BY <1>1, <1>3, <1>4, <2>1, ByteEqual DEF Marks, Last
    <3> QED
      BY <2>1, <3>1, FS_Singleton
  <2>2. CASE p # q
    <3>1. Marks(Last(p), Frame(q)) = {}
      BY <1>3, <1>4, <2>2, ByteEqual DEF Marks, Last
    <3> QED
      BY <2>2, <3>1, FS_EmptySet
  <2> QED
    BY <2>1, <2>2
<1> QED
  BY <1>3, <1>4, <1>5

(* Break: nothing is for p any more, and all else is as it was. *)
Disownable(T) ==
    \A e \in T : [e EXCEPT !.for = Nobody] \in T /\ [e EXCEPT !.for = Nobody].for = Nobody

LEMMA Disowned ==
  ASSUME NEW T, Disownable(T), NEW p \in Page, NEW s \in Seq(T)
  PROVE  /\ Disown(p, s) \in Seq(T) /\ Len(Disown(p, s)) = Len(s)
         /\ \A i \in 1..Len(s) :
               Disown(p, s)[i] = IF s[i].for = p THEN [s[i] EXCEPT !.for = Nobody] ELSE s[i]
<1> DEFINE t == Disown(p, s)
           n == Len(s)
<1>1. n \in Nat /\ DOMAIN s = 1..n /\ \A i \in 1..n : s[i] \in T
  BY LenProperties, ElementOfSeq
<1> HIDE DEF n
<1>2. t = [i \in 1..n |-> IF s[i].for = p THEN [s[i] EXCEPT !.for = Nobody] ELSE s[i]]
  BY <1>1 DEF Disown
<1> HIDE DEF t
<1>3. \A i \in 1..n : t[i] = IF s[i].for = p THEN [s[i] EXCEPT !.for = Nobody] ELSE s[i]
  BY <1>1, <1>2
<1>4. t \in Seq(T) /\ Len(t) = n
  <2>1. t \in [1..n -> T]
    BY <1>1, <1>2 DEF Disownable
  <2> QED
    BY <1>1, <2>1, SeqDef
<1> QED
  BY <1>3, <1>4 DEF t, n

LEMMA DisownedMarks ==
  ASSUME NEW T, Disownable(T), NEW p \in Page, NEW s \in Seq(T),
         NEW q \in Page, NEW E, \A e \in E : e.for = q
  PROVE  Cardinality(Marks(E, Disown(p, s))) = IF q = p THEN 0 ELSE Cardinality(Marks(E, s))
<1> DEFINE t == Disown(p, s)
           n == Len(s)
<1>1. n \in Nat /\ DOMAIN s = 1..n /\ \A i \in 1..n : s[i] \in T
  BY LenProperties, ElementOfSeq
<1>2. /\ t \in Seq(T) /\ Len(t) = n
      /\ \A i \in 1..n : t[i] = IF s[i].for = p THEN [s[i] EXCEPT !.for = Nobody] ELSE s[i]
  BY Disowned
<1> HIDE DEF n, t
<1>3. DOMAIN t = 1..n
  BY <1>2, LenProperties
<1>4. Nobody # q /\ Nobody # p
  BY BridgeAssumption
<1>5. \A i \in 1..n : IF s[i].for = p THEN t[i].for = Nobody ELSE t[i] = s[i]
  BY <1>1, <1>2, ZenonT(30) DEF Disownable
<1>6. CASE q = p
  <2>1. Marks(E, t) = {}
    BY <1>3, <1>4, <1>5, <1>6 DEF Marks
  <2> QED
    BY <1>6, <2>1, FS_EmptySet DEF t
<1>7. CASE q # p
  <2>1. Marks(E, t) = Marks(E, s)
    BY <1>1, <1>3, <1>4, <1>5, <1>7 DEF Marks
  <2> QED
    BY <1>7, <2>1, Zenon DEF t
<1> QED
  BY <1>6, <1>7
-----------------------------------------------------------------------------
(* The data callback. *)

(* Each byte has the place in its message that its position says. *)
InPlace(s) == \A i \in 1..Len(s) : s[i].part = ((i - 1) % FrameSize) + 1

(* The messages decoded account for as many marks as the stream loses. *)
LEMMA MarksDecoded ==
  ASSUME NEW t \in Seq(Bytes), NEW u \in Seq(Bytes), NEW f, NEW n \in Nat,
         DOMAIN f = 1..n, Len(t) = FrameSize * n + Len(u), InPlace(t),
         \A j \in 1..n, i \in 1..FrameSize : f[j][i] = t[FrameSize * (j - 1) + i],
         \A i \in 1..Len(u) : u[i] = t[FrameSize * n + i],
         NEW p
  PROVE  /\ Cardinality(Answers(p, f)) \in Nat
         /\ Cardinality(Answers(p, f)) + Cardinality(Marks(Last(p), u))
              <= Cardinality(Marks(Last(p), t))
<1> DEFINE z == FrameSize * n
           v == SubSeq(t, 1, z)
           A == Answers(p, f)
           B == Marks(Last(p), v)
           g == [j \in A |-> FrameSize * j]
<1>1. FrameSize \in Nat \ {0} /\ z \in Nat /\ Len(t) \in Nat /\ Len(u) \in Nat
  BY BridgeAssumption, LenProperties
<1>2. z \in 0..Len(t)
  BY <1>1
<1>3. v \in Seq(Bytes) /\ Len(v) = z /\ \A i \in 1..z : v[i] = t[i]
  <2> HIDE DEF z
  <2> QED
    BY <1>2, MarksPrefix
<1>4. DOMAIN v = 1..z
  <2> HIDE DEF v, z
  <2> QED
    BY <1>3, LenProperties
<1>5. t = v \o u
  <2> HIDE DEF v, z
  <2>1. /\ v \o u \in Seq(Bytes) /\ Len(v \o u) = Len(v) + Len(u)
        /\ \A i \in 1..(Len(v) + Len(u)) : (v \o u)[i] = IF i <= Len(v) THEN v[i] ELSE u[i - Len(v)]
    BY <1>3, ConcatProperties
  <2>2. Len(t) = Len(v \o u) /\ Len(t) = z + Len(u)
    BY <1>3, <2>1 DEF z
  <2>3. ASSUME NEW i \in 1..Len(t)
        PROVE  t[i] = (v \o u)[i]
    <3>1. CASE i <= z
      <4>1. i \in 1..z /\ i \in 1..(Len(v) + Len(u))
        BY <1>1, <1>3, <2>2, <3>1
      <4> QED
        BY <1>3, <2>1, <3>1, <4>1
    <3>2. CASE ~(i <= z)
      <4>1. i \in 1..(Len(v) + Len(u)) /\ i - z \in 1..Len(u) /\ z + (i - z) = i
        BY <1>1, <1>3, <2>2, <3>2
      <4>2. u[i - z] = t[z + (i - z)]
        BY <4>1 DEF z
      <4> QED
        BY <1>3, <2>1, <3>2, <4>1, <4>2
    <3> QED
      BY <3>1, <3>2
  <2> QED
    BY <2>1, <2>2, <2>3, SeqEqual
<1>6. ASSUME NEW j \in A
      PROVE  /\ j \in Nat /\ FrameSize * j \in B
  <2>1. j \in 1..n /\ f[j][FrameSize].for = p
    BY DEF Answers
  <2>2. FrameSize \in 1..FrameSize
    BY <1>1
  <2> DEFINE m == FrameSize * (j - 1) + FrameSize
  <2>3. /\ m \in 1..z /\ (m - 1) % FrameSize = FrameSize - 1
    <3>1. /\ FrameSize * (j - 1) + FrameSize \in 1..(FrameSize * n)
          /\ ((FrameSize * (j - 1) + FrameSize) - 1) \div FrameSize = j - 1
          /\ ((FrameSize * (j - 1) + FrameSize) - 1) % FrameSize = FrameSize - 1
      <4>1. \A i \in 1..FrameSize :
               /\ FrameSize * (j - 1) + i \in 1..(FrameSize * n)
               /\ ((FrameSize * (j - 1) + i) - 1) \div FrameSize = j - 1
               /\ ((FrameSize * (j - 1) + i) - 1) % FrameSize = i - 1
        BY <1>1, <2>1, Place, ZenonT(30)
      <4> QED
        BY <2>2, <4>1, Zenon
    <3> QED
      BY <3>1
  <2>4. f[j][FrameSize] = t[m]
    BY <2>1, <2>2
  <2>5. m = FrameSize * j
    BY <1>1, <2>1
  <2> HIDE DEF m, z
  <2>6. m \in 1..Len(t)
    BY <1>2, <2>3
  <2>7. t[m].part = FrameSize
    <3>1. t[m].part = ((m - 1) % FrameSize) + 1
      BY <2>6 DEF InPlace
    <3>2. (FrameSize - 1) + 1 = FrameSize
      BY <1>1
    <3> QED
      BY <2>3, <3>1, <3>2
  <2>8. t[m] \in Bytes
    BY <2>6, ElementOfSeq
  <2>9. t[m] = Byte(p, FrameSize)
    BY <2>1, <2>4, <2>7, <2>8 DEF Byte, Bytes
  <2>10. v[m] \in Last(p)
    BY <1>3, <2>3, <2>9 DEF Last
  <2>11. m \in B
    <3> HIDE DEF v
    <3> QED
      BY <1>4, <2>3, <2>10 DEF Marks
  <2> QED
    BY <2>1, <2>5, <2>11
<1>7. IsFiniteSet(B) /\ Cardinality(B) \in Nat
  <2> HIDE DEF v
  <2> QED
    BY <1>3, MarksFinite
<1>8. g \in Injection(A, B)
  <2>1. \A j \in A : j \in Nat /\ FrameSize * j \in B
    BY <1>6
  <2> HIDE DEF A, B
  <2>2. \A i, j \in A : FrameSize * i = FrameSize * j => i = j
    <3>1. \A i, j \in Nat : FrameSize * i = FrameSize * j => i = j
      <4>1. ASSUME NEW i \in Nat, NEW j \in Nat, i < j
            PROVE  FrameSize * i # FrameSize * j
        <5>1. FrameSize * i + FrameSize <= FrameSize * j
          BY <1>1, <4>1, Multiples
        <5>2. FrameSize * i \in Nat /\ FrameSize * j \in Nat
          BY <1>1
        <5> DEFINE a == FrameSize * i
                   b == FrameSize * j
        <5> HIDE DEF a, b
        <5>3. a + FrameSize <= b /\ a \in Nat /\ b \in Nat
          BY <5>1, <5>2 DEF a, b
        <5>4. a # b
          BY <1>1, <5>3
        <5> QED
          BY <5>4 DEF a, b
      <4>2. \A i, j \in Nat : i < j \/ j < i \/ i = j
        OBVIOUS
      <4> QED
        BY <4>1, <4>2
    <3> QED
      BY <2>1, <3>1
  <2>3. g \in [A -> B] /\ \A i, j \in A : g[i] = g[j] => i = j
    BY <2>1, <2>2
  <2> HIDE DEF g
  <2> QED
    BY <2>3 DEF Injection, IsInjective
<1>9. IsFiniteSet(A) /\ Cardinality(A) <= Cardinality(B)
  <2> HIDE DEF A, B, g
  <2> QED
    BY <1>7, <1>8, FS_Injection
<1>10. Cardinality(A) \in Nat
  BY <1>9, FS_CardinalityType
<1>11. Cardinality(Marks(Last(p), t)) = Cardinality(B) + Cardinality(Marks(Last(p), u))
  <2> HIDE DEF v
  <2>1. Cardinality(Marks(Last(p), v \o u)) = Cardinality(B) + Cardinality(Marks(Last(p), u))
    BY <1>3, MarksConcat
  <2> QED
    BY <1>5, <2>1, Zenon
<1>12. Cardinality(Marks(Last(p), u)) \in Nat
  BY MarksFinite
<1> DEFINE a == Cardinality(A)
           b == Cardinality(B)
           e == Cardinality(Marks(Last(p), u))
<1> HIDE DEF a, b, e
<1>13. /\ a \in Nat /\ b \in Nat /\ e \in Nat /\ a <= b
       /\ Cardinality(Marks(Last(p), t)) = b + e
  BY <1>7, <1>9, <1>10, <1>11, <1>12 DEF a, b, e
<1>14. a \in Nat /\ a + e <= Cardinality(Marks(Last(p), t))
  BY <1>13
<1> QED
  BY <1>14 DEF a, e

(* What the data callback leaves, of the stream t: the rest of its buffer, *)
(* and the bytes y still to come.                                          *)
Handles(t, d, y) ==
    /\ d.remaining \in Seq(Bytes) /\ Len(d.remaining) < FrameSize /\ y \in Seq(Bytes)
    /\ InPlace(d.remaining \o y)
    /\ \A n \in Nat : Len(t) = FrameSize * n =>
          \E m \in Nat : Len(d.remaining \o y) = FrameSize * m
    /\ \A p : /\ Cardinality(Answers(p, d.messages)) \in Nat
              /\ Cardinality(Answers(p, d.messages)) + Cardinality(Marks(Last(p), d.remaining \o y))
                   <= Cardinality(Marks(Last(p), t))

LEMMA DataCallback ==
  ASSUME NEW c \in Seq(Bytes), NEW w \in Seq(Bytes), NEW k \in 1..Len(w), InPlace(c \o w),
         NEW d, d = decodeFrames(FrameSize, c \o SubSeq(w, 1, k)),
         NEW y, y = SubSeq(w, k + 1, Len(w))
  PROVE  Handles(c \o w, d, y)
<1> DEFINE t == c \o w
           u == d.remaining \o y
           f == d.messages
           n == Len(f)
<1>1. FrameSize \in Nat \ {0} /\ t \in Seq(Bytes) /\ Len(t) \in Nat
  BY BridgeAssumption, ConcatProperties, LenProperties
<1>2. /\ Len(d.messages) \in Nat /\ d.remaining \in Seq(Bytes) /\ Len(d.remaining) < FrameSize
      /\ DOMAIN d.messages = 1..Len(d.messages)
      /\ y \in Seq(Bytes) /\ d.remaining \o y \in Seq(Bytes)
      /\ Len(c \o w) = FrameSize * Len(d.messages) + Len(d.remaining \o y)
      /\ \A j \in 1..Len(d.messages), i \in 1..FrameSize :
            d.messages[j][i] = (c \o w)[FrameSize * (j - 1) + i]
      /\ \A i \in 1..Len(d.remaining \o y) :
            (d.remaining \o y)[i] = (c \o w)[FrameSize * Len(d.messages) + i]
  <2>1. Continues(FrameSize, Bytes, c \o w, d, y)
    <3> DEFINE B == Bytes
    <3>1. c \in Seq(B) /\ w \in Seq(B) /\ FrameSize \in Nat \ {0} /\ k \in 1..Len(w)
      BY <1>1
    <3> HIDE DEF B
    <3>2. Continues(FrameSize, B, c \o w, d, y)
      BY <3>1, DecodedChunk
    <3> QED
      BY <3>2 DEF B
  <2> QED
    BY <2>1 DEF Continues
<1> HIDE DEF t, u, f
<1>3. /\ n \in Nat /\ DOMAIN f = 1..n /\ u \in Seq(Bytes) /\ Len(u) \in Nat
      /\ Len(t) = FrameSize * n + Len(u)
      /\ \A j \in 1..n, i \in 1..FrameSize : f[j][i] = t[FrameSize * (j - 1) + i]
      /\ \A i \in 1..Len(u) : u[i] = t[FrameSize * n + i]
  BY <1>2, LenProperties DEF t, u, f
<1>4. InPlace(t)
  BY DEF t
<1> HIDE DEF n
<1>5. InPlace(u)
  <2>1. ASSUME NEW i \in 1..Len(u)
        PROVE  u[i].part = ((i - 1) % FrameSize) + 1
    <3> DEFINE m == FrameSize * n + i
    <3>1. i \in Nat \ {0}
      BY <1>3
    <3>2. u[i] = t[m]
      BY <1>3
    <3>3. (m - 1) % FrameSize = (i - 1) % FrameSize
      BY <1>1, <1>3, <3>1, SamePlace
    <3>4. m \in 1..Len(t)
      <4> DEFINE z == FrameSize * n
      <4>1. z \in Nat /\ Len(t) = z + Len(u) /\ Len(u) \in Nat
        BY <1>1, <1>3
      <4> HIDE DEF z
      <4>2. z + i \in 1..Len(t)
        BY <4>1
      <4> QED
        BY <4>2 DEF z
    <3> HIDE DEF m
    <3>5. t[m].part = ((m - 1) % FrameSize) + 1
      BY <1>4, <3>4 DEF InPlace
    <3> QED
      BY <3>2, <3>3, <3>5
  <2> QED
    BY <2>1 DEF InPlace
<1>6. ASSUME NEW l \in Nat, Len(t) = FrameSize * l
      PROVE  \E m \in Nat : Len(u) = FrameSize * m
  <2>1. n <= l
    <3> SUFFICES ASSUME ~(n <= l) PROVE FALSE
      OBVIOUS
    <3>1. l < n
      BY <1>3
    <3>2. FrameSize * l + FrameSize <= FrameSize * n
      BY <1>1, <1>3, <3>1, Multiples
    <3> DEFINE a == FrameSize * l
               b == FrameSize * n
    <3>3. a \in Nat /\ b \in Nat /\ a + FrameSize <= b
      BY <1>1, <1>3, <3>2
    <3>4. a = b + Len(u)
      <4>1. Len(t) = a /\ Len(t) = b + Len(u)
        BY <1>3, <1>6
      <4> QED
        BY <4>1, Zenon
    <3> HIDE DEF a, b
    <3> QED
      BY <1>1, <1>3, <3>3, <3>4
  <2>2. l - n \in Nat
    BY <1>3, <2>1
  <2>3. FrameSize * l = FrameSize * n + FrameSize * (l - n)
    BY <1>1, <1>3
  <2> DEFINE a == FrameSize * l
             b == FrameSize * n
             e == FrameSize * (l - n)
  <2>4. a = b + e /\ a \in Int /\ b \in Int /\ e \in Int
    BY <1>1, <1>3, <2>2, <2>3
  <2>6. a = b + Len(u)
    <3>1. Len(t) = a /\ Len(t) = b + Len(u)
      BY <1>3, <1>6
    <3> QED
      BY <3>1, Zenon
  <2> HIDE DEF a, b, e
  <2>5. Len(u) = e
    BY <1>3, <2>4, <2>6
  <2> QED
    BY <2>2, <2>5 DEF e
<1>7. ASSUME NEW p
      PROVE  /\ Cardinality(Answers(p, f)) \in Nat
             /\ Cardinality(Answers(p, f)) + Cardinality(Marks(Last(p), u))
                  <= Cardinality(Marks(Last(p), t))
  BY <1>1, <1>3, <1>4, MarksDecoded
<1> QED
  BY <1>2, <1>5, <1>6, <1>7 DEF Handles, t, u, f
-----------------------------------------------------------------------------
(* Shape: the connection, step by step. *)

LEMMA InitShape == Init => Shape
<1> SUFFICES ASSUME Init PROVE Shape
  OBVIOUS
<1>1. tcp \in Socket
  BY BridgeAssumption DEF Init
<1>2. <<>> \in Seq(Bytes) /\ <<>> \in Seq(Request) /\ Len(<<>>) = 0 /\ 0 < FrameSize
  BY BridgeAssumption, EmptySeq
<1>3. LinkTypes
  BY <1>1, <1>2 DEF Init, LinkTypes
<1>4. PageTypes
  BY DEF Init, PageTypes
<1>5. OneConnection
  BY <1>1, BridgeAssumption DEF Init, OneConnection
<1>6. FreshSockets /\ FreshBuffer
  BY DEF Init, FreshSockets, FreshBuffer
<1> QED
  BY <1>3, <1>4, <1>5, <1>6 DEF Shape

LEMMA TimerShape ==
  ASSUME Shape, TimerFires
  PROVE  /\ Shape'
         /\ tcp = NoSocket /\ tcp' \in Socket /\ sock[tcp'] = "none" /\ tcpBuffer' = <<>>
<1> DEFINE s == CHOOSE s \in Unused : TRUE
<1>1. s \in Socket /\ sock[s] = "none"
  BY DEF TimerFires, Unused
<1>2. /\ tcp' = s /\ sock' = [sock EXCEPT ![s] = "connecting"] /\ tcpBuffer' = <<>>
      /\ reconnectTimer /\ ~reconnectTimer' /\ reconnectTimer' \in BOOLEAN
  BY DEF TimerFires, connectPI, ResetBuffer
<1> HIDE DEF s
<1>3. tcp = NoSocket /\ \A r \in Socket : sock[r] = "none"
  BY <1>2, BridgeAssumption DEF Shape, OneConnection
<1>4. <<>> \in Seq(Bytes) /\ Len(<<>>) = 0 /\ 0 < FrameSize
  BY BridgeAssumption, EmptySeq
<1>5. LinkTypes'
  BY <1>1, <1>2, <1>4 DEF Shape, LinkTypes, TimerFires, serverVars
<1>6. PageTypes'
  BY DEF Shape, PageTypes, TimerFires, pageVars
<1>7. OneConnection'
  BY <1>1, <1>2, <1>3, BridgeAssumption DEF Shape, OneConnection, LinkTypes
<1>8. FreshSockets' /\ FreshBuffer'
  BY <1>1, <1>2, <1>3 DEF Shape, FreshSockets, FreshBuffer, LinkTypes, TimerFires, serverVars
<1> QED
  BY <1>1, <1>2, <1>3, <1>5, <1>6, <1>7, <1>8 DEF Shape

LEMMA ConnectedShape ==
  ASSUME Shape, NEW s \in Socket, Connected(s)
  PROVE  Shape' /\ tcp = s
<1>1. tcp = s
  BY DEF Connected, Shape, OneConnection
<1>2. LinkTypes'
  BY DEF Shape, LinkTypes, Connected, bridgeVars
<1>3. PageTypes'
  BY DEF Shape, PageTypes, Connected, BroadcastStatus, Listening
<1>4. OneConnection'
  BY <1>1 DEF Shape, LinkTypes, OneConnection, Connected, bridgeVars
<1>5. FreshSockets' /\ FreshBuffer'
  BY <1>1 DEF Shape, LinkTypes, FreshSockets, FreshBuffer, Connected, bridgeVars
<1> QED
  BY <1>1, <1>2, <1>3, <1>4, <1>5 DEF Shape

LEMMA FailShape ==
  ASSUME Shape, NEW s \in Socket, Fail(s)
  PROVE  Shape' /\ tcp = s
<1>1. tcp = s
  BY DEF Fail, Failing, Shape, OneConnection
<1>2. LinkTypes'
  BY DEF Shape, LinkTypes, Fail, serverVars, bridgeVars
<1>3. PageTypes'
  BY DEF Shape, PageTypes, Fail, pageVars
<1>4. OneConnection'
  BY <1>1 DEF Shape, LinkTypes, OneConnection, Fail, bridgeVars
<1>5. FreshSockets' /\ FreshBuffer'
  BY <1>1 DEF Shape, LinkTypes, FreshSockets, FreshBuffer, Fail, serverVars, bridgeVars
<1> QED
  BY <1>1, <1>2, <1>3, <1>4, <1>5 DEF Shape

LEMMA CloseShape ==
  ASSUME Shape, NEW s \in Socket, OnClose(s)
  PROVE  Shape' /\ tcp = s /\ tcp' = NoSocket
<1>1. tcp = s
  BY DEF OnClose, Shape, OneConnection
<1>2. tcp' = NoSocket /\ tcpBuffer' = <<>> /\ reconnectTimer' = TRUE
  BY <1>1 DEF OnClose, ResetBuffer, scheduleReconnect
<1>3. LinkTypes'
  <2>1. <<>> \in Seq(Bytes) /\ <<>> \in Seq(Request) /\ Len(<<>>) = 0 /\ 0 < FrameSize
    BY BridgeAssumption, EmptySeq
  <2> QED
    BY <1>2, <2>1 DEF Shape, LinkTypes, OnClose, Discard
<1>4. PageTypes'
  BY <1>1 DEF Shape, PageTypes, OnClose, BroadcastStatus, Listening
<1>5. OneConnection'
  BY <1>1, <1>2 DEF Shape, LinkTypes, OneConnection, OnClose, Discard
<1>6. FreshSockets' /\ FreshBuffer'
  BY <1>2 DEF Shape, LinkTypes, FreshSockets, FreshBuffer, OnClose, Discard
<1> QED
  BY <1>1, <1>2, <1>3, <1>4, <1>5, <1>6 DEF Shape

(* A page connects or leaves. *)
LEMMA PageShape ==
  ASSUME Shape, NEW p \in Page,
         PageConnect(p) \/ OnConnection(p) \/ OnWsClose(p) \/ Click(p)
  PROVE  Shape' /\ UNCHANGED <<serverVars, linkVars, bridgeVars>>
<1>1. UNCHANGED <<serverVars, linkVars, bridgeVars>>
  BY DEF PageConnect, OnConnection, OnWsClose, Click
<1>2. LinkTypes' /\ OneConnection' /\ FreshSockets' /\ FreshBuffer'
  BY <1>1 DEF Shape, LinkTypes, OneConnection, FreshSockets, FreshBuffer, serverVars, linkVars,
              bridgeVars
<1>3. CASE PageConnect(p)
  BY <1>1, <1>2, <1>3 DEF Shape, PageTypes, PageConnect
<1>4. CASE OnConnection(p)
  <2>1. ws' = [ws EXCEPT ![p] = "open"] /\ ws[p] = "connecting" /\ wsClients' = wsClients \cup {p}
    BY <1>4 DEF OnConnection
  <2>2. status' = [status EXCEPT ![p] = "up"] \/ status' = [status EXCEPT ![p] = "down"]
    BY <1>4 DEF OnConnection
  <2>3. PageTypes'
    BY <2>1, <2>2 DEF Shape, PageTypes
  <2> QED
    BY <1>1, <1>2, <2>3 DEF Shape
<1>5. CASE OnWsClose(p)
  BY <1>1, <1>2, <1>5 DEF Shape, PageTypes, OnWsClose
<1>6. CASE Click(p)
  BY <1>1, <1>2, <1>6 DEF Shape, PageTypes, Click
<1> QED
  BY <1>3, <1>4, <1>5, <1>6

LEMMA DisownedTypes ==
  /\ Disownable(Request) /\ Disownable(Bytes)
  /\ \A b \in Bytes : [b EXCEPT !.for = Nobody].part = b.part
  BY DEF Disownable, Request, Bytes, Owner

(* A session breaks: the requests and bytes on their way keep their places. *)
LEMMA BreakShape ==
  ASSUME Shape, NEW p \in Page, Break(p)
  PROVE  Shape'
<1>1. /\ \A s \in Socket : toServer'[s] \in Seq(Request) /\ Len(toServer'[s]) = Len(toServer[s])
      /\ \A s \in Socket : toBridge'[s] \in Seq(Bytes) /\ Len(toBridge'[s]) = Len(toBridge[s])
      /\ tcpBuffer' \in Seq(Bytes) /\ Len(tcpBuffer') = Len(tcpBuffer)
  <2>1. ASSUME NEW q \in Seq(Request)
        PROVE  Disown(p, q) \in Seq(Request) /\ Len(Disown(p, q)) = Len(q)
    BY DisownedTypes, Disowned
  <2>2. ASSUME NEW q \in Seq(Bytes)
        PROVE  Disown(p, q) \in Seq(Bytes) /\ Len(Disown(p, q)) = Len(q)
    BY DisownedTypes, Disowned
  <2>3. \A s \in Socket : toServer'[s] = Disown(p, toServer[s]) /\ toBridge'[s] = Disown(p, toBridge[s])
    BY DEF Break
  <2>4. tcpBuffer' = Disown(p, tcpBuffer)
    BY DEF Break
  <2> QED
    BY <2>1, <2>2, <2>3, <2>4 DEF Shape, LinkTypes
<1>2. LinkTypes'
  <2>1. toServer' = [s \in Socket |-> toServer'[s]] /\ toBridge' = [s \in Socket |-> toBridge'[s]]
    BY DEF Break
  <2>2. toServer' \in [Socket -> Seq(Request)] /\ toBridge' \in [Socket -> Seq(Bytes)]
    BY <1>1, <2>1
  <2> QED
    BY <1>1, <2>2 DEF Shape, LinkTypes, Break, serverVars
<1>3. PageTypes'
  BY DEF Shape, PageTypes, Break
<1>4. OneConnection'
  BY DEF Shape, OneConnection, Break
<1>5. FreshSockets' /\ FreshBuffer'
  <2>1. \A s \in Socket : /\ toServer[s] = <<>> => toServer'[s] = <<>>
                          /\ toBridge[s] = <<>> => toBridge'[s] = <<>>
    BY <1>1, EmptySeq DEF Shape, LinkTypes
  <2>2. tcpBuffer = <<>> => tcpBuffer' = <<>>
    BY <1>1, EmptySeq DEF Shape, LinkTypes
  <2> QED
    BY <2>1, <2>2 DEF Shape, FreshSockets, FreshBuffer, Break, serverVars
<1> QED
  BY <1>2, <1>3, <1>4, <1>5 DEF Shape

(* What a click adds to the connection is a request the server understands. *)
LEMMA ForwardShape ==
  ASSUME Shape, NEW p \in Page, NEW c \in Payload, Supported(c), Forward(p, c)
  PROVE  /\ tcp \in Socket /\ sock[tcp] = "open"
         /\ \E r \in Request :
               /\ toServer' = [toServer EXCEPT ![tcp] = Append(@, r)]
               /\ \A q \in Page : r \in RequestsOf(q) => q = p /\ ws[p] # "broken" /\ ~Full(tcp)
         /\ toServer' \in [Socket -> Seq(Request)]
<1>1. tcp \in Socket /\ sock[tcp] = "open"
  BY DEF Forward, isTcpConnected, Shape, LinkTypes
<1> DEFINE r == [for |-> IF ws[p] = "broken" \/ Full(tcp) THEN Nobody ELSE p,
                 msg |-> commandMessage(c)]
<1>2. commandMessage(c) \in Message
  BY DEF Message
<1>3. r \in Request
  BY <1>2 DEF Request, Owner
<1>4. \A q \in Page : r \in RequestsOf(q) => q = p /\ ws[p] # "broken" /\ ~Full(tcp)
  BY BridgeAssumption DEF RequestsOf
<1>5. toServer' = [toServer EXCEPT ![tcp] = Append(@, r)]
  BY DEF Forward
<1> HIDE DEF r
<1>6. toServer' \in [Socket -> Seq(Request)]
  <2>1. Append(toServer[tcp], r) \in Seq(Request)
    BY <1>1, <1>3, AppendProperties DEF Shape, LinkTypes
  <2> QED
    BY <1>1, <1>5, <2>1 DEF Shape, LinkTypes
<1> QED
  BY <1>1, <1>3, <1>4, <1>5, <1>6

LEMMA MessageShape ==
  ASSUME Shape, clicks \in [Page -> Seq(Payload)], NEW p \in Page, OnMessage(p)
  PROVE  /\ Shape'
         /\ Head(clicks[p]) \in Payload /\ Tail(clicks[p]) \in Seq(Payload)
         /\ Len(clicks[p]) = Len(Tail(clicks[p])) + 1 /\ Len(Tail(clicks[p])) \in Nat
         /\ \/ Supported(Head(clicks[p])) /\ Forward(p, Head(clicks[p]))
            \/ Refuse(p)
<1> DEFINE c == Head(clicks[p])
<1>1. /\ c \in Payload /\ Tail(clicks[p]) \in Seq(Payload)
      /\ Len(clicks[p]) = Len(Tail(clicks[p])) + 1 /\ Len(Tail(clicks[p])) \in Nat
  <2>1. clicks[p] \in Seq(Payload) /\ clicks[p] # <<>>
    BY DEF OnMessage
  <2>2. /\ Head(clicks[p]) \in Payload /\ Tail(clicks[p]) \in Seq(Payload)
        /\ Len(Tail(clicks[p])) = Len(clicks[p]) - 1
    BY <2>1, HeadTailProperties
  <2>3. Len(clicks[p]) \in Nat /\ Len(Tail(clicks[p])) \in Nat
    BY <2>1, <2>2, LenProperties
  <2> QED
    BY <2>2, <2>3
<1>2. (Supported(c) /\ Forward(p, c)) \/ Refuse(p)
  BY DEF OnMessage
<1> HIDE DEF c
<1>3. toServer' \in [Socket -> Seq(Request)]
  BY <1>1, <1>2, ForwardShape DEF Refuse, Shape, LinkTypes
<1>4. LinkTypes' /\ PageTypes' /\ OneConnection' /\ FreshBuffer'
  BY <1>3 DEF Shape, LinkTypes, PageTypes, OneConnection, FreshBuffer, OnMessage, serverVars,
              bridgeVars
<1>5. FreshSockets'
  <2>1. CASE Supported(c) /\ Forward(p, c)
    <3>1. tcp \in Socket /\ sock[tcp] = "open" /\ \A s \in Socket : s # tcp => toServer'[s] = toServer[s]
      BY <1>1, <2>1, ForwardShape DEF Shape, LinkTypes
    <3> QED
      BY <3>1 DEF Shape, LinkTypes, FreshSockets, OnMessage, serverVars
  <2>2. CASE Refuse(p)
    BY <2>2 DEF Shape, FreshSockets, OnMessage, serverVars, Refuse
  <2> QED
    BY <1>2, <2>1, <2>2
<1> QED
  BY <1>1, <1>2, <1>4, <1>5 DEF Shape, c

(* The server's steps. *)
LEMMA ServerShape ==
  ASSUME Shape, NEW s \in Socket, Answer(s) \/ Event(s) \/ HangUp(s) \/ Vanish(s)
  PROVE  /\ Shape' /\ tcp = s /\ peer[s] = "serving"
         /\ UNCHANGED <<sock, bridgeVars, pageVars>>
<1>1. peer[s] = "serving" /\ UNCHANGED <<sock, bridgeVars, pageVars>>
  BY DEF Answer, Event, HangUp, Vanish, ServerVarsOnly
<1>2. sock[s] \in {"open", "dying"} /\ tcp = s
  BY <1>1 DEF Shape, FreshSockets, LinkTypes, OneConnection
<1>3. PageTypes' /\ OneConnection' /\ FreshBuffer'
  BY <1>1 DEF Shape, PageTypes, OneConnection, FreshBuffer, bridgeVars, pageVars
<1>4. /\ toServer' \in [Socket -> Seq(Request)] /\ toBridge' \in [Socket -> Seq(Bytes)]
      /\ \A r \in Socket : r # s => /\ toServer'[r] = toServer[r] /\ toBridge'[r] = toBridge[r]
                                    /\ peer'[r] = peer[r]
      /\ peer' \in [Socket -> {"none", "serving", "gone", "silent"}] /\ srvUp' \in BOOLEAN
  <2>1. toServer[s] \in Seq(Request) /\ toBridge[s] \in Seq(Bytes) /\ <<>> \in Seq(Request)
    BY EmptySeq DEF Shape, LinkTypes
  <2>2. ASSUME NEW q \in Owner
        PROVE  toBridge[s] \o Frame(q) \in Seq(Bytes)
    BY <2>1, FrameProperties, ConcatProperties
  <2>3. CASE Answer(s)
    <3>1. /\ toServer[s] # <<>> /\ UNCHANGED serverVars
          /\ toBridge' = [toBridge EXCEPT ![s] = @ \o Frame(Head(toServer[s]).for)]
          /\ toServer' = [toServer EXCEPT ![s] = Tail(@)]
      BY <2>3 DEF Answer, Sends
    <3>2. Head(toServer[s]) \in Request /\ Tail(toServer[s]) \in Seq(Request)
      BY <2>1, <3>1, HeadTailProperties
    <3>3. Head(toServer[s]).for \in Owner
      BY <3>2 DEF Request
    <3>4. toBridge[s] \o Frame(Head(toServer[s]).for) \in Seq(Bytes)
      BY <2>2, <3>3
    <3> QED
      BY <3>1, <3>2, <3>4 DEF Shape, LinkTypes, serverVars
  <2>4. CASE Event(s)
    <3>1. /\ UNCHANGED <<serverVars, toServer>>
          /\ toBridge' = [toBridge EXCEPT ![s] = @ \o Frame(Nobody)]
      BY <2>4 DEF Event, Sends
    <3>2. toBridge[s] \o Frame(Nobody) \in Seq(Bytes)
      BY <2>2 DEF Owner
    <3> QED
      BY <3>1, <3>2 DEF Shape, LinkTypes, serverVars
  <2>5. CASE HangUp(s)
    <3>1. /\ UNCHANGED toServer /\ peer' = [peer EXCEPT ![s] = "gone"] /\ srvUp' \in BOOLEAN
          /\ \E k \in 0..Len(toBridge[s]) :
                toBridge' = [toBridge EXCEPT ![s] = SubSeq(@, 1, k)]
      BY <2>5 DEF HangUp
    <3>2. \A k \in 0..Len(toBridge[s]) : SubSeq(toBridge[s], 1, k) \in Seq(Bytes)
      BY <2>1, MarksPrefix
    <3> QED
      BY <3>1, <3>2 DEF Shape, LinkTypes
  <2>6. CASE Vanish(s)
    BY <2>1, <2>6 DEF Vanish, Shape, LinkTypes
  <2> QED
    BY <2>3, <2>4, <2>5, <2>6
<1>5. LinkTypes'
  BY <1>1, <1>4 DEF Shape, LinkTypes, bridgeVars
<1>6. FreshSockets'
  BY <1>1, <1>2, <1>4 DEF Shape, FreshSockets
<1> QED
  BY <1>1, <1>2, <1>3, <1>5, <1>6 DEF Shape
-----------------------------------------------------------------------------
(* The stream and the counts. *)

LEMMA Placed ==
  ASSUME NEW s \in Seq(Bytes)
  PROVE  InPlace(s) <=> \A i \in DOMAIN s : s[i].part = ((i - 1) % FrameSize) + 1
<1>1. DOMAIN s = 1..Len(s)
  BY LenProperties
<1> QED
  BY <1>1 DEF InPlace

LEMMA StreamFacts ==
  ASSUME Shape, NoMixedFrames, tcp # NoSocket
  PROVE  /\ tcp \in Socket /\ toServer[tcp] \in Seq(Request)
         /\ toBridge[tcp] \in Seq(Bytes) /\ tcpBuffer \in Seq(Bytes)
         /\ tcpBuffer \o toBridge[tcp] \in Seq(Bytes) /\ InPlace(tcpBuffer \o toBridge[tcp])
         /\ \A p : Asked(p) \in Nat /\ Due(p) \in Nat
<1>1. /\ tcp \in Socket /\ toServer[tcp] \in Seq(Request)
      /\ toBridge[tcp] \in Seq(Bytes) /\ tcpBuffer \in Seq(Bytes)
  BY DEF Shape, LinkTypes
<1> DEFINE t == tcpBuffer \o toBridge[tcp]
<1>2. t \in Seq(Bytes)
  BY <1>1, ConcatProperties
<1>3. \A i \in DOMAIN t : t[i].part = ((i - 1) % FrameSize) + 1
  BY DEF NoMixedFrames
<1>4. \A p : Asked(p) \in Nat
  BY <1>1, MarksFinite DEF Asked
<1> HIDE DEF t
<1>5. InPlace(t)
  BY <1>2, <1>3, Placed
<1>6. \A p : Cardinality(Marks(Last(p), t)) \in Nat
  BY <1>2, MarksFinite
<1> QED
  BY <1>1, <1>2, <1>4, <1>5, <1>6 DEF t, Due

LEMMA DataStep ==
  ASSUME IInv, NEW s \in Socket, OnData(s)
  PROVE  IInv'
<1>1. /\ sock[s] = "open" /\ tcp = s /\ tcp # NoSocket
      /\ UNCHANGED <<serverVars, sock, toServer, tcp, reconnectTimer, ws, wsClients,
                     clicks, status>>
  BY BridgeAssumption DEF OnData, IInv, Shape, OneConnection
<1> DEFINE w == toBridge[s]
           t == tcpBuffer \o w
<1>2. PICK k \in 1..Len(w) :
         LET decoded == decodeFrames(FrameSize, tcpBuffer \o SubSeq(w, 1, k))
         IN  /\ toBridge' = [toBridge EXCEPT ![s] = SubSeq(w, k + 1, Len(w))]
             /\ tcpBuffer' = decoded.remaining
             /\ handleTcpMessages(decoded.messages)
  BY <1>1 DEF OnData
<1> DEFINE d == decodeFrames(FrameSize, tcpBuffer \o SubSeq(w, 1, k))
           y == SubSeq(w, k + 1, Len(w))
           u == d.remaining \o y
<1>3. /\ toServer[s] \in Seq(Request) /\ w \in Seq(Bytes) /\ tcpBuffer \in Seq(Bytes)
      /\ t \in Seq(Bytes) /\ InPlace(t)
      /\ \A p : Asked(p) \in Nat /\ Cardinality(Marks(Last(p), t)) \in Nat
  <2>1. /\ toServer[tcp] \in Seq(Request) /\ toBridge[tcp] \in Seq(Bytes) /\ tcpBuffer \in Seq(Bytes)
        /\ tcpBuffer \o toBridge[tcp] \in Seq(Bytes) /\ InPlace(tcpBuffer \o toBridge[tcp])
        /\ \A p : Asked(p) \in Nat /\ Due(p) \in Nat
    BY <1>1, StreamFacts DEF IInv, Stream
  <2> QED
    BY <1>1, <2>1 DEF Due
<1>4. /\ toBridge' = [toBridge EXCEPT ![s] = y] /\ tcpBuffer' = d.remaining
      /\ handleTcpMessages(d.messages)
  BY <1>2
<1> HIDE DEF d, y
<1>5. /\ d.remaining \in Seq(Bytes) /\ Len(d.remaining) < FrameSize /\ y \in Seq(Bytes)
      /\ InPlace(u)
      /\ \A n \in Nat : Len(t) = FrameSize * n => \E m \in Nat : Len(u) = FrameSize * m
      /\ \A p : /\ Cardinality(Answers(p, d.messages)) \in Nat
                /\ Cardinality(Answers(p, d.messages)) + Cardinality(Marks(Last(p), u))
                     <= Cardinality(Marks(Last(p), t))
  <2>1. d = decodeFrames(FrameSize, tcpBuffer \o SubSeq(w, 1, k)) /\ y = SubSeq(w, k + 1, Len(w))
    BY DEF d, y
  <2>2. w \in Seq(Bytes) /\ tcpBuffer \in Seq(Bytes) /\ InPlace(tcpBuffer \o w)
    BY <1>3
  <2>3. Handles(tcpBuffer \o w, d, y)
    <3> HIDE DEF w
    <3> QED
      BY <2>1, <2>2, DataCallback
  <2> QED
    BY <2>3 DEF Handles
<1> HIDE DEF w, t
<1>6. u \in Seq(Bytes) /\ tcpBuffer' \o toBridge'[s] = u /\ tcp' = s
  BY <1>1, <1>4, <1>5, ConcatProperties DEF IInv, Shape, LinkTypes
<1> HIDE DEF u
<1>7. Shape'
  <2>1. LinkTypes'
    BY <1>1, <1>4, <1>5 DEF IInv, Shape, LinkTypes, serverVars
  <2>2. PageTypes' /\ OneConnection' /\ FreshSockets' /\ FreshBuffer'
    BY <1>1, <1>4 DEF IInv, Shape, LinkTypes, PageTypes, OneConnection, FreshSockets, FreshBuffer,
                      serverVars
  <2> QED
    BY <2>1, <2>2 DEF Shape
<1>8. NoMixedFrames'
  <2>1. \A i \in DOMAIN u : u[i].part = ((i - 1) % FrameSize) + 1
    BY <1>5, <1>6, Placed
  <2>2. tcpBuffer' \o toBridge'[tcp'] = u
    BY <1>6
  <2> QED
    BY <2>1, <2>2, Zenon DEF NoMixedFrames
<1>9. WholeWhileServing'
  <2>1. ASSUME NEW r \in Socket, peer'[r] = "serving"
        PROVE  \E n \in Nat : Len(tcpBuffer' \o toBridge'[r]) = FrameSize * n
    <3>1. peer[r] = "serving" /\ r = s
      BY <1>1, <2>1 DEF serverVars, IInv, Shape, FreshSockets, OneConnection, LinkTypes
    <3>2. \E n \in Nat : Len(t) = FrameSize * n
      BY <3>1 DEF IInv, Stream, WholeWhileServing, t, w
    <3> QED
      BY <1>5, <1>6, <3>1, <3>2
  <2> QED
    BY <2>1 DEF WholeWhileServing
<1>10. ClicksCounted'
  <2>1. ASSUME NEW p \in Page
        PROVE  /\ unanswered'[p] \in 0..MaxClicks
               /\ ws[p] # "open" => unanswered'[p] = 0
               /\ Coming(p) + (Asked(p) + Cardinality(Marks(Last(p), u))) <= unanswered'[p]
               /\ Coming(p) <= unanswered'[p]
    <3> DEFINE a == Cardinality(Answers(p, d.messages))
               e == Cardinality(Marks(Last(p), u))
               f == Cardinality(Marks(Last(p), t))
               g == Asked(p)
               c == Coming(p)
               n == unanswered[p]
    <3>1. /\ a \in Nat /\ e \in Nat /\ f \in Nat /\ g \in Nat /\ a + e <= f
          /\ n \in 0..MaxClicks /\ MaxClicks \in Nat
      BY <1>3, <1>5, <1>6, MarksFinite, BridgeAssumption DEF IInv, ClicksCounted
    <3>2. c \in Nat /\ c + (g + f) <= n /\ (ws[p] # "open" => n = 0)
      BY <1>1, LenProperties DEF IInv, ClicksCounted, Coming, Due, t, w
    <3>3. unanswered'[p] = n - (IF p \in Listening THEN a ELSE 0)
      BY <1>4 DEF handleTcpMessages
    <3>4. p \in Listening <=> ws[p] = "open"
      BY DEF Listening, IInv, Shape, PageTypes
    <3> HIDE DEF a, e, f, g, c, n
    <3>5. CASE ws[p] = "open"
      <4>1. unanswered'[p] = n - a
        BY <3>3, <3>4, <3>5
      <4>2. n - a \in 0..MaxClicks /\ c + (g + e) <= n - a /\ c <= n - a
        BY <3>1, <3>2
      <4> QED
        BY <3>5, <4>1, <4>2 DEF e, g, c
    <3>6. CASE ws[p] # "open"
      <4>1. unanswered'[p] = n - 0 /\ n = 0
        BY <3>2, <3>3, <3>4, <3>6
      <4>2. n - 0 = 0 /\ c + (g + e) <= 0 /\ c <= 0 /\ 0 \in 0..MaxClicks
        BY <3>1, <3>2, <4>1
      <4> QED
        BY <4>1, <4>2 DEF e, g, c
    <3> QED
      BY <3>5, <3>6
  <2>2. unanswered' \in [Page -> 0..MaxClicks]
    <3>1. unanswered' = [p \in Page |-> unanswered'[p]]
      BY <1>4 DEF handleTcpMessages
    <3> QED
      BY <2>1, <3>1
  <2>3. \A p \in Page : /\ Coming(p)' = Coming(p) /\ Asked(p)' = Asked(p)
                        /\ Due(p)' = Cardinality(Marks(Last(p), u))
    BY <1>1, <1>6 DEF Coming, Asked, Due, Last, Byte
  <2> QED
    BY <1>1, <2>1, <2>2, <2>3 DEF IInv, ClicksCounted
<1> QED
  BY <1>7, <1>8, <1>9, <1>10 DEF IInv, Stream

LEMMA EmptyStream ==
  <<>> \o <<>> = <<>> /\ Len(<<>> \o <<>>) = FrameSize * 0 /\ 0 \in Nat
<1>1. <<>> \in Seq(Bytes) /\ Len(<<>>) = 0 /\ FrameSize \in Nat
  BY EmptySeq, BridgeAssumption
<1>2. <<>> \o <<>> = <<>>
  BY <1>1, ConcatEmptySeq
<1> QED
  BY <1>1, <1>2

LEMMA TimerStep ==
  ASSUME IInv, TimerFires
  PROVE  IInv'
<1>1. /\ Shape' /\ tcp = NoSocket /\ tcp' \in Socket /\ sock[tcp'] = "none" /\ tcpBuffer' = <<>>
      /\ UNCHANGED <<serverVars, toServer, toBridge, pageVars>>
  BY TimerShape DEF IInv, TimerFires
<1>2. toServer'[tcp'] = <<>> /\ toBridge'[tcp'] = <<>>
  BY <1>1 DEF IInv, Shape, FreshSockets
<1>3. tcpBuffer' \o toBridge'[tcp'] = <<>>
  BY <1>1, <1>2, EmptyStream, Zenon
<1>4. NoMixedFrames'
  <2>1. DOMAIN <<>> = {}
    OBVIOUS
  <2> QED
    BY <1>3, <2>1, Zenon DEF NoMixedFrames
<1>5. WholeWhileServing'
  <2>1. \A s \in Socket : sock[s] = "none" /\ peer'[s] = "none"
    BY <1>1, BridgeAssumption DEF IInv, Shape, OneConnection, FreshSockets, LinkTypes, serverVars
  <2> QED
    BY <2>1 DEF WholeWhileServing
<1>6. ClicksCounted'
  <2>1. ASSUME NEW p \in Page
        PROVE  Asked(p)' = 0 /\ Due(p)' = 0 /\ Coming(p)' = Coming(p) /\ Coming(p) \in Nat
    <3>1. Asked(p)' = 0
      BY <1>2, NoMarks DEF Asked, RequestsOf, Request, Owner, Message
    <3>2. Due(p)' = 0
      <4>1. Cardinality(Marks(Last(p), tcpBuffer' \o toBridge'[tcp'])) = 0
        BY <1>3, NoMarks, Zenon
      <4> QED
        BY <4>1, Zenon DEF Due, Last, Byte
    <3>3. Coming(p)' = Coming(p) /\ Coming(p) \in Nat
      BY <1>1, LenProperties DEF Coming, pageVars, IInv, ClicksCounted
    <3> QED
      BY <3>1, <3>2, <3>3
  <2>2. \A p \in Page : unanswered[p] \in Nat
    BY BridgeAssumption DEF IInv, ClicksCounted
  <2>3. \A p \in Page : Coming(p)' + (Asked(p)' + Due(p)') <= unanswered'[p]
    <3>1. ASSUME NEW p \in Page
          PROVE  Coming(p)' + (Asked(p)' + Due(p)') <= unanswered'[p]
      <4> DEFINE c == Coming(p)
      <4>1. c \in Nat /\ c <= unanswered'[p] /\ unanswered'[p] \in Nat
        BY <1>1, <2>1, <2>2 DEF IInv, ClicksCounted, pageVars
      <4> HIDE DEF c
      <4>2. c + (0 + 0) <= unanswered'[p]
        BY <4>1
      <4> QED
        BY <2>1, <4>2, Zenon DEF c
    <3> QED
      BY <3>1
  <2> QED
    BY <1>1, <2>1, <2>3 DEF IInv, ClicksCounted, pageVars
<1> QED
  BY <1>1, <1>4, <1>5, <1>6 DEF IInv, Stream

(* Steps that leave the stream and the requests alone. *)
LEMMA StreamSame ==
  ASSUME Stream, UNCHANGED <<tcp, tcpBuffer, toBridge>>,
         \A s \in Socket : peer'[s] = "serving" => peer[s] = "serving"
  PROVE  Stream'
  BY DEF Stream, NoMixedFrames, WholeWhileServing

LEMMA CountsSame ==
  ASSUME UNCHANGED <<tcp, tcpBuffer, toBridge, toServer>>
  PROVE  \A p : Asked(p)' = Asked(p) /\ Due(p)' = Due(p)
  BY DEF Asked, Due, RequestsOf, Last, Byte, Request, Owner, Message

LEMMA ConnectedStep ==
  ASSUME IInv, NEW s \in Socket, Connected(s)
  PROVE  IInv'
<1>1. /\ Shape' /\ tcp = s /\ sock[s] = "connecting"
      /\ peer' = [peer EXCEPT ![s] = "serving"]
      /\ BroadcastStatus("up")
      /\ UNCHANGED <<srvUp, toServer, toBridge, bridgeVars, ws, wsClients, clicks>>
  BY ConnectedShape DEF IInv, Connected
<1>2. unanswered' = unanswered
  <2>1. "up" # "down"
    OBVIOUS
  <2>2. unanswered' = [p \in Page |-> unanswered[p]]
    BY <1>1, <2>1 DEF BroadcastStatus
  <2>3. unanswered \in [Page -> 0..MaxClicks]
    BY DEF IInv, ClicksCounted
  <2> QED
    BY <2>2, <2>3
<1>3. NoMixedFrames'
  BY <1>1 DEF IInv, Stream, NoMixedFrames, bridgeVars
<1>4. WholeWhileServing'
  <2>1. ASSUME NEW r \in Socket, peer'[r] = "serving"
        PROVE  \E n \in Nat : Len(tcpBuffer' \o toBridge'[r]) = FrameSize * n
    <3>1. CASE r = s
      <4>1. tcpBuffer' = <<>> /\ toBridge'[r] = <<>>
        BY <1>1, <3>1 DEF IInv, Shape, FreshBuffer, FreshSockets, bridgeVars
      <4> QED
        BY <4>1, EmptyStream
    <3>2. CASE r # s
      <4>1. peer[r] = "serving"
        BY <1>1, <2>1, <3>2 DEF IInv, Shape, LinkTypes
      <4> QED
        BY <1>1, <4>1 DEF IInv, Stream, WholeWhileServing, bridgeVars
    <3> QED
      BY <3>1, <3>2
  <2> QED
    BY <2>1 DEF WholeWhileServing
<1>5. ClicksCounted'
  <2>1. \A p : Asked(p)' = Asked(p) /\ Due(p)' = Due(p)
    BY <1>1, CountsSame DEF bridgeVars
  <2>2. \A p \in Page : Coming(p)' = Coming(p)
    BY <1>1 DEF Coming
  <2> QED
    BY <1>1, <1>2, <2>1, <2>2 DEF IInv, ClicksCounted, bridgeVars
<1> QED
  BY <1>1, <1>3, <1>4, <1>5 DEF IInv, Stream

LEMMA FailStep ==
  ASSUME IInv, NEW s \in Socket, Fail(s)
  PROVE  IInv'
<1>1. Shape' /\ UNCHANGED <<serverVars, toServer, toBridge, bridgeVars, pageVars>>
  BY FailShape DEF IInv, Fail
<1>2. Stream'
  BY <1>1, StreamSame DEF IInv, serverVars, bridgeVars
<1>3. \A p : Asked(p)' = Asked(p) /\ Due(p)' = Due(p)
  BY <1>1, CountsSame DEF bridgeVars
<1>4. ClicksCounted'
  BY <1>1, <1>3 DEF IInv, ClicksCounted, Coming, pageVars, bridgeVars
<1> QED
  BY <1>1, <1>2, <1>4 DEF IInv

LEMMA CloseStep ==
  ASSUME IInv, NEW s \in Socket, OnClose(s)
  PROVE  IInv'
<1>1. /\ Shape' /\ tcp = s /\ tcp' = NoSocket /\ Discard(s) /\ BroadcastStatus("down")
      /\ UNCHANGED <<srvUp, ws, wsClients, clicks>>
  BY CloseShape DEF IInv, OnClose
<1>2. NoMixedFrames'
  BY <1>1 DEF NoMixedFrames
<1>3. WholeWhileServing'
  <2>1. \A r \in Socket : peer'[r] = "none"
    BY <1>1 DEF Discard, IInv, Shape, LinkTypes, OneConnection, FreshSockets
  <2> QED
    BY <2>1 DEF WholeWhileServing
<1>4. ClicksCounted'
  <2>1. ASSUME NEW p \in Page
        PROVE  /\ unanswered'[p] \in 0..MaxClicks
               /\ ws[p] # "open" => unanswered'[p] = 0
               /\ Coming(p)' <= unanswered'[p]
    <3>1. unanswered'[p] = IF ws[p] = "open" THEN Len(clicks[p]) ELSE unanswered[p]
      BY <1>1 DEF BroadcastStatus, Listening, IInv, Shape, PageTypes
    <3>2. /\ Len(clicks[p]) \in Nat /\ Len(clicks[p]) <= MaxClicks /\ MaxClicks \in Nat
          /\ unanswered[p] \in 0..MaxClicks /\ (ws[p] # "open" => unanswered[p] = 0)
      BY LenProperties, BridgeAssumption DEF IInv, ClicksCounted
    <3>3. Coming(p)' = IF ws[p] = "open" THEN Len(clicks[p]) ELSE 0
      BY <1>1 DEF Coming
    <3> QED
      BY <3>1, <3>2, <3>3
  <2>2. unanswered' \in [Page -> 0..MaxClicks]
    <3>1. unanswered' = [p \in Page |-> unanswered'[p]]
      BY <1>1 DEF BroadcastStatus
    <3> QED
      BY <2>1, <3>1
  <2> QED
    BY <1>1, <2>1, <2>2 DEF IInv, ClicksCounted
<1> QED
  BY <1>1, <1>2, <1>3, <1>4 DEF IInv, Stream

LEMMA StartStopStep ==
  ASSUME IInv, StartStop
  PROVE  IInv'
<1>1. UNCHANGED <<sock, bridgeVars, pageVars, peer, toServer, toBridge>> /\ srvUp' = ~srvUp
  BY DEF StartStop, ServerVarsOnly
<1>2. Shape'
  BY <1>1 DEF IInv, Shape, LinkTypes, PageTypes, OneConnection, FreshSockets, FreshBuffer,
              bridgeVars, pageVars
<1>3. Stream'
  BY <1>1, StreamSame DEF IInv, bridgeVars
<1>4. \A p : Asked(p)' = Asked(p) /\ Due(p)' = Due(p)
  BY <1>1, CountsSame DEF bridgeVars
<1>5. ClicksCounted'
  BY <1>1, <1>4 DEF IInv, ClicksCounted, Coming, pageVars, bridgeVars
<1> QED
  BY <1>2, <1>3, <1>5 DEF IInv

(* A click is counted when it is made. *)
LEMMA PageStep ==
  ASSUME IInv, NEW p \in Page,
         PageConnect(p) \/ OnConnection(p) \/ OnWsClose(p) \/ Click(p)
  PROVE  IInv'
<1>1. Shape' /\ UNCHANGED <<serverVars, linkVars, bridgeVars>>
  BY PageShape DEF IInv
<1>2. Stream'
  BY <1>1, StreamSame DEF IInv, serverVars, linkVars, bridgeVars
<1>3. \A q : Asked(q)' = Asked(q) /\ Due(q)' = Due(q)
  BY <1>1, CountsSame DEF bridgeVars, linkVars
<1>4. tcp' = tcp /\ MaxClicks \in Nat \ {0} /\ (tcp # NoSocket => \A q : Asked(q) \in Nat /\ Due(q) \in Nat)
  BY <1>1, BridgeAssumption, StreamFacts DEF bridgeVars, IInv, Stream
<1>5. CASE PageConnect(p)
  <2>1. ws[p] = "none" /\ ws' = [ws EXCEPT ![p] = "connecting"] /\ UNCHANGED <<clicks, unanswered>>
    BY <1>5 DEF PageConnect
  <2>2. \A q \in Page : Coming(q)' = Coming(q)
    BY <2>1 DEF IInv, Shape, PageTypes, Coming
  <2>3. ClicksCounted'
    BY <1>3, <1>4, <2>1, <2>2 DEF IInv, Shape, PageTypes, ClicksCounted
  <2> QED
    BY <1>1, <1>2, <2>3 DEF IInv
<1>6. CASE OnConnection(p)
  <2>1. ws[p] = "connecting" /\ ws' = [ws EXCEPT ![p] = "open"] /\ UNCHANGED <<clicks, unanswered>>
    BY <1>6 DEF OnConnection
  <2>2. \A q \in Page : Coming(q)' = Coming(q)
    <3>1. clicks[p] = <<>> /\ Len(<<>>) = 0
      BY <2>1 DEF IInv, ClicksCounted
    <3> QED
      BY <2>1, <3>1 DEF IInv, Shape, PageTypes, Coming
  <2>3. ClicksCounted'
    BY <1>3, <1>4, <2>1, <2>2 DEF IInv, Shape, PageTypes, ClicksCounted
  <2> QED
    BY <1>1, <1>2, <2>3 DEF IInv
<1>7. CASE OnWsClose(p)
  <2>1. /\ ws[p] = "broken" /\ ws' = [ws EXCEPT ![p] = "none"] /\ unanswered' = unanswered
        /\ clicks' = [clicks EXCEPT ![p] = <<>>]
    BY <1>7 DEF OnWsClose
  <2>2. \A q \in Page : Coming(q)' = Coming(q)
    BY <2>1 DEF IInv, Shape, PageTypes, ClicksCounted, Coming
  <2>3. <<>> \in Seq(Payload) /\ Len(<<>>) = 0
    BY EmptySeq
  <2>4. ClicksCounted'
    BY <1>3, <1>4, <2>1, <2>2, <2>3 DEF IInv, Shape, PageTypes, ClicksCounted
  <2> QED
    BY <1>1, <1>2, <2>4 DEF IInv
<1>8. CASE Click(p)
  <2>1. /\ ws[p] = "open" /\ unanswered[p] < MaxClicks /\ ws' = ws
        /\ unanswered' = [unanswered EXCEPT ![p] = @ + 1]
    BY <1>8 DEF Click
  <2>2. PICK c \in Payload : clicks' = [clicks EXCEPT ![p] = Append(@, c)]
    BY <1>8 DEF Click
  <2>3. /\ Append(clicks[p], c) \in Seq(Payload) /\ Len(Append(clicks[p], c)) = Len(clicks[p]) + 1
        /\ Len(clicks[p]) \in Nat /\ unanswered[p] \in 0..MaxClicks
    BY AppendProperties, LenProperties DEF IInv, ClicksCounted
  <2>4. clicks' \in [Page -> Seq(Payload)] /\ unanswered' \in [Page -> 0..MaxClicks]
    BY <1>4, <2>1, <2>2, <2>3 DEF IInv, ClicksCounted
  <2>5. ASSUME NEW q \in Page
        PROVE  /\ Len(clicks'[q]) <= MaxClicks
               /\ ws'[q] \in {"none", "connecting"} => clicks'[q] = <<>>
               /\ ws'[q] # "open" => unanswered'[q] = 0
               /\ Coming(q)' <= unanswered'[q]
               /\ tcp' # NoSocket => Coming(q)' + (Asked(q)' + Due(q)') <= unanswered'[q]
    <3>1. CASE q = p
      <4> DEFINE n == unanswered[p]
                 l == Len(clicks[p])
                 a == Asked(p) + Due(p)
      <4>1. /\ unanswered'[p] = n + 1 /\ Len(clicks'[p]) = l + 1 /\ Coming(p)' = l + 1 /\ Coming(p) = l
        BY <2>1, <2>2, <2>3 DEF IInv, ClicksCounted, Coming
      <4>2. /\ n \in Nat /\ l \in Nat /\ l <= n /\ n < MaxClicks /\ (tcp # NoSocket => a \in Nat /\ l + a <= n)
        BY <1>4, <2>1, <2>3, <4>1 DEF IInv, ClicksCounted
      <4>3. Asked(q)' + Due(q)' = a
        BY <1>3, <3>1
      <4> HIDE DEF n, l, a
      <4>4. l + 1 <= MaxClicks /\ l + 1 <= n + 1 /\ (tcp # NoSocket => (l + 1) + a <= n + 1)
        BY <1>4, <4>2
      <4> QED
        BY <1>4, <2>1, <3>1, <4>1, <4>3, <4>4
    <3>2. CASE q # p
      <4>1. clicks'[q] = clicks[q] /\ unanswered'[q] = unanswered[q] /\ Coming(q)' = Coming(q)
        BY <2>1, <2>2, <3>2 DEF IInv, ClicksCounted, Coming
      <4> QED
        BY <1>3, <1>4, <2>1, <4>1 DEF IInv, ClicksCounted
    <3> QED
      BY <3>1, <3>2
  <2>6. ClicksCounted'
    BY <2>4, <2>5 DEF ClicksCounted
  <2> QED
    BY <1>1, <1>2, <2>6 DEF IInv
<1> QED
  BY <1>5, <1>6, <1>7, <1>8

(* A page that goes takes what it was waiting for out of the count. *)
LEMMA BreakStep ==
  ASSUME IInv, NEW p \in Page, Break(p)
  PROVE  IInv'
<1>1. /\ ws[p] = "open" /\ ws' = [ws EXCEPT ![p] = "broken"]
      /\ unanswered' = [unanswered EXCEPT ![p] = 0]
      /\ UNCHANGED <<serverVars, sock, tcp, reconnectTimer, wsClients, clicks>>
  BY DEF Break
<1>2. \A s \in Socket : toServer'[s] = Disown(p, toServer[s]) /\ toBridge'[s] = Disown(p, toBridge[s])
  BY DEF Break
<1>3. tcpBuffer' = Disown(p, tcpBuffer)
  BY DEF Break
<1>4. Shape'
  BY BreakShape DEF IInv
<1>5. ASSUME NEW s \in Socket
      PROVE  LET t == tcpBuffer \o toBridge[s]
                 u == tcpBuffer' \o toBridge'[s]
             IN  /\ t \in Seq(Bytes) /\ u \in Seq(Bytes) /\ Len(u) = Len(t)
                 /\ \A i \in 1..Len(t) : u[i].part = t[i].part
                 /\ \A q \in Page : Cardinality(Marks(Last(q), u))
                                      = IF q = p THEN 0 ELSE Cardinality(Marks(Last(q), t))
  <2> DEFINE c == tcpBuffer
             w == toBridge[s]
             e == Disown(p, c)
             f == Disown(p, w)
             t == c \o w
             u == e \o f
  <2>1. c \in Seq(Bytes) /\ w \in Seq(Bytes)
    BY DEF IInv, Shape, LinkTypes
  <2>2. Disownable(Bytes)
    BY DisownedTypes
  <2>3. \A q \in Page : \A x \in Last(q) : x.for = q
    BY DEF Last, Byte
  <2> HIDE DEF c, w, e, f
  <2>4. ASSUME NEW z \in Seq(Bytes)
        PROVE  /\ Disown(p, z) \in Seq(Bytes) /\ Len(Disown(p, z)) = Len(z)
               /\ \A i \in 1..Len(z) : Disown(p, z)[i].part = z[i].part
               /\ \A q \in Page : Cardinality(Marks(Last(q), Disown(p, z)))
                                    = IF q = p THEN 0 ELSE Cardinality(Marks(Last(q), z))
    <3>1. /\ Disown(p, z) \in Seq(Bytes) /\ Len(Disown(p, z)) = Len(z)
          /\ \A i \in 1..Len(z) :
                Disown(p, z)[i] = IF z[i].for = p THEN [z[i] EXCEPT !.for = Nobody] ELSE z[i]
      BY <2>2, Disowned
    <3>2. \A i \in 1..Len(z) : z[i] \in Bytes
      BY ElementOfSeq
    <3>3. \A i \in 1..Len(z) : Disown(p, z)[i].part = z[i].part
      BY <3>1, <3>2, DisownedTypes
    <3>4. ASSUME NEW q \in Page
          PROVE  Cardinality(Marks(Last(q), Disown(p, z)))
                   = IF q = p THEN 0 ELSE Cardinality(Marks(Last(q), z))
      BY <2>2, <2>3, DisownedMarks
    <3> QED
      BY <3>1, <3>3, <3>4
  <2>5. /\ e \in Seq(Bytes) /\ Len(e) = Len(c) /\ \A i \in 1..Len(c) : e[i].part = c[i].part
        /\ \A q \in Page : Cardinality(Marks(Last(q), e))
                             = IF q = p THEN 0 ELSE Cardinality(Marks(Last(q), c))
    BY <2>1, <2>4 DEF e
  <2>6. /\ f \in Seq(Bytes) /\ Len(f) = Len(w) /\ \A i \in 1..Len(w) : f[i].part = w[i].part
        /\ \A q \in Page : Cardinality(Marks(Last(q), f))
                             = IF q = p THEN 0 ELSE Cardinality(Marks(Last(q), w))
    BY <2>1, <2>4 DEF f
  <2>7. /\ t \in Seq(Bytes) /\ Len(t) = Len(c) + Len(w)
        /\ \A i \in 1..(Len(c) + Len(w)) : t[i] = IF i <= Len(c) THEN c[i] ELSE w[i - Len(c)]
    BY <2>1, ConcatProperties
  <2>8. /\ u \in Seq(Bytes) /\ Len(u) = Len(e) + Len(f)
        /\ \A i \in 1..(Len(e) + Len(f)) : u[i] = IF i <= Len(e) THEN e[i] ELSE f[i - Len(e)]
    <3>1. e \in Seq(Bytes) /\ f \in Seq(Bytes)
      BY <2>5, <2>6
    <3> QED
      BY <3>1, ConcatProperties
  <2>9. Len(c) \in Nat /\ Len(w) \in Nat
    BY <2>1, LenProperties
  <2>10. \A q : Cardinality(Marks(Last(q), t)) = Cardinality(Marks(Last(q), c)) + Cardinality(Marks(Last(q), w))
    BY <2>1, MarksConcat
  <2>11. \A q : Cardinality(Marks(Last(q), u)) = Cardinality(Marks(Last(q), e)) + Cardinality(Marks(Last(q), f))
    BY <2>5, <2>6, MarksConcat
  <2> HIDE DEF t, u
  <2>12. \A i \in 1..Len(t) : u[i].part = t[i].part
    <3>1. ASSUME NEW i \in 1..Len(t)
          PROVE  u[i].part = t[i].part
      <4>1. CASE i <= Len(c)
        <5>1. i \in 1..Len(c) /\ i \in 1..(Len(c) + Len(w))
          BY <2>7, <2>9, <4>1
        <5> QED
          BY <2>5, <2>6, <2>7, <2>8, <4>1, <5>1
      <4>2. CASE ~(i <= Len(c))
        <5>1. i - Len(c) \in 1..Len(w) /\ i \in 1..(Len(c) + Len(w))
          BY <2>7, <2>9, <4>2
        <5> QED
          BY <2>5, <2>6, <2>7, <2>8, <4>2, <5>1
      <4> QED
        BY <4>1, <4>2
    <3> QED
      BY <3>1
  <2>13. \A q \in Page : Cardinality(Marks(Last(q), u))
                           = IF q = p THEN 0 ELSE Cardinality(Marks(Last(q), t))
    <3>1. 0 + 0 = 0
      OBVIOUS
    <3> QED
      BY <2>5, <2>6, <2>10, <2>11, <3>1
  <2> QED
    BY <1>2, <1>3, <2>5, <2>6, <2>7, <2>8, <2>12, <2>13 DEF c, w, e, f, t, u
<1>6. NoMixedFrames'
  <2>1. CASE tcp = NoSocket
    BY <1>1, <2>1 DEF NoMixedFrames
  <2>2. CASE tcp # NoSocket
    <3> DEFINE t == tcpBuffer \o toBridge[tcp]
               u == tcpBuffer' \o toBridge'[tcp]
    <3>1. tcp \in Socket /\ t \in Seq(Bytes) /\ InPlace(t)
      BY <2>2, StreamFacts DEF IInv, Stream
    <3>2. u \in Seq(Bytes) /\ Len(u) = Len(t) /\ \A i \in 1..Len(t) : u[i].part = t[i].part
      BY <1>5, <3>1
    <3>3. tcpBuffer' \o toBridge'[tcp'] = u
      BY <1>1
    <3> HIDE DEF t, u
    <3>4. InPlace(u)
      BY <3>1, <3>2 DEF InPlace
    <3>5. \A i \in DOMAIN u : u[i].part = ((i - 1) % FrameSize) + 1
      BY <3>2, <3>4, Placed
    <3> QED
      BY <3>3, <3>5, Zenon DEF NoMixedFrames
  <2> QED
    BY <2>1, <2>2
<1>7. WholeWhileServing'
  <2>1. ASSUME NEW s \in Socket, peer'[s] = "serving"
        PROVE  \E n \in Nat : Len(tcpBuffer' \o toBridge'[s]) = FrameSize * n
    <3>1. \E n \in Nat : Len(tcpBuffer \o toBridge[s]) = FrameSize * n
      BY <1>1, <2>1 DEF IInv, Stream, WholeWhileServing, serverVars
    <3>2. Len(tcpBuffer' \o toBridge'[s]) = Len(tcpBuffer \o toBridge[s])
      BY <1>5
    <3> QED
      BY <3>1, <3>2, Zenon
  <2> QED
    BY <2>1 DEF WholeWhileServing
<1>8. ClicksCounted'
  <2>1. ASSUME NEW q \in Page
        PROVE  /\ Coming(q)' = IF q = p THEN 0 ELSE Coming(q)
               /\ tcp # NoSocket => /\ Asked(q)' = IF q = p THEN 0 ELSE Asked(q)
                                    /\ Due(q)' = IF q = p THEN 0 ELSE Due(q)
    <3>1. Coming(q)' = IF q = p THEN 0 ELSE Coming(q)
      BY <1>1 DEF Coming, IInv, Shape, PageTypes
    <3>2. ASSUME tcp # NoSocket
          PROVE  Asked(q)' = IF q = p THEN 0 ELSE Asked(q)
      <4> DEFINE w == toServer[tcp]
                 E == RequestsOf(q)
      <4>1. w \in Seq(Request) /\ tcp \in Socket
        BY <3>2 DEF IInv, Shape, LinkTypes
      <4>2. \A x \in E : x.for = q
        BY DEF RequestsOf
      <4>3. toServer'[tcp'] = Disown(p, w)
        BY <1>1, <1>2, <4>1
      <4>4. Disownable(Request)
        BY DisownedTypes
      <4>5. Asked(q)' = Cardinality(Marks(E, toServer'[tcp'])) /\ Asked(q) = Cardinality(Marks(E, w))
        BY DEF Asked, RequestsOf, Request, Owner, Message
      <4> HIDE DEF w, E
      <4>6. Cardinality(Marks(E, Disown(p, w))) = IF q = p THEN 0 ELSE Cardinality(Marks(E, w))
        BY <4>1, <4>2, <4>4, DisownedMarks
      <4> QED
        BY <4>3, <4>5, <4>6, Zenon
    <3>3. ASSUME tcp # NoSocket
          PROVE  Due(q)' = IF q = p THEN 0 ELSE Due(q)
      <4> DEFINE t == tcpBuffer \o toBridge[tcp]
                 u == tcpBuffer' \o toBridge'[tcp]
      <4>1. tcp \in Socket
        BY <3>3 DEF IInv, Shape, LinkTypes
      <4>2. Cardinality(Marks(Last(q), u)) = IF q = p THEN 0 ELSE Cardinality(Marks(Last(q), t))
        BY <1>5, <4>1
      <4>3. Due(q)' = Cardinality(Marks(Last(q), u)) /\ Due(q) = Cardinality(Marks(Last(q), t))
        BY <1>1 DEF Due, Last, Byte
      <4> QED
        BY <4>2, <4>3, Zenon
    <3> QED
      BY <3>1, <3>2, <3>3
  <2>2. /\ MaxClicks \in Nat /\ 0 \in 0..MaxClicks /\ 0 <= 0 /\ 0 + (0 + 0) = 0
        /\ \A q \in Page : unanswered'[q] = IF q = p THEN 0 ELSE unanswered[q]
        /\ unanswered' \in [Page -> 0..MaxClicks]
    BY <1>1, BridgeAssumption DEF IInv, ClicksCounted
  <2>3. ASSUME NEW q \in Page
        PROVE  /\ Len(clicks'[q]) <= MaxClicks
               /\ ws'[q] \in {"none", "connecting"} => clicks'[q] = <<>>
               /\ ws'[q] # "open" => unanswered'[q] = 0
               /\ Coming(q)' <= unanswered'[q]
               /\ tcp' # NoSocket => Coming(q)' + (Asked(q)' + Due(q)') <= unanswered'[q]
    <3>1. CASE q = p
      <4>1. /\ Coming(q)' = 0 /\ unanswered'[q] = 0
            /\ tcp' # NoSocket => Asked(q)' = 0 /\ Due(q)' = 0
        BY <1>1, <2>1, <2>2, <3>1
      <4>2. ws'[q] = "broken"
        BY <1>1, <3>1 DEF IInv, Shape, PageTypes
      <4> QED
        BY <1>1, <2>2, <4>1, <4>2 DEF IInv, ClicksCounted
    <3>2. CASE q # p
      <4>1. /\ Coming(q)' = Coming(q) /\ unanswered'[q] = unanswered[q] /\ clicks'[q] = clicks[q]
            /\ tcp' # NoSocket => tcp # NoSocket /\ Asked(q)' = Asked(q) /\ Due(q)' = Due(q)
        BY <1>1, <2>1, <2>2, <3>2
      <4>2. ws'[q] = ws[q]
        BY <1>1, <3>2 DEF IInv, Shape, PageTypes
      <4> QED
        BY <4>1, <4>2 DEF IInv, ClicksCounted
    <3> QED
      BY <3>1, <3>2
  <2> QED
    BY <1>1, <2>2, <2>3 DEF IInv, ClicksCounted
<1> QED
  BY <1>4, <1>6, <1>7, <1>8 DEF IInv, Stream

(* The bridge turns a click into a request or into an answer of its own. *)
LEMMA MessageStep ==
  ASSUME IInv, NEW p \in Page, OnMessage(p)
  PROVE  IInv'
<1> DEFINE h == Head(clicks[p])
           l == Len(Tail(clicks[p]))
<1>1. /\ clicks' = [clicks EXCEPT ![p] = Tail(@)] /\ p \in wsClients
      /\ UNCHANGED <<serverVars, sock, toBridge, bridgeVars, ws, wsClients, status>>
  BY DEF OnMessage
<1>2. /\ Shape' /\ h \in Payload /\ Tail(clicks[p]) \in Seq(Payload)
      /\ Len(clicks[p]) = l + 1 /\ l \in Nat
      /\ \/ Supported(h) /\ Forward(p, h)
         \/ Refuse(p)
  <2>1. clicks \in [Page -> Seq(Payload)] /\ Shape
    BY DEF IInv, ClicksCounted
  <2> QED
    BY <2>1, MessageShape
<1> HIDE DEF h, l
<1>3. Stream'
  BY <1>1, StreamSame DEF IInv, serverVars, bridgeVars
<1>4. /\ clicks' \in [Page -> Seq(Payload)] /\ Len(clicks'[p]) = l
      /\ \A q \in Page : q # p => clicks'[q] = clicks[q]
      /\ ws[p] \in {"open", "broken"} /\ ws' = ws /\ tcp' = tcp
  BY <1>1, <1>2 DEF IInv, ClicksCounted, Shape, PageTypes, bridgeVars, l
(* One click less to come, and either one request more or one click less   *)
(* to wait for.                                                            *)
<1>5. ASSUME NEW q \in Page
      PROVE  /\ q # p => unanswered'[q] = unanswered[q]
             /\ ws[q] # "open" => unanswered'[q] = unanswered[q]
             /\ unanswered' \in [Page -> Int]
             /\ unanswered'[q] \in {unanswered[q], unanswered[q] - 1}
             /\ tcp # NoSocket => /\ Due(q)' = Due(q)
                                  /\ Asked(q)' \in {Asked(q), Asked(q) + 1}
                                  /\ Asked(q)' # Asked(q) => q = p /\ ws[q] = "open"
             /\ q = p /\ ws[p] = "open" =>
                   \/ unanswered'[q] = unanswered[q] - 1
                      /\ (tcp # NoSocket => Asked(q)' = Asked(q))
                   \/ unanswered'[q] = unanswered[q]
  <2>1. unanswered \in [Page -> Int] /\ \A x \in Page : unanswered[x] \in Int
    BY DEF IInv, ClicksCounted
  <2>2. Due(q)' = Due(q)
    BY <1>1 DEF Due, Last, Byte, bridgeVars
  <2>3. tcp # NoSocket => Asked(q) \in Nat
    BY StreamFacts DEF IInv, Stream
  <2>4. CASE Supported(h) /\ Forward(p, h)
    <3>1. tcp \in Socket
      BY <1>2, <2>4, ForwardShape DEF IInv
    <3>2. PICK r \in Request :
             /\ toServer' = [toServer EXCEPT ![tcp] = Append(@, r)]
             /\ \A x \in Page : r \in RequestsOf(x) => x = p /\ ws[p] # "broken" /\ ~Full(tcp)
      BY <1>2, <2>4, ForwardShape DEF IInv
    <3>3. unanswered' = IF ws[p] = "open" /\ Full(tcp)
                        THEN [unanswered EXCEPT ![p] = @ - 1] ELSE unanswered
      BY <2>4 DEF Forward
    <3>4. Asked(q)' = Asked(q) + (IF r \in RequestsOf(q) THEN 1 ELSE 0)
      <4> DEFINE w == toServer[tcp]
                 E == RequestsOf(q)
      <4>1. w \in Seq(Request) /\ toServer'[tcp'] = Append(w, r)
        BY <1>4, <3>1, <3>2 DEF IInv, Shape, LinkTypes
      <4>2. Asked(q)' = Cardinality(Marks(E, toServer'[tcp'])) /\ Asked(q) = Cardinality(Marks(E, w))
        BY DEF Asked, RequestsOf, Request, Owner, Message
      <4> HIDE DEF w, E
      <4>3. Cardinality(Marks(E, Append(w, r))) = Cardinality(Marks(E, w)) + (IF r \in E THEN 1 ELSE 0)
        BY <4>1, MarksAppended
      <4>4. Asked(q)' = Asked(q) + (IF r \in E THEN 1 ELSE 0)
        BY <4>1, <4>2, <4>3, Zenon
      <4> QED
        BY <4>4 DEF E
    <3>5. CASE r \in RequestsOf(q)
      <4>1. q = p /\ ws[q] = "open" /\ unanswered' = unanswered
        BY <1>4, <3>2, <3>3, <3>5
      <4>2. Asked(q)' = Asked(q) + 1
        BY <3>4, <3>5
      <4> QED
        BY <2>1, <2>2, <4>1, <4>2
    <3>6. CASE r \notin RequestsOf(q)
      <4>1. tcp # NoSocket => Asked(q)' = Asked(q)
        BY <2>3, <3>4, <3>6
      <4> QED
        BY <2>1, <2>2, <3>3, <4>1
    <3> QED
      BY <3>5, <3>6
  <2>5. CASE Refuse(p)
    <3>1. /\ toServer' = toServer
          /\ unanswered' = IF ws[p] = "open" THEN [unanswered EXCEPT ![p] = @ - 1] ELSE unanswered
      BY <2>5 DEF Refuse
    <3>2. Asked(q)' = Asked(q)
      BY <1>4, <3>1 DEF Asked, RequestsOf, Request, Owner, Message
    <3> QED
      BY <2>1, <2>2, <3>1, <3>2
  <2> QED
    BY <1>2, <2>4, <2>5
<1>6. ASSUME NEW q \in Page
      PROVE  /\ Len(clicks'[q]) <= MaxClicks
             /\ ws'[q] \in {"none", "connecting"} => clicks'[q] = <<>>
             /\ ws'[q] # "open" => unanswered'[q] = 0
             /\ Coming(q)' <= unanswered'[q]
             /\ tcp' # NoSocket => Coming(q)' + (Asked(q)' + Due(q)') <= unanswered'[q]
             /\ unanswered'[q] \in 0..MaxClicks
  <2>1. /\ Len(clicks[q]) <= MaxClicks /\ unanswered[q] \in 0..MaxClicks
        /\ ws[q] \in {"none", "connecting"} => clicks[q] = <<>>
        /\ ws[q] # "open" => unanswered[q] = 0
        /\ Coming(q) <= unanswered[q]
        /\ tcp # NoSocket => /\ Coming(q) + (Asked(q) + Due(q)) <= unanswered[q]
                             /\ Asked(q) \in Nat /\ Due(q) \in Nat
        /\ MaxClicks \in Nat
    BY StreamFacts, BridgeAssumption DEF IInv, Stream, ClicksCounted
  <2>2. CASE q = p /\ ws[p] = "open"
    <3> DEFINE n == unanswered[q]
               m == unanswered'[q]
               a == Asked(q)
               b == Asked(q)'
               e == Due(q)
    <3>1. Coming(q) = l + 1 /\ Coming(q)' = l /\ l \in Nat
      BY <1>2, <1>4, <2>2 DEF Coming
    <3>2. /\ l + 1 <= MaxClicks /\ n \in 0..MaxClicks /\ l + 1 <= n /\ MaxClicks \in Nat
          /\ tcp # NoSocket => (l + 1) + (a + e) <= n /\ a \in Nat /\ e \in Nat
      BY <1>2, <2>1, <2>2, <3>1
    <3>3. /\ (m = n - 1 /\ (tcp # NoSocket => b = a)) \/ m = n
          /\ tcp # NoSocket => b \in {a, a + 1} /\ Due(q)' = e
      BY <1>5, <2>2
    <3> HIDE DEF n, m, a, b, e
    <3>4. m \in 0..MaxClicks /\ l <= MaxClicks /\ l <= m
      BY <1>2, <3>2, <3>3
    <3>5. tcp # NoSocket => l + (b + e) <= m
      <4>1. CASE tcp # NoSocket /\ m = n - 1 /\ b = a
        BY <1>2, <3>2, <4>1
      <4>2. CASE tcp # NoSocket /\ m = n /\ b \in {a, a + 1}
        BY <1>2, <3>2, <4>2
      <4> QED
        BY <3>3, <4>1, <4>2
    <3>6. Len(clicks'[q]) = l /\ ws'[q] = "open" /\ tcp' = tcp
      BY <1>4, <2>2
    <3>7. tcp # NoSocket => Due(q)' = e
      BY <3>3
    <3> QED
      BY <3>1, <3>4, <3>5, <3>6, <3>7 DEF m, b
  <2>3. CASE ~(q = p /\ ws[p] = "open")
    <3>1. /\ unanswered'[q] = unanswered[q]
          /\ tcp # NoSocket => Due(q)' = Due(q) /\ Asked(q)' = Asked(q)
      BY <1>5, <2>3
    <3>2. Coming(q)' = Coming(q)
      BY <1>4, <2>3 DEF Coming
    <3>3. Len(clicks'[q]) <= MaxClicks
      BY <1>2, <1>4, <2>1
    <3>4. ws'[q] \in {"none", "connecting"} => clicks'[q] = <<>>
      BY <1>4, <2>1
    <3> QED
      BY <1>4, <2>1, <3>1, <3>2, <3>3, <3>4
  <2> QED
    BY <2>2, <2>3
<1>7. unanswered' \in [Page -> 0..MaxClicks]
  <2>1. unanswered' \in [Page -> Int]
    BY <1>1, <1>5
  <2> QED
    BY <1>6, <2>1
<1>8. ClicksCounted'
  BY <1>4, <1>6, <1>7 DEF ClicksCounted
<1> QED
  BY <1>2, <1>3, <1>8 DEF IInv

(* A message behind whole messages. *)
LEMMA FrameSent ==
  ASSUME NEW c \in Seq(Bytes), NEW w \in Seq(Bytes), InPlace(c \o w),
         NEW n \in Nat, Len(c \o w) = FrameSize * n, NEW q \in Owner
  PROVE  /\ c \o (w \o Frame(q)) \in Seq(Bytes) /\ InPlace(c \o (w \o Frame(q)))
         /\ \E m \in Nat : Len(c \o (w \o Frame(q))) = FrameSize * m
         /\ \A p : Cardinality(Marks(Last(p), c \o (w \o Frame(q))))
                     = Cardinality(Marks(Last(p), c \o w)) + (IF p = q THEN 1 ELSE 0)
<1> DEFINE t == c \o w
           f == Frame(q)
           u == t \o f
<1>1. /\ f \in Seq(Bytes) /\ Len(f) = FrameSize /\ \A i \in 1..FrameSize : f[i] = Byte(q, i)
      /\ \A p : Cardinality(Marks(Last(p), f)) = IF p = q THEN 1 ELSE 0
  BY FrameProperties
<1>2. FrameSize \in Nat \ {0} /\ t \in Seq(Bytes)
  BY BridgeAssumption, ConcatProperties
<1>3. InPlace(t) /\ Len(t) = FrameSize * n
  OBVIOUS
<1> HIDE DEF f
<1>4. c \o (w \o f) = u
  <2>1. c \in Seq(Bytes) /\ w \in Seq(Bytes) /\ f \in Seq(Bytes)
    BY <1>1
  <2> QED
    BY <2>1, ConcatAssociative
<1> HIDE DEF t
<1>5. /\ u \in Seq(Bytes) /\ Len(u) = Len(t) + FrameSize
      /\ \A i \in 1..(Len(t) + FrameSize) : u[i] = IF i <= Len(t) THEN t[i] ELSE f[i - Len(t)]
  BY <1>1, <1>2, ConcatProperties
<1> HIDE DEF u
<1>6. InPlace(u)
  <2>1. ASSUME NEW i \in 1..Len(u)
        PROVE  u[i].part = ((i - 1) % FrameSize) + 1
    <3>1. Len(t) \in Nat /\ i \in 1..(Len(t) + FrameSize)
      BY <1>2, <1>5, LenProperties
    <3>2. CASE i <= Len(t)
      <4>1. i \in 1..Len(t) /\ u[i] = t[i]
        BY <1>5, <3>1, <3>2
      <4> QED
        BY <1>3, <4>1 DEF InPlace
    <3>3. CASE ~(i <= Len(t))
      <4> DEFINE k == i - Len(t)
                 z == FrameSize * n
      <4>1. k \in 1..FrameSize /\ u[i] = f[k]
        BY <1>2, <1>5, <3>1, <3>3
      <4>2. u[i].part = k
        <5> HIDE DEF k
        <5>1. f[k] = Byte(q, k)
          BY <1>1, <4>1
        <5> QED
          BY <4>1, <5>1 DEF Byte
      <4>3. i - 1 = FrameSize * n + (k - 1) /\ k - 1 \in 0..(FrameSize - 1)
        <5>1. Len(t) = z /\ z \in Nat
          BY <1>3, <3>1
        <5> HIDE DEF z
        <5>2. i - 1 = z + (k - 1)
          BY <3>1, <5>1
        <5>3. k - 1 \in 0..(FrameSize - 1)
          <6> HIDE DEF k
          <6> QED
            BY <1>2, <4>1
        <5> QED
          BY <5>2, <5>3 DEF z
      <4> HIDE DEF k
      <4>4. (FrameSize * n + (k - 1)) % FrameSize = k - 1
        BY <1>2, <4>3, Quotient
      <4>5. (k - 1) + 1 = k
        BY <1>2, <4>1
      <4> QED
        BY <4>2, <4>3, <4>4, <4>5
    <3> QED
      BY <3>2, <3>3
  <2> QED
    BY <2>1 DEF InPlace
<1>7. Len(u) = FrameSize * (n + 1) /\ n + 1 \in Nat
  <2>1. FrameSize * (n + 1) = FrameSize * n + FrameSize
    BY <1>2
  <2> QED
    BY <1>3, <1>5, <2>1
<1>8. \A p : Cardinality(Marks(Last(p), u)) = Cardinality(Marks(Last(p), t)) + Cardinality(Marks(Last(p), f))
  BY <1>1, <1>2, MarksConcat DEF u
<1>9. \E m \in Nat : Len(u) = FrameSize * m
  BY <1>7, Zenon
<1>10. \A p : Cardinality(Marks(Last(p), u)) = Cardinality(Marks(Last(p), t)) + (IF p = q THEN 1 ELSE 0)
  BY <1>1, <1>8
<1> QED
  BY <1>4, <1>5, <1>6, <1>9, <1>10 DEF t, f

(* A prefix of the stream is in place, too, and marks no more. *)
LEMMA Truncated ==
  ASSUME NEW c \in Seq(Bytes), NEW w \in Seq(Bytes), InPlace(c \o w), NEW k \in 0..Len(w)
  PROVE  /\ c \o SubSeq(w, 1, k) \in Seq(Bytes) /\ InPlace(c \o SubSeq(w, 1, k))
         /\ \A p : Cardinality(Marks(Last(p), c \o SubSeq(w, 1, k)))
                     <= Cardinality(Marks(Last(p), c \o w))
<1> DEFINE v == SubSeq(w, 1, k)
           t == c \o w
           u == c \o v
<1>1. /\ v \in Seq(Bytes) /\ Len(v) = k /\ \A i \in 1..k : v[i] = w[i]
      /\ \A p : Cardinality(Marks(Last(p), v)) \in 0..Cardinality(Marks(Last(p), w))
  BY MarksPrefix
<1>2. Len(c) \in Nat /\ Len(w) \in Nat /\ k \in Nat /\ k <= Len(w)
  BY LenProperties
<1> HIDE DEF v
<1>3. /\ u \in Seq(Bytes) /\ Len(u) = Len(c) + Len(v)
      /\ \A i \in 1..(Len(c) + Len(v)) : u[i] = IF i <= Len(c) THEN c[i] ELSE v[i - Len(c)]
  BY <1>1, ConcatProperties
<1>4. /\ t \in Seq(Bytes) /\ Len(t) = Len(c) + Len(w)
      /\ \A i \in 1..(Len(c) + Len(w)) : t[i] = IF i <= Len(c) THEN c[i] ELSE w[i - Len(c)]
  BY ConcatProperties
<1>5. \A p : /\ Cardinality(Marks(Last(p), u)) = Cardinality(Marks(Last(p), c)) + Cardinality(Marks(Last(p), v))
             /\ Cardinality(Marks(Last(p), t)) = Cardinality(Marks(Last(p), c)) + Cardinality(Marks(Last(p), w))
             /\ Cardinality(Marks(Last(p), c)) \in Nat /\ Cardinality(Marks(Last(p), w)) \in Nat
  BY <1>1, MarksConcat, MarksFinite
<1>6. InPlace(t)
  OBVIOUS
<1> HIDE DEF t, u
<1>7. InPlace(u)
  <2>1. ASSUME NEW i \in 1..Len(u)
        PROVE  i \in 1..Len(t) /\ u[i] = t[i]
    <3>1. i \in 1..(Len(c) + Len(v)) /\ i \in 1..(Len(c) + Len(w)) /\ (~(i <= Len(c)) => i - Len(c) \in 1..k)
      BY <1>1, <1>2, <1>3
    <3> QED
      BY <1>1, <1>3, <1>4, <3>1
  <2> QED
    BY <1>6, <2>1 DEF InPlace
<1>8. \A p : Cardinality(Marks(Last(p), u)) <= Cardinality(Marks(Last(p), t))
  BY <1>1, <1>5
<1> QED
  BY <1>3, <1>7, <1>8 DEF t, u, v

(* What the server's steps leave of the stream and of what is asked and due. *)
LEMMA ServerStream ==
  ASSUME IInv, NEW s \in Socket, Answer(s) \/ Event(s) \/ HangUp(s) \/ Vanish(s)
  PROVE  LET u == tcpBuffer \o toBridge'[s]
         IN  /\ u \in Seq(Bytes) /\ InPlace(u)
             /\ peer'[s] = "serving" => \E m \in Nat : Len(u) = FrameSize * m
             /\ \A r \in Socket : r # s => peer'[r] = peer[r] /\ toBridge'[r] = toBridge[r]
             /\ \A q \in Page : Cardinality(Marks(RequestsOf(q), toServer'[s]))
                                  + Cardinality(Marks(Last(q), u)) <= Asked(q) + Due(q)
<1> DEFINE c == tcpBuffer
           w == toBridge[s]
           t == c \o w
           x == toServer[s]
<1>1. tcp = s /\ tcp # NoSocket /\ peer[s] = "serving"
  BY ServerShape, BridgeAssumption DEF IInv
<1>2. /\ x \in Seq(Request) /\ w \in Seq(Bytes) /\ c \in Seq(Bytes) /\ t \in Seq(Bytes) /\ InPlace(t)
      /\ \A q : Asked(q) \in Nat /\ Due(q) \in Nat
  BY <1>1, StreamFacts DEF IInv, Stream
<1>3. /\ \A q : Asked(q) = Cardinality(Marks(RequestsOf(q), x))
      /\ \A q : Due(q) = Cardinality(Marks(Last(q), t))
  BY <1>1 DEF Asked, Due
<1>4. PICK n \in Nat : Len(t) = FrameSize * n
  BY <1>1 DEF IInv, Stream, WholeWhileServing
<1>5. toServer \in [Socket -> Seq(Request)] /\ toBridge \in [Socket -> Seq(Bytes)]
      /\ peer \in [Socket -> {"none", "serving", "gone", "silent"}]
  BY DEF IInv, Shape, LinkTypes
<1>6. CASE Answer(s)
  <2> DEFINE r == Head(x)
             q == r.for
  <2>1. /\ x # <<>> /\ peer' = peer /\ toBridge' = [toBridge EXCEPT ![s] = w \o Frame(q)]
        /\ toServer' = [toServer EXCEPT ![s] = Tail(x)]
    BY <1>6 DEF Answer, Sends, serverVars
  <2>2. r \in Request /\ q \in Owner
    <3>1. r \in Request
      BY <1>2, <2>1, HeadTailProperties
    <3> QED
      BY <3>1 DEF Request
  <2>3. /\ c \o (w \o Frame(q)) \in Seq(Bytes) /\ InPlace(c \o (w \o Frame(q)))
        /\ \E m \in Nat : Len(c \o (w \o Frame(q))) = FrameSize * m
        /\ \A p : Cardinality(Marks(Last(p), c \o (w \o Frame(q))))
                    = Cardinality(Marks(Last(p), t)) + (IF p = q THEN 1 ELSE 0)
    <3> HIDE DEF q, c, w
    <3> QED
      BY <1>2, <1>4, <2>2, FrameSent
  <2>4. toBridge'[s] = w \o Frame(q) /\ toServer'[s] = Tail(x)
        /\ \A y \in Socket : y # s => toBridge'[y] = toBridge[y]
    BY <1>5, <2>1
  <2>5. ASSUME NEW p \in Page
        PROVE  Cardinality(Marks(RequestsOf(p), Tail(x)))
                 + Cardinality(Marks(Last(p), c \o (w \o Frame(q)))) <= Asked(p) + Due(p)
    <3> DEFINE a == Cardinality(Marks(RequestsOf(p), Tail(x)))
               e == Due(p)
    <3>1. a \in Nat
      <4>1. Tail(x) \in Seq(Request)
        BY <1>2, <2>1, HeadTailProperties
      <4> QED
        BY <4>1, MarksFinite
    <3>2. Asked(p) = a + (IF r \in RequestsOf(p) THEN 1 ELSE 0)
      <4> HIDE DEF x
      <4>1. Cardinality(Marks(RequestsOf(p), x))
              = Cardinality(Marks(RequestsOf(p), Tail(x))) + (IF Head(x) \in RequestsOf(p) THEN 1 ELSE 0)
        BY <1>2, <2>1, MarksTaken
      <4> QED
        BY <1>3, <4>1
    <3>3. r \in RequestsOf(p) <=> p = q
      BY <2>2 DEF RequestsOf
    <3>4. Cardinality(Marks(Last(p), c \o (w \o Frame(q)))) = e + (IF p = q THEN 1 ELSE 0)
      BY <1>3, <2>3
    <3>5. e \in Nat
      BY <1>2
    <3> HIDE DEF a, e, q, r
    <3>6. a + (e + (IF p = q THEN 1 ELSE 0)) <= (a + (IF p = q THEN 1 ELSE 0)) + e
      BY <3>1, <3>5
    <3> QED
      BY <3>2, <3>3, <3>4, <3>6 DEF a, e
  <2> HIDE DEF q
  <2> QED
    BY <2>1, <2>3, <2>4, <2>5
<1>7. CASE Event(s)
  <2>1. /\ peer' = peer /\ toServer' = toServer /\ toBridge' = [toBridge EXCEPT ![s] = w \o Frame(Nobody)]
    BY <1>7 DEF Event, Sends, serverVars
  <2>2. Nobody \in Owner /\ Nobody \notin Page
    BY BridgeAssumption DEF Owner
  <2>3. /\ c \o (w \o Frame(Nobody)) \in Seq(Bytes) /\ InPlace(c \o (w \o Frame(Nobody)))
        /\ \E m \in Nat : Len(c \o (w \o Frame(Nobody))) = FrameSize * m
        /\ \A p : Cardinality(Marks(Last(p), c \o (w \o Frame(Nobody))))
                    = Cardinality(Marks(Last(p), t)) + (IF p = Nobody THEN 1 ELSE 0)
    <3> HIDE DEF c, w
    <3> QED
      BY <1>2, <1>4, <2>2, FrameSent
  <2>4. toBridge'[s] = w \o Frame(Nobody) /\ toServer'[s] = x
        /\ \A y \in Socket : y # s => toBridge'[y] = toBridge[y]
    BY <1>5, <2>1
  <2>5. \A p \in Page : Cardinality(Marks(Last(p), c \o (w \o Frame(Nobody)))) = Due(p)
    BY <1>2, <1>3, <2>2, <2>3
  <2>6. \A p \in Page : Cardinality(Marks(RequestsOf(p), x))
                          + Cardinality(Marks(Last(p), c \o (w \o Frame(Nobody)))) <= Asked(p) + Due(p)
    BY <1>2, <1>3, <2>5
  <2> QED
    BY <2>1, <2>3, <2>4, <2>6
<1>8. CASE HangUp(s)
  <2>1. peer' = [peer EXCEPT ![s] = "gone"] /\ toServer' = toServer
    BY <1>8 DEF HangUp
  <2>2. PICK k \in 0..Len(w) : toBridge' = [toBridge EXCEPT ![s] = SubSeq(w, 1, k)]
    BY <1>8 DEF HangUp
  <2> DEFINE v == SubSeq(w, 1, k)
  <2>3. /\ c \o v \in Seq(Bytes) /\ InPlace(c \o v)
        /\ \A p : Cardinality(Marks(Last(p), c \o v)) <= Cardinality(Marks(Last(p), t))
    <3> HIDE DEF c, w
    <3> QED
      BY <1>2, Truncated
  <2>4. \A p : Cardinality(Marks(Last(p), c \o v)) \in Nat
    BY <2>3, MarksFinite
  <2> HIDE DEF v
  <2>5. toBridge'[s] = v /\ toServer'[s] = x /\ peer'[s] = "gone"
        /\ \A y \in Socket : y # s => toBridge'[y] = toBridge[y] /\ peer'[y] = peer[y]
    BY <1>5, <2>1, <2>2 DEF v
  <2>6. \A p \in Page : Cardinality(Marks(RequestsOf(p), x)) + Cardinality(Marks(Last(p), c \o v)) <= Asked(p) + Due(p)
    BY <1>2, <1>3, <2>3, <2>4
  <2> QED
    BY <2>3, <2>5, <2>6
<1>9. CASE Vanish(s)
  <2>1. /\ peer' = [peer EXCEPT ![s] = "silent"] /\ toBridge' = toBridge
        /\ toServer' = toServer \/ toServer' = [toServer EXCEPT ![s] = <<>>]
    BY <1>9 DEF Vanish
  <2>2. \A p \in Page : Cardinality(Marks(RequestsOf(p), toServer'[s])) \in 0..Asked(p)
    <3>1. CASE toServer' = toServer
      BY <1>2, <1>3, <3>1
    <3>2. CASE toServer'[s] = <<>>
      BY <1>2, <3>2, NoMarks
    <3> QED
      BY <1>5, <2>1, <3>1, <3>2
  <2>3. \A p \in Page : Cardinality(Marks(RequestsOf(p), toServer'[s])) + Cardinality(Marks(Last(p), t)) <= Asked(p) + Due(p)
    BY <1>2, <1>3, <2>2
  <2>4. toBridge'[s] = w /\ peer'[s] = "silent"
        /\ \A y \in Socket : y # s => toBridge'[y] = toBridge[y] /\ peer'[y] = peer[y]
    BY <1>5, <2>1
  <2> QED
    BY <1>2, <2>3, <2>4
<1> QED
  BY <1>6, <1>7, <1>8, <1>9

LEMMA ServerStep ==
  ASSUME IInv, NEW s \in Socket, Answer(s) \/ Event(s) \/ HangUp(s) \/ Vanish(s)
  PROVE  IInv'
<1> DEFINE u == tcpBuffer \o toBridge'[s]
<1>1. /\ Shape' /\ tcp = s /\ tcp' = s /\ tcp # NoSocket
      /\ UNCHANGED <<sock, bridgeVars, pageVars>>
  BY ServerShape, BridgeAssumption DEF IInv, bridgeVars
<1>2. /\ u \in Seq(Bytes) /\ InPlace(u)
      /\ peer'[s] = "serving" => \E m \in Nat : Len(u) = FrameSize * m
      /\ \A r \in Socket : r # s => peer'[r] = peer[r] /\ toBridge'[r] = toBridge[r]
      /\ \A q \in Page : Cardinality(Marks(RequestsOf(q), toServer'[s]))
                           + Cardinality(Marks(Last(q), u)) <= Asked(q) + Due(q)
  BY ServerStream
<1>3. tcpBuffer' \o toBridge'[tcp'] = u /\ tcpBuffer' = tcpBuffer
  BY <1>1 DEF bridgeVars
<1>4. toServer'[s] \in Seq(Request)
  BY <1>1 DEF Shape, LinkTypes, Request, Owner, Message
<1> HIDE DEF u
<1>5. NoMixedFrames'
  <2>1. \A i \in DOMAIN u : u[i].part = ((i - 1) % FrameSize) + 1
    BY <1>2, Placed
  <2> QED
    BY <1>3, <2>1, Zenon DEF NoMixedFrames
<1>6. WholeWhileServing'
  <2>1. ASSUME NEW r \in Socket, peer'[r] = "serving"
        PROVE  \E n \in Nat : Len(tcpBuffer' \o toBridge'[r]) = FrameSize * n
    <3>1. CASE r = s
      BY <1>1, <1>2, <1>3, <2>1, <3>1
    <3>2. CASE r # s
      BY <1>2, <1>3, <2>1, <3>2 DEF IInv, Stream, WholeWhileServing
    <3> QED
      BY <3>1, <3>2
  <2> QED
    BY <2>1 DEF WholeWhileServing
<1>7. ClicksCounted'
  <2>1. ASSUME NEW q \in Page
        PROVE  Coming(q)' = Coming(q) /\ Coming(q)' + (Asked(q)' + Due(q)') <= unanswered'[q]
    <3> DEFINE a == Cardinality(Marks(RequestsOf(q), toServer'[s]))
               e == Cardinality(Marks(Last(q), u))
               g == Asked(q) + Due(q)
               l == Coming(q)
    <3>1. a \in Nat /\ e \in Nat
      BY <1>2, <1>4, MarksFinite
    <3>2. Asked(q)' = a
      BY <1>1 DEF Asked, RequestsOf, Request, Owner, Message
    <3>3. Due(q)' = e
      <4>1. Due(q)' = Cardinality(Marks(Last(q), tcpBuffer' \o toBridge'[tcp']))
        BY DEF Due, Last, Byte
      <4> QED
        BY <1>3, <4>1, Zenon
    <3>4. Coming(q)' = l /\ unanswered' = unanswered
      BY <1>1 DEF Coming, pageVars
    <3>5. g \in Nat /\ l \in Nat /\ l + g <= unanswered[q] /\ unanswered[q] \in Nat
      <4>1. Asked(q) \in Nat /\ Due(q) \in Nat
        BY <1>1, StreamFacts DEF IInv, Stream
      <4>2. l \in Nat
        BY LenProperties DEF IInv, ClicksCounted, Coming
      <4> QED
        BY <1>1, <4>1, <4>2 DEF IInv, ClicksCounted
    <3>6. a + e <= g
      BY <1>2
    <3> HIDE DEF a, e, g, l
    <3>7. l + (a + e) <= unanswered[q]
      BY <3>1, <3>5, <3>6
    <3> QED
      BY <3>2, <3>3, <3>4, <3>7 DEF l
  <2> QED
    BY <1>1, <2>1 DEF IInv, ClicksCounted, pageVars
<1> QED
  BY <1>1, <1>5, <1>6, <1>7 DEF IInv, Stream
-----------------------------------------------------------------------------
(* The invariant. *)

LEMMA InitInv == Init => IInv
<1> SUFFICES ASSUME Init PROVE IInv
  OBVIOUS
<1>1. Shape
  BY InitShape
<1>2. tcp \in Socket /\ tcpBuffer = <<>> /\ \A s \in Socket : /\ peer[s] = "none" /\ toBridge[s] = <<>>
                                                             /\ toServer[s] = <<>>
  BY BridgeAssumption DEF Init
<1>3. tcpBuffer \o toBridge[tcp] = <<>>
  BY <1>2, EmptyStream
<1>4. Stream
  <2>1. DOMAIN <<>> = {}
    OBVIOUS
  <2>2. NoMixedFrames
    BY <1>3, <2>1, Zenon DEF NoMixedFrames
  <2> QED
    BY <1>2, <2>2 DEF Stream, WholeWhileServing
<1>5. ClicksCounted
  <2>1. \A p \in Page : Asked(p) = 0 /\ Due(p) = 0 /\ Coming(p) = 0
    BY <1>2, <1>3, NoMarks DEF Asked, Due, Coming, Init
  <2>2. MaxClicks \in Nat /\ <<>> \in Seq(Payload) /\ Len(<<>>) = 0 /\ 0 + (0 + 0) <= 0
    BY BridgeAssumption, EmptySeq
  <2> QED
    BY <2>1, <2>2 DEF ClicksCounted, Init
<1> QED
  BY <1>1, <1>4, <1>5 DEF IInv

LEMMA NextInv == IInv /\ [Next]_vars => IInv'
<1> SUFFICES ASSUME IInv, [Next]_vars PROVE IInv'
  OBVIOUS
<1>1. ASSUME NEW s \in Socket, TcpEvent(s) \/ OnData(s)
      PROVE  IInv'
  BY <1>1, ConnectedStep, FailStep, CloseStep, DataStep DEF TcpEvent
<1>2. ASSUME NEW s \in Socket, Answer(s) \/ Event(s) \/ HangUp(s) \/ Vanish(s)
      PROVE  IInv'
  BY <1>2, ServerStep
<1>3. ASSUME NEW p \in Page, PageConnect(p) \/ WsEvent(p) \/ Click(p)
      PROVE  IInv'
  BY <1>3, PageStep DEF WsEvent
<1>4. CASE UNCHANGED vars
  <2>1. UNCHANGED <<srvUp, peer, sock, toServer, toBridge, tcp, tcpBuffer, reconnectTimer,
                    ws, wsClients, clicks, status, unanswered>>
    BY <1>4 DEF vars, serverVars, linkVars, bridgeVars, pageVars
  <2>2. Shape' /\ Stream'
    BY <2>1, StreamSame DEF IInv, Shape, LinkTypes, PageTypes, OneConnection, FreshSockets, FreshBuffer
  <2>3. \A p : Asked(p)' = Asked(p) /\ Due(p)' = Due(p) /\ Coming(p)' = Coming(p)
    BY <2>1, CountsSame DEF Coming
  <2>4. ClicksCounted'
    BY <2>1, <2>3 DEF IInv, ClicksCounted
  <2> QED
    BY <2>2, <2>4 DEF IInv
<1> QED
  BY <1>1, <1>2, <1>3, <1>4, TimerStep, StartStopStep, MessageStep, BreakStep DEF Next

LEMMA Invariance == Spec => []IInv
<1>1. IInv /\ [Next]_vars => IInv'
  BY NextInv
<1> QED
  BY InitInv, <1>1, PTL DEF Spec

(* Whatever pages, server and network do, the bridge's state stays well    *)
(* formed: its buffer never holds a whole message, what it forwards is     *)
(* understood by the server, and no page is ever sent more reactions than  *)
(* it has clicked (the data, message and close callbacks of server.js).    *)
THEOREM TypeCorrect == Spec => []TypeOK
<1>1. ASSUME IInv PROVE TypeOK
  <2>1. \A s \in Socket : /\ \A i \in DOMAIN toServer[s] :
                                toServer[s][i].for \in Owner /\ Understood(toServer[s][i].msg)
                          /\ toBridge[s] \in Seq(Bytes)
    <3>1. ASSUME NEW s \in Socket, NEW i \in DOMAIN toServer[s]
          PROVE  toServer[s][i].for \in Owner /\ Understood(toServer[s][i].msg)
      <4>1. toServer[s][i] \in Request
        BY <1>1, LenProperties, ElementOfSeq DEF IInv, Shape, LinkTypes
      <4> QED
        BY <4>1, MessageUnderstood DEF Request
    <3> QED
      BY <1>1, <3>1 DEF IInv, Shape, LinkTypes
  <2>2. \A p \in Page : clicks[p] \in Seq(Payload) /\ Len(clicks[p]) <= MaxClicks
    BY <1>1 DEF IInv, ClicksCounted
  <2> QED
    BY <1>1, <2>1, <2>2 DEF IInv, Shape, LinkTypes, PageTypes, ClicksCounted, TypeOK
<1> QED
  BY <1>1, Invariance, PTL

(* The bytes of a lost connection never become part of a message of the    *)
(* next: connectPI and the close callback empty tcpBuffer.                 *)
THEOREM NeverMixed == Spec => []NoMixedFrames
<1>1. IInv => NoMixedFrames
  BY DEF IInv, Stream
<1> QED
  BY <1>1, Invariance, PTL

(* There is at most one connection or attempt, and the timer runs exactly  *)
(* while there is none (connectPI, scheduleReconnect).                     *)
THEOREM AlwaysOne == Spec => []OneConnection
<1>1. IInv => OneConnection
  BY DEF IInv, Shape
<1> QED
  BY <1>1, Invariance, PTL
-----------------------------------------------------------------------------
(* The refinement. *)

(* A page listens exactly as long as it has been told something, so that a *)
(* broadcast is the announcement of StatusFeed.                            *)
LEMMA Announced ==
  ASSUME Shape, NEW state, BroadcastStatus(state)
  PROVE  Feed!Announce(state)
<1>1. \A p \in Page : p \in Listening <=> status[p] # "nothing"
  BY DEF Listening, Shape, PageTypes
<1>2. \A p \in Page : p \notin Listening => status[p] = "nothing"
  BY <1>1
<1>3. status' = [p \in Page |-> IF p \in Listening THEN state ELSE status[p]]
  BY DEF BroadcastStatus
<1>4. status' = [p \in Page |-> IF status[p] = "nothing" THEN "nothing" ELSE state]
  BY <1>1, <1>2, <1>3
<1> QED
  BY <1>4 DEF Feed!Announce

LEMMA InitFeed == Init => Feed!Init
<1> SUFFICES ASSUME Init PROVE Feed!Init
  OBVIOUS
<1>1. tcp \in Socket /\ tcp # NoSocket /\ sock[tcp] = "connecting"
  BY BridgeAssumption DEF Init
<1>2. phaseBar = "trying"
  BY <1>1 DEF phaseBar, isTcpConnected
<1> QED
  BY <1>2 DEF Init, Feed!Init

(* Steps that neither change the connection nor tell anybody anything. *)
LEMMA PhaseSame ==
  ASSUME UNCHANGED <<tcp, sock>>
  PROVE  phaseBar' = phaseBar
  BY DEF phaseBar, isTcpConnected

LEMMA StepFeed == IInv /\ [Next]_vars => [Feed!Next]_(Feed!feedVars)
<1> SUFFICES ASSUME IInv, [Next]_vars PROVE Feed!Next \/ UNCHANGED <<phaseBar, status>>
  BY DEF Feed!feedVars
<1>0. Shape
  BY DEF IInv
<1>1. CASE TimerFires
  <2>1. /\ tcp = NoSocket /\ tcp' \in Socket /\ sock' = [sock EXCEPT ![tcp'] = "connecting"]
        /\ status' = status
    BY <1>0, <1>1, TimerShape DEF TimerFires, connectPI, pageVars
  <2>2. tcp' # NoSocket /\ sock'[tcp'] = "connecting"
    BY <1>0, <2>1, BridgeAssumption DEF Shape, LinkTypes
  <2>3. phaseBar = "waiting" /\ phaseBar' = "trying"
    BY <2>1, <2>2 DEF phaseBar, isTcpConnected
  <2> QED
    BY <2>1, <2>3 DEF Feed!Retry, Feed!Next
<1>2. CASE StartStop
  BY <1>2, PhaseSame DEF StartStop, ServerVarsOnly, bridgeVars, pageVars
<1>3. ASSUME NEW s \in Socket, Connected(s)
      PROVE  Feed!Next
  <2>1. /\ tcp = s /\ tcp' = s /\ tcp # NoSocket /\ sock[tcp] = "connecting"
        /\ sock' = [sock EXCEPT ![s] = "open"] /\ BroadcastStatus("up")
    BY <1>0, <1>3, ConnectedShape, BridgeAssumption DEF Connected, bridgeVars
  <2>2. sock'[tcp'] = "open"
    BY <1>0, <2>1 DEF Shape, LinkTypes
  <2>3. phaseBar = "trying" /\ phaseBar' = "up"
    BY <2>1, <2>2 DEF phaseBar, isTcpConnected
  <2> QED
    BY <1>0, <2>1, <2>3, Announced DEF Feed!Succeed, Feed!Next
<1>4. ASSUME NEW s \in Socket, Fail(s)
      PROVE  Feed!Next
  <2>1. /\ tcp = s /\ tcp' = s /\ tcp # NoSocket /\ sock[tcp] \in {"connecting", "open"}
        /\ sock' = [sock EXCEPT ![s] = "dying"] /\ status' = status
    BY <1>0, <1>4, FailShape, BridgeAssumption DEF Fail, Failing, bridgeVars, pageVars
  <2>2. sock'[tcp'] = "dying"
    BY <1>0, <2>1 DEF Shape, LinkTypes
  <2>3. phaseBar \in {"trying", "up"} /\ phaseBar' = "broken"
    BY <2>1, <2>2 DEF phaseBar, isTcpConnected
  <2> QED
    BY <2>1, <2>3 DEF Feed!Break, Feed!Next
<1>5. ASSUME NEW s \in Socket, OnClose(s)
      PROVE  Feed!Next
  <2>1. /\ tcp = s /\ tcp # NoSocket /\ sock[tcp] = "dying" /\ tcp' = NoSocket
        /\ BroadcastStatus("down")
    BY <1>0, <1>5, CloseShape, BridgeAssumption DEF OnClose
  <2>2. phaseBar = "broken" /\ phaseBar' = "waiting"
    BY <2>1 DEF phaseBar, isTcpConnected
  <2> QED
    BY <1>0, <2>1, <2>2, Announced DEF Feed!GiveUp, Feed!Next
<1>6. ASSUME NEW s \in Socket, OnData(s)
      PROVE  UNCHANGED <<phaseBar, status>>
  BY <1>6, PhaseSame DEF OnData
<1>7. ASSUME NEW s \in Socket, Answer(s) \/ Event(s) \/ HangUp(s) \/ Vanish(s)
      PROVE  UNCHANGED <<phaseBar, status>>
  BY <1>0, <1>7, ServerShape, PhaseSame DEF bridgeVars, pageVars
<1>8. ASSUME NEW p \in Page, PageConnect(p) \/ OnWsClose(p) \/ OnMessage(p) \/ Click(p)
      PROVE  UNCHANGED <<phaseBar, status>>
  BY <1>8, PhaseSame DEF PageConnect, OnWsClose, OnMessage, Click, linkVars, bridgeVars
<1>9. ASSUME NEW p \in Page, OnConnection(p)
      PROVE  Feed!Next
  <2>1. /\ status[p] = "nothing" /\ UNCHANGED <<tcp, sock>>
        /\ status' = [status EXCEPT ![p] = IF isTcpConnected THEN "up" ELSE "down"]
    BY <1>0, <1>9 DEF OnConnection, Shape, PageTypes, linkVars, bridgeVars
  <2>2. isTcpConnected <=> phaseBar = "up"
    BY DEF phaseBar, isTcpConnected
  <2>3. phaseBar' = phaseBar
    BY <2>1, PhaseSame
  <2>4. status' = [status EXCEPT ![p] = IF phaseBar = "up" THEN "up" ELSE "down"]
    BY <2>1, <2>2
  <2>5. Feed!Join(p)
    BY <2>1, <2>3, <2>4 DEF Feed!Join
  <2> QED
    BY <2>5 DEF Feed!Next
<1>10. ASSUME NEW p \in Page, Break(p)
       PROVE  Feed!Next
  <2>1. UNCHANGED <<tcp, sock>> /\ status' = [status EXCEPT ![p] = "nothing"]
    BY <1>10 DEF Break
  <2>2. phaseBar' = phaseBar
    BY <2>1, PhaseSame
  <2>3. Feed!Leave(p)
    BY <2>1, <2>2 DEF Feed!Leave
  <2> QED
    BY <2>3 DEF Feed!Next
<1>11. CASE UNCHANGED vars
  BY <1>11, PhaseSame DEF vars, linkVars, bridgeVars, pageVars
<1> QED
  BY <1>1, <1>2, <1>3, <1>4, <1>5, <1>6, <1>7, <1>8, <1>9, <1>10, <1>11
  DEF Next, TcpEvent, WsEvent

(* The bridge implements StatusFeed without its fairness: whatever happens *)
(* to the connection, a loss is announced to every page before the next    *)
(* attempt, and a page that joins is told the state that was announced     *)
(* last (connectPI, the close and connection handlers).                    *)
THEOREM Refinement == Spec => Feed!Spec
<1> QED
  BY InitFeed, StepFeed, Invariance, PTL DEF Spec, Feed!Spec
=============================================================================
