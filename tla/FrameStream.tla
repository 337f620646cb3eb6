----------------------------- MODULE FrameStream -----------------------------
(***************************************************************************)
(* One direction of a TCP connection: the threads that send four-byte      *)
(* messages on it (protocol_send_message of common/protocol_io.c), the     *)
(* kernel's buffer, and the reader that puts messages together again:      *)
(* protocol_recv_message in the server and the CLI client, decodeFrames    *)
(* with the data callback in the web bridge.                               *)
(*                                                                         *)
(* A byte is modelled by the message it belongs to and its place in it.    *)
(* send takes what the buffer has room for; with no room it waits, and a   *)
(* sender with SO_SNDTIMEO gives up at last.  Nothing orders the sends of  *)
(* two threads on one socket.                                              *)
(***************************************************************************)
EXTENDS Protocol, SequencesExt

CONSTANTS Connections,  \* the connections considered, see below
          Capacity,     \* bytes the kernel buffers
          MaxMessages   \* bound: messages sent on a connection

MESSAGE_SIZE == 4

Writer == UNION {c.writers : c \in Connections}

(* writers:   the threads sending on the connection                        *)
(* impatient: those for whom SO_SNDTIMEO may expire                        *)
(* mortal:    the sending process may be killed, and the socket with it    *)
(* bridge:    the reader is the web bridge, not protocol_recv_message      *)
ASSUME StreamAssumption ==
    /\ Connections \subseteq [writers : SUBSET Writer, impatient : SUBSET Writer,
                              mortal : BOOLEAN, bridge : BOOLEAN]
    /\ IsFiniteSet(Writer)
    /\ Capacity \in Nat \ {0} /\ MaxMessages \in Nat \ {0}

Message == Writer \X (1..MaxMessages)
Bytes(m) == [i \in 1..MESSAGE_SIZE |-> <<m, i>>]

VARIABLES
    conn,       \* the connection
    nth,        \* number of the message each writer is sending, or sent last
    remaining,  \* bytes of it not yet accepted by send; 0 between messages
    link,       \* "open", "closed" by the sending side (FIN), or "reset"
    wire,       \* the kernel's buffer
    cursor,     \* bytes of an incomplete message at the reader
    got,        \* frames handed to the reader's caller, in order
    verdict     \* what ended the reading: "none", "eof" (0) or "error" (-1)

writerVars == <<conn, nth, remaining, link>>
readerVars == <<cursor, got, verdict>>
vars == <<writerVars, wire, readerVars>>

Init == /\ conn \in Connections
        /\ nth = [w \in Writer |-> 0] /\ remaining = [w \in Writer |-> 0]
        /\ link = "open" /\ wire = <<>>
        /\ cursor = <<>> /\ got = <<>> /\ verdict = "none"
-----------------------------------------------------------------------------
(* protocol_send_message. *)

SentSoFar == Cardinality({m \in Message : m[2] <= nth[m[1]]})

Begin(w) == /\ link = "open" /\ remaining[w] = 0 /\ SentSoFar < MaxMessages
            /\ nth' = [nth EXCEPT ![w] = @ + 1]
            /\ remaining' = [remaining EXCEPT ![w] = MESSAGE_SIZE]
            /\ UNCHANGED <<conn, link, wire, readerVars>>

Room == Capacity - Len(wire)

Least(a, b) == IF a <= b THEN a ELSE b

(* The bytes of w's message that k more bytes of it are. *)
NextBytes(w, k) == SubSeq(Bytes(<<w, nth[w]>>), MESSAGE_SIZE - remaining[w] + 1,
                          MESSAGE_SIZE - remaining[w] + k)

(* Mutant: cursor is not advanced after a short send. *)
SendFromStart(w) ==
    LET k == Least(remaining[w], Room)
    IN  /\ link = "open" /\ k > 0
        /\ wire' = wire \o SubSeq(Bytes(<<w, nth[w]>>), 1, k)
        /\ remaining' = [remaining EXCEPT ![w] = @ - k]
        /\ UNCHANGED <<conn, nth, link, readerVars>>

Send(w) ==
    LET k == Least(remaining[w], Room)
    IN  /\ link = "open" /\ k > 0
        /\ wire' = wire \o NextBytes(w, k)
        /\ remaining' = [remaining EXCEPT ![w] = @ - k]
        /\ UNCHANGED <<conn, nth, link, readerVars>>

(* SO_SNDTIMEO: -1, whatever was already sent; the caller carries on. *)
GiveUp(w) == /\ w \in conn.impatient /\ link = "open" /\ remaining[w] > 0 /\ Room = 0
             /\ remaining' = [remaining EXCEPT ![w] = 0]
             /\ UNCHANGED <<conn, nth, link, wire, readerVars>>

(* Ctrl-C, and the end of the program.  What the kernel buffers is still   *)
(* delivered, unless it resets the connection for unread input.            *)
Die == /\ conn.mortal /\ link = "open"
       /\ \/ link' = "closed" /\ UNCHANGED wire
          \/ link' = "reset" /\ wire' = <<>>
       /\ UNCHANGED <<conn, nth, remaining, readerVars>>
-----------------------------------------------------------------------------
(* The readers. *)

(* Mutant: one recv is taken for one message. *)
RecvOnce ==
    /\ ~conn.bridge /\ verdict = "none"
    /\ \E k \in 1..Least(MESSAGE_SIZE, Len(wire)) :
          /\ wire' = SubSeq(wire, k + 1, Len(wire))
          /\ got' = Append(got, SubSeq(wire, 1, k))
    /\ UNCHANGED <<writerVars, cursor, verdict>>

(* One recv of protocol_recv_message: some of the bytes still missing. *)
Recv ==
    /\ ~conn.bridge /\ verdict = "none"
    /\ \E k \in 1..Least(MESSAGE_SIZE - Len(cursor), Len(wire)) :
          LET bytes == cursor \o SubSeq(wire, 1, k)
          IN  /\ wire' = SubSeq(wire, k + 1, Len(wire))
              /\ \/ /\ Len(bytes) = MESSAGE_SIZE
                    /\ got' = Append(got, bytes) /\ cursor' = <<>>
                 \/ /\ Len(bytes) < MESSAGE_SIZE
                    /\ cursor' = bytes /\ UNCHANGED got
    /\ UNCHANGED <<writerVars, verdict>>

(* Mutant: every end of the stream is a clean one. *)
RecvEofClean == /\ ~conn.bridge /\ verdict = "none" /\ link # "open" /\ wire = <<>>
                /\ verdict' = "eof"
                /\ UNCHANGED <<writerVars, wire, cursor, got>>

(* The end of the stream: 0 between messages, -1 inside one or on a reset. *)
RecvEof == /\ ~conn.bridge /\ verdict = "none" /\ link # "open" /\ wire = <<>>
           /\ verdict' = IF cursor = <<>> /\ link = "closed" THEN "eof" ELSE "error"
           /\ UNCHANGED <<writerVars, wire, cursor, got>>

(* socket.on('data'): a chunk of any size, appended to tcpBuffer. *)
OnData ==
    /\ conn.bridge
    /\ \E k \in 1..Len(wire) :
          LET decoded == decodeFrames(MESSAGE_SIZE, cursor \o SubSeq(wire, 1, k))
          IN  /\ wire' = SubSeq(wire, k + 1, Len(wire))
              /\ cursor' = decoded.remaining
              /\ got' = got \o decoded.messages
    /\ UNCHANGED <<writerVars, verdict>>

Read == Recv \/ RecvEof \/ OnData

Write(w) == Begin(w) \/ Send(w) \/ GiveUp(w)

(* Everything is sent and read (MaxMessages), or the connection is over. *)
Done == /\ wire = <<>> /\ \A w \in conn.writers : remaining[w] = 0
        /\ SentSoFar = MaxMessages
        /\ UNCHANGED vars

Over == /\ link # "open" /\ wire = <<>> /\ (conn.bridge \/ verdict # "none")
        /\ UNCHANGED vars

Next == Read \/ (\E w \in conn.writers : Write(w)) \/ Die \/ Done \/ Over

Spec == Init /\ [][Next]_vars

(* Readers keep reading; a thread inside send goes on when there is room.  *)
Fairness == WF_vars(Read) /\ \A w \in Writer : WF_vars(w \in conn.writers /\ Send(w))

FairSpec == Spec /\ Fairness
-----------------------------------------------------------------------------
Byte == Message \X (1..MESSAGE_SIZE)

TypeOK == /\ conn \in Connections
          /\ nth \in [Writer -> 0..MaxMessages]
          /\ remaining \in [Writer -> 0..MESSAGE_SIZE]
          /\ link \in {"open", "closed", "reset"}
          /\ wire \in Seq(Byte) /\ Len(wire) <= Capacity
          /\ cursor \in Seq(Byte) /\ Len(cursor) < MESSAGE_SIZE
          /\ \A j \in DOMAIN got : got[j] \in [1..MESSAGE_SIZE -> Byte]
          /\ verdict \in {"none", "eof", "error"}

(* Every frame a reader hands on is one message that somebody sent: what   *)
(* protocol_io.h promises of protocol_send_message and                     *)
(* protocol_recv_message.                                                  *)
FramesAreMessages == \A j \in DOMAIN got : \E m \in Message : got[j] = Bytes(m)

(* A connection with one sending thread whose sends do not time out.       *)
Exclusive == (\E w \in Writer : conn.writers = {w}) /\ conn.impatient = {}

(* There, however send, recv and the chunks of the data callback cut the   *)
(* messages up, each is put together again (protocol_io.c, decodeFrames).  *)
WholeFrames == Exclusive => FramesAreMessages

(* protocol_recv_message reports a clean end only when every message that  *)
(* was begun has arrived, and an error only when one was cut short or the  *)
(* connection was reset.                                                   *)
EofVerdict ==
    Exclusive =>
    /\ verdict = "eof" =>
          \A w \in conn.writers : \A n \in 1..nth[w] :
             \/ n = nth[w] /\ remaining[w] = MESSAGE_SIZE
             \/ Contains(got, Bytes(<<w, n>>))
    /\ verdict = "error" =>
          link = "reset" \/ \E w \in conn.writers : remaining[w] \in 1..(MESSAGE_SIZE - 1)

(* Short sends, waiting threads and timeouts may cut messages short and    *)
(* mix them, but a reader passes on or keeps every byte it takes, and the  *)
(* bytes of one thread in the order in which it sent them (the cursor      *)
(* arithmetic of protocol_io.c).                                           *)
Before(b, c) == \/ b[1][2] < c[1][2]
                \/ b[1][2] = c[1][2] /\ b[2] < c[2]

BytesInOrder ==
    LET parts == Append(got, cursor \o wire)
    IN  \A j, k \in DOMAIN parts : \A i \in DOMAIN parts[j], l \in DOMAIN parts[k] :
           /\ j < k \/ (j = k /\ i < l)
           /\ parts[j][i][1][1] = parts[k][l][1][1]
           => Before(parts[j][i], parts[k][l])

(***************************************************************************)
(* The refinement: a message is in the queue once its last byte has been   *)
(* accepted by send, and received once its last byte has arrived.  A reset *)
(* empties the queue.                                                      *)
(***************************************************************************)
queueBar    == IF Exclusive THEN decodeFrames(MESSAGE_SIZE, cursor \o wire).messages ELSE <<>>
receivedBar == IF Exclusive THEN got ELSE <<>>

Fifo == INSTANCE FifoChannel WITH Message <- {Bytes(m) : m \in Message},
                                  queue <- queueBar, received <- receivedBar

(* With one patient sender the stream is a queue of whole messages, read   *)
(* in the order in which they were sent (protocol_io.c, web/protocol.js).  *)
ImplementsFifo == Fifo!Spec

(* A message that was begun reaches the reader's caller, unless the sender *)
(* is killed; one that was sent reaches it even then, unless the           *)
(* connection is reset (protocol_send_message, the loops of handle_client  *)
(* and recv_thread_fn, the data callback).                                 *)
AllDelivered ==
    \A m \in Message :
       /\ (Exclusive /\ m[1] \in conn.writers /\ nth[m[1]] = m[2])
             ~> (Contains(got, Bytes(m)) \/ link # "open")
       /\ (Exclusive /\ Contains(wire, <<m, MESSAGE_SIZE>>))
             ~> (Contains(got, Bytes(m)) \/ link = "reset")
=============================================================================
