----------------------------- MODULE FifoChannel -----------------------------
(***************************************************************************)
(* What protocol_send_message and protocol_recv_message are to give their  *)
(* callers on top of a byte stream: a queue of whole messages.             *)
(***************************************************************************)
EXTENDS Naturals, Sequences

CONSTANT Message

VARIABLES queue,        \* messages sent and not yet received
          received      \* messages received, in order

fifoVars == <<queue, received>>

Init == queue = <<>> /\ received = <<>>

Put(m) == /\ queue' = Append(queue, m)
          /\ UNCHANGED received

(* A reader may find several messages in one chunk of the stream. *)
Get == \E n \in 1..Len(queue) :
          /\ queue' = SubSeq(queue, n + 1, Len(queue))
          /\ received' = received \o SubSeq(queue, 1, n)

(* A reset of the connection loses what has not been received. *)
Reset == queue' = <<>> /\ UNCHANGED received

Next == (\E m \in Message : Put(m)) \/ Get \/ Reset

Spec == Init /\ [][Next]_fifoVars
=============================================================================
