--------------------------- MODULE CliClientProofs ---------------------------
(***************************************************************************)
(* Proofs about CliClient, for any lines a user may type.                  *)
(***************************************************************************)
EXTENDS CliClient, SequenceTheorems, FiniteSetTheorems, TLAPS

Request ==
    {m \in [type   : {"CMD", "QUERY"},
            device : {"LED", "BUZZER", "SEGMENT", "SENSOR"},
            action : {"ON", "OFF", "SET_BRIGHTNESS", "PLAY_MELODY", "SET_NUMBER",
                      "GET_STATUS", "GET_LUX"},
            value  : 0..9] : Understood(m)}

(* The responses in a sequence of messages. *)
Answers(s) == {i \in 1..Len(s) : s[i] = "RESP"}

MenuTypes == /\ menu \in Reading \cup {"socket", "connect", "thread", "done", "exited"}
             /\ rpc \in {"none", "recv", "over"}
             /\ stdin \in Seq(Int) /\ ended \in BOOLEAN

(* The connection never carries more requests and responses than there are *)
(* requests whose response has not been printed.                           *)
WireTypes == /\ link \in {"none", "open", "closed", "reset"}
             /\ toServer \in Seq(Request)
             /\ toClient \in Seq({"RESP", "EVENT"})
             /\ waiting \in Nat
             /\ Len(toServer) + Cardinality(Answers(toClient)) <= waiting

IInv == MenuTypes /\ WireTypes
-----------------------------------------------------------------------------
LEMMA AnswersFinite ==
  ASSUME NEW S, NEW s \in Seq(S)
  PROVE  IsFiniteSet(Answers(s)) /\ Cardinality(Answers(s)) \in Nat
<1>1. IsFiniteSet(1..Len(s))
  BY LenProperties, FS_Interval
<1>2. IsFiniteSet(Answers(s))
  BY <1>1, FS_Subset DEF Answers
<1> QED
  BY <1>2, FS_CardinalityType

LEMMA AnswersAppended ==
  ASSUME NEW S, NEW s \in Seq(S), NEW m \in S
  PROVE  Cardinality(Answers(Append(s, m)))
           = Cardinality(Answers(s)) + (IF m = "RESP" THEN 1 ELSE 0)
<1> DEFINE n == Len(s) + 1
           t == Append(s, m)
<1>1. /\ Len(t) = n /\ t[n] = m /\ n \in Nat /\ Len(s) \in Nat
      /\ \A i \in 1..Len(s) : t[i] = s[i]
  BY AppendProperties, LenProperties
<1>2. IsFiniteSet(Answers(s)) /\ Cardinality(Answers(s)) \in Nat /\ n \notin Answers(s)
  BY <1>1, AnswersFinite DEF Answers
<1> HIDE DEF n, t
<1>3. \A i : i \in 1..Len(t) <=> i \in 1..Len(s) \/ i = n
  BY <1>1 DEF n
<1>4. CASE m = "RESP"
  <2>1. Answers(t) = Answers(s) \cup {n}
    BY <1>1, <1>3, <1>4 DEF Answers
  <2> QED
    BY <1>2, <1>4, <2>1, FS_AddElement DEF t
<1>5. CASE m # "RESP"
  <2>1. Answers(t) = Answers(s)
    BY <1>1, <1>3, <1>5 DEF Answers
  <2> QED
    BY <1>2, <1>5, <2>1 DEF t
<1> QED
  BY <1>4, <1>5

LEMMA AnswersTaken ==
  ASSUME NEW S, NEW s \in Seq(S), s # <<>>
  PROVE  Cardinality(Answers(s))
           = Cardinality(Answers(Tail(s))) + (IF Head(s) = "RESP" THEN 1 ELSE 0)
<1> DEFINE t == Tail(s)
           A == Answers(t)
           B == Answers(s) \ {1}
           f == [i \in A |-> i + 1]
<1>1. /\ t \in Seq(S) /\ Len(t) = Len(s) - 1 /\ Len(s) \in Nat \ {0} /\ Head(s) = s[1]
      /\ \A i \in 1..Len(t) : t[i] = s[i + 1]
  BY HeadTailProperties, EmptySeq
<1> HIDE DEF t
<1>2. /\ IsFiniteSet(A) /\ Cardinality(A) \in Nat
      /\ IsFiniteSet(Answers(s)) /\ Cardinality(Answers(s)) \in Nat
  BY <1>1, AnswersFinite
<1>3. f \in Bijection(A, B)
  <2>1. \A i \in A : i + 1 \in B /\ i \in Int
    BY <1>1 DEF Answers
  <2>2. \A j \in B : j - 1 \in A /\ (j - 1) + 1 = j
    <3>1. ASSUME NEW j \in B
          PROVE  j - 1 \in A /\ (j - 1) + 1 = j
      <4>1. j \in 1..Len(s) /\ s[j] = "RESP" /\ j # 1
        BY DEF Answers
      <4>2. j - 1 \in 1..Len(t) /\ (j - 1) + 1 = j
        BY <1>1, <4>1
      <4> QED
        BY <1>1, <4>1, <4>2 DEF Answers
    <3> QED
      BY <3>1
  <2> HIDE DEF A, B
  <2>3. f \in [A -> B] /\ \A i, j \in A : f[i] = f[j] => i = j
    BY <2>1
  <2>4. \A j \in B : f[j - 1] = j /\ j - 1 \in A
    BY <2>2
  <2> HIDE DEF f
  <2> QED
    BY <2>3, <2>4 DEF Bijection, Injection, Surjection, IsInjective
<1>4. Cardinality(B) = Cardinality(A)
  <2>1. ExistsBijection(A, B)
    BY <1>3 DEF ExistsBijection
  <2> HIDE DEF A, B
  <2> QED
    BY <1>2, <2>1, FS_Bijection
<1> DEFINE a == Cardinality(A)
           b == Cardinality(Answers(s))
<1>5. CASE Head(s) = "RESP"
  <2>1. 1 \in Answers(s)
    BY <1>1, <1>5 DEF Answers
  <2> DEFINE C == Answers(s)
  <2>2. 1 \in C /\ IsFiniteSet(C)
    BY <1>2, <2>1
  <2> HIDE DEF C
  <2>3. Cardinality(C \ {1}) = Cardinality(C) - 1
    BY <2>2, FS_RemoveElement
  <2>4. Cardinality(B) = Cardinality(Answers(s)) - 1
    BY <2>3 DEF C
  <2> QED
    <3>1. a = b - 1 /\ a \in Nat /\ b \in Nat
      BY <1>2, <1>4, <2>4
    <3> HIDE DEF a, b
    <3>2. b = a + 1
      BY <3>1
    <3> QED
      BY <1>5, <3>2 DEF a, b, t
<1>6. CASE Head(s) # "RESP"
  <2>1. B = Answers(s)
    BY <1>1, <1>6 DEF Answers
  <2>2. Cardinality(B) = b
    BY <2>1, Zenon
  <2>3. a = b /\ a \in Nat /\ b \in Nat
    <3> HIDE DEF A, B
    <3> QED
      BY <1>2, <1>4, <2>2 DEF A
  <2> HIDE DEF a, b
  <2>4. b = a + 0
    BY <2>3
  <2> QED
    BY <1>6, <2>4 DEF a, b, t
<1> QED
  BY <1>5, <1>6
-----------------------------------------------------------------------------
(* Sending, and the menus. *)

LEMMA SendStep ==
  ASSUME WireTypes, NEW m \in Request, send_msg(m)
  PROVE  WireTypes'
<1> DEFINE a == Cardinality(Answers(toClient))
<1>1. /\ a \in Nat /\ Len(toServer) \in Nat /\ waiting \in Nat /\ Len(toServer) + a <= waiting
      /\ toServer \in Seq(Request)
  BY AnswersFinite, LenProperties DEF WireTypes
<1>2. Append(toServer, m) \in Seq(Request) /\ Len(Append(toServer, m)) = Len(toServer) + 1
  BY <1>1, AppendProperties
<1> HIDE DEF a
<1>3. waiting + 1 \in Nat /\ (Len(toServer) + 1) + a <= waiting + 1 /\ Len(toServer) + a <= waiting + 1
  BY <1>1
<1>4. CASE link = "open"
  BY <1>2, <1>3, <1>4 DEF send_msg, WireTypes, a
<1>5. CASE link = "closed"
  BY <1>3, <1>5 DEF send_msg, WireTypes, a
<1>6. CASE link = "reset"
  BY <1>6 DEF send_msg, WireTypes, wireVars
<1> QED
  BY <1>4, <1>5, <1>6 DEF send_msg

LEMMA SendInStep ==
  ASSUME WireTypes, NEW requests, NEW c, \A d \in DOMAIN requests : requests[d] \in Request,
         SendIn(requests, c)
  PROVE  WireTypes'
<1>1. CASE c \in DOMAIN requests
  BY <1>1, SendStep DEF SendIn
<1>2. CASE c \notin DOMAIN requests
  BY <1>2 DEF SendIn, wireVars, WireTypes
<1> QED
  BY <1>1, <1>2

(* What the menus send is understood by the server. *)
LEMMA Messages ==
  /\ \A a \in {"ON", "OFF"} : Msg("CMD", "LED", a, 0) \in Request
  /\ \A b \in 1..3 : Msg("CMD", "LED", "SET_BRIGHTNESS", b) \in Request
  /\ \A a \in {"ON", "OFF", "PLAY_MELODY"} : Msg("CMD", "BUZZER", a, 0) \in Request
  /\ \A n \in 1..9 : Msg("CMD", "SEGMENT", "SET_NUMBER", n) \in Request
  /\ Msg("CMD", "SEGMENT", "OFF", 0) \in Request
  /\ \A d \in {"LED", "BUZZER", "SENSOR"} : Msg("QUERY", d, "GET_STATUS", 0) \in Request
  /\ Msg("QUERY", "SENSOR", "GET_LUX", 0) \in Request
<1>1. ASSUME NEW a \in {"ON", "OFF"}
      PROVE  Msg("CMD", "LED", a, 0) \in Request
  <2>1. Understood(Msg("CMD", "LED", a, 0))
    BY DEF Understood, Msg
  <2> QED
    BY <2>1 DEF Request, Msg
<1>2. ASSUME NEW b \in 1..3
      PROVE  Msg("CMD", "LED", "SET_BRIGHTNESS", b) \in Request
  <2>1. Understood(Msg("CMD", "LED", "SET_BRIGHTNESS", b))
    BY DEF Understood, Msg
  <2> QED
    BY <2>1 DEF Request, Msg
<1>3. ASSUME NEW a \in {"ON", "OFF", "PLAY_MELODY"}
      PROVE  Msg("CMD", "BUZZER", a, 0) \in Request
  <2>1. Understood(Msg("CMD", "BUZZER", a, 0))
    BY DEF Understood, Msg
  <2> QED
    BY <2>1 DEF Request, Msg
<1>4. ASSUME NEW n \in 1..9
      PROVE  Msg("CMD", "SEGMENT", "SET_NUMBER", n) \in Request
  <2>1. Understood(Msg("CMD", "SEGMENT", "SET_NUMBER", n))
    BY DEF Understood, Msg
  <2> QED
    BY <2>1 DEF Request, Msg
<1>5. Msg("CMD", "SEGMENT", "OFF", 0) \in Request
  <2>1. Understood(Msg("CMD", "SEGMENT", "OFF", 0))
    BY DEF Understood, Msg
  <2> QED
    BY <2>1 DEF Request, Msg
<1>6. ASSUME NEW d \in {"LED", "BUZZER", "SENSOR"}
      PROVE  Msg("QUERY", d, "GET_STATUS", 0) \in Request
  <2>1. Understood(Msg("QUERY", d, "GET_STATUS", 0))
    BY DEF Understood, Msg
  <2> QED
    BY <2>1 DEF Request, Msg
<1>7. Msg("QUERY", "SENSOR", "GET_LUX", 0) \in Request
  <2>1. Understood(Msg("QUERY", "SENSOR", "GET_LUX", 0))
    BY DEF Understood, Msg
  <2> QED
    BY <2>1 DEF Request, Msg
<1> QED
  BY <1>1, <1>2, <1>3, <1>4, <1>5, <1>6, <1>7

(* Each entry sends a request that the server understands. *)
LEMMA MenuStep ==
  ASSUME WireTypes, NEW c,
         \/ main_menu(c) \/ menu_led(c) \/ menu_brightness(c) \/ menu_buzzer(c)
         \/ menu_segment(c) \/ menu_status(c)
  PROVE  WireTypes' /\ menu' \in Reading \cup {"done"}
<1>1. CASE main_menu(c)
  <2> DEFINE requests == [n \in {5} |-> Msg("QUERY", "SENSOR", "GET_LUX", 0)]
  <2>1. \A d \in DOMAIN requests : requests[d] \in Request
    BY Messages
  <2>2. SendIn(requests, c)
    BY <1>1 DEF main_menu
  <2>3. menu' \in Reading \cup {"done"}
    BY <1>1 DEF main_menu, Reading, Submenus
  <2> HIDE DEF requests
  <2> QED
    BY <2>1, <2>2, <2>3, SendInStep
<1>2. CASE menu_led(c)
  <2> DEFINE requests == <<Msg("CMD", "LED", "ON", 0), Msg("CMD", "LED", "OFF", 0)>>
  <2>1. \A d \in DOMAIN requests : requests[d] \in Request
    BY Messages
  <2>2. SendIn(requests, c)
    BY <1>2 DEF menu_led
  <2>3. menu' \in Reading
    BY <1>2 DEF menu_led, Reading, Submenus
  <2> HIDE DEF requests
  <2> QED
    BY <2>1, <2>2, <2>3, SendInStep
<1>3. CASE menu_brightness(c)
  <2> DEFINE requests == [b \in 1..3 |-> Msg("CMD", "LED", "SET_BRIGHTNESS", b)]
  <2>1. \A d \in DOMAIN requests : requests[d] \in Request
    BY Messages
  <2>2. SendIn(requests, c)
    BY <1>3 DEF menu_brightness
  <2>3. menu' \in Reading
    BY <1>3 DEF menu_brightness, Reading, Submenus
  <2> HIDE DEF requests
  <2> QED
    BY <2>1, <2>2, <2>3, SendInStep
<1>4. CASE menu_buzzer(c)
  <2> DEFINE requests == <<Msg("CMD", "BUZZER", "ON", 0), Msg("CMD", "BUZZER", "OFF", 0),
                           Msg("CMD", "BUZZER", "PLAY_MELODY", 0)>>
  <2>1. \A d \in DOMAIN requests : requests[d] \in Request
    BY Messages
  <2>2. SendIn(requests, c)
    BY <1>4 DEF menu_buzzer
  <2>3. menu' \in Reading
    BY <1>4 DEF menu_buzzer, Reading, Submenus
  <2> HIDE DEF requests
  <2> QED
    BY <2>1, <2>2, <2>3, SendInStep
<1>5. CASE menu_segment(c)
  <2> DEFINE requests == [n \in 1..10 |-> IF n = 10 THEN Msg("CMD", "SEGMENT", "OFF", 0)
                                          ELSE Msg("CMD", "SEGMENT", "SET_NUMBER", n)]
  <2>1. \A d \in DOMAIN requests : requests[d] \in Request
    BY Messages
  <2>2. SendIn(requests, c)
    BY <1>5 DEF menu_segment
  <2>3. menu' \in Reading
    BY <1>5 DEF menu_segment, Reading, Submenus
  <2> HIDE DEF requests
  <2> QED
    BY <2>1, <2>2, <2>3, SendInStep
<1>6. CASE menu_status(c)
  <2> DEFINE requests == <<Msg("QUERY", "LED", "GET_STATUS", 0), Msg("QUERY", "BUZZER", "GET_STATUS", 0),
                           Msg("QUERY", "SENSOR", "GET_STATUS", 0)>>
  <2>1. \A d \in DOMAIN requests : requests[d] \in Request
    BY Messages
  <2>2. SendIn(requests, c)
    BY <1>6 DEF menu_status
  <2>3. menu' \in Reading
    BY <1>6 DEF menu_status, Reading, Submenus
  <2> HIDE DEF requests
  <2> QED
    BY <2>1, <2>2, <2>3, SendInStep
<1> QED
  BY <1>1, <1>2, <1>3, <1>4, <1>5, <1>6
-----------------------------------------------------------------------------
(* The other steps. *)

LEMMA ChooseStep ==
  ASSUME IInv, Choose
  PROVE  IInv'
<1>1. PICK c \in Read :
         /\ read_choice(c)
         /\ \/ main_menu(c) \/ menu_led(c) \/ menu_brightness(c) \/ menu_buzzer(c)
            \/ menu_segment(c) \/ menu_status(c)
  BY DEF Choose
<1>2. WireTypes' /\ menu' \in Reading \cup {"done"}
  BY <1>1, MenuStep DEF IInv
<1>3. stdin' \in Seq(Int)
  <2>1. CASE stdin # <<>> /\ stdin' = Tail(stdin)
    BY <2>1, HeadTailProperties DEF IInv, MenuTypes
  <2>2. CASE UNCHANGED stdin
    BY <2>2 DEF IInv, MenuTypes
  <2> QED
    BY <1>1, <2>1, <2>2 DEF read_choice
<1>4. MenuTypes'
  BY <1>2, <1>3 DEF Choose, IInv, MenuTypes
<1> QED
  BY <1>2, <1>4 DEF IInv

(* A response is printed for a request that was waiting. *)
LEMMA ReceiveStep ==
  ASSUME IInv, Receive
  PROVE  IInv'
<1> DEFINE a == Cardinality(Answers(toClient))
           b == Cardinality(Answers(Tail(toClient)))
           r == IF Head(toClient) = "RESP" THEN 1 ELSE 0
<1>1. /\ toClient' = Tail(toClient) /\ toClient # <<>>
      /\ UNCHANGED <<menu, rpc, inputVars, link, toServer>>
      /\ waiting' = IF Head(toClient) = "RESP" THEN waiting - 1 ELSE waiting
  BY DEF Receive
<1>2. toClient \in Seq({"RESP", "EVENT"})
  BY DEF IInv, WireTypes
<1>3. Tail(toClient) \in Seq({"RESP", "EVENT"})
  BY <1>1, <1>2, HeadTailProperties
<1>4. a = b + r /\ a \in Nat /\ b \in Nat
  BY <1>1, <1>2, <1>3, AnswersTaken, AnswersFinite
<1>5. Len(toServer) \in Nat /\ waiting \in Nat /\ Len(toServer) + a <= waiting
  BY LenProperties DEF IInv, WireTypes
<1>6. waiting' = waiting - r /\ r \in {0, 1}
  BY <1>1, <1>5
<1> HIDE DEF a, b, r
<1>7. waiting' \in Nat /\ Len(toServer) + b <= waiting'
  BY <1>4, <1>5, <1>6
<1>8. WireTypes'
  BY <1>1, <1>3, <1>7 DEF IInv, WireTypes, b
<1>9. MenuTypes'
  BY <1>1 DEF IInv, MenuTypes, inputVars
<1> QED
  BY <1>8, <1>9 DEF IInv

(* A request becomes a response. *)
LEMMA AnswerStep ==
  ASSUME IInv, Answer
  PROVE  IInv'
<1> DEFINE a == Cardinality(Answers(toClient))
           b == Cardinality(Answers(Append(toClient, "RESP")))
<1>1. /\ toServer # <<>> /\ toServer' = Tail(toServer) /\ toClient' = Append(toClient, "RESP")
      /\ UNCHANGED <<menu, rpc, inputVars, link, waiting>>
  BY DEF Answer
<1>2. /\ toClient \in Seq({"RESP", "EVENT"}) /\ toServer \in Seq(Request)
      /\ waiting \in Nat /\ Len(toServer) + a <= waiting
  BY DEF IInv, WireTypes
<1>3. Append(toClient, "RESP") \in Seq({"RESP", "EVENT"})
  BY <1>2, AppendProperties
<1>4. b = a + 1 /\ a \in Nat
  <2>1. "RESP" \in {"RESP", "EVENT"}
    OBVIOUS
  <2>2. b = a + (IF "RESP" = "RESP" THEN 1 ELSE 0)
    BY <1>2, <2>1, AnswersAppended
  <2> QED
    BY <1>2, <2>2, AnswersFinite
<1>5. /\ Tail(toServer) \in Seq(Request) /\ Len(Tail(toServer)) = Len(toServer) - 1
      /\ Len(toServer) \in Nat
  BY <1>1, <1>2, HeadTailProperties, LenProperties
<1> HIDE DEF a, b
<1>6. Len(Tail(toServer)) + b <= waiting
  BY <1>2, <1>4, <1>5
<1>7. WireTypes'
  BY <1>1, <1>2, <1>3, <1>5, <1>6 DEF IInv, WireTypes, b
<1>8. MenuTypes'
  BY <1>1 DEF IInv, MenuTypes, inputVars
<1> QED
  BY <1>7, <1>8 DEF IInv

LEMMA EventStep ==
  ASSUME IInv, Event
  PROVE  IInv'
<1> DEFINE a == Cardinality(Answers(toClient))
           b == Cardinality(Answers(Append(toClient, "EVENT")))
<1>1. /\ toClient' = Append(toClient, "EVENT")
      /\ UNCHANGED <<menu, rpc, inputVars, link, toServer, waiting>>
  BY DEF Event
<1>2. /\ toClient \in Seq({"RESP", "EVENT"})
  BY DEF IInv, WireTypes
<1>3. Append(toClient, "EVENT") \in Seq({"RESP", "EVENT"})
  BY <1>2, AppendProperties
<1>4. b = a
  <2>1. "EVENT" \in {"RESP", "EVENT"} /\ "EVENT" # "RESP"
    OBVIOUS
  <2>2. b = a + 0
    BY <1>2, <2>1, AnswersAppended
  <2> QED
    BY <1>2, <2>2, AnswersFinite
<1>5. WireTypes'
  BY <1>1, <1>3, <1>4 DEF IInv, WireTypes
<1>6. MenuTypes'
  BY <1>1 DEF IInv, MenuTypes, inputVars
<1> QED
  BY <1>5, <1>6 DEF IInv

LEMMA NoAnswers == Answers(<<>>) = {} /\ Cardinality(Answers(<<>>)) = 0
<1>1. Answers(<<>>) = {}
  BY EmptySeq DEF Answers
<1> QED
  BY <1>1, FS_EmptySet

(* The server goes; a reset loses what was under way. *)
LEMMA HangUpStep ==
  ASSUME IInv, HangUp
  PROVE  IInv'
<1>1. /\ link' \in {"closed", "reset"} /\ (toClient' = toClient \/ toClient' = <<>>)
      /\ UNCHANGED <<menu, rpc, inputVars, toServer, waiting>>
  BY DEF HangUp
<1>2. MenuTypes'
  BY <1>1 DEF IInv, MenuTypes, inputVars
<1>3. CASE toClient' = toClient
  BY <1>1, <1>2, <1>3 DEF IInv, WireTypes
<1>4. CASE toClient' = <<>>
  <2> DEFINE a == Cardinality(Answers(toClient))
  <2>1. a \in Nat /\ Len(toServer) \in Nat /\ waiting \in Nat /\ Len(toServer) + a <= waiting
    BY AnswersFinite, LenProperties DEF IInv, WireTypes
  <2> HIDE DEF a
  <2>2. Len(toServer) + 0 <= waiting
    BY <2>1
  <2>3. toClient' \in Seq({"RESP", "EVENT"}) /\ Cardinality(Answers(toClient')) = 0
    BY <1>4, NoAnswers, EmptySeq
  <2> QED
    BY <1>1, <1>2, <2>2, <2>3 DEF IInv, WireTypes
<1> QED
  BY <1>1, <1>3, <1>4

LEMMA InitInv == Init => IInv
<1> SUFFICES ASSUME Init PROVE IInv
  OBVIOUS
<1>1. /\ <<>> \in Seq(Int) /\ <<>> \in Seq(Request) /\ <<>> \in Seq({"RESP", "EVENT"})
      /\ Len(<<>>) = 0
  BY EmptySeq
<1>2. MenuTypes
  BY <1>1 DEF Init, MenuTypes
<1>3. WireTypes
  BY <1>1, NoAnswers DEF Init, WireTypes
<1> QED
  BY <1>2, <1>3 DEF IInv

LEMMA StepInv ==
  ASSUME IInv, [Next]_vars
  PROVE  IInv'
<1>1. CASE UNCHANGED wireVars /\ MenuTypes'
  BY <1>1 DEF wireVars, IInv, WireTypes
<1> USE DEF IInv, MenuTypes, Reading, Submenus, inputVars
<1>2. CASE OpenSocket \/ StartReceiver \/ Quit \/ Kill \/ Loss
  BY <1>1, <1>2 DEF OpenSocket, StartReceiver, Quit, Kill, Loss
<1>3. CASE Connect
  BY <1>3 DEF Connect, WireTypes
<1>4. CASE Type
  <2>1. stdin' \in Seq(Int)
    BY <1>4, ClientAssumption DEF Type
  <2> QED
    BY <1>1, <1>4, <2>1 DEF Type
<1>5. CASE EndInput
  BY <1>1, <1>5 DEF EndInput
<1>6. CASE Exited \/ UNCHANGED vars
  BY <1>1, <1>6 DEF Exited, vars
<1> QED
  BY <1>2, <1>3, <1>4, <1>5, <1>6, ChooseStep, ReceiveStep, AnswerStep, EventStep, HangUpStep
  DEF Next, Startup

LEMMA Invariance == Spec => []IInv
<1>1. IInv /\ [Next]_vars => IInv'
  BY StepInv
<1> QED
  BY <1>1, InitInv, PTL DEF Spec

(* TypeOK: whatever is typed, every request on its way to the server is    *)
(* one it understands, and no response is printed that nobody waits for.   *)
THEOREM TypeCorrect == Spec => []TypeOK
<1>1. IInv => TypeOK
  <2> SUFFICES ASSUME IInv PROVE TypeOK
    OBVIOUS
  <2>1. \A i \in DOMAIN toServer : Understood(toServer[i])
    <3>1. ASSUME NEW i \in DOMAIN toServer
          PROVE  Understood(toServer[i])
      <4>1. toServer[i] \in Request
        BY LenProperties, ElementOfSeq DEF IInv, WireTypes
      <4> QED
        BY <4>1 DEF Request
    <3> QED
      BY <3>1
  <2> QED
    BY <2>1 DEF IInv, MenuTypes, WireTypes, TypeOK
<1> QED
  BY <1>1, Invariance, PTL
=============================================================================
