------------------------------ MODULE CliClient ------------------------------
(***************************************************************************)
(* client/main.c: the menus of the main thread, the receive thread, and    *)
(* the signals that end the client, with the connection and alarm_server   *)
(* at its other end.                                                       *)
(*                                                                         *)
(* One choice and what it leads to is one step; so is one message received *)
(* and printed.  A line the user types is the sequence of choices that     *)
(* read_choice makes of it: atoi's value (0 for an empty line or letters), *)
(* and several of them when the line does not fit into its 16 bytes.       *)
(***************************************************************************)
EXTENDS Protocol

CONSTANTS Lines,        \* the lines a user may type
          MaxWaiting,   \* bound: requests not answered yet when a line is typed
          MaxEvents     \* bound: messages under way when the server sends an event

ASSUME ClientAssumption ==
    /\ Lines \subseteq Seq(Int) /\ <<>> \notin Lines
    /\ MaxWaiting \in Nat \ {0} /\ MaxEvents \in Nat \ {0}

VARIABLES
    menu,       \* where the main thread is
    rpc,        \* the receive thread: "none", "recv", "over" (loss printed)
    link,       \* the connection: "none", "open", "closed" by the server
                \* (FIN), or "reset"
    stdin,      \* choices typed and not yet read
    ended,      \* the end of stdin has been typed
    toServer,   \* requests sent
    toClient,   \* kinds of message received by the kernel: "RESP", "EVENT"
    waiting     \* requests sent whose response has not been printed

inputVars == <<stdin, ended>>
wireVars  == <<link, toServer, toClient, waiting>>
vars == <<menu, rpc, inputVars, wireVars>>

Init == /\ menu = "socket" /\ rpc = "none" /\ link = "none"
        /\ stdin = <<>> /\ ended = FALSE
        /\ toServer = <<>> /\ toClient = <<>> /\ waiting = 0

Submenus == {"led", "buzzer", "segment", "status"}
Reading  == Submenus \cup {"main", "brightness"}
-----------------------------------------------------------------------------
(* main, up to the menus.  Each call may fail and end the program, but for *)
(* pthread_create: its result is ignored, and pthread_detach then gets an  *)
(* uninitialized rtid.                                                     *)

OpenSocket == /\ menu = "socket" /\ menu' \in {"connect", "exited"}
              /\ UNCHANGED <<rpc, inputVars, wireVars>>

Connect == /\ menu = "connect"
           /\ \/ menu' = "thread" /\ link' = "open"
              \/ menu' = "exited" /\ UNCHANGED link
           /\ UNCHANGED <<rpc, inputVars, toServer, toClient, waiting>>

StartReceiver == /\ menu = "thread"
                 /\ \/ rpc' = "recv" /\ menu' = "main"
                    \/ rpc' = "none" /\ menu' \in {"main", "exited"}
                 /\ UNCHANGED <<inputVars, wireVars>>
-----------------------------------------------------------------------------
(* send_msg.  The first message after the server's FIN is accepted, and    *)
(* answered with a reset; from then on send fails, which is printed.       *)
send_msg(m) ==
    \/ /\ link = "open"
       /\ toServer' = Append(toServer, m) /\ waiting' = waiting + 1
       /\ UNCHANGED <<link, toClient>>
    \/ /\ link = "closed"
       /\ link' = "reset" /\ waiting' = waiting + 1
       /\ UNCHANGED <<toServer, toClient>>
    \/ /\ link = "reset"
       /\ UNCHANGED wireVars

(* Choice c in a menu that sends requests for some of its entries. *)
SendIn(requests, c) ==
    IF c \in DOMAIN requests THEN send_msg(requests[c]) ELSE UNCHANGED wireVars

menu_led(c) ==
    /\ menu = "led"
    /\ menu' = CASE c = 0 -> "main" [] c = 3 -> "brightness" [] OTHER -> "led"
    /\ SendIn(<<Msg("CMD", "LED", "ON", 0), Msg("CMD", "LED", "OFF", 0)>>, c)

menu_brightness(c) ==
    /\ menu = "brightness" /\ menu' = "led"
    /\ SendIn([b \in 1..3 |-> Msg("CMD", "LED", "SET_BRIGHTNESS", b)], c)

menu_buzzer(c) ==
    /\ menu = "buzzer"
    /\ menu' = IF c = 0 THEN "main" ELSE "buzzer"
    /\ SendIn(<<Msg("CMD", "BUZZER", "ON", 0), Msg("CMD", "BUZZER", "OFF", 0),
                Msg("CMD", "BUZZER", "PLAY_MELODY", 0)>>, c)

(* Mutant: the entry that stops a countdown is taken for its start. *)
menu_segment_past(c) ==
    /\ menu = "segment"
    /\ menu' = IF c = 0 THEN "main" ELSE "segment"
    /\ SendIn([n \in 1..10 |-> Msg("CMD", "SEGMENT", "SET_NUMBER", n)], c)

menu_segment(c) ==
    /\ menu = "segment"
    /\ menu' = IF c = 0 THEN "main" ELSE "segment"
    /\ SendIn([n \in 1..10 |-> IF n = 10 THEN Msg("CMD", "SEGMENT", "OFF", 0)
                                         ELSE Msg("CMD", "SEGMENT", "SET_NUMBER", n)], c)

menu_status(c) ==
    /\ menu = "status"
    /\ menu' = IF c = 0 THEN "main" ELSE "status"
    /\ SendIn(<<Msg("QUERY", "LED", "GET_STATUS", 0), Msg("QUERY", "BUZZER", "GET_STATUS", 0),
                Msg("QUERY", "SENSOR", "GET_STATUS", 0)>>, c)

(* Mutant: the main menu asks again at the end of stdin, as the others do. *)
main_menu_asks(c) ==
    /\ menu = "main"
    /\ menu' = CASE c \in 1..4 -> <<"led", "buzzer", "segment", "status">>[c]
                 [] c = 0      -> "done"
                 [] OTHER      -> "main"
    /\ SendIn([n \in {5} |-> Msg("QUERY", "SENSOR", "GET_LUX", 0)], c)

main_menu(c) ==
    /\ menu = "main"
    /\ menu' = CASE c \in 1..4     -> <<"led", "buzzer", "segment", "status">>[c]
                 [] c \in {0, -1} -> "done"
                 [] OTHER          -> "main"
    /\ SendIn([n \in {5} |-> Msg("QUERY", "SENSOR", "GET_LUX", 0)], c)

(* read_choice: the next choice, or -1, again and again, at the end.       *)
read_choice(c) == \/ stdin # <<>> /\ c = Head(stdin) /\ stdin' = Tail(stdin)
                  \/ stdin = <<>> /\ ended /\ c = -1 /\ UNCHANGED stdin

Read == {Head(stdin) : i \in DOMAIN stdin} \cup {-1}

Choose ==
    /\ \E c \in Read :
          /\ read_choice(c)
          /\ \/ main_menu(c) \/ menu_led(c) \/ menu_brightness(c) \/ menu_buzzer(c)
             \/ menu_segment(c) \/ menu_status(c)
    /\ UNCHANGED <<rpc, ended>>

(* The end of main: close, and return. *)
Quit == /\ menu = "done" /\ menu' = "exited"
        /\ UNCHANGED <<rpc, inputVars, wireVars>>

(* Ctrl-C or SIGTERM, at any moment: termination_handler. *)
Kill == /\ menu # "exited" /\ menu' = "exited"
        /\ UNCHANGED <<rpc, inputVars, wireVars>>
-----------------------------------------------------------------------------
(* recv_thread_fn *)

Alive == menu # "exited"

(* Mutant: of messages that arrive together only the last is printed. *)
ReceiveLast ==
    /\ Alive /\ rpc = "recv" /\ toClient # <<>>
    /\ toClient' = Tail(toClient)
    /\ waiting' = IF toClient = <<"RESP">> THEN waiting - 1 ELSE waiting
    /\ UNCHANGED <<menu, rpc, inputVars, link, toServer>>

(* A message is received and printed. *)
Receive == /\ Alive /\ rpc = "recv" /\ toClient # <<>>
           /\ toClient' = Tail(toClient)
           /\ waiting' = IF Head(toClient) = "RESP" THEN waiting - 1 ELSE waiting
           /\ UNCHANGED <<menu, rpc, inputVars, link, toServer>>

(* Mutant: the thread goes on after an error. *)
LossIfClean == /\ Alive /\ rpc = "recv" /\ toClient = <<>>
               /\ link = "closed" \/ menu = "done"
               /\ rpc' = "over"
               /\ UNCHANGED <<menu, inputVars, wireVars>>

(* protocol_recv_message returns 0 or -1: the server has gone, or main has *)
(* closed the socket; the loss is printed.                                 *)
Loss == /\ Alive /\ rpc = "recv" /\ toClient = <<>>
        /\ link \in {"closed", "reset"} \/ menu = "done"
        /\ rpc' = "over"
        /\ UNCHANGED <<menu, inputVars, wireVars>>
-----------------------------------------------------------------------------
(* The user, and alarm_server. *)

Type == /\ menu \in Reading /\ stdin = <<>> /\ ~ended /\ waiting < MaxWaiting
        /\ \E line \in Lines : stdin' = line
        /\ UNCHANGED <<menu, rpc, ended, wireVars>>

EndInput == /\ menu \in Reading /\ ~ended /\ ended' = TRUE
            /\ UNCHANGED <<menu, rpc, stdin, wireVars>>

(* handle_client answers every request with one response. *)
Answer == /\ Alive /\ link = "open" /\ toServer # <<>>
          /\ toServer' = Tail(toServer) /\ toClient' = Append(toClient, "RESP")
          /\ UNCHANGED <<menu, rpc, inputVars, link, waiting>>

Event == /\ Alive /\ link = "open" /\ Len(toClient) < MaxEvents
         /\ toClient' = Append(toClient, "EVENT")
         /\ UNCHANGED <<menu, rpc, inputVars, link, toServer, waiting>>

(* It refuses the client, or dies; a reset loses what was not received.    *)
HangUp == /\ Alive /\ link = "open"
          /\ \/ link' = "closed" /\ UNCHANGED toClient
             \/ link' = "reset" /\ toClient' = <<>>
          /\ UNCHANGED <<menu, rpc, inputVars, toServer, waiting>>
-----------------------------------------------------------------------------
Startup == OpenSocket \/ Connect \/ StartReceiver

Exited == menu = "exited" /\ UNCHANGED vars

Next == \/ Startup \/ Choose \/ Quit \/ Kill \/ Exited
        \/ Receive \/ Loss
        \/ Type \/ EndInput \/ Answer \/ Event \/ HangUp

Spec == Init /\ [][Next]_vars

(* Both threads run, and a server that stays answers; nobody need type.    *)
Fairness == /\ WF_vars(Startup \/ Choose \/ Quit)
            /\ WF_vars(Receive \/ Loss)
            /\ WF_vars(Answer)

FairSpec == Spec /\ Fairness
-----------------------------------------------------------------------------
(* In particular the server understands every request: the menus agree     *)
(* with handle_command and handle_query.                                   *)
TypeOK == /\ menu \in Reading \cup {"socket", "connect", "thread", "done", "exited"}
          /\ rpc \in {"none", "recv", "over"}
          /\ link \in {"none", "open", "closed", "reset"}
          /\ stdin \in Seq(Int) /\ ended \in BOOLEAN
          /\ \A i \in DOMAIN toServer : Understood(toServer[i])
          /\ toClient \in Seq({"RESP", "EVENT"})
          /\ waiting \in Nat

(* With a receive thread, each request is followed by its response or by   *)
(* the news that the server is lost, whatever is typed meanwhile, events   *)
(* arrive, or the connection ends in between: when the user has stopped    *)
(* typing, no request stays unanswered (send_msg, recv_thread_fn).         *)
UserStops == <>[][~Type]_vars

EveryRequestAnswered ==
    UserStops => <>[](waiting = 0 \/ rpc \in {"over", "none"} \/ menu = "exited")

(* The user learns that the server has closed or reset the connection      *)
(* without having to send anything (recv_thread_fn).                       *)
LossNoticed == (link \in {"closed", "reset"} /\ rpc = "recv") ~>
                   (rpc = "over" \/ menu = "exited")

(* The end of stdin ends the client in the main menu.  In a submenu it is  *)
(* a wrong input for ever; only a signal ends the client then, and no      *)
(* request is sent any more (read_choice and its callers).                 *)
EndOfInput ==
    (ended /\ stdin = <<>>) ~>
        [](menu = "exited" \/ (menu \in Submenus /\ stdin = <<>>))
=============================================================================
