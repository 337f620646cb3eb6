------------------------------ MODULE WebBridge ------------------------------
(***************************************************************************)
(* web/server.js with the pages of web/index.html that use it: one TCP     *)
(* connection to alarm_server, which is made again three seconds after it  *)
(* is lost, and a WebSocket session per page.  A callback of Node's event  *)
(* loop is one step.                                                       *)
(*                                                                         *)
(* A page only displays what it is sent, so that it is shown when it is    *)
(* sent.  The alarm server is the other end of the connection: it answers  *)
(* requests in turn (handle_client), sends events, hangs up, or dies with  *)
(* a message half sent.  A byte is the message it is part of and its place *)
(* in it; of a message, what matters is whose click it answers.            *)
(***************************************************************************)
EXTENDS Protocol, FiniteSets

CONSTANTS Page,         \* browser pages, each with one WebSocket at a time
          Payload,      \* what a page may send: [cmd, value]
          Socket,       \* identities of net.Socket objects
          NoSocket,     \* null
          Nobody,       \* events, and answers nobody waits for any more
          FrameSize,    \* MESSAGE_SIZE
          KernelRoom,   \* requests the TCP path takes before Node has to buffer
          HighWater,    \* Node's writableHighWaterMark, in requests
          MaxClicks,    \* bound: clicks of a page without a reaction yet
          MaxUp,        \* bound: requests and bytes on their way to and from
                        \* the server when a page clicks
          MaxDown       \* bound: bytes on their way to the bridge when the
                        \* server sends an event

ASSUME BridgeAssumption ==
    /\ NoSocket \notin Socket /\ Socket # {} /\ Nobody \notin Page
    /\ FrameSize \in Nat \ {0} /\ HighWater \in Nat \ {0}
    /\ KernelRoom \in Nat /\ MaxClicks \in Nat \ {0} /\ MaxUp \in Nat /\ MaxDown \in Nat \ {0}

VARIABLES
    srvUp,          \* alarm_server is running
    sock,           \* each socket: "none", "connecting", "open", or "dying":
                    \* destroyed or ended, its 'close' event still to come
    peer,           \* the server's end of it: "none", "serving", "gone", or
                    \* "silent": its machine has vanished without a word
    toServer,       \* requests written to it and not yet read by the server
    toBridge,       \* bytes the server has sent on it
    tcp,            \* the current socket
    tcpBuffer,
    reconnectTimer, \* it is set
    ws,             \* each page: "none", "connecting", "open", or "broken":
                    \* lost, the bridge's 'close' event still to come
    wsClients,
    clicks,         \* payloads on their way from each page
    status,         \* the connection status each page was sent last
    unanswered      \* clicks of each page without a reaction so far

serverVars == <<srvUp, peer>>
linkVars   == <<sock, toServer, toBridge>>
bridgeVars == <<tcp, tcpBuffer, reconnectTimer>>
pageVars   == <<ws, wsClients, clicks, status, unanswered>>
vars == <<serverVars, linkVars, bridgeVars, pageVars>>

Byte(to, i) == [for |-> to, part |-> i]
Frame(to)   == [i \in 1..FrameSize |-> Byte(to, i)]

isTcpConnected == tcp # NoSocket /\ sock[tcp] = "open"

Init == /\ srvUp \in BOOLEAN
        /\ tcp = CHOOSE s \in Socket : TRUE
        /\ sock = [s \in Socket |-> IF s = tcp THEN "connecting" ELSE "none"]
        /\ peer = [s \in Socket |-> "none"]
        /\ toServer = [s \in Socket |-> <<>>] /\ toBridge = [s \in Socket |-> <<>>]
        /\ tcpBuffer = <<>> /\ reconnectTimer = FALSE
        /\ ws = [p \in Page |-> "none"] /\ wsClients = {}
        /\ clicks = [p \in Page |-> <<>>]
        /\ status = [p \in Page |-> "nothing"] /\ unanswered = [p \in Page |-> 0]
-----------------------------------------------------------------------------
(* broadcast: to the sessions that are still open. *)

Listening == {p \in wsClients : ws[p] = "open"}

(* A status reaches every page; "down" tells it that nothing sent to the   *)
(* server will be answered, only clicks the bridge has yet to see will be. *)
BroadcastStatus(state) ==
    /\ status' = [p \in Page |-> IF p \in Listening THEN state ELSE status[p]]
    /\ unanswered' = [p \in Page |-> IF p \in Listening /\ state = "down"
                                     THEN Len(clicks[p]) ELSE unanswered[p]]

(* Every page is sent every event and response; a response ends the wait   *)
(* of the page that clicked.                                               *)
Answers(p, messages) ==
    {j \in DOMAIN messages : messages[j][FrameSize].for = p}

handleTcpMessages(messages) ==
    unanswered' = [p \in Page |->
        unanswered[p] - IF p \in Listening THEN Cardinality(Answers(p, messages)) ELSE 0]
-----------------------------------------------------------------------------
(* The connection. *)

Unused == {s \in Socket : sock[s] = "none"}

(* Mutant: the old buffer is kept (here and in OnClose). *)
KeepBuffer == UNCHANGED tcpBuffer

ResetBuffer == tcpBuffer' = <<>>

connectPI(s) == /\ tcp' = s
                /\ sock' = [sock EXCEPT ![s] = "connecting"]
                /\ ResetBuffer

TimerFires == /\ reconnectTimer
              /\ reconnectTimer' = FALSE
              /\ Unused # {} /\ connectPI(CHOOSE s \in Unused : TRUE)
              /\ UNCHANGED <<serverVars, toServer, toBridge, pageVars>>

(* The callback of socket.connect. *)
Connected(s) == /\ sock[s] = "connecting" /\ srvUp
                /\ sock' = [sock EXCEPT ![s] = "open"]
                /\ peer' = [peer EXCEPT ![s] = "serving"]
                /\ BroadcastStatus("up")
                /\ UNCHANGED <<srvUp, toServer, toBridge, bridgeVars, ws, wsClients, clicks>>

scheduleReconnect == reconnectTimer' = TRUE

(* An attempt is refused or times out; the other end has closed or reset   *)
(* the connection; or what was written to it is never acknowledged.  There *)
(* is no keep-alive: nothing fails on an idle connection.                  *)
Failing(s) == \/ sock[s] = "connecting" /\ ~srvUp
              \/ sock[s] = "open" /\ peer[s] = "gone" /\ toBridge[s] = <<>>
              \/ sock[s] = "open" /\ peer[s] = "silent" /\ toServer[s] # <<>>

(* Mutant: the handler of 'error' schedules a reconnection, too. *)
FailReconnects(s) ==
    /\ Failing(s)
    /\ sock' = [sock EXCEPT ![s] = "dying"]
    /\ scheduleReconnect
    /\ UNCHANGED <<serverVars, toServer, toBridge, tcp, tcpBuffer, pageVars>>

(* 'error' or 'end': the socket is not open any more. *)
Fail(s) == /\ Failing(s)
           /\ sock' = [sock EXCEPT ![s] = "dying"]
           /\ UNCHANGED <<serverVars, toServer, toBridge, bridgeVars, pageVars>>

(* Its data were in the network or in the socket's buffers: they are lost. *)
Discard(s) == /\ sock' = [sock EXCEPT ![s] = "none"]
              /\ peer' = [peer EXCEPT ![s] = "none"]
              /\ toServer' = [toServer EXCEPT ![s] = <<>>]
              /\ toBridge' = [toBridge EXCEPT ![s] = <<>>]

(* Mutant: no reconnection after an attempt that failed. *)
OnCloseIfConnected(s) ==
    /\ sock[s] = "dying"
    /\ Discard(s)
    /\ tcp = s /\ tcp' = NoSocket
    /\ ResetBuffer
    /\ BroadcastStatus("down")
    /\ reconnectTimer' = (peer[s] # "none")
    /\ UNCHANGED <<srvUp, ws, wsClients, clicks>>

(* 'close' *)
OnClose(s) ==
    /\ sock[s] = "dying"
    /\ Discard(s)
    /\ IF tcp = s THEN /\ tcp' = NoSocket
                       /\ ResetBuffer
                       /\ BroadcastStatus("down")
                       /\ scheduleReconnect
                  ELSE UNCHANGED <<bridgeVars, status, unanswered>>
    /\ UNCHANGED <<srvUp, ws, wsClients, clicks>>

(* 'data': a chunk of any size. *)
OnData(s) ==
    /\ sock[s] = "open"
    /\ \E k \in 1..Len(toBridge[s]) :
          LET decoded == decodeFrames(FrameSize, tcpBuffer \o SubSeq(toBridge[s], 1, k))
          IN  /\ toBridge' = [toBridge EXCEPT ![s] = SubSeq(@, k + 1, Len(@))]
              /\ IF tcp = s THEN /\ tcpBuffer' = decoded.remaining
                                 /\ handleTcpMessages(decoded.messages)
                            ELSE UNCHANGED <<tcpBuffer, unanswered>>
    /\ UNCHANGED <<serverVars, sock, toServer, tcp, reconnectTimer, ws, wsClients,
                   clicks, status>>
-----------------------------------------------------------------------------
(* The pages. *)

(* connect of index.html, on loading and two seconds after onclose. *)
PageConnect(p) == /\ ws[p] = "none"
                  /\ ws' = [ws EXCEPT ![p] = "connecting"]
                  /\ UNCHANGED <<serverVars, linkVars, bridgeVars, wsClients, clicks,
                                 status, unanswered>>

(* Mutant: a page is told of changes only. *)
OnConnectionQuietly(p) ==
    /\ ws[p] = "connecting"
    /\ ws' = [ws EXCEPT ![p] = "open"]
    /\ wsClients' = wsClients \cup {p}
    /\ status' = [status EXCEPT ![p] = "down"]
    /\ UNCHANGED <<serverVars, linkVars, bridgeVars, clicks, unanswered>>

(* wss.on('connection') *)
OnConnection(p) ==
    /\ ws[p] = "connecting"
    /\ ws' = [ws EXCEPT ![p] = "open"]
    /\ wsClients' = wsClients \cup {p}
    /\ status' = [status EXCEPT ![p] = IF isTcpConnected THEN "up" ELSE "down"]
    /\ UNCHANGED <<serverVars, linkVars, bridgeVars, clicks, unanswered>>

(* send of index.html *)
Click(p) == /\ ws[p] = "open" /\ unanswered[p] < MaxClicks
            /\ \A s \in Socket : Len(toServer[s]) + Len(toBridge[s]) <= MaxUp
            /\ \E c \in Payload : clicks' = [clicks EXCEPT ![p] = Append(@, c)]
            /\ unanswered' = [unanswered EXCEPT ![p] = @ + 1]
            /\ UNCHANGED <<serverVars, linkVars, bridgeVars, ws, wsClients, status>>

(* An answer to a page that has gone, or was told an error, is nobody's. *)
Disown(p, seq) == [i \in DOMAIN seq |-> IF seq[i].for = p THEN [seq[i] EXCEPT !.for = Nobody]
                                                          ELSE seq[i]]

(* The WebSocket breaks.  What it has delivered is still handled. *)
Break(p) == /\ ws[p] = "open"
            /\ ws' = [ws EXCEPT ![p] = "broken"]
            /\ status' = [status EXCEPT ![p] = "nothing"]
            /\ unanswered' = [unanswered EXCEPT ![p] = 0]
            /\ toServer' = [s \in Socket |-> Disown(p, toServer[s])]
            /\ toBridge' = [s \in Socket |-> Disown(p, toBridge[s])]
            /\ tcpBuffer' = Disown(p, tcpBuffer)
            /\ UNCHANGED <<serverVars, sock, tcp, reconnectTimer, wsClients, clicks>>

(* ws.on('close') *)
OnWsClose(p) == /\ ws[p] = "broken"
                /\ ws' = [ws EXCEPT ![p] = "none"]
                /\ wsClients' = wsClients \ {p}
                /\ clicks' = [clicks EXCEPT ![p] = <<>>]
                /\ UNCHANGED <<serverVars, linkVars, bridgeVars, status, unanswered>>

(* tcp.write answers false when its buffer is full; the message is sent    *)
(* all the same.                                                           *)
Full(s) == Len(toServer[s]) + 1 - KernelRoom >= HighWater

(* sendPI and the reply to the page: an error unless it returned true. *)
Forward(p, payload) ==
    /\ isTcpConnected
    /\ toServer' = [toServer EXCEPT ![tcp] =
           Append(@, [for |-> IF ws[p] = "broken" \/ Full(tcp) THEN Nobody ELSE p,
                      msg |-> commandMessage(payload)])]
    /\ unanswered' = IF ws[p] = "open" /\ Full(tcp)
                     THEN [unanswered EXCEPT ![p] = @ - 1] ELSE unanswered

Refuse(p) == /\ unanswered' = IF ws[p] = "open" THEN [unanswered EXCEPT ![p] = @ - 1]
                                                ELSE unanswered
             /\ UNCHANGED toServer

(* Mutant: a click while the server is away is dropped. *)
OnMessageDropped(p) ==
    /\ p \in wsClients /\ clicks[p] # <<>>
    /\ clicks' = [clicks EXCEPT ![p] = Tail(@)]
    /\ \/ Supported(Head(clicks[p])) /\ Forward(p, Head(clicks[p]))
       \/ Supported(Head(clicks[p])) /\ ~isTcpConnected /\ UNCHANGED <<toServer, unanswered>>
       \/ ~Supported(Head(clicks[p])) /\ Refuse(p)
    /\ UNCHANGED <<serverVars, sock, toBridge, bridgeVars, ws, wsClients, status>>

(* ws.on('message') *)
OnMessage(p) ==
    /\ p \in wsClients /\ clicks[p] # <<>>
    /\ clicks' = [clicks EXCEPT ![p] = Tail(@)]
    /\ \/ Supported(Head(clicks[p])) /\ Forward(p, Head(clicks[p]))
       \/ ~Supported(Head(clicks[p])) /\ Refuse(p)
       \/ ~isTcpConnected /\ Refuse(p)
    /\ UNCHANGED <<serverVars, sock, toBridge, bridgeVars, ws, wsClients, status>>
-----------------------------------------------------------------------------
(* alarm_server, as AlarmServer, ClientRegistry and FrameStream have it. *)

ServerVarsOnly == UNCHANGED <<sock, bridgeVars, pageVars>>

Sends(s, to) == toBridge' = [toBridge EXCEPT ![s] = @ \o Frame(to)]

Answer(s) == /\ peer[s] = "serving" /\ toServer[s] # <<>>
             /\ Sends(s, Head(toServer[s]).for)
             /\ toServer' = [toServer EXCEPT ![s] = Tail(@)]
             /\ ServerVarsOnly /\ UNCHANGED serverVars

Event(s) == /\ peer[s] = "serving" /\ Len(toBridge[s]) <= MaxDown
            /\ Sends(s, Nobody)
            /\ ServerVarsOnly /\ UNCHANGED <<serverVars, toServer>>

(* It refuses the client, or dies; a reset loses what is in transit. *)
HangUp(s) == /\ peer[s] = "serving"
             /\ peer' = [peer EXCEPT ![s] = "gone"]
             /\ srvUp' \in BOOLEAN
             /\ \E k \in 0..Len(toBridge[s]) :
                   toBridge' = [toBridge EXCEPT ![s] = SubSeq(@, 1, k)]
             /\ ServerVarsOnly /\ UNCHANGED toServer

(* Its machine loses power or the network, and with it requests that its   *)
(* kernel may have acknowledged: the bridge hears nothing.                 *)
Vanish(s) == /\ peer[s] = "serving"
             /\ peer' = [peer EXCEPT ![s] = "silent"]
             /\ srvUp' = FALSE
             /\ \/ UNCHANGED toServer
                \/ toServer' = [toServer EXCEPT ![s] = <<>>]
             /\ ServerVarsOnly /\ UNCHANGED toBridge

(* It is started, or stopped while the bridge is not connected to it. *)
StartStop == /\ \A s \in Socket : peer[s] # "serving"
             /\ srvUp' = ~srvUp
             /\ ServerVarsOnly /\ UNCHANGED <<peer, toServer, toBridge>>
-----------------------------------------------------------------------------
TcpEvent(s) == Connected(s) \/ Fail(s) \/ OnClose(s)

WsEvent(p) == OnConnection(p) \/ OnWsClose(p)

Next == \/ TimerFires \/ StartStop
        \/ \E s \in Socket : TcpEvent(s) \/ OnData(s) \/ Answer(s) \/ Event(s)
                            \/ HangUp(s) \/ Vanish(s)
        \/ \E p \in Page : PageConnect(p) \/ WsEvent(p) \/ OnMessage(p) \/ Click(p) \/ Break(p)

Spec == Init /\ [][Next]_vars

(* Timers expire, Node delivers every event, an attempt to connect and a   *)
(* broken connection come to an end, pages are loaded and try again, and   *)
(* a server that runs answers.  It need not run, nor a session last.       *)
Fairness == /\ WF_vars(TimerFires)
            /\ \A s \in Socket : WF_vars(TcpEvent(s)) /\ WF_vars(OnData(s)) /\ WF_vars(Answer(s))
            /\ \A p \in Page : /\ WF_vars(PageConnect(p)) /\ WF_vars(WsEvent(p))
                               /\ WF_vars(OnMessage(p))

FairSpec == Spec /\ Fairness
-----------------------------------------------------------------------------
Owner == Page \cup {Nobody}
Bytes == [for : Owner, part : 1..FrameSize]

TypeOK ==
    /\ srvUp \in BOOLEAN /\ reconnectTimer \in BOOLEAN
    /\ sock \in [Socket -> {"none", "connecting", "open", "dying"}]
    /\ peer \in [Socket -> {"none", "serving", "gone", "silent"}]
    /\ tcp \in Socket \cup {NoSocket}
    /\ \A s \in Socket :
          /\ \A i \in DOMAIN toServer[s] :
                toServer[s][i].for \in Owner /\ Understood(toServer[s][i].msg)
          /\ toBridge[s] \in Seq(Bytes)
    /\ tcpBuffer \in Seq(Bytes) /\ Len(tcpBuffer) < FrameSize
    /\ ws \in [Page -> {"none", "connecting", "open", "broken"}]
    /\ wsClients \subseteq Page
    /\ \A p \in Page : clicks[p] \in Seq(Payload) /\ Len(clicks[p]) <= MaxClicks
    /\ status \in [Page -> {"nothing", "up", "down"}]
    /\ unanswered \in [Page -> 0..MaxClicks]

(* Whatever the server had half sent when the last connection ended, the   *)
(* bytes in tcpBuffer and those to come make up whole messages of one      *)
(* connection (connectPI, the data and close callbacks).                   *)
NoMixedFrames ==
    tcp # NoSocket =>
        LET stream == tcpBuffer \o toBridge[tcp]
        IN  \A i \in DOMAIN stream : stream[i].part = ((i - 1) % FrameSize) + 1

(* Never two attempts or connections, although every close starts another  *)
(* attempt: each socket is gone before the next is made (scheduleReconnect *)
(* and the tests of tcp !== socket).                                       *)
OneConnection == /\ \A s \in Socket : sock[s] # "none" => s = tcp
                 /\ reconnectTimer <=> tcp = NoSocket

(***************************************************************************)
(* The refinement.                                                         *)
(***************************************************************************)
phaseBar == CASE tcp = NoSocket           -> "waiting"
              [] isTcpConnected           -> "up"
              [] tcp # NoSocket /\ sock[tcp] = "connecting" -> "trying"
              [] OTHER                    -> "broken"

Feed == INSTANCE StatusFeed WITH phase <- phaseBar, told <- status

(* A lost or refused connection is announced to all pages and tried again, *)
(* and whenever pages join or leave, each has been told the state that was *)
(* announced last (connectPI, the close and connection handlers).          *)
ImplementsStatusFeed == Feed!FairSpec

(* When alarm_server stays up in the end and its machine in sight, the     *)
(* bridge is connected for good, whatever happened before                  *)
(* (RECONNECT_DELAY_MS, "3초 후 재연결" of server.js:133).                   *)
Steady == srvUp /\ \A s \in Socket : peer[s] \in {"none", "serving"}

Reconnects == <>[]Steady => <>[]isTcpConnected

(* A page gets a reaction to its clicks: an answer of the server, an error *)
(* of the bridge, or the news that the server or the session is gone, also *)
(* to a request written to a machine that has vanished.  The one exception *)
(* is a request that the machine acknowledged before it vanished, as long  *)
(* as nobody clicks again (the message and close handlers of server.js).   *)
Stuck == \E s \in Socket : sock[s] = "open" /\ peer[s] = "silent" /\ toServer[s] = <<>>

EveryClickAnswered ==
    \A p \in Page :
       (unanswered[p] = MaxClicks) ~> (unanswered[p] < MaxClicks \/ Stuck)

(* A page whose click could be forwarded is told that the device server is *)
(* not connected only when it is not (the message handler of server.js).   *)
ToldNotConnected(p) == /\ OnMessage(p) /\ Supported(Head(clicks[p]))
                       /\ unanswered'[p] < unanswered[p]

NotConnectedIsTrue ==
    [][\A p \in Page : ToldNotConnected(p) => ~isTcpConnected]_vars
=============================================================================
