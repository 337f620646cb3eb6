--------------------------- MODULE ClientRegistry ---------------------------
(***************************************************************************)
(* The client table of alarm_server: main with its startup and its accept  *)
(* loop, the life of a handle_client thread, and broadcast_msg, with the kernel's descriptor *)
(* table underneath.  A descriptor number is reused as soon as it is       *)
(* closed, which is what the dup in broadcast_msg is there for.            *)
(*                                                                         *)
(* A critical section of g_state.lock is one step; every system call       *)
(* outside one is a step of its own.  What a request does is left to       *)
(* AlarmServer.tla: here it is received and answered.                      *)
(***************************************************************************)
EXTENDS Integers, Sequences, FiniteSets

CONSTANTS Client,       \* peers, each with at most one connection at a time
          Caster,       \* threads calling broadcast_msg: sensor, countdown
          Cancellable,  \* those of them that pthread_cancel may hit
          MaxClients,   \* MAX_CLIENTS
          NFds,         \* descriptors left to the process for sockets
          NoClient,     \* what a closed descriptor names
          NoFd          \* an empty slot

Fd == 1..NFds
Slot == 1..MaxClients

ASSUME RegistryAssumption ==
    /\ IsFiniteSet(Client) /\ NoClient \notin Client
    /\ Cancellable \subseteq Caster
    /\ MaxClients \in Nat \ {0} /\ NFds \in Nat \ {0}
    /\ NoFd \notin Fd

VARIABLES
    up,         \* clients whose end of the connection is open
    backlog,    \* connections waiting for accept
    file,       \* descriptor table: the connection each descriptor names
    slots,      \* g_state.client_fds
    nClients,   \* g_state.n_clients
    mpc, mfd,   \* main and the cfd of its accept loop
    hpc, hfd,   \* the handle_client thread of each client and its cfd
    bpc, copies \* each broadcaster and its client_copies

clientVars  == <<up, backlog>>
tableVars   == <<slots, nClients>>
mainVars    == <<mpc, mfd>>
handlerVars == <<hpc, hfd>>
casterVars  == <<bpc, copies>>
vars == <<clientVars, file, tableVars, mainVars, handlerVars, casterVars>>

Init == /\ up = {} /\ backlog = <<>>
        /\ file = [f \in Fd |-> NoClient]
        /\ slots = [i \in Slot |-> NoFd] /\ nClients = 0
        /\ mpc = "load" /\ mfd = NoFd
        /\ hpc = [c \in Client |-> "none"] /\ hfd = [c \in Client |-> NoFd]
        /\ bpc = [b \in Caster |-> "idle"] /\ copies = [b \in Caster |-> <<>>]
-----------------------------------------------------------------------------
(* The n-th smallest element of a set of numbers. *)
Nth(s, n) == CHOOSE i \in s : Cardinality({j \in s : j <= i}) = n

(* The kernel: the lowest closed descriptor is handed out first. *)

Closed == {f \in Fd : file[f] = NoClient}

(* The n-th descriptor that would be handed out. *)
NewFd(n) == Nth(Closed, n)

Close(f) == file' = [file EXCEPT ![f] = NoClient]
-----------------------------------------------------------------------------
(* The clients. *)

Waiting(c) == \E i \in DOMAIN backlog : backlog[i] = c

(* From setup_server's listen on the kernel takes connections. *)
Listening == mpc \notin {"load", "listen", "exited"}

Connect(c) == /\ Listening /\ c \notin up /\ ~Waiting(c)
              /\ \A f \in Fd : file[f] # c
              /\ up' = up \cup {c}
              /\ backlog' = Append(backlog, c)
              /\ UNCHANGED <<file, tableVars, mainVars, handlerVars, casterVars>>

HangUp(c) == /\ c \in up
             /\ up' = up \ {c}
             /\ UNCHANGED <<backlog, file, tableVars, mainVars, handlerVars, casterVars>>
-----------------------------------------------------------------------------
(* main: the startup.  Each stage may fail and end the process; waiting    *)
(* connections are then reset.  daemonize goes on in the child; the        *)
(* launcher has seen its parent exit with success by then.                 *)
Stage(from, to) == /\ mpc = from /\ mpc' \in {to, "exited"}
                   /\ backlog' = IF mpc' = "exited" THEN <<>> ELSE backlog
                   /\ UNCHANGED <<up, file, tableVars, mfd, handlerVars, casterVars>>

LoadLibraries      == Stage("load", "listen")
SetupServer        == Stage("listen", "fork")
Daemonize          == Stage("fork", "hardware")
InitializeHardware == Stage("hardware", "workers")
StartWorkers       == Stage("workers", "accept")

Startup == LoadLibraries \/ SetupServer \/ Daemonize \/ InitializeHardware \/ StartWorkers

(* The workers exist, and with them whoever broadcasts. *)
Running == Listening /\ mpc \notin {"fork", "hardware", "workers"}
-----------------------------------------------------------------------------
(* main: the accept loop. *)

Empty == {i \in Slot : slots[i] = NoFd}

(* The first slot in a set: the loops over client_fds break at it. *)
First(s) == Nth(s, 1)

Unregister(f) == LET s == {i \in Slot : slots[i] = f}
                 IN  IF s = {} THEN UNCHANGED tableVars
                     ELSE /\ slots' = [slots EXCEPT ![First(s)] = NoFd]
                          /\ nClients' = nClients - 1

(* accept fails, and is called again, while no descriptor is closed; then  *)
(* configure_client_socket, which may fail.                                *)
Accept == /\ mpc = "accept" /\ backlog # <<>> /\ Closed # {}
          /\ backlog' = Tail(backlog)
          /\ mfd' = NewFd(1)
          /\ file' = [file EXCEPT ![NewFd(1)] = Head(backlog)]
          /\ mpc' \in {"register", "close"}
          /\ UNCHANGED <<up, tableVars, handlerVars, casterVars>>

(* Mutant: waits for a slot where the code refuses the client. *)
RegisterWaits ==
    /\ mpc = "register" /\ Empty # {}
    /\ slots' = [slots EXCEPT ![First(Empty)] = mfd]
    /\ nClients' = nClients + 1
    /\ mpc' = "create"
    /\ UNCHANGED <<clientVars, file, mfd, handlerVars, casterVars>>

Register ==
    /\ mpc = "register"
    /\ \/ /\ Empty # {}
          /\ slots' = [slots EXCEPT ![First(Empty)] = mfd]
          /\ nClients' = nClients + 1
          /\ mpc' = "create"
       \/ /\ Empty = {}
          /\ mpc' = "close"
          /\ UNCHANGED tableVars
    /\ UNCHANGED <<clientVars, file, mfd, handlerVars, casterVars>>

(* pthread_create may fail. *)
Create == /\ mpc = "create"
          /\ \/ /\ hpc' = [hpc EXCEPT ![file[mfd]] = "recv"]
                /\ hfd' = [hfd EXCEPT ![file[mfd]] = mfd]
                /\ mpc' = "accept" /\ mfd' = NoFd
             \/ /\ mpc' = "rollback"
                /\ UNCHANGED <<mfd, handlerVars>>
          /\ UNCHANGED <<clientVars, file, tableVars, casterVars>>

(* Mutant: the slot is emptied, the counter forgotten. *)
RollbackSlotOnly ==
    /\ mpc = "rollback"
    /\ slots' = [i \in Slot |-> IF slots[i] = mfd THEN NoFd ELSE slots[i]]
    /\ mpc' = "close"
    /\ UNCHANGED <<clientVars, file, nClients, mfd, handlerVars, casterVars>>

Rollback == /\ mpc = "rollback"
            /\ Unregister(mfd)
            /\ mpc' = "close"
            /\ UNCHANGED <<clientVars, file, mfd, handlerVars, casterVars>>

CloseNew == /\ mpc = "close"
            /\ Close(mfd)
            /\ mpc' = "accept" /\ mfd' = NoFd
            /\ UNCHANGED <<clientVars, tableVars, handlerVars, casterVars>>

Main == Startup \/ Accept \/ Register \/ Create \/ Rollback \/ CloseNew
-----------------------------------------------------------------------------
(* handle_client. *)

HGoto(c, l) == hpc' = [hpc EXCEPT ![c] = l]

(* protocol_recv_message returns 1: the client has sent a request. *)
Receive(c) == /\ hpc[c] = "recv" /\ file[hfd[c]] \in up
              /\ HGoto(c, "reply")
              /\ UNCHANGED <<clientVars, file, tableVars, mainVars, hfd, casterVars>>

(* send_response; a failure is only reported. *)
Reply(c) == /\ hpc[c] = "reply"
            /\ HGoto(c, "recv")
            /\ UNCHANGED <<clientVars, file, tableVars, mainVars, hfd, casterVars>>

(* Mutant: close(cfd) moved before the critical section. *)
EofCloses(c) == /\ hpc[c] = "recv" /\ file[hfd[c]] \notin up
                /\ HGoto(c, "clear")
                /\ Close(hfd[c])
                /\ UNCHANGED <<clientVars, tableVars, mainVars, hfd, casterVars>>

(* It returns 0 or -1 once the client has hung up. *)
Eof(c) == /\ hpc[c] = "recv" /\ file[hfd[c]] \notin up
          /\ HGoto(c, "clear")
          /\ UNCHANGED <<clientVars, file, tableVars, mainVars, hfd, casterVars>>

Clear(c) == /\ hpc[c] = "clear"
            /\ Unregister(hfd[c])
            /\ HGoto(c, "close")
            /\ UNCHANGED <<clientVars, file, mainVars, hfd, casterVars>>

CloseOwn(c) == /\ hpc[c] = "close"
               /\ Close(hfd[c])
               /\ HGoto(c, "none") /\ hfd' = [hfd EXCEPT ![c] = NoFd]
               /\ UNCHANGED <<clientVars, tableVars, mainVars, casterVars>>

Handler(c) == Receive(c) \/ Reply(c) \/ Eof(c) \/ Clear(c) \/ CloseOwn(c)
-----------------------------------------------------------------------------
(* broadcast_msg. *)

(* The descriptors in the table, in slot order. *)
Used == [n \in 1..Cardinality(Slot \ Empty) |-> slots[Nth(Slot \ Empty, n)]]

AfterCopy(s) == IF s = <<>> THEN "idle" ELSE "send"

(* Mutant: the descriptors themselves are taken, not copies of them. *)
BroadcastRaw(b) ==
    /\ bpc[b] = "idle" /\ Running
    /\ copies' = [copies EXCEPT ![b] = Used]
    /\ bpc' = [bpc EXCEPT ![b] = AfterCopy(Used)]
    /\ UNCHANGED <<clientVars, file, tableVars, mainVars, handlerVars>>

(* Under the lock every registered descriptor is dup'ed, in slot order,    *)
(* and skipped when there is no descriptor left for its copy.              *)
Broadcast(b) ==
    LET n  == IF Len(Used) <= Cardinality(Closed) THEN Len(Used) ELSE Cardinality(Closed)
        cs == [i \in 1..n |-> NewFd(i)]
    IN  /\ bpc[b] = "idle" /\ Running
        /\ copies' = [copies EXCEPT ![b] = cs]
        /\ file' = [f \in Fd |-> IF \E i \in 1..n : cs[i] = f
                                 THEN file[Used[CHOOSE i \in 1..n : cs[i] = f]]
                                 ELSE file[f]]
        /\ bpc' = [bpc EXCEPT ![b] = AfterCopy(cs)]
        /\ UNCHANGED <<clientVars, tableVars, mainVars, handlerVars>>

(* Delivered, or not: the peer is gone or SO_SNDTIMEO expired. *)
SendCopy(b) == /\ bpc[b] = "send"
               /\ bpc' = [bpc EXCEPT ![b] = "close"]
               /\ UNCHANGED <<clientVars, file, tableVars, mainVars, handlerVars, copies>>

(* Mutant: the copy is not closed. *)
KeepCopy(b) == /\ bpc[b] = "close"
               /\ copies' = [copies EXCEPT ![b] = Tail(@)]
               /\ bpc' = [bpc EXCEPT ![b] = AfterCopy(Tail(copies[b]))]
               /\ UNCHANGED <<clientVars, file, tableVars, mainVars, handlerVars>>

CloseCopy(b) == /\ bpc[b] = "close"
                /\ Close(Head(copies[b]))
                /\ copies' = [copies EXCEPT ![b] = Tail(@)]
                /\ bpc' = [bpc EXCEPT ![b] = AfterCopy(Tail(copies[b]))]
                /\ UNCHANGED <<clientVars, tableVars, mainVars, handlerVars>>

(* send and close are cancellation points, and seg_cleanup knows nothing   *)
(* of client_copies.                                                       *)
CancelCast(b) == /\ b \in Cancellable /\ bpc[b] # "idle"
                 /\ copies' = [copies EXCEPT ![b] = <<>>]
                 /\ bpc' = [bpc EXCEPT ![b] = "idle"]
                 /\ UNCHANGED <<clientVars, file, tableVars, mainVars, handlerVars>>

Cast(b) == SendCopy(b) \/ CloseCopy(b)
-----------------------------------------------------------------------------
(* The server could not start. *)
Exited == mpc = "exited" /\ UNCHANGED vars

Next == \/ Exited
        \/ \E c \in Client : Connect(c) \/ HangUp(c) \/ Handler(c)
        \/ Main
        \/ \E b \in Caster : Broadcast(b) \/ Cast(b) \/ CancelCast(b)

Spec == Init /\ [][Next]_vars

(* Every thread that can run does run; the clients owe nothing.  send      *)
(* returns within SO_SNDTIMEO, and every request is answered.              *)
Fairness == /\ WF_vars(Main)
            /\ \A c \in Client : WF_vars(Handler(c))
            /\ \A b \in Caster : WF_vars(Cast(b))

FairSpec == Spec /\ Fairness
-----------------------------------------------------------------------------
TypeOK ==
    /\ up \subseteq Client
    /\ backlog \in Seq(Client) /\ Len(backlog) <= Cardinality(Client)
    /\ file \in [Fd -> Client \cup {NoClient}]
    /\ slots \in [Slot -> Fd \cup {NoFd}] /\ nClients \in 0..MaxClients
    /\ mpc \in {"load", "listen", "fork", "hardware", "workers", "exited",
                "accept", "register", "create", "rollback", "close"}
    /\ mfd \in Fd \cup {NoFd}
    /\ hpc \in [Client -> {"none", "recv", "reply", "clear", "close"}]
    /\ hfd \in [Client -> Fd \cup {NoFd}]
    /\ bpc \in [Caster -> {"idle", "send", "close"}]
    /\ copies \in [Caster -> Seq(Fd)] /\ \A b \in Caster : Len(copies[b]) <= MaxClients

(* n_clients counts the occupied slots, through refusals, failed thread    *)
(* creations and disconnects (main, handle_client).                        *)
CountMatches == nClients = Cardinality(Slot \ Empty)

(* A slot never names a closed or reused descriptor: it holds an open      *)
(* connection whose handler has yet to clear it, or is about to start, and *)
(* no connection has two (main, handle_client).                            *)
SlotsNameOpenClients ==
    /\ \A i \in Slot \ Empty :
          \/ mpc \in {"create", "rollback"} /\ slots[i] = mfd /\ file[mfd] # NoClient
          \/ \E c \in Client : /\ hpc[c] \in {"recv", "reply", "clear"}
                               /\ hfd[c] = slots[i] /\ file[slots[i]] = c
    /\ \A i, j \in Slot \ Empty : slots[i] = slots[j] => i = j

(* A handler talks to the client it was started for until it closes the    *)
(* connection: responses go to the requester and nobody else closes or     *)
(* reuses its descriptor (handle_client, broadcast_msg).                   *)
HandlerOwnsFd == \A c \in Client : hpc[c] # "none" => file[hfd[c]] = c

(* No descriptor outlives its users: main, a handler, a broadcast.         *)
NoFdLeak ==
    \A f \in Fd \ Closed :
       \/ f = mfd
       \/ \E c \in Client : hfd[c] = f
       \/ \E b \in Caster : \E i \in DOMAIN copies[b] : copies[b][i] = f

(***************************************************************************)
(* The refinement: a client is a member while a slot names it, and an      *)
(* event is owed to whoever the copies not yet sent to name.               *)
(***************************************************************************)
membersBar == {file[slots[i]] : i \in Slot \ Empty}

Unsent(b) == IF bpc[b] = "close" THEN 2..Len(copies[b]) ELSE DOMAIN copies[b]

todoBar == [b \in Caster |-> {file[copies[b][i]] : i \in Unsent(b)}]

Bus == INSTANCE EventBus WITH members <- membersBar, todo <- todoBar

(* An event reaches only clients registered when it was broadcast, however *)
(* many of them leave, and others arrive on their descriptor numbers,      *)
(* before it is sent (broadcast_msg against handle_client and main).       *)
ImplementsEventBus == Bus!Spec

(* Once a client has hung up, its slot, its socket and its handler thread  *)
(* are given back (handle_client).                                         *)
SocketReleased ==
    \A c \in Client :
       c \notin up ~> (c \in up \/ (hpc[c] = "none" /\ \A f \in Fd : file[f] # c))

(* Every connection, also one made while the server is still starting, is  *)
(* taken off the listen queue and then served or, when the table is full   *)
(* or a call fails, refused (main).                                        *)
Undecided(c) == Waiting(c) \/ (mfd # NoFd /\ file[mfd] = c)

ClientDecided == \A c \in Client : Undecided(c) ~> ~Undecided(c)
=============================================================================
