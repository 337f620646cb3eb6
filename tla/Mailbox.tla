------------------------------- MODULE Mailbox -------------------------------
(***************************************************************************)
(* The promise that dispatch_led / dispatch_buzzer (server/main.c) make    *)
(* together with led_thread_fn / buzzer_thread_fn (server/handler.c): a    *)
(* one-place register of commands.  A command posted before the previous   *)
(* one was taken replaces it; the worker takes each posted command at most *)
(* once, and always the newest one.                                        *)
(*                                                                         *)
(* CommandWorker.tla refines this module down to the mutex and condition   *)
(* variable; AlarmServer.tla uses one instance for the LED and one for the *)
(* buzzer.                                                                 *)
(***************************************************************************)
CONSTANTS Command,      \* what can be posted
          NoCommand     \* "the worker is not executing anything"

VARIABLES slot,         \* g_led_cmd.action/.value: the newest command posted, if any
          pending,      \* g_led_cmd.pending
          busy          \* the command the worker is executing

mailboxVars == <<slot, pending, busy>>

Init == /\ slot = NoCommand
        /\ pending = FALSE
        /\ busy = NoCommand

(* dispatch_led(action, value), dispatch_buzzer(action) *)
Post(c) == /\ slot' = c
           /\ pending' = TRUE
           /\ UNCHANGED busy

(* The worker's critical section: copy the command and clear pending. *)
Take == /\ pending
        /\ busy = NoCommand
        /\ busy' = slot
        /\ pending' = FALSE
        /\ UNCHANGED slot

(* The device call returns and the worker goes back to waiting. *)
Finish == /\ busy # NoCommand
          /\ busy' = NoCommand
          /\ UNCHANGED <<slot, pending>>

Next == (\E c \in Command : Post(c)) \/ Take \/ Finish

Spec == Init /\ [][Next]_mailboxVars

(* Nothing posted and nothing running: the device shows the slot. *)
Drained == ~pending /\ busy = NoCommand
=============================================================================
