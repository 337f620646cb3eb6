---------------------------- MODULE CommandWorker ----------------------------
(***************************************************************************)
(* One device worker and the threads that dispatch to it, at the grain of  *)
(* single field accesses: dispatch_led (server/main.c) and led_thread_fn   *)
(* (server/handler.c) over g_led_cmd, g_led_mtx and g_led_cond.  The       *)
(* buzzer worker is the same code without the value field.                 *)
(*                                                                         *)
(* pthread_cond_wait may wake without a signal, and a signalled worker has *)
(* to win the mutex again before it returns.                               *)
(***************************************************************************)
CONSTANTS Dispatcher,   \* threads calling dispatch_led: handlers, sensor
          Action,       \* values of the action field
          Value,        \* values of the value field
          Zero,         \* both fields of the zero-initialised g_led_cmd
          NoThread,     \* the mutex is free
          NoCommand     \* the worker is not executing anything

Command == Action \X Value

ASSUME WorkerAssumption ==
    /\ NoThread \notin Dispatcher \cup {"worker"}
    /\ "worker" \notin Dispatcher
    /\ Zero \notin Action \cup Value
    /\ NoCommand \notin Command

VARIABLES mtx,          \* owner of g_led_mtx
          action, value, pending,   \* the fields of g_led_cmd
          dpc,          \* where each dispatcher is in dispatch_led
          arg,          \* the arguments of its (last) call
          wpc,          \* where the worker is in led_thread_fn
          laction, lvalue           \* the worker's local copies

vars == <<mtx, action, value, pending, dpc, arg, wpc, laction, lvalue>>

cmdVars    == <<action, value, pending>>
workerVars == <<wpc, laction, lvalue>>

Init == /\ mtx = NoThread
        /\ action = Zero /\ value = Zero /\ pending = FALSE
        /\ dpc = [d \in Dispatcher |-> "idle"]
        /\ arg \in [Dispatcher -> Command]
        /\ wpc = "lock"
        /\ laction = Zero /\ lvalue = Zero
-----------------------------------------------------------------------------
(* dispatch_led *)

DGoto(d, l) == dpc' = [dpc EXCEPT ![d] = l]

Call(d) == /\ dpc[d] = "idle"
           /\ \E c \in Command : arg' = [arg EXCEPT ![d] = c]
           /\ DGoto(d, "lock")
           /\ UNCHANGED <<mtx, cmdVars, workerVars>>

DLock(d) == /\ dpc[d] = "lock"
            /\ mtx = NoThread
            /\ mtx' = d
            /\ DGoto(d, "action")
            /\ UNCHANGED <<arg, cmdVars, workerVars>>

(* Mutant: the two fields swapped. *)
SetActionSwapped(d) == /\ dpc[d] = "action"
                       /\ action' = arg[d][2]
                       /\ DGoto(d, "value")
                       /\ UNCHANGED <<mtx, arg, value, pending, workerVars>>

SetAction(d) == /\ dpc[d] = "action"
                /\ action' = arg[d][1]
                /\ DGoto(d, "value")
                /\ UNCHANGED <<mtx, arg, value, pending, workerVars>>

SetValue(d) == /\ dpc[d] = "value"
               /\ value' = arg[d][2]
               /\ DGoto(d, "pending")
               /\ UNCHANGED <<mtx, arg, action, pending, workerVars>>

SetPending(d) == /\ dpc[d] = "pending"
                 /\ pending' = TRUE
                 /\ DGoto(d, "signal")
                 /\ UNCHANGED <<mtx, arg, action, value, workerVars>>

(* Mutant: dispatch_led without pthread_cond_signal. *)
NoSignal(d) == /\ dpc[d] = "signal"
               /\ DGoto(d, "unlock")
               /\ UNCHANGED <<mtx, arg, cmdVars, workerVars>>

(* pthread_cond_signal: lost if the worker is not in pthread_cond_wait. *)
Signal(d) == /\ dpc[d] = "signal"
             /\ wpc' = IF wpc = "asleep" THEN "relock" ELSE wpc
             /\ DGoto(d, "unlock")
             /\ UNCHANGED <<mtx, arg, cmdVars, laction, lvalue>>

DUnlock(d) == /\ dpc[d] = "unlock"
              /\ mtx' = NoThread
              /\ DGoto(d, "idle")
              /\ UNCHANGED <<arg, cmdVars, workerVars>>

Dispatch(d) == \/ DLock(d) \/ SetAction(d) \/ SetValue(d) \/ SetPending(d)
               \/ Signal(d) \/ DUnlock(d)
-----------------------------------------------------------------------------
(* led_thread_fn *)

(* Mutant: "if" for "while": a spurious wakeup is taken for a command. *)
WLockOnce == /\ wpc \in {"lock", "relock"}
             /\ mtx = NoThread
             /\ mtx' = "worker"
             /\ wpc' = IF wpc = "relock" THEN "copyAction" ELSE "test"
             /\ UNCHANGED <<cmdVars, dpc, arg, laction, lvalue>>

WLock == /\ wpc \in {"lock", "relock"}
         /\ mtx = NoThread
         /\ mtx' = "worker"
         /\ wpc' = "test"
         /\ UNCHANGED <<cmdVars, dpc, arg, laction, lvalue>>

(* while (!pending) pthread_cond_wait: release the mutex and sleep at once. *)
WTest == /\ wpc = "test"
         /\ \/ /\ pending
               /\ wpc' = "copyAction"
               /\ UNCHANGED mtx
            \/ /\ ~pending
               /\ wpc' = "asleep"
               /\ mtx' = NoThread
         /\ UNCHANGED <<cmdVars, dpc, arg, laction, lvalue>>

SpuriousWakeup == /\ wpc = "asleep"
                  /\ wpc' = "relock"
                  /\ UNCHANGED <<mtx, cmdVars, dpc, arg, laction, lvalue>>

CopyAction == /\ wpc = "copyAction"
              /\ laction' = action
              /\ wpc' = "copyValue"
              /\ UNCHANGED <<mtx, cmdVars, dpc, arg, lvalue>>

CopyValue == /\ wpc = "copyValue"
             /\ lvalue' = value
             /\ wpc' = "clear"
             /\ UNCHANGED <<mtx, cmdVars, dpc, arg, laction>>

ClearPending == /\ wpc = "clear"
                /\ pending' = FALSE
                /\ wpc' = "unlock"
                /\ UNCHANGED <<mtx, action, value, dpc, arg, laction, lvalue>>

WUnlock == /\ wpc = "unlock"
           /\ mtx' = NoThread
           /\ wpc' = "execute"
           /\ UNCHANGED <<cmdVars, dpc, arg, laction, lvalue>>

(* switch (action): the call into led.so, made outside the mutex. *)
Execute == /\ wpc = "execute"
           /\ wpc' = "lock"
           /\ UNCHANGED <<mtx, cmdVars, dpc, arg, laction, lvalue>>

Worker == WLock \/ WTest \/ CopyAction \/ CopyValue \/ ClearPending \/ WUnlock \/ Execute

Next == (\E d \in Dispatcher : Call(d) \/ Dispatch(d)) \/ Worker \/ SpuriousWakeup

Spec == Init /\ [][Next]_vars
-----------------------------------------------------------------------------
(***************************************************************************)
(* Fairness: every thread that can run does run.  A pthread mutex promises *)
(* no waiter its turn, so nothing stronger than weak fairness is assumed;  *)
(* instead the dispatchers are assumed to stop calling at some point.      *)
(***************************************************************************)
Fairness == WF_vars(Worker) /\ \A d \in Dispatcher : WF_vars(Dispatch(d))

CallsStop == <>[][~\E d \in Dispatcher : Call(d)]_vars

FairSpec == Spec /\ Fairness /\ CallsStop
-----------------------------------------------------------------------------
TypeOK == /\ mtx \in Dispatcher \cup {"worker", NoThread}
          /\ action \in Action \cup {Zero} /\ value \in Value \cup {Zero}
          /\ pending \in BOOLEAN
          /\ dpc \in [Dispatcher -> {"idle", "lock", "action", "value",
                                     "pending", "signal", "unlock"}]
          /\ arg \in [Dispatcher -> Command]
          /\ wpc \in {"lock", "test", "asleep", "relock", "copyAction",
                      "copyValue", "clear", "unlock", "execute"}
          /\ laction \in Action \cup {Zero} /\ lvalue \in Value \cup {Zero}

(***************************************************************************)
(* The refinement.  A call takes effect when its dispatcher gets the       *)
(* mutex; the command is taken when the worker clears pending.             *)
(***************************************************************************)
Writing(d) == dpc[d] \in {"action", "value", "pending"}

Writer == CHOOSE d \in Dispatcher : Writing(d)

slotBar    == IF \E d \in Dispatcher : Writing(d) THEN arg[Writer]
              ELSE IF action = Zero THEN NoCommand ELSE <<action, value>>
pendingBar == pending \/ \E d \in Dispatcher : Writing(d)
busyBar    == IF wpc \in {"unlock", "execute"} THEN <<laction, lvalue>> ELSE NoCommand

Abstract == INSTANCE Mailbox WITH slot <- slotBar, pending <- pendingBar, busy <- busyBar

(* What the device executes is always a whole command that was dispatched, *)
(* the newest one, and each at most once, although action, value and       *)
(* pending are written one at a time and pthread_cond_wait may wake        *)
(* spuriously (led_thread_fn with dispatch_led).                           *)
ImplementsMailbox == Abstract!Spec

(* No lost wakeup: when no thread is inside dispatch_led, a worker asleep  *)
(* in pthread_cond_wait has no command waiting for it.                     *)
NoLostWakeup ==
    (wpc = "asleep" /\ \A d \in Dispatcher : dpc[d] \in {"idle", "lock"}) => ~pending

(* A dispatched command is taken by the worker (led_thread_fn), whatever   *)
(* the order of signals, waits and spurious wakeups.                       *)
CommandTaken == pending ~> ~pending
=============================================================================
