------------------------- MODULE CommandWorkerProofs -------------------------
(***************************************************************************)
(* Proofs about CommandWorker, for any number of dispatching threads and   *)
(* any set of commands: the safety part of "dispatch_led and led_thread_fn *)
(* together are a one-place register of commands".                         *)
(***************************************************************************)
EXTENDS CommandWorker, TLAPS

Inside == {"action", "value", "pending", "signal", "unlock"}
WInside == {"test", "copyAction", "copyValue", "clear", "unlock"}

(* Only the owner of g_led_mtx is between lock and unlock. *)
Mutex == /\ \A d \in Dispatcher : dpc[d] \in Inside <=> mtx = d
         /\ wpc \in WInside <=> mtx = "worker"

(* How far the owner of the mutex has got with the fields of g_led_cmd.    *)
Fields ==
    /\ \A d \in Dispatcher :
          /\ dpc[d] \in {"value", "pending", "signal", "unlock"} => action = arg[d][1]
          /\ dpc[d] \in {"pending", "signal", "unlock"} => value = arg[d][2]
          /\ dpc[d] \in {"signal", "unlock"} => pending
    /\ (\A d \in Dispatcher : dpc[d] \notin {"value"}) => (action = Zero <=> value = Zero)
    /\ pending => action # Zero

(* What the worker has copied so far. *)
Copied ==
    /\ wpc \in {"copyAction", "copyValue", "clear"} => pending
    /\ wpc \in {"copyValue", "clear"} => laction = action
    /\ wpc = "clear" => lvalue = value
    /\ wpc \in {"unlock", "execute"} => <<laction, lvalue>> \in Command

(* A sleeping worker has nothing to do, or its signal is still to come.    *)
Awaited == wpc = "asleep" /\ pending => \E d \in Dispatcher : dpc[d] = "signal"

IInv == TypeOK /\ Mutex /\ Fields /\ Copied /\ Awaited
-----------------------------------------------------------------------------
(* The fields of g_led_cmd and the program counters keep their ranges in   *)
(* every reachable state, for every set of dispatchers.                    *)
THEOREM TypeCorrect == Spec => []TypeOK
<1> USE WorkerAssumption DEF TypeOK, Command, cmdVars, workerVars
<1>1. Init => TypeOK
  BY DEF Init
<1>2. TypeOK /\ [Next]_vars => TypeOK'
  <2> SUFFICES ASSUME TypeOK, [Next]_vars PROVE TypeOK'
    OBVIOUS
  <2>1. ASSUME NEW d \in Dispatcher, Call(d) PROVE TypeOK'
    BY <2>1 DEF Call, DGoto
  <2>2. ASSUME NEW d \in Dispatcher, DLock(d) \/ SetAction(d) \/ SetValue(d) PROVE TypeOK'
    BY <2>2 DEF DLock, SetAction, SetValue, DGoto
  <2>3. ASSUME NEW d \in Dispatcher, SetPending(d) \/ Signal(d) \/ DUnlock(d) PROVE TypeOK'
    BY <2>3 DEF SetPending, Signal, DUnlock, DGoto
  <2>4. CASE Worker
    BY <2>4 DEF Worker, WLock, WTest, CopyAction, CopyValue, ClearPending, WUnlock, Execute
  <2>5. CASE SpuriousWakeup
    BY <2>5 DEF SpuriousWakeup
  <2>6. CASE UNCHANGED vars
    BY <2>6 DEF vars
  <2> QED
    BY <2>1, <2>2, <2>3, <2>4, <2>5, <2>6 DEF Next, Dispatch
<1> QED
  BY <1>1, <1>2, PTL DEF Spec

LEMMA InitInv == Init => IInv
BY WorkerAssumption
   DEF Init, IInv, TypeOK, Mutex, Fields, Copied, Awaited, Inside, WInside, Command

LEMMA StepInv == IInv /\ [Next]_vars => IInv'
<1> SUFFICES ASSUME IInv, [Next]_vars PROVE IInv'
  OBVIOUS
<1> USE WorkerAssumption
    DEF IInv, TypeOK, Mutex, Fields, Copied, Awaited, Inside, WInside, Command,
        cmdVars, workerVars
<1>1. ASSUME NEW d \in Dispatcher, Call(d) PROVE IInv'
  BY <1>1 DEF Call, DGoto
<1>2. ASSUME NEW d \in Dispatcher, DLock(d) PROVE IInv'
  BY <1>2 DEF DLock, DGoto
<1>3. ASSUME NEW d \in Dispatcher, SetAction(d) PROVE IInv'
  BY <1>3 DEF SetAction, DGoto
<1>4. ASSUME NEW d \in Dispatcher, SetValue(d) PROVE IInv'
  BY <1>4 DEF SetValue, DGoto
<1>5. ASSUME NEW d \in Dispatcher, SetPending(d) PROVE IInv'
  BY <1>5 DEF SetPending, DGoto
<1>6. ASSUME NEW d \in Dispatcher, Signal(d) PROVE IInv'
  BY <1>6 DEF Signal, DGoto
<1>7. ASSUME NEW d \in Dispatcher, DUnlock(d) PROVE IInv'
  BY <1>7 DEF DUnlock, DGoto
<1>8. CASE WLock
  BY <1>8 DEF WLock
<1>9. CASE WTest
  BY <1>9 DEF WTest
<1>10. CASE CopyAction \/ CopyValue
  BY <1>10 DEF CopyAction, CopyValue
<1>11. CASE ClearPending
  <2>1. mtx = "worker" /\ \A d \in Dispatcher : dpc[d] \in {"idle", "lock"}
    BY <1>11 DEF ClearPending
  <2>2. laction \in Action /\ lvalue \in Value
    BY <1>11, <2>1 DEF ClearPending
  <2>3. TypeOK' /\ Mutex'
    BY <1>11 DEF ClearPending
  <2>4. Fields' /\ Awaited'
    BY <1>11, <2>1 DEF ClearPending
  <2>5. Copied'
    BY <1>11, <2>2 DEF ClearPending
  <2> QED
    BY <2>3, <2>4, <2>5
<1>12. CASE WUnlock \/ Execute
  BY <1>12 DEF WUnlock, Execute
<1>13. CASE SpuriousWakeup
  BY <1>13 DEF SpuriousWakeup
<1>14. CASE UNCHANGED vars
  BY <1>14 DEF vars
<1> QED
  BY <1>1, <1>2, <1>3, <1>4, <1>5, <1>6, <1>7, <1>8, <1>9, <1>10, <1>11, <1>12,
     <1>13, <1>14 DEF Next, Dispatch, Worker

LEMMA Invariance == Spec => []IInv
BY InitInv, StepInv, PTL DEF Spec

(* No wakeup is lost: a worker asleep in pthread_cond_wait never has a     *)
(* command waiting for it once no thread is inside dispatch_led.           *)
THEOREM WakeupKept == Spec => []NoLostWakeup
<1>1. IInv => NoLostWakeup
  BY DEF IInv, Awaited, NoLostWakeup
<1> QED
  BY <1>1, Invariance, PTL
-----------------------------------------------------------------------------
(* The refinement, step by step. *)

LEMMA InitRefines == Init => Abstract!Init
BY DEF Init, Abstract!Init, slotBar, pendingBar, busyBar, Writing

(* While a dispatcher writes, the register shows the command it writes,    *)
(* otherwise the fields as they are.                                       *)
Bar == /\ \A d \in Dispatcher : Writing(d) => slotBar = arg[d] /\ pendingBar
       /\ (\A d \in Dispatcher : ~Writing(d)) =>
             /\ slotBar = IF action = Zero THEN NoCommand ELSE <<action, value>>
             /\ pendingBar = pending

LEMMA BarHolds == IInv => Bar
<1> SUFFICES ASSUME IInv PROVE Bar
  OBVIOUS
<1>1. ASSUME NEW d \in Dispatcher, Writing(d) PROVE slotBar = arg[d] /\ pendingBar
  <2>1. Writer = d
    BY <1>1 DEF IInv, Mutex, Inside, Writing, Writer
  <2> QED
    BY <1>1, <2>1 DEF slotBar, pendingBar
<1>2. ASSUME \A d \in Dispatcher : ~Writing(d)
      PROVE  /\ slotBar = IF action = Zero THEN NoCommand ELSE <<action, value>>
             /\ pendingBar = pending
  BY <1>2 DEF slotBar, pendingBar, IInv, TypeOK
<1> QED
  BY <1>1, <1>2 DEF Bar

LEMMA StepRefines == IInv /\ IInv' /\ [Next]_vars => [Abstract!Next]_(Abstract!mailboxVars)
<1> SUFFICES ASSUME IInv, IInv', [Next]_vars
             PROVE  Abstract!Next \/ UNCHANGED <<slotBar, pendingBar, busyBar>>
  BY DEF Abstract!mailboxVars
<1>0. Bar /\ Bar'
  BY BarHolds, PTL
<1> USE WorkerAssumption, <1>0 DEF Bar, Writing, busyBar, cmdVars, workerVars
<1>1. ASSUME NEW d \in Dispatcher, Call(d)
      PROVE  UNCHANGED <<slotBar, pendingBar, busyBar>>
  <2> USE <1>1 DEF Call, DGoto, IInv, TypeOK
  <2>1. \A e \in Dispatcher : (Writing(e)' <=> Writing(e)) /\ (Writing(e) => arg'[e] = arg[e])
    OBVIOUS
  <2>2. CASE \E e \in Dispatcher : Writing(e)
    <3>1. PICK e \in Dispatcher : Writing(e)
      BY <2>2
    <3>2. slotBar' = slotBar
      BY <2>1, <3>1
    <3>3. pendingBar' = pendingBar
      BY <2>1, <3>1 DEF pendingBar
    <3> QED
      BY <3>2, <3>3
  <2>3. CASE \A e \in Dispatcher : ~Writing(e)
    BY <2>1, <2>3
  <2> QED
    BY <2>2, <2>3
<1>2. ASSUME NEW d \in Dispatcher, DLock(d) PROVE Abstract!Post(arg[d]) /\ arg[d] \in Command
  <2> USE <1>2 DEF DLock, DGoto, IInv, TypeOK
  <2>1. Writing(d)' /\ arg' = arg
    OBVIOUS
  <2>2. slotBar' = arg[d] /\ pendingBar' = TRUE
    BY <2>1
  <2> QED
    BY <2>2 DEF Abstract!Post, pendingBar
<1>3. ASSUME NEW d \in Dispatcher, SetAction(d) \/ SetValue(d)
      PROVE  UNCHANGED <<slotBar, pendingBar, busyBar>>
  <2> USE <1>3 DEF SetAction, SetValue, DGoto, IInv, TypeOK
  <2>1. Writing(d) /\ Writing(d)' /\ UNCHANGED <<arg, wpc, laction, lvalue>>
    OBVIOUS
  <2> QED
    BY <2>1 DEF pendingBar
<1>4. ASSUME NEW d \in Dispatcher, SetPending(d)
      PROVE  UNCHANGED <<slotBar, pendingBar, busyBar>>
  <2> USE <1>4 DEF SetPending, DGoto, IInv, TypeOK
  <2>1. Writing(d) /\ \A e \in Dispatcher : ~Writing(e)'
    BY DEF Mutex, Inside
  <2>2. action = arg[d][1] /\ value = arg[d][2] /\ arg[d] \in Action \X Value
    BY DEF Fields, Command
  <2>3. arg[d] = <<action, value>> /\ action # Zero
    BY <2>2
  <2> QED
    BY <2>1, <2>3 DEF pendingBar
<1>5. ASSUME NEW d \in Dispatcher, Signal(d) \/ DUnlock(d)
      PROVE  UNCHANGED <<slotBar, pendingBar, busyBar>>
  <2> USE <1>5 DEF Signal, DUnlock, DGoto, IInv, TypeOK
  <2>1. \A e \in Dispatcher : ~Writing(e) /\ ~Writing(e)'
    BY DEF Mutex, Inside
  <2> QED
    BY <2>1
<1>6. CASE ClearPending
  <2> USE <1>6 DEF ClearPending, IInv, TypeOK
  <2>1. \A e \in Dispatcher : ~Writing(e) /\ ~Writing(e)'
    BY DEF Mutex, Inside, WInside
  <2>2. laction = action /\ lvalue = value /\ pending /\ action # Zero
    BY DEF Copied, Fields
  <2>3. busyBar = NoCommand /\ busyBar' = slotBar /\ slotBar' = slotBar
    BY <2>1, <2>2
  <2>4. pendingBar /\ pendingBar' = FALSE
    BY <2>1, <2>2
  <2>5. Abstract!Take
    BY <2>3, <2>4 DEF Abstract!Take
  <2> QED
    BY <2>5 DEF Abstract!Next
<1>7. CASE Execute
  <2> USE <1>7 DEF Execute, IInv, TypeOK
  <2>1. UNCHANGED <<slotBar, pendingBar>>
    BY DEF slotBar, pendingBar, Writer
  <2>2. busyBar # NoCommand /\ busyBar' = NoCommand
    BY DEF Copied
  <2>3. Abstract!Finish
    BY <2>1, <2>2 DEF Abstract!Finish
  <2> QED
    BY <2>3 DEF Abstract!Next
<1>8. CASE WLock \/ WTest \/ CopyAction \/ CopyValue \/ WUnlock \/ SpuriousWakeup
  <2>1. UNCHANGED <<action, value, pending, dpc, arg>>
    BY <1>8 DEF WLock, WTest, CopyAction, CopyValue, WUnlock, SpuriousWakeup
  <2>2. UNCHANGED <<slotBar, pendingBar>>
    BY <2>1 DEF slotBar, pendingBar, Writer
  <2>3. UNCHANGED busyBar
    BY <1>8 DEF WLock, WTest, CopyAction, CopyValue, WUnlock, SpuriousWakeup
  <2> QED
    BY <2>2, <2>3
<1>9. CASE UNCHANGED vars
  BY <1>9 DEF vars, slotBar, pendingBar, Writer
<1> QED
  BY <1>1, <1>2, <1>3, <1>4, <1>5, <1>6, <1>7, <1>8, <1>9
     DEF Next, Dispatch, Worker, Abstract!Next

(* dispatch_led and led_thread_fn, with their mutex and condition variable *)
(* and any number of callers, implement the one-place register Mailbox.    *)
THEOREM Refinement == Spec => ImplementsMailbox
<1>1. IInv /\ IInv' /\ [Next]_vars => [Abstract!Next]_(Abstract!mailboxVars)
  BY StepRefines
<1> QED
  BY <1>1, InitRefines, Invariance, PTL DEF Spec, ImplementsMailbox, Abstract!Spec
=============================================================================
