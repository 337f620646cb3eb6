----------------------------- MODULE AlarmServer -----------------------------
(***************************************************************************)
(* The device side of alarm_server: the client handler threads, the sensor *)
(* thread, the cancellable melody and countdown threads, the two device    *)
(* workers, and the hardware state they all write (server/handler.c,       *)
(* server/main.c, lib/buzzer.c, lib/led.c, lib/segment.c).                 *)
(*                                                                         *)
(* Grain.  A critical section of g_state.lock, g_led_mtx or g_buzzer_mtx   *)
(* never blocks and is one step (CommandWorker.tla justifies this for the  *)
(* two mailboxes).  The two control locks are held across pthread_join and *)
(* are variables.  Everything between two shared accesses is local and     *)
(* joined to the access before it.  A thread's program counter names the   *)
(* access it makes next.                                                   *)
(*                                                                         *)
(* Cancellation is deferred: pthread_cancel only marks the target, which   *)
(* unwinds at its next cancellation point (usleep, sleep, send, open and   *)
(* pthread_join; pthread_mutex_lock is not one).                           *)
(***************************************************************************)
EXTENDS Integers

CONSTANTS Handler,      \* handle_client threads, one per connection
          Request,      \* the MSG_CMD requests the clients may send
          Reading,      \* what sensor_read may return, see SensorReadings
          Notes,        \* length of fur_elise
          Free          \* owner of an unlocked control lock

Threads == Handler \cup {"sensor", "countdown"}

NoLed   == [action |-> "none", value |-> 0]
LedCmd  == [action : {"on", "off", "brightness"}, value : 0..3]
NoReq   == [op |-> "none", value |-> 0]

(* MSG_CMD by device and action; value is the payload byte. *)
Ops == {"led_on", "led_off", "led_brightness", "buzzer_on", "buzzer_off",
        "melody", "seg_stop", "set_number", "alarm_off"}

(* fp_sensor_read: an I2C error, below or at LIGHT_THRESHOLD and above. *)
SensorReadings == {"error", "light", "dark"}

ASSUME ServerAssumption ==
    /\ Free \notin Threads
    /\ Handler \cap {"sensor", "countdown"} = {}
    /\ Request \subseteq [op : Ops, value : 0..255]
    /\ Reading \subseteq SensorReadings
    /\ Notes \in Nat \ {0}

VARIABLES
    pc,         \* next access of each handler, of the sensor and countdown threads
    req,        \* the request a handler is serving
    st,         \* g_state without the client table
    consec,     \* the sensor thread's debounce counter
    melodyLock, \* owner of g_melody_control_lock
    mpc,        \* the melody thread: "none" until created, "exited" until joined
    mcancel,    \* it has a pending pthread_cancel
    note,       \* its position in fur_elise
    mrunning,   \* g_melody_running
    mjoinable,  \* g_melody_joinable
    segLock,    \* owner of g_segment_control_lock
    scancel,    \* the countdown thread has a pending pthread_cancel
    count,      \* its counter
    owned,      \* its buzzer_owned
    srunning,   \* g_segment_running
    sjoinable,  \* g_segment_joinable
    ledSlot, ledPending, ledBusy,   \* g_led_cmd and the LED worker
    bzSlot, bzPending, bzBusy,      \* g_buzzer_cmd and the buzzer worker
    tone,       \* what softTone plays on the buzzer pin
    gstop,      \* g_stop of lib/buzzer.c
    duty,       \* softPwm duty cycle of the LED
    display     \* digit on the 7-segment display, -1 when blank

reqVars    == <<pc, req>>
melodyCtl  == <<melodyLock, mjoinable>>
melodyVars == <<mpc, mcancel, note, mrunning>>
segCtl     == <<segLock, sjoinable>>
segVars    == <<scancel, count, owned, srunning>>
ledVars    == <<ledSlot, ledPending, ledBusy>>
bzVars     == <<bzSlot, bzPending, bzBusy>>
sound      == <<tone, gstop>>
vars == <<reqVars, st, consec, melodyCtl, melodyVars, segCtl, segVars,
          ledVars, bzVars, sound, duty, display>>

LedBox == INSTANCE Mailbox WITH Command <- LedCmd, NoCommand <- NoLed,
              slot <- ledSlot, pending <- ledPending, busy <- ledBusy
BzBox  == INSTANCE Mailbox WITH Command <- {"on", "off"}, NoCommand <- "none",
              slot <- bzSlot, pending <- bzPending, busy <- bzBusy

Init ==
    /\ pc = [t \in Threads |-> CASE t = "sensor"    -> "sense"
                                 [] t = "countdown" -> "none"
                                 [] OTHER           -> "recv"]
    /\ req = [h \in Handler |-> NoReq]
    /\ st = [alarm_active |-> FALSE, led_state |-> 0, led_brightness |-> 0,
             buzzer_state |-> 0, sensor_blocked |-> FALSE, segment_value |-> -1]
    /\ consec = 0
    /\ melodyLock = Free /\ mjoinable = FALSE /\ mrunning = FALSE
    /\ mpc = "none" /\ mcancel = FALSE /\ note = 0
    /\ segLock = Free /\ sjoinable = FALSE /\ srunning = FALSE
    /\ scancel = FALSE /\ count = 0 /\ owned = FALSE
    /\ LedBox!Init /\ BzBox!Init
    /\ tone = "silent" /\ gstop = FALSE /\ duty = 0 /\ display = -1

Goto(t, l) == pc' = [pc EXCEPT ![t] = l]

(* The handler answers its client and waits for the next request. *)
Answer(h) == /\ Goto(h, "recv")
             /\ req' = [req EXCEPT ![h] = NoReq]
-----------------------------------------------------------------------------
(* The buzzer library. *)

Silence == tone' = "silent" /\ gstop' = TRUE    \* buzzer_off, buzzer_stop_melody

(* buzzer_play_melody: a note sounds for 95% of its time, then a gap. *)
PlayReset == /\ mpc = "reset"
             /\ gstop' = FALSE /\ note' = 0 /\ mpc' = "check"
             /\ UNCHANGED <<tone, mcancel, mrunning, st>>

(* Mutant: "<=" for "<" in the loop over fur_elise. *)
PlayCheckPast == /\ mpc = "check"
                 /\ mpc' = IF note <= Notes /\ ~gstop THEN "note" ELSE "finish"
                 /\ UNCHANGED <<tone, gstop, note, mcancel, mrunning, st>>

PlayCheck == /\ mpc = "check"
             /\ mpc' = IF note < Notes /\ ~gstop THEN "note" ELSE "finish"
             /\ UNCHANGED <<tone, gstop, note, mcancel, mrunning, st>>

PlayNote == /\ mpc = "note"
            /\ tone' = "note" /\ mpc' = "play"
            /\ UNCHANGED <<gstop, note, mcancel, mrunning, st>>

(* The two usleep calls are cancellation points. *)
PlayRest == /\ mpc = "play" /\ ~mcancel
            /\ tone' = "silent" /\ mpc' = "gap"
            /\ UNCHANGED <<gstop, note, mcancel, mrunning, st>>

PlayNext == /\ mpc = "gap" /\ ~mcancel
            /\ note' = note + 1 /\ mpc' = "check"
            /\ UNCHANGED <<tone, gstop, mcancel, mrunning, st>>

PlayFinish == /\ mpc = "finish"
              /\ tone' = "silent" /\ mpc' = "clear"
              /\ UNCHANGED <<gstop, note, mcancel, mrunning, st>>

(* Mutant: a cleanup handler that leaves the tone playing. *)
UnwindSounding == /\ mpc \in {"play", "gap"} /\ mcancel
                  /\ mpc' = "clear"
                  /\ UNCHANGED <<sound, note, mcancel, mrunning, st>>

(* melody_cleanup, run when the cancellation is acted upon. *)
MelodyUnwind == /\ mpc \in {"play", "gap"} /\ mcancel
                /\ Silence /\ mpc' = "clear"
                /\ UNCHANGED <<note, mcancel, mrunning, st>>

(* Both ends of melody_thread_fn: buzzer_state, then g_melody_running. *)
MelodyClear == /\ mpc = "clear"
               /\ st' = [st EXCEPT !.buzzer_state = 0]
               /\ mpc' = "end"
               /\ UNCHANGED <<sound, note, mcancel, mrunning>>

MelodyEnd == /\ mpc = "end"
             /\ mrunning' = FALSE /\ mpc' = "exited" /\ note' = 0
             /\ UNCHANGED <<sound, mcancel, st>>

MelodyThread ==
    /\ \/ PlayReset \/ PlayCheck \/ PlayNote \/ PlayRest \/ PlayNext
       \/ PlayFinish \/ MelodyUnwind \/ MelodyClear \/ MelodyEnd
    /\ UNCHANGED <<reqVars, consec, melodyCtl, segCtl, segVars, ledVars, bzVars,
                   duty, display>>
-----------------------------------------------------------------------------
(* stop_melody_thread and start_melody_thread, called by thread t. *)

Starting(t) == t \in Handler /\ req[t].op = "melody"

(* Where stop_melody_thread returns to. *)
AfterMelody(t) == CASE t = "sensor"    -> "alarm_led"
                    [] t = "countdown" -> "claim"
                    [] OTHER -> IF req[t].op = "alarm_off" THEN "seg_lock" ELSE "bz_state"

(* Mutant: start_melody_thread without stop_melody_locked. *)
LockMelodyNoJoin(t) ==
    /\ pc[t] = "mel_lock"
    /\ melodyLock = Free
    /\ \/ /\ Starting(t)
          /\ melodyLock' = t /\ Goto(t, "mel_create")
       \/ /\ mjoinable /\ ~Starting(t)
          /\ melodyLock' = t /\ Goto(t, "mel_stop")
       \/ /\ ~mjoinable /\ ~Starting(t)
          /\ melodyLock' = Free /\ Goto(t, AfterMelody(t))
    /\ UNCHANGED <<melodyVars, mjoinable, sound, req>>

(* Take the control lock.  With no thread to join, stop_melody_thread is   *)
(* over at once and start_melody_thread goes on to create its thread.      *)
LockMelody(t) ==
    /\ pc[t] = "mel_lock"
    /\ melodyLock = Free
    /\ \/ /\ mjoinable
          /\ melodyLock' = t /\ Goto(t, "mel_stop")
       \/ /\ ~mjoinable /\ Starting(t)
          /\ melodyLock' = t /\ Goto(t, "mel_create")
       \/ /\ ~mjoinable /\ ~Starting(t)
          /\ melodyLock' = Free /\ Goto(t, AfterMelody(t))
    /\ UNCHANGED <<melodyVars, mjoinable, sound, req>>

StopMelodyTone(t) ==
    /\ pc[t] = "mel_stop"
    /\ Silence
    /\ Goto(t, "mel_cancel")
    /\ UNCHANGED <<melodyVars, melodyCtl, req>>

(* Mutant: g_stop alone is trusted to end the melody. *)
NoCancelMelody(t) ==
    /\ pc[t] = "mel_cancel"
    /\ Goto(t, "mel_join")
    /\ UNCHANGED <<melodyVars, melodyCtl, sound, req>>

CancelMelody(t) ==
    /\ pc[t] = "mel_cancel"
    /\ mcancel' = (mcancel \/ mrunning)
    /\ Goto(t, "mel_join")
    /\ UNCHANGED <<mpc, note, mrunning, melodyCtl, sound, req>>

(* pthread_join returns; stop_melody_thread then unlocks. *)
JoinMelody(t) ==
    /\ pc[t] = "mel_join"
    /\ mpc = "exited"
    /\ mpc' = "none" /\ mcancel' = FALSE /\ mrunning' = FALSE /\ mjoinable' = FALSE
    /\ \/ /\ Starting(t)
          /\ Goto(t, "mel_create") /\ UNCHANGED melodyLock
       \/ /\ ~Starting(t)
          /\ Goto(t, AfterMelody(t)) /\ melodyLock' = Free
    /\ UNCHANGED <<note, sound, req>>

(* Mutant: the error path returns without unlocking. *)
CreateMelodyKeepsLock(h) ==
    /\ pc[h] = "mel_create"
    /\ \/ /\ mpc' = "reset" /\ mcancel' = FALSE /\ mrunning' = TRUE /\ mjoinable' = TRUE
          /\ melodyLock' = Free
          /\ Goto(h, "play_state") /\ UNCHANGED req
       \/ /\ mrunning' = FALSE
          /\ Answer(h) /\ UNCHANGED <<mpc, mcancel, mjoinable, melodyLock>>
    /\ UNCHANGED <<note, sound>>

(* g_melody_running is raised first; pthread_create may fail. *)
CreateMelody(h) ==
    /\ pc[h] = "mel_create"
    /\ melodyLock' = Free
    /\ \/ /\ mpc' = "reset" /\ mcancel' = FALSE /\ mrunning' = TRUE /\ mjoinable' = TRUE
          /\ Goto(h, "play_state") /\ UNCHANGED req
       \/ /\ mrunning' = FALSE
          /\ Answer(h) /\ UNCHANGED <<mpc, mcancel, mjoinable>>
    /\ UNCHANGED <<note, sound>>

MelodyControl(t) ==
    /\ \/ LockMelody(t) \/ StopMelodyTone(t) \/ CancelMelody(t) \/ JoinMelody(t)
       \/ (t \in Handler /\ CreateMelody(t))
    /\ UNCHANGED <<st, consec, segCtl, segVars, ledVars, bzVars, duty, display>>
-----------------------------------------------------------------------------
(* The countdown thread, segment_thread_fn. *)

CGoto(l) == Goto("countdown", l)

(* Act on a pending cancellation and run seg_cleanup. *)
Unwind == scancel /\ CGoto("unwind") /\ UNCHANGED <<count, owned, st, bzVars, display>>

Show == /\ pc["countdown"] = "show"
        /\ display' = count
        /\ st' = [st EXCEPT !.segment_value = count]
        /\ CGoto("tick")
        /\ UNCHANGED <<count, owned, bzVars>>

(* broadcast_msg(EVT_COUNTDOWN), which is a cancellation point when a      *)
(* client is connected, and above zero sleep(1), which always is one.      *)
Tick == /\ pc["countdown"] = "tick"
        /\ \/ Unwind
           \/ /\ count > 0 /\ ~scancel
              /\ count' = count - 1 /\ CGoto("show")
              /\ UNCHANGED <<owned, st, bzVars, display>>
           \/ /\ count = 0
              /\ CGoto("mel_lock")      \* stop_melody_thread()
              /\ UNCHANGED <<count, owned, st, bzVars, display>>

Claim == /\ pc["countdown"] = "claim"
         /\ st' = [st EXCEPT !.buzzer_state = 1]
         /\ CGoto("sound")
         /\ UNCHANGED <<count, owned, bzVars, display>>

Sound == /\ pc["countdown"] = "sound"
         /\ BzBox!Post("on")
         /\ owned' = TRUE
         /\ CGoto("hold")
         /\ UNCHANGED <<count, st, display>>

(* Broadcast EVT_ALARM_TRIGGERED, log, sleep(1), blank the display. *)
Hold == /\ pc["countdown"] = "hold"
        /\ \/ Unwind
           \/ /\ ~scancel
              /\ display' = -1
              /\ st' = [st EXCEPT !.segment_value = -1]
              /\ CGoto("hold2")
              /\ UNCHANGED <<count, owned, bzVars>>

(* sleep(2), then the buzzer is given back. *)
Hold2 == /\ pc["countdown"] = "hold2"
         /\ \/ Unwind
            \/ /\ ~scancel
               /\ BzBox!Post("off")
               /\ owned' = FALSE
               /\ CGoto("release")
               /\ UNCHANGED <<count, st, display>>

Release == /\ pc["countdown"] = "release"
           /\ st' = [st EXCEPT !.buzzer_state = 0]
           /\ CGoto("log")
           /\ UNCHANGED <<count, owned, bzVars, display>>

(* log_event opens a file: the last cancellation point. *)
LogEnd == /\ pc["countdown"] = "log"
          /\ \/ Unwind
             \/ /\ ~scancel
                /\ CGoto("end")
                /\ UNCHANGED <<count, owned, st, bzVars, display>>

(* pthread_join inside stop_melody_thread is a cancellation point too: it  *)
(* unwinds with g_melody_control_lock held, and seg_cleanup does not       *)
(* release it.                                                             *)
UnwindInJoin == pc["countdown"] = "mel_join" /\ mpc # "exited" /\ Unwind

(* Mutant: seg_cleanup only blanks the display. *)
CleanupDisplay == /\ pc["countdown"] = "unwind"
                  /\ display' = -1
                  /\ CGoto("unwind_state")
                  /\ UNCHANGED <<count, owned, st, bzVars>>

(* seg_cleanup: display and buzzer, then the shared state. *)
CleanupDevices == /\ pc["countdown"] = "unwind"
                  /\ display' = -1
                  /\ IF owned THEN BzBox!Post("off") ELSE UNCHANGED bzVars
                  /\ CGoto("unwind_state")
                  /\ UNCHANGED <<count, owned, st>>

CleanupState ==
    /\ pc["countdown"] = "unwind_state"
    /\ st' = [st EXCEPT !.segment_value = -1,
                        !.buzzer_state = IF owned THEN 0 ELSE @]
    /\ CGoto("end")
    /\ UNCHANGED <<count, owned, bzVars, display>>

CountdownThread ==
    /\ \/ Show \/ Tick \/ Claim \/ Sound \/ Hold \/ Hold2 \/ Release \/ LogEnd
       \/ UnwindInJoin \/ CleanupDevices \/ CleanupState
    /\ UNCHANGED <<req, consec, melodyCtl, melodyVars, segCtl, scancel, srunning,
                   ledVars, sound, duty>>

(* g_segment_running is cleared and the thread is gone. *)
CountdownEnd ==
    /\ pc["countdown"] = "end"
    /\ srunning' = FALSE /\ owned' = FALSE /\ count' = 0
    /\ CGoto("exited")
    /\ UNCHANGED <<req, st, consec, melodyCtl, melodyVars, segCtl, scancel,
                   ledVars, bzVars, sound, duty, display>>
-----------------------------------------------------------------------------
(* stop_segment_thread and start_segment_thread, called by handler h. *)

(* What stop_segment_thread returns to: the end of DEV_SEGMENT/ACT_OFF, or *)
(* the rest of ACT_ALARM_OFF.                                              *)
AfterSegment(h) == IF req[h].op = "alarm_off"
                   THEN Goto(h, "off_state") /\ UNCHANGED req
                   ELSE Answer(h)

(* Mutant: start_segment_thread without stop_segment_locked. *)
LockSegmentNoJoin(h) ==
    /\ pc[h] = "seg_lock"
    /\ segLock = Free
    /\ \/ /\ req[h].op = "set_number"
          /\ segLock' = h /\ Goto(h, "seg_create") /\ UNCHANGED req
       \/ /\ sjoinable /\ req[h].op # "set_number"
          /\ segLock' = h /\ Goto(h, "seg_cancel") /\ UNCHANGED req
       \/ /\ ~sjoinable /\ req[h].op # "set_number"
          /\ segLock' = Free /\ AfterSegment(h)
    /\ UNCHANGED <<segVars, sjoinable>>

LockSegment(h) ==
    /\ pc[h] = "seg_lock"
    /\ segLock = Free
    /\ \/ /\ sjoinable
          /\ segLock' = h /\ Goto(h, "seg_cancel") /\ UNCHANGED req
       \/ /\ ~sjoinable /\ req[h].op = "set_number"
          /\ segLock' = h /\ Goto(h, "seg_create") /\ UNCHANGED req
       \/ /\ ~sjoinable /\ req[h].op # "set_number"
          /\ segLock' = Free /\ AfterSegment(h)
    /\ UNCHANGED <<segVars, sjoinable>>

CancelSegment(h) ==
    /\ pc[h] = "seg_cancel"
    /\ scancel' = (scancel \/ srunning)
    /\ Goto(h, "seg_join")
    /\ UNCHANGED <<count, owned, srunning, segCtl, req>>

JoinSegment(h) ==
    /\ pc[h] = "seg_join"
    /\ pc["countdown"] = "exited"
    /\ scancel' = FALSE /\ srunning' = FALSE /\ sjoinable' = FALSE
    /\ \/ /\ req[h].op = "set_number"
          /\ pc' = [pc EXCEPT !["countdown"] = "none", ![h] = "seg_create"]
          /\ UNCHANGED <<segLock, req>>
       \/ /\ req[h].op = "alarm_off"
          /\ pc' = [pc EXCEPT !["countdown"] = "none", ![h] = "off_state"]
          /\ segLock' = Free /\ UNCHANGED req
       \/ /\ req[h].op = "seg_stop"
          /\ pc' = [pc EXCEPT !["countdown"] = "none", ![h] = "recv"]
          /\ req' = [req EXCEPT ![h] = NoReq]
          /\ segLock' = Free
    /\ UNCHANGED <<count, owned>>

CreateSegment(h) ==
    /\ pc[h] = "seg_create"
    /\ segLock' = Free
    /\ \/ /\ pc' = [pc EXCEPT !["countdown"] = "show", ![h] = "publish"]
          /\ count' = req[h].value /\ owned' = FALSE
          /\ scancel' = FALSE /\ srunning' = TRUE /\ sjoinable' = TRUE
          /\ UNCHANGED req
       \/ /\ srunning' = FALSE      \* pthread_create failed
          /\ Answer(h)
          /\ UNCHANGED <<count, owned, scancel, sjoinable>>

SegmentControl(h) ==
    /\ LockSegment(h) \/ CancelSegment(h) \/ JoinSegment(h) \/ CreateSegment(h)
    /\ UNCHANGED <<st, consec, melodyCtl, melodyVars, ledVars, bzVars, sound,
                   duty, display>>
-----------------------------------------------------------------------------
(* handle_client and the command handlers it calls. *)

(* Requests outside these ranges are answered RESP_ERR and change nothing. *)
ValidBrightness(r) == r.op = "led_brightness" => r.value \in 1..3
ValidNumber(r)     == r.op = "set_number" => r.value \in 1..9

Valid(r) == ValidBrightness(r) /\ ValidNumber(r)

FirstStep(op) == CASE op \in {"led_on", "led_off", "led_brightness"} -> "led_state"
                   [] op \in {"buzzer_on", "buzzer_off", "melody", "alarm_off"} -> "mel_lock"
                   [] op \in {"seg_stop", "set_number"} -> "seg_lock"

Receive(h) ==
    /\ pc[h] = "recv"
    /\ \E r \in Request : /\ Valid(r)
                          /\ req' = [req EXCEPT ![h] = r]
                          /\ Goto(h, FirstStep(r.op))
    /\ UNCHANGED <<st, ledVars, bzVars>>

(* Mutant: ACT_OFF clears the brightness but not led_state. *)
LedStateStale(h) ==
    /\ pc[h] = "led_state"
    /\ st' = CASE req[h].op = "led_on"  -> [st EXCEPT !.led_state = 1]
               [] req[h].op = "led_off" -> [st EXCEPT !.led_brightness = 0]
               [] OTHER -> [st EXCEPT !.led_state = 1, !.led_brightness = req[h].value]
    /\ Goto(h, "led_dispatch")
    /\ UNCHANGED <<req, ledVars, bzVars>>

(* handle_led_command: the shared state first, then the worker. *)
LedState(h) ==
    /\ pc[h] = "led_state"
    /\ st' = CASE req[h].op = "led_on"  -> [st EXCEPT !.led_state = 1]
               [] req[h].op = "led_off" -> [st EXCEPT !.led_state = 0, !.led_brightness = 0]
               [] OTHER -> [st EXCEPT !.led_state = 1, !.led_brightness = req[h].value]
    /\ Goto(h, "led_dispatch")
    /\ UNCHANGED <<req, ledVars, bzVars>>

LedDispatch(h) ==
    /\ pc[h] = "led_dispatch"
    /\ LedBox!Post([action |-> CASE req[h].op = "led_on"  -> "on"
                                 [] req[h].op = "led_off" -> "off"
                                 [] OTHER -> "brightness",
                    value |-> IF req[h].op = "led_brightness" THEN req[h].value ELSE 0])
    /\ Answer(h)
    /\ UNCHANGED <<st, bzVars>>

(* handle_buzzer_command, after stop_melody_thread. *)
BuzzerState(h) ==
    /\ pc[h] = "bz_state"
    /\ st' = [st EXCEPT !.buzzer_state = IF req[h].op = "buzzer_on" THEN 1 ELSE 0]
    /\ Goto(h, "bz_dispatch")
    /\ UNCHANGED <<req, ledVars, bzVars>>

BuzzerDispatch(h) ==
    /\ pc[h] = "bz_dispatch"
    /\ BzBox!Post(IF req[h].op = "buzzer_on" THEN "on" ELSE "off")
    /\ Answer(h)
    /\ UNCHANGED <<st, ledVars>>

(* ACT_PLAY_MELODY, after start_melody_thread succeeded. *)
PlayState(h) ==
    /\ pc[h] = "play_state"
    /\ st' = [st EXCEPT !.buzzer_state = 1]
    /\ Answer(h)
    /\ UNCHANGED <<ledVars, bzVars>>

(* ACT_SET_NUMBER, after start_segment_thread succeeded. *)
Publish(h) ==
    /\ pc[h] = "publish"
    /\ st' = [st EXCEPT !.segment_value = req[h].value]
    /\ Answer(h)
    /\ UNCHANGED <<ledVars, bzVars>>

(* ACT_ALARM_OFF, after both threads were stopped. *)
OffState(h) ==
    /\ pc[h] = "off_state"
    /\ st' = [st EXCEPT !.alarm_active = FALSE, !.led_state = 0,
                        !.led_brightness = 0, !.buzzer_state = 0]
    /\ Goto(h, "off_led")
    /\ UNCHANGED <<req, ledVars, bzVars>>

OffLed(h) ==
    /\ pc[h] = "off_led"
    /\ LedBox!Post([action |-> "off", value |-> 0])
    /\ Goto(h, "bz_dispatch")
    /\ UNCHANGED <<req, st, bzVars>>

HandlerStep(h) ==
    /\ \/ LedState(h) \/ LedDispatch(h) \/ BuzzerState(h) \/ BuzzerDispatch(h)
       \/ PlayState(h) \/ Publish(h) \/ OffState(h) \/ OffLed(h)
    /\ UNCHANGED <<consec, melodyCtl, melodyVars, segCtl, segVars, sound, duty, display>>
-----------------------------------------------------------------------------
(* sensor_thread_fn. *)

(* Mutant: an I2C error is taken for light. *)
PollErrorResets(r) ==
    /\ pc["sensor"] = "sense"
    /\ LET n == IF r = "dark" THEN consec + 1 ELSE 0
       IN  /\ consec' = IF n >= 3 THEN 0 ELSE n
           /\ Goto("sensor", IF n >= 3 THEN "alarm_set" ELSE "sense")
           /\ st' = IF r = "light" THEN [st EXCEPT !.sensor_blocked = FALSE] ELSE st
    /\ UNCHANGED <<ledVars, bzVars>>

(* One poll: three dark readings in a row, errors skipped, raise the alarm. *)
Poll(r) ==
    /\ pc["sensor"] = "sense"
    /\ LET n == CASE r = "error" -> consec
                  [] r = "light" -> 0
                  [] r = "dark"  -> consec + 1
       IN  /\ consec' = IF n >= 3 THEN 0 ELSE n
           /\ Goto("sensor", IF n >= 3 THEN "alarm_set" ELSE "sense")
           /\ st' = IF r = "light" THEN [st EXCEPT !.sensor_blocked = FALSE] ELSE st
    /\ UNCHANGED <<ledVars, bzVars>>

Sense == \E r \in Reading : Poll(r)

AlarmSet == /\ pc["sensor"] = "alarm_set"
            /\ st' = IF st.alarm_active THEN st
                     ELSE [st EXCEPT !.alarm_active = TRUE, !.sensor_blocked = TRUE,
                                     !.led_state = 1, !.led_brightness = 3,
                                     !.buzzer_state = 1]
            /\ Goto("sensor", IF st.alarm_active THEN "sense"
                              ELSE "mel_lock")      \* stop_melody_thread()
            /\ UNCHANGED <<consec, ledVars, bzVars>>

AlarmLed == /\ pc["sensor"] = "alarm_led"
            /\ LedBox!Post([action |-> "brightness", value |-> 3])
            /\ Goto("sensor", "alarm_buzzer")
            /\ UNCHANGED <<st, consec, bzVars>>

AlarmBuzzer == /\ pc["sensor"] = "alarm_buzzer"
               /\ BzBox!Post("on")
               /\ Goto("sensor", "alarm_hold")
               /\ UNCHANGED <<st, consec, ledVars>>

(* Events, log, sleep(5), then the release. *)
AlarmLedOff == /\ pc["sensor"] = "alarm_hold"
               /\ LedBox!Post([action |-> "off", value |-> 0])
               /\ Goto("sensor", "alarm_buzzer_off")
               /\ UNCHANGED <<st, consec, bzVars>>

AlarmBuzzerOff == /\ pc["sensor"] = "alarm_buzzer_off"
                  /\ BzBox!Post("off")
                  /\ Goto("sensor", "alarm_clear")
                  /\ UNCHANGED <<st, consec, ledVars>>

(* Mutant: the release leaves alarm_active to ACT_ALARM_OFF. *)
AlarmStaysActive == /\ pc["sensor"] = "alarm_clear"
                    /\ st' = [st EXCEPT !.led_state = 0, !.led_brightness = 0,
                                        !.buzzer_state = 0, !.sensor_blocked = FALSE]
                    /\ Goto("sensor", "sense")
                    /\ UNCHANGED <<consec, ledVars, bzVars>>

AlarmClear == /\ pc["sensor"] = "alarm_clear"
              /\ st' = [st EXCEPT !.alarm_active = FALSE, !.led_state = 0,
                                  !.led_brightness = 0, !.buzzer_state = 0,
                                  !.sensor_blocked = FALSE]
              /\ Goto("sensor", "sense")
              /\ UNCHANGED <<consec, ledVars, bzVars>>

SensorThread ==
    /\ \/ Sense \/ AlarmSet \/ AlarmLed \/ AlarmBuzzer \/ AlarmLedOff
       \/ AlarmBuzzerOff \/ AlarmClear
    /\ UNCHANGED <<req, melodyCtl, melodyVars, segCtl, segVars, sound, duty, display>>
-----------------------------------------------------------------------------
(* led_thread_fn and buzzer_thread_fn with the calls into led.so, buzzer.so. *)

Duty(c) == CASE c.action = "on"  -> 100
             [] c.action = "off" -> 0
             [] OTHER -> CASE c.value = 1 -> 25 [] c.value = 2 -> 50
                           [] c.value = 3 -> 100 [] OTHER -> 0

LedTake == LedBox!Take /\ UNCHANGED duty

LedRun == LedBox!Finish /\ duty' = Duty(ledBusy)

BuzzerTake == BzBox!Take /\ UNCHANGED sound

BuzzerRun == /\ BzBox!Finish
             /\ IF bzBusy = "on" THEN tone' = "alarm" /\ UNCHANGED gstop ELSE Silence

LedWorker == /\ LedTake \/ LedRun
             /\ UNCHANGED <<reqVars, st, consec, melodyCtl, melodyVars, segCtl,
                            segVars, bzVars, sound, display>>

BuzzerWorker == /\ BuzzerTake \/ BuzzerRun
                /\ UNCHANGED <<reqVars, st, consec, melodyCtl, melodyVars, segCtl,
                               segVars, ledVars, duty, display>>
-----------------------------------------------------------------------------
NewRequest(h) == /\ Receive(h)
                 /\ UNCHANGED <<consec, melodyCtl, melodyVars, segCtl, segVars, sound,
                                duty, display>>

(* Everything handler h does by itself once it has a request. *)
Serve(h) == MelodyControl(h) \/ SegmentControl(h) \/ HandlerStep(h)

Sensor    == SensorThread \/ MelodyControl("sensor")
Countdown == CountdownThread \/ CountdownEnd \/ MelodyControl("countdown")

Next == \/ \E h \in Handler : NewRequest(h) \/ Serve(h)
        \/ Sensor \/ Countdown \/ MelodyThread \/ LedWorker \/ BuzzerWorker

Spec == Init /\ [][Next]_vars

(***************************************************************************)
(* Fairness: each thread that can run does run.  The melody and the        *)
(* countdown are paced by usleep and sleep, the sensor by nanosleep, all   *)
(* of which return.  A pthread mutex promises no waiter its turn, so       *)
(* nothing stronger than weak fairness is assumed; instead the clients are *)
(* assumed to stop sending commands at some point.                         *)
(***************************************************************************)
Fairness == /\ \A h \in Handler : WF_vars(Serve(h))
            /\ WF_vars(Sensor) /\ WF_vars(Countdown) /\ WF_vars(MelodyThread)
            /\ WF_vars(LedWorker) /\ WF_vars(BuzzerWorker)

CommandsStop == <>[][\A h \in Handler : pc[h] = "recv" => pc'[h] = "recv"]_vars

FairSpec == Spec /\ Fairness /\ CommandsStop
-----------------------------------------------------------------------------
HandlerPc == {"recv", "led_state", "led_dispatch", "mel_lock", "mel_stop",
              "mel_cancel", "mel_join", "mel_create", "play_state", "bz_state",
              "bz_dispatch", "seg_lock", "seg_cancel", "seg_join", "seg_create",
              "publish", "off_state", "off_led"}
SensorPc == {"sense", "alarm_set", "mel_lock", "mel_stop", "mel_cancel", "mel_join",
             "alarm_led", "alarm_buzzer", "alarm_hold", "alarm_buzzer_off",
             "alarm_clear"}
CountdownPc == {"none", "show", "tick", "mel_lock", "mel_stop", "mel_cancel",
                "mel_join", "claim", "sound", "hold", "hold2", "release", "log",
                "unwind", "unwind_state", "end", "exited"}
MelodyPc == {"none", "reset", "check", "note", "play", "gap", "finish", "clear",
             "end", "exited"}

ThreadsOK ==
    /\ DOMAIN pc = Threads
    /\ \A h \in Handler : pc[h] \in HandlerPc
    /\ pc["sensor"] \in SensorPc /\ pc["countdown"] \in CountdownPc
    /\ req \in [Handler -> Request \cup {NoReq}]

StateOK ==
    /\ st \in [alarm_active : BOOLEAN, led_state : 0..1, led_brightness : 0..3,
               buzzer_state : 0..1, sensor_blocked : BOOLEAN, segment_value : -1..9]
    /\ consec \in 0..2

MelodyOK ==
    /\ melodyLock \in Threads \cup {Free}
    /\ mpc \in MelodyPc /\ note \in 0..Notes

CountdownOK ==
    /\ segLock \in Handler \cup {Free}
    /\ count \in 0..9

DevicesOK ==
    /\ {ledSlot, ledBusy} \subseteq LedCmd \cup {NoLed}
    /\ {bzSlot, bzBusy} \subseteq {"on", "off", "none"}
    /\ tone \in {"silent", "alarm", "note"}
    /\ duty \in {0, 25, 50, 100} /\ display \in -1..9

FlagsOK ==
    /\ mcancel \in BOOLEAN /\ mrunning \in BOOLEAN /\ mjoinable \in BOOLEAN
    /\ scancel \in BOOLEAN /\ srunning \in BOOLEAN /\ sjoinable \in BOOLEAN
    /\ owned \in BOOLEAN /\ gstop \in BOOLEAN
    /\ ledPending \in BOOLEAN /\ bzPending \in BOOLEAN

TypeOK == ThreadsOK /\ StateOK /\ MelodyOK /\ CountdownOK /\ DevicesOK /\ FlagsOK

(* g_melody_tid is never overwritten while it names a thread that nobody   *)
(* has joined: start_melody_thread reaches pthread_create with no melody   *)
(* thread left, whoever else is starting or stopping one.                  *)
OneMelody ==
    /\ \A h \in Handler : pc[h] = "mel_create" => mpc = "none"
    /\ mjoinable <=> mpc # "none"

(* The same for g_segment_tid and start_segment_thread.                    *)
OneCountdown ==
    /\ \A h \in Handler : pc[h] = "seg_create" => pc["countdown"] = "none"
    /\ sjoinable <=> pc["countdown"] # "none"

(* An intrusion is never swallowed: whenever sensor_thread_fn has seen     *)
(* three dark readings, "already" is false and it raises the alarm.        *)
IntrusionRaisesAlarm == pc["sensor"] = "alarm_set" => ~st.alarm_active

(* Once the worker has executed an OFF and no melody thread is alive, the  *)
(* buzzer is silent, however the melody ended: played out, stopped through *)
(* g_stop or cancelled (buzzer_thread_fn, melody_thread_fn).               *)
OffSilences ==
    (bzSlot = "off" /\ BzBox!Drained /\ mpc \in {"none", "exited"}) => tone = "silent"

(* While stop_melody_thread waits in pthread_join the melody does not go   *)
(* on to its next note, even if buzzer_play_melody reset g_stop after      *)
(* buzzer_stop_melody had set it.                                          *)
StoppedMelodyEnds ==
    [][(mpc = "gap" /\ \E t \in Threads : pc[t] = "mel_join") => mpc' # "check"]_vars

(* When only countdowns use the buzzer: with no countdown alive and the    *)
(* worker idle, buzzer, buzzer_state and display are off, at whichever     *)
(* cancellation point the countdown was stopped (segment_thread_fn,        *)
(* seg_cleanup).                                                           *)
CountdownLeavesSilence ==
    (pc["countdown"] \in {"none", "exited"} /\ BzBox!Drained)
        => tone = "silent" /\ st.buzzer_state = 0 /\ display = -1

(* What handle_query answers to ACT_GET_STATUS. *)
StatusReply(device) == CASE device = "sensor" -> st.sensor_blocked
                         [] device = "led"    -> st.led_state = 1
                         [] device = "buzzer" -> st.buzzer_state = 1

(* Nobody is between an LED update in g_state and its dispatch, and the     *)
(* worker has executed the last command.                                   *)
LedAtRest == /\ \A h \in Handler : pc[h] = "recv"
             /\ pc["sensor"] = "sense"
             /\ LedBox!Drained

(* Then the answer to QUERY LED GET_STATUS says whether the LED is lit     *)
(* (handle_led_command, handle_query).  False when two handlers update and *)
(* dispatch in opposite orders; AlarmHistory says what is true.            *)
LedStatusTruthful == LedAtRest => (StatusReply("led") <=> duty > 0)

(* The answer to QUERY BUZZER GET_STATUS says whether the buzzer sounds,   *)
(* when nobody is about to change what it plays; an alarm or a countdown   *)
(* may be holding it on (handle_buzzer_command, handle_query).             *)
BuzzerStatusTruthful ==
    (/\ \A h \in Handler : pc[h] = "recv"
     /\ pc["sensor"] \in {"sense", "alarm_hold"}
     /\ pc["countdown"] \in {"none", "exited", "hold", "hold2"}
     /\ BzBox!Drained /\ mpc \in {"none", "exited"})
        => (StatusReply("buzzer") <=> tone # "silent")

(* segment_value is the digit on the display whenever no countdown and no  *)
(* request is active (handle_segment_command, segment_thread_fn).          *)
SegmentValueTruthful ==
    ((\A h \in Handler : pc[h] = "recv") /\ pc["countdown"] \in {"none", "exited"})
        => st.segment_value = display

(* With clients that only send ALARM_OFF: once it has been answered and    *)
(* executed, alarm_active = 0 means that LED and buzzer are off            *)
(* (handle_system_command against sensor_thread_fn).                       *)
AlarmOffIsComplete ==
    (/\ \A h \in Handler : pc[h] = "recv"
     /\ pc["sensor"] \in {"sense", "alarm_hold"}
     /\ ~st.alarm_active /\ LedBox!Drained /\ BzBox!Drained)
        => duty = 0 /\ tone = "silent"

(* Every request that is received is answered (handle_client).             *)
EveryCommandAnswered == \A h \in Handler : pc[h] # "recv" ~> pc[h] = "recv"

(* The sensor releases every alarm it raises (sensor_thread_fn).           *)
AlarmReleased == st.alarm_active ~> ~st.alarm_active

(* A countdown that was cancelled in the pthread_join of                   *)
(* stop_melody_thread has died, or is dying, with g_melody_control_lock.   *)
LockOrphaned == /\ melodyLock = "countdown"
                /\ pc["countdown"] \notin {"mel_stop", "mel_cancel", "mel_join"}

(* The melody thread exists and has been told to end, or has ended. *)
MelodyTold == mpc # "none" /\ (mcancel \/ mpc = "exited")

(* That is the only way to lose the lock.  Otherwise whoever holds it is   *)
(* between lock and unlock of stop_ or start_melody_thread, also after a   *)
(* failed pthread_create, and waits in pthread_join for nothing but a      *)
(* melody that has been told to end (stop_melody_locked).                  *)
LockComesBack ==
    \/ melodyLock = Free
    \/ LockOrphaned
    \/ \E t \in Threads :
          /\ melodyLock = t
          /\ \/ pc[t] \in {"mel_stop", "mel_cancel", "mel_create"}
             \/ pc[t] = "mel_join" /\ MelodyTold
=============================================================================
