-------------------------- MODULE AlarmServerProofs --------------------------
(***************************************************************************)
(* Proofs about AlarmServer, for any number of clients, any set of         *)
(* requests and any length of melody: thread handles are never overwritten *)
(* while their thread is unjoined, an intrusion is noticed after three     *)
(* dark readings and never swallowed, an OFF silences the buzzer, a stop   *)
(* ends the melody, and the LED's status is false only after two threads'  *)
(* commands have crossed; and countdowns that have the buzzer to           *)
(* themselves leave nothing on.                                            *)
(***************************************************************************)
EXTENDS AlarmHistory, TLAPS

(* A thread between lock and unlock of g_melody_control_lock owns it, and  *)
(* knows whether there is a melody thread to join.                         *)
MelodyHandle ==
    /\ mjoinable <=> mpc # "none"
    /\ \A t \in Threads :
          /\ pc[t] \in {"mel_stop", "mel_cancel", "mel_join"} => melodyLock = t /\ mjoinable
          /\ pc[t] = "mel_create" => melodyLock = t /\ ~mjoinable

(* The same for g_segment_control_lock. *)
CountdownHandle ==
    /\ sjoinable <=> pc["countdown"] # "none"
    /\ \A h \in Handler :
          /\ pc[h] \in {"seg_cancel", "seg_join"} => segLock = h /\ sjoinable
          /\ pc[h] = "seg_create" => segLock = h /\ ~sjoinable

(* alarm_active is up only while the sensor thread is busy with the alarm. *)
AlarmOwned == st.alarm_active => pc["sensor"] \notin {"sense", "alarm_set"}

(* What a handler has been asked for, by where it is. *)
Requested ==
    \A h \in Handler :
       /\ pc[h] # "recv" => req[h] \in Request /\ Valid(req[h])
       /\ pc[h] \in {"led_state", "led_dispatch"} =>
             req[h].op \in {"led_on", "led_off", "led_brightness"}
       /\ pc[h] \in {"mel_create", "play_state"} => req[h].op = "melody"
       /\ pc[h] \in {"seg_create", "publish"} => req[h].op = "set_number"

(* The melody does not run past the end of fur_elise. *)
InMelody == mpc \in {"note", "play", "gap"} => note < Notes

IInv == TypeOK /\ MelodyHandle /\ CountdownHandle /\ AlarmOwned /\ Requested /\ InMelody
-----------------------------------------------------------------------------
LEMMA InitInv == Init => IInv
<1> SUFFICES ASSUME Init PROVE IInv
  OBVIOUS
<1>0. /\ DOMAIN pc = Threads
      /\ \A h \in Handler : pc[h] = "recv"
      /\ pc["sensor"] = "sense" /\ pc["countdown"] = "none"
      /\ \A t \in Threads : pc[t] \in {"recv", "sense", "none"}
  BY ServerAssumption DEF Init, Threads
<1>1. ThreadsOK /\ Requested
  BY <1>0 DEF Init, ThreadsOK, Requested, HandlerPc, SensorPc, CountdownPc
<1>2. StateOK /\ AlarmOwned
  BY DEF Init, StateOK, AlarmOwned
<1>3. MelodyOK /\ InMelody /\ MelodyHandle
  <2>1. /\ melodyLock = Free /\ mpc = "none" /\ note = 0
        /\ mcancel = FALSE /\ mrunning = FALSE /\ mjoinable = FALSE
    BY DEF Init
  <2> QED
    BY <1>0, <2>1, ServerAssumption DEF MelodyOK, InMelody, MelodyHandle, MelodyPc
<1>4. CountdownOK /\ CountdownHandle
  <2>1. /\ segLock = Free /\ count = 0 /\ owned = FALSE
        /\ scancel = FALSE /\ srunning = FALSE /\ sjoinable = FALSE
    BY DEF Init
  <2> QED
    BY <1>0, <2>1 DEF CountdownOK, CountdownHandle, Threads
<1>5. DevicesOK
  <2>1. /\ ledSlot = NoLed /\ ledBusy = NoLed /\ bzSlot = "none" /\ bzBusy = "none"
        /\ ledPending = FALSE /\ bzPending = FALSE
        /\ tone = "silent" /\ gstop = FALSE /\ duty = 0 /\ display = -1
    BY DEF Init, LedBox!Init, BzBox!Init
  <2> QED
    BY <2>1 DEF DevicesOK
<1>6. FlagsOK
  BY DEF Init, FlagsOK, LedBox!Init, BzBox!Init
<1> QED
  BY <1>1, <1>2, <1>3, <1>4, <1>5, <1>6 DEF IInv, TypeOK

(* The writes to g_state keep every field in its range. *)
LEMMA SetLed ==
    \A l \in 0..1, b \in 0..3 :
       StateOK /\ consec' = consec /\ st' = [st EXCEPT !.led_state = l, !.led_brightness = b]
          => StateOK' /\ st'.alarm_active = st.alarm_active
  BY DEF StateOK

LEMMA SetOutputs ==
    \A a \in BOOLEAN, l \in 0..1, b \in 0..3, z \in 0..1 :
       StateOK /\ consec' = consec
         /\ st' = [st EXCEPT !.alarm_active = a, !.led_state = l, !.led_brightness = b,
                             !.buzzer_state = z]
          => StateOK' /\ st'.alarm_active = a
  BY DEF StateOK

LEMMA SetAlarm ==
    \A a \in BOOLEAN, k \in BOOLEAN, l \in 0..1, b \in 0..3, z \in 0..1 :
       StateOK /\ consec' = consec
         /\ st' = [st EXCEPT !.alarm_active = a, !.sensor_blocked = k, !.led_state = l,
                             !.led_brightness = b, !.buzzer_state = z]
          => StateOK' /\ st'.alarm_active = a
  BY ZenonT(30) DEF StateOK

LEMMA ClearAlarm ==
    \A a \in BOOLEAN, k \in BOOLEAN, l \in 0..1, b \in 0..3, z \in 0..1 :
       StateOK /\ consec' = consec
         /\ st' = [st EXCEPT !.alarm_active = a, !.led_state = l, !.led_brightness = b,
                             !.buzzer_state = z, !.sensor_blocked = k]
          => StateOK' /\ st'.alarm_active = a
  BY ZenonT(30) DEF StateOK

(* A handler's step moves only its own program counter and request. *)
LEMMA HandlerMoves ==
    ASSUME ThreadsOK, NEW h \in Handler, NEW l \in HandlerPc, Goto(h, l),
           req' = req \/ req' = [req EXCEPT ![h] = NoReq]
    PROVE  /\ ThreadsOK'
           /\ pc'[h] = l /\ \A t \in Threads \ {h} : pc'[t] = pc[t]
           /\ \A g \in Handler \ {h} : req'[g] = req[g]
<1>1. h \in Threads /\ h \notin {"sensor", "countdown"}
  BY ServerAssumption DEF Threads
<1>2. pc'[h] = l /\ \A t \in Threads \ {h} : pc'[t] = pc[t]
  BY <1>1 DEF Goto, ThreadsOK
<1>3. req' \in [Handler -> Request \cup {NoReq}] /\ \A g \in Handler \ {h} : req'[g] = req[g]
  BY DEF ThreadsOK
<1> QED
  BY <1>1, <1>2, <1>3 DEF ThreadsOK, Goto, Threads

(* The melody thread. *)
LEMMA MelodyThreadInv ==
    ASSUME IInv, MelodyThread PROVE IInv'
<1>1. /\ UNCHANGED <<pc, req, consec, melodyLock, mjoinable, ledSlot, ledPending, ledBusy,
                     bzSlot, bzPending, bzBusy, duty, display>>
      /\ UNCHANGED <<segLock, sjoinable, scancel, count, owned, srunning>>
  BY DEF MelodyThread, reqVars, melodyCtl, segCtl, segVars, ledVars, bzVars
<1>2. MelodyOK /\ InMelody /\ DevicesOK
  BY DEF IInv, TypeOK
<1>3. \/ PlayReset \/ PlayCheck \/ PlayNote \/ PlayRest \/ PlayNext
      \/ PlayFinish \/ MelodyUnwind \/ MelodyClear \/ MelodyEnd
  BY DEF MelodyThread
<1>4. mpc # "none" /\ mpc' # "none"
  BY <1>3 DEF PlayReset, PlayCheck, PlayNote, PlayRest, PlayNext, PlayFinish,
              MelodyUnwind, MelodyClear, MelodyEnd
<1>5. MelodyOK' /\ InMelody'
  BY <1>1, <1>2, <1>3, ServerAssumption
     DEF MelodyOK, InMelody, MelodyPc, PlayReset, PlayCheck, PlayNote, PlayRest,
         PlayNext, PlayFinish, MelodyUnwind, MelodyClear, MelodyEnd
<1>6. tone' \in {"silent", "alarm", "note"}
  BY <1>2, <1>3 DEF DevicesOK, Silence, sound, PlayReset, PlayCheck, PlayNote, PlayRest,
         PlayNext, PlayFinish, MelodyUnwind, MelodyClear, MelodyEnd
<1>7. StateOK' /\ st'.alarm_active = st.alarm_active
  <2>1. st' = st \/ st' = [st EXCEPT !.buzzer_state = 0]
    BY <1>3 DEF PlayReset, PlayCheck, PlayNote, PlayRest,
         PlayNext, PlayFinish, MelodyUnwind, MelodyClear, MelodyEnd
  <2> QED
    BY <1>1, <2>1 DEF IInv, TypeOK, StateOK
<1>11. FlagsOK'
  <2>1. FlagsOK
    BY DEF IInv, TypeOK
  <2>2. mcancel' = mcancel
    BY <1>3 DEF PlayReset, PlayCheck, PlayNote,
         PlayRest, PlayNext, PlayFinish, MelodyUnwind, MelodyClear, MelodyEnd
  <2>3. mrunning' = mrunning \/ mrunning' = FALSE
    BY <1>3 DEF PlayReset, PlayCheck, PlayNote,
         PlayRest, PlayNext, PlayFinish, MelodyUnwind, MelodyClear, MelodyEnd
  <2>4. gstop' = gstop \/ gstop' = TRUE \/ gstop' = FALSE
    BY <1>3 DEF Silence, sound, PlayReset, PlayCheck, PlayNote,
         PlayRest, PlayNext, PlayFinish, MelodyUnwind, MelodyClear, MelodyEnd
  <2> QED
    BY <1>1, <2>1, <2>2, <2>3, <2>4, ZenonT(30) DEF FlagsOK
<1>8. ThreadsOK' /\ CountdownOK' /\ DevicesOK'
  BY <1>1, <1>6 DEF IInv, TypeOK, ThreadsOK, CountdownOK, DevicesOK
<1>9. MelodyHandle' /\ CountdownHandle'
  BY <1>1, <1>4 DEF IInv, MelodyHandle, CountdownHandle
<1>10. AlarmOwned' /\ Requested'
  BY <1>1, <1>7 DEF IInv, AlarmOwned, Requested
<1> QED
  BY <1>5, <1>7, <1>8, <1>9, <1>10, <1>11 DEF IInv, TypeOK

(* stop_melody_thread and start_melody_thread, by any caller. *)
LEMMA MelodyControlInv ==
    ASSUME IInv, NEW t \in Threads, MelodyControl(t) PROVE IInv'
<1>0. /\ ThreadsOK /\ Requested /\ MelodyHandle /\ CountdownHandle /\ AlarmOwned
      /\ MelodyOK /\ InMelody /\ FlagsOK
  BY DEF IInv, TypeOK
<1>1. /\ UNCHANGED <<st, consec, segLock, sjoinable, scancel, count, owned, srunning, note>>
      /\ UNCHANGED <<ledSlot, ledPending, ledBusy, bzSlot, bzPending, bzBusy, duty, display>>
  BY DEF MelodyControl, segCtl, segVars, ledVars, bzVars, melodyVars, LockMelody,
         StopMelodyTone, CancelMelody, JoinMelody, CreateMelody
<1>2. /\ StateOK' /\ CountdownOK'
  BY <1>1 DEF IInv, TypeOK, StateOK, CountdownOK
<1>3. DevicesOK'
  <2>1. tone' \in {tone, "silent"}
    BY DEF MelodyControl, LockMelody, StopMelodyTone, CancelMelody, JoinMelody,
           CreateMelody, Silence, sound
  <2> QED
    BY <1>1, <2>1 DEF IInv, TypeOK, DevicesOK
<1> DEFINE After == {"alarm_led", "claim", "seg_lock", "bz_state"}
           Rest  == /\ ThreadsOK' /\ Requested' /\ MelodyHandle' /\ CountdownHandle'
                    /\ AlarmOwned' /\ MelodyOK' /\ InMelody'
<1>4. /\ AfterMelody(t) \in After
      /\ t \in Handler => AfterMelody(t) \in {"seg_lock", "bz_state"}
      /\ t = "sensor" => AfterMelody(t) = "alarm_led"
      /\ t = "countdown" => AfterMelody(t) = "claim"
  BY ServerAssumption DEF AfterMelody, Threads
<1>5. ASSUME LockMelody(t) PROVE Rest /\ FlagsOK'
  <2>1. /\ pc[t] = "mel_lock" /\ melodyLock = Free
        /\ UNCHANGED <<mpc, mcancel, note, mrunning, mjoinable, tone, gstop, req>>
        /\ \/ mjoinable /\ melodyLock' = t /\ Goto(t, "mel_stop")
           \/ ~mjoinable /\ Starting(t) /\ melodyLock' = t /\ Goto(t, "mel_create")
           \/ ~mjoinable /\ ~Starting(t) /\ melodyLock' = Free /\ Goto(t, AfterMelody(t))
    BY <1>5 DEF LockMelody, melodyVars, sound
  <2>2. ThreadsOK' /\ MelodyOK'
    BY <2>1, <1>0, <1>4, ServerAssumption
       DEF ThreadsOK, MelodyOK, Goto, Starting, Threads, HandlerPc, SensorPc, CountdownPc
  <2>3. Requested'
    BY <2>1, <1>0, <1>4, ServerAssumption DEF Requested, ThreadsOK, Goto, Starting, Threads
  <2>4. MelodyHandle'
    BY <2>1, <1>0, <1>4, ServerAssumption DEF MelodyHandle, ThreadsOK, Goto, Threads
  <2>5. CountdownHandle' /\ AlarmOwned'
    BY <2>1, <1>0, <1>1, <1>4, ServerAssumption
       DEF CountdownHandle, AlarmOwned, ThreadsOK, Goto, Threads, Starting
  <2>6. InMelody' /\ FlagsOK'
    BY <2>1, <1>0, <1>1 DEF InMelody, FlagsOK
  <2> QED
    BY <2>2, <2>3, <2>4, <2>5, <2>6
<1>6. ASSUME StopMelodyTone(t) \/ CancelMelody(t) PROVE Rest /\ FlagsOK'
  <2>1. /\ UNCHANGED <<mpc, note, mrunning, mjoinable, melodyLock, req>>
        /\ \/ pc[t] = "mel_stop" /\ Goto(t, "mel_cancel")
           \/ pc[t] = "mel_cancel" /\ Goto(t, "mel_join")
    BY <1>6 DEF StopMelodyTone, CancelMelody, melodyVars, melodyCtl
  <2>2. ThreadsOK' /\ MelodyOK' /\ Requested' /\ InMelody'
    BY <2>1, <1>0, <1>1, ServerAssumption
       DEF ThreadsOK, MelodyOK, Goto, Threads, HandlerPc, SensorPc, CountdownPc,
           Requested, InMelody
  <2>3. MelodyHandle' /\ CountdownHandle' /\ AlarmOwned'
    BY <2>1, <1>0, <1>1, ServerAssumption
       DEF MelodyHandle, CountdownHandle, AlarmOwned, ThreadsOK, Goto, Threads
  <2>4. FlagsOK'
    <3>1. /\ mrunning' = mrunning /\ mjoinable' = mjoinable
          /\ mcancel' = mcancel \/ mcancel' = (mcancel \/ mrunning)
          /\ gstop' = gstop \/ gstop' = TRUE
      BY <1>6 DEF StopMelodyTone, CancelMelody, Silence, melodyVars, melodyCtl, sound
    <3> QED
      BY <1>0, <1>1, <3>1 DEF FlagsOK
  <2> QED
    BY <2>2, <2>3, <2>4
<1>7. ASSUME JoinMelody(t) PROVE Rest /\ FlagsOK'
  <2>1. /\ pc[t] = "mel_join" /\ mpc' = "none" /\ mjoinable' = FALSE
        /\ UNCHANGED <<note, tone, gstop, req>>
        /\ \/ Starting(t) /\ Goto(t, "mel_create") /\ melodyLock' = melodyLock
           \/ ~Starting(t) /\ Goto(t, AfterMelody(t)) /\ melodyLock' = Free
    BY <1>7 DEF JoinMelody, sound
  <2>2. ThreadsOK' /\ MelodyOK'
    BY <2>1, <1>0, <1>4, ServerAssumption
       DEF ThreadsOK, MelodyOK, MelodyPc, Goto, Starting, Threads, HandlerPc, SensorPc, CountdownPc
  <2>3. Requested' /\ InMelody'
    BY <2>1, <1>0, <1>4, ServerAssumption
       DEF Requested, InMelody, ThreadsOK, Goto, Starting, Threads
  <2>4. MelodyHandle'
    BY <2>1, <1>0, <1>4, ServerAssumption DEF MelodyHandle, ThreadsOK, Goto, Threads
  <2>5. CountdownHandle' /\ AlarmOwned'
    BY <2>1, <1>0, <1>1, <1>4, ServerAssumption
       DEF CountdownHandle, AlarmOwned, ThreadsOK, Goto, Threads, Starting
  <2>6. FlagsOK'
    BY <1>0, <1>1, <1>7 DEF FlagsOK, JoinMelody, sound
  <2> QED
    BY <2>2, <2>3, <2>4, <2>5, <2>6
<1>8. ASSUME t \in Handler, CreateMelody(t) PROVE Rest /\ FlagsOK'
  <2>1. /\ pc[t] = "mel_create" /\ melodyLock' = Free /\ UNCHANGED <<note, tone, gstop>>
        /\ \/ mpc' = "reset" /\ mjoinable' = TRUE /\ Goto(t, "play_state") /\ req' = req
           \/ Answer(t) /\ UNCHANGED <<mpc, mjoinable>>
    BY <1>8 DEF CreateMelody, sound
  <2>2. ThreadsOK' /\ MelodyOK'
    BY <1>8, <2>1, <1>0, ServerAssumption
       DEF ThreadsOK, MelodyOK, MelodyPc, Goto, Answer, Threads, HandlerPc
  <2>3. Requested' /\ InMelody'
    BY <1>8, <2>1, <1>0, ServerAssumption
       DEF Requested, InMelody, ThreadsOK, Goto, Answer, Threads
  <2>4. MelodyHandle'
    BY <1>8, <2>1, <1>0, ServerAssumption DEF MelodyHandle, ThreadsOK, Goto, Answer, Threads
  <2>5. CountdownHandle' /\ AlarmOwned'
    BY <1>8, <2>1, <1>0, <1>1, ServerAssumption
       DEF CountdownHandle, AlarmOwned, ThreadsOK, Goto, Answer, Threads
  <2>6. FlagsOK'
    BY <1>0, <1>1, <1>8 DEF FlagsOK, CreateMelody, sound
  <2> QED
    BY <2>2, <2>3, <2>4, <2>5, <2>6
<1>9. Rest /\ FlagsOK'
  BY <1>5, <1>6, <1>7, <1>8 DEF MelodyControl
<1> QED
  BY <1>2, <1>3, <1>9 DEF IInv, TypeOK

(* The countdown thread. *)
LEMMA CountdownInv ==
    ASSUME IInv, CountdownThread \/ CountdownEnd PROVE IInv'
<1> DEFINE c == pc["countdown"]
           Acts == Show \/ Tick \/ Claim \/ Sound \/ Hold \/ Hold2 \/ Release \/ LogEnd
                   \/ UnwindInJoin \/ CleanupDevices \/ CleanupState \/ CountdownEnd
<1>0. /\ ThreadsOK /\ Requested /\ MelodyHandle /\ CountdownHandle /\ AlarmOwned
      /\ MelodyOK /\ InMelody /\ FlagsOK /\ StateOK /\ DevicesOK /\ CountdownOK
  BY DEF IInv, TypeOK
<1>1. /\ UNCHANGED <<req, consec, melodyLock, mjoinable, mpc, mcancel, note, mrunning>>
      /\ UNCHANGED <<segLock, sjoinable, scancel, ledSlot, ledPending, ledBusy, tone, gstop, duty>>
  BY DEF CountdownThread, CountdownEnd, melodyCtl, melodyVars, segCtl, ledVars, sound
<1>2. Acts
  BY DEF CountdownThread
<1>3. /\ c \notin {"none", "mel_lock", "mel_stop", "mel_cancel"}
      /\ \E l \in CountdownPc \ {"none", "mel_stop", "mel_cancel", "mel_join"} :
            pc' = [pc EXCEPT !["countdown"] = l]
  BY <1>2 DEF Show, Tick, Claim, Sound, Hold, Hold2, Release, LogEnd, UnwindInJoin, Unwind,
         CleanupDevices, CleanupState, CountdownEnd, CGoto, Goto, CountdownPc
<1>4. ThreadsOK'
  BY <1>0, <1>1, <1>3, ServerAssumption DEF ThreadsOK, Threads
<1>5. MelodyHandle' /\ CountdownHandle'
  BY <1>0, <1>1, <1>3, ServerAssumption
     DEF MelodyHandle, CountdownHandle, ThreadsOK, Threads, CountdownPc
<1>6. Requested' /\ InMelody' /\ MelodyOK'
  BY <1>0, <1>1, <1>3, ServerAssumption DEF Requested, InMelody, MelodyOK, ThreadsOK, Threads
<1>7. count' \in 0..9
  BY <1>0, <1>2 DEF CountdownOK, Show, Tick, Claim, Sound, Hold, Hold2, Release, LogEnd,
         UnwindInJoin, Unwind, CleanupDevices, CleanupState, CountdownEnd
<1>8. /\ StateOK' /\ AlarmOwned'
  <2>1. \E b \in 0..1, v \in -1..9 :
           st' = st \/ st' = [st EXCEPT !.segment_value = v]
                    \/ st' = [st EXCEPT !.buzzer_state = b]
                    \/ st' = [st EXCEPT !.segment_value = v, !.buzzer_state = b]
    <3>1. count \in -1..9 /\ st.buzzer_state \in 0..1
      BY <1>0 DEF CountdownOK, StateOK
    <3>2. CASE ~CleanupState
      BY <1>2, <3>1, <3>2 DEF Show, Tick, Claim, Sound, Hold, Hold2, Release, LogEnd,
         UnwindInJoin, Unwind, CleanupDevices, CountdownEnd
    <3>3. CASE CleanupState
      <4>1. st' = [st EXCEPT !.segment_value = -1,
                             !.buzzer_state = IF owned THEN 0 ELSE st.buzzer_state]
        BY <3>3 DEF CleanupState
      <4>2. (IF owned THEN 0 ELSE st.buzzer_state) \in 0..1 /\ -1 \in -1..9
        BY <3>1
      <4> QED
        BY <4>1, <4>2
    <3> QED
      BY <3>2, <3>3
  <2>2. StateOK' /\ st'.alarm_active = st.alarm_active
    BY <1>0, <1>1, <2>1 DEF StateOK
  <2> QED
    BY <1>0, <1>3, <2>2, ServerAssumption DEF AlarmOwned, ThreadsOK, Threads
<1>9. DevicesOK'
  <2>1. /\ display' \in {display, count, -1}
        /\ bzSlot' \in {bzSlot, "on", "off"} /\ bzBusy' = bzBusy
    BY <1>2 DEF Show, Tick, Claim, Sound, Hold, Hold2, Release, LogEnd, UnwindInJoin, Unwind,
         CleanupDevices, CleanupState, CountdownEnd, bzVars, BzBox!Post
  <2> QED
    BY <1>0, <1>1, <2>1 DEF DevicesOK, CountdownOK
<1>10. FlagsOK'
  <2>1. /\ owned' \in BOOLEAN /\ srunning' \in BOOLEAN /\ bzPending' \in BOOLEAN
    BY <1>0, <1>2 DEF FlagsOK, CountdownThread, Show, Tick, Claim, Sound, Hold, Hold2, Release,
         LogEnd, UnwindInJoin, Unwind, CleanupDevices, CleanupState, CountdownEnd, bzVars,
         BzBox!Post
  <2> QED
    BY <1>0, <1>1, <2>1 DEF FlagsOK
<1> QED
  BY <1>0, <1>1, <1>4, <1>5, <1>6, <1>7, <1>8, <1>9, <1>10 DEF IInv, TypeOK, CountdownOK

(* stop_segment_thread and start_segment_thread. *)
LEMMA SegmentControlInv ==
    ASSUME IInv, NEW h \in Handler, SegmentControl(h) PROVE IInv'
<1>0. /\ ThreadsOK /\ Requested /\ MelodyHandle /\ CountdownHandle /\ AlarmOwned
      /\ MelodyOK /\ InMelody /\ FlagsOK /\ StateOK /\ DevicesOK /\ CountdownOK
      /\ h \in Threads /\ h \notin {"sensor", "countdown"} /\ h # Free
  BY ServerAssumption DEF IInv, TypeOK, Threads
<1>1. /\ UNCHANGED <<st, consec, melodyLock, mjoinable, mpc, mcancel, note, mrunning>>
      /\ UNCHANGED <<ledSlot, ledPending, ledBusy, bzSlot, bzPending, bzBusy>>
      /\ UNCHANGED <<tone, gstop, duty, display>>
  BY DEF SegmentControl, melodyCtl, melodyVars, ledVars, bzVars, sound
<1>2. StateOK' /\ MelodyOK' /\ InMelody' /\ DevicesOK'
  BY <1>0, <1>1 DEF StateOK, MelodyOK, InMelody, DevicesOK
<1> DEFINE Rest  == /\ ThreadsOK' /\ Requested' /\ MelodyHandle' /\ CountdownHandle'
                    /\ AlarmOwned' /\ CountdownOK' /\ FlagsOK'
<1>3. ASSUME LockSegment(h) PROVE Rest
  <2>1. /\ pc[h] = "seg_lock" /\ segLock = Free
        /\ UNCHANGED <<count, owned, scancel, srunning, sjoinable>>
    BY <1>3 DEF LockSegment, segVars
  <2>2. PICK l \in {"seg_cancel", "seg_create", "off_state", "recv"} :
              /\ Goto(h, l) /\ segLock' \in {h, Free}
              /\ req' = req \/ (l = "recv" /\ req' = [req EXCEPT ![h] = NoReq])
              /\ l = "seg_cancel" => sjoinable /\ segLock' = h
              /\ l = "seg_create" => ~sjoinable /\ segLock' = h /\ req[h].op = "set_number"
    BY <1>3 DEF LockSegment, AfterSegment, Answer
  <2>3. /\ l \in HandlerPc
        /\ pc'[h] = l /\ \A t \in Threads \ {h} : pc'[t] = pc[t]
        /\ \A g \in Handler \ {h} : req'[g] = req[g]
        /\ ThreadsOK'
    <3>1. l \in HandlerPc
      BY <2>2 DEF HandlerPc
    <3> QED
      BY <2>2, <3>1, <1>0, HandlerMoves
  <2>4. CountdownOK'
    BY <2>1, <2>2, <1>0 DEF CountdownOK
  <2>5. Requested'
    <3>1. \A g \in Handler \ {h} : pc'[g] = pc[g] /\ req'[g] = req[g]
      BY <2>3 DEF Threads
    <3>2. l # "recv" => req'[h] = req[h] /\ pc[h] # "recv"
      BY <2>1, <2>2
    <3>3. l \notin {"led_state", "led_dispatch", "mel_create", "play_state", "publish"}
      OBVIOUS
    <3> QED
      BY <2>2, <2>3, <3>1, <3>2, <3>3, <1>0 DEF Requested
  <2>6. CountdownHandle'
    <3>1. ASSUME NEW g \in Handler, g # h
          PROVE  pc'[g] = pc[g] /\ pc[g] \notin {"seg_cancel", "seg_join", "seg_create"}
      BY <2>1, <2>3, <3>1, <1>0, ServerAssumption DEF CountdownHandle, Threads
    <3>2. pc'["countdown"] = pc["countdown"]
      BY <2>3, <1>0 DEF Threads
    <3> QED
      BY <2>1, <2>2, <2>3, <3>1, <3>2, <1>0 DEF CountdownHandle
  <2>7. MelodyHandle' /\ AlarmOwned' /\ FlagsOK'
    <3>1. \A t \in Threads : pc'[t] = pc[t]
             \/ pc'[t] \notin {"mel_stop", "mel_cancel", "mel_join", "mel_create"}
      BY <2>2, <2>3
    <3>2. pc'["sensor"] = pc["sensor"]
      BY <2>3, <1>0 DEF Threads
    <3>3. MelodyHandle' /\ AlarmOwned'
      BY <3>1, <3>2, <1>0, <1>1 DEF MelodyHandle, AlarmOwned
    <3> QED
      BY <2>1, <3>3, <1>0, <1>1 DEF FlagsOK
  <2> QED
    BY <2>3, <2>4, <2>5, <2>6, <2>7
<1>4. ASSUME CancelSegment(h) PROVE Rest
  <2>1. /\ pc[h] = "seg_cancel" /\ Goto(h, "seg_join")
        /\ UNCHANGED <<count, owned, segLock, srunning, sjoinable, req>>
    BY <1>4 DEF CancelSegment, segCtl
  <2>2. ThreadsOK' /\ CountdownOK' /\ Requested'
    BY <2>1, <1>0 DEF ThreadsOK, CountdownOK, Requested, Goto, HandlerPc
  <2>3. CountdownHandle' /\ MelodyHandle' /\ AlarmOwned'
    BY <2>1, <1>0, <1>1 DEF CountdownHandle, MelodyHandle, AlarmOwned, ThreadsOK, Goto, Threads
  <2>4. FlagsOK'
    BY <1>0, <1>1, <1>4, <2>1 DEF FlagsOK, CancelSegment
  <2> QED
    BY <2>2, <2>3, <2>4
<1>5. ASSUME JoinSegment(h) PROVE Rest
  <2>1. /\ pc[h] = "seg_join" /\ pc["countdown"] = "exited" /\ sjoinable' = FALSE
        /\ UNCHANGED <<count, owned>>
        /\ DOMAIN pc' = Threads /\ pc'["countdown"] = "none"
        /\ \A t \in Threads \ {h, "countdown"} : pc'[t] = pc[t]
        /\ \/ /\ req[h].op = "set_number" /\ segLock' = segLock /\ req' = req
              /\ pc'[h] = "seg_create"
           \/ /\ segLock' = Free /\ req' = req /\ pc'[h] = "off_state"
           \/ /\ segLock' = Free /\ req' = [req EXCEPT ![h] = NoReq] /\ pc'[h] = "recv"
    <3>1. \E l \in {"seg_create", "off_state", "recv"} :
             pc' = [pc EXCEPT !["countdown"] = "none", ![h] = l]
      BY <1>5 DEF JoinSegment
    <3>2. /\ DOMAIN pc' = Threads /\ pc'["countdown"] = "none"
          /\ \A t \in Threads \ {h, "countdown"} : pc'[t] = pc[t]
      BY <3>1, <1>0 DEF ThreadsOK, Threads
    <3>3. \/ /\ req[h].op = "set_number" /\ segLock' = segLock /\ req' = req
             /\ pc'[h] = "seg_create"
          \/ /\ segLock' = Free /\ req' = req /\ pc'[h] = "off_state"
          \/ /\ segLock' = Free /\ req' = [req EXCEPT ![h] = NoReq] /\ pc'[h] = "recv"
      BY <1>5, <1>0 DEF JoinSegment, ThreadsOK, Threads
    <3> QED
      BY <1>5, <3>2, <3>3 DEF JoinSegment
  <2> DEFINE next == pc'[h]
  <2>2. /\ next \in {"seg_create", "off_state", "recv"}
        /\ next \in HandlerPc
        /\ \A g \in Handler : g # h => g \in Threads \ {h, "countdown"} /\ pc'[g] = pc[g]
        /\ "sensor" \in Threads \ {h, "countdown"} /\ pc'["sensor"] = pc["sensor"]
    BY <2>1, <1>0, ServerAssumption DEF HandlerPc, Threads
  <2>3. /\ segLock' \in Handler \cup {Free}
        /\ req' \in [Handler -> Request \cup {NoReq}]
        /\ \A g \in Handler : g # h => req'[g] = req[g]
    BY <2>1, <1>0 DEF ThreadsOK, CountdownOK
  <2>4. ThreadsOK' /\ CountdownOK'
    <3>1. \A g \in Handler : pc'[g] \in HandlerPc
      BY <2>2, <1>0 DEF ThreadsOK
    <3>2. pc'["sensor"] \in SensorPc /\ pc'["countdown"] \in CountdownPc
      BY <2>1, <2>2, <1>0 DEF ThreadsOK, CountdownPc
    <3> QED
      BY <2>1, <2>3, <3>1, <3>2, <1>0 DEF ThreadsOK, CountdownOK
  <2>5. Requested'
    <3>1. ASSUME NEW g \in Handler, g # h
          PROVE  pc'[g] = pc[g] /\ req'[g] = req[g]
      BY <2>2, <2>3, <3>1
    <3>2. /\ next # "recv" => req'[h] = req[h] /\ pc[h] # "recv"
          /\ next = "seg_create" => req[h].op = "set_number"
      BY <2>1
    <3> QED
      BY <2>2, <3>1, <3>2, <1>0 DEF Requested
  <2>6. CountdownHandle'
    <3>1. ASSUME NEW g \in Handler, g # h
          PROVE  pc'[g] = pc[g] /\ pc[g] \notin {"seg_cancel", "seg_join", "seg_create"}
      BY <2>1, <2>2, <3>1, <1>0 DEF CountdownHandle
    <3>2. next = "seg_create" => segLock' = h
      BY <2>1, <1>0 DEF CountdownHandle
    <3> QED
      BY <2>1, <2>2, <3>1, <3>2 DEF CountdownHandle
  <2>7. MelodyHandle' /\ AlarmOwned'
    <3>1. \A t \in Threads : pc'[t] = pc[t]
             \/ pc'[t] \notin {"mel_stop", "mel_cancel", "mel_join", "mel_create"}
      BY <2>1, <2>2
    <3> QED
      BY <2>2, <3>1, <1>0, <1>1 DEF MelodyHandle, AlarmOwned
  <2>8. FlagsOK'
    BY <1>0, <1>1, <1>5 DEF FlagsOK, JoinSegment
  <2> QED
    BY <2>4, <2>5, <2>6, <2>7, <2>8
<1>6. ASSUME CreateSegment(h) PROVE Rest
  <2>1. /\ pc[h] = "seg_create" /\ segLock' = Free
        /\ \/ /\ pc' = [pc EXCEPT !["countdown"] = "show", ![h] = "publish"]
              /\ count' = req[h].value /\ sjoinable' = TRUE /\ req' = req
           \/ Answer(h) /\ UNCHANGED <<count, sjoinable>>
    BY <1>6 DEF CreateSegment
  <2>2. req[h].op = "set_number" /\ req[h].value \in 1..9
    BY <2>1, <1>0 DEF Requested, Valid, ValidBrightness, ValidNumber
  <2>3. ThreadsOK' /\ CountdownOK'
    BY <2>1, <2>2, <1>0, ServerAssumption
       DEF ThreadsOK, CountdownOK, Goto, Answer, HandlerPc, CountdownPc, Threads
  <2>4. Requested'
    BY <2>1, <2>2, <1>0, ServerAssumption DEF Requested, ThreadsOK, Goto, Answer, Threads
  <2>5. CountdownHandle'
    BY <2>1, <1>0, ServerAssumption DEF CountdownHandle, ThreadsOK, Goto, Answer, Threads
  <2>6. MelodyHandle' /\ AlarmOwned'
    BY <2>1, <1>0, <1>1, ServerAssumption
       DEF MelodyHandle, AlarmOwned, ThreadsOK, Goto, Answer, Threads
  <2>7. FlagsOK'
    BY <1>0, <1>1, <1>6 DEF FlagsOK, CreateSegment
  <2> QED
    BY <2>3, <2>4, <2>5, <2>6, <2>7
<1>7. Rest
  BY <1>3, <1>4, <1>5, <1>6 DEF SegmentControl
<1> QED
  BY <1>2, <1>7 DEF IInv, TypeOK

(* handle_client: a request, and the steps that only touch shared state    *)
(* and the mailboxes.                                                      *)
LEMMA HandlerInv ==
    ASSUME IInv, NEW h \in Handler, NewRequest(h) \/ HandlerStep(h) PROVE IInv'
<1>0. /\ ThreadsOK /\ Requested /\ MelodyHandle /\ CountdownHandle /\ AlarmOwned
      /\ MelodyOK /\ InMelody /\ FlagsOK /\ StateOK /\ DevicesOK /\ CountdownOK
      /\ h \in Threads /\ h \notin {"sensor", "countdown"}
  BY ServerAssumption DEF IInv, TypeOK, Threads
<1>1. /\ UNCHANGED <<consec, melodyLock, mjoinable, mpc, mcancel, note, mrunning>>
      /\ UNCHANGED <<segLock, sjoinable, scancel, count, owned, srunning>>
      /\ UNCHANGED <<tone, gstop, duty, display>>
  BY DEF NewRequest, HandlerStep, melodyCtl, melodyVars, segCtl, segVars, sound
<1>2. MelodyOK' /\ InMelody' /\ CountdownOK'
  BY <1>0, <1>1 DEF MelodyOK, InMelody, CountdownOK
<1> DEFINE Ctl == {"mel_stop", "mel_cancel", "mel_join", "mel_create",
                   "seg_cancel", "seg_join", "seg_create"}
<1>3. \/ Receive(h) \/ LedState(h) \/ LedDispatch(h) \/ BuzzerState(h) \/ BuzzerDispatch(h)
      \/ PlayState(h) \/ Publish(h) \/ OffState(h) \/ OffLed(h)
  BY DEF NewRequest, HandlerStep
<1>4. /\ \E l \in HandlerPc \ Ctl : Goto(h, l)
      /\ ThreadsOK' /\ Requested'
  <2>1. ASSUME Receive(h) PROVE <1>4!1 /\ <1>4!2
    <3>1. PICK r \in Request : /\ Valid(r)
                               /\ req' = [req EXCEPT ![h] = r]
                               /\ Goto(h, FirstStep(r.op))
      BY <2>1 DEF Receive
    <3>2. r.op \in Ops
      BY ServerAssumption
    <3>3. /\ FirstStep(r.op) \in {"led_state", "mel_lock", "seg_lock"}
          /\ FirstStep(r.op) = "led_state" => r.op \in {"led_on", "led_off", "led_brightness"}
      BY <3>2 DEF FirstStep, Ops
    <3>4. ThreadsOK' /\ Requested'
      BY <1>0, <3>1, <3>3 DEF ThreadsOK, Requested, Goto, HandlerPc
    <3> QED
      BY <3>1, <3>3, <3>4 DEF HandlerPc
  <2>2. ASSUME \/ LedDispatch(h) \/ BuzzerDispatch(h) \/ PlayState(h) \/ Publish(h)
        PROVE  <1>4!1 /\ <1>4!2
    <3>1. Answer(h)
      BY <2>2 DEF LedDispatch, BuzzerDispatch, PlayState, Publish
    <3>2. pc' = [pc EXCEPT ![h] = "recv"] /\ req' = [req EXCEPT ![h] = NoReq]
      BY <3>1 DEF Answer, Goto
    <3>3. ThreadsOK'
      BY <1>0, <3>2 DEF ThreadsOK, HandlerPc
    <3>4. Requested'
      BY <1>0, <3>2 DEF ThreadsOK, Requested
    <3> QED
      BY <3>2, <3>3, <3>4 DEF Goto, HandlerPc
  <2>3. ASSUME \/ LedState(h) \/ BuzzerState(h) \/ OffState(h) \/ OffLed(h)
        PROVE  <1>4!1 /\ <1>4!2
    <3>1. PICK l \in {"led_dispatch", "bz_dispatch", "off_led"} :
                /\ Goto(h, l) /\ req' = req /\ pc[h] # "recv"
                /\ l = "led_dispatch" => pc[h] = "led_state"
      BY <2>3 DEF LedState, BuzzerState, OffState, OffLed
    <3>2. /\ l \in HandlerPc \ Ctl /\ ThreadsOK'
          /\ pc'[h] = l /\ \A g \in Handler \ {h} : pc'[g] = pc[g]
      <4>1. l \in HandlerPc \ Ctl
        BY <3>1 DEF HandlerPc
      <4> QED
        BY <4>1, <3>1, <1>0, HandlerMoves DEF Threads
    <3>3. Requested'
      BY <1>0, <3>1, <3>2 DEF Requested
    <3> QED
      BY <3>1, <3>2, <3>3
  <2> QED
    BY <1>3, <2>1, <2>2, <2>3
<1>5. MelodyHandle' /\ CountdownHandle'
  BY <1>0, <1>1, <1>4, ServerAssumption
     DEF MelodyHandle, CountdownHandle, ThreadsOK, Goto, Threads
<1>6. StateOK' /\ AlarmOwned'
  <2>1. CASE LedState(h)
    <3>1. req[h].op = "led_brightness" => req[h].value \in 1..3
      BY <1>0, <2>1 DEF LedState, Requested, Valid, ValidBrightness, ValidNumber
    <3>2. req[h].op \in {"led_on", "led_off", "led_brightness"}
      BY <1>0, <2>1 DEF LedState, Requested
    <3>3. StateOK' /\ st'.alarm_active = st.alarm_active
      <4>1. CASE req[h].op = "led_on"
        <5>1. st' = [st EXCEPT !.led_state = 1]
          BY <2>1, <4>1 DEF LedState
        <5> QED
          BY <1>0, <1>1, <5>1 DEF StateOK
      <4>2. CASE req[h].op = "led_off"
        <5>1. st' = [st EXCEPT !.led_state = 0, !.led_brightness = 0]
          BY <2>1, <4>2 DEF LedState
        <5>2. 0 \in 0..1 /\ 0 \in 0..3
          OBVIOUS
        <5> QED
          BY <1>0, <1>1, <5>1, <5>2, SetLed, Zenon
      <4>3. CASE req[h].op = "led_brightness"
        <5>1. st' = [st EXCEPT !.led_state = 1, !.led_brightness = req[h].value]
          BY <2>1, <4>3 DEF LedState
        <5>2. 1 \in 0..1 /\ req[h].value \in 0..3
          BY <3>1, <4>3
        <5> QED
          BY <1>0, <1>1, <5>1, <5>2, SetLed, Zenon
      <4> QED
        BY <3>2, <4>1, <4>2, <4>3
    <3> QED
      BY <1>0, <1>4, <3>3 DEF AlarmOwned, ThreadsOK, Goto
  <2>2. CASE Publish(h)
    <3>1. req[h].value \in 1..9
      BY <1>0, <2>2 DEF Publish, Requested, Valid, ValidBrightness, ValidNumber
    <3>2. StateOK' /\ st'.alarm_active = st.alarm_active
      BY <1>0, <1>1, <2>2, <3>1 DEF Publish, StateOK
    <3> QED
      BY <1>0, <1>4, <3>2 DEF AlarmOwned, ThreadsOK, Goto
  <2>3. CASE BuzzerState(h) \/ PlayState(h)
    <3>1. \E z \in 0..1 : st' = [st EXCEPT !.buzzer_state = z]
      BY <2>3 DEF BuzzerState, PlayState
    <3>2. StateOK' /\ st'.alarm_active = st.alarm_active
      BY <1>0, <1>1, <3>1 DEF StateOK
    <3> QED
      BY <1>0, <1>4, <3>2 DEF AlarmOwned, ThreadsOK, Goto
  <2>4. CASE OffState(h)
    <3>1. st' = [st EXCEPT !.alarm_active = FALSE, !.led_state = 0, !.led_brightness = 0,
                           !.buzzer_state = 0]
      BY <2>4 DEF OffState
    <3>2. FALSE \in BOOLEAN /\ 0 \in 0..1 /\ 0 \in 0..3
      OBVIOUS
    <3>3. StateOK' /\ st'.alarm_active = FALSE
      BY <1>0, <1>1, <3>1, <3>2, SetOutputs, Zenon
    <3> QED
      BY <3>3 DEF AlarmOwned
  <2>5. CASE st' = st
    <3>1. StateOK'
      BY <1>0, <1>1, <2>5 DEF StateOK
    <3> QED
      BY <1>0, <1>4, <2>5, <3>1 DEF AlarmOwned, ThreadsOK, Goto
  <2>6. \/ LedState(h) \/ Publish(h) \/ BuzzerState(h) \/ PlayState(h) \/ OffState(h)
        \/ st' = st
    BY <1>3 DEF Receive, LedDispatch, BuzzerDispatch, OffLed
  <2> QED
    BY <2>1, <2>2, <2>3, <2>4, <2>5, <2>6
<1>7. DevicesOK' /\ FlagsOK'
  <2>1. /\ ledSlot' \in LedCmd \cup {ledSlot} /\ ledBusy' = ledBusy
    <3>1. CASE LedDispatch(h)
      <4>1. req[h].op = "led_brightness" => req[h].value \in 1..3
        BY <1>0, <3>1 DEF LedDispatch, Requested, Valid, ValidBrightness, ValidNumber
      <4> DEFINE a == CASE req[h].op = "led_on"  -> "on"
                        [] req[h].op = "led_off" -> "off"
                        [] OTHER -> "brightness"
                 v == IF req[h].op = "led_brightness" THEN req[h].value ELSE 0
      <4>2. a \in {"on", "off", "brightness"} /\ v \in 0..3
        BY <4>1
      <4>3. ledSlot' = [action |-> a, value |-> v] /\ ledBusy' = ledBusy
        BY <3>1 DEF LedDispatch, LedBox!Post
      <4> QED
        BY <4>2, <4>3 DEF LedCmd
    <3>2. CASE ~LedDispatch(h)
      BY <1>3, <3>2 DEF Receive, LedState, BuzzerState, BuzzerDispatch, PlayState, Publish,
             OffState, OffLed, ledVars, LedBox!Post, LedCmd
    <3> QED
      BY <3>1, <3>2
  <2>2. bzSlot' \in {bzSlot, "on", "off"} /\ bzBusy' = bzBusy
    BY <1>3 DEF Receive, LedState, LedDispatch, BuzzerState, BuzzerDispatch, PlayState, Publish,
             OffState, OffLed, bzVars, BzBox!Post
  <2>3. ledPending' \in BOOLEAN /\ bzPending' \in BOOLEAN
    BY <1>0, <1>3 DEF FlagsOK, Receive, LedState, LedDispatch, BuzzerState, BuzzerDispatch,
             PlayState, Publish, OffState, OffLed, ledVars, bzVars, LedBox!Post, BzBox!Post
  <2> QED
    BY <1>0, <1>1, <2>1, <2>2, <2>3 DEF DevicesOK, FlagsOK
<1> QED
  BY <1>2, <1>4, <1>5, <1>6, <1>7 DEF IInv, TypeOK

(* sensor_thread_fn, outside stop_melody_thread. *)
LEMMA SensorInv ==
    ASSUME IInv, SensorThread PROVE IInv'
<1>0. /\ ThreadsOK /\ Requested /\ MelodyHandle /\ CountdownHandle /\ AlarmOwned
      /\ MelodyOK /\ InMelody /\ FlagsOK /\ StateOK /\ DevicesOK /\ CountdownOK
      /\ "sensor" \in Threads /\ "sensor" \notin Handler
  BY ServerAssumption DEF IInv, TypeOK, Threads
<1>1. /\ UNCHANGED <<req, melodyLock, mjoinable, mpc, mcancel, note, mrunning>>
      /\ UNCHANGED <<segLock, sjoinable, scancel, count, owned, srunning>>
      /\ UNCHANGED <<tone, gstop, duty, display>>
  BY DEF SensorThread, melodyCtl, melodyVars, segCtl, segVars, sound
<1>2. \/ Sense \/ AlarmSet \/ AlarmLed \/ AlarmBuzzer \/ AlarmLedOff
      \/ AlarmBuzzerOff \/ AlarmClear
  BY DEF SensorThread
<1>3. PICK l \in SensorPc \ {"mel_stop", "mel_cancel", "mel_join"} : Goto("sensor", l)
  <2>1. CASE Sense
    BY <2>1 DEF Sense, Poll, SensorPc
  <2>2. CASE AlarmSet
    BY <2>2 DEF AlarmSet, SensorPc
  <2> QED
    BY <1>2, <2>1, <2>2 DEF AlarmLed, AlarmBuzzer, AlarmLedOff, AlarmBuzzerOff, AlarmClear,
         SensorPc
<1>4. /\ ThreadsOK' /\ pc'["sensor"] = l /\ \A t \in Threads \ {"sensor"} : pc'[t] = pc[t]
  BY <1>0, <1>1, <1>3, ServerAssumption DEF ThreadsOK, Goto, Threads
<1>5. MelodyHandle' /\ CountdownHandle' /\ Requested'
  <2>1. /\ \A h \in Handler : pc'[h] = pc[h]
        /\ pc'["countdown"] = pc["countdown"]
        /\ l \notin {"mel_stop", "mel_cancel", "mel_join", "mel_create"}
    BY <1>3, <1>4, ServerAssumption DEF Threads, SensorPc
  <2> QED
    BY <1>0, <1>1, <1>4, <2>1 DEF MelodyHandle, CountdownHandle, Requested
<1>6. MelodyOK' /\ InMelody' /\ CountdownOK'
  BY <1>0, <1>1 DEF MelodyOK, InMelody, CountdownOK
<1>7. StateOK' /\ AlarmOwned'
  <2>1. CASE Sense
    <3>1. PICK r \in Reading :
                LET n == CASE r = "error" -> consec
                           [] r = "light" -> 0
                           [] r = "dark"  -> consec + 1
                IN  /\ consec' = IF n >= 3 THEN 0 ELSE n
                    /\ st' = IF r = "light" THEN [st EXCEPT !.sensor_blocked = FALSE] ELSE st
      BY <2>1 DEF Sense, Poll
    <3>2. r \in SensorReadings
      BY ServerAssumption
    <3>3. consec \in 0..2
      BY <1>0 DEF StateOK
    <3>4. consec' \in 0..2
      <4>1. CASE r = "error"
        BY <3>1, <3>3, <4>1
      <4>2. CASE r = "light"
        BY <3>1, <3>3, <4>2
      <4>3. CASE r = "dark"
        BY <3>1, <3>3, <4>3
      <4> QED
        BY <3>2, <4>1, <4>2, <4>3 DEF SensorReadings
    <3>5. \E k \in BOOLEAN : st' = st \/ st' = [st EXCEPT !.sensor_blocked = k]
      BY <3>1
    <3>6. StateOK' /\ st'.alarm_active = st.alarm_active
      BY <1>0, <3>4, <3>5 DEF StateOK
    <3>7. ~st.alarm_active
      BY <1>0, <2>1 DEF Sense, Poll, AlarmOwned
    <3> QED
      BY <3>6, <3>7 DEF AlarmOwned
  <2>2. CASE AlarmSet
    <3>1. ~st.alarm_active
      BY <1>0, <2>2 DEF AlarmSet, AlarmOwned
    <3>2. /\ st' = [st EXCEPT !.alarm_active = TRUE, !.sensor_blocked = TRUE,
                              !.led_state = 1, !.led_brightness = 3, !.buzzer_state = 1]
          /\ consec' = consec /\ Goto("sensor", "mel_lock")
      BY <2>2, <3>1 DEF AlarmSet
    <3>3. TRUE \in BOOLEAN /\ 1 \in 0..1 /\ 3 \in 0..3
      OBVIOUS
    <3>4. StateOK'
      BY <1>0, <3>2, <3>3, SetAlarm, Zenon
    <3>5. pc'["sensor"] = "mel_lock"
      BY <1>0, <3>2 DEF Goto, ThreadsOK
    <3> QED
      BY <3>4, <3>5 DEF AlarmOwned
  <2>3. CASE AlarmClear
    <3>1. /\ st' = [st EXCEPT !.alarm_active = FALSE, !.led_state = 0, !.led_brightness = 0,
                              !.buzzer_state = 0, !.sensor_blocked = FALSE]
          /\ consec' = consec
      BY <2>3 DEF AlarmClear
    <3>2. FALSE \in BOOLEAN /\ 0 \in 0..1 /\ 0 \in 0..3
      OBVIOUS
    <3>3. StateOK' /\ st'.alarm_active = FALSE
      BY <1>0, <3>1, <3>2, ClearAlarm, Zenon
    <3> QED
      BY <3>3 DEF AlarmOwned
  <2>4. CASE AlarmLed \/ AlarmBuzzer \/ AlarmLedOff \/ AlarmBuzzerOff
    <3>1. st' = st /\ consec' = consec
      BY <2>4 DEF AlarmLed, AlarmBuzzer, AlarmLedOff, AlarmBuzzerOff
    <3>2. l \in {"alarm_buzzer", "alarm_hold", "alarm_buzzer_off", "alarm_clear"}
      <4>1. pc'["sensor"] \in {"alarm_buzzer", "alarm_hold", "alarm_buzzer_off", "alarm_clear"}
        BY <1>0, <2>4 DEF AlarmLed, AlarmBuzzer, AlarmLedOff, AlarmBuzzerOff, Goto, ThreadsOK
      <4> QED
        BY <1>4, <4>1
    <3> QED
      BY <1>0, <1>4, <3>1, <3>2 DEF AlarmOwned, StateOK
  <2> QED
    BY <1>2, <2>1, <2>2, <2>3, <2>4
<1>8. DevicesOK' /\ FlagsOK'
  <2>1. ledSlot' \in LedCmd \cup {ledSlot} /\ ledBusy' = ledBusy
    <3>1. CASE AlarmLed
      <4>1. ledSlot' = [action |-> "brightness", value |-> 3] /\ ledBusy' = ledBusy
        BY <3>1 DEF AlarmLed, LedBox!Post
      <4> QED
        BY <4>1 DEF LedCmd
    <3>2. CASE AlarmLedOff
      <4>1. ledSlot' = [action |-> "off", value |-> 0] /\ ledBusy' = ledBusy
        BY <3>2 DEF AlarmLedOff, LedBox!Post
      <4> QED
        BY <4>1 DEF LedCmd
    <3> QED
      BY <1>2, <3>1, <3>2 DEF Sense, Poll, AlarmSet, AlarmBuzzer, AlarmBuzzerOff, AlarmClear, ledVars
  <2>2. bzSlot' \in {bzSlot, "on", "off"} /\ bzBusy' = bzBusy
    BY <1>2 DEF Sense, Poll, AlarmSet, AlarmLed, AlarmBuzzer, AlarmLedOff, AlarmBuzzerOff,
         AlarmClear, bzVars, BzBox!Post
  <2>3. ledPending' \in BOOLEAN /\ bzPending' \in BOOLEAN
    BY <1>0, <1>2 DEF FlagsOK, Sense, Poll, AlarmSet, AlarmLed, AlarmBuzzer, AlarmLedOff,
         AlarmBuzzerOff, AlarmClear, ledVars, bzVars, LedBox!Post, BzBox!Post
  <2> QED
    BY <1>0, <1>1, <2>1, <2>2, <2>3 DEF DevicesOK, FlagsOK
<1> QED
  BY <1>4, <1>5, <1>6, <1>7, <1>8 DEF IInv, TypeOK

(* The two device workers. *)
LEMMA WorkerInv ==
    ASSUME IInv, LedWorker \/ BuzzerWorker PROVE IInv'
<1>0. /\ ThreadsOK /\ Requested /\ MelodyHandle /\ CountdownHandle /\ AlarmOwned
      /\ MelodyOK /\ InMelody /\ FlagsOK /\ StateOK /\ DevicesOK /\ CountdownOK
  BY DEF IInv, TypeOK
<1>1. /\ UNCHANGED <<pc, req, st, consec, melodyLock, mjoinable, mpc, mcancel, note, mrunning>>
      /\ UNCHANGED <<segLock, sjoinable, scancel, count, owned, srunning, display>>
  BY DEF LedWorker, BuzzerWorker, reqVars, melodyCtl, melodyVars, segCtl, segVars
<1>2. /\ ThreadsOK' /\ Requested' /\ MelodyHandle' /\ CountdownHandle' /\ AlarmOwned'
      /\ MelodyOK' /\ InMelody' /\ StateOK' /\ CountdownOK'
  BY <1>0, <1>1 DEF ThreadsOK, Requested, MelodyHandle, CountdownHandle, AlarmOwned, MelodyOK,
       InMelody, StateOK, CountdownOK
<1>3. DevicesOK' /\ FlagsOK'
  <2>1. /\ ledSlot' = ledSlot /\ ledBusy' \in {ledBusy, ledSlot, NoLed}
        /\ bzSlot' = bzSlot /\ bzBusy' \in {bzBusy, bzSlot, "none"}
        /\ tone' \in {tone, "alarm", "silent"}
    BY DEF LedWorker, BuzzerWorker, LedTake, LedRun, BuzzerTake, BuzzerRun, LedBox!Take,
         LedBox!Finish, BzBox!Take, BzBox!Finish, Silence, ledVars, bzVars, sound
  <2>2. duty' \in {0, 25, 50, 100}
    <3>1. duty' = duty \/ duty' = Duty(ledBusy)
      BY DEF LedWorker, BuzzerWorker, LedTake, LedRun
    <3>2. Duty(ledBusy) \in {0, 25, 50, 100}
      BY DEF Duty
    <3> QED
      BY <1>0, <3>1, <3>2 DEF DevicesOK
  <2>3. /\ ledPending' \in BOOLEAN /\ bzPending' \in BOOLEAN /\ gstop' \in BOOLEAN
    BY <1>0 DEF FlagsOK, LedWorker, BuzzerWorker, LedTake, LedRun, BuzzerTake, BuzzerRun,
         LedBox!Take, LedBox!Finish, BzBox!Take, BzBox!Finish, Silence, ledVars, bzVars, sound
  <2> QED
    BY <1>0, <1>1, <2>1, <2>2, <2>3 DEF DevicesOK, FlagsOK
<1> QED
  BY <1>2, <1>3 DEF IInv, TypeOK

LEMMA StepInv == IInv /\ [Next]_vars => IInv'
<1> SUFFICES ASSUME IInv, [Next]_vars PROVE IInv'
  OBVIOUS
<1>1. ASSUME NEW h \in Handler, NewRequest(h) PROVE IInv'
  BY <1>1, HandlerInv
<1>2. ASSUME NEW h \in Handler, Serve(h) PROVE IInv'
  <2>1. h \in Threads
    BY DEF Threads
  <2>2. CASE MelodyControl(h)
    BY <2>1, <2>2, MelodyControlInv
  <2>3. CASE SegmentControl(h)
    BY <2>3, SegmentControlInv
  <2>4. CASE HandlerStep(h)
    BY <2>4, HandlerInv
  <2> QED
    BY <1>2, <2>2, <2>3, <2>4 DEF Serve
<1>3. CASE Sensor
  <2>1. "sensor" \in Threads
    BY DEF Threads
  <2> QED
    BY <1>3, <2>1, SensorInv, MelodyControlInv DEF Sensor
<1>4. CASE Countdown
  <2>1. "countdown" \in Threads
    BY DEF Threads
  <2> QED
    BY <1>4, <2>1, CountdownInv, MelodyControlInv DEF Countdown
<1>5. CASE MelodyThread
  BY <1>5, MelodyThreadInv
<1>6. CASE LedWorker \/ BuzzerWorker
  BY <1>6, WorkerInv
<1>7. CASE UNCHANGED vars
  <2>1. /\ UNCHANGED <<pc, req, st, consec, melodyLock, mjoinable, mpc, mcancel, note, mrunning>>
        /\ UNCHANGED <<segLock, sjoinable, scancel, count, owned, srunning>>
        /\ UNCHANGED <<ledSlot, ledPending, ledBusy, bzSlot, bzPending, bzBusy>>
        /\ UNCHANGED <<tone, gstop, duty, display>>
    BY <1>7 DEF vars, reqVars, melodyCtl, melodyVars, segCtl, segVars, ledVars, bzVars, sound
  <2> QED
    BY <2>1 DEF IInv, TypeOK, ThreadsOK, StateOK, MelodyOK, CountdownOK, DevicesOK, FlagsOK,
         MelodyHandle, CountdownHandle, AlarmOwned, Requested, InMelody
<1> QED
  BY <1>1, <1>2, <1>3, <1>4, <1>5, <1>6, <1>7 DEF Next

LEMMA Invariance == Spec => []IInv
  BY InitInv, StepInv, PTL DEF Spec
-----------------------------------------------------------------------------
(* Every variable of the server keeps its type, with any number of clients *)
(* sending any requests (g_state, the control blocks, the mailboxes and    *)
(* the devices of handler.c and lib/).                                     *)
THEOREM TypeCorrect == Spec => []TypeOK
<1>1. IInv => TypeOK
  BY DEF IInv
<1> QED
  BY <1>1, Invariance, PTL

(* start_melody_thread never overwrites g_melody_tid while it names a      *)
(* thread nobody has joined, however many clients start, stop and replace  *)
(* melodies while alarms and countdowns stop them too.                     *)
THEOREM MelodyHandleKept == Spec => []OneMelody
<1>1. IInv => OneMelody
  BY ServerAssumption DEF IInv, MelodyHandle, OneMelody, Threads
<1> QED
  BY <1>1, Invariance, PTL

(* The same for start_segment_thread and g_segment_tid. *)
THEOREM CountdownHandleKept == Spec => []OneCountdown
<1>1. IInv => OneCountdown
  BY DEF IInv, CountdownHandle, OneCountdown
<1> QED
  BY <1>1, Invariance, PTL

(* sensor_thread_fn always finds "already" false: no intrusion is lost to  *)
(* an alarm that somebody else has raised or failed to release.            *)
THEOREM NoIntrusionSwallowed == Spec => []IntrusionRaisesAlarm
<1>1. IInv => IntrusionRaisesAlarm
  BY DEF IInv, AlarmOwned, IntrusionRaisesAlarm
<1> QED
  BY <1>1, Invariance, PTL
-----------------------------------------------------------------------------
(* What sounds on the buzzer pin and why.  A note is heard only between    *)
(* the two usleep calls around it; the alarm only while the worker's last  *)
(* command was ON or it has one to take or to execute.                     *)
Tones ==
    /\ tone = "note" => mpc = "play"
    /\ tone = "alarm" => bzSlot = "on" \/ bzPending \/ bzBusy # "none"
    /\ bzPending => bzSlot # "none"
    /\ bzBusy # "none" => bzBusy = bzSlot \/ bzPending

(* Whoever waits in pthread_join has cancelled the melody thread: as long  *)
(* as that thread lives, g_melody_running was set when it was read.        *)
Cancelled ==
    mpc \notin {"none", "exited"} =>
       /\ mrunning
       /\ (\E t \in Threads : pc[t] = "mel_join") => mcancel

LEMMA MelodyThreadTones ==
    ASSUME IInv, Tones, Cancelled, MelodyThread PROVE Tones' /\ Cancelled'
<1>1. UNCHANGED <<pc, bzSlot, bzPending, bzBusy>>
  BY DEF MelodyThread, reqVars, bzVars
<1>2. \/ PlayReset \/ PlayCheck \/ PlayNote \/ PlayRest \/ PlayNext
      \/ PlayFinish \/ MelodyUnwind \/ MelodyClear \/ MelodyEnd
  BY DEF MelodyThread
<1>3. Tones'
  BY <1>1, <1>2 DEF Tones, Silence, sound, PlayReset, PlayCheck, PlayNote, PlayRest, PlayNext,
       PlayFinish, MelodyUnwind, MelodyClear, MelodyEnd
<1>4. Cancelled'
  BY <1>1, <1>2 DEF Cancelled, Silence, sound, PlayReset, PlayCheck, PlayNote, PlayRest,
       PlayNext, PlayFinish, MelodyUnwind, MelodyClear, MelodyEnd
<1> QED
  BY <1>3, <1>4

LEMMA MelodyControlTones ==
    ASSUME IInv, Tones, Cancelled, NEW t \in Threads, MelodyControl(t)
    PROVE  Tones' /\ Cancelled'
<1>0. ThreadsOK /\ MelodyHandle
  BY DEF IInv, TypeOK
<1>1. UNCHANGED <<bzSlot, bzPending, bzBusy>>
  BY DEF MelodyControl, bzVars
<1>2. \/ LockMelody(t) \/ StopMelodyTone(t) \/ CancelMelody(t) \/ JoinMelody(t)
      \/ (t \in Handler /\ CreateMelody(t))
  BY DEF MelodyControl
<1>3. /\ tone' \in {tone, "silent"}
      /\ mpc' = mpc \/ mpc \in {"none", "exited"}
  BY <1>0, <1>2 DEF LockMelody, StopMelodyTone, CancelMelody, JoinMelody, CreateMelody,
       Silence, sound, melodyVars, MelodyHandle
<1>4. Tones'
  BY <1>1, <1>3 DEF Tones
<1>5. Cancelled'
  <2>1. CASE LockMelody(t) \/ StopMelodyTone(t)
    <3>1. UNCHANGED <<mpc, mcancel, mrunning>>
      BY <2>1 DEF LockMelody, StopMelodyTone, melodyVars
    <3>2. \E l \in {"mel_stop", "mel_create", "mel_cancel", AfterMelody(t)} : Goto(t, l)
      BY <2>1 DEF LockMelody, StopMelodyTone
    <3>3. AfterMelody(t) # "mel_join"
      BY DEF AfterMelody
    <3>4. \A s \in Threads : pc'[s] = "mel_join" => pc[s] = "mel_join"
      BY <1>0, <3>2, <3>3 DEF Goto, ThreadsOK
    <3> QED
      BY <3>1, <3>4 DEF Cancelled
  <2>2. CASE CancelMelody(t)
    BY <2>2 DEF CancelMelody, Cancelled
  <2>3. CASE JoinMelody(t)
    BY <2>3 DEF JoinMelody, Cancelled
  <2>4. CASE t \in Handler /\ CreateMelody(t)
    <3>1. /\ pc[t] = "mel_create" /\ melodyLock = t /\ mpc = "none"
          /\ \A s \in Threads : pc[s] # "mel_join"
      BY <1>0, <2>4 DEF CreateMelody, MelodyHandle
    <3>2. \E l \in {"play_state", "recv"} : Goto(t, l)
      BY <2>4 DEF CreateMelody, Answer
    <3>3. \A s \in Threads : pc'[s] # "mel_join"
      BY <1>0, <3>1, <3>2 DEF Goto, ThreadsOK
    <3> QED
      BY <2>4, <3>1, <3>3 DEF CreateMelody, Cancelled
  <2> QED
    BY <1>2, <2>1, <2>2, <2>3, <2>4
<1> QED
  BY <1>4, <1>5

(* The other threads touch the buzzer only through the mailbox, and start  *)
(* to wait for the melody only in stop_melody_thread.                      *)
LEMMA MailboxTones ==
    ASSUME Tones, Cancelled, UNCHANGED <<mpc, mcancel, mrunning, tone, bzBusy>>,
           \/ UNCHANGED <<bzSlot, bzPending>>
           \/ bzSlot' \in {"on", "off"} /\ bzPending' = TRUE,
           \A t \in Threads : pc'[t] = "mel_join" => pc[t] = "mel_join"
    PROVE  Tones' /\ Cancelled'
<1>1. Tones'
  BY DEF Tones
<1>2. Cancelled'
  BY DEF Cancelled
<1> QED
  BY <1>1, <1>2

LEMMA CountdownTones ==
    ASSUME IInv, Tones, Cancelled, CountdownThread \/ CountdownEnd
    PROVE  Tones' /\ Cancelled'
<1> DEFINE Acts == Show \/ Tick \/ Claim \/ Sound \/ Hold \/ Hold2 \/ Release \/ LogEnd
                   \/ UnwindInJoin \/ CleanupDevices \/ CleanupState \/ CountdownEnd
<1>0. ThreadsOK
  BY DEF IInv, TypeOK
<1>1. UNCHANGED <<mpc, mcancel, mrunning, tone>>
  BY DEF CountdownThread, CountdownEnd, melodyVars, sound
<1>2. Acts
  BY DEF CountdownThread
<1>3. /\ bzBusy' = bzBusy
      /\ \/ UNCHANGED <<bzSlot, bzPending>>
         \/ bzSlot' \in {"on", "off"} /\ bzPending' = TRUE
  BY <1>2 DEF Show, Tick, Claim, Sound, Hold, Hold2, Release, LogEnd, UnwindInJoin, Unwind,
         CleanupDevices, CleanupState, CountdownEnd, BzBox!Post, bzVars
<1>4. \E l \in CountdownPc \ {"mel_join"} : pc' = [pc EXCEPT !["countdown"] = l]
  BY <1>2 DEF Show, Tick, Claim, Sound, Hold, Hold2, Release, LogEnd, UnwindInJoin, Unwind,
         CleanupDevices, CleanupState, CountdownEnd, CGoto, Goto, CountdownPc
<1>5. \A t \in Threads : pc'[t] = "mel_join" => pc[t] = "mel_join"
  BY <1>0, <1>4 DEF ThreadsOK
<1> QED
  BY <1>1, <1>3, <1>5, MailboxTones

LEMMA SegmentControlTones ==
    ASSUME IInv, Tones, Cancelled, NEW h \in Handler, SegmentControl(h)
    PROVE  Tones' /\ Cancelled'
<1>0. ThreadsOK /\ h \in Threads
  BY DEF IInv, TypeOK, Threads
<1>1. UNCHANGED <<mpc, mcancel, mrunning, tone, bzBusy, bzSlot, bzPending>>
  BY DEF SegmentControl, melodyVars, bzVars, sound
<1>2. \/ \E l \in {"seg_cancel", "seg_create", "seg_join", "off_state", "recv"} : Goto(h, l)
      \/ \E c \in {"none", "show"}, l \in {"seg_create", "off_state", "recv", "publish"} :
            pc' = [pc EXCEPT !["countdown"] = c, ![h] = l]
  <2>1. CASE LockSegment(h) \/ CancelSegment(h)
    BY <2>1 DEF LockSegment, CancelSegment, AfterSegment, Answer
  <2>2. CASE JoinSegment(h)
    BY <2>2 DEF JoinSegment
  <2>3. CASE CreateSegment(h)
    BY <2>3 DEF CreateSegment, Answer
  <2> QED
    BY <2>1, <2>2, <2>3 DEF SegmentControl
<1>3. \A t \in Threads : pc'[t] = "mel_join" => pc[t] = "mel_join"
  BY <1>0, <1>2 DEF ThreadsOK, Goto
<1> QED
  BY <1>1, <1>3, MailboxTones

LEMMA HandlerTones ==
    ASSUME IInv, Tones, Cancelled, NEW h \in Handler, HandlerStep(h) \/ NewRequest(h)
    PROVE  Tones' /\ Cancelled'
<1>0. ThreadsOK /\ h \in Threads
  BY DEF IInv, TypeOK, Threads
<1>1. UNCHANGED <<mpc, mcancel, mrunning, tone>>
  BY DEF HandlerStep, NewRequest, melodyVars, sound
<1>2. \/ LedState(h) \/ LedDispatch(h) \/ BuzzerState(h) \/ BuzzerDispatch(h)
      \/ PlayState(h) \/ Publish(h) \/ OffState(h) \/ OffLed(h) \/ Receive(h)
  BY DEF HandlerStep, NewRequest
<1>3. /\ bzBusy' = bzBusy
      /\ \/ UNCHANGED <<bzSlot, bzPending>>
         \/ bzSlot' \in {"on", "off"} /\ bzPending' = TRUE
  BY <1>2 DEF LedState, LedDispatch, BuzzerState, BuzzerDispatch, PlayState, Publish, OffState,
         OffLed, Receive, BzBox!Post, bzVars
<1>4. \E l \in HandlerPc \ {"mel_join"} : Goto(h, l)
  <2>1. CASE Receive(h)
    <3>1. PICK r \in Request : Goto(h, FirstStep(r.op))
      BY <2>1 DEF Receive
    <3>2. r.op \in Ops
      BY ServerAssumption
    <3>3. FirstStep(r.op) \in {"led_state", "mel_lock", "seg_lock"}
      BY <3>2 DEF FirstStep, Ops
    <3> QED
      BY <3>1, <3>3 DEF HandlerPc
  <2>2. CASE ~Receive(h)
    BY <1>2, <2>2 DEF LedState, LedDispatch, BuzzerState, BuzzerDispatch, PlayState, Publish,
         OffState, OffLed, Answer, HandlerPc
  <2> QED
    BY <2>1, <2>2
<1>5. \A t \in Threads : pc'[t] = "mel_join" => pc[t] = "mel_join"
  BY <1>0, <1>4 DEF ThreadsOK, Goto
<1> QED
  BY <1>1, <1>3, <1>5, MailboxTones

LEMMA SensorTones ==
    ASSUME IInv, Tones, Cancelled, SensorThread PROVE Tones' /\ Cancelled'
<1>0. ThreadsOK
  BY DEF IInv, TypeOK
<1>1. UNCHANGED <<mpc, mcancel, mrunning, tone>>
  BY DEF SensorThread, melodyVars, sound
<1>2. \/ Sense \/ AlarmSet \/ AlarmLed \/ AlarmBuzzer \/ AlarmLedOff
      \/ AlarmBuzzerOff \/ AlarmClear
  BY DEF SensorThread
<1>3. /\ bzBusy' = bzBusy
      /\ \/ UNCHANGED <<bzSlot, bzPending>>
         \/ bzSlot' \in {"on", "off"} /\ bzPending' = TRUE
  BY <1>2 DEF Sense, Poll, AlarmSet, AlarmLed, AlarmBuzzer, AlarmLedOff, AlarmBuzzerOff, AlarmClear,
         BzBox!Post, bzVars
<1>4. \E l \in SensorPc \ {"mel_join"} : Goto("sensor", l)
  <2>1. CASE Sense
    BY <2>1 DEF Sense, Poll, SensorPc
  <2>2. CASE AlarmSet
    BY <2>2 DEF AlarmSet, SensorPc
  <2> QED
    BY <1>2, <2>1, <2>2 DEF AlarmLed, AlarmBuzzer, AlarmLedOff, AlarmBuzzerOff, AlarmClear,
         SensorPc
<1>5. \A t \in Threads : pc'[t] = "mel_join" => pc[t] = "mel_join"
  BY <1>0, <1>4 DEF ThreadsOK, Goto
<1> QED
  BY <1>1, <1>3, <1>5, MailboxTones

LEMMA WorkerTones ==
    ASSUME IInv, Tones, Cancelled, LedWorker \/ BuzzerWorker PROVE Tones' /\ Cancelled'
<1>1. UNCHANGED <<pc, mpc, mcancel, mrunning>>
  BY DEF LedWorker, BuzzerWorker, reqVars, melodyVars
<1>2. CASE LedWorker
  BY <1>1, <1>2, MailboxTones DEF LedWorker, bzVars, sound
<1>3. CASE BuzzerTake
  BY <1>1, <1>3 DEF BuzzerTake, BzBox!Take, Tones, Cancelled, sound
<1>4. CASE BuzzerRun
  <2>1. bzBusy \in {"on", "off", "none"}
    BY DEF IInv, TypeOK, DevicesOK
  <2> QED
    BY <1>1, <1>4, <2>1 DEF BuzzerRun, BzBox!Finish, Silence, Tones, Cancelled
<1> QED
  BY <1>2, <1>3, <1>4 DEF BuzzerWorker

LEMMA TonesInvariance == Spec => [](IInv /\ Tones /\ Cancelled)
<1>1. Init => Tones /\ Cancelled
  BY DEF Init, Tones, Cancelled, BzBox!Init
<1>2. IInv /\ Tones /\ Cancelled /\ [Next]_vars => Tones' /\ Cancelled'
  <2> SUFFICES ASSUME IInv, Tones, Cancelled, [Next]_vars PROVE Tones' /\ Cancelled'
    OBVIOUS
  <2>1. ASSUME NEW h \in Handler, NewRequest(h) \/ Serve(h) PROVE Tones' /\ Cancelled'
    <3>1. h \in Threads
      BY DEF Threads
    <3> QED
      BY <2>1, <3>1, HandlerTones, MelodyControlTones, SegmentControlTones DEF Serve
  <2>2. CASE Sensor
    BY <2>2, SensorTones, MelodyControlTones DEF Sensor, Threads
  <2>3. CASE Countdown
    BY <2>3, CountdownTones, MelodyControlTones DEF Countdown, Threads
  <2>4. CASE UNCHANGED vars
    BY <2>4, MailboxTones DEF vars, reqVars, melodyVars, bzVars, sound
  <2> QED
    BY <2>1, <2>2, <2>3, <2>4, MelodyThreadTones, WorkerTones DEF Next
<1> QED
  BY <1>1, <1>2, Invariance, PTL DEF Spec

(* After an OFF has been executed nothing sounds once the melody thread is *)
(* gone, whoever ended the melody and at whichever note (buzzer_thread_fn, *)
(* buzzer_play_melody, melody_cleanup).                                    *)
THEOREM OffMeansSilent == Spec => []OffSilences
<1>1. IInv /\ Tones => OffSilences
  <2> SUFFICES ASSUME IInv, Tones, bzSlot = "off", BzBox!Drained, mpc \in {"none", "exited"}
               PROVE  tone = "silent"
    BY DEF OffSilences
  <2>1. tone \in {"silent", "alarm", "note"}
    BY DEF IInv, TypeOK, DevicesOK
  <2> QED
    BY <2>1 DEF Tones, BzBox!Drained
<1> QED
  BY <1>1, TonesInvariance, PTL

(* The caller of pthread_join always meets a cancelled melody thread: it   *)
(* never waits for a further note (stop_melody_locked).                    *)
THEOREM StopTakesEffect == Spec => StoppedMelodyEnds
<1>1. IInv /\ Tones /\ Cancelled /\ [Next]_vars
         => [(mpc = "gap" /\ \E t \in Threads : pc[t] = "mel_join") => mpc' # "check"]_vars
  <2> SUFFICES ASSUME Cancelled, [Next]_vars, mpc = "gap",
                      \E t \in Threads : pc[t] = "mel_join"
               PROVE  mpc' # "check" \/ UNCHANGED vars
    OBVIOUS
  <2>1. mcancel
    BY DEF Cancelled
  <2>2. CASE MelodyThread
    BY <2>1, <2>2 DEF MelodyThread, PlayReset, PlayCheck, PlayNote, PlayRest, PlayNext,
         PlayFinish, MelodyUnwind, MelodyClear, MelodyEnd
  <2>3. ASSUME NEW t \in Threads, MelodyControl(t) PROVE mpc' # "check"
    BY <2>3 DEF MelodyControl, LockMelody, StopMelodyTone, CancelMelody, JoinMelody,
         CreateMelody, melodyVars
  <2>4. ASSUME NEW h \in Handler, NewRequest(h) \/ Serve(h) PROVE mpc' # "check"
    BY <2>3, <2>4 DEF Serve, SegmentControl, HandlerStep, NewRequest, melodyVars, Threads
  <2>5. CASE Sensor \/ Countdown
    BY <2>3, <2>5 DEF Sensor, Countdown, SensorThread, CountdownThread, CountdownEnd,
         melodyVars, Threads
  <2>6. CASE LedWorker \/ BuzzerWorker
    BY <2>6 DEF LedWorker, BuzzerWorker, melodyVars
  <2> QED
    BY <2>2, <2>4, <2>5, <2>6 DEF Next
<1> QED
  BY <1>1, TonesInvariance, PTL DEF Spec, StoppedMelodyEnds

-----------------------------------------------------------------------------
(* Between lock and unlock of g_melody_control_lock. *)
Inside == {"mel_stop", "mel_cancel", "mel_join", "mel_create"}

(* Its owner is there, unless it is the countdown. *)
LockKept == melodyLock \notin {Free, "countdown"} => pc[melodyLock] \in Inside

LEMMA LockAside ==
    ASSUME IInv, LockKept, melodyLock' = melodyLock,
           \A t \in Threads : pc'[t] = pc[t] \/ pc[t] \notin Inside \/ t = "countdown"
    PROVE  LockKept'
<1>1. melodyLock \in Threads \cup {Free}
  BY DEF IInv, TypeOK, MelodyOK
<1> QED
  BY <1>1 DEF LockKept

LEMMA MelodyControlLock ==
    ASSUME IInv, LockKept, NEW t \in Threads, MelodyControl(t) PROVE LockKept'
<1>0. ThreadsOK /\ MelodyHandle
  BY DEF IInv, TypeOK
<1>1. CASE LockMelody(t)
  <2>1. \/ melodyLock' = Free
        \/ melodyLock' = t /\ \E l \in {"mel_stop", "mel_create"} : Goto(t, l)
    BY <1>1 DEF LockMelody
  <2> QED
    BY <1>0, <2>1 DEF LockKept, Inside, Goto, ThreadsOK
<1>2. CASE StopMelodyTone(t) \/ CancelMelody(t)
  <2>1. /\ melodyLock = t /\ melodyLock' = melodyLock
        /\ \E l \in {"mel_cancel", "mel_join"} : Goto(t, l)
    BY <1>0, <1>2 DEF StopMelodyTone, CancelMelody, MelodyHandle, melodyCtl
  <2> QED
    BY <1>0, <2>1 DEF LockKept, Inside, Goto, ThreadsOK
<1>3. CASE JoinMelody(t)
  <2>1. melodyLock = t
    BY <1>0, <1>3 DEF JoinMelody, MelodyHandle
  <2>2. \/ melodyLock' = Free
        \/ melodyLock' = t /\ Goto(t, "mel_create")
    BY <1>3, <2>1 DEF JoinMelody
  <2> QED
    BY <1>0, <2>2 DEF LockKept, Inside, Goto, ThreadsOK
<1>4. CASE CreateMelody(t)
  BY <1>4 DEF CreateMelody, LockKept
<1> QED
  BY <1>1, <1>2, <1>3, <1>4 DEF MelodyControl

(* The other steps leave the lock alone, and their threads are elsewhere. *)
LEMMA OthersLock ==
    ASSUME IInv, LockKept, Next, \A t \in Threads : ~MelodyControl(t) PROVE LockKept'
<1>0. /\ ThreadsOK /\ "sensor" \in Threads /\ "countdown" \in Threads
      /\ \A h \in Handler : h \in Threads
  BY DEF IInv, TypeOK, Threads
<1>1. ASSUME NEW h \in Handler, NewRequest(h) \/ HandlerStep(h) PROVE LockKept'
  <2>1. melodyLock' = melodyLock
    BY <1>1 DEF NewRequest, HandlerStep, melodyCtl
  <2>2. pc[h] \notin Inside /\ \E l : Goto(h, l)
    BY <1>1 DEF NewRequest, Receive, HandlerStep, LedState, LedDispatch, BuzzerState,
         BuzzerDispatch, PlayState, Publish, OffState, OffLed, Answer, Inside
  <2> QED
    BY <1>0, <2>1, <2>2, LockAside DEF Goto, ThreadsOK
<1>2. ASSUME NEW h \in Handler, SegmentControl(h) PROVE LockKept'
  <2>1. melodyLock' = melodyLock
    BY <1>2 DEF SegmentControl, melodyCtl
  <2>2. pc[h] \notin Inside
    BY <1>2 DEF SegmentControl, LockSegment, CancelSegment, JoinSegment, CreateSegment, Inside
  <2>3. \/ \E l : Goto(h, l)
        \/ \E c, l : pc' = [pc EXCEPT !["countdown"] = c, ![h] = l]
    <3>1. CASE LockSegment(h) \/ CancelSegment(h)
      BY <3>1 DEF LockSegment, CancelSegment, AfterSegment, Answer
    <3>2. CASE JoinSegment(h)
      BY <3>2 DEF JoinSegment
    <3>3. CASE CreateSegment(h)
      BY <3>3 DEF CreateSegment, Answer
    <3> QED
      BY <1>2, <3>1, <3>2, <3>3 DEF SegmentControl
  <2>4. \A t \in Threads : pc'[t] = pc[t] \/ t = h \/ t = "countdown"
    BY <1>0, <2>3 DEF Goto, ThreadsOK
  <2> QED
    BY <2>1, <2>2, <2>4, LockAside
<1>3. CASE SensorThread
  <2>1. melodyLock' = melodyLock
    BY <1>3 DEF SensorThread, melodyCtl
  <2>2. pc["sensor"] \notin Inside /\ \E l : Goto("sensor", l)
    BY <1>3 DEF SensorThread, Sense, Poll, AlarmSet, AlarmLed, AlarmBuzzer, AlarmLedOff,
         AlarmBuzzerOff, AlarmClear, Inside
  <2> QED
    BY <1>0, <2>1, <2>2, LockAside DEF Goto, ThreadsOK
<1>4. CASE CountdownThread \/ CountdownEnd
  <2>1. melodyLock' = melodyLock
    BY <1>4 DEF CountdownThread, CountdownEnd, melodyCtl
  <2>2. \E l : Goto("countdown", l)
    BY <1>4 DEF CountdownThread, CountdownEnd, Show, Tick, Claim, Sound, Hold, Hold2, Release,
         LogEnd, UnwindInJoin, CleanupDevices, CleanupState, Unwind, CGoto
  <2> QED
    BY <1>0, <2>1, <2>2, LockAside DEF Goto, ThreadsOK
<1>5. CASE MelodyThread \/ LedWorker \/ BuzzerWorker
  BY <1>5, LockAside DEF MelodyThread, LedWorker, BuzzerWorker, reqVars, melodyCtl
<1> QED
  BY <1>0, <1>1, <1>2, <1>3, <1>4, <1>5 DEF Next, Serve, Sensor, Countdown

(* Only a countdown that died in stop_melody_thread loses the lock: any    *)
(* other owner of g_melody_control_lock is about to give it back, and      *)
(* waits at most for a melody that has been told to end; for any number of *)
(* clients (stop_melody_locked, start_melody_thread, segment_thread_fn).   *)
THEOREM LockNotLost == Spec => []LockComesBack
<1>1. Init => LockKept
  BY DEF Init, LockKept
<1>2. IInv /\ LockKept /\ [Next]_vars => LockKept'
  <2> SUFFICES ASSUME IInv, LockKept, [Next]_vars PROVE LockKept'
    OBVIOUS
  <2>1. CASE UNCHANGED vars
    BY <2>1 DEF LockKept, vars, reqVars, melodyCtl
  <2> QED
    BY <2>1, MelodyControlLock, OthersLock
<1>3. IInv /\ Cancelled /\ LockKept => LockComesBack
  <2> SUFFICES ASSUME IInv, Cancelled, LockKept, melodyLock # Free, ~LockOrphaned
               PROVE  \E t \in Threads :
                         /\ melodyLock = t
                         /\ \/ pc[t] \in {"mel_stop", "mel_cancel", "mel_create"}
                            \/ pc[t] = "mel_join" /\ MelodyTold
    BY DEF LockComesBack
  <2>1. melodyLock \in Threads /\ MelodyHandle
    BY DEF IInv, TypeOK, MelodyOK
  <2>2. pc[melodyLock] \in Inside
    BY DEF LockKept, LockOrphaned, Inside
  <2>3. pc[melodyLock] = "mel_join" => MelodyTold
    BY <2>1 DEF MelodyHandle, MelodyTold, Cancelled
  <2> QED
    BY <2>1, <2>2, <2>3 DEF Inside
<1> QED
  BY <1>1, <1>2, <1>3, TonesInvariance, PTL DEF Spec

-----------------------------------------------------------------------------
(* The LED shows the newest command, once that has been executed. *)
LedFollows ==
    /\ ~ledPending /\ ledBusy = NoLed => duty = Duty(ledSlot)
    /\ ledPending => ledSlot # NoLed
    /\ ledBusy # NoLed => ledBusy = ledSlot \/ ledPending

(* Between its change of led_state and its last dispatch, or, of the       *)
(* sensor, anywhere in an alarm.                                           *)
BetweenWrites(t) == \/ t \in Handler /\ pc[t] \in {"led_dispatch", "off_led"}
                    \/ t = "sensor" /\ pc[t] \notin {"sense", "alarm_set"}

(* What a thread has written to led_state, and what it has dispatched, is  *)
(* its own last command as long as no other thread writes; led_state       *)
(* announces the newest command if one thread wrote both and is done.      *)
LedAnnounced ==
    /\ \A h \in Handler :
          stateBy = h =>
             /\ pc[h] = "led_dispatch" => (st.led_state = 1 <=> req[h].op # "led_off")
             /\ pc[h] = "off_led" => st.led_state = 0
    /\ postBy = "sensor" /\ pc["sensor"] \in {"alarm_buzzer_off", "alarm_clear"} =>
          Duty(ledSlot) = 0
    /\ stateBy = postBy /\ ~BetweenWrites(stateBy) =>
          (st.led_state = 1 <=> Duty(ledSlot) > 0)

LedInv == LedFollows /\ LedAnnounced

(* Duty, for every command the server posts. *)
LEMMA DutyOf ==
    /\ Duty(NoLed) = 0
    /\ \A v \in Nat : Duty([action |-> "on", value |-> v]) = 100
    /\ \A v \in Nat : Duty([action |-> "off", value |-> v]) = 0
    /\ \A v \in 1..3 : Duty([action |-> "brightness", value |-> v]) \in {25, 50, 100}
  BY DEF Duty, NoLed

(* The history names the one thread that moves. *)
LEMMA Observed ==
    ASSUME ObserveLed, NEW t \in Threads, \A u \in Threads \ {t} : pc'[u] = pc[u]
    PROVE  /\ WritesState(t) => stateBy' = t
           /\ ~WritesState(t) => stateBy' = stateBy
           /\ Dispatches(t) => postBy' = t
           /\ ~Dispatches(t) => postBy' = postBy
<1>1. \A u \in Threads \ {t} : ~WritesState(u) /\ ~Dispatches(u)
  BY DEF WritesState, Dispatches
<1> QED
  BY <1>1 DEF ObserveLed

(* The places before a change of led_state or a dispatch. *)
LedPlaces == {"led_state", "led_dispatch", "off_state", "off_led",
              "alarm_set", "alarm_led", "alarm_hold", "alarm_clear"}

(* A step of a thread that is not at the LED. *)
LEMMA LedAside ==
    ASSUME LedInv, ObserveLed, UNCHANGED <<ledSlot, ledPending, ledBusy, duty>>,
           st'.led_state = st.led_state,
           \A t \in Threads : pc'[t] = pc[t] \/ pc[t] \notin LedPlaces,
           \A h \in Handler :
              \/ pc'[h] = pc[h] /\ req'[h] = req[h]
              \/ /\ pc[h] \notin {"led_dispatch", "off_led"}
                 /\ pc'[h] \notin {"led_dispatch", "off_led"},
           pc'["sensor"] \in {"sense", "alarm_set"} <=> pc["sensor"] \in {"sense", "alarm_set"},
           pc'["sensor"] \in {"alarm_buzzer_off", "alarm_clear"} =>
              pc["sensor"] \in {"alarm_buzzer_off", "alarm_clear"}
    PROVE  LedInv'
<1>1. stateBy' = stateBy /\ postBy' = postBy
  BY DEF ObserveLed, WritesState, Dispatches, LedPlaces
<1>2. LedFollows'
  BY DEF LedInv, LedFollows
<1>3. BetweenWrites(stateBy)' <=> BetweenWrites(stateBy)
  BY <1>1 DEF BetweenWrites
<1>4. LedAnnounced'
  BY <1>1, <1>3 DEF LedInv, LedAnnounced
<1> QED
  BY <1>2, <1>4 DEF LedInv

LEMMA MelodyControlLed ==
    ASSUME IInv, LedInv, ObserveLed, NEW t \in Threads, MelodyControl(t) PROVE LedInv'
<1>0. ThreadsOK /\ Requested /\ MelodyHandle
  BY DEF IInv, TypeOK
<1>1. UNCHANGED <<st, ledSlot, ledPending, ledBusy, duty>>
  BY DEF MelodyControl, ledVars
<1>2. pc[t] \in {"mel_lock", "mel_stop", "mel_cancel", "mel_join", "mel_create"}
  BY DEF MelodyControl, LockMelody, StopMelodyTone, CancelMelody, JoinMelody, CreateMelody
<1>3. \/ \E l \in {"mel_stop", "mel_create", "mel_cancel", "mel_join", "play_state",
                   AfterMelody(t)} : Goto(t, l) /\ UNCHANGED req
      \/ t \in Handler /\ Answer(t)
  BY DEF MelodyControl, LockMelody, StopMelodyTone, CancelMelody, JoinMelody, CreateMelody
<1>4. \A u \in Threads \ {t} : pc'[u] = pc[u]
  BY <1>0, <1>3 DEF Goto, Answer, ThreadsOK
<1>5. \A u \in Threads : pc'[u] = pc[u] \/ pc[u] \notin LedPlaces
  BY <1>2, <1>4 DEF LedPlaces
<1>6. CASE t \in Handler
  <2>1. AfterMelody(t) \in {"seg_lock", "bz_state"} /\ t # "sensor"
    BY <1>6, ServerAssumption DEF AfterMelody
  <2>2. /\ pc'["sensor"] = pc["sensor"]
        /\ \A h \in Handler \ {t} : pc'[h] = pc[h] /\ req'[h] = req[h]
        /\ pc'[t] \notin {"led_dispatch", "off_led"}
    BY <1>0, <1>3, <1>6, <2>1 DEF Goto, Answer, ThreadsOK, Threads
  <2> QED
    BY <1>1, <1>2, <1>5, <2>2, LedAside
<1>7. CASE t = "countdown"
  <2>1. /\ pc'["sensor"] = pc["sensor"] /\ req' = req
        /\ \A h \in Handler : pc'[h] = pc[h]
    BY <1>0, <1>3, <1>7, ServerAssumption DEF Goto, ThreadsOK, Threads
  <2> QED
    BY <1>1, <1>5, <2>1, LedAside
<1>8. CASE t = "sensor"
  <2>1. AfterMelody(t) = "alarm_led"
    BY <1>8 DEF AfterMelody
  <2>2. /\ pc'["sensor"] \in {"mel_stop", "mel_create", "mel_cancel", "mel_join",
                              "play_state", "alarm_led"}
        /\ req' = req /\ \A h \in Handler : pc'[h] = pc[h]
    BY <1>0, <1>3, <1>8, <2>1, ServerAssumption DEF Goto, ThreadsOK, Threads
  <2> QED
    BY <1>1, <1>2, <1>5, <1>8, <2>2, LedAside
<1> QED
  BY <1>6, <1>7, <1>8 DEF Threads

LEMMA CountdownLed ==
    ASSUME IInv, LedInv, ObserveLed, CountdownThread \/ CountdownEnd PROVE LedInv'
<1> DEFINE Acts == Show \/ Tick \/ Claim \/ Sound \/ Hold \/ Hold2 \/ Release \/ LogEnd
                   \/ UnwindInJoin \/ CleanupDevices \/ CleanupState \/ CountdownEnd
<1>0. ThreadsOK /\ StateOK
  BY DEF IInv, TypeOK
<1>1. UNCHANGED <<req, ledSlot, ledPending, ledBusy, duty>>
  BY DEF CountdownThread, CountdownEnd, ledVars
<1>2. Acts
  BY DEF CountdownThread
<1>3. st'.led_state = st.led_state
  BY <1>0, <1>2 DEF StateOK, Show, Tick, Claim, Sound, Hold, Hold2, Release, LogEnd,
       UnwindInJoin, Unwind, CleanupDevices, CleanupState, CountdownEnd
<1>4. \E l : pc' = [pc EXCEPT !["countdown"] = l]
  BY <1>2 DEF Show, Tick, Claim, Sound, Hold, Hold2, Release, LogEnd, UnwindInJoin, Unwind,
         CleanupDevices, CleanupState, CountdownEnd, CGoto, Goto
<1>5. \A t \in Threads \ {"countdown"} : pc'[t] = pc[t]
  BY <1>0, <1>4 DEF ThreadsOK
<1>6. pc["countdown"] \notin LedPlaces
  BY <1>0 DEF ThreadsOK, CountdownPc, LedPlaces
<1>7. pc'["sensor"] = pc["sensor"] /\ \A h \in Handler : pc'[h] = pc[h]
  BY <1>5, ServerAssumption DEF Threads
<1> QED
  BY <1>1, <1>3, <1>5, <1>6, <1>7, LedAside

LEMMA SegmentControlLed ==
    ASSUME IInv, LedInv, ObserveLed, NEW h \in Handler, SegmentControl(h) PROVE LedInv'
<1>0. ThreadsOK /\ Requested /\ h \in Threads /\ h \notin {"sensor", "countdown"}
  BY ServerAssumption DEF IInv, TypeOK, Threads
<1>1. UNCHANGED <<st, ledSlot, ledPending, ledBusy, duty>>
  BY DEF SegmentControl, ledVars
<1>2. pc[h] \in {"seg_lock", "seg_cancel", "seg_join", "seg_create"}
  BY DEF SegmentControl, LockSegment, CancelSegment, JoinSegment, CreateSegment
<1>3. \E l \in {"seg_cancel", "seg_create", "seg_join", "off_state", "recv", "publish"} :
         /\ Goto(h, l) \/ \E c : pc' = [pc EXCEPT !["countdown"] = c, ![h] = l]
         /\ req' = req \/ (l = "recv" /\ req' = [req EXCEPT ![h] = NoReq])
  <2>1. CASE LockSegment(h) \/ CancelSegment(h)
    BY <2>1 DEF LockSegment, CancelSegment, AfterSegment, Answer
  <2>2. CASE JoinSegment(h)
    BY <2>2 DEF JoinSegment
  <2>3. CASE CreateSegment(h)
    BY <2>3 DEF CreateSegment, Answer
  <2> QED
    BY <2>1, <2>2, <2>3 DEF SegmentControl
<1>4. /\ pc'["sensor"] = pc["sensor"]
      /\ \A g \in Handler \ {h} : pc'[g] = pc[g] /\ req'[g] = req[g]
      /\ pc'[h] \notin {"led_dispatch", "off_led"}
  BY <1>0, <1>3, ServerAssumption DEF ThreadsOK, Threads, Goto
<1>5. \A t \in Threads : pc'[t] = pc[t] \/ pc[t] \notin LedPlaces
  BY <1>0, <1>2, <1>4 DEF ThreadsOK, CountdownPc, LedPlaces, Threads
<1> QED
  BY <1>1, <1>2, <1>4, <1>5, LedAside

LEMMA HandlerLed ==
    ASSUME IInv, LedInv, ObserveLed, NEW h \in Handler, HandlerStep(h) \/ NewRequest(h)
    PROVE  LedInv'
<1>0. /\ ThreadsOK /\ Requested /\ StateOK
      /\ h \in Threads /\ h # "sensor" /\ "sensor" \in Threads
  BY ServerAssumption DEF IInv, TypeOK, Threads
<1>1. duty' = duty
  BY DEF HandlerStep, NewRequest
<1>2. \/ LedState(h) \/ LedDispatch(h) \/ BuzzerState(h) \/ BuzzerDispatch(h)
      \/ PlayState(h) \/ Publish(h) \/ OffState(h) \/ OffLed(h) \/ Receive(h)
  BY DEF HandlerStep, NewRequest
<1>3. \E l : Goto(h, l) /\ (req' = req \/ \E r : req' = [req EXCEPT ![h] = r])
  BY <1>2 DEF LedState, LedDispatch, BuzzerState, BuzzerDispatch, PlayState, Publish,
       OffState, OffLed, Receive, Answer
<1>4. /\ \A t \in Threads \ {h} : pc'[t] = pc[t]
      /\ pc'["sensor"] = pc["sensor"]
      /\ \A g \in Handler \ {h} : pc'[g] = pc[g] /\ req'[g] = req[g]
  BY <1>0, <1>3 DEF ThreadsOK, Goto, Threads
<1>5. /\ WritesState(h) => stateBy' = h
      /\ ~WritesState(h) => stateBy' = stateBy
      /\ Dispatches(h) => postBy' = h
      /\ ~Dispatches(h) => postBy' = postBy
  BY <1>0, <1>4, Observed
<1>6. CASE LedState(h)
  <2>1. /\ pc[h] = "led_state" /\ pc'[h] = "led_dispatch" /\ req' = req
        /\ UNCHANGED <<ledSlot, ledPending, ledBusy>>
    BY <1>0, <1>6 DEF LedState, Goto, ThreadsOK, ledVars
  <2>2. req[h].op \in {"led_on", "led_off", "led_brightness"}
    BY <1>0, <2>1 DEF Requested
  <2>3. st'.led_state = 1 <=> req[h].op # "led_off"
    BY <1>0, <1>6, <2>2 DEF LedState, StateOK
  <2>4. LedFollows'
    BY <1>1, <2>1 DEF LedInv, LedFollows
  <2>5. stateBy' = h /\ postBy' = postBy
    BY <1>5, <2>1 DEF WritesState, Dispatches
  <2>6. LedAnnounced'
    BY <1>0, <1>4, <2>1, <2>3, <2>5 DEF LedInv, LedAnnounced, BetweenWrites
  <2> QED
    BY <2>4, <2>6 DEF LedInv
<1>7. CASE LedDispatch(h)
  <2> DEFINE c == [action |-> CASE req[h].op = "led_on"  -> "on"
                                [] req[h].op = "led_off" -> "off"
                                [] OTHER -> "brightness",
                   value |-> IF req[h].op = "led_brightness" THEN req[h].value ELSE 0]
  <2>1. /\ pc[h] = "led_dispatch" /\ pc'[h] = "recv" /\ st' = st /\ LedBox!Post(c)
    BY <1>0, <1>7 DEF LedDispatch, Answer, Goto, ThreadsOK
  <2>2. /\ req[h].op \in {"led_on", "led_off", "led_brightness"}
        /\ req[h].op = "led_brightness" => req[h].value \in 1..3
    BY <1>0, <2>1 DEF Requested, Valid, ValidBrightness
  <2>3. Duty(c) \in {0, 25, 50, 100} /\ (Duty(c) > 0 <=> req[h].op # "led_off") /\ c # NoLed
    <3>1. CASE req[h].op = "led_on"
      <4>1. c = [action |-> "on", value |-> 0]
        BY <3>1
      <4> QED
        BY <3>1, <4>1, DutyOf DEF NoLed
    <3>2. CASE req[h].op = "led_off"
      <4>1. c = [action |-> "off", value |-> 0]
        BY <3>2
      <4> QED
        BY <3>2, <4>1, DutyOf DEF NoLed
    <3>3. CASE req[h].op = "led_brightness"
      <4>1. c = [action |-> "brightness", value |-> req[h].value]
        BY <3>3
      <4> QED
        BY <2>2, <3>3, <4>1, DutyOf DEF NoLed
    <3> QED
      BY <2>2, <3>1, <3>2, <3>3
  <2> HIDE DEF c
  <2>4. LedFollows'
    <3>1. LedFollows
      BY DEF LedInv
    <3>2. LedFollows'
      BY <1>1, <2>1, <2>3, <3>1 DEF LedFollows, LedBox!Post
    <3> QED
      BY <3>2
  <2>5. ledSlot' = c
    BY <2>1 DEF LedBox!Post
  <2>6. stateBy' = stateBy /\ postBy' = h
    BY <1>5, <2>1 DEF WritesState, Dispatches
  <2>7. LedAnnounced'
    BY <1>0, <1>4, <2>1, <2>3, <2>5, <2>6 DEF LedInv, LedAnnounced, BetweenWrites
  <2> QED
    BY <2>4, <2>7 DEF LedInv
<1>8. CASE OffState(h)
  <2>1. /\ pc[h] = "off_state" /\ pc'[h] = "off_led" /\ req' = req
        /\ UNCHANGED <<ledSlot, ledPending, ledBusy>> /\ st'.led_state = 0
    BY <1>0, <1>8 DEF OffState, Goto, ThreadsOK, StateOK, ledVars
  <2>2. LedFollows'
    BY <1>1, <2>1 DEF LedInv, LedFollows
  <2>3. stateBy' = h /\ postBy' = postBy
    BY <1>5, <2>1 DEF WritesState, Dispatches
  <2>4. LedAnnounced'
    BY <1>0, <1>4, <2>1, <2>3 DEF LedInv, LedAnnounced, BetweenWrites
  <2> QED
    BY <2>2, <2>4 DEF LedInv
<1>9. CASE OffLed(h)
  <2> DEFINE c == [action |-> "off", value |-> 0]
  <2>1. /\ pc[h] = "off_led" /\ pc'[h] = "bz_dispatch" /\ st' = st /\ req' = req
        /\ LedBox!Post(c)
    BY <1>0, <1>9 DEF OffLed, Goto, ThreadsOK
  <2>2. Duty(c) = 0 /\ c # NoLed
    BY DutyOf DEF NoLed
  <2> HIDE DEF c
  <2>3. LedFollows'
    BY <1>1, <2>1, <2>2 DEF LedInv, LedFollows, LedBox!Post
  <2>4. ledSlot' = c
    BY <2>1 DEF LedBox!Post
  <2>5. stateBy' = stateBy /\ postBy' = h
    BY <1>5, <2>1 DEF WritesState, Dispatches
  <2>6. LedAnnounced'
    BY <1>0, <1>4, <2>1, <2>2, <2>4, <2>5 DEF LedInv, LedAnnounced, BetweenWrites
  <2> QED
    BY <2>3, <2>6 DEF LedInv
<1>10. CASE \/ BuzzerState(h) \/ BuzzerDispatch(h) \/ PlayState(h) \/ Publish(h)
            \/ Receive(h)
  <2>1. /\ pc[h] \in {"recv", "bz_state", "bz_dispatch", "play_state", "publish"}
        /\ UNCHANGED <<ledSlot, ledPending, ledBusy>> /\ st'.led_state = st.led_state
    BY <1>0, <1>10 DEF BuzzerState, BuzzerDispatch, PlayState, Publish, Receive, ledVars,
         StateOK
  <2>2. pc'[h] \notin {"led_dispatch", "off_led"}
    <3>1. CASE Receive(h)
      <4>1. PICK r \in Request : Goto(h, FirstStep(r.op))
        BY <3>1 DEF Receive
      <4>2. r.op \in Ops
        BY ServerAssumption
      <4>3. FirstStep(r.op) \in {"led_state", "mel_lock", "seg_lock"}
        BY <4>2 DEF FirstStep, Ops
      <4> QED
        BY <1>0, <4>1, <4>3 DEF Goto, ThreadsOK
    <3> QED
      BY <1>0, <1>10, <3>1 DEF BuzzerState, BuzzerDispatch, PlayState, Publish, Answer, Goto,
           ThreadsOK
  <2>3. \A t \in Threads : pc'[t] = pc[t] \/ pc[t] \notin LedPlaces
    BY <1>4, <2>1 DEF LedPlaces
  <2> QED
    BY <1>1, <1>4, <2>1, <2>2, <2>3, LedAside
<1> QED
  BY <1>2, <1>6, <1>7, <1>8, <1>9, <1>10

LEMMA SensorLed ==
    ASSUME IInv, LedInv, ObserveLed, SensorThread PROVE LedInv'
<1>0. /\ ThreadsOK /\ StateOK /\ AlarmOwned
      /\ "sensor" \notin Handler /\ "sensor" \in Threads
  BY ServerAssumption DEF IInv, TypeOK, Threads
<1>1. UNCHANGED <<req, duty>>
  BY DEF SensorThread
<1>2. \/ Sense \/ AlarmSet \/ AlarmLed \/ AlarmBuzzer \/ AlarmLedOff
      \/ AlarmBuzzerOff \/ AlarmClear
  BY DEF SensorThread
<1>3. \E l : Goto("sensor", l)
  BY <1>2 DEF Sense, Poll, AlarmSet, AlarmLed, AlarmBuzzer, AlarmLedOff, AlarmBuzzerOff,
       AlarmClear
<1>4. /\ \A t \in Threads \ {"sensor"} : pc'[t] = pc[t]
      /\ \A h \in Handler : pc'[h] = pc[h]
  BY <1>0, <1>3 DEF Goto, ThreadsOK, Threads
<1>5. /\ WritesState("sensor") => stateBy' = "sensor"
      /\ ~WritesState("sensor") => stateBy' = stateBy
      /\ Dispatches("sensor") => postBy' = "sensor"
      /\ ~Dispatches("sensor") => postBy' = postBy
  BY <1>0, <1>4, Observed
<1>6. CASE Sense
  <2>1. pc["sensor"] = "sense" /\ pc'["sensor"] \in {"sense", "alarm_set"}
    BY <1>0, <1>6 DEF Sense, Poll, Goto, ThreadsOK, Threads
  <2>2. st' = st \/ st' = [st EXCEPT !.sensor_blocked = FALSE]
    BY <1>6 DEF Sense, Poll
  <2>3. st'.led_state = st.led_state
    BY <1>0, <2>2 DEF StateOK
  <2>4. UNCHANGED <<ledSlot, ledPending, ledBusy>>
    BY <1>6 DEF Sense, Poll, ledVars
  <2>5. \A t \in Threads : pc'[t] = pc[t] \/ pc[t] \notin LedPlaces
    BY <1>4, <2>1 DEF LedPlaces
  <2> QED
    BY <1>1, <1>4, <2>1, <2>3, <2>4, <2>5, LedAside
<1>7. CASE AlarmSet
  <2>1. /\ pc["sensor"] = "alarm_set" /\ pc'["sensor"] = "mel_lock" /\ ~st.alarm_active
        /\ UNCHANGED <<ledSlot, ledPending, ledBusy>>
    BY <1>0, <1>7 DEF AlarmSet, AlarmOwned, Goto, ThreadsOK, Threads, ledVars
  <2>2. stateBy' = "sensor" /\ postBy' = postBy
    BY <1>5, <2>1 DEF WritesState, Dispatches
  <2>3. LedFollows'
    BY <1>1, <2>1 DEF LedInv, LedFollows
  <2>4. LedAnnounced'
    BY <1>0, <2>1, <2>2 DEF LedAnnounced, BetweenWrites
  <2> QED
    BY <2>3, <2>4 DEF LedInv
<1>8. CASE AlarmLed
  <2>1. /\ pc["sensor"] = "alarm_led" /\ pc'["sensor"] = "alarm_buzzer" /\ st' = st
        /\ LedBox!Post([action |-> "brightness", value |-> 3])
    BY <1>0, <1>8 DEF AlarmLed, Goto, ThreadsOK, Threads
  <2>2. stateBy' = stateBy /\ postBy' = "sensor"
    BY <1>5, <2>1 DEF WritesState, Dispatches
  <2>3. LedFollows'
    BY <1>1, <2>1 DEF LedInv, LedFollows, LedBox!Post, NoLed
  <2>4. LedAnnounced'
    BY <1>1, <1>4, <2>1, <2>2 DEF LedInv, LedAnnounced, BetweenWrites
  <2> QED
    BY <2>3, <2>4 DEF LedInv
<1>9. CASE AlarmBuzzer
  <2>1. /\ pc["sensor"] = "alarm_buzzer" /\ pc'["sensor"] = "alarm_hold" /\ st' = st
        /\ UNCHANGED <<ledSlot, ledPending, ledBusy>>
    BY <1>0, <1>9 DEF AlarmBuzzer, Goto, ThreadsOK, Threads, ledVars
  <2>2. \A t \in Threads : pc'[t] = pc[t] \/ pc[t] \notin LedPlaces
    BY <1>4, <2>1 DEF LedPlaces
  <2> QED
    BY <1>1, <1>4, <2>1, <2>2, LedAside
<1>10. CASE AlarmLedOff
  <2> DEFINE c == [action |-> "off", value |-> 0]
  <2>1. /\ pc["sensor"] = "alarm_hold" /\ pc'["sensor"] = "alarm_buzzer_off" /\ st' = st
        /\ LedBox!Post(c)
    BY <1>0, <1>10 DEF AlarmLedOff, Goto, ThreadsOK, Threads
  <2>2. Duty(c) = 0 /\ c # NoLed
    BY DutyOf DEF NoLed
  <2> HIDE DEF c
  <2>3. LedFollows'
    BY <1>1, <2>1, <2>2 DEF LedInv, LedFollows, LedBox!Post
  <2>4. ledSlot' = c
    BY <2>1 DEF LedBox!Post
  <2>5. stateBy' = stateBy /\ postBy' = "sensor"
    BY <1>5, <2>1 DEF WritesState, Dispatches
  <2>6. LedAnnounced'
    BY <1>1, <1>4, <2>1, <2>2, <2>4, <2>5 DEF LedInv, LedAnnounced, BetweenWrites
  <2> QED
    BY <2>3, <2>6 DEF LedInv
<1>11. CASE AlarmBuzzerOff
  <2>1. /\ pc["sensor"] = "alarm_buzzer_off" /\ pc'["sensor"] = "alarm_clear" /\ st' = st
        /\ UNCHANGED <<ledSlot, ledPending, ledBusy>>
    BY <1>0, <1>11 DEF AlarmBuzzerOff, Goto, ThreadsOK, Threads, ledVars
  <2>2. \A t \in Threads : pc'[t] = pc[t] \/ pc[t] \notin LedPlaces
    BY <1>4, <2>1 DEF LedPlaces
  <2> QED
    BY <1>1, <1>4, <2>1, <2>2, LedAside
<1>12. CASE AlarmClear
  <2>1. /\ pc["sensor"] = "alarm_clear" /\ pc'["sensor"] = "sense" /\ st'.led_state = 0
        /\ UNCHANGED <<ledSlot, ledPending, ledBusy>>
    BY <1>0, <1>12 DEF AlarmClear, Goto, ThreadsOK, Threads, ledVars, StateOK
  <2>2. stateBy' = "sensor" /\ postBy' = postBy
    BY <1>5, <2>1 DEF WritesState, Dispatches
  <2>3. LedFollows'
    BY <1>1, <2>1 DEF LedInv, LedFollows
  <2>4. postBy = "sensor" => Duty(ledSlot) = 0
    BY <2>1 DEF LedInv, LedAnnounced
  <2>5. LedAnnounced'
    BY <1>0, <2>1, <2>2, <2>4 DEF LedAnnounced, BetweenWrites
  <2> QED
    BY <2>3, <2>5 DEF LedInv
<1> QED
  BY <1>2, <1>6, <1>7, <1>8, <1>9, <1>10, <1>11, <1>12

LEMMA WorkerLed ==
    ASSUME IInv, LedInv, ObserveLed, LedWorker \/ BuzzerWorker PROVE LedInv'
<1>1. UNCHANGED <<pc, req, st, ledSlot>>
  BY DEF LedWorker, BuzzerWorker, LedTake, LedRun, LedBox!Take, LedBox!Finish, reqVars, ledVars
<1>2. LedFollows'
  BY <1>1 DEF LedInv, LedFollows, LedWorker, BuzzerWorker, LedTake, LedRun, LedBox!Take,
       LedBox!Finish, ledVars
<1>3. stateBy' = stateBy /\ postBy' = postBy
  BY <1>1 DEF ObserveLed, WritesState, Dispatches
<1>4. LedAnnounced'
  BY <1>1, <1>3 DEF LedInv, LedAnnounced, BetweenWrites
<1> QED
  BY <1>2, <1>4 DEF LedInv

LEMMA LedStep ==
    IInv /\ LedInv /\ [HNext]_hvars => LedInv'
<1> SUFFICES ASSUME IInv, LedInv, [HNext]_hvars PROVE LedInv'
  OBVIOUS
<1>1. CASE UNCHANGED hvars
  BY <1>1 DEF LedInv, LedFollows, LedAnnounced, BetweenWrites, hvars, historyVars, vars,
       reqVars, ledVars
<1>2. CASE HNext
  <2>0. ObserveLed
    BY <1>2 DEF HNext
  <2>1. ASSUME NEW h \in Handler, NewRequest(h) \/ Serve(h) PROVE LedInv'
    <3>1. h \in Threads
      BY DEF Threads
    <3> QED
      BY <2>0, <2>1, <3>1, HandlerLed, MelodyControlLed, SegmentControlLed DEF Serve
  <2>2. CASE Sensor
    BY <2>0, <2>2, SensorLed, MelodyControlLed DEF Sensor, Threads
  <2>3. CASE Countdown
    BY <2>0, <2>3, CountdownLed, MelodyControlLed DEF Countdown, Threads
  <2>4. CASE MelodyThread
    <3>1. UNCHANGED <<pc, req, ledSlot, ledPending, ledBusy, duty>>
      BY <2>4 DEF MelodyThread, reqVars, ledVars
    <3>2. st' = st \/ st' = [st EXCEPT !.buzzer_state = 0]
      BY <2>4 DEF MelodyThread, PlayReset, PlayCheck, PlayNote, PlayRest, PlayNext, PlayFinish,
           MelodyUnwind, MelodyClear, MelodyEnd
    <3>3. st'.led_state = st.led_state
      BY <3>2 DEF IInv, TypeOK, StateOK
    <3> QED
      BY <2>0, <3>1, <3>3, LedAside
  <2> QED
    BY <1>2, <2>0, <2>1, <2>2, <2>3, <2>4, WorkerLed DEF HNext, Next
<1> QED
  BY <1>1, <1>2

(* A behaviour with its history is a behaviour of the server. *)
LEMMA HistoryAside == HSpec => []IInv
<1>1. HInit => Init
  BY DEF HInit
<1>2. [HNext]_hvars => [Next]_vars
  BY DEF HNext, hvars
<1> QED
  BY <1>1, <1>2, InitInv, StepInv, PTL DEF HSpec

(* The answer to QUERY LED GET_STATUS can be wrong only after one thread   *)
(* wrote led_state last and another dispatched last: for any number of     *)
(* clients, whatever alarms and requests overlap (handle_led_command,      *)
(* handle_query, sensor_thread_fn, handle_system_command).                 *)
THEOREM LedStatusRight == HSpec => []UncrossedLedStatus
<1>1. HInit => LedInv
  <2> SUFFICES ASSUME HInit PROVE LedInv
    OBVIOUS
  <2>1. /\ ledSlot = NoLed /\ ledPending = FALSE /\ ledBusy = NoLed /\ duty = 0
        /\ st.led_state = 0
    BY DEF HInit, Init, LedBox!Init
  <2>2. stateBy = Free /\ postBy = Free /\ Free \notin Handler /\ Free # "sensor"
    BY ServerAssumption DEF HInit, Threads
  <2> QED
    BY <2>1, <2>2, DutyOf DEF LedInv, LedFollows, LedAnnounced
<1>2. LedInv => UncrossedLedStatus
  <2> SUFFICES ASSUME LedInv, LedAtRest, stateBy = postBy
               PROVE  StatusReply("led") <=> duty > 0
    BY DEF UncrossedLedStatus
  <2>1. duty = Duty(ledSlot)
    BY DEF LedInv, LedFollows, LedAtRest, LedBox!Drained
  <2>2. ~BetweenWrites(stateBy)
    BY DEF BetweenWrites, LedAtRest
  <2>3. st.led_state = 1 <=> Duty(ledSlot) > 0
    BY <2>2 DEF LedInv, LedAnnounced
  <2> QED
    BY <2>1, <2>3 DEF StatusReply
<1> QED
  BY <1>1, <1>2, LedStep, HistoryAside, PTL DEF HSpec

-----------------------------------------------------------------------------
(* The debounce counter is the number of dark readings at the end of       *)
(* recent; the alarm is on its way to be raised after the third.           *)
Debounced ==
    /\ pc["sensor"] = "sense" =>
          \E a, b \in {"light", "dark"} :
             recent = CASE consec = 0 -> <<a, b, "light">>
                        [] consec = 1 -> <<a, "light", "dark">>
                        [] consec = 2 -> <<"light", "dark", "dark">>
    /\ pc["sensor"] # "sense" => consec = 0
    /\ pc["sensor"] = "alarm_set" => recent = <<"dark", "dark", "dark">>
    /\ pc["sensor"] \notin {"sense", "alarm_set"} => recent = AllLight

(* A reading: dark ones are counted, light starts again, errors do nothing. *)
LEMMA PollDebounced ==
    ASSUME IInv, Debounced, NEW r \in Reading, Polls(r),
           recent' = IF r = "error" THEN recent ELSE <<recent[2], recent[3], r>>
    PROVE  Debounced'
<1>0. ThreadsOK /\ "sensor" \in Threads /\ consec \in 0..2
  BY DEF IInv, TypeOK, StateOK, Threads
<1> DEFINE n == CASE r = "error" -> consec
                  [] r = "light" -> 0
                  [] r = "dark"  -> consec + 1
<1>1. /\ pc["sensor"] = "sense"
      /\ consec' = IF n >= 3 THEN 0 ELSE n
      /\ Goto("sensor", IF n >= 3 THEN "alarm_set" ELSE "sense")
  BY DEF Polls, Poll
<1>2. pc'["sensor"] = IF n >= 3 THEN "alarm_set" ELSE "sense"
  BY <1>0, <1>1 DEF Goto, ThreadsOK
<1>3. PICK a, b \in {"light", "dark"} :
         recent = CASE consec = 0 -> <<a, b, "light">>
                    [] consec = 1 -> <<a, "light", "dark">>
                    [] consec = 2 -> <<"light", "dark", "dark">>
  BY <1>1 DEF Debounced
<1>4. r # "error" => recent' = <<recent[2], recent[3], r>>
  OBVIOUS
<1> HIDE DEF n
<1>5. CASE r = "error"
  <2>1. n = consec
    BY <1>5 DEF n
  <2>2. consec' = consec /\ pc'["sensor"] = "sense" /\ recent' = recent
    BY <1>0, <1>1, <1>2, <1>5, <2>1
  <2> QED
    BY <1>1, <2>2 DEF Debounced
<1>6. CASE r = "light"
  <2>1. n = 0
    BY <1>6 DEF n
  <2>2. consec' = 0 /\ pc'["sensor"] = "sense"
    BY <1>1, <1>2, <2>1
  <2>3. \E c, d \in {"light", "dark"} : recent' = <<c, d, "light">>
    BY <1>0, <1>3, <1>4, <1>6
  <2> QED
    BY <2>2, <2>3 DEF Debounced
<1>7. CASE r = "dark"
  <2>0. n = consec + 1
    BY <1>7 DEF n
  <2>1. CASE consec = 0
    <3>1. consec' = 1 /\ pc'["sensor"] = "sense"
      BY <1>1, <1>2, <2>0, <2>1
    <3>2. recent' = <<b, "light", "dark">>
      BY <1>3, <1>4, <1>7, <2>1
    <3> QED
      BY <3>1, <3>2 DEF Debounced
  <2>2. CASE consec = 1
    <3>1. consec' = 2 /\ pc'["sensor"] = "sense"
      BY <1>1, <1>2, <2>0, <2>2
    <3>2. recent' = <<"light", "dark", "dark">>
      BY <1>3, <1>4, <1>7, <2>2
    <3> QED
      BY <3>1, <3>2 DEF Debounced
  <2>3. CASE consec = 2
    <3>1. consec' = 0 /\ pc'["sensor"] = "alarm_set"
      BY <1>1, <1>2, <2>0, <2>3
    <3>2. recent' = <<"dark", "dark", "dark">>
      BY <1>3, <1>4, <1>7, <2>3
    <3> QED
      BY <3>1, <3>2 DEF Debounced
  <2> QED
    BY <1>0, <2>1, <2>2, <2>3
<1> QED
  BY <1>5, <1>6, <1>7, ServerAssumption DEF SensorReadings

(* Without a reading the counter stays, and the sensor thread does not     *)
(* leave its poll nor go on to the alarm.                                  *)
LEMMA SensorPath ==
    ASSUME IInv, Next, \A r \in Reading : ~Polls(r)
    PROVE  /\ consec' = consec
           /\ \/ pc'["sensor"] = pc["sensor"]
              \/ pc["sensor"] # "sense" /\ pc'["sensor"] # "alarm_set"
<1>0. /\ ThreadsOK /\ "sensor" \in Threads /\ "sensor" \notin Handler
      /\ Handler \subseteq Threads
  BY ServerAssumption DEF IInv, TypeOK, Threads
<1>1. ASSUME NEW t \in Threads \ {"sensor"}, NEW l, Goto(t, l)
      PROVE  pc'["sensor"] = pc["sensor"]
  BY <1>0, <1>1 DEF Goto, ThreadsOK
<1>2. ASSUME NEW t \in Threads, MelodyControl(t)
      PROVE  /\ consec' = consec
             /\ \/ pc'["sensor"] = pc["sensor"]
                \/ pc["sensor"] # "sense" /\ pc'["sensor"] # "alarm_set"
  <2>1. consec' = consec
    BY <1>2 DEF MelodyControl
  <2>2. CASE t # "sensor"
    <3>1. \E l : Goto(t, l)
      BY <1>2 DEF MelodyControl, LockMelody, StopMelodyTone, CancelMelody, JoinMelody,
           CreateMelody, Answer
    <3> QED
      BY <1>1, <2>1, <2>2, <3>1
  <2>3. CASE t = "sensor"
    <3>1. pc["sensor"] # "sense"
      BY <1>0, <1>2, <2>3 DEF MelodyControl, LockMelody, StopMelodyTone, CancelMelody,
           JoinMelody, CreateMelody
    <3>2. \E l \in {"mel_stop", "mel_create", "mel_cancel", "mel_join", AfterMelody("sensor")} :
             Goto("sensor", l)
      BY <1>0, <1>2, <2>3 DEF MelodyControl, LockMelody, StopMelodyTone, CancelMelody,
           JoinMelody
    <3>3. AfterMelody("sensor") = "alarm_led"
      BY DEF AfterMelody
    <3>4. pc'["sensor"] # "alarm_set"
      BY <1>0, <3>2, <3>3 DEF Goto, ThreadsOK
    <3> QED
      BY <2>1, <3>1, <3>4
  <2> QED
    BY <2>2, <2>3
<1>3. ASSUME NEW h \in Handler, NewRequest(h) \/ SegmentControl(h) \/ HandlerStep(h)
      PROVE  consec' = consec /\ pc'["sensor"] = pc["sensor"]
  <2>1. consec' = consec
    BY <1>3 DEF NewRequest, SegmentControl, HandlerStep
  <2>2. CASE JoinSegment(h)
    BY <1>0, <2>1, <2>2 DEF JoinSegment, ThreadsOK
  <2>3. CASE CreateSegment(h)
    BY <1>0, <2>1, <2>3 DEF CreateSegment, Answer, Goto, ThreadsOK
  <2>4. CASE ~JoinSegment(h) /\ ~CreateSegment(h)
    <3>1. \E l : Goto(h, l)
      BY <1>3, <2>4 DEF NewRequest, Receive, SegmentControl, LockSegment, CancelSegment,
           HandlerStep, LedState, LedDispatch, BuzzerState, BuzzerDispatch, PlayState,
           Publish, OffState, OffLed, Answer, AfterSegment
    <3> QED
      BY <1>0, <1>1, <2>1, <3>1
  <2> QED
    BY <2>2, <2>3, <2>4
<1>4. CASE SensorThread
  <2>1. ~Sense
    BY <1>4 DEF Polls, Sense
  <2>2. /\ consec' = consec /\ pc["sensor"] # "sense"
        /\ \E l \in {"sense", "mel_lock", "alarm_buzzer", "alarm_hold", "alarm_buzzer_off",
                     "alarm_clear"} : Goto("sensor", l)
    BY <1>4, <2>1 DEF SensorThread, AlarmSet, AlarmLed, AlarmBuzzer, AlarmLedOff,
         AlarmBuzzerOff, AlarmClear
  <2> QED
    BY <1>0, <2>2 DEF Goto, ThreadsOK
<1>5. CASE CountdownThread \/ CountdownEnd
  <2>1. consec' = consec
    BY <1>5 DEF CountdownThread, CountdownEnd
  <2>2. \E l : Goto("countdown", l)
    BY <1>5 DEF CountdownThread, CountdownEnd, Show, Tick, Claim, Sound, Hold, Hold2, Release,
         LogEnd, UnwindInJoin, CleanupDevices, CleanupState, Unwind, CGoto
  <2>3. "countdown" \in Threads \ {"sensor"}
    BY DEF Threads
  <2> QED
    BY <1>1, <2>1, <2>2, <2>3
<1>6. CASE MelodyThread \/ LedWorker \/ BuzzerWorker
  BY <1>6 DEF MelodyThread, LedWorker, BuzzerWorker, reqVars
<1>7. "countdown" \in Threads
  BY DEF Threads
<1> QED
  BY <1>0, <1>2, <1>3, <1>4, <1>5, <1>6, <1>7 DEF Next, Serve, Sensor, Countdown

(* The debounce is exact, for any readings and anything clients do: the    *)
(* alarm is raised after the third dark reading in a row and only then,    *)
(* and no earlier alarm stands in its way (sensor_thread_fn).              *)
THEOREM DebounceRight == HSpec => []ThreeDarkReadings
<1>1. HInit => Debounced
  BY DEF HInit, Init, Debounced, AllLight, Threads
<1>2. IInv /\ Debounced /\ [HNext]_hvars => Debounced'
  <2> SUFFICES ASSUME IInv, Debounced, [HNext]_hvars PROVE Debounced'
    OBVIOUS
  <2>1. CASE UNCHANGED hvars
    BY <2>1 DEF Debounced, hvars, historyVars, vars, reqVars
  <2>2. CASE HNext /\ \E r \in Reading : Polls(r)
    BY <2>2, PollDebounced DEF HNext, ObserveReadings
  <2>3. CASE HNext /\ \A r \in Reading : ~Polls(r)
    <3>1. recent' = IF pc["sensor"] = "alarm_set" /\ pc'["sensor"] # "alarm_set"
                    THEN AllLight ELSE recent
      BY <2>3 DEF HNext, ObserveReadings
    <3>2. /\ consec' = consec
          /\ \/ pc'["sensor"] = pc["sensor"]
             \/ pc["sensor"] # "sense" /\ pc'["sensor"] # "alarm_set"
      BY <2>3, SensorPath DEF HNext
    <3>3. CASE pc'["sensor"] = pc["sensor"]
      BY <3>1, <3>2, <3>3 DEF Debounced
    <3>4. CASE pc["sensor"] # "sense" /\ pc'["sensor"] # "alarm_set"
      BY <3>1, <3>2, <3>4 DEF Debounced, AllLight
    <3> QED
      BY <3>2, <3>3, <3>4
  <2> QED
    BY <2>1, <2>2, <2>3
<1>3. IInv /\ Debounced => (pc["sensor"] = "alarm_set" <=> recent = <<"dark", "dark", "dark">>)
  <2> SUFFICES ASSUME IInv, Debounced
               PROVE  pc["sensor"] = "alarm_set" <=> recent = <<"dark", "dark", "dark">>
    OBVIOUS
  <2>1. consec \in 0..2
    BY DEF IInv, TypeOK, StateOK
  <2>2. CASE pc["sensor"] = "sense"
    <3>1. recent[1] = "light" \/ recent[2] = "light" \/ recent[3] = "light"
      BY <2>1, <2>2 DEF Debounced
    <3> QED
      BY <2>2, <3>1
  <2> QED
    BY <2>2 DEF Debounced, AllLight
<1>4. IInv => IntrusionRaisesAlarm
  BY DEF IInv, AlarmOwned, IntrusionRaisesAlarm
<1>5. IInv /\ Debounced => ThreeDarkReadings
  BY <1>3, <1>4 DEF ThreeDarkReadings
<1> QED
  BY <1>1, <1>2, <1>5, HistoryAside, PTL DEF HSpec

-----------------------------------------------------------------------------
(* Nobody but the countdowns has used the buzzer so far. *)
OnlyCountdowns ==
    /\ \A h \in Handler : req[h].op \in {"none", "seg_stop", "set_number"}
    /\ pc["sensor"] = "sense"

(* Then every handler is in handle_segment_command. *)
AtSegment ==
    \A h \in Handler : pc[h] \in {"recv", "seg_lock", "seg_cancel", "seg_join", "seg_create",
                                  "publish"}

(* The countdown has switched the buzzer on and not yet off again. *)
Holding == pc["countdown"] \in {"hold", "hold2"} \/ (pc["countdown"] = "unwind" /\ owned)

(* buzzer_owned, the mailbox and buzzer_state follow the countdown, and    *)
(* every way out of it passes the place that blanks the display.           *)
CountdownTidy ==
    /\ mpc = "none"
    /\ bzSlot = "on" => Holding
    /\ pc["countdown"] \in {"hold", "hold2"} => owned
    /\ st.buzzer_state = 1 =>
          \/ pc["countdown"] \in {"sound", "hold", "hold2", "release"}
          \/ pc["countdown"] \in {"unwind", "unwind_state"} /\ owned
    /\ pc["countdown"] \in {"none", "exited", "end", "hold2", "release", "log",
                            "unwind_state"} => display = -1

LEMMA AtSegmentStep ==
    IInv /\ AtSegment /\ OnlyCountdowns /\ OnlyCountdowns' /\ [Next]_vars => AtSegment'
<1> SUFFICES ASSUME IInv, AtSegment, OnlyCountdowns, OnlyCountdowns', [Next]_vars
             PROVE  AtSegment'
  OBVIOUS
<1>0. /\ ThreadsOK /\ Requested
      /\ \A h \in Handler : h \in Threads /\ h \notin {"sensor", "countdown"}
  BY ServerAssumption DEF IInv, TypeOK, Threads
<1>1. ASSUME \A h \in Handler : pc'[h] = pc[h] PROVE AtSegment'
  BY <1>1 DEF AtSegment
<1>2. ASSUME NEW h \in Handler, NEW l, Goto(h, l),
             l \in {"recv", "seg_lock", "seg_cancel", "seg_join", "seg_create", "publish"}
      PROVE  AtSegment'
  BY <1>0, <1>2 DEF AtSegment, Goto, ThreadsOK
<1>3. ASSUME NEW h \in Handler, NewRequest(h) PROVE AtSegment'
  <2>1. PICK r \in Request : req' = [req EXCEPT ![h] = r] /\ Goto(h, FirstStep(r.op))
    BY <1>3 DEF NewRequest, Receive
  <2>2. req'[h] = r
    BY <1>0, <2>1 DEF ThreadsOK
  <2>3. r.op \in {"none", "seg_stop", "set_number"} /\ r.op \in Ops
    BY <2>2, ServerAssumption DEF OnlyCountdowns
  <2>4. FirstStep(r.op) = "seg_lock"
    BY <2>3 DEF FirstStep, Ops
  <2> QED
    BY <1>2, <2>1, <2>4
<1>4. ASSUME NEW h \in Handler, Serve(h) PROVE AtSegment'
  <2>1. req[h].op # "alarm_off" /\ pc[h] \notin {"mel_lock", "mel_stop", "mel_cancel",
           "mel_join", "mel_create", "led_state", "led_dispatch", "bz_state", "bz_dispatch",
           "play_state", "off_state", "off_led"}
    BY DEF OnlyCountdowns, AtSegment
  <2>2. ~MelodyControl(h)
    BY <2>1 DEF MelodyControl, LockMelody, StopMelodyTone, CancelMelody, JoinMelody,
         CreateMelody
  <2>3. CASE HandlerStep(h)
    <3>1. Publish(h)
      BY <2>1, <2>3 DEF HandlerStep, LedState, LedDispatch, BuzzerState, BuzzerDispatch,
           PlayState, OffState, OffLed
    <3> QED
      BY <1>2, <3>1 DEF Publish, Answer
  <2>4. CASE SegmentControl(h)
    <3>1. CASE LockSegment(h) \/ CancelSegment(h)
      BY <1>2, <2>1, <3>1 DEF LockSegment, CancelSegment, AfterSegment, Answer
    <3>2. CASE JoinSegment(h) \/ CreateSegment(h)
      <4>1. \/ Goto(h, "recv")
            \/ \E c \in {"none", "show"}, l \in {"seg_create", "recv", "publish"} :
                  pc' = [pc EXCEPT !["countdown"] = c, ![h] = l]
        BY <2>1, <3>2 DEF JoinSegment, CreateSegment, Answer
      <4> QED
        BY <1>0, <1>2, <4>1 DEF AtSegment, ThreadsOK
    <3> QED
      BY <2>4, <3>1, <3>2 DEF SegmentControl
  <2> QED
    BY <1>4, <2>2, <2>3, <2>4 DEF Serve
<1>5. CASE Sensor \/ Countdown
  <2>1. \E t \in {"sensor", "countdown"} : \E l : Goto(t, l)
    <3>1. ASSUME NEW t \in {"sensor", "countdown"}, MelodyControl(t) PROVE \E l : Goto(t, l)
      BY <1>0, <3>1 DEF MelodyControl, LockMelody, StopMelodyTone, CancelMelody, JoinMelody
    <3>2. CASE SensorThread
      BY <3>2 DEF SensorThread, Sense, Poll, AlarmSet, AlarmLed, AlarmBuzzer, AlarmLedOff,
           AlarmBuzzerOff, AlarmClear
    <3>3. CASE CountdownThread \/ CountdownEnd
      BY <3>3 DEF CountdownThread, CountdownEnd, Show, Tick, Claim, Sound, Hold, Hold2,
           Release, LogEnd, UnwindInJoin, Unwind, CleanupDevices, CleanupState, CGoto
    <3> QED
      BY <1>5, <3>1, <3>2, <3>3 DEF Sensor, Countdown
  <2> QED
    BY <1>0, <1>1, <2>1 DEF Goto, ThreadsOK
<1>6. CASE MelodyThread \/ LedWorker \/ BuzzerWorker \/ UNCHANGED vars
  BY <1>1, <1>6 DEF MelodyThread, LedWorker, BuzzerWorker, vars, reqVars
<1> QED
  BY <1>3, <1>4, <1>5, <1>6 DEF Next

LEMMA CountdownThreadTidy ==
    ASSUME IInv, CountdownTidy, CountdownThread \/ CountdownEnd PROVE CountdownTidy'
<1> DEFINE Acts == Show \/ Tick \/ Claim \/ Sound \/ Hold \/ Hold2 \/ Release \/ LogEnd
                   \/ UnwindInJoin \/ CleanupDevices \/ CleanupState \/ CountdownEnd
<1>0. ThreadsOK /\ StateOK /\ MelodyHandle /\ "countdown" \in Threads
  BY DEF IInv, TypeOK, Threads
<1>1. mpc' = mpc
  BY DEF CountdownThread, CountdownEnd, melodyVars
<1>2. Acts
  BY DEF CountdownThread
<1>3. pc["countdown"] # "mel_join"
  BY <1>0 DEF MelodyHandle, CountdownTidy
<1>4. CASE Show \/ Tick
  <2>1. /\ pc["countdown"] \in {"show", "tick"}
        /\ pc'["countdown"] \in {"tick", "show", "mel_lock", "unwind"}
        /\ UNCHANGED <<owned, bzSlot>> /\ st'.buzzer_state = st.buzzer_state
    BY <1>0, <1>4 DEF Show, Tick, Unwind, CGoto, Goto, ThreadsOK, StateOK, bzVars
  <2> QED
    BY <1>1, <2>1 DEF CountdownTidy, Holding
<1>5. CASE Claim \/ Sound
  <2>1. \/ /\ pc["countdown"] = "claim" /\ pc'["countdown"] = "sound"
           /\ UNCHANGED <<owned, bzSlot>>
        \/ /\ pc["countdown"] = "sound" /\ pc'["countdown"] = "hold" /\ owned' = TRUE
    BY <1>0, <1>5 DEF Claim, Sound, CGoto, Goto, ThreadsOK, bzVars
  <2> QED
    BY <1>1, <2>1 DEF CountdownTidy, Holding
<1>6. CASE Hold
  <2>1. /\ pc["countdown"] = "hold" /\ UNCHANGED <<owned, bzSlot>>
        /\ st'.buzzer_state = st.buzzer_state
        /\ \/ pc'["countdown"] = "unwind"
           \/ pc'["countdown"] = "hold2" /\ display' = -1
    BY <1>0, <1>6 DEF Hold, Unwind, CGoto, Goto, ThreadsOK, StateOK, bzVars
  <2> QED
    BY <1>1, <2>1 DEF CountdownTidy, Holding
<1>7. CASE Hold2
  <2>1. /\ pc["countdown"] = "hold2" /\ UNCHANGED <<st, display>>
        /\ \/ pc'["countdown"] = "unwind" /\ UNCHANGED <<owned, bzSlot>>
           \/ pc'["countdown"] = "release" /\ bzSlot' = "off"
    BY <1>0, <1>7 DEF Hold2, Unwind, CGoto, Goto, ThreadsOK, bzVars, BzBox!Post
  <2> QED
    BY <1>1, <2>1 DEF CountdownTidy, Holding
<1>8. CASE Release
  <2>1. /\ pc["countdown"] = "release" /\ pc'["countdown"] = "log"
        /\ UNCHANGED <<owned, bzSlot, display>> /\ st'.buzzer_state = 0
    BY <1>0, <1>8 DEF Release, CGoto, Goto, ThreadsOK, StateOK, bzVars
  <2> QED
    BY <1>1, <2>1 DEF CountdownTidy, Holding
<1>9. CASE LogEnd
  <2>1. /\ pc["countdown"] = "log" /\ pc'["countdown"] \in {"end", "unwind"}
        /\ UNCHANGED <<owned, bzSlot, st, display>>
    BY <1>0, <1>9 DEF LogEnd, Unwind, CGoto, Goto, ThreadsOK, bzVars
  <2> QED
    BY <1>1, <2>1 DEF CountdownTidy, Holding
<1>10. CASE UnwindInJoin
  BY <1>3, <1>10 DEF UnwindInJoin
<1>11. CASE CleanupDevices
  <2>1. /\ pc["countdown"] = "unwind" /\ pc'["countdown"] = "unwind_state"
        /\ UNCHANGED <<owned, st>> /\ display' = -1
        /\ IF owned THEN bzSlot' = "off" ELSE bzSlot' = bzSlot
    BY <1>0, <1>11 DEF CleanupDevices, CGoto, Goto, ThreadsOK, bzVars, BzBox!Post
  <2>2. bzSlot' # "on"
    BY <2>1 DEF CountdownTidy, Holding
  <2> QED
    BY <1>1, <2>1, <2>2 DEF CountdownTidy
<1>12. CASE CleanupState
  <2>1. /\ pc["countdown"] = "unwind_state" /\ pc'["countdown"] = "end"
        /\ UNCHANGED <<owned, bzSlot, display>>
        /\ st'.buzzer_state = IF owned THEN 0 ELSE st.buzzer_state
    BY <1>0, <1>12 DEF CleanupState, CGoto, Goto, ThreadsOK, StateOK, bzVars
  <2>2. st'.buzzer_state # 1
    BY <2>1 DEF CountdownTidy
  <2> QED
    BY <1>1, <2>1, <2>2 DEF CountdownTidy, Holding
<1>13. CASE CountdownEnd
  <2>1. /\ pc["countdown"] = "end" /\ pc'["countdown"] = "exited"
        /\ UNCHANGED <<bzSlot, st, display>>
    BY <1>0, <1>13 DEF CountdownEnd, CGoto, Goto, ThreadsOK, bzVars
  <2> QED
    BY <1>1, <2>1 DEF CountdownTidy, Holding
<1> QED
  BY <1>2, <1>4, <1>5, <1>6, <1>7, <1>8, <1>9, <1>10, <1>11, <1>12, <1>13

LEMMA CountdownStep ==
    IInv /\ AtSegment /\ CountdownTidy /\ OnlyCountdowns /\ [Next]_vars => CountdownTidy'
<1> SUFFICES ASSUME IInv, AtSegment, CountdownTidy, OnlyCountdowns, [Next]_vars
             PROVE  CountdownTidy'
  OBVIOUS
<1>0. /\ ThreadsOK /\ StateOK /\ Requested /\ MelodyHandle /\ CountdownHandle
      /\ {"sensor", "countdown"} \subseteq Threads
      /\ \A h \in Handler : h \in Threads /\ h \notin {"sensor", "countdown"}
  BY ServerAssumption DEF IInv, TypeOK, Threads
(* A step that does not concern the countdown's state. *)
<1>1. ASSUME UNCHANGED <<mpc, bzSlot, owned, display>>,
             st'.buzzer_state = st.buzzer_state, pc'["countdown"] = pc["countdown"]
      PROVE  CountdownTidy'
  BY <1>1 DEF CountdownTidy, Holding
<1>2. ASSUME NEW t \in Threads, MelodyControl(t) PROVE CountdownTidy'
  <2>1. pc[t] \in {"mel_lock", "mel_stop", "mel_cancel", "mel_join", "mel_create"}
    BY <1>2 DEF MelodyControl, LockMelody, StopMelodyTone, CancelMelody, JoinMelody,
         CreateMelody
  <2>2. t = "countdown"
    BY <2>1 DEF AtSegment, OnlyCountdowns, Threads
  <2>3. ~mjoinable /\ pc[t] \notin {"mel_stop", "mel_cancel", "mel_join"}
    BY <1>0 DEF MelodyHandle, CountdownTidy
  <2>4. LockMelody(t)
    BY <1>0, <1>2, <2>2, <2>3 DEF MelodyControl, StopMelodyTone, CancelMelody, JoinMelody
  <2>5. /\ UNCHANGED <<mpc, bzSlot, owned, display, st>>
        /\ pc["countdown"] = "mel_lock" /\ Goto("countdown", "claim")
    BY <1>0, <1>2, <2>2, <2>3, <2>4 DEF MelodyControl, LockMelody, melodyVars, segVars, bzVars,
         Starting, AfterMelody
  <2>6. pc'["countdown"] = "claim"
    BY <1>0, <2>5 DEF Goto, ThreadsOK
  <2> QED
    BY <2>5, <2>6 DEF CountdownTidy, Holding
<1>3. ASSUME NEW h \in Handler, SegmentControl(h) PROVE CountdownTidy'
  <2>1. UNCHANGED <<st, mpc, bzSlot, display>>
    BY <1>3 DEF SegmentControl, melodyVars, bzVars
  <2>2. CASE LockSegment(h) \/ CancelSegment(h)
    <3>1. \E l : Goto(h, l)
      BY <2>2 DEF LockSegment, CancelSegment, AfterSegment, Answer
    <3>2. pc'["countdown"] = pc["countdown"]
      BY <1>0, <3>1 DEF Goto, ThreadsOK
    <3>3. owned' = owned
      BY <2>2 DEF LockSegment, CancelSegment, segVars
    <3> QED
      BY <1>1, <2>1, <3>2, <3>3
  <2>3. CASE JoinSegment(h)
    <3>1. pc["countdown"] = "exited" /\ owned' = owned
      BY <2>3 DEF JoinSegment
    <3>2. \E l : pc' = [pc EXCEPT !["countdown"] = "none", ![h] = l]
      BY <2>3 DEF JoinSegment
    <3>3. pc'["countdown"] = "none"
      BY <1>0, <3>2 DEF ThreadsOK
    <3> QED
      BY <2>1, <3>1, <3>3 DEF CountdownTidy, Holding
  <2>4. CASE CreateSegment(h)
    <3>1. pc["countdown"] = "none"
      BY <1>0, <2>4 DEF CreateSegment, CountdownHandle
    <3>2. \/ pc' = [pc EXCEPT !["countdown"] = "show", ![h] = "publish"]
          \/ Goto(h, "recv")
      BY <2>4 DEF CreateSegment, Answer
    <3>3. pc'["countdown"] \in {"none", "show"}
      BY <1>0, <3>1, <3>2 DEF ThreadsOK, Goto
    <3> QED
      BY <2>1, <3>1, <3>3 DEF CountdownTidy, Holding
  <2> QED
    BY <1>3, <2>2, <2>3, <2>4 DEF SegmentControl
<1>4. ASSUME NEW h \in Handler, HandlerStep(h) \/ NewRequest(h) PROVE CountdownTidy'
  <2>1. /\ UNCHANGED <<mpc, owned, display>>
        /\ \/ LedState(h) \/ LedDispatch(h) \/ BuzzerState(h) \/ BuzzerDispatch(h)
           \/ PlayState(h) \/ Publish(h) \/ OffState(h) \/ OffLed(h) \/ Receive(h)
    BY <1>4 DEF HandlerStep, NewRequest, melodyVars, segVars
  <2>2. \E l : Goto(h, l)
    BY <2>1 DEF LedState, LedDispatch, BuzzerState, BuzzerDispatch, PlayState, Publish,
         OffState, OffLed, Receive, Answer
  <2>3. pc'["countdown"] = pc["countdown"]
    BY <1>0, <2>2 DEF Goto, ThreadsOK
  <2>4. Publish(h) \/ Receive(h)
    BY <2>1 DEF AtSegment, LedState, LedDispatch, BuzzerState, BuzzerDispatch, PlayState,
         OffState, OffLed
  <2>5. CASE Receive(h)
    BY <1>1, <2>1, <2>3, <2>5 DEF Receive, bzVars
  <2>6. CASE Publish(h)
    <3>1. st'.buzzer_state = st.buzzer_state /\ bzSlot' = bzSlot
      BY <1>0, <2>6 DEF Publish, StateOK, bzVars
    <3> QED
      BY <1>1, <2>1, <2>3, <3>1
  <2> QED
    BY <2>4, <2>5, <2>6
<1>5. CASE SensorThread
  <2>1. Sense
    BY <1>5 DEF SensorThread, AlarmSet, AlarmLed, AlarmBuzzer, AlarmLedOff, AlarmBuzzerOff,
         AlarmClear, OnlyCountdowns
  <2>2. /\ st' = st \/ st' = [st EXCEPT !.sensor_blocked = FALSE]
        /\ bzSlot' = bzSlot /\ \E l : Goto("sensor", l)
    BY <2>1 DEF Sense, Poll, bzVars
  <2>3. st'.buzzer_state = st.buzzer_state /\ pc'["countdown"] = pc["countdown"]
    BY <1>0, <2>2 DEF Goto, ThreadsOK, StateOK
  <2> QED
    BY <1>1, <1>5, <2>2, <2>3 DEF SensorThread, melodyVars, segVars
<1>6. CASE MelodyThread
  BY <1>6 DEF MelodyThread, PlayReset, PlayCheck, PlayNote, PlayRest, PlayNext, PlayFinish,
       MelodyUnwind, MelodyClear, MelodyEnd, CountdownTidy
<1>7. CASE LedWorker \/ BuzzerWorker
  <2>1. UNCHANGED <<mpc, bzSlot, owned, display, st, pc>>
    BY <1>7 DEF LedWorker, BuzzerWorker, BuzzerTake, BuzzerRun, BzBox!Take, BzBox!Finish,
         reqVars, melodyVars, segVars, bzVars
  <2> QED
    BY <1>1, <2>1
<1>8. CASE UNCHANGED vars
  BY <1>1, <1>8 DEF vars, reqVars, melodyVars, segVars, bzVars
<1>9. ASSUME NEW h \in Handler, NewRequest(h) \/ Serve(h) PROVE CountdownTidy'
  BY <1>0, <1>2, <1>3, <1>4, <1>9 DEF Serve
<1>10. CASE Sensor \/ Countdown
  BY <1>0, <1>2, <1>5, <1>10, CountdownThreadTidy DEF Sensor, Countdown
<1> QED
  BY <1>6, <1>7, <1>8, <1>9, <1>10 DEF Next

(* A countdown leaves nothing behind: with no countdown alive and the      *)
(* worker idle, buzzer, buzzer_state and display are off, for any number   *)
(* of clients that start and stop countdowns at any moment                 *)
(* (segment_thread_fn, seg_cleanup, stop_segment_locked).                  *)
THEOREM CountdownsEndSilent == Spec /\ []OnlyCountdowns => []CountdownLeavesSilence
<1>1. Init => AtSegment /\ CountdownTidy
  <2> SUFFICES ASSUME Init PROVE AtSegment /\ CountdownTidy
    OBVIOUS
  <2>1. /\ mpc = "none" /\ bzSlot = "none" /\ st.buzzer_state = 0 /\ display = -1
    BY DEF Init, BzBox!Init
  <2>2. pc["countdown"] = "none" /\ \A h \in Handler : pc[h] = "recv"
    BY ServerAssumption DEF Init, Threads
  <2> QED
    BY <2>1, <2>2 DEF AtSegment, CountdownTidy, Holding
<1>2. IInv /\ Tones /\ CountdownTidy => CountdownLeavesSilence
  <2> SUFFICES ASSUME IInv, Tones, CountdownTidy, pc["countdown"] \in {"none", "exited"},
                      BzBox!Drained
               PROVE  tone = "silent" /\ st.buzzer_state = 0 /\ display = -1
    BY DEF CountdownLeavesSilence
  <2>1. /\ tone \in {"silent", "alarm", "note"} /\ st.buzzer_state \in 0..1
    BY DEF IInv, TypeOK, DevicesOK, StateOK
  <2>2. bzSlot # "on" /\ mpc = "none"
    BY DEF CountdownTidy, Holding
  <2>3. tone = "silent"
    BY <2>1, <2>2 DEF Tones, BzBox!Drained
  <2> QED
    BY <2>1, <2>3 DEF CountdownTidy
<1> QED
  BY <1>1, <1>2, AtSegmentStep, CountdownStep, TonesInvariance, PTL DEF Spec

=============================================================================
