------------------------- MODULE MCAlarmServerProofs -------------------------
(***************************************************************************)
(* The countdown workload of MCAlarmServer satisfies the hypothesis of     *)
(* CountdownsEndSilent, so that what the run checks with two clients holds *)
(* for any number of them and next to any other workloads.                 *)
(***************************************************************************)
EXTENDS MCAlarmServer, AlarmServerProofs

(* The requests stay within the workload and it does not get dark. *)
InCountdowns == workload = Countdowns => OnlyCountdowns /\ consec = 0

LEMMA WithinCountdowns ==
    IInv /\ InCountdowns /\ [Next /\ Within]_mcvars => InCountdowns'
<1> SUFFICES ASSUME IInv, InCountdowns, [Next /\ Within]_mcvars, workload' = Countdowns
             PROVE  OnlyCountdowns' /\ consec' = 0
  BY DEF InCountdowns
<1>0. ThreadsOK /\ workload' = workload
  BY DEF IInv, TypeOK, Within, mcvars
<1>1. OnlyCountdowns /\ consec = 0
  BY <1>0 DEF InCountdowns
<1>2. CASE UNCHANGED mcvars
  BY <1>1, <1>2 DEF mcvars, vars, reqVars, OnlyCountdowns
<1>3. CASE Next /\ Within
  <2>1. /\ \A h \in Handler : workload.requests[h] = CountdownRequests
        /\ workload.dark = FALSE
    BY <1>0 DEF Countdowns, Workload, Everybody
  <2>2. consec' = 0
    BY <1>3, <2>1 DEF Within
  <2>3. \A r \in CountdownRequests : r.op \in {"seg_stop", "set_number"}
    BY DEF CountdownRequests, Req, SetNumber
  <2>4. \A h \in Handler : req'[h].op \in {"none", "seg_stop", "set_number"}
    BY <1>1, <1>3, <2>1, <2>3 DEF Within, OnlyCountdowns, NoReq
  <2>5. pc'["sensor"] = "sense"
    <3>1. CASE Sensor
      <4>1. Sense
        BY <1>1, <3>1, ServerAssumption DEF Sensor, SensorThread, AlarmSet, AlarmLed, AlarmBuzzer, AlarmLedOff,
             AlarmBuzzerOff, AlarmClear, OnlyCountdowns, MelodyControl, LockMelody,
             StopMelodyTone, CancelMelody, JoinMelody, CreateMelody
      <4>2. PICK r \in Reading :
               LET n == CASE r = "error" -> consec
                          [] r = "light" -> 0
                          [] r = "dark"  -> consec + 1
               IN  Goto("sensor", IF n >= 3 THEN "alarm_set" ELSE "sense")
        BY <4>1 DEF Sense, Poll
      <4>3. r \in {"error", "light", "dark"}
        BY ServerAssumption DEF SensorReadings
      <4>4. Goto("sensor", "sense")
        <5>1. CASE r = "error"
          BY <1>1, <4>2, <5>1
        <5>2. CASE r = "light"
          BY <1>1, <4>2, <5>2
        <5>3. CASE r = "dark"
          BY <1>1, <4>2, <5>3
        <5> QED
          BY <4>3, <5>1, <5>2, <5>3
      <4> QED
        BY <1>0, <4>4 DEF Goto, ThreadsOK, Threads
    <3>2. CASE ~Sensor
      <4>1. ASSUME NEW t \in Threads \ {"sensor"}, NEW l, Goto(t, l)
            PROVE  pc'["sensor"] = pc["sensor"]
        BY <1>0, <4>1 DEF Goto, ThreadsOK
      <4>2. ASSUME NEW t \in Threads \ {"sensor"}, MelodyControl(t)
            PROVE  pc'["sensor"] = pc["sensor"]
        BY <4>1, <4>2 DEF MelodyControl, LockMelody, StopMelodyTone, CancelMelody, JoinMelody,
             CreateMelody, Answer
      <4>3. \A h \in Handler : h \in Threads \ {"sensor"}
        BY ServerAssumption DEF Threads
      <4>4. ASSUME NEW h \in Handler, NewRequest(h) \/ HandlerStep(h)
            PROVE  pc'["sensor"] = pc["sensor"]
        <5>1. \E l : Goto(h, l)
          BY <4>4 DEF NewRequest, HandlerStep, Receive, LedState, LedDispatch, BuzzerState,
               BuzzerDispatch, PlayState, Publish, OffState, OffLed, Answer
        <5> QED
          BY <4>1, <4>3, <5>1
      <4>5. ASSUME NEW h \in Handler, SegmentControl(h) PROVE pc'["sensor"] = pc["sensor"]
        <5>1. \/ \E l : Goto(h, l)
              \/ \E c, l : pc' = [pc EXCEPT !["countdown"] = c, ![h] = l]
          BY <4>5 DEF SegmentControl, LockSegment, CancelSegment, JoinSegment, CreateSegment,
               AfterSegment, Answer
        <5>2. CASE \E l : Goto(h, l)
          BY <4>1, <4>3, <5>2
        <5>3. CASE \E c, l : pc' = [pc EXCEPT !["countdown"] = c, ![h] = l]
          <6>1. PICK c, l : pc' = [pc EXCEPT !["countdown"] = c, ![h] = l]
            BY <5>3
          <6>2. "sensor" \in DOMAIN pc /\ h # "sensor"
            BY <1>0, <4>3 DEF ThreadsOK, Threads
          <6> QED
            BY <6>1, <6>2
        <5> QED
          BY <5>1, <5>2, <5>3
      <4>6. ASSUME CountdownThread \/ CountdownEnd PROVE pc'["sensor"] = pc["sensor"]
        <5>1. \E l : Goto("countdown", l)
          BY <4>6 DEF CountdownThread, CountdownEnd, Show, Tick, Claim, Sound, Hold, Hold2,
               Release, LogEnd, UnwindInJoin, Unwind, CleanupDevices, CleanupState, CGoto
        <5> QED
          BY <4>1, <5>1 DEF Threads
      <4>7. ASSUME MelodyThread \/ LedWorker \/ BuzzerWorker PROVE pc'["sensor"] = pc["sensor"]
        BY <4>7 DEF MelodyThread, LedWorker, BuzzerWorker, reqVars
      <4>8. ASSUME \E h \in Handler : NewRequest(h) \/ Serve(h)
            PROVE  pc'["sensor"] = pc["sensor"]
        BY <4>2, <4>3, <4>4, <4>5, <4>8 DEF Serve
      <4>9. ASSUME Countdown PROVE pc'["sensor"] = pc["sensor"]
        <5>1. "countdown" \in Threads \ {"sensor"}
          BY DEF Threads
        <5> QED
          BY <4>2, <4>6, <4>9, <5>1 DEF Countdown
      <4>10. pc'["sensor"] = pc["sensor"]
        BY <1>3, <3>2, <4>7, <4>8, <4>9 DEF Next
      <4> QED
        BY <1>1, <4>10 DEF OnlyCountdowns
    <3> QED
      BY <3>1, <3>2
  <2> QED
    BY <2>2, <2>4, <2>5 DEF OnlyCountdowns
<1> QED
  BY <1>2, <1>3

(* In the countdown workload a countdown leaves buzzer, buzzer_state and   *)
(* display off, at whichever cancellation point it was stopped             *)
(* (segment_thread_fn, seg_cleanup).                                       *)
THEOREM CountdownWorkload == MCSpec => []CountdownsLeaveSilence
<1>1. MCSpec => Spec
  <2>1. MCInit => Init
    BY DEF MCInit
  <2>2. [Next /\ Within]_mcvars => [Next]_vars
    BY DEF mcvars
  <2> QED
    BY <2>1, <2>2, PTL DEF MCSpec, Spec
<1>2. MCInit => InCountdowns
  BY ServerAssumption DEF MCInit, Init, InCountdowns, OnlyCountdowns, NoReq, Threads
<1> DEFINE Chosen == workload = Countdowns
<1>3. [Next /\ Within]_mcvars => (Chosen <=> Chosen')
  BY DEF Within, mcvars
<1>4. InCountdowns /\ Chosen => OnlyCountdowns
  BY DEF InCountdowns
<1>5. /\ CountdownLeavesSilence => CountdownsLeaveSilence
      /\ ~Chosen => CountdownsLeaveSilence
  BY DEF CountdownsLeaveSilence
<1> HIDE DEF Chosen
<1>6. MCSpec => []IInv
  BY <1>1, Invariance, PTL
<1>7. MCSpec => []InCountdowns
  BY <1>2, <1>6, WithinCountdowns, PTL DEF MCSpec
<1>8. MCSpec /\ Chosen => []OnlyCountdowns
  BY <1>3, <1>4, <1>7, PTL DEF MCSpec
<1>9. MCSpec /\ ~Chosen => []~Chosen
  BY <1>3, PTL DEF MCSpec
<1> QED
  BY <1>1, <1>5, <1>8, <1>9, CountdownsEndSilent, PTL
=============================================================================
