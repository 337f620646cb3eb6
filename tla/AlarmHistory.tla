----------------------------- MODULE AlarmHistory -----------------------------
(***************************************************************************)
(* AlarmServer with history variables, for what it promises about events   *)
(* that its own state does not remember: which readings the sensor has     *)
(* had, and whose LED command changed what last.  They follow the steps of *)
(* AlarmServer and restrict none.                                          *)
(***************************************************************************)
EXTENDS AlarmServer

VARIABLES
    recent,     \* the last three readings, errors left out; those before the
                \* start or before the last alarm count as light
    stateBy,    \* the thread that wrote led_state last, Free at first
    postBy      \* the thread that called dispatch_led last, Free at first

historyVars == <<recent, stateBy, postBy>>
hvars == <<vars, historyVars>>

AllLight == <<"light", "light", "light">>

HInit == Init /\ recent = AllLight /\ stateBy = Free /\ postBy = Free

Polls(r) == Poll(r) /\ SensorThread

ObserveReadings ==
    \/ \E r \in Reading : /\ Polls(r)
                          /\ recent' = IF r = "error" THEN recent
                                       ELSE <<recent[2], recent[3], r>>
    \/ /\ \A r \in Reading : ~Polls(r)
       /\ recent' = IF pc["sensor"] = "alarm_set" /\ pc'["sensor"] # "alarm_set"
                    THEN AllLight ELSE recent

(* The places before a change of led_state, and before a dispatch_led.     *)
WritesState(t) == /\ \/ pc[t] \in {"led_state", "off_state", "alarm_clear"}
                     \/ pc[t] = "alarm_set" /\ ~st.alarm_active
                  /\ pc'[t] # pc[t]

Dispatches(t) == /\ pc[t] \in {"led_dispatch", "off_led", "alarm_led", "alarm_hold"}
                 /\ pc'[t] # pc[t]

ObserveLed ==
    /\ \/ \E t \in Threads : WritesState(t) /\ stateBy' = t
       \/ (\A t \in Threads : ~WritesState(t)) /\ UNCHANGED stateBy
    /\ \/ \E t \in Threads : Dispatches(t) /\ postBy' = t
       \/ (\A t \in Threads : ~Dispatches(t)) /\ UNCHANGED postBy

HNext == Next /\ ObserveReadings /\ ObserveLed

HSpec == HInit /\ [][HNext]_hvars
-----------------------------------------------------------------------------
(* The debounce: the sensor thread goes on to raise the alarm exactly when *)
(* its last three readings were dark, whatever I2C errors came in between; *)
(* errors neither count nor start the count again, light does, and so does *)
(* the alarm.  And it does raise it: alarm_active is never left over from  *)
(* the last one, whenever ALARM_OFF came (sensor_thread_fn).               *)
ThreeDarkReadings ==
    /\ pc["sensor"] = "alarm_set" <=> recent = <<"dark", "dark", "dark">>
    /\ IntrusionRaisesAlarm

(* The answer to QUERY LED GET_STATUS is true after every LED command that *)
(* no other overtook: when all is at rest it can be false only if led_state *)
(* was written last by one thread and the LED dispatched last by another.  *)
(* So the next command, or the next alarm, that nobody crosses sets it     *)
(* right, whatever happened before (handle_led_command, sensor_thread_fn,  *)
(* handle_system_command).                                                 *)
UncrossedLedStatus ==
    (LedAtRest /\ stateBy = postBy) => (StatusReply("led") <=> duty > 0)
=============================================================================
