---------------------------- MODULE MCAlarmServer ----------------------------
(***************************************************************************)
(* Workloads for AlarmServer.  One run covers several: which clients are   *)
(* connected, what they may send, and whether it may get dark.  The        *)
(* workload is chosen initially and stays.                                 *)
(***************************************************************************)
EXTENDS AlarmServer

CONSTANT Workloads

VARIABLE workload

mcvars == <<vars, workload>>

Req(op) == [op |-> op, value |-> 0]
SetNumber(n) == [op |-> "set_number", value |-> n]
Brightness(n) == [op |-> "led_brightness", value |-> n]

(* requests[h]: what handler h may be sent. *)
Workload(requests, dark) == [requests |-> requests, dark |-> dark]

First == CHOOSE h \in Handler : TRUE

Everybody(requests) == [h \in Handler |-> requests]
Both(one, others)   == [h \in Handler |-> IF h = First THEN one ELSE others]
Alone(requests)     == Both(requests, {})

CountdownRequests == {Req("seg_stop"), SetNumber(1), SetNumber(0)}
LedRequests == {Req("led_on"), Req("led_off"), Brightness(1), Brightness(4)}
AlarmRequests == {Req("alarm_off"), Req("melody")}
ResetRequests == {Req("alarm_off"), SetNumber(1)}
CancelRequests == {Req("melody"), Req("seg_stop"), SetNumber(1)}

(* Two clients that race for a control or for the LED, or one that starts  *)
(* countdowns and ends them with ALARM_OFF, or alarms and ALARM_OFF.       *)
Countdowns == Workload(Everybody(CountdownRequests), FALSE)
ControlWorkloads == {Workload(Both({Req("buzzer_on"), Req("melody")},
                                   {Req("buzzer_off"), Req("melody")}), FALSE),
                     Countdowns,
                     Workload(Everybody(LedRequests), FALSE),
                     Workload(Alone(ResetRequests), FALSE),
                     Workload(Alone({Req("alarm_off")}), TRUE)}

(* An alarm against a client, or a countdown cancelled at every point,     *)
(* while it stops a melody too.                                            *)
AlarmWorkloads == {Workload(Alone(AlarmRequests), TRUE),
                   Workload(Alone(CancelRequests), FALSE)}

(* For the disagreements. *)
AlarmOffWorkload == {Workload(Alone({Req("alarm_off")}), TRUE)}
PlayWorkload     == {Workload(Alone({Req("melody")}), TRUE)}
CancelWorkload   == {Workload(Alone(CancelRequests \cup {Req("buzzer_off")}), FALSE)}

AllRequests == UNION {w.requests[h] : w \in Workloads, h \in Handler}

(* A step that stays within the workload. *)
Within ==
    /\ UNCHANGED workload
    /\ \A h \in Handler :
          req'[h] \notin {req[h], NoReq} => req'[h] \in workload.requests[h]
    /\ workload.dark \/ consec' = 0

MCInit == Init /\ workload \in Workloads

MCSpec == MCInit /\ [][Next /\ Within]_mcvars

(* Of AlarmServer's Fairness what the answers to commands depend on ...    *)
ControlFairness ==
    /\ CommandsStop
    /\ \A h \in Handler : WF_mcvars(Serve(h) /\ UNCHANGED workload)
    /\ WF_mcvars(Countdown /\ UNCHANGED workload)
    /\ WF_mcvars(MelodyThread /\ UNCHANGED workload)

ControlSpec == MCSpec /\ ControlFairness

(* ... and what the end of an alarm depends on.                            *)
AlarmSpec ==
    /\ MCSpec /\ CommandsStop
    /\ \A h \in Handler : WF_mcvars(Serve(h) /\ UNCHANGED workload)
    /\ WF_mcvars(Sensor /\ UNCHANGED workload)
    /\ WF_mcvars(MelodyThread /\ UNCHANGED workload)

(* CountdownLeavesSilence where it applies: only countdowns use the buzzer *)
(* (segment_thread_fn, seg_cleanup).                                       *)
CountdownsLeaveSilence == workload = Countdowns => CountdownLeavesSilence
=============================================================================
