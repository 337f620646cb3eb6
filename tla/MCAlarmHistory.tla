---------------------------- MODULE MCAlarmHistory ----------------------------
(* The workloads of MCAlarmServer, with the history of AlarmHistory. *)
EXTENDS AlarmHistory, MCAlarmServer

MCHistoryInit == HInit /\ workload \in Workloads

MCHistorySpec ==
    /\ MCHistoryInit
    /\ [][HNext /\ Within]_<<hvars, workload>>
    /\ ControlFairness
=============================================================================
