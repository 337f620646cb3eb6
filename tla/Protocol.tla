------------------------------ MODULE Protocol ------------------------------
(***************************************************************************)
(* The 4-byte messages (include/protocol.h, web/protocol.js): what the two *)
(* clients can say, what the server understands, and how the bridge cuts a *)
(* byte stream into messages.  Codes are represented by their names.       *)
(***************************************************************************)
EXTENDS Integers, Sequences

Msg(type, device, action, value) ==
    [type |-> type, device |-> device, action |-> action, value |-> value]

(* What handle_client does not answer with RESP_ERR at once: the tests of  *)
(* handle_command, handle_query and the handlers they call.                *)
Understood(m) ==
    \/ /\ m.type = "CMD"
       /\ \/ m.device = "LED"     /\ m.action \in {"ON", "OFF"}
          \/ m.device = "LED"     /\ m.action = "SET_BRIGHTNESS" /\ m.value \in 1..3
          \/ m.device = "BUZZER"  /\ m.action \in {"ON", "OFF", "PLAY_MELODY"}
          \/ m.device = "SEGMENT" /\ m.action = "OFF"
          \/ m.device = "SEGMENT" /\ m.action = "SET_NUMBER" /\ m.value \in 1..9
          \/ m.device = "SYSTEM"  /\ m.action = "ALARM_OFF"
    \/ /\ m.type = "QUERY"
       /\ \/ m.device = "SENSOR" /\ m.action = "GET_LUX"
          \/ m.device \in {"SENSOR", "LED", "BUZZER"} /\ m.action = "GET_STATUS"
-----------------------------------------------------------------------------
(* web/protocol.js *)

FIXED_COMMANDS ==
    [led_on        |-> Msg("CMD", "LED", "ON", 0),
     led_off       |-> Msg("CMD", "LED", "OFF", 0),
     led_low       |-> Msg("CMD", "LED", "SET_BRIGHTNESS", 1),
     led_mid       |-> Msg("CMD", "LED", "SET_BRIGHTNESS", 2),
     led_high      |-> Msg("CMD", "LED", "SET_BRIGHTNESS", 3),
     buzzer_on     |-> Msg("CMD", "BUZZER", "ON", 0),
     buzzer_off    |-> Msg("CMD", "BUZZER", "OFF", 0),
     buzzer_melody |-> Msg("CMD", "BUZZER", "PLAY_MELODY", 0),
     query_led     |-> Msg("QUERY", "LED", "GET_STATUS", 0),
     query_buzzer  |-> Msg("QUERY", "BUZZER", "GET_STATUS", 0),
     query_sensor  |-> Msg("QUERY", "SENSOR", "GET_STATUS", 0),
     query_lux     |-> Msg("QUERY", "SENSOR", "GET_LUX", 0),
     segment_stop  |-> Msg("CMD", "SEGMENT", "OFF", 0)]

(* Mutant: the upper limit of a countdown is not tested. *)
SupportedPast(payload) ==
    IF payload.cmd = "segment" THEN payload.value >= 1
                               ELSE payload.cmd \in DOMAIN FIXED_COMMANDS

(* commandMessage throws for everything else. *)
Supported(payload) ==
    IF payload.cmd = "segment" THEN payload.value \in 1..9
                               ELSE payload.cmd \in DOMAIN FIXED_COMMANDS

commandMessage(payload) ==
    IF payload.cmd = "segment" THEN Msg("CMD", "SEGMENT", "SET_NUMBER", payload.value)
                               ELSE FIXED_COMMANDS[payload.cmd]

(* Mutant: the incomplete tail is dropped. *)
DecodeDropsTail(size, buffer) ==
    LET n == Len(buffer) \div size
    IN  [messages  |-> [j \in 1..n |-> SubSeq(buffer, size * (j - 1) + 1, size * j)],
         remaining |-> <<>>]

(* The whole messages in a buffer, and what is left. *)
decodeFrames(size, buffer) ==
    LET n == Len(buffer) \div size
    IN  [messages  |-> [j \in 1..n |-> SubSeq(buffer, size * (j - 1) + 1, size * j)],
         remaining |-> SubSeq(buffer, size * n + 1, Len(buffer))]
=============================================================================
