---------------------------- MODULE MCFrameStream ----------------------------
(* The connections of the system that the configurations give to FrameStream. *)
EXTENDS FrameStream

Connection(writers, impatient, mortal, bridge) ==
    [writers |-> writers, impatient |-> impatient, mortal |-> mortal, bridge |-> bridge]

(* The CLI client to the server; the server to the bridge while no event   *)
(* is broadcast and no send times out.                                     *)
CliToServer    == Connection({"cli"}, {}, TRUE, FALSE)
ServerToBridge == Connection({"handler"}, {}, TRUE, TRUE)

(* The server to a slow client: responses and events, each with timeouts.  *)
ServerToSlowCli    == Connection({"handler", "sensor"}, {"handler", "sensor"}, FALSE, FALSE)
ServerToSlowBridge == Connection({"handler", "sensor"}, {"handler", "sensor"}, FALSE, TRUE)

AllConnections == {CliToServer, ServerToBridge, ServerToSlowCli, ServerToSlowBridge}
SlowConnection == {ServerToSlowCli}
=============================================================================
