---------------------------- MODULE MCWebBridge ----------------------------
(***************************************************************************)
(* WebBridge for TLC: a page may ask for a countdown of 9, which is        *)
(* forwarded, or of 10, which is not.                                      *)
(***************************************************************************)
EXTENDS WebBridge

Payloads == {[cmd |-> "segment", value |-> v] : v \in {9, 10}}
=============================================================================
