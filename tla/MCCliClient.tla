---------------------------- MODULE MCCliClient ----------------------------
(***************************************************************************)
(* CliClient for TLC: every entry of the menus, wrong inputs, and lines    *)
(* too long for read_choice, one of them read as a request and a way back. *)
(***************************************************************************)
EXTENDS CliClient

TypedLines == {<<c>> : c \in -1..11} \cup {<<1, 0>>, <<3, 2>>}
=============================================================================
