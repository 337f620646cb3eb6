----------------------------- MODULE StatusFeed -----------------------------
(***************************************************************************)
(* What web/server.js promises about its connection to the alarm server:   *)
(* there is never more than one attempt or connection, a lost one is       *)
(* announced and tried again after a pause, and every subscribed page has  *)
(* been told the state that held when it was last announced.               *)
(***************************************************************************)
CONSTANT Page

VARIABLES phase,    \* "trying", "up", "broken" (nobody told yet) or "waiting"
          told      \* what each page was told last: "up", "down", "nothing"

feedVars == <<phase, told>>

Announce(state) == told' = [p \in Page |-> IF told[p] = "nothing" THEN "nothing" ELSE state]

Init == phase = "trying" /\ told = [p \in Page |-> "nothing"]

Succeed == phase = "trying" /\ phase' = "up" /\ Announce("up")

Break == phase \in {"trying", "up"} /\ phase' = "broken" /\ UNCHANGED told

GiveUp == phase = "broken" /\ phase' = "waiting" /\ Announce("down")

Retry == phase = "waiting" /\ phase' = "trying" /\ UNCHANGED told

Join(p) == /\ told[p] = "nothing"
           /\ told' = [told EXCEPT ![p] = IF phase = "up" THEN "up" ELSE "down"]
           /\ UNCHANGED phase

Leave(p) == /\ told' = [told EXCEPT ![p] = "nothing"]
            /\ UNCHANGED phase

Next == \/ Succeed \/ Break \/ GiveUp \/ Retry
        \/ \E p \in Page : Join(p) \/ Leave(p)

Spec == Init /\ [][Next]_feedVars

(* A break is announced and followed by another attempt. *)
FairSpec == Spec /\ WF_feedVars(GiveUp) /\ WF_feedVars(Retry)
=============================================================================
