------------------------------ MODULE EventBus ------------------------------
(***************************************************************************)
(* What the client table of g_state and broadcast_msg promise together: an *)
(* event goes to clients that were registered when it was broadcast, to    *)
(* each at most once and to nobody else, and at most MaxClients are        *)
(* registered.  A delivery may fail (send timeout, peer gone), and a       *)
(* broadcaster may be cancelled half way.                                  *)
(***************************************************************************)
EXTENDS Naturals, FiniteSets

CONSTANTS Client, Caster, MaxClients

VARIABLES members,      \* registered clients
          todo          \* for each broadcaster, whom its event still has to reach

busVars == <<members, todo>>

Init == /\ members = {}
        /\ todo = [b \in Caster |-> {}]

Join(c) == /\ c \notin members /\ Cardinality(members) < MaxClients
           /\ members' = members \cup {c}
           /\ UNCHANGED todo

Leave(c) == /\ c \in members
            /\ members' = members \ {c}
            /\ UNCHANGED todo

(* A client is skipped when there is no descriptor left for its copy. *)
Publish(b) == /\ todo[b] = {}
              /\ \E s \in SUBSET members : todo' = [todo EXCEPT ![b] = s]
              /\ UNCHANGED members

Deliver(b) == /\ \E c \in todo[b] : todo' = [todo EXCEPT ![b] = @ \ {c}]
              /\ UNCHANGED members

Abandon(b) == /\ todo' = [todo EXCEPT ![b] = {}]
              /\ UNCHANGED members

Next == \/ \E c \in Client : Join(c) \/ Leave(c)
        \/ \E b \in Caster : Publish(b) \/ Deliver(b) \/ Abandon(b)

Spec == Init /\ [][Next]_busVars
=============================================================================
