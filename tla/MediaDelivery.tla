---------------------------- MODULE MediaDelivery ----------------------------
(***************************************************************************)
(* What the spool between coyote perception and MQTT promises of an image, *)
(* without files, queues, processes or crashes: it is offered once, handed *)
(* to the MQTT client at most once, and settled at most once; one that was *)
(* handed over is never offered again.                                     *)
(***************************************************************************)
CONSTANT Events

VARIABLES stage,   \* "new", "offered", "taken" or "settled", for each event
          handed   \* the events whose image was handed to the MQTT client

vars == <<stage, handed>>

Init == /\ stage = [e \in Events |-> "new"]
        /\ handed = {}

\* The manifest of a new event becomes visible.
Offer(e) == /\ stage[e] = "new"
            /\ stage' = [stage EXCEPT ![e] = "offered"]
            /\ UNCHANGED handed

\* A reader claims the event.
Take(e) == /\ stage[e] = "offered"
           /\ stage' = [stage EXCEPT ![e] = "taken"]
           /\ UNCHANGED handed

\* A claim that cannot be served is given back, untouched.
GiveBack(e) == /\ stage[e] = "taken" /\ e \notin handed
               /\ stage' = [stage EXCEPT ![e] = "offered"]
               /\ UNCHANGED handed

Hand(e) == /\ stage[e] = "taken" /\ e \notin handed
           /\ handed' = handed \cup {e}
           /\ UNCHANGED stage

\* The claim is closed, as published or as failed.
Settle(e) == /\ stage[e] = "taken"
             /\ stage' = [stage EXCEPT ![e] = "settled"]
             /\ UNCHANGED handed

Next == \E e \in Events : Offer(e) \/ Take(e) \/ GiveBack(e) \/ Hand(e) \/ Settle(e)

Spec == Init /\ [][Next]_vars
=============================================================================
