------------------------------ MODULE Gateway ------------------------------
(***************************************************************************)
(* What the publishing side of main/task_app_mqtt.c promises, whatever the *)
(* network does.  Not every reading is published: one is when it is read,  *)
(* the connection is there and the client takes it.  Of those it takes     *)
(* none is older than the one before, the broker sees nothing that was not *)
(* read, and the last one taken gets to the broker.                        *)
(***************************************************************************)
EXTENDS Integers

CONSTANT Limit    \* readings there can be

VARIABLES
  taken,      \* the last reading the sensors gave; 0: none
  accepted,   \* the last one that the client took for publication; 0: none
  received    \* the readings that the broker has

gatewayVars == <<taken, accepted, received>>

Init == taken = 0 /\ accepted = 0 /\ received = {}

Take ==
  /\ taken' = taken + 1
  /\ UNCHANGED <<accepted, received>>

Accept ==
  /\ accepted' \in accepted..taken
  /\ UNCHANGED <<taken, received>>

(* It may be one that the client kept although it did not take it, and may *)
(* come again.                                                             *)
Receive ==
  /\ \E r \in 1..taken : received' = received \cup {r}
  /\ UNCHANGED <<taken, accepted>>

Next == Take \/ Accept \/ Receive

(* The last reading accepted is received, unless a newer one is accepted.  *)
Delivery == \A r \in 1..Limit : accepted = r ~> r \in received \/ accepted # r

Spec == Init /\ [][Next]_gatewayVars /\ Delivery

=============================================================================
