---------------------------- MODULE NetworkView ----------------------------
(***************************************************************************)
(* What the clients of the API are promised of one network: the states     *)
(* that GET /networks/:name and the "network_state" events report, and the *)
(* steps between them.  A network is dialled before it is connected, only  *)
(* a network that is not connected is dialled, and a network is never      *)
(* there without having been created or restored.                          *)
(***************************************************************************)
VARIABLE view     \* the state of the network, "absent", or "down"

States == {"disconnected", "connecting", "connected"}

Init == view = "down"

Start == view = "down" /\ view' \in {"absent", "disconnected", "connecting"}

Create == view = "absent" /\ view' = "disconnected"

Dial == view = "disconnected" /\ view' = "connecting"

Register == view = "connecting" /\ view' = "connected"

Lose == view \in {"connecting", "connected"} /\ view' = "disconnected"

Delete == view \in States /\ view' = "absent"

Stop == view' = "down"

Next == Start \/ Create \/ Dial \/ Register \/ Lose \/ Delete \/ Stop

Spec == Init /\ [][Next]_view
=============================================================================
