------------------------- MODULE ShipmentLifecycle --------------------------
(***************************************************************************)
(* What the README's "Shipment lifecycle" diagram promises a client: a     *)
(* shipment appears as PENDING and from then on its status moves only      *)
(* along the arrows of the diagram, so that a delivered or cancelled       *)
(* shipment stays as it is.  No requests, no database: the diagram alone.  *)
(***************************************************************************)
EXTENDS ShipmentStateMachine

CONSTANTS
  ShipmentIds,
  NoStatus      (* the status of a shipment that has not been created      *)

VARIABLE status

Init == status = [s \in ShipmentIds |-> NoStatus]

Create(s) ==
  /\ status[s] = NoStatus
  /\ status' = [status EXCEPT ![s] = "PENDING"]

Advance(s, to) ==
  /\ <<status[s], to>> \in ALLOWED_TRANSITIONS
  /\ status' = [status EXCEPT ![s] = to]

Next ==
  \E s \in ShipmentIds :
    \/ Create(s)
    \/ \E to \in ShipmentStatus : Advance(s, to)

Spec == Init /\ [][Next]_status

=============================================================================
