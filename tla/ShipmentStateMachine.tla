------------------------ MODULE ShipmentStateMachine ------------------------
(***************************************************************************)
(* The pure rules of src/src/modules/shipments/shipment-state-machine.ts:  *)
(* which status may follow which, which of those moves a driver may make,  *)
(* and which of them need a driver.  An `assert...' of the source throws;  *)
(* here it is a predicate that is false exactly when the source throws.    *)
(* A definition marked `Fault' is no part of the model: it is the wrong    *)
(* version of the definition after it that a property has to catch.        *)
(***************************************************************************)

CONSTANTS
  NoDriver,   (* `driverId' absent from a body, or null in a row           *)
  EmptyId     (* the empty string, which a body may carry as `driverId'    *)

ShipmentStatus ==
  {"PENDING", "ASSIGNED", "IN_TRANSIT", "DELIVERED", "CANCELLED"}

TERMINAL_STATUSES == {"DELIVERED", "CANCELLED"}

(* The Record<status, status[]> of the source, as a relation.              *)
ALLOWED_TRANSITIONS ==
  { <<"PENDING",    "ASSIGNED">>,   <<"PENDING",    "CANCELLED">>,
    <<"ASSIGNED",   "IN_TRANSIT">>, <<"ASSIGNED",   "CANCELLED">>,
    <<"IN_TRANSIT", "DELIVERED">>,  <<"IN_TRANSIT", "CANCELLED">> }

DRIVER_ALLOWED_TRANSITIONS ==
  { <<"ASSIGNED", "IN_TRANSIT">>, <<"IN_TRANSIT", "DELIVERED">> }

(* Fault: the table of the allowed moves is not consulted.                  *)
assertValidTransition_AnyJump(from, to) ==
  /\ from # to
  /\ from \notin TERMINAL_STATUSES

assertValidTransition(from, to) ==
  /\ from # to
  /\ from \notin TERMINAL_STATUSES
  /\ <<from, to>> \in ALLOWED_TRANSITIONS

assertDriverTransition(from, to) ==
  <<from, to>> \in DRIVER_ALLOWED_TRANSITIONS

(* JavaScript's truth of an optional string, and its ?? operator.          *)
Truthy(driverId) == driverId \notin {NoDriver, EmptyId}

Coalesce(driverId, existingDriverId) ==
  IF driverId = NoDriver THEN existingDriverId ELSE driverId

(* The statuses a shipment cannot have without a driver.                   *)
NeedsDriver == {"ASSIGNED", "IN_TRANSIT", "DELIVERED"}

(* Fault: null is refused but the empty string is not.                      *)
assertTransitionContext_Nullish(to, driverId, existingDriverId) ==
  /\ to = "ASSIGNED" => driverId # NoDriver
  /\ to \in {"IN_TRANSIT", "DELIVERED"}
       => Coalesce(driverId, existingDriverId) # NoDriver

assertTransitionContext(to, driverId, existingDriverId) ==
  /\ to = "ASSIGNED" => Truthy(driverId)
  /\ to \in {"IN_TRANSIT", "DELIVERED"}
       => Truthy(Coalesce(driverId, existingDriverId))

=============================================================================
