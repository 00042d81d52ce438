---------------------------- MODULE BookingState ----------------------------
(***************************************************************************)
(* The lifecycle of one booking: its statuses, the transition table of     *)
(* booking-service/src/utils/bookingState.js, and the event and the loan   *)
(* call that go with each new status.  Constant-level; the state machines  *)
(* of the other modules are built on it.                                   *)
(***************************************************************************)

Statuses == {"PENDING", "APPROVED", "REJECTED", "CANCELLED", "RETURNED"}

(* The statuses a request can ask for: one route each, none for PENDING. *)
Targets == {"APPROVED", "REJECTED", "CANCELLED", "RETURNED"}

transitions ==
  [from \in Statuses |->
     CASE from = "PENDING"  -> {"APPROVED", "REJECTED", "CANCELLED"}
       [] from = "APPROVED" -> {"RETURNED"}
       [] OTHER             -> {}]

CanTransition(from, to) == to \in transitions[from]

(* The events of the topic exchange, named after the step they announce. *)
Events == {"BOOKING_CREATED", "BOOKING_APPROVED", "BOOKING_REJECTED",
           "BOOKING_CANCELLED", "BOOKING_RETURNED"}

(* What a request that has moved a booking to a status publishes; a booking *)
(* is PENDING only when it is created.                                      *)
EventOf ==
  [status \in Statuses |->
     CASE status = "PENDING"   -> "BOOKING_CREATED"
       [] status = "APPROVED"  -> "BOOKING_APPROVED"
       [] status = "REJECTED"  -> "BOOKING_REJECTED"
       [] status = "CANCELLED" -> "BOOKING_CANCELLED"
       [] OTHER                -> "BOOKING_RETURNED"]

(* Mutant of CallsInventory: whatever ends a booking releases its item. *)
CallsInventoryAlways(to) == to \in Targets

(* The targets whose request calls inventory-service before it publishes. *)
CallsInventory(to) == to \in {"APPROVED", "RETURNED"}
=============================================================================
