--------------------------- MODULE BookingMachine ---------------------------
(***************************************************************************)
(* What the booking service promises of each booking, without saying how:  *)
(* a status, and the statuses it has had (past).                           *)
(*                                                                         *)
(* StrictSpec is the promise of the documentation: a status changes only   *)
(* along the transition table.  LooseSpec is the promise that remains when *)
(* requests overlap: the table is applied to a status the booking has had, *)
(* not necessarily to the one it has now.                                  *)
(***************************************************************************)
EXTENDS BookingState

CONSTANTS Bookings, None

VARIABLES status, past

machineVars == <<status, past>>

Init ==
  /\ status = [b \in Bookings |-> None]
  /\ past = [b \in Bookings |-> {}]

Create(b) ==
  /\ status[b] = None
  /\ status' = [status EXCEPT ![b] = "PENDING"]
  /\ past' = [past EXCEPT ![b] = {"PENDING"}]

MoveTo(b, to) ==
  /\ status' = [status EXCEPT ![b] = to]
  /\ past' = [past EXCEPT ![b] = @ \cup {to}]

Move(b, to) ==
  /\ status[b] \in Statuses
  /\ CanTransition(status[b], to)
  /\ MoveTo(b, to)

MoveLate(b, to) ==
  /\ status[b] \in Statuses
  /\ \E from \in past[b] : CanTransition(from, to)
  /\ MoveTo(b, to)

StrictNext == \E b \in Bookings : Create(b) \/ \E to \in Targets : Move(b, to)

LooseNext == \E b \in Bookings : Create(b) \/ \E to \in Targets : MoveLate(b, to)

StrictSpec == Init /\ [][StrictNext]_machineVars

LooseSpec == Init /\ [][LooseNext]_machineVars
=============================================================================
