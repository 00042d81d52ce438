--------------------------- MODULE MCBookingLoan ----------------------------
(* Instances of BookingLoan for TLC.  Bookings bounds the bookings that    *)
(* are ever created, MaxInFlight the requests served at once.              *)
EXTENDS BookingLoan, TLC

(* Bookings are interchangeable, and so are items, requests, direct calls  *)
(* and, where nobody has a role, users.                                    *)
Symmetric ==
  Permutations(Bookings) \cup Permutations(Items) \cup Permutations(Requests)
    \cup Permutations(Users \ Staff)
=============================================================================
