--------------------------- MODULE MCTripBooking ---------------------------
(* Instances of TripBooking for TLC.                                       *)
EXTENDS TripBookingSeats, TLC

Symmetry == Permutations(Riders) \union Permutations(Requests)

\* A request may die anywhere...
AnyStep == Steps \ {"idle"}
\* ...or anywhere but between the two updates of an accept.
AnyStepButAccept == AnyStep \ {"accept_seats", "accept_undo"}
=============================================================================
