-------------------------- MODULE MCBookingPayment --------------------------
(* Instances of BookingPayment for TLC.                                    *)
EXTENDS BookingPayment, TLC

Symmetry == Permutations(Requests) \union Permutations(Intents)

AnyStep == Steps \ {"idle"}
=============================================================================
