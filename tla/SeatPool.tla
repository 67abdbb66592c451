------------------------------ MODULE SeatPool ------------------------------
(***************************************************************************)
(* What the seat counter of a trip promises: a pool of seats from which    *)
(* bookings reserve and to which they return, in which a seat may be lost  *)
(* (a handler that dies between taking and using it) but never made up.    *)
(* The promise ends with the trip: once it is closed the counter is only   *)
(* history.                                                                *)
(***************************************************************************)
EXTENDS Naturals

CONSTANT TotalSeats

VARIABLES
    free,   \* seats on offer
    held,   \* seats some booking, or a request on behalf of one, has a claim to
    open    \* the trip still takes and releases bookings

vars == <<free, held, open>>

Init == open = TRUE /\ free \in 1..TotalSeats /\ held = 0

Reserve == \E n \in 1..free : free' = free - n /\ held' = held + n
Return  == \E n \in 1..held : free' = free + n /\ held' = held - n
Lose    == \E n \in 1..held : held' = held - n /\ free' = free

Trade == open /\ open' = open /\ (Reserve \/ Return \/ Lose)
Close == open /\ open' = FALSE /\ UNCHANGED <<free, held>>
Closed == ~open /\ open' = FALSE /\ free' \in Nat /\ held' \in Nat

Next == Trade \/ Close \/ Closed

Spec == Init /\ [][Next]_vars

\* Seats are not made up: what is on offer and what is claimed fit the car.
Fits == open => free + held <= TotalSeats
=============================================================================
