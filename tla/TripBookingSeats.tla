-------------------------- MODULE TripBookingSeats --------------------------
(***************************************************************************)
(* The seat counter of TripBooking implements SeatPool, as long as no two  *)
(* requests are about the same rider's booking at a time, the counter may  *)
(* reach 0 and no request dies between the two updates of an accept.       *)
(***************************************************************************)
EXTENDS TripBooking

\* n[a] tokens for every a.
Slots(A, n) == {s \in A \X Party : s[2] <= n[s[1]]}

\* The seats an accepted booking has a claim to, once its accept is over...
RowNeed ==
    [r \in Riders |-> IF participant[r].status = "accepted" /\ ~BeingAccepted(r)
                      THEN participant[r].passengers ELSE 0]

\* ...and those a request carries: seats it took for a booking it has yet to
\* write, seats of a booking it cancelled and has yet to give back, or seats it
\* is going to give back beyond those of the row it is about to cancel (a
\* promotion may have shrunk the party in between).
RequestNeed ==
    [q \in Requests |->
        LET n == request[q].passengers IN
        IF request[q].at \in {"promote_book", "cancel_release"} THEN n
        ELSE IF request[q].at = "cancel_booking" /\ n > participant[request[q].rider].passengers
        THEN n - participant[request[q].rider].passengers
        ELSE 0]

Held ==
    Cardinality(Slots(Riders, RowNeed)) + Cardinality(Slots(Requests, RequestNeed))

Pool == INSTANCE SeatPool WITH free <- available_seats, held <- Held, open <- Open

\* Every statement of every handler moves seats the way SeatPool allows.
SeatsArePooled == Pool!Spec
=============================================================================
