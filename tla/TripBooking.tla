---------------------------- MODULE TripBooking ----------------------------
(***************************************************************************)
(* One trip of the ride-sharing backend: its seat counter, its roster of   *)
(* bookings (trip_participants) and its waitlist, and the HTTP handlers of *)
(* src/src/routes/trips.ts that change them.                               *)
(*                                                                         *)
(* Every D1 statement is atomic and nothing larger is: the handlers use no *)
(* transaction, so each await between two statements is a point where any  *)
(* other request may run.  A request in flight is a slot of Requests; its  *)
(* "at" names the statement it will execute next, and its other fields are *)
(* the local variables it read earlier and still uses.                     *)
(*                                                                         *)
(* Money (refunds, payouts) is the subject of BookingPayment; the promo    *)
(* code, points and notification statements of the same handlers touch     *)
(* none of the state below.                                                *)
(***************************************************************************)
EXTENDS Integers, FiniteSets

CONSTANTS
    Riders,              \* users who may book or wait for this trip
    Requests,            \* slots for handler invocations in flight
    NoRider,             \* the rider field of an idle slot
    TotalSeats,          \* trips.total_seats
    MaxParty,            \* largest passenger_count (4 in the schema)
    SeatFloor,           \* least value the available_seats column may hold
    SeatCap,             \* bound on the seat counter, for model checking only
    OneRequestPerRider,  \* TRUE: a booking has one request about it at a time
    AbortAt,             \* the statements at which a request may die
    MaxAborts            \* bound on the number of requests that die

VARIABLES
    trip_status,         \* trips.status
    available_seats,     \* trips.available_seats
    participant,         \* trip_participants: one row per rider (UNIQUE)
    waitlist,            \* trip_waitlist: one row per rider (UNIQUE)
    request,             \* the requests in flight
    aborts               \* how many requests have died so far

vars == <<trip_status, available_seats, participant, waitlist, request, aborts>>

-----------------------------------------------------------------------------
(* Rows and requests                                                       *)

TripStatuses == {"scheduled", "active", "completed", "cancelled"}
OpenStatuses == {"scheduled", "active"}

\* "none" stands for the absent row.
BookingStatuses ==
    {"none", "requested", "accepted", "rejected", "completed", "cancelled"}
WaitlistStatuses == {"none", "waiting", "promoted", "removed"}

Party == 1..MaxParty

\* The steps at which a request works on the booking of its own rider...
OwnSteps == {"book_insert", "accept_seats", "accept_undo", "cancel_booking",
             "cancel_release", "waitlist_check", "waitlist_insert"}
\* ...and those of the promotion that follows a reject or a cancellation.
PromoteSteps == {"promote_read", "promote_pick", "promote_take",
                 "promote_book", "promote_mark"}
TripSteps == {"trip_cancel", "trip_cancel_riders",
              "trip_complete", "trip_complete_riders"}
Steps == OwnSteps \union PromoteSteps \union TripSteps \union {"idle"}

Booking == [status : BookingStatuses, passengers : 0..MaxParty]
WaitlistRow == [status : WaitlistStatuses, passengers : 0..MaxParty, id : Nat]
\* passengers is the passenger count a request read; in a promotion that has
\* read the trip and has no candidate yet it holds the seat count it read.
Request == [at : Steps, rider : Riders \union {NoRider}, passengers : Nat]

NoBooking == [status |-> "none", passengers |-> 0]
NotWaiting == [status |-> "none", passengers |-> 0, id |-> 0]
Idle == [at |-> "idle", rider |-> NoRider, passengers |-> 0]

ASSUME SeatsAssumption ==
    /\ TotalSeats \in Nat \ {0}
    /\ MaxParty \in Nat \ {0}
    /\ SeatFloor \in {0, 1}
    /\ SeatCap \in Nat
    /\ TotalSeats <= SeatCap

ASSUME RequestsAssumption ==
    /\ IsFiniteSet(Riders)
    /\ IsFiniteSet(Requests)
    /\ NoRider \notin Riders
    /\ OneRequestPerRider \in BOOLEAN
    /\ AbortAt \subseteq Steps \ {"idle"}
    /\ MaxAborts \in Nat

TypeOK ==
    /\ trip_status \in TripStatuses
    /\ available_seats \in SeatFloor..SeatCap
    /\ participant \in [Riders -> Booking]
    /\ waitlist \in [Riders -> WaitlistRow]
    /\ request \in [Requests -> Request]
    /\ aborts \in 0..MaxAborts

Open == trip_status \in OpenStatuses

\* A new trip is scheduled; its driver may keep some of its seats back.
Init ==
    /\ trip_status = "scheduled"
    /\ available_seats \in 1..TotalSeats
    /\ participant = [r \in Riders |-> NoBooking]
    /\ waitlist = [r \in Riders |-> NotWaiting]
    /\ request = [q \in Requests |-> Idle]
    /\ aborts = 0

-----------------------------------------------------------------------------
(* Requests                                                                *)

\* No other request is about rider r, where requests are serialised by rider.
Unattended(r) ==
    OneRequestPerRider =>
        \A q \in Requests : ~(request[q].rider = r /\ request[q].at \in OwnSteps)

Arrives(q, step, r, n) ==
    /\ request[q] = Idle
    /\ request' = [request EXCEPT ![q] = [at |-> step, rider |-> r, passengers |-> n]]

Goes(q, step) == request' = [request EXCEPT ![q].at = step]
Answers(q) == request' = [request EXCEPT ![q] = Idle]
StartsPromotion(q) ==
    request' = [request EXCEPT ![q] = [Idle EXCEPT !.at = "promote_read"]]

\* A seat counter below SeatFloor is refused by the column's CHECK: the
\* statement raises.
TakeAlways(n) == TRUE                       \* mutant: no WHERE available_seats >= n
TakeAllowed(n) == available_seats >= n
Raises(n) == available_seats - n < SeatFloor

Without(n) == available_seats - n

-----------------------------------------------------------------------------
(* POST /:tripId/book                                                      *)

BookCheckAnyTrip(q, r, n) ==                \* mutant: the status is not looked at
    /\ Unattended(r)
    /\ available_seats >= n
    /\ Arrives(q, "book_insert", r, n)
    /\ UNCHANGED <<trip_status, available_seats, participant, waitlist, aborts>>

BookCheck(q, r, n) ==
    /\ Unattended(r)
    /\ trip_status = "scheduled"
    /\ available_seats >= n
    /\ Arrives(q, "book_insert", r, n)
    /\ UNCHANGED <<trip_status, available_seats, participant, waitlist, aborts>>

\* UNIQUE(trip_id, user_id): a rider who ever had a row is refused.
BookInsert(q) ==
    LET r == request[q].rider IN
    /\ request[q].at = "book_insert"
    /\ participant' = IF participant[r].status = "none"
                      THEN [participant EXCEPT ![r] =
                              [status |-> "requested", passengers |-> request[q].passengers]]
                      ELSE participant
    /\ Answers(q)
    /\ UNCHANGED <<trip_status, available_seats, waitlist, aborts>>

-----------------------------------------------------------------------------
(* POST /:tripId/bookings/:bookingId/accept                                *)

\* The handler reads the trip only for its driver: its status is not looked at.
AcceptBooking(q, r) ==
    /\ Unattended(r)
    /\ participant[r].status = "requested"
    /\ participant' = [participant EXCEPT ![r].status = "accepted"]
    /\ Arrives(q, "accept_seats", r, 0)
    /\ UNCHANGED <<trip_status, available_seats, waitlist, aborts>>

\* The seats taken are the passengers in the row when this statement runs.
AcceptSeats(q) ==
    LET n == participant[request[q].rider].passengers IN
    /\ request[q].at = "accept_seats"
    /\ \/ /\ TakeAllowed(n) /\ ~Raises(n)
          /\ available_seats' = Without(n)
          /\ Answers(q)
       \/ /\ TakeAllowed(n) /\ Raises(n)
          /\ Answers(q)
          /\ UNCHANGED available_seats
       \/ /\ ~TakeAllowed(n)
          /\ Goes(q, "accept_undo")
          /\ UNCHANGED available_seats
    /\ UNCHANGED <<trip_status, participant, waitlist, aborts>>

\* Mutants: the compensation forgets its status guard, or is forgotten.
AcceptUndoUnguarded(q) ==
    /\ request[q].at = "accept_undo"
    /\ participant' = [participant EXCEPT ![request[q].rider].status = "requested"]
    /\ Answers(q)
    /\ UNCHANGED <<trip_status, available_seats, waitlist, aborts>>

AcceptUndoForgotten(q) ==
    /\ request[q].at = "accept_undo"
    /\ Answers(q)
    /\ UNCHANGED <<trip_status, available_seats, participant, waitlist, aborts>>

\* Compensation: only a row that is still accepted goes back to requested.
AcceptUndo(q) ==
    LET r == request[q].rider IN
    /\ request[q].at = "accept_undo"
    /\ participant' = IF participant[r].status = "accepted"
                      THEN [participant EXCEPT ![r].status = "requested"]
                      ELSE participant
    /\ Answers(q)
    /\ UNCHANGED <<trip_status, available_seats, waitlist, aborts>>

-----------------------------------------------------------------------------
(* POST /:tripId/bookings/:bookingId/reject                                *)

RejectBooking(q, r) ==
    /\ Unattended(r)
    /\ request[q] = Idle
    /\ participant[r].status = "requested"
    /\ participant' = [participant EXCEPT ![r].status = "rejected"]
    /\ StartsPromotion(q)
    /\ UNCHANGED <<trip_status, available_seats, waitlist, aborts>>

-----------------------------------------------------------------------------
(* DELETE /:tripId/book                                                    *)

RiderCancelRead(q, r) ==
    /\ Unattended(r)
    /\ participant[r].status = "accepted"
    /\ trip_status # "completed"
    /\ Arrives(q, "cancel_booking", r, participant[r].passengers)
    /\ UNCHANGED <<trip_status, available_seats, participant, waitlist, aborts>>

\* The number of rows this UPDATE changed is not looked at.
RiderCancelBooking(q) ==
    LET r == request[q].rider IN
    /\ request[q].at = "cancel_booking"
    /\ participant' = IF participant[r].status = "accepted"
                      THEN [participant EXCEPT ![r].status = "cancelled"]
                      ELSE participant
    /\ Goes(q, "cancel_release")
    /\ UNCHANGED <<trip_status, available_seats, waitlist, aborts>>

RiderCancelRelease(q) ==
    /\ request[q].at = "cancel_release"
    /\ available_seats + request[q].passengers <= SeatCap
    /\ available_seats' = available_seats + request[q].passengers
    /\ StartsPromotion(q)
    /\ UNCHANGED <<trip_status, participant, waitlist, aborts>>

-----------------------------------------------------------------------------
(* promoteNextWaitlistedRider                                              *)

PromoteRead(q) ==
    /\ request[q].at = "promote_read"
    /\ IF Open /\ available_seats > 0
       THEN request' = [request EXCEPT ![q].at = "promote_pick",
                                       ![q].passengers = available_seats]
       ELSE Answers(q)
    /\ UNCHANGED <<trip_status, available_seats, participant, waitlist, aborts>>

\* The riders in line whose party fits into n seats...
Candidates(n) ==
    {r \in Riders : waitlist[r].status = "waiting" /\ waitlist[r].passengers <= n}
\* ...and the one who joined first.
IsNext(r, n) ==
    /\ r \in Candidates(n)
    /\ \A s \in Candidates(n) : waitlist[r].id <= waitlist[s].id

PromotePick(q) ==
    LET n == request[q].passengers IN
    /\ request[q].at = "promote_pick"
    /\ \/ \E r \in Riders :
            /\ IsNext(r, n)
            /\ request' = [request EXCEPT ![q] =
                 [at |-> "promote_take", rider |-> r, passengers |-> waitlist[r].passengers]]
       \/ /\ Candidates(n) = {}
          /\ Answers(q)
    /\ UNCHANGED <<trip_status, available_seats, participant, waitlist, aborts>>

\* Mutants: the row count is not looked at; the booking is not written.
PromoteTakeUnchecked(q) ==
    LET n == request[q].passengers IN
    /\ request[q].at = "promote_take"
    /\ available_seats' = IF TakeAllowed(n) THEN Without(n) ELSE available_seats
    /\ Goes(q, "promote_book")
    /\ UNCHANGED <<trip_status, participant, waitlist, aborts>>

PromoteTakeOnly(q) ==
    LET n == request[q].passengers IN
    /\ request[q].at = "promote_take"
    /\ TakeAllowed(n) /\ ~Raises(n)
    /\ available_seats' = Without(n)
    /\ Goes(q, "promote_mark")
    /\ UNCHANGED <<trip_status, participant, waitlist, aborts>>

PromoteTake(q) ==
    LET n == request[q].passengers IN
    /\ request[q].at = "promote_take"
    /\ IF TakeAllowed(n) /\ ~Raises(n)
       THEN /\ available_seats' = Without(n)
            /\ Goes(q, "promote_book")
       ELSE /\ Answers(q)
            /\ UNCHANGED available_seats
    /\ UNCHANGED <<trip_status, participant, waitlist, aborts>>

\* INSERT ... ON CONFLICT DO UPDATE: whatever the row was, it is accepted now.
PromoteBook(q) ==
    /\ request[q].at = "promote_book"
    /\ participant' = [participant EXCEPT ![request[q].rider] =
                         [status |-> "accepted", passengers |-> request[q].passengers]]
    /\ Goes(q, "promote_mark")
    /\ UNCHANGED <<trip_status, available_seats, waitlist, aborts>>

\* The row is marked by its id alone, whether or not it is still waiting.
PromoteMark(q) ==
    /\ request[q].at = "promote_mark"
    /\ waitlist' = [waitlist EXCEPT ![request[q].rider].status = "promoted"]
    /\ Answers(q)
    /\ UNCHANGED <<trip_status, available_seats, participant, aborts>>

-----------------------------------------------------------------------------
(* POST and DELETE /:tripId/waitlist                                       *)

WaitlistJoinRead(q, r, n) ==
    /\ Unattended(r)
    /\ Open
    /\ available_seats <= 0
    /\ Arrives(q, "waitlist_check", r, n)
    /\ UNCHANGED <<trip_status, available_seats, participant, waitlist, aborts>>

WaitlistJoinCheck(q) ==
    /\ request[q].at = "waitlist_check"
    /\ IF participant[request[q].rider].status \in {"requested", "accepted", "completed"}
       THEN Answers(q)
       ELSE Goes(q, "waitlist_insert")
    /\ UNCHANGED <<trip_status, available_seats, participant, waitlist, aborts>>

\* Row ids grow; UNIQUE(trip_id, user_id) refuses a rider who joined before.
NextWaitlistId == 1 + Cardinality({r \in Riders : waitlist[r].status # "none"})

\* Mutant: an upsert that puts a former entry back in line.
WaitlistJoinUpsert(q) ==
    /\ request[q].at = "waitlist_insert"
    /\ waitlist' = [waitlist EXCEPT ![request[q].rider].status = "waiting"]
    /\ Answers(q)
    /\ UNCHANGED <<trip_status, available_seats, participant, aborts>>

WaitlistJoinInsert(q) ==
    LET r == request[q].rider IN
    /\ request[q].at = "waitlist_insert"
    /\ waitlist' = IF waitlist[r].status = "none"
                   THEN [waitlist EXCEPT ![r] = [status     |-> "waiting",
                                                 passengers |-> request[q].passengers,
                                                 id         |-> NextWaitlistId]]
                   ELSE waitlist
    /\ Answers(q)
    /\ UNCHANGED <<trip_status, available_seats, participant, aborts>>

\* A single statement, so the request needs no slot.
WaitlistLeave(r) ==
    /\ waitlist[r].status = "waiting"
    /\ waitlist' = [waitlist EXCEPT ![r].status = "removed"]
    /\ UNCHANGED <<trip_status, available_seats, participant, request, aborts>>

-----------------------------------------------------------------------------
(* POST /:tripId/cancel                                                    *)

TripCancelRead(q) ==
    /\ trip_status \notin {"cancelled", "completed"}
    /\ Arrives(q, "trip_cancel", NoRider, 0)
    /\ UNCHANGED <<trip_status, available_seats, participant, waitlist, aborts>>

TripCancel(q) ==
    /\ request[q].at = "trip_cancel"
    /\ IF Open
       THEN /\ trip_status' = "cancelled"
            /\ Goes(q, "trip_cancel_riders")
       ELSE /\ Answers(q)
            /\ UNCHANGED trip_status
    /\ UNCHANGED <<available_seats, participant, waitlist, aborts>>

Ends(from, to) ==
    [r \in Riders |-> IF participant[r].status \in from
                      THEN [participant[r] EXCEPT !.status = to]
                      ELSE participant[r]]

TripCancelRiders(q) ==
    /\ request[q].at = "trip_cancel_riders"
    /\ participant' = Ends({"requested", "accepted"}, "cancelled")
    /\ Answers(q)
    /\ UNCHANGED <<trip_status, available_seats, waitlist, aborts>>

-----------------------------------------------------------------------------
(* POST /:tripId/complete                                                  *)

TripCompleteRead(q) ==
    /\ trip_status \notin {"cancelled", "completed"}
    /\ Arrives(q, "trip_complete", NoRider, 0)
    /\ UNCHANGED <<trip_status, available_seats, participant, waitlist, aborts>>

\* Mutant: the row count is not looked at.
TripCompleteUnchecked(q) ==
    /\ request[q].at = "trip_complete"
    /\ trip_status' = IF Open THEN "completed" ELSE trip_status
    /\ Goes(q, "trip_complete_riders")
    /\ UNCHANGED <<available_seats, participant, waitlist, aborts>>

TripComplete(q) ==
    /\ request[q].at = "trip_complete"
    /\ IF Open
       THEN /\ trip_status' = "completed"
            /\ Goes(q, "trip_complete_riders")
       ELSE /\ Answers(q)
            /\ UNCHANGED trip_status
    /\ UNCHANGED <<available_seats, participant, waitlist, aborts>>

TripCompleteRiders(q) ==
    /\ request[q].at = "trip_complete_riders"
    /\ participant' = Ends({"accepted"}, "completed")
    /\ Answers(q)
    /\ UNCHANGED <<trip_status, available_seats, waitlist, aborts>>

-----------------------------------------------------------------------------
(* Failure: a statement or an external call rejects, or the isolate is     *)
(* killed.  The handler's catch answers 500; what was done stays done.     *)

Abort(q) ==
    /\ request[q].at \in AbortAt
    /\ aborts < MaxAborts
    /\ aborts' = aborts + 1
    /\ Answers(q)
    /\ UNCHANGED <<trip_status, available_seats, participant, waitlist>>

-----------------------------------------------------------------------------
Arrive(q) ==
    \/ \E r \in Riders, n \in Party :
         BookCheck(q, r, n) \/ WaitlistJoinRead(q, r, n)
    \/ \E r \in Riders :
         AcceptBooking(q, r) \/ RejectBooking(q, r) \/ RiderCancelRead(q, r)
    \/ TripCancelRead(q)
    \/ TripCompleteRead(q)

Proceed(q) ==
    \/ BookInsert(q)
    \/ AcceptSeats(q) \/ AcceptUndo(q)
    \/ RiderCancelBooking(q) \/ RiderCancelRelease(q)
    \/ PromoteRead(q) \/ PromotePick(q) \/ PromoteTake(q)
    \/ PromoteBook(q) \/ PromoteMark(q)
    \/ WaitlistJoinCheck(q) \/ WaitlistJoinInsert(q)
    \/ TripCancel(q) \/ TripCancelRiders(q)
    \/ TripComplete(q) \/ TripCompleteRiders(q)

Next ==
    \/ \E q \in Requests : Arrive(q) \/ Proceed(q) \/ Abort(q)
    \/ \E r \in Riders : WaitlistLeave(r)

Spec == Init /\ [][Next]_vars
-----------------------------------------------------------------------------
(* Properties                                                              *)

\* An accept is between its two updates: r is accepted, his seats not yet taken.
BeingAccepted(r) ==
    \E q \in Requests :
        request[q].rider = r /\ request[q].at \in {"accept_seats", "accept_undo"}

\* The seats of the accepted bookings whose accept is over.
SeatedPassengers ==
    {s \in Riders \X Party :
        /\ participant[s[1]].status = "accepted"
        /\ ~BeingAccepted(s[1])
        /\ s[2] <= participant[s[1]].passengers}

\* While the trip is open, the seats on offer and the seats of the accepted
\* bookings never exceed the car, whatever promotions, accepts, rejects and
\* cancellations of different riders interleave (the guarded UPDATE of
\* trips.ts:400 and :402, the unguarded release of :984).
NoOverbooking ==
    Open => available_seats + Cardinality(SeatedPassengers) <= TotalSeats

\* The riders with a booking that is not over, and the requests that are past the
\* check of the trip and may still make another.
OnRoster == {r \in Riders : participant[r].status \in {"requested", "accepted"}}
Entering ==
    {q \in Requests :
        request[q].at \in {"book_insert", "promote_pick", "promote_take", "promote_book"}}

\* Once the driver's cancel or complete has won, the other one, however far its own
\* read of the status had gone, never takes the trip away again; and a rider comes onto
\* the roster only by one of the bookings and promotions that were on their way when
\* the trip closed, each of them good for one rider (trips.ts:383, :785).
TripSettledOnce ==
    [][~Open =>
         /\ trip_status' = trip_status
         /\ Entering' \subseteq Entering
         /\ \A r \in OnRoster' \ OnRoster :
              \E q \in Entering \ Entering' : request[q].rider = r]_vars

\* A booking that left the roster comes back only by way of the waitlist:
\* neither the compensation of a failed accept nor a late statement of a book,
\* accept or reject revives a cancelled, rejected or completed row.
RevivedOnlyByPromotion ==
    [][\A r \in Riders :
         participant[r].status \in {"cancelled", "rejected", "completed"} =>
            \/ participant'[r].status = participant[r].status
            \/ /\ participant'[r].status = "accepted"
               /\ waitlist[r].status # "none"
               /\ participant'[r].passengers = waitlist[r].passengers]_vars

\* A rider is told "promoted" only after the roster has a booking for him, even
\* if the promotion dies on the way: a crash may promote twice, never zero times.
PromotedHasBooking ==
    \A r \in Riders :
        waitlist[r].status = "promoted" => participant[r].status # "none"

\* Only a completed trip has completed bookings, and none of them is brought
\* there by a complete request that lost against a cancel.
CompletedRidersRode ==
    \A r \in Riders :
        participant[r].status = "completed" => trip_status = "completed"

\* A waitlist entry that is given up or served is never waiting again.
LeftTheLine ==
    [][\A r \in Riders :
         waitlist[r].status \in {"promoted", "removed"} =>
            waitlist'[r].status \in {"promoted", "removed"}]_vars
\* What tests/integration/security-hardening.test.ts:687 says of an accept whose
\* seat decrement fails: the booking does not stay accepted.  A decrement that
\* is refused by the column's CHECK fails without a compensation.
FailedAcceptRollsBack ==
    [][\A q \in Requests :
         (/\ request[q].at = "accept_seats"
          /\ request'[q].at = "idle"
          /\ available_seats' = available_seats)
            => participant'[request[q].rider].status # "accepted"]_vars
=============================================================================
