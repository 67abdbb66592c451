------------------------------ MODULE Matching ------------------------------
(***************************************************************************)
(* The smart matching service: driver trips with a seat counter, rider     *)
(* requests, and the matches between them, which a search proposes and a   *)
(* rider or driver confirms or rejects.                                    *)
(*                                                                         *)
(* Code: src/src/routes/matching.ts and lib/matching/repository.ts.  Each  *)
(* D1 statement is atomic; a handler is a call in a slot of Calls, whose   *)
(* "at" names its next statement.  Which of the candidate trips the engine *)
(* finds good enough for a rider is left open: any of them.                *)
(***************************************************************************)
EXTENDS Integers, FiniteSets

CONSTANTS
    Trips,       \* driver trips
    Riders,      \* rider requests, for one seat each
    Calls,       \* slots for handler invocations in flight
    NoTrip,      \* matched_driver_trip_id IS NULL
    NoRider,     \* a call about no rider
    TotalSeats,  \* total_seats of each trip
    MaxSaves,    \* bound on the matches ever saved
    FaultAt,     \* the statements that may fail
    MaxFaults    \* bound on the number of failures

VARIABLES
    driver_trip,   \* driver_trips: status and available_seats
    rider_request, \* rider_requests: status and matched_driver_trip_id
    match,         \* match_results: one row per trip and rider (UNIQUE)
    call,          \* the handlers in flight
    saves,         \* how many matches were saved; a new row gets a new id
    faults         \* how many failures there were

vars == <<driver_trip, rider_request, match, call, saves, faults>>

-----------------------------------------------------------------------------
\* "offered" stands for 'active' too, "cancelled" for 'completed' and 'expired'.
DriverTrip == [status : {"offered", "cancelled"}, available_seats : 0..TotalSeats]
RiderRequest == [status : {"pending", "matched", "confirmed", "cancelled"},
                 trip   : Trips \union {NoTrip}]
\* id 0 stands for the absent row.
Match == [id : 0..MaxSaves, status : {"pending", "confirmed", "rejected"}]

ConfirmSteps == {"confirm_reserve", "confirm_match", "confirm_request", "confirm_release"}
SearchSteps == {"save_match", "batch_next", "batch_mark"}
Steps == {"idle", "reject_match"} \union ConfirmSteps \union SearchSteps

\* trip, rider and id are those of the match a call answers; found are the
\* matches a search has yet to save for its rider, and waiting the riders a
\* batch has yet to serve.
Call == [at : Steps, trip : Trips \union {NoTrip}, rider : Riders \union {NoRider},
         id : 0..MaxSaves, found : SUBSET Trips, batch : BOOLEAN, waiting : SUBSET Riders]

Idle == [at |-> "idle", trip |-> NoTrip, rider |-> NoRider, id |-> 0,
         found |-> {}, batch |-> FALSE, waiting |-> {}]

ASSUME MatchingAssumption ==
    /\ IsFiniteSet(Trips) /\ IsFiniteSet(Riders) /\ IsFiniteSet(Calls)
    /\ NoTrip \notin Trips /\ NoRider \notin Riders
    /\ TotalSeats \in Nat \ {0}
    /\ MaxSaves \in Nat /\ MaxFaults \in Nat
    /\ FaultAt \subseteq Steps \ {"idle"}

TypeOK ==
    /\ driver_trip \in [Trips -> DriverTrip]
    /\ rider_request \in [Riders -> RiderRequest]
    /\ match \in [Trips \X Riders -> Match]
    /\ call \in [Calls -> Call]
    /\ saves \in 0..MaxSaves
    /\ faults \in 0..MaxFaults

\* The rows as createDriverTrip and createRiderRequest insert them.
NewTrips == [status : {"offered"}, available_seats : 1..TotalSeats]
NewRequest == [status |-> "pending", trip |-> NoTrip]

Init ==
    /\ driver_trip \in [Trips -> NewTrips]
    /\ rider_request = [r \in Riders |-> NewRequest]
    /\ match = [m \in Trips \X Riders |-> [id |-> 0, status |-> "pending"]]
    /\ call = [c \in Calls |-> Idle]
    /\ saves = 0
    /\ faults = 0

-----------------------------------------------------------------------------
Starts(c, v) == call[c] = Idle /\ call' = [call EXCEPT ![c] = v]
At(c, step) == call[c].at = step
Goes(c, step) == call' = [call EXCEPT ![c].at = step]
Answers(c) == call' = [call EXCEPT ![c] = Idle]

Fails(c) ==
    /\ call[c].at \in FaultAt
    /\ faults < MaxFaults
    /\ faults' = faults + 1

-----------------------------------------------------------------------------
(* Searching: POST /find and POST /batch                                   *)

\* The trips the SQL pre-filter lets through.
Candidates ==
    {t \in Trips : driver_trip[t].status = "offered" /\ driver_trip[t].available_seats >= 1}

\* A rider may search whatever the status of the request.
Find(c, r) ==
    /\ \E found \in SUBSET Candidates \ {{}} :
         Starts(c, [Idle EXCEPT !.at = "save_match", !.rider = r, !.found = found])
    /\ UNCHANGED <<driver_trip, rider_request, match, saves, faults>>

\* INSERT OR REPLACE: a row of this trip and rider, confirmed or not, gives way
\* to a pending one with an id of its own.
SaveMatch(c) ==
    LET r == call[c].rider IN
    /\ At(c, "save_match")
    /\ saves < MaxSaves
    /\ saves' = saves + 1
    /\ \E t \in call[c].found :
         /\ match' = [match EXCEPT ![<<t, r>>] = [id |-> saves + 1, status |-> "pending"]]
         /\ IF call[c].found # {t}
            THEN call' = [call EXCEPT ![c].found = @ \ {t}]
            ELSE IF call[c].batch
            THEN call' = [call EXCEPT ![c].found = {}, ![c].at = "batch_mark"]
            ELSE Answers(c)
    /\ UNCHANGED <<driver_trip, rider_request, faults>>

BatchRead(c) ==
    LET pending == {r \in Riders : rider_request[r].status = "pending"} IN
    /\ pending # {}
    /\ Starts(c, [Idle EXCEPT !.at = "batch_next", !.batch = TRUE, !.waiting = pending])
    /\ UNCHANGED <<driver_trip, rider_request, match, saves, faults>>

\* Mutant: a rider without a match is marked as matched, too.
BatchNextMarksAll(c) ==
    /\ At(c, "batch_next")
    /\ \E r \in call[c].waiting, found \in SUBSET Candidates :
         call' = [call EXCEPT ![c].at = IF found = {} THEN "batch_mark" ELSE "save_match",
                              ![c].rider = r, ![c].found = found, ![c].waiting = @ \ {r}]
    /\ UNCHANGED <<driver_trip, rider_request, match, saves, faults>>

\* The next rider of those read at the start, pending or not by now.
BatchNext(c) ==
    /\ At(c, "batch_next")
    /\ \/ \E r \in call[c].waiting, found \in SUBSET Candidates :
            call' = [call EXCEPT ![c].at = IF found = {} THEN "batch_next" ELSE "save_match",
                                 ![c].rider = r, ![c].found = found, ![c].waiting = @ \ {r}]
       \/ call[c].waiting = {} /\ Answers(c)
    /\ UNCHANGED <<driver_trip, rider_request, match, saves, faults>>

\* The status is written by the id of the request alone.
BatchMark(c) ==
    /\ At(c, "batch_mark")
    /\ rider_request' = [rider_request EXCEPT ![call[c].rider].status = "matched"]
    /\ Goes(c, "batch_next")
    /\ UNCHANGED <<driver_trip, match, saves, faults>>

-----------------------------------------------------------------------------
(* POST /confirm                                                           *)

\* Rows of the trip and the request are read as well, but only for permission.
ConfirmRead(c, t, r) ==
    /\ match[<<t, r>>].id # 0 /\ match[<<t, r>>].status = "pending"
    /\ Starts(c, [Idle EXCEPT !.at = "confirm_reserve", !.trip = t, !.rider = r,
                              !.id = match[<<t, r>>].id])
    /\ UNCHANGED <<driver_trip, rider_request, match, saves, faults>>

\* Mutant: the number of rows is not looked at.
ConfirmReserveUnchecked(c) ==
    LET t == call[c].trip IN
    /\ At(c, "confirm_reserve")
    /\ driver_trip' = IF driver_trip[t].available_seats > 0
                      THEN [driver_trip EXCEPT ![t].available_seats = @ - 1] ELSE driver_trip
    /\ Goes(c, "confirm_match")
    /\ UNCHANGED <<rider_request, match, saves, faults>>

ConfirmReserve(c) ==
    LET t == call[c].trip IN
    /\ At(c, "confirm_reserve")
    /\ IF driver_trip[t].available_seats > 0
       THEN /\ driver_trip' = [driver_trip EXCEPT ![t].available_seats = @ - 1]
            /\ Goes(c, "confirm_match")
       ELSE /\ Answers(c)
            /\ UNCHANGED driver_trip
    /\ UNCHANGED <<rider_request, match, saves, faults>>

\* The row this call read, if a later search has not replaced it.
IsRow(c) == match[<<call[c].trip, call[c].rider>>].id = call[c].id
Answer(c, status) ==
    match' = IF IsRow(c) THEN [match EXCEPT ![<<call[c].trip, call[c].rider>>].status = status]
             ELSE match

\* By id, whatever the status is by now, and without looking at the row count.
ConfirmMatch(c) ==
    /\ At(c, "confirm_match")
    /\ \/ Answer(c, "confirmed") /\ Goes(c, "confirm_request") /\ UNCHANGED faults
       \/ Fails(c) /\ Goes(c, "confirm_release") /\ UNCHANGED match
    /\ UNCHANGED <<driver_trip, rider_request, saves>>

ConfirmRequest(c) ==
    /\ At(c, "confirm_request")
    /\ \/ /\ rider_request' = [rider_request EXCEPT ![call[c].rider] =
                                 [status |-> "confirmed", trip |-> call[c].trip]]
          /\ Answers(c)
          /\ UNCHANGED faults
       \/ Fails(c) /\ Goes(c, "confirm_release") /\ UNCHANGED rider_request
    /\ UNCHANGED <<driver_trip, match, saves>>

\* MIN(available_seats + 1, total_seats)
Released(n) == IF n < TotalSeats THEN n + 1 ELSE TotalSeats

\* Compensation for either of the two updates.
ConfirmRelease(c) ==
    /\ At(c, "confirm_release")
    /\ driver_trip' = [driver_trip EXCEPT ![call[c].trip].available_seats = Released(@)]
    /\ Answers(c)
    /\ UNCHANGED <<rider_request, match, saves, faults>>

-----------------------------------------------------------------------------
(* POST /reject                                                            *)

RejectRead(c, t, r) ==
    /\ match[<<t, r>>].id # 0 /\ match[<<t, r>>].status = "pending"
    /\ Starts(c, [Idle EXCEPT !.at = "reject_match", !.trip = t, !.rider = r,
                              !.id = match[<<t, r>>].id])
    /\ UNCHANGED <<driver_trip, rider_request, match, saves, faults>>

RejectMatch(c) ==
    /\ At(c, "reject_match")
    /\ Answer(c, "rejected")
    /\ Answers(c)
    /\ UNCHANGED <<driver_trip, rider_request, saves, faults>>

-----------------------------------------------------------------------------
(* PUT and DELETE /driver-trips/:id, DELETE /rider-requests/:id            *)

\* The two UPDATEs of a PUT depend on nothing it read but total_seats.
UpdateSeats(t, n) ==
    /\ driver_trip' = [driver_trip EXCEPT ![t].available_seats = n]
    /\ UNCHANGED <<rider_request, match, call, saves, faults>>

UpdateStatus(t, status) ==
    /\ driver_trip' = [driver_trip EXCEPT ![t].status = status]
    /\ UNCHANGED <<rider_request, match, call, saves, faults>>

CancelRequest(r) ==
    /\ rider_request' = [rider_request EXCEPT ![r].status = "cancelled"]
    /\ UNCHANGED <<driver_trip, match, call, saves, faults>>

\* A statement rejects where nothing catches it, or the isolate dies.
Abort(c) ==
    /\ Fails(c)
    /\ Answers(c)
    /\ UNCHANGED <<driver_trip, rider_request, match, saves>>

-----------------------------------------------------------------------------
Arrive(c) ==
    \/ \E r \in Riders : Find(c, r)
    \/ BatchRead(c)
    \/ \E t \in Trips, r \in Riders : ConfirmRead(c, t, r) \/ RejectRead(c, t, r)

Proceed(c) ==
    \/ SaveMatch(c) \/ BatchNext(c) \/ BatchMark(c)
    \/ ConfirmReserve(c) \/ ConfirmMatch(c) \/ ConfirmRequest(c) \/ ConfirmRelease(c)
    \/ RejectMatch(c)

Next ==
    \/ \E c \in Calls : Arrive(c) \/ Proceed(c) \/ Abort(c)
    \/ \E t \in Trips, n \in 0..TotalSeats : UpdateSeats(t, n)
    \/ \E t \in Trips, status \in {"offered", "cancelled"} : UpdateStatus(t, status)
    \/ \E r \in Riders : CancelRequest(r)

Spec == Init /\ [][Next]_vars

-----------------------------------------------------------------------------
(* Properties                                                              *)

\* Calls that hold a seat of t they took and have not used or given back yet.
Holding(t) ==
    {c \in Calls : call[c].trip = t /\ call[c].at \in ConfirmSteps \ {"confirm_reserve"}}
Named(t) == {r \in Riders : rider_request[r].trip = t}

RiderClaims(t) ==
    driver_trip[t].available_seats + Cardinality(Named(t)) + Cardinality(Holding(t))

\* However confirmations, rejections, searches and failures interleave, no seat is
\* made up: a rider who is told that he rides in t took one off the counter.  Only
\* the driver adds seats, by writing the number himself (matching.ts:388).
SeatsCoverRiders ==
    [][\A t \in Trips :
         RiderClaims(t)' <= RiderClaims(t) \/ \E n \in 0..TotalSeats : UpdateSeats(t, n)]_vars

\* A request is never called matched by a batch that found nothing for it: it has
\* a row to answer, whatever searches replaced since (matching.ts:931).
MatchedHasMatch ==
    \A r \in Riders :
        rider_request[r].status = "matched" => \E t \in Trips : match[<<t, r>>].id # 0
=============================================================================
