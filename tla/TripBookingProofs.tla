------------------------- MODULE TripBookingProofs -------------------------
(***************************************************************************)
(* Theorems about TripBooking, for every set of riders, every number of    *)
(* requests in flight, every car and every interleaving; and, where a      *)
(* booking has one request at a time, that its seat counter implements     *)
(* SeatPool, so that no trip is overbooked.                                *)
(***************************************************************************)
EXTENDS TripBookingSeats, FiniteSetTheorems, TLAPS

-----------------------------------------------------------------------------
(* Type correctness                                                        *)

\* The local variables of a request, where it still uses them.
RequestOK ==
    \A q \in Requests :
        /\ request[q].at \in OwnSteps \union {"promote_take", "promote_book", "promote_mark"}
             => request[q].rider \in Riders
        /\ request[q].at \in {"book_insert", "cancel_booking", "cancel_release",
                              "waitlist_check", "waitlist_insert",
                              "promote_take", "promote_book"}
             => request[q].passengers \in Party
        /\ request[q].at \in {"promote_take", "promote_book", "promote_mark"}
             => waitlist[request[q].rider].status # "none"

\* Every row that exists is for at least one passenger.
RowsOK ==
    \A r \in Riders :
        /\ participant[r].status # "none" => participant[r].passengers \in Party
        /\ waitlist[r].status # "none" => waitlist[r].passengers \in Party

Wellformed == TypeOK /\ RequestOK /\ RowsOK

\* A new trip, with an empty roster and no request, is well formed.
LEMMA WellformedInit == Init => Wellformed
  BY SeatsAssumption, RequestsAssumption
     DEF Init, Wellformed, TypeOK, RequestOK, RowsOK, TripStatuses, Booking, NoBooking,
         BookingStatuses, WaitlistRow, WaitlistStatuses, NotWaiting, Request, Idle,
         Steps, OwnSteps, Party

\* The id of a new waitlist row is a number, since there are finitely many rows.
LEMMA NextIdIsNat == NextWaitlistId \in Nat
  BY RequestsAssumption, FS_Subset, FS_CardinalityType DEF NextWaitlistId

\* Starting any handler (trips.ts:673, 903, 1048, 1351, 1526, 1656, 1874) keeps the
\* rows and the locals of the requests well formed.
LEMMA WellformedArrive ==
    ASSUME Wellformed, NEW q \in Requests, Arrive(q) PROVE Wellformed'
  <1> USE SeatsAssumption, RequestsAssumption
          DEF Wellformed, TypeOK, RequestOK, RowsOK, TripStatuses, Booking,
              BookingStatuses, WaitlistRow, WaitlistStatuses, Request, Idle, Party,
              Steps, OwnSteps, PromoteSteps, TripSteps, Arrives, StartsPromotion
  <1>1. ASSUME NEW r \in Riders, NEW n \in Party, BookCheck(q, r, n) PROVE Wellformed'
    BY <1>1 DEF BookCheck
  <1>2. ASSUME NEW r \in Riders, NEW n \in Party, WaitlistJoinRead(q, r, n) PROVE Wellformed'
    BY <1>2 DEF WaitlistJoinRead
  <1>3. ASSUME NEW r \in Riders, AcceptBooking(q, r) PROVE Wellformed'
    BY <1>3 DEF AcceptBooking
  <1>4. ASSUME NEW r \in Riders, RejectBooking(q, r) PROVE Wellformed'
    BY <1>4 DEF RejectBooking
  <1>5. ASSUME NEW r \in Riders, RiderCancelRead(q, r) PROVE Wellformed'
    BY <1>5 DEF RiderCancelRead
  <1>6. CASE TripCancelRead(q)
    BY <1>6 DEF TripCancelRead
  <1>7. CASE TripCompleteRead(q)
    BY <1>7 DEF TripCompleteRead
  <1>8. QED
    BY <1>1, <1>2, <1>3, <1>4, <1>5, <1>6, <1>7 DEF Arrive

\* Every later statement of a handler does, too; above all the guarded decrements keep the
\* seat counter at its floor or above (its upper end is the bound SeatCap).
LEMMA WellformedProceed ==
    ASSUME Wellformed, NEW q \in Requests, Proceed(q) PROVE Wellformed'
  <1> USE SeatsAssumption, RequestsAssumption
          DEF Wellformed, TypeOK, RequestOK, RowsOK, TripStatuses, Booking,
              BookingStatuses, WaitlistRow, WaitlistStatuses, Request, Idle, Party,
              Steps, OwnSteps, PromoteSteps, TripSteps, Answers, Goes, StartsPromotion
  <1>1. CASE BookInsert(q)
    BY <1>1 DEF BookInsert
  <1>2. CASE AcceptSeats(q)
    <2> DEFINE n == participant[request[q].rider].passengers
    <2>1. request[q].rider \in Riders /\ n \in 0..MaxParty
      BY <1>2 DEF AcceptSeats
    <2>2. available_seats' \in SeatFloor..SeatCap
      BY <1>2, <2>1 DEF AcceptSeats, TakeAllowed, Raises, Without
    <2>3. \/ request' = [request EXCEPT ![q] = Idle]
          \/ request' = [request EXCEPT ![q].at = "accept_undo"]
      BY <1>2 DEF AcceptSeats
    <2>4. request' \in [Requests -> Request]
      BY <2>3
    <2>5. TypeOK'
      BY <1>2, <2>2, <2>4 DEF AcceptSeats
    <2>6. RequestOK'
      BY <1>2, <2>1, <2>3 DEF AcceptSeats
    <2>7. RowsOK'
      BY <1>2 DEF AcceptSeats
    <2>8. QED
      BY <2>5, <2>6, <2>7
  <1>3. CASE AcceptUndo(q)
    BY <1>3 DEF AcceptUndo
  <1>4. CASE RiderCancelBooking(q)
    BY <1>4 DEF RiderCancelBooking
  <1>5. CASE RiderCancelRelease(q)
    BY <1>5 DEF RiderCancelRelease
  <1>6. CASE PromoteRead(q)
    <2>1. CASE Open /\ available_seats > 0
      <3>1. /\ request' = [request EXCEPT ![q].at = "promote_pick",
                                             ![q].passengers = available_seats]
            /\ UNCHANGED <<trip_status, available_seats, participant, waitlist, aborts>>
        BY <1>6, <2>1 DEF PromoteRead
      <3>2. TypeOK'
        <4>1. available_seats \in Nat /\ request[q] \in Request
          OBVIOUS
        <4>2. [request[q] EXCEPT !.at = "promote_pick", !.passengers = available_seats]
                \in Request
          BY <4>1
        <4>3. request' \in [Requests -> Request]
          BY <3>1, <4>2
        <4>4. QED
          BY <3>1, <4>3
      <3>3. RequestOK'
        BY <3>1
      <3>4. RowsOK'
        BY <3>1
      <3>5. QED
        BY <3>2, <3>3, <3>4
    <2>2. CASE ~(Open /\ available_seats > 0)
      <3>1. /\ request' = [request EXCEPT ![q] = Idle]
            /\ UNCHANGED <<trip_status, available_seats, participant, waitlist, aborts>>
        BY <1>6, <2>2 DEF PromoteRead
      <3>2. TypeOK'
        BY <3>1
      <3>3. RequestOK'
        BY <3>1
      <3>4. RowsOK'
        BY <3>1
      <3>5. QED
        BY <3>2, <3>3, <3>4
    <2>3. QED
      BY <2>1, <2>2
  <1>7. CASE PromotePick(q)
    <2>1. TypeOK'
      BY <1>7 DEF PromotePick, IsNext, Candidates
    <2>2. RequestOK'
      BY <1>7 DEF PromotePick, IsNext, Candidates
    <2>3. RowsOK'
      BY <1>7 DEF PromotePick, IsNext, Candidates
    <2>4. QED
      BY <2>1, <2>2, <2>3
  <1>8. CASE PromoteTake(q)
    <2>1. TypeOK'
      BY <1>8, SMTT(60) DEF PromoteTake, TakeAllowed, Raises, Without
    <2>2. RequestOK'
      BY <1>8 DEF PromoteTake, TakeAllowed, Raises, Without
    <2>3. RowsOK'
      BY <1>8 DEF PromoteTake, TakeAllowed, Raises, Without
    <2>4. QED
      BY <2>1, <2>2, <2>3
  <1>9. CASE PromoteBook(q)
    BY <1>9 DEF PromoteBook
  <1>10. CASE PromoteMark(q)
    <2>1. TypeOK'
      BY <1>10 DEF PromoteMark
    <2>2. RequestOK'
      BY <1>10 DEF PromoteMark
    <2>3. RowsOK'
      BY <1>10 DEF PromoteMark
    <2>4. QED
      BY <2>1, <2>2, <2>3
  <1>11. CASE WaitlistJoinCheck(q)
    <2>1. TypeOK'
      BY <1>11 DEF WaitlistJoinCheck
    <2>2. RequestOK'
      BY <1>11 DEF WaitlistJoinCheck
    <2>3. RowsOK'
      BY <1>11 DEF WaitlistJoinCheck
    <2>4. QED
      BY <2>1, <2>2, <2>3
  <1>12. CASE WaitlistJoinInsert(q)
    BY <1>12, NextIdIsNat DEF WaitlistJoinInsert
  <1>13. CASE TripCancel(q)
    <2>1. CASE Open
      <3>1. /\ request[q].at # "idle"
            /\ request' = [request EXCEPT ![q].at = "trip_cancel_riders"]
            /\ trip_status' = "cancelled"
            /\ UNCHANGED <<available_seats, participant, waitlist, aborts>>
        BY <1>13, <2>1 DEF TripCancel
      <3>2. TypeOK'
        BY <3>1
      <3>3. RequestOK'
        BY <3>1
      <3>4. RowsOK'
        BY <3>1
      <3>5. QED
        BY <3>2, <3>3, <3>4
    <2>2. CASE ~Open
      <3>1. /\ request' = [request EXCEPT ![q] = Idle]
            /\ UNCHANGED <<trip_status, available_seats, participant, waitlist, aborts>>
        BY <1>13, <2>2 DEF TripCancel
      <3>2. TypeOK'
        BY <3>1
      <3>3. RequestOK'
        BY <3>1
      <3>4. RowsOK'
        BY <3>1
      <3>5. QED
        BY <3>2, <3>3, <3>4
    <2>3. QED
      BY <2>1, <2>2
  <1>14. CASE TripCancelRiders(q)
    BY <1>14 DEF TripCancelRiders, Ends
  <1>15. CASE TripComplete(q)
    <2>1. CASE Open
      <3>1. /\ request[q].at # "idle"
            /\ request' = [request EXCEPT ![q].at = "trip_complete_riders"]
            /\ trip_status' = "completed"
            /\ UNCHANGED <<available_seats, participant, waitlist, aborts>>
        BY <1>15, <2>1 DEF TripComplete
      <3>2. TypeOK'
        BY <3>1
      <3>3. RequestOK'
        BY <3>1
      <3>4. RowsOK'
        BY <3>1
      <3>5. QED
        BY <3>2, <3>3, <3>4
    <2>2. CASE ~Open
      <3>1. /\ request' = [request EXCEPT ![q] = Idle]
            /\ UNCHANGED <<trip_status, available_seats, participant, waitlist, aborts>>
        BY <1>15, <2>2 DEF TripComplete
      <3>2. TypeOK'
        BY <3>1
      <3>3. RequestOK'
        BY <3>1
      <3>4. RowsOK'
        BY <3>1
      <3>5. QED
        BY <3>2, <3>3, <3>4
    <2>3. QED
      BY <2>1, <2>2
  <1>16. CASE TripCompleteRiders(q)
    BY <1>16 DEF TripCompleteRiders, Ends
  <1>17. QED
    BY <1>1, <1>2, <1>3, <1>4, <1>5, <1>6, <1>7, <1>8, <1>9, <1>10, <1>11, <1>12, <1>13, <1>14, <1>15, <1>16 DEF Proceed

\* So does every step, crashes included.
LEMMA WellformedStep == Wellformed /\ [Next]_vars => Wellformed'
  <1> SUFFICES ASSUME Wellformed, [Next]_vars PROVE Wellformed'
    OBVIOUS
  <1>1. ASSUME NEW q \in Requests, Abort(q) PROVE Wellformed'
    BY <1>1, RequestsAssumption
       DEF Abort, Answers, Wellformed, TypeOK, RequestOK, RowsOK, Request, Idle, Steps, OwnSteps
  <1>2. ASSUME NEW r \in Riders, WaitlistLeave(r) PROVE Wellformed'
    BY <1>2 DEF WaitlistLeave, Wellformed, TypeOK, RequestOK, RowsOK, WaitlistRow, WaitlistStatuses
  <1>3. CASE UNCHANGED vars
    BY <1>3 DEF vars, Wellformed, TypeOK, RequestOK, RowsOK
  <1>4. QED
    BY <1>1, <1>2, <1>3, WellformedArrive, WellformedProceed DEF Next

\* Every reachable state is well formed, for every set of riders and of requests.
THEOREM AlwaysWellformed == Spec => []Wellformed
  BY WellformedInit, WellformedStep, PTL DEF Spec

\* The counter never leaves the range the column and the bound allow, and every
\* row and request keeps its shape.
THEOREM TypeCorrect == Spec => []TypeOK
  BY AlwaysWellformed, PTL DEF Wellformed

-----------------------------------------------------------------------------
(* The history of rows                                                     *)

\* What no statement does to a row or to the trip.
StepOK ==
    /\ ~Open => trip_status' = trip_status
    /\ \A r \in Riders :
        /\ participant[r].status # "none" => participant'[r].status # "none"
        /\ waitlist[r].status # "none" => waitlist'[r].passengers = waitlist[r].passengers
        /\ waitlist[r].status \in {"promoted", "removed"}
             => waitlist'[r].status \in {"promoted", "removed"}

\* No statement of a handler deletes a row, reopens a trip, changes the party of a
\* waitlist row or puts a served entry back in line.
LEMMA StepsAreOK == Wellformed /\ [Next]_vars => StepOK
  <1> SUFFICES ASSUME Wellformed, [Next]_vars PROVE StepOK
    OBVIOUS
  <1> USE DEF Wellformed, TypeOK, RequestOK, StepOK, OwnSteps
  <1>1. ASSUME NEW q \in Requests, Arrive(q) PROVE StepOK
    BY <1>1 DEF Arrive, BookCheck, WaitlistJoinRead, AcceptBooking, RejectBooking,
                RiderCancelRead, TripCancelRead, TripCompleteRead, Booking
  <1>2. ASSUME NEW q \in Requests, Proceed(q) PROVE StepOK
    <2>1. CASE BookInsert(q)
      BY <2>1 DEF BookInsert, Booking
    <2>2. CASE AcceptSeats(q)
      BY <2>2 DEF AcceptSeats
    <2>3. CASE AcceptUndo(q)
      BY <2>3 DEF AcceptUndo, Booking
    <2>4. CASE RiderCancelBooking(q) \/ RiderCancelRelease(q)
      BY <2>4 DEF RiderCancelBooking, RiderCancelRelease, Booking
    <2>5. CASE PromoteRead(q) \/ PromotePick(q) \/ PromoteTake(q)
      BY <2>5 DEF PromoteRead, PromotePick, PromoteTake
    <2>6. CASE PromoteBook(q)
      BY <2>6 DEF PromoteBook, Booking
    <2>7. CASE PromoteMark(q)
      BY <2>7 DEF PromoteMark, WaitlistRow
    <2>8. CASE WaitlistJoinCheck(q) \/ WaitlistJoinInsert(q)
      BY <2>8, NextIdIsNat DEF WaitlistJoinCheck, WaitlistJoinInsert, WaitlistRow
    <2>9. CASE TripCancel(q) \/ TripComplete(q)
      BY <2>9 DEF TripCancel, TripComplete
    <2>10. CASE TripCancelRiders(q) \/ TripCompleteRiders(q)
      BY <2>10 DEF TripCancelRiders, TripCompleteRiders, Ends, Booking
    <2>11. QED
      BY <1>2, <2>1, <2>2, <2>3, <2>4, <2>5, <2>6, <2>7, <2>8, <2>9, <2>10 DEF Proceed
  <1>3. ASSUME NEW q \in Requests, Abort(q) PROVE StepOK
    BY <1>3 DEF Abort
  <1>4. ASSUME NEW r \in Riders, WaitlistLeave(r) PROVE StepOK
    BY <1>4 DEF WaitlistLeave, WaitlistRow
  <1>5. CASE UNCHANGED vars
    BY <1>5 DEF vars
  <1>6. QED
    BY <1>1, <1>2, <1>3, <1>4, <1>5 DEF Next

\* On a closed trip a request that has still to enter was entering before.
LEMMA NobodyEnters ==
    ASSUME Wellformed, [Next]_vars, ~Open
    PROVE  Entering' \subseteq Entering
  <1> SUFFICES ASSUME NEW p \in Entering', p \notin Entering PROVE FALSE
    OBVIOUS
  <1> USE DEF Wellformed, TypeOK, Entering, Request, Idle
  <1>1. CASE \E q \in Requests : Arrive(q)
    BY <1>1 DEF Arrive, BookCheck, WaitlistJoinRead, AcceptBooking, RejectBooking, Arrives,
       RiderCancelRead, TripCancelRead, TripCompleteRead, StartsPromotion, Open, OpenStatuses
  <1>2. ASSUME NEW q \in Requests, Proceed(q) PROVE FALSE
    <2> USE DEF Answers, Goes, StartsPromotion
    <2>1. CASE BookInsert(q) \/ AcceptSeats(q) \/ AcceptUndo(q)
      BY <2>1 DEF BookInsert, AcceptSeats, AcceptUndo
    <2>2. CASE RiderCancelBooking(q) \/ RiderCancelRelease(q) \/ PromoteRead(q)
      BY <2>2 DEF RiderCancelBooking, RiderCancelRelease, PromoteRead
    <2>3. CASE PromotePick(q) \/ PromoteTake(q) \/ PromoteBook(q) \/ PromoteMark(q)
      BY <2>3 DEF PromotePick, PromoteTake, PromoteBook, PromoteMark
    <2>4. CASE WaitlistJoinCheck(q) \/ WaitlistJoinInsert(q)
      BY <2>4 DEF WaitlistJoinCheck, WaitlistJoinInsert
    <2>5. CASE TripCancel(q) \/ TripCancelRiders(q) \/ TripComplete(q) \/ TripCompleteRiders(q)
      BY <2>5 DEF TripCancel, TripCancelRiders, TripComplete, TripCompleteRiders
    <2>6. QED
      BY <1>2, <2>1, <2>2, <2>3, <2>4, <2>5 DEF Proceed
  <1>3. ASSUME NEW q \in Requests, Abort(q) PROVE FALSE
    BY <1>3 DEF Abort, Answers
  <1>4. CASE request' = request
    BY <1>4
  <1>5. QED
    BY <1>1, <1>2, <1>3, <1>4 DEF Next, vars, WaitlistLeave

\* A rider comes onto the roster by a statement that ends the way of its request.
LEMMA EntryIsSpent ==
    ASSUME Wellformed, [Next]_vars, NEW r \in OnRoster' \ OnRoster
    PROVE  \E q \in Entering \ Entering' : request[q].rider = r
  <1> DEFINE Goal == \E q \in Entering \ Entering' : request[q].rider = r
  <1>0. /\ r \in Riders /\ participant'[r].status \in {"requested", "accepted"}
        /\ participant[r].status \notin {"requested", "accepted"}
    BY DEF OnRoster
  <1> USE DEF Wellformed, TypeOK
  <1>1. ASSUME NEW q \in Requests, Arrive(q) PROVE Goal
    BY <1>0, <1>1 DEF Arrive, BookCheck, WaitlistJoinRead, AcceptBooking, RejectBooking,
       RiderCancelRead, TripCancelRead, TripCompleteRead, Booking
  <1>2. ASSUME NEW q \in Requests, Proceed(q) PROVE Goal
    <2>1. CASE BookInsert(q)
      <3>1. request[q].at = "book_insert" /\ request[q].rider = r
        BY <1>0, <2>1 DEF BookInsert, Booking
      <3>2. request'[q].at = "idle"
        BY <2>1 DEF BookInsert, Answers, Idle
      <3>3. QED
        BY <3>1, <3>2 DEF Entering
    <2>2. CASE PromoteBook(q)
      <3>1. request[q].at = "promote_book" /\ request[q].rider = r
        BY <1>0, <2>2 DEF PromoteBook, Booking
      <3>2. request'[q].at = "promote_mark"
        BY <2>2 DEF PromoteBook, Goes, Request
      <3>3. QED
        BY <3>1, <3>2 DEF Entering
    <2>3. CASE \/ AcceptSeats(q) \/ RiderCancelRelease(q) \/ PromoteRead(q) \/ PromotePick(q)
               \/ PromoteTake(q) \/ PromoteMark(q) \/ WaitlistJoinCheck(q)
               \/ WaitlistJoinInsert(q) \/ TripCancel(q) \/ TripComplete(q)
      BY <1>0, <2>3 DEF AcceptSeats, RiderCancelRelease, PromoteRead, PromotePick, PromoteTake,
         PromoteMark, WaitlistJoinCheck, WaitlistJoinInsert, TripCancel, TripComplete
    <2>4. CASE AcceptUndo(q) \/ RiderCancelBooking(q)
      BY <1>0, <2>4 DEF AcceptUndo, RiderCancelBooking, Booking
    <2>5. CASE TripCancelRiders(q) \/ TripCompleteRiders(q)
      BY <1>0, <2>5 DEF TripCancelRiders, TripCompleteRiders, Ends, Booking
    <2>6. QED
      BY <1>2, <2>1, <2>2, <2>3, <2>4, <2>5 DEF Proceed
  <1>3. ASSUME NEW q \in Requests, Abort(q) PROVE Goal
    BY <1>0, <1>3 DEF Abort
  <1>4. ASSUME NEW s \in Riders, WaitlistLeave(s) PROVE Goal
    BY <1>0, <1>4 DEF WaitlistLeave
  <1>5. CASE UNCHANGED vars
    BY <1>0, <1>5 DEF vars
  <1>6. QED
    BY <1>1, <1>2, <1>3, <1>4, <1>5 DEF Next

\* Cancel and complete exclude each other for good, however many requests of either kind
\* have read an open trip; and what comes onto the roster of a closed trip was on its
\* way when the trip closed.
THEOREM SettledOnce == Spec => TripSettledOnce
  <1>1. Wellformed /\ [Next]_vars =>
          [~Open => /\ trip_status' = trip_status
                    /\ Entering' \subseteq Entering
                    /\ \A r \in OnRoster' \ OnRoster :
                         \E q \in Entering \ Entering' : request[q].rider = r]_vars
    BY StepsAreOK, NobodyEnters, EntryIsSpent DEF StepOK
  <1>2. QED
    BY <1>1, AlwaysWellformed, PTL DEF Spec, TripSettledOnce

\* No promotion, leave or second join puts a served or withdrawn entry back in line.
THEOREM NeverBackInLine == Spec => LeftTheLine
  <1>1. Wellformed /\ [Next]_vars =>
            [\A r \in Riders : waitlist[r].status \in {"promoted", "removed"} =>
                 waitlist'[r].status \in {"promoted", "removed"}]_vars
    BY StepsAreOK DEF StepOK
  <1>2. QED
    BY <1>1, AlwaysWellformed, PTL DEF Spec, LeftTheLine

\* Where the requests of a promotion or a completion stand.
Traced ==
    \A q \in Requests :
        /\ request[q].at \in {"promote_take", "promote_book"}
             => request[q].passengers = waitlist[request[q].rider].passengers
        /\ request[q].at = "promote_mark"
             => participant[request[q].rider].status # "none"
        /\ request[q].at = "trip_complete_riders" => trip_status = "completed"

History == Wellformed /\ Traced /\ PromotedHasBooking /\ CompletedRidersRode

\* With nobody promoted or completed the history holds.
LEMMA HistoryInit == Init => History
  <1> SUFFICES ASSUME Init PROVE History
    OBVIOUS
  <1>1. Traced /\ PromotedHasBooking /\ CompletedRidersRode
    BY DEF Init, Traced, PromotedHasBooking, CompletedRidersRode, Idle, NotWaiting, NoBooking
  <1>2. QED
    BY <1>1, WellformedInit DEF History

\* A request that does not move keeps its place in the trace.
LEMMA TracedElsewhere ==
    ASSUME History, StepOK, NEW p \in Requests, request'[p] = request[p]
    PROVE  /\ request'[p].at \in {"promote_take", "promote_book"}
                => request'[p].passengers = waitlist'[request'[p].rider].passengers
           /\ request'[p].at = "promote_mark"
                => participant'[request'[p].rider].status # "none"
           /\ request'[p].at = "trip_complete_riders" => trip_status' = "completed"
  BY DEF History, Traced, Wellformed, RequestOK, StepOK, Open, OpenStatuses

\* Every statement leaves the requests where their guards say they stand.
LEMMA TracedStep == History /\ [Next]_vars => Traced'
  <1> SUFFICES ASSUME History, [Next]_vars PROVE Traced'
    OBVIOUS
  <1>1. StepOK
    BY StepsAreOK DEF History
  <1> USE DEF History, Wellformed, TypeOK
  <1>2. ASSUME NEW q \in Requests, Arrive(q) PROVE Traced'
    <2>1. \A p \in Requests : p # q => request'[p] = request[p]
      BY <1>2 DEF Arrive, BookCheck, WaitlistJoinRead, AcceptBooking, RejectBooking, Arrives,
                  RiderCancelRead, TripCancelRead, TripCompleteRead, StartsPromotion
    <2>2. request'[q].at \notin {"promote_take", "promote_book", "promote_mark",
                                 "trip_complete_riders"}
      BY <1>2 DEF Arrive, BookCheck, WaitlistJoinRead, AcceptBooking, RejectBooking, Arrives,
                  RiderCancelRead, TripCancelRead, TripCompleteRead, StartsPromotion, Idle
    <2>3. QED
      BY <1>1, <2>1, <2>2, TracedElsewhere DEF Traced
  <1>3. ASSUME NEW q \in Requests, Proceed(q) PROVE Traced'
    <2>1. \A p \in Requests : p # q => request'[p] = request[p]
      BY <1>3 DEF Proceed, BookInsert, AcceptSeats, AcceptUndo, RiderCancelBooking,
                  RiderCancelRelease, PromoteRead, PromotePick, PromoteTake, PromoteBook,
                  PromoteMark, WaitlistJoinCheck, WaitlistJoinInsert, TripCancel,
                  TripCancelRiders, TripComplete, TripCompleteRiders, Answers, Goes,
                  StartsPromotion
    <2> DEFINE Placed ==
          /\ request'[q].at \in {"promote_take", "promote_book"}
               => request'[q].passengers = waitlist'[request'[q].rider].passengers
          /\ request'[q].at = "promote_mark"
               => participant'[request'[q].rider].status # "none"
          /\ request'[q].at = "trip_complete_riders" => trip_status' = "completed"
    <2>2. Placed
      <3> USE DEF Answers, Goes, StartsPromotion, Idle, Request
      <3>1. CASE BookInsert(q) \/ AcceptSeats(q) \/ AcceptUndo(q)
        BY <3>1 DEF BookInsert, AcceptSeats, AcceptUndo
      <3>2. CASE RiderCancelBooking(q) \/ RiderCancelRelease(q) \/ PromoteRead(q)
        BY <3>2 DEF RiderCancelBooking, RiderCancelRelease, PromoteRead
      <3>3. CASE PromotePick(q)
        BY <3>3 DEF PromotePick, IsNext, Candidates
      <3>4. CASE PromoteTake(q)
        BY <3>4 DEF PromoteTake, Traced
      <3>5. CASE PromoteBook(q)
        <4>1. request[q].rider \in Riders
          BY <3>5 DEF PromoteBook, RequestOK
        <4>2. request'[q].at = "promote_mark" /\ request'[q].rider = request[q].rider
          BY <3>5 DEF PromoteBook
        <4>3. participant'[request[q].rider].status = "accepted"
          BY <3>5, <4>1 DEF PromoteBook, Booking
        <4>4. QED
          BY <4>1, <4>2, <4>3
      <3>6. CASE PromoteMark(q) \/ WaitlistJoinCheck(q) \/ WaitlistJoinInsert(q)
        BY <3>6 DEF PromoteMark, WaitlistJoinCheck, WaitlistJoinInsert
      <3>7. CASE TripCancel(q) \/ TripCancelRiders(q)
        BY <3>7 DEF TripCancel, TripCancelRiders
      <3>8. CASE TripComplete(q) \/ TripCompleteRiders(q)
        BY <3>8 DEF TripComplete, TripCompleteRiders
      <3>9. QED
        BY <1>3, <3>1, <3>2, <3>3, <3>4, <3>5, <3>6, <3>7, <3>8 DEF Proceed
    <2>3. QED
      BY <1>1, <2>1, <2>2, TracedElsewhere DEF Traced
  <1>4. ASSUME NEW q \in Requests, Abort(q) PROVE Traced'
    <2>1. \A p \in Requests : p # q => request'[p] = request[p]
      BY <1>4 DEF Abort, Answers
    <2>2. request'[q].at = "idle"
      BY <1>4 DEF Abort, Answers, Idle
    <2>3. QED
      BY <1>1, <2>1, <2>2, TracedElsewhere DEF Traced
  <1>5. CASE UNCHANGED request
    BY <1>1, <1>5, TracedElsewhere DEF Traced
  <1>6. QED
    BY <1>2, <1>3, <1>4, <1>5 DEF Next, vars, WaitlistLeave

\* What a step does to a row that matters to the history.
LEMMA RowChanges ==
    ASSUME History, [Next]_vars, NEW r \in Riders
    PROVE  /\ waitlist'[r].status = "promoted" =>
                 waitlist[r].status = "promoted" \/ participant[r].status # "none"
           /\ participant'[r].status = "completed" =>
                 participant[r].status = "completed" \/ trip_status = "completed"
           /\ participant[r].status \in {"cancelled", "rejected", "completed"} =>
                 \/ participant'[r].status = participant[r].status
                 \/ /\ participant'[r].status = "accepted"
                    /\ waitlist[r].status # "none"
                    /\ participant'[r].passengers = waitlist[r].passengers
  <1> DEFINE Goal ==
           /\ waitlist'[r].status = "promoted" =>
                 waitlist[r].status = "promoted" \/ participant[r].status # "none"
           /\ participant'[r].status = "completed" =>
                 participant[r].status = "completed" \/ trip_status = "completed"
           /\ participant[r].status \in {"cancelled", "rejected", "completed"} =>
                 \/ participant'[r].status = participant[r].status
                 \/ /\ participant'[r].status = "accepted"
                    /\ waitlist[r].status # "none"
                    /\ participant'[r].passengers = waitlist[r].passengers
  <1> USE DEF History, Wellformed, TypeOK
  <1>1. ASSUME NEW q \in Requests, Arrive(q) PROVE Goal
    BY <1>1 DEF Arrive, BookCheck, WaitlistJoinRead, AcceptBooking, RejectBooking,
                RiderCancelRead, TripCancelRead, TripCompleteRead, Booking
  <1>2. ASSUME NEW q \in Requests, Proceed(q) PROVE Goal
    <2>1. CASE BookInsert(q)
      BY <2>1 DEF BookInsert, Booking
    <2>2. CASE AcceptSeats(q)
      BY <2>2 DEF AcceptSeats
    <2>3. CASE AcceptUndo(q)
      BY <2>3 DEF AcceptUndo, Booking
    <2>4. CASE RiderCancelBooking(q) \/ RiderCancelRelease(q)
      BY <2>4 DEF RiderCancelBooking, RiderCancelRelease, Booking
    <2>5. CASE PromoteRead(q) \/ PromotePick(q) \/ PromoteTake(q)
      BY <2>5 DEF PromoteRead, PromotePick, PromoteTake
    <2>6. CASE PromoteBook(q)
      BY <2>6 DEF PromoteBook, Booking, RequestOK, Traced
    <2>7. CASE PromoteMark(q)
      BY <2>7 DEF PromoteMark, WaitlistRow, RequestOK, Traced, OwnSteps
    <2>8. CASE WaitlistJoinCheck(q)
      BY <2>8 DEF WaitlistJoinCheck
    <2>9. CASE WaitlistJoinInsert(q)
      BY <2>9, NextIdIsNat DEF WaitlistJoinInsert, WaitlistRow
    <2>10. CASE TripCancel(q) \/ TripComplete(q)
      BY <2>10 DEF TripCancel, TripComplete
    <2>11. CASE TripCancelRiders(q)
      BY <2>11 DEF TripCancelRiders, Ends, Booking
    <2>12. CASE TripCompleteRiders(q)
      BY <2>12 DEF TripCompleteRiders, Ends, Booking, Traced
    <2>13. QED
      BY <1>2, <2>1, <2>2, <2>3, <2>4, <2>5, <2>6, <2>7, <2>8, <2>9, <2>10, <2>11, <2>12
         DEF Proceed
  <1>3. ASSUME NEW q \in Requests, Abort(q) PROVE Goal
    BY <1>3 DEF Abort
  <1>4. ASSUME NEW s \in Riders, WaitlistLeave(s) PROVE Goal
    BY <1>4 DEF WaitlistLeave, WaitlistRow
  <1>5. CASE UNCHANGED vars
    BY <1>5 DEF vars
  <1>6. QED
    BY <1>1, <1>2, <1>3, <1>4, <1>5 DEF Next

\* Every statement keeps the history: a row is marked promoted only after its booking
\* was written, and completed only after the trip was.
LEMMA HistoryStep == History /\ [Next]_vars => History'
  <1> SUFFICES ASSUME History, [Next]_vars PROVE History'
    OBVIOUS
  <1>1. Wellformed' /\ StepOK
    BY WellformedStep, StepsAreOK DEF History
  <1>2. PromotedHasBooking'
    BY <1>1, RowChanges DEF PromotedHasBooking, History, StepOK
  <1>3. CompletedRidersRode'
    BY <1>1, RowChanges DEF CompletedRidersRode, History, StepOK, Open, OpenStatuses
  <1>4. QED
    BY <1>1, <1>2, <1>3, TracedStep DEF History

\* The history of rows holds in every reachable state.
THEOREM AlwaysHistory == Spec => []History
  BY HistoryInit, HistoryStep, PTL DEF Spec

\* A promotion that dies on the way leaves no rider told "promoted" without a booking.
THEOREM NobodyPromotedInVain == Spec => []PromotedHasBooking
  BY AlwaysHistory, PTL DEF History

\* A complete request that lost against a cancel completes nobody's ride.
THEOREM OnlyCompletedTripsComplete == Spec => []CompletedRidersRode
  BY AlwaysHistory, PTL DEF History

\* The only way back onto the roster is the waitlist, and for the party that waited.
THEOREM RevivalIsPromotion == Spec => RevivedOnlyByPromotion
  <1>1. History /\ [Next]_vars =>
            [\A r \in Riders :
               participant[r].status \in {"cancelled", "rejected", "completed"} =>
                 \/ participant'[r].status = participant[r].status
                 \/ /\ participant'[r].status = "accepted"
                    /\ waitlist[r].status # "none"
                    /\ participant'[r].passengers = waitlist[r].passengers]_vars
    BY RowChanges
  <1>2. QED
    BY <1>1, AlwaysHistory, PTL DEF Spec, RevivedOnlyByPromotion

-----------------------------------------------------------------------------
(* The seat counter implements SeatPool, and so no trip is overbooked      *)

\* What the theorems assume: one request about a booking at a time, a column
\* that may hold 0, and no crash between the two updates of an accept.
AcceptSteps == {"accept_seats", "accept_undo"}
Disciplined ==
    OneRequestPerRider /\ SeatFloor = 0 /\ AbortAt \intersect AcceptSteps = {}

-----------------------------------------------------------------------------
(* Counting seats                                                          *)

\* Finitely many holders of finitely many seats each hold finitely many.
LEMMA SlotsFinite ==
  ASSUME NEW A, IsFiniteSet(A), NEW n \in [A -> 0..MaxParty]
  PROVE  IsFiniteSet(Slots(A, n)) /\ Cardinality(Slots(A, n)) \in Nat
  <1>1. IsFiniteSet(Party)
    BY SeatsAssumption, FS_Interval DEF Party
  <1>2. IsFiniteSet(A \X Party)
    BY <1>1, FS_Product
  <1>3. Slots(A, n) \subseteq A \X Party
    BY DEF Slots
  <1>4. QED
    BY <1>2, <1>3, FS_Subset, FS_CardinalityType

\* The seats of all holders are those of one of them and those of the others.
LEMMA SlotsSplit ==
  ASSUME NEW A, IsFiniteSet(A), NEW n \in [A -> 0..MaxParty], NEW a \in A
  PROVE  LET Rest == {s \in Slots(A, n) : s[1] # a} IN
         /\ Cardinality(Rest) \in Nat
         /\ Cardinality(Slots(A, n)) = Cardinality(Rest) + n[a]
  <1> DEFINE Rest == {s \in Slots(A, n) : s[1] # a}
             Own == {a} \X (1..n[a])
  <1>1. IsFiniteSet(Rest) /\ Cardinality(Rest) \in Nat
    BY SlotsFinite, FS_Subset, FS_CardinalityType
  <1>2. n[a] \in Nat /\ n[a] <= MaxParty
    BY SeatsAssumption
  <1>3. IsFiniteSet(Own) /\ Cardinality(Own) = n[a]
    <2>1. IsFiniteSet(1..n[a]) /\ Cardinality(1..n[a]) = n[a]
      BY <1>2, FS_Interval
    <2>2. IsFiniteSet({a}) /\ Cardinality({a}) = 1
      BY FS_Singleton
    <2>3. IsFiniteSet(Own) /\ Cardinality(Own) = Cardinality({a}) * Cardinality(1..n[a])
      BY <2>1, <2>2, FS_Product
    <2>4. Cardinality(Own) = 1 * n[a]
      BY <2>1, <2>2, <2>3
    <2>5. QED
      BY <1>2, <2>3, <2>4
  <1>4. Slots(A, n) = Rest \union Own
    BY <1>2, SeatsAssumption DEF Slots, Party
  <1>5. Rest \intersect Own = {}
    OBVIOUS
  <1>6. Cardinality(Rest \intersect Own) = 0
    BY <1>5, FS_EmptySet
  <1> HIDE DEF Rest, Own
  <1>7. Cardinality(Rest \union Own) = Cardinality(Rest) + Cardinality(Own)
    <2>1. Cardinality(Rest \union Own)
            = Cardinality(Rest) + Cardinality(Own) - Cardinality(Rest \intersect Own)
      BY <1>1, <1>3, FS_Union
    <2>2. QED
      BY <1>1, <1>2, <1>3, <1>6, <2>1
  <1>8. QED
    BY <1>1, <1>3, <1>4, <1>7 DEF Rest

\* When one holder's seats change, the total changes by as much.
LEMMA SlotsUpdate ==
  ASSUME NEW A, IsFiniteSet(A), NEW n \in [A -> 0..MaxParty], NEW m \in [A -> 0..MaxParty],
         NEW a \in A, \A b \in A \ {a} : m[b] = n[b]
  PROVE  /\ Cardinality(Slots(A, m)) = Cardinality(Slots(A, n)) - n[a] + m[a]
         /\ Cardinality(Slots(A, n)) >= n[a]
  <1> DEFINE Rest(f) == {s \in Slots(A, f) : s[1] # a}
  <1>1. Rest(m) = Rest(n)
    BY DEF Slots
  <1>2. /\ Cardinality(Rest(n)) \in Nat
        /\ Cardinality(Slots(A, n)) = Cardinality(Rest(n)) + n[a]
        /\ Cardinality(Slots(A, m)) = Cardinality(Rest(m)) + m[a]
    BY SlotsSplit
  <1>3. n[a] \in Int /\ m[a] \in Int
    BY SeatsAssumption
  <1> HIDE DEF Rest
  <1>4. QED
    BY <1>1, <1>2, <1>3

-----------------------------------------------------------------------------
(* Who is about whose booking                                              *)

\* Requests about a booking exclude each other, and those that change an accepted
\* booking or its seats find it accepted as long as the trip is open.
Exclusive ==
    \A p, q \in Requests :
        p # q /\ request[p].at \in OwnSteps /\ request[q].at \in OwnSteps
            => request[p].rider # request[q].rider

FindsAccepted ==
    Open => \A q \in Requests :
        request[q].at \in AcceptSteps \union {"cancel_booking"}
            => participant[request[q].rider].status = "accepted"

\* A cancellation clears the roster of a trip it has closed.
ClosesFirst == \A q \in Requests : request[q].at = "trip_cancel_riders" => ~Open

Orderly == History /\ Exclusive /\ FindsAccepted /\ ClosesFirst

\* At first there are no requests.
LEMMA OrderlyInit == Init => Orderly
  BY HistoryInit DEF Init, Orderly, Exclusive, FindsAccepted, ClosesFirst, OwnSteps, AcceptSteps, Idle

\* A step of a request leaves the others alone.
OthersStay(q) == \A p \in Requests \ {q} : request'[p] = request[p]

LEMMA OthersDoStay ==
  ASSUME TypeOK, NEW q \in Requests, Arrive(q) \/ Proceed(q) \/ Abort(q)
  PROVE  OthersStay(q)
  <1> USE DEF OthersStay, TypeOK, Arrives, Goes, Answers, StartsPromotion
  <1>1. CASE Arrive(q)
    BY <1>1 DEF Arrive, BookCheck, WaitlistJoinRead, AcceptBooking, RejectBooking,
                RiderCancelRead, TripCancelRead, TripCompleteRead
  <1>2. CASE Abort(q)
    BY <1>2 DEF Abort
  <1>3. CASE Proceed(q)
    BY <1>3 DEF Proceed, BookInsert, AcceptSeats, AcceptUndo, RiderCancelBooking,
                RiderCancelRelease, PromoteRead, PromotePick, PromoteTake, PromoteBook,
                PromoteMark, WaitlistJoinCheck, WaitlistJoinInsert, TripCancel,
                TripCancelRiders, TripComplete, TripCompleteRiders
  <1>4. QED
    BY <1>1, <1>2, <1>3

\* A request is about a booking only if it was already, or starts where no other is.
LEMMA OwnStepsBegin ==
  ASSUME OneRequestPerRider, Wellformed, NEW q \in Requests, Arrive(q) \/ Proceed(q) \/ Abort(q),
         request'[q].at \in OwnSteps
  PROVE  \/ request[q].at \in OwnSteps /\ request'[q].rider = request[q].rider
         \/ \A p \in Requests \ {q} :
              request[p].at \in OwnSteps => request[p].rider # request'[q].rider
  <1> USE DEF TypeOK, Arrives, Goes, Answers, StartsPromotion, OwnSteps, Idle, Request
  <1>1. CASE Arrive(q)
    BY <1>1 DEF Wellformed, Arrive, BookCheck, WaitlistJoinRead, AcceptBooking, RejectBooking,
                RiderCancelRead, TripCancelRead, TripCompleteRead, Unattended
  <1>2. CASE Abort(q)
    BY <1>2 DEF Wellformed, Abort
  <1>3. CASE Proceed(q)
    BY <1>3, SMTT(60) DEF Wellformed, Proceed, BookInsert, AcceptSeats, AcceptUndo, RiderCancelBooking,
                RiderCancelRelease, PromoteRead, PromotePick, PromoteTake, PromoteBook,
                PromoteMark, WaitlistJoinCheck, WaitlistJoinInsert, TripCancel,
                TripCancelRiders, TripComplete, TripCompleteRiders
  <1>4. QED
    BY <1>1, <1>2, <1>3

LEMMA ExclusiveStep ==
  ASSUME OneRequestPerRider, Wellformed, Exclusive, [Next]_vars
  PROVE  Exclusive'
  <1>1. ASSUME NEW q \in Requests, Arrive(q) \/ Proceed(q) \/ Abort(q) PROVE Exclusive'
    BY <1>1, OthersDoStay, OwnStepsBegin DEF Wellformed, Exclusive, OthersStay
  <1>2. ASSUME NEW r \in Riders, WaitlistLeave(r) PROVE Exclusive'
    BY <1>2 DEF WaitlistLeave, Exclusive
  <1>3. CASE UNCHANGED vars
    BY <1>3 DEF vars, Exclusive
  <1>4. QED
    BY <1>1, <1>2, <1>3 DEF Next

\* The trip is closed before its riders are cancelled, and stays closed.
LEMMA ClosesFirstStep ==
  ASSUME Wellformed, ClosesFirst, [Next]_vars
  PROVE  ClosesFirst'
  <1>1. ~Open => ~Open'
    BY StepsAreOK DEF StepOK, Open
  <1>2. ASSUME NEW q \in Requests, Arrive(q) \/ Proceed(q) \/ Abort(q),
               request'[q].at = "trip_cancel_riders"
        PROVE  ~Open'
    <2> USE DEF Wellformed, TypeOK, Request, Arrives, Goes, Answers, StartsPromotion, Idle
    <2>1. CASE Arrive(q) \/ Abort(q)
      BY <1>2, <2>1 DEF Arrive, BookCheck, WaitlistJoinRead, AcceptBooking, RejectBooking,
                        RiderCancelRead, TripCancelRead, TripCompleteRead, Abort
    <2>2. CASE TripCancel(q)
      BY <1>2, <2>2 DEF TripCancel, Open, OpenStatuses
    <2>3. CASE Proceed(q) /\ ~TripCancel(q)
      BY <1>2, <2>3, SMTT(60) DEF Proceed, BookInsert, AcceptSeats, AcceptUndo, RiderCancelBooking,
                RiderCancelRelease, PromoteRead, PromotePick, PromoteTake, PromoteBook,
                PromoteMark, WaitlistJoinCheck, WaitlistJoinInsert, TripCancelRiders,
                TripComplete, TripCompleteRiders
    <2>4. QED
      BY <1>2, <2>1, <2>2, <2>3
  <1>3. ASSUME NEW q \in Requests, Arrive(q) \/ Proceed(q) \/ Abort(q) PROVE ClosesFirst'
    BY <1>1, <1>2, <1>3, OthersDoStay DEF ClosesFirst, OthersStay, Wellformed
  <1>4. QED
    BY <1>1, <1>3 DEF Next, vars, WaitlistLeave, ClosesFirst

\* An accepted booking leaves that state only by its own request, while the trip is open.
LEMMA AcceptedStays ==
  ASSUME Orderly, NEW q \in Requests, Arrive(q) \/ Proceed(q) \/ Abort(q), Open,
         NEW r \in Riders, participant[r].status = "accepted",
         request[q].at \in {"accept_undo", "cancel_booking"} => request[q].rider # r
  PROVE  participant'[r].status = "accepted"
  <1> USE DEF Orderly, History, Wellformed, TypeOK, Booking
  <1>1. CASE Arrive(q)
    BY <1>1 DEF Arrive, BookCheck, WaitlistJoinRead, AcceptBooking, RejectBooking,
                RiderCancelRead, TripCancelRead, TripCompleteRead
  <1>2. CASE BookInsert(q)
    BY <1>2 DEF BookInsert
  <1>3. CASE AcceptUndo(q) \/ RiderCancelBooking(q)
    BY <1>3 DEF AcceptUndo, RiderCancelBooking
  <1>4. CASE PromoteBook(q)
    BY <1>4 DEF PromoteBook
  <1>5. CASE TripCancelRiders(q)
    BY <1>5 DEF TripCancelRiders, ClosesFirst
  <1>6. CASE TripCompleteRiders(q)
    BY <1>6 DEF TripCompleteRiders, Traced, Open, OpenStatuses
  <1>7. CASE UNCHANGED participant
    BY <1>7
  <1>8. QED
    BY <1>1, <1>2, <1>3, <1>4, <1>5, <1>6, <1>7
    DEF Proceed, Abort, AcceptSeats, RiderCancelRelease, PromoteRead, PromotePick, PromoteTake,
        PromoteMark, WaitlistJoinCheck, WaitlistJoinInsert, TripCancel, TripComplete

LEMMA FindsAcceptedStep ==
  ASSUME Orderly, [Next]_vars
  PROVE  FindsAccepted'
  <1> SUFFICES ASSUME Open', NEW p \in Requests,
                      request'[p].at \in AcceptSteps \union {"cancel_booking"}
               PROVE  participant'[request'[p].rider].status = "accepted"
    BY DEF FindsAccepted
  <1>1. Open
    BY StepsAreOK DEF Orderly, History, StepOK, Open
  <1>2. ASSUME NEW q \in Requests, Arrive(q) \/ Proceed(q) \/ Abort(q), p # q
        PROVE  participant'[request'[p].rider].status = "accepted"
    <2>1. request'[p] = request[p]
      BY <1>2, OthersDoStay DEF OthersStay, Orderly, History, Wellformed
    <2>2. request[p].rider \in Riders /\ participant[request[p].rider].status = "accepted"
      BY <1>1, <2>1 DEF Orderly, FindsAccepted, History, Wellformed, RequestOK, AcceptSteps, OwnSteps
    <2>3. request[q].at \in {"accept_undo", "cancel_booking"} => request[q].rider # request[p].rider
      BY <1>2, <2>1 DEF Orderly, Exclusive, OwnSteps, AcceptSteps
    <2>4. QED
      BY <1>1, <1>2, <2>1, <2>2, <2>3, AcceptedStays
  <1>3. ASSUME Arrive(p) \/ Proceed(p) \/ Abort(p)
        PROVE  participant'[request'[p].rider].status = "accepted"
    <2> USE DEF Orderly, History, Wellformed, TypeOK, Request, Booking, Arrives, Goes, Answers,
                StartsPromotion, Idle, AcceptSteps
    <2>1. CASE Arrive(p)
      BY <1>3, <2>1 DEF Arrive, BookCheck, WaitlistJoinRead, AcceptBooking, RejectBooking,
                RiderCancelRead, TripCancelRead, TripCompleteRead
    <2>2. CASE AcceptSeats(p)
      BY <1>1, <2>2 DEF AcceptSeats, FindsAccepted
    <2>3. CASE (Proceed(p) /\ ~AcceptSeats(p)) \/ Abort(p)
      BY <2>3 DEF Proceed, Abort, BookInsert, AcceptUndo, RiderCancelBooking,
                RiderCancelRelease, PromoteRead, PromotePick, PromoteTake, PromoteBook,
                PromoteMark, WaitlistJoinCheck, WaitlistJoinInsert, TripCancel,
                TripCancelRiders, TripComplete, TripCompleteRiders
    <2>4. QED
      BY <1>3, <2>1, <2>2, <2>3
  <1>4. CASE UNCHANGED <<request, participant>>
    BY <1>1, <1>4 DEF Orderly, FindsAccepted
  <1>5. QED
    BY <1>2, <1>3, <1>4 DEF Next, vars, WaitlistLeave

\* All of it holds in every reachable state.
LEMMA OrderlyStep == OneRequestPerRider => (Orderly /\ [Next]_vars => Orderly')
  BY HistoryStep, ExclusiveStep, ClosesFirstStep, FindsAcceptedStep DEF Orderly, History

-----------------------------------------------------------------------------
(* How the seats held change                                               *)

\* A booking holds at most its party, and a request what it carries.
NeedsOK == RowNeed \in [Riders -> 0..MaxParty] /\ RequestNeed \in [Requests -> 0..MaxParty]

LEMMA Needs == Wellformed => NeedsOK
  <1> SUFFICES ASSUME Wellformed PROVE NeedsOK
    OBVIOUS
  <1> USE DEF Wellformed, TypeOK, Booking, Request, Party
  <1>1. RowNeed \in [Riders -> 0..MaxParty]
    BY SeatsAssumption DEF RowNeed
  <1>2. ASSUME NEW q \in Requests PROVE RequestNeed[q] \in 0..MaxParty
    <2>1. CASE request[q].at \in {"promote_book", "cancel_release"}
      BY <2>1, SeatsAssumption DEF RequestNeed, RequestOK
    <2>2. CASE request[q].at = "cancel_booking"
      <3>1. request[q].passengers \in 1..MaxParty
              /\ participant[request[q].rider].passengers \in 0..MaxParty
        BY <2>2 DEF RequestOK, OwnSteps
      <3>2. QED
        BY <2>2, <3>1, SeatsAssumption DEF RequestNeed
    <2>3. CASE request[q].at \notin {"promote_book", "cancel_release", "cancel_booking"}
      BY <2>3, SeatsAssumption DEF RequestNeed
    <2>4. QED
      BY <2>1, <2>2, <2>3
  <1>3. RequestNeed = [q \in Requests |-> RequestNeed[q]]
    BY DEF RequestNeed
  <1>4. QED
    BY <1>1, <1>2, <1>3 DEF NeedsOK

LEMMA NeedsNext == Wellformed' => NeedsOK'
  BY Needs, PTL

HeldByRows == Cardinality(Slots(Riders, RowNeed))
HeldByRequests == Cardinality(Slots(Requests, RequestNeed))

LEMMA HeldIsNat ==
  ASSUME NeedsOK
  PROVE  HeldByRows \in Nat /\ HeldByRequests \in Nat /\ Held = HeldByRows + HeldByRequests
  BY SlotsFinite, RequestsAssumption DEF NeedsOK, HeldByRows, HeldByRequests, Held

\* A step that changes the claim of one booking changes the sum by as much.
LEMMA RowsChange ==
  ASSUME NeedsOK, NeedsOK', NEW r \in Riders,
         \A s \in Riders \ {r} : RowNeed'[s] = RowNeed[s]
  PROVE  /\ HeldByRows' = HeldByRows - RowNeed[r] + RowNeed'[r]
         /\ HeldByRows >= RowNeed[r]
  <1>1. RowNeed \in [Riders -> 0..MaxParty] /\ RowNeed' \in [Riders -> 0..MaxParty]
    BY DEF NeedsOK
  <1>2. /\ Cardinality(Slots(Riders, RowNeed'))
             = Cardinality(Slots(Riders, RowNeed)) - RowNeed[r] + RowNeed'[r]
        /\ Cardinality(Slots(Riders, RowNeed)) >= RowNeed[r]
    BY <1>1, SlotsUpdate, RequestsAssumption
  <1>3. HeldByRows' = Cardinality(Slots(Riders, RowNeed'))
    BY DEF HeldByRows, Slots
  <1>4. QED
    BY <1>2, <1>3 DEF HeldByRows

\* So does one that changes what one request carries.
LEMMA RequestsChange ==
  ASSUME NeedsOK, NeedsOK', NEW q \in Requests,
         \A p \in Requests \ {q} : RequestNeed'[p] = RequestNeed[p]
  PROVE  /\ HeldByRequests' = HeldByRequests - RequestNeed[q] + RequestNeed'[q]
         /\ HeldByRequests >= RequestNeed[q]
  <1>1. RequestNeed \in [Requests -> 0..MaxParty] /\ RequestNeed' \in [Requests -> 0..MaxParty]
    BY DEF NeedsOK
  <1>2. /\ Cardinality(Slots(Requests, RequestNeed'))
             = Cardinality(Slots(Requests, RequestNeed)) - RequestNeed[q] + RequestNeed'[q]
        /\ Cardinality(Slots(Requests, RequestNeed)) >= RequestNeed[q]
    BY <1>1, SlotsUpdate, RequestsAssumption
  <1>3. HeldByRequests' = Cardinality(Slots(Requests, RequestNeed'))
    BY DEF HeldByRequests, Slots
  <1>4. QED
    BY <1>2, <1>3 DEF HeldByRequests

\* One that changes no claim leaves the sum alone.
LEMMA RowsKept ==
  ASSUME NeedsOK, NeedsOK', \A s \in Riders : RowNeed'[s] = RowNeed[s]
  PROVE  HeldByRows' = HeldByRows
  <1>1. RowNeed' = RowNeed
    BY DEF NeedsOK
  <1>2. QED
    BY <1>1 DEF HeldByRows, Slots

\* What a booking and a request that a step does not work on hold, they keep.
AtAccept(q, s) == request[q].rider = s /\ request[q].at \in AcceptSteps

LEMMA RowStays ==
  ASSUME NEW q \in Requests, OthersStay(q), NEW s \in Riders,
         participant'[s] = participant[s], AtAccept(q, s)' = AtAccept(q, s)
  PROVE  RowNeed'[s] = RowNeed[s]
  <1>1. BeingAccepted(s)' = BeingAccepted(s)
    BY DEF BeingAccepted, OthersStay, AtAccept, AcceptSteps
  <1>2. QED
    BY <1>1 DEF RowNeed

LEMMA RequestStays ==
  ASSUME NEW q \in Requests, OthersStay(q), NEW p \in Requests \ {q},
         \/ request[p].at # "cancel_booking"
         \/ participant'[request[p].rider].passengers = participant[request[p].rider].passengers
  PROVE  RequestNeed'[p] = RequestNeed[p]
  <1>1. request'[p] = request[p]
    BY DEF OthersStay
  <1>2. QED
    BY <1>1 DEF RequestNeed

\* A step that works on one booking.
LEMMA OneBooking ==
  ASSUME NeedsOK, NeedsOK', NEW q \in Requests, OthersStay(q), NEW r \in Riders,
         \A s \in Riders \ {r} :
            participant'[s] = participant[s] /\ AtAccept(q, s)' = AtAccept(q, s),
         \A p \in Requests \ {q} :
            \/ request[p].at # "cancel_booking"
            \/ participant'[request[p].rider].passengers
                 = participant[request[p].rider].passengers
  PROVE  /\ Held' = Held - RowNeed[r] + RowNeed'[r] - RequestNeed[q] + RequestNeed'[q]
         /\ Held >= RowNeed[r] + RequestNeed[q]
  <1>1. \A s \in Riders \ {r} : RowNeed'[s] = RowNeed[s]
    BY RowStays
  <1>2. \A p \in Requests \ {q} : RequestNeed'[p] = RequestNeed[p]
    BY RequestStays
  <1>3. /\ HeldByRows' = HeldByRows - RowNeed[r] + RowNeed'[r]
        /\ HeldByRows >= RowNeed[r]
    BY <1>1, RowsChange
  <1>4. /\ HeldByRequests' = HeldByRequests - RequestNeed[q] + RequestNeed'[q]
        /\ HeldByRequests >= RequestNeed[q]
    BY <1>2, RequestsChange
  <1>5. HeldByRows \in Nat /\ HeldByRequests \in Nat /\ Held = HeldByRows + HeldByRequests
    BY HeldIsNat
  <1>6. RowNeed[r] \in Nat /\ RowNeed'[r] \in Nat
          /\ RequestNeed[q] \in Nat /\ RequestNeed'[q] \in Nat
    BY SeatsAssumption DEF NeedsOK
  <1>7. Held' = HeldByRows' + HeldByRequests'
    BY DEF Held, HeldByRows, HeldByRequests
  <1>8. QED
    BY <1>3, <1>4, <1>5, <1>6, <1>7

\* A step that works on no booking, and is not in the midst of an accept.
LEMMA NoBookingTouched ==
  ASSUME NeedsOK, NeedsOK', NEW q \in Requests, OthersStay(q), participant' = participant,
         request[q].at \notin AcceptSteps, request'[q].at \notin AcceptSteps
  PROVE  /\ Held' = Held - RequestNeed[q] + RequestNeed'[q]
         /\ Held >= RequestNeed[q]
  <1>1. \A s \in Riders : RowNeed'[s] = RowNeed[s]
    BY RowStays DEF AtAccept
  <1>2. \A p \in Requests \ {q} : RequestNeed'[p] = RequestNeed[p]
    BY RequestStays
  <1>3. HeldByRows' = HeldByRows
    BY <1>1, RowsKept
  <1>4. /\ HeldByRequests' = HeldByRequests - RequestNeed[q] + RequestNeed'[q]
        /\ HeldByRequests >= RequestNeed[q]
    BY <1>2, RequestsChange
  <1>5. HeldByRows \in Nat /\ HeldByRequests \in Nat /\ Held = HeldByRows + HeldByRequests
    BY HeldIsNat
  <1>6. RequestNeed[q] \in Nat /\ RequestNeed'[q] \in Nat
    BY SeatsAssumption DEF NeedsOK
  <1>7. Held' = HeldByRows' + HeldByRequests'
    BY DEF Held, HeldByRows, HeldByRequests
  <1>8. QED
    BY <1>3, <1>4, <1>5, <1>6, <1>7

-----------------------------------------------------------------------------
(* The steps of an open trip                                               *)

\* What SeatPool allows an open trip, with 0 seats for a step that moves none.
Trades ==
    \/ \E n \in 0..available_seats :
          available_seats' = available_seats - n /\ Held' = Held + n
    \/ \E n \in 0..Held :
          available_seats' = available_seats + n /\ Held' = Held - n
    \/ \E n \in 0..Held :
          available_seats' = available_seats /\ Held' = Held - n

\* What is known when request q takes a step.
Working(q) ==
    /\ Disciplined /\ Orderly /\ Open
    /\ NeedsOK /\ NeedsOK'
    /\ Held \in Nat /\ available_seats \in Nat
    /\ OthersStay(q)

\* Reads, and the statements that close the trip, leave the seats alone.
LEMMA ReadsTrade ==
  ASSUME NEW q \in Requests, Working(q), participant' = participant,
         available_seats' = available_seats,
         request[q].at \notin AcceptSteps, request'[q].at \notin AcceptSteps,
         RequestNeed'[q] <= RequestNeed[q]
  PROVE  Trades /\ (RequestNeed'[q] = RequestNeed[q] => Held' = Held)
  <1> DEFINE n == RequestNeed[q] - RequestNeed'[q]
  <1>1. Held' = Held - RequestNeed[q] + RequestNeed'[q] /\ Held >= RequestNeed[q]
    BY NoBookingTouched DEF Working
  <1>2. RequestNeed[q] \in Nat /\ RequestNeed'[q] \in Nat
    BY SeatsAssumption DEF Working, NeedsOK
  <1>3. n \in 0..Held /\ Held' = Held - n
    BY <1>1, <1>2 DEF Working
  <1>4. QED
    BY <1>1, <1>2, <1>3 DEF Trades, Working

LEMMA ArrivalsTrade ==
  ASSUME NEW q \in Requests, Working(q), Arrive(q)
  PROVE  Trades
  <1> USE DEF Arrives, Goes, Answers, StartsPromotion, Idle
  <1>0. /\ participant \in [Riders -> Booking]
        /\ request \in [Requests -> Request]
    BY DEF Working, Orderly, History, Wellformed, TypeOK
  <1>1. CASE \/ TripCancelRead(q) \/ TripCompleteRead(q)
             \/ \E r \in Riders, n \in Party : BookCheck(q, r, n) \/ WaitlistJoinRead(q, r, n)
             \/ \E r \in Riders : RiderCancelRead(q, r)
    <2>1. /\ participant' = participant /\ available_seats' = available_seats
          /\ request[q].at = "idle"
      BY <1>1 DEF TripCancelRead, TripCompleteRead, BookCheck, WaitlistJoinRead, RiderCancelRead
    <2>2. request'[q].at \notin AcceptSteps
      BY <1>0, <1>1 DEF TripCancelRead, TripCompleteRead, BookCheck, WaitlistJoinRead,
                        RiderCancelRead, AcceptSteps
    <2>3. RequestNeed[q] = 0
      BY <2>1 DEF RequestNeed
    <2>4. RequestNeed'[q] = 0
      <3>1. \/ request'[q].at \in {"book_insert", "waitlist_check", "trip_cancel", "trip_complete"}
            \/ /\ request'[q].at = "cancel_booking"
               /\ request'[q].rider \in Riders
               /\ request'[q].passengers = participant[request'[q].rider].passengers
        BY <1>0, <1>1 DEF TripCancelRead, TripCompleteRead, BookCheck, WaitlistJoinRead,
                          RiderCancelRead
      <3>2. CASE request'[q].at \in {"book_insert", "waitlist_check", "trip_cancel", "trip_complete"}
        BY <3>2 DEF RequestNeed
      <3>3. CASE request'[q].at = "cancel_booking" /\ request'[q].rider \in Riders
                 /\ request'[q].passengers = participant[request'[q].rider].passengers
        <4>1. request'[q].passengers \in Nat
          BY <1>0, <3>3, SeatsAssumption DEF Booking
        <4>2. QED
          BY <2>1, <3>3, <4>1 DEF RequestNeed
      <3>4. QED
        BY <3>1, <3>2, <3>3
    <2>5. QED
      BY <2>1, <2>2, <2>3, <2>4, ReadsTrade DEF AcceptSteps
  <1>2. ASSUME NEW r \in Riders, AcceptBooking(q, r) \/ RejectBooking(q, r)
        PROVE  Trades
    <2>1. /\ available_seats' = available_seats
          /\ request[q].at = "idle" /\ request[q].rider = NoRider
          /\ participant[r].status = "requested"
      BY <1>2 DEF AcceptBooking, RejectBooking
    <2>2. /\ \A s \in Riders \ {r} : participant'[s] = participant[s]
          /\ \A s \in Riders : participant'[s].passengers = participant[s].passengers
          /\ \/ participant'[r].status = "rejected"
             \/ AtAccept(q, r)'
      BY <1>0, <1>2 DEF AcceptBooking, RejectBooking, AtAccept, AcceptSteps, Booking
    <2>3. \A s \in Riders \ {r} : AtAccept(q, s)' = AtAccept(q, s)
      BY <1>0, <1>2, <2>1, RequestsAssumption DEF AcceptBooking, RejectBooking, AtAccept
    <2>4. RowNeed[r] = 0
      BY <2>1 DEF RowNeed
    <2>5. RowNeed'[r] = 0
      BY <2>2 DEF RowNeed, AtAccept, AcceptSteps, BeingAccepted
    <2>6. RequestNeed[q] = 0
      BY <2>1 DEF RequestNeed
    <2>7. request'[q].at \in {"accept_seats", "promote_read"}
      BY <1>0, <1>2 DEF AcceptBooking, RejectBooking
    <2>8. RequestNeed'[q] = 0
      BY <2>7 DEF RequestNeed
    <2>9. \A p \in Requests \ {q} :
            \/ request[p].at # "cancel_booking"
            \/ participant'[request[p].rider].passengers = participant[request[p].rider].passengers
      BY <2>2 DEF Working, Orderly, History, Wellformed, RequestOK, OwnSteps
    <2>10. Held' = Held - RowNeed[r] + RowNeed'[r] - RequestNeed[q] + RequestNeed'[q]
      BY <2>2, <2>3, <2>9, OneBooking DEF Working
    <2>11. Held' = Held
      BY <2>4, <2>5, <2>6, <2>8, <2>10 DEF Working
    <2>12. QED
      BY <2>1, <2>11 DEF Trades, Working
  <1>3. QED
    BY <1>1, <1>2 DEF Arrive

\* An accept that finds the seats takes them for a booking that counts from then on.
LEMMA AcceptSeatsTrade ==
  ASSUME NEW q \in Requests, Working(q), AcceptSeats(q)
  PROVE  Trades
  <1> PICK r \in Riders, n \in 0..MaxParty :
        r = request[q].rider /\ n = participant[r].passengers
    BY DEF Working, Orderly, History, Wellformed, TypeOK, RequestOK, OwnSteps, Booking, AcceptSeats
  <1>0. /\ participant \in [Riders -> Booking]
        /\ request \in [Requests -> Request]
        /\ r = request[q].rider /\ n = participant[r].passengers
        /\ request[q].at = "accept_seats" /\ participant' = participant
    BY DEF Working, Orderly, History, Wellformed, TypeOK, AcceptSeats
  <1>1. participant[r].status = "accepted" /\ BeingAccepted(r)
    BY <1>0 DEF Working, Orderly, FindsAccepted, AcceptSteps, BeingAccepted
  <1>2. RowNeed[r] = 0
    BY <1>1 DEF RowNeed
  <1>3. request'[q].at \in {"idle", "accept_undo"}
    BY <1>0 DEF AcceptSeats, Goes, Answers, Idle, Request
  <1>4. RequestNeed[q] = 0 /\ RequestNeed'[q] = 0
    BY <1>0, <1>3 DEF RequestNeed
  <1>5. \A s \in Riders \ {r} : AtAccept(q, s)' = AtAccept(q, s)
    BY <1>0, RequestsAssumption DEF AcceptSeats, AtAccept, Goes, Answers, Idle, AcceptSteps, Request
  <1>6. Held' = Held - RowNeed[r] + RowNeed'[r] - RequestNeed[q] + RequestNeed'[q]
    BY <1>0, <1>5, OneBooking DEF Working
  <1>7. CASE TakeAllowed(n)
    <2>1. n \in 0..available_seats
      BY <1>0, <1>7, SeatsAssumption DEF TakeAllowed, Working
    <2>2. ~Raises(n)
      BY <2>1 DEF Raises, Working, Disciplined
    <2>3. request'[q] = Idle /\ available_seats' = available_seats - n
      BY <1>0, <1>7, <2>2 DEF AcceptSeats, Answers, Without
    <2>4. ~BeingAccepted(r)'
      <3>1. ASSUME NEW p \in Requests, request'[p].rider = r, request'[p].at \in AcceptSteps
            PROVE  FALSE
        <4>1. p # q /\ request'[p] = request[p]
          BY <2>3, <3>1 DEF Idle, AcceptSteps, Working, OthersStay
        <4>2. QED
          BY <1>0, <3>1, <4>1 DEF Working, Orderly, Exclusive, OwnSteps, AcceptSteps
      <3>2. QED
        BY <3>1 DEF BeingAccepted, AcceptSteps
    <2>5. RowNeed'[r] = n
      BY <1>0, <1>1, <2>4 DEF RowNeed
    <2>6. Held' = Held + n
      BY <1>0, <1>2, <1>4, <1>6, <2>5, SeatsAssumption DEF Working
    <2>7. QED
      BY <2>1, <2>3, <2>6 DEF Trades
  <1>8. CASE ~TakeAllowed(n)
    <2>1. request'[q].at = "accept_undo" /\ request'[q].rider = r /\ available_seats' = available_seats
      BY <1>0, <1>8 DEF AcceptSeats, Goes, Request
    <2>2. BeingAccepted(r)'
      BY <2>1 DEF BeingAccepted
    <2>3. RowNeed'[r] = 0
      BY <1>0, <2>2 DEF RowNeed
    <2>4. Held' = Held
      BY <1>2, <1>4, <1>6, <2>3 DEF Working
    <2>5. QED
      BY <2>1, <2>4 DEF Trades, Working
  <1>9. QED
    BY <1>7, <1>8

\* A request that writes a booking not yet, or no longer, accepted moves no seat.
LEMMA BookAndUndoTrade ==
  ASSUME NEW q \in Requests, Working(q), BookInsert(q) \/ AcceptUndo(q)
  PROVE  Trades
  <1> PICK r \in Riders : r = request[q].rider
    BY DEF Working, Orderly, History, Wellformed, RequestOK, OwnSteps, BookInsert, AcceptUndo
  <1>0. /\ participant \in [Riders -> Booking]
        /\ request \in [Requests -> Request]
        /\ r = request[q].rider /\ r # NoRider
        /\ request[q].at \in {"book_insert", "accept_undo"}
        /\ request'[q] = Idle /\ available_seats' = available_seats
    BY RequestsAssumption
    DEF Working, Orderly, History, Wellformed, TypeOK, BookInsert, AcceptUndo, Answers
  <1>1. \A s \in Riders \ {r} : participant'[s] = participant[s]
    BY <1>0 DEF BookInsert, AcceptUndo
  <1>2. \A s \in Riders \ {r} : AtAccept(q, s)' = AtAccept(q, s)
    BY <1>0 DEF AtAccept, Idle, AcceptSteps
  <1>3. \A p \in Requests \ {q} :
           \/ request[p].at # "cancel_booking"
           \/ participant'[request[p].rider].passengers = participant[request[p].rider].passengers
    <2>1. ASSUME NEW p \in Requests \ {q}, request[p].at = "cancel_booking"
          PROVE  request[p].rider \in Riders \ {r}
      BY <1>0, <2>1 DEF Working, Orderly, Exclusive, OwnSteps, History, Wellformed, RequestOK
    <2>2. QED
      BY <1>1, <2>1
  <1>4. RowNeed'[r] = RowNeed[r]
    <2>1. CASE participant' = participant /\ BookInsert(q)
      BY <1>0, <2>1, RowStays DEF AtAccept, AcceptSteps, BookInsert, Idle, Working
    <2>2. CASE participant' # participant /\ BookInsert(q)
      <3>1. participant[r].status = "none" /\ participant'[r].status = "requested"
        BY <1>0, <2>2 DEF BookInsert
      <3>2. QED
        BY <3>1 DEF RowNeed
    <2>3. CASE AcceptUndo(q)
      <3>1. BeingAccepted(r) /\ participant'[r].status # "accepted"
        BY <1>0, <2>3 DEF AcceptUndo, BeingAccepted, Booking
      <3>2. QED
        BY <3>1 DEF RowNeed
    <2>4. QED
      BY <2>1, <2>2, <2>3
  <1>5. RequestNeed[q] = 0 /\ RequestNeed'[q] = 0
    BY <1>0 DEF RequestNeed, Idle
  <1>6. Held' = Held - RowNeed[r] + RowNeed'[r] - RequestNeed[q] + RequestNeed'[q]
    BY <1>1, <1>2, <1>3, OneBooking DEF Working
  <1>7. Held' = Held
    <2>1. RowNeed[r] \in Nat
      BY SeatsAssumption DEF Working, NeedsOK
    <2>2. QED
      BY <1>4, <1>5, <1>6, <2>1 DEF Working
  <1>8. QED
    BY <1>0, <1>7 DEF Trades, Working

\* A cancelled booking passes its claim on to the request that cancelled it.
LEMMA RiderCancelBookingTrade ==
  ASSUME NEW q \in Requests, Working(q), RiderCancelBooking(q)
  PROVE  Trades
  <1> PICK r \in Riders, k \in Party :
        r = request[q].rider /\ k = request[q].passengers
    BY DEF Working, Orderly, History, Wellformed, RequestOK, OwnSteps, RiderCancelBooking
  <1>0. /\ participant \in [Riders -> Booking]
        /\ request \in [Requests -> Request]
        /\ r = request[q].rider /\ k = request[q].passengers /\ k \in Nat
        /\ request[q].at = "cancel_booking" /\ available_seats' = available_seats
    BY SeatsAssumption
    DEF Working, Orderly, History, Wellformed, TypeOK, RiderCancelBooking, Party
  <1>1. participant[r].status = "accepted" /\ participant[r].passengers \in Nat
    BY <1>0, SeatsAssumption
    DEF Working, Orderly, FindsAccepted, AcceptSteps, Booking
  <1>2. participant'[r].status = "cancelled" /\ \A s \in Riders \ {r} : participant'[s] = participant[s]
    BY <1>0, <1>1 DEF RiderCancelBooking
  <1>3. /\ request'[q].at = "cancel_release" /\ request'[q].rider = r
        /\ request'[q].passengers = k
    BY <1>0 DEF RiderCancelBooking, Goes, Request
  <1>4. ~BeingAccepted(r)
    BY <1>0 DEF BeingAccepted, Working, Orderly, Exclusive, OwnSteps
  <1>5. RowNeed[r] = participant[r].passengers /\ RowNeed'[r] = 0
    BY <1>1, <1>2, <1>4 DEF RowNeed
  <1>6. /\ RequestNeed[q] = IF k > participant[r].passengers THEN k - participant[r].passengers
                                                              ELSE 0
        /\ RequestNeed'[q] = k
    BY <1>0, <1>3 DEF RequestNeed
  <1>7. \A p \in Requests \ {q} :
           \/ request[p].at # "cancel_booking"
           \/ participant'[request[p].rider].passengers = participant[request[p].rider].passengers
    <2>1. ASSUME NEW p \in Requests \ {q}, request[p].at = "cancel_booking"
          PROVE  request[p].rider \in Riders \ {r}
      BY <1>0, <2>1 DEF Working, Orderly, Exclusive, OwnSteps, History, Wellformed, RequestOK
    <2>2. QED
      BY <1>2, <2>1
  <1>8. /\ Held' = Held - RowNeed[r] + RowNeed'[r] - RequestNeed[q] + RequestNeed'[q]
        /\ Held >= RowNeed[r] + RequestNeed[q]
    BY <1>0, <1>2, <1>3, <1>7, OneBooking DEF Working, AtAccept, AcceptSteps
  <1> DEFINE lost == RowNeed[r] + RequestNeed[q] - k
  <1>9. lost \in 0..Held /\ Held' = Held - lost
    BY <1>0, <1>1, <1>5, <1>6, <1>8 DEF Working
  <1>10. \E j \in 0..Held : available_seats' = available_seats /\ Held' = Held - j
    BY <1>0, <1>9
  <1>11. QED
    BY <1>10 DEF Trades

\* What is released goes back on offer.
LEMMA RiderCancelReleaseTrade ==
  ASSUME NEW q \in Requests, Working(q), RiderCancelRelease(q)
  PROVE  Trades
  <1> PICK k \in Party : k = request[q].passengers
    BY DEF Working, Orderly, History, Wellformed, RequestOK, RiderCancelRelease
  <1>0. /\ request \in [Requests -> Request]
        /\ k \in Nat /\ k = request[q].passengers /\ request[q].at = "cancel_release"
        /\ request'[q].at = "promote_read" /\ participant' = participant
        /\ available_seats' = available_seats + k
    BY SeatsAssumption
    DEF Working, Orderly, History, Wellformed, TypeOK, RiderCancelRelease, StartsPromotion, Idle, Party
  <1>1. RequestNeed[q] = k /\ RequestNeed'[q] = 0
    BY <1>0 DEF RequestNeed
  <1>2. Held' = Held - RequestNeed[q] + RequestNeed'[q] /\ Held >= RequestNeed[q]
    BY <1>0, NoBookingTouched DEF Working, AcceptSteps
  <1>3. k \in 0..Held /\ Held' = Held - k
    BY <1>0, <1>1, <1>2 DEF Working
  <1>4. QED
    BY <1>0, <1>3 DEF Trades

\* A promotion that gets its seats carries them to the booking it will write.
LEMMA PromoteTakeTrade ==
  ASSUME NEW q \in Requests, Working(q), PromoteTake(q)
  PROVE  Trades
  <1> PICK k \in Party : k = request[q].passengers
    BY DEF Working, Orderly, History, Wellformed, RequestOK, PromoteTake
  <1>0. /\ request \in [Requests -> Request]
        /\ k \in Nat /\ k = request[q].passengers /\ request[q].at = "promote_take"
        /\ participant' = participant
    BY SeatsAssumption DEF Working, Orderly, History, Wellformed, TypeOK, PromoteTake, Party
  <1>1. CASE request'[q] = Idle /\ available_seats' = available_seats
    <2>1. RequestNeed[q] = 0 /\ RequestNeed'[q] = 0
      BY <1>0, <1>1 DEF RequestNeed, Idle
    <2>2. QED
      BY <1>0, <1>1, <2>1, ReadsTrade DEF AcceptSteps, Idle
  <1>2. CASE /\ request'[q].at = "promote_book" /\ request'[q].passengers = k
             /\ TakeAllowed(k) /\ available_seats' = Without(k)
    <2>1. RequestNeed[q] = 0 /\ RequestNeed'[q] = k
      BY <1>0, <1>2 DEF RequestNeed
    <2>2. Held' = Held - RequestNeed[q] + RequestNeed'[q]
      BY <1>0, <1>2, NoBookingTouched DEF Working, AcceptSteps
    <2>3. Held' = Held + k /\ k \in 0..available_seats /\ available_seats' = available_seats - k
      BY <1>0, <1>2, <2>1, <2>2 DEF Working, TakeAllowed, Without
    <2>4. QED
      BY <2>3 DEF Trades
  <1>3. QED
    BY <1>0, <1>1, <1>2 DEF PromoteTake, Goes, Answers, Request

\* Two holders' seats change.
LEMMA SlotsUpdateTwo ==
  ASSUME NEW A, IsFiniteSet(A), NEW n \in [A -> 0..MaxParty], NEW m \in [A -> 0..MaxParty],
         NEW a \in A, NEW b \in A \ {a}, \A c \in A \ {a, b} : m[c] = n[c]
  PROVE  /\ Cardinality(Slots(A, m)) = Cardinality(Slots(A, n)) - n[a] + m[a] - n[b] + m[b]
         /\ Cardinality(Slots(A, n)) >= n[a] + n[b]
  <1> DEFINE zero == [n EXCEPT ![a] = 0]
             mid == [n EXCEPT ![a] = m[a]]
  <1>1. /\ zero \in [A -> 0..MaxParty] /\ zero[a] = 0 /\ zero[b] = n[b]
        /\ \A c \in A \ {a} : zero[c] = n[c]
    BY SeatsAssumption
  <1>2. /\ mid \in [A -> 0..MaxParty] /\ mid[a] = m[a] /\ mid[b] = n[b]
        /\ \A c \in A \ {a} : mid[c] = n[c]
        /\ \A c \in A \ {b} : m[c] = mid[c]
    OBVIOUS
  <1> HIDE DEF zero, mid
  <1>3. Cardinality(Slots(A, zero)) = Cardinality(Slots(A, n)) - n[a] + zero[a]
    BY <1>1, SlotsUpdate
  <1>4. Cardinality(Slots(A, zero)) >= zero[b]
    <2>1. \A c \in A \ {b} : zero[c] = zero[c]
      OBVIOUS
    <2>2. QED
      BY <1>1, <2>1, SlotsUpdate
  <1>5. Cardinality(Slots(A, mid)) = Cardinality(Slots(A, n)) - n[a] + mid[a]
    BY <1>2, SlotsUpdate
  <1>6. Cardinality(Slots(A, m)) = Cardinality(Slots(A, mid)) - mid[b] + m[b]
    BY <1>2, SlotsUpdate
  <1>7. /\ Cardinality(Slots(A, n)) \in Nat
        /\ n[a] \in Nat /\ n[b] \in Nat /\ m[a] \in Nat /\ m[b] \in Nat
    BY SlotsFinite, SeatsAssumption
  <1>8. QED
    BY <1>1, <1>2, <1>3, <1>4, <1>5, <1>6, <1>7

\* Two requests change what they carry.
LEMMA TwoRequestsChange ==
  ASSUME NeedsOK, NeedsOK', NEW q \in Requests, NEW p \in Requests \ {q},
         \A o \in Requests \ {q, p} : RequestNeed'[o] = RequestNeed[o]
  PROVE  /\ HeldByRequests' = HeldByRequests - RequestNeed[q] + RequestNeed'[q]
                                             - RequestNeed[p] + RequestNeed'[p]
         /\ HeldByRequests >= RequestNeed[q] + RequestNeed[p]
  <1>1. RequestNeed \in [Requests -> 0..MaxParty] /\ RequestNeed' \in [Requests -> 0..MaxParty]
    BY DEF NeedsOK
  <1>2. /\ Cardinality(Slots(Requests, RequestNeed'))
             = Cardinality(Slots(Requests, RequestNeed)) - RequestNeed[q] + RequestNeed'[q]
                                                         - RequestNeed[p] + RequestNeed'[p]
        /\ Cardinality(Slots(Requests, RequestNeed)) >= RequestNeed[q] + RequestNeed[p]
    BY <1>1, SlotsUpdateTwo, RequestsAssumption
  <1>3. HeldByRequests' = Cardinality(Slots(Requests, RequestNeed'))
    BY DEF HeldByRequests, Slots
  <1>4. QED
    BY <1>2, <1>3 DEF HeldByRequests

\* What is gone from a sum when its part a becomes b, at most n, and its part n is
\* written off.
LEMMA LossOf ==
  ASSUME NEW h \in Nat, NEW a \in Nat, NEW n \in Nat, NEW b \in {0, n}, NEW g,
         h >= a + n, g = h - a + b - n + 0
  PROVE  \E k \in 0..h : g = h - k
  <1>1. a + n - b \in 0..h /\ g = h - (a + n - b)
    OBVIOUS
  <1>2. QED
    BY <1>1

\* A promoted booking takes over the seats its request carries; a claim the rider
\* had before, or was giving up just then, is lost with the row it stood in.
LEMMA PromoteBookTrade ==
  ASSUME NEW q \in Requests, Working(q), PromoteBook(q)
  PROVE  Trades
  <1> PICK r \in Riders, n \in Party :
        r = request[q].rider /\ n = request[q].passengers
    BY DEF Working, Orderly, History, Wellformed, RequestOK, PromoteBook
  <1>0. /\ participant \in [Riders -> Booking]
        /\ request \in [Requests -> Request]
        /\ r = request[q].rider /\ n = request[q].passengers /\ n \in Nat
        /\ request[q].at = "promote_book" /\ request'[q].at = "promote_mark"
        /\ available_seats' = available_seats
        /\ participant'[r] = [status |-> "accepted", passengers |-> n]
        /\ \A s \in Riders \ {r} : participant'[s] = participant[s]
    BY SeatsAssumption
    DEF Working, Orderly, History, Wellformed, TypeOK, PromoteBook, Party, Goes
  <1>1. BeingAccepted(r)' = BeingAccepted(r)
    BY <1>0 DEF BeingAccepted, Working, OthersStay
  <1>2. /\ RowNeed[r] \in Nat /\ RowNeed'[r] \in {0, n}
        /\ RequestNeed[q] = n /\ RequestNeed'[q] = 0
    BY <1>0, SeatsAssumption DEF RowNeed, RequestNeed, Working, NeedsOK
  <1>3. \A s \in Riders \ {r} : AtAccept(q, s)' = AtAccept(q, s)
    BY <1>0 DEF AtAccept, AcceptSteps
  <1>4. CASE \A p \in Requests \ {q} :
               request[p].at = "cancel_booking" => request[p].rider # r
    <2>1. \A p \in Requests \ {q} :
             \/ request[p].at # "cancel_booking"
             \/ participant'[request[p].rider].passengers = participant[request[p].rider].passengers
      BY <1>0, <1>4 DEF Working, Orderly, OwnSteps, History, Wellformed, RequestOK
    <2>2. /\ Held' = Held - RowNeed[r] + RowNeed'[r] - RequestNeed[q] + RequestNeed'[q]
          /\ Held >= RowNeed[r] + RequestNeed[q]
      BY <1>0, <1>3, <2>1, OneBooking DEF Working
    <2>3. Held \in Nat /\ Held' = Held - RowNeed[r] + RowNeed'[r] - n + 0 /\ Held >= RowNeed[r] + n
      BY <1>2, <2>2 DEF Working
    <2>4. \E k \in 0..Held : available_seats' = available_seats /\ Held' = Held - k
      BY <1>0, <1>2, <2>3, LossOf
    <2>5. QED
      BY <2>4 DEF Trades
  <1>5. ASSUME NEW p \in Requests \ {q}, request[p].at = "cancel_booking", request[p].rider = r
        PROVE  Trades
    <2>1. request'[p] = request[p]
      BY DEF Working, OthersStay
    <2>2. ~BeingAccepted(r)
      BY <1>0, <1>5 DEF BeingAccepted, Working, Orderly, Exclusive, OwnSteps
    <2> PICK k \in Nat, o \in Nat :
          k = request[p].passengers /\ o = participant[r].passengers
      BY <1>0, SeatsAssumption DEF Request, Booking
    <2>3. participant[r].status = "accepted"
      BY <1>5 DEF Working, Orderly, FindsAccepted
    <2>4. RowNeed[r] = o /\ RowNeed'[r] = n
      BY <1>0, <1>1, <2>2, <2>3 DEF RowNeed
    <2>5. /\ RequestNeed[p] = IF k > o THEN k - o ELSE 0
          /\ RequestNeed'[p] = IF k > n THEN k - n ELSE 0
      BY <1>0, <1>5, <2>1 DEF RequestNeed
    <2>6. ASSUME NEW s \in Requests \ {p, q} PROVE RequestNeed'[s] = RequestNeed[s]
      <3>1. request[s].at = "cancel_booking" => request[s].rider \in Riders \ {r}
        BY <1>5 DEF Working, Orderly, Exclusive, OwnSteps, History, Wellformed, RequestOK
      <3>2. QED
        BY <1>0, <3>1, RequestStays DEF Working
    <2>7. /\ HeldByRequests' = HeldByRequests - RequestNeed[q] + RequestNeed'[q]
                                              - RequestNeed[p] + RequestNeed'[p]
          /\ HeldByRequests >= RequestNeed[q] + RequestNeed[p]
      BY <2>6, TwoRequestsChange DEF Working
    <2>8. \A s \in Riders \ {r} : RowNeed'[s] = RowNeed[s]
      BY <1>0, <1>3, RowStays DEF Working
    <2>9. HeldByRows' = HeldByRows - RowNeed[r] + RowNeed'[r] /\ HeldByRows >= RowNeed[r]
      BY <2>8, RowsChange DEF Working
    <2>10. /\ HeldByRows \in Nat /\ HeldByRequests \in Nat /\ Held = HeldByRows + HeldByRequests
           /\ Held' = HeldByRows' + HeldByRequests'
      BY HeldIsNat DEF Working, Held, HeldByRows, HeldByRequests
    <2> DEFINE lost == o + RequestNeed[p] - RequestNeed'[p]
    <2>11. Held' = Held - lost
      BY <1>0, <1>2, <2>4, <2>5, <2>7, <2>9, <2>10
    <2>12. lost \in 0..Held
      BY SMTT(20), <1>0, <1>2, <2>4, <2>5, <2>7, <2>9, <2>10
    <2>13. \E j \in 0..Held : available_seats' = available_seats /\ Held' = Held - j
      BY <1>0, <2>11, <2>12
    <2>14. QED
      BY <2>13 DEF Trades
  <1>6. QED
    BY <1>4, <1>5

\* The other statements of a request move no seat of an open trip.
Others(q) ==
    \/ PromoteRead(q) \/ PromotePick(q) \/ PromoteMark(q)
    \/ WaitlistJoinCheck(q) \/ WaitlistJoinInsert(q)
    \/ TripCancel(q) \/ TripComplete(q)

LEMMA OthersTrade ==
  ASSUME NEW q \in Requests, Working(q), Others(q)
  PROVE  Trades /\ Held' = Held /\ available_seats' = available_seats
  <1>0. /\ request \in [Requests -> Request] /\ participant' = participant
        /\ available_seats' = available_seats
        /\ request[q].at \in {"promote_read", "promote_pick", "promote_mark", "waitlist_check",
                              "waitlist_insert", "trip_cancel", "trip_complete"}
    BY DEF Working, Orderly, History, Wellformed, TypeOK, Others, PromoteRead, PromotePick,
           PromoteMark, WaitlistJoinCheck, WaitlistJoinInsert, TripCancel, TripComplete
  <1>1. request'[q].at \in {"idle", "promote_pick", "promote_take", "waitlist_insert",
                            "trip_cancel_riders", "trip_complete_riders"}
    BY <1>0 DEF Others, PromoteRead, PromotePick, PromoteMark, WaitlistJoinCheck,
           WaitlistJoinInsert, TripCancel, TripComplete, Goes, Answers, Idle, Request
  <1>2. RequestNeed[q] = 0 /\ RequestNeed'[q] = 0
    BY <1>0, <1>1 DEF RequestNeed
  <1>3. QED
    BY <1>0, <1>1, <1>2, ReadsTrade DEF AcceptSteps

\* A request that dies loses what it carries.
LEMMA AbortTrade ==
  ASSUME NEW q \in Requests, Working(q), Abort(q)
  PROVE  Trades
  <1>1. /\ participant' = participant /\ available_seats' = available_seats
        /\ request[q].at \notin AcceptSteps /\ request'[q] = Idle
    BY DEF Abort, Answers, Working, Disciplined, Orderly, History, Wellformed, TypeOK
  <1>2. RequestNeed'[q] = 0 /\ RequestNeed[q] \in Nat
    BY <1>1, SeatsAssumption DEF RequestNeed, Idle, Working, NeedsOK
  <1>3. QED
    BY <1>1, <1>2, ReadsTrade DEF AcceptSteps, Idle

\* Only those two statements close an open trip, and no statement clears its roster.
LEMMA RosterStatementsWait ==
  ASSUME NEW q \in Requests, Working(q)
  PROVE  ~TripCancelRiders(q) /\ ~TripCompleteRiders(q)
  BY DEF Working, Orderly, ClosesFirst, History, Traced, Open, OpenStatuses,
         TripCancelRiders, TripCompleteRiders

LEMMA RequestsTrade ==
  ASSUME NEW q \in Requests, Working(q), Arrive(q) \/ Proceed(q) \/ Abort(q)
  PROVE  /\ Trades
         /\ ~Open' => Held' = Held /\ available_seats' = available_seats
  <1>1. Trades
    BY ArrivalsTrade, AbortTrade, AcceptSeatsTrade, BookAndUndoTrade, RiderCancelBookingTrade,
       RiderCancelReleaseTrade, PromoteTakeTrade, PromoteBookTrade, OthersTrade,
       RosterStatementsWait DEF Proceed, Others
  <1>2. ASSUME ~Open' PROVE TripCancel(q) \/ TripComplete(q)
    <2>1. trip_status' # trip_status
      BY <1>2 DEF Working, Open
    <2>2. CASE Arrive(q)
      BY <2>1, <2>2 DEF Arrive, BookCheck, WaitlistJoinRead, AcceptBooking, RejectBooking,
                        RiderCancelRead, TripCancelRead, TripCompleteRead
    <2>3. CASE Abort(q)
      BY <2>1, <2>3 DEF Abort
    <2>4. CASE Proceed(q)
      BY <2>1, <2>4 DEF Proceed, BookInsert, AcceptSeats, AcceptUndo, RiderCancelBooking,
                RiderCancelRelease, PromoteRead, PromotePick, PromoteTake, PromoteBook,
                PromoteMark, WaitlistJoinCheck, WaitlistJoinInsert, TripCancelRiders,
                TripCompleteRiders
    <2>5. QED
      BY <2>2, <2>3, <2>4
  <1>3. QED
    BY <1>1, <1>2, OthersTrade DEF Others

-----------------------------------------------------------------------------
(* The theorems                                                            *)

\* A step that touches neither bookings nor requests moves no seat.
LEMMA NothingMoves ==
  ASSUME UNCHANGED <<participant, request, available_seats>>
  PROVE  UNCHANGED <<available_seats, Held>>
  <1>1. \A r \in Riders : BeingAccepted(r)' = BeingAccepted(r)
    BY DEF BeingAccepted
  <1>2. RowNeed' = RowNeed /\ RequestNeed' = RequestNeed
    BY <1>1 DEF RowNeed, RequestNeed
  <1>3. QED
    BY <1>2 DEF Held, Slots

\* Both counts are numbers.
CountsOK == available_seats \in Nat /\ Held \in Nat

LEMMA Counts == Wellformed => CountsOK
  BY Needs, HeldIsNat, SeatsAssumption DEF Wellformed, TypeOK, CountsOK

LEMMA CountsNext == Wellformed' => CountsOK'
  BY Counts, PTL

\* Every step of the trip is a step of the pool, or moves no seat.
LEMMA StepsArePooled ==
  ASSUME Disciplined, Orderly, Orderly', [Next]_vars
  PROVE  [Pool!Next]_(Pool!vars)
  <1> USE DEF Pool!Next, Pool!Trade, Pool!Close, Pool!Closed, Pool!Reserve, Pool!Return,
              Pool!Lose, Pool!vars
  <1>1. /\ available_seats \in Nat /\ Held \in Nat
        /\ available_seats' \in Nat /\ Held' \in Nat
        /\ NeedsOK /\ NeedsOK'
    BY Counts, CountsNext, Needs, NeedsNext DEF Orderly, History, CountsOK
  <1>2. Open \in BOOLEAN /\ Open' \in BOOLEAN
    BY DEF Open
  <1>3. CASE ~Open
    <2>1. ~Open'
      BY <1>3, StepsAreOK DEF Orderly, History, StepOK, Open
    <2>2. QED
      BY <1>1, <1>2, <1>3, <2>1
  <1>4. ASSUME NEW q \in Requests, Arrive(q) \/ Proceed(q) \/ Abort(q), Open
        PROVE  [Pool!Next]_(Pool!vars)
    <2>1. OthersStay(q)
      BY <1>4, OthersDoStay DEF Orderly, History, Wellformed
    <2>2. Working(q)
      BY <1>1, <1>4, <2>1 DEF Working
    <2>3. /\ Trades
          /\ ~Open' => Held' = Held /\ available_seats' = available_seats
      BY <1>4, <2>2, RequestsTrade
    <2>4. CASE ~Open'
      BY <1>2, <1>4, <2>3, <2>4
    <2>5. CASE Open'
      BY <1>1, <1>2, <1>4, <2>3, <2>5 DEF Trades
    <2>6. QED
      BY <2>4, <2>5
  <1>5. CASE UNCHANGED <<trip_status, participant, request, available_seats>>
    BY <1>5, NothingMoves DEF Open
  <1>6. QED
    BY <1>3, <1>4, <1>5 DEF Next, vars, WaitlistLeave

\* At first all claims are 0.
LEMMA PoolInit == Init => Pool!Init
  <1> SUFFICES ASSUME Init PROVE Pool!Init
    OBVIOUS
  <1>1. \A r \in Riders : RowNeed[r] = 0
    BY DEF Init, RowNeed, NoBooking
  <1>2. \A q \in Requests : RequestNeed[q] = 0
    BY DEF Init, RequestNeed, Idle
  <1>3. Slots(Riders, RowNeed) = {} /\ Slots(Requests, RequestNeed) = {}
    BY <1>1, <1>2, SeatsAssumption DEF Slots, Party
  <1>4. Held = 0
    BY <1>3, FS_EmptySet DEF Held
  <1>5. QED
    BY <1>4 DEF Init, Pool!Init, Open, OpenStatuses

LEMMA AlwaysOrderly ==
  ASSUME OneRequestPerRider
  PROVE  Spec => []Orderly
  <1>1. Orderly /\ [Next]_vars => Orderly'
    BY OrderlyStep
  <1>2. QED
    BY <1>1, OrderlyInit, PTL DEF Spec

\* The handlers' seat arithmetic (trips.ts:400, :402, :916, :984 and the rest of
\* the statements that write available_seats) is that of a pool from which seats
\* are taken and to which they return.
THEOREM SeatsImplementPool == Disciplined => (Spec => SeatsArePooled)
  <1> SUFFICES ASSUME Disciplined PROVE Spec => SeatsArePooled
    OBVIOUS
  <1>1. Spec => []Orderly
    BY AlwaysOrderly DEF Disciplined
  <1>2. Orderly /\ Orderly' /\ [Next]_vars => [Pool!Next]_(Pool!vars)
    BY StepsArePooled
  <1>3. QED
    BY <1>1, <1>2, PoolInit, PTL DEF Spec, SeatsArePooled, Pool!Spec

\* What the pool promises follows from its own steps...
PoolFits == Open => available_seats + Held <= TotalSeats

LEMMA PoolFitsInit == Pool!Init => PoolFits
  BY SeatsAssumption DEF Pool!Init, PoolFits

LEMMA TradeFits ==
  ASSUME NEW f \in Nat, NEW h \in Nat, NEW f2 \in Nat, NEW h2 \in Nat, f + h <= TotalSeats,
         \/ \E n \in 1..f : f2 = f - n /\ h2 = h + n
         \/ \E n \in 1..h : f2 = f + n /\ h2 = h - n
         \/ \E n \in 1..h : f2 = f /\ h2 = h - n
  PROVE  f2 + h2 <= TotalSeats
  BY SeatsAssumption

LEMMA PoolFitsStep ==
  ASSUME Wellformed, Wellformed', PoolFits, [Pool!Next]_(Pool!vars)
  PROVE  PoolFits'
  <1>1. CountsOK /\ CountsOK'
    BY Counts, CountsNext
  <1>2. CASE Open' /\ Pool!Trade
    <2>1. Open
      BY <1>2 DEF Pool!Trade
    <2>2. available_seats + Held <= TotalSeats
      BY <2>1 DEF PoolFits
    <2>3. available_seats' + Held' <= TotalSeats
      <3>1. /\ available_seats \in Nat /\ Held \in Nat
            /\ available_seats' \in Nat /\ Held' \in Nat
        BY <1>1 DEF CountsOK
      <3>2. \/ \E n \in 1..available_seats :
                 available_seats' = available_seats - n /\ Held' = Held + n
            \/ \E n \in 1..Held : available_seats' = available_seats + n /\ Held' = Held - n
            \/ \E n \in 1..Held : available_seats' = available_seats /\ Held' = Held - n
        BY <1>2 DEF Pool!Trade, Pool!Reserve, Pool!Return, Pool!Lose
      <3>3. QED
        BY <2>2, <3>1, <3>2, TradeFits
    <2>4. QED
      BY <2>3 DEF PoolFits
  <1>3. CASE ~Open'
    BY <1>3 DEF PoolFits
  <1>4. CASE UNCHANGED Pool!vars
    BY <1>4 DEF PoolFits, Pool!vars
  <1>5. CASE Pool!Close \/ Pool!Closed
    BY <1>5 DEF PoolFits, Pool!Close, Pool!Closed
  <1>6. QED
    BY <1>2, <1>3, <1>4, <1>5 DEF Pool!Next

\* ...and the seated passengers are among those with a claim.
LEMMA SeatedHold ==
  ASSUME Wellformed, PoolFits
  PROVE  NoOverbooking
  <1>1. SeatedPassengers = Slots(Riders, RowNeed)
    <2>1. ASSUME NEW s \in Riders \X Party
          PROVE  s \in SeatedPassengers <=> s \in Slots(Riders, RowNeed)
      BY <2>1, SeatsAssumption DEF SeatedPassengers, Slots, RowNeed, Party
    <2>2. QED
      BY <2>1 DEF SeatedPassengers, Slots
  <1>2. HeldByRows \in Nat /\ HeldByRequests \in Nat /\ Held = HeldByRows + HeldByRequests
    BY Needs, HeldIsNat
  <1>3. Open => available_seats + HeldByRows <= TotalSeats
    BY <1>2, Counts, SeatsAssumption DEF PoolFits, CountsOK
  <1>4. QED
    BY <1>1, <1>3 DEF NoOverbooking, HeldByRows

\* No trip is overbooked, however many riders and requests there are.
THEOREM NeverOverbooked == Disciplined => (Spec => []NoOverbooking)
  <1> SUFFICES ASSUME Disciplined PROVE Spec => []NoOverbooking
    OBVIOUS
  <1>1. Spec => []Orderly
    BY AlwaysOrderly DEF Disciplined
  <1>2. Orderly => Wellformed
    BY DEF Orderly, History
  <1>3. Orderly /\ Orderly' /\ [Next]_vars => [Pool!Next]_(Pool!vars)
    BY StepsArePooled
  <1>4. Orderly /\ Orderly' /\ PoolFits /\ [Next]_vars => PoolFits'
    BY <1>2, <1>3, PoolFitsStep DEF Orderly, History
  <1>5. Init => PoolFits
    BY PoolInit, PoolFitsInit
  <1>6. Orderly /\ PoolFits => NoOverbooking
    BY <1>2, SeatedHold
  <1>7. QED
    BY <1>1, <1>4, <1>5, <1>6, PTL DEF Spec

=============================================================================
