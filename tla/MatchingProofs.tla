--------------------------- MODULE MatchingProofs ---------------------------
(***************************************************************************)
(* Theorems about Matching, for every set of trips, riders and calls, and  *)
(* about the pure part of the matching engine, PoolOptimizer, for every    *)
(* route and every place of the riders.  The second half needs induction   *)
(* over the lengths of sequences; it rests on a first-order form of it,    *)
(* the lemma Induction.                                                    *)
(***************************************************************************)
EXTENDS Matching, PoolOptimizer, FiniteSetTheorems, SequenceTheorems, TLAPS

-----------------------------------------------------------------------------
(* The local variables of a call                                           *)

\* Where a call still uses them, the trip and the rider are there.
LocalsOK(v) ==
    /\ v.at \in ConfirmSteps \union {"reject_match", "save_match", "batch_mark"}
         => v.rider \in Riders
    /\ v.at \in ConfirmSteps \union {"reject_match"} => v.trip \in Trips

CallOK == \A c \in Calls : LocalsOK(call[c])

\* An idle slot carries nothing.
LEMMA IdleOK == Idle \in Call /\ LocalsOK(Idle)
  BY MatchingAssumption DEF Idle, Call, Steps, ConfirmSteps, SearchSteps, LocalsOK

\* A step of one call leaves the others alone.
LEMMA OneCall ==
  ASSUME call \in [Calls -> Call], CallOK, NEW c \in Calls, NEW v \in Call, LocalsOK(v),
         call' = [call EXCEPT ![c] = v]
  PROVE  call' \in [Calls -> Call] /\ CallOK'
  BY DEF CallOK, LocalsOK

\* A call that moves on to a statement for the same trip and rider, or answers.
LEMMA Moves ==
  ASSUME call \in [Calls -> Call], CallOK, NEW c \in Calls,
         \/ Answers(c)
         \/ \E s \in {"batch_next", "confirm_match", "confirm_request", "confirm_release"} :
              Goes(c, s) /\ (s = "batch_next" \/ call[c].at \in ConfirmSteps)
  PROVE  call' \in [Calls -> Call] /\ CallOK'
  <1>1. CASE Answers(c)
    BY <1>1, IdleOK, OneCall DEF Answers
  <1>2. ASSUME NEW s \in {"batch_next", "confirm_match", "confirm_request", "confirm_release"},
               Goes(c, s), s = "batch_next" \/ call[c].at \in ConfirmSteps
        PROVE  call' \in [Calls -> Call] /\ CallOK'
    <2> DEFINE v == [call[c] EXCEPT !.at = s]
    <2>1. v \in Call
      BY DEF Call, Steps, ConfirmSteps, SearchSteps
    <2>2. LocalsOK(v)
      BY <1>2 DEF CallOK, LocalsOK, Call, ConfirmSteps
    <2>3. call' = [call EXCEPT ![c] = v]
      BY <1>2 DEF Goes
    <2> HIDE DEF v
    <2>4. QED
      BY <2>1, <2>2, <2>3, OneCall
  <1>3. QED
    BY <1>1, <1>2

\* A call that starts with a trip, a rider and a match it has read.
LEMMA Begins ==
  ASSUME call \in [Calls -> Call], CallOK, NEW c \in Calls,
         NEW s \in {"confirm_reserve", "reject_match"}, NEW t \in Trips, NEW r \in Riders,
         NEW id \in 0..MaxSaves,
         Starts(c, [Idle EXCEPT !.at = s, !.trip = t, !.rider = r, !.id = id])
  PROVE  call' \in [Calls -> Call] /\ CallOK'
  <1> DEFINE v == [Idle EXCEPT !.at = s, !.trip = t, !.rider = r, !.id = id]
  <1>1. v \in Call /\ LocalsOK(v)
    BY DEF Idle, Call, Steps, ConfirmSteps, SearchSteps, LocalsOK
  <1>2. call' = [call EXCEPT ![c] = v]
    BY DEF Starts
  <1> HIDE DEF v
  <1>3. QED
    BY <1>1, <1>2, OneCall

-----------------------------------------------------------------------------
(* Type correctness                                                        *)

\* A request that is called matched, or about to be, has a row.
HasMatch(r) == \E t \in Trips : match[<<t, r>>].id # 0
MarksOK == \A c \in Calls : call[c].at = "batch_mark" => HasMatch(call[c].rider)

Wellformed == TypeOK /\ CallOK /\ MarksOK /\ MatchedHasMatch

\* Before the first call nothing is matched.
LEMMA WellformedInit == Init => Wellformed
  <1> SUFFICES ASSUME Init PROVE Wellformed
    OBVIOUS
  <1>1. TypeOK
    BY MatchingAssumption, IdleOK DEF Init, NewTrips, NewRequest, TypeOK, DriverTrip, RiderRequest, Match
  <1>2. CallOK /\ MarksOK /\ MatchedHasMatch
    BY IdleOK DEF Init, NewTrips, NewRequest, CallOK, MarksOK, MatchedHasMatch, Idle
  <1>3. QED
    BY <1>1, <1>2 DEF Wellformed

\* A find, batch, confirm or reject that starts keeps the calls well formed.
LEMMA CallsArrive ==
  ASSUME TypeOK, CallOK, NEW c \in Calls, Arrive(c)
  PROVE  call' \in [Calls -> Call] /\ CallOK'
  <1> USE DEF TypeOK
  <1>1. ASSUME NEW r \in Riders, Find(c, r) PROVE call' \in [Calls -> Call] /\ CallOK'
    <2>1. PICK found \in SUBSET Candidates \ {{}} :
            Starts(c, [Idle EXCEPT !.at = "save_match", !.rider = r, !.found = found])
      BY <1>1 DEF Find
    <2> DEFINE v == [Idle EXCEPT !.at = "save_match", !.rider = r, !.found = found]
    <2>2. found \subseteq Trips
      BY DEF Candidates
    <2>3. v \in Call /\ LocalsOK(v)
      BY <2>2, IdleOK DEF Call, Steps, ConfirmSteps, SearchSteps, LocalsOK
    <2>4. call' = [call EXCEPT ![c] = v]
      BY <2>1 DEF Starts
    <2> HIDE DEF v
    <2>5. QED
      BY <2>3, <2>4, OneCall
  <1>2. CASE BatchRead(c)
    <2> DEFINE pending == {r \in Riders : rider_request[r].status = "pending"}
    <2> DEFINE v == [Idle EXCEPT !.at = "batch_next", !.batch = TRUE, !.waiting = pending]
    <2>1. pending \subseteq Riders
      OBVIOUS
    <2>2. call' = [call EXCEPT ![c] = v]
      BY <1>2 DEF BatchRead, Starts
    <2> HIDE DEF pending
    <2>3. v \in Call /\ LocalsOK(v)
      BY <2>1, IdleOK DEF Call, Steps, ConfirmSteps, SearchSteps, LocalsOK
    <2> HIDE DEF v
    <2>4. QED
      BY <2>2, <2>3, OneCall
  <1>3. ASSUME NEW t \in Trips, NEW r \in Riders, ConfirmRead(c, t, r) \/ RejectRead(c, t, r)
        PROVE  call' \in [Calls -> Call] /\ CallOK'
    <2>1. match[<<t, r>>].id \in 0..MaxSaves
      BY DEF Match
    <2>2. QED
      BY <1>3, <2>1, Begins DEF ConfirmRead, RejectRead
  <1>4. QED
    BY <1>1, <1>2, <1>3 DEF Arrive

\* So does each later statement of one.
LEMMA CallsProceed ==
  ASSUME TypeOK, CallOK, NEW c \in Calls, Proceed(c)
  PROVE  call' \in [Calls -> Call] /\ CallOK'
  <1> USE DEF TypeOK
  <1>1. CASE SaveMatch(c)
    <2>1. PICK t \in call[c].found :
            IF call[c].found # {t}
            THEN call' = [call EXCEPT ![c].found = @ \ {t}]
            ELSE IF call[c].batch
            THEN call' = [call EXCEPT ![c].found = {}, ![c].at = "batch_mark"]
            ELSE Answers(c)
      BY <1>1 DEF SaveMatch
    <2>2. call[c].at = "save_match"
      BY <1>1 DEF SaveMatch, At
    <2>3. CASE call' = [call EXCEPT ![c].found = @ \ {t}]
      <3> DEFINE v == [call[c] EXCEPT !.found = @ \ {t}]
      <3>1. v \in Call /\ LocalsOK(v)
        BY DEF Call, LocalsOK, CallOK
      <3>2. call' = [call EXCEPT ![c] = v]
        BY <2>3
      <3> HIDE DEF v
      <3>3. QED
        BY <3>1, <3>2, OneCall
    <2>4. CASE call' = [call EXCEPT ![c].found = {}, ![c].at = "batch_mark"]
      <3> DEFINE v == [call[c] EXCEPT !.found = {}, !.at = "batch_mark"]
      <3>1. v \in Call /\ LocalsOK(v)
        BY <2>2 DEF Call, LocalsOK, CallOK, Steps, SearchSteps, ConfirmSteps
      <3>2. call' = [call EXCEPT ![c] = v]
        BY <2>4
      <3> HIDE DEF v
      <3>3. QED
        BY <3>1, <3>2, OneCall
    <2>5. QED
      BY <2>1, <2>3, <2>4, Moves
  <1>2. CASE BatchNext(c)
    <2>1. CASE Answers(c)
      BY <2>1, Moves
    <2>2. CASE ~Answers(c)
      <3>1. PICK r \in call[c].waiting, found \in SUBSET Candidates :
              call' = [call EXCEPT ![c].at = IF found = {} THEN "batch_next" ELSE "save_match",
                                   ![c].rider = r, ![c].found = found, ![c].waiting = @ \ {r}]
        BY <1>2, <2>2 DEF BatchNext
      <3> DEFINE s == IF found = {} THEN "batch_next" ELSE "save_match"
      <3> DEFINE v == [call[c] EXCEPT !.at = s, !.rider = r, !.found = found,
                                      !.waiting = @ \ {r}]
      <3>2. r \in Riders /\ found \in SUBSET Trips /\ s \in {"batch_next", "save_match"}
        BY DEF Call, Candidates
      <3>3. call' = [call EXCEPT ![c] = v]
        BY <3>1
      <3> HIDE DEF s
      <3>4. v \in Call /\ LocalsOK(v)
        BY <3>2, ZenonT(60) DEF Call, LocalsOK, Steps, SearchSteps, ConfirmSteps
      <3> HIDE DEF v
      <3>5. QED
        BY <3>3, <3>4, OneCall
    <2>3. QED
      BY <2>1, <2>2
  <1>3. CASE BatchMark(c) \/ ConfirmReserve(c) \/ ConfirmMatch(c) \/ ConfirmRequest(c)
    BY <1>3, Moves
    DEF BatchMark, ConfirmReserve, ConfirmMatch, ConfirmRequest, At, ConfirmSteps
  <1>4. CASE ConfirmRelease(c) \/ RejectMatch(c)
    BY <1>4, Moves DEF ConfirmRelease, RejectMatch
  <1>5. QED
    BY <1>1, <1>2, <1>3, <1>4 DEF Proceed

\* No statement of a call breaks the shape of a row or the seat counter's range.
LEMMA RowsOfCall ==
  ASSUME TypeOK, CallOK, NEW c \in Calls, Arrive(c) \/ Proceed(c) \/ Abort(c)
  PROVE  /\ driver_trip' \in [Trips -> DriverTrip]
         /\ rider_request' \in [Riders -> RiderRequest]
         /\ match' \in [Trips \X Riders -> Match]
         /\ saves' \in 0..MaxSaves
         /\ faults' \in 0..MaxFaults
  <1> DEFINE RowsOK == /\ driver_trip' \in [Trips -> DriverTrip]
                       /\ rider_request' \in [Riders -> RiderRequest]
                       /\ match' \in [Trips \X Riders -> Match]
                       /\ saves' \in 0..MaxSaves
                       /\ faults' \in 0..MaxFaults
  <1> USE DEF TypeOK
  <1>1. CASE Arrive(c)
    BY <1>1 DEF Arrive, Find, BatchRead, ConfirmRead, RejectRead
  <1>2. CASE Abort(c)
    BY <1>2, MatchingAssumption DEF Abort, Fails
  <1>3. ASSUME At(c, "confirm_reserve") \/ At(c, "confirm_match") \/ At(c, "confirm_request")
                 \/ At(c, "confirm_release") \/ At(c, "reject_match")
        PROVE  call[c].trip \in Trips /\ call[c].rider \in Riders
    BY <1>3 DEF At, CallOK, LocalsOK, ConfirmSteps
  <1>4. ASSUME At(c, "save_match") \/ At(c, "batch_mark") PROVE call[c].rider \in Riders
    BY <1>4 DEF At, CallOK, LocalsOK
  <1>5. CASE SaveMatch(c)
    <2>1. call[c].found \subseteq Trips
      BY DEF Call
    <2>2. QED
      BY <1>4, <1>5, <2>1, MatchingAssumption DEF SaveMatch, Match
  <1>6. CASE BatchNext(c)
    BY <1>6 DEF BatchNext
  <1>7. CASE BatchMark(c)
    BY <1>4, <1>7 DEF BatchMark, RiderRequest
  <1>8. CASE ConfirmReserve(c)
    <2> DEFINE t == call[c].trip
    <2>1. t \in Trips
      BY <1>3, <1>8 DEF ConfirmReserve
    <2>2. CASE UNCHANGED driver_trip
      BY <1>8, <2>2 DEF ConfirmReserve
    <2>3. CASE /\ driver_trip[t].available_seats > 0
               /\ driver_trip' = [driver_trip EXCEPT ![t].available_seats = @ - 1]
      <3> HIDE DEF t
      <3>1. driver_trip' \in [Trips -> DriverTrip]
        BY <2>1, <2>3, MatchingAssumption DEF DriverTrip
      <3>2. QED
        BY <1>8, <3>1 DEF ConfirmReserve
    <2>4. QED
      BY <1>8, <2>2, <2>3 DEF ConfirmReserve
  <1>9. CASE ConfirmMatch(c)
    BY <1>3, <1>9, MatchingAssumption DEF ConfirmMatch, Answer, Fails, Match
  <1>10. CASE ConfirmRequest(c)
    BY <1>3, <1>10, MatchingAssumption DEF ConfirmRequest, Fails, RiderRequest
  <1>11. CASE ConfirmRelease(c)
    BY <1>3, <1>11, MatchingAssumption DEF ConfirmRelease, Released, DriverTrip
  <1>12. CASE RejectMatch(c)
    BY <1>3, <1>12 DEF RejectMatch, Answer, Match
  <1>13. QED
    BY <1>1, <1>2, <1>5, <1>6, <1>7, <1>8, <1>9, <1>10, <1>11, <1>12 DEF Proceed

\* Where a call begins.
LEMMA ArrivesAt ==
  ASSUME TypeOK, NEW c \in Calls, Arrive(c)
  PROVE  /\ call[c].at = "idle"
         /\ call'[c].at \in {"save_match", "batch_next", "confirm_reserve", "reject_match"}
  <1> USE DEF TypeOK
  <1>1. Idle.at = "idle"
    BY DEF Idle
  <1>2. ASSUME NEW r \in Riders, Find(c, r)
        PROVE  call[c] = Idle /\ call'[c].at = "save_match"
    BY <1>2, IdleOK DEF Find, Starts, Call
  <1>3. CASE BatchRead(c)
    BY <1>1, <1>3, IdleOK DEF BatchRead, Starts, Call
  <1>4. ASSUME NEW t \in Trips, NEW r \in Riders, ConfirmRead(c, t, r) \/ RejectRead(c, t, r)
        PROVE  call[c] = Idle /\ call'[c].at \in {"confirm_reserve", "reject_match"}
    <2>1. CASE ConfirmRead(c, t, r)
      BY <2>1, IdleOK DEF ConfirmRead, Starts, Call
    <2>2. CASE RejectRead(c, t, r)
      BY <2>2, IdleOK DEF RejectRead, Starts, Call
    <2>3. QED
      BY <1>4, <2>1, <2>2
  <1>5. QED
    BY <1>1, <1>2, <1>3, <1>4 DEF Arrive

\* Where a search goes from one of its statements.
LEMMA SearchGoesOn ==
  ASSUME TypeOK, NEW c \in Calls
  PROVE  /\ BatchNext(c) => call'[c].at \in {"idle", "batch_next", "save_match"}
         /\ SaveMatch(c) => \/ call'[c].at = "idle"
                            \/ /\ call'[c].at \in {"save_match", "batch_mark"}
                               /\ call'[c].rider = call[c].rider
  <1> USE DEF TypeOK
  <1>1. Answers(c) => call'[c].at = "idle"
    BY DEF Answers, Idle
  <1>2. CASE BatchNext(c)
    <2>1. ASSUME NEW r, NEW found,
                 call' = [call EXCEPT ![c].at = IF found = {} THEN "batch_next" ELSE "save_match",
                                      ![c].rider = r, ![c].found = found, ![c].waiting = @ \ {r}]
          PROVE  call'[c].at \in {"batch_next", "save_match"}
      BY <2>1 DEF Call
    <2>2. call'[c].at \in {"idle", "batch_next", "save_match"}
      BY <1>1, <1>2, <2>1 DEF BatchNext
    <2>3. ~SaveMatch(c)
      BY <1>2 DEF BatchNext, SaveMatch, At
    <2>4. QED
      BY <2>2, <2>3
  <1>3. CASE SaveMatch(c)
    <2>1. PICK u \in call[c].found :
            IF call[c].found # {u}
            THEN call' = [call EXCEPT ![c].found = @ \ {u}]
            ELSE IF call[c].batch
            THEN call' = [call EXCEPT ![c].found = {}, ![c].at = "batch_mark"]
            ELSE Answers(c)
      BY <1>3 DEF SaveMatch
    <2>2. call[c].at = "save_match" /\ ~BatchNext(c)
      BY <1>3 DEF SaveMatch, BatchNext, At
    <2>3. QED
      BY <1>1, <2>1, <2>2 DEF Call
  <1>4. QED
    BY <1>2, <1>3

\* INSERT OR REPLACE gives a row a new id and no statement deletes one, so a rider who
\* had a match keeps having one; a batch marks a rider only after saving a row for him.
LEMMA MarksOfCall ==
  ASSUME Wellformed, NEW c \in Calls, Arrive(c) \/ Proceed(c) \/ Abort(c)
  PROVE  (MarksOK /\ MatchedHasMatch)'
  <1> USE DEF Wellformed
  <1>1. \A m \in Trips \X Riders : match[m].id # 0 => match'[m].id # 0
    <2>1. CASE SaveMatch(c)
      <3>1. PICK t \in call[c].found :
              match' = [match EXCEPT ![<<t, call[c].rider>>] = [id |-> saves + 1, status |-> "pending"]]
        BY <2>1 DEF SaveMatch
      <3>2. saves + 1 # 0
        BY MatchingAssumption DEF TypeOK
      <3>3. QED
        BY <3>1, <3>2 DEF TypeOK
    <2>2. CASE ConfirmMatch(c) \/ RejectMatch(c)
      <3> DEFINE k == <<call[c].trip, call[c].rider>>
      <3>1. PICK status \in {"confirmed", "rejected"} :
              \/ match' = [match EXCEPT ![k].status = status]
              \/ match' = match
        BY <2>2 DEF ConfirmMatch, RejectMatch, Answer
      <3> HIDE DEF k
      <3>2. QED
        BY <3>1 DEF TypeOK, Match
    <2>3. CASE UNCHANGED match
      BY <2>3
    <2>4. QED
      BY <2>1, <2>2, <2>3
      DEF Arrive, Find, BatchRead, ConfirmRead, RejectRead, Abort, Proceed, BatchNext, BatchMark,
          ConfirmReserve, ConfirmRequest, ConfirmRelease
  <1>2. \A r \in Riders : HasMatch(r) => HasMatch(r)'
    BY <1>1 DEF HasMatch
  <1>3. \A d \in Calls \ {c} : call'[d] = call[d]
    BY DEF TypeOK, Arrive, Find, BatchRead, ConfirmRead, RejectRead, Starts, Abort, Proceed,
           SaveMatch, BatchNext, BatchMark, ConfirmReserve, ConfirmMatch, ConfirmRequest,
           ConfirmRelease, RejectMatch, Goes, Answers
  <1>4. (call[c].at = "batch_mark" => HasMatch(call[c].rider))'
    <2>1. CASE SaveMatch(c)
      <3>1. PICK t \in call[c].found :
              match' = [match EXCEPT ![<<t, call[c].rider>>] = [id |-> saves + 1, status |-> "pending"]]
        BY <2>1 DEF SaveMatch
      <3>2. call[c].rider \in Riders /\ t \in Trips
        BY <2>1 DEF SaveMatch, At, CallOK, LocalsOK, TypeOK, Call
      <3>3. match'[<<t, call[c].rider>>].id # 0
        BY <3>1, <3>2, MatchingAssumption DEF TypeOK
      <3>4. call'[c].at = "batch_mark" => call'[c].rider = call[c].rider
        BY <2>1, SearchGoesOn
      <3>5. QED
        BY <3>2, <3>3, <3>4 DEF HasMatch
    <2>2. CASE ~SaveMatch(c)
      <3>1. call'[c].at # "batch_mark"
        <4>1. CASE Arrive(c)
          BY <4>1, ArrivesAt
        <4>2. CASE Abort(c)
          BY <4>2 DEF Abort, Answers, Idle, TypeOK
        <4>3. CASE BatchNext(c)
          BY <4>3, SearchGoesOn
        <4>4. CASE BatchMark(c) \/ ConfirmReserve(c) \/ ConfirmMatch(c) \/ ConfirmRequest(c)
          BY <4>4 DEF BatchMark, ConfirmReserve, ConfirmMatch, ConfirmRequest, Goes, Answers,
                      Idle, TypeOK, Call
        <4>5. CASE ConfirmRelease(c) \/ RejectMatch(c)
          BY <4>5 DEF ConfirmRelease, RejectMatch, Answers, Idle, TypeOK
        <4>6. QED
          BY <2>2, <4>1, <4>2, <4>3, <4>4, <4>5 DEF Proceed
      <3>2. QED
        BY <3>1
    <2>3. QED
      BY <2>1, <2>2
  <1>5. MarksOK'
    BY <1>2, <1>3, <1>4 DEF MarksOK, CallOK, LocalsOK
  <1>6. \A r \in Riders : rider_request'[r].status = "matched" => HasMatch(r)
    <2> \A r \in Riders : rider_request[r].status = "matched" => HasMatch(r)
      BY DEF MatchedHasMatch, HasMatch
    <2>1. CASE BatchMark(c)
      BY <2>1 DEF BatchMark, At, TypeOK, RiderRequest, MarksOK
    <2>2. CASE ConfirmRequest(c)
      BY <2>2 DEF ConfirmRequest, TypeOK, RiderRequest
    <2>3. CASE UNCHANGED rider_request
      BY <2>3
    <2>4. QED
      BY <2>1, <2>2, <2>3
      DEF Arrive, Find, BatchRead, ConfirmRead, RejectRead, Abort, Proceed, SaveMatch, BatchNext,
          ConfirmReserve, ConfirmMatch, ConfirmRelease, RejectMatch
  <1>7. QED
    BY <1>2, <1>5, <1>6 DEF MatchedHasMatch, HasMatch

\* Calls, and the updates of drivers and riders themselves, keep everything well formed.
LEMMA WellformedStep == Wellformed /\ [Next]_vars => Wellformed'
  <1> SUFFICES ASSUME Wellformed, [Next]_vars PROVE Wellformed'
    OBVIOUS
  <1>1. ASSUME NEW c \in Calls, Arrive(c) \/ Proceed(c) \/ Abort(c) PROVE Wellformed'
    <2>1. call' \in [Calls -> Call] /\ CallOK'
      <3>1. CASE Abort(c)
        BY <3>1, Moves DEF Abort, Wellformed, TypeOK
      <3>2. QED
        BY <1>1, <3>1, CallsArrive, CallsProceed DEF Wellformed
    <2>2. TypeOK'
      BY <1>1, <2>1, RowsOfCall DEF Wellformed, TypeOK
    <2>3. QED
      BY <1>1, <2>1, <2>2, MarksOfCall DEF Wellformed
  <1> USE DEF Wellformed, TypeOK, CallOK, MarksOK, MatchedHasMatch, HasMatch
  <1>2. ASSUME NEW t \in Trips, NEW n \in 0..TotalSeats, UpdateSeats(t, n) PROVE Wellformed'
    BY <1>2 DEF UpdateSeats, DriverTrip
  <1>3. ASSUME NEW t \in Trips, NEW status \in {"offered", "cancelled"}, UpdateStatus(t, status)
        PROVE  Wellformed'
    BY <1>3 DEF UpdateStatus, DriverTrip
  <1>4. ASSUME NEW r \in Riders, CancelRequest(r) PROVE Wellformed'
    BY <1>4 DEF CancelRequest, RiderRequest
  <1>5. CASE UNCHANGED vars
    BY <1>5 DEF vars
  <1>6. QED
    BY <1>1, <1>2, <1>3, <1>4, <1>5 DEF Next

\* Every reachable state is well formed.
THEOREM AlwaysWellformed == Spec => []Wellformed
  BY WellformedInit, WellformedStep, PTL DEF Spec

\* The seat counters stay between 0 and the seats of the car, in spite of the absolute
\* writes of the driver and of the compensations of failed confirmations.
THEOREM TypeCorrect == Spec => []TypeOK
  BY AlwaysWellformed, PTL DEF Wellformed

\* A batch calls no request matched that has no match, whatever it read earlier.
THEOREM NobodyMatchedInVain == Spec => []MatchedHasMatch
  BY AlwaysWellformed, PTL DEF Wellformed

-----------------------------------------------------------------------------
(* Seats                                                                   *)

\* The calls that hold a seat, and the riders who ride, are finitely many.
LEMMA ClaimsAreNumbers ==
  ASSUME NEW t \in Trips
  PROVE  /\ IsFiniteSet(Holding(t)) /\ Cardinality(Holding(t)) \in Nat
         /\ IsFiniteSet(Named(t)) /\ Cardinality(Named(t)) \in Nat
  BY MatchingAssumption, FS_Subset, FS_CardinalityType DEF Holding, Named

OthersStay(c) == \A d \in Calls \ {c} : call'[d] = call[d]

\* A call that reserves takes one seat in hand.
LEMMA HoldingTaken ==
  ASSUME NEW t \in Trips, NEW c \in Calls, OthersStay(c), c \notin Holding(t),
         (c \in Holding(t))'
  PROVE  Cardinality(Holding(t))' = Cardinality(Holding(t)) + 1
  <1>1. Holding(t)' = Holding(t) \union {c}
    BY DEF Holding, OthersStay
  <1>2. QED
    BY <1>1, ClaimsAreNumbers, FS_AddElement

\* The other way round: it uses the seat for a rider, gives it back or dies with it.
LEMMA HoldingLetGo ==
  ASSUME NEW t \in Trips, NEW c \in Calls, OthersStay(c), c \in Holding(t),
         ~(c \in Holding(t))'
  PROVE  Cardinality(Holding(t))' = Cardinality(Holding(t)) - 1
  <1>1. Holding(t)' = Holding(t) \ {c}
    BY DEF Holding, OthersStay
  <1>2. QED
    BY <1>1, ClaimsAreNumbers, FS_RemoveElement

\* Or it keeps what it has.
LEMMA HoldingKept ==
  ASSUME NEW t \in Trips, NEW c \in Calls, OthersStay(c),
         (c \in Holding(t))' <=> c \in Holding(t)
  PROVE  Cardinality(Holding(t))' = Cardinality(Holding(t))
  <1>1. Holding(t)' = Holding(t)
    BY DEF Holding, OthersStay
  <1>2. QED
    BY <1>1

\* Confirming one rider names at most one more rider of one trip (matching.ts:842).
LEMMA NamedGrows ==
  ASSUME TypeOK, NEW t \in Trips, NEW u \in Trips, NEW r \in Riders,
         rider_request' = [rider_request EXCEPT ![r] = [status |-> "confirmed", trip |-> u]]
  PROVE  Cardinality(Named(t))' <= Cardinality(Named(t)) + (IF t = u THEN 1 ELSE 0)
  <1>1. IsFiniteSet(Named(t)) /\ Cardinality(Named(t)) \in Nat
    BY ClaimsAreNumbers
  <1>2. CASE t = u
    <2>1. Named(t)' \subseteq Named(t) \union {r}
      BY DEF Named, TypeOK, RiderRequest
    <2>2. CASE r \in Named(t)
      <3>1. Named(t)' \subseteq Named(t)
        BY <2>1, <2>2
      <3>2. QED
        BY <1>1, <1>2, <3>1, FS_Subset, FS_CardinalityType
    <2>3. CASE r \notin Named(t)
      <3>1. /\ IsFiniteSet(Named(t) \union {r})
            /\ Cardinality(Named(t) \union {r}) = Cardinality(Named(t)) + 1
        BY <1>1, <2>3, FS_AddElement
      <3>2. QED
        BY <1>1, <1>2, <2>1, <3>1, FS_Subset, FS_CardinalityType
    <2>4. QED
      BY <2>2, <2>3
  <1>3. CASE t # u
    <2>1. Named(t)' \subseteq Named(t)
      BY <1>3 DEF Named, TypeOK, RiderRequest
    <2>2. QED
      BY <1>1, <1>3, <2>1, FS_Subset, FS_CardinalityType
  <1>4. QED
    BY <1>2, <1>3

\* No statement of a call makes up a seat.
LEMMA ClaimsOfCall ==
  ASSUME Wellformed, NEW c \in Calls, Arrive(c) \/ Proceed(c) \/ Abort(c), NEW t \in Trips
  PROVE  RiderClaims(t)' <= RiderClaims(t)
  <1> USE DEF Wellformed
  <1>1. OthersStay(c)
    BY DEF OthersStay, TypeOK, Arrive, Find, BatchRead, ConfirmRead, RejectRead, Starts, Abort,
           Proceed, SaveMatch, BatchNext, BatchMark, ConfirmReserve, ConfirmMatch, ConfirmRequest,
           ConfirmRelease, RejectMatch, Goes, Answers
  <1>2. /\ Cardinality(Holding(t)) \in Nat /\ Cardinality(Named(t)) \in Nat
        /\ driver_trip[t].available_seats \in Nat
    BY ClaimsAreNumbers, MatchingAssumption DEF TypeOK, DriverTrip
  <1>3. ASSUME UNCHANGED driver_trip, Named(t)' = Named(t),
               (c \in Holding(t))' => c \in Holding(t)
        PROVE  RiderClaims(t)' <= RiderClaims(t)
    BY <1>1, <1>2, <1>3, HoldingKept, HoldingLetGo DEF RiderClaims
  <1>4. ASSUME call'[c].at \notin ConfirmSteps \ {"confirm_reserve"},
               UNCHANGED driver_trip, Named(t)' = Named(t)
        PROVE  RiderClaims(t)' <= RiderClaims(t)
    BY <1>3, <1>4 DEF Holding
  <1>5. UNCHANGED rider_request => Named(t)' = Named(t)
    BY DEF Named
  <1>6. CASE Arrive(c)
    BY <1>4, <1>5, <1>6, ArrivesAt
    DEF Arrive, Find, BatchRead, ConfirmRead, RejectRead, ConfirmSteps
  <1>7. CASE Abort(c)
    BY <1>4, <1>5, <1>7 DEF Abort, Answers, Idle, TypeOK, ConfirmSteps
  <1>8. CASE SaveMatch(c) \/ BatchNext(c)
    BY <1>4, <1>5, <1>8, SearchGoesOn DEF SaveMatch, BatchNext, ConfirmSteps
  <1>9. CASE BatchMark(c)
    <2>1. Named(t)' = Named(t)
      BY <1>9 DEF BatchMark, Named, TypeOK, RiderRequest
    <2>2. call'[c].at = "batch_next"
      BY <1>9 DEF BatchMark, Goes, TypeOK, Call
    <2>3. QED
      BY <1>4, <1>9, <2>1, <2>2 DEF BatchMark, ConfirmSteps
  <1>10. CASE RejectMatch(c)
    BY <1>4, <1>5, <1>10 DEF RejectMatch, Answers, Idle, TypeOK, ConfirmSteps
  <1>11. CASE ConfirmMatch(c)
    <2>1. call[c].at = "confirm_match" /\ call'[c].trip = call[c].trip
      BY <1>11 DEF ConfirmMatch, At, Goes, TypeOK, Call
    <2>2. QED
      BY <1>3, <1>5, <1>11, <2>1 DEF ConfirmMatch, Holding, ConfirmSteps
  <1>12. CASE ConfirmReserve(c)
    <2> DEFINE u == call[c].trip
    <2>1. u \in Trips /\ call[c].at = "confirm_reserve"
      BY <1>12 DEF ConfirmReserve, At, CallOK, LocalsOK, ConfirmSteps
    <2>2. CASE Answers(c) /\ UNCHANGED driver_trip
      BY <1>4, <1>5, <1>12, <2>2 DEF ConfirmReserve, Answers, Idle, TypeOK, ConfirmSteps
    <2>3. CASE /\ driver_trip' = [driver_trip EXCEPT ![u].available_seats = @ - 1]
               /\ Goes(c, "confirm_match")
      <3>1. call'[c].at = "confirm_match" /\ call'[c].trip = u
        BY <2>3 DEF Goes, TypeOK, Call
      <3>2. CASE t = u
        <4>1. Cardinality(Holding(t))' = Cardinality(Holding(t)) + 1
          BY <1>1, <2>1, <3>1, <3>2, HoldingTaken DEF Holding, ConfirmSteps
        <4>2. driver_trip'[t].available_seats = driver_trip[t].available_seats - 1
          BY <2>3, <3>2 DEF TypeOK, DriverTrip
        <4>3. QED
          BY <1>2, <1>5, <1>12, <4>1, <4>2 DEF ConfirmReserve, RiderClaims
      <3>3. CASE t # u
        <4>1. Cardinality(Holding(t))' = Cardinality(Holding(t))
          BY <1>1, <2>1, <3>1, <3>3, HoldingKept DEF Holding
        <4>2. driver_trip'[t] = driver_trip[t]
          BY <2>3, <3>3 DEF TypeOK
        <4>3. QED
          BY <1>2, <1>5, <1>12, <4>1, <4>2 DEF ConfirmReserve, RiderClaims
      <3>4. QED
        BY <3>2, <3>3
    <2>4. QED
      BY <1>12, <2>2, <2>3 DEF ConfirmReserve
  <1>13. CASE ConfirmRequest(c)
    <2> DEFINE u == call[c].trip
    <2>1. u \in Trips /\ call[c].rider \in Riders /\ call[c].at = "confirm_request"
      BY <1>13 DEF ConfirmRequest, At, CallOK, LocalsOK, ConfirmSteps
    <2>2. CASE Goes(c, "confirm_release") /\ UNCHANGED rider_request
      <3>1. call'[c].trip = u
        BY <2>2 DEF Goes, TypeOK, Call
      <3>2. QED
        BY <1>3, <1>5, <1>13, <2>1, <2>2, <3>1 DEF ConfirmRequest, Holding, ConfirmSteps
    <2>3. CASE /\ rider_request' = [rider_request EXCEPT ![call[c].rider] =
                                      [status |-> "confirmed", trip |-> u]]
               /\ Answers(c)
      <3>1. call'[c].at = "idle"
        BY <2>3 DEF Answers, Idle, TypeOK
      <3>2. Cardinality(Named(t))' <= Cardinality(Named(t)) + (IF t = u THEN 1 ELSE 0)
        BY <2>1, <2>3, NamedGrows
      <3>3. Cardinality(Named(t))' \in Nat
        BY MatchingAssumption, FS_Subset, FS_CardinalityType DEF Named
      <3>4. CASE t = u
        <4>1. Cardinality(Holding(t))' = Cardinality(Holding(t)) - 1
          BY <1>1, <2>1, <3>1, <3>4, HoldingLetGo DEF Holding, ConfirmSteps
        <4>2. QED
          BY <1>2, <1>13, <3>2, <3>3, <3>4, <4>1 DEF ConfirmRequest, RiderClaims
      <3>5. CASE t # u
        <4>1. Cardinality(Holding(t))' = Cardinality(Holding(t))
          BY <1>1, <2>1, <3>1, <3>5, HoldingKept DEF Holding, ConfirmSteps
        <4>2. QED
          BY <1>2, <1>13, <3>2, <3>3, <3>5, <4>1 DEF ConfirmRequest, RiderClaims
      <3>6. QED
        BY <3>4, <3>5
    <2>4. QED
      BY <1>13, <2>2, <2>3 DEF ConfirmRequest
  <1>14. CASE ConfirmRelease(c)
    <2> DEFINE u == call[c].trip
    <2>1. u \in Trips /\ call[c].at = "confirm_release"
      BY <1>14 DEF ConfirmRelease, At, CallOK, LocalsOK, ConfirmSteps
    <2>2. call'[c].at = "idle"
      BY <1>14 DEF ConfirmRelease, Answers, Idle, TypeOK
    <2>3. CASE t = u
      <3>1. Cardinality(Holding(t))' = Cardinality(Holding(t)) - 1
        BY <1>1, <2>1, <2>2, <2>3, HoldingLetGo DEF Holding, ConfirmSteps
      <3>2. driver_trip'[t].available_seats = Released(driver_trip[t].available_seats)
        BY <1>14, <2>3 DEF ConfirmRelease, TypeOK, DriverTrip
      <3>3. Released(driver_trip[t].available_seats) \in Nat
              /\ Released(driver_trip[t].available_seats) <= driver_trip[t].available_seats + 1
        BY <1>2, MatchingAssumption DEF Released, TypeOK, DriverTrip
      <3>4. QED
        BY <1>2, <1>5, <1>14, <3>1, <3>2, <3>3 DEF ConfirmRelease, RiderClaims
    <2>4. CASE t # u
      <3>1. Cardinality(Holding(t))' = Cardinality(Holding(t))
        BY <1>1, <2>1, <2>2, <2>4, HoldingKept DEF Holding, ConfirmSteps
      <3>2. driver_trip'[t].available_seats = driver_trip[t].available_seats
        BY <1>14, <2>4 DEF ConfirmRelease, TypeOK
      <3>3. QED
        BY <1>2, <1>5, <1>14, <3>1, <3>2 DEF ConfirmRelease, RiderClaims
    <2>5. QED
      BY <2>3, <2>4
  <1>15. QED
    BY <1>6, <1>7, <1>8, <1>9, <1>10, <1>11, <1>12, <1>13, <1>14 DEF Proceed

\* Nor does a step of anyone but the driver, who writes the counter himself.
LEMMA ClaimsStep ==
  ASSUME Wellformed, [Next]_vars, NEW t \in Trips
  PROVE  RiderClaims(t)' <= RiderClaims(t) \/ \E n \in 0..TotalSeats : UpdateSeats(t, n)
  <1>1. /\ Cardinality(Holding(t)) \in Nat /\ Cardinality(Named(t)) \in Nat
        /\ driver_trip[t].available_seats \in Nat
    BY ClaimsAreNumbers, MatchingAssumption DEF Wellformed, TypeOK, DriverTrip
  <1>2. ASSUME driver_trip'[t].available_seats = driver_trip[t].available_seats,
               Named(t)' = Named(t), UNCHANGED call
        PROVE  RiderClaims(t)' <= RiderClaims(t)
    BY <1>1, <1>2 DEF RiderClaims, Holding
  <1>3. ASSUME NEW u \in Trips, NEW n \in 0..TotalSeats, UpdateSeats(u, n)
        PROVE  RiderClaims(t)' <= RiderClaims(t) \/ UpdateSeats(t, n)
    BY <1>2, <1>3 DEF UpdateSeats, Wellformed, TypeOK, Named
  <1>4. ASSUME NEW u \in Trips, NEW status \in {"offered", "cancelled"}, UpdateStatus(u, status)
        PROVE  RiderClaims(t)' <= RiderClaims(t)
    BY <1>2, <1>4 DEF UpdateStatus, Wellformed, TypeOK, DriverTrip, Named
  <1>5. ASSUME NEW r \in Riders, CancelRequest(r) PROVE RiderClaims(t)' <= RiderClaims(t)
    BY <1>2, <1>5 DEF CancelRequest, Wellformed, TypeOK, RiderRequest, Named
  <1>6. CASE UNCHANGED vars
    BY <1>2, <1>6 DEF vars, Named
  <1>7. QED
    BY <1>3, <1>4, <1>5, <1>6, ClaimsOfCall DEF Next

\* A rider is confirmed only on a seat that was taken off the counter for him, for any
\* number of confirmations, rejections, searches and failures in flight.
THEOREM NoSeatMadeUp == Spec => SeatsCoverRiders
  <1>1. Wellformed /\ [Next]_vars =>
          [\A t \in Trips :
             RiderClaims(t)' <= RiderClaims(t) \/ \E n \in 0..TotalSeats : UpdateSeats(t, n)]_vars
    BY ClaimsStep
  <1>2. QED
    BY <1>1, AlwaysWellformed, PTL DEF Spec, SeatsCoverRiders

-----------------------------------------------------------------------------
(* Induction and recursion over the numbers up to n, in first-order form     *)

\* A set of naturals with 0 and with the next of each of its members holds them all:
\* of the numbers up to n outside it each would be the next of another.
LEMMA Induction ==
  ASSUME NEW S, 0 \in S, \A m \in Nat : m \in S => m + 1 \in S, NEW n \in Nat
  PROVE  n \in S
  <1> SUFFICES ASSUME n \notin S PROVE FALSE
    OBVIOUS
  <1> DEFINE U == (0..n) \ S
             f == [m \in U |-> m - 1]
  <1>1. IsFiniteSet(U)
    <2>1. IsFiniteSet(0..n) /\ U \in SUBSET (0..n)
      BY FS_Interval
    <2>. QED
      BY <2>1, FS_Subset
  <1>2. \A m \in U : m \in Nat /\ m # 0 /\ m - 1 \in U
    OBVIOUS
  <1>3. f \in Injection(U, U)
    BY <1>2 DEF Injection, IsInjective
  <1>4. f \in Surjection(U, U)
    BY <1>1, <1>3, FS_Injection
  <1>5. n \in U
    OBVIOUS
  <1>6. PICK m \in U : m - 1 = n
    BY <1>4, <1>5 DEF Surjection
  <1>. QED
    BY <1>6, <1>2

\* The values of f, in D, are its value at 0 and what the step makes of the one before.
Recurs(f, n, D, b, step) ==
    f \in [0..n -> D] /\ f[0] = b /\ \A i \in 1..n : f[i] = step[<<f[i - 1], i>>]

\* A function may be defined by its value at 0 and a step.
LEMMA Recursion ==
  ASSUME NEW n \in Nat, NEW D, NEW b \in D, NEW step \in [D \X (1..n) -> D]
  PROVE  \E f : Recurs(f, n, D, b, step)
  <1> DEFINE Good(m, f) == /\ f \in [0..m -> D]
                           /\ f[0] = b /\ \A i \in 1..m : f[i] = step[<<f[i - 1], i>>]
             S == {m \in Nat : m <= n => \E f : Good(m, f)}
  <1>1. 0 \in S
    <2>1. Good(0, [i \in 0..0 |-> b])
      OBVIOUS
    <2>. QED
      BY <2>1
  <1>2. ASSUME NEW m \in Nat, m \in S PROVE m + 1 \in S
    <2> SUFFICES ASSUME m + 1 <= n PROVE \E f : Good(m + 1, f)
      OBVIOUS
    <2>1. PICK f : Good(m, f)
      BY <1>2
    <2> DEFINE g == [i \in 0..(m + 1) |-> IF i = m + 1 THEN step[<<f[m], m + 1>>] ELSE f[i]]
    <2>2. f[m] \in D /\ step[<<f[m], m + 1>>] \in D
      BY <2>1
    <2>3. g \in [0..(m + 1) -> D]
      BY <2>1, <2>2
    <2>4. g[0] = b
      BY <2>1
    <2>5. ASSUME NEW i \in 1..(m + 1) PROVE g[i] = step[<<g[i - 1], i>>]
      <3>1. CASE i = m + 1
        <4>1. g[m] = f[m] /\ g[m + 1] = step[<<f[m], m + 1>>]
          BY <2>1
        <4>2. (m + 1) - 1 = m
          OBVIOUS
        <4>3. g[(m + 1) - 1] = f[m]
          BY <4>1, <4>2
        <4> HIDE DEF g
        <4>. QED
          BY <3>1, <4>1, <4>3
      <3>2. CASE i # m + 1
        BY <3>2, <2>1
      <3>. QED
        BY <3>1, <3>2
    <2>. QED
      BY <2>3, <2>4, <2>5
  <1> HIDE DEF S
  <1>3. n \in S
    BY <1>1, <1>2, Induction
  <1>. QED
    BY <1>3 DEF S, Recurs

-----------------------------------------------------------------------------
(* Least elements, sequences                                                 *)

\* Of finitely many integers one is the least and one the greatest.
LEMMA ArgMin ==
  ASSUME NEW n \in Nat \ {0}, NEW f \in [1..n -> Int]
  PROVE  \E i \in 1..n : \A j \in 1..n : f[i] <= f[j]
  <1> DEFINE S == {m \in Nat : m + 1 <= n =>
                     \E i \in 1..(m + 1) : \A j \in 1..(m + 1) : f[i] <= f[j]}
  <1>1. 0 \in S
    OBVIOUS
  <1>2. ASSUME NEW m \in Nat, m \in S PROVE m + 1 \in S
    <2> SUFFICES ASSUME m + 2 <= n
                 PROVE  \E i \in 1..(m + 2) : \A j \in 1..(m + 2) : f[i] <= f[j]
      OBVIOUS
    <2>1. PICK i \in 1..(m + 1) : \A j \in 1..(m + 1) : f[i] <= f[j]
      BY <1>2
    <2>2. CASE f[i] <= f[m + 2]
      <3>1. \A j \in 1..(m + 2) : f[i] <= f[j]
        BY <2>1, <2>2
      <3>. QED
        BY <3>1
    <2>3. CASE ~(f[i] <= f[m + 2])
      <3>1. \A j \in 1..(m + 2) : f[m + 2] <= f[j]
        <4> TAKE j \in 1..(m + 2)
        <4>1. CASE j = m + 2
          BY <4>1
        <4>2. CASE j # m + 2
          <5>1. f[i] <= f[j]
            BY <4>2, <2>1
          <5>2. f[i] \in Int /\ f[j] \in Int /\ f[m + 2] \in Int
            OBVIOUS
          <5>. QED
            BY <5>1, <5>2, <2>3
        <4>. QED
          BY <4>1, <4>2
      <3>. QED
        BY <3>1
    <2>. QED
      BY <2>2, <2>3
  <1> HIDE DEF S
  <1>3. n - 1 \in S
    <2>1. n - 1 \in Nat
      OBVIOUS
    <2>. QED
      BY <1>1, <1>2, <2>1, Induction
  <1>. QED
    BY <1>3 DEF S

LEMMA ArgMax ==
  ASSUME NEW n \in Nat \ {0}, NEW f \in [1..n -> Int]
  PROVE  \E i \in 1..n : \A j \in 1..n : f[i] >= f[j]
  <1> DEFINE g == [i \in 1..n |-> 0 - f[i]]
  <1>1. g \in [1..n -> Int]
    OBVIOUS
  <1> HIDE DEF g
  <1>2. PICK i \in 1..n : \A j \in 1..n : g[i] <= g[j]
    BY <1>1, ArgMin
  <1>3. \A j \in 1..n : f[i] >= f[j]
    <2> TAKE j \in 1..n
    <2>1. g[i] <= g[j]
      BY <1>2
    <2>. QED
      BY <2>1 DEF g
  <1>. QED
    BY <1>3

LEMMA MinOfImage ==
  ASSUME NEW a \in Int, NEW b \in Int, a <= b, NEW f \in [a..b -> Int]
  PROVE  LET M == {f[i] : i \in a..b}
         IN  Min(M) \in M /\ \A i \in a..b : Min(M) <= f[i]
  <1> DEFINE g == [i \in 1..(b - a + 1) |-> f[i + a - 1]]
  <1>1. g \in [1..(b - a + 1) -> Int] /\ b - a + 1 \in Nat \ {0}
    OBVIOUS
  <1> HIDE DEF g
  <1>2. PICK i \in 1..(b - a + 1) : \A j \in 1..(b - a + 1) : g[i] <= g[j]
    BY <1>1, ArgMin
  <1>3. i + a - 1 \in a..b
    OBVIOUS
  <1>4. ASSUME NEW k \in a..b PROVE f[i + a - 1] <= f[k]
    <2>1. k - a + 1 \in 1..(b - a + 1) /\ (k - a + 1) + a - 1 = k
      OBVIOUS
    <2>2. g[i] <= g[k - a + 1]
      BY <1>2, <2>1
    <2>. QED
      BY <2>1, <2>2 DEF g
  <1>. QED
    BY <1>3, <1>4 DEF Min

LEMMA MaxOfImage ==
  ASSUME NEW n \in Nat \ {0}, NEW f \in [1..n -> Int]
  PROVE  LET M == {f[i] : i \in 1..n} IN Max(M) \in M /\ \A i \in 1..n : Max(M) >= f[i]
  <1>1. PICK i \in 1..n : \A j \in 1..n : f[i] >= f[j]
    BY ArgMax
  <1>. QED
    BY <1>1 DEF Max

\* A set of naturals that is not empty has a least element.
LEMMA LeastNatural ==
  ASSUME NEW S, S \subseteq Nat, S # {}
  PROVE  Min(S) \in S /\ \A n \in S : Min(S) <= n
  <1> DEFINE T == {m \in Nat : \A n \in 0..m : n \notin S}
  <1>1. PICK m \in S : \A n \in S : m <= n
    <2> SUFFICES ASSUME \A m \in S : \E n \in S : ~(m <= n) PROVE FALSE
      OBVIOUS
    <2>1. 0 \in T
      OBVIOUS
    <2>2. ASSUME NEW m \in Nat, m \in T PROVE m + 1 \in T
      <3> SUFFICES ASSUME m + 1 \in S PROVE FALSE
        BY <2>2
      <3>1. PICK n \in S : ~(m + 1 <= n)
        OBVIOUS
      <3>2. n \in 0..m
        BY <3>1
      <3>. QED
        BY <2>2, <3>2
    <2> HIDE DEF T
    <2>3. \A m \in Nat : m \in T
      BY <2>1, <2>2, Induction
    <2>4. PICK n \in S : TRUE
      OBVIOUS
    <2>5. n \in T
      BY <2>3
    <2>. QED
      BY <2>5 DEF T
  <1>. QED
    BY <1>1 DEF Min

LEMMA InsertAtProperties ==
  ASSUME NEW S, NEW s \in Seq(S), NEW e \in S, NEW i \in 1..(Len(s) + 1)
  PROVE  /\ InsertAt(s, i, e) \in Seq(S)
         /\ Len(InsertAt(s, i, e)) = Len(s) + 1
         /\ \A k \in 1..(Len(s) + 1) :
              InsertAt(s, i, e)[k] = IF k < i THEN s[k] ELSE IF k = i THEN e ELSE s[k - 1]
  <1>0. Len(s) \in Nat /\ i \in Nat
    BY LenProperties
  <1> DEFINE a == SubSeq(s, 1, i - 1)
             b == SubSeq(s, i, Len(s))
  <1>1. a \in Seq(S) /\ Len(a) = i - 1 /\ \A k \in 1..(i - 1) : a[k] = s[k]
    BY SubSeqProperties, LenProperties
  <1>2. b \in Seq(S) /\ Len(b) = Len(s) - i + 1 /\ \A k \in 1..(Len(s) - i + 1) : b[k] = s[k + i - 1]
    BY SubSeqProperties, LenProperties
  <1>3. <<e>> \in Seq(S) /\ Len(<<e>>) = 1 /\ <<e>>[1] = e
    OBVIOUS
  <1> HIDE DEF a, b
  <1> DEFINE c == a \o <<e>>
  <1>4. c \in Seq(S) /\ Len(c) = i /\ \A k \in 1..i : c[k] = IF k < i THEN s[k] ELSE e
    BY <1>1, <1>3, ConcatProperties
  <1> HIDE DEF c
  <1> DEFINE d == c \o b
  <1>5. InsertAt(s, i, e) = d
    BY DEF InsertAt, a, b, c
  <1>6. /\ d \in Seq(S) /\ Len(d) = Len(s) + 1
        /\ \A k \in 1..(Len(s) + 1) : d[k] = IF k <= i THEN c[k] ELSE b[k - i]
    <2>1. Len(c) + Len(b) = Len(s) + 1
      BY <1>0, <1>2, <1>4
    <2>2. /\ d \in Seq(S) /\ Len(d) = Len(c) + Len(b)
          /\ \A k \in 1..(Len(c) + Len(b)) :
               d[k] = IF k <= Len(c) THEN c[k] ELSE b[k - Len(c)]
      BY <1>2, <1>4, ConcatProperties
    <2> HIDE DEF d
    <2>. QED
      BY <1>4, <2>1, <2>2
  <1> HIDE DEF d
  <1>7. ASSUME NEW k \in 1..(Len(s) + 1)
        PROVE  d[k] = IF k < i THEN s[k] ELSE IF k = i THEN e ELSE s[k - 1]
    <2>1. CASE k <= i
      BY <2>1, <1>4, <1>6
    <2>2. CASE k > i
      <3>1. k - i \in 1..(Len(s) - i + 1) /\ (k - i) + i - 1 = k - 1
        BY <2>2, LenProperties
      <3>2. b[k - i] = s[k - 1]
        BY <1>2, <3>1
      <3>. QED
        BY <2>2, <1>6, <3>2
    <2>. QED
      BY <1>0, <2>1, <2>2
  <1>. QED
    BY <1>5, <1>6, <1>7

\* The same for a sequence of integers.
LEMMA InsertAtInt ==
  ASSUME NEW w \in Seq(Int), NEW i \in 1..(Len(w) + 1), NEW p \in Int
  PROVE  /\ InsertAt(w, i, p) \in Seq(Int)
         /\ Len(InsertAt(w, i, p)) = Len(w) + 1
         /\ \A k \in 1..(Len(w) + 1) :
              InsertAt(w, i, p)[k] = IF k < i THEN w[k] ELSE IF k = i THEN p ELSE w[k - 1]
  <1> DEFINE Z == Int
  <1>1. p \in Z /\ w \in Seq(Z)
    OBVIOUS
  <1> HIDE DEF Z
  <1>2. /\ InsertAt(w, i, p) \in Seq(Z)
        /\ Len(InsertAt(w, i, p)) = Len(w) + 1
        /\ \A k \in 1..(Len(w) + 1) :
             InsertAt(w, i, p)[k] = IF k < i THEN w[k] ELSE IF k = i THEN p ELSE w[k - 1]
    BY <1>1, InsertAtProperties
  <1>. QED
    BY <1>2, Zenon DEF Z

\* Two sequences of integers one after the other, place by place.
LEMMA ConcatInt ==
  ASSUME NEW s \in Seq(Int), NEW t \in Seq(Int)
  PROVE  /\ s \o t \in Seq(Int) /\ Len(s \o t) = Len(s) + Len(t)
         /\ \A k \in 1..(Len(s) + Len(t)) :
              (s \o t)[k] = IF k <= Len(s) THEN s[k] ELSE t[k - Len(s)]
  <1> DEFINE Z == Int
  <1>1. s \in Seq(Z) /\ t \in Seq(Z)
    OBVIOUS
  <1> HIDE DEF Z
  <1>2. /\ s \o t \in Seq(Z) /\ Len(s \o t) = Len(s) + Len(t)
        /\ \A k \in 1..(Len(s) + Len(t)) :
             (s \o t)[k] = IF k <= Len(s) THEN s[k] ELSE t[k - Len(s)]
    BY <1>1, ConcatProperties
  <1>. QED
    BY <1>2 DEF Z

LEMMA RemoveAtProperties ==
  ASSUME NEW S, NEW s \in Seq(S), NEW i \in 1..Len(s)
  PROVE  /\ RemoveAt(s, i) \in Seq(S)
         /\ Len(RemoveAt(s, i)) = Len(s) - 1
         /\ \A k \in 1..(Len(s) - 1) : RemoveAt(s, i)[k] = IF k < i THEN s[k] ELSE s[k + 1]
  <1>0. Len(s) \in Nat /\ i \in Nat
    BY LenProperties
  <1> DEFINE a == SubSeq(s, 1, i - 1)
             b == SubSeq(s, i + 1, Len(s))
  <1>1. a \in Seq(S) /\ Len(a) = i - 1 /\ \A k \in 1..(i - 1) : a[k] = s[k]
    BY SubSeqProperties, LenProperties
  <1>2. b \in Seq(S) /\ Len(b) = Len(s) - i /\ \A k \in 1..(Len(s) - i) : b[k] = s[k + i]
    BY SubSeqProperties, LenProperties
  <1> HIDE DEF a, b
  <1> DEFINE c == a \o b
  <1>3. RemoveAt(s, i) = c
    BY DEF RemoveAt, a, b
  <1>4. /\ c \in Seq(S) /\ Len(c) = Len(s) - 1
        /\ \A k \in 1..(Len(s) - 1) : c[k] = IF k < i THEN a[k] ELSE b[k - i + 1]
    BY <1>1, <1>2, ConcatProperties
  <1> HIDE DEF c
  <1>5. ASSUME NEW k \in 1..(Len(s) - 1)
        PROVE  c[k] = IF k < i THEN s[k] ELSE s[k + 1]
    <2>1. CASE k < i
      BY <2>1, <1>1, <1>4
    <2>2. CASE k >= i
      <3>1. k - i + 1 \in 1..(Len(s) - i) /\ (k - i + 1) + i = k + 1
        BY <2>2, LenProperties
      <3> DEFINE q == k - i + 1
      <3>2. q \in 1..(Len(s) - i) /\ q + i = k + 1
        BY <3>1
      <3> HIDE DEF q
      <3>3. b[q] = s[q + i]
        BY <1>2, <3>2
      <3>4. b[k - i + 1] = s[k + 1]
        BY <3>2, <3>3 DEF q
      <3>. QED
        BY <2>2, <1>0, <1>4, <3>4
    <2>. QED
      BY <1>0, <2>1, <2>2
  <1>. QED
    BY <1>3, <1>4, <1>5

-----------------------------------------------------------------------------
(* The operators of the optimizer                                            *)

LEMMA DistType == ASSUME NEW p \in Int, NEW q \in Int PROVE Dist(p, q) \in Nat
  BY DEF Dist

\* The length of a way is the last of its partial sums.
LEMMA PartialSums ==
  ASSUME NEW w \in Seq(Int), Len(w) >= 1
  PROVE  \E g \in [1..Len(w) -> Int] :
           /\ Length(w) = g[Len(w)]
           /\ g[1] = 0
           /\ \A i \in 2..Len(w) : g[i] = g[i - 1] + Dist(w[i - 1], w[i])
  <1> DEFINE n == Len(w) - 1
             step == [x \in Int \X (1..n) |-> x[1] + Dist(w[x[2]], w[x[2] + 1])]
             Sums(f) == f = [i \in DOMAIN w |->
                               IF i = 1 THEN 0 ELSE f[i - 1] + Dist(w[i - 1], w[i])]
  <1>1. n \in Nat /\ Len(w) \in Nat /\ DOMAIN w = 1..Len(w) /\ \A i \in 1..Len(w) : w[i] \in Int
    BY LenProperties
  <1>2. step \in [Int \X (1..n) -> Int]
    <2>1. ASSUME NEW x \in Int \X (1..n)
          PROVE  x[1] + Dist(w[x[2]], w[x[2] + 1]) \in Int
      <3>1. x[1] \in Int /\ x[2] \in 1..Len(w) /\ x[2] + 1 \in 1..Len(w)
        BY <1>1
      <3>2. w[x[2]] \in Int /\ w[x[2] + 1] \in Int
        BY <1>1, <3>1
      <3>3. Dist(w[x[2]], w[x[2] + 1]) \in Nat
        BY <3>2, DistType
      <3>. QED
        BY <3>1, <3>3
    <2>. QED
      BY <2>1
  <1> HIDE DEF step, n
  <1>3. PICK h : Recurs(h, n, Int, 0, step)
    <2>1. 0 \in Int
      OBVIOUS
    <2>. QED
      BY <1>1, <1>2, <2>1, Recursion
  <1> USE DEF n, Recurs
  <1> DEFINE f == [i \in 1..Len(w) |-> h[i - 1]]
  <1>4. Sums(f)
    <2>1. ASSUME NEW i \in 1..Len(w), i # 1
          PROVE  h[i - 1] = f[i - 1] + Dist(w[i - 1], w[i])
      <3>1. i - 1 \in 1..n /\ (i - 1) - 1 \in 0..n /\ (i - 1) + 1 = i
        BY <1>1, <2>1
      <3>2. h[i - 1] = step[<<h[(i - 1) - 1], i - 1>>]
        BY <1>3, <3>1
      <3>3. f[i - 1] = h[(i - 1) - 1]
        BY <1>1, <3>1
      <3>4. h[(i - 1) - 1] \in Int
        BY <1>3, <3>1
      <3>. QED
        BY <3>1, <3>2, <3>3, <3>4 DEF step
    <2>2. f[1] = 0
      BY <1>1, <1>3
    <2>. QED
      BY <1>1, <2>1, <2>2
  <1> DEFINE g == CHOOSE f1 : Sums(f1)
  <1>5. Sums(g)
    BY <1>4
  <1>6. Length(w) = g[Len(w)]
    BY DEF Length
  <1> HIDE DEF g
  <1> SUFFICES g \in [1..Len(w) -> Int]
    <2>1. g[1] = 0
      BY <1>1, <1>5
    <2>2. \A i \in 2..Len(w) : g[i] = g[i - 1] + Dist(w[i - 1], w[i])
      <3> TAKE i \in 2..Len(w)
      <3>1. i \in DOMAIN w /\ i # 1
        BY <1>1
      <3>. QED
        BY <1>5, <3>1
    <2>. QED
      BY <1>6, <2>1, <2>2
  <1> DEFINE S == {m \in Nat : m + 1 <= Len(w) => g[m + 1] \in Int}
  <1>7. 0 \in S
    BY <1>1, <1>5
  <1>8. ASSUME NEW m \in Nat, m \in S PROVE m + 1 \in S
    <2> SUFFICES ASSUME m + 2 <= Len(w) PROVE g[m + 2] \in Int
      OBVIOUS
    <2>1. m + 2 \in DOMAIN w /\ m + 1 \in DOMAIN w /\ m + 2 # 1 /\ (m + 2) - 1 = m + 1
      BY <1>1
    <2>2. g[m + 2] = g[m + 1] + Dist(w[m + 1], w[m + 2])
      BY <1>5, <2>1
    <2>3. Dist(w[m + 1], w[m + 2]) \in Nat
      BY <1>1, <2>1, DistType
    <2>4. g[m + 1] \in Int
      BY <1>8
    <2>. QED
      BY <2>2, <2>3, <2>4
  <1> HIDE DEF S
  <1>9. \A m \in Nat : m \in S
    BY <1>7, <1>8, Induction
  <1>10. ASSUME NEW i \in 1..Len(w) PROVE g[i] \in Int
    <2>1. i - 1 \in Nat /\ (i - 1) + 1 = i
      BY <1>1
    <2>2. i - 1 \in S
      BY <1>9, <2>1
    <2>. QED
      BY <1>1, <2>1, <2>2 DEF S
  <1>. QED
    BY <1>1, <1>5, <1>10

\* No detour is shorter than the straight way.
LEMMA Triangle ==
  ASSUME NEW a \in Int, NEW b \in Int, NEW p \in Int
  PROVE  Dist(a, p) + Dist(p, b) - Dist(a, b) \in Nat
  BY SMTT(30) DEF Dist

LEMMA CostType ==
  ASSUME NEW w \in Seq(Int), NEW i \in 2..Len(w), NEW p \in Int
  PROVE  Cost(w, i, p) \in Nat
  <1>1. Len(w) \in Nat
    BY LenProperties
  <1>2. i - 1 \in 1..Len(w) /\ i \in 1..Len(w)
    BY <1>1
  <1>3. w[i - 1] \in Int /\ w[i] \in Int
    BY <1>2, ElementOfSeq
  <1>. QED
    BY <1>3, Triangle DEF Cost

\* Passing by one more point costs what Cost says, whatever comes before and after.
LEMMA InsertionCost ==
  ASSUME NEW w \in Seq(Int), NEW i \in 2..Len(w), NEW p \in Int
  PROVE  Length(InsertAt(w, i, p)) = Length(w) + Cost(w, i, p)
  <1> DEFINE v == InsertAt(w, i, p)
             c == Cost(w, i, p)
             D(x, y) == Dist(x, y)
  <1>1. Len(w) \in Nat /\ \A k \in 1..Len(w) : w[k] \in Int
    BY LenProperties
  <1>2. /\ v \in Seq(Int) /\ Len(v) = Len(w) + 1
        /\ \A k \in 1..(Len(w) + 1) : v[k] = IF k < i THEN w[k] ELSE IF k = i THEN p ELSE w[k - 1]
    <2>1. i \in 1..(Len(w) + 1)
      BY <1>1
    <2>. QED
      BY <2>1, InsertAtInt, ZenonT(60)
  <1>3. c = D(w[i - 1], p) + D(p, w[i]) - D(w[i - 1], w[i])
    BY DEF Cost
  <1> HIDE DEF v, c
  <1>4. PICK g \in [1..Len(w) -> Int] :
          /\ Length(w) = g[Len(w)] /\ g[1] = 0
          /\ \A k \in 2..Len(w) : g[k] = g[k - 1] + D(w[k - 1], w[k])
    <2>1. Len(w) >= 1
      BY <1>1
    <2>. QED
      BY <2>1, PartialSums
  <1>5. PICK h \in [1..Len(v) -> Int] :
          /\ Length(v) = h[Len(v)] /\ h[1] = 0
          /\ \A k \in 2..Len(v) : h[k] = h[k - 1] + D(v[k - 1], v[k])
    <2>1. Len(v) >= 1
      BY <1>1, <1>2
    <2>. QED
      BY <1>2, <2>1, PartialSums
  <1>6. \A x, y \in Int : D(x, y) \in Nat
    BY DistType
  <1> HIDE DEF D
  <1> DEFINE S == {m \in Nat : m + 1 <= Len(w) =>
                     /\ m + 1 < i => h[m + 1] = g[m + 1]
                     /\ m + 1 >= i => h[m + 2] = g[m + 1] + c}
  <1>7. 0 \in S
    BY <1>1, <1>4, <1>5
  <1>8. ASSUME NEW m \in Nat, m \in S PROVE m + 1 \in S
    <2> SUFFICES ASSUME m + 2 <= Len(w)
                 PROVE  /\ m + 2 < i => h[m + 2] = g[m + 2]
                        /\ m + 2 >= i => h[m + 3] = g[m + 2] + c
      OBVIOUS
    <2>1. /\ w[m + 1] \in Int /\ w[m + 2] \in Int
          /\ D(w[m + 1], w[m + 2]) \in Int
          /\ D(w[m + 1], p) \in Int /\ D(p, w[m + 2]) \in Int
      <3>1. m + 1 \in 1..Len(w) /\ m + 2 \in 1..Len(w)
        BY <1>1
      <3>2. w[m + 1] \in Int /\ w[m + 2] \in Int
        BY <1>1, <3>1
      <3>3. /\ D(w[m + 1], w[m + 2]) \in Nat
            /\ D(w[m + 1], p) \in Nat /\ D(p, w[m + 2]) \in Nat
        BY <1>6, <3>2
      <3>. QED
        BY <3>2, <3>3
    <2>2. g[m + 2] = g[m + 1] + D(w[m + 1], w[m + 2]) /\ g[m + 1] \in Int /\ g[m + 2] \in Int
      <3>1. m + 2 \in 2..Len(w) /\ (m + 2) - 1 = m + 1 /\ m + 1 \in 1..Len(w)
        BY <1>1
      <3>2. m + 2 \in 1..Len(w)
        BY <1>1
      <3>3. g[m + 1] \in Int /\ g[m + 2] \in Int
        BY <3>1, <3>2
      <3>4. g[m + 2] = g[(m + 2) - 1] + D(w[(m + 2) - 1], w[m + 2])
        BY <1>4, <3>1
      <3>. QED
        BY <3>1, <3>3, <3>4
    <2>3. h[m + 2] = h[m + 1] + D(v[m + 1], v[m + 2])
      <3>1. m + 2 \in 2..Len(v) /\ (m + 2) - 1 = m + 1
        BY <1>1, <1>2
      <3>. QED
        BY <1>5, <3>1
    <2>4. h[m + 3] = h[m + 2] + D(v[m + 2], v[m + 3])
      <3>1. m + 3 \in 2..Len(v) /\ (m + 3) - 1 = m + 2
        BY <1>1, <1>2
      <3>. QED
        BY <1>5, <3>1
    <2>5. CASE m + 2 < i
      <3>1. v[m + 1] = w[m + 1] /\ v[m + 2] = w[m + 2]
        <4>1. m + 1 \in 1..(Len(w) + 1) /\ m + 2 \in 1..(Len(w) + 1) /\ m + 1 < i
          BY <2>5, <1>1
        <4>. QED
          BY <2>5, <4>1, <1>2
      <3>2. h[m + 1] = g[m + 1]
        BY <2>5, <1>8
      <3>. QED
        BY <2>2, <2>3, <2>5, <3>1, <3>2
    <2>6. CASE m + 2 = i
      <3>1. v[m + 1] = w[m + 1] /\ v[m + 2] = p /\ v[m + 3] = w[m + 2]
        <4>1. (m + 3) - 1 = m + 2 /\ m + 1 \in 1..(Len(w) + 1) /\ m + 2 \in 1..(Len(w) + 1)
              /\ m + 3 \in 1..(Len(w) + 1)
          BY <1>1
        <4>2. m + 1 < i /\ ~(m + 2 < i) /\ ~(m + 3 < i) /\ m + 3 # i
          BY <2>6, <1>1
        <4>. QED
          BY <2>6, <4>1, <4>2, <1>2
      <3>2. h[m + 1] = g[m + 1]
        BY <2>6, <1>8
      <3>3. c = D(w[m + 1], p) + D(p, w[m + 2]) - D(w[m + 1], w[m + 2])
        <4>1. i - 1 = m + 1
          BY <2>6
        <4>. QED
          BY <1>3, <2>6, <4>1
      <3>. QED
        <4> DEFINE a == D(w[m + 1], p)
                   b == D(p, w[m + 2])
                   e == D(w[m + 1], w[m + 2])
        <4>1. h[m + 2] = g[m + 1] + a
          BY <2>3, <3>1, <3>2
        <4>2. h[m + 3] = h[m + 2] + b
          BY <2>4, <3>1
        <4>3. /\ g[m + 1] \in Int /\ a \in Int /\ b \in Int /\ e \in Int
              /\ g[m + 2] = g[m + 1] + e /\ c = a + b - e
          BY <2>1, <2>2, <3>3
        <4> HIDE DEF a, b, e
        <4>4. h[m + 3] = g[m + 2] + c
          BY <4>1, <4>2, <4>3
        <4>. QED
          BY <2>6, <4>4
    <2>7. CASE m + 2 > i
      <3>1. v[m + 2] = w[m + 1] /\ v[m + 3] = w[m + 2]
        <4>1. (m + 3) - 1 = m + 2 /\ (m + 2) - 1 = m + 1 /\ m + 2 \in 1..(Len(w) + 1)
              /\ m + 3 \in 1..(Len(w) + 1)
          BY <1>1
        <4>2. ~(m + 2 < i) /\ m + 2 # i /\ ~(m + 3 < i) /\ m + 3 # i
          BY <2>7, <1>1
        <4>. QED
          BY <4>1, <4>2, <1>2
      <3>2. h[m + 2] = g[m + 1] + c
        BY <2>7, <1>8
      <3>3. c \in Nat
        BY CostType DEF c
      <3> DEFINE e == D(w[m + 1], w[m + 2])
      <3>4. /\ h[m + 3] = (g[m + 1] + c) + e /\ g[m + 2] = g[m + 1] + e
            /\ e \in Int /\ g[m + 1] \in Int
        BY <2>1, <2>2, <2>4, <3>1, <3>2
      <3> HIDE DEF e
      <3>5. h[m + 3] = g[m + 2] + c
        BY <3>3, <3>4
      <3>. QED
        BY <2>7, <3>5
    <2>. QED
      BY <2>5, <2>6, <2>7
  <1> HIDE DEF S
  <1>9. Len(w) - 1 \in S
    <2>1. Len(w) - 1 \in Nat
      BY <1>1
    <2>. QED
      BY <1>7, <1>8, <2>1, Induction
  <1>10. h[Len(w) + 1] = g[Len(w)] + c
    <2>1. Len(w) - 1 \in Nat /\ (Len(w) - 1) + 1 = Len(w) /\ (Len(w) - 1) + 2 = Len(w) + 1
      BY <1>1
    <2>. QED
      BY <1>9, <2>1 DEF S
  <1>. QED
    BY <1>2, <1>4, <1>5, <1>10 DEF v, c

-----------------------------------------------------------------------------
(* What a rider is charged                                                   *)

\* The way of the trip is at least its two ends.
LEMMA WaypointsType ==
  ASSUME PoolTypeOK
  PROVE  Waypoints \in Seq(Int) /\ Len(Waypoints) >= 2
  <1> DEFINE a == <<trip.route[1]>>
             b == [i \in DOMAIN pool.stops |-> Location(pool.stops[i])]
             c == <<trip.route[Len(trip.route)]>>
             route == trip.route
             stops == pool.stops
  <1>1. route \in Seq(Int) /\ Len(route) \in Nat /\ Len(route) >= 2
    BY PoolAssumption, LenProperties DEF PoolTypeOK
  <1>2. stops \in Seq(Stops(Requesters)) /\ DOMAIN stops = 1..Len(stops) /\ Len(stops) \in Nat
    BY LenProperties DEF PoolTypeOK
  <1>3. route[1] \in Int /\ route[Len(route)] \in Int
    BY <1>1, ElementOfSeq
  <1>4. a \in Seq(Int) /\ Len(a) = 1 /\ c \in Seq(Int) /\ Len(c) = 1
    BY <1>3
  <1>5. ASSUME NEW i \in 1..Len(stops) PROVE Location(stops[i]) \in Int
    <2>1. stops[i] \in Stops(Requesters)
      BY <1>2, ElementOfSeq
    <2>2. stops[i].rider \in Requesters
      BY <2>1 DEF Stops
    <2>3. rider[stops[i].rider].pickup \in Int /\ rider[stops[i].rider].dropoff \in Int
      BY PoolAssumption, <2>2 DEF PoolTypeOK, Requests
    <2>. QED
      BY <2>3 DEF Location
  <1>6. b \in Seq(Int) /\ Len(b) \in Nat
    BY <1>2, <1>5
  <1>7. Waypoints = a \o b \o c
    BY DEF Waypoints, Last
  <1> HIDE DEF a, b, c
  <1>8. a \o b \in Seq(Int) /\ Len(a \o b) = 1 + Len(b)
    BY <1>4, <1>6, ConcatInt
  <1> DEFINE d == a \o b
  <1> HIDE DEF d
  <1>9. d \o c \in Seq(Int) /\ Len(d \o c) = Len(d) + 1
    BY <1>4, <1>8, ConcatInt DEF d
  <1>. QED
    BY <1>6, <1>7, <1>8, <1>9 DEF d

\* The cheapest place between the a-th and the b-th point is one of them.
LEMMA CheapestPlace ==
  ASSUME NEW w \in Seq(Int), NEW p \in Int, NEW a \in 2..Len(w)
  PROVE  LET M == {Cost(w, i, p) : i \in a..Len(w)} IN
         \E i \in a..Len(w) : Min(M) = Cost(w, i, p)
  <1> DEFINE f == [i \in a..Len(w) |-> Cost(w, i, p)]
             M == {Cost(w, i, p) : i \in a..Len(w)}
             N == {f[i] : i \in a..Len(w)}
  <1>1. Len(w) \in Int /\ a \in Int /\ a <= Len(w)
    BY LenProperties
  <1>2. ASSUME NEW i \in a..Len(w) PROVE Cost(w, i, p) \in Int
    <2>1. i \in 2..Len(w)
      BY <1>1
    <2>2. Cost(w, i, p) \in Nat
      BY <2>1, CostType
    <2>. QED
      BY <2>2
  <1>3. f \in [a..Len(w) -> Int]
    BY <1>2
  <1>4. M = N
    OBVIOUS
  <1> HIDE DEF f
  <1>5. Min(N) \in N
    BY <1>1, <1>3, MinOfImage
  <1>6. Min(M) \in M
    BY <1>4, <1>5
  <1>. QED
    BY <1>6

\* The charge is the length that some tour with the rider's two stops has over the tour
\* without them; in particular it is never negative.
LEMMA ChargeIsInsertion ==
  ASSUME PoolTypeOK, NEW r \in Requesters
  PROVE  LET w == Waypoints IN
         \E i \in 2..Len(w), j \in 3..(Len(w) + 1) :
           /\ i < j
           /\ MarginalDetour(r) \in Nat
           /\ MarginalDetour(r) =
                Length(InsertAt(InsertAt(w, i, rider[r].pickup), j, rider[r].dropoff))
                  - Length(w)
  <1> DEFINE w == Waypoints
             p == rider[r].pickup
             d == rider[r].dropoff
  <1>1. w \in Seq(Int) /\ Len(w) >= 2 /\ Len(w) \in Nat
    BY WaypointsType, LenProperties
  <1>2. p \in Int /\ d \in Int
    BY PoolAssumption DEF PoolTypeOK, Requests
  <1> DEFINE pickupCost == Min({Cost(w, i, p) : i \in 2..Len(w)})
             Best == {i \in 2..Len(w) : Cost(w, i, p) = pickupCost}
             best == Min(Best)
             with == InsertAt(w, best, p)
             dropCost == Min({Cost(with, i, d) : i \in (best + 1)..Len(with)})
  <1>3. MarginalDetour(r) = pickupCost + dropCost
    BY Zenon DEF MarginalDetour
  <1> HIDE DEF w, p, d
  <1>4. \E i \in 2..Len(w) : pickupCost = Cost(w, i, p)
    <2>1. 2 \in 2..Len(w)
      BY <1>1
    <2>. QED
      BY <1>1, <1>2, <2>1, CheapestPlace
  <1>5. best \in 2..Len(w) /\ Cost(w, best, p) = pickupCost
    <2> HIDE DEF pickupCost
    <2>1. Best # {} /\ Best \subseteq Nat
      BY <1>1, <1>4
    <2>2. best \in Best
      BY <2>1, LeastNatural
    <2>. QED
      BY <2>2
  <1> HIDE DEF best
  <1>6. with \in Seq(Int) /\ Len(with) = Len(w) + 1
    <2>1. best \in 1..(Len(w) + 1)
      BY <1>1, <1>5
    <2>. QED
      BY <1>1, <1>2, <2>1, InsertAtInt
  <1> HIDE DEF with, pickupCost
  <1>7. PICK j \in (best + 1)..Len(with) : dropCost = Cost(with, j, d)
    <2>1. best + 1 \in 2..Len(with)
      BY <1>1, <1>5, <1>6
    <2>. QED
      BY <1>2, <1>6, <2>1, CheapestPlace
  <1> HIDE DEF dropCost
  <1>8. j \in 2..Len(with) /\ j \in 3..(Len(w) + 1) /\ best < j
    BY <1>1, <1>5, <1>6
  <1>9. Length(with) = Length(w) + pickupCost
    BY <1>1, <1>2, <1>5, InsertionCost DEF with
  <1>10. Length(InsertAt(with, j, d)) = Length(with) + dropCost
    BY <1>2, <1>6, <1>7, <1>8, InsertionCost
  <1>11. pickupCost \in Nat /\ dropCost \in Nat
    BY <1>1, <1>2, <1>5, <1>6, <1>7, <1>8, CostType
  <1>12. Length(w) \in Int
    <2>1. Len(w) >= 1 /\ Len(w) \in 1..Len(w)
      BY <1>1
    <2>. QED
      BY <1>1, <2>1, PartialSums
  <1>13. /\ MarginalDetour(r) \in Nat
         /\ MarginalDetour(r) =
              Length(InsertAt(with, j, d)) - Length(w)
    BY <1>3, <1>9, <1>10, <1>11, <1>12
  <1>. QED
    BY <1>5, <1>8, <1>13 DEF w, p, d, with

-----------------------------------------------------------------------------
(* The order of the stops                                                    *)

Up(r) == [type |-> "pickup", rider |-> r]

\* Each rider of R is picked up and dropped off.
Covers(s, R) == \A x \in Stops(R) : \E k \in 1..Len(s) : s[k] = x

\* The rider of each of the first n stops has been picked up there or before.
InOrder(s, n) == \A k \in 1..n : \E j \in 1..k : s[j] = Up(s[k].rider)

LEMMA UpIsStop == ASSUME NEW R, NEW r \in R PROVE Up(r) \in Stops(R)
  BY DEF Up, Stops

\* A listing of the stops without repetitions leaves none out.
LEMMA SortedCovers ==
  ASSUME NEW R, IsFiniteSet(R), NEW s \in SetToSeqs(Stops(R))
  PROVE  s \in Seq(Stops(R)) /\ Covers(s, R)
  <1> DEFINE T == Stops(R)
             P == {"pickup", "dropoff"} \X R
             f == [x \in P |-> [type |-> x[1], rider |-> x[2]]]
             n == Cardinality(T)
  <1>1. IsFiniteSet(P)
    <2>1. IsFiniteSet({"pickup", "dropoff"})
      <3>1. {"pickup", "dropoff"} = {"pickup"} \union {"dropoff"}
        OBVIOUS
      <3>2. IsFiniteSet({"pickup"}) /\ IsFiniteSet({"dropoff"})
        BY FS_Singleton, Zenon
      <3>3. IsFiniteSet({"pickup"} \union {"dropoff"})
        BY <3>2, FS_Union, Zenon
      <3>. QED
        BY <3>1, <3>3
    <2>. QED
      BY <2>1, FS_Product
  <1>2. f \in Surjection(P, T)
    <2>1. f \in [P -> T]
      BY DEF Stops
    <2>2. ASSUME NEW t \in T PROVE \E x \in P : f[x] = t
      <3>1. <<t.type, t.rider>> \in P
        BY DEF Stops
      <3>2. f[<<t.type, t.rider>>] = t
        BY <3>1 DEF Stops
      <3>. QED
        BY <3>1, <3>2
    <2>. QED
      BY <2>1, <2>2 DEF Surjection
  <1>3. IsFiniteSet(T)
    BY <1>1, <1>2, FS_Surjection
  <1> HIDE DEF f, P, T
  <1>4. n \in Nat
    BY <1>3, FS_CardinalityType
  <1>5. s \in [1..n -> T] /\ \A i, j \in 1..n : i # j => s[i] # s[j]
    BY DEF SetToSeqs, T
  <1>6. s \in Injection(1..n, T)
    BY <1>5 DEF Injection, IsInjective
  <1>7. Cardinality(1..n) = n
    <2>1. 1 \in Int /\ n \in Int
      BY <1>4
    <2>. QED
      BY <2>1, <1>4, FS_Interval
  <1>8. s \in Surjection(1..n, T)
    BY <1>3, <1>6, <1>7, FS_Injection
  <1>9. Len(s) = n /\ s \in Seq(T)
    BY <1>4, <1>5
  <1>. QED
    BY <1>8, <1>9 DEF Covers, Surjection, T

\* Bringing a pickup forward loses no stop, keeps the order of what was passed, and puts
\* the stop it was called for in order.
LEMMA AheadOrders ==
  ASSUME NEW R, NEW s \in Seq(Stops(R)), Covers(s, R), NEW i \in 1..Len(s),
         InOrder(s, i - 1)
  PROVE  LET t == Ahead(s, i) IN
         /\ t \in Seq(Stops(R)) /\ Len(t) = Len(s)
         /\ Covers(t, R) /\ InOrder(t, i)
  <1> DEFINE T == Stops(R)
             up == Up(s[i].rider)
  <1>1. Len(s) \in Nat
    BY LenProperties
  <1>2. s[i] \in T
    BY ElementOfSeq
  <1>3. s[i].rider \in R
    BY <1>2 DEF Stops
  <1>4. up \in T /\ up.rider = s[i].rider
    BY <1>3, UpIsStop DEF Up
  <1>5. CASE \E j \in 1..i : s[j] = up
    <2>1. Ahead(s, i) = s
      BY <1>5 DEF Ahead, Up
    <2>2. InOrder(s, i)
      BY <1>1, <1>5 DEF InOrder
    <2>. QED
      BY <2>1, <2>2
  <1>6. CASE ~ \E j \in 1..i : s[j] = up
    <2> DEFINE J == {k \in 1..Len(s) : s[k] = up}
               j == Min(J)
               u == RemoveAt(s, j)
               t == InsertAt(u, i, up)
    <2>1. J # {} /\ J \subseteq Nat
      <3>1. \E k \in 1..Len(s) : s[k] = up
        BY <1>4, Zenon DEF Covers
      <3>. QED
        BY <1>1, <3>1
    <2>2. j \in 1..Len(s) /\ s[j] = up
      <3>1. j \in J
        BY <2>1, LeastNatural
      <3>. QED
        BY <3>1
    <2>3. RemoveFirst(s, up) = u
      <3>1. SelectInSeq(s, LAMBDA v : v = up) = j
        BY <2>1 DEF SelectInSeq
      <3>. QED
        BY <2>2, <3>1 DEF RemoveFirst
    <2>4. Ahead(s, i) = t
      BY <1>6, <2>3 DEF Ahead, Up
    <2> HIDE DEF j, T, up
    <2>5. i < j
      BY <1>1, <1>6, <2>2
    <2>6. /\ u \in Seq(T) /\ Len(u) = Len(s) - 1
          /\ \A k \in 1..(Len(s) - 1) : u[k] = IF k < j THEN s[k] ELSE s[k + 1]
      BY <2>2, RemoveAtProperties DEF T
    <2> HIDE DEF u
    <2>7. i \in 1..(Len(u) + 1)
      BY <1>1, <2>2, <2>5, <2>6
    <2>8. /\ t \in Seq(T) /\ Len(t) = Len(u) + 1
          /\ \A k \in 1..(Len(u) + 1) : t[k] = IF k < i THEN u[k] ELSE IF k = i THEN up ELSE u[k - 1]
      <3>1. up \in T /\ u \in Seq(T)
        BY <1>4, <2>6
      <3>. QED
        BY SMTT(60), <2>7, <3>1, InsertAtProperties
    <2> HIDE DEF t
    <2>9. Len(t) = Len(s)
      BY <1>1, <2>6, <2>8
    <2>10. ASSUME NEW k \in 1..Len(s)
           PROVE  /\ k < i => t[k] = s[k]
                  /\ k = i => t[k] = up
                  /\ i < k /\ k <= j => t[k] = s[k - 1]
                  /\ j < k => t[k] = s[k]
      <3>1. k \in 1..(Len(u) + 1)
        BY <1>1, <2>6
      <3>2. CASE k < i
        <4>1. k \in 1..(Len(s) - 1) /\ k < j /\ ~(i < k) /\ k # i
          BY <1>1, <2>2, <2>5, <3>2
        <4>. QED
          BY <2>6, <2>8, <3>1, <3>2, <4>1
      <3>3. CASE k = i
        BY <2>2, <2>5, <2>8, <3>1, <3>3
      <3>4. CASE i < k
        <4>1. k - 1 \in 1..(Len(s) - 1) /\ (k - 1) + 1 = k /\ ~(k < i) /\ k # i
          BY <1>1, <3>4
        <4>2. t[k] = u[k - 1]
          BY <2>8, <3>1, <4>1
        <4>3. u[k - 1] = IF k - 1 < j THEN s[k - 1] ELSE s[k]
          BY <2>6, <4>1
        <4>4. (k - 1 < j) <=> (k <= j)
          BY <2>2
        <4>. QED
          BY <3>4, <4>2, <4>3, <4>4, <2>2
      <3>. QED
        BY <3>2, <3>3, <3>4
    <2>11. Covers(t, R)
      <3> SUFFICES ASSUME NEW x \in T PROVE \E k \in 1..Len(t) : t[k] = x
        BY DEF Covers, T
      <3>1. PICK q \in 1..Len(s) : s[q] = x
        BY DEF Covers, T
      <3>2. CASE q < i
        BY <2>9, <2>10, <3>1, <3>2
      <3>3. CASE q = j
        BY <1>1, <2>2, <2>9, <2>10, <3>1, <3>3
      <3>4. CASE j < q
        BY <2>9, <2>10, <3>1, <3>4
      <3>5. CASE i <= q /\ q < j
        <4>1. q + 1 \in 1..Len(s) /\ i < q + 1 /\ q + 1 <= j /\ (q + 1) - 1 = q
          BY <1>1, <2>2, <3>5
        <4>2. t[q + 1] = s[q]
          BY <2>10, <4>1
        <4>. QED
          BY <2>9, <3>1, <4>1, <4>2
      <3>. QED
        BY <2>2, <3>2, <3>3, <3>4, <3>5
    <2>12. InOrder(t, i)
      <3> SUFFICES ASSUME NEW k \in 1..i PROVE \E m \in 1..k : t[m] = Up(t[k].rider)
        BY DEF InOrder
      <3>1. CASE k = i
        <4>1. t[i] = up
          BY <2>10
        <4>. QED
          BY <1>4, <3>1, <4>1 DEF up
      <3>2. CASE k < i
        <4>1. k \in 1..(i - 1)
          BY <3>2
        <4>2. PICK m \in 1..k : s[m] = Up(s[k].rider)
          BY <4>1 DEF InOrder
        <4>3. m \in 1..Len(s) /\ m < i /\ k \in 1..Len(s)
          BY <1>1, <3>2
        <4>4. t[m] = s[m] /\ t[k] = s[k]
          BY <2>10, <3>2, <4>3
        <4>. QED
          BY <4>2, <4>4
      <3>. QED
        BY <3>1, <3>2
    <2>. QED
      BY <2>4, <2>8, <2>9, <2>11, <2>12 DEF T
  <1>. QED
    BY <1>5, <1>6

\* The loop over the sorted stops ends with all of them in order.
LEMMA EnforceOrders ==
  ASSUME NEW R, NEW s \in Seq(Stops(R)), Covers(s, R)
  PROVE  LET t == EnforcePickupBeforeDropoff(s) IN
         t \in Seq(Stops(R)) /\ Len(t) = Len(s) /\ Covers(t, R) /\ InOrder(t, Len(t))
  <1> DEFINE n == Len(s)
             D == {x \in Seq(Stops(R)) : Len(x) = n /\ Covers(x, R)}
             E == {x \in D \X (1..n) : InOrder(x[1], x[2] - 1)}
             step == [x \in D \X (1..n) |-> IF x \in E THEN Ahead(x[1], x[2]) ELSE s]
             Loop(f) == f = [i \in 0..n |-> IF i = 0 THEN s ELSE Ahead(f[i - 1], i)]
  <1>1. n \in Nat /\ s \in D
    BY LenProperties
  <1>2. ASSUME NEW x \in D, NEW i \in 1..n, InOrder(x, i - 1)
        PROVE  Ahead(x, i) \in D /\ InOrder(Ahead(x, i), i)
    BY <1>2, AheadOrders
  <1> HIDE DEF D
  <1>3. step \in [D \X (1..n) -> D]
    <2>1. ASSUME NEW x \in D \X (1..n)
          PROVE  (IF x \in E THEN Ahead(x[1], x[2]) ELSE s) \in D
      <3>1. x[1] \in D /\ x[2] \in 1..n
        OBVIOUS
      <3>2. CASE x \in E
        BY <1>2, <3>1, <3>2
      <3>. QED
        BY <1>1, <3>2
    <2>. QED
      BY <2>1
  <1> HIDE DEF step, n
  <1>4. PICK h : Recurs(h, n, D, s, step)
    BY <1>1, <1>3, Recursion
  <1> DEFINE S == {m \in Nat : m <= n => InOrder(h[m], m)}
  <1>5. 0 \in S
    BY DEF InOrder
  <1>6. ASSUME NEW m \in Nat, m <= n, InOrder(h[m], m), m + 1 <= n
        PROVE  h[m + 1] = Ahead(h[m], m + 1)
    <2>1. m \in 0..n /\ m + 1 \in 1..n /\ (m + 1) - 1 = m
      BY <1>1, <1>6
    <2>2. h[m] \in D /\ h[m + 1] = step[<<h[m], m + 1>>]
      BY <1>4, <2>1 DEF Recurs
    <2>3. <<h[m], m + 1>> \in E
      BY <1>6, <2>1, <2>2
    <2>. QED
      BY <2>1, <2>2, <2>3 DEF step
  <1>7. ASSUME NEW m \in Nat, m \in S PROVE m + 1 \in S
    <2> SUFFICES ASSUME m + 1 <= n PROVE InOrder(h[m + 1], m + 1)
      OBVIOUS
    <2>1. m <= n /\ m \in 0..n /\ m + 1 \in 1..n /\ (m + 1) - 1 = m
      BY <1>1
    <2>2. InOrder(h[m], m)
      BY <1>7, <2>1
    <2>3. h[m] \in D
      BY <1>4, <2>1 DEF Recurs
    <2>. QED
      BY <1>2, <1>6, <2>1, <2>2, <2>3
  <1> HIDE DEF S
  <1>8. \A m \in Nat : m \in S
    BY <1>5, <1>7, Induction
  <1>9. \A m \in 0..n : h[m] \in D /\ InOrder(h[m], m)
    BY <1>1, <1>4, <1>8 DEF S, Recurs
  <1>10. Loop(h)
    <2>1. h \in [0..n -> D] /\ h[0] = s
      BY <1>4 DEF Recurs
    <2>2. ASSUME NEW i \in 0..n, i # 0 PROVE h[i] = Ahead(h[i - 1], i)
      <3>1. i - 1 \in Nat /\ i - 1 \in 0..n /\ i - 1 <= n /\ (i - 1) + 1 = i /\ i <= n
        BY <1>1, <2>2
      <3>2. InOrder(h[i - 1], i - 1)
        BY <1>9, <3>1
      <3>. QED
        BY <1>6, <3>1, <3>2
    <2>. QED
      BY <2>1, <2>2
  <1>11. ASSUME NEW f, Loop(f) PROVE f = h
    <2> DEFINE A == {m \in Nat : m <= n => f[m] = h[m]}
    <2>1. 0 \in A
      BY <1>1, <1>10, <1>11
    <2>2. ASSUME NEW m \in Nat, m \in A PROVE m + 1 \in A
      <3> SUFFICES ASSUME m + 1 <= n PROVE f[m + 1] = h[m + 1]
        OBVIOUS
      <3>1. m + 1 \in 0..n /\ m + 1 # 0 /\ (m + 1) - 1 = m /\ f[m] = h[m]
        BY <1>1, <2>2
      <3>2. f[m + 1] = Ahead(f[m], m + 1)
        BY <1>11, <3>1
      <3>3. h[m + 1] = Ahead(h[m], m + 1)
        BY <1>10, <3>1
      <3>. QED
        BY <3>1, <3>2, <3>3
    <2> HIDE DEF A
    <2>3. \A m \in Nat : m \in A
      BY <2>1, <2>2, Induction
    <2>4. \A m \in 0..n : f[m] = h[m]
      BY <1>1, <2>3 DEF A
    <2>5. DOMAIN f = 0..n /\ f = [m \in 0..n |-> f[m]] /\ h = [m \in 0..n |-> h[m]]
      BY <1>10, <1>11
    <2>. QED
      BY <2>4, <2>5
  <1> DEFINE g == CHOOSE f : Loop(f)
  <1>12. Loop(g)
    BY <1>10
  <1>13. EnforcePickupBeforeDropoff(s) = g[n]
    BY DEF EnforcePickupBeforeDropoff, n
  <1> HIDE DEF g
  <1>14. g = h
    BY <1>11, <1>12
  <1>15. n \in 0..n
    BY <1>1
  <1>16. g[n] \in D /\ InOrder(g[n], n)
    BY <1>9, <1>14, <1>15
  <1>. QED
    BY <1>13, <1>16, Zenon DEF D, n

-----------------------------------------------------------------------------
(* The invariants of the optimizer                                           *)

StopsOK == Covers(pool.stops, Selected) /\ InOrder(pool.stops, Len(pool.stops))

PoolInv == PoolTypeOK /\ StopsOK /\ PickupFirst

LEMMA StopRider ==
  ASSUME NEW R, NEW s \in Seq(Stops(R))
  PROVE  \A i \in 1..Len(s) : s[i].rider \in R
  <1> TAKE i \in 1..Len(s)
  <1>1. s[i] \in Stops(R)
    BY ElementOfSeq
  <1>. QED
    BY <1>1 DEF Stops

\* The riders of a listing are those whose stops it holds.
LEMMA RidersOf ==
  ASSUME NEW R, NEW s \in Seq(Stops(R)), Covers(s, R)
  PROVE  {s[i].rider : i \in DOMAIN s} = R
  <1>1. DOMAIN s = 1..Len(s)
    BY LenProperties
  <1>2. \A i \in 1..Len(s) : s[i].rider \in R
    BY StopRider
  <1>3. ASSUME NEW r \in R PROVE \E i \in 1..Len(s) : s[i].rider = r
    <2>1. Up(r) \in Stops(R) /\ Up(r).rider = r
      BY UpIsStop DEF Up
    <2>2. PICK i \in 1..Len(s) : s[i] = Up(r)
      BY <2>1 DEF Covers
    <2>. QED
      BY <2>1, <2>2
  <1>. QED
    BY <1>1, <1>2, <1>3

LEMMA PoolInitOK == PoolInit => PoolInv
  <1> SUFFICES ASSUME PoolInit PROVE PoolInv
    OBVIOUS
  <1>1. pool.stops = <<>> /\ pool.detour = 0
    BY DEF PoolInit, NoPool
  <1>2. PoolTypeOK
    <2>1. <<>> \in Seq(Stops(Requesters)) /\ 0 \in 0..MaxDetour
      BY PoolAssumption
    <2>2. pool \in [stops : Seq(Stops(Requesters)), detour : 0..MaxDetour]
      BY <2>1 DEF PoolInit, NoPool
    <2>. QED
      BY <2>2 DEF PoolTypeOK, PoolInit
  <1>3. StopsOK
    <2>1. Len(pool.stops) = 0 /\ DOMAIN pool.stops = {}
      BY <1>1
    <2>2. Selected = {}
      BY <2>1 DEF Selected
    <2>. QED
      BY <2>1, <2>2 DEF StopsOK, Covers, InOrder, Stops
  <1>4. PickupFirst
    BY DEF PickupFirst, PoolInit
  <1>. QED
    BY <1>2, <1>3, <1>4 DEF PoolInv

LEMMA FinitePool ==
  ASSUME PoolTypeOK, NEW r \in Requesters
  PROVE  /\ Selected \union {r} \subseteq Requesters
         /\ IsFiniteSet(Selected \union {r})
  <1>1. pool.stops \in Seq(Stops(Requesters))
    BY DEF PoolTypeOK
  <1>2. Selected \subseteq Requesters
    <2>1. DOMAIN pool.stops = 1..Len(pool.stops)
      BY <1>1, LenProperties
    <2>2. \A i \in 1..Len(pool.stops) : pool.stops[i].rider \in Requesters
      BY <1>1, StopRider
    <2>. QED
      BY <2>1, <2>2 DEF Selected
  <1>3. IsFiniteSet(Requesters)
    BY PoolAssumption
  <1>. QED
    BY <1>2, <1>3, FS_Subset

LEMMA ConsiderKeeps ==
  ASSUME PoolInv, NEW r \in Requesters, Consider(r)
  PROVE  PoolInv'
  <1> DEFINE R == Selected \union {r}
  <1>1. /\ waiting' \subseteq Requesters /\ trip' = trip /\ rider' = rider /\ at' = at
        /\ member' = member
    BY DEF PoolInv, PoolTypeOK, Consider
  <1>2. PickupFirst'
    BY <1>1 DEF PoolInv, PickupFirst
  <1>3. CASE Fits(r)
    <2>1. PICK s \in Sorted(R) :
            pool' = [stops |-> EnforcePickupBeforeDropoff(s),
                     detour |-> pool.detour + MarginalDetour(r)]
      BY <1>3 DEF Consider
    <2>2. s \in SetToSeqs(Stops(R))
      BY DEF Sorted
    <2>3. IsFiniteSet(R) /\ R \subseteq Requesters
      BY FinitePool DEF PoolInv
    <2> DEFINE t == EnforcePickupBeforeDropoff(s)
    <2>4. s \in Seq(Stops(R)) /\ Covers(s, R)
      BY <2>2, <2>3, SortedCovers
    <2>5. t \in Seq(Stops(R)) /\ Covers(t, R) /\ InOrder(t, Len(t))
      BY <2>4, EnforceOrders
    <2>6. pool'.stops = t /\ pool'.detour = pool.detour + MarginalDetour(r)
      BY <2>1
    <2> HIDE DEF t, R
    <2>7. Selected' = R
      <3>1. {t[i].rider : i \in DOMAIN t} = R
        BY <2>5, RidersOf
      <3>. QED
        BY <2>6, <3>1 DEF Selected
    <2>8. StopsOK'
      BY <2>5, <2>6, <2>7 DEF StopsOK
    <2>9. t \in Seq(Stops(Requesters))
      <3>1. Stops(R) \subseteq Stops(Requesters)
        BY <2>3 DEF Stops
      <3>. QED
        BY <2>5, <3>1, SeqMonotonic
    <2>10. pool'.detour \in 0..MaxDetour
      <3>1. MarginalDetour(r) \in Nat
        BY ChargeIsInsertion DEF PoolInv
      <3>2. pool.detour \in Nat /\ MaxDetour \in Nat
        BY PoolAssumption DEF PoolInv, PoolTypeOK
      <3>. QED
        BY <1>3, <2>6, <3>1, <3>2 DEF Fits
    <2>11. pool' \in [stops : Seq(Stops(Requesters)), detour : 0..MaxDetour]
      BY <2>1, <2>6, <2>9, <2>10 DEF t
    <2>12. PoolTypeOK'
      BY <1>1, <2>11 DEF PoolInv, PoolTypeOK
    <2>. QED
      BY <1>2, <2>8, <2>12 DEF PoolInv
  <1>4. CASE ~Fits(r)
    <2>1. pool' = pool
      BY <1>4 DEF Consider
    <2>. QED
      BY <1>1, <1>2, <2>1 DEF PoolInv, PoolTypeOK, StopsOK, Selected
  <1>. QED
    BY <1>3, <1>4

\* A member's places: his pickup is among the stops, before his dropoff.
LEMMA PlacesInOrder ==
  ASSUME PoolTypeOK, StopsOK, NEW r \in Selected
  PROVE  /\ Place("pickup", r) \in Nat \ {0}
         /\ Place("dropoff", r) \in Nat
         /\ Place("pickup", r) < Place("dropoff", r)
  <1> DEFINE s == pool.stops
             R == Selected
             A == {k \in 1..Len(s) : s[k].type = "pickup" /\ s[k].rider = r}
             B == {k \in 1..Len(s) : s[k].type = "dropoff" /\ s[k].rider = r}
             down == [type |-> "dropoff", rider |-> r]
  <1>1. Up(r) \in Stops(R) /\ down \in Stops(R)
    BY DEF Up, Stops
  <1>2. PICK a \in 1..Len(s) : s[a] = Up(r)
    BY <1>1 DEF StopsOK, Covers
  <1>3. PICK b \in 1..Len(s) : s[b] = down
    BY <1>1 DEF StopsOK, Covers
  <1>4. a \in A /\ b \in B /\ A \subseteq Nat /\ B \subseteq Nat
    BY <1>2, <1>3 DEF Up
  <1>5. Min(A) \in A /\ Min(B) \in B /\ \A k \in A : Min(A) <= k
    BY <1>4, LeastNatural
  <1>6. Place("pickup", r) = Min(A)
    BY <1>4 DEF Place, SelectInSeq
  <1>7. Place("dropoff", r) = Min(B)
    BY <1>4 DEF Place, SelectInSeq
  <1>8. PICK j \in 1..Min(B) : s[j] = Up(s[Min(B)].rider)
    BY <1>5 DEF StopsOK, InOrder
  <1> DEFINE low == Min(B)
  <1>8a. low \in 1..Len(s) /\ s[low].type = "dropoff" /\ s[low].rider = r /\ Len(s) \in Nat
    <2>1. Len(s) \in Nat
      BY LenProperties DEF PoolTypeOK
    <2>. QED
      BY <1>5, <2>1
  <1> HIDE DEF low
  <1>9. j \in A /\ j # low
    <2>1. j \in 1..low /\ s[j] = Up(s[low].rider)
      BY <1>8 DEF low
    <2>2. j \in 1..Len(s)
      BY <1>8a, <2>1
    <2>. QED
      BY <1>8a, <2>1, <2>2 DEF Up
  <1>10. Min(A) <= j /\ Min(A) \in Nat \ {0} /\ Min(B) \in Nat
    BY <1>5, <1>9
  <1>. QED
    BY <1>6, <1>7, <1>8, <1>9, <1>10 DEF low

LEMMA SaveKeeps ==
  ASSUME PoolInv, SavePool
  PROVE  PoolInv'
  <1>1. member' = [r \in Selected |->
                     <<Place("pickup", r), Place("dropoff", r)>>]
    BY DEF SavePool
  <1>2. ASSUME NEW r \in Selected
        PROVE  /\ Place("pickup", r) \in Nat \ {0}
               /\ Place("dropoff", r) \in Nat
               /\ Place("pickup", r) < Place("dropoff", r)
    BY PlacesInOrder DEF PoolInv
  <1>3. PickupFirst'
    BY <1>1, <1>2 DEF PickupFirst
  <1>4. Selected \subseteq Requesters
    <2>1. pool.stops \in Seq(Stops(Requesters))
      BY DEF PoolInv, PoolTypeOK
    <2>2. DOMAIN pool.stops = 1..Len(pool.stops)
      BY <2>1, LenProperties
    <2>3. \A i \in 1..Len(pool.stops) : pool.stops[i].rider \in Requesters
      BY <2>1, StopRider
    <2>. QED
      BY <2>2, <2>3 DEF Selected
  <1>5. DOMAIN member' \subseteq Requesters /\ member' \in [DOMAIN member' -> Nat \X Nat]
    BY <1>1, <1>2, <1>4
  <1>6. trip' = trip /\ rider' = rider /\ at' = "saved" /\ waiting' = waiting /\ pool' = pool
    BY DEF SavePool
  <1>7. PoolTypeOK'
    BY <1>5, <1>6 DEF PoolInv, PoolTypeOK
  <1>8. StopsOK'
    BY <1>6 DEF PoolInv, StopsOK, Selected
  <1>. QED
    BY <1>3, <1>7, <1>8 DEF PoolInv

LEMMA PoolStep ==
  ASSUME PoolInv, [PoolNext]_poolVars
  PROVE  PoolInv'
  <1>1. CASE MatchRiders
    BY <1>1 DEF MatchRiders, PoolInv, PoolTypeOK, StopsOK, Selected,
       PickupFirst
  <1>2. ASSUME NEW r \in Requesters, Consider(r) PROVE PoolInv'
    BY <1>2, ConsiderKeeps
  <1>3. CASE SavePool
    BY <1>3, SaveKeeps
  <1>4. CASE UNCHANGED poolVars
    BY <1>4 DEF poolVars, PoolInv, PoolTypeOK, StopsOK, Selected,
       PickupFirst
  <1>. QED
    BY <1>1, <1>2, <1>3, <1>4 DEF PoolNext

LEMMA PoolInvariant == PoolSpec => []PoolInv
  <1>1. PoolInit => PoolInv
    BY PoolInitOK
  <1>2. PoolInv /\ [PoolNext]_poolVars => PoolInv'
    BY PoolStep
  <1>. QED
    BY <1>1, <1>2, PTL DEF PoolSpec

\* The variables keep their types; the charges of a pool together stay within the
\* detour budget and none is negative, so Math.max(0, ...) in geo.ts never bites.
THEOREM OptimizerTypeCorrect == PoolSpec => []PoolTypeOK
  <1>1. PoolInv => PoolTypeOK
    BY DEF PoolInv
  <1>. QED
    BY <1>1, PoolInvariant, PTL

\* However long the route and whichever riders the loop has taken, a saved member is
\* picked up before he is dropped off (optimizer.ts:98, enforcePickupBeforeDropoff).
THEOREM PickupComesFirst == PoolSpec => []PickupFirst
  <1>1. PoolInv => PickupFirst
    BY DEF PoolInv
  <1>. QED
    BY <1>1, PoolInvariant, PTL

\* Whatever stops the pool has so far, the charge against the budget is the length that
\* a tour with the rider's two stops, in their order, has over the tour without them
\* (geo.ts:337, computeMarginalDetourKm).
THEOREM ChargeIsTourLength == PoolSpec => []MarginalIsInsertion
  <1>1. PoolInv => MarginalIsInsertion
    <2> SUFFICES ASSUME PoolInv, NEW r \in waiting
                 PROVE  LET w == Waypoints IN
                        \E i \in 2..Len(w), j \in 3..(Len(w) + 1) :
                          /\ i < j
                          /\ MarginalDetour(r) =
                               Length(InsertAt(
                                 InsertAt(w, i, rider[r].pickup), j, rider[r].dropoff))
                                 - Length(w)
      BY DEF MarginalIsInsertion
    <2>1. r \in Requesters
      BY DEF PoolInv, PoolTypeOK
    <2>. QED
      BY <2>1, ChargeIsInsertion DEF PoolInv
  <1>. QED
    BY <1>1, PoolInvariant, PTL

-----------------------------------------------------------------------------
(* A pool of one rider                                                       *)

Down(r) == [type |-> "dropoff", rider |-> r]
Direct == Dist(trip.route[1], Last(trip.route))
\* What the driver drives to take r alone.
TourWith(r) ==
    Dist(trip.route[1], rider[r].pickup) + Dist(rider[r].pickup, rider[r].dropoff)
      + Dist(rider[r].dropoff, Last(trip.route))

\* Nobody is looked at twice or before his seats are; what a pool of one rider was
\* charged is what his tour adds.
Alone ==
    /\ at = "match" => Selected = {} /\ waiting = {}
    /\ waiting \intersect Selected = {}
    /\ \A r \in waiting \union Selected : rider[r].seatsNeeded <= trip.available_seats
    /\ Selected = {} => pool.detour = 0
    /\ \A r \in Requesters : Selected = {r} =>
         Len(pool.stops) = 2 /\ pool.detour = TourWith(r) - Direct

LEMMA EndsType ==
  ASSUME PoolTypeOK
  PROVE  /\ trip.route[1] \in Int /\ Last(trip.route) \in Int
         /\ \A r \in Requesters : rider[r].pickup \in Int /\ rider[r].dropoff \in Int
  <1>1. trip.route \in Seq(Int) /\ Len(trip.route) \in Nat /\ Len(trip.route) >= 2
    BY PoolAssumption, LenProperties DEF PoolTypeOK
  <1>2. trip.route[1] \in Int /\ trip.route[Len(trip.route)] \in Int
    BY <1>1, ElementOfSeq
  <1>3. \A r \in Requesters : rider[r].pickup \in Int /\ rider[r].dropoff \in Int
    BY PoolAssumption DEF PoolTypeOK, Requests
  <1>. QED
    BY <1>2, <1>3 DEF Last

LEMMA LengthOfTwo ==
  ASSUME NEW w \in Seq(Int), Len(w) = 2
  PROVE  Length(w) = Dist(w[1], w[2])
  <1>1. PICK g \in [1..2 -> Int] :
          /\ Length(w) = g[2] /\ g[1] = 0
          /\ \A i \in 2..2 : g[i] = g[i - 1] + Dist(w[i - 1], w[i])
    BY PartialSums
  <1>2. g[2] = g[1] + Dist(w[1], w[2])
    BY <1>1
  <1>3. w[1] \in Int /\ w[2] \in Int
    <2>1. \A i \in 1..Len(w) : w[i] \in Int
      BY LenProperties
    <2>. QED
      BY <2>1
  <1>4. Dist(w[1], w[2]) \in Nat
    BY <1>3, DistType
  <1>. QED
    BY <1>1, <1>2, <1>4

LEMMA LengthOfFour ==
  ASSUME NEW w \in Seq(Int), Len(w) = 4
  PROVE  Length(w) = Dist(w[1], w[2]) + Dist(w[2], w[3]) + Dist(w[3], w[4])
  <1>0. Len(w) >= 1
    OBVIOUS
  <1>1. PICK g \in [1..Len(w) -> Int] :
          /\ Length(w) = g[Len(w)] /\ g[1] = 0
          /\ \A i \in 2..Len(w) : g[i] = g[i - 1] + Dist(w[i - 1], w[i])
    BY <1>0, PartialSums
  <1>2. /\ g[2] = g[1] + Dist(w[1], w[2])
        /\ g[3] = g[2] + Dist(w[2], w[3])
        /\ g[4] = g[3] + Dist(w[3], w[4])
    BY <1>1
  <1>3. w[1] \in Int /\ w[2] \in Int /\ w[3] \in Int /\ w[4] \in Int
    <2>1. \A i \in 1..Len(w) : w[i] \in Int
      BY LenProperties
    <2>. QED
      BY <2>1
  <1>4. /\ Dist(w[1], w[2]) \in Nat /\ Dist(w[2], w[3]) \in Nat
        /\ Dist(w[3], w[4]) \in Nat
    BY <1>3, DistType
  <1>. QED
    BY <1>1, <1>2, <1>4

\* The first rider of an empty pool is charged what his tour adds to the direct way.
LEMMA FirstCharge ==
  ASSUME PoolTypeOK, Selected = {}, NEW r \in Requesters
  PROVE  MarginalDetour(r) = TourWith(r) - Direct
  <1> DEFINE w == Waypoints
             a == trip.route[1]
             b == Last(trip.route)
             p == rider[r].pickup
             d == rider[r].dropoff
  <1>1. a \in Int /\ b \in Int /\ p \in Int /\ d \in Int
    BY EndsType
  <1>2. w = (<<a>> \o <<>>) \o <<b>>
    <2>1. DOMAIN pool.stops = {}
      BY DEF Selected
    <2>2. [i \in DOMAIN pool.stops |-> Location(pool.stops[i])] = <<>>
      BY <2>1
    <2>. QED
      BY <2>2 DEF Waypoints
  <1>3. PICK i \in 2..Len(w), j \in 3..(Len(w) + 1) :
          MarginalDetour(r) = Length(InsertAt(InsertAt(w, i, p), j, d)) - Length(w)
    BY ChargeIsInsertion, Zenon
  <1> HIDE DEF w, a, b, p, d
  <1>4. w \in Seq(Int) /\ Len(w) = 2 /\ w[1] = a /\ w[2] = b
    <2> DEFINE e == <<a>> \o <<>>
    <2>1. /\ <<a>> \in Seq(Int) /\ Len(<<a>>) = 1 /\ <<a>>[1] = a
          /\ <<b>> \in Seq(Int) /\ Len(<<b>>) = 1 /\ <<b>>[1] = b
          /\ <<>> \in Seq(Int) /\ Len(<<>>) = 0
      BY <1>1
    <2>2. e \in Seq(Int) /\ Len(e) = 1 /\ e[1] = a
      BY <2>1, ConcatInt
    <2> HIDE DEF e
    <2> DEFINE t == <<b>>
               f == e \o t
    <2>3. t \in Seq(Int) /\ Len(t) = 1 /\ t[1] = b
      BY <2>1
    <2> HIDE DEF t
    <2>4. /\ f \in Seq(Int) /\ Len(f) = Len(e) + Len(t)
          /\ \A k \in 1..(Len(e) + Len(t)) :
               f[k] = IF k <= Len(e) THEN e[k] ELSE t[k - Len(e)]
      BY <2>2, <2>3, ConcatInt
    <2> HIDE DEF f
    <2>5. Len(f) = 2 /\ f[1] = a /\ f[2] = b
      BY <2>2, <2>3, <2>4
    <2>. QED
      BY <1>2, <2>4, <2>5 DEF e, t, f
  <1>5. i = 2 /\ j = 3
    BY <1>4
  <1> DEFINE v == InsertAt(w, i, p)
             u == InsertAt(v, j, d)
  <1>6. v \in Seq(Int) /\ Len(v) = 3 /\ v[1] = a /\ v[2] = p /\ v[3] = b
    <2>1. i \in 1..(Len(w) + 1) /\ w \in Seq(Int) /\ p \in Int
      BY <1>1, <1>4, <1>5
    <2>2. /\ v \in Seq(Int) /\ Len(v) = Len(w) + 1
          /\ \A k \in 1..(Len(w) + 1) :
               v[k] = IF k < i THEN w[k] ELSE IF k = i THEN p ELSE w[k - 1]
      BY <2>1, InsertAtInt, ZenonT(60)
    <2> HIDE DEF v
    <2>. QED
      BY <1>4, <1>5, <2>2
  <1> HIDE DEF v
  <1>7. u \in Seq(Int) /\ Len(u) = 4 /\ u[1] = a /\ u[2] = p /\ u[3] = d /\ u[4] = b
    <2>1. j \in 1..(Len(v) + 1) /\ v \in Seq(Int) /\ d \in Int
      BY <1>1, <1>5, <1>6
    <2>2. /\ u \in Seq(Int) /\ Len(u) = Len(v) + 1
          /\ \A k \in 1..(Len(v) + 1) :
               u[k] = IF k < j THEN v[k] ELSE IF k = j THEN d ELSE v[k - 1]
      BY <2>1, InsertAtInt, ZenonT(60)
    <2> HIDE DEF u
    <2>. QED
      BY <1>5, <1>6, <2>2
  <1> HIDE DEF u
  <1>8. Length(u) = Dist(a, p) + Dist(p, d) + Dist(d, b)
    BY <1>7, LengthOfFour
  <1>9. Length(w) = Dist(a, b)
    BY <1>4, LengthOfTwo
  <1>. QED
    BY <1>3, <1>8, <1>9 DEF TourWith, Direct, a, b, p, d, u, v

\* The tour of a pool of one rider passes his pickup, then his dropoff.
LEMMA TourOfOne ==
  ASSUME PoolTypeOK, StopsOK, NEW r \in Requesters, Selected = {r}, Len(pool.stops) = 2
  PROVE  Length(Waypoints) = TourWith(r)
  <1> DEFINE s == pool.stops
             a == trip.route[1]
             b == Last(trip.route)
             p == rider[r].pickup
             d == rider[r].dropoff
  <1>1. a \in Int /\ b \in Int /\ p \in Int /\ d \in Int
    BY EndsType
  <1>2. s[1] = Up(r)
    <2>1. s[1] = Up(s[1].rider)
      BY DEF StopsOK, InOrder
    <2>2. s[1].rider = r
      <3>1. DOMAIN s = 1..2
        BY LenProperties DEF PoolTypeOK
      <3>. QED
        BY <3>1 DEF Selected
    <2>. QED
      BY <2>1, <2>2
  <1>3. s[2] = Down(r)
    <2>1. Down(r) \in Stops({r}) /\ Down(r) # Up(r)
      BY DEF Down, Up, Stops
    <2>2. PICK k \in 1..2 : s[k] = Down(r)
      BY <2>1 DEF StopsOK, Covers
    <2>. QED
      BY <1>2, <2>1, <2>2
  <1>4. DOMAIN s = 1..2
    BY LenProperties DEF PoolTypeOK
  <1>5. Location(s[1]) = p /\ Location(s[2]) = d
    BY <1>2, <1>3 DEF Location, Up, Down
  <1>6. [i \in DOMAIN s |-> Location(s[i])] = <<p, d>>
    <2> DEFINE f == [i \in 1..2 |-> Location(s[i])]
    <2>1. f[1] = p /\ f[2] = d
      BY <1>5
    <2>2. f = [i \in 1..2 |-> f[i]] /\ <<p, d>> = [i \in 1..2 |-> <<p, d>>[i]]
      OBVIOUS
    <2>3. \A i \in 1..2 : f[i] = <<p, d>>[i]
      BY <2>1
    <2>. QED
      BY <1>4, <2>2, <2>3
  <1>7. Waypoints = <<a>> \o <<p, d>> \o <<b>>
    BY <1>6 DEF Waypoints
  <1> HIDE DEF a, b, p, d, s
  <1>8. /\ <<a>> \in Seq(Int) /\ Len(<<a>>) = 1 /\ <<a>>[1] = a
        /\ <<b>> \in Seq(Int) /\ Len(<<b>>) = 1 /\ <<b>>[1] = b
        /\ <<p, d>> \in Seq(Int) /\ Len(<<p, d>>) = 2 /\ <<p, d>>[1] = p /\ <<p, d>>[2] = d
    BY <1>1
  <1>9. /\ Waypoints \in Seq(Int) /\ Len(Waypoints) = 4
        /\ Waypoints[1] = a /\ Waypoints[2] = p /\ Waypoints[3] = d /\ Waypoints[4] = b
    <2> DEFINE x == <<a>>
               y == <<p, d>>
               z == <<b>>
               e == x \o y
               f == e \o z
    <2>1. /\ x \in Seq(Int) /\ Len(x) = 1 /\ x[1] = a
          /\ y \in Seq(Int) /\ Len(y) = 2 /\ y[1] = p /\ y[2] = d
          /\ z \in Seq(Int) /\ Len(z) = 1 /\ z[1] = b
      BY <1>8
    <2>2. Waypoints = f
      BY <1>7
    <2> HIDE DEF x, y, z
    <2>3. /\ e \in Seq(Int) /\ Len(e) = Len(x) + Len(y)
          /\ \A k \in 1..(Len(x) + Len(y)) :
               e[k] = IF k <= Len(x) THEN x[k] ELSE y[k - Len(x)]
      BY <2>1, ConcatInt
    <2> HIDE DEF e
    <2>4. Len(e) = 3 /\ e[1] = a /\ e[2] = p /\ e[3] = d
      BY <2>1, <2>3
    <2>5. /\ f \in Seq(Int) /\ Len(f) = Len(e) + Len(z)
          /\ \A k \in 1..(Len(e) + Len(z)) :
               f[k] = IF k <= Len(e) THEN e[k] ELSE z[k - Len(e)]
      BY <2>1, <2>3, ConcatInt
    <2> HIDE DEF f
    <2>6. Len(f) = 4 /\ f[1] = a /\ f[2] = p /\ f[3] = d /\ f[4] = b
      BY <2>1, <2>4, <2>5
    <2>. QED
      BY <2>2, <2>5, <2>6
  <1>10. Length(Waypoints) = Dist(a, p) + Dist(p, d) + Dist(d, b)
    BY <1>9, LengthOfFour
  <1>. QED
    BY <1>10 DEF TourWith, a, b, p, d

\* Both stops of one rider are a listing of two.
LEMMA TwoStops ==
  ASSUME NEW r, NEW s \in SetToSeqs(Stops({r}))
  PROVE  Len(s) = 2
  <1>1. Stops({r}) = {Up(r), Down(r)} /\ Up(r) # Down(r)
    <2>1. \A x : x \in Stops({r}) <=> x \in {Up(r), Down(r)}
      BY DEF Stops, Up, Down
    <2>2. Up(r).type # Down(r).type
      BY DEF Up, Down
    <2>. QED
      BY <2>1, <2>2
  <1>2. Cardinality({Up(r), Down(r)}) = 2
    <2>1. IsFiniteSet({Up(r)}) /\ Cardinality({Up(r)}) = 1
      BY FS_Singleton
    <2>2. Cardinality({Up(r)} \union {Down(r)}) = 1 + 1
      BY <1>1, <2>1, FS_AddElement
    <2>3. {Up(r)} \union {Down(r)} = {Up(r), Down(r)}
      OBVIOUS
    <2>. QED
      BY <2>2, <2>3
  <1>3. s \in [1..2 -> Stops({r})]
    BY <1>1, <1>2 DEF SetToSeqs
  <1>. QED
    BY <1>3

LEMMA AloneInit == PoolInit => Alone
  <1> SUFFICES ASSUME PoolInit PROVE Alone
    OBVIOUS
  <1>1. pool.stops = <<>> /\ pool.detour = 0 /\ waiting = {}
    BY DEF PoolInit, NoPool
  <1>2. Selected = {}
    BY <1>1 DEF Selected
  <1>. QED
    BY <1>1, <1>2 DEF Alone

LEMMA ConsiderAlone ==
  ASSUME PoolInv, Alone, NEW r \in Requesters, Consider(r)
  PROVE  Alone'
  <1>0. PoolInv'
    BY ConsiderKeeps
  <1>1. /\ at' = at /\ at = "pool" /\ r \in waiting /\ waiting' = waiting \ {r}
        /\ trip' = trip /\ rider' = rider
    BY DEF Consider
  <1>2. CASE Fits(r)
    <2> DEFINE R == Selected \union {r}
    <2>1. PICK s \in Sorted(R) :
            pool' = [stops |-> EnforcePickupBeforeDropoff(s),
                     detour |-> pool.detour + MarginalDetour(r)]
      BY <1>2 DEF Consider
    <2>2. s \in SetToSeqs(Stops(R))
      BY DEF Sorted
    <2>3. IsFiniteSet(R)
      BY FinitePool DEF PoolInv
    <2> DEFINE t == EnforcePickupBeforeDropoff(s)
    <2>4. s \in Seq(Stops(R)) /\ Covers(s, R)
      BY <2>2, <2>3, SortedCovers
    <2>5. t \in Seq(Stops(R)) /\ Len(t) = Len(s) /\ Covers(t, R)
      BY <2>4, EnforceOrders
    <2>6. pool'.stops = t /\ pool'.detour = pool.detour + MarginalDetour(r)
      BY <2>1
    <2> HIDE DEF t
    <2>7. Selected' = R
      <3>1. {t[i].rider : i \in DOMAIN t} = R
        <4> HIDE DEF R
        <4>. QED
          BY <2>5, RidersOf
      <3>. QED
        BY <2>6, <3>1 DEF Selected
    <2>8. ASSUME NEW q \in Requesters, Selected' = {q}
          PROVE  Len(pool'.stops) = 2 /\ pool'.detour = TourWith(q)' - Direct'
      <3>1. q = r /\ R = {r}
        BY <2>7, <2>8
      <3>2. Selected = {}
        BY <1>1, <3>1 DEF Alone
      <3>3. Len(s) = 2
        BY <2>2, <3>1, TwoStops
      <3>4. MarginalDetour(r) = TourWith(r) - Direct
        BY <3>2, FirstCharge DEF PoolInv
      <3>5. pool.detour = 0
        BY <3>2 DEF Alone
      <3>6. TourWith(q)' = TourWith(r) /\ Direct' = Direct
        BY <1>1, <3>1 DEF TourWith, Direct
      <3>7. MarginalDetour(r) \in Nat
        BY ChargeIsInsertion DEF PoolInv
      <3>. QED
        BY <2>5, <2>6, <3>3, <3>4, <3>5, <3>6, <3>7
    <2>9. \A q \in waiting' \union Selected' : rider'[q].seatsNeeded <= trip'.available_seats
      BY <1>1, <2>7 DEF Alone
    <2>10. waiting' \intersect Selected' = {} /\ Selected' # {}
      BY <1>1, <2>7 DEF Alone
    <2>. QED
      BY <1>1, <2>8, <2>9, <2>10 DEF Alone
  <1>3. CASE ~Fits(r)
    <2>1. pool' = pool /\ Selected' = Selected
      BY <1>3 DEF Consider, Selected
    <2>2. \A q \in Requesters : TourWith(q)' = TourWith(q)
      BY <1>1 DEF TourWith
    <2>3. Direct' = Direct
      BY <1>1 DEF Direct
    <2>. QED
      BY <1>1, <2>1, <2>2, <2>3 DEF Alone
  <1>. QED
    BY <1>2, <1>3

LEMMA AloneStep ==
  ASSUME PoolInv, Alone, [PoolNext]_poolVars
  PROVE  Alone'
  <1>1. ASSUME trip' = trip, rider' = rider, pool' = pool
        PROVE  /\ Selected' = Selected /\ Direct' = Direct
               /\ \A r \in Requesters : TourWith(r)' = TourWith(r)
    BY <1>1 DEF Selected, Direct, TourWith
  <1>2. CASE MatchRiders
    <2>1. trip' = trip /\ rider' = rider /\ pool' = pool /\ at = "match" /\ at' = "pool"
      BY <1>2 DEF MatchRiders
    <2>2. \A r \in waiting' : rider[r].seatsNeeded <= trip.available_seats
      <3>1. ASSUME NEW r \in waiting'
            PROVE  rider[r].seatsNeeded <= trip.available_seats
        <4>1. r \in Requesters /\ HardFilters(r)
          BY <1>2 DEF MatchRiders, Suits
        <4>2. rider[r].seatsNeeded \in Int /\ trip.available_seats \in Int
          BY <4>1 DEF PoolInv, PoolTypeOK, Requests
        <4>. QED
          BY <4>1, <4>2 DEF HardFilters
      <3>. QED
        BY <3>1
    <2>. QED
      BY <1>1, <2>1, <2>2 DEF Alone
  <1>3. ASSUME NEW r \in Requesters, Consider(r) PROVE Alone'
    BY <1>3, ConsiderAlone
  <1>4. CASE SavePool
    <2>1. /\ trip' = trip /\ rider' = rider /\ pool' = pool /\ waiting' = waiting
          /\ at' = "saved"
      BY <1>4 DEF SavePool
    <2>. QED
      BY <1>1, <2>1 DEF Alone
  <1>5. CASE UNCHANGED poolVars
    BY <1>1, <1>5 DEF poolVars, Alone
  <1>. QED
    BY <1>2, <1>3, <1>4, <1>5 DEF PoolNext

LEMMA AlwaysAlone == PoolSpec => []Alone
  <1>1. PoolInit => Alone
    BY AloneInit
  <1>2. PoolInv /\ Alone /\ [PoolNext]_poolVars => Alone'
    BY AloneStep
  <1>. QED
    BY <1>1, <1>2, PoolInvariant, PTL DEF PoolSpec

\* Whatever the routes, the points and the budget: the rider whom POST /find-pool asks
\* about has the seats of his party, and the tour with his stops, as they are sorted and
\* put in order, keeps to the budget (optimizer.ts:190, optimizePool).
THEOREM SoleRiderIsServed == PoolSpec => []SoleRiderFits
  <1>1. PoolInv /\ Alone => SoleRiderFits
    <2> SUFFICES ASSUME PoolInv, Alone, NEW r \in Requesters, Selected = {r}
                 PROVE  /\ rider[r].seatsNeeded <= trip.available_seats
                        /\ Length(Waypoints)
                             <= Dist(trip.route[1], Last(trip.route)) + MaxDetour
      BY DEF SoleRiderFits
    <2>1. rider[r].seatsNeeded <= trip.available_seats
      BY DEF Alone
    <2>2. Len(pool.stops) = 2 /\ pool.detour = TourWith(r) - Direct
      BY DEF Alone
    <2>3. Length(Waypoints) = TourWith(r)
      BY <2>2, TourOfOne DEF PoolInv
    <2>4. TourWith(r) \in Int /\ Direct \in Int
      <3>1. PoolTypeOK
        BY DEF PoolInv
      <3>2. /\ trip.route[1] \in Int /\ Last(trip.route) \in Int
            /\ rider[r].pickup \in Int /\ rider[r].dropoff \in Int
        BY <3>1, EndsType
      <3>3. /\ Dist(trip.route[1], Last(trip.route)) \in Nat
            /\ Dist(trip.route[1], rider[r].pickup) \in Nat
            /\ Dist(rider[r].pickup, rider[r].dropoff) \in Nat
            /\ Dist(rider[r].dropoff, Last(trip.route)) \in Nat
        BY <3>2, DistType
      <3>. QED
        BY <3>3 DEF TourWith, Direct
    <2>5. pool.detour <= MaxDetour /\ MaxDetour \in Nat
      BY PoolAssumption DEF PoolInv, PoolTypeOK
    <2>. QED
      BY <2>1, <2>2, <2>3, <2>4, <2>5 DEF Direct
  <1>. QED
    BY <1>1, PoolInvariant, AlwaysAlone, PTL

-----------------------------------------------------------------------------
(* The query of the repository                                               *)

\* Where a route lies between Low and High, in integers.
LEMMA BoxType ==
  ASSUME NEW w \in Seq(Int), Len(w) >= 1
  PROVE  Low(w) \in Int /\ High(w) \in Int
  <1>1. Len(w) \in Nat \ {0} /\ w \in [1..Len(w) -> Int] /\ DOMAIN w = 1..Len(w)
    BY LenProperties
  <1> DEFINE M == {w[i] : i \in 1..Len(w)}
  <1>2. ToSet(w) = M
    BY <1>1 DEF ToSet
  <1>3. 1 \in Int /\ Len(w) \in Int /\ 1 <= Len(w)
    BY <1>1
  <1>4. Min(M) \in M
    BY <1>1, <1>3, MinOfImage
  <1>5. Max(M) \in M
    BY <1>1, MaxOfImage
  <1>6. M \subseteq Int
    BY <1>1
  <1>. QED
    BY <1>2, <1>4, <1>5, <1>6 DEF Low, High

\* For every route, padding and rider: what the engine would match, the repository's
\* query finds (repository.ts:358, findCandidateDrivers).
THEOREM PrefilterIsComplete == PoolSpec => []PrefilterKeepsMatches
  <1>1. PoolInv => PrefilterKeepsMatches
    <2> SUFFICES ASSUME PoolInv, NEW r \in Requesters, Suits(r)
                 PROVE  Prefilter(r)
      BY DEF PrefilterKeepsMatches
    <2> DEFINE p == rider[r].pickup
               d == rider[r].dropoff
               low == Low(trip.route)
               high == High(trip.route)
    <2>1. p \in Int /\ d \in Int /\ Padding \in Int
      BY PoolAssumption DEF PoolInv, PoolTypeOK, Requests
    <2>2. low \in Int /\ high \in Int
      <3>1. trip.route \in Seq(Int) /\ Len(trip.route) >= 1
        BY PoolAssumption, LenProperties DEF PoolInv, PoolTypeOK
      <3>. QED
        BY <3>1, BoxType
    <2>3. /\ trip.available_seats >= rider[r].seatsNeeded
          /\ rider[r].suits = "yes"
          /\ \/ low - Padding <= p /\ p <= high + Padding
             \/ low - Padding <= d /\ d <= high + Padding
      BY DEF Suits, HardFilters, Inside
    <2> HIDE DEF low, high, p, d
    <2>4. /\ Lesser(p, d) <= p /\ Lesser(p, d) <= d
          /\ p <= Greater(p, d) /\ d <= Greater(p, d)
          /\ Lesser(p, d) \in Int /\ Greater(p, d) \in Int
      BY <2>1 DEF Lesser, Greater
    <2> DEFINE lesser == Lesser(p, d)
               greater == Greater(p, d)
    <2> HIDE DEF lesser, greater
    <2>5. high >= lesser - Padding /\ low <= greater + Padding
      BY <2>1, <2>2, <2>3, <2>4 DEF lesser, greater
    <2>. QED
      BY <2>3, <2>5 DEF Prefilter, low, high, p, d, lesser, greater
  <1>. QED
    BY <1>1, PoolInvariant, PTL
=============================================================================
