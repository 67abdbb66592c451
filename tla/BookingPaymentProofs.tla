------------------------ MODULE BookingPaymentProofs ------------------------
(***************************************************************************)
(* Theorems about BookingPayment, for every number of requests, intents    *)
(* and failures, and every size of the party.                              *)
(***************************************************************************)
EXTENDS BookingPayment, TLAPS

-----------------------------------------------------------------------------
(* Requests                                                                *)

RequestsOK == request \in [Slots -> Request]

\* The slot of q takes v.
Becomes(q, v) ==
    /\ RequestsOK' /\ request'[q] = v
    /\ \A p \in Slots \ {q} : request'[p] = request[p]

LEMMA Takes ==
  ASSUME RequestsOK, NEW q \in Slots, NEW v \in Request, request' = [request EXCEPT ![q] = v]
  PROVE  Becomes(q, v)
  BY DEF RequestsOK, Becomes

LEMMA IdleOK == Idle \in Request /\ Idle.at = "idle"
  <1>1. 0 \in 0..(2 * MaxParty)
    BY PaymentAssumption
  <1>2. QED
    BY <1>1 DEF Idle, Request, Steps

LEMMA AnswersOK ==
  ASSUME RequestsOK, NEW q \in Slots, Answers(q)
  PROVE  Becomes(q, Idle)
  BY IdleOK, Takes DEF Answers

LEMMA StartsOK ==
  ASSUME RequestsOK, NEW q \in Slots, NEW v \in Request, Starts(q, v)
  PROVE  Becomes(q, v) /\ request[q].at = "idle"
  BY IdleOK, Takes DEF Starts

LEMMA GoesOK ==
  ASSUME RequestsOK, NEW q \in Slots, NEW s \in Steps, Goes(q, s)
  PROVE  /\ RequestsOK'
         /\ request'[q].at = s /\ request'[q].intent = request[q].intent
         /\ request'[q].paid = request[q].paid /\ request'[q].amount = request[q].amount
         /\ request'[q].kind = request[q].kind
         /\ \A p \in Slots \ {q} : request'[p] = request[p]
  BY DEF RequestsOK, Request, Goes

\* A refund is within what a party may have paid.
LEMMA RefundInRange ==
  ASSUME NEW t \in 0..2, NEW n \in 1..MaxParty
  PROVE  RefundFor(t, n) \in 0..(2 * MaxParty)
  <1>1. t = 0 \/ t = 1 \/ t = 2
    OBVIOUS
  <1>2. MaxParty \in Nat \ {0}
    BY PaymentAssumption
  <1>3. CASE t = 0
    BY <1>2, <1>3 DEF RefundFor
  <1>4. CASE t = 1
    BY <1>2, <1>4 DEF RefundFor
  <1>5. CASE t = 2
    BY <1>2, <1>5 DEF RefundFor
  <1>6. QED
    BY <1>1, <1>3, <1>4, <1>5

Named(v) == [intent |-> v.intent, kind |-> v.kind]

CompletionSteps == {"complete_riders", "complete_read", "complete_transfer", "complete_mark",
                    "complete_failed"}

\* Which step of a request leads where, and with what.
Moves(q) ==
    LET v == request[q]
        w == request'[q]
    IN
    \/ w.at = "idle"
    \/ w.at = "intent_retrieve" /\ w.intent \in Intents
    \/ w.at \in {"intent_create", "trip_riders", "connect_store", "connect_status"}
    \/ w.at = "intent_store" /\ IntentCreate(q) /\ w.intent \in Intents
          /\ stripe[w.intent].state = "absent"
          /\ stripe' = [stripe EXCEPT ![w.intent].state = "open"]
    \/ w.at = "intent_existing" /\ v.at = "intent_store" /\ booking.intent # NoIntent
          /\ booking' = booking
    \/ w.at = "webhook_read" /\ Named(w) \in events
    \/ w.at \in {"webhook_update", "webhook_mark"} /\ v.at \in WebhookSteps
          /\ w.intent = v.intent /\ w.kind = v.kind
    \/ w.at = "cancel_refund" /\ w.intent \in Intents /\ w.amount > 0
    \/ w.at = "cancel_update" /\ v.at = "idle"
          /\ (w.paid /\ w.amount > 0 => booking.payment = "paid" /\ booking.intent = NoIntent)
    \/ w.at = "cancel_update" /\ v.at = "cancel_refund" /\ RiderCancelRefund(q)
          /\ Refundable(v.intent, v.amount)
          /\ stripe' = [stripe EXCEPT ![v.intent].refunded = @ + v.amount]
    \/ w.at = "trip_snapshot" /\ TripCancel(q)
    \/ w.at = "trip_refund" /\ v.at = "trip_riders" /\ w.intent = v.intent /\ w.intent \in Intents
    \/ w.at = "trip_refunded" /\ v.at = "trip_refund" /\ TripRefund(q) /\ w.intent = v.intent
          /\ stripe' = [stripe EXCEPT ![v.intent].refunded = Price]
    \/ w.at = "complete_riders" /\ TripComplete(q)
    \/ w.at = "complete_read" /\ v.at = "complete_riders" /\ CompleteRiders(q)
    \/ w.at = "complete_transfer" /\ v.at = "complete_read" /\ CompleteRead(q)
    \/ w.at = "complete_mark" /\ v.at = "complete_transfer" /\ CompleteTransfer(q)
          /\ transfers' = transfers + 1
    \/ w.at = "complete_failed" /\ v.at = "complete_transfer" /\ CompleteTransfer(q)
          /\ transfers' = transfers
    \/ w.at = "complete_failed" /\ v.at = "complete_mark" /\ CompleteMark(q)

Handler(q) == Arrive(q) \/ Proceed(q) \/ Abort(q)

LEMMA ControlFlow ==
  ASSUME TypeOK, NEW q \in Requests, Handler(q)
  PROVE  RequestsOK' /\ Moves(q) /\ \A p \in Slots \ {q} : request'[p] = request[p]
  <1> DEFINE Goal == RequestsOK' /\ Moves(q) /\ \A p \in Slots \ {q} : request'[p] = request[p]
  <1>0. /\ q \in Slots /\ RequestsOK /\ request[q] \in Request
        /\ booking.intent \in Intents \union {NoIntent} /\ booking.passengers \in 1..MaxParty
        /\ tier \in 0..2 /\ events \subseteq Event
    BY DEF TypeOK, RequestsOK, Slots, Booking
  <1> USE DEF WebhookSteps
  <1>1. CASE IntentRead(q)
    <2> DEFINE a == [Idle EXCEPT !.at = "intent_retrieve", !.intent = booking.intent]
               b == [Idle EXCEPT !.at = "intent_create"]
    <2>1. /\ a \in Request /\ a.at = "intent_retrieve" /\ a.intent = booking.intent
          /\ b \in Request /\ b.at = "intent_create"
      BY <1>0, IdleOK DEF Request, Steps, IntentSteps
    <2>2. (booking.intent # NoIntent /\ Starts(q, a)) \/ Starts(q, b)
      BY <1>1 DEF IntentRead
    <2> HIDE DEF a, b
    <2>3. QED
      BY <1>0, <2>1, <2>2, StartsOK DEF Becomes, Moves
  <1>2. ASSUME NEW e \in events, WebhookArrives(q, e) PROVE Goal
    <2> DEFINE a == [Idle EXCEPT !.at = "webhook_read", !.intent = e.intent, !.kind = e.kind]
    <2>1. a \in Request /\ a.at = "webhook_read" /\ a.intent = e.intent /\ a.kind = e.kind
      BY <1>0, IdleOK DEF Request, Steps, Event
    <2>2. Starts(q, a)
      BY <1>2 DEF WebhookArrives
    <2> HIDE DEF a
    <2>3. Named(a) = e
      BY <1>0, <2>1 DEF Named, Event
    <2>4. QED
      BY <1>0, <2>1, <2>2, <2>3, StartsOK DEF Becomes, Moves, Named
  <1>3. CASE RiderCancelRead(q)
    <2> DEFINE paid == booking.payment = "paid"
               amount == IF paid THEN RefundFor(tier, booking.passengers) ELSE 0
               at == IF paid /\ booking.intent # NoIntent /\ amount > 0
                     THEN "cancel_refund" ELSE "cancel_update"
               a == [Idle EXCEPT !.at = at, !.intent = booking.intent, !.paid = paid,
                                 !.amount = amount]
    <2>1. Starts(q, a)
      BY <1>3 DEF RiderCancelRead
    <2>2. amount \in 0..(2 * MaxParty)
      BY <1>0, RefundInRange, PaymentAssumption
    <2>3. paid \in BOOLEAN
      OBVIOUS
    <2>4. /\ at \in {"cancel_refund", "cancel_update"}
          /\ at = "cancel_refund" => booking.intent # NoIntent /\ amount > 0
          /\ at = "cancel_update" /\ paid /\ amount > 0 => booking.intent = NoIntent
      OBVIOUS
    <2>5. paid => booking.payment = "paid"
      OBVIOUS
    <2> HIDE DEF at, amount, paid
    <2>6. a \in Request /\ a.at = at /\ a.intent = booking.intent /\ a.amount = amount
      BY <1>0, <2>2, <2>3, <2>4, IdleOK DEF Request, Steps, CancelSteps
    <2>7. a.paid => paid
      BY IdleOK DEF Request
    <2> HIDE DEF a
    <2>8. Becomes(q, a) /\ request[q].at = "idle"
      BY <1>0, <2>1, <2>6, StartsOK
    <2>9. QED
      BY <1>0, <2>4, <2>5, <2>6, <2>7, <2>8 DEF Becomes, Moves
  <1>4. CASE TripCancel(q)
    <2> DEFINE a == [Idle EXCEPT !.at = "trip_snapshot"]
    <2>1. a \in Request /\ a.at = "trip_snapshot"
      BY IdleOK DEF Request, Steps, TripSteps
    <2>2. Starts(q, a)
      BY <1>4 DEF TripCancel
    <2> HIDE DEF a
    <2>3. QED
      BY <1>0, <1>4, <2>1, <2>2, StartsOK DEF Becomes, Moves
  <1>5. CASE TripComplete(q)
    <2> DEFINE a == [Idle EXCEPT !.at = "complete_riders"]
    <2>1. a \in Request /\ a.at = "complete_riders"
      BY IdleOK DEF Request, Steps, PayoutSteps
    <2>2. Starts(q, a)
      BY <1>5 DEF TripComplete
    <2> HIDE DEF a
    <2>3. QED
      BY <1>0, <1>5, <2>1, <2>2, StartsOK DEF Becomes, Moves
  <1>6. CASE ConnectOnboard(q) \/ ConnectStatus(q)
    <2> DEFINE a == [Idle EXCEPT !.at = "connect_store"]
               b == [Idle EXCEPT !.at = "connect_status"]
    <2>1. a \in Request /\ a.at = "connect_store" /\ b \in Request /\ b.at = "connect_status"
      BY IdleOK DEF Request, Steps, ConnectSteps
    <2>2. Starts(q, a) \/ Starts(q, b)
      BY <1>6 DEF ConnectOnboard, ConnectStatus
    <2> HIDE DEF a, b
    <2>3. QED
      BY <1>0, <2>1, <2>2, StartsOK DEF Becomes, Moves
  <1>7. CASE IntentRetrieve(q)
    BY <1>0, <1>7, AnswersOK, GoesOK, IdleOK DEF IntentRetrieve, Becomes, Moves, Steps, IntentSteps
  <1>8. CASE IntentCreate(q)
    <2>1. PICK i \in Intents :
             /\ stripe[i].state = "absent"
             /\ stripe' = [stripe EXCEPT ![i].state = "open"]
             /\ request' = [request EXCEPT ![q].at = "intent_store", ![q].intent = i]
      BY <1>8 DEF IntentCreate
    <2>2. /\ RequestsOK' /\ request'[q].at = "intent_store" /\ request'[q].intent = i
          /\ \A p \in Slots \ {q} : request'[p] = request[p]
      BY <1>0, <2>1 DEF RequestsOK, Request, Steps, IntentSteps
    <2>3. QED
      BY <1>8, <2>1, <2>2 DEF Moves
  <1>9. CASE IntentStore(q)
    BY <1>0, <1>9, AnswersOK, GoesOK, IdleOK
       DEF IntentStore, At, Becomes, Moves, Steps, IntentSteps
  <1>10. CASE \/ IntentExisting(q) \/ WebhookMark(q) \/ RiderCancelUpdate(q) \/ TripRefunded(q)
              \/ CompleteFailed(q) \/ ConnectStore(q) \/ ConnectStatusStore(q) \/ Abort(q)
    BY <1>0, <1>10, AnswersOK, IdleOK DEF IntentExisting, WebhookMark, RiderCancelUpdate,
       TripRefunded, CompleteFailed, ConnectStore, ConnectStatusStore, Abort, Becomes, Moves
  <1>11. CASE WebhookRead(q) \/ WebhookUpdate(q)
    <2>1. request[q].at \in WebhookSteps
      BY <1>11 DEF WebhookRead, WebhookUpdate, At
    <2>2. Goes(q, "webhook_update") \/ Goes(q, "webhook_mark")
      BY <1>11 DEF WebhookRead, WebhookUpdate
    <2>3. QED
      BY <1>0, <2>1, <2>2, GoesOK DEF Moves, Steps
  <1>12. CASE RiderCancelRefund(q)
    BY <1>0, <1>12, AnswersOK, GoesOK, IdleOK
       DEF RiderCancelRefund, At, Becomes, Moves, Steps, CancelSteps
  <1>13. CASE TripSnapshot(q)
    <2>1. CASE Goes(q, "trip_riders")
      BY <1>0, <2>1, GoesOK DEF Moves, Steps, TripSteps
    <2>2. CASE request' = [request EXCEPT ![q].at = "trip_riders",
                 ![q].paid = booking.status = "accepted" /\ booking.payment = "paid",
                 ![q].intent = IF booking.status = "accepted" THEN booking.intent ELSE NoIntent]
      <3> DEFINE paid == booking.status = "accepted" /\ booking.payment = "paid"
                 intent == IF booking.status = "accepted" THEN booking.intent ELSE NoIntent
      <3>1. paid \in BOOLEAN /\ intent \in Intents \union {NoIntent}
        BY <1>0
      <3>2. request' = [request EXCEPT ![q].at = "trip_riders", ![q].paid = paid, ![q].intent = intent]
        BY <2>2
      <3> HIDE DEF paid, intent
      <3>3. /\ RequestsOK' /\ request'[q].at = "trip_riders"
            /\ \A p \in Slots \ {q} : request'[p] = request[p]
        BY <1>0, <3>1, <3>2 DEF RequestsOK, Request, Steps, TripSteps
      <3>4. QED
        BY <3>3 DEF Moves
    <2>3. QED
      BY <1>13, <2>1, <2>2 DEF TripSnapshot
  <1>14. CASE TripCancelRiders(q)
    <2>1. CASE Answers(q)
      BY <1>0, <2>1, AnswersOK, IdleOK DEF Becomes, Moves
    <2>2. CASE request[q].intent # NoIntent /\ Goes(q, "trip_refund")
      BY <1>0, <1>14, <2>2, GoesOK DEF TripCancelRiders, At, Moves, Steps, TripSteps, Request
    <2>3. QED
      BY <1>14, <2>1, <2>2 DEF TripCancelRiders
  <1>15. CASE TripRefund(q)
    BY <1>0, <1>15, AnswersOK, GoesOK, IdleOK DEF TripRefund, At, Becomes, Moves, Steps, TripSteps
  <1>16. CASE CompleteRiders(q) \/ CompleteRead(q)
    BY <1>0, <1>16, AnswersOK, GoesOK, IdleOK
       DEF CompleteRiders, CompleteRead, At, Becomes, Moves, Steps, PayoutSteps
  <1>17. CASE CompleteTransfer(q)
    BY <1>0, <1>17, GoesOK DEF CompleteTransfer, At, Moves, Steps, PayoutSteps
  <1>18. CASE CompleteMark(q)
    BY <1>0, <1>18, AnswersOK, GoesOK, IdleOK
       DEF CompleteMark, At, Becomes, Moves, Steps, PayoutSteps
  <1>19. QED
    BY <1>1, <1>2, <1>3, <1>4, <1>5, <1>6, <1>7, <1>8, <1>9, <1>10, <1>11, <1>12, <1>13, <1>14,
       <1>15, <1>16, <1>17, <1>18 DEF Handler, Arrive, Proceed

\* The daily task's slot is its own.
LEMMA CronFlow ==
  ASSUME TypeOK, RetryPayouts \/ Abort(Cron)
  PROVE  /\ RequestsOK' /\ \A p \in Slots \ {Cron} : request'[p] = request[p]
         /\ \/ request'[Cron].at = "idle"
            \/ request'[Cron].at = "retry_transfer" /\ PayoutRetryRead
            \/ request'[Cron].at = "retry_mark" /\ request[Cron].at = "retry_transfer"
                 /\ PayoutRetryTransfer /\ transfers' = transfers + 1
  <1>0. Cron \in Slots /\ RequestsOK
    BY DEF TypeOK, RequestsOK, Slots
  <1>1. CASE PayoutRetryRead
    <2> DEFINE a == [Idle EXCEPT !.at = "retry_transfer"]
    <2>1. a \in Request /\ a.at = "retry_transfer"
      BY IdleOK DEF Request, Steps, PayoutSteps
    <2>2. Starts(Cron, a)
      BY <1>1 DEF PayoutRetryRead
    <2> HIDE DEF a
    <2>3. QED
      BY <1>0, <1>1, <2>1, <2>2, StartsOK DEF Becomes
  <1>2. CASE PayoutRetryTransfer
    BY <1>0, <1>2, AnswersOK, GoesOK, IdleOK
       DEF PayoutRetryTransfer, At, Becomes, Steps, PayoutSteps
  <1>3. CASE PayoutRetryMark \/ Abort(Cron)
    BY <1>0, <1>3, AnswersOK, IdleOK DEF PayoutRetryMark, Abort, Becomes
  <1>4. QED
    BY <1>1, <1>2, <1>3 DEF RetryPayouts

\* Every step is a request's, the daily task's, or the world's.
LEMMA StepsOf ==
  ASSUME [Next]_vars
  PROVE  \/ \E q \in Requests : Handler(q)
         \/ RetryPayouts \/ Abort(Cron)
         \/ Outside
         \/ UNCHANGED vars
  BY DEF Next, Slots, Handler

-----------------------------------------------------------------------------
(* Types                                                                   *)

\* What a request needs its locals for is there: an intent where one is called
\* for, an event where one is handled, and an intent on the row that won.
LocalsOK ==
    /\ \A q \in Slots : LET v == request[q] IN
          /\ v.at \in {"intent_retrieve", "intent_store", "cancel_refund", "trip_refund"}
                => v.intent \in Intents
          /\ v.at = "intent_existing" => booking.intent # NoIntent
          /\ v.at \in WebhookSteps => Named(v) \in events
    /\ \A q \in Requests : request[q].at \notin {"retry_transfer", "retry_mark"}

MoneyOK ==
    /\ stripe \in [Intents -> [state : {"absent", "open", "succeeded", "canceled"},
                               refunded : 0..Price]]
    /\ handed \subseteq Intents
    /\ events \subseteq Event
    /\ processed \subseteq events
    /\ transfers \in Nat

FaultsOK == faults \in [record : 0..MaxFaults, other : 0..MaxFaults]

RestOK ==
    /\ trip_status \in {"scheduled", "cancelled", "completed"}
    /\ tier \in 0..2
    /\ connect \in {"none", "disabled", "enabled"}
    /\ FaultsOK

Typed == TypeOK /\ LocalsOK

LEMMA TypedIs == Typed <=> /\ booking \in Booking /\ MoneyOK /\ RestOK /\ RequestsOK /\ LocalsOK
  BY DEF Typed, TypeOK, MoneyOK, RestOK, FaultsOK, RequestsOK

\* Failures are counted, those of a payout's record apart.
LEMMA FaultOK ==
  ASSUME FaultsOK, NEW s, Fault(s)
  PROVE  FaultsOK' /\ faults'.record = faults.record + (IF s \in RecordSteps THEN 1 ELSE 0)
  <1>1. MaxFaults \in Nat
    BY PaymentAssumption
  <1>2. CASE s \in RecordSteps
    BY <1>1, <1>2 DEF FaultsOK, Fault
  <1>3. CASE s \notin RecordSteps
    BY <1>1, <1>3 DEF FaultsOK, Fault
  <1>4. QED
    BY <1>2, <1>3

LEMMA TypedInit == Init => Typed
  <1> SUFFICES ASSUME Init PROVE booking \in Booking /\ MoneyOK /\ RestOK /\ RequestsOK /\ LocalsOK
    BY TypedIs
  <1>1. RequestsOK /\ \A q \in Slots : request[q].at = "idle"
    BY IdleOK DEF Init, RequestsOK
  <1>2. LocalsOK
    BY <1>1 DEF LocalsOK, WebhookSteps, Slots
  <1>3. booking \in Booking
    BY DEF Init, Booking
  <1>4. MoneyOK /\ RestOK
    BY PaymentAssumption DEF Init, MoneyOK, RestOK, FaultsOK, Price
  <1>5. QED
    BY <1>1, <1>2, <1>3, <1>4

\* The row of the booking, step by step.
LEMMA MarkedOK ==
  ASSUME NEW row \in Booking, NEW kind \in EventKinds
  PROVE  /\ Marked(row, kind) \in Booking
         /\ Marked(row, kind).intent = row.intent /\ Marked(row, kind).status = row.status
         /\ Marked(row, kind).payout = row.payout
         /\ \/ Marked(row, kind).payment = row.payment
            \/ Marked(row, kind).payment = "paid" /\ kind = "succeeded"
            \/ row.payment = "pending" /\ Marked(row, kind).payment \in {"failed", "canceled"}
  BY DEF Marked, MarkPaid, MarkFailed, MarkCanceled, Booking, EventKinds

\* What a step may do to the booking.
RowMoves ==
    \/ booking' = booking
    \/ \E q \in Requests : IntentStore(q) /\ request[q].at = "intent_store"
         /\ booking' = [booking EXCEPT !.intent = request[q].intent, !.payment = "pending"]
    \/ \E q \in Requests : WebhookUpdate(q) /\ request[q].at = "webhook_update"
         /\ booking.intent = request[q].intent /\ booking' = Marked(booking, request[q].kind)
    \/ \E q \in Requests : RiderCancelUpdate(q) /\ request[q].at = "cancel_update"
         /\ booking.status = "accepted"
         /\ \/ booking' = [booking EXCEPT !.status = "cancelled"]
            \/ booking' = [booking EXCEPT !.status = "cancelled", !.payment = "canceled"]
            \/ /\ request[q].paid /\ request[q].amount > 0
               /\ booking' = [booking EXCEPT !.status = "cancelled", !.payment = "refunded"]
    \/ \E n \in 1..MaxParty : booking.status = "cancelled"
         /\ booking' = [booking EXCEPT !.status = "accepted", !.passengers = n]
    \/ booking' = [booking EXCEPT !.status = "cancelled"] /\ booking.status = "accepted"
    \/ \E q \in Requests : TripRefunded(q) /\ request[q].at = "trip_refunded"
         /\ booking' = [booking EXCEPT !.payment = "refunded"]
    \/ booking' = [booking EXCEPT !.status = "completed"]
         /\ \E q \in Requests : CompleteRiders(q)
    \/ booking' = [booking EXCEPT !.payout = "transferred"]
         /\ (PayoutRetryMark \/ \E q \in Requests : CompleteMark(q))
    \/ booking' = [booking EXCEPT !.payout = "failed"]
         /\ \E q \in Requests : CompleteFailed(q)

LEMMA RowMove ==
  ASSUME TypeOK, [Next]_vars
  PROVE  RowMoves
  <1>0. booking \in Booking
    BY DEF TypeOK
  <1>1. ASSUME NEW q \in Requests, Arrive(q) PROVE booking' = booking
    BY <1>1 DEF Arrive, IntentRead, WebhookArrives, RiderCancelRead, TripCancel, TripComplete,
       ConnectOnboard, ConnectStatus, ReadOnly
  <1>2. ASSUME NEW q \in Requests, Proceed(q) PROVE RowMoves
    <2>1. CASE IntentStore(q)
      BY <2>1 DEF IntentStore, At, RowMoves
    <2>2. CASE WebhookUpdate(q)
      BY <2>2 DEF WebhookUpdate, At, RowMoves
    <2>3. CASE RiderCancelUpdate(q)
      <3>1. CASE request[q].paid /\ request[q].amount > 0 /\ booking.status = "accepted"
        BY <2>3, <3>1 DEF RiderCancelUpdate, At, RowMoves
      <3>2. CASE request[q].paid /\ ~(request[q].amount > 0) /\ booking.status = "accepted"
        BY <2>3, <3>2 DEF RiderCancelUpdate, At, RowMoves
      <3>3. CASE ~request[q].paid /\ booking.status = "accepted"
        <4>1. booking' = [booking EXCEPT !.status = "cancelled", !.payment = booking.payment]
          BY <2>3, <3>3 DEF RiderCancelUpdate
        <4>2. booking' = [booking EXCEPT !.status = "cancelled"]
          BY <1>0, <4>1 DEF Booking
        <4>3. QED
          BY <2>3, <3>3, <4>2 DEF RiderCancelUpdate, At, RowMoves
      <3>4. CASE booking.status # "accepted"
        BY <2>3, <3>4 DEF RiderCancelUpdate, RowMoves
      <3>5. QED
        BY <3>1, <3>2, <3>3, <3>4
    <2>4. CASE TripCancelRiders(q) \/ CompleteRiders(q)
      BY <2>4 DEF TripCancelRiders, CompleteRiders, RowMoves
    <2>5. CASE TripRefunded(q)
      BY <2>5 DEF TripRefunded, At, RowMoves
    <2>6. CASE CompleteMark(q)
      BY <2>6 DEF CompleteMark, RowMoves
    <2>7. CASE CompleteFailed(q)
      BY <2>7 DEF CompleteFailed, RowMoves
    <2>8. CASE \/ IntentRetrieve(q) \/ IntentCreate(q) \/ IntentExisting(q) \/ WebhookRead(q)
               \/ WebhookMark(q) \/ RiderCancelRefund(q) \/ TripSnapshot(q) \/ TripRefund(q)
               \/ CompleteRead(q) \/ CompleteTransfer(q) \/ ConnectStore(q) \/ ConnectStatusStore(q)
      BY <2>8 DEF IntentRetrieve, IntentCreate, IntentExisting, WebhookRead, WebhookMark,
         RiderCancelRefund, TripSnapshot, TripRefund, CompleteRead, CompleteTransfer,
         ConnectStore, ConnectStatusStore, ReadOnly, StripeOnly, RowMoves
    <2>9. QED
      BY <1>2, <2>1, <2>2, <2>3, <2>4, <2>5, <2>6, <2>7, <2>8 DEF Proceed
  <1>3. ASSUME NEW q \in Slots, Abort(q) PROVE booking' = booking
    BY <1>3 DEF Abort, ReadOnly
  <1>4. CASE RetryPayouts
    BY <1>4 DEF RetryPayouts, PayoutRetryRead, PayoutRetryTransfer, PayoutRetryMark, ReadOnly,
       StripeOnly, RowMoves
  <1>5. CASE Outside
    BY <1>5 DEF Outside, RiderPays, PaymentFails, IntentExpires, AdminRefund, Rebook, TierDrops,
       StripeOnly, RowMoves
  <1>6. QED
    BY <1>1, <1>2, <1>3, <1>4, <1>5 DEF Next, vars, RowMoves

\* What a step may do at Stripe: open an intent, settle an open one, or refund.
StripeMoves ==
    \/ stripe' = stripe /\ events \subseteq events'
         /\ (events' = events \/ \E i \in Intents : Emits(i, "failed"))
    \/ \E i \in Intents : stripe[i].state = "absent" /\ events' = events
         /\ stripe' = [stripe EXCEPT ![i].state = "open"]
    \/ \E i \in Intents : stripe[i].state = "open" /\ Emits(i, "succeeded")
         /\ stripe' = [stripe EXCEPT ![i].state = "succeeded"]
    \/ \E i \in Intents : stripe[i].state = "open" /\ Emits(i, "canceled")
         /\ stripe' = [stripe EXCEPT ![i].state = "canceled"]
    \/ \E i \in Intents : \E n \in Nat : stripe[i].refunded + n <= Price /\ events' = events
         /\ stripe[i].state = "succeeded"
         /\ stripe' = [stripe EXCEPT ![i].refunded = @ + n]

LEMMA StripeMove ==
  ASSUME Typed, [Next]_vars
  PROVE  StripeMoves
  <1>0. /\ stripe \in [Intents -> [state : {"absent", "open", "succeeded", "canceled"},
                                   refunded : 0..Price]]
        /\ \A q \in Slots : request[q] \in Request
        /\ Requests \subseteq Slots
    BY TypedIs DEF MoneyOK, RequestsOK, Slots
  <1>1. ASSUME NEW q \in Requests, Arrive(q) PROVE stripe' = stripe /\ events' = events
    BY <1>1 DEF Arrive, IntentRead, WebhookArrives, RiderCancelRead, TripCancel, TripComplete,
       ConnectOnboard, ConnectStatus, ReadOnly
  <1>2. ASSUME NEW q \in Requests, Proceed(q) PROVE StripeMoves
    <2>1. CASE IntentCreate(q)
      BY <2>1 DEF IntentCreate, StripeOnly, StripeMoves
    <2>2. CASE RiderCancelRefund(q)
      <3>1. CASE Refundable(request[q].intent, request[q].amount)
        <4> DEFINE i == request[q].intent
                   n == request[q].amount
        <4>1. i \in Intents /\ n \in Nat
          BY <1>0, <2>2, PaymentAssumption, TypedIs DEF RiderCancelRefund, At, LocalsOK, Request
        <4>2. /\ stripe[i].state = "succeeded" /\ stripe[i].refunded + n <= Price
              /\ stripe' = [stripe EXCEPT ![i].refunded = @ + n] /\ events' = events
          BY <2>2, <3>1 DEF RiderCancelRefund, Refundable, StripeOnly
        <4> HIDE DEF i, n
        <4>3. QED
          BY <4>1, <4>2 DEF StripeMoves
      <3>2. QED
        BY <2>2, <3>1 DEF RiderCancelRefund, StripeOnly, StripeMoves
    <2>3. CASE TripRefund(q)
      <3>1. CASE Refundable(request[q].intent, 1)
        <4> DEFINE i == request[q].intent
        <4>1. i \in Intents
          BY <1>0, <2>3, TypedIs DEF TripRefund, At, LocalsOK
        <4>2. /\ stripe[i].state = "succeeded" /\ stripe[i].refunded \in 0..Price
              /\ stripe' = [stripe EXCEPT ![i].refunded = Price] /\ events' = events
          BY <1>0, <2>3, <3>1, <4>1 DEF TripRefund, Refundable, StripeOnly
        <4> DEFINE n == Price - stripe[i].refunded
        <4>3. /\ n \in Nat /\ stripe[i].refunded + n <= Price /\ stripe[i].refunded + n = Price
          BY <4>2 DEF Price
        <4> HIDE DEF i, n
        <4>4. stripe' = [stripe EXCEPT ![i].refunded = @ + n]
          BY <1>0, <4>1, <4>2, <4>3
        <4>5. QED
          BY <4>1, <4>2, <4>3, <4>4 DEF StripeMoves
      <3>2. QED
        BY <2>3, <3>1 DEF TripRefund, StripeOnly, StripeMoves
    <2>4. CASE \/ IntentRetrieve(q) \/ IntentExisting(q) \/ WebhookRead(q) \/ WebhookMark(q)
               \/ TripSnapshot(q) \/ CompleteRead(q) \/ CompleteTransfer(q) \/ ConnectStore(q)
               \/ ConnectStatusStore(q) \/ IntentStore(q)
      BY <2>4 DEF IntentRetrieve, IntentExisting, WebhookRead, WebhookMark, TripSnapshot,
         CompleteRead, CompleteTransfer, ConnectStore, ConnectStatusStore, IntentStore,
         ReadOnly, StripeOnly, StripeMoves
    <2>5. CASE \/ WebhookUpdate(q) \/ RiderCancelUpdate(q) \/ TripCancelRiders(q) \/ TripRefunded(q)
               \/ CompleteRiders(q) \/ CompleteMark(q) \/ CompleteFailed(q)
      BY <2>5 DEF WebhookUpdate, RiderCancelUpdate, TripCancelRiders, TripRefunded,
         CompleteRiders, CompleteMark, CompleteFailed, RowOnly, StripeMoves
    <2>6. QED
      BY <1>2, <2>1, <2>2, <2>3, <2>4, <2>5 DEF Proceed
  <1>3. CASE RetryPayouts \/ \E q \in Slots : Abort(q)
    BY <1>3 DEF RetryPayouts, PayoutRetryRead, PayoutRetryTransfer, PayoutRetryMark, Abort,
       ReadOnly, StripeOnly, RowOnly, StripeMoves
  <1>4. CASE Outside
    <2>1. ASSUME NEW i \in Intents, RiderPays(i) \/ PaymentFails(i) \/ IntentExpires(i)
          PROVE  StripeMoves
      BY <2>1 DEF RiderPays, PaymentFails, IntentExpires, Emits, StripeMoves
    <2>2. ASSUME NEW i \in Intents, NEW n \in 1..Price, AdminRefund(i, n) PROVE StripeMoves
      <3>1. n \in Nat
        BY DEF Price
      <3>2. QED
        BY <2>2, <3>1 DEF AdminRefund, Refundable, StripeOnly, StripeMoves
    <2>3. CASE TierDrops \/ \E n \in 1..MaxParty : Rebook(n)
      BY <2>3 DEF TierDrops, Rebook, RowOnly, StripeMoves
    <2>4. QED
      BY <1>4, <2>1, <2>2, <2>3 DEF Outside
  <1>5. QED
    BY <1>1, <1>2, <1>3, <1>4 DEF Next, vars, StripeMoves

\* An intent stays on the row once it is there.
LEMMA RowTyped ==
  ASSUME Typed, [Next]_vars
  PROVE  booking' \in Booking /\ (booking.intent # NoIntent => booking'.intent # NoIntent)
  <1>0. /\ booking \in Booking /\ NoIntent \notin Intents /\ RowMoves
        /\ \A q \in Requests : q \in Slots /\ request[q] \in Request
    BY TypedIs, RowMove, PaymentAssumption DEF Typed, Slots, RequestsOK
  <1>1. ASSUME NEW q \in Requests, request[q].at = "intent_store",
               booking' = [booking EXCEPT !.intent = request[q].intent, !.payment = "pending"]
        PROVE  booking' \in Booking /\ booking'.intent # NoIntent
    <2>1. request[q].intent \in Intents
      BY <1>0, <1>1, TypedIs DEF LocalsOK
    <2>2. QED
      BY <1>0, <1>1, <2>1 DEF Booking
  <1>2. ASSUME NEW q \in Requests, booking' = Marked(booking, request[q].kind),
               request[q].at = "webhook_update"
        PROVE  booking' \in Booking /\ booking'.intent = booking.intent
    <2>1. request[q].kind \in EventKinds
      BY <1>0, <1>2, TypedIs DEF LocalsOK, WebhookSteps, Named, MoneyOK, Event
    <2>2. QED
      BY <1>0, <1>2, <2>1, MarkedOK
  <1>3. ASSUME \/ booking' = [booking EXCEPT !.status = "cancelled"]
               \/ booking' = [booking EXCEPT !.status = "cancelled", !.payment = "canceled"]
               \/ booking' = [booking EXCEPT !.status = "cancelled", !.payment = "refunded"]
               \/ booking' = [booking EXCEPT !.payment = "refunded"]
               \/ booking' = [booking EXCEPT !.status = "completed"]
               \/ booking' = [booking EXCEPT !.payout = "transferred"]
               \/ booking' = [booking EXCEPT !.payout = "failed"]
               \/ booking' = booking
        PROVE  booking' \in Booking /\ booking'.intent = booking.intent
    BY <1>0, <1>3 DEF Booking
  <1>4. ASSUME NEW n \in 1..MaxParty,
               booking' = [booking EXCEPT !.status = "accepted", !.passengers = n]
        PROVE  booking' \in Booking /\ booking'.intent = booking.intent
    BY <1>0, <1>4 DEF Booking
  <1>5. QED
    BY <1>0, <1>1, <1>2, <1>3, <1>4 DEF RowMoves

\* Events are never taken back; only a delivered one is recorded.
LEMMA EventsTyped ==
  ASSUME Typed, [Next]_vars
  PROVE  MoneyOK' /\ events \subseteq events'
  <1>0. /\ MoneyOK /\ StripeMoves /\ LocalsOK /\ booking \in Booking
        /\ \A q \in Requests : q \in Slots
    BY TypedIs, StripeMove DEF Slots
  <1>1. /\ stripe' \in [Intents -> [state : {"absent", "open", "succeeded", "canceled"},
                                    refunded : 0..Price]]
        /\ events \subseteq events' /\ events' \subseteq Event
    BY <1>0, SMTT(60) DEF StripeMoves, MoneyOK, Emits, Event, EventKinds, Price
  <1>2. ASSUME NEW q \in Requests, Proceed(q) PROVE MoneyOK'
    <2>1. CASE WebhookMark(q)
      <3>1. Named(request[q]) \in events
        BY <1>0, <2>1 DEF WebhookMark, At, LocalsOK, WebhookSteps
      <3>2. processed' \subseteq events'
        BY <1>0, <1>1, <2>1, <3>1 DEF WebhookMark, MoneyOK, Named
      <3>3. QED
        BY <1>0, <1>1, <2>1, <3>2 DEF WebhookMark, MoneyOK
    <2>2. CASE IntentRetrieve(q) \/ IntentStore(q) \/ IntentExisting(q)
      <3>1. handed' \subseteq Intents
        BY <1>0, <2>2 DEF IntentRetrieve, IntentStore, IntentExisting, At, LocalsOK, MoneyOK, Booking
      <3>2. UNCHANGED <<processed, transfers>>
        BY <2>2 DEF IntentRetrieve, IntentStore, IntentExisting
      <3>3. QED
        BY <1>0, <1>1, <3>1, <3>2 DEF MoneyOK
    <2>3. CASE CompleteTransfer(q)
      BY <1>0, <1>1, <2>3 DEF CompleteTransfer, StripeOnly, MoneyOK
    <2>4. CASE \/ IntentCreate(q) \/ RiderCancelRefund(q) \/ TripRefund(q)
               \/ WebhookRead(q) \/ TripSnapshot(q) \/ CompleteRead(q)
      BY <1>0, <1>1, <2>4 DEF IntentCreate, RiderCancelRefund, TripRefund, WebhookRead,
         TripSnapshot, CompleteRead, StripeOnly, ReadOnly, MoneyOK
    <2>5. CASE \/ WebhookUpdate(q) \/ RiderCancelUpdate(q) \/ TripCancelRiders(q) \/ TripRefunded(q)
               \/ CompleteRiders(q) \/ CompleteMark(q) \/ CompleteFailed(q)
               \/ ConnectStore(q) \/ ConnectStatusStore(q)
      BY <1>0, <1>1, <2>5 DEF WebhookUpdate, RiderCancelUpdate, TripCancelRiders, TripRefunded,
         CompleteRiders, CompleteMark, CompleteFailed, ConnectStore, ConnectStatusStore, RowOnly,
         MoneyOK
    <2>6. QED
      BY <1>2, <2>1, <2>2, <2>3, <2>4, <2>5 DEF Proceed
  <1>3. ASSUME NEW q \in Requests, Arrive(q) PROVE MoneyOK'
    BY <1>0, <1>1, <1>3 DEF Arrive, IntentRead, WebhookArrives, RiderCancelRead, TripCancel,
       TripComplete, ConnectOnboard, ConnectStatus, ReadOnly, MoneyOK
  <1>4. CASE RetryPayouts \/ \E q \in Slots : Abort(q)
    BY <1>0, <1>1, <1>4 DEF RetryPayouts, PayoutRetryRead, PayoutRetryTransfer, PayoutRetryMark,
       Abort, ReadOnly, StripeOnly, RowOnly, MoneyOK
  <1>5. CASE Outside
    BY <1>0, <1>1, <1>5 DEF Outside, RiderPays, PaymentFails, IntentExpires, AdminRefund, Rebook,
       TierDrops, StripeOnly, RowOnly, MoneyOK
  <1>6. CASE UNCHANGED vars
    BY <1>0, <1>1, <1>6 DEF vars, MoneyOK
  <1>7. QED
    BY <1>1, <1>2, <1>3, <1>4, <1>5, <1>6 DEF Next

LEMMA RestTyped ==
  ASSUME Typed, [Next]_vars
  PROVE  RestOK'
  <1>0. RestOK /\ FaultsOK
    BY TypedIs DEF RestOK
  <1>1. faults' = faults \/ \E s : Fault(s)
    <2>1. ASSUME NEW q \in Requests, Arrive(q)
          PROVE  faults' = faults \/ \E s : Fault(s)
      BY <2>1 DEF Arrive, IntentRead, WebhookArrives, FoundNew, RiderCancelRead, TripCancel,
         TripComplete, ConnectOnboard, ConnectStatus
    <2>2. ASSUME NEW q \in Requests, Proceed(q)
          PROVE  faults' = faults \/ \E s : Fault(s)
      BY <2>2 DEF Proceed, IntentRetrieve, IntentCreate, IntentStore, IntentExisting,
         WebhookRead, WebhookUpdate, WebhookMark, RiderCancelRefund, RiderCancelUpdate,
         TripSnapshot, TripCancelRiders, TripRefund, TripRefunded, CompleteRiders, CompleteRead,
         CompleteTransfer, CompleteMark, CompleteFailed, ConnectStore, ConnectStatusStore, Fails
    <2>3. CASE RetryPayouts \/ \E q \in Slots : Abort(q)
      BY <2>3 DEF RetryPayouts, PayoutRetryRead, PayoutRetryTransfer, PayoutRetryMark, Abort, Fails
    <2>4. CASE Outside
      BY <2>4 DEF Outside, RiderPays, PaymentFails, IntentExpires, AdminRefund, Rebook, TierDrops
    <2>5. QED
      BY <2>1, <2>2, <2>3, <2>4 DEF Next, vars
  <1>2. FaultsOK'
    BY <1>0, <1>1, FaultOK DEF FaultsOK
  <1>3. /\ trip_status' \in {trip_status, "cancelled", "completed"}
        /\ tier' = tier \/ (tier > 0 /\ tier' = tier - 1)
        /\ connect' \in {connect, "disabled", "enabled"}
    <2>1. ASSUME NEW q \in Requests, Arrive(q)
          PROVE  /\ trip_status' \in {trip_status, "cancelled", "completed"}
                 /\ tier' = tier /\ connect' = connect
      BY <2>1 DEF Arrive, IntentRead, WebhookArrives, RiderCancelRead, TripCancel,
         TripComplete, ConnectOnboard, ConnectStatus, ReadOnly
    <2>2. ASSUME NEW q \in Requests, Proceed(q)
          PROVE  /\ trip_status' = trip_status /\ tier' = tier
                 /\ connect' \in {connect, "disabled", "enabled"}
      BY <2>2 DEF Proceed, IntentRetrieve, IntentCreate, IntentStore, IntentExisting,
         WebhookRead, WebhookUpdate, WebhookMark, RiderCancelRefund, RiderCancelUpdate,
         TripSnapshot, TripCancelRiders, TripRefund, TripRefunded, CompleteRiders, CompleteRead,
         CompleteTransfer, CompleteMark, CompleteFailed, ConnectStore, ConnectStatusStore,
         ReadOnly, RowOnly, StripeOnly
    <2>3. CASE RetryPayouts \/ \E q \in Slots : Abort(q)
      BY <2>3 DEF RetryPayouts, PayoutRetryRead, PayoutRetryTransfer, PayoutRetryMark, Abort,
         ReadOnly, RowOnly, StripeOnly
    <2>4. CASE Outside
      BY <2>4 DEF Outside, RiderPays, PaymentFails, IntentExpires, AdminRefund, Rebook, TierDrops,
         RowOnly, StripeOnly
    <2>5. QED
      BY <2>1, <2>2, <2>3, <2>4 DEF Next, vars
  <1>4. QED
    BY <1>0, <1>2, <1>3 DEF RestOK

LEMMA LocalsTyped ==
  ASSUME Typed, [Next]_vars
  PROVE  RequestsOK' /\ LocalsOK'
  <1>0. /\ RequestsOK /\ LocalsOK /\ TypeOK /\ Cron \in Slots /\ Cron \notin Requests
        /\ \A q \in Slots : q \in Requests \/ q = Cron
        /\ \A q \in Requests : q \in Slots
    BY TypedIs, PaymentAssumption DEF Typed, Slots
  <1>1. /\ events \subseteq events'
        /\ booking.intent # NoIntent => booking'.intent # NoIntent
    BY EventsTyped, RowTyped
  <1> DEFINE Fits(q) == LET w == request'[q] IN
        /\ w.at \in {"intent_retrieve", "intent_store", "cancel_refund", "trip_refund"}
              => w.intent \in Intents
        /\ w.at = "intent_existing" => booking'.intent # NoIntent
        /\ w.at \in WebhookSteps => Named(w) \in events'
  <1>2. ASSUME NEW q \in Slots, request'[q] = request[q] PROVE Fits(q)
    BY <1>0, <1>1, <1>2 DEF LocalsOK
  <1>3. ASSUME NEW q \in Requests, Handler(q) PROVE RequestsOK' /\ LocalsOK'
    <2>1. RequestsOK' /\ Moves(q) /\ \A p \in Slots \ {q} : request'[p] = request[p]
      BY <1>0, <1>3, ControlFlow
    <2>2. /\ request'[q].at \in {"intent_retrieve", "intent_store", "cancel_refund", "trip_refund"}
                => request'[q].intent \in Intents
          /\ request'[q].at = "intent_existing" => booking'.intent # NoIntent
      BY <1>1, <2>1 DEF Moves
    <2>3. request'[q].at \in WebhookSteps => Named(request'[q]) \in events'
      BY <1>0, <1>1, <2>1 DEF Moves, WebhookSteps, LocalsOK, Named
    <2>4. request'[q].at \notin {"retry_transfer", "retry_mark"}
      BY <2>1 DEF Moves
    <2>5. \A p \in Slots : Fits(p)
      BY <1>2, <2>1, <2>2, <2>3
    <2>6. \A p \in Requests : request'[p].at \notin {"retry_transfer", "retry_mark"}
      BY <1>0, <2>1, <2>4 DEF LocalsOK
    <2>7. QED
      BY <2>1, <2>5, <2>6 DEF LocalsOK
  <1>4. CASE RetryPayouts \/ Abort(Cron)
    <2>1. /\ RequestsOK' /\ \A p \in Slots \ {Cron} : request'[p] = request[p]
          /\ request'[Cron].at \in {"idle", "retry_transfer", "retry_mark"}
      BY <1>0, <1>4, CronFlow
    <2>2. Fits(Cron)
      BY <2>1 DEF WebhookSteps
    <2>3. \A p \in Slots : Fits(p)
      BY <1>2, <2>1, <2>2
    <2>4. QED
      BY <1>0, <2>1, <2>3 DEF LocalsOK
  <1>5. CASE request' = request
    <2>1. \A p \in Slots : Fits(p)
      BY <1>2, <1>5
    <2>2. QED
      BY <1>0, <1>5, <2>1 DEF LocalsOK, RequestsOK
  <1>6. Outside => request' = request
    BY DEF Outside, RiderPays, PaymentFails, IntentExpires, AdminRefund, Rebook, TierDrops
  <1>7. QED
    BY <1>3, <1>4, <1>5, <1>6, StepsOf DEF vars

LEMMA TypedNext == Typed /\ [Next]_vars => Typed'
  <1> SUFFICES ASSUME Typed, [Next]_vars PROVE Typed'
    OBVIOUS
  <1>1. booking' \in Booking /\ MoneyOK' /\ RestOK' /\ RequestsOK' /\ LocalsOK'
    BY RowTyped, EventsTyped, RestTyped, LocalsTyped
  <1>2. QED
    BY <1>1 DEF Typed, TypeOK, MoneyOK, RestOK, FaultsOK, RequestsOK

\* Every reachable state is well typed: Stripe refunds no more than the price,
\* only an event Stripe emitted is recorded as processed, and no failure is
\* uncounted.
THEOREM TypeCorrect == Spec => []TypeOK
  <1>1. Typed => TypeOK
    BY DEF Typed
  <1>2. QED
    BY <1>1, TypedInit, TypedNext, PTL DEF Spec

-----------------------------------------------------------------------------
(* Paid means charged                                                      *)

\* Stripe reports a success only of an intent that was charged; a new intent is
\* one that no row and no other request has.
Honest ==
    /\ \A e \in events : e.kind = "succeeded" => e.intent \in Charged
    /\ booking.payment = "paid" => booking.intent \in Charged
    /\ booking.intent \in Intents => stripe[booking.intent].state # "absent"
    /\ \A q \in Requests : request[q].at = "intent_store" =>
          /\ stripe[request[q].intent].state # "absent"
          /\ request[q].intent # booking.intent
    /\ \A p, q \in Requests :
          p # q /\ request[p].at = "intent_store" /\ request[q].at = "intent_store"
             => request[p].intent # request[q].intent

LEMMA HonestInit == Init => Honest
  <1> SUFFICES ASSUME Init PROVE Honest
    OBVIOUS
  <1>1. \A q \in Requests : request[q].at = "idle"
    BY IdleOK DEF Init, Slots
  <1>2. events = {} /\ booking.payment = "unpaid" /\ booking.intent = NoIntent
    BY DEF Init
  <1>3. QED
    BY <1>1, <1>2, PaymentAssumption DEF Honest

\* What is charged stays charged, what exists never vanishes, and what is given
\* back is never taken again.
LEMMA StripeKeeps ==
  ASSUME Typed, [Next]_vars, NEW i \in Intents
  PROVE  /\ i \in Charged => i \in Charged'
         /\ stripe[i].state # "absent" => stripe'[i].state # "absent"
         /\ stripe[i].refunded > 0 => stripe'[i].refunded > 0
  <1>1. /\ stripe \in [Intents -> [state : {"absent", "open", "succeeded", "canceled"},
                                   refunded : 0..Price]]
        /\ StripeMoves
    BY TypedIs, StripeMove DEF MoneyOK
  <1>2. QED
    BY <1>1 DEF StripeMoves, Charged, Price

LEMMA EventsHonest ==
  ASSUME Typed, Honest, [Next]_vars
  PROVE  \A e \in events' : e.kind = "succeeded" => e.intent \in Charged'
  <1>1. /\ stripe \in [Intents -> [state : {"absent", "open", "succeeded", "canceled"},
                                   refunded : 0..Price]]
        /\ StripeMoves /\ events \subseteq Event
    BY TypedIs, StripeMove DEF MoneyOK
  <1>2. \A e \in events : e.kind = "succeeded" => e.intent \in Charged'
    BY <1>1, StripeKeeps DEF Honest, Event
  <1>3. CASE events' = events
    BY <1>2, <1>3
  <1>4. ASSUME NEW i \in Intents, NEW kind \in {"failed", "canceled"}, Emits(i, kind)
        PROVE  \A e \in events' : e.kind = "succeeded" => e.intent \in Charged'
    BY <1>2, <1>4 DEF Emits
  <1>5. ASSUME NEW i \in Intents, Emits(i, "succeeded"),
               stripe' = [stripe EXCEPT ![i].state = "succeeded"]
        PROVE  \A e \in events' : e.kind = "succeeded" => e.intent \in Charged'
    <2>1. i \in Charged'
      BY <1>1, <1>5 DEF Charged
    <2>2. QED
      BY <1>2, <1>5, <2>1 DEF Emits
  <1>6. QED
    BY <1>1, <1>3, <1>4, <1>5 DEF StripeMoves

\* What a step does to the two columns that say who has paid with what.
RowPays ==
    \/ \E q \in Requests :
          /\ IntentStore(q) /\ request[q].at = "intent_store"
          /\ booking'.intent = request[q].intent /\ booking'.payment = "pending"
    \/ /\ booking'.intent = booking.intent
       /\ \/ booking'.payment = booking.payment
          \/ \E q \in Requests :
                /\ request[q].at = "webhook_update" /\ request[q].kind = "succeeded"
                /\ booking.intent = request[q].intent /\ booking'.payment = "paid"
          \/ booking.payment = "pending" /\ booking'.payment \in {"failed", "canceled"}
          \/ /\ booking.status = "accepted" /\ booking'.status = "cancelled"
             /\ \/ booking'.payment = "canceled"
                \/ /\ booking'.payment = "refunded"
                   /\ \E q \in Requests : /\ request[q].at = "cancel_update"
                                          /\ request[q].paid /\ request[q].amount > 0
          \/ /\ booking'.payment = "refunded"
             /\ \E q \in Requests : request[q].at = "trip_refunded"

LEMMA RowPay ==
  ASSUME Typed, [Next]_vars
  PROVE  RowPays
  <1>0. /\ booking \in Booking /\ RowMoves
        /\ \A q \in Requests : q \in Slots /\ request[q] \in Request
    BY TypedIs, RowMove DEF Typed, Slots, RequestsOK
  <1>1. ASSUME NEW q \in Requests, IntentStore(q), request[q].at = "intent_store",
               booking' = [booking EXCEPT !.intent = request[q].intent, !.payment = "pending"]
        PROVE  RowPays
    <2>1. booking'.intent = request[q].intent /\ booking'.payment = "pending"
      BY <1>0, <1>1 DEF Booking
    <2>2. QED
      BY <1>1, <2>1 DEF RowPays
  <1>2. ASSUME NEW q \in Requests, request[q].at = "webhook_update",
               booking.intent = request[q].intent, booking' = Marked(booking, request[q].kind)
        PROVE  RowPays
    <2>1. request[q].kind \in EventKinds
      BY <1>0, <1>2, TypedIs DEF LocalsOK, WebhookSteps, Named, MoneyOK, Event
    <2>2. QED
      BY <1>0, <1>2, <2>1, MarkedOK DEF RowPays
  <1>3. ASSUME NEW q \in Requests, request[q].at = "cancel_update", booking.status = "accepted",
               \/ booking' = [booking EXCEPT !.status = "cancelled"]
               \/ booking' = [booking EXCEPT !.status = "cancelled", !.payment = "canceled"]
               \/ /\ request[q].paid /\ request[q].amount > 0
                  /\ booking' = [booking EXCEPT !.status = "cancelled", !.payment = "refunded"]
        PROVE  RowPays
    BY <1>0, <1>3 DEF Booking, RowPays
  <1>4. ASSUME NEW q \in Requests, request[q].at = "trip_refunded",
               booking' = [booking EXCEPT !.payment = "refunded"]
        PROVE  RowPays
    BY <1>0, <1>4 DEF Booking, RowPays
  <1>5. ASSUME \/ booking' = booking
               \/ booking' = [booking EXCEPT !.status = "cancelled"]
               \/ booking' = [booking EXCEPT !.status = "completed"]
               \/ booking' = [booking EXCEPT !.payout = "transferred"]
               \/ booking' = [booking EXCEPT !.payout = "failed"]
               \/ \E n \in 1..MaxParty :
                     booking' = [booking EXCEPT !.status = "accepted", !.passengers = n]
        PROVE  RowPays
    BY <1>0, <1>5 DEF Booking, RowPays
  <1>6. QED
    BY <1>0, <1>1, <1>2, <1>3, <1>4, <1>5 DEF RowMoves

LEMMA HonestNext ==
  ASSUME Typed, Honest, [Next]_vars
  PROVE  Honest'
  <1>0. /\ TypeOK /\ RequestsOK /\ LocalsOK /\ booking \in Booking /\ booking' \in Booking /\ RowPays
        /\ stripe \in [Intents -> [state : {"absent", "open", "succeeded", "canceled"},
                                   refunded : 0..Price]]
        /\ \A q \in Requests : q \in Slots
        /\ NoIntent \notin Intents /\ Cron \notin Requests
    BY TypedIs, RowTyped, RowPay, PaymentAssumption DEF Typed, Slots, MoneyOK
  <1>1. \A e \in events' : e.kind = "succeeded" => e.intent \in Charged'
    BY EventsHonest
  <1>2. booking'.payment = "paid" => booking'.intent \in Charged'
    <2>1. CASE booking'.payment = "paid" /\ booking.payment = "paid" /\ booking'.intent = booking.intent
      <3>1. booking.intent \in Charged /\ booking.intent \in Intents
        BY <2>1 DEF Honest, Charged
      <3>2. QED
        BY <2>1, <3>1, StripeKeeps
    <2>2. ASSUME NEW q \in Requests, request[q].at = "webhook_update",
                 request[q].kind = "succeeded", booking.intent = request[q].intent,
                 booking'.intent = booking.intent
          PROVE  booking'.intent \in Charged'
      <3>1. Named(request[q]) \in events
        BY <1>0, <2>2 DEF LocalsOK, WebhookSteps
      <3>2. request[q].intent \in Charged
        BY <2>2, <3>1 DEF Honest, Named
      <3>3. QED
        BY <2>2, <3>2, StripeKeeps DEF Charged
    <2>3. QED
      BY <1>0, <2>1, <2>2 DEF RowPays
  <1>3. booking'.intent \in Intents => stripe'[booking'.intent].state # "absent"
    <2>1. CASE booking'.intent = booking.intent
      BY <2>1, StripeKeeps DEF Honest
    <2>2. ASSUME NEW q \in Requests, request[q].at = "intent_store",
                 booking'.intent = request[q].intent
          PROVE  booking'.intent \in Intents => stripe'[booking'.intent].state # "absent"
      BY <2>2, StripeKeeps DEF Honest
    <2>3. QED
      BY <1>0, <2>1, <2>2 DEF RowPays
  <1> DEFINE Fresh(q) == request'[q].at = "intent_store" =>
               /\ stripe'[request'[q].intent].state # "absent"
               /\ request'[q].intent # booking'.intent
             Apart(p, q) == request'[p].at = "intent_store" /\ request'[q].at = "intent_store"
                              => request'[p].intent # request'[q].intent
  <1>4. ASSUME NEW q \in Requests, Handler(q)
        PROVE  /\ \A p \in Requests : Fresh(p)
               /\ \A p, r \in Requests : p # r => Apart(p, r)
    <2>0. /\ Moves(q) /\ \A p \in Requests \ {q} : request'[p] = request[p]
          /\ \A p \in Requests : request[p].at = "intent_store" => request[p].intent \in Intents
      BY <1>0, <1>4, ControlFlow DEF LocalsOK
    <2>1. CASE IntentCreate(q)
      <3>1. booking' = booking /\ request[q].at = "intent_create"
        BY <2>1 DEF IntentCreate, StripeOnly, At
      <3>2. PICK i \in Intents :
               /\ stripe[i].state = "absent"
               /\ stripe' = [stripe EXCEPT ![i].state = "open"]
               /\ request' = [request EXCEPT ![q].at = "intent_store", ![q].intent = i]
        BY <2>1 DEF IntentCreate
      <3>3. request'[q].at = "intent_store" /\ request'[q].intent = i
        BY <1>0, <3>2 DEF RequestsOK, Request
      <3>4. stripe'[i].state = "open" /\ booking.intent # i
        BY <1>0, <3>2 DEF Honest
      <3>5. \A p \in Requests \ {q} : request[p].at = "intent_store" => request[p].intent # i
        BY <3>2 DEF Honest
      <3>6. Fresh(q)
        BY <3>1, <3>3, <3>4
      <3>7. \A p \in Requests \ {q} : Fresh(p)
        BY <2>0, <3>1, StripeKeeps DEF Honest
      <3>8. ASSUME NEW p \in Requests, NEW r \in Requests, p # r PROVE Apart(p, r)
        BY <2>0, <3>3, <3>5, <3>8 DEF Honest
      <3>9. QED
        BY <3>6, <3>7, <3>8
    <2>2. CASE IntentStore(q) /\ request[q].at = "intent_store"
      <3>1. request'[q].at # "intent_store"
        BY <2>0, <2>2 DEF Moves, IntentStore, IntentCreate, At
      <3>2. booking'.intent \in {booking.intent, request[q].intent}
        BY <1>0, <2>2 DEF IntentStore, Booking
      <3>3. \A p \in Requests \ {q} : Fresh(p)
        BY <2>0, <2>2, <3>2, StripeKeeps DEF Honest
      <3>4. \A p, r \in Requests : p # r => Apart(p, r)
        BY <2>0, <3>1 DEF Honest
      <3>5. QED
        BY <3>1, <3>3, <3>4
    <2>3. CASE ~IntentCreate(q) /\ ~(IntentStore(q) /\ request[q].at = "intent_store")
      <3>1. request'[q].at # "intent_store"
        BY <2>0, <2>3 DEF Moves
      <3>2. booking'.intent = booking.intent
        <4>1. ASSUME NEW p \in Requests, IntentStore(p), request[p].at = "intent_store"
              PROVE  booking'.intent = booking.intent
          <5>1. p # q
            BY <2>3, <4>1
          <5>2. request'[p].at # "intent_store"
            BY <1>0, <4>1, ControlFlow DEF Handler, Proceed, Moves, IntentStore, IntentCreate, At
          <5>3. QED
            BY <2>0, <4>1, <5>1, <5>2
        <4>2. QED
          BY <1>0, <4>1 DEF RowPays
      <3>3. \A p \in Requests \ {q} : Fresh(p)
        BY <2>0, <3>2, StripeKeeps DEF Honest
      <3>4. \A p, r \in Requests : p # r => Apart(p, r)
        BY <2>0, <3>1 DEF Honest
      <3>5. QED
        BY <3>1, <3>3, <3>4
    <2>4. QED
      BY <2>1, <2>2, <2>3
  <1>5. ASSUME \A p \in Requests : request'[p] = request[p]
        PROVE  /\ \A p \in Requests : Fresh(p)
               /\ \A p, r \in Requests : p # r => Apart(p, r)
    <2>1. \A p \in Requests : request[p].at = "intent_store" => request[p].intent \in Intents
      BY <1>0 DEF LocalsOK
    <2>2. booking'.intent = booking.intent
      <3>1. ASSUME NEW p \in Requests, IntentStore(p), request[p].at = "intent_store"
            PROVE  FALSE
        <4>1. request'[p].at # "intent_store"
          BY <1>0, <3>1, ControlFlow DEF Handler, Proceed, Moves, IntentStore, IntentCreate, At
        <4>2. QED
          BY <1>5, <3>1, <4>1
      <3>2. QED
        BY <1>0, <3>1 DEF RowPays
    <2>3. QED
      BY <1>5, <2>1, <2>2, StripeKeeps DEF Honest
  <1>6. /\ \A p \in Requests : Fresh(p)
        /\ \A p, r \in Requests : p # r => Apart(p, r)
    <2>1. CASE RetryPayouts \/ Abort(Cron)
      BY <1>0, <1>5, <2>1, CronFlow DEF Slots
    <2>2. CASE Outside \/ UNCHANGED vars
      BY <1>5, <2>2 DEF Outside, RiderPays, PaymentFails, IntentExpires, AdminRefund, Rebook,
         TierDrops, vars
    <2>3. QED
      BY <1>4, <2>1, <2>2, StepsOf
  <1>7. QED
    BY <1>1, <1>2, <1>3, <1>6 DEF Honest

LEMMA HonestAlways == Spec => [](Typed /\ Honest)
  <1>1. Init => Typed /\ Honest
    BY TypedInit, HonestInit
  <1>2. (Typed /\ Honest) /\ [Next]_vars => (Typed /\ Honest)'
    BY TypedNext, HonestNext
  <1>3. QED
    BY <1>1, <1>2, PTL DEF Spec

\* A booking counts as paid only through the intent it names, however events of
\* replaced intents are delayed, duplicated and reordered (payments.ts:598).
THEOREM PaidMeansCharged == Spec => []PaidIsCharged
  <1>1. Honest => PaidIsCharged
    BY DEF Honest, PaidIsCharged
  <1>2. QED
    BY <1>1, HonestAlways, PTL

\* "Paid" is lost to a new intent, a refund or the rider's cancellation, never to
\* a late event (payments.ts:699-760).
THEOREM PaidStaysPaid == Spec => PaidIsNotDowngraded
  <1>1. ASSUME Typed, Honest, [Next]_vars
        PROVE  [(booking.payment = "paid" /\ booking'.payment # "paid") =>
                   \/ booking'.intent # booking.intent
                   \/ booking'.payment = "refunded"
                   \/ booking.status = "accepted" /\ booking'.status = "cancelled"]_vars
    BY <1>1, RowPay DEF RowPays, Honest
  <1>2. Typed /\ Honest /\ [Next]_vars =>
           [(booking.payment = "paid" /\ booking'.payment # "paid") =>
                   \/ booking'.intent # booking.intent
                   \/ booking'.payment = "refunded"
                   \/ booking.status = "accepted" /\ booking'.status = "cancelled"]_vars
    BY <1>1
  <1>3. QED
    BY <1>2, HonestAlways, PTL DEF Spec, PaidIsNotDowngraded

-----------------------------------------------------------------------------
(* Refunded means money back                                               *)

GotBack == \E i \in Intents : stripe[i].refunded > 0

\* A request that is about to write "refunded" comes from a refund.
Returned ==
    /\ booking.payment = "refunded" => GotBack
    /\ \A q \in Requests : LET v == request[q] IN
          /\ v.at = "cancel_refund" => v.amount > 0
          /\ v.at = "cancel_update" /\ v.paid /\ v.amount > 0 => GotBack
          /\ v.at = "trip_refunded" => GotBack

LEMMA ReturnedInit == Init => Returned
  <1>1. Init => \A q \in Requests : request[q].at = "idle"
    BY IdleOK DEF Init, Slots
  <1>2. QED
    BY <1>1 DEF Init, Returned

LEMMA ReturnedNext ==
  ASSUME Typed, Honest, Returned, [Next]_vars
  PROVE  Returned'
  <1>0. /\ TypeOK /\ RequestsOK /\ LocalsOK /\ RowPays /\ NoIntent \notin Intents
        /\ stripe \in [Intents -> [state : {"absent", "open", "succeeded", "canceled"},
                                   refunded : 0..Price]]
        /\ \A q \in Requests : q \in Slots
        /\ Cron \notin Requests
    BY TypedIs, RowPay, PaymentAssumption DEF Typed, Slots, MoneyOK
  <1>1. GotBack => GotBack'
    BY StripeKeeps DEF GotBack
  <1>2. booking'.payment = "refunded" => GotBack'
    BY <1>0, <1>1 DEF RowPays, Returned
  <1> DEFINE Fits(q) == LET w == request'[q] IN
          /\ w.at = "cancel_refund" => w.amount > 0
          /\ w.at = "cancel_update" /\ w.paid /\ w.amount > 0 => GotBack'
          /\ w.at = "trip_refunded" => GotBack'
  <1>3. ASSUME NEW q \in Requests, request'[q] = request[q] PROVE Fits(q)
    BY <1>1, <1>3 DEF Returned
  <1>4. ASSUME NEW q \in Requests, Handler(q) PROVE \A p \in Requests : Fits(p)
    <2>1. Moves(q) /\ \A p \in Requests \ {q} : request'[p] = request[p]
      BY <1>0, <1>4, ControlFlow
    <2>2. ASSUME request'[q].at = "cancel_refund" PROVE request'[q].amount > 0
      BY <2>1, <2>2 DEF Moves
    <2>3. ASSUME request'[q].at = "cancel_update", request'[q].paid, request'[q].amount > 0
          PROVE  GotBack'
      <3>1. CASE request[q].at = "idle" /\ booking.payment = "paid" /\ booking.intent = NoIntent
        BY <1>0, <3>1 DEF Honest, Charged
      <3>2. CASE /\ request[q].at = "cancel_refund" /\ Refundable(request[q].intent, request[q].amount)
                 /\ stripe' = [stripe EXCEPT ![request[q].intent].refunded = @ + request[q].amount]
        <4> DEFINE i == request[q].intent
                   n == request[q].amount
        <4>1. i \in Intents /\ n > 0 /\ n \in Nat
          BY <1>0, <3>2, PaymentAssumption DEF LocalsOK, Returned, RequestsOK, Request
        <4>2. stripe' = [stripe EXCEPT ![i].refunded = @ + n]
          BY <3>2
        <4> HIDE DEF i, n
        <4>3. stripe'[i].refunded > 0
          BY <1>0, <4>1, <4>2 DEF Price
        <4>4. QED
          BY <4>1, <4>3 DEF GotBack
      <3>3. QED
        BY <2>1, <2>3, <3>1, <3>2 DEF Moves
    <2>4. ASSUME request'[q].at = "trip_refunded" PROVE GotBack'
      <3>1. /\ request[q].at = "trip_refund"
            /\ stripe' = [stripe EXCEPT ![request[q].intent].refunded = Price]
        BY <2>1, <2>4 DEF Moves
      <3>2. request[q].intent \in Intents
        BY <1>0, <3>1 DEF LocalsOK
      <3>3. stripe'[request[q].intent].refunded > 0
        BY <1>0, <3>1, <3>2 DEF Price
      <3>4. QED
        BY <3>2, <3>3 DEF GotBack
    <2>5. Fits(q)
      BY <2>2, <2>3, <2>4
    <2>6. QED
      BY <1>3, <2>1, <2>5
  <1>5. \A p \in Requests : Fits(p)
    <2>1. CASE RetryPayouts \/ Abort(Cron)
      BY <1>0, <1>3, <2>1, CronFlow DEF Slots
    <2>2. CASE Outside \/ UNCHANGED vars
      <3>1. request' = request
        BY <2>2 DEF Outside, RiderPays, PaymentFails, IntentExpires, AdminRefund, Rebook,
           TierDrops, vars
      <3>2. QED
        BY <1>3, <3>1
    <2>3. QED
      BY <1>4, <2>1, <2>2, StepsOf
  <1>6. QED
    BY <1>2, <1>5 DEF Returned, GotBack

\* A rider whose booking says "refunded" has got money back, although tier,
\* status and intent are read long before they are written (trips.ts:903-985).
THEOREM RefundedMeansMoneyBack == Spec => []RefundedGotMoneyBack
  <1>1. Init => Typed /\ Honest /\ Returned
    BY TypedInit, HonestInit, ReturnedInit
  <1>2. (Typed /\ Honest /\ Returned) /\ [Next]_vars => (Typed /\ Honest /\ Returned)'
    BY TypedNext, HonestNext, ReturnedNext
  <1>3. Returned => RefundedGotMoneyBack
    BY DEF Returned, GotBack, RefundedGotMoneyBack
  <1>4. QED
    BY <1>1, <1>2, <1>3, PTL DEF Spec

-----------------------------------------------------------------------------
(* What the driver was paid                                                *)

Completing(v) == v.at \in CompletionSteps
Retrying == request[Cron].at \in {"retry_transfer", "retry_mark"}

\* A trip completes once, and its one completion leaves the payout pending until
\* it knows what became of the transfer; only a payout that failed is the daily
\* task's.  The transfers are those whose record failed, and one more where the row
\* says so or is about to.
Payouts ==
    /\ request[Cron].at \in {"idle", "retry_transfer", "retry_mark"}
    /\ \A p, q \in Requests : p # q /\ Completing(request[p]) => ~Completing(request[q])
    /\ trip_status = "scheduled" =>
          /\ booking.payout = "pending" /\ transfers = faults.record
          /\ \A q \in Requests : ~Completing(request[q])
    /\ \A q \in Requests : Completing(request[q]) =>
          /\ booking.payout = "pending"
          /\ transfers = faults.record + (IF request[q].at = "complete_mark" THEN 1 ELSE 0)
    /\ booking.payout = "pending" /\ (\A q \in Requests : ~Completing(request[q])) =>
          transfers = faults.record
    /\ booking.payout = "failed" =>
          transfers = faults.record + (IF request[Cron].at = "retry_mark" THEN 1 ELSE 0)
    /\ booking.payout # "failed" => ~Retrying
    /\ booking.payout = "transferred" => transfers = faults.record + 1

LEMMA PayoutsInit == Init => Payouts
  <1>1. Init => \A q \in Slots : request[q].at = "idle"
    BY IdleOK DEF Init
  <1>2. Init => booking.payout = "pending" /\ transfers = 0 /\ faults.record = 0
    BY DEF Init
  <1>3. QED
    BY <1>1, <1>2 DEF Payouts, Completing, CompletionSteps, Retrying, Slots

\* No other step of a request pays, writes the payout's status or loses a record.
LEMMA OthersPayNot ==
  ASSUME Typed, NEW q \in Requests, Handler(q),
         ~CompleteTransfer(q), ~CompleteMark(q), ~CompleteFailed(q), ~Abort(q)
  PROVE  /\ transfers' = transfers /\ booking'.payout = booking.payout
         /\ faults'.record = faults.record
         /\ trip_status' = "scheduled" => trip_status = "scheduled"
  <1> DEFINE Kept == /\ transfers' = transfers /\ booking'.payout = booking.payout
                     /\ trip_status' = "scheduled" => trip_status = "scheduled"
  <1>0. booking \in Booking /\ FaultsOK
    BY TypedIs DEF RestOK
  <1>kind. request[q].at = "webhook_update" => request[q].kind \in EventKinds
    <2>1. q \in Slots /\ LocalsOK /\ events \subseteq Event
      BY TypedIs DEF Slots, MoneyOK
    <2>2. request[q].at = "webhook_update" => Named(request[q]) \in Event
      BY <2>1 DEF LocalsOK, WebhookSteps
    <2>3. QED
      BY <2>2 DEF Named, Event
  <1>1. ASSUME Arrive(q) PROVE Kept
    BY <1>1 DEF Arrive, IntentRead, WebhookArrives, RiderCancelRead, TripCancel, TripComplete,
       ConnectOnboard, ConnectStatus, ReadOnly
  <1>2. ASSUME WebhookUpdate(q) PROVE Kept
    BY <1>0, <1>kind, <1>2, MarkedOK DEF WebhookUpdate, At, RowOnly
  <1>3. ASSUME \/ IntentRetrieve(q) \/ IntentCreate(q) \/ IntentExisting(q) \/ WebhookRead(q)
               \/ WebhookMark(q) \/ RiderCancelRefund(q) \/ TripSnapshot(q) \/ TripRefund(q)
               \/ CompleteRead(q) \/ ConnectStore(q) \/ ConnectStatusStore(q)
        PROVE  Kept
    BY <1>3 DEF IntentRetrieve, IntentCreate, IntentExisting, WebhookRead, WebhookMark,
       RiderCancelRefund, TripSnapshot, TripRefund, CompleteRead, ConnectStore,
       ConnectStatusStore, ReadOnly, StripeOnly
  <1>4. ASSUME \/ IntentStore(q) \/ RiderCancelUpdate(q) \/ TripCancelRiders(q) \/ TripRefunded(q)
               \/ CompleteRiders(q)
        PROVE  Kept
    BY <1>0, <1>4 DEF IntentStore, RiderCancelUpdate, TripCancelRiders, TripRefunded,
       CompleteRiders, RowOnly, Booking
  <1>5. faults' = faults \/ \E s \in {"webhook_read", "intent_retrieve", "trip_snapshot"} : Fault(s)
    <2>1. CASE Arrive(q)
      BY <2>1 DEF Arrive, IntentRead, WebhookArrives, FoundNew, RiderCancelRead, TripCancel,
         TripComplete, ConnectOnboard, ConnectStatus
    <2>2. CASE IntentRetrieve(q) \/ TripSnapshot(q)
      BY <2>2 DEF IntentRetrieve, TripSnapshot, Fails, At
    <2>3. CASE Proceed(q) /\ ~IntentRetrieve(q) /\ ~TripSnapshot(q)
      BY <2>3 DEF Proceed, IntentCreate, IntentStore, IntentExisting, WebhookRead,
         WebhookUpdate, WebhookMark, RiderCancelRefund, RiderCancelUpdate, TripCancelRiders,
         TripRefund, TripRefunded, CompleteRiders, CompleteRead, ConnectStore,
         ConnectStatusStore
    <2>4. QED
      BY <2>1, <2>2, <2>3 DEF Handler
  <1>6. faults'.record = faults.record
    <2>1. ASSUME NEW s \in {"webhook_read", "intent_retrieve", "trip_snapshot"}, Fault(s)
          PROVE  faults'.record = faults.record
      <3>1. s \notin RecordSteps /\ faults.record \in Nat
        BY <1>0, PaymentAssumption DEF RecordSteps, FaultsOK
      <3>2. QED
        BY <1>0, <2>1, <3>1, FaultOK
    <2>2. QED
      BY <1>5, <2>1
  <1>7. QED
    BY <1>1, <1>2, <1>3, <1>4, <1>6 DEF Handler, Proceed

LEMMA PayoutsNext ==
  ASSUME Typed, Payouts, [Next]_vars
  PROVE  Payouts'
  <1> USE DEF CompletionSteps
  <1>0. /\ TypeOK /\ RequestsOK /\ LocalsOK /\ booking \in Booking /\ transfers \in Nat
        /\ FaultsOK /\ faults.record \in Nat
        /\ \A q \in Requests : q \in Slots /\ q # Cron
    BY TypedIs, PaymentAssumption DEF Typed, Slots, MoneyOK, RestOK, FaultsOK
  <1>1. ASSUME NEW q \in Requests, Handler(q) PROVE Payouts'
    <2>0. /\ Moves(q) /\ \A p \in Requests \ {q} : request'[p] = request[p]
          /\ request'[Cron] = request[Cron]
      BY <1>0, <1>1, ControlFlow DEF Slots
    <2>1. CASE CompleteTransfer(q)
      <3>1. /\ request[q].at = "complete_transfer" /\ booking' = booking /\ trip_status' = trip_status
            /\ \/ transfers' = transfers + 1 /\ Goes(q, "complete_mark")
               \/ transfers' = transfers /\ Goes(q, "complete_failed")
        BY <2>1 DEF CompleteTransfer, At, StripeOnly
      <3>2. /\ booking.payout = "pending" /\ transfers = faults.record
            /\ trip_status # "scheduled"
            /\ \A p \in Requests \ {q} : ~Completing(request[p])
        BY <1>0, <3>1 DEF Payouts, Completing
      <3>3. \/ transfers' = faults.record + 1 /\ request'[q].at = "complete_mark"
            \/ transfers' = faults.record /\ request'[q].at = "complete_failed"
        BY <1>0, <3>1, <3>2, GoesOK DEF Steps, PayoutSteps
      <3>4. faults'.record = faults.record
        <4>1. faults' = faults \/ Fault("complete_transfer")
          BY <2>1, <3>1 DEF CompleteTransfer, Fails
        <4>2. QED
          BY <1>0, <4>1, FaultOK DEF RecordSteps
      <3>5. QED
        BY <1>0, <2>0, <3>1, <3>2, <3>3, <3>4 DEF Payouts, Completing, Retrying
    <2>2. CASE CompleteMark(q)
      <3>1. /\ request[q].at = "complete_mark" /\ transfers' = transfers /\ trip_status' = trip_status
            /\ \/ /\ booking' = [booking EXCEPT !.payout = "transferred"] /\ Answers(q)
                  /\ faults' = faults
               \/ booking' = booking /\ Goes(q, "complete_failed") /\ Fault("complete_mark")
        BY <2>2 DEF CompleteMark, At, Fails, RowOnly
      <3>2. /\ transfers = faults.record + 1 /\ trip_status # "scheduled"
            /\ booking.payout = "pending"
            /\ \A p \in Requests \ {q} : ~Completing(request[p])
        BY <1>0, <3>1 DEF Payouts, Completing
      <3>3. \/ /\ request'[q].at = "idle" /\ booking'.payout = "transferred"
               /\ faults'.record = faults.record
            \/ /\ request'[q].at = "complete_failed" /\ booking' = booking
               /\ faults'.record = faults.record + 1
        <4>1. CASE booking' = booking
          BY <1>0, <3>1, <3>2, <4>1, GoesOK, FaultOK
             DEF Steps, PayoutSteps, RecordSteps, Booking
        <4>2. CASE Answers(q) /\ booking' = [booking EXCEPT !.payout = "transferred"] /\ faults' = faults
          BY <1>0, <4>2, AnswersOK, IdleOK DEF Becomes, Booking
        <4>3. QED
          BY <3>1, <4>1, <4>2
      <3>4. QED
        BY <1>0, <2>0, <3>1, <3>2, <3>3 DEF Payouts, Completing, Retrying
    <2>3. CASE CompleteFailed(q)
      <3>1. /\ request[q].at = "complete_failed" /\ transfers' = transfers /\ trip_status' = trip_status
            /\ booking' = [booking EXCEPT !.payout = "failed"] /\ Answers(q) /\ faults' = faults
        BY <2>3 DEF CompleteFailed, At, RowOnly
      <3>2. /\ transfers = faults.record /\ trip_status # "scheduled" /\ booking.payout = "pending"
            /\ \A p \in Requests \ {q} : ~Completing(request[p])
        BY <1>0, <3>1 DEF Payouts, Completing
      <3>3. request'[q].at = "idle" /\ booking'.payout = "failed"
        BY <1>0, <3>1, AnswersOK, IdleOK DEF Becomes, Booking
      <3>4. QED
        BY <2>0, <3>1, <3>2, <3>3 DEF Payouts, Completing, Retrying
    <2>4. CASE TripComplete(q)
      <3>1. /\ trip_status = "scheduled" /\ trip_status' = "completed"
            /\ booking' = booking /\ transfers' = transfers /\ faults' = faults
        BY <2>4 DEF TripComplete
      <3>2. /\ booking.payout = "pending" /\ transfers = faults.record
            /\ \A p \in Requests : ~Completing(request[p])
        BY <3>1 DEF Payouts
      <3>3. request'[q].at = "complete_riders"
        <4>1. Starts(q, [Idle EXCEPT !.at = "complete_riders"])
          BY <2>4 DEF TripComplete
        <4>2. QED
          BY <1>0, <4>1 DEF Starts, RequestsOK, Idle
      <3>4. QED
        BY <1>0, <2>0, <3>1, <3>2, <3>3 DEF Payouts, Completing, Retrying
    <2>5. CASE Abort(q)
      <3>1. /\ transfers' = transfers /\ booking' = booking /\ trip_status' = trip_status
            /\ Fault(request[q].at) /\ Answers(q)
        BY <2>5 DEF Abort, Fails, ReadOnly
      <3>2. request'[q].at = "idle" /\ request[q].at # "retry_mark"
        BY <1>0, <3>1, AnswersOK, IdleOK DEF Becomes, LocalsOK
      <3>3. faults'.record =
              faults.record + (IF request[q].at = "complete_mark" THEN 1 ELSE 0)
        BY <1>0, <3>1, <3>2, FaultOK DEF RecordSteps
      <3>4. CASE Completing(request[q])
        <4>1. /\ booking.payout = "pending" /\ transfers = faults'.record
              /\ trip_status # "scheduled"
              /\ \A p \in Requests \ {q} : ~Completing(request[p])
          BY <1>0, <3>3, <3>4 DEF Payouts
        <4>2. \A p \in Requests : ~Completing(request'[p])
          BY <2>0, <3>2, <4>1 DEF Completing
        <4>3. QED
          BY <2>0, <3>1, <4>1, <4>2 DEF Payouts, Retrying
      <3>5. CASE ~Completing(request[q])
        <4>1. faults'.record = faults.record
          BY <1>0, <3>3, <3>5 DEF Completing
        <4>2. \A p \in Requests : IF p = q THEN ~Completing(request[p]) /\ ~Completing(request'[p])
                                  ELSE request'[p] = request[p]
          BY <2>0, <3>2, <3>5 DEF Completing
        <4>3. QED
          BY <2>0, <3>1, <4>1, <4>2 DEF Payouts, Retrying
      <3>6. QED
        BY <3>4, <3>5
    <2>6. CASE /\ ~CompleteTransfer(q) /\ ~CompleteMark(q) /\ ~CompleteFailed(q)
               /\ ~TripComplete(q) /\ ~Abort(q)
      <3>1. /\ transfers' = transfers /\ booking'.payout = booking.payout
            /\ faults'.record = faults.record
            /\ trip_status' = "scheduled" => trip_status = "scheduled"
        BY <1>1, <2>6, OthersPayNot
      <3>2. Completing(request'[q]) => /\ Completing(request[q])
                                       /\ request[q].at # "complete_mark"
                                       /\ request'[q].at # "complete_mark"
        BY <2>0, <2>6 DEF Moves, Completing
      <3>3. Completing(request[q]) /\ request[q].at = "complete_mark" => FALSE
        <4>1. CASE Arrive(q)
          <5>1. request[q] = Idle
            BY <4>1 DEF Arrive, IntentRead, WebhookArrives, RiderCancelRead, TripCancel,
               TripComplete, ConnectOnboard, ConnectStatus, Starts
          <5>2. QED
            BY <5>1, IdleOK
        <4>2. CASE Proceed(q)
          BY <2>6, <4>2 DEF Proceed, At, IntentRetrieve, IntentCreate, IntentStore,
             IntentExisting, WebhookRead, WebhookUpdate, WebhookMark, RiderCancelRefund,
             RiderCancelUpdate, TripSnapshot, TripCancelRiders, TripRefund, TripRefunded,
             CompleteRiders, CompleteRead, ConnectStore, ConnectStatusStore
        <4>3. QED
          BY <1>1, <2>6, <4>1, <4>2 DEF Handler
      <3>4. (\A p \in Requests : ~Completing(request'[p])) /\ booking.payout = "pending" =>
              transfers = faults.record
        <4>1. CASE \A p \in Requests : ~Completing(request[p])
          BY <4>1 DEF Payouts
        <4>2. ASSUME NEW p \in Requests, Completing(request[p]),
                     \A r \in Requests : ~Completing(request'[r])
              PROVE  transfers = faults.record
          <5>1. p = q
            BY <2>0, <4>2
          <5>2. QED
            BY <1>0, <3>3, <4>2, <5>1 DEF Payouts
        <4>3. QED
          BY <4>1, <4>2
      <3>5. \A p \in Requests : Completing(request'[p]) =>
               /\ Completing(request[p])
               /\ request'[p].at = "complete_mark" <=> request[p].at = "complete_mark"
        BY <2>0, <3>2
      <3>6. QED
        BY <2>0, <3>1, <3>4, <3>5 DEF Payouts, Retrying
    <2>7. QED
      BY <2>1, <2>2, <2>3, <2>4, <2>5, <2>6
  <1>2. CASE RetryPayouts \/ Abort(Cron)
    <2>0. /\ \A p \in Requests : request'[p] = request[p]
          /\ \/ request'[Cron].at = "idle"
             \/ request'[Cron].at = "retry_transfer" /\ PayoutRetryRead
             \/ request'[Cron].at = "retry_mark" /\ request[Cron].at = "retry_transfer"
                 /\ PayoutRetryTransfer /\ transfers' = transfers + 1
      BY <1>0, <1>2, CronFlow
    <2>1. trip_status' = trip_status
      BY <1>2 DEF RetryPayouts, PayoutRetryRead, PayoutRetryTransfer, PayoutRetryMark, Abort,
         ReadOnly, StripeOnly, RowOnly
    <2>2. CASE PayoutRetryRead
      <3>1. /\ booking' = booking /\ transfers' = transfers /\ booking.payout = "failed"
            /\ request[Cron].at = "idle" /\ faults' = faults
        BY <2>2, IdleOK DEF PayoutRetryRead, ReadOnly, Owed, Starts
      <3>2. request'[Cron].at # "retry_mark"
        BY <2>0, <3>1
      <3>3. QED
        BY <2>0, <2>1, <3>1, <3>2 DEF Payouts, Retrying
    <2>3. CASE PayoutRetryTransfer
      <3>1. /\ request[Cron].at = "retry_transfer" /\ booking' = booking
            /\ \/ transfers' = transfers + 1 /\ Goes(Cron, "retry_mark")
               \/ transfers' = transfers /\ Answers(Cron)
        BY <2>3 DEF PayoutRetryTransfer, At, StripeOnly
      <3>2. booking.payout = "failed" /\ transfers = faults.record
        BY <1>0, <3>1 DEF Payouts, Retrying
      <3>3. \/ transfers' = faults.record + 1 /\ request'[Cron].at = "retry_mark"
            \/ transfers' = faults.record /\ request'[Cron].at = "idle"
        BY <1>0, <3>1, <3>2, GoesOK, AnswersOK, IdleOK DEF Steps, PayoutSteps, Becomes, Slots
      <3>4. faults'.record = faults.record
        <4>1. faults' = faults \/ Fault("retry_transfer")
          BY <2>3, <3>1 DEF PayoutRetryTransfer, Fails
        <4>2. QED
          BY <1>0, <4>1, FaultOK DEF RecordSteps
      <3>5. QED
        BY <1>0, <2>0, <2>1, <3>1, <3>2, <3>3, <3>4 DEF Payouts, Retrying
    <2>4. CASE PayoutRetryMark
      <3>1. /\ request[Cron].at = "retry_mark" /\ transfers' = transfers
            /\ booking' = [booking EXCEPT !.payout = "transferred"] /\ Answers(Cron)
            /\ faults' = faults
        BY <2>4 DEF PayoutRetryMark, At, RowOnly
      <3>2. /\ booking.payout = "failed" /\ transfers = faults.record + 1
            /\ booking'.payout = "transferred"
        BY <1>0, <3>1 DEF Payouts, Retrying, Booking
      <3>3. request'[Cron].at = "idle"
        BY <1>0, <3>1, AnswersOK, IdleOK DEF Becomes, Slots
      <3>4. trip_status # "scheduled" /\ \A p \in Requests : ~Completing(request[p])
        BY <3>2 DEF Payouts
      <3>5. QED
        BY <2>0, <2>1, <3>1, <3>2, <3>3, <3>4 DEF Payouts, Retrying
    <2>5. CASE Abort(Cron)
      <3>1. /\ booking' = booking /\ transfers' = transfers /\ Answers(Cron)
            /\ Fault(request[Cron].at)
        BY <2>5 DEF Abort, Fails, ReadOnly
      <3>2. request'[Cron].at = "idle"
        BY <1>0, <3>1, AnswersOK, IdleOK DEF Becomes, Slots
      <3>3. faults'.record =
              faults.record + (IF request[Cron].at \in RecordSteps THEN 1 ELSE 0)
        BY <1>0, <3>1, FaultOK
      <3>4. CASE request[Cron].at = "retry_mark"
        <4>1. booking.payout = "failed" /\ transfers = faults.record + 1
          BY <3>4 DEF Payouts, Retrying
        <4>2. faults'.record = faults.record + 1
          BY <3>3, <3>4 DEF RecordSteps
        <4>3. trip_status # "scheduled" /\ \A p \in Requests : ~Completing(request[p])
          BY <4>1 DEF Payouts
        <4>4. QED
          BY <1>0, <2>0, <2>1, <3>1, <3>2, <4>1, <4>2, <4>3 DEF Payouts, Retrying
      <3>5. CASE request[Cron].at # "retry_mark"
        <4>1. request[Cron].at # "complete_mark"
          BY DEF Payouts
        <4>2. faults'.record = faults.record
          BY <1>0, <3>3, <3>5, <4>1 DEF RecordSteps
        <4>3. QED
          BY <2>0, <2>1, <3>1, <3>2, <3>5, <4>2 DEF Payouts, Retrying
      <3>6. QED
        BY <3>4, <3>5
    <2>6. QED
      BY <1>2, <2>2, <2>3, <2>4, <2>5 DEF RetryPayouts
  <1>3. CASE Outside \/ UNCHANGED vars
    <2>1. /\ request' = request /\ transfers' = transfers /\ trip_status' = trip_status
          /\ faults' = faults
      BY <1>3 DEF Outside, RiderPays, PaymentFails, IntentExpires, AdminRefund, Rebook,
         TierDrops, vars, RowOnly, StripeOnly
    <2>2. booking'.payout = booking.payout
      BY <1>0, <1>3 DEF Outside, RiderPays, PaymentFails, IntentExpires, AdminRefund, Rebook,
         TierDrops, vars, RowOnly, StripeOnly, Booking
    <2>3. QED
      BY <2>1, <2>2 DEF Payouts, Retrying
  <1>4. QED
    BY <1>1, <1>2, <1>3, StepsOf

LEMMA AccountedOK == Typed /\ Payouts => TransfersAccounted
  <1> SUFFICES ASSUME Typed, Payouts PROVE TransfersAccounted
    OBVIOUS
  <1> DEFINE InFlight == \E q \in Slots : request[q].at \in RecordSteps
  <1>0. /\ booking.payout \in {"pending", "transferred", "failed"}
        /\ transfers \in Nat /\ faults.record \in Nat
        /\ Cron \in Slots /\ \A q \in Slots : q \in Requests \/ q = Cron
        /\ \A q \in Requests : q \in Slots /\ request[q].at # "retry_mark"
    BY TypedIs, PaymentAssumption DEF Booking, MoneyOK, RestOK, FaultsOK, Slots, LocalsOK
  <1>1. CASE booking.payout = "transferred"
    BY <1>0, <1>1 DEF Payouts, TransfersAccounted
  <1>2. CASE booking.payout = "failed"
    <2>1. \A q \in Requests : request[q].at \notin RecordSteps
      BY <1>0, <1>2 DEF Payouts, Completing, CompletionSteps, RecordSteps
    <2>2. InFlight <=> request[Cron].at = "retry_mark"
      BY <1>0, <2>1 DEF RecordSteps, Payouts
    <2> HIDE DEF InFlight
    <2>3. transfers = faults.record + (IF InFlight THEN 1 ELSE 0)
      BY <1>2, <2>2 DEF Payouts
    <2>4. QED
      BY <1>2, <2>3 DEF TransfersAccounted, InFlight
  <1>3. CASE booking.payout = "pending"
    <2>1. request[Cron].at \notin RecordSteps
      BY <1>3 DEF Payouts, Retrying, RecordSteps
    <2>2. CASE \E q \in Requests : Completing(request[q])
      <3>1. PICK q \in Requests : Completing(request[q])
        BY <2>2
      <3>2. /\ transfers = faults.record + (IF request[q].at = "complete_mark" THEN 1 ELSE 0)
            /\ \A p \in Requests \ {q} : ~Completing(request[p])
        BY <3>1 DEF Payouts
      <3>3. InFlight <=> request[q].at = "complete_mark"
        BY <1>0, <2>1, <3>1, <3>2 DEF Completing, CompletionSteps, RecordSteps
      <3> HIDE DEF InFlight
      <3>4. transfers = faults.record + (IF InFlight THEN 1 ELSE 0)
        BY <3>2, <3>3
      <3>5. QED
        BY <1>3, <3>4 DEF TransfersAccounted, InFlight
    <2>3. CASE \A q \in Requests : ~Completing(request[q])
      <3>1. transfers = faults.record
        BY <1>3, <2>3 DEF Payouts
      <3>2. ~InFlight
        BY <1>0, <2>1, <2>3 DEF Completing, CompletionSteps, RecordSteps
      <3>3. QED
        BY <1>0, <1>3, <3>1, <3>2 DEF TransfersAccounted
    <2>4. QED
      BY <2>2, <2>3
  <1>4. QED
    BY <1>0, <1>1, <1>2, <1>3

\* Every transfer is on the row, about to be put there, or one whose record failed,
\* wherever requests and the daily task stop and however they overlap
\* (trips.ts:1948-2010, cron.ts:297-345).
THEOREM TransfersAreAccounted == Spec => []TransfersAccounted
  <1>1. Init => Typed /\ Payouts
    BY TypedInit, PayoutsInit
  <1>2. (Typed /\ Payouts) /\ [Next]_vars => (Typed /\ Payouts)'
    BY TypedNext, PayoutsNext
  <1>3. Typed /\ Payouts => TransfersAccounted
    BY AccountedOK
  <1>4. QED
    BY <1>1, <1>2, <1>3, PTL DEF Spec

\* So the driver is paid once, by the completion or by one daily retry, whatever
\* else fails, if no failure falls between a transfer and the statement that records
\* it.
THEOREM DriverIsPaidOnce == Spec => [](faults.record = 0 => transfers <= 1)
  <1>1. TransfersAccounted => (faults.record = 0 => transfers <= 1)
    BY DEF TransfersAccounted
  <1>2. QED
    BY <1>1, TransfersAreAccounted, PTL

=============================================================================
