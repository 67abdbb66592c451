--------------------------- MODULE BookingPayment ---------------------------
(***************************************************************************)
(* The money of one booking: its payment columns in trip_participants, its *)
(* payment intents at Stripe, the webhook events Stripe delivers, the      *)
(* refunds of a cancellation and the driver's payout.                      *)
(*                                                                         *)
(* Code: src/src/routes/payments.ts (intent, webhook, admin refund), the   *)
(* refund statements of DELETE /:tripId/book and POST /:tripId/cancel and  *)
(* the payout statements of POST /:tripId/complete in routes/trips.ts, and *)
(* retryFailedPayouts in lib/cron.ts.  Stripe itself is external.          *)
(*                                                                         *)
(* Money is counted in halves of one seat's price, so that every refund    *)
(* tier (all, half, nothing) is a whole number.  The replay of a stored    *)
(* response to a repeated Idempotency-Key changes nothing and is left out: *)
(* a repeated POST /intent is one whose key the cache has forgotten.       *)
(***************************************************************************)
EXTENDS Integers, FiniteSets

CONSTANTS
    Requests,    \* slots for handler invocations in flight
    Cron,        \* the slot of the daily task, which never overlaps itself
    Intents,     \* payment intents Stripe may ever create for this booking
    NoIntent,    \* payment_intent_id IS NULL
    MaxParty,    \* largest passenger_count
    FirstTier,   \* refund tier at the start: 2 all, 1 half, 0 nothing
    AdminRefunds,\* TRUE: an admin may refund through POST /:intentId/refund
    Onboards,    \* TRUE: the driver may still be setting up his payout account
    FaultAt,     \* the steps at which a statement or a call may fail
    MaxFaults    \* bound on the number of failures

VARIABLES
    trip_status, \* trips.status
    booking,     \* the row of trip_participants
    tier,        \* the refund tier the departure time gives now
    stripe,      \* what Stripe knows of each intent
    handed,      \* intents whose client secret the rider holds
    events,      \* events Stripe has emitted and may deliver, any number of times
    processed,   \* processed_webhook_events, and its copy in KV
    transfers,   \* transfers to the driver for this booking
    connect,     \* the driver's Stripe Connect columns in users
    request,     \* the requests in flight
    faults       \* how many failures there were, of a payout's record and others

vars == <<trip_status, booking, tier, stripe, handed, events, processed, transfers,
          connect, request, faults>>

-----------------------------------------------------------------------------
Slots == Requests \union {Cron}
Price == 2

IntentSteps == {"intent_retrieve", "intent_create", "intent_store", "intent_existing"}
WebhookSteps == {"webhook_read", "webhook_update", "webhook_mark"}
CancelSteps == {"cancel_refund", "cancel_update"}
TripSteps == {"trip_snapshot", "trip_riders", "trip_refund", "trip_refunded"}
PayoutSteps == {"complete_riders", "complete_read", "complete_transfer", "complete_mark",
                "complete_failed", "retry_transfer", "retry_mark"}
RecordSteps == {"complete_mark", "retry_mark"}  \* the transfer is made, its record is not
ConnectSteps == {"connect_store", "connect_status"}
Steps == {"idle"} \union IntentSteps \union WebhookSteps \union CancelSteps
           \union TripSteps \union PayoutSteps \union ConnectSteps

EventKinds == {"succeeded", "failed", "canceled"}
Event == [intent : Intents, kind : EventKinds]

Booking == [status  : {"accepted", "cancelled", "completed"},
            payment : {"unpaid", "pending", "paid", "failed", "canceled", "refunded"},
            payout  : {"pending", "transferred", "failed"},
            intent  : Intents \union {NoIntent},
            passengers : 1..MaxParty]

\* intent and amount are the request's local variables; paid says that the
\* payment_status it read was 'paid'; kind is that of the event it handles.
Request == [at     : Steps,
            intent : Intents \union {NoIntent},
            paid   : BOOLEAN,
            amount : 0..(2 * MaxParty),
            kind   : EventKinds \union {"none"}]

Idle == [at |-> "idle", intent |-> NoIntent, paid |-> FALSE, amount |-> 0, kind |-> "none"]

ASSUME PaymentAssumption ==
    /\ Cron \notin Requests
    /\ NoIntent \notin Intents
    /\ MaxParty \in Nat \ {0}
    /\ FirstTier \in 0..2
    /\ AdminRefunds \in BOOLEAN
    /\ Onboards \in BOOLEAN
    /\ FaultAt \subseteq Steps \ {"idle"}
    /\ MaxFaults \in Nat

TypeOK ==
    /\ trip_status \in {"scheduled", "cancelled", "completed"}
    /\ booking \in Booking
    /\ tier \in 0..2
    /\ stripe \in [Intents -> [state : {"absent", "open", "succeeded", "canceled"},
                               refunded : 0..Price]]
    /\ handed \subseteq Intents
    /\ events \subseteq Event
    /\ processed \subseteq events
    /\ transfers \in Nat
    /\ connect \in {"none", "disabled", "enabled"}
    /\ request \in [Slots -> Request]
    /\ faults \in [record : 0..MaxFaults, other : 0..MaxFaults]

\* An accepted booking nobody has tried to pay for yet.
Init ==
    /\ trip_status = "scheduled"
    /\ booking \in [status : {"accepted"}, payment : {"unpaid"}, payout : {"pending"},
                    intent : {NoIntent}, passengers : 1..MaxParty]
    /\ tier = FirstTier
    /\ stripe = [i \in Intents |-> [state |-> "absent", refunded |-> 0]]
    /\ handed = {}
    /\ events = {}
    /\ processed = {}
    /\ transfers = 0
    /\ connect = IF Onboards THEN "none" ELSE "enabled"
    /\ request = [q \in Slots |-> Idle]
    /\ faults = [record |-> 0, other |-> 0]

-----------------------------------------------------------------------------
At(q, step) == request[q].at = step
Starts(q, r) == request[q] = Idle /\ request' = [request EXCEPT ![q] = r]
Goes(q, step) == request' = [request EXCEPT ![q].at = step]
Answers(q) == request' = [request EXCEPT ![q] = Idle]

Fault(step) ==
    /\ step \in FaultAt
    /\ faults.record + faults.other < MaxFaults
    /\ faults' = IF step \in RecordSteps THEN [faults EXCEPT !.record = @ + 1]
                 ELSE [faults EXCEPT !.other = @ + 1]

\* The step of q fails.
Fails(q) == Fault(request[q].at)

\* What stays as it is in the actions of each kind.
RowOnly == UNCHANGED <<trip_status, tier, stripe, handed, events, processed, transfers, connect>>
StripeOnly == UNCHANGED <<trip_status, booking, tier, handed, events, processed, connect>>
ReadOnly == UNCHANGED <<trip_status, booking, tier, stripe, handed, events, processed, transfers, connect>>

-----------------------------------------------------------------------------
(* POST /intent                                                            *)

IntentRead(q) ==
    /\ booking.status = "accepted"
    /\ IF booking.intent # NoIntent /\ booking.payment = "pending"
       THEN Starts(q, [Idle EXCEPT !.at = "intent_retrieve", !.intent = booking.intent])
       ELSE Starts(q, [Idle EXCEPT !.at = "intent_create"])
    /\ ReadOnly /\ UNCHANGED faults

\* The pending intent is handed out again, or Stripe does not answer and a new
\* one is made.
IntentRetrieve(q) ==
    /\ At(q, "intent_retrieve")
    /\ \/ /\ handed' = handed \union {request[q].intent}
          /\ Answers(q)
          /\ UNCHANGED faults
       \/ /\ Fails(q)
          /\ Goes(q, "intent_create")
          /\ UNCHANGED handed
    /\ UNCHANGED <<trip_status, booking, tier, stripe, events, processed, transfers, connect>>

\* Stripe is asked without an idempotency key of its own: each call makes an intent.
IntentCreate(q) ==
    /\ At(q, "intent_create")
    /\ \E i \in Intents :
         /\ stripe[i].state = "absent"
         /\ stripe' = [stripe EXCEPT ![i].state = "open"]
         /\ request' = [request EXCEPT ![q].at = "intent_store", ![q].intent = i]
    /\ StripeOnly /\ UNCHANGED <<transfers, faults>>

\* Only a row whose payment is not under way takes the new intent, even if paid.
IntentStore(q) ==
    /\ At(q, "intent_store")
    /\ IF booking.intent = NoIntent \/ booking.payment # "pending"
       THEN /\ booking' = [booking EXCEPT !.intent = request[q].intent, !.payment = "pending"]
            /\ handed' = handed \union {request[q].intent}
            /\ Answers(q)
       ELSE /\ Goes(q, "intent_existing")
            /\ UNCHANGED <<booking, handed>>
    /\ UNCHANGED <<trip_status, tier, stripe, events, processed, transfers, connect, faults>>

\* The loser hands out the intent that won; its own stays open at Stripe.
IntentExisting(q) ==
    /\ At(q, "intent_existing")
    /\ handed' = handed \union {booking.intent}
    /\ Answers(q)
    /\ UNCHANGED <<trip_status, booking, tier, stripe, events, processed, transfers, connect, faults>>

-----------------------------------------------------------------------------
(* Stripe (external)                                                       *)

Emits(i, kind) == events' = events \union {[intent |-> i, kind |-> kind]}

RiderPays(i) ==
    /\ i \in handed /\ stripe[i].state = "open"
    /\ stripe' = [stripe EXCEPT ![i].state = "succeeded"]
    /\ Emits(i, "succeeded")
    /\ UNCHANGED <<trip_status, booking, tier, handed, processed, transfers, connect, request, faults>>

\* A declined card leaves the intent open for another try.
PaymentFails(i) ==
    /\ i \in handed /\ stripe[i].state = "open"
    /\ Emits(i, "failed")
    /\ UNCHANGED <<trip_status, booking, tier, stripe, handed, processed, transfers, connect, request, faults>>

IntentExpires(i) ==
    /\ stripe[i].state = "open"
    /\ stripe' = [stripe EXCEPT ![i].state = "canceled"]
    /\ Emits(i, "canceled")
    /\ UNCHANGED <<trip_status, booking, tier, handed, processed, transfers, connect, request, faults>>

\* Stripe gives back no more than what was paid.
Refundable(i, n) == stripe[i].state = "succeeded" /\ stripe[i].refunded + n <= Price

-----------------------------------------------------------------------------
(* POST /webhook                                                           *)

\* A lookup that fails finds an event new that was handled before.
FoundNew(e) ==
    \/ e \notin processed /\ UNCHANGED faults
    \/ e \in processed /\ Fault("webhook_read")

\* Two deliveries of one event can both find it unprocessed.
WebhookArrives(q, e) ==
    /\ FoundNew(e)
    /\ Starts(q, [Idle EXCEPT !.at = "webhook_read", !.intent = e.intent, !.kind = e.kind])
    /\ ReadOnly

WebhookRead(q) ==
    /\ At(q, "webhook_read")
    /\ Goes(q, IF booking.intent = request[q].intent THEN "webhook_update" ELSE "webhook_mark")
    /\ ReadOnly /\ UNCHANGED faults

\* The guard of each UPDATE on payment_status, and what it writes: a success
\* overrides an earlier failure, a failure or cancellation nothing but "pending".
MarkPaid(row) ==
    IF row.payment \in {"pending", "failed", "canceled"}
    THEN [row EXCEPT !.payment = "paid"] ELSE row
MarkFailedAlways(row) == [row EXCEPT !.payment = "failed"]   \* mutant: no status guard
MarkFailed(row) ==
    IF row.payment = "pending" THEN [row EXCEPT !.payment = "failed"] ELSE row
MarkCanceled(row) ==
    IF row.payment = "pending" THEN [row EXCEPT !.payment = "canceled"] ELSE row

Marked(row, kind) ==
    CASE kind = "succeeded" -> MarkPaid(row)
      [] kind = "failed"    -> MarkFailed(row)
      [] kind = "canceled"  -> MarkCanceled(row)

\* Mutant: the UPDATE does not compare the stored intent again.
WebhookUpdateById(q) ==
    /\ At(q, "webhook_update")
    /\ booking' = Marked(booking, request[q].kind)
    /\ Goes(q, "webhook_mark")
    /\ RowOnly /\ UNCHANGED faults

WebhookUpdate(q) ==
    /\ At(q, "webhook_update")
    /\ booking' = IF booking.intent = request[q].intent
                  THEN Marked(booking, request[q].kind) ELSE booking
    /\ Goes(q, "webhook_mark")
    /\ RowOnly /\ UNCHANGED faults

\* Only an event that was handled to the end is recorded; until then Stripe
\* delivers it again.
WebhookMark(q) ==
    /\ At(q, "webhook_mark")
    /\ processed' = processed \union {[intent |-> request[q].intent, kind |-> request[q].kind]}
    /\ Answers(q)
    /\ UNCHANGED <<trip_status, booking, tier, stripe, handed, events, transfers, connect, faults>>

-----------------------------------------------------------------------------
(* DELETE /:tripId/book                                                    *)

\* The amount is that of the whole party, although an intent charges one seat.
RefundFor(n, party) == n * party

RiderCancelRead(q) ==
    LET paid == booking.payment = "paid"
        amount == IF paid THEN RefundFor(tier, booking.passengers) ELSE 0
    IN
    /\ booking.status = "accepted"
    /\ trip_status # "completed"
    /\ Starts(q, [Idle EXCEPT
         !.at = IF paid /\ booking.intent # NoIntent /\ amount > 0
                THEN "cancel_refund" ELSE "cancel_update",
         !.intent = booking.intent, !.paid = paid, !.amount = amount])
    /\ ReadOnly /\ UNCHANGED faults

\* A refused refund ends the request before anything is written.
RiderCancelRefund(q) ==
    LET i == request[q].intent IN
    /\ At(q, "cancel_refund")
    /\ IF Refundable(i, request[q].amount)
       THEN /\ stripe' = [stripe EXCEPT ![i].refunded = @ + request[q].amount]
            /\ Goes(q, "cancel_update")
       ELSE /\ Answers(q)
            /\ UNCHANGED stripe
    /\ StripeOnly /\ UNCHANGED <<transfers, faults>>

\* Mutant: a paid booking is refunded, even if the tier gave nothing back.
RiderCancelUpdateUntiered(q) ==
    /\ At(q, "cancel_update")
    /\ booking' = IF booking.status = "accepted"
                  THEN [booking EXCEPT !.status = "cancelled",
                                       !.payment = IF request[q].paid THEN "refunded" ELSE @]
                  ELSE booking
    /\ Answers(q)
    /\ RowOnly /\ UNCHANGED faults

\* The payment_status written follows from the one read before the refund.
RiderCancelUpdate(q) ==
    LET payment == IF request[q].paid
                   THEN IF request[q].amount > 0 THEN "refunded" ELSE "canceled"
                   ELSE booking.payment
    IN
    /\ At(q, "cancel_update")
    /\ booking' = IF booking.status = "accepted"
                  THEN [booking EXCEPT !.status = "cancelled", !.payment = payment]
                  ELSE booking
    /\ Answers(q)
    /\ RowOnly /\ UNCHANGED faults

\* promoteNextWaitlistedRider brings a cancelled booking back: the upsert leaves
\* the payment columns as they are, and does not look at the trip again.
Rebook(n) ==
    /\ booking.status = "cancelled"
    /\ booking' = [booking EXCEPT !.status = "accepted", !.passengers = n]
    /\ RowOnly /\ UNCHANGED <<request, faults>>

-----------------------------------------------------------------------------
(* POST /:tripId/cancel                                                    *)

TripCancel(q) ==
    /\ trip_status = "scheduled"
    /\ trip_status' = "cancelled"
    /\ Starts(q, [Idle EXCEPT !.at = "trip_snapshot"])
    /\ UNCHANGED <<booking, tier, stripe, handed, events, processed, transfers, connect, faults>>

\* The accepted riders, before their rows change; a failed query counts as none.
TripSnapshot(q) ==
    LET found == booking.status = "accepted" IN
    /\ At(q, "trip_snapshot")
    /\ \/ /\ request' = [request EXCEPT ![q].at = "trip_riders",
                                        ![q].paid = found /\ booking.payment = "paid",
                                        ![q].intent = IF found THEN booking.intent ELSE NoIntent]
          /\ UNCHANGED faults
       \/ Fails(q) /\ Goes(q, "trip_riders")
    /\ ReadOnly

TripCancelRiders(q) ==
    /\ At(q, "trip_riders")
    /\ booking' = IF booking.status = "accepted"
                  THEN [booking EXCEPT !.status = "cancelled"] ELSE booking
    /\ IF request[q].paid /\ request[q].intent # NoIntent
       THEN Goes(q, "trip_refund") ELSE Answers(q)
    /\ RowOnly /\ UNCHANGED faults

\* A refund without an amount gives back all that is left, and fails if nothing is.
TripRefund(q) ==
    LET i == request[q].intent IN
    /\ At(q, "trip_refund")
    /\ IF Refundable(i, 1)
       THEN /\ stripe' = [stripe EXCEPT ![i].refunded = Price]
            /\ Goes(q, "trip_refunded")
       ELSE /\ Answers(q)
            /\ UNCHANGED stripe
    /\ StripeOnly /\ UNCHANGED <<transfers, faults>>

TripRefunded(q) ==
    /\ At(q, "trip_refunded")
    /\ booking' = [booking EXCEPT !.payment = "refunded"]
    /\ Answers(q)
    /\ RowOnly /\ UNCHANGED faults

\* POST /payments/:intentId/refund changes Stripe and nothing else.
AdminRefund(i, n) ==
    /\ AdminRefunds
    /\ Refundable(i, n)
    /\ stripe' = [stripe EXCEPT ![i].refunded = @ + n]
    /\ StripeOnly /\ UNCHANGED <<transfers, request, faults>>

-----------------------------------------------------------------------------
(* POST /:tripId/complete                                                  *)

TripComplete(q) ==
    /\ trip_status = "scheduled"
    /\ trip_status' = "completed"
    /\ Starts(q, [Idle EXCEPT !.at = "complete_riders"])
    /\ UNCHANGED <<booking, tier, stripe, handed, events, processed, transfers, connect, faults>>

CompleteRiders(q) ==
    /\ At(q, "complete_riders")
    /\ booking' = IF booking.status = "accepted"
                  THEN [booking EXCEPT !.status = "completed"] ELSE booking
    /\ Goes(q, "complete_read")
    /\ RowOnly /\ UNCHANGED faults

\* A rider who has not paid by now, and a driver who cannot be paid yet, are
\* passed over and not looked at again.
CompleteRead(q) ==
    /\ At(q, "complete_read")
    /\ IF /\ connect = "enabled"
          /\ booking.status = "completed" /\ booking.payment = "paid"
          /\ booking.payout # "transferred"
       THEN Goes(q, "complete_transfer") ELSE Answers(q)
    /\ ReadOnly /\ UNCHANGED faults

CompleteTransfer(q) ==
    /\ At(q, "complete_transfer")
    /\ \/ /\ transfers' = transfers + 1
          /\ Goes(q, "complete_mark")
          /\ UNCHANGED faults
       \/ /\ Fails(q)
          /\ Goes(q, "complete_failed")
          /\ UNCHANGED transfers
    /\ StripeOnly /\ UNCHANGED stripe

\* One catch covers the transfer and its record.
CompleteMark(q) ==
    /\ At(q, "complete_mark")
    /\ \/ /\ booking' = [booking EXCEPT !.payout = "transferred"]
          /\ Answers(q)
          /\ UNCHANGED faults
       \/ /\ Fails(q)
          /\ Goes(q, "complete_failed")
          /\ UNCHANGED booking
    /\ RowOnly

CompleteFailed(q) ==
    /\ At(q, "complete_failed")
    /\ booking' = [booking EXCEPT !.payout = "failed"]
    /\ Answers(q)
    /\ RowOnly /\ UNCHANGED faults

-----------------------------------------------------------------------------
(* retryFailedPayouts                                                      *)

OwedTwice == {"failed", "transferred"}   \* mutants: a filter too wide, a filter on
OwedNever == {"not_applicable"}          \* the wrong status
\* The payouts the query selects.
Owed == {"failed"}

PayoutRetryRead ==
    /\ connect = "enabled"
    /\ booking.payout \in Owed
    /\ booking.payment = "paid"
    /\ booking.status = "completed"
    /\ Starts(Cron, [Idle EXCEPT !.at = "retry_transfer"])
    /\ ReadOnly /\ UNCHANGED faults

PayoutRetryTransfer ==
    /\ At(Cron, "retry_transfer")
    /\ \/ /\ transfers' = transfers + 1
          /\ Goes(Cron, "retry_mark")
          /\ UNCHANGED faults
       \/ /\ Fails(Cron)
          /\ Answers(Cron)
          /\ UNCHANGED transfers
    /\ StripeOnly /\ UNCHANGED stripe

PayoutRetryMark ==
    /\ At(Cron, "retry_mark")
    /\ booking' = [booking EXCEPT !.payout = "transferred"]
    /\ Answers(Cron)
    /\ RowOnly /\ UNCHANGED faults

-----------------------------------------------------------------------------
(* POST /connect/onboard, GET /connect/status                              *)

\* An account is made at Stripe when the row names none, and its id stored; of
\* two onboardings in flight the later one's account stays.
ConnectOnboard(q) ==
    /\ Onboards /\ connect = "none"
    /\ Starts(q, [Idle EXCEPT !.at = "connect_store"])
    /\ ReadOnly /\ UNCHANGED faults

ConnectStore(q) ==
    /\ At(q, "connect_store")
    /\ connect' = "disabled"
    /\ Answers(q)
    /\ UNCHANGED <<trip_status, booking, tier, stripe, handed, events, processed, transfers, faults>>

ConnectStatus(q) ==
    /\ Onboards /\ connect # "none"
    /\ Starts(q, [Idle EXCEPT !.at = "connect_status"])
    /\ ReadOnly /\ UNCHANGED faults

\* Stripe enables an account when it likes, and may disable it again.
ConnectStatusStore(q) ==
    /\ At(q, "connect_status")
    /\ connect' \in {"disabled", "enabled"}
    /\ Answers(q)
    /\ UNCHANGED <<trip_status, booking, tier, stripe, handed, events, processed, transfers, faults>>

-----------------------------------------------------------------------------
\* A statement or a call rejects where nothing catches it, or the isolate dies.
Abort(q) ==
    /\ Fails(q)
    /\ Answers(q)
    /\ ReadOnly

\* Departure draws nearer.
TierDrops ==
    /\ tier > 0
    /\ tier' = tier - 1
    /\ UNCHANGED <<trip_status, booking, stripe, handed, events, processed, transfers, connect, request, faults>>

Arrive(q) ==
    \/ IntentRead(q)
    \/ \E e \in events : WebhookArrives(q, e)
    \/ RiderCancelRead(q)
    \/ TripCancel(q)
    \/ TripComplete(q)
    \/ ConnectOnboard(q) \/ ConnectStatus(q)

Proceed(q) ==
    \/ IntentRetrieve(q) \/ IntentCreate(q) \/ IntentStore(q) \/ IntentExisting(q)
    \/ WebhookRead(q) \/ WebhookUpdate(q) \/ WebhookMark(q)
    \/ RiderCancelRefund(q) \/ RiderCancelUpdate(q)
    \/ TripSnapshot(q) \/ TripCancelRiders(q) \/ TripRefund(q) \/ TripRefunded(q)
    \/ CompleteRiders(q) \/ CompleteRead(q) \/ CompleteTransfer(q)
    \/ CompleteMark(q) \/ CompleteFailed(q)
    \/ ConnectStore(q) \/ ConnectStatusStore(q)

RetryPayouts == PayoutRetryRead \/ PayoutRetryTransfer \/ PayoutRetryMark

Outside ==
    \/ \E i \in Intents : RiderPays(i) \/ PaymentFails(i) \/ IntentExpires(i)
    \/ \E i \in Intents, n \in 1..Price : AdminRefund(i, n)
    \/ \E n \in 1..MaxParty : Rebook(n)
    \/ TierDrops

Next ==
    \/ \E q \in Requests : Arrive(q) \/ Proceed(q)
    \/ \E q \in Slots : Abort(q)
    \/ RetryPayouts
    \/ Outside

Spec == Init /\ [][Next]_vars

\* The daily task runs every day and is not starved by requests; a request in
\* flight is carried on.  Failures are bounded by MaxFaults.
Fairness ==
    /\ WF_vars(RetryPayouts)
    /\ \A q \in Requests : WF_vars(Proceed(q))

FairSpec == Spec /\ Fairness

-----------------------------------------------------------------------------
(* Properties                                                              *)

Charged == {i \in Intents : stripe[i].state = "succeeded"}

\* A booking counts as paid only through the intent it now names, however events
\* of replaced intents are delayed, duplicated and reordered (payments.ts:598).
PaidIsCharged ==
    booking.payment = "paid" => booking.intent \in Charged

\* No late failure or cancellation event takes "paid" away from a booking: it is
\* lost only to a new intent, a refund or the rider's own cancellation.
PaidIsNotDowngraded ==
    [][(booking.payment = "paid" /\ booking'.payment # "paid") =>
         \/ booking'.intent # booking.intent
         \/ booking'.payment = "refunded"
         \/ booking.status = "accepted" /\ booking'.status = "cancelled"]_vars

\* A rider who is told "refunded" has got money back, in spite of the tier, the
\* payment status and the intent being read long before they are written.
RefundedGotMoneyBack ==
    booking.payment = "refunded" => \E i \in Intents : stripe[i].refunded > 0

\* Every transfer the driver got is on the row, is about to be put there, or is one
\* whose record failed (cron.ts:322): overlapping requests, retries and other failures
\* pay him at most once.
TransfersAccounted ==
    transfers = faults.record
                  + (IF \/ booking.payout = "transferred"
                        \/ \E q \in Slots : request[q].at \in RecordSteps
                     THEN 1 ELSE 0)

\* A payout that failed is tried again until the driver has it, or can no longer
\* be paid.
FailedPayoutIsRetried ==
    (booking.payout = "failed" /\ booking.payment = "paid" /\ booking.status = "completed")
        ~> (\/ booking.payout = "transferred"
            \/ booking.payment # "paid"
            \/ connect # "enabled")

=============================================================================
