----------------------------- MODULE Subscriptions -----------------------------
(***************************************************************************)
(* A rider's monthly subscription, its day slots and its payment           *)
(* (src/src/routes/subscriptions.ts, the webhook of payments.ts), and the  *)
(* scheduled tasks that match the days and send reminders                  *)
(* (src/src/lib/cron.ts).                                                  *)
(*                                                                         *)
(* One user and one month stand for all: the rows of two never meet.  Days *)
(* are the slots (date, morning or evening); today's are the ones the      *)
(* tasks look for.  A process is a request or a run of a scheduled task,   *)
(* which an administrator may also start by hand, so that two overlap.     *)
(***************************************************************************)
EXTENDS Integers, FiniteSets

CONSTANTS
    Days,          \* slots of the recurring weekdays
    Extra,         \* slots of the month outside of them
    Procs,         \* slots for requests and tasks in flight
    OneAtATime,    \* TRUE: the subscriber has one request in flight, and the
                   \* reminders of one window are sent by one run at a time
    BatchLimit,    \* LIMIT of the batch's query
    MaxIntents,    \* bound on the payment intents created
    MaxRuns,       \* bound on the tasks run
    MaxAborts      \* bound on the statements that fail and processes that die

VARIABLES
    sub,           \* monthly_subscriptions: status, payment_status, intent
    day,           \* monthly_scheduled_days: the status of a slot, and whether it
                   \* has a pickup and a dropoff
    request,       \* rider_requests with the id `subday:<slot>`
    saved,         \* match_results saved for a slot
    issued,        \* Stripe: how many intents exist, numbered from 1
    shown,         \* intents whose client secret the subscriber was given
    charged,       \* intents Stripe has taken the money for
    heard,         \* intents whose success event the webhook has answered
    reminder,      \* one ride: its key in KV, and the reminders sent
    proc,          \* the processes
    answered,      \* a creation was answered with success
    runs,          \* how many tasks were started
    aborts         \* how many failures there were

vars == <<sub, day, request, saved, issued, shown, charged, heard, reminder, proc,
          answered, runs, aborts>>

-----------------------------------------------------------------------------

Slots == Days \union Extra
DayStatus == {"none", "scheduled", "requested", "matched", "cancelled"}
UserSteps == {"create_insert", "create_days", "skip_write", "cancel_sub",
              "cancel_days", "pay_create", "pay_write"}
BatchSteps == {"batch", "batch_request", "batch_find", "batch_save", "batch_tell",
               "batch_matched"}
RemindSteps == {"remind_put", "remind_send"}
Steps == {"idle"} \union UserSteps \union BatchSteps \union RemindSteps

\* left: the slots a loop has still to visit; placed: those read with a place;
\* slot: the one it is at; failed: an insert of Promise.all was rejected.
Proc == [at : Steps, left : SUBSET Slots, placed : SUBSET Slots, slot : Slots,
         intent : 0..MaxIntents, failed : BOOLEAN]

Idle == [at |-> "idle", left |-> {}, placed |-> {}, slot |-> CHOOSE d \in Slots : TRUE,
         intent |-> 0, failed |-> FALSE]

ASSUME SubscriptionsAssumption ==
    /\ Days # {} /\ Days \intersect Extra = {}
    /\ IsFiniteSet(Procs) /\ IsFiniteSet(Days) /\ IsFiniteSet(Extra)
    /\ OneAtATime \in BOOLEAN
    /\ BatchLimit \in Nat \ {0}
    /\ MaxIntents \in Nat /\ MaxRuns \in Nat /\ MaxAborts \in Nat

TypeOK ==
    /\ sub \in [status : {"none", "pending_payment", "active", "cancelled"},
                payment : {"unpaid", "pending", "paid"}, intent : 0..MaxIntents]
    /\ day \in [Slots -> [status : DayStatus, placed : BOOLEAN]]
    /\ request \in [Slots -> {"none", "pending", "matched"}]
    /\ saved \in [Slots -> Nat]
    /\ issued \in 0..MaxIntents
    /\ shown \subseteq 1..MaxIntents
    /\ charged \subseteq shown
    /\ heard \subseteq charged
    /\ reminder \in [marked : BOOLEAN, sent : Nat]
    /\ proc \in [Procs -> Proc]
    /\ answered \in BOOLEAN
    /\ runs \in 0..MaxRuns
    /\ aborts \in 0..MaxAborts

Init ==
    /\ sub = [status |-> "none", payment |-> "unpaid", intent |-> 0]
    /\ day = [d \in Slots |-> [status |-> "none", placed |-> FALSE]]
    /\ request = [d \in Slots |-> "none"]
    /\ saved = [d \in Slots |-> 0]
    /\ issued = 0
    /\ shown = {} /\ charged = {} /\ heard = {}
    /\ reminder = [marked |-> FALSE, sent |-> 0]
    /\ proc = [p \in Procs |-> Idle]
    /\ answered = FALSE
    /\ runs = 0
    /\ aborts = 0

-----------------------------------------------------------------------------
(* Processes                                                               *)

Alone == OneAtATime => \A p \in Procs : proc[p].at \notin UserSteps

Start(p, r) == proc[p].at = "idle" /\ proc' = [proc EXCEPT ![p] = r]
Goto(p, step) == proc' = [proc EXCEPT ![p].at = step]
Done(p) == proc' = [proc EXCEPT ![p] = Idle]

-----------------------------------------------------------------------------
(* POST /subscriptions                                                     *)

CreateRead(p) ==
    /\ Alone
    /\ sub.status = "none"
    /\ Start(p, [Idle EXCEPT !.at = "create_insert"])
    /\ UNCHANGED <<sub, day, request, saved, issued, shown, charged, heard, reminder,
                   answered, runs, aborts>>

\* UNIQUE(user_id, subscription_month): a second creation raises.
CreateInsert(p) ==
    /\ proc[p].at = "create_insert"
    /\ IF sub.status = "none"
       THEN /\ sub' = [sub EXCEPT !.status = "pending_payment"]
            /\ proc' = [proc EXCEPT ![p].at = "create_days", ![p].left = Days]
       ELSE /\ UNCHANGED sub
            /\ Done(p)
    /\ UNCHANGED <<day, request, saved, issued, shown, charged, heard, reminder,
                   answered, runs, aborts>>

\* The inserts run side by side.  One that meets a slot added in between is
\* refused (UNIQUE), any may fail; the others go on.
CreateDay(p, d) ==
    /\ proc[p].at = "create_days" /\ d \in proc[p].left
    /\ day' = IF day[d].status = "none"
              THEN [day EXCEPT ![d] = [status |-> "scheduled", placed |-> TRUE]] ELSE day
    /\ proc' = [proc EXCEPT ![p].left = @ \ {d},
                            ![p].failed = @ \/ day[d].status # "none"]
    /\ UNCHANGED <<sub, request, saved, issued, shown, charged, heard, reminder,
                   answered, runs, aborts>>

CreateDayFails(p, d) ==
    /\ proc[p].at = "create_days" /\ d \in proc[p].left
    /\ aborts < MaxAborts
    /\ aborts' = aborts + 1
    /\ proc' = [proc EXCEPT ![p].left = @ \ {d}, ![p].failed = TRUE]
    /\ UNCHANGED <<sub, day, request, saved, issued, shown, charged, heard, reminder,
                   answered, runs>>

\* Success is answered when every insert has succeeded.
CreateAnswerEarly(p) ==                    \* mutant: the inserts are not awaited
    /\ proc[p].at = "create_days"
    /\ answered' = TRUE
    /\ Done(p)
    /\ UNCHANGED <<sub, day, request, saved, issued, shown, charged, heard, reminder,
                   runs, aborts>>
CreateAnswer(p) ==
    /\ proc[p].at = "create_days" /\ proc[p].left = {}
    /\ answered' = (answered \/ ~proc[p].failed)
    /\ Done(p)
    /\ UNCHANGED <<sub, day, request, saved, issued, shown, charged, heard, reminder,
                   runs, aborts>>

-----------------------------------------------------------------------------
(* Days                                                                    *)

\* POST /:id/days/:date/:type adds a slot, or edits one whatever its status and
\* the subscription's; an edit without a place keeps the place there is.
UpsertDayResets(d, placed) ==              \* mutant: the edit schedules the slot again
    /\ sub.status # "none"
    /\ day' = [day EXCEPT ![d] = [status |-> "scheduled", placed |-> @.placed \/ placed]]
    /\ UNCHANGED <<sub, request, saved, issued, shown, charged, heard, reminder, proc,
                   answered, runs, aborts>>
UpsertDay(d, placed) ==
    /\ sub.status # "none"
    /\ day' = [day EXCEPT ![d] =
                 [status |-> IF @.status = "none" THEN "scheduled" ELSE @.status,
                  placed |-> @.placed \/ placed]]
    /\ UNCHANGED <<sub, request, saved, issued, shown, charged, heard, reminder, proc,
                   answered, runs, aborts>>

\* DELETE /:id/days/:date/:type reads the slot's status...
SkipRead(p, d) ==
    /\ Alone
    /\ day[d].status = "scheduled"
    /\ Start(p, [Idle EXCEPT !.at = "skip_write", !.slot = d])
    /\ UNCHANGED <<sub, day, request, saved, issued, shown, charged, heard, reminder,
                   answered, runs, aborts>>

\* ...and writes over whatever it is by then.
SkipWrite(p) ==
    /\ proc[p].at = "skip_write"
    /\ day' = [day EXCEPT ![proc[p].slot].status = "cancelled"]
    /\ Done(p)
    /\ UNCHANGED <<sub, request, saved, issued, shown, charged, heard, reminder,
                   answered, runs, aborts>>

\* DELETE /:id: the subscription, then the slots still scheduled.
CancelRead(p) ==
    /\ Alone
    /\ sub.status \in {"pending_payment", "active"}
    /\ Start(p, [Idle EXCEPT !.at = "cancel_sub"])
    /\ UNCHANGED <<sub, day, request, saved, issued, shown, charged, heard, reminder,
                   answered, runs, aborts>>

CancelSub(p) ==
    /\ proc[p].at = "cancel_sub"
    /\ sub' = [sub EXCEPT !.status = "cancelled"]
    /\ Goto(p, "cancel_days")
    /\ UNCHANGED <<day, request, saved, issued, shown, charged, heard, reminder,
                   answered, runs, aborts>>

CancelDays(p) ==
    /\ proc[p].at = "cancel_days"
    /\ day' = [d \in Slots |-> IF day[d].status = "scheduled"
                               THEN [day[d] EXCEPT !.status = "cancelled"] ELSE day[d]]
    /\ Done(p)
    /\ UNCHANGED <<sub, request, saved, issued, shown, charged, heard, reminder,
                   answered, runs, aborts>>

-----------------------------------------------------------------------------
(* Payment                                                                 *)

\* POST /:id/payment: only a subscription never asked to be paid; its status is
\* not looked at.
MayPay == sub.payment = "unpaid"

PayRead(p) ==
    /\ Alone
    /\ sub.status # "none"
    /\ MayPay
    /\ Start(p, [Idle EXCEPT !.at = "pay_create"])
    /\ UNCHANGED <<sub, day, request, saved, issued, shown, charged, heard, reminder,
                   answered, runs, aborts>>

PayCreate(p) ==
    /\ proc[p].at = "pay_create"
    /\ issued < MaxIntents
    /\ issued' = issued + 1
    /\ proc' = [proc EXCEPT ![p].at = "pay_write", ![p].intent = issued + 1]
    /\ UNCHANGED <<sub, day, request, saved, shown, charged, heard, reminder, answered,
                   runs, aborts>>

PayWrite(p) ==
    /\ proc[p].at = "pay_write"
    /\ sub' = [sub EXCEPT !.payment = "pending", !.intent = proc[p].intent]
    /\ shown' = shown \union {proc[p].intent}
    /\ Done(p)
    /\ UNCHANGED <<day, request, saved, issued, charged, heard, reminder, answered,
                   runs, aborts>>

\* The subscriber pays, and Stripe reports it until it is answered.
Charge(n) ==
    /\ n \in shown \ charged
    /\ charged' = charged \union {n}
    /\ UNCHANGED <<sub, day, request, saved, issued, shown, heard, reminder, proc,
                   answered, runs, aborts>>

\* What createPaymentIntent writes into the metadata when, as here, it is called
\* without a bookingId, and what the webhook asks of them.
Metadata == {"tripId", "userId", "platform"}
Required == {"tripId", "userId", "bookingId"}

\* payment_intent.succeeded: an event that lacks something required is ignored;
\* one that names a subscription settles the row with that intent.
Webhook(n) ==
    /\ n \in charged \ heard
    /\ heard' = heard \union {n}
    /\ sub' = IF Required \subseteq Metadata /\ "subscriptionId" \in Metadata /\ sub.intent = n
              THEN [sub EXCEPT !.payment = "paid", !.status = "active"] ELSE sub
    /\ UNCHANGED <<day, request, saved, issued, shown, charged, reminder, proc,
                   answered, runs, aborts>>

-----------------------------------------------------------------------------
(* batchMatchSubscriptionDays                                              *)

Scheduled == {d \in Slots : day[d].status = "scheduled"}
Placed == {d \in Slots : day[d].placed}

\* Up to BatchLimit of today's scheduled slots, read once.
BatchList(p) ==
    /\ runs < MaxRuns
    /\ runs' = runs + 1
    /\ \E listed \in SUBSET Scheduled :
          /\ listed # {}
          /\ Cardinality(listed) <= BatchLimit
          /\ listed = Scheduled \/ Cardinality(listed) = BatchLimit
          /\ Start(p, [Idle EXCEPT !.at = "batch", !.left = listed,
                                   !.placed = listed \intersect Placed])
    /\ UNCHANGED <<sub, day, request, saved, issued, shown, charged, heard, reminder,
                   answered, aborts>>

\* The next slot is marked, if it is still scheduled; the loop goes on with it
\* either way, unless it was read without a place.
BatchMark(p, d) ==
    /\ proc[p].at = "batch" /\ d \in proc[p].left
    /\ day' = IF day[d].status = "scheduled"
              THEN [day EXCEPT ![d].status = "requested"] ELSE day
    /\ proc' = [proc EXCEPT ![p].left = @ \ {d}, ![p].slot = d,
                            ![p].at = IF d \in proc[p].placed THEN "batch_request" ELSE "batch"]
    /\ UNCHANGED <<sub, request, saved, issued, shown, charged, heard, reminder,
                   answered, runs, aborts>>

BatchEnd(p) ==
    /\ proc[p].at = "batch" /\ proc[p].left = {}
    /\ Done(p)
    /\ UNCHANGED <<sub, day, request, saved, issued, shown, charged, heard, reminder,
                   answered, runs, aborts>>

\* createRiderRequest: the id is the slot's, so a second insert raises and the
\* loop goes on with the next slot.
BatchRequestAnew(p) ==                     \* mutant: an id of its own each time
    /\ proc[p].at = "batch_request"
    /\ request' = [request EXCEPT ![proc[p].slot] = "pending"]
    /\ Goto(p, "batch_find")
    /\ UNCHANGED <<sub, day, saved, issued, shown, charged, heard, reminder, answered,
                   runs, aborts>>
BatchRequest(p) == LET d == proc[p].slot IN
    /\ proc[p].at = "batch_request"
    /\ IF request[d] = "none"
       THEN /\ request' = [request EXCEPT ![d] = "pending"]
            /\ Goto(p, "batch_find")
       ELSE /\ UNCHANGED request
            /\ Goto(p, "batch")
    /\ UNCHANGED <<sub, day, saved, issued, shown, charged, heard, reminder, answered,
                   runs, aborts>>

\* A driver for the slot, or none.
BatchFind(p) ==
    /\ proc[p].at = "batch_find"
    /\ \/ Goto(p, "batch_save")
       \/ Goto(p, "batch")
    /\ UNCHANGED <<sub, day, request, saved, issued, shown, charged, heard, reminder,
                   answered, runs, aborts>>

BatchSave(p) ==
    /\ proc[p].at = "batch_save"
    /\ saved' = [saved EXCEPT ![proc[p].slot] = @ + 1]
    /\ Goto(p, "batch_tell")
    /\ UNCHANGED <<sub, day, request, issued, shown, charged, heard, reminder, answered,
                   runs, aborts>>

BatchTell(p) ==
    /\ proc[p].at = "batch_tell"
    /\ request' = [request EXCEPT ![proc[p].slot] = "matched"]
    /\ Goto(p, "batch_matched")
    /\ UNCHANGED <<sub, day, saved, issued, shown, charged, heard, reminder, answered,
                   runs, aborts>>

\* The slot is matched whatever it is by now.  Its trip_id stays null: the query
\* for the trip names a column, scheduled_time, that trips does not have, and
\* its failure is caught.
BatchMatched(p) ==
    /\ proc[p].at = "batch_matched"
    /\ day' = [day EXCEPT ![proc[p].slot].status = "matched"]
    /\ Goto(p, "batch")
    /\ UNCHANGED <<sub, request, saved, issued, shown, charged, heard, reminder,
                   answered, runs, aborts>>

-----------------------------------------------------------------------------
(* sendTripReminders, for a ride that departs in the window                *)

RemindGet(p) ==
    /\ runs < MaxRuns
    /\ runs' = runs + 1
    /\ ~reminder.marked
    /\ OneAtATime => \A q \in Procs : proc[q].at \notin RemindSteps
    /\ Start(p, [Idle EXCEPT !.at = "remind_put"])
    /\ UNCHANGED <<sub, day, request, saved, issued, shown, charged, heard, reminder,
                   answered, aborts>>

\* The key is put before anything is sent; a put that fails ends it.
RemindPutUnawaited(p) ==                   \* mutant: the put is not awaited
    /\ proc[p].at = "remind_put"
    /\ \/ UNCHANGED reminder
       \/ reminder' = [reminder EXCEPT !.marked = TRUE]
    /\ Goto(p, "remind_send")
    /\ UNCHANGED <<sub, day, request, saved, issued, shown, charged, heard, answered,
                   runs, aborts>>
RemindPut(p) ==
    /\ proc[p].at = "remind_put"
    /\ reminder' = [reminder EXCEPT !.marked = TRUE]
    /\ Goto(p, "remind_send")
    /\ UNCHANGED <<sub, day, request, saved, issued, shown, charged, heard, answered,
                   runs, aborts>>

RemindSend(p) ==
    /\ proc[p].at = "remind_send"
    /\ reminder' = [reminder EXCEPT !.sent = @ + 1]
    /\ Done(p)
    /\ UNCHANGED <<sub, day, request, saved, issued, shown, charged, heard, answered,
                   runs, aborts>>

-----------------------------------------------------------------------------
(* Failures                                                                *)

\* A request dies between its writes; a statement of the batch fails and the
\* loop goes on with the next slot; a task is cut off by the platform.
Abort(p) ==
    /\ proc[p].at \in {"create_days", "cancel_days", "pay_write"}
                             \union BatchSteps \union RemindSteps
    /\ aborts < MaxAborts
    /\ aborts' = aborts + 1
    /\ \/ Done(p)
       \/ proc[p].at \in BatchSteps \ {"batch"} /\ Goto(p, "batch")
    /\ UNCHANGED <<sub, day, request, saved, issued, shown, charged, heard, reminder,
                   answered, runs>>

-----------------------------------------------------------------------------

Subscriber(p) ==
    \/ CreateRead(p) \/ CreateInsert(p) \/ CreateAnswer(p)
    \/ CancelRead(p) \/ CancelSub(p) \/ CancelDays(p)
    \/ PayRead(p) \/ PayCreate(p) \/ PayWrite(p)
    \/ SkipWrite(p)
    \/ \E d \in Slots : CreateDay(p, d) \/ CreateDayFails(p, d) \/ SkipRead(p, d)
Batch(p) ==
    \/ BatchList(p) \/ BatchEnd(p) \/ BatchRequest(p) \/ BatchFind(p)
    \/ BatchSave(p) \/ BatchTell(p) \/ BatchMatched(p)
    \/ \E d \in Slots : BatchMark(p, d)
Remind(p) == RemindGet(p) \/ RemindPut(p) \/ RemindSend(p)

Next ==
    \/ \E p \in Procs : Subscriber(p) \/ Batch(p) \/ Remind(p) \/ Abort(p)
    \/ \E d \in Slots, placed \in BOOLEAN : UpsertDay(d, placed)
    \/ \E n \in 1..MaxIntents : Charge(n) \/ Webhook(n)

Spec == Init /\ [][Next]_vars

-----------------------------------------------------------------------------
(* Properties                                                              *)

\* A slot is put to drivers once, however many runs of the batch overlap, fail
\* or are started by hand: the rider request's id is the slot's (cron.ts:115).
\* One that says "matched" has a request that says so and a match to show.
MatchedOnce ==
    \A d \in Slots :
        /\ saved[d] <= 1
        /\ day[d].status = "matched" => request[d] = "matched" /\ saved[d] = 1

\* A creation that was answered with success has a row for every slot it
\* counted in its estimate, though any insert may fail (subscriptions.ts:194-248).
AnsweredIsComplete == answered => \A d \in Days : day[d].status # "none"

\* A subscriber who sends one request at a time is given one intent to pay, and
\* Stripe knows of another only for each request that died (subscriptions.ts:611-640).
AskedToPayOnce ==
    /\ issued <= 1 + aborts
    /\ Cardinality(shown) <= 1

\* A slot that was put to drivers, matched or skipped is never scheduled again:
\* not by an edit, not by a creation in flight (subscriptions.ts:442-470).
NeverRescheduled ==
    [][\A d \in Slots :
         day[d].status \in {"requested", "matched", "cancelled"} =>
            day'[d].status # "scheduled"]_vars

\* A ride is reminded at most once, also when a run dies between two of its
\* steps: the key is put before anything is sent (cron.ts:217-240).
RemindedOnce == reminder.sent <= 1

\* "Handle monthly subscription payment" (payments.ts:664): a success event for
\* the subscription's intent was answered, so the subscription is paid.
HeardIsPaid == sub.intent \in heard => sub.payment = "paid"

=============================================================================
