# Klubz: a verification project

Klubz is a ride-sharing backend: Hono routes on Cloudflare Workers over a D1
(SQLite) database, two KV namespaces and Stripe, with a single-page web client.
This directory holds TLA+ models of its core, TLC configurations that check them
on small instances, and proofs for TLAPS. Line references are to `src/src/...`
(mostly `routes/`) unless they name another directory of the repository.

The routes use no transaction and no `db.batch`: one D1 statement, one KV call,
one call to Stripe is atomic and nothing larger is. Every `await` between two of
them is a point where any other request, a scheduled task or a webhook may run,
and where the isolate may die. All models are built on that: a handler is a
request in a slot, whose `at` names the statement it executes next and whose
other fields are the local variables it read earlier and still uses. One action
is one statement with the branch the code takes on its result. A request that
finds nothing to do at its first read is answered at once and is no step.

## Inventory

| Component | State | Operations | What is hard | Correct means |
|---|---|---|---|---|
| Trips, bookings, waitlist (`trips.ts`) | `trips`, `trip_participants`, `trip_waitlist` | offer, book, accept, reject, rider cancel, driver cancel, complete, join and leave the waitlist, promotion of the next waiting rider | one seat counter changed by statements of many handlers; guards read long before the write; compensation of a failed accept; crashes inside a promotion | seats fit the car; a settled trip stays settled; nobody is promoted, revived or completed by a stale statement |
| Payments (`payments.ts`, `integrations/stripe.ts`, parts of `trips.ts`, `lib/cron.ts`) | payment, intent and payout columns of `trip_participants`, `processed_webhook_events`, the driver's Connect account, Stripe | create an intent, webhook, refund by rider, driver or admin, payout, daily payout retry, onboarding | late, repeated, reordered events; a refund before the row is guarded; replaced intents; half-done transfers | what a row says agrees with Stripe; refunds and payouts happen once |
| Matching (`matching.ts`, `lib/matching/`) | `driver_trips`, `rider_requests`, `match_results`, pools | find, find-pool, confirm, reject, batch, update and cancel | a counter next to matches that searches replace; compensation of a failed confirmation; statuses written by id alone; two statements of one filter | a confirmed rider has a seat; a matched request has a match; nothing that matches is filtered away |
| Sessions and accounts (`auth.ts`, `middleware/auth.ts`) | `sessions`, the account's row in `users`, one-time tokens in KV | register, verify, login, MFA, Google and Apple, refresh, logout, reset, deletion, deactivation, clean-up | rotation against logout and reset, sign-ins in flight over a deletion, one-time tokens deleted before or after their use | a revoked session stays revoked; a token is used once; a deleted account is closed |
| Web client (`public/static/js/app.js`) | stored tokens and user, screen, timers, event stream, calls in flight | sign in, out, return from OAuth, API call with refresh and retry, navigation, reload | callbacks that outlive their screen, refreshes in flight, lost answers | an operation runs once; nothing of one user is left to the next; a good session is kept |
| Points, referrals, promo codes (`lib/points.ts`, `loyalty.ts`, `promo.ts`) | `points_ledger`, `referral_codes`, `promo_codes`, `promo_redemptions` | award, redeem, book with a code | check-then-insert without a constraint; a use counter compared long before it grows | an award is made once; a discount has a booking |
| Idempotency keys (`trips.ts:273`, `payments.ts:96`) | KV, `idempotency_records` | look up and record | the key is recorded before the operation it stands for; two stores of which one may fail | a key is good for one operation |
| Monthly subscriptions (`subscriptions.ts`) | `monthly_subscriptions`, `monthly_scheduled_days` | create, change and skip days, cancel, pay | parallel inserts that fail one by one, edits against the daily task, a payment over three parties | a slot is placed once; an answered creation is complete; who paid is marked as paid |
| Scheduled tasks (`lib/cron.ts`) | keys in KV, rows of the others | subscription matching, reminders, payout retry, clean-up | overlap with requests and with runs started by hand, partial failure | work is done once, and done |
| Users and preferences (`users.ts`, `lib/cache.ts`) | `users`, `user_preferences`, a cached profile in KV | read and update the profile, preferences, terms, delete the account | a cache filled by a read that was overtaken, a deletion in four statements | a user sees his own updates |
| Administration (`admin.ts`) | role, standing, name of accounts; promo codes | update a user, resolve disputes, switch codes off | claims of an old token, a check before the write | a plain admin leaves super admins alone |
| Organizations, documents, disputes, messages, safety | rows of their own, upload tokens in KV, `users.documents_verified` | create and join; upload and review; open and resolve; send and mark; contacts and SOS | second statements that may fail, flags computed from rows others are writing | founders see their organization; the last approval verifies the driver; one open dispute |
| Rate limiter, notifications, push, events, monitoring, middleware, geocoding, encryption, admin pages | counters, queues, none | | | not modelled (see the end) |

How they interact: `trips.ts` owns the roster, `payments.ts` and the webhook
write the payment columns of the same rows, `cron.ts` reads what completions
left behind and retries, promo codes and subscriptions are looked up while a
booking is made, and points are awarded after completions and payments. The
daily task turns subscription slots into rider requests of the matching service,
whose seat counters (`driver_trips`) are unrelated to `trips`. Every route trusts
the claims of the access token, so a change of role, a deactivation or a deletion
reaches it only when the hour of the token is over. Notifications and events are
sent after the state has changed; no handler decides anything from them.

## Modules

| Module | What it is |
|---|---|
| `SeatPool` | what a seat counter promises: a pool from which seats are reserved, to which they return, in which they may be lost but never made up |
| `TripBooking`, `TripBookingSeats` | trips, roster and waitlist; the refinement mapping to `SeatPool` |
| `BookingPayment` | the money of one booking: intents, events, refunds, payout, the driver's payout account |
| `Matching` | driver trips, rider requests and matches, statement by statement |
| `PoolOptimizer` | the pure part of the engine: filters, route check, greedy pool, order of the stops |
| `Sessions` | one account, its session rows and one-time links |
| `WebClient` | one tab of the client with the server's sessions |
| `Ledger` | referral awards, promo redemptions, trips offered under a key |
| `Subscriptions` | a month's subscription, its slots, its payment, the tasks that read it |
| `Accounts` | users, administrators and the desks around them |
| `MC*` | symmetry sets and the constants the cfg files need as definitions |
| `*Proofs` | the theorems about the module of that name |

`Matching` and `PoolOptimizer` share no variables: `Matching` lets a search find
any of the trips the SQL lets through, which covers every choice
`PoolOptimizer` could make. `WebClient` contains the server's half of a refresh
and a logout, translated again from `auth.ts` at the grain the client can
observe; `Sessions` has the full handlers.

### TripBooking

`trip_status`, `available_seats`, `participant` and `waitlist` are the columns
of one trip (`participant` and `waitlist` hold one row per rider, as the UNIQUE
constraints of `migrations/` say; the status `"none"` stands for the absent row).

| Handler | Actions |
|---|---|
| `POST /:tripId/book` (673) | `BookCheck` (707), `BookInsert` (785) |
| accept (1351) | `AcceptBooking` (1381), `AcceptSeats` (1399), `AcceptUndo` (1419) |
| reject (1526) | `RejectBooking`, then the promotion |
| `DELETE /:tripId/book` (903) | `RiderCancelRead`, `RiderCancelBooking` (957), `RiderCancelRelease` (983), then the promotion |
| promotion (372) | `PromoteRead`, `PromotePick`, `PromoteTake` (400), `PromoteBook` (409), `PromoteMark` (424) |
| waitlist join (1048), leave (1132) | `WaitlistJoinRead`, `WaitlistJoinCheck`, `WaitlistJoinInsert`; `WaitlistLeave` |
| cancel (1656), complete (1874) | `TripCancelRead`, `TripCancel` (1705), `TripCancelRiders`; `TripCompleteRead`, `TripComplete`, `TripCompleteRiders` |

A crash is `Abort`, at the statements listed in `AbortAt`. `OneRequestPerRider`
says that a booking has at most one request about it at a time; `SeatFloor` is
the least value the column `available_seats` may hold. The first migration says
`CHECK (available_seats > 0)`, that is 1, while the accept and promotion code
treats 0 as an ordinary value: the passing run uses 0, which is what the code
intends, and `TripBookingLastSeat` uses 1.

What the model shows the code to do, beside the properties:

* `BookInsert` may come after the driver's cancellation (785 reads nothing): a
  booking stays requested on a cancelled trip. `TripSettledOnce` bounds this: the
  roster of a closed trip gains a rider only by a booking or a promotion that was
  past its check when the trip closed, and each of them is good for one rider.
* Of two cancellations of one booking in flight the second changes no row but
  releases the seats once more (983 ignores the number of changed rows), and each
  asks Stripe for its half refund before the guarded update (954). The statements
  about seats therefore assume `OneRequestPerRider`.
* A crash between the two updates of an accept leaves an accepted booking
  without a seat taken, so `AcceptSteps` are left out of `AbortAt` there.

### BookingPayment

One row of the roster with its payment columns (`booking`), the trip's status,
the refund `tier` the departure time gives now, the driver's `connect` account,
and Stripe: the state and the refunded amount of each intent, which intents'
client secrets the rider holds (`handed`), the `events` emitted so far and the
`transfers` to the driver. `faults` counts the failures, those of a statement that
records a transfer apart, because the code notices none of these. An event once emitted stays deliverable, so it may
come late, several times and in any order. `processed` is the ledger of handled
events. Money is counted in halves of one seat's price.

| Handler | Actions |
|---|---|
| `POST /payments/intent` (328) | `IntentRead`, `IntentRetrieve`, `IntentCreate`, `IntentStore`, `IntentExisting` |
| webhook (478) | `WebhookArrives`, `WebhookRead`, `WebhookUpdate` (597, 719, 835), `WebhookMark` (216) |
| rider's cancellation (`trips.ts:903`) | `RiderCancelRead`, `RiderCancelRefund`, `RiderCancelUpdate` |
| driver's cancellation (`trips.ts:1656`) | `TripCancel`, `TripSnapshot`, `TripCancelRiders`, `TripRefund`, `TripRefunded` |
| completion (`trips.ts:1874`) | `TripComplete`, `CompleteRiders`, `CompleteRead`, `CompleteTransfer`, `CompleteMark`, `CompleteFailed` |
| daily retry (`cron.ts:283`) | `PayoutRetryRead`, `PayoutRetryTransfer`, `PayoutRetryMark` |
| admin refund (919), onboarding (973), status (1023) | `AdminRefund`; `ConnectOnboard`, `ConnectStore`; `ConnectStatus`, `ConnectStatusStore` |

Stripe is external and modelled by how the code uses it: an intent can be paid
while it is open, a refund fails beyond the charge, events follow state changes.

What the model shows the code to do: a repeated `POST /intent` whose stored
answer is gone makes a second intent for a booking that is already paid, and the
rider can be charged twice (420; `docs/PHASE1_AUTHZ_IDEMPOTENCY.md:18` promises
replay, for as long as the answer is stored). A driver whose account is enabled
only after the completion is not paid: the payout stays `pending` (`trips.ts:1948`)
and the task looks only at failed ones (`cron.ts:297`). Two onboardings in flight
create two Connect accounts and the row keeps the later (998-1004). When the
lookup of a handled event fails the event is processed again (193); the guarded
updates make that harmless. When the statement that records a transfer fails, the
daily task transfers again without an idempotency key (`cron.ts:322`): the driver
gets one payment more for each such failure, and for nothing else, which is what
`TransfersAccounted` says.

### Matching and PoolOptimizer

`driver_trip` and `rider_request` are the rows, `match` the row of a trip and a
rider (UNIQUE) with the id the last `INSERT OR REPLACE` gave it, and `call` the
handlers in flight.

| Handler | Actions |
|---|---|
| create (251), find (563), batch (902) | `Init`; `Find`, `SaveMatch`; `BatchRead`, `BatchNext`, `SaveMatch`, `BatchMark` |
| confirm (790), reject (856) | `ConfirmRead`, `ConfirmReserve`, `ConfirmMatch`, `ConfirmRequest`, `ConfirmRelease`; `RejectRead`, `RejectMatch` |
| update, cancel a trip (352), a request (533) | `UpdateSeats`, `UpdateStatus`; `CancelRequest` |

A confirmation that fails after its match row was confirmed releases the seat it
reserved (845-846), although the match stays confirmed: the seat counter then
offers a seat a confirmed match uses. `SeatsCoverRiders` counts the riders whose
request names the trip, which is what the last statement of a confirmation
writes, and holds in spite of it. A confirmation takes one seat whatever
`seats_needed` is; requests in the model are for one.

`PoolOptimizer` is the engine without I/O: points lie on a straight road, so
that distances are differences of integers; a run enumerates every pair of
requests over six points for three routes. Its names differ from those of
`Matching` (`Requesters` are its riders, `PoolSpec` its specification), because
`MatchingProofs` extends both. The two loops, the length of a tour and
`enforcePickupBeforeDropoff`, are recursive functions (`upTo`), one turn to an
argument; `PoolAssumption` says that a route has at least its two ends and that
points are integers. `Consider` is one round of the greedy
loop, `SavePool` the end of `optimizePool`. With one rider, which is what
`POST /find-pool` passes, the pool keeps its budget and has the seats of the party
(`SoleRiderFits`, `SoleRiderIsServed`). With two it may not, as the
model shows: the pool counts one seat a rider whatever `seatsNeeded` is, though
`optimizer.ts:6` says "Fits within the driver's available seats"; the marginal
detours are counted for an order of stops that is then replaced by one sorted
along the route, so the tour may exceed the budget of `optimizer.ts:155`; and a
dropoff beyond the end of the route sorts by its distance from it (42).

### Sessions

`account` is the row of `users` (verified, password, MFA, row state), `session`
the rows of `sessions`, `link` what KV holds under one-time keys: e-mail
verification, reset, MFA challenge, OAuth state and code. A refresh token is the
second it was signed in, because the JWT holds nothing else that varies.

| Handler | Actions |
|---|---|
| register (371), verify (508) | `RegisterRead`, `RegisterInsert`, `RegisterLink`; `VerifyGet`, `VerifyUpdate`, `VerifyDelete` |
| login (203), MFA (848) | `LoginRead`, `LoginRehash`, `LoginChallenge`, `LoginOpen`; `MfaGet`, `MfaDelete`, `MfaOpen`; `MfaConfirm`, `MfaDisable` |
| Google, Apple (1104-1704), code (1732) | `GoogleStart`, `GoogleState`, `GoogleRead`, `AppleStart`, `AppleState`, `AppleRead`, `OAuthLink`, `OAuthInsert`, `OAuthOpen`, `OAuthCode`; `CodeGet`, `CodeDelete` |
| refresh (966), logout (1054) | `RefreshFind`, `RefreshRotate`; `Logout` |
| forgot (549), reset (623) | `ForgotRead`, `ForgotPut`; `ResetGet`, `ResetDelete`, `ResetPassword`, `ResetRevoke` |
| `admin.ts:417`, `users.ts:763`, `cron.ts:260` | `SetActive`, `DeleteAccount`, `Cleanup` |

`OneAtATime` says that a session or a link has one request about it and that no
sign-in by password overlaps a reset. Without it: two requests with one link both
find it in KV, though never more than are in flight when the first deletes it
(`UsesAreBounded`); a login in flight over a reset opens a session with the old
password, and the rehash of an old hash format writes the old password back
(254); two refreshes with one token are both answered and the later one's token
is kept. Also visible in the model: a crash between the row of a registration and
its link leaves an account nobody can verify, under an address that is taken;
turning MFA on or deactivating an account does not end its sessions; tokens
signed in one second are equal, so that a rotation within a second changes
nothing.

### WebClient

`store` is localStorage (signed in or not, which pair, whose), `screen`, `timer`
and `stream` the rest of the page, `token[n]` what the server thinks of pair n,
`call` the API calls in flight. A call goes out, may be refused, refreshes,
is sent again, and the network may lose either direction at any point; `Reload`
forgets everything that is not in localStorage.

`Orderly` says that no second refresh and no sign-out overlaps a refresh and that
nobody signs in where another is signed in. Nothing in `app.js` enforces it:
without it two calls refused at once sign a live session out, a refresh in flight
over a logout stores its tokens again, and signing in as another user keeps the
first one's event stream. In the model a logout with an expired access token
revokes nothing (`auth.ts:1072` verifies it first and swallows the failure), and a reload
loses the pair whose answer was on its way.

There is no fairness to assume of a network: that a call ends is `CallsMoveOn`,
a rank that every step of the call decreases.

### Ledger

`points` counts the rows of `points_ledger` for a user, reason and reference;
`promo`, `booked`, `redeemed` are the promo code, the bookings and the
redemptions; `offered` the trips offered under one key with what KV and the
fallback table know of it.

| Handler | Actions |
|---|---|
| own code (`loyalty.ts:21`), redeem (101) | `CodeRead`, `CodeRow`, `CodeInsert`; `Redeem`, `RedeemCheck`, `AwardLook`, `AwardInsert` (`points.ts`), `RedeemCount` |
| book with a code (`trips.ts:673`) | `Book`, `PromoRead`, `PromoUsed`, `BookInsert`, `PromoRedeem`, `PromoCount`; `PromoSwitch` (`admin.ts:729`) |
| offer (`trips.ts:1227`) | `Offer`, `KeyGet`, `KeyPut`, `KeyDb`, `OfferRefuse`, `OfferInsert`, `OfferDriver`; `KvFails`, `DbFails`, `KeyExpires` |

`OneAtATime` says that nobody redeems or offers while a request of his is in
flight. With two in flight the award is made twice: `points.ts:8` selects and then
inserts, and `migrations/0017:14-22` has no UNIQUE, though `loyalty.ts:147` says
"Use awardPointsOnce to prevent double-awarding under concurrent requests.";
and two offers with one key both miss and both run. Two theorems say how far this
goes: `AwardsAreBounded` needs no assumption, one code pays at most as often as
there are requests in flight; and `KeyIsOneOffer` needs `OneAtATime` only where
keys are kept in KV, the database's `INSERT OR IGNORE` lets one offer through
whatever overlaps. A crash between the two
awards of a redemption is answered 409 at the retry, and the referrer is never
paid; the key of an offer is recorded before the trip is inserted, so a retry
after a failed first attempt is answered as a replay of nothing.

### Subscriptions

One user and one month. A slot is a day in the morning or in the evening, as
`pricing.ts:43` counts them; today's slots are those the tasks look for.

| Handler | Actions |
|---|---|
| create (79) | `CreateRead`, `CreateInsert`, `CreateDay`, `CreateDayFails`, `CreateAnswer` |
| edit (393), skip (483), cancel (540) | `UpsertDay`; `SkipRead`, `SkipWrite`; `CancelRead`, `CancelSub`, `CancelDays` |
| pay (596), webhook (`payments.ts:541`) | `PayRead`, `PayCreate`, `PayWrite`; `Charge` (external), `Webhook` |
| daily batch (`cron.ts:60`) | `BatchList`, `BatchMark`, `BatchRequest`, `BatchFind`, `BatchSave`, `BatchTell`, `BatchMatched`, `BatchEnd` |
| reminders (`cron.ts:184`) | `RemindGet`, `RemindPut`, `RemindSend` |

`OneAtATime`: the subscriber has one request in flight, and one run at a time
sends the reminders of a window (two would both find no key). Also visible: an
insert that fails leaves the other day rows, and the retry is answered 409; a
death between `BatchMark` and `BatchRequest` leaves a slot `requested` for ever;
`SkipWrite` may cancel a slot that was matched since it was read; two payment
requests create two intents. `cron.ts:149` names a column `trips` does not have,
so a matched slot never names a trip (`docs/DEV_PLAN_COMPLETION.md:20`).

### Accounts

`account` is the row of `users` with a number for its profile (each write of it
has a new number), `token` the role claim of the user's access token, `cache` the
number of the cached profile; the other variables are the tables of
organizations, documents, disputes, messages and safety for one trip and one
driver. `updated` and `founders` record what users were told.

| Handler | Actions |
|---|---|
| `GET`, `PUT /users/profile` (175, 254) | `ProfileRead`, `ProfileSet`; `ProfileUpdate`, `ProfileDrop` |
| preferences, terms (504, 539) | `Preferences`, `TosAccept` |
| `DELETE /users/account` (721) | `DeleteRider`, `DeleteDriver`, `DeleteRow`, `DeletePlaces` |
| `PUT /admin/users/:userId` (`admin.ts:369`) | `AdminRead`, `AdminWrite` |
| organizations (26, 81, 154) | `OrgInsert`, `OrgInsertFails`, `OrgMember`; `Shown`; `JoinRead`, `JoinWrite` |
| documents (64-206, 256) | `UploadUrl`, `UploadGet`, `UploadDelete`, `UploadPut`, `DocRecord`; `ReviewWrite`, `ReviewRead`, `ReviewVerify` |
| disputes, messages, safety | `DisputeRead`, `DisputeInsert`, `DisputeResolve`; `MessageAccess`, `MessageInsert`, `MessageMark`; `ContactAdd`, `ContactDelete`, `Sos` |

`OneAtATime`: a user has one request of his own in flight and administrators
update accounts one after the other. Without it a `GET` in flight across a `PUT`
caches the old profile again, two disputes of one user are both inserted
(`disputes.ts:69-80`, `trips.ts:2374-2388`), and an update checked against a
plain user is written to one promoted in between. Also visible: a rejection or an
expiry never resets `documents_verified`; a live token of a deleted account can
write personal data back (254-312) and an administrator can reactivate it; a
trip booked between the check and the deletion stays; `PUT /preferences` resets
the sections it does not name; a creation whose `INSERT` lost its answer is
retried under the same id and answered 500, with the organization there.

## Runs

| Run | Instance | What it shows |
|---|---|---|
| `TripBookingSerial` | 2 riders, parties of 1 and 2, 2 seats, 3 requests, 1 crash anywhere but inside an accept, one request per booking | `NoOverbooking`: seats on offer and seats taken fit the car. `SeatsArePooled`: every statement moves seats as `SeatPool` allows, the seats that requests carry counted as held. `TripSettledOnce` (cancel against complete, and nobody comes onto the roster of a closed trip but by what was on its way), `RevivedOnlyByPromotion` (no stale statement revives a settled booking), `LeftTheLine`, `PromotedHasBooking`, `CompletedRidersRode` |
| `TripBookingLastSeat` | 2 riders, 1 request, column CHECK in force | violation: an accept of the last seat leaves the booking accepted |
| `BookingPayment` | 2 requests, 2 intents, half-refund tier, 1 failure anywhere | `PaidIsCharged`, `PaidIsNotDowngraded`, `RefundedGotMoneyBack` |
| `BookingPayout` | 2 requests and the daily task, 1 intent, 2 failures, admin refunds, onboarding, fairness | `TransfersAccounted` (a lost record is all that pays twice); `FailedPayoutIsRetried` (liveness) |
| `Matching` | 1 trip, 2 riders, 2 seats, 2 calls, 3 saved matches, 1 failure anywhere | `SeatsCoverRiders` (no confirmation, rejection or search makes up a seat), `MatchedHasMatch` |
| `PoolOptimizer` | 2 riders, 6 points, 3 routes | `PrefilterKeepsMatches` (the SQL filter hides no match), `PickupFirst`, `MarginalIsInsertion` (the marginal detour is that of an insertion into the tour), `SoleRiderFits` (a pool of one rider fits the car and the budget) |
| `Sessions` | 2 session rows, 2 links, 2 requests, clock 0-1, 2 passwords, 1 crash | `OnlyVerifiedSignIn`, `LinkUsedOnce`, `ResetCutsOff`, `RevokedStaysRevoked`, `DeletedStaysOut` |
| `WebClient` | 2 users, 2 calls, 2 token pairs, orderly | `RunsAtMostOnce`, `NoOrphanTimer`, `StreamIsOwn`, `ClientHoldsSession`, `CallsMoveOn` |
| `Ledger` | 3 users, 2 trips, 2 requests in flight of 4, one use of the code, 1 crash, 1 failure of a store | `OverrunBounded`, `DiscountHasBooking`, `ReferrerFollowsFriend`, `AwardedOnce`, `OfferedOnce` |
| `Subscriptions` | 2 slots, 3 processes, 2 runs of tasks, 2 intents, 1 failure or death | `MatchedOnce`, `AnsweredIsComplete`, `RemindedOnce`, `NeverRescheduled` |
| `SubscriptionNeverPaid` | 1 slot, 1 process | violation: the subscriber paid, the event was answered, the row stays unpaid |
| `Accounts` | 2 users, 2 documents of 2 types, 1 organization, 2 disputes, 2 requests in flight of 3, 1 failure | `ReviewsDecide`, `CacheSeesOwnUpdates`, `FounderSeesOrganization` |

The two violations are described under "findings" in `PROJECT.json`, each with
the sentence of the repository it disagrees with.

**Bounds.** Every race the properties are about is between two handlers over
one row or one counter; two requests meet at every pair of statements, and where
a third party matters there is a third (a promotion while a rider cancels and a
driver accepts in `TripBookingSerial`; two runs of a task and the subscriber in
`Subscriptions`). A party of two is needed where a booking and a waitlist row of
one rider differ in size. `SeatCap` only bounds the counter after a trip is
closed, when releases no longer mean anything. `Ledger` needs three users for a
friend with two would-be referrers, and four requests for two bookings that
race for the last use after an earlier one. `Sessions` needs two rows and two
links for a reset that has to reach a session it did not open, and two seconds for
a token that differs from the one it replaces. `WebClient` needs two pairs for a
rotation and two users for a stream that is not one's own. `MaxAborts`,
`MaxFaults`, `MaxTrouble`, `MaxSaves`, `MaxRuns`, `MaxServed`, `MaxIntents`,
`MaxPairs` bound crashes, failures, matches, task runs, requests, intents and
pairs; every one of them is a parameter of the proofs, which hold whatever its
value.

**Failures.** `AnyStepButAccept` excludes a crash between the two updates of an
accept. The code has no defence against it and no document promises one. Elsewhere
a failure may strike at any statement: of the database, of KV, of Stripe, or as the death of the isolate.

**Fairness.** Only `BookingPayout` has a liveness property. `FairSpec` assumes
weak fairness of the payout task, which the platform starts every day, and of
each request in flight, which the platform runs until it answers. Failures are
finite (`MaxFaults`). No fairness is assumed of riders, drivers or Stripe.
`FailedPayoutIsRetried` is about completed bookings that stay paid: an admin's
refund, or an account Stripe no longer enables, releases the task from its duty,
as the query at `cron.ts:297` says. Of the web client no fairness is assumed.

**Symmetry** is used for identities no definition distinguishes and only in
runs without liveness. Deadlock is not checked: a trip that is settled with no
request left, a payment whose intents are used up, or a bound that is reached may
rightly stop.

## Proofs

Each theorem holds for every value of the module's constants, from the named
assumption the module states (`SeatsAssumption`, `RequestsAssumption`,
`PaymentAssumption`, `MatchingAssumption`, `SessionsAssumption`,
`WebClientAssumption`, `LedgerAssumption`, `SubscriptionsAssumption`,
`AccountsAssumption`, `PoolAssumption`). All are about safety and are proved by an inductive
invariant that strengthens the property.

All the proofs have one plan. First the control flow: a lemma (`ControlFlow`,
`TurnNext`, `ClientShapes`) says once what any step does to the slots (at most
one request starts, goes on to a named statement with its locals kept, or ends)
and another (`Who`, `RowMoves`, `AccountMoves`, `PointsMove`, `DayMoves`, ...)
which statements write a table and how. The invariants are then preserved by a
few cases on those lemmas instead of one case for every action. The type
invariant of every module is a theorem, so no run repeats it. `TypeOK` is
seldom inductive as it stands, because a statement writes what was read earlier:
the typing invariant adds what the locals of a request are at each statement.

**TripBookingProofs.** `TypeCorrect`, `SettledOnce`, `NeverBackInLine`,
`NobodyPromotedInVain`, `OnlyCompletedTripsComplete`, `RevivalIsPromotion`, with
and without `OneRequestPerRider`. For `SettledOnce`, `NobodyEnters` shows that on a
closed trip no request passes a check it had not passed, and `EntryIsSpent` that a
rider coming onto the roster takes a request out of `Entering`. `Traced` says where the requests stand: a
promotion that is about to write carries the party of the waitlist row, one that
is about to mark has written the booking, one that completes riders has completed
the trip. Under `Disciplined` (one request about a booking at a time, the column
may hold 0, no crash at a statement of an accept) also `SeatsImplementPool`, the
refinement of `SeatPool`, and `NeverOverbooked`. `Orderly` adds that requests
about a booking exclude each other (`Exclusive`) and that an accept or a
cancellation of an open trip finds its booking accepted (`FindsAccepted`), which
is what makes the unguarded release of `trips.ts:984` sound. The seats held are
the cardinality of two sets of slots; `SlotsUpdate` says how such a cardinality
changes with one holder, and one lemma per statement finds the move of the pool.
The hardest is `PromoteBook`: it overwrites a booking whose rider may be
cancelling a larger one, so two requests and a row change what they hold at once.

**MatchingProofs.** `TypeCorrect`, `NobodyMatchedInVain`, `NoSeatMadeUp`: each
step of a call changes at most one of three counts, the counter, the riders named
by a trip, and the calls that hold a seat in hand; the proof follows a seat from
one to the next.

The second half of the module is about `PoolOptimizer`, for routes, requests and
pools of any size: `OptimizerTypeCorrect`, `PickupComesFirst`,
`ChargeIsTourLength`, `SoleRiderIsServed`, `PrefilterIsComplete`. Its operators recurse along
sequences, and the induction theorems of the library, which take an operator, are
of no use to the provers. The lemma `Induction` is the same fact in first-order
form, for a set of numbers: were some number up to `n` outside it, subtracting 1
would map the finite set of those numbers injectively, so surjectively
(`FS_Injection`), into itself, though nothing is mapped to `n`. `Recursion` makes
of it the existence of a function with a given value at 0 and a given step, which
lets `upTo` be unfolded; `PartialSums` and `EnforceOrders` are its two uses.

* `PickupComesFirst`: the pool's invariant `StopsOK` is that every rider taken has
  his two stops (`Covers`) and no stop stands before its rider's pickup (`InOrder`).
  The loop keeps that up to turn `i` no dropoff stands before its pickup; a turn
  moves one pickup from behind to the place of its dropoff, and shifts the stops in
  between without changing their order.
* `ChargeIsTourLength`: a tour with one more stop is longer by `Cost`
  (`InsertionCost`: the partial sums of the two tours agree before the stop and
  differ by `Cost` after it), and the places `MarginalDetour` takes attain its two
  minima. By the triangle inequality no charge is negative, so that
  `Math.max(0, ...)` never bites.
* `SoleRiderIsServed`: the invariant `Alone` says that nobody who waits has been
  taken, that an empty pool has spent nothing, and that a pool of one rider has two
  stops and was charged the tour by way of them less the direct one. The first
  rider is charged exactly that (`FirstCharge`: there is one place for each of his
  stops), and `enforcePickupBeforeDropoff` leaves his pickup first (`TourOfOne`).
* `PrefilterIsComplete`: a point inside the padded box of the route puts the
  route's box across the padded box of the rider.

**BookingPaymentProofs.** `TypeCorrect`; `PaidMeansCharged` and `PaidStaysPaid`
from `Honest` (a success event is of a charged intent, and an intent that is
about to be stored is not the one the booking names, nor another request's); `RefundedMeansMoneyBack` from
`Returned` (a request that will write `refunded` has been given money, and Stripe
forgets no refund); `TransfersAreAccounted` from `Payouts` (one completion has the
payout in hand; the column, the step it is at and the records that were lost give
the number of transfers), for a failure or a death at any step; `DriverIsPaidOnce`,
if no record is lost, is its corollary.

**SessionsProofs.** `TypeCorrect`; `SignedInIsVerified`, because verification is
never undone; `RevocationIsFinal`; `DeletionIsFinal`; under `OneAtATime`,
which the property states, `OneUse` (`DeletedFirst`: a request past the deletion
of its link holds the only use of it); without it `UsesAreBounded`, which states
`UsesOverrun` (the uses of a link count with the requests that have read it and
will use it; none joins them once it is deleted); and under it `ResetIsFinal` (`ResetInOrder`: between
the new password and the last revocation no session with it can be confused with
an older one).

**LedgerProofs.** `TypeCorrect`; `ReferrerIsSecond` from the order of the two
awards; `DiscountIsBooked`; `OverrunIsBounded` from `WithinBound`, which counts
redemptions, bookings that passed the check and counts that were lost; under
`OneAtATime` `AwardsAreSingle` (`FoundNothing`: a request about to insert still
has nothing to find); without it `AwardsAreBounded`, which states `AwardsOverrun`
(a row counts with the requests about to write it; none joins them once it is
there); under `OneAtATime` or without KV `KeyIsOneOffer` (`Covered`: the trips and
the requests about to create one are paid for by the record and by failures and
expiries).

**SubscriptionsProofs.** `TypeCorrect`; `DaysGoForward`; `AnsweredMeansInserted`;
`MatchedOnceOnly` from `Batches` (the process that works on a slot is the only one
that will save its match, because the rider request's id is the slot's); under
`OneAtATime` `RemindedAtMostOnce` and `AskedOnce`, which states `AskedToPayOnce`:
another intent is made only for a request that died.

**WebClientProofs.** `TypeCorrect`, `NoTimerLeftBehind`, `NoCallRunsTwice` and
`CallsEnd` with no assumption on the device; `StreamBelongs` and `SessionIsHeld`
on an orderly one (`Orderly`, stated by the properties). `Owned` says whose pairs
the client and its calls hold, `Held` which of them the server accepts, `Asked`
that a refresh on its way is the only one.

**AccountsProofs.** `TypeCorrect`; `FoundersAreShown` (`Founded`: who is told of
an organization is written in it); `ReviewsAreDecisive` (`Decided`: when every type is
approved the flag is set, or some reviewer has yet to read, or one has died); under
`OneAtATime` `CacheIsFresh` (`Fresh`: what a request will put in the cache, and what
the row holds, are no older than what the user was told), `DisputesAreSingle`
(`OneOpenDispute`) and `OutranksHolds` (`OutrankedLeftAlone`: what was checked
of an account still holds when it is written). The last two are stated in
`Accounts` and only proved; no run repeats them.

Only model-checked: `FailedPayoutIsRetried` (liveness under fairness is out of
the prover's reach) and the two violations.

## Not modelled

* Validation, permissions other than those named, formatting, logs, audit rows
  and notifications: they do not change the state the properties are about.
* `trips.ts`: rating, location sharing, arrival notes and search with its cache.
* `payments.ts`: the replay of stored responses (it changes nothing), points and
  audit rows of the webhook.
* Matching: the weights of the score, `LIMIT 200` and `maxResults`, the rider's own
  preferences, `assignRidersToDrivers` (nothing calls it), searches with inline
  rider data, configuration and statistics, the polyline codec.
* `auth.ts`: MFA backup codes, the check of a JWT's signature.
* `users.ts`: history and export; `admin.ts`: reports and exports; `safety.ts`:
  trusted-contact links.
* The rate limiter is a read-modify-write of a counter in KV that loses counts by
  design. Notifications, push and the event bus are output after the state has
  changed. Encryption, geocoding and the middleware are computation over strings
  and external services. The admin pages are tables over the admin endpoints, and
  the client's screens, forms and service worker draw what the endpoints say.

## Plan

Done, in this order: `TripBooking` with `SeatPool` and its theorems,
`BookingPayment`, `Matching` and its theorems; then `Sessions`, `WebClient`,
`Ledger`, `Subscriptions`, `Accounts`, `PoolOptimizer`, the driver's payout
account in `BookingPayment`, and the theorems about each of them.

What would come next: a composition of `WebClient` with the full `Sessions`
instead of its own half of the server; a driver trip with parties of more than
one in `Matching`; the trip's chat and location sharing over a trip that ends.
