-------------------------------- MODULE Ledger --------------------------------
(***************************************************************************)
(* What may be written only once: points for a referral, the redemptions   *)
(* of a promo code, and a trip offered under an idempotency key.           *)
(* src/src/routes/loyalty.ts, promo.ts, src/src/lib/points.ts, the booking *)
(* and offer handlers of trips.ts, the promo codes of admin.ts.            *)
(*                                                                         *)
(* No handler uses a transaction: each statement is a step of its own.     *)
(* points_ledger has no UNIQUE constraint; the two tables that have one    *)
(* here are referral_codes and promo_redemptions.  One promo code stands   *)
(* for all, and a row of points for its (user, reason, reference).         *)
(***************************************************************************)
EXTENDS Integers, FiniteSets

CONSTANTS
    Users,         \* the people who book, offer and refer
    Trips,         \* trips open for booking
    Requests,      \* slots for requests in flight
    Nobody,        \* the absence of a user
    MaxUses,       \* max_uses of the promo code
    HasKv,         \* TRUE: a KV namespace is bound, the database is the fallback
    OneAtATime,    \* TRUE: nobody redeems or offers while a request of his is in flight
    MaxServed,     \* bound on the requests served
    MaxAborts,     \* bound on the requests that die half-way
    MaxTrouble     \* bound on the failures and expiries of the key stores

VARIABLES
    points,        \* points_ledger: how many rows of each (reason, user, reference)
    code,          \* referral_codes: the rows of a user, and uses_count
    promo,         \* promo_codes: is_active and uses_count
    redeemed,      \* promo_redemptions: who redeemed it, for which trip
    booked,        \* trip_participants: who has a booking on which trip
    seen,          \* the idempotency keys recorded, in KV and in the database
    offered,       \* trips: how many were created under a user's key, and how
                   \* many of them have their driver among the participants
    req,           \* the requests in flight
    served,        \* how many requests have been started
    aborts,        \* how many died half-way
    uncounted,     \* redemptions whose count died with the request
    trouble        \* how often a key store failed or forgot

vars == <<points, code, promo, redeemed, booked, seen, offered, req, served,
          aborts, uncounted, trouble>>

-----------------------------------------------------------------------------

Reasons == {"referral_redeem", "referral_success"}
RedeemSteps == {"redeem_check", "own_look", "own_award", "referrer_look",
                "referrer_award", "redeem_count"}
BookSteps == {"promo_read", "promo_used", "book_insert", "promo_redeem", "promo_count"}
OfferSteps == {"key_get", "key_put", "key_db", "offer_insert", "offer_driver"}
Steps == {"idle", "code_insert"} \union RedeemSteps \union BookSteps \union OfferSteps

People == Users \union {Nobody}
Req == [at : Steps, user : People, other : People, trip : Trips, promo : BOOLEAN]

Idle == [at |-> "idle", user |-> Nobody, other |-> Nobody,
         trip |-> CHOOSE t \in Trips : TRUE, promo |-> FALSE]

ASSUME LedgerAssumption ==
    /\ Users # {} /\ IsFiniteSet(Users)
    /\ Trips # {}
    /\ IsFiniteSet(Requests)
    /\ Nobody \notin Users
    /\ MaxUses \in Nat \ {0}
    /\ HasKv \in BOOLEAN /\ OneAtATime \in BOOLEAN
    /\ MaxServed \in Nat /\ MaxAborts \in Nat /\ MaxTrouble \in Nat

TypeOK ==
    /\ points \in [Reasons \X Users \X Users -> Nat]
    /\ code \in [Users -> [rows : 0..1, uses : Nat]]
    /\ promo \in [active : BOOLEAN, uses : Nat]
    /\ redeemed \subseteq Users \X Trips
    /\ booked \subseteq Users \X Trips
    /\ seen \in [kv : SUBSET Users, db : SUBSET Users]
    /\ offered \in [Users -> [trips : Nat, drivers : Nat]]
    /\ req \in [Requests -> Req]
    /\ \A q \in Requests : req[q].at # "idle" => req[q].user \in Users
    /\ \A q \in Requests : req[q].at \in RedeemSteps => req[q].other \in Users
    /\ served \in Nat /\ aborts \in Nat /\ uncounted \in Nat /\ trouble \in Nat

Init ==
    /\ points = [r \in Reasons \X Users \X Users |-> 0]
    /\ code = [u \in Users |-> [rows |-> 0, uses |-> 0]]
    /\ promo = [active |-> TRUE, uses |-> 0]
    /\ redeemed = {}
    /\ booked = {}
    /\ seen = [kv |-> {}, db |-> {}]
    /\ offered = [u \in Users |-> [trips |-> 0, drivers |-> 0]]
    /\ req = [q \in Requests |-> Idle]
    /\ served = 0 /\ aborts = 0 /\ uncounted = 0 /\ trouble = 0

-----------------------------------------------------------------------------
(* Requests                                                                *)

Start(q, r) ==
    /\ req[q].at = "idle"
    /\ served < MaxServed
    /\ served' = served + 1
    /\ req' = [req EXCEPT ![q] = r]

Alone(u) == OneAtATime => \A q \in Requests : req[q].user # u

Goto(q, step) == req' = [req EXCEPT ![q].at = step]
Done(q) == req' = [req EXCEPT ![q] = Idle]

-----------------------------------------------------------------------------
(* Referral codes and points                                               *)

\* GET /users/referral: a user without a code gets one...
CodeRead(q, u) ==
    /\ code[u].rows = 0
    /\ Start(q, [Idle EXCEPT !.at = "code_insert", !.user = u])
    /\ UNCHANGED <<points, code, promo, redeemed, booked, seen, offered, aborts,
                   uncounted, trouble>>

\* ...unless another request was faster: user_id is UNIQUE, and all five
\* attempts collide.
CodeRow(q) ==
    code' = IF code[req[q].user].rows = 0
            THEN [code EXCEPT ![req[q].user].rows = 1] ELSE code

CodeInsert(q) ==
    /\ req[q].at = "code_insert"
    /\ CodeRow(q)
    /\ Done(q)
    /\ UNCHANGED <<points, promo, redeemed, booked, seen, offered, served, aborts,
                   uncounted, trouble>>

\* POST /referrals/redeem, with the code of another user.
Redeem(q, u, o) ==
    /\ u # o /\ code[o].rows = 1
    /\ Alone(u)
    /\ Start(q, [Idle EXCEPT !.at = "redeem_check", !.user = u, !.other = o])
    /\ UNCHANGED <<points, code, promo, redeemed, booked, seen, offered, aborts,
                   uncounted, trouble>>

\* A user who has redeemed any code is refused.
HasRedeemed(u) == \E o \in Users : points[<<"referral_redeem", u, o>>] > 0
HasRedeemedThis(u, o) == points[<<"referral_redeem", u, o>>] > 0

RedeemCheckSame(q) ==                      \* mutant: only the same code is refused
    /\ req[q].at = "redeem_check"
    /\ IF HasRedeemedThis(req[q].user, req[q].other)
       THEN Done(q) ELSE Goto(q, "own_look")
    /\ UNCHANGED <<points, code, promo, redeemed, booked, seen, offered, served,
                   aborts, uncounted, trouble>>
RedeemCheck(q) ==
    /\ req[q].at = "redeem_check"
    /\ IF HasRedeemed(req[q].user) THEN Done(q) ELSE Goto(q, "own_look")
    /\ UNCHANGED <<points, code, promo, redeemed, booked, seen, offered, served,
                   aborts, uncounted, trouble>>

\* The two awards: first the user's own, then the referrer's.
ReferrerFirst(at) ==                       \* mutant: the awards change places
    IF at \in {"own_look", "own_award"} THEN "referral_success" ELSE "referral_redeem"
Reason(at) ==
    IF at \in {"own_look", "own_award"} THEN "referral_redeem" ELSE "referral_success"

Row(q) == LET r == req[q] IN
    IF Reason(r.at) = "referral_redeem"
    THEN <<"referral_redeem", r.user, r.other>>
    ELSE <<"referral_success", r.other, r.user>>

AfterAward(at) == IF at \in {"own_look", "own_award"} THEN "referrer_look" ELSE "redeem_count"

\* awardPointsOnce: a row for the reference ends it; otherwise awardPoints.
AwardLook(q) ==
    /\ req[q].at \in {"own_look", "referrer_look"}
    /\ Goto(q, IF points[Row(q)] > 0 THEN AfterAward(req[q].at)
               ELSE IF req[q].at = "own_look" THEN "own_award" ELSE "referrer_award")
    /\ UNCHANGED <<points, code, promo, redeemed, booked, seen, offered, served,
                   aborts, uncounted, trouble>>

AwardInsert(q) ==
    /\ req[q].at \in {"own_award", "referrer_award"}
    /\ points' = [points EXCEPT ![Row(q)] = @ + 1]
    /\ Goto(q, AfterAward(req[q].at))
    /\ UNCHANGED <<code, promo, redeemed, booked, seen, offered, served, aborts,
                   uncounted, trouble>>

RedeemCount(q) ==
    /\ req[q].at = "redeem_count"
    /\ code' = [code EXCEPT ![req[q].other].uses = @ + 1]
    /\ Done(q)
    /\ UNCHANGED <<points, promo, redeemed, booked, seen, offered, served, aborts,
                   uncounted, trouble>>

-----------------------------------------------------------------------------
(* Promo codes                                                             *)

\* POST /:tripId/book on a trip that has room.
Book(q, u, t, with) ==
    /\ Start(q, [Idle EXCEPT !.at = IF with THEN "promo_read" ELSE "book_insert",
                             !.user = u, !.trip = t, !.promo = with])
    /\ UNCHANGED <<points, code, promo, redeemed, booked, seen, offered, aborts,
                   uncounted, trouble>>

PromoReadPast(q) ==                        \* mutant: > for >=
    /\ req[q].at = "promo_read"
    /\ IF promo.active /\ promo.uses <= MaxUses THEN Goto(q, "promo_used") ELSE Done(q)
    /\ UNCHANGED <<points, code, promo, redeemed, booked, seen, offered, served,
                   aborts, uncounted, trouble>>
PromoRead(q) ==
    /\ req[q].at = "promo_read"
    /\ IF promo.active /\ promo.uses < MaxUses THEN Goto(q, "promo_used") ELSE Done(q)
    /\ UNCHANGED <<points, code, promo, redeemed, booked, seen, offered, served,
                   aborts, uncounted, trouble>>

HasUsed(u) == \E t \in Trips : <<u, t>> \in redeemed

PromoUsed(q) ==
    /\ req[q].at = "promo_used"
    /\ IF HasUsed(req[q].user) THEN Done(q) ELSE Goto(q, "book_insert")
    /\ UNCHANGED <<points, code, promo, redeemed, booked, seen, offered, served,
                   aborts, uncounted, trouble>>

\* The booking, UNIQUE for a trip and a user; then the redemption, UNIQUE for a
\* code and a user.  A refused redemption leaves the booking.
BookInsertIgnored(q) ==                    \* mutant: the insert is INSERT OR IGNORE
    /\ req[q].at = "book_insert"
    /\ IF \E t \in Trips : <<req[q].user, t>> \in booked
       THEN UNCHANGED booked
       ELSE booked' = booked \union {<<req[q].user, req[q].trip>>}
    /\ IF req[q].promo THEN Goto(q, "promo_redeem") ELSE Done(q)
    /\ UNCHANGED <<points, code, promo, redeemed, seen, offered, served, aborts,
                   uncounted, trouble>>
BookInsert(q) == LET row == <<req[q].user, req[q].trip>> IN
    /\ req[q].at = "book_insert"
    /\ booked' = booked \union {row}
    /\ IF row \notin booked /\ req[q].promo THEN Goto(q, "promo_redeem") ELSE Done(q)
    /\ UNCHANGED <<points, code, promo, redeemed, seen, offered, served, aborts,
                   uncounted, trouble>>

PromoRedeem(q) ==
    /\ req[q].at = "promo_redeem"
    /\ IF HasUsed(req[q].user)
       THEN /\ UNCHANGED redeemed
            /\ Done(q)
       ELSE /\ redeemed' = redeemed \union {<<req[q].user, req[q].trip>>}
            /\ Goto(q, "promo_count")
    /\ UNCHANGED <<points, code, promo, booked, seen, offered, served, aborts,
                   uncounted, trouble>>

PromoCount(q) ==
    /\ req[q].at = "promo_count"
    /\ promo' = [promo EXCEPT !.uses = @ + 1]
    /\ Done(q)
    /\ UNCHANGED <<points, code, redeemed, booked, seen, offered, served, aborts,
                   uncounted, trouble>>

\* PUT /admin/promo-codes/:id.
PromoSwitch ==
    /\ promo' = [promo EXCEPT !.active = ~@]
    /\ UNCHANGED <<points, code, redeemed, booked, seen, offered, req, served,
                   aborts, uncounted, trouble>>

-----------------------------------------------------------------------------
(* A trip offered with an Idempotency-Key: isIdempotentReplay              *)

\* POST /offer; each user repeats one key.
Offer(q, u) ==
    /\ Alone(u)
    /\ Start(q, [Idle EXCEPT !.at = IF HasKv THEN "key_get" ELSE "key_db", !.user = u])
    /\ UNCHANGED <<points, code, promo, redeemed, booked, seen, offered, aborts,
                   uncounted, trouble>>

\* A key found in KV ends the request.
KeyGet(q) ==
    /\ req[q].at = "key_get"
    /\ IF req[q].user \in seen.kv THEN Done(q) ELSE Goto(q, "key_put")
    /\ UNCHANGED <<points, code, promo, redeemed, booked, seen, offered, served,
                   aborts, uncounted, trouble>>

\* It is put before the trip is created.
KeyPutNothing(q) ==                        \* mutant: the key is not put
    /\ req[q].at = "key_put"
    /\ Goto(q, "offer_insert")
    /\ UNCHANGED <<points, code, promo, redeemed, booked, seen, offered, served,
                   aborts, uncounted, trouble>>
KeyPut(q) ==
    /\ req[q].at = "key_put"
    /\ seen' = [seen EXCEPT !.kv = @ \union {req[q].user}]
    /\ Goto(q, "offer_insert")
    /\ UNCHANGED <<points, code, promo, redeemed, booked, offered, served, aborts,
                   uncounted, trouble>>

\* KV fails, reading or writing: the database is asked instead.
KvFails(q) ==
    /\ req[q].at \in {"key_get", "key_put"}
    /\ trouble < MaxTrouble
    /\ trouble' = trouble + 1
    /\ Goto(q, "key_db")
    /\ UNCHANGED <<points, code, promo, redeemed, booked, seen, offered, served,
                   aborts, uncounted>>

\* persistIdempotencyRecord: INSERT OR IGNORE; a row that is there is a replay.
KeyDb(q) ==
    /\ req[q].at = "key_db"
    /\ IF req[q].user \in seen.db THEN Done(q) ELSE Goto(q, "offer_insert")
    /\ seen' = [seen EXCEPT !.db = @ \union {req[q].user}]
    /\ UNCHANGED <<points, code, promo, redeemed, booked, offered, served, aborts,
                   uncounted, trouble>>

\* The database fails as well, in the outage that took KV or in one of its own:
\* the request goes on as if it were new.
DbFails(q) ==
    /\ req[q].at = "key_db"
    /\ \/ HasKv /\ UNCHANGED trouble
       \/ ~HasKv /\ trouble < MaxTrouble /\ trouble' = trouble + 1
    /\ Goto(q, "offer_insert")
    /\ UNCHANGED <<points, code, promo, redeemed, booked, seen, offered, served,
                   aborts, uncounted>>

\* A key lives in KV for ten minutes.
KeyExpires(u) ==
    /\ u \in seen.kv
    /\ trouble < MaxTrouble
    /\ trouble' = trouble + 1
    /\ seen' = [seen EXCEPT !.kv = @ \ {u}]
    /\ UNCHANGED <<points, code, promo, redeemed, booked, offered, req, served,
                   aborts, uncounted>>

\* A time that is past by now is refused, with the key recorded.
OfferRefuse(q) ==
    /\ req[q].at = "offer_insert"
    /\ Done(q)
    /\ UNCHANGED <<points, code, promo, redeemed, booked, seen, offered, served,
                   aborts, uncounted, trouble>>

OfferInsert(q) ==
    /\ req[q].at = "offer_insert"
    /\ offered' = [offered EXCEPT ![req[q].user].trips = @ + 1]
    /\ Goto(q, "offer_driver")
    /\ UNCHANGED <<points, code, promo, redeemed, booked, seen, served, aborts,
                   uncounted, trouble>>

OfferDriver(q) ==
    /\ req[q].at = "offer_driver"
    /\ offered' = [offered EXCEPT ![req[q].user].drivers = @ + 1]
    /\ Done(q)
    /\ UNCHANGED <<points, code, promo, redeemed, booked, seen, served, aborts,
                   uncounted, trouble>>

-----------------------------------------------------------------------------
(* Failures                                                                *)

\* A request dies between two of its writes; one that dies before the first
\* leaves nothing behind.
AfterAWrite == {"referrer_look", "referrer_award", "redeem_count", "promo_redeem",
                "promo_count", "offer_insert", "offer_driver"}

Abort(q) ==
    /\ req[q].at \in AfterAWrite
    /\ aborts < MaxAborts
    /\ aborts' = aborts + 1
    /\ uncounted' = IF req[q].at = "promo_count" THEN uncounted + 1 ELSE uncounted
    /\ Done(q)
    /\ UNCHANGED <<points, code, promo, redeemed, booked, seen, offered, served, trouble>>

-----------------------------------------------------------------------------

Referral(q) ==
    \/ CodeInsert(q)
    \/ RedeemCheck(q) \/ AwardLook(q) \/ AwardInsert(q) \/ RedeemCount(q)
    \/ \E u \in Users : CodeRead(q, u) \/ \E o \in Users : Redeem(q, u, o)
Promotion(q) ==
    \/ PromoRead(q) \/ PromoUsed(q) \/ BookInsert(q) \/ PromoRedeem(q) \/ PromoCount(q)
    \/ \E u \in Users, t \in Trips, with \in BOOLEAN : Book(q, u, t, with)
Offering(q) ==
    \/ KeyGet(q) \/ KeyPut(q) \/ KvFails(q) \/ KeyDb(q) \/ DbFails(q)
    \/ OfferRefuse(q) \/ OfferInsert(q) \/ OfferDriver(q)
    \/ \E u \in Users : Offer(q, u)

Next ==
    \/ PromoSwitch
    \/ \E u \in Users : KeyExpires(u)
    \/ \E q \in Requests : Referral(q) \/ Promotion(q) \/ Offering(q) \/ Abort(q)

Spec == Init /\ [][Next]_vars

-----------------------------------------------------------------------------
(* Properties                                                              *)

Counting == {q \in Requests : req[q].at = "promo_count"}

\* Every redemption is counted exactly once: uses_count lags behind the
\* redemptions by the bookings between the two statements and by those that
\* died there (trips.ts:802-811).
UsesFollowRedemptions ==
    Cardinality(redeemed) = promo.uses + Cardinality(Counting) + uncounted

\* max_uses is read long before it is spent, so it can be overrun; but by no
\* more than the other bookings in flight and the counts that were lost
\* (trips.ts:758-811).
OverrunBounded ==
    Cardinality(redeemed) <= MaxUses + Cardinality(Requests) - 1 + uncounted

\* A user spends a code on one booking that exists, however many of his
\* bookings race for it (trips.ts:785-808, the UNIQUE of 0016:45).
DiscountHasBooking ==
    /\ redeemed \subseteq booked
    /\ \A u \in Users, s, t \in Trips :
          <<u, s>> \in redeemed /\ <<u, t>> \in redeemed => s = t

\* A referrer has points for a friend only when the friend has his own for
\* that referrer, whatever died in between (loyalty.ts:149-150).
ReferrerFollowsFriend ==
    \A u, o \in Users : points[<<"referral_success", o, u>>] > 0 => HasRedeemedThis(u, o)

\* "one referral redemption per user" (loyalty.ts:133), paid "exactly once per
\* (userId, reason, referenceId)" (points.ts:8).
AwardedOnce ==
    \A u, o \in Users :
       /\ points[<<"referral_redeem", u, o>>] <= 1
       /\ points[<<"referral_success", o, u>>] <= 1
       /\ \A p \in Users : HasRedeemedThis(u, o) /\ HasRedeemedThis(u, p) => o = p

\* Under one key a driver offers one trip, and one more for each time a key
\* store failed or forgot (trips.ts:273-328).
OfferedOnce == \A u \in Users : offered[u].trips <= 1 + trouble

=============================================================================
