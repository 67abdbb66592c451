---------------------------- MODULE LedgerProofs ----------------------------
(***************************************************************************)
(* Theorems about Ledger, for every set of users, trips and requests.      *)
(***************************************************************************)
EXTENDS Ledger, FiniteSetTheorems, TLAPS

-----------------------------------------------------------------------------
(* Requests                                                                *)

\* Where a request still uses its user, or the one whose code it has, they are there.
LocalsOK(v) ==
    /\ v.at # "idle" => v.user \in Users
    /\ v.at \in RedeemSteps => v.other \in Users

RequestsOK == req \in [Requests -> Req] /\ \A q \in Requests : LocalsOK(req[q])

\* What an idle slot holds.
LEMMA IdleOK == /\ Idle \in Req /\ LocalsOK(Idle)
                /\ Idle.at = "idle" /\ Idle.user = Nobody
  BY LedgerAssumption DEF Idle, Req, People, Steps, RedeemSteps, LocalsOK

LEMMA OneRequest ==
  ASSUME RequestsOK, NEW q \in Requests, NEW v \in Req, LocalsOK(v),
         req' = [req EXCEPT ![q] = v]
  PROVE  RequestsOK' /\ req'[q] = v /\ \A p \in Requests \ {q} : req'[p] = req[p]
  BY DEF RequestsOK

LEMMA DoneOK ==
  ASSUME RequestsOK, NEW q \in Requests, Done(q)
  PROVE  /\ RequestsOK' /\ req'[q].at = "idle" /\ req'[q].user = Nobody
         /\ \A p \in Requests \ {q} : req'[p] = req[p]
  BY IdleOK, OneRequest DEF Done

\* A request that moves on keeps what it has read.
LEMMA GotoOK ==
  ASSUME RequestsOK, NEW q \in Requests, NEW s \in Steps, Goto(q, s),
         req[q].at # "idle", s \in RedeemSteps => req[q].at \in RedeemSteps
  PROVE  /\ RequestsOK'
         /\ req'[q].at = s /\ req'[q].user = req[q].user /\ req'[q].other = req[q].other
         /\ req'[q].trip = req[q].trip /\ req'[q].promo = req[q].promo
         /\ \A p \in Requests \ {q} : req'[p] = req[p]
  <1> DEFINE v == [req[q] EXCEPT !.at = s]
  <1>1. /\ v \in Req /\ LocalsOK(v)
        /\ v.at = s /\ v.user = req[q].user /\ v.other = req[q].other
        /\ v.trip = req[q].trip /\ v.promo = req[q].promo
    BY DEF RequestsOK, Req, LocalsOK
  <1>2. req' = [req EXCEPT ![q] = v]
    BY DEF Goto
  <1> HIDE DEF v
  <1>3. QED
    BY <1>1, <1>2, OneRequest

\* One that starts.
LEMMA StartOK ==
  ASSUME RequestsOK, NEW q \in Requests, NEW v \in Req, LocalsOK(v), Start(q, v)
  PROVE  /\ RequestsOK' /\ req'[q] = v /\ req[q].at = "idle"
         /\ \A p \in Requests \ {q} : req'[p] = req[p]
  BY OneRequest DEF Start

\* Where a handler starts...
Starts(q) ==
    \/ \E u \in Users : CodeRead(q, u) /\ req'[q].at = "code_insert"
    \/ \E u, o \in Users : /\ Redeem(q, u, o) /\ u # o /\ Alone(u)
                           /\ req'[q].at = "redeem_check"
                           /\ req'[q].user = u /\ req'[q].other = o
    \/ \E u \in Users, t \in Trips, with \in BOOLEAN :
          /\ Book(q, u, t, with)
          /\ req'[q].at = IF with THEN "promo_read" ELSE "book_insert"
          /\ req'[q].promo = with
    \/ \E u \in Users : /\ Offer(q, u) /\ Alone(u) /\ req'[q].user = u
                        /\ req'[q].at = IF HasKv THEN "key_get" ELSE "key_db"

\* ...where it goes on...
GoesOn(q, from, to) ==
    \/ RedeemCheck(q) /\ from = "redeem_check" /\ to = "own_look" /\ ~HasRedeemed(req[q].user)
    \/ AwardLook(q) /\ from = "own_look" /\ to = "own_award"
    \/ AwardLook(q) /\ from = "own_look" /\ to = "referrer_look" /\ points[Row(q)] > 0
    \/ AwardLook(q) /\ from = "referrer_look" /\ to = "referrer_award" /\ ~(points[Row(q)] > 0)
    \/ AwardLook(q) /\ from = "referrer_look" /\ to = "redeem_count"
    \/ AwardInsert(q) /\ from = "own_award" /\ to = "referrer_look"
    \/ AwardInsert(q) /\ from = "referrer_award" /\ to = "redeem_count"
    \/ PromoRead(q) /\ from = "promo_read" /\ to = "promo_used" /\ promo.uses < MaxUses
    \/ PromoUsed(q) /\ from = "promo_used" /\ to = "book_insert"
    \/ BookInsert(q) /\ from = "book_insert" /\ to = "promo_redeem" /\ req[q].promo
    \/ PromoRedeem(q) /\ from = "promo_redeem" /\ to = "promo_count" /\ ~HasUsed(req[q].user)
    \/ KeyGet(q) /\ from = "key_get" /\ to = "key_put" /\ req[q].user \notin seen.kv
    \/ KeyPut(q) /\ from = "key_put" /\ to = "offer_insert"
    \/ KvFails(q) /\ from \in {"key_get", "key_put"} /\ to = "key_db"
    \/ KeyDb(q) /\ from = "key_db" /\ to = "offer_insert" /\ req[q].user \notin seen.db
    \/ DbFails(q) /\ from = "key_db" /\ to = "offer_insert"
    \/ OfferInsert(q) /\ from = "offer_insert" /\ to = "offer_driver"

\* ...and where it ends.
Ends(q, from) ==
    \/ CodeInsert(q) /\ from = "code_insert"
    \/ RedeemCheck(q) /\ from = "redeem_check"
    \/ RedeemCount(q) /\ from = "redeem_count"
    \/ PromoRead(q) /\ from = "promo_read"
    \/ PromoUsed(q) /\ from = "promo_used"
    \/ BookInsert(q) /\ from = "book_insert"
    \/ PromoRedeem(q) /\ from = "promo_redeem" /\ HasUsed(req[q].user)
    \/ PromoCount(q) /\ from = "promo_count"
    \/ KeyGet(q) /\ from = "key_get"
    \/ KeyDb(q) /\ from = "key_db" /\ req[q].user \in seen.db
    \/ OfferRefuse(q) /\ from = "offer_insert"
    \/ OfferDriver(q) /\ from = "offer_driver"
    \/ Abort(q) /\ from \in AfterAWrite

Handler(q) == Referral(q) \/ Promotion(q) \/ Offering(q) \/ Abort(q)

\* A handler's step starts it, moves it on, or ends it.
LEMMA ControlFlow ==
  ASSUME RequestsOK, NEW q \in Requests, Handler(q)
  PROVE  /\ RequestsOK'
         /\ \A p \in Requests \ {q} : req'[p] = req[p]
         /\ \/ req[q].at = "idle" /\ Starts(q)
            \/ req'[q].at = "idle" /\ req'[q].user = Nobody /\ Ends(q, req[q].at)
            \/ /\ GoesOn(q, req[q].at, req'[q].at)
               /\ req'[q].user = req[q].user /\ req'[q].other = req[q].other
               /\ req'[q].trip = req[q].trip /\ req'[q].promo = req[q].promo
  <1> USE DEF Steps, RedeemSteps, BookSteps, OfferSteps
  <1>1. ASSUME NEW u \in Users, CodeRead(q, u)
        PROVE  /\ RequestsOK' /\ \A p \in Requests \ {q} : req'[p] = req[p]
               /\ req[q].at = "idle" /\ Starts(q)
    <2> DEFINE v == [Idle EXCEPT !.at = "code_insert", !.user = u]
    <2>1. v \in Req /\ LocalsOK(v) /\ v.at = "code_insert"
      BY IdleOK DEF Req, People, LocalsOK
    <2>2. Start(q, v)
      BY <1>1 DEF CodeRead
    <2> HIDE DEF v
    <2>3. QED
      BY <1>1, <2>1, <2>2, StartOK DEF Starts
  <1>2. ASSUME NEW u \in Users, NEW o \in Users, Redeem(q, u, o)
        PROVE  /\ RequestsOK' /\ \A p \in Requests \ {q} : req'[p] = req[p]
               /\ req[q].at = "idle" /\ Starts(q)
    <2> DEFINE v == [Idle EXCEPT !.at = "redeem_check", !.user = u, !.other = o]
    <2>1. v \in Req /\ LocalsOK(v) /\ v.at = "redeem_check" /\ v.user = u /\ v.other = o
      BY IdleOK DEF Req, People, LocalsOK
    <2>2. Start(q, v) /\ u # o /\ Alone(u)
      BY <1>2 DEF Redeem
    <2> HIDE DEF v
    <2>3. QED
      BY <1>2, <2>1, <2>2, StartOK DEF Starts
  <1>3. ASSUME NEW u \in Users, NEW t \in Trips, NEW with \in BOOLEAN, Book(q, u, t, with)
        PROVE  /\ RequestsOK' /\ \A p \in Requests \ {q} : req'[p] = req[p]
               /\ req[q].at = "idle" /\ Starts(q)
    <2> DEFINE s == IF with THEN "promo_read" ELSE "book_insert"
    <2> DEFINE v == [Idle EXCEPT !.at = s, !.user = u, !.trip = t, !.promo = with]
    <2>1. s \in {"promo_read", "book_insert"}
      OBVIOUS
    <2>2. Start(q, v)
      BY <1>3 DEF Book
    <2>3. s = IF with THEN "promo_read" ELSE "book_insert"
      OBVIOUS
    <2> HIDE DEF s
    <2>4. v \in Req /\ LocalsOK(v) /\ v.at = s /\ v.promo = with
      BY <2>1, IdleOK DEF Req, People, LocalsOK
    <2> HIDE DEF v
    <2>5. QED
      BY <1>3, <2>2, <2>3, <2>4, StartOK DEF Starts
  <1>4. ASSUME NEW u \in Users, Offer(q, u)
        PROVE  /\ RequestsOK' /\ \A p \in Requests \ {q} : req'[p] = req[p]
               /\ req[q].at = "idle" /\ Starts(q)
    <2> DEFINE s == IF HasKv THEN "key_get" ELSE "key_db"
    <2> DEFINE v == [Idle EXCEPT !.at = s, !.user = u]
    <2>1. s \in {"key_get", "key_db"} /\ Start(q, v) /\ Alone(u)
      BY <1>4 DEF Offer
    <2>2. s = IF HasKv THEN "key_get" ELSE "key_db"
      OBVIOUS
    <2> HIDE DEF s
    <2>3. v \in Req /\ LocalsOK(v) /\ v.at = s /\ v.user = u
      BY <2>1, IdleOK DEF Req, People, LocalsOK
    <2> HIDE DEF v
    <2>4. QED
      BY <1>4, <2>1, <2>2, <2>3, StartOK DEF Starts
  <1>5. CASE \/ CodeInsert(q) \/ RedeemCount(q) \/ PromoCount(q) \/ OfferRefuse(q)
             \/ OfferDriver(q) \/ Abort(q)
    BY <1>5, DoneOK DEF CodeInsert, RedeemCount, PromoCount, OfferRefuse, OfferDriver, Abort, Ends
  <1>6. CASE RedeemCheck(q)
    BY <1>6, DoneOK, GotoOK DEF RedeemCheck, Ends, GoesOn
  <1>7. CASE PromoRead(q) \/ PromoUsed(q)
    BY <1>7, DoneOK, GotoOK DEF PromoRead, PromoUsed, Ends, GoesOn
  <1>8. CASE BookInsert(q)
    BY <1>8, DoneOK, GotoOK DEF BookInsert, Ends, GoesOn
  <1>9. CASE PromoRedeem(q)
    BY <1>9, DoneOK, GotoOK DEF PromoRedeem, Ends, GoesOn
  <1>10. CASE KeyGet(q) \/ KeyDb(q)
    BY <1>10, DoneOK, GotoOK DEF KeyGet, KeyDb, Ends, GoesOn
  <1>11. CASE KeyPut(q) \/ KvFails(q) \/ DbFails(q) \/ OfferInsert(q)
    BY <1>11, GotoOK DEF KeyPut, KvFails, DbFails, OfferInsert, GoesOn
  <1>12. CASE AwardInsert(q)
    BY <1>12, GotoOK DEF AwardInsert, AfterAward, GoesOn
  <1>13. CASE AwardLook(q)
    BY <1>13, GotoOK DEF AwardLook, AfterAward, GoesOn
  <1>14. QED
    BY <1>1, <1>2, <1>3, <1>4, <1>5, <1>6, <1>7, <1>8, <1>9, <1>10, <1>11, <1>12, <1>13
       DEF Handler, Referral, Promotion, Offering

-----------------------------------------------------------------------------
(* Type correctness                                                        *)

Counts ==
    /\ points \in [Reasons \X Users \X Users -> Nat]
    /\ code \in [Users -> [rows : 0..1, uses : Nat]]
    /\ promo \in [active : BOOLEAN, uses : Nat]
    /\ offered \in [Users -> [trips : Nat, drivers : Nat]]

LEMMA TypeIs == TypeOK <=>
    /\ Counts /\ RequestsOK
    /\ redeemed \subseteq Users \X Trips
    /\ booked \subseteq Users \X Trips
    /\ seen \in [kv : SUBSET Users, db : SUBSET Users]
    /\ served \in Nat /\ aborts \in Nat /\ uncounted \in Nat /\ trouble \in Nat
  BY DEF TypeOK, Counts, RequestsOK, LocalsOK

LEMMA TypeInit == Init => TypeOK
  BY IdleOK, LedgerAssumption DEF Init, TypeOK, LocalsOK, RedeemSteps

\* The row an award is written to.
LEMMA RowIs ==
  ASSUME TypeOK, NEW q \in Requests
  PROVE  /\ req[q].at \in {"own_look", "own_award"} =>
               /\ Row(q) = <<"referral_redeem", req[q].user, req[q].other>>
               /\ Row(q) \in Reasons \X Users \X Users
         /\ req[q].at \in {"referrer_look", "referrer_award"} =>
               /\ Row(q) = <<"referral_success", req[q].other, req[q].user>>
               /\ Row(q) \in Reasons \X Users \X Users
  BY DEF TypeOK, Row, Reason, Reasons, RedeemSteps

LEMMA TypeNext == TypeOK /\ [Next]_vars => TypeOK'
  <1> SUFFICES ASSUME TypeOK, [Next]_vars PROVE TypeOK'
    OBVIOUS
  <1>1. ASSUME NEW q \in Requests, Handler(q) PROVE TypeOK'
    <2>1. RequestsOK /\ Counts
      BY TypeIs
    <2>2. RequestsOK'
      BY <1>1, <2>1, ControlFlow
    <2>3. points' \in [Reasons \X Users \X Users -> Nat]
      <3>1. CASE UNCHANGED points
        BY <2>1, <3>1 DEF Counts
      <3>2. CASE AwardInsert(q)
        <4>1. Row(q) \in Reasons \X Users \X Users
          BY <3>2, RowIs DEF AwardInsert
        <4>2. points' = [points EXCEPT ![Row(q)] = points[Row(q)] + 1]
          BY <3>2 DEF AwardInsert
        <4>3. points[Row(q)] + 1 \in Nat
          BY <2>1, <4>1 DEF Counts
        <4> HIDE DEF Row
        <4>4. QED
          BY <2>1, <4>1, <4>2, <4>3 DEF Counts
      <3>3. QED
        BY <1>1, <3>1, <3>2 DEF Handler, Referral, Promotion, Offering, CodeInsert, CodeRead,
           Redeem, RedeemCheck, AwardLook, RedeemCount, PromoRead, PromoUsed, BookInsert,
           PromoRedeem, PromoCount, Book, KeyGet, KeyPut, KvFails, KeyDb, DbFails, OfferRefuse,
           OfferInsert, OfferDriver, Offer, Abort
    <2>4. code' \in [Users -> [rows : 0..1, uses : Nat]]
      <3>1. CASE UNCHANGED code
        BY <2>1, <3>1 DEF Counts
      <3>2. CASE CodeInsert(q)
        <4>1. code' = code \/ \E u : code' = [code EXCEPT ![u].rows = 1]
          BY <3>2 DEF CodeInsert, CodeRow
        <4>2. QED
          BY <2>1, <4>1 DEF Counts
      <3>3. CASE RedeemCount(q)
        <4>1. PICK u \in Users : code' = [code EXCEPT ![u].uses = code[u].uses + 1]
          BY <3>3 DEF RedeemCount, TypeOK, RedeemSteps
        <4>2. code[u].uses + 1 \in Nat
          BY <2>1 DEF Counts
        <4>3. QED
          BY <2>1, <4>1, <4>2 DEF Counts
      <3>4. QED
        BY <1>1, <3>1, <3>2, <3>3 DEF Handler, Referral, Promotion, Offering, CodeRead,
           Redeem, RedeemCheck, AwardLook, AwardInsert, PromoRead, PromoUsed, BookInsert,
           PromoRedeem, PromoCount, Book, KeyGet, KeyPut, KvFails, KeyDb, DbFails, OfferRefuse,
           OfferInsert, OfferDriver, Offer, Abort
    <2>5. promo' \in [active : BOOLEAN, uses : Nat]
      <3>1. CASE UNCHANGED promo
        BY <2>1, <3>1 DEF Counts
      <3>2. CASE PromoCount(q)
        BY <2>1, <3>2 DEF PromoCount, Counts
      <3>3. QED
        BY <1>1, <3>1, <3>2 DEF Handler, Referral, Promotion, Offering, CodeInsert, CodeRead,
           Redeem, RedeemCheck, AwardLook, AwardInsert, RedeemCount, PromoRead, PromoUsed,
           BookInsert, PromoRedeem, Book, KeyGet, KeyPut, KvFails, KeyDb, DbFails, OfferRefuse,
           OfferInsert, OfferDriver, Offer, Abort
    <2>6. offered' \in [Users -> [trips : Nat, drivers : Nat]]
      <3>1. CASE UNCHANGED offered
        BY <2>1, <3>1 DEF Counts
      <3>2. CASE OfferInsert(q) \/ OfferDriver(q)
        BY <2>1, <3>2 DEF OfferInsert, OfferDriver, Counts
      <3>3. QED
        BY <1>1, <3>1, <3>2 DEF Handler, Referral, Promotion, Offering, CodeInsert, CodeRead,
           Redeem, RedeemCheck, AwardLook, AwardInsert, RedeemCount, PromoRead, PromoUsed,
           BookInsert, PromoRedeem, PromoCount, Book, KeyGet, KeyPut, KvFails, KeyDb, DbFails,
           OfferRefuse, Offer, Abort
    <2>7. redeemed' \subseteq Users \X Trips /\ booked' \subseteq Users \X Trips
      <3>1. req[q].at # "idle" => <<req[q].user, req[q].trip>> \in Users \X Trips
        BY DEF TypeOK, Req
      <3>2. CASE BookInsert(q) \/ PromoRedeem(q)
        BY <3>1, <3>2 DEF BookInsert, PromoRedeem, TypeOK
      <3>3. CASE UNCHANGED <<redeemed, booked>>
        BY <3>3 DEF TypeOK
      <3>4. QED
        BY <1>1, <3>2, <3>3 DEF Handler, Referral, Promotion, Offering, CodeInsert, CodeRead,
           Redeem, RedeemCheck, AwardLook, AwardInsert, RedeemCount, PromoRead, PromoUsed,
           PromoCount, Book, KeyGet, KeyPut, KvFails, KeyDb, DbFails, OfferRefuse, OfferInsert,
           OfferDriver, Offer, Abort
    <2>8. seen' \in [kv : SUBSET Users, db : SUBSET Users]
      <3>1. CASE KeyPut(q)
        BY <3>1 DEF KeyPut, TypeOK
      <3>2. CASE KeyDb(q)
        BY <3>2 DEF KeyDb, TypeOK
      <3>3. CASE UNCHANGED seen
        BY <3>3 DEF TypeOK
      <3>4. QED
        BY <1>1, <3>1, <3>2, <3>3 DEF Handler, Referral, Promotion, Offering, CodeInsert, CodeRead,
           Redeem, RedeemCheck, AwardLook, AwardInsert, RedeemCount, PromoRead, PromoUsed,
           BookInsert, PromoRedeem, PromoCount, Book, KeyGet, KvFails, DbFails, OfferRefuse,
           OfferInsert, OfferDriver, Offer, Abort
    <2>9. served' \in Nat /\ aborts' \in Nat /\ uncounted' \in Nat /\ trouble' \in Nat
      <3>1. served' \in {served, served + 1}
        BY <1>1 DEF Start, Handler, Referral, Promotion, Offering, CodeInsert, CodeRead,
           Redeem, RedeemCheck, AwardLook, AwardInsert, RedeemCount, PromoRead, PromoUsed,
           BookInsert, PromoRedeem, PromoCount, Book, KeyGet, KeyPut, KvFails, KeyDb, DbFails,
           OfferRefuse, OfferInsert, OfferDriver, Offer, Abort
      <3>2. aborts' \in {aborts, aborts + 1}
        BY <1>1 DEF Start, Handler, Referral, Promotion, Offering, CodeInsert, CodeRead,
           Redeem, RedeemCheck, AwardLook, AwardInsert, RedeemCount, PromoRead, PromoUsed,
           BookInsert, PromoRedeem, PromoCount, Book, KeyGet, KeyPut, KvFails, KeyDb, DbFails,
           OfferRefuse, OfferInsert, OfferDriver, Offer, Abort
      <3>3. uncounted' \in {uncounted, uncounted + 1}
        BY <1>1 DEF Handler, Referral, Promotion, Offering, CodeInsert, CodeRead,
           Redeem, RedeemCheck, AwardLook, AwardInsert, RedeemCount, PromoRead, PromoUsed,
           BookInsert, PromoRedeem, PromoCount, Book, KeyGet, KeyPut, KvFails, KeyDb, DbFails,
           OfferRefuse, OfferInsert, OfferDriver, Offer, Abort
      <3>4. trouble' \in {trouble, trouble + 1}
        BY <1>1 DEF Handler, Referral, Promotion, Offering, CodeInsert, CodeRead,
           Redeem, RedeemCheck, AwardLook, AwardInsert, RedeemCount, PromoRead, PromoUsed,
           BookInsert, PromoRedeem, PromoCount, Book, KeyGet, KeyPut, KvFails, KeyDb, DbFails,
           OfferRefuse, OfferInsert, OfferDriver, Offer, Abort
      <3>5. QED
        BY <3>1, <3>2, <3>3, <3>4 DEF TypeOK
    <2>10. QED
      BY <2>2, <2>3, <2>4, <2>5, <2>6, <2>7, <2>8, <2>9 DEF TypeOK, RequestsOK, LocalsOK
  <1>2. CASE PromoSwitch
    BY <1>2 DEF PromoSwitch, TypeOK
  <1>3. CASE \E u \in Users : KeyExpires(u)
    BY <1>3 DEF KeyExpires, TypeOK
  <1>4. CASE UNCHANGED vars
    BY <1>4 DEF vars, TypeOK
  <1>5. QED
    BY <1>1, <1>2, <1>3, <1>4 DEF Next, Handler

\* Every row keeps its type.
THEOREM TypeCorrect == Spec => []TypeOK
  BY TypeInit, TypeNext, PTL DEF Spec

\* A step that belongs to no handler writes neither a request nor a row of points.
LEMMA Outside ==
  ASSUME [Next]_vars, ~ \E q \in Requests : Handler(q)
  PROVE  UNCHANGED <<points, code, redeemed, booked, offered, req, uncounted>>
  BY DEF Next, vars, Handler, PromoSwitch, KeyExpires

\* Where any step takes a slot.
LEMMA Slots ==
  ASSUME TypeOK, [Next]_vars, NEW p \in Requests
  PROVE  \/ req'[p] = req[p]
         \/ req[p].at = "idle" /\ Starts(p)
         \/ req'[p].at = "idle" /\ req'[p].user = Nobody /\ Ends(p, req[p].at)
         \/ /\ GoesOn(p, req[p].at, req'[p].at)
            /\ req'[p].user = req[p].user /\ req'[p].other = req[p].other
            /\ req'[p].trip = req[p].trip /\ req'[p].promo = req[p].promo
  BY ControlFlow, TypeIs, Outside

\* Two slots never move in one step.
LEMMA OneMoves ==
  ASSUME TypeOK, [Next]_vars, NEW p \in Requests, NEW q \in Requests, p # q
  PROVE  req'[p] = req[p] \/ req'[q] = req[q]
  BY ControlFlow, TypeIs, Outside

\* Sets of slots that differ in one slot.
LEMMA OneSlot ==
  ASSUME NEW S \in SUBSET Requests, NEW T \in SUBSET Requests, NEW q,
         \A p \in Requests \ {q} : p \in S <=> p \in T
  PROVE  /\ IsFiniteSet(S) /\ IsFiniteSet(T)
         /\ Cardinality(S) \in Nat /\ Cardinality(T) \in Nat
         /\ Cardinality(T) + (IF q \in S THEN 1 ELSE 0) = Cardinality(S) + (IF q \in T THEN 1 ELSE 0)
  <1>1. /\ IsFiniteSet(S) /\ IsFiniteSet(T)
        /\ Cardinality(S) \in Nat /\ Cardinality(T) \in Nat
    BY LedgerAssumption, FS_Subset, FS_CardinalityType
  <1>2. S \ {q} = T \ {q}
    OBVIOUS
  <1>3. /\ Cardinality(S \ {q}) = IF q \in S THEN Cardinality(S) - 1 ELSE Cardinality(S)
        /\ Cardinality(T \ {q}) = IF q \in T THEN Cardinality(T) - 1 ELSE Cardinality(T)
    BY <1>1, FS_RemoveElement
  <1>4. QED
    BY <1>1, <1>2, <1>3

\* Points are added, by an award, and never taken away.
LEMMA PointsMove ==
  ASSUME TypeOK, [Next]_vars, NEW row \in Reasons \X Users \X Users
  PROVE  \/ points'[row] = points[row]
         \/ /\ points'[row] = points[row] + 1
            /\ \E q \in Requests :
                  \/ /\ AwardInsert(q) /\ req[q].at = "own_award"
                     /\ row = <<"referral_redeem", req[q].user, req[q].other>>
                  \/ /\ AwardInsert(q) /\ req[q].at = "referrer_award"
                     /\ row = <<"referral_success", req[q].other, req[q].user>>
  <1>1. ASSUME NEW q \in Requests, AwardInsert(q)
        PROVE  \/ points'[row] = points[row]
               \/ points'[row] = points[row] + 1 /\ row = Row(q)
    <2>1. points' = [points EXCEPT ![Row(q)] = points[Row(q)] + 1]
      BY <1>1 DEF AwardInsert
    <2> HIDE DEF Row
    <2>2. QED
      BY <2>1 DEF TypeOK
  <1>2. ASSUME NEW q \in Requests, AwardInsert(q)
        PROVE  \/ req[q].at = "own_award" /\ Row(q) = <<"referral_redeem", req[q].user, req[q].other>>
               \/ req[q].at = "referrer_award" /\ Row(q) = <<"referral_success", req[q].other, req[q].user>>
    BY <1>2, RowIs DEF AwardInsert
  <1>3. (\E q \in Requests : AwardInsert(q)) \/ UNCHANGED points
    BY DEF Next, vars, PromoSwitch, KeyExpires, Referral, Promotion, Offering, CodeInsert,
       CodeRead, Redeem, RedeemCheck, AwardLook, RedeemCount, PromoRead, PromoUsed, BookInsert,
       PromoRedeem, PromoCount, Book, KeyGet, KeyPut, KvFails, KeyDb, DbFails, OfferRefuse,
       OfferInsert, OfferDriver, Offer, Abort
  <1>4. QED
    BY <1>1, <1>2, <1>3

LEMMA PointsStay ==
  ASSUME TypeOK, [Next]_vars, NEW row \in Reasons \X Users \X Users, points[row] > 0
  PROVE  points'[row] > 0
  BY PointsMove DEF TypeOK

-----------------------------------------------------------------------------
(* A referrer's points follow the friend's                                 *)

\* A request that turns to the referrer has seen to the friend.
FriendFirst ==
    \A q \in Requests :
       req[q].at \in {"referrer_look", "referrer_award", "redeem_count"}
          => HasRedeemedThis(req[q].user, req[q].other)

LEMMA FriendInit == Init => ReferrerFollowsFriend /\ FriendFirst
  BY IdleOK DEF Init, ReferrerFollowsFriend, FriendFirst, Reasons

LEMMA FriendNext ==
  ASSUME TypeOK, ReferrerFollowsFriend, FriendFirst, [Next]_vars
  PROVE  ReferrerFollowsFriend' /\ FriendFirst'
  <1>0. \A u, o \in Users : HasRedeemedThis(u, o) => points'[<<"referral_redeem", u, o>>] > 0
    BY PointsStay DEF HasRedeemedThis, Reasons
  <1>1. ASSUME NEW u \in Users, NEW o \in Users, points'[<<"referral_success", o, u>>] > 0
        PROVE  points'[<<"referral_redeem", u, o>>] > 0
    <2> DEFINE row == <<"referral_success", o, u>>
    <2>1. row \in Reasons \X Users \X Users
      BY DEF Reasons
    <2>2. CASE points'[row] = points[row]
      BY <1>0, <1>1, <2>2 DEF ReferrerFollowsFriend
    <2>3. ASSUME NEW q \in Requests, req[q].at = "referrer_award",
                 row = <<"referral_success", req[q].other, req[q].user>>
          PROVE  points'[<<"referral_redeem", u, o>>] > 0
      BY <1>0, <2>3 DEF FriendFirst
    <2>4. \A q \in Requests : row # <<"referral_redeem", req[q].user, req[q].other>>
      OBVIOUS
    <2>5. QED
      BY <2>1, <2>2, <2>3, <2>4, PointsMove
  <1>2. ASSUME NEW p \in Requests,
               req'[p].at \in {"referrer_look", "referrer_award", "redeem_count"}
        PROVE  points'[<<"referral_redeem", req'[p].user, req'[p].other>>] > 0
    <2> DEFINE u == req[p].user
    <2> DEFINE o == req[p].other
    <2>0. req[p].at \in RedeemSteps => u \in Users /\ o \in Users
      BY DEF TypeOK, RedeemSteps
    <2>1. ASSUME req[p].at \in {"referrer_look", "referrer_award", "redeem_count"},
                 req'[p].user = u, req'[p].other = o
          PROVE  points'[<<"referral_redeem", req'[p].user, req'[p].other>>] > 0
      BY <1>0, <2>0, <2>1 DEF FriendFirst, RedeemSteps
    <2>2. ASSUME req[p].at = "own_look", points[Row(p)] > 0,
                 req'[p].user = u, req'[p].other = o
          PROVE  points'[<<"referral_redeem", req'[p].user, req'[p].other>>] > 0
      BY <1>0, <2>0, <2>2, RowIs DEF HasRedeemedThis, RedeemSteps
    <2>3. ASSUME req[p].at = "own_award", AwardInsert(p),
                 req'[p].user = u, req'[p].other = o
          PROVE  points'[<<"referral_redeem", req'[p].user, req'[p].other>>] > 0
      <3>1. Row(p) = <<"referral_redeem", u, o>> /\ Row(p) \in Reasons \X Users \X Users
        BY <2>3, RowIs
      <3>2. points' = [points EXCEPT ![<<"referral_redeem", u, o>>] = points[Row(p)] + 1]
        BY <2>3, <3>1 DEF AwardInsert
      <3>3. points[Row(p)] \in Nat
        BY <3>1 DEF TypeOK
      <3> HIDE DEF Row, u, o
      <3>4. QED
        BY <2>3, <3>1, <3>2, <3>3 DEF TypeOK
    <2>4. CASE req'[p] = req[p]
      BY <1>2, <2>1, <2>4
    <2>5. CASE Starts(p)
      BY <1>2, <2>5 DEF Starts
    <2>6. CASE /\ GoesOn(p, req[p].at, req'[p].at)
               /\ req'[p].user = req[p].user /\ req'[p].other = req[p].other
      BY <1>2, <2>1, <2>2, <2>3, <2>6 DEF GoesOn
    <2>7. QED
      BY <1>2, <2>4, <2>5, <2>6, Slots
  <1>3. QED
    BY <1>1, <1>2 DEF ReferrerFollowsFriend, FriendFirst, HasRedeemedThis

\* A referrer is paid for a friend only when the friend was paid, whatever dies
\* between the two awards (loyalty.ts:149-150).
THEOREM ReferrerIsSecond == Spec => []ReferrerFollowsFriend
  <1>1. Spec => [](TypeOK /\ ReferrerFollowsFriend /\ FriendFirst)
    <2>1. Init => TypeOK /\ ReferrerFollowsFriend /\ FriendFirst
      BY TypeInit, FriendInit
    <2>2. (TypeOK /\ ReferrerFollowsFriend /\ FriendFirst) /\ [Next]_vars
             => (TypeOK /\ ReferrerFollowsFriend /\ FriendFirst)'
      BY TypeNext, FriendNext
    <2>3. QED
      BY <2>1, <2>2, PTL DEF Spec
  <1>2. QED
    BY <1>1, PTL

-----------------------------------------------------------------------------
(* A discount has a booking                                                *)

\* A request that records a redemption has made its booking.
BookedFirst ==
    \A q \in Requests : req[q].at = "promo_redeem" => <<req[q].user, req[q].trip>> \in booked

LEMMA DiscountInit == Init => DiscountHasBooking /\ BookedFirst
  BY IdleOK DEF Init, DiscountHasBooking, BookedFirst

\* The only step that redeems is the one that finds the code unused.
LEMMA RedeemedMoves ==
  ASSUME TypeOK, [Next]_vars
  PROVE  /\ booked \subseteq booked'
         /\ \/ redeemed' = redeemed
            \/ \E q \in Requests :
                  /\ PromoRedeem(q) /\ req[q].at = "promo_redeem" /\ ~HasUsed(req[q].user)
                  /\ redeemed' = redeemed \union {<<req[q].user, req[q].trip>>}
  <1>1. ASSUME NEW q \in Requests, PromoRedeem(q)
        PROVE  /\ booked' = booked
               /\ \/ redeemed' = redeemed
                  \/ /\ PromoRedeem(q) /\ req[q].at = "promo_redeem" /\ ~HasUsed(req[q].user)
                     /\ redeemed' = redeemed \union {<<req[q].user, req[q].trip>>}
    BY <1>1 DEF PromoRedeem
  <1>2. ASSUME NEW q \in Requests, BookInsert(q)
        PROVE  redeemed' = redeemed /\ booked \subseteq booked'
    BY <1>2 DEF BookInsert
  <1>3. (\E q \in Requests : PromoRedeem(q) \/ BookInsert(q)) \/ UNCHANGED <<redeemed, booked>>
    BY ZenonT(90) DEF Next, vars, PromoSwitch, KeyExpires, Referral, Promotion, Offering, CodeInsert,
       CodeRead, Redeem, RedeemCheck, AwardLook, AwardInsert, RedeemCount, PromoRead, PromoUsed,
       PromoCount, Book, KeyGet, KeyPut, KvFails, KeyDb, DbFails, OfferRefuse, OfferInsert,
       OfferDriver, Offer, Abort
  <1>4. QED
    BY <1>1, <1>2, <1>3

LEMMA DiscountNext ==
  ASSUME TypeOK, DiscountHasBooking, BookedFirst, [Next]_vars
  PROVE  DiscountHasBooking' /\ BookedFirst'
  <1>1. redeemed' \subseteq booked'
    BY RedeemedMoves DEF DiscountHasBooking, BookedFirst
  <1>2. ASSUME NEW u \in Users, NEW s \in Trips, NEW t \in Trips,
               <<u, s>> \in redeemed', <<u, t>> \in redeemed'
        PROVE  s = t
    <2>1. CASE redeemed' = redeemed
      BY <1>2, <2>1 DEF DiscountHasBooking
    <2>2. ASSUME NEW q \in Requests, ~HasUsed(req[q].user),
                 redeemed' = redeemed \union {<<req[q].user, req[q].trip>>}
          PROVE  s = t
      <3>1. ASSUME NEW x \in Trips, <<u, x>> \in redeemed'
            PROVE  <<u, x>> \in redeemed \/ (u = req[q].user /\ x = req[q].trip)
        BY <2>2, <3>1
      <3>2. u = req[q].user => \A x \in Trips : <<u, x>> \notin redeemed
        BY <2>2 DEF HasUsed
      <3>3. QED
        BY <1>2, <3>1, <3>2 DEF DiscountHasBooking
    <2>3. QED
      BY <2>1, <2>2, RedeemedMoves
  <1>3. ASSUME NEW p \in Requests, req'[p].at = "promo_redeem"
        PROVE  <<req'[p].user, req'[p].trip>> \in booked'
    <2>1. CASE req'[p] = req[p]
      BY <1>3, <2>1, RedeemedMoves DEF BookedFirst
    <2>2. CASE Starts(p)
      BY <1>3, <2>2 DEF Starts
    <2>3. CASE /\ GoesOn(p, req[p].at, req'[p].at)
               /\ req'[p].user = req[p].user /\ req'[p].trip = req[p].trip
      BY <1>3, <2>3 DEF GoesOn, BookInsert
    <2>4. QED
      BY <1>3, <2>1, <2>2, <2>3, Slots
  <1>4. QED
    BY <1>1, <1>2, <1>3 DEF DiscountHasBooking, BookedFirst

\* A code is spent on one booking, which exists, however many bookings of a user
\* race for it (trips.ts:785-808).
THEOREM DiscountIsBooked == Spec => []DiscountHasBooking
  <1>1. Spec => [](TypeOK /\ DiscountHasBooking /\ BookedFirst)
    <2>1. Init => TypeOK /\ DiscountHasBooking /\ BookedFirst
      BY TypeInit, DiscountInit
    <2>2. (TypeOK /\ DiscountHasBooking /\ BookedFirst) /\ [Next]_vars
             => (TypeOK /\ DiscountHasBooking /\ BookedFirst)'
      BY TypeNext, DiscountNext
    <2>3. QED
      BY <2>1, <2>2, PTL DEF Spec
  <1>2. QED
    BY <1>1, PTL

-----------------------------------------------------------------------------
(* One request at a time                                                   *)

Single == RedeemSteps \union OfferSteps

\* Nobody has two redemptions or offers in flight.
Exclusive ==
    \A p, q \in Requests :
       p # q /\ req[p].at \in Single /\ req[q].at \in Single => req[p].user # req[q].user

LEMMA SingleStays ==
  ASSUME TypeOK, [Next]_vars, NEW p \in Requests, req'[p].at \in Single
  PROVE  \/ req'[p].user = req[p].user /\ req[p].at \in Single
         \/ Alone(req'[p].user) /\ req'[p].user \in Users
  <1> USE DEF Single, RedeemSteps, OfferSteps
  <1>1. CASE req'[p] = req[p]
    BY <1>1
  <1>2. CASE Starts(p)
    BY <1>2 DEF Starts
  <1>3. CASE GoesOn(p, req[p].at, req'[p].at) /\ req'[p].user = req[p].user
    BY <1>3 DEF GoesOn
  <1>4. QED
    BY <1>1, <1>2, <1>3, Slots

LEMMA ExclusiveNext ==
  ASSUME OneAtATime, TypeOK, Exclusive, [Next]_vars
  PROVE  Exclusive'
  <1> SUFFICES ASSUME NEW p \in Requests, NEW q \in Requests, p # q,
                      req'[p].at \in Single, req'[q].at \in Single
               PROVE  req'[p].user # req'[q].user
    BY DEF Exclusive
  <1>1. ASSUME NEW x \in Requests, NEW y \in Requests, x # y, req'[y] = req[y],
               req'[x].at \in Single, req'[y].at \in Single
        PROVE  req'[x].user # req'[y].user
    BY <1>1, SingleStays DEF Exclusive, Alone
  <1>2. QED
    BY <1>1, OneMoves

-----------------------------------------------------------------------------
(* An award is made once                                                   *)

\* A request that is about to award has found nothing, and nobody else writes
\* the row meanwhile.
FoundNothing ==
    \A q \in Requests :
       /\ req[q].at \in {"own_look", "own_award"} => ~HasRedeemed(req[q].user)
       /\ req[q].at = "referrer_award" =>
             points[<<"referral_success", req[q].other, req[q].user>>] = 0

Awards == Exclusive /\ AwardedOnce /\ FoundNothing

LEMMA AwardsInit == Init => Awards
  BY IdleOK DEF Init, Awards, Exclusive, AwardedOnce, FoundNothing, Single, RedeemSteps,
     OfferSteps, Reasons, HasRedeemedThis

LEMMA AwardsNext ==
  ASSUME OneAtATime, TypeOK, Awards, [Next]_vars
  PROVE  Awards'
  <1> USE DEF Awards
  <1>1. Exclusive'
    BY ExclusiveNext
  <1>2. \A row \in Reasons \X Users \X Users : points[row] \in Nat
    BY DEF TypeOK
  <1>3. \A u, o \in Users : /\ <<"referral_redeem", u, o>> \in Reasons \X Users \X Users
                            /\ <<"referral_success", o, u>> \in Reasons \X Users \X Users
    BY DEF Reasons
  \* Who writes a row finds it at nought.
  <1>4. ASSUME NEW u \in Users, NEW o \in Users
        PROVE  \/ points'[<<"referral_redeem", u, o>>] = points[<<"referral_redeem", u, o>>]
               \/ /\ points'[<<"referral_redeem", u, o>>] = 1
                  /\ \A p \in Users : points[<<"referral_redeem", u, p>>] = 0
                  /\ \E q \in Requests : /\ req[q].at = "own_award" /\ AwardInsert(q)
                                         /\ req[q].user = u /\ req[q].other = o
    <2> DEFINE row == <<"referral_redeem", u, o>>
    <2>1. ASSUME NEW q \in Requests, req[q].at = "own_award", AwardInsert(q), points'[row] = points[row] + 1,
                 row = <<"referral_redeem", req[q].user, req[q].other>>
          PROVE  /\ points'[row] = 1
                 /\ \A p \in Users : points[<<"referral_redeem", u, p>>] = 0
                 /\ req[q].user = u /\ req[q].other = o
      <3>1. req[q].user = u /\ req[q].other = o
        BY <2>1
      <3>2. ~HasRedeemed(u)
        BY <2>1, <3>1 DEF FoundNothing
      <3>3. \A p \in Users : points[<<"referral_redeem", u, p>>] = 0
        <4>1. \A p \in Users : points[<<"referral_redeem", u, p>>] \in Nat
          BY <1>2, <1>3
        <4>2. QED
          BY <3>2, <4>1 DEF HasRedeemed
      <3>4. QED
        BY <2>1, <3>1, <3>3
    <2>2. \A q \in Requests : row # <<"referral_success", req[q].other, req[q].user>>
      OBVIOUS
    <2>3. QED
      BY <1>3, <2>1, <2>2, PointsMove
  <1>5. ASSUME NEW u \in Users, NEW o \in Users
        PROVE  \/ points'[<<"referral_success", o, u>>] = points[<<"referral_success", o, u>>]
               \/ /\ points'[<<"referral_success", o, u>>] = 1
                  /\ \E q \in Requests : /\ req[q].at = "referrer_award" /\ AwardInsert(q)
                                         /\ req[q].user = u /\ req[q].other = o
    <2> DEFINE row == <<"referral_success", o, u>>
    <2>1. ASSUME NEW q \in Requests, req[q].at = "referrer_award", AwardInsert(q), points'[row] = points[row] + 1,
                 row = <<"referral_success", req[q].other, req[q].user>>
          PROVE  points'[row] = 1 /\ req[q].user = u /\ req[q].other = o
      BY <2>1 DEF FoundNothing
    <2>2. \A q \in Requests : row # <<"referral_redeem", req[q].user, req[q].other>>
      OBVIOUS
    <2>3. QED
      BY <1>3, <2>1, <2>2, PointsMove
  <1>6. AwardedOnce'
    <2>1. ASSUME NEW u \in Users, NEW o \in Users
          PROVE  /\ points'[<<"referral_redeem", u, o>>] <= 1
                 /\ points'[<<"referral_success", o, u>>] <= 1
      BY <1>4, <1>5 DEF AwardedOnce
    <2>2. ASSUME NEW u \in Users, NEW o \in Users, NEW p \in Users,
                 points'[<<"referral_redeem", u, o>>] > 0, points'[<<"referral_redeem", u, p>>] > 0
          PROVE  o = p
      <3>1. CASE /\ points'[<<"referral_redeem", u, o>>] = points[<<"referral_redeem", u, o>>]
                 /\ points'[<<"referral_redeem", u, p>>] = points[<<"referral_redeem", u, p>>]
        BY <2>2, <3>1 DEF AwardedOnce, HasRedeemedThis
      <3>2. ASSUME NEW q \in Requests, AwardInsert(q), req[q].user = u, req[q].at = "own_award",
                   \A x \in Users : points[<<"referral_redeem", u, x>>] = 0
            PROVE  o = p
        <4>1. points' = [points EXCEPT ![<<"referral_redeem", u, req[q].other>>] = @ + 1]
          BY <3>2, RowIs DEF AwardInsert
        <4>2. \A x \in Users : x # req[q].other => points'[<<"referral_redeem", u, x>>] = 0
          BY <1>3, <3>2, <4>1 DEF TypeOK
        <4>3. QED
          BY <2>2, <4>2
      <3>3. QED
        BY <1>4, <3>1, <3>2
    <2>3. QED
      BY <2>1, <2>2 DEF AwardedOnce, HasRedeemedThis
  <1>7. FoundNothing'
    <2>0. {"own_look", "own_award", "referrer_award", "referrer_look", "redeem_check"} \subseteq Single
      BY DEF Single, RedeemSteps
    <2>1. ASSUME NEW p \in Requests, req'[p].at \in {"own_look", "own_award"}
          PROVE  \A o \in Users : ~(points'[<<"referral_redeem", req'[p].user, o>>] > 0)
      <3>1. /\ req'[p].user = req[p].user /\ ~HasRedeemed(req[p].user)
            /\ req[p].at \in {"redeem_check", "own_look", "own_award"}
            /\ ~(req[p].at = "own_award" /\ AwardInsert(p))
        <4>1. CASE req'[p] = req[p]
          <5>1. ~(req[p].at = "own_award" /\ AwardInsert(p))
            BY <4>1, GotoOK, TypeIs DEF AwardInsert, AfterAward, Steps, RedeemSteps
          <5>2. QED
            BY <2>1, <4>1, <5>1 DEF FoundNothing
        <4>2. CASE Starts(p)
          BY <2>1, <4>2 DEF Starts
        <4>3. CASE /\ GoesOn(p, req[p].at, req'[p].at) /\ req'[p].user = req[p].user
          BY <2>1, <4>3 DEF GoesOn, FoundNothing
        <4>4. QED
          BY <2>1, <4>1, <4>2, <4>3, Slots
      <3>2. req[p].user \in Users
        BY <3>1 DEF TypeOK
      <3>3. ASSUME NEW q \in Requests, req[q].at = "own_award", AwardInsert(q), req[q].user = req[p].user
            PROVE  FALSE
        BY <2>0, <3>1, <3>3 DEF Exclusive
      <3>4. QED
        BY <1>4, <3>1, <3>2, <3>3 DEF HasRedeemed
    <2>2. ASSUME NEW p \in Requests, req'[p].at = "referrer_award"
          PROVE  points'[<<"referral_success", req'[p].other, req'[p].user>>] = 0
      <3>1. /\ req'[p].user = req[p].user /\ req'[p].other = req[p].other
            /\ points[<<"referral_success", req[p].other, req[p].user>>] = 0
            /\ req[p].at \in {"referrer_look", "referrer_award"}
            /\ ~(req[p].at = "referrer_award" /\ AwardInsert(p))
        <4>1. CASE req'[p] = req[p]
          <5>1. ~(req[p].at = "referrer_award" /\ AwardInsert(p))
            BY <4>1, GotoOK, TypeIs DEF AwardInsert, AfterAward, Steps, RedeemSteps
          <5>2. QED
            BY <2>2, <4>1, <5>1 DEF FoundNothing
        <4>2. CASE Starts(p)
          BY <2>2, <4>2 DEF Starts
        <4>3. CASE /\ GoesOn(p, req[p].at, req'[p].at)
                   /\ req'[p].user = req[p].user /\ req'[p].other = req[p].other
          <5>1. req[p].at = "referrer_look" /\ ~(points[Row(p)] > 0)
            BY <2>2, <4>3 DEF GoesOn
          <5>2. /\ Row(p) = <<"referral_success", req[p].other, req[p].user>>
                /\ Row(p) \in Reasons \X Users \X Users
            BY <5>1, RowIs
          <5>3. points[Row(p)] = 0
            BY <1>2, <5>1, <5>2
          <5>4. QED
            BY <4>3, <5>1, <5>2, <5>3
        <4>4. QED
          BY <2>2, <4>1, <4>2, <4>3, Slots
      <3>2. req[p].user \in Users /\ req[p].other \in Users
        BY <3>1 DEF TypeOK, RedeemSteps
      <3>3. ASSUME NEW q \in Requests, req[q].at = "referrer_award", AwardInsert(q), req[q].user = req[p].user
            PROVE  FALSE
        BY <2>0, <3>1, <3>3 DEF Exclusive
      <3>4. QED
        BY <1>5, <3>1, <3>2, <3>3
    <2>3. QED
      BY <2>1, <2>2 DEF FoundNothing, HasRedeemed
  <1>8. QED
    BY <1>1, <1>6, <1>7

\* A user redeems one code, once, and earns one award for his friend
\* (loyalty.ts:133, points.ts:8), if he sends his requests one at a time.
THEOREM AwardsAreSingle ==
  ASSUME OneAtATime
  PROVE  Spec => []AwardedOnce
  <1>1. Spec => [](TypeOK /\ Awards)
    <2>1. Init => TypeOK /\ Awards
      BY TypeInit, AwardsInit
    <2>2. (TypeOK /\ Awards) /\ [Next]_vars => (TypeOK /\ Awards)'
      BY TypeNext, AwardsNext
    <2>3. QED
      BY <2>1, <2>2, PTL DEF Spec
  <1>2. Awards => AwardedOnce
    BY DEF Awards
  <1>3. QED
    BY <1>1, <1>2, PTL

-----------------------------------------------------------------------------
(* How often an award is made when a user's requests overlap               *)

\* The requests that are about to award u for redeeming the code of o, and those about
\* to award o for u.
OwnAwards(u, o) ==
    {q \in Requests : /\ req[q].at \in {"own_look", "own_award"}
                      /\ req[q].user = u /\ req[q].other = o}
FriendAwards(u, o) ==
    {q \in Requests : req[q].at = "referrer_award" /\ req[q].user = u /\ req[q].other = o}

\* The look before an award is not atomic with it; but once the row is there no further
\* request sets out to write it.
AwardsOverrun ==
    \A u, o \in Users :
       /\ points[<<"referral_redeem", u, o>>] + Cardinality(OwnAwards(u, o))
             <= Cardinality(Requests)
       /\ points[<<"referral_success", o, u>>] + Cardinality(FriendAwards(u, o))
             <= Cardinality(Requests)

LEMMA AwardsType ==
  ASSUME NEW u, NEW o
  PROVE  /\ OwnAwards(u, o) \in SUBSET Requests /\ OwnAwards(u, o)' \in SUBSET Requests
         /\ FriendAwards(u, o) \in SUBSET Requests /\ FriendAwards(u, o)' \in SUBSET Requests
         /\ \A S \in SUBSET Requests :
              IsFiniteSet(S) /\ Cardinality(S) \in Nat /\ Cardinality(S) <= Cardinality(Requests)
         /\ Cardinality(Requests) \in Nat
  BY LedgerAssumption, FS_Subset, FS_CardinalityType DEF OwnAwards, FriendAwards

LEMMA OverrunInit == Init => AwardsOverrun
  <1> SUFFICES ASSUME Init, NEW u \in Users, NEW o \in Users
               PROVE  /\ points[<<"referral_redeem", u, o>>] + Cardinality(OwnAwards(u, o))
                            <= Cardinality(Requests)
                      /\ points[<<"referral_success", o, u>>] + Cardinality(FriendAwards(u, o))
                            <= Cardinality(Requests)
    BY DEF AwardsOverrun
  <1>1. OwnAwards(u, o) = {} /\ FriendAwards(u, o) = {}
    BY IdleOK DEF Init, OwnAwards, FriendAwards
  <1>2. points[<<"referral_redeem", u, o>>] = 0 /\ points[<<"referral_success", o, u>>] = 0
    BY DEF Init, Reasons
  <1>3. QED
    BY <1>1, <1>2, AwardsType, FS_EmptySet

\* A row and the requests about to write it, after a step: nobody came, or the row was
\* not there, or one of them wrote it.
LEMMA RowAndWriters ==
  ASSUME NEW n \in Nat, NEW m \in Nat, NEW S \in SUBSET Requests, NEW T \in SUBSET Requests,
         n + Cardinality(S) <= Cardinality(Requests),
         \/ m = n /\ T \subseteq S
         \/ m = n /\ n = 0
         \/ /\ m = n + 1
            /\ \E q \in S : q \notin T /\ \A p \in Requests \ {q} : p \in S <=> p \in T
  PROVE  m + Cardinality(T) <= Cardinality(Requests)
  <1>1. /\ Cardinality(S) \in Nat /\ Cardinality(T) \in Nat /\ Cardinality(Requests) \in Nat
        /\ Cardinality(T) <= Cardinality(Requests) /\ IsFiniteSet(S)
    BY LedgerAssumption, FS_Subset, FS_CardinalityType
  <1>2. CASE m = n /\ T \subseteq S
    <2>1. Cardinality(T) <= Cardinality(S)
      BY <1>1, <1>2, FS_Subset
    <2>2. QED
      BY <1>1, <1>2, <2>1
  <1>3. CASE m = n /\ n = 0
    BY <1>1, <1>3
  <1>4. ASSUME m = n + 1, NEW q \in S, q \notin T,
               \A p \in Requests \ {q} : p \in S <=> p \in T
        PROVE  m + Cardinality(T) <= Cardinality(Requests)
    <2>1. Cardinality(T) + 1 = Cardinality(S)
      BY <1>4, OneSlot
    <2>2. QED
      BY <1>1, <1>4, <2>1
  <1>5. QED
    BY <1>2, <1>3, <1>4

\* Whoever sets out to award u has found nothing that u redeemed.
LEMMA OwnComes ==
  ASSUME TypeOK, [Next]_vars, NEW u \in Users, NEW o \in Users,
         NEW p \in OwnAwards(u, o)', p \notin OwnAwards(u, o)
  PROVE  /\ points[<<"referral_redeem", u, o>>] = 0
         /\ points'[<<"referral_redeem", u, o>>] = points[<<"referral_redeem", u, o>>]
  <1> DEFINE row == <<"referral_redeem", u, o>>
  <1>1. /\ p \in Requests /\ req'[p].user = u /\ req'[p].other = o
        /\ req'[p].at \in {"own_look", "own_award"} /\ req'[p] # req[p]
    BY DEF OwnAwards
  <1>2. row \in Reasons \X Users \X Users /\ points[row] \in Nat
    BY DEF Reasons, TypeOK
  <1>3. req[p].at = "redeem_check" /\ req[p].user = u /\ ~HasRedeemed(u)
    <2>1. CASE Starts(p)
      BY <1>1, <2>1 DEF Starts
    <2>2. CASE GoesOn(p, req[p].at, req'[p].at) /\ req'[p].user = req[p].user
               /\ req'[p].other = req[p].other
      <3>1. req[p].at # "own_look"
        BY <1>1, <2>2 DEF OwnAwards
      <3>2. QED
        BY <1>1, <2>2, <3>1 DEF GoesOn
    <2>3. QED
      BY <1>1, <2>1, <2>2, Slots
  <1>4. points[row] = 0
    BY <1>2, <1>3 DEF HasRedeemed
  <1>5. ASSUME NEW q \in Requests, AwardInsert(q) PROVE FALSE
    <2>1. req[q].at \in {"own_award", "referrer_award"} /\ q # p
      BY <1>3, <1>5 DEF AwardInsert
    <2>2. req'[q] # req[q]
      BY <1>5, <2>1, GotoOK, TypeIs DEF AwardInsert, AfterAward, Steps, RedeemSteps
    <2>3. QED
      BY <1>1, <2>1, <2>2, OneMoves
  <1>6. points'[row] = points[row]
    BY <1>2, <1>5, PointsMove
  <1>7. QED
    BY <1>4, <1>6

\* Whoever sets out to award the referrer has found no row of this friend.
LEMMA FriendComes ==
  ASSUME TypeOK, [Next]_vars, NEW u \in Users, NEW o \in Users,
         NEW p \in FriendAwards(u, o)', p \notin FriendAwards(u, o)
  PROVE  /\ points[<<"referral_success", o, u>>] = 0
         /\ points'[<<"referral_success", o, u>>] = points[<<"referral_success", o, u>>]
  <1> DEFINE row == <<"referral_success", o, u>>
  <1>1. /\ p \in Requests /\ req'[p].user = u /\ req'[p].other = o
        /\ req'[p].at = "referrer_award" /\ req'[p] # req[p]
    BY DEF FriendAwards
  <1>2. row \in Reasons \X Users \X Users /\ points[row] \in Nat
    BY DEF Reasons, TypeOK
  <1>3. req[p].at = "referrer_look" /\ ~(points[Row(p)] > 0) /\ req[p].user = u /\ req[p].other = o
    <2>1. CASE Starts(p)
      BY <1>1, <2>1 DEF Starts
    <2>2. CASE GoesOn(p, req[p].at, req'[p].at) /\ req'[p].user = req[p].user
               /\ req'[p].other = req[p].other
      BY <1>1, <2>2 DEF GoesOn
    <2>3. QED
      BY <1>1, <2>1, <2>2, Slots
  <1>4. points[row] = 0
    BY <1>1, <1>2, <1>3, RowIs
  <1>5. ASSUME NEW q \in Requests, AwardInsert(q) PROVE FALSE
    <2>1. req[q].at \in {"own_award", "referrer_award"} /\ q # p
      BY <1>3, <1>5 DEF AwardInsert
    <2>2. req'[q] # req[q]
      BY <1>5, <2>1, GotoOK, TypeIs DEF AwardInsert, AfterAward, Steps, RedeemSteps
    <2>3. QED
      BY <1>1, <2>1, <2>2, OneMoves
  <1>6. points'[row] = points[row]
    BY <1>2, <1>5, PointsMove
  <1>7. QED
    BY <1>4, <1>6

\* Whoever writes a row was one of those about to, and no longer is; nobody else moves.
LEMMA WriterLeaves ==
  ASSUME TypeOK, [Next]_vars, NEW q \in Requests, AwardInsert(q)
  PROVE  /\ req[q].at = "own_award" => req'[q].at = "referrer_look"
         /\ req[q].at = "referrer_award" => req'[q].at = "redeem_count"
         /\ \A p \in Requests \ {q} : req'[p] = req[p]
  BY GotoOK, TypeIs DEF AwardInsert, AfterAward, Steps, RedeemSteps

LEMMA OverrunNext ==
  ASSUME TypeOK, AwardsOverrun, [Next]_vars
  PROVE  AwardsOverrun'
  <1> SUFFICES ASSUME NEW u \in Users, NEW o \in Users
               PROVE  /\ points'[<<"referral_redeem", u, o>>] + Cardinality(OwnAwards(u, o)')
                            <= Cardinality(Requests)
                      /\ points'[<<"referral_success", o, u>>] + Cardinality(FriendAwards(u, o)')
                            <= Cardinality(Requests)
    BY DEF AwardsOverrun
  <1>1. points'[<<"referral_redeem", u, o>>] + Cardinality(OwnAwards(u, o)')
          <= Cardinality(Requests)
    <2> DEFINE row == <<"referral_redeem", u, o>>
               n == points[row]
               m == points'[row]
               S == OwnAwards(u, o)
               T == OwnAwards(u, o)'
    <2>1. row \in Reasons \X Users \X Users
      BY DEF Reasons
    <2>2. n \in Nat /\ m \in Nat /\ n + Cardinality(S) <= Cardinality(Requests)
      BY <2>1, TypeNext DEF TypeOK, AwardsOverrun
    <2>3. S \in SUBSET Requests /\ T \in SUBSET Requests
      BY AwardsType
    <2>4. CASE ~(T \subseteq S)
      <3>1. m = n /\ n = 0
        BY <2>4, OwnComes
      <3>2. QED
        BY <2>2, <2>3, <3>1, RowAndWriters
    <2>5. CASE m = n /\ T \subseteq S
      BY <2>2, <2>3, <2>5, RowAndWriters
    <2>6. ASSUME m = n + 1, NEW q \in Requests, AwardInsert(q), req[q].at = "own_award",
                 row = <<"referral_redeem", req[q].user, req[q].other>>
          PROVE  m + Cardinality(T) <= Cardinality(Requests)
      <3>1. q \in S /\ q \notin T /\ \A p \in Requests \ {q} : p \in S <=> p \in T
        BY <2>6, WriterLeaves DEF OwnAwards
      <3> HIDE DEF S, T, n, m
      <3>2. QED
        BY <2>2, <2>3, <2>6, <3>1, RowAndWriters
    <2>7. \A q \in Requests : row # <<"referral_success", req[q].other, req[q].user>>
      OBVIOUS
    <2>8. QED
      BY <2>1, <2>4, <2>5, <2>6, <2>7, PointsMove
  <1>2. points'[<<"referral_success", o, u>>] + Cardinality(FriendAwards(u, o)')
          <= Cardinality(Requests)
    <2> DEFINE row == <<"referral_success", o, u>>
               n == points[row]
               m == points'[row]
               S == FriendAwards(u, o)
               T == FriendAwards(u, o)'
    <2>1. row \in Reasons \X Users \X Users
      BY DEF Reasons
    <2>2. n \in Nat /\ m \in Nat /\ n + Cardinality(S) <= Cardinality(Requests)
      BY <2>1, TypeNext DEF TypeOK, AwardsOverrun
    <2>3. S \in SUBSET Requests /\ T \in SUBSET Requests
      BY AwardsType
    <2>4. CASE ~(T \subseteq S)
      <3>1. m = n /\ n = 0
        BY <2>4, FriendComes
      <3>2. QED
        BY <2>2, <2>3, <3>1, RowAndWriters
    <2>5. CASE m = n /\ T \subseteq S
      BY <2>2, <2>3, <2>5, RowAndWriters
    <2>6. ASSUME m = n + 1, NEW q \in Requests, AwardInsert(q), req[q].at = "referrer_award",
                 row = <<"referral_success", req[q].other, req[q].user>>
          PROVE  m + Cardinality(T) <= Cardinality(Requests)
      <3>1. q \in S /\ q \notin T /\ \A p \in Requests \ {q} : p \in S <=> p \in T
        BY <2>6, WriterLeaves DEF FriendAwards
      <3> HIDE DEF S, T, n, m
      <3>2. QED
        BY <2>2, <2>3, <2>6, <3>1, RowAndWriters
    <2>7. \A q \in Requests : row # <<"referral_redeem", req[q].user, req[q].other>>
      OBVIOUS
    <2>8. QED
      BY <2>1, <2>4, <2>5, <2>6, <2>7, PointsMove
  <1>3. QED
    BY <1>1, <1>2

\* However the requests of a user overlap, the look before an award lets one code pay at
\* most as often as there are requests in flight (points.ts:8, loyalty.ts:133).
THEOREM AwardsAreBounded == Spec => []AwardsOverrun
  <1>1. Spec => [](TypeOK /\ AwardsOverrun)
    <2>1. Init => TypeOK /\ AwardsOverrun
      BY TypeInit, OverrunInit
    <2>2. (TypeOK /\ AwardsOverrun) /\ [Next]_vars => (TypeOK /\ AwardsOverrun)'
      BY TypeNext, OverrunNext
    <2>3. QED
      BY <2>1, <2>2, PTL DEF Spec
  <1>2. QED
    BY <1>1, PTL

-----------------------------------------------------------------------------
(* A key stands for one offer                                              *)

\* The key of u is on record in the store that is asked first.
Recorded(u) == IF HasKv THEN u \in seen.kv ELSE u \in seen.db

\* The requests of u that may still create a trip.
CreatingSteps == IF HasKv THEN {"key_db", "offer_insert"} ELSE {"offer_insert"}
Creating(u) == {q \in Requests : req[q].at \in CreatingSteps /\ req[q].user = u}

\* What is offered or about to be is paid for by a record or by a failure.
Covered ==
    \A u \in Users :
       offered[u].trips + Cardinality(Creating(u))
          <= trouble + (IF Recorded(u) THEN 1 ELSE 0)

\* A request that puts its key has found none.
NotYetPut ==
    \A q \in Requests :
       /\ req[q].at = "key_put" => req[q].user \notin seen.kv
       /\ req[q].at \in {"key_get", "key_put"} => HasKv

Offers == (OneAtATime => Exclusive) /\ Covered /\ NotYetPut

LEMMA OffersInit == Init => Offers
  <1> SUFFICES ASSUME Init PROVE Offers
    OBVIOUS
  <1>1. Exclusive /\ NotYetPut
    BY IdleOK DEF Init, Exclusive, NotYetPut, Single, RedeemSteps, OfferSteps
  <1>2. ASSUME NEW u \in Users PROVE Cardinality(Creating(u)) = 0
    <2>1. Creating(u) = {}
      BY IdleOK DEF Init, Creating, CreatingSteps
    <2>2. QED
      BY <2>1, FS_EmptySet
  <1>3. Covered
    BY <1>2 DEF Init, Covered, Recorded
  <1>4. QED
    BY <1>1, <1>3 DEF Offers

\* What a step does to the keys, the failures and the trips of u.
OfferMoves(u) ==
    \/ /\ offered'[u].trips = offered[u].trips /\ trouble' = trouble
       /\ u \in seen.kv <=> u \in seen'.kv
       /\ u \in seen.db <=> u \in seen'.db
    \/ \E q \in Requests :
          /\ KeyPut(q) /\ req[q].user = u /\ u \in seen'.kv /\ trouble' = trouble
          /\ offered'[u].trips = offered[u].trips /\ (u \in seen.db <=> u \in seen'.db)
    \/ \E q \in Requests :
          /\ KeyDb(q) /\ req[q].user = u /\ u \in seen'.db /\ trouble' = trouble
          /\ offered'[u].trips = offered[u].trips /\ (u \in seen.kv <=> u \in seen'.kv)
    \/ \E q \in Requests :
          /\ OfferInsert(q) /\ req[q].user = u /\ trouble' = trouble
          /\ offered'[u].trips = offered[u].trips + 1 /\ seen' = seen
    \/ trouble' = trouble + 1 /\ offered'[u].trips = offered[u].trips /\ seen'.db = seen.db
       /\ (u \in seen.kv => u \in seen'.kv)
    \/ trouble' = trouble + 1 /\ offered'[u].trips = offered[u].trips /\ seen'.db = seen.db
       /\ req' = req

LEMMA OfferMove ==
  ASSUME TypeOK, [Next]_vars, NEW u \in Users
  PROVE  OfferMoves(u)
  <1>1. CASE UNCHANGED <<offered, trouble, seen>>
    BY <1>1 DEF OfferMoves
  <1>2. ASSUME NEW q \in Requests, KeyPut(q) PROVE OfferMoves(u)
    BY <1>2 DEF OfferMoves, KeyPut, TypeOK
  <1>3. ASSUME NEW q \in Requests, KeyDb(q) PROVE OfferMoves(u)
    BY <1>3 DEF OfferMoves, KeyDb, TypeOK
  <1>4. ASSUME NEW q \in Requests, OfferInsert(q) PROVE OfferMoves(u)
    <2>1. /\ offered' = [offered EXCEPT ![req[q].user].trips = offered[req[q].user].trips + 1]
          /\ UNCHANGED <<seen, trouble>>
      BY <1>4 DEF OfferInsert
    <2>2. \/ offered'[u].trips = offered[u].trips
          \/ req[q].user = u /\ offered'[u].trips = offered[u].trips + 1
      BY <2>1 DEF TypeOK
    <2>3. QED
      BY <1>4, <2>1, <2>2 DEF OfferMoves
  <1>5. ASSUME NEW q \in Requests, OfferDriver(q) PROVE OfferMoves(u)
    BY <1>5 DEF OfferMoves, OfferDriver, TypeOK
  <1>6. ASSUME NEW q \in Requests, KvFails(q) PROVE OfferMoves(u)
    BY <1>6 DEF OfferMoves, KvFails
  <1>7. ASSUME NEW q \in Requests, DbFails(q) PROVE OfferMoves(u)
    BY <1>7 DEF OfferMoves, DbFails
  <1>8. ASSUME NEW x, KeyExpires(x) PROVE OfferMoves(u)
    BY <1>8 DEF OfferMoves, KeyExpires, TypeOK
  <1>9. QED
    BY <1>1, <1>2, <1>3, <1>4, <1>5, <1>6, <1>7, <1>8 DEF Next, vars, PromoSwitch, Referral,
       Promotion, Offering, CodeInsert, CodeRead, Redeem, RedeemCheck, AwardLook, AwardInsert,
       RedeemCount, PromoRead, PromoUsed, BookInsert, PromoRedeem, PromoCount, Book, KeyGet,
       OfferRefuse, Offer, Abort

\* What lets a request of u come to a step that creates a trip.
LEMMA Enters ==
  ASSUME TypeOK, [Next]_vars, NotYetPut, NEW u \in Users,
         NEW p \in Creating(u)', p \notin Creating(u)
  PROVE  \/ trouble' = trouble + 1
         \/ HasKv /\ u \notin seen.kv /\ u \in seen'.kv
         \/ ~HasKv /\ u \notin seen.db /\ u \in seen'.db
  <1>1. p \in Requests /\ req'[p].at \in CreatingSteps /\ req'[p].user = u
    BY DEF Creating, CreatingSteps
  <1>2. ~(req[p].at \in CreatingSteps /\ req[p].user = u)
    BY <1>1 DEF Creating
  <1>3. CASE Starts(p)
    BY <1>1, <1>3 DEF Starts, CreatingSteps, Alone
  <1>4. CASE GoesOn(p, req[p].at, req'[p].at) /\ req'[p].user = req[p].user
    <2>1. req[p].user = u
      BY <1>1, <1>4
    <2>2. CASE KeyPut(p) /\ req[p].at = "key_put"
      BY <1>1, <2>1, <2>2 DEF KeyPut, NotYetPut, TypeOK
    <2>3. CASE KvFails(p)
      BY <2>3 DEF KvFails
    <2>4. CASE KeyDb(p) /\ req[p].at = "key_db" /\ u \notin seen.db
      BY <1>2, <2>1, <2>4 DEF KeyDb, CreatingSteps, TypeOK
    <2>5. CASE DbFails(p) /\ req[p].at = "key_db"
      BY <1>2, <2>1, <2>5 DEF DbFails, CreatingSteps
    <2>6. QED
      BY <1>1, <1>4, <2>1, <2>2, <2>3, <2>4, <2>5 DEF GoesOn, CreatingSteps
  <1>5. "idle" \notin CreatingSteps
    BY DEF CreatingSteps
  <1>6. QED
    BY <1>1, <1>2, <1>3, <1>4, <1>5, Slots

LEMMA CreatingType ==
  ASSUME NEW u
  PROVE  /\ Creating(u) \in SUBSET Requests /\ Creating(u)' \in SUBSET Requests
         /\ IsFiniteSet(Creating(u)) /\ Cardinality(Creating(u)) \in Nat
         /\ Cardinality(Creating(u)') \in Nat
  <1>1. Creating(u) \in SUBSET Requests /\ Creating(u)' \in SUBSET Requests
    BY DEF Creating
  <1>2. QED
    BY <1>1, LedgerAssumption, FS_Subset, FS_CardinalityType

\* Their number grows by the one that comes, or not at all.
LEMMA CreatingGrows ==
  ASSUME TypeOK, [Next]_vars, NotYetPut, NEW u \in Users
  PROVE  \/ Cardinality(Creating(u)') <= Cardinality(Creating(u))
         \/ /\ Cardinality(Creating(u)') = Cardinality(Creating(u)) + 1
            /\ \/ trouble' = trouble + 1
               \/ HasKv /\ u \notin seen.kv /\ u \in seen'.kv
               \/ ~HasKv /\ u \notin seen.db /\ u \in seen'.db
  <1>1. CASE Creating(u)' \subseteq Creating(u)
    BY <1>1, CreatingType, FS_Subset
  <1>2. ASSUME NEW p \in Creating(u)', p \notin Creating(u)
        PROVE  /\ Cardinality(Creating(u)') = Cardinality(Creating(u)) + 1
               /\ \/ trouble' = trouble + 1
                  \/ HasKv /\ u \notin seen.kv /\ u \in seen'.kv
                  \/ ~HasKv /\ u \notin seen.db /\ u \in seen'.db
    <2>1. p \in Requests /\ req'[p] # req[p]
      BY <1>2 DEF Creating, CreatingSteps
    <2>2. \A q \in Requests \ {p} : q \in Creating(u) <=> q \in Creating(u)'
      <3>1. \A q \in Requests \ {p} : req'[q] = req[q]
        BY <2>1, OneMoves
      <3>2. QED
        BY <3>1 DEF Creating, CreatingSteps
    <2>3. Cardinality(Creating(u)') = Cardinality(Creating(u)) + 1
      BY <1>2, <2>2, CreatingType, OneSlot
    <2>4. QED
      BY <1>2, <2>3, Enters
  <1>3. QED
    BY <1>1, <1>2

LEMMA CoveredNext ==
  ASSUME TypeOK, Offers, [Next]_vars
  PROVE  Covered'
  <1> USE DEF Offers
  <1> DEFINE Held(u) == Cardinality(Creating(u))
             Mark(u) == IF Recorded(u) THEN 1 ELSE 0
  <1> SUFFICES ASSUME NEW u \in Users
               PROVE  offered'[u].trips + Held(u)' <= trouble' + Mark(u)'
    BY DEF Covered
  <1>1. /\ offered[u].trips + Held(u) <= trouble + Mark(u)
        /\ offered[u].trips \in Nat /\ trouble \in Nat
        /\ Held(u) \in Nat /\ Held(u)' \in Nat
    BY CreatingType DEF Covered, TypeOK
  <1>2. /\ Mark(u) = IF Recorded(u) THEN 1 ELSE 0
        /\ Mark(u)' = IF Recorded(u)' THEN 1 ELSE 0
    BY DEF Recorded
  <1>3. \/ Held(u)' <= Held(u)
        \/ /\ Held(u)' = Held(u) + 1
           /\ \/ trouble' = trouble + 1
              \/ HasKv /\ u \notin seen.kv /\ u \in seen'.kv
              \/ ~HasKv /\ u \notin seen.db /\ u \in seen'.db
    BY CreatingGrows
  <1> HIDE DEF Held, Mark
  <1>4. CASE offered'[u].trips = offered[u].trips /\ trouble' = trouble
    <2>1. CASE Held(u)' <= Held(u)
      <3>1. offered'[u].trips # offered[u].trips + 1 /\ trouble' # trouble + 1
        BY <1>1, <1>4
      <3>2. (u \in seen.kv => u \in seen'.kv) /\ (u \in seen.db => u \in seen'.db)
        BY <3>1, OfferMove, Zenon DEF OfferMoves
      <3>3. Recorded(u) => Recorded(u)'
        BY <3>2 DEF Recorded
      <3>4. QED
        BY <1>1, <1>2, <1>4, <2>1, <3>3
    <2>2. CASE Held(u)' = Held(u) + 1
      <3>1. ~Recorded(u) /\ Recorded(u)'
        BY <1>1, <1>3, <1>4, <2>2 DEF Recorded
      <3>2. QED
        BY <1>1, <1>2, <1>4, <2>2, <3>1
    <2>3. QED
      BY <1>3, <2>1, <2>2
  <1>5. ASSUME NEW q \in Requests, OfferInsert(q), req[q].user = u, trouble' = trouble,
               offered'[u].trips = offered[u].trips + 1, seen' = seen
        PROVE  offered'[u].trips + Held(u)' <= trouble' + Mark(u)'
    <2>1. q \in Creating(u)
      BY <1>5 DEF OfferInsert, Creating, CreatingSteps
    <2>2. req'[q].at = "offer_driver" /\ \A p \in Requests \ {q} : req'[p] = req[p]
      BY <1>5, GotoOK, TypeIs DEF OfferInsert, Steps, OfferSteps, RedeemSteps
    <2>3. q \notin Creating(u)'
      BY <2>2 DEF Creating, CreatingSteps
    <2>4. \A p \in Requests \ {q} : p \in Creating(u) <=> p \in Creating(u)'
      BY <2>2 DEF Creating, CreatingSteps
    <2>5. Held(u)' + 1 = Held(u)
      BY <2>1, <2>3, <2>4, CreatingType, OneSlot DEF Held
    <2>6. Recorded(u)' <=> Recorded(u)
      BY <1>5 DEF Recorded
    <2>7. QED
      BY <1>1, <1>2, <1>5, <2>5, <2>6
  <1>6. CASE /\ trouble' = trouble + 1 /\ offered'[u].trips = offered[u].trips
             /\ seen'.db = seen.db /\ (u \in seen.kv => u \in seen'.kv)
    <2>1. Recorded(u) => Recorded(u)'
      BY <1>6 DEF Recorded
    <2>2. QED
      BY <1>1, <1>2, <1>3, <1>6, <2>1
  <1>7. CASE /\ trouble' = trouble + 1 /\ offered'[u].trips = offered[u].trips
             /\ seen'.db = seen.db /\ req' = req
    <2>1. Held(u)' = Held(u)
      BY <1>7 DEF Held, Creating, CreatingSteps
    <2>2. QED
      BY <1>1, <1>2, <1>7, <2>1
  <1>8. QED
    BY <1>4, <1>5, <1>6, <1>7, OfferMove DEF OfferMoves

LEMMA NotYetPutNext ==
  ASSUME OneAtATime \/ ~HasKv, TypeOK, Offers, [Next]_vars
  PROVE  NotYetPut'
  <1> USE DEF Offers
  <1>1. ASSUME NEW p \in Requests, req'[p].at \in {"key_get", "key_put"}
        PROVE  HasKv
    <2>1. CASE req'[p] = req[p]
      BY <1>1, <2>1 DEF NotYetPut
    <2>2. CASE Starts(p)
      BY <1>1, <2>2 DEF Starts
    <2>3. CASE GoesOn(p, req[p].at, req'[p].at)
      BY <1>1, <2>3 DEF GoesOn, NotYetPut
    <2>4. QED
      BY <1>1, <2>1, <2>2, <2>3, Slots
  <1>2. ASSUME NEW p \in Requests, req'[p].at = "key_put"
        PROVE  req'[p].user \notin seen'.kv
    <2>1. CASE Starts(p)
      BY <1>2, <2>1 DEF Starts
    <2>2. CASE GoesOn(p, req[p].at, req'[p].at) /\ req'[p].user = req[p].user
      BY <1>2, <2>2 DEF GoesOn, KeyGet
    <2>3. CASE req'[p] = req[p]
      <3>1. req[p].user \notin seen.kv /\ req[p].user \in Users
        BY <1>2, <2>3 DEF NotYetPut, TypeOK
      <3>2. ASSUME NEW q \in Requests, KeyPut(q), req[q].user = req[p].user
            PROVE  FALSE
        <4>1. req[q].at \in Single /\ req[p].at \in Single
          BY <1>2, <2>3, <3>2 DEF KeyPut, Single, OfferSteps
        <4>2. OneAtATime
          BY <1>1, <1>2
        <4>3. p = q
          BY <3>2, <4>1, <4>2 DEF Exclusive
        <4>4. req'[q].at = "offer_insert"
          BY <3>2, GotoOK, TypeIs DEF KeyPut, Steps, OfferSteps, RedeemSteps
        <4>5. QED
          BY <1>2, <4>3, <4>4
      <3>3. \/ req[p].user \notin seen'.kv
            \/ \E q \in Requests : KeyPut(q) /\ req[q].user = req[p].user
        <4>1. ASSUME NEW q \in Requests, KeyPut(q)
              PROVE  req[p].user \notin seen'.kv \/ req[q].user = req[p].user
          BY <3>1, <4>1 DEF KeyPut, TypeOK
        <4>2. ASSUME NEW q \in Requests, KeyDb(q)
              PROVE  req[p].user \notin seen'.kv
          BY <3>1, <4>2 DEF KeyDb, TypeOK
        <4>3. ASSUME NEW x, KeyExpires(x)
              PROVE  req[p].user \notin seen'.kv
          BY <3>1, <4>3 DEF KeyExpires, TypeOK
        <4>4. CASE UNCHANGED seen
          BY <3>1, <4>4
        <4>5. QED
          BY <4>1, <4>2, <4>3, <4>4, ZenonT(90) DEF Next, vars, PromoSwitch, Referral, Promotion, Offering,
             CodeInsert, CodeRead, Redeem, RedeemCheck, AwardLook, AwardInsert, RedeemCount,
             PromoRead, PromoUsed, BookInsert, PromoRedeem, PromoCount, Book, KeyGet, KvFails,
             DbFails, OfferRefuse, OfferInsert, OfferDriver, Offer, Abort
      <3>4. QED
        BY <2>3, <3>2, <3>3
    <2>4. QED
      BY <1>2, <2>1, <2>2, <2>3, Slots
  <1>3. QED
    BY <1>1, <1>2 DEF NotYetPut

\* Under one key a driver offers one trip, and one more for each time a store
\* failed or forgot (trips.ts:273-328), if he sends his requests one at a time, or if
\* the keys are kept in the database, whose INSERT OR IGNORE lets one of them through.
THEOREM KeyIsOneOffer ==
  ASSUME OneAtATime \/ ~HasKv
  PROVE  Spec => []OfferedOnce
  <1>1. Spec => [](TypeOK /\ Offers)
    <2>1. Init => TypeOK /\ Offers
      BY TypeInit, OffersInit
    <2>2. (TypeOK /\ Offers) /\ [Next]_vars => (TypeOK /\ Offers)'
      <3>1. ASSUME TypeOK, Offers, [Next]_vars PROVE TypeOK' /\ Offers'
        <4>1. TypeOK' /\ Covered' /\ NotYetPut'
          BY <3>1, TypeNext, CoveredNext, NotYetPutNext
        <4>2. OneAtATime => Exclusive'
          BY <3>1, ExclusiveNext DEF Offers
        <4>3. QED
          BY <4>1, <4>2 DEF Offers
      <3>2. QED
        BY <3>1
    <2>3. QED
      BY <2>1, <2>2, PTL DEF Spec
  <1>2. TypeOK /\ Offers => OfferedOnce
    <2>1. ASSUME TypeOK, Offers, NEW u \in Users
          PROVE  offered[u].trips <= 1 + trouble
      <3>1. /\ offered[u].trips + Cardinality(Creating(u))
                 <= trouble + (IF Recorded(u) THEN 1 ELSE 0)
            /\ offered[u].trips \in Nat /\ trouble \in Nat
            /\ Cardinality(Creating(u)) \in Nat
        BY <2>1, CreatingType DEF Offers, Covered, TypeOK
      <3>2. QED
        BY <3>1
    <2>2. QED
      BY <2>1 DEF OfferedOnce
  <1>3. QED
    BY <1>1, <1>2, PTL

-----------------------------------------------------------------------------
(* How far a code can be overrun                                           *)

\* The bookings in flight that have read a use left, and have not used it.
Entitled(v) == v.at \in {"promo_used", "promo_redeem"} \/ (v.at = "book_insert" /\ v.promo)
Checked == {q \in Requests : Entitled(req[q])}

\* Redemptions, and bookings on their way to one.
Spent == Cardinality(redeemed) + Cardinality(Checked)

WithinBound ==
    /\ IsFiniteSet(redeemed)
    /\ UsesFollowRedemptions
    /\ Spent <= MaxUses + Cardinality(Requests) - 1 + uncounted

\* A request that is neither counting nor entitled leaves room for one more.
LEMMA RoomForOne ==
  ASSUME NEW q \in Requests, q \notin Counting, q \notin Checked
  PROVE  /\ Cardinality(Counting) + Cardinality(Checked) + 1 <= Cardinality(Requests)
         /\ Cardinality(Requests) \in Nat
  <1>1. Counting \intersect Checked = {}
    BY DEF Counting, Checked, Entitled
  <1>2. /\ IsFiniteSet(Counting) /\ IsFiniteSet(Checked) /\ Counting \subseteq Requests /\ Checked \subseteq Requests
        /\ Cardinality(Counting) \in Nat /\ Cardinality(Checked) \in Nat /\ Cardinality(Requests) \in Nat
    BY LedgerAssumption, FS_Subset, FS_CardinalityType DEF Counting, Checked
  <1>3. /\ IsFiniteSet(Counting \union Checked)
        /\ Cardinality(Counting \union Checked) = Cardinality(Counting) + Cardinality(Checked)
    <2>1. /\ IsFiniteSet(Counting \union Checked)
          /\ Cardinality(Counting \union Checked)
               = Cardinality(Counting) + Cardinality(Checked) - Cardinality(Counting \intersect Checked)
      BY <1>2, FS_Union
    <2>2. Cardinality(Counting \intersect Checked) = 0
      BY <1>1, FS_EmptySet
    <2>3. QED
      BY <1>2, <2>1, <2>2
  <1>4. Cardinality((Counting \union Checked) \union {q}) = Cardinality(Counting) + Cardinality(Checked) + 1
    BY <1>2, <1>3, FS_AddElement
  <1>5. (Counting \union Checked) \union {q} \subseteq Requests
    BY <1>2
  <1>6. QED
    BY <1>2, <1>4, <1>5, LedgerAssumption, FS_Subset

\* What a step of a request does to the use it counts.
Uses(q) ==
    LET counts(v) == v.at = "promo_count" IN
    \/ /\ Entitled(req'[q]) => Entitled(req[q])            \* nothing
       /\ counts(req'[q]) <=> counts(req[q])
       /\ UNCHANGED <<redeemed, promo, uncounted>>
    \/ /\ ~Entitled(req[q]) /\ Entitled(req'[q])           \* PromoRead
       /\ ~counts(req[q]) /\ ~counts(req'[q]) /\ promo.uses < MaxUses
       /\ UNCHANGED <<redeemed, promo, uncounted>>
    \/ /\ Entitled(req[q]) /\ ~Entitled(req'[q])           \* PromoRedeem
       /\ ~counts(req[q]) /\ counts(req'[q]) /\ ~HasUsed(req[q].user)
       /\ redeemed' = redeemed \union {<<req[q].user, req[q].trip>>}
       /\ UNCHANGED <<promo, uncounted>>
    \/ /\ ~Entitled(req[q]) /\ ~Entitled(req'[q])          \* PromoCount
       /\ counts(req[q]) /\ ~counts(req'[q])
       /\ promo'.uses = promo.uses + 1 /\ UNCHANGED <<redeemed, uncounted>>
    \/ /\ ~Entitled(req[q]) /\ ~Entitled(req'[q])          \* Abort
       /\ counts(req[q]) /\ ~counts(req'[q])
       /\ uncounted' = uncounted + 1 /\ UNCHANGED <<redeemed, promo>>

LEMMA UsesMove ==
  ASSUME TypeOK, NEW q \in Requests, Handler(q)
  PROVE  Uses(q)
  <1>1. CASE req[q].at = "idle" /\ Starts(q)
    BY <1>1 DEF Starts, Uses, Entitled, CodeRead, Redeem, Book, Offer
  <1>2. CASE req'[q].at = "idle" /\ Ends(q, req[q].at)
    <2>1. CASE PromoCount(q) /\ req[q].at = "promo_count"
      BY <1>2, <2>1 DEF PromoCount, Uses, Entitled, TypeOK
    <2>2. CASE Abort(q)
      BY <1>2, <2>2 DEF Abort, Uses, Entitled
    <2>3. CASE PromoRedeem(q) /\ req[q].at = "promo_redeem" /\ HasUsed(req[q].user)
      BY <1>2, <2>3 DEF PromoRedeem, Uses, Entitled
    <2>4. QED
      BY <1>2, <2>1, <2>2, <2>3 DEF Ends, Uses, Entitled, CodeInsert, RedeemCheck, RedeemCount,
         PromoRead, PromoUsed, BookInsert, KeyGet, KeyDb, OfferRefuse, OfferDriver
  <1>3. CASE /\ GoesOn(q, req[q].at, req'[q].at)
             /\ req'[q].promo = req[q].promo
    <2>1. CASE PromoRead(q) /\ req[q].at = "promo_read"
      BY <1>3, <2>1 DEF GoesOn, PromoRead, Uses, Entitled
    <2>2. CASE PromoRedeem(q) /\ req[q].at = "promo_redeem"
      <3>1. req'[q].at = "promo_count" /\ ~HasUsed(req[q].user)
        BY <1>3, <2>2 DEF GoesOn
      <3>2. QED
        BY <2>2, <3>1 DEF PromoRedeem, Uses, Entitled
    <2>3. QED
      BY <1>3, <2>1, <2>2 DEF GoesOn, Uses, Entitled, RedeemCheck, AwardLook, AwardInsert,
         PromoUsed, BookInsert, KeyGet, KeyPut, KvFails, KeyDb, DbFails, OfferInsert
  <1>4. QED
    BY <1>1, <1>2, <1>3, ControlFlow, TypeIs

LEMMA WithinInit == Init => WithinBound
  <1> SUFFICES ASSUME Init PROVE WithinBound
    OBVIOUS
  <1>1. Counting = {} /\ Checked = {}
    BY IdleOK DEF Init, Counting, Checked, Entitled
  <1>2. Cardinality({}) = 0 /\ IsFiniteSet({})
    BY FS_EmptySet
  <1>3. Cardinality(Requests) \in Nat /\ MaxUses \in Nat \ {0}
    BY LedgerAssumption, FS_CardinalityType
  <1>4. redeemed = {} /\ promo.uses = 0 /\ uncounted = 0
    BY DEF Init
  <1>5. Cardinality(redeemed) = 0 /\ Cardinality(Counting) = 0 /\ Cardinality(Checked) = 0
    BY <1>1, <1>2, <1>4
  <1>6. Spent = 0
    BY <1>5 DEF Spent
  <1>7. QED
    BY <1>2, <1>3, <1>4, <1>5, <1>6 DEF WithinBound, UsesFollowRedemptions

LEMMA WithinNext ==
  ASSUME TypeOK, WithinBound, [Next]_vars
  PROVE  WithinBound'
  <1> DEFINE N == Cardinality(Requests)
             R == Cardinality(redeemed)
             C == Cardinality(Counting)
             K == Cardinality(Checked)
  <1>1. N \in Nat /\ R \in Nat /\ C \in Nat /\ K \in Nat /\ MaxUses \in Nat
    BY LedgerAssumption, FS_Subset, FS_CardinalityType DEF WithinBound, Counting, Checked
  <1>2. promo.uses \in Nat /\ uncounted \in Nat /\ promo'.uses \in Nat /\ uncounted' \in Nat
    BY TypeNext DEF TypeOK
  <1>3. R = promo.uses + C + uncounted /\ R + K <= MaxUses + N - 1 + uncounted
    BY DEF WithinBound, UsesFollowRedemptions, Spent
  <1>4. ASSUME R' \in Nat, IsFiniteSet(redeemed'),
               R' = promo'.uses + C' + uncounted', R' + K' <= MaxUses + N - 1 + uncounted'
        PROVE  WithinBound'
    BY <1>4 DEF WithinBound, UsesFollowRedemptions, Spent
  <1>5. ASSUME NEW q \in Requests, Handler(q)
        PROVE  WithinBound'
    <2>1. \A p \in Requests \ {q} : req'[p] = req[p]
      BY <1>5, ControlFlow, TypeIs
    <2>2. /\ K' \in Nat
          /\ K' + (IF Entitled(req[q]) THEN 1 ELSE 0) = K + (IF Entitled(req'[q]) THEN 1 ELSE 0)
      <3>1. Checked \in SUBSET Requests /\ Checked' \in SUBSET Requests
        BY DEF Checked
      <3>2. \A p \in Requests \ {q} : p \in Checked <=> p \in Checked'
        BY <2>1 DEF Checked, Entitled
      <3>3. (q \in Checked <=> Entitled(req[q])) /\ (q \in Checked' <=> Entitled(req'[q]))
        BY DEF Checked, Entitled
      <3>4. QED
        BY <3>1, <3>2, <3>3, OneSlot
    <2>3. /\ C' \in Nat
          /\ C' + (IF req[q].at = "promo_count" THEN 1 ELSE 0)
               = C + (IF req'[q].at = "promo_count" THEN 1 ELSE 0)
      <3>1. Counting \in SUBSET Requests /\ Counting' \in SUBSET Requests
        BY DEF Counting
      <3>2. \A p \in Requests \ {q} : p \in Counting <=> p \in Counting'
        BY <2>1 DEF Counting
      <3>3. /\ q \in Counting <=> req[q].at = "promo_count"
            /\ q \in Counting' <=> req'[q].at = "promo_count"
        BY DEF Counting
      <3>4. QED
        BY <3>1, <3>2, <3>3, OneSlot
    <2>4. IsFiniteSet(redeemed)
      BY DEF WithinBound
    <2>5. CASE /\ Entitled(req'[q]) => Entitled(req[q])
               /\ req'[q].at = "promo_count" <=> req[q].at = "promo_count"
               /\ UNCHANGED <<redeemed, promo, uncounted>>
      <3>1. K' <= K /\ C' = C
        BY <1>1, <2>2, <2>3, <2>5
      <3>2. R' = R /\ IsFiniteSet(redeemed')
        BY <2>4, <2>5
      <3> HIDE DEF N, R, C, K
      <3>3. QED
        BY <1>1, <1>2, <1>3, <1>4, <2>2, <2>3, <2>5, <3>1, <3>2
    <2>6. CASE /\ ~Entitled(req[q]) /\ Entitled(req'[q])
               /\ req[q].at # "promo_count" /\ req'[q].at # "promo_count"
               /\ promo.uses < MaxUses
               /\ UNCHANGED <<redeemed, promo, uncounted>>
      <3>1. C + K + 1 <= N
        BY <2>6, RoomForOne DEF Counting, Checked
      <3>2. K' = K + 1 /\ C' = C
        BY <1>1, <2>2, <2>3, <2>6
      <3>3. R' = R /\ IsFiniteSet(redeemed')
        BY <2>4, <2>6
      <3> HIDE DEF N, R, C, K
      <3>4. QED
        BY <1>1, <1>2, <1>3, <1>4, <2>6, <3>1, <3>2, <3>3
    <2>7. CASE /\ Entitled(req[q]) /\ ~Entitled(req'[q])
               /\ req[q].at # "promo_count" /\ req'[q].at = "promo_count"
               /\ ~HasUsed(req[q].user)
               /\ redeemed' = redeemed \union {<<req[q].user, req[q].trip>>}
               /\ UNCHANGED <<promo, uncounted>>
      <3>1. K' = K - 1 /\ C' = C + 1
        BY <1>1, <2>2, <2>3, <2>7
      <3>2. <<req[q].user, req[q].trip>> \notin redeemed
        BY <2>7 DEF HasUsed, TypeOK
      <3>3. R' = R + 1 /\ IsFiniteSet(redeemed')
        BY <2>4, <2>7, <3>2, FS_AddElement
      <3> HIDE DEF N, R, C, K
      <3>4. QED
        BY <1>1, <1>2, <1>3, <1>4, <2>7, <3>1, <3>3
    <2>8. CASE /\ ~Entitled(req[q]) /\ ~Entitled(req'[q])
               /\ req[q].at = "promo_count" /\ req'[q].at # "promo_count"
               /\ promo'.uses = promo.uses + 1 /\ UNCHANGED <<redeemed, uncounted>>
      <3>1. K' = K /\ C' = C - 1
        BY <1>1, <2>2, <2>3, <2>8
      <3>2. R' = R /\ IsFiniteSet(redeemed')
        BY <2>4, <2>8
      <3> HIDE DEF N, R, C, K
      <3>3. QED
        BY <1>1, <1>2, <1>3, <1>4, <2>8, <3>1, <3>2
    <2>9. CASE /\ ~Entitled(req[q]) /\ ~Entitled(req'[q])
               /\ req[q].at = "promo_count" /\ req'[q].at # "promo_count"
               /\ uncounted' = uncounted + 1 /\ UNCHANGED <<redeemed, promo>>
      <3>1. K' = K /\ C' = C - 1
        BY <1>1, <2>2, <2>3, <2>9
      <3>2. R' = R /\ IsFiniteSet(redeemed')
        BY <2>4, <2>9
      <3> HIDE DEF N, R, C, K
      <3>3. QED
        BY <1>1, <1>2, <1>3, <1>4, <2>9, <3>1, <3>2
    <2>10. QED
      BY <1>5, <2>5, <2>6, <2>7, <2>8, <2>9, UsesMove DEF Uses
  <1>6. CASE ~ \E q \in Requests : Handler(q)
    <2>1. UNCHANGED <<redeemed, req, uncounted>>
      BY <1>6, Outside
    <2>2. promo'.uses = promo.uses
      BY <1>6 DEF Next, vars, Handler, PromoSwitch, KeyExpires, TypeOK
    <2>3. R' = R /\ C' = C /\ K' = K /\ IsFiniteSet(redeemed')
      BY <2>1 DEF Counting, Checked, Entitled, WithinBound
    <2> HIDE DEF N, R, C, K
    <2>4. QED
      BY <1>1, <1>2, <1>3, <1>4, <2>1, <2>2, <2>3
  <1>7. QED
    BY <1>5, <1>6

\* However many bookings race for the last use of a code, it is overrun by no
\* more than the requests in flight and the counts that were lost
\* (trips.ts:758-811).
THEOREM OverrunIsBounded == Spec => []OverrunBounded
  <1>1. Spec => [](TypeOK /\ WithinBound)
    <2>1. Init => TypeOK /\ WithinBound
      BY TypeInit, WithinInit
    <2>2. (TypeOK /\ WithinBound) /\ [Next]_vars => (TypeOK /\ WithinBound)'
      BY TypeNext, WithinNext
    <2>3. QED
      BY <2>1, <2>2, PTL DEF Spec
  <1>2. TypeOK /\ WithinBound => OverrunBounded
    <2> SUFFICES ASSUME TypeOK, WithinBound PROVE OverrunBounded
      OBVIOUS
    <2>1. Cardinality(redeemed) \in Nat /\ Cardinality(Checked) \in Nat
          /\ Cardinality(Requests) \in Nat /\ MaxUses \in Nat /\ uncounted \in Nat
      BY LedgerAssumption, FS_Subset, FS_CardinalityType DEF WithinBound, Checked, TypeOK
    <2>2. Cardinality(redeemed) + Cardinality(Checked) <= MaxUses + Cardinality(Requests) - 1 + uncounted
      BY DEF WithinBound, Spent
    <2>3. QED
      BY <2>1, <2>2 DEF OverrunBounded
  <1>3. QED
    BY <1>1, <1>2, PTL

=============================================================================
