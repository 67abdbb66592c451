--------------------------- MODULE SessionsProofs ---------------------------
(***************************************************************************)
(* Theorems about Sessions, for every set of sessions, links and requests. *)
(***************************************************************************)
EXTENDS Sessions, FiniteSetTheorems, TLAPS

-----------------------------------------------------------------------------
(* Requests                                                                *)

LinkSteps == {"verify_update", "verify_delete", "mfa_delete", "mfa_open",
              "code_delete", "reset_delete", "reset_password", "reset_revoke"}

\* Where a request still uses its link or its session, it has one.
LocalsOK(v) ==
    /\ v.at \in LinkSteps => v.link \in Links
    /\ v.at = "refresh_rotate" => v.session \in SessionIds

RequestsOK == request \in [Requests -> Request] /\ \A q \in Requests : LocalsOK(request[q])

\* An idle slot carries nothing.
LEMMA IdleOK == Idle \in Request /\ LocalsOK(Idle)
  BY SessionsAssumption DEF Idle, Request, Steps, OpeningSteps, LoginSteps, ResetSteps,
     LinkSteps, LocalsOK, Passwords, NoPassword, Times

\* What one slot may become keeps all of them in order.
LEMMA OneRequest ==
  ASSUME RequestsOK, NEW q \in Requests, NEW v \in Request, LocalsOK(v),
         request' = [request EXCEPT ![q] = v]
  PROVE  RequestsOK'
  BY DEF RequestsOK, LocalsOK

LEMMA AnswersOK ==
  ASSUME RequestsOK, NEW q \in Requests, Answers(q)
  PROVE  RequestsOK'
  BY IdleOK, OneRequest DEF Answers

\* A request that moves on keeps its locals.
LEMMA GoesOK ==
  ASSUME RequestsOK, NEW q \in Requests, NEW s \in Steps, Goes(q, s),
         s \in LinkSteps => request[q].at \in LinkSteps,
         s # "refresh_rotate"
  PROVE  RequestsOK'
  <1> DEFINE v == [request[q] EXCEPT !.at = s]
  <1>1. v \in Request
    BY DEF RequestsOK, Request
  <1>2. LocalsOK(v)
    BY DEF RequestsOK, LocalsOK, Request
  <1>3. request' = [request EXCEPT ![q] = v]
    BY DEF Goes
  <1> HIDE DEF v
  <1>4. QED
    BY <1>1, <1>2, <1>3, OneRequest

\* A handler that starts work on a link has one.
LEMMA GetLinkOK ==
  ASSUME RequestsOK, NEW q \in Requests, NEW l \in Links, NEW kind, NEW s \in Steps,
         GetLink(q, l, kind, s), s # "refresh_rotate"
  PROVE  RequestsOK'
  <1> DEFINE v == [Idle EXCEPT !.at = s, !.link = l]
  <1>1. v \in Request /\ LocalsOK(v)
    BY IdleOK DEF Request, LocalsOK
  <1>2. request' = [request EXCEPT ![q] = v]
    BY DEF GetLink, Starts
  <1> HIDE DEF v
  <1>3. QED
    BY <1>1, <1>2, OneRequest

\* One that starts with a step that needs neither link nor session.
LEMMA StartsOK ==
  ASSUME RequestsOK, NEW q \in Requests, NEW s \in Steps \ (LinkSteps \union {"refresh_rotate"}),
         Starts(q, [Idle EXCEPT !.at = s])
  PROVE  RequestsOK'
  <1> DEFINE v == [Idle EXCEPT !.at = s]
  <1>1. v \in Request /\ LocalsOK(v)
    BY IdleOK DEF Request, LocalsOK
  <1>2. request' = [request EXCEPT ![q] = v]
    BY DEF Starts
  <1> HIDE DEF v
  <1>3. QED
    BY <1>1, <1>2, OneRequest

LEMMA LoginReadOK ==
  ASSUME TypeOK, RequestsOK, NEW q \in Requests, LoginRead(q)
  PROVE  RequestsOK'
  <1> DEFINE s == IF account.legacy THEN "login_rehash"
                  ELSE IF account.mfa THEN "login_challenge" ELSE "login_open"
  <1> DEFINE v == [Idle EXCEPT !.password = account.password, !.mfa = account.mfa, !.at = s]
  <1>1. s \in LoginSteps
    BY DEF LoginSteps
  <1>2. request' = [request EXCEPT ![q] = v]
    BY DEF LoginRead, Starts
  <1>3. account.password \in Passwords /\ account.mfa \in BOOLEAN
    BY DEF TypeOK, Account
  <1> HIDE DEF s
  <1>4. v \in Request /\ LocalsOK(v)
    BY <1>1, <1>3, IdleOK DEF Request, LocalsOK, LinkSteps, LoginSteps, Steps, OpeningSteps
  <1> HIDE DEF v
  <1>5. QED
    BY <1>2, <1>4, OneRequest

LEMMA RefreshFindOK ==
  ASSUME TypeOK, RequestsOK, NEW q \in Requests, NEW s \in SessionIds, RefreshFind(q, s)
  PROVE  RequestsOK'
  <1> DEFINE v == [Idle EXCEPT !.at = "refresh_rotate", !.session = s, !.signed = now]
  <1>1. v \in Request /\ LocalsOK(v)
    BY IdleOK DEF TypeOK, Request, LocalsOK, LinkSteps, Steps
  <1>2. request' = [request EXCEPT ![q] = v]
    BY DEF RefreshFind, Starts
  <1> HIDE DEF v
  <1>3. QED
    BY <1>1, <1>2, OneRequest

\* No handler leaves a request without what it still needs.
LEMMA HandlersKeepRequests ==
  ASSUME TypeOK, RequestsOK, NEW q \in Requests, Handler(q)
  PROVE  RequestsOK'
  <1> USE DEF Steps, OpeningSteps, LoginSteps, ResetSteps, LinkSteps
  <1>1. CASE \E s \in SessionIds : RefreshFind(q, s)
    BY <1>1, RefreshFindOK
  <1>2. CASE LoginRead(q)
    BY <1>2, LoginReadOK
  <1>3. CASE RegisterRead(q)
    BY <1>3, StartsOK DEF RegisterRead
  <1>4. CASE ForgotRead(q)
    BY <1>4, StartsOK DEF ForgotRead
  <1>5. CASE \E l \in Links : GoogleState(q, l) \/ AppleState(q, l)
    BY <1>5, StartsOK DEF GoogleState, AppleState, TakeState
  <1>6. CASE \E l \in Links : VerifyGet(q, l)
    BY <1>6, GetLinkOK DEF VerifyGet
  <1>7. CASE \E l \in Links : MfaGet(q, l)
    BY <1>7, GetLinkOK DEF MfaGet
  <1>8. CASE \E l \in Links : CodeGet(q, l)
    BY <1>8, GetLinkOK DEF CodeGet
  <1>9. CASE \E l \in Links : ResetGet(q, l)
    BY <1>9, GetLinkOK DEF ResetGet
  <1>10. CASE \/ RegisterLink(q) \/ VerifyDelete(q) \/ LoginChallenge(q) \/ LoginOpen(q)
              \/ MfaOpen(q) \/ OAuthCode(q) \/ CodeDelete(q) \/ RefreshRotate(q)
              \/ ForgotPut(q) \/ ResetRevoke(q) \/ Abort(q)
    BY <1>10, AnswersOK DEF RegisterLink, VerifyDelete, LoginChallenge, LoginOpen, MfaOpen,
       OAuthCode, CodeDelete, RefreshRotate, ForgotPut, ResetRevoke, Abort
  <1>11. CASE RegisterInsert(q) \/ GoogleRead(q) \/ AppleRead(q) \/ OAuthInsert(q)
    BY <1>11, AnswersOK, GoesOK DEF RegisterInsert, GoogleRead, AppleRead, OAuthInsert
  <1>12. CASE VerifyUpdate(q) \/ MfaDelete(q) \/ ResetDelete(q) \/ ResetPassword(q)
    BY <1>12, GoesOK DEF VerifyUpdate, MfaDelete, ResetDelete, ResetPassword
  <1>13. CASE OAuthLink(q) \/ OAuthOpen(q)
    BY <1>13, GoesOK DEF OAuthLink, OAuthOpen
  <1>14. CASE LoginRehash(q)
    <2> DEFINE s == IF request[q].mfa THEN "login_challenge" ELSE "login_open"
    <2>1. Goes(q, s)
      BY <1>14 DEF LoginRehash
    <2>2. s \in {"login_challenge", "login_open"}
      OBVIOUS
    <2> HIDE DEF s
    <2>3. QED
      BY <2>1, <2>2, GoesOK
  <1>15. QED
    BY <1>1, <1>2, <1>3, <1>4, <1>5, <1>6, <1>7, <1>8, <1>9, <1>10, <1>11, <1>12,
       <1>13, <1>14 DEF Handler

-----------------------------------------------------------------------------
(* Type correctness                                                        *)

Tables == /\ session \in [SessionIds -> Session]
          /\ link \in [Links -> Link]

\* The statements on the two tables keep their rows in order.
LEMMA LinksOK ==
  ASSUME link \in [Links -> Link], NEW l \in Links, NEW kind \in LinkKinds,
         \/ PutLink(kind) \/ DeleteLink(l) \/ UseLink(l) \/ UNCHANGED link
  PROVE  link' \in [Links -> Link]
  BY DEF PutLink, DeleteLink, UseLink, Link, LinkKinds

LEMMA OpenOK ==
  ASSUME session \in [SessionIds -> Session], now \in Times, NEW p \in Passwords, OpenSession(p)
  PROVE  session' \in [SessionIds -> Session]
  <1> DEFINE row == [status |-> "active", token |-> now, password |-> p]
  <1>1. row \in Session
    BY DEF Session
  <1>2. UNCHANGED session \/ \E s \in SessionIds : session' = [session EXCEPT ![s] = row]
    BY DEF OpenSession
  <1> HIDE DEF row
  <1>3. QED
    BY <1>1, <1>2

LEMMA RevokeOK ==
  ASSUME session \in [SessionIds -> Session], NEW S, RevokeAll(S)
  PROVE  session' \in [SessionIds -> Session]
  BY DEF RevokeAll, Session

LEMMA RotatedOK ==
  ASSUME session \in [SessionIds -> Session], NEW s \in SessionIds, NEW t \in Times
  PROVE  Rotated(s, t) \in [SessionIds -> Session]
  <1> DEFINE row == [session[s] EXCEPT !.token = t,
                       !.status = IF @ = "expired" THEN "active" ELSE @]
  <1>1. row \in Session
    BY DEF Session
  <1>2. Rotated(s, t) = session \/ Rotated(s, t) = [session EXCEPT ![s] = row]
    BY DEF Rotated
  <1> HIDE DEF row
  <1>3. QED
    BY <1>1, <1>2


LEMMA AccountOK ==
  ASSUME account \in Account, NEW p \in Passwords,
         \/ UNCHANGED account
         \/ account' = [account EXCEPT !.verified = TRUE]
         \/ account' = [account EXCEPT !.password = p, !.legacy = FALSE]
         \/ account' = ProviderRow
         \/ account' = [Unregistered EXCEPT !.row = "live", !.password = 1]
         \/ \E b \in BOOLEAN : account' = [account EXCEPT !.mfa = b]
         \/ \E b \in BOOLEAN : account' = [account EXCEPT !.active = b]
         \/ account' = [account EXCEPT !.row = "deleted", !.active = FALSE, !.mfa = FALSE]
  PROVE  account' \in Account
  <1>1. Unregistered \in Account /\ 1 \in Passwords
    BY SessionsAssumption DEF Account, Unregistered, Passwords, NoPassword
  <1>2. ProviderRow \in Account
    BY <1>1 DEF Account, ProviderRow
  <1>3. [Unregistered EXCEPT !.row = "live", !.password = 1] \in Account
    BY <1>1 DEF Account
  <1>4. [account EXCEPT !.row = "deleted", !.active = FALSE, !.mfa = FALSE] \in Account
    BY DEF Account
  <1>5. QED
    BY <1>2, <1>3, <1>4, ZenonT(90) DEF Account

Wellformed == TypeOK /\ \A q \in Requests : LocalsOK(request[q])

LEMMA WellformedInit == Init => Wellformed
  <1> SUFFICES ASSUME Init PROVE Wellformed
    OBVIOUS
  <1>1. Unregistered \in Account /\ 1 \in Passwords
    BY SessionsAssumption DEF Account, Unregistered, Passwords, NoPassword
  <1>2. account \in Account
    BY <1>1 DEF Init, Account
  <1>3. session \in [SessionIds -> Session] /\ link \in [Links -> Link]
    <2>1. NoSession \in Session
      BY SessionsAssumption DEF Session, NoSession, Passwords, NoPassword, Times
    <2>2. [kind |-> "unused", uses |-> 0] \in Link
      BY DEF Link, LinkKinds
    <2>3. /\ session = [s \in SessionIds |-> NoSession]
          /\ link = [l \in Links |-> [kind |-> "unused", uses |-> 0]]
      BY DEF Init
    <2>4. QED
      BY <2>1, <2>2, <2>3
  <1>4. /\ request \in [Requests -> Request]
        /\ \A q \in Requests : LocalsOK(request[q])
    BY IdleOK DEF Init
  <1>5. now \in Times /\ aborts \in 0..MaxAborts
    <2>1. now = 0 /\ aborts = 0
      BY DEF Init
    <2>2. QED
      BY <2>1, SessionsAssumption DEF Times
  <1>6. QED
    BY <1>2, <1>3, <1>4, <1>5 DEF Wellformed, TypeOK

\* A step of a handler.
LEMMA HandlersWellformed ==
  ASSUME Wellformed, NEW q \in Requests, Handler(q)
  PROVE  Wellformed'
  <1> USE DEF Wellformed
  <1>1. RequestsOK
    BY DEF RequestsOK, TypeOK
  <1>2. RequestsOK'
    BY <1>1, HandlersKeepRequests
  <1>3. /\ account \in Account /\ session \in [SessionIds -> Session]
        /\ link \in [Links -> Link] /\ now \in Times /\ aborts \in 0..MaxAborts
        /\ request[q] \in Request /\ LocalsOK(request[q])
    BY DEF TypeOK
  <1>4. /\ request[q].password \in Passwords /\ request[q].signed \in Times
        /\ NoPassword \in Passwords /\ 1 \in Passwords
    BY <1>3, SessionsAssumption DEF Request, Passwords, NoPassword
  <1>5. account' \in Account
    <2>1. CASE UNCHANGED account
      BY <1>3, <2>1
    <2>2. CASE RegisterInsert(q)
      BY <1>3, <1>4, <2>2, AccountOK DEF RegisterInsert
    <2>3. CASE VerifyUpdate(q) \/ OAuthLink(q)
      BY <1>3, <1>4, <2>3, AccountOK DEF VerifyUpdate, OAuthLink
    <2>4. CASE LoginRehash(q)
      BY <1>3, <1>4, <2>4, AccountOK DEF LoginRehash
    <2>5. CASE OAuthInsert(q)
      BY <1>3, <1>4, <2>5, AccountOK DEF OAuthInsert
    <2>6. CASE ResetPassword(q)
      <3>1. account.password + 1 \in Passwords
        <4>1. account.password \in Passwords /\ account.password < MaxPassword
          BY <1>3, <2>6 DEF ResetPassword, Account
        <4>2. QED
          BY <4>1, SessionsAssumption DEF Passwords, NoPassword
      <3>2. account' = [account EXCEPT !.password = account.password + 1, !.legacy = FALSE]
        BY <2>6 DEF ResetPassword
      <3>3. QED
        BY <1>3, <3>1, <3>2, AccountOK
    <2>7. QED
      BY <2>1, <2>2, <2>3, <2>4, <2>5, <2>6 DEF Handler, RegisterRead, RegisterLink, VerifyGet,
         VerifyDelete, LoginRead, LoginChallenge, LoginOpen, MfaGet, MfaDelete, MfaOpen,
         GoogleState, AppleState, TakeState, GoogleRead, AppleRead, OAuthOpen, OAuthCode,
         CodeGet, CodeDelete, RefreshFind, RefreshRotate, ForgotRead, ForgotPut, ResetGet,
         ResetDelete, ResetRevoke, Abort
  <1>6. session' \in [SessionIds -> Session]
    <2>1. CASE UNCHANGED session
      BY <1>3, <2>1
    <2>2. CASE LoginOpen(q) \/ MfaOpen(q) \/ OAuthOpen(q)
      BY <1>3, <1>4, <2>2, OpenOK DEF LoginOpen, MfaOpen, OAuthOpen
    <2>3. CASE RefreshRotate(q)
      BY <1>3, <1>4, <2>3, RotatedOK DEF RefreshRotate, LocalsOK
    <2>4. CASE ResetRevoke(q)
      BY <1>3, <2>4, RevokeOK DEF ResetRevoke
    <2>5. QED
      BY <2>1, <2>2, <2>3, <2>4 DEF Handler, RegisterRead, RegisterInsert, RegisterLink, VerifyGet,
         VerifyUpdate, VerifyDelete, LoginRead, LoginRehash, LoginChallenge, MfaGet, MfaDelete,
         GoogleState, AppleState, TakeState, GoogleRead, AppleRead, OAuthLink, OAuthInsert,
         OAuthCode, CodeGet, CodeDelete, RefreshFind, ForgotRead, ForgotPut, ResetGet,
         ResetDelete, ResetPassword, Abort
  <1>7. link' \in [Links -> Link]
    <2>1. CASE UNCHANGED link
      BY <1>3, <2>1
    <2>2. CASE \/ RegisterLink(q) \/ LoginChallenge(q) \/ OAuthCode(q) \/ ForgotPut(q)
      BY <1>3, <2>2 DEF RegisterLink, LoginChallenge, OAuthCode, ForgotPut, PutLink, Link, LinkKinds
    <2>3. CASE VerifyDelete(q) \/ MfaDelete(q) \/ ResetDelete(q)
      BY <1>3, <2>3 DEF VerifyDelete, MfaDelete, ResetDelete, DeleteLink, Link, LinkKinds
    <2>4. CASE MfaOpen(q) \/ ResetPassword(q)
      BY <1>3, <2>4 DEF MfaOpen, ResetPassword, UseLink, Link, LinkKinds
    <2>5. CASE CodeDelete(q)
      BY <1>3, <2>5 DEF CodeDelete, LocalsOK, LinkSteps, Link, LinkKinds
    <2>6. CASE \E l \in Links : GoogleState(q, l) \/ AppleState(q, l)
      BY <1>3, <2>6 DEF GoogleState, AppleState, TakeState, Link, LinkKinds
    <2>7. QED
      BY <2>1, <2>2, <2>3, <2>4, <2>5, <2>6 DEF Handler, RegisterRead, RegisterInsert, VerifyGet,
         VerifyUpdate, LoginRead, LoginRehash, LoginOpen, MfaGet, GoogleRead, AppleRead, OAuthLink,
         OAuthInsert, OAuthOpen, CodeGet, RefreshFind, RefreshRotate, ForgotRead, ResetGet,
         ResetRevoke, Abort
  <1>8. now' \in Times
    BY <1>3 DEF Handler, RegisterRead, RegisterInsert, RegisterLink, VerifyGet, VerifyUpdate,
       VerifyDelete, LoginRead, LoginRehash, LoginChallenge, LoginOpen, MfaGet, MfaDelete, MfaOpen,
       GoogleState, AppleState, TakeState, GoogleRead, AppleRead, OAuthLink, OAuthInsert, OAuthOpen,
       OAuthCode, CodeGet, CodeDelete, RefreshFind, RefreshRotate, ForgotRead, ForgotPut, ResetGet,
       ResetDelete, ResetPassword, ResetRevoke, Abort
  <1>9. aborts' \in 0..MaxAborts
    <2>1. CASE Abort(q)
      BY <1>3, <2>1, SessionsAssumption DEF Abort
    <2>2. CASE UNCHANGED aborts
      BY <1>3, <2>2
    <2>3. QED
      BY <2>1, <2>2 DEF Handler, RegisterRead, RegisterInsert, RegisterLink, VerifyGet, VerifyUpdate,
         VerifyDelete, LoginRead, LoginRehash, LoginChallenge, LoginOpen, MfaGet, MfaDelete, MfaOpen,
         GoogleState, AppleState, TakeState, GoogleRead, AppleRead, OAuthLink, OAuthInsert, OAuthOpen,
         OAuthCode, CodeGet, CodeDelete, RefreshFind, RefreshRotate, ForgotRead, ForgotPut, ResetGet,
         ResetDelete, ResetPassword, ResetRevoke
  <1>10. QED
    BY <1>2, <1>5, <1>6, <1>7, <1>8, <1>9 DEF TypeOK, RequestsOK

\* A step that belongs to no handler.
LEMMA OthersWellformed ==
  ASSUME Wellformed, [Next]_vars, ~ \E q \in Requests : Handler(q)
  PROVE  Wellformed'
  <1> USE DEF Wellformed
  <1>1. CASE MfaConfirm \/ MfaDisable \/ DeleteAccount \/ \E on \in BOOLEAN : SetActive(on)
    <2>1. account' \in Account
      <3>1. account \in Account /\ NoPassword \in Passwords
        BY SessionsAssumption DEF TypeOK, Passwords, NoPassword
      <3>2. QED
        BY <1>1, <3>1, AccountOK DEF MfaConfirm, MfaDisable, DeleteAccount, SetActive
    <2>2. QED
      BY <1>1, <2>1 DEF MfaConfirm, MfaDisable, DeleteAccount, SetActive, TypeOK
  <1>2. CASE GoogleStart \/ AppleStart
    BY <1>2 DEF GoogleStart, AppleStart, PutLink, TypeOK, Link, LinkKinds
  <1>3. CASE \E l \in Links : ExpireLink(l)
    BY <1>3 DEF ExpireLink, DeleteLink, TypeOK, Link, LinkKinds
  <1>4. CASE \E t \in Times : Logout(t)
    BY <1>4, RevokeOK DEF Logout, TypeOK
  <1>5. CASE Tick
    BY <1>5, SessionsAssumption DEF Tick, TypeOK, Times
  <1>6. CASE \E s \in SessionIds : ExpireSession(s)
    BY <1>6 DEF ExpireSession, TypeOK, Session
  <1>7. CASE Cleanup
    BY <1>7, SessionsAssumption DEF Cleanup, TypeOK, Session, NoSession, Times, Passwords, NoPassword
  <1>8. CASE UNCHANGED vars
    BY <1>8 DEF vars, TypeOK
  <1>9. QED
    BY <1>1, <1>2, <1>3, <1>4, <1>5, <1>6, <1>7, <1>8 DEF Next

LEMMA WellformedNext == Wellformed /\ [Next]_vars => Wellformed'
  BY HandlersWellformed, OthersWellformed

\* Rows, links and requests keep their types, whatever the handlers in flight
\* read before they write.
THEOREM TypeCorrect == Spec => []TypeOK
  <1>1. Spec => []Wellformed
    BY WellformedInit, WellformedNext, PTL DEF Spec
  <1>2. Wellformed => TypeOK
    BY DEF Wellformed
  <1>3. QED
    BY <1>1, <1>2, PTL

-----------------------------------------------------------------------------
(* Nobody signs in with an unverified address                              *)

SignInSteps == LoginSteps \union {"mfa_delete", "mfa_open", "oauth_open"}

\* Before anybody has registered nothing that verifies an address is under way.
NothingVerifies ==
    account.row = "none" =>
       /\ ~account.verified
       /\ \A l \in Links : link[l].kind # "verify"
       /\ \A q \in Requests :
             request[q].at \notin {"register_link", "verify_update", "oauth_link"}

Verified == OnlyVerifiedSignIn /\ NothingVerifies

\* What a slot holds after each kind of step.
LEMMA IdleIs == /\ Idle.at = "idle" /\ Idle.link = Nobody /\ Idle.password = NoPassword
                /\ Idle \in Request
  BY IdleOK DEF Idle

LEMMA StartsAt ==
  ASSUME request \in [Requests -> Request], NEW q \in Requests, NEW s,
         Starts(q, [Idle EXCEPT !.at = s])
  PROVE  request'[q].at = s /\ request'[q].link = Nobody /\ request[q].at = "idle"
  BY IdleIs DEF Starts, Request

LEMMA GetLinkAt ==
  ASSUME request \in [Requests -> Request], NEW q \in Requests, NEW l, NEW kind, NEW s,
         GetLink(q, l, kind, s)
  PROVE  request'[q].at = s /\ request'[q].link = l /\ request[q].at = "idle"
  BY IdleIs DEF GetLink, Starts, Request

LEMMA LoginReadAt ==
  ASSUME request \in [Requests -> Request], NEW q \in Requests, LoginRead(q)
  PROVE  /\ request'[q].at \in LoginSteps /\ request'[q].link = Nobody
         /\ request'[q].password = account.password /\ request[q].at = "idle"
  BY IdleIs DEF LoginRead, Starts, Request, LoginSteps

LEMMA RefreshFindAt ==
  ASSUME request \in [Requests -> Request], NEW q \in Requests, NEW s, RefreshFind(q, s)
  PROVE  request'[q].at = "refresh_rotate" /\ request'[q].link = Nobody
         /\ request[q].at = "idle"
  BY IdleIs DEF RefreshFind, Starts, Request

LEMMA GoesAt ==
  ASSUME request \in [Requests -> Request], NEW q \in Requests, NEW s, Goes(q, s)
  PROVE  /\ request'[q].at = s
         /\ request'[q].link = request[q].link /\ request'[q].password = request[q].password
  BY DEF Goes, Request

LEMMA AnswersAt ==
  ASSUME request \in [Requests -> Request], NEW q \in Requests, Answers(q)
  PROVE  request'[q].at = "idle" /\ request'[q].link = Nobody
  BY IdleIs DEF Answers

\* A handler's step changes one slot.
LEMMA OneSlot ==
  ASSUME Wellformed, NEW q \in Requests, Handler(q)
  PROVE  \A p \in Requests \ {q} : request'[p] = request[p]
  BY DEF Wellformed, TypeOK, Handler, RegisterRead, RegisterInsert, RegisterLink, VerifyGet, VerifyUpdate,
     VerifyDelete, LoginRehash, LoginChallenge, LoginOpen, MfaGet, MfaDelete, MfaOpen,
     GoogleState, AppleState, TakeState, GoogleRead, AppleRead, OAuthLink, OAuthInsert, OAuthOpen,
     OAuthCode, CodeGet, CodeDelete, RefreshRotate, ForgotRead, ForgotPut, ResetGet,
     ResetDelete, ResetPassword, ResetRevoke, Abort, LoginRead, RefreshFind, Starts, Goes, Answers, GetLink

\* The steps a handler may start with, and the pairs of steps one goes through.
Begins(q, to) ==
    \/ to \in {"register_insert", "forgot_put", "google_read", "apple_read", "refresh_rotate"}
    \/ LoginRead(q) /\ to \in LoginSteps
BeginsOn(q, l, to) ==
    \/ VerifyGet(q, l) /\ to = "verify_update" /\ link[l].kind = "verify"
    \/ MfaGet(q, l) /\ to = "mfa_delete" /\ link[l].kind = "challenge"
    \/ CodeGet(q, l) /\ to = "code_delete" /\ link[l].kind = "code"
    \/ ResetGet(q, l) /\ to = "reset_delete" /\ link[l].kind = "reset"
GoesOn(q, from, to) ==
    \/ RegisterInsert(q) /\ to = "register_link" /\ account'.row = "live"
    \/ VerifyUpdate(q) /\ to = "verify_delete"
    \/ LoginRehash(q) /\ to \in {"login_challenge", "login_open"} /\ from = "login_rehash"
    \/ MfaDelete(q) /\ to = "mfa_open" /\ from = "mfa_delete"
    \/ GoogleRead(q) /\ to = "oauth_link" /\ account.row = "live"
    \/ GoogleRead(q) /\ to = "oauth_insert" /\ account.row = "none"
    \/ AppleRead(q) /\ to = "oauth_link" /\ account.row = "live"
    \/ AppleRead(q) /\ to = "oauth_insert" /\ account.row = "none"
    \/ OAuthLink(q) /\ to = "oauth_open" /\ account'.verified /\ from = "oauth_link"
    \/ OAuthInsert(q) /\ to = "oauth_open" /\ account'.verified /\ from = "oauth_insert"
    \/ OAuthOpen(q) /\ to = "oauth_code"
    \/ ResetDelete(q) /\ to = "reset_password" /\ from = "reset_delete"
    \/ ResetPassword(q) /\ to = "reset_revoke" /\ from = "reset_password"

\* A handler's step starts it, moves it on, or answers.
LEMMA ControlFlow ==
  ASSUME Wellformed, NEW q \in Requests, Handler(q)
  PROVE  LET from == request[q].at  to == request'[q].at IN
         \/ to = "idle" /\ request'[q].link = Nobody
         \/ from = "idle" /\ request'[q].link = Nobody /\ Begins(q, to)
         \/ from = "idle" /\ \E l \in Links : request'[q].link = l /\ BeginsOn(q, l, to)
         \/ /\ GoesOn(q, from, to)
            /\ request'[q].link = request[q].link /\ request'[q].password = request[q].password
  <1>0. request \in [Requests -> Request] /\ account \in Account
    BY DEF Wellformed, TypeOK
  <1>1. CASE RegisterRead(q) \/ ForgotRead(q)
    BY <1>0, <1>1, StartsAt DEF RegisterRead, ForgotRead, Begins
  <1>2. CASE \E l \in Links : GoogleState(q, l) \/ AppleState(q, l)
    BY <1>0, <1>2, StartsAt DEF GoogleState, AppleState, TakeState, Begins
  <1>3. CASE \E l \in Links : VerifyGet(q, l) \/ MfaGet(q, l) \/ CodeGet(q, l) \/ ResetGet(q, l)
    <2>1. PICK l \in Links : VerifyGet(q, l) \/ MfaGet(q, l) \/ CodeGet(q, l) \/ ResetGet(q, l)
      BY <1>3
    <2>2. \E kind, step :
             /\ GetLink(q, l, kind, step)
             /\ \/ VerifyGet(q, l) /\ kind = "verify" /\ step = "verify_update"
                \/ MfaGet(q, l) /\ kind = "challenge" /\ step = "mfa_delete"
                \/ CodeGet(q, l) /\ kind = "code" /\ step = "code_delete"
                \/ ResetGet(q, l) /\ kind = "reset" /\ step = "reset_delete"
      BY <2>1 DEF VerifyGet, MfaGet, CodeGet, ResetGet
    <2>3. PICK kind, step :
             /\ GetLink(q, l, kind, step)
             /\ \/ VerifyGet(q, l) /\ kind = "verify" /\ step = "verify_update"
                \/ MfaGet(q, l) /\ kind = "challenge" /\ step = "mfa_delete"
                \/ CodeGet(q, l) /\ kind = "code" /\ step = "code_delete"
                \/ ResetGet(q, l) /\ kind = "reset" /\ step = "reset_delete"
      BY <2>2
    <2>4. /\ request'[q].at = step /\ request'[q].link = l /\ request[q].at = "idle"
          /\ link[l].kind = kind
      BY <1>0, <2>3, GetLinkAt DEF GetLink
    <2>5. QED
      BY <2>3, <2>4 DEF BeginsOn
  <1>4. CASE LoginRead(q)
    BY <1>0, <1>4, LoginReadAt DEF Begins
  <1>5. CASE \E s \in SessionIds : RefreshFind(q, s)
    BY <1>0, <1>5, RefreshFindAt DEF Begins
  <1>6. CASE \/ RegisterLink(q) \/ VerifyDelete(q) \/ LoginChallenge(q) \/ LoginOpen(q)
             \/ MfaOpen(q) \/ OAuthCode(q) \/ CodeDelete(q) \/ RefreshRotate(q)
             \/ ForgotPut(q) \/ ResetRevoke(q) \/ Abort(q)
    BY <1>0, <1>6, AnswersAt DEF RegisterLink, VerifyDelete, LoginChallenge, LoginOpen, MfaOpen,
       OAuthCode, CodeDelete, RefreshRotate, ForgotPut, ResetRevoke, Abort
  <1>7. CASE VerifyUpdate(q) \/ ResetDelete(q) \/ ResetPassword(q) \/ OAuthOpen(q) \/ MfaDelete(q)
    BY <1>0, <1>7, GoesAt DEF VerifyUpdate, ResetDelete, ResetPassword, OAuthOpen, MfaDelete, GoesOn
  <1>8. CASE RegisterInsert(q)
    <2>1. [Unregistered EXCEPT !.row = "live", !.password = 1].row = "live"
      BY DEF Unregistered
    <2>2. \/ Answers(q)
          \/ Goes(q, "register_link") /\ account'.row = "live"
      BY <1>8, <2>1 DEF RegisterInsert
    <2>3. QED
      BY <1>0, <1>8, <2>2, AnswersAt, GoesAt DEF GoesOn
  <1>9. CASE GoogleRead(q) \/ AppleRead(q)
    BY <1>0, <1>9, AnswersAt, GoesAt DEF GoogleRead, AppleRead, GoesOn
  <1>10. CASE OAuthLink(q)
    <2>1. account'.verified /\ request[q].at = "oauth_link" /\ Goes(q, "oauth_open")
      BY <1>0, <1>10 DEF OAuthLink, Account
    <2>2. QED
      BY <1>0, <1>10, <2>1, GoesAt DEF GoesOn
  <1>11. CASE OAuthInsert(q)
    <2>1. ProviderRow.verified
      BY DEF ProviderRow, Unregistered
    <2>2. \/ Answers(q)
          \/ Goes(q, "oauth_open") /\ account'.verified /\ request[q].at = "oauth_insert"
      BY <1>11, <2>1 DEF OAuthInsert
    <2>3. QED
      BY <1>0, <1>11, <2>2, AnswersAt, GoesAt DEF GoesOn
  <1>12. CASE LoginRehash(q)
    <2>1. \E s \in {"login_challenge", "login_open"} : Goes(q, s)
      BY <1>12 DEF LoginRehash
    <2>2. QED
      BY <1>0, <1>12, <2>1, GoesAt DEF LoginRehash, GoesOn
  <1>13. QED
    BY <1>1, <1>2, <1>3, <1>4, <1>5, <1>6, <1>7, <1>8, <1>9, <1>10, <1>11, <1>12 DEF Handler

\* What makes a handler set out to sign in, or to verify an address.
LEMMA WhereTo ==
  ASSUME Wellformed, NEW q \in Requests, Handler(q)
  PROVE  LET from == request[q].at  to == request'[q].at IN
         /\ to = "register_link" => account'.row # "none"
         /\ to = "verify_update" => \E l \in Links : link[l].kind = "verify"
         /\ to = "oauth_link" => account.row = "live"
         /\ to \in SignInSteps =>
               \/ from \in SignInSteps
               \/ account.verified
               \/ \E l \in Links : link[l].kind = "challenge"
               \/ account'.verified
  BY ControlFlow DEF Begins, BeginsOn, GoesOn, SignInSteps, LoginSteps, LoginRead

\* The account's row through any step.
LEMMA AccountMoves ==
  ASSUME Wellformed, [Next]_vars
  PROVE  /\ account.row # "none" => account'.row # "none"
         /\ account.row # "none" /\ account.verified => account'.verified
         /\ account.row = "none" /\ account'.row = "none" =>
               \/ account'.verified = account.verified
               \/ \E q \in Requests : request[q].at \in {"verify_update", "oauth_link"}
  <1>0. account \in Account
    BY DEF Wellformed, TypeOK
  <1>1. CASE UNCHANGED account
    BY <1>1
  <1>2. ASSUME NEW q \in Requests, RegisterInsert(q) \/ OAuthInsert(q), account' # account
        PROVE  account.row = "none" /\ account'.row = "live"
    <2>1. /\ [Unregistered EXCEPT !.row = "live", !.password = 1].row = "live"
          /\ ProviderRow.row = "live"
      BY DEF Unregistered, ProviderRow
    <2>2. QED
      BY <1>2, <2>1 DEF RegisterInsert, OAuthInsert
  <1>3. ASSUME NEW q \in Requests, VerifyUpdate(q) \/ OAuthLink(q)
        PROVE  /\ account'.row = account.row /\ account'.verified
               /\ request[q].at \in {"verify_update", "oauth_link"}
    BY <1>0, <1>3 DEF VerifyUpdate, OAuthLink, Account
  <1>4. ASSUME NEW q \in Requests, LoginRehash(q) \/ ResetPassword(q)
        PROVE  account'.row = account.row /\ account'.verified = account.verified
    BY <1>0, <1>4 DEF LoginRehash, ResetPassword, Account
  <1>5. ASSUME MfaConfirm \/ MfaDisable \/ DeleteAccount \/ \E on \in BOOLEAN : SetActive(on)
        PROVE  /\ account.row # "none" => account'.row # "none"
               /\ account'.verified = account.verified
    BY <1>0, <1>5 DEF MfaConfirm, MfaDisable, DeleteAccount, SetActive, Account
  <1>6. QED
    BY <1>1, <1>2, <1>3, <1>4, <1>5, ZenonT(90) DEF Next, vars, Handler,
     RegisterRead, RegisterInsert, RegisterLink, VerifyGet, VerifyUpdate,
     VerifyDelete, LoginRehash, LoginChallenge, LoginOpen, MfaGet, MfaDelete, MfaOpen,
     GoogleState, AppleState, TakeState, GoogleRead, AppleRead, OAuthLink, OAuthInsert, OAuthOpen,
     OAuthCode, CodeGet, CodeDelete, RefreshRotate, ForgotRead, ForgotPut, ResetGet,
     ResetDelete, ResetPassword, ResetRevoke, Abort, LoginRead, RefreshFind, Starts, Goes, Answers, GetLink,
     GoogleStart, AppleStart, SetActive, Cleanup, ExpireSession,
     ExpireLink, Logout, MfaConfirm, MfaDisable, DeleteAccount, Tick

\* A session's row appears only where a handler opens one.
LEMMA SessionsAppear ==
  ASSUME Wellformed, [Next]_vars, NEW s \in SessionIds, session'[s].status # "none"
  PROVE  \/ session[s].status # "none"
         \/ \E q \in Requests : request[q].at \in {"login_open", "mfa_open", "oauth_open"}
  <1>0. session \in [SessionIds -> Session]
    BY DEF Wellformed, TypeOK
  <1>1. CASE UNCHANGED session
    BY <1>1
  <1>2. ASSUME NEW q \in Requests, LoginOpen(q) \/ MfaOpen(q) \/ OAuthOpen(q)
        PROVE  request[q].at \in {"login_open", "mfa_open", "oauth_open"}
    BY <1>2 DEF LoginOpen, MfaOpen, OAuthOpen
  <1>3. ASSUME NEW q \in Requests, RefreshRotate(q)
        PROVE  session[s].status # "none"
    BY <1>0, <1>3 DEF RefreshRotate, Rotated, Session
  <1>4. ASSUME NEW S, RevokeAll(S)
        PROVE  session[s].status # "none"
    BY <1>0, <1>4 DEF RevokeAll, Session
  <1>5. ASSUME NEW x \in SessionIds, ExpireSession(x)
        PROVE  session[s].status # "none"
    BY <1>0, <1>5 DEF ExpireSession, Active, Session
  <1>6. ASSUME Cleanup
        PROVE  session[s].status # "none"
    <2>1. NoSession.status = "none"
      BY DEF NoSession
    <2>2. QED
      BY <1>0, <1>6, <2>1 DEF Cleanup
  <1>7. QED
    BY <1>1, <1>2, <1>3, <1>4, <1>5, <1>6, ZenonT(90) DEF Next, vars, Handler,
     RegisterRead, RegisterInsert, RegisterLink, VerifyGet, VerifyUpdate,
     VerifyDelete, LoginRehash, LoginChallenge, LoginOpen, MfaGet, MfaDelete, MfaOpen,
     GoogleState, AppleState, TakeState, GoogleRead, AppleRead, OAuthLink, OAuthInsert, OAuthOpen,
     OAuthCode, CodeGet, CodeDelete, RefreshRotate, ForgotRead, ForgotPut, ResetGet,
     ResetDelete, ResetPassword, ResetRevoke, Abort, LoginRead, RefreshFind, Starts, Goes, Answers, GetLink,
     GoogleStart, AppleStart, SetActive, Cleanup, ExpireSession,
     ExpireLink, Logout, MfaConfirm, MfaDisable, DeleteAccount, Tick

\* A link of a kind appears only where a handler puts one.
LEMMA LinksAppear ==
  ASSUME Wellformed, [Next]_vars, NEW l \in Links
  PROVE  /\ link'[l].kind = "verify" => \/ link[l].kind = "verify"
                                        \/ \E q \in Requests : request[q].at = "register_link"
         /\ link'[l].kind = "challenge" => \/ link[l].kind = "challenge"
                                           \/ \E q \in Requests : request[q].at = "login_challenge"
  <1>0. link \in [Links -> Link]
    BY DEF Wellformed, TypeOK
  <1>1. CASE UNCHANGED link
    BY <1>1
  <1>2. ASSUME NEW kind, PutLink(kind), kind \notin {"verify", "challenge"}
        PROVE  link'[l].kind = link[l].kind \/ link'[l].kind = kind
    BY <1>0, <1>2 DEF PutLink, Link
  <1>3. ASSUME NEW q \in Requests, RegisterLink(q)
        PROVE  /\ request[q].at = "register_link"
               /\ link'[l].kind = link[l].kind \/ link'[l].kind = "verify"
    BY <1>0, <1>3 DEF RegisterLink, PutLink, Link
  <1>4. ASSUME NEW q \in Requests, LoginChallenge(q)
        PROVE  /\ request[q].at = "login_challenge"
               /\ link'[l].kind = link[l].kind \/ link'[l].kind = "challenge"
    BY <1>0, <1>4 DEF LoginChallenge, PutLink, Link
  <1>5. ASSUME NEW x, DeleteLink(x)
        PROVE  link'[l].kind = link[l].kind \/ link'[l].kind = "spent"
    BY <1>0, <1>5 DEF DeleteLink, Link
  <1>6. ASSUME NEW x, UseLink(x)
        PROVE  link'[l].kind = link[l].kind
    BY <1>0, <1>6 DEF UseLink, Link
  <1>7. ASSUME NEW q, CodeDelete(q)
        PROVE  link'[l].kind = link[l].kind \/ link'[l].kind = "spent"
    BY <1>0, <1>7 DEF CodeDelete, Link
  <1>8. ASSUME NEW q, NEW x, NEW step, TakeState(q, x, step)
        PROVE  link'[l].kind = link[l].kind \/ link'[l].kind = "spent"
    BY <1>0, <1>8 DEF TakeState, Link
  <1>9. QED
    BY <1>1, <1>2, <1>3, <1>4, <1>5, <1>6, <1>7, <1>8, ZenonT(90) DEF Next, vars, Handler,
     RegisterRead, RegisterInsert, VerifyGet, VerifyUpdate,
     VerifyDelete, LoginRehash, LoginOpen, MfaGet, MfaDelete, MfaOpen,
     GoogleState, AppleState, GoogleRead, AppleRead, OAuthLink, OAuthInsert, OAuthOpen,
     OAuthCode, CodeGet, RefreshRotate, ForgotRead, ForgotPut, ResetGet,
     ResetDelete, ResetPassword, ResetRevoke, Abort, LoginRead, RefreshFind, Starts, Goes, Answers, GetLink,
     GoogleStart, AppleStart, SetActive, Cleanup, ExpireSession,
     ExpireLink, Logout, MfaConfirm, MfaDisable, DeleteAccount, Tick

LEMMA VerifiedInit == Init => Verified
  <1> SUFFICES ASSUME Init PROVE Verified
    OBVIOUS
  <1>1. /\ \A q \in Requests : request[q].at = "idle"
        /\ \A s \in SessionIds : session[s].status = "none"
        /\ \A l \in Links : link[l].kind = "unused"
    <2>1. NoSession.status = "none"
      BY DEF NoSession
    <2>2. QED
      BY <2>1, IdleIs DEF Init
  <1>2. account.row = "none" => ~account.verified
    <2>1. CASE account = Unregistered
      BY <2>1 DEF Unregistered
    <2>2. ASSUME NEW old \in BOOLEAN, NEW m \in BOOLEAN,
                 account = [Unregistered EXCEPT !.row = "live", !.verified = TRUE,
                              !.password = 1, !.legacy = old, !.mfa = m]
          PROVE  account.row = "live"
      BY <2>2 DEF Unregistered
    <2>3. QED
      BY <2>1, <2>2 DEF Init
  <1>3. QED
    BY <1>1, <1>2 DEF Verified, OnlyVerifiedSignIn, NothingVerifies, InFlight, LoginSteps

LEMMA VerifiedNext ==
  ASSUME Wellformed, Verified, [Next]_vars
  PROVE  Verified'
  <1>1. ASSUME NEW p \in Requests
        PROVE  LET from == request[p].at  to == request'[p].at IN
               \/ to = from
               \/ /\ to = "register_link" => account'.row # "none"
                  /\ to = "verify_update" => \E l \in Links : link[l].kind = "verify"
                  /\ to = "oauth_link" => account.row = "live"
                  /\ to \in SignInSteps =>
                        \/ from \in SignInSteps
                        \/ account.verified
                        \/ \E l \in Links : link[l].kind = "challenge"
                        \/ account'.verified
    <2>1. CASE \E q \in Requests : Handler(q)
      <3>1. PICK q \in Requests : Handler(q)
        BY <2>1
      <3>2. QED
        BY <3>1, WhereTo, OneSlot
    <2>2. CASE ~ \E q \in Requests : Handler(q)
      <3>1. UNCHANGED request
        BY <2>2 DEF Next, vars, GoogleStart, AppleStart, SetActive, Cleanup, ExpireSession, ExpireLink, Logout, MfaConfirm, MfaDisable, DeleteAccount, Tick
      <3>2. QED
        BY <3>1
    <2>3. QED
      BY <2>1, <2>2
  <1>2. ASSUME \/ \E q \in Requests : request[q].at \in SignInSteps
               \/ \E s \in SessionIds : session[s].status # "none"
               \/ \E l \in Links : link[l].kind = "challenge"
               \/ account.verified
        PROVE  account'.verified
    <2>1. account.verified
      BY <1>2 DEF Verified, OnlyVerifiedSignIn, SignInSteps, InFlight
    <2>2. account.row # "none"
      BY <2>1 DEF Verified, NothingVerifies
    <2>3. QED
      BY <2>1, <2>2, AccountMoves
  <1>3. ASSUME NEW p \in Requests, request'[p].at \in SignInSteps
        PROVE  account'.verified
    BY <1>1, <1>2, <1>3
  <1>4. ASSUME NEW s \in SessionIds, session'[s].status # "none"
        PROVE  account'.verified
    <2>1. {"login_open", "mfa_open", "oauth_open"} \subseteq SignInSteps
      BY DEF SignInSteps, LoginSteps
    <2>2. QED
      BY <1>2, <1>4, <2>1, SessionsAppear
  <1>5. ASSUME NEW l \in Links, link'[l].kind = "challenge"
        PROVE  account'.verified
    <2>1. "login_challenge" \in SignInSteps
      BY DEF SignInSteps, LoginSteps
    <2>2. QED
      BY <1>2, <1>5, <2>1, LinksAppear
  <1>6. OnlyVerifiedSignIn'
    BY <1>3, <1>4, <1>5 DEF OnlyVerifiedSignIn, InFlight, SignInSteps
  <1>7. NothingVerifies'
    <2> SUFFICES ASSUME account'.row = "none"
                 PROVE  /\ ~account'.verified
                        /\ \A l \in Links : link'[l].kind # "verify"
                        /\ \A q \in Requests :
                              request'[q].at \notin {"register_link", "verify_update", "oauth_link"}
      BY DEF NothingVerifies
    <2>1. account.row = "none"
      BY AccountMoves
    <2>2. /\ ~account.verified
          /\ \A l \in Links : link[l].kind # "verify"
          /\ \A q \in Requests :
                request[q].at \notin {"register_link", "verify_update", "oauth_link"}
      BY <2>1 DEF Verified, NothingVerifies
    <2>3. QED
      BY <1>1, <2>1, <2>2, AccountMoves, LinksAppear
  <1>8. QED
    BY <1>6, <1>7 DEF Verified

\* Nobody is signed in, or about to be, while the address is unverified
\* (auth.ts:245), whatever requests are in flight.
THEOREM SignedInIsVerified == Spec => []OnlyVerifiedSignIn
  <1>1. Spec => [](Wellformed /\ Verified)
    <2>1. Init => Wellformed /\ Verified
      BY WellformedInit, VerifiedInit
    <2>2. (Wellformed /\ Verified) /\ [Next]_vars => (Wellformed /\ Verified)'
      BY WellformedNext, VerifiedNext
    <2>3. QED
      BY <2>1, <2>2, PTL DEF Spec
  <1>2. Wellformed /\ Verified => OnlyVerifiedSignIn
    BY DEF Verified
  <1>3. QED
    BY <1>1, <1>2, PTL

-----------------------------------------------------------------------------
(* What a step may never do                                                *)

LEMMA RevokedStays ==
  ASSUME Wellformed, [Next]_vars, NEW s \in SessionIds, session[s].status = "revoked"
  PROVE  session'[s].status \in {"revoked", "none"}
  <1>0. session \in [SessionIds -> Session]
    BY DEF Wellformed, TypeOK
  <1>1. CASE UNCHANGED session
    BY <1>1
  <1>2. ASSUME NEW p, OpenSession(p)
        PROVE  session'[s] = session[s]
    BY <1>0, <1>2 DEF OpenSession
  <1>3. ASSUME NEW q \in Requests, RefreshRotate(q)
        PROVE  session'[s].status = "revoked"
    BY <1>0, <1>3 DEF RefreshRotate, Rotated, Session
  <1>4. ASSUME NEW S, RevokeAll(S)
        PROVE  session'[s].status = "revoked"
    BY <1>0, <1>4 DEF RevokeAll, Session
  <1>5. ASSUME NEW x \in SessionIds, ExpireSession(x)
        PROVE  session'[s] = session[s]
    BY <1>0, <1>5 DEF ExpireSession, Active, Session
  <1>6. ASSUME Cleanup
        PROVE  session'[s].status = "none"
    <2>1. NoSession.status = "none"
      BY DEF NoSession
    <2>2. QED
      BY <1>0, <1>6, <2>1 DEF Cleanup
  <1>7. QED
    BY <1>1, <1>2, <1>3, <1>4, <1>5, <1>6, ZenonT(90) DEF Next, vars, Handler,
     RegisterRead, RegisterInsert, RegisterLink, VerifyGet, VerifyUpdate,
     VerifyDelete, LoginRehash, LoginChallenge, LoginOpen, MfaGet, MfaDelete, MfaOpen,
     GoogleState, AppleState, TakeState, GoogleRead, AppleRead, OAuthLink, OAuthInsert, OAuthOpen,
     OAuthCode, CodeGet, CodeDelete, RefreshRotate, ForgotRead, ForgotPut, ResetGet,
     ResetDelete, ResetPassword, ResetRevoke, Abort, LoginRead, RefreshFind, Starts, Goes, Answers, GetLink,
     GoogleStart, AppleStart, SetActive, Cleanup, ExpireSession,
     ExpireLink, Logout, MfaConfirm, MfaDisable, DeleteAccount, Tick

\* A session that was revoked is never active again, although the rotation of
\* a refresh writes a row it read earlier (auth.ts:966).
THEOREM RevocationIsFinal == Spec => RevokedStaysRevoked
  <1>1. Spec => []Wellformed
    BY WellformedInit, WellformedNext, PTL DEF Spec
  <1>2. Wellformed /\ [Next]_vars =>
          [\A s \in SessionIds :
              session[s].status = "revoked" => session'[s].status \in {"revoked", "none"}]_vars
    BY RevokedStays
  <1>3. QED
    BY <1>1, <1>2, PTL DEF Spec, RevokedStaysRevoked

\* A deleted account has no second factor.
NoFactorLeft == account.row = "deleted" => ~account.mfa

LEMMA NoFactorInit == Init => NoFactorLeft
  <1> SUFFICES ASSUME Init PROVE account.row # "deleted"
    BY DEF NoFactorLeft
  <1>1. CASE account = Unregistered
    BY <1>1 DEF Unregistered
  <1>2. ASSUME NEW old \in BOOLEAN, NEW m \in BOOLEAN,
               account = [Unregistered EXCEPT !.row = "live", !.verified = TRUE,
                            !.password = 1, !.legacy = old, !.mfa = m]
        PROVE  account.row = "live"
    BY <1>2 DEF Unregistered
  <1>3. QED
    BY <1>1, <1>2 DEF Init

LEMMA NoFactorNext ==
  ASSUME Wellformed, NoFactorLeft, [Next]_vars
  PROVE  NoFactorLeft'
  <1>0. account \in Account
    BY DEF Wellformed, TypeOK
  <1>1. CASE UNCHANGED account
    BY <1>1 DEF NoFactorLeft
  <1>2. ASSUME NEW q \in Requests, RegisterInsert(q) \/ OAuthInsert(q), account' # account
        PROVE  account'.row = "live"
    <2>1. /\ [Unregistered EXCEPT !.row = "live", !.password = 1].row = "live"
          /\ ProviderRow.row = "live"
      BY DEF Unregistered, ProviderRow
    <2>2. QED
      BY <1>2, <2>1 DEF RegisterInsert, OAuthInsert
  <1>3. ASSUME NEW q \in Requests,
               VerifyUpdate(q) \/ OAuthLink(q) \/ LoginRehash(q) \/ ResetPassword(q)
        PROVE  account'.row = account.row /\ account'.mfa = account.mfa
    BY <1>0, <1>3 DEF VerifyUpdate, OAuthLink, LoginRehash, ResetPassword, Account
  <1>4. ASSUME MfaConfirm \/ MfaDisable \/ DeleteAccount \/ \E on \in BOOLEAN : SetActive(on)
        PROVE  account'.row = "deleted" => ~account'.mfa
    BY <1>0, <1>4 DEF MfaConfirm, MfaDisable, DeleteAccount, SetActive, Account, NoFactorLeft
  <1>5. QED
    BY <1>1, <1>2, <1>3, <1>4, ZenonT(90) DEF NoFactorLeft, Next, vars, Handler,
     RegisterRead, RegisterInsert, RegisterLink, VerifyGet, VerifyUpdate,
     VerifyDelete, LoginRehash, LoginChallenge, LoginOpen, MfaGet, MfaDelete, MfaOpen,
     GoogleState, AppleState, TakeState, GoogleRead, AppleRead, OAuthLink, OAuthInsert, OAuthOpen,
     OAuthCode, CodeGet, CodeDelete, RefreshRotate, ForgotRead, ForgotPut, ResetGet,
     ResetDelete, ResetPassword, ResetRevoke, Abort, LoginRead, RefreshFind, Starts, Goes, Answers, GetLink,
     GoogleStart, AppleStart, SetActive, Cleanup, ExpireSession,
     ExpireLink, Logout, MfaConfirm, MfaDisable, DeleteAccount, Tick

\* No request sets out to open a session for a deleted account.
LEMMA SetsOut ==
  ASSUME Wellformed, NoFactorLeft, [Next]_vars, account.row = "deleted",
         NEW p \in Requests, request'[p].at \in OpeningSteps
  PROVE  request[p].at \in OpeningSteps
  <1>1. CASE Handler(p)
    BY <1>1, ControlFlow DEF Begins, BeginsOn, GoesOn, OpeningSteps, LoginSteps, LoginRead,
       MfaGet, NoFactorLeft
  <1>2. CASE ~Handler(p)
    <2>1. request'[p] = request[p]
      BY <1>2, OneSlot DEF Next, vars, GoogleStart, AppleStart, SetActive, Cleanup, ExpireSession, ExpireLink, Logout, MfaConfirm, MfaDisable, DeleteAccount, Tick
    <2>2. QED
      BY <2>1
  <1>3. QED
    BY <1>1, <1>2

\* After a deletion nobody sets out to sign in: not with a password (auth.ts:213),
\* not through a provider, not with the challenge of an earlier login.
THEOREM DeletionIsFinal == Spec => DeletedStaysOut
  <1>1. Spec => [](Wellformed /\ NoFactorLeft)
    <2>1. Init => Wellformed /\ NoFactorLeft
      BY WellformedInit, NoFactorInit
    <2>2. (Wellformed /\ NoFactorLeft) /\ [Next]_vars => (Wellformed /\ NoFactorLeft)'
      BY WellformedNext, NoFactorNext
    <2>3. QED
      BY <2>1, <2>2, PTL DEF Spec
  <1>2. (Wellformed /\ NoFactorLeft) /\ [Next]_vars =>
          [account.row = "deleted" =>
              \A q \in Requests :
                 request'[q].at \in OpeningSteps => request[q].at \in OpeningSteps]_vars
    BY SetsOut
  <1>3. QED
    BY <1>1, <1>2, PTL DEF Spec, DeletedStaysOut

-----------------------------------------------------------------------------
(* What a link has been used for                                           *)

UsingSteps == {"mfa_delete", "mfa_open", "code_delete", "reset_delete", "reset_password"}

\* A link is deleted before it is used...
DeletedFirst ==
    /\ \A l \in Links : link[l].kind # "spent" => link[l].uses = 0
    /\ \A q \in Requests : request[q].at \in {"mfa_open", "reset_password"} =>
          link[request[q].link].kind = "spent"
    /\ \A q \in Requests : request[q].at \in UsingSteps =>
          link[request[q].link].kind \notin {"unused", "state"}

\* ...and one request works on it, which has not used it yet.
OneUser ==
    OneAtATime =>
       /\ \A l \in Links : link[l].uses <= 1
       /\ \A q \in Requests : request[q].at \in UsingSteps => link[request[q].link].uses = 0
       /\ \A p, q \in Requests : p # q => request[p].link = Nobody \/ request[p].link # request[q].link

LinksInOrder == DeletedFirst /\ OneUser

-----------------------------------------------------------------------------
(* One link, one use                                                       *)

\* What a step may do to a link: it stays spent, and is used by a request that
\* has deleted it, or deletes it in the same statement.
LEMMA LinkMoves ==
  ASSUME Wellformed, [Next]_vars, NEW l \in Links
  PROVE  /\ \/ link'[l].kind \in {link[l].kind, "spent"}
            \/ link[l].kind = "unused"
         /\ \/ link'[l].uses = link[l].uses
            \/ /\ link'[l].uses = link[l].uses + 1
               /\ \/ link[l].kind = "state" /\ link'[l].kind = "spent" /\ Requests # {}
                  \/ \E q \in Requests :
                        /\ request[q].link = l
                        /\ \/ CodeDelete(q) /\ request[q].at = "code_delete" /\ link'[l].kind = "spent"
                           \/ MfaOpen(q) /\ request[q].at = "mfa_open"
                           \/ ResetPassword(q) /\ request[q].at = "reset_password"
  <1>0. link \in [Links -> Link]
    BY DEF Wellformed, TypeOK
  <1>1. CASE UNCHANGED link
    BY <1>1
  <1>2. ASSUME NEW kind, PutLink(kind)
        PROVE  /\ link'[l].kind = link[l].kind \/ link[l].kind = "unused"
               /\ link'[l].uses = link[l].uses
    BY <1>0, <1>2 DEF PutLink, Link
  <1>3. ASSUME NEW x, DeleteLink(x)
        PROVE  link'[l].kind \in {link[l].kind, "spent"} /\ link'[l].uses = link[l].uses
    BY <1>0, <1>3 DEF DeleteLink, Link
  <1>4. ASSUME NEW x, UseLink(x)
        PROVE  /\ link'[l].kind = link[l].kind
               /\ link'[l].uses = link[l].uses \/ (x = l /\ link'[l].uses = link[l].uses + 1)
    BY <1>0, <1>4 DEF UseLink, Link
  <1>5. ASSUME NEW q \in Requests, CodeDelete(q)
        PROVE  /\ request[q].at = "code_delete"
               /\ \/ link'[l] = link[l]
                  \/ /\ request[q].link = l
                     /\ link'[l].kind = "spent" /\ link'[l].uses = link[l].uses + 1
    BY <1>0, <1>5 DEF CodeDelete, Link
  <1>6. ASSUME NEW q \in Requests, NEW x, NEW step, TakeState(q, x, step)
        PROVE  \/ link'[l] = link[l]
               \/ /\ link[l].kind = "state"
                  /\ link'[l].kind = "spent" /\ link'[l].uses = link[l].uses + 1
    BY <1>0, <1>6 DEF TakeState, Link
  <1>7. ASSUME NEW q \in Requests, MfaOpen(q) \/ ResetPassword(q)
        PROVE  /\ UseLink(request[q].link)
               /\ MfaOpen(q) => request[q].at = "mfa_open"
               /\ ResetPassword(q) => request[q].at = "reset_password"
    BY <1>7 DEF MfaOpen, ResetPassword
  <1>8. QED
    BY <1>1, <1>2, <1>3, <1>4, <1>5, <1>6, <1>7, ZenonT(90) DEF Next, vars, Handler,
     RegisterRead, RegisterInsert, RegisterLink, VerifyGet, VerifyUpdate,
     VerifyDelete, LoginRehash, LoginChallenge, LoginOpen, MfaGet, MfaDelete, MfaOpen,
     GoogleState, AppleState, GoogleRead, AppleRead, OAuthLink, OAuthInsert, OAuthOpen,
     OAuthCode, CodeGet, RefreshRotate, ForgotRead, ForgotPut, ResetGet,
     ResetDelete, ResetPassword, ResetRevoke, Abort, LoginRead, RefreshFind, Starts, Goes, Answers, GetLink,
     GoogleStart, AppleStart, SetActive, Cleanup, ExpireSession,
     ExpireLink, Logout, MfaConfirm, MfaDisable, DeleteAccount, Tick

\* Which requests come to a step on a link.
LEMMA LinkSlots ==
  ASSUME Wellformed, [Next]_vars, NEW p \in Requests
  PROVE  \/ request'[p] = request[p]
         \/ request'[p].link = Nobody /\ request'[p].at \notin UsingSteps
         \/ /\ request'[p].link \in Links /\ Untouched(request'[p].link)
            /\ request'[p].at \notin {"mfa_open", "reset_password"}
            /\ link[request'[p].link].kind \notin {"unused", "state", "spent"}
         \/ /\ request'[p].link = request[p].link
            /\ request'[p].at \notin UsingSteps
         \/ /\ request'[p].link = request[p].link
            /\ request[p].at \in {"mfa_delete", "reset_delete"}
            /\ MfaDelete(p) \/ ResetDelete(p)
  <1>1. CASE Handler(p)
    <2>1. CASE request'[p].at = "idle" /\ request'[p].link = Nobody
      BY <2>1 DEF UsingSteps
    <2>2. CASE request'[p].link = Nobody /\ Begins(p, request'[p].at)
      BY <2>2 DEF Begins, UsingSteps, LoginSteps
    <2>3. CASE \E l \in Links : request'[p].link = l /\ BeginsOn(p, l, request'[p].at)
      BY <2>3 DEF BeginsOn, VerifyGet, MfaGet, CodeGet, ResetGet, GetLink
    <2>4. CASE /\ GoesOn(p, request[p].at, request'[p].at)
               /\ request'[p].link = request[p].link
      BY <2>4 DEF GoesOn, UsingSteps
    <2>5. QED
      BY <1>1, <2>1, <2>2, <2>3, <2>4, ControlFlow
  <1>2. CASE ~Handler(p)
    <2>1. request'[p] = request[p]
      BY <1>2, OneSlot DEF Next, vars, GoogleStart, AppleStart, SetActive, Cleanup, ExpireSession, ExpireLink, Logout, MfaConfirm, MfaDisable, DeleteAccount, Tick
    <2>2. QED
      BY <2>1
  <1>3. QED
    BY <1>1, <1>2

LEMMA LinksInit == Init => LinksInOrder
  <1> SUFFICES ASSUME Init PROVE LinksInOrder
    OBVIOUS
  <1>1. /\ \A q \in Requests : request[q].at = "idle" /\ request[q].link = Nobody
        /\ \A l \in Links : link[l].uses = 0
    BY IdleIs DEF Init
  <1>2. QED
    BY <1>1 DEF LinksInOrder, DeletedFirst, OneUser, UsingSteps

LEMMA DeletedFirstNext ==
  ASSUME Wellformed, LinksInOrder, [Next]_vars
  PROVE  DeletedFirst'
  <1>0. link \in [Links -> Link]
    BY DEF Wellformed, TypeOK
  <1>1. ASSUME NEW l \in Links, link'[l].kind # "spent"
        PROVE  link'[l].uses = 0
    <2>1. link[l].kind # "spent" /\ link[l].uses = 0
      BY <1>1, LinkMoves DEF LinksInOrder, DeletedFirst
    <2>2. \A q \in Requests : request[q].at \in {"mfa_open", "reset_password"} => request[q].link # l
      BY <2>1 DEF LinksInOrder, DeletedFirst
    <2>3. link'[l].uses = link[l].uses
      BY <1>1, <2>2, LinkMoves
    <2>4. QED
      BY <2>1, <2>3
  <1>2. ASSUME NEW p \in Requests, request'[p].at \in {"mfa_open", "reset_password"}
        PROVE  link'[request'[p].link].kind = "spent"
    <2>1. CASE request'[p] = request[p]
      <3>1. /\ request[p].link \in Links
            /\ link[request[p].link].kind = "spent"
        BY <1>2, <2>1 DEF Wellformed, LocalsOK, LinkSteps, LinksInOrder, DeletedFirst
      <3>2. QED
        BY <2>1, <3>1, LinkMoves
    <2>2. CASE /\ request'[p].link = request[p].link
               /\ request[p].at \in {"mfa_delete", "reset_delete"}
               /\ MfaDelete(p) \/ ResetDelete(p)
      <3>1. request[p].link \in Links
        BY <2>2 DEF Wellformed, LocalsOK, LinkSteps
      <3>2. link' = [link EXCEPT ![request[p].link].kind = "spent"]
        BY <2>2 DEF MfaDelete, ResetDelete, DeleteLink
      <3>3. QED
        BY <1>0, <2>2, <3>1, <3>2 DEF Link
    <2>3. request'[p].at \in UsingSteps
      BY <1>2 DEF UsingSteps
    <2>4. QED
      BY <1>2, <2>1, <2>2, <2>3, LinkSlots
  <1>3. ASSUME NEW p \in Requests, request'[p].at \in UsingSteps
        PROVE  link'[request'[p].link].kind \notin {"unused", "state"}
    <2> DEFINE l == request'[p].link
    <2>1. CASE l \in Links /\ link[l].kind \notin {"unused", "state"}
      BY <2>1, LinkMoves
    <2>2. CASE request'[p] = request[p] \/ (l = request[p].link /\ request[p].at \in {"mfa_delete", "reset_delete"})
      <3>1. request[p].at \in UsingSteps /\ l = request[p].link
        BY <1>3, <2>2 DEF UsingSteps
      <3>2. l \in Links
        BY <3>1 DEF Wellformed, LocalsOK, LinkSteps, UsingSteps
      <3>3. QED
        BY <2>1, <3>1, <3>2 DEF LinksInOrder, DeletedFirst
    <2>3. QED
      BY <1>3, <2>1, <2>2, LinkSlots
  <1>4. QED
    BY <1>1, <1>2, <1>3 DEF DeletedFirst

LEMMA OneUserNext ==
  ASSUME Wellformed, LinksInOrder, [Next]_vars
  PROVE  OneUser'
  <1> SUFFICES ASSUME OneAtATime
               PROVE  /\ \A l \in Links : link'[l].uses <= 1
                      /\ \A q \in Requests :
                            request'[q].at \in UsingSteps => link'[request'[q].link].uses = 0
                      /\ \A p, q \in Requests :
                            p # q => request'[p].link = Nobody \/ request'[p].link # request'[q].link
    BY DEF OneUser
  <1>0. link \in [Links -> Link] /\ request \in [Requests -> Request]
    BY DEF Wellformed, TypeOK
  <1>1. /\ \A l \in Links : link[l].uses <= 1
        /\ \A q \in Requests : request[q].at \in UsingSteps => link[request[q].link].uses = 0
        /\ \A p, q \in Requests :
              p # q => request[p].link = Nobody \/ request[p].link # request[q].link
    BY DEF LinksInOrder, OneUser
  <1>2. ASSUME NEW l \in Links
        PROVE  link'[l].uses <= 1
    <2>1. link[l].uses \in Nat
      BY <1>0 DEF Link
    <2>2. CASE link'[l].uses = link[l].uses
      BY <1>1, <2>2
    <2>3. CASE link[l].kind = "state"
      <3>1. link[l].uses = 0
        BY <2>3 DEF LinksInOrder, DeletedFirst
      <3>2. QED
        BY <3>1, LinkMoves
    <2>4. ASSUME NEW q \in Requests, request[q].link = l,
                 request[q].at \in {"code_delete", "mfa_open", "reset_password"}
          PROVE  link'[l].uses <= 1
      <3>1. link[l].uses = 0
        BY <1>1, <2>4 DEF UsingSteps
      <3>2. QED
        BY <3>1, LinkMoves
    <2>5. QED
      BY <2>2, <2>3, <2>4, LinkMoves
  <1>3. ASSUME NEW p \in Requests, NEW q \in Requests, p # q
        PROVE  request'[p].link = Nobody \/ request'[p].link # request'[q].link
    <2>1. \A x \in Requests :
             \/ request'[x].link \in {request[x].link, Nobody}
             \/ /\ request'[x].link \in Links
                /\ \A y \in Requests : request[y].link # request'[x].link
      BY LinkSlots DEF Untouched
    <2>2. request'[p] = request[p] \/ request'[q] = request[q]
      <3>1. CASE \E x \in Requests : Handler(x)
        BY <1>3, <3>1, OneSlot
      <3>2. CASE ~ \E x \in Requests : Handler(x)
        BY <3>2 DEF Next, vars, GoogleStart, AppleStart, SetActive, Cleanup, ExpireSession, ExpireLink, Logout, MfaConfirm, MfaDisable, DeleteAccount, Tick
      <3>3. QED
        BY <3>1, <3>2
    <2>3. QED
      BY <1>1, <1>3, <2>1, <2>2
  <1>4. ASSUME NEW p \in Requests, request'[p].at \in UsingSteps
        PROVE  link'[request'[p].link].uses = 0
    <2> DEFINE l == request'[p].link
    <2>0. "idle" \notin UsingSteps /\ "reset_revoke" \notin UsingSteps
      BY DEF UsingSteps
    <2>1. CASE request'[p] = request[p]
      <3>1. l \in Links /\ l # Nobody
        BY <1>4, <2>1, SessionsAssumption DEF Wellformed, LocalsOK, LinkSteps, UsingSteps
      <3>2. link[l].uses = 0 /\ link[l].kind # "state"
        BY <1>1, <1>4, <2>1 DEF LinksInOrder, DeletedFirst
      <3>3. \A q \in Requests : request[q].link = l => q = p
        BY <1>1, <2>1, <3>1
      <3>4. ~CodeDelete(p) /\ ~MfaOpen(p) /\ ~ResetPassword(p)
        <4>1. CodeDelete(p) \/ MfaOpen(p) => request'[p].at = "idle"
          BY <1>0, AnswersAt DEF CodeDelete, MfaOpen
        <4>2. ResetPassword(p) => request'[p].at = "reset_revoke"
          BY <1>0, GoesAt DEF ResetPassword
        <4>3. QED
          BY <1>4, <2>0, <4>1, <4>2
      <3>5. link'[l].uses = link[l].uses
        BY <3>1, <3>2, <3>3, <3>4, LinkMoves
      <3>6. QED
        BY <3>2, <3>5
    <2>2. CASE l \in Links /\ Untouched(l) /\ link[l].kind \notin {"unused", "state", "spent"}
      <3>1. \A q \in Requests : request[q].link # l
        BY <2>2 DEF Untouched
      <3>2. link'[l].uses = link[l].uses
        BY <2>2, <3>1, LinkMoves
      <3>3. QED
        BY <2>2, <3>2 DEF LinksInOrder, DeletedFirst
    <2>3. CASE /\ l = request[p].link /\ request[p].at \in {"mfa_delete", "reset_delete"}
               /\ MfaDelete(p) \/ ResetDelete(p)
      <3>1. l \in Links /\ link[l].uses = 0
        BY <1>1, <2>3 DEF Wellformed, LocalsOK, LinkSteps, UsingSteps
      <3>2. link' = [link EXCEPT ![l].kind = "spent"]
        BY <2>3 DEF MfaDelete, ResetDelete, DeleteLink
      <3>3. QED
        BY <1>0, <3>1, <3>2 DEF Link
    <2>4. QED
      BY <1>4, <2>1, <2>2, <2>3, LinkSlots
  <1>5. QED
    BY <1>2, <1>3, <1>4

LEMMA LinksNext == Wellformed /\ LinksInOrder /\ [Next]_vars => LinksInOrder'
  BY DeletedFirstNext, OneUserNext DEF LinksInOrder

\* A link is used at most once (auth.ts:654, 887, 1172, 1752), as long as the
\* store is not asked twice at the same time.
THEOREM OneUse == Spec => []LinkUsedOnce
  <1>1. Spec => [](Wellformed /\ LinksInOrder)
    <2>1. Init => Wellformed /\ LinksInOrder
      BY WellformedInit, LinksInit
    <2>2. (Wellformed /\ LinksInOrder) /\ [Next]_vars => (Wellformed /\ LinksInOrder)'
      BY WellformedNext, LinksNext
    <2>3. QED
      BY <2>1, <2>2, PTL DEF Spec
  <1>2. Wellformed /\ LinksInOrder => LinkUsedOnce
    BY DEF LinksInOrder, OneUser, LinkUsedOnce
  <1>3. QED
    BY <1>1, <1>2, PTL

-----------------------------------------------------------------------------
(* One link, requests that overlap                                         *)

\* The requests that have read a link and are still going to use it.
UsersOf(l) == {q \in Requests : request[q].at \in UsingSteps /\ request[q].link = l}

\* The store's get and delete are two calls; but once the link is deleted no further
\* request finds it, and each that has found it uses it once.
UsesOverrun ==
    \A l \in Links : link[l].uses + Cardinality(UsersOf(l)) <= Cardinality(Requests)

LEMMA SomeOfThem ==
  ASSUME NEW S \in SUBSET Requests
  PROVE  /\ IsFiniteSet(S) /\ Cardinality(S) \in Nat /\ Cardinality(Requests) \in Nat
         /\ Cardinality(S) <= Cardinality(Requests)
         /\ \A T \in SUBSET S : Cardinality(T) <= Cardinality(S)
         /\ \A q \in S : Cardinality(S \ {q}) + 1 = Cardinality(S)
  <1>1. IsFiniteSet(Requests)
    BY SessionsAssumption
  <1>2. /\ IsFiniteSet(S) /\ Cardinality(S) \in Nat /\ Cardinality(Requests) \in Nat
        /\ Cardinality(S) <= Cardinality(Requests)
    BY <1>1, FS_Subset, FS_CardinalityType
  <1>3. \A T \in SUBSET S : Cardinality(T) <= Cardinality(S)
    BY <1>2, FS_Subset
  <1>4. ASSUME NEW q \in S
        PROVE  Cardinality(S \ {q}) + 1 = Cardinality(S)
    <2>1. Cardinality(S \ {q}) = Cardinality(S) - 1
      BY <1>2, FS_RemoveElement
    <2>2. QED
      BY <1>2, <2>1
  <1>5. QED
    BY <1>2, <1>3, <1>4

\* Whoever joins the users of a link has found it in the store.
LEMMA UserComes ==
  ASSUME Wellformed, [Next]_vars, NEW l \in Links, NEW p \in UsersOf(l)', p \notin UsersOf(l)
  PROVE  link[l].kind \notin {"unused", "state", "spent"}
  <1>1. p \in Requests /\ request'[p].at \in UsingSteps /\ request'[p].link = l
    BY DEF UsersOf
  <1>2. /\ request'[p] # request[p] /\ l # Nobody
        /\ ~(request[p].link = l /\ request[p].at \in {"mfa_delete", "reset_delete"})
    BY <1>1, SessionsAssumption DEF UsersOf, UsingSteps
  <1>3. QED
    BY <1>1, <1>2, LinkSlots

\* Whoever uses a link is no longer about to.
LEMMA UserLeaves ==
  ASSUME Wellformed, NEW q \in Requests, CodeDelete(q) \/ MfaOpen(q) \/ ResetPassword(q)
  PROVE  /\ request'[q].at \notin UsingSteps
         /\ \A p \in Requests \ {q} : request'[p] = request[p]
  <1>1. request \in [Requests -> Request]
    BY DEF Wellformed, TypeOK
  <1>2. CodeDelete(q) \/ MfaOpen(q) => request'[q].at = "idle"
    BY <1>1, AnswersAt DEF CodeDelete, MfaOpen
  <1>3. ResetPassword(q) => request'[q].at = "reset_revoke"
    BY <1>1, GoesAt DEF ResetPassword
  <1>4. Handler(q)
    BY DEF Handler
  <1>5. QED
    BY <1>2, <1>3, <1>4, OneSlot DEF UsingSteps

LEMMA OverrunInit == Init => UsesOverrun
  <1> SUFFICES ASSUME Init, NEW l \in Links
               PROVE  link[l].uses + Cardinality(UsersOf(l)) <= Cardinality(Requests)
    BY DEF UsesOverrun
  <1>1. UsersOf(l) = {} /\ link[l].uses = 0
    BY IdleIs DEF Init, UsersOf, UsingSteps
  <1>2. QED
    BY <1>1, SomeOfThem, FS_EmptySet

LEMMA OverrunNext ==
  ASSUME Wellformed, LinksInOrder, UsesOverrun, [Next]_vars
  PROVE  UsesOverrun'
  <1> SUFFICES ASSUME NEW l \in Links
               PROVE  link'[l].uses + Cardinality(UsersOf(l)') <= Cardinality(Requests)
    BY DEF UsesOverrun
  <1> DEFINE S == UsersOf(l)
             T == UsersOf(l)'
  <1>1. S \in SUBSET Requests /\ T \in SUBSET Requests
    BY DEF UsersOf
  <1>2. link[l].uses \in Nat /\ link[l].uses + Cardinality(S) <= Cardinality(Requests)
    BY DEF Wellformed, TypeOK, Link, UsesOverrun
  <1>3. link[l].kind # "spent" => link[l].uses = 0
    BY DEF LinksInOrder, DeletedFirst
  <1>4. T \subseteq S \/ link[l].kind \notin {"unused", "state", "spent"}
    BY UserComes
  <1>5. CASE link'[l].uses = link[l].uses
    <2>1. CASE T \subseteq S
      <3>1. Cardinality(T) <= Cardinality(S)
        BY <1>1, <2>1, SomeOfThem
      <3>2. QED
        BY <1>1, <1>2, <1>5, <3>1, SomeOfThem
    <2>2. CASE link[l].uses = 0
      <3>1. Cardinality(T) \in Nat /\ Cardinality(T) <= Cardinality(Requests)
        BY <1>1, SomeOfThem
      <3>2. QED
        BY <1>5, <2>2, <3>1
    <2>3. QED
      BY <1>3, <1>4, <2>1, <2>2
  <1>6. CASE link'[l].uses = link[l].uses + 1 /\ link[l].kind = "state" /\ Requests # {}
    <2>1. S = {} /\ T = {}
      <3>1. S = {}
        BY <1>6 DEF UsersOf, LinksInOrder, DeletedFirst
      <3>2. QED
        BY <1>4, <1>6, <3>1
    <2>2. PICK q \in Requests : TRUE
      BY <1>6
    <2>3. Cardinality(Requests) >= 1
      <3>1. Cardinality(Requests \ {q}) \in Nat
        BY SomeOfThem
      <3>2. Cardinality(Requests \ {q}) + 1 = Cardinality(Requests)
        BY SomeOfThem
      <3>3. QED
        BY <3>1, <3>2
    <2>4. Cardinality(T) = 0 /\ link'[l].uses = 1
      BY <1>3, <1>6, <2>1, FS_EmptySet
    <2>5. QED
      BY <2>3, <2>4, SomeOfThem
  <1>7. ASSUME link'[l].uses = link[l].uses + 1, NEW q \in Requests, request[q].link = l,
               request[q].at \in UsingSteps, CodeDelete(q) \/ MfaOpen(q) \/ ResetPassword(q)
        PROVE  link'[l].uses + Cardinality(T) <= Cardinality(Requests)
    <2>1. q \in S /\ T \subseteq S \ {q}
      BY <1>7, UserLeaves DEF UsersOf
    <2>2. Cardinality(S \ {q}) + 1 = Cardinality(S) /\ Cardinality(S \ {q}) \in Nat
      BY <1>1, <2>1, SomeOfThem
    <2>3. Cardinality(T) <= Cardinality(S \ {q})
      BY <1>1, <2>1, SomeOfThem
    <2>4. QED
      BY <1>1, <1>2, <1>7, <2>2, <2>3, SomeOfThem
  <1>8. QED
    BY <1>5, <1>6, <1>7, LinkMoves DEF UsingSteps

\* However requests overlap, a link is used at most as often as there are requests that can
\* have read it before the first deletes it (auth.ts:654, 887, 1172, 1752).
THEOREM UsesAreBounded == Spec => []UsesOverrun
  <1>1. Spec => [](Wellformed /\ LinksInOrder /\ UsesOverrun)
    <2>1. Init => Wellformed /\ LinksInOrder /\ UsesOverrun
      BY WellformedInit, LinksInit, OverrunInit
    <2>2. (Wellformed /\ LinksInOrder /\ UsesOverrun) /\ [Next]_vars
             => (Wellformed /\ LinksInOrder /\ UsesOverrun)'
      BY WellformedNext, LinksNext, OverrunNext
    <2>3. QED
      BY <2>1, <2>2, PTL DEF Spec
  <1>2. QED
    BY <1>1, PTL

-----------------------------------------------------------------------------
(* What a reset cuts off                                                   *)

ResetInOrder ==
    OneAtATime =>
       \* a sign-in by password has read the password that is in force,
       /\ \A q \in Requests : request[q].at \in LoginSteps => request[q].password = account.password
       \* no reset runs meanwhile, and no other reset,
       /\ \A p, q \in Requests : request[p].at \in ResetSteps =>
             request[q].at \notin LoginSteps /\ (request[q].at \in ResetSteps => p = q)
       \* and between the two statements of a reset alone sessions outlive their password.
       /\ aborts = 0 /\ (\A q \in Requests : request[q].at # "reset_revoke") =>
             \A s \in SessionIds : session[s].status \in {"active", "expired"} =>
                session[s].password \in {NoPassword, account.password}

-----------------------------------------------------------------------------
(* A reset leaves no session of an earlier password                        *)

\* Who may change the password.
LEMMA PasswordMoves ==
  ASSUME Wellformed, [Next]_vars
  PROVE  \/ account'.password = account.password
         \/ account.row = "none"
         \/ \E q \in Requests : request[q].at = "login_rehash" /\ account'.password = request[q].password
         \/ \E q \in Requests : ResetPassword(q)
  <1>0. account \in Account
    BY DEF Wellformed, TypeOK
  <1>1. CASE UNCHANGED account
    BY <1>1
  <1>2. ASSUME NEW q \in Requests, RegisterInsert(q) \/ OAuthInsert(q), account' # account
        PROVE  account.row = "none"
    BY <1>2 DEF RegisterInsert, OAuthInsert
  <1>3. ASSUME NEW q \in Requests, VerifyUpdate(q) \/ OAuthLink(q)
        PROVE  account'.password = account.password
    BY <1>0, <1>3 DEF VerifyUpdate, OAuthLink, Account
  <1>4. ASSUME NEW q \in Requests, LoginRehash(q)
        PROVE  /\ request[q].at = "login_rehash"
               /\ account'.password \in {account.password, request[q].password}
    BY <1>0, <1>4 DEF LoginRehash, Account
  <1>5. ASSUME MfaConfirm \/ MfaDisable \/ DeleteAccount \/ \E on \in BOOLEAN : SetActive(on)
        PROVE  account'.password = account.password
    BY <1>0, <1>5 DEF MfaConfirm, MfaDisable, DeleteAccount, SetActive, Account
  <1>6. QED
    BY <1>1, <1>2, <1>3, <1>4, <1>5, ZenonT(90) DEF Next, vars, Handler,
     RegisterRead, RegisterInsert, RegisterLink, VerifyGet, VerifyUpdate,
     VerifyDelete, LoginRehash, LoginChallenge, LoginOpen, MfaGet, MfaDelete, MfaOpen,
     GoogleState, AppleState, TakeState, GoogleRead, AppleRead, OAuthLink, OAuthInsert, OAuthOpen,
     OAuthCode, CodeGet, CodeDelete, RefreshRotate, ForgotRead, ForgotPut, ResetGet,
     ResetDelete, ResetRevoke, Abort, LoginRead, RefreshFind, Starts, Goes, Answers, GetLink,
     GoogleStart, AppleStart, SetActive, Cleanup, ExpireSession,
     ExpireLink, Logout, MfaConfirm, MfaDisable, DeleteAccount, Tick

\* How a session comes to be one that can be refreshed.
LEMMA Opened ==
  ASSUME Wellformed, [Next]_vars, NEW s \in SessionIds,
         session'[s].status \in {"active", "expired"}
  PROVE  /\ ~ \E q \in Requests : ResetRevoke(q)
         /\ \/ /\ session[s].status \in {"active", "expired"}
               /\ session'[s].password = session[s].password
            \/ session'[s].password = NoPassword
            \/ \E q \in Requests : /\ request[q].at = "login_open"
                                   /\ session'[s].password = request[q].password
  <1>0. session \in [SessionIds -> Session]
    BY DEF Wellformed, TypeOK
  <1>1. ASSUME UNCHANGED session
        PROVE  session'[s] = session[s]
    BY <1>1
  <1>2. ASSUME NEW p, OpenSession(p)
        PROVE  session'[s] = session[s] \/ session'[s].password = p
    BY <1>0, <1>2 DEF OpenSession
  <1>3. ASSUME NEW q \in Requests, RefreshRotate(q)
        PROVE  /\ session[s].status \in {"active", "expired"}
               /\ session'[s].password = session[s].password
    BY <1>0, <1>3 DEF RefreshRotate, Rotated, Session
  <1>4. ASSUME NEW S, RevokeAll(S)
        PROVE  session'[s] = session[s] /\ s \notin S
    BY <1>0, <1>4 DEF RevokeAll, Session
  <1>5. ASSUME NEW x \in SessionIds, ExpireSession(x)
        PROVE  /\ session[s].status \in {"active", "expired"}
               /\ session'[s].password = session[s].password
    BY <1>0, <1>5 DEF ExpireSession, Active, Session
  <1>6. ASSUME Cleanup
        PROVE  session'[s] = session[s]
    <2>1. NoSession.status = "none"
      BY DEF NoSession
    <2>2. QED
      BY <1>0, <1>6, <2>1 DEF Cleanup
  <1>7. ASSUME NEW q \in Requests, ResetRevoke(q)
        PROVE  FALSE
    <2>1. RevokeAll(SessionIds)
      BY <1>7 DEF ResetRevoke
    <2>2. QED
      BY <1>4, <2>1
  <1>8. ASSUME NEW q \in Requests, LoginOpen(q) \/ MfaOpen(q) \/ OAuthOpen(q)
        PROVE  \/ OpenSession(NoPassword)
               \/ OpenSession(request[q].password) /\ request[q].at = "login_open"
    BY <1>8 DEF LoginOpen, MfaOpen, OAuthOpen
  <1>9. QED
    BY <1>1, <1>2, <1>3, <1>4, <1>5, <1>6, <1>7, <1>8, ZenonT(90) DEF Next, vars, Handler,
     RegisterRead, RegisterInsert, RegisterLink, VerifyGet, VerifyUpdate,
     VerifyDelete, LoginRehash, LoginChallenge, LoginOpen, MfaGet, MfaDelete, MfaOpen,
     GoogleState, AppleState, TakeState, GoogleRead, AppleRead, OAuthLink, OAuthInsert, OAuthOpen,
     OAuthCode, CodeGet, CodeDelete, RefreshRotate, ForgotRead, ForgotPut, ResetGet,
     ResetDelete, ResetPassword, Abort, LoginRead, RefreshFind, Starts, Goes, Answers, GetLink,
     GoogleStart, AppleStart, SetActive, Cleanup, ExpireSession,
     ExpireLink, Logout, MfaConfirm, MfaDisable, DeleteAccount, Tick

\* How a request comes to a step of a sign-in by password, or of a reset.
LEMMA PasswordSlots ==
  ASSUME Wellformed, [Next]_vars, NEW p \in Requests
  PROVE  /\ request'[p].at \in LoginSteps =>
               \/ request[p].at \in LoginSteps /\ request'[p].password = request[p].password
               \/ /\ UNCHANGED account /\ request'[p].password = account.password
                  /\ OneAtATime => ~InFlight(ResetSteps)
         /\ request'[p].at \in ResetSteps =>
               \/ request[p].at \in ResetSteps
               \/ OneAtATime => ~InFlight(LoginSteps \union ResetSteps)
         /\ request[p].at = "reset_revoke" =>
               \/ request'[p].at = "reset_revoke" \/ ResetRevoke(p) \/ Abort(p)
  <1>0. request \in [Requests -> Request]
    BY DEF Wellformed, TypeOK
  <1>1. CASE Handler(p)
    <2>1. request[p].at = "reset_revoke" => ResetRevoke(p) \/ Abort(p)
      <3>1. SUFFICES ASSUME request[p].at = "reset_revoke" PROVE ResetRevoke(p) \/ Abort(p)
        OBVIOUS
      <3>2. request[p] # Idle
        BY <3>1, IdleIs
      <3>3. QED
        BY <1>1, <3>1, <3>2 DEF Handler,
     RegisterRead, RegisterInsert, RegisterLink, VerifyGet, VerifyUpdate,
     VerifyDelete, LoginRehash, LoginChallenge, LoginOpen, MfaGet, MfaDelete, MfaOpen,
     GoogleState, AppleState, TakeState, GoogleRead, AppleRead, OAuthLink, OAuthInsert, OAuthOpen,
     OAuthCode, CodeGet, CodeDelete, RefreshRotate, ForgotRead, ForgotPut, ResetGet,
     ResetDelete, ResetPassword, LoginRead, RefreshFind, Starts, GetLink
    <2>2. CASE request'[p].at = "idle" /\ request'[p].link = Nobody
      BY <2>1, <2>2 DEF LoginSteps, ResetSteps
    <2>3. CASE request'[p].link = Nobody /\ Begins(p, request'[p].at)
      <3>1. CASE LoginRead(p) /\ request'[p].at \in LoginSteps
        BY <1>0, <2>1, <3>1, LoginReadAt DEF LoginRead, LoginSteps, ResetSteps
      <3>2. CASE request'[p].at \notin LoginSteps
        BY <2>1, <2>3, <3>2 DEF Begins, LoginSteps, ResetSteps
      <3>3. QED
        BY <2>3, <3>1, <3>2 DEF Begins, LoginSteps
    <2>4. CASE \E l \in Links : request'[p].link = l /\ BeginsOn(p, l, request'[p].at)
      BY <2>1, <2>4 DEF BeginsOn, ResetGet, LoginSteps, ResetSteps
    <2>5. CASE /\ GoesOn(p, request[p].at, request'[p].at)
               /\ request'[p].password = request[p].password
      BY <2>1, <2>5 DEF GoesOn, LoginSteps, ResetSteps
    <2>6. QED
      BY <1>1, <2>2, <2>3, <2>4, <2>5, ControlFlow
  <1>2. CASE ~Handler(p)
    <2>1. request'[p] = request[p]
      BY <1>2, OneSlot DEF Next, vars, GoogleStart, AppleStart, SetActive, Cleanup, ExpireSession, ExpireLink, Logout, MfaConfirm, MfaDisable, DeleteAccount, Tick
    <2>2. QED
      BY <2>1
  <1>3. QED
    BY <1>1, <1>2

LEMMA ResetInit == Init => ResetInOrder
  <1> SUFFICES ASSUME Init PROVE ResetInOrder
    OBVIOUS
  <1>1. /\ \A q \in Requests : request[q].at = "idle"
        /\ \A s \in SessionIds : session[s].status = "none"
    <2>1. NoSession.status = "none"
      BY DEF NoSession
    <2>2. QED
      BY <2>1, IdleIs DEF Init
  <1>2. QED
    BY <1>1 DEF ResetInOrder, LoginSteps, ResetSteps

LEMMA ResetNext ==
  ASSUME Wellformed, Verified, ResetInOrder, [Next]_vars
  PROVE  ResetInOrder'
  <1> SUFFICES ASSUME OneAtATime
               PROVE  /\ \A q \in Requests : request'[q].at \in LoginSteps =>
                            request'[q].password = account'.password
                      /\ \A p, q \in Requests : request'[p].at \in ResetSteps =>
                            /\ request'[q].at \notin LoginSteps
                            /\ request'[q].at \in ResetSteps => p = q
                      /\ aborts' = 0 /\ (\A q \in Requests : request'[q].at # "reset_revoke") =>
                            \A s \in SessionIds : session'[s].status \in {"active", "expired"} =>
                               session'[s].password \in {NoPassword, account'.password}
    BY DEF ResetInOrder
  <1>0. /\ \A q \in Requests : request[q].at \in LoginSteps => request[q].password = account.password
        /\ \A p, q \in Requests : request[p].at \in ResetSteps =>
              request[q].at \notin LoginSteps /\ (request[q].at \in ResetSteps => p = q)
        /\ aborts = 0 /\ (\A q \in Requests : request[q].at # "reset_revoke") =>
              \A s \in SessionIds : session[s].status \in {"active", "expired"} =>
                 session[s].password \in {NoPassword, account.password}
    BY DEF ResetInOrder
  <1>1. \A p, q \in Requests : p # q => request'[p] = request[p] \/ request'[q] = request[q]
    <2>1. CASE \E x \in Requests : Handler(x)
      BY <2>1, OneSlot
    <2>2. CASE ~ \E x \in Requests : Handler(x)
      BY <2>2 DEF Next, vars, GoogleStart, AppleStart, SetActive, Cleanup, ExpireSession, ExpireLink, Logout, MfaConfirm, MfaDisable, DeleteAccount, Tick
    <2>3. QED
      BY <2>1, <2>2
  <1>2. ASSUME \/ \E q \in Requests : request[q].at \in LoginSteps
               \/ \E s \in SessionIds : session[s].status # "none"
        PROVE  account.row # "none"
    BY <1>2 DEF Verified, OnlyVerifiedSignIn, NothingVerifies, InFlight
  <1>3. ASSUME NEW p \in Requests, request'[p].at \in LoginSteps
        PROVE  request'[p].password = account'.password
    <2>1. CASE UNCHANGED account /\ request'[p].password = account.password
      BY <2>1
    <2>2. CASE request[p].at \in LoginSteps /\ request'[p].password = request[p].password
      <3>1. account.row # "none"
        BY <1>2, <2>2
      <3>2. ASSUME NEW q \in Requests, request[q].at = "login_rehash"
            PROVE  request[q].password = account.password
        BY <1>0, <3>2 DEF LoginSteps
      <3>3. ASSUME NEW q \in Requests, ResetPassword(q)
            PROVE  FALSE
        BY <1>0, <2>2, <3>3 DEF ResetPassword, ResetSteps
      <3>4. QED
        BY <1>0, <2>2, <3>1, <3>2, <3>3, PasswordMoves
    <2>3. QED
      BY <1>3, <2>1, <2>2, PasswordSlots
  <1>4. ASSUME NEW p \in Requests, NEW q \in Requests, request'[p].at \in ResetSteps
        PROVE  request'[q].at \notin LoginSteps /\ (request'[q].at \in ResetSteps => p = q)
    <2>0. LoginSteps \intersect ResetSteps = {}
      BY DEF LoginSteps, ResetSteps
    <2>1. CASE p = q
      BY <1>4, <2>0, <2>1
    <2>2. CASE p # q
      <3>1. CASE request'[p] = request[p]
        <4>1. InFlight(ResetSteps)
          BY <1>4, <3>1 DEF InFlight
        <4>2. QED
          BY <1>0, <1>4, <2>2, <3>1, <4>1, PasswordSlots DEF InFlight
      <3>2. CASE request'[q] = request[q]
        BY <1>0, <1>4, <2>2, <3>2, PasswordSlots DEF InFlight
      <3>3. QED
        BY <1>1, <2>2, <3>1, <3>2
    <2>3. QED
      BY <2>1, <2>2
  <1>5. ASSUME aborts' = 0, \A q \in Requests : request'[q].at # "reset_revoke",
               NEW s \in SessionIds, session'[s].status \in {"active", "expired"}
        PROVE  session'[s].password \in {NoPassword, account'.password}
    <2>1. aborts = 0 /\ \A q \in Requests : ~Abort(q)
      <3>1. aborts \in Nat
        BY SessionsAssumption DEF Wellformed, TypeOK
      <3>2. \A q \in Requests : Abort(q) => aborts' = aborts + 1
        BY DEF Abort
      <3>3. (\E q \in Requests : Abort(q)) \/ UNCHANGED aborts
        BY ZenonT(90) DEF Next, vars, Handler,
     RegisterRead, RegisterInsert, RegisterLink, VerifyGet, VerifyUpdate,
     VerifyDelete, LoginRehash, LoginChallenge, LoginOpen, MfaGet, MfaDelete, MfaOpen,
     GoogleState, AppleState, TakeState, GoogleRead, AppleRead, OAuthLink, OAuthInsert, OAuthOpen,
     OAuthCode, CodeGet, CodeDelete, RefreshRotate, ForgotRead, ForgotPut, ResetGet,
     ResetDelete, ResetPassword, ResetRevoke, LoginRead, RefreshFind, Starts, Goes, Answers, GetLink,
     GoogleStart, AppleStart, SetActive, Cleanup, ExpireSession,
     ExpireLink, Logout, MfaConfirm, MfaDisable, DeleteAccount, Tick
      <3>4. QED
        BY <1>5, <3>1, <3>2, <3>3
    <2>2. \A q \in Requests : request[q].at # "reset_revoke"
      BY <1>5, <2>1, PasswordSlots, Opened
    <2>3. \A q \in Requests : ~ResetPassword(q)
      <3>1. \A q \in Requests : ResetPassword(q) => request'[q].at = "reset_revoke"
        BY GoesAt DEF ResetPassword, Wellformed, TypeOK
      <3>2. QED
        BY <1>5, <3>1
    <2>4. \A q \in Requests : request[q].at = "login_rehash" => request[q].password = account.password
      BY <1>0 DEF LoginSteps
    <2>5. account.row = "none" \/ account'.password = account.password
      BY <2>3, <2>4, PasswordMoves
    <2>6. CASE /\ session[s].status \in {"active", "expired"}
               /\ session'[s].password = session[s].password
      <3>1. account.row # "none"
        BY <1>2, <2>6
      <3>2. QED
        BY <1>0, <2>1, <2>2, <2>5, <2>6, <3>1
    <2>7. CASE \E q \in Requests : /\ request[q].at = "login_open"
                                   /\ session'[s].password = request[q].password
      BY <1>0, <1>2, <2>5, <2>7 DEF LoginSteps
    <2>8. QED
      BY <1>5, <2>6, <2>7, Opened
  <1>6. QED
    BY <1>3, <1>4, <1>5

\* Once a reset has run to its end no session opened with an earlier password
\* can be refreshed (auth.ts:662-666).
THEOREM ResetIsFinal == Spec => []ResetCutsOff
  <1>1. Spec => [](Wellformed /\ Verified /\ ResetInOrder)
    <2>1. Init => Wellformed /\ Verified /\ ResetInOrder
      BY WellformedInit, VerifiedInit, ResetInit
    <2>2. (Wellformed /\ Verified /\ ResetInOrder) /\ [Next]_vars
             => (Wellformed /\ Verified /\ ResetInOrder)'
      BY WellformedNext, VerifiedNext, ResetNext
    <2>3. QED
      BY <2>1, <2>2, PTL DEF Spec
  <1>2. Wellformed /\ Verified /\ ResetInOrder => ResetCutsOff
    BY DEF ResetInOrder, ResetCutsOff, InFlight, ResetSteps
  <1>3. QED
    BY <1>1, <1>2, PTL

=============================================================================
