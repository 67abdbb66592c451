------------------------------- MODULE Sessions -------------------------------
(***************************************************************************)
(* One person's account and signed-in sessions: the row of users, the rows *)
(* of sessions, the one-time links kept in KV, and the handlers of         *)
(* src/src/routes/auth.ts (with account removal in users.ts, deactivation  *)
(* in admin.ts and the daily clean-up in lib/cron.ts) that change them.    *)
(*                                                                         *)
(* A refresh token is a JWT over the user and the second it was signed in, *)
(* and nothing else that varies: it is modelled by that second, so two     *)
(* tokens signed in one second are equal.  The row keeps the token's hash. *)
(*                                                                         *)
(* A request in flight is a slot of Requests: "at" names the statement it  *)
(* executes next, the other fields what it has read.  A request whose      *)
(* first read finds nothing to do is answered at once and is no step.      *)
(***************************************************************************)
EXTENDS Integers, FiniteSets

CONSTANTS
    SessionIds,   \* rows of the sessions table
    Links,        \* tokens put in KV: e-mailed links, challenges, OAuth codes
    Requests,     \* slots for handler invocations in flight
    Nobody,       \* the session or link of a request that has none
    MaxTime,      \* bound on the clock, in seconds
    MaxPassword,  \* bound on the passwords the account ever has
    OneAtATime,   \* TRUE: one request at a time about a session or a link, and
                  \* no sign-in by password overlaps a reset
    MaxAborts     \* bound on the requests that die half-way

VARIABLES
    account,      \* the user's row
    session,      \* the sessions table
    link,         \* what SESSIONS KV holds under each token
    request,      \* the requests in flight
    now,          \* the clock
    aborts        \* how many requests have died

vars == <<account, session, link, request, now, aborts>>

-----------------------------------------------------------------------------
(* Rows, links and requests                                                *)

Times == 0..MaxTime
NoPassword == 0            \* 'OAUTH_NO_PASSWORD', or a sign-in without one
Passwords == NoPassword..MaxPassword

LinkKinds == {"unused", "verify", "reset", "challenge", "state", "code", "spent"}
LoginSteps == {"login_rehash", "login_challenge", "login_open"}
ResetSteps == {"reset_delete", "reset_password", "reset_revoke"}
OpeningSteps == LoginSteps \union
    {"mfa_delete", "mfa_open", "oauth_insert", "oauth_link", "oauth_open"}
Steps == {"idle", "register_insert", "register_link", "verify_update",
          "verify_delete", "forgot_put", "google_read", "apple_read", "oauth_code",
          "code_delete", "refresh_rotate"} \union OpeningSteps \union ResetSteps

Account == [row : {"none", "live", "deleted"}, active : BOOLEAN,
            verified : BOOLEAN, password : Passwords, legacy : BOOLEAN,
            mfa : BOOLEAN]
\* "password" is the one the session was opened with; no column holds it.
\* "expired": is_active holds but expires_at has passed.
Session == [status : {"none", "active", "expired", "revoked"}, token : Times,
            password : Passwords]
\* "uses" counts what the link was good for; nothing in KV holds it.
Link == [kind : LinkKinds, uses : Nat]
Request == [at : Steps, password : Passwords, mfa : BOOLEAN,
            signed : Times, session : SessionIds \union {Nobody},
            link : Links \union {Nobody}]

NoSession == [status |-> "none", token |-> 0, password |-> NoPassword]
Idle == [at |-> "idle", password |-> NoPassword, mfa |-> FALSE,
         signed |-> 0, session |-> Nobody, link |-> Nobody]

ASSUME SessionsAssumption ==
    /\ Nobody \notin SessionIds \union Links
    /\ IsFiniteSet(Requests)
    /\ MaxTime \in Nat
    /\ MaxPassword \in Nat \ {0}
    /\ OneAtATime \in BOOLEAN
    /\ MaxAborts \in Nat

TypeOK ==
    /\ account \in Account
    /\ session \in [SessionIds -> Session]
    /\ link \in [Links -> Link]
    /\ request \in [Requests -> Request]
    /\ now \in Times
    /\ aborts \in 0..MaxAborts

Unregistered == [row |-> "none", active |-> TRUE, verified |-> FALSE,
                 password |-> NoPassword, legacy |-> FALSE, mfa |-> FALSE]

\* Nobody has registered yet, or an old account, with a PBKDF2 hash or not.
Init ==
    /\ \/ account = Unregistered
       \/ \E old, m \in BOOLEAN :
             account = [Unregistered EXCEPT !.row = "live", !.verified = TRUE,
                          !.password = 1, !.legacy = old, !.mfa = m]
    /\ session = [s \in SessionIds |-> NoSession]
    /\ link = [l \in Links |-> [kind |-> "unused", uses |-> 0]]
    /\ request = [q \in Requests |-> Idle]
    /\ now = 0
    /\ aborts = 0

-----------------------------------------------------------------------------
(* Helpers                                                                 *)

Active(s) == session[s].status = "active"
InFlight(steps) == \E q \in Requests : request[q].at \in steps

Untouched(x) ==
    OneAtATime => \A q \in Requests : x \notin {request[q].session, request[q].link}

Starts(q, r) == /\ request[q] = Idle
                /\ request' = [request EXCEPT ![q] = r]
Goes(q, step) == request' = [request EXCEPT ![q].at = step]
Answers(q) == request' = [request EXCEPT ![q] = Idle]

PutLink(kind) == \E l \in Links :
    /\ link[l].kind = "unused"
    /\ link' = [link EXCEPT ![l].kind = kind]
DeleteLink(l) == link' = [link EXCEPT ![l].kind = "spent"]
UseLink(l) == link' = [link EXCEPT ![l].uses = @ + 1]

\* The first read of a handler that works on a link: KV get.
GetLink(q, l, kind, step) ==
    /\ link[l].kind = kind
    /\ Untouched(l)
    /\ Starts(q, [Idle EXCEPT !.at = step, !.link = l])

\* The row is best-effort: the INSERT may fail and the tokens go out anyway.
\* A row's id is a fresh UUID, so no request in flight holds it.
OpenSession(p) ==
    \/ UNCHANGED session
    \/ \E s \in SessionIds :
          /\ session[s].status = "none"
          /\ \A q \in Requests : request[q].session # s
          /\ session' = [session EXCEPT ![s] =
                [status |-> "active", token |-> now, password |-> p]]

-----------------------------------------------------------------------------
(* POST /register, GET /verify-email                                       *)

RegisterRead(q) ==
    /\ account.row = "none"
    /\ Starts(q, [Idle EXCEPT !.at = "register_insert"])
    /\ UNCHANGED <<account, session, link, now, aborts>>

\* email_hash is UNIQUE: the second of two INSERTs is answered 409.
RegisterInsert(q) ==
    /\ request[q].at = "register_insert"
    /\ \/ /\ account.row = "none"
          /\ account' = [Unregistered EXCEPT !.row = "live", !.password = 1]
          /\ Goes(q, "register_link")
       \/ /\ account.row # "none"
          /\ Answers(q)
          /\ UNCHANGED account
    /\ UNCHANGED <<session, link, now, aborts>>

\* Best-effort: registration succeeds when the link cannot be sent.
RegisterLink(q) ==
    /\ request[q].at = "register_link"
    /\ PutLink("verify") \/ UNCHANGED link
    /\ Answers(q)
    /\ UNCHANGED <<account, session, now, aborts>>

VerifyGet(q, l) ==
    /\ GetLink(q, l, "verify", "verify_update")
    /\ UNCHANGED <<account, session, link, now, aborts>>

VerifyUpdate(q) ==
    /\ request[q].at = "verify_update"
    /\ account' = [account EXCEPT !.verified = TRUE]
    /\ Goes(q, "verify_delete")
    /\ UNCHANGED <<session, link, now, aborts>>

VerifyDelete(q) ==
    /\ request[q].at = "verify_delete"
    /\ DeleteLink(request[q].link)
    /\ Answers(q)
    /\ UNCHANGED <<account, session, now, aborts>>

-----------------------------------------------------------------------------
(* POST /login, POST /mfa/verify, /mfa/confirm, /mfa/disable               *)

\* The row is read once; every later step works from that reading.
LoginReadUnverified(q) ==                  \* mutant: email_verified is not looked at
    /\ account.row = "live" /\ account.active
    /\ account.password # NoPassword
    /\ OneAtATime => ~InFlight(ResetSteps)
    /\ Starts(q, [Idle EXCEPT !.password = account.password, !.mfa = account.mfa,
                    !.at = IF account.legacy THEN "login_rehash"
                           ELSE IF account.mfa THEN "login_challenge" ELSE "login_open"])
    /\ UNCHANGED <<account, session, link, now, aborts>>
LoginRead(q) ==
    /\ account.row = "live" /\ account.active /\ account.verified
    /\ account.password # NoPassword
    /\ OneAtATime => ~InFlight(ResetSteps)
    /\ Starts(q, [Idle EXCEPT !.password = account.password, !.mfa = account.mfa,
                    !.at = IF account.legacy THEN "login_rehash"
                           ELSE IF account.mfa THEN "login_challenge" ELSE "login_open"])
    /\ UNCHANGED <<account, session, link, now, aborts>>

\* The password that was checked is written back under the new hash, if the
\* statement succeeds.
LoginRehash(q) ==
    /\ request[q].at = "login_rehash"
    /\ \/ account' = [account EXCEPT !.password = request[q].password, !.legacy = FALSE]
       \/ UNCHANGED account
    /\ Goes(q, IF request[q].mfa THEN "login_challenge" ELSE "login_open")
    /\ UNCHANGED <<session, link, now, aborts>>

LoginChallenge(q) ==
    /\ request[q].at = "login_challenge"
    /\ PutLink("challenge")
    /\ Answers(q)
    /\ UNCHANGED <<account, session, now, aborts>>

LoginOpen(q) ==
    /\ request[q].at = "login_open"
    /\ OpenSession(request[q].password)
    /\ Answers(q)
    /\ UNCHANGED <<account, link, now, aborts>>

\* The code is checked against the secret, which a deletion clears; that the
\* account was deactivated since the challenge is not looked at.
MfaGetAnyRow(q, l) ==                      \* mutant: a cached secret is used
    /\ GetLink(q, l, "challenge", "mfa_delete")
    /\ UNCHANGED <<account, session, link, now, aborts>>
MfaGet(q, l) ==
    /\ account.mfa
    /\ GetLink(q, l, "challenge", "mfa_delete")
    /\ UNCHANGED <<account, session, link, now, aborts>>

MfaDeleteLater(q) ==                       \* mutant: the challenge is left to expire
    /\ request[q].at = "mfa_delete"
    /\ Goes(q, "mfa_open")
    /\ UNCHANGED <<account, session, link, now, aborts>>
MfaDelete(q) ==
    /\ request[q].at = "mfa_delete"
    /\ DeleteLink(request[q].link)
    /\ Goes(q, "mfa_open")
    /\ UNCHANGED <<account, session, now, aborts>>

MfaOpen(q) ==
    /\ request[q].at = "mfa_open"
    /\ OpenSession(NoPassword)
    /\ UseLink(request[q].link)
    /\ Answers(q)
    /\ UNCHANGED <<account, now, aborts>>

\* One statement each, behind an access token: the row may be gone by now.
MfaConfirm ==
    /\ account.row = "live" /\ ~account.mfa
    /\ account' = [account EXCEPT !.mfa = TRUE]
    /\ UNCHANGED <<session, link, request, now, aborts>>
MfaDisable ==
    /\ account.mfa
    /\ account' = [account EXCEPT !.mfa = FALSE]
    /\ UNCHANGED <<session, link, request, now, aborts>>

-----------------------------------------------------------------------------
(* GET /google, /google/callback, /apple, /apple/callback, /oauth-session  *)

\* Both providers put their state under one prefix in KV.
GoogleStart ==
    /\ PutLink("state")
    /\ UNCHANGED <<account, session, request, now, aborts>>
AppleStart ==
    /\ PutLink("state")
    /\ UNCHANGED <<account, session, request, now, aborts>>

\* The state is taken from KV; the provider then names the address.
TakeState(q, l, step) ==
    /\ link[l].kind = "state"
    /\ Untouched(l)
    /\ Starts(q, [Idle EXCEPT !.at = step])
    /\ link' = [link EXCEPT ![l].kind = "spent", ![l].uses = @ + 1]
    /\ UNCHANGED <<account, session, now, aborts>>
GoogleState(q, l) == TakeState(q, l, "google_read")
AppleState(q, l) == TakeState(q, l, "apple_read")

\* An account that is known is linked, an unknown one is created; that the
\* account has MFA enabled is not looked at.
GoogleRead(q) ==
    /\ request[q].at = "google_read"
    /\ \/ account.row = "live" /\ account.active /\ Goes(q, "oauth_link")
       \/ account.row = "live" /\ ~account.active /\ Answers(q)
       \/ account.row = "none" /\ Goes(q, "oauth_insert")
       \/ account.row = "deleted" /\ Answers(q)   \* the address is a new account's
    /\ UNCHANGED <<account, session, link, now, aborts>>

\* Apple need not give an address: then the account is known by Apple's own id,
\* which a sign-in through Google since may have replaced, or not at all.
AppleRead(q) ==
    /\ request[q].at = "apple_read"
    /\ \/ account.row = "live" /\ account.active /\ Goes(q, "oauth_link")
       \/ account.row = "none" /\ Goes(q, "oauth_insert")
       \/ Answers(q)
    /\ UNCHANGED <<account, session, link, now, aborts>>

OAuthLink(q) ==
    /\ request[q].at = "oauth_link"
    /\ account' = [account EXCEPT !.verified = TRUE]
    /\ Goes(q, "oauth_open")
    /\ UNCHANGED <<session, link, now, aborts>>

\* The row either provider's callback inserts: no password, address verified.
ProviderRow == [Unregistered EXCEPT !.row = "live", !.verified = TRUE]

OAuthInsert(q) ==
    /\ request[q].at = "oauth_insert"
    /\ \/ /\ account.row = "none"
          /\ account' = ProviderRow
          /\ Goes(q, "oauth_open")
       \/ /\ account.row # "none"
          /\ Answers(q)
          /\ UNCHANGED account
    /\ UNCHANGED <<session, link, now, aborts>>

OAuthOpen(q) ==
    /\ request[q].at = "oauth_open"
    /\ OpenSession(NoPassword)
    /\ Goes(q, "oauth_code")
    /\ UNCHANGED <<account, link, now, aborts>>

OAuthCode(q) ==
    /\ request[q].at = "oauth_code"
    /\ PutLink("code")
    /\ Answers(q)
    /\ UNCHANGED <<account, session, now, aborts>>

\* The browser trades the code for the token pair.
CodeGet(q, l) ==
    /\ GetLink(q, l, "code", "code_delete")
    /\ UNCHANGED <<account, session, link, now, aborts>>

CodeDelete(q) ==
    /\ request[q].at = "code_delete"
    /\ link' = [link EXCEPT ![request[q].link].kind = "spent",
                            ![request[q].link].uses = @ + 1]
    /\ Answers(q)
    /\ UNCHANGED <<account, session, now, aborts>>

-----------------------------------------------------------------------------
(* POST /refresh, POST /logout                                             *)

\* The row is found by the hash and the new pair is signed; neither the user's
\* row nor, later, the hash that was found is looked at again.
RefreshFind(q, s) ==
    /\ Active(s)
    /\ Untouched(s)
    /\ Starts(q, [Idle EXCEPT !.at = "refresh_rotate", !.session = s,
                              !.signed = now])
    /\ UNCHANGED <<account, session, link, now, aborts>>

\* UPDATE sessions ... WHERE id sets the hash and expires_at: nothing happens
\* when the row is gone, and is_active stays what it is.
RotatedRevived(s, token) ==                \* mutant: the UPDATE sets is_active too
    [session EXCEPT ![s].token = token, ![s].status = "active"]
Rotated(s, token) ==
    IF session[s].status = "none" THEN session
    ELSE [session EXCEPT ![s].token = token,
                         ![s].status = IF @ = "expired" THEN "active" ELSE @]

RefreshRotate(q) ==
    /\ request[q].at = "refresh_rotate"
    /\ session' = Rotated(request[q].session, request[q].signed)
    /\ Answers(q)
    /\ UNCHANGED <<account, link, now, aborts>>

RevokeAll(S) == session' = [s \in SessionIds |->
    IF s \in S /\ session[s].status # "none" THEN [session[s] EXCEPT !.status = "revoked"] ELSE session[s]]

\* Best-effort: with an expired access token a logout changes nothing.
Logout(t) ==
    /\ \E s \in SessionIds : session[s].status # "none" /\ session[s].token = t
    /\ RevokeAll({s \in SessionIds : session[s].token = t})
    /\ UNCHANGED <<account, link, request, now, aborts>>

-----------------------------------------------------------------------------
(* POST /forgot-password, POST /reset-password                             *)

ForgotRead(q) ==
    /\ account.row = "live" /\ account.active
    /\ Starts(q, [Idle EXCEPT !.at = "forgot_put"])
    /\ UNCHANGED <<account, session, link, now, aborts>>

ForgotPut(q) ==
    /\ request[q].at = "forgot_put"
    /\ PutLink("reset")
    /\ Answers(q)
    /\ UNCHANGED <<account, session, now, aborts>>

ResetGet(q, l) ==
    /\ OneAtATime => ~InFlight(LoginSteps \union ResetSteps)
    /\ GetLink(q, l, "reset", "reset_delete")
    /\ UNCHANGED <<account, session, link, now, aborts>>

ResetDelete(q) ==
    /\ request[q].at = "reset_delete"
    /\ DeleteLink(request[q].link)
    /\ Goes(q, "reset_password")
    /\ UNCHANGED <<account, session, now, aborts>>

ResetPassword(q) ==
    /\ request[q].at = "reset_password"
    /\ account.password < MaxPassword
    /\ account' = [account EXCEPT !.password = @ + 1, !.legacy = FALSE]
    /\ UseLink(request[q].link)
    /\ Goes(q, "reset_revoke")
    /\ UNCHANGED <<session, now, aborts>>

ResetRevokeOne(q) ==                       \* mutant: the session in use is spared
    /\ request[q].at = "reset_revoke"
    /\ RevokeAll({s \in SessionIds : session[s].token # now})
    /\ Answers(q)
    /\ UNCHANGED <<account, link, now, aborts>>
ResetRevoke(q) ==
    /\ request[q].at = "reset_revoke"
    /\ RevokeAll(SessionIds)
    /\ Answers(q)
    /\ UNCHANGED <<account, link, now, aborts>>

-----------------------------------------------------------------------------
(* Removal, deactivation, expiry, clean-up, failure                        *)

\* PUT /admin/users/:userId: one statement, which leaves the sessions alone.
SetActive(on) ==
    /\ account.row # "none" /\ account.active # on
    /\ account' = [account EXCEPT !.active = on]
    /\ UNCHANGED <<session, link, request, now, aborts>>

\* DELETE /users/account: the row is marked and its MFA secret cleared.
DeleteAccount ==
    /\ account.row = "live"
    /\ account' = [account EXCEPT !.row = "deleted", !.active = FALSE, !.mfa = FALSE]
    /\ UNCHANGED <<session, link, request, now, aborts>>

Tick ==
    /\ now < MaxTime
    /\ now' = now + 1
    /\ UNCHANGED <<account, session, link, request, aborts>>

\* expires_at has passed, thirty days after the last rotation.
ExpireSession(s) ==
    /\ Active(s)
    /\ session' = [session EXCEPT ![s].status = "expired"]
    /\ UNCHANGED <<account, link, request, now, aborts>>

ExpireLink(l) ==
    /\ link[l].kind \notin {"unused", "spent"}
    /\ DeleteLink(l)
    /\ UNCHANGED <<account, session, request, now, aborts>>

\* The daily task's DELETE of expired and revoked rows.
Cleanup ==
    /\ session' = [s \in SessionIds |->
          IF session[s].status \in {"expired", "revoked"}
          THEN NoSession ELSE session[s]]
    /\ UNCHANGED <<account, link, request, now, aborts>>

\* A statement fails or the isolate goes away: the rest is not executed.
Abort(q) ==
    /\ request[q] # Idle
    /\ aborts < MaxAborts
    /\ aborts' = aborts + 1
    /\ Answers(q)
    /\ UNCHANGED <<account, session, link, now>>

-----------------------------------------------------------------------------

Handler(q) ==
    \/ RegisterRead(q) \/ RegisterInsert(q) \/ RegisterLink(q)
    \/ \E l \in Links : VerifyGet(q, l)
    \/ VerifyUpdate(q) \/ VerifyDelete(q)
    \/ LoginRead(q) \/ LoginRehash(q) \/ LoginChallenge(q) \/ LoginOpen(q)
    \/ \E l \in Links : MfaGet(q, l)
    \/ MfaDelete(q) \/ MfaOpen(q)
    \/ \E l \in Links : GoogleState(q, l) \/ AppleState(q, l)
    \/ GoogleRead(q) \/ AppleRead(q) \/ OAuthLink(q) \/ OAuthInsert(q) \/ OAuthOpen(q) \/ OAuthCode(q)
    \/ \E l \in Links : CodeGet(q, l)
    \/ CodeDelete(q)
    \/ \E s \in SessionIds : RefreshFind(q, s)
    \/ RefreshRotate(q)
    \/ ForgotRead(q) \/ ForgotPut(q)
    \/ \E l \in Links : ResetGet(q, l)
    \/ ResetDelete(q) \/ ResetPassword(q) \/ ResetRevoke(q)
    \/ Abort(q)

Next ==
    \/ \E q \in Requests : Handler(q)
    \/ MfaConfirm \/ MfaDisable \/ GoogleStart \/ AppleStart
    \/ \E t \in Times : Logout(t)
    \/ \E on \in BOOLEAN : SetActive(on)
    \/ DeleteAccount
    \/ Tick
    \/ \E s \in SessionIds : ExpireSession(s)
    \/ \E l \in Links : ExpireLink(l)
    \/ Cleanup

Spec == Init /\ [][Next]_vars

-----------------------------------------------------------------------------
(* Properties                                                              *)

\* Nobody is signed in, and no request is about to sign anybody in, while the
\* account's address is unverified: the check the login handler makes on what
\* it read (auth.ts:245) and the statements of the OAuth callbacks stay true
\* until the session's row is written.
OnlyVerifiedSignIn ==
    (\/ InFlight(LoginSteps \union {"mfa_delete", "mfa_open", "oauth_open"})
     \/ \E s \in SessionIds : session[s].status # "none"
     \/ \E l \in Links : link[l].kind = "challenge")
    => account.verified

\* A link changes the password, opens a session, or hands out tokens at most
\* once, whatever dies half-way: the handlers delete it before they act on it
\* (auth.ts:654, auth.ts:887, auth.ts:1172, auth.ts:1752).
LinkUsedOnce == OneAtATime => \A l \in Links : link[l].uses <= 1

\* When a reset has run to its end no session opened with an earlier password
\* is active (auth.ts:662-666), and no later step brings one back.
ResetCutsOff ==
    OneAtATime /\ aborts = 0 /\ ~InFlight(ResetSteps) =>
        \A s \in SessionIds :
            session[s].status \in {"active", "expired"} =>
                session[s].password \in {NoPassword, account.password}

\* A session that was revoked never becomes active again: the rotation of a
\* refresh that found the row before a logout or a reset leaves is_active alone.
RevokedStaysRevoked ==
    [][\A s \in SessionIds :
          session[s].status = "revoked" => session'[s].status \in {"revoked", "none"}]_vars

\* After the account is deleted no request sets out to open a session: not a
\* login, not an OAuth callback, not the MFA challenge of an earlier login.
DeletedStaysOut ==
    [][account.row = "deleted" =>
          \A q \in Requests :
              request'[q].at \in OpeningSteps => request[q].at \in OpeningSteps]_vars

=============================================================================
