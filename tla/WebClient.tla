------------------------------- MODULE WebClient -------------------------------
(***************************************************************************)
(* One tab of the web client, src/public/static/js/app.js, against the     *)
(* server's sessions: the API client that answers a 401 by a refresh and   *)
(* one retry, sign-in and sign-out, the event stream that follows the      *)
(* signed-in state, and the timers the trip screens leave behind.          *)
(*                                                                         *)
(* A token pair is a number; token[n] is what the server thinks of it.     *)
(* localStorage keeps both tokens of one pair, always written in one block *)
(* of synchronous code.  A call is a slot of Calls; the network may lose   *)
(* its request or its answer at any point, and the page may be reloaded.   *)
(***************************************************************************)
EXTENDS Integers, FiniteSets

CONSTANTS
    Users,        \* people who sign in on this device, one after the other
    Calls,        \* slots for API calls in flight
    MaxPairs,     \* bound on the token pairs the server issues
    Orderly       \* TRUE: no second refresh and no sign-out during a refresh, and
                  \* nobody signs in where somebody else is signed in

VARIABLES
    token,        \* the server: whose a pair is, and what is still accepted
    issued,       \* how many pairs the server has issued
    kept,         \* localStorage: the pair it holds, 0 for none
    store,        \* Store: who is signed in, which screen
    call,         \* the API calls in flight
    bye,          \* POST /auth/logout in flight, by the pair it carries
    stream,       \* the pair of the open EventSource (0: none), and its retry
    late,         \* the trip screen has scheduled a callback
    timer,        \* the intervals running, and whether a handle is held
    lost          \* pairs revoked from elsewhere, or rotated by a refresh whose
                  \* answer the page did not live to see

vars == <<token, issued, kept, store, call, bye, stream, late, timer, lost>>

-----------------------------------------------------------------------------

Pairs == 1..MaxPairs
Screens == {"login", "home", "trip"}   \* "trip": the trip and navigation screens
RefreshSteps == {"refresh_sent", "refresh_found", "refresh_ok", "refresh_refused"}
Steps == {"idle", "sent", "ok", "refused"} \union RefreshSteps

Kinds == {"call", "login", "redirect"}  \* redirect: back from Google or Apple

Call == [at : Steps, kind : Kinds, user : Users, pair : 0..MaxPairs,
         again : BOOLEAN, ran : Nat]
Free(u) == [at |-> "idle", kind |-> "call", user |-> u, pair |-> 0,
            again |-> FALSE, ran |-> 0]
Idle == Free(CHOOSE u \in Users : TRUE)

ASSUME WebClientAssumption ==
    /\ Users # {}
    /\ MaxPairs \in Nat \ {0}
    /\ Orderly \in BOOLEAN

TypeOK ==
    /\ token \in [Pairs -> [user : Users, fresh : BOOLEAN, live : BOOLEAN]]
    /\ issued \in 0..MaxPairs
    /\ kept \in 0..MaxPairs
    /\ store \in [auth : BOOLEAN, user : Users, screen : Screens]
    /\ call \in [Calls -> Call]
    /\ bye \subseteq Pairs
    /\ stream \in [open : 0..MaxPairs, retry : BOOLEAN]
    /\ late \in BOOLEAN
    /\ timer \in [running : Nat, held : BOOLEAN]
    /\ lost \subseteq Pairs

Stopped == [running |-> 0, held |-> FALSE]

Init ==
    /\ token = [n \in Pairs |-> [user |-> Idle.user, fresh |-> FALSE, live |-> FALSE]]
    /\ issued = 0
    /\ kept = 0
    /\ store = [auth |-> FALSE, user |-> Idle.user, screen |-> "login"]
    /\ call = [c \in Calls |-> Idle]
    /\ bye = {}
    /\ stream = [open |-> 0, retry |-> FALSE]
    /\ late = FALSE
    /\ timer = Stopped
    /\ lost = {}

-----------------------------------------------------------------------------
(* The screens: rendering, callbacks, timers                               *)

\* clearInterval of the handle, if one is held.
StopTimer == [running |-> IF timer.held THEN timer.running - 1 ELSE timer.running,
              held |-> FALSE]

\* A poll is stopped before it is started.
StartPollAgain ==                          \* mutant: the old interval is forgotten
    [running |-> timer.running + 1, held |-> TRUE]
StartPoll == [running |-> StopTimer.running + 1, held |-> TRUE]

\* Renderer.render after Router.navigate: leaving a screen stops the timers,
\* a trip screen schedules its callback.
Render(screen) ==
    /\ timer' = IF screen = store.screen THEN timer ELSE StopTimer
    /\ late' = (late \/ screen = "trip")

\* EventSource is opened with the access token in localStorage, if there is one.
Connect == IF stream.open # 0 THEN stream.open ELSE kept

\* Whatever Store.setState changes, its subscriber opens or closes the stream.
Follow(auth) == [stream EXCEPT !.open = IF auth THEN Connect ELSE 0]

Show(screen) ==
    /\ store' = [store EXCEPT !.screen = screen]
    /\ stream' = Follow(store.auth)
    /\ Render(screen)

\* Links, buttons and the browser's Back, which reaches the login screen too.
\* Signed out, only that screen is shown.
Navigate(screen) ==
    /\ store.auth
    /\ Show(screen)
    /\ UNCHANGED <<token, issued, kept, call, bye, lost>>

\* The poll of a driver's location starts when the screen's callback has run,
\* after a hundred milliseconds, and the route has arrived, if it does:
\* whatever screen is shown by then.
TripCallback ==
    /\ late
    /\ late' = FALSE
    /\ timer' \in {timer, StartPoll}
    /\ UNCHANGED <<token, issued, kept, store, call, bye, stream, lost>>

-----------------------------------------------------------------------------
(* The event stream                                                        *)

StreamError ==
    /\ stream.open # 0
    /\ stream' = [open |-> 0, retry |-> TRUE]
    /\ UNCHANGED <<token, issued, kept, store, call, bye, late, timer, lost>>

StreamRetry ==
    /\ stream.retry
    /\ stream' = [open |-> Connect, retry |-> FALSE]
    /\ UNCHANGED <<token, issued, kept, store, call, bye, late, timer, lost>>

-----------------------------------------------------------------------------
(* Sign-in and sign-out                                                    *)

Refreshing(c) == call[c].at \in RefreshSteps
NoRefresh == Orderly => \A c \in Calls : ~Refreshing(c)

\* Auth.logout: the request goes out with what localStorage holds, and before
\* any answer the tokens are removed, the stream closed, the login screen shown.
SignOutKeepsStream ==                      \* mutant: the stream is left open
    /\ bye' = bye \union ({kept} \ {0})
    /\ kept' = 0
    /\ store' = [auth |-> FALSE, user |-> Idle.user, screen |-> "login"]
    /\ stream' = stream
    /\ Render("login")
SignOut ==
    /\ bye' = bye \union ({kept} \ {0})
    /\ kept' = 0
    /\ store' = [auth |-> FALSE, user |-> Idle.user, screen |-> "login"]
    /\ stream' = [stream EXCEPT !.open = 0]
    /\ Render("login")

UserLogout ==
    /\ store.auth
    /\ NoRefresh
    /\ SignOut
    /\ UNCHANGED <<token, issued, call, lost>>

\* Best-effort on the server: without a valid access token nothing is revoked.
ByeServe(n) ==
    /\ n \in bye
    /\ bye' = bye \ {n}
    /\ \/ token' = [token EXCEPT ![n].live = @ /\ ~token[n].fresh]
       \/ UNCHANGED token
    /\ UNCHANGED <<issued, kept, store, call, stream, late, timer, lost>>

\* The form on the login screen, whoever is signed in.
MaySignIn(u) == Orderly /\ store.auth => u = store.user

LoginSubmit(c, u) ==
    /\ store.screen = "login"
    /\ MaySignIn(u)
    /\ call[c].at = "idle"
    /\ \A d \in Calls : call[d].kind = "call"
    /\ call' = [call EXCEPT ![c] = [Free(u) EXCEPT !.at = "sent", !.kind = "login"]]
    /\ stream' = Follow(store.auth)
    /\ UNCHANGED <<token, issued, kept, store, bye, late, timer, lost>>

Issue(u, accepted, alive) ==
    /\ issued < MaxPairs
    /\ issued' = issued + 1
    /\ token' = [accepted EXCEPT ![issued + 1] =
                    [user |-> u, fresh |-> TRUE, live |-> alive]]

LoginServe(c) ==
    /\ call[c].at = "sent" /\ call[c].kind # "call"
    /\ \/ /\ Issue(call[c].user, token, TRUE)
          /\ call' = [call EXCEPT ![c].at = "ok", ![c].pair = issued + 1]
       \/ /\ call' = [call EXCEPT ![c].at = "refused"]
          /\ UNCHANGED <<token, issued>>
    /\ UNCHANGED <<kept, store, bye, stream, late, timer, lost>>

LoginOk(c) ==
    /\ call[c].at = "ok" /\ call[c].kind # "call"
    /\ kept' = call[c].pair
    /\ store' = [store EXCEPT !.auth = TRUE, !.user = call[c].user, !.screen = "home"]
    /\ stream' = [stream EXCEPT !.open = IF @ # 0 THEN @ ELSE call[c].pair]
    /\ Render("home")
    /\ call' = [call EXCEPT ![c] = Idle]
    /\ UNCHANGED <<token, issued, bye, lost>>

-----------------------------------------------------------------------------
(* API.request and API.refreshToken                                        *)

\* A screen asks for its data, or a timer fires: the timers do not look at
\* whether anybody is signed in.
CallStart(c) ==
    /\ call[c].at = "idle"
    /\ store.auth \/ timer.running > 0
    /\ call' = [call EXCEPT ![c] = [Idle EXCEPT !.at = "sent", !.pair = kept]]
    /\ UNCHANGED <<token, issued, kept, store, bye, stream, late, timer, lost>>

Accepts(n) == n # 0 /\ token[n].fresh

CallServe(c) ==
    /\ call[c].at = "sent" /\ call[c].kind = "call"
    /\ call' = [call EXCEPT
          ![c].at = IF Accepts(call[c].pair) THEN "ok" ELSE "refused",
          ![c].ran = IF Accepts(call[c].pair) THEN @ + 1 ELSE @,
          ![c].pair = 0]
    /\ UNCHANGED <<token, issued, kept, store, bye, stream, late, timer, lost>>

CallOk(c) ==
    /\ call[c].at = "ok" /\ call[c].kind = "call"
    /\ call' = [call EXCEPT ![c] = Idle]
    /\ UNCHANGED <<token, issued, kept, store, bye, stream, late, timer, lost>>

\* A 401 the first time: ask for a new pair with the token kept now.
CallRefused(c) ==
    /\ call[c].at = "refused" /\ ~call[c].again
    /\ kept # 0
    /\ NoRefresh
    /\ call' = [call EXCEPT ![c].at = "refresh_sent", ![c].pair = kept]
    /\ UNCHANGED <<token, issued, kept, store, bye, stream, late, timer, lost>>

\* request throws: what its caller's catch does about it.
Fails(c) ==
    /\ call' = [call EXCEPT ![c] = Idle]
    /\ CASE call[c].kind = "redirect" -> Show("login")
         [] call[c].kind = "login" -> stream' = Follow(store.auth) /\ UNCHANGED <<store, late, timer>>
         [] OTHER -> UNCHANGED <<store, stream, late, timer>>

\* A 401 after the retry, or a redirect's code that is refused: the call fails.
CallRefusedTwice(c) ==
    /\ call[c].at = "refused" /\ call[c].again
    /\ Fails(c)
    /\ UNCHANGED <<token, issued, kept, bye, lost>>

\* With nothing to refresh with, or when the refresh fails, the user is out.
CallSignsOutLate(c) ==                     \* mutant: a refused refresh is refreshed
    /\ call[c].at = "refresh_refused" /\ kept # 0
    /\ call' = [call EXCEPT ![c].at = "refresh_sent", ![c].pair = kept]
    /\ UNCHANGED <<token, issued, kept, store, bye, stream, late, timer, lost>>
CallSignsOut(c) ==
    /\ \/ call[c].at = "refused" /\ ~call[c].again /\ kept = 0
       \/ call[c].at = "refresh_refused"
    /\ SignOut
    /\ call' = [call EXCEPT ![c] = Idle]
    /\ UNCHANGED <<token, issued, lost>>

\* POST /auth/refresh: the row is found, then rotated.
RefreshFind(c) ==
    /\ call[c].at = "refresh_sent"
    /\ call' = [call EXCEPT
          ![c].at = IF token[call[c].pair].live THEN "refresh_found" ELSE "refresh_refused",
          ![c].pair = IF token[call[c].pair].live THEN @ ELSE 0]
    /\ UNCHANGED <<token, issued, kept, store, bye, stream, late, timer, lost>>

\* A row that was revoked meanwhile stays revoked under the new token.
Rotate(n) ==
    /\ Issue(token[n].user, [token EXCEPT ![n].live = FALSE], token[n].live)
    /\ lost' = IF token[n].live THEN lost ELSE lost \union {issued + 1}

RefreshRotateKeepsOld(c) ==                \* mutant: the answer repeats the old pair
    /\ call[c].at = "refresh_found"
    /\ Rotate(call[c].pair)
    /\ call' = [call EXCEPT ![c].at = "refresh_ok"]
    /\ UNCHANGED <<kept, store, bye, stream, late, timer>>
RefreshRotate(c) ==
    /\ call[c].at = "refresh_found"
    /\ Rotate(call[c].pair)
    /\ call' = [call EXCEPT ![c].at = "refresh_ok", ![c].pair = issued + 1]
    /\ UNCHANGED <<kept, store, bye, stream, late, timer>>

\* The new pair is kept and the call sent again, once, with what is kept.
RefreshOk(c) ==
    /\ call[c].at = "refresh_ok"
    /\ kept' = call[c].pair
    /\ call' = [call EXCEPT ![c].at = "sent", ![c].again = TRUE,
                           ![c].pair = IF call[c].kind = "call" THEN @ ELSE 0]
    /\ UNCHANGED <<token, issued, store, bye, stream, late, timer, lost>>

\* The network fails: a call is given up, a refresh counts as refused.
CallLostRetries(c) ==                      \* mutant: a lost call is sent again
    /\ call[c].at \in {"sent", "ok"}
    /\ call' = [call EXCEPT ![c].at = "sent", ![c].pair = kept]
    /\ UNCHANGED <<token, issued, kept, store, bye, stream, late, timer, lost>>
CallLost(c) ==
    /\ call[c].at \in {"sent", "ok"}
    /\ Fails(c)
    /\ UNCHANGED <<token, issued, kept, bye, lost>>

RefreshLost(c) ==
    /\ call[c].at \in {"refresh_sent", "refresh_found", "refresh_ok"}
    /\ call' = [call EXCEPT ![c].at = "refresh_refused", ![c].pair = 0]
    /\ UNCHANGED <<token, issued, kept, store, bye, stream, late, timer, lost>>

-----------------------------------------------------------------------------
(* The world around                                                        *)

\* An access token lives for an hour.
ExpireAccess(n) ==
    /\ token[n].fresh
    /\ token' = [token EXCEPT ![n].fresh = FALSE]
    /\ UNCHANGED <<issued, kept, store, call, bye, stream, late, timer, lost>>

\* A password reset on another device revokes every session of the user.
Revoke(u) ==
    /\ \E n \in Pairs : token[n].live /\ token[n].user = u
    /\ token' = [n \in Pairs |->
          IF token[n].user = u THEN [token[n] EXCEPT !.live = FALSE] ELSE token[n]]
    /\ lost' = lost \union {n \in Pairs : token[n].user = u}
    /\ UNCHANGED <<issued, kept, store, call, bye, stream, late, timer>>

\* The page is loaded again: Store.init believes what localStorage holds, the
\* URL's fragment names the screen, and no trip is active.
Load ==
    /\ store' = [store EXCEPT !.auth = kept # 0,
                              !.user = IF kept = 0 THEN Idle.user ELSE token[kept].user,
                              !.screen = IF kept = 0 THEN "login"
                                         ELSE IF @ = "trip" THEN "home" ELSE @]
    /\ stream' = [open |-> kept, retry |-> FALSE]
    /\ late' = FALSE
    /\ timer' = Stopped
    /\ lost' = IF \E c \in Calls : Refreshing(c) THEN lost \union ({kept} \ {0}) ELSE lost
    /\ UNCHANGED <<token, issued, kept, bye>>

Reload ==
    /\ Load
    /\ call' = [c \in Calls |-> Idle]

\* Sign-in with Google or Apple leaves the page and comes back with a code, which
\* is exchanged for tokens; a code that is refused is a 400, so no refresh follows.
OAuthReturn(c, u) ==
    /\ call[c].at = "idle"
    /\ kept # 0 /\ Orderly => token[kept].user = u
    /\ Load
    /\ call' = [d \in Calls |->
          IF d = c THEN [Free(u) EXCEPT !.at = "sent", !.kind = "redirect",
                                        !.again = TRUE]
          ELSE Idle]

-----------------------------------------------------------------------------

CallStep(c) ==
    \/ LoginServe(c) \/ LoginOk(c)
    \/ CallServe(c) \/ CallOk(c) \/ CallRefused(c) \/ CallRefusedTwice(c)
    \/ CallSignsOut(c) \/ CallLost(c)
    \/ RefreshFind(c) \/ RefreshRotate(c) \/ RefreshOk(c) \/ RefreshLost(c)

Next ==
    \/ \E screen \in Screens : Navigate(screen)
    \/ TripCallback
    \/ StreamError \/ StreamRetry
    \/ UserLogout
    \/ \E n \in Pairs : ByeServe(n) \/ ExpireAccess(n)
    \/ \E c \in Calls : CallStart(c) \/ CallStep(c)
    \/ \E c \in Calls, u \in Users : LoginSubmit(c, u) \/ OAuthReturn(c, u)
    \/ \E u \in Users : Revoke(u)
    \/ Reload

Spec == Init /\ [][Next]_vars

-----------------------------------------------------------------------------
(* Properties                                                              *)

\* The server runs a call's operation at most once, whatever the client does
\* about a 401: only a refused call is sent again (app.js:84-86), never one whose
\* answer was lost.
RunsAtMostOnce == \A c \in Calls : call[c].ran <= 1

\* Every interval that runs is one the client can still stop, although
\* the callbacks that start them run after the screen has changed (app.js:2566).
NoOrphanTimer ==
    timer.running = IF timer.held THEN 1 ELSE 0

\* The event stream is open for the user who is signed in and for nobody else,
\* although a retry of the stream opens it by the token alone (app.js:907-910).
StreamIsOwn ==
    Orderly /\ stream.open # 0 =>
        store.auth /\ token[stream.open].user = store.user

\* While signed in the client holds the token the server's session has, unless a
\* refresh is on its way, its answer was lost, or the session was revoked: the
\* user is never signed out of a session that is still good (app.js:84-87).
ClientHoldsSession ==
    Orderly /\ store.auth /\ kept \notin lost =>
        token[kept].live \/ \E c \in Calls : Refreshing(c)

\* How far a call still is from its end.
Distance(k) ==
    CASE k.at = "idle" -> 0
      [] k.at \in {"ok", "refresh_refused"} -> 1
      [] k.at = "refresh_ok" -> 3
      [] k.at = "refresh_found" -> 4
      [] k.at = "refresh_sent" -> 5
      [] k.at = "refused" -> IF k.again THEN 1 ELSE 6
      [] k.at = "sent" -> IF k.again THEN 2 ELSE 7

\* A call comes to an end after at most seven steps, whatever else is in
\* flight: every step of a call brings it nearer to its end, so no chain of
\* refusals and refreshes goes round (app.js:83-88 refreshes with skipRefresh).
CallsMoveOn ==
    [][\A c \in Calls :
          \/ call'[c] = call[c]
          \/ call[c].at = "idle"
          \/ Distance(call'[c]) < Distance(call[c])]_vars

=============================================================================
