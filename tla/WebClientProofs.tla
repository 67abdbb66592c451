---------------------------- MODULE WebClientProofs ----------------------------
(***************************************************************************)
(* What holds of one tab of the web client for any number of users, calls  *)
(* and token pairs (WebClient.tla).                                        *)
(*                                                                         *)
(* Typed carries the types, and the two facts they rest on: a running      *)
(* interval has a handle, and a refresh on its way has a pair.  Owned says *)
(* whose pairs the client holds, Held which of them the server accepts;    *)
(* both are about an orderly device.                                       *)
(***************************************************************************)
EXTENDS WebClient, TLAPS

-----------------------------------------------------------------------------
(* Types                                                                   *)

Timers == {[running |-> 0, held |-> FALSE], [running |-> 1, held |-> TRUE]}
Asking == {"refresh_sent", "refresh_found", "refresh_ok"}

Typed ==
    /\ TypeOK
    /\ timer \in Timers
    /\ \A c \in Calls : call[c].at \in Asking => call[c].pair # 0

LEMMA IdleOK ==
    /\ Idle \in Call
    /\ Idle.at = "idle" /\ Idle.kind = "call" /\ Idle.pair = 0
    /\ Idle.ran = 0 /\ Idle.again = FALSE
    /\ Idle.user \in Users
  <1>1. (CHOOSE u \in Users : TRUE) \in Users
    BY WebClientAssumption
  <1>2. 0 \in 0..MaxPairs
    BY WebClientAssumption
  <1>3. QED
    BY <1>1, <1>2 DEF Idle, Free, Call, Steps, Kinds

LEMMA FreeOK ==
  ASSUME NEW u \in Users
  PROVE  /\ Free(u) \in Call
         /\ Free(u).at = "idle" /\ Free(u).user = u /\ Free(u).pair = 0
         /\ Free(u).ran = 0
  BY WebClientAssumption DEF Free, Call, Steps, Kinds

LEMMA TimersStop ==
  ASSUME timer \in Timers
  PROVE  StopTimer \in Timers /\ StartPoll \in Timers /\ Stopped \in Timers
  <1>1. CASE timer = [running |-> 0, held |-> FALSE]
    BY <1>1 DEF Timers, StopTimer, StartPoll, Stopped
  <1>2. CASE timer = [running |-> 1, held |-> TRUE]
    <2>1. timer.held /\ timer.running = 1
      BY <1>2
    <2>2. StopTimer = [running |-> 0, held |-> FALSE]
      BY <2>1 DEF StopTimer
    <2>3. StartPoll = [running |-> 1, held |-> TRUE]
      BY <2>2 DEF StartPoll
    <2>4. QED
      BY <2>2, <2>3 DEF Timers, Stopped
  <1>3. QED
    BY <1>1, <1>2 DEF Timers

LEMMA RenderKeeps ==
  ASSUME timer \in Timers, late \in BOOLEAN, NEW screen, Render(screen)
  PROVE  timer' \in Timers /\ late' \in BOOLEAN
  BY TimersStop DEF Render

LEMMA TimersTyped == Timers \subseteq [running : Nat, held : BOOLEAN]
  BY DEF Timers

LEMMA TypedInit == Init => Typed
  <1> SUFFICES ASSUME Init PROVE Typed
    OBVIOUS
  <1> USE IdleOK DEF Init
  <1>1. timer \in Timers /\ timer \in [running : Nat, held : BOOLEAN]
    BY DEF Stopped, Timers
  <1>2. call \in [Calls -> Call]
    OBVIOUS
  <1>3. \A c \in Calls : call[c].at \in Asking => call[c].pair # 0
    BY DEF Asking
  <1>4. TypeOK
    <2>1. token \in [Pairs -> [user : Users, fresh : BOOLEAN, live : BOOLEAN]]
      OBVIOUS
    <2>2. issued \in 0..MaxPairs /\ kept \in 0..MaxPairs
      BY WebClientAssumption
    <2>3. stream \in [open : 0..MaxPairs, retry : BOOLEAN]
      BY <2>2
    <2>4. store \in [auth : BOOLEAN, user : Users, screen : Screens]
      BY DEF Screens
    <2>5. QED
      BY <1>1, <1>2, <2>1, <2>2, <2>3, <2>4 DEF TypeOK
  <1>5. QED
    BY <1>1, <1>3, <1>4 DEF Typed

\* What the client keeps on the screen's side, what the server keeps, the calls.
ClientOK ==
    /\ kept \in 0..MaxPairs
    /\ store \in [auth : BOOLEAN, user : Users, screen : Screens]
    /\ bye \subseteq Pairs
    /\ stream \in [open : 0..MaxPairs, retry : BOOLEAN]
    /\ late \in BOOLEAN
    /\ timer \in Timers

ServerOK ==
    /\ token \in [Pairs -> [user : Users, fresh : BOOLEAN, live : BOOLEAN]]
    /\ issued \in 0..MaxPairs
    /\ lost \subseteq Pairs

CallsOK ==
    /\ call \in [Calls -> Call]
    /\ \A c \in Calls : call[c].at \in Asking => call[c].pair # 0

LEMMA TypedIs == Typed <=> ClientOK /\ ServerOK /\ CallsOK
  BY TimersTyped DEF Typed, TypeOK, ClientOK, ServerOK, CallsOK

LEMMA CallOf ==
  ASSUME CallsOK, NEW c \in Calls
  PROVE  /\ call[c] \in Call
         /\ call[c].at \in Steps /\ call[c].kind \in Kinds /\ call[c].user \in Users
         /\ call[c].pair \in 0..MaxPairs /\ call[c].again \in BOOLEAN
         /\ call[c].ran \in Nat
         /\ call[c].at \in Asking => call[c].pair \in Pairs
  <1>1. call[c] \in Call
    BY DEF CallsOK
  <1>2. call[c].at \in Asking => call[c].pair # 0
    BY DEF CallsOK
  <1>3. QED
    BY <1>1, <1>2, WebClientAssumption DEF Call, Pairs

LEMMA StepNames ==
  /\ "idle" \in Steps /\ "sent" \in Steps /\ "ok" \in Steps /\ "refused" \in Steps
  /\ "refresh_sent" \in Steps /\ "refresh_found" \in Steps
  /\ "refresh_ok" \in Steps /\ "refresh_refused" \in Steps
  BY DEF Steps, RefreshSteps

\* One call changes.
LEMMA CallChanges ==
  ASSUME CallsOK, NEW c \in Calls, NEW k \in Call, call' = [call EXCEPT ![c] = k],
         k.at \in Asking => k.pair # 0
  PROVE  CallsOK'
  BY DEF CallsOK

-----------------------------------------------------------------------------
(* The screens                                                             *)

LEMMA FollowOK ==
  ASSUME ClientOK, NEW auth \in BOOLEAN
  PROVE  Follow(auth) \in [open : 0..MaxPairs, retry : BOOLEAN]
  BY WebClientAssumption DEF ClientOK, Follow, Connect

LEMMA ShowKeeps ==
  ASSUME ClientOK, NEW screen \in Screens, Show(screen), UNCHANGED <<kept, bye>>
  PROVE  ClientOK'
  <1>1. timer' \in Timers /\ late' \in BOOLEAN
    BY RenderKeeps DEF ClientOK, Show
  <1>2. stream' \in [open : 0..MaxPairs, retry : BOOLEAN]
    BY FollowOK DEF ClientOK, Show
  <1>3. QED
    BY <1>1, <1>2 DEF ClientOK, Show

LEMMA SignOutKeeps ==
  ASSUME ClientOK, SignOut
  PROVE  ClientOK'
  <1>1. timer' \in Timers /\ late' \in BOOLEAN
    BY RenderKeeps DEF ClientOK, SignOut
  <1>2. kept' \in 0..MaxPairs /\ bye' \subseteq Pairs
    BY WebClientAssumption DEF ClientOK, SignOut, Pairs
  <1>3. stream' \in [open : 0..MaxPairs, retry : BOOLEAN]
    BY WebClientAssumption DEF ClientOK, SignOut
  <1>4. QED
    BY <1>1, <1>2, <1>3, IdleOK DEF ClientOK, SignOut, Screens

LEMMA FailsKeeps ==
  ASSUME ClientOK, CallsOK, NEW c \in Calls, Fails(c), UNCHANGED <<kept, bye>>
  PROVE  ClientOK' /\ CallsOK'
  <1>1. CallsOK'
    BY CallChanges, IdleOK DEF Fails, Asking
  <1>2. CASE call[c].kind = "redirect"
    <2>1. Show("login")
      BY <1>2 DEF Fails
    <2>2. QED
      BY <2>1, <1>1, ShowKeeps DEF Screens
  <1>3. CASE call[c].kind = "login"
    <2>1. stream' = Follow(store.auth) /\ UNCHANGED <<store, late, timer>>
      BY <1>3 DEF Fails
    <2>2. store.auth \in BOOLEAN
      BY DEF ClientOK
    <2>3. QED
      BY <2>1, <2>2, <1>1, FollowOK DEF ClientOK
  <1>4. CASE call[c].kind \notin {"redirect", "login"}
    <2>1. UNCHANGED <<store, stream, late, timer>>
      BY <1>4 DEF Fails
    <2>2. QED
      BY <2>1, <1>1 DEF ClientOK
  <1>5. QED
    BY <1>2, <1>3, <1>4

LEMMA IssueKeeps ==
  ASSUME ServerOK, NEW u \in Users, NEW alive \in BOOLEAN,
         NEW accepted \in [Pairs -> [user : Users, fresh : BOOLEAN, live : BOOLEAN]],
         Issue(u, accepted, alive)
  PROVE  /\ token' \in [Pairs -> [user : Users, fresh : BOOLEAN, live : BOOLEAN]]
         /\ issued' \in 0..MaxPairs
         /\ issued' \in Pairs
  <1>1. issued + 1 \in Pairs /\ issued + 1 \in 0..MaxPairs
    BY WebClientAssumption DEF Issue, ServerOK, Pairs
  <1>2. QED
    BY <1>1 DEF Issue

LEMMA LoadKeeps ==
  ASSUME ClientOK, ServerOK, Load
  PROVE  ClientOK' /\ ServerOK'
  <1>1. kept # 0 => kept \in Pairs
    BY WebClientAssumption DEF ClientOK, Pairs
  <1>2. kept # 0 => token[kept].user \in Users
    BY <1>1 DEF ServerOK
  <1>3. store' \in [auth : BOOLEAN, user : Users, screen : Screens]
    BY <1>2, IdleOK DEF Load, ClientOK, Screens
  <1>4. stream' \in [open : 0..MaxPairs, retry : BOOLEAN]
    BY DEF Load, ClientOK
  <1>5. late' \in BOOLEAN /\ timer' \in Timers
    BY DEF Load, Timers, Stopped
  <1>6. lost' \subseteq Pairs
    BY <1>1 DEF Load, ServerOK
  <1>7. QED
    BY <1>3, <1>4, <1>5, <1>6 DEF Load, ClientOK, ServerOK

-----------------------------------------------------------------------------
(* Every step keeps the types                                              *)

LEMMA ScreensTyped ==
  ASSUME ClientOK, ServerOK, CallsOK,
         \/ \E screen \in Screens : Navigate(screen)
         \/ TripCallback \/ StreamError \/ StreamRetry \/ UserLogout \/ Reload
  PROVE  ClientOK' /\ ServerOK' /\ CallsOK'
  <1>1. CASE \E screen \in Screens : Navigate(screen)
    BY <1>1, ShowKeeps DEF Navigate, ServerOK, CallsOK
  <1>2. CASE TripCallback
    BY <1>2, TimersStop DEF TripCallback, ClientOK, ServerOK, CallsOK
  <1>3. CASE StreamError
    BY <1>3, WebClientAssumption DEF StreamError, ClientOK, ServerOK, CallsOK
  <1>4. CASE StreamRetry
    BY <1>4 DEF StreamRetry, Connect, ClientOK, ServerOK, CallsOK
  <1>5. CASE UserLogout
    BY <1>5, SignOutKeeps DEF UserLogout, ServerOK, CallsOK
  <1>6. CASE Reload
    <2>1. CallsOK'
      BY <1>6, IdleOK DEF Reload, CallsOK, Asking
    <2>2. QED
      BY <1>6, <2>1, LoadKeeps DEF Reload
  <1>7. QED
    BY <1>1, <1>2, <1>3, <1>4, <1>5, <1>6

LEMMA ServerTyped ==
  ASSUME ClientOK, ServerOK, CallsOK,
         \/ \E n \in Pairs : ByeServe(n) \/ ExpireAccess(n)
         \/ \E u \in Users : Revoke(u)
  PROVE  ClientOK' /\ ServerOK' /\ CallsOK'
  <1>1. CASE \E n \in Pairs : ByeServe(n)
    <2>1. PICK n \in Pairs : ByeServe(n)
      BY <1>1
    <2>2. (token[n].live /\ ~token[n].fresh) \in BOOLEAN
      BY DEF ServerOK
    <2>3. token' \in [Pairs -> [user : Users, fresh : BOOLEAN, live : BOOLEAN]]
      BY <2>1, <2>2 DEF ByeServe, ServerOK
    <2>4. bye' \subseteq Pairs
      BY <2>1 DEF ByeServe, ClientOK
    <2>5. QED
      BY <2>1, <2>3, <2>4 DEF ByeServe, ClientOK, ServerOK, CallsOK
  <1>2. CASE \E n \in Pairs : ExpireAccess(n)
    <2>1. PICK n \in Pairs : ExpireAccess(n)
      BY <1>2
    <2>2. token' \in [Pairs -> [user : Users, fresh : BOOLEAN, live : BOOLEAN]]
      BY <2>1 DEF ExpireAccess, ServerOK
    <2>3. QED
      BY <2>1, <2>2 DEF ExpireAccess, ClientOK, ServerOK, CallsOK
  <1>3. CASE \E u \in Users : Revoke(u)
    <2>1. PICK u \in Users : Revoke(u)
      BY <1>3
    <2>2. \A n \in Pairs : /\ token[n] \in [user : Users, fresh : BOOLEAN, live : BOOLEAN]
                           /\ [token[n] EXCEPT !.live = FALSE]
                                \in [user : Users, fresh : BOOLEAN, live : BOOLEAN]
      BY DEF ServerOK
    <2>3. token' \in [Pairs -> [user : Users, fresh : BOOLEAN, live : BOOLEAN]]
      BY <2>1, <2>2 DEF Revoke
    <2>4. lost' \subseteq Pairs
      BY <2>1 DEF Revoke, ServerOK
    <2>5. QED
      BY <2>1, <2>3, <2>4 DEF Revoke, ClientOK, ServerOK, CallsOK
  <1>4. QED
    BY <1>1, <1>2, <1>3

LEMMA StartsTyped ==
  ASSUME ClientOK, ServerOK, CallsOK, NEW c \in Calls,
         CallStart(c) \/ \E u \in Users : LoginSubmit(c, u) \/ OAuthReturn(c, u)
  PROVE  ClientOK' /\ ServerOK' /\ CallsOK'
  <1>1. CASE CallStart(c)
    <2> DEFINE k == [Idle EXCEPT !.at = "sent", !.pair = kept]
    <2>1. k \in Call /\ k.at = "sent"
      BY IdleOK, StepNames DEF ClientOK, Call
    <2>2. call' = [call EXCEPT ![c] = k]
      BY <1>1 DEF CallStart
    <2>3. CallsOK'
      <3> HIDE DEF k
      <3> QED
        BY <2>1, <2>2, CallChanges DEF Asking
    <2>4. QED
      BY <1>1, <2>3 DEF CallStart, ClientOK, ServerOK
  <1>2. ASSUME NEW u \in Users, LoginSubmit(c, u)
        PROVE  ClientOK' /\ ServerOK' /\ CallsOK'
    <2> DEFINE k == [Free(u) EXCEPT !.at = "sent", !.kind = "login"]
    <2>1. k \in Call /\ k.at = "sent"
      <3>1. \A f \in Call : /\ [f EXCEPT !.at = "sent", !.kind = "login"] \in Call
                           /\ [f EXCEPT !.at = "sent", !.kind = "login"].at = "sent"
        BY StepNames DEF Call, Kinds
      <3>2. Free(u) \in Call
        BY FreeOK
      <3>3. QED
        BY <3>1, <3>2
    <2>2. call' = [call EXCEPT ![c] = k]
      BY <1>2 DEF LoginSubmit
    <2>3. CallsOK'
      <3> HIDE DEF k
      <3> QED
        BY <2>1, <2>2, CallChanges DEF Asking
    <2>4. store.auth \in BOOLEAN
      BY DEF ClientOK
    <2>5. stream' \in [open : 0..MaxPairs, retry : BOOLEAN]
      BY <1>2, <2>4, FollowOK DEF LoginSubmit
    <2>6. QED
      BY <1>2, <2>3, <2>5 DEF LoginSubmit, ClientOK, ServerOK
  <1>3. ASSUME NEW u \in Users, OAuthReturn(c, u)
        PROVE  ClientOK' /\ ServerOK' /\ CallsOK'
    <2> DEFINE k == [Free(u) EXCEPT !.at = "sent", !.kind = "redirect", !.again = TRUE]
    <2>1. k \in Call /\ k.at = "sent"
      <3>1. \A f \in Call : /\ [f EXCEPT !.at = "sent", !.kind = "redirect", !.again = TRUE] \in Call
                           /\ [f EXCEPT !.at = "sent", !.kind = "redirect", !.again = TRUE].at = "sent"
        BY StepNames DEF Call, Kinds
      <3>2. Free(u) \in Call
        BY FreeOK
      <3>3. QED
        BY <3>1, <3>2
    <2>2. call' = [d \in Calls |-> IF d = c THEN k ELSE Idle]
      BY <1>3 DEF OAuthReturn
    <2>3. CallsOK'
      <3> HIDE DEF k
      <3> QED
        BY <2>1, <2>2, IdleOK DEF CallsOK, Asking
    <2>4. QED
      BY <1>3, <2>3, LoadKeeps DEF OAuthReturn
  <1>4. QED
    BY <1>1, <1>2, <1>3

\* Steps of a call that change nothing else.
Quiet == UNCHANGED <<token, issued, kept, store, bye, stream, late, timer, lost>>

LEMMA QuietKeeps == ASSUME ClientOK, ServerOK, Quiet PROVE ClientOK' /\ ServerOK'
  BY DEF Quiet, ClientOK, ServerOK

LEMMA QuietSteps ==
  ASSUME ClientOK, ServerOK, CallsOK, NEW c \in Calls,
         \/ CallServe(c) \/ CallOk(c) \/ CallRefused(c) \/ RefreshFind(c) \/ RefreshLost(c)
  PROVE  Quiet /\ CallsOK'
  <1>0. call \in [Calls -> Call]
    BY DEF CallsOK
  <1> USE CallOf, CallChanges DEF Asking, Quiet
  <1>1. CASE CallServe(c)
    <2> DEFINE k == [call[c] EXCEPT
          !.at = IF Accepts(call[c].pair) THEN "ok" ELSE "refused",
          !.ran = IF Accepts(call[c].pair) THEN @ + 1 ELSE @,
          !.pair = 0]
    <2>1. k \in Call /\ k.at \in {"ok", "refused"}
      <3>1. 0 \in 0..MaxPairs /\ call[c].ran + 1 \in Nat
        BY WebClientAssumption
      <3>2. QED
        BY <3>1, StepNames DEF Call
    <2>2. call' = [call EXCEPT ![c] = k]
      BY <1>0, <1>1 DEF CallServe
    <2>3. CallsOK'
      <3> HIDE DEF k
      <3> QED
        BY <2>1, <2>2
    <2>4. QED
      BY <1>1, <2>3 DEF CallServe
  <1>2. CASE CallOk(c)
    BY <1>2, IdleOK DEF CallOk
  <1>3. CASE CallRefused(c)
    <2> DEFINE k == [call[c] EXCEPT !.at = "refresh_sent", !.pair = kept]
    <2>1. k \in Call /\ k.pair # 0
      BY <1>3, StepNames DEF CallRefused, ClientOK, Call
    <2>2. call' = [call EXCEPT ![c] = k]
      BY <1>0, <1>3 DEF CallRefused
    <2>3. CallsOK'
      <3> HIDE DEF k
      <3> QED
        BY <2>1, <2>2
    <2>4. QED
      BY <1>3, <2>3 DEF CallRefused
  <1>4. CASE RefreshFind(c)
    <2> DEFINE k == [call[c] EXCEPT
          !.at = IF token[call[c].pair].live THEN "refresh_found" ELSE "refresh_refused",
          !.pair = IF token[call[c].pair].live THEN @ ELSE 0]
    <2>1. k \in Call /\ (k.at \in Asking => k.pair # 0)
      <3>1. call[c].pair \in Pairs
        BY <1>4 DEF RefreshFind
      <3>2. 0 \in 0..MaxPairs /\ call[c].pair # 0
        BY <3>1, WebClientAssumption DEF Pairs
      <3>3. CASE token[call[c].pair].live
        <4>1. k = [call[c] EXCEPT !.at = "refresh_found", !.pair = call[c].pair]
          BY <3>3
        <4>2. QED
          BY <4>1, <3>2, StepNames DEF Call
      <3>4. CASE ~token[call[c].pair].live
        <4>1. k = [call[c] EXCEPT !.at = "refresh_refused", !.pair = 0]
          BY <3>4
        <4>2. QED
          BY <4>1, <3>2, StepNames DEF Call
      <3>5. QED
        BY <3>3, <3>4
    <2>2. call' = [call EXCEPT ![c] = k]
      BY <1>0, <1>4 DEF RefreshFind
    <2>3. CallsOK'
      <3> HIDE DEF k
      <3> QED
        BY <2>1, <2>2
    <2>4. QED
      BY <1>4, <2>3 DEF RefreshFind
  <1>5. CASE RefreshLost(c)
    <2> DEFINE k == [call[c] EXCEPT !.at = "refresh_refused", !.pair = 0]
    <2>1. k \in Call /\ k.at = "refresh_refused"
      <3>1. 0 \in 0..MaxPairs
        BY WebClientAssumption
      <3>2. QED
        BY <3>1, StepNames DEF Call
    <2>2. call' = [call EXCEPT ![c] = k]
      BY <1>0, <1>5 DEF RefreshLost
    <2>3. CallsOK'
      <3> HIDE DEF k
      <3> QED
        BY <2>1, <2>2
    <2>4. QED
      BY <1>5, <2>3 DEF RefreshLost
  <1>6. QED
    BY <1>1, <1>2, <1>3, <1>4, <1>5

LEMMA LoudSteps ==
  ASSUME ClientOK, ServerOK, CallsOK, NEW c \in Calls,
         \/ LoginServe(c) \/ LoginOk(c) \/ CallRefusedTwice(c) \/ CallSignsOut(c)
         \/ CallLost(c) \/ RefreshRotate(c) \/ RefreshOk(c)
  PROVE  ClientOK' /\ ServerOK' /\ CallsOK'
  <1>0. call \in [Calls -> Call]
    BY DEF CallsOK
  <1>1. CASE LoginServe(c)
    <2>1. CASE Issue(call[c].user, token, TRUE)
               /\ call' = [call EXCEPT ![c].at = "ok", ![c].pair = issued + 1]
      <3> DEFINE k == [call[c] EXCEPT !.at = "ok", !.pair = issued + 1]
      <3>1. ServerOK' /\ issued + 1 \in 0..MaxPairs
        BY <1>1, <2>1, IssueKeeps, CallOf DEF LoginServe, ServerOK, Issue
      <3>2. k \in Call /\ k.at = "ok"
        BY <3>1, CallOf, StepNames DEF Call
      <3>3. call' = [call EXCEPT ![c] = k]
        BY <1>0, <2>1
      <3>4. CallsOK'
        <4> HIDE DEF k
        <4> QED
          BY <3>2, <3>3, CallChanges DEF Asking
      <3>5. QED
        BY <1>1, <3>1, <3>4 DEF LoginServe, ClientOK
    <2>2. CASE call' = [call EXCEPT ![c].at = "refused"] /\ UNCHANGED <<token, issued>>
      <3> DEFINE k == [call[c] EXCEPT !.at = "refused"]
      <3>1. k \in Call /\ k.at = "refused"
        BY CallOf, StepNames DEF Call
      <3>2. call' = [call EXCEPT ![c] = k]
        BY <1>0, <2>2
      <3>3. CallsOK'
        <4> HIDE DEF k
        <4> QED
          BY <3>1, <3>2, CallChanges DEF Asking
      <3>4. QED
        BY <1>1, <2>2, <3>3 DEF LoginServe, ClientOK, ServerOK
    <2>3. QED
      BY <1>1, <2>1, <2>2 DEF LoginServe
  <1>2. CASE LoginOk(c)
    <2>1. CallsOK'
      BY <1>2, IdleOK, CallChanges DEF LoginOk, Asking
    <2>2. timer' \in Timers /\ late' \in BOOLEAN
      BY <1>2, RenderKeeps DEF LoginOk, ClientOK
    <2>3. call[c].pair \in 0..MaxPairs /\ call[c].user \in Users
      BY CallOf
    <2>4. stream' \in [open : 0..MaxPairs, retry : BOOLEAN]
      BY <1>2, <2>3 DEF LoginOk, ClientOK
    <2>5. store' \in [auth : BOOLEAN, user : Users, screen : Screens]
      BY <1>2, <2>3 DEF LoginOk, ClientOK, Screens
    <2>6. QED
      BY <1>2, <2>1, <2>2, <2>3, <2>4, <2>5 DEF LoginOk, ClientOK, ServerOK
  <1>3. CASE CallRefusedTwice(c)
    BY <1>3, FailsKeeps DEF CallRefusedTwice, ServerOK
  <1>4. CASE CallSignsOut(c)
    BY <1>4, SignOutKeeps, CallChanges, IdleOK DEF CallSignsOut, ServerOK, Asking
  <1>5. CASE CallLost(c)
    BY <1>5, FailsKeeps DEF CallLost, ServerOK
  <1>6. CASE RefreshRotate(c)
    <2> DEFINE n == call[c].pair
               k == [call[c] EXCEPT !.at = "refresh_ok", !.pair = issued + 1]
    <2>1. n \in Pairs
      BY <1>6, CallOf DEF RefreshRotate, Asking
    <2>2. /\ token[n].user \in Users /\ token[n].live \in BOOLEAN
          /\ [token EXCEPT ![n].live = FALSE]
               \in [Pairs -> [user : Users, fresh : BOOLEAN, live : BOOLEAN]]
      BY <2>1 DEF ServerOK
    <2>3. Issue(token[n].user, [token EXCEPT ![n].live = FALSE], token[n].live)
      BY <1>6 DEF RefreshRotate, Rotate
    <2>4. /\ token' \in [Pairs -> [user : Users, fresh : BOOLEAN, live : BOOLEAN]]
          /\ issued' \in 0..MaxPairs /\ issued' \in Pairs /\ issued' = issued + 1
      BY <2>2, <2>3, IssueKeeps DEF Issue
    <2>5. lost' \subseteq Pairs
      BY <1>6, <2>4 DEF RefreshRotate, Rotate, ServerOK
    <2>6. k \in Call /\ k.pair # 0
      <3>1. issued + 1 # 0 /\ issued + 1 \in 0..MaxPairs
        BY <2>4, WebClientAssumption DEF Pairs
      <3>2. QED
        BY <3>1, CallOf, StepNames DEF Call
    <2>7. call' = [call EXCEPT ![c] = k]
      BY <1>0, <1>6 DEF RefreshRotate
    <2>8. CallsOK'
      <3> HIDE DEF k
      <3> QED
        BY <2>6, <2>7, CallChanges
    <2>9. QED
      BY <1>6, <2>4, <2>5, <2>8 DEF RefreshRotate, ClientOK, ServerOK
  <1>7. CASE RefreshOk(c)
    <2> DEFINE k == [call[c] EXCEPT !.at = "sent", !.again = TRUE,
                        !.pair = IF call[c].kind = "call" THEN @ ELSE 0]
    <2>1. k \in Call /\ k.at = "sent"
      <3>1. 0 \in 0..MaxPairs
        BY WebClientAssumption
      <3>2. QED
        BY <3>1, CallOf, StepNames DEF Call
    <2>2. call' = [call EXCEPT ![c] = k]
      BY <1>0, <1>7 DEF RefreshOk
    <2>3. CallsOK'
      <3> HIDE DEF k
      <3> QED
        BY <2>1, <2>2, CallChanges DEF Asking
    <2>4. QED
      BY <1>7, <2>3, CallOf DEF RefreshOk, ClientOK, ServerOK
  <1>8. QED
    BY <1>1, <1>2, <1>3, <1>4, <1>5, <1>6, <1>7

LEMMA PartsNext ==
  ASSUME Typed, [Next]_vars
  PROVE  ClientOK' /\ ServerOK' /\ CallsOK'
  <1>0. ClientOK /\ ServerOK /\ CallsOK
    BY TypedIs
  <1>1. CASE UNCHANGED vars
    BY <1>0, <1>1 DEF vars, ClientOK, ServerOK, CallsOK
  <1>2. ASSUME NEW c \in Calls, CallStep(c)
        PROVE  ClientOK' /\ ServerOK' /\ CallsOK'
    BY <1>0, <1>2, QuietSteps, QuietKeeps, LoudSteps DEF CallStep
  <1>3. QED
    BY <1>0, <1>1, <1>2, ScreensTyped, ServerTyped, StartsTyped DEF Next

LEMMA TypedNext == Typed /\ [Next]_vars => Typed'
  <1>1. ClientOK' /\ ServerOK' /\ CallsOK' => Typed'
    BY TimersTyped DEF Typed, TypeOK, ClientOK, ServerOK, CallsOK
  <1>2. QED
    BY <1>1, PartsNext

\* Every reachable state is well typed, for any number of users, calls and pairs.
THEOREM TypeCorrect == Spec => []TypeOK
  <1>1. Typed => TypeOK
    BY DEF Typed
  <1>2. QED
    BY <1>1, TypedInit, TypedNext, PTL DEF Spec

\* Every interval that runs can still be stopped, whatever screens were left and
\* whatever callbacks came late (app.js:2566).
THEOREM NoTimerLeftBehind == Spec => []NoOrphanTimer
  <1>1. Typed => NoOrphanTimer
    BY DEF Typed, Timers, NoOrphanTimer
  <1>2. QED
    BY <1>1, TypedInit, TypedNext, PTL DEF Spec

-----------------------------------------------------------------------------
(* The life of one call                                                    *)

\* How a call that is under way goes on.
Moves(k, m) ==
    \/ /\ k.at = "sent" /\ m.at = "ok"
       /\ m.again = k.again /\ m.ran \in {k.ran, k.ran + 1}
    \/ /\ k.at = "sent" /\ m.at = "refused"
       /\ m.again = k.again /\ m.ran = k.ran
    \/ /\ k.at = "refused" /\ ~k.again /\ m.at = "refresh_sent"
       /\ m.ran = k.ran
    \/ /\ k.at = "refresh_sent" /\ m.at = "refresh_found"
       /\ m.ran = k.ran
    \/ /\ k.at = "refresh_found" /\ m.at = "refresh_ok"
       /\ m.ran = k.ran
    \/ /\ k.at \in Asking /\ m.at = "refresh_refused"
       /\ m.ran = k.ran
    \/ /\ k.at = "refresh_ok" /\ m.at = "sent" /\ m.again
       /\ m.ran = k.ran

\* A step leaves a call alone, starts it, ends it or moves it on.
Lives(d) ==
    \/ call'[d] = call[d]
    \/ call[d].at = "idle" /\ call'[d].ran = 0
    \/ call'[d] = Idle
    \/ Moves(call[d], call'[d])

LEMMA StartLives ==
  ASSUME CallsOK, NEW c \in Calls, NEW d \in Calls,
         CallStart(c) \/ \E u \in Users : LoginSubmit(c, u) \/ OAuthReturn(c, u)
  PROVE  Lives(d)
  <1>1. CASE CallStart(c)
    <2>1. [Idle EXCEPT !.at = "sent", !.pair = kept].ran = 0
      BY IdleOK
    <2>2. QED
      BY <1>1, <2>1 DEF CallStart, CallsOK, Lives
  <1>2. ASSUME NEW u \in Users, LoginSubmit(c, u) PROVE Lives(d)
    <2>1. \A f \in Call : [f EXCEPT !.at = "sent", !.kind = "login"].ran = f.ran
      BY DEF Call
    <2>2. [Free(u) EXCEPT !.at = "sent", !.kind = "login"].ran = 0
      BY <2>1, FreeOK
    <2>3. QED
      BY <1>2, <2>2 DEF LoginSubmit, CallsOK, Lives
  <1>3. ASSUME NEW u \in Users, OAuthReturn(c, u) PROVE Lives(d)
    <2>1. \A f \in Call :
             [f EXCEPT !.at = "sent", !.kind = "redirect", !.again = TRUE].ran = f.ran
      BY DEF Call
    <2>2. [Free(u) EXCEPT !.at = "sent", !.kind = "redirect", !.again = TRUE].ran = 0
      BY <2>1, FreeOK
    <2>3. QED
      BY <1>3, <2>2 DEF OAuthReturn, CallsOK, Lives
  <1>4. QED
    BY <1>1, <1>2, <1>3

LEMMA StepLives ==
  ASSUME CallsOK, NEW c \in Calls, NEW d \in Calls, CallStep(c)
  PROVE  Lives(d)
  <1> USE CallOf DEF CallsOK, Lives
  <1>1. CASE LoginServe(c)
    <2>1. CASE call' = [call EXCEPT ![c].at = "ok", ![c].pair = issued + 1]
      BY <1>1, <2>1 DEF LoginServe, Moves, Call
    <2>2. CASE call' = [call EXCEPT ![c].at = "refused"]
      BY <1>1, <2>2 DEF LoginServe, Moves, Call
    <2>3. QED
      BY <1>1, <2>1, <2>2 DEF LoginServe
  <1>2. CASE LoginOk(c)
    BY <1>2 DEF LoginOk
  <1>3. CASE CallServe(c)
    BY <1>3 DEF CallServe, Moves, Call
  <1>4. CASE CallOk(c)
    BY <1>4 DEF CallOk
  <1>5. CASE CallRefused(c)
    BY <1>5 DEF CallRefused, Moves, Call
  <1>6. CASE CallRefusedTwice(c)
    BY <1>6 DEF CallRefusedTwice, Fails
  <1>7. CASE CallSignsOut(c)
    BY <1>7 DEF CallSignsOut
  <1>8. CASE CallLost(c)
    BY <1>8 DEF CallLost, Fails
  <1>9. CASE RefreshFind(c)
    BY <1>9 DEF RefreshFind, Moves, Call, Asking
  <1>10. CASE RefreshRotate(c)
    BY <1>10 DEF RefreshRotate, Moves, Call
  <1>11. CASE RefreshOk(c)
    BY <1>11 DEF RefreshOk, Moves, Call
  <1>12. CASE RefreshLost(c)
    BY <1>12 DEF RefreshLost, Moves, Call, Asking
  <1>13. QED
    BY <1>1, <1>2, <1>3, <1>4, <1>5, <1>6, <1>7, <1>8, <1>9, <1>10, <1>11, <1>12
       DEF CallStep

LEMMA AllLive ==
  ASSUME Typed, [Next]_vars, NEW d \in Calls
  PROVE  Lives(d)
  <1>0. CallsOK
    BY TypedIs
  <1>1. CASE UNCHANGED call
    BY <1>1 DEF Lives
  <1>2. CASE \E c \in Calls : CallStart(c) \/ CallStep(c)
    BY <1>0, <1>2, StartLives, StepLives
  <1>3. CASE \E c \in Calls, u \in Users : LoginSubmit(c, u) \/ OAuthReturn(c, u)
    BY <1>0, <1>3, StartLives
  <1>4. CASE Reload
    BY <1>4 DEF Reload, Lives
  <1>5. CASE \/ \E screen \in Screens : Navigate(screen)
             \/ TripCallback \/ StreamError \/ StreamRetry \/ UserLogout
             \/ \E n \in Pairs : ByeServe(n) \/ ExpireAccess(n)
             \/ \E u \in Users : Revoke(u)
    BY <1>1, <1>5 DEF Navigate, TripCallback, StreamError, StreamRetry, UserLogout, ByeServe,
                 ExpireAccess, Revoke
  <1>6. QED
    BY <1>1, <1>2, <1>3, <1>4, <1>5 DEF Next, vars

\* Only an answered call has run.
Runs == \A c \in Calls : call[c].ran <= 1 /\ (call[c].at # "ok" => call[c].ran = 0)

LEMMA RunsNext == Typed /\ Runs /\ [Next]_vars => Runs'
  <1> SUFFICES ASSUME Typed, Runs, [Next]_vars, NEW d \in Calls
               PROVE  call'[d].ran <= 1 /\ (call'[d].at # "ok" => call'[d].ran = 0)
    BY DEF Runs
  <1>1. Lives(d)
    BY AllLive
  <1>2. call[d].ran <= 1 /\ (call[d].at # "ok" => call[d].ran = 0)
    BY DEF Runs
  <1>3. CASE call'[d] = call[d]
    BY <1>2, <1>3
  <1>4. CASE call[d].at = "idle" /\ call'[d].ran = 0
    BY <1>4
  <1>5. CASE call'[d] = Idle
    BY <1>5, IdleOK
  <1>6. CASE Moves(call[d], call'[d])
    BY <1>2, <1>6 DEF Moves, Asking
  <1>7. QED
    BY <1>1, <1>3, <1>4, <1>5, <1>6 DEF Lives

\* The server runs a call's operation at most once, for any number of calls in
\* flight, refreshes, lost answers and reloads (app.js:84-86).
THEOREM NoCallRunsTwice == Spec => []RunsAtMostOnce
  <1>1. Init => Typed /\ Runs
    BY TypedInit, IdleOK DEF Init, Runs
  <1>2. Typed /\ Runs => RunsAtMostOnce
    BY DEF Runs, RunsAtMostOnce
  <1>3. QED
    BY <1>1, <1>2, TypedNext, RunsNext, PTL DEF Spec

LEMMA MovesNearer ==
  ASSUME NEW k \in Call, NEW m \in Call, Moves(k, m)
  PROVE  Distance(m) < Distance(k)
  <1> USE DEF Distance
  <1>1. CASE k.at = "sent" /\ m.at = "ok" /\ m.again = k.again
    BY <1>1
  <1>2. CASE k.at = "sent" /\ m.at = "refused" /\ m.again = k.again
    <2>1. CASE k.again
      BY <1>2, <2>1
    <2>2. CASE ~k.again
      BY <1>2, <2>2
    <2>3. QED
      BY <2>1, <2>2
  <1>3. CASE k.at = "refused" /\ ~k.again /\ m.at = "refresh_sent"
    BY <1>3
  <1>4. CASE k.at = "refresh_sent" /\ m.at = "refresh_found"
    BY <1>4
  <1>5. CASE k.at = "refresh_found" /\ m.at = "refresh_ok"
    BY <1>5
  <1>6. CASE k.at \in Asking /\ m.at = "refresh_refused"
    BY <1>6 DEF Asking
  <1>7. CASE k.at = "refresh_ok" /\ m.at = "sent" /\ m.again
    BY <1>7
  <1>8. QED
    BY <1>1, <1>2, <1>3, <1>4, <1>5, <1>6, <1>7 DEF Moves

LEMMA CallsNearer == Typed /\ Typed' /\ [Next]_vars =>
    \A c \in Calls : \/ call'[c] = call[c]
                     \/ call[c].at = "idle"
                     \/ Distance(call'[c]) < Distance(call[c])
  <1> SUFFICES ASSUME Typed, Typed', [Next]_vars, NEW c \in Calls
               PROVE  \/ call'[c] = call[c]
                      \/ call[c].at = "idle"
                      \/ Distance(call'[c]) < Distance(call[c])
    OBVIOUS
  <1>1. Lives(c)
    BY AllLive
  <1>2. call[c] \in Call /\ call'[c] \in Call
    BY DEF Typed, TypeOK
  <1>3. \A k \in Call : Distance(k) \in Nat /\ (k.at # "idle" => Distance(k) > 0)
    BY DEF Distance, Call, Steps, RefreshSteps
  <1>4. Distance(Idle) = 0
    BY IdleOK DEF Distance
  <1>5. QED
    BY <1>1, <1>2, <1>3, <1>4, MovesNearer DEF Lives

\* Every step of a call brings it nearer to its end: no chain of refusals and
\* refreshes goes round, whatever else is in flight (app.js:83-88).
THEOREM CallsEnd == Spec => CallsMoveOn
  <1>1. Typed /\ Typed' /\ [Next]_vars
        => [\A c \in Calls : \/ call'[c] = call[c]
                             \/ call[c].at = "idle"
                             \/ Distance(call'[c]) < Distance(call[c])]_vars
    BY CallsNearer
  <1>2. QED
    BY <1>1, TypedInit, TypedNext, PTL DEF Spec, CallsMoveOn

-----------------------------------------------------------------------------
(* An orderly device: whose pairs the client holds                         *)

Strange(c) == call[c].kind # "call"            \* a sign-in under way

Owned ==
    /\ store.auth <=> kept # 0
    /\ kept # 0 => token[kept].user = store.user
    /\ stream.open # 0 => store.auth /\ token[stream.open].user = store.user

Counted ==
    /\ kept <= issued /\ stream.open <= issued
    /\ \A n \in bye : n <= issued
    /\ \A c \in Calls : call[c].pair <= issued

Asked ==
    /\ \A c, d \in Calls : Strange(c) /\ Strange(d) => c = d
    /\ \A c, d \in Calls : Refreshing(c) /\ Refreshing(d) => c = d
    /\ \A c \in Calls : Strange(c) /\ store.auth => call[c].user = store.user
    /\ \A c \in Calls : Strange(c) /\ call[c].at = "ok"
          => call[c].pair # 0 /\ token[call[c].pair].user = call[c].user
    /\ \A c \in Calls : Refreshing(c) => store.auth
    /\ \A c \in Calls : call[c].at \in Asking => token[call[c].pair].user = store.user

\* What a step does to the calls.
Only(c) == \A d \in Calls : d # c => call'[d] = call[d]
Becomes(c, at, pair) ==
    /\ Only(c)
    /\ call'[c].at = at /\ call'[c].pair = pair
    /\ call'[c].kind = call[c].kind /\ call'[c].user = call[c].user
Ends(c) == Only(c) /\ call'[c] = Idle

LEMMA Shapes ==
  ASSUME CallsOK, NEW c \in Calls
  PROVE  /\ LoginServe(c) => \/ /\ Becomes(c, "ok", issued + 1)
                                /\ Issue(call[c].user, token, TRUE)
                             \/ /\ Becomes(c, "refused", call[c].pair)
                                /\ UNCHANGED <<token, issued>>
         /\ LoginOk(c) \/ CallOk(c) \/ CallRefusedTwice(c) \/ CallSignsOut(c)
              \/ CallLost(c) => Ends(c)
         /\ CallServe(c) => Becomes(c, "ok", 0) \/ Becomes(c, "refused", 0)
         /\ CallRefused(c) => Becomes(c, "refresh_sent", kept)
         /\ RefreshFind(c) => \/ Becomes(c, "refresh_found", call[c].pair)
                              \/ Becomes(c, "refresh_refused", 0)
         /\ RefreshRotate(c) => Becomes(c, "refresh_ok", issued + 1)
         /\ RefreshOk(c) => \/ Becomes(c, "sent", call[c].pair)
                            \/ Becomes(c, "sent", 0)
         /\ RefreshLost(c) => Becomes(c, "refresh_refused", 0)
  <1> USE CallOf DEF CallsOK, Only, Becomes, Ends
  <1>0. call[c] \in Call
    OBVIOUS
  <1>1. LoginServe(c) => \/ /\ Becomes(c, "ok", issued + 1)
                            /\ Issue(call[c].user, token, TRUE)
                         \/ /\ Becomes(c, "refused", call[c].pair)
                            /\ UNCHANGED <<token, issued>>
    <2> SUFFICES ASSUME LoginServe(c)
                 PROVE  \/ /\ Becomes(c, "ok", issued + 1)
                           /\ Issue(call[c].user, token, TRUE)
                        \/ /\ Becomes(c, "refused", call[c].pair)
                           /\ UNCHANGED <<token, issued>>
      OBVIOUS
    <2>1. CASE /\ call' = [call EXCEPT ![c].at = "ok", ![c].pair = issued + 1]
               /\ Issue(call[c].user, token, TRUE)
      <3>1. Becomes(c, "ok", issued + 1)
        BY <1>0, <2>1 DEF Call
      <3>2. QED
        BY <2>1, <3>1
    <2>2. CASE /\ call' = [call EXCEPT ![c].at = "refused"]
               /\ UNCHANGED <<token, issued>>
      <3>1. Becomes(c, "refused", call[c].pair)
        BY <1>0, <2>2 DEF Call
      <3>2. QED
        BY <2>2, <3>1
    <2>3. QED
      BY <2>1, <2>2 DEF LoginServe
  <1>2. LoginOk(c) \/ CallOk(c) \/ CallRefusedTwice(c) \/ CallSignsOut(c) \/ CallLost(c)
          => Ends(c)
    BY DEF LoginOk, CallOk, CallRefusedTwice, CallSignsOut, CallLost, Fails
  <1>3. CallServe(c) => Becomes(c, "ok", 0) \/ Becomes(c, "refused", 0)
    BY <1>0 DEF CallServe, Call
  <1>4. CallRefused(c) => Becomes(c, "refresh_sent", kept)
    BY <1>0 DEF CallRefused, Call
  <1>5. RefreshFind(c) => \/ Becomes(c, "refresh_found", call[c].pair)
                          \/ Becomes(c, "refresh_refused", 0)
    BY <1>0 DEF RefreshFind, Call
  <1>6. RefreshRotate(c) => Becomes(c, "refresh_ok", issued + 1)
    BY <1>0 DEF RefreshRotate, Call
  <1>7. RefreshOk(c) => Becomes(c, "sent", call[c].pair) \/ Becomes(c, "sent", 0)
    BY <1>0 DEF RefreshOk, Call
  <1>8. RefreshLost(c) => Becomes(c, "refresh_refused", 0)
    BY <1>0 DEF RefreshLost, Call
  <1>9. QED
    BY <1>1, <1>2, <1>3, <1>4, <1>5, <1>6, <1>7, <1>8

\* A call or a sign-in that begins.
Begins(c, kind, user, pair) ==
    /\ call'[c].at = "sent" /\ call'[c].kind = kind
    /\ call'[c].user = user /\ call'[c].pair = pair

LEMMA StartShapes ==
  ASSUME CallsOK, NEW c \in Calls, NEW u \in Users
  PROVE  /\ CallStart(c) => Only(c) /\ Begins(c, "call", Idle.user, kept)
         /\ LoginSubmit(c, u) => Only(c) /\ Begins(c, "login", u, 0)
         /\ OAuthReturn(c, u) => /\ \A d \in Calls : d # c => call'[d] = Idle
                                 /\ Begins(c, "redirect", u, 0)
  <1> USE DEF CallsOK, Only, Begins
  <1>1. CallStart(c) => Only(c) /\ Begins(c, "call", Idle.user, kept)
    <2>1. \A f \in Call : LET m == [f EXCEPT !.at = "sent", !.pair = kept]
                          IN  /\ m.at = "sent" /\ m.pair = kept
                              /\ m.kind = f.kind /\ m.user = f.user
      BY DEF Call
    <2>2. LET m == [Idle EXCEPT !.at = "sent", !.pair = kept]
          IN  m.at = "sent" /\ m.pair = kept /\ m.kind = "call" /\ m.user = Idle.user
      BY <2>1, IdleOK
    <2>3. QED
      BY <2>2 DEF CallStart
  <1>2. LoginSubmit(c, u) => Only(c) /\ Begins(c, "login", u, 0)
    <2>1. \A f \in Call : LET m == [f EXCEPT !.at = "sent", !.kind = "login"]
                          IN  /\ m.at = "sent" /\ m.pair = f.pair
                              /\ m.kind = "login" /\ m.user = f.user
      BY DEF Call
    <2>2. LET m == [Free(u) EXCEPT !.at = "sent", !.kind = "login"]
          IN  m.at = "sent" /\ m.pair = 0 /\ m.kind = "login" /\ m.user = u
      BY <2>1, FreeOK
    <2>3. QED
      BY <2>2 DEF LoginSubmit
  <1>3. OAuthReturn(c, u) => /\ \A d \in Calls : d # c => call'[d] = Idle
                             /\ Begins(c, "redirect", u, 0)
    <2>1. \A f \in Call :
             LET m == [f EXCEPT !.at = "sent", !.kind = "redirect", !.again = TRUE]
             IN  /\ m.at = "sent" /\ m.pair = f.pair
                 /\ m.kind = "redirect" /\ m.user = f.user
      BY DEF Call
    <2>2. LET m == [Free(u) EXCEPT !.at = "sent", !.kind = "redirect", !.again = TRUE]
          IN  m.at = "sent" /\ m.pair = 0 /\ m.kind = "redirect" /\ m.user = u
      BY <2>1, FreeOK
    <2>3. QED
      BY <2>2 DEF OAuthReturn
  <1>4. QED
    BY <1>1, <1>2, <1>3

\* The owner of an issued pair never changes.
Stable ==
    /\ issued <= issued'
    /\ \A n \in Pairs : n <= issued => token'[n].user = token[n].user

LEMMA IssueStable ==
  ASSUME ServerOK, NEW u \in Users, NEW alive \in BOOLEAN, NEW accepted,
         accepted \in [Pairs -> [user : Users, fresh : BOOLEAN, live : BOOLEAN]],
         \A n \in Pairs : accepted[n].user = token[n].user,
         Issue(u, accepted, alive)
  PROVE  /\ Stable
         /\ issued' = issued + 1 /\ issued' \in Pairs
         /\ token'[issued + 1] = [user |-> u, fresh |-> TRUE, live |-> alive]
         /\ \A n \in Pairs : n <= issued => token'[n] = accepted[n]
  <1>1. issued + 1 \in Pairs /\ issued \in Nat
    BY WebClientAssumption DEF Issue, ServerOK, Pairs
  <1>2. issued' = issued + 1
    BY DEF Issue
  <1>3. token' = [accepted EXCEPT ![issued + 1] =
                    [user |-> u, fresh |-> TRUE, live |-> alive]]
    BY DEF Issue
  <1>4. token'[issued + 1] = [user |-> u, fresh |-> TRUE, live |-> alive]
    BY <1>1, <1>3
  <1>5. \A n \in Pairs : n <= issued => n # issued + 1
    BY <1>1 DEF Pairs
  <1>6. \A n \in Pairs : n <= issued => token'[n] = accepted[n]
    BY <1>1, <1>3, <1>5
  <1>7. QED
    BY <1>1, <1>2, <1>4, <1>6 DEF Stable

\* The pair is rotated: its row carries the new token.
LEMMA RotateStable ==
  ASSUME ServerOK, NEW n \in Pairs, Rotate(n)
  PROVE  /\ Stable
         /\ issued' = issued + 1 /\ issued' \in Pairs
         /\ token'[issued + 1].user = token[n].user
         /\ token'[issued + 1].live = token[n].live
         /\ \A m \in Pairs : m <= issued /\ m # n => token'[m] = token[m]
  <1> DEFINE accepted == [token EXCEPT ![n].live = FALSE]
  <1>1. token[n].user \in Users /\ token[n].live \in BOOLEAN
    BY DEF ServerOK
  <1>2. accepted \in [Pairs -> [user : Users, fresh : BOOLEAN, live : BOOLEAN]]
    BY DEF ServerOK
  <1>3. \A m \in Pairs : accepted[m].user = token[m].user
    BY DEF ServerOK
  <1>4. \A m \in Pairs : m # n => accepted[m] = token[m]
    BY DEF ServerOK
  <1>5. Issue(token[n].user, accepted, token[n].live)
    BY DEF Rotate
  <1> HIDE DEF accepted
  <1>6. /\ Stable
        /\ issued' = issued + 1 /\ issued' \in Pairs
        /\ token'[issued + 1] = [user |-> token[n].user, fresh |-> TRUE,
                                 live |-> token[n].live]
        /\ \A m \in Pairs : m <= issued => token'[m] = accepted[m]
    BY <1>1, <1>2, <1>3, <1>5, IssueStable
  <1>7. QED
    BY <1>4, <1>6

LEMMA AllStable == Typed /\ [Next]_vars => Stable
  <1> SUFFICES ASSUME Typed, [Next]_vars PROVE Stable
    OBVIOUS
  <1>0. ServerOK /\ CallsOK /\ issued <= issued
    BY TypedIs, WebClientAssumption DEF ServerOK
  <1>1. CASE UNCHANGED <<token, issued>>
    BY <1>0, <1>1 DEF Stable
  <1>2. ASSUME NEW n \in Pairs, ByeServe(n) \/ ExpireAccess(n) PROVE Stable
    BY <1>0, <1>2 DEF ByeServe, ExpireAccess, Stable, ServerOK
  <1>3. ASSUME NEW u \in Users, Revoke(u) PROVE Stable
    <2>1. \A n \in Pairs : [token[n] EXCEPT !.live = FALSE].user = token[n].user
      BY <1>0 DEF ServerOK
    <2>2. QED
      BY <1>0, <1>3, <2>1 DEF Revoke, Stable
  <1>4. ASSUME NEW c \in Calls, LoginServe(c) PROVE Stable
    BY <1>0, <1>1, <1>4, Shapes, CallOf, IssueStable DEF ServerOK
  <1>5. ASSUME NEW c \in Calls, RefreshRotate(c) PROVE Stable
    <2>1. call[c].pair \in Pairs /\ Rotate(call[c].pair)
      BY <1>0, <1>5, CallOf DEF RefreshRotate, Asking
    <2>2. QED
      BY <1>0, <2>1, RotateStable
  <1>6. ASSUME NEW c \in Calls, CallStep(c) PROVE Stable
    <2>1. CASE LoginServe(c) \/ RefreshRotate(c)
      BY <1>4, <1>5, <2>1
    <2>2. CASE ~(LoginServe(c) \/ RefreshRotate(c))
      BY <1>1, <1>6, <2>2 DEF CallStep, LoginOk, CallServe, CallOk, CallRefused,
         CallRefusedTwice, CallSignsOut, CallLost, RefreshFind, RefreshOk, RefreshLost
    <2>3. QED
      BY <2>1, <2>2
  <1>7. CASE \/ \E screen \in Screens : Navigate(screen)
             \/ TripCallback \/ StreamError \/ StreamRetry \/ UserLogout \/ Reload
             \/ \E c \in Calls : CallStart(c)
             \/ \E c \in Calls, u \in Users : LoginSubmit(c, u) \/ OAuthReturn(c, u)
    BY <1>1, <1>7 DEF Navigate, TripCallback, StreamError, StreamRetry, UserLogout,
       Reload, Load, CallStart, LoginSubmit, OAuthReturn
  <1>8. QED
    BY <1>1, <1>2, <1>3, <1>6, <1>7 DEF Next, vars

\* What the client's side does.
Stays ==
    /\ kept' = kept /\ store'.auth = store.auth /\ store'.user = store.user
    /\ stream'.open \in {0, stream.open, kept}
    /\ bye' \subseteq bye
Out ==
    /\ kept' = 0 /\ ~store'.auth /\ stream'.open = 0
    /\ bye' \subseteq bye \union ({kept} \ {0})
Loaded ==
    /\ kept' = kept /\ stream'.open = kept /\ bye' = bye
    /\ store'.auth <=> kept # 0
    /\ kept # 0 => store'.user = token[kept].user

LEMMA ClientShapes ==
  ASSUME ClientOK, CallsOK
  PROVE  /\ \A screen \in Screens : Navigate(screen) => Stays /\ call' = call
         /\ TripCallback \/ StreamError \/ StreamRetry => Stays /\ call' = call
         /\ \A n \in Pairs : ByeServe(n) \/ ExpireAccess(n) => Stays /\ call' = call
         /\ \A u \in Users : Revoke(u) => Stays /\ call' = call
         /\ UserLogout => Out /\ call' = call
         /\ Load => Loaded
         /\ \A c \in Calls : CallStart(c) => Stays
         /\ \A c \in Calls, u \in Users : LoginSubmit(c, u) => Stays
         /\ \A c \in Calls : CallSignsOut(c) => Out
         /\ \A c \in Calls :
               \/ LoginServe(c) \/ CallRefusedTwice(c) \/ CallLost(c) \/ CallServe(c)
               \/ CallOk(c) \/ CallRefused(c) \/ RefreshFind(c) \/ RefreshLost(c)
               \/ RefreshRotate(c)
               => Stays
  <1> USE DEF ClientOK
  <1>0. \A screen \in Screens : Show(screen) /\ UNCHANGED <<kept, bye>> => Stays
    BY DEF Show, Follow, Connect, Stays
  <1>1. \A screen \in Screens : Navigate(screen) => Stays /\ call' = call
    BY <1>0 DEF Navigate
  <1>2. TripCallback \/ StreamError \/ StreamRetry => Stays /\ call' = call
    BY DEF TripCallback, StreamError, StreamRetry, Connect, Stays
  <1>3. \A n \in Pairs : ByeServe(n) \/ ExpireAccess(n) => Stays /\ call' = call
    BY DEF ByeServe, ExpireAccess, Stays
  <1>4. \A u \in Users : Revoke(u) => Stays /\ call' = call
    BY DEF Revoke, Stays
  <1>5. SignOut => Out
    BY DEF SignOut, Out
  <1>6. UserLogout => Out /\ call' = call
    BY <1>5 DEF UserLogout
  <1>7. Load => Loaded
    <2> SUFFICES ASSUME Load PROVE Loaded
      OBVIOUS
    <2>1. (kept # 0) \in BOOLEAN
      OBVIOUS
    <2>2. CASE kept = 0
      <3>1. store' = [store EXCEPT !.auth = FALSE, !.user = Idle.user, !.screen = "login"]
        BY <2>2 DEF Load
      <3>2. QED
        BY <2>2, <3>1 DEF Load, Loaded
    <2>3. CASE kept # 0
      <3>1. store' = [store EXCEPT !.auth = TRUE, !.user = token[kept].user,
                         !.screen = IF @ = "trip" THEN "home" ELSE @]
        BY <2>3 DEF Load
      <3>2. QED
        BY <2>3, <3>1 DEF Load, Loaded
    <2>4. QED
      BY <2>2, <2>3
  <1>8. \A c \in Calls : CallStart(c) => Stays
    BY DEF CallStart, Stays
  <1>9. \A c \in Calls, u \in Users : LoginSubmit(c, u) => Stays
    BY DEF LoginSubmit, Follow, Connect, Stays
  <1>10. \A c \in Calls : CallSignsOut(c) => Out
    BY <1>5 DEF CallSignsOut
  <1>11. \A c \in Calls : CallRefusedTwice(c) \/ CallLost(c) => Stays
    <2>1. \A c \in Calls : Fails(c) /\ UNCHANGED <<kept, bye>> => Stays
      <3> SUFFICES ASSUME NEW c \in Calls, Fails(c), UNCHANGED <<kept, bye>>
                   PROVE  Stays
        OBVIOUS
      <3>1. CASE call[c].kind = "redirect"
        BY <1>0, <3>1 DEF Fails, Screens
      <3>2. CASE call[c].kind = "login"
        <4>1. stream' = Follow(store.auth) /\ UNCHANGED <<store, kept, bye>>
          BY <3>2 DEF Fails
        <4>2. QED
          BY <4>1 DEF Follow, Connect, Stays
      <3>3. CASE call[c].kind \notin {"redirect", "login"}
        <4>1. UNCHANGED <<stream, store, kept, bye>>
          BY <3>3 DEF Fails
        <4>2. QED
          BY <4>1 DEF Stays
      <3>4. QED
        BY <3>1, <3>2, <3>3
    <2>2. QED
      BY <2>1 DEF CallRefusedTwice, CallLost
  <1>12. \A c \in Calls : \/ LoginServe(c) \/ CallServe(c) \/ CallOk(c) \/ CallRefused(c)
                          \/ RefreshFind(c) \/ RefreshLost(c) \/ RefreshRotate(c)
                          => Stays
    BY DEF LoginServe, CallServe, CallOk, CallRefused, RefreshFind, RefreshLost,
       RefreshRotate, Stays
  <1>13. QED
    BY <1>1, <1>2, <1>3, <1>4, <1>6, <1>7, <1>8, <1>9, <1>10, <1>11, <1>12

\* No pair is held before it is issued.
LEMMA CountedNext == Typed /\ Counted /\ [Next]_vars => Counted'
  <1> SUFFICES ASSUME Typed, Counted, [Next]_vars PROVE Counted'
    OBVIOUS
  <1>0. ClientOK /\ ServerOK /\ CallsOK /\ Stable
    BY TypedIs, AllStable
  <1>1. issued \in Nat /\ issued' \in Nat /\ issued <= issued'
    <2>1. ServerOK'
      BY PartsNext
    <2>2. QED
      BY <1>0, <2>1, WebClientAssumption DEF ServerOK, Stable
  <1>2. \A x \in 0..MaxPairs : x <= issued => x <= issued'
    BY <1>1, WebClientAssumption
  <1>3. /\ kept \in 0..MaxPairs /\ stream.open \in 0..MaxPairs /\ bye \subseteq 0..MaxPairs
        /\ \A c \in Calls : call[c].pair \in 0..MaxPairs
    BY <1>0, CallOf, WebClientAssumption DEF ClientOK, Pairs
  <1>4. /\ kept <= issued' /\ stream.open <= issued' /\ 0 <= issued'
        /\ \A n \in bye : n <= issued'
        /\ \A c \in Calls : call[c].pair <= issued'
    BY <1>1, <1>2, <1>3 DEF Counted
  <1>5. Stays => kept' <= issued' /\ stream'.open <= issued' /\ \A n \in bye' : n <= issued'
    BY <1>4 DEF Stays
  <1>6. Out => kept' <= issued' /\ stream'.open <= issued' /\ \A n \in bye' : n <= issued'
    BY <1>4 DEF Out
  <1>7. Loaded => kept' <= issued' /\ stream'.open <= issued' /\ \A n \in bye' : n <= issued'
    BY <1>4 DEF Loaded
  <1>8. \A c \in Calls : Ends(c) => \A d \in Calls : call'[d].pair <= issued'
    BY <1>4, IdleOK DEF Ends, Only
  <1>9. \A c \in Calls, at \in Steps, pair \in 0..MaxPairs :
           Becomes(c, at, pair) /\ pair <= issued' => \A d \in Calls : call'[d].pair <= issued'
    BY <1>4 DEF Becomes, Only
  <1>10. CASE UNCHANGED vars
    BY <1>4, <1>10 DEF Counted, vars
  <1>11. CASE \/ \E screen \in Screens : Navigate(screen)
              \/ TripCallback \/ StreamError \/ StreamRetry
              \/ \E n \in Pairs : ByeServe(n) \/ ExpireAccess(n)
              \/ \E u \in Users : Revoke(u)
              \/ UserLogout
    <2>1. (Stays \/ Out) /\ call' = call
      BY <1>0, <1>11, ClientShapes
    <2>2. QED
      BY <2>1, <1>4, <1>5, <1>6 DEF Counted
  <1>12. CASE Reload
    BY <1>0, <1>4, <1>7, <1>12, ClientShapes, IdleOK DEF Reload, Counted
  <1>13. ASSUME NEW c \in Calls,
                CallStart(c) \/ \E u \in Users : LoginSubmit(c, u) \/ OAuthReturn(c, u)
         PROVE  Counted'
    <2>1. CASE CallStart(c)
      <3>1. Stays /\ Only(c) /\ call'[c].pair = kept
        BY <1>0, <2>1, ClientShapes, StartShapes, IdleOK DEF Begins
      <3>2. QED
        BY <3>1, <1>4, <1>5 DEF Counted, Only
    <2>2. CASE \E u \in Users : LoginSubmit(c, u)
      <3>1. Stays /\ Only(c) /\ call'[c].pair = 0
        BY <1>0, <2>2, ClientShapes, StartShapes DEF Begins
      <3>2. QED
        BY <3>1, <1>4, <1>5 DEF Counted, Only
    <2>3. CASE \E u \in Users : OAuthReturn(c, u)
      <3>1. /\ Loaded /\ call'[c].pair = 0
            /\ \A d \in Calls : d # c => call'[d] = Idle
        BY <1>0, <2>3, ClientShapes, StartShapes DEF Begins, OAuthReturn
      <3>2. QED
        BY <3>1, <1>4, <1>7, IdleOK DEF Counted
    <2>4. QED
      BY <1>13, <2>1, <2>2, <2>3
  <1>14. ASSUME NEW c \in Calls, CallStep(c) PROVE Counted'
    <2>0. 0 \in 0..MaxPairs /\ kept \in 0..MaxPairs /\ call[c].pair \in 0..MaxPairs
      BY <1>3, WebClientAssumption
    <2>1. \A d \in Calls : call'[d].pair <= issued'
      <3>1. CASE LoginServe(c)
        <4>1. \/ Becomes(c, "ok", issued + 1) /\ issued' = issued + 1
              \/ Becomes(c, "refused", call[c].pair)
          BY <1>0, <3>1, Shapes DEF Issue
        <4>2. QED
          BY <1>1, <1>4, <4>1 DEF Becomes, Only
      <3>2. CASE RefreshRotate(c)
        <4>1. issued' = issued + 1 /\ Becomes(c, "refresh_ok", issued + 1)
          BY <1>0, <3>2, Shapes DEF RefreshRotate, Rotate, Issue
        <4>2. QED
          BY <1>1, <1>4, <4>1 DEF Becomes, Only
      <3>3. CASE ~(LoginServe(c) \/ RefreshRotate(c))
        BY <1>0, <1>4, <1>8, <1>14, <3>3, Shapes DEF CallStep, Becomes, Only
      <3>4. QED
        BY <3>1, <3>2, <3>3
    <2>2. kept' <= issued' /\ stream'.open <= issued' /\ \A n \in bye' : n <= issued'
      <3>1. CASE LoginOk(c)
        BY <1>4, <3>1, <1>0 DEF LoginOk, ClientOK
      <3>2. CASE RefreshOk(c)
        BY <1>4, <3>2 DEF RefreshOk
      <3>3. CASE ~(LoginOk(c) \/ RefreshOk(c))
        BY <1>0, <1>5, <1>6, <1>14, <3>3, ClientShapes DEF CallStep
      <3>4. QED
        BY <3>1, <3>2, <3>3
    <2>3. QED
      BY <2>1, <2>2 DEF Counted
  <1>15. QED
    BY <1>10, <1>11, <1>12, <1>13, <1>14 DEF Next

LEMMA OwnedNext ==
  ASSUME Typed, Counted, Owned, Asked, [Next]_vars
  PROVE  Owned'
  <1>0. ClientOK /\ ServerOK /\ CallsOK /\ Stable
    BY TypedIs, AllStable
  <1>1. /\ kept # 0 => kept \in Pairs /\ token'[kept].user = token[kept].user
        /\ stream.open # 0 => /\ stream.open \in Pairs
                              /\ token'[stream.open].user = token[stream.open].user
    <2>1. /\ kept # 0 => kept \in Pairs
          /\ stream.open # 0 => stream.open \in Pairs
      BY <1>0, WebClientAssumption DEF ClientOK, Pairs
    <2>2. QED
      BY <1>0, <2>1 DEF Counted, Stable
  <1>2. Stays => Owned'
    BY <1>1 DEF Owned, Stays
  <1>3. Out => Owned'
    BY DEF Owned, Out
  <1>4. Loaded => Owned'
    BY <1>1 DEF Owned, Loaded
  <1>5. ASSUME NEW c \in Calls, LoginOk(c) PROVE Owned'
    <2>1. call[c].pair # 0 /\ token[call[c].pair].user = call[c].user
      BY <1>5 DEF LoginOk, Asked, Strange
    <2>2. store.auth => call[c].user = store.user
      BY <1>5 DEF LoginOk, Asked, Strange
    <2>3. /\ kept' = call[c].pair /\ token' = token
          /\ store'.auth /\ store'.user = call[c].user
          /\ stream'.open = IF stream.open # 0 THEN stream.open ELSE call[c].pair
      BY <1>0, <1>5 DEF LoginOk, ClientOK
    <2>4. QED
      BY <2>1, <2>2, <2>3 DEF Owned
  <1>6. ASSUME NEW c \in Calls, RefreshOk(c) PROVE Owned'
    <2>1. /\ call[c].pair # 0 /\ token[call[c].pair].user = store.user
          /\ store.auth
      BY <1>0, <1>6 DEF RefreshOk, Asked, Asking, Refreshing, RefreshSteps, CallsOK
    <2>2. kept' = call[c].pair /\ UNCHANGED <<token, store, stream>>
      BY <1>6 DEF RefreshOk
    <2>3. QED
      BY <2>1, <2>2 DEF Owned
  <1>7. CASE UNCHANGED vars
    BY <1>7 DEF Owned, vars
  <1>8. ASSUME NEW c \in Calls, CallStep(c) PROVE Owned'
    BY <1>0, <1>2, <1>3, <1>5, <1>6, <1>8, ClientShapes DEF CallStep
  <1>9. CASE \E c \in Calls, u \in Users : OAuthReturn(c, u)
    BY <1>0, <1>4, <1>9, ClientShapes DEF OAuthReturn
  <1>10. CASE Reload
    BY <1>0, <1>4, <1>10, ClientShapes DEF Reload
  <1>11. QED
    BY <1>0, <1>2, <1>3, <1>7, <1>8, <1>9, <1>10, ClientShapes DEF Next

\* The calls, when none changes its place and the client stays signed in.
LEMMA AskedStays ==
  ASSUME Typed, Counted, Asked, Stable, UNCHANGED call,
         store'.auth = store.auth, store'.user = store.user
  PROVE  Asked'
  <1>0. CallsOK
    BY TypedIs
  <1>1. \A c \in Calls : call[c].pair # 0 =>
           call[c].pair \in Pairs /\ token'[call[c].pair].user = token[call[c].pair].user
    <2>1. \A c \in Calls : call[c].pair # 0 => call[c].pair \in Pairs
      BY <1>0, CallOf, WebClientAssumption DEF Pairs
    <2>2. QED
      BY <2>1 DEF Counted, Stable
  <1>2. \A c \in Calls : call[c].at \in Asking => call[c].pair # 0
    BY <1>0 DEF CallsOK
  <1>3. QED
    BY <1>1, <1>2 DEF Asked, Strange, Refreshing

\* A call that ends leaves the others as they were.
LEMMA AskedEnds ==
  ASSUME Typed, Asked, NEW c \in Calls, Ends(c), UNCHANGED token,
         store'.auth = store.auth, store'.user = store.user
  PROVE  Asked'
  <1>1. call'[c].at = "idle" /\ call'[c].kind = "call"
    BY IdleOK DEF Ends
  <1>2. ~Strange(c)' /\ ~Refreshing(c)' /\ call'[c].at \notin Asking
    BY <1>1 DEF Strange, Refreshing, RefreshSteps, Asking
  <1>3. \A d \in Calls : d # c => call'[d] = call[d]
    BY DEF Ends, Only
  <1>4. QED
    BY <1>2, <1>3 DEF Asked, Strange, Refreshing

\* Nobody is signed in any more, and nothing is being refreshed.
LEMMA AskedOut ==
  ASSUME Asked, ~store'.auth, UNCHANGED token,
         NEW S \in SUBSET Calls,
         \A d \in S : call'[d] = call[d] /\ ~Refreshing(d),
         \A d \in Calls \ S : call'[d] = Idle
  PROVE  Asked'
  <1>1. \A d \in Calls \ S : ~Strange(d)' /\ ~Refreshing(d)' /\ call'[d].at \notin Asking
    BY IdleOK DEF Strange, Refreshing, RefreshSteps, Asking
  <1>2. \A d \in S : ~Refreshing(d)' /\ call'[d].at \notin Asking
    BY DEF Refreshing, RefreshSteps, Asking
  <1>3. QED
    BY <1>1, <1>2 DEF Asked, Strange

\* One call is under way, the others are idle.
LEMMA AskedFresh ==
  ASSUME NEW c, \A d \in Calls : d # c => call'[d] = Idle,
         c \in Calls => /\ call'[c].at \in {"idle", "sent"}
                        /\ store'.auth => call'[c].user = store'.user
  PROVE  Asked'
  <1>1. \A d \in Calls : d # c => ~Strange(d)'
    BY IdleOK DEF Strange
  <1>2. \A d \in Calls : call'[d].at \in {"idle", "sent"}
    BY IdleOK
  <1>3. \A d \in Calls : ~Refreshing(d)' /\ call'[d].at \notin Asking /\ call'[d].at # "ok"
    BY <1>2 DEF Refreshing, RefreshSteps, Asking
  <1>4. QED
    BY <1>1, <1>3 DEF Asked, Strange

\* A call that changes its place, the client staying as it is.
LEMMA AskedMoves ==
  ASSUME Typed, Counted, Asked, Stable,
         store'.auth = store.auth, store'.user = store.user,
         NEW c \in Calls, Only(c), call'[c].user = call[c].user,
         Strange(c)' => Strange(c),
         Refreshing(c)' => store.auth /\ \A d \in Calls : d # c => ~Refreshing(d),
         Strange(c) /\ call'[c].at = "ok"
            => call'[c].pair # 0 /\ token'[call'[c].pair].user = call[c].user,
         call'[c].at \in Asking => token'[call'[c].pair].user = store.user
  PROVE  Asked'
  <1>0. CallsOK
    BY TypedIs
  <1>1. \A d \in Calls : call[d].pair # 0 =>
           call[d].pair \in Pairs /\ token'[call[d].pair].user = token[call[d].pair].user
    <2>1. \A d \in Calls : call[d].pair # 0 => call[d].pair \in Pairs
      BY <1>0, CallOf, WebClientAssumption DEF Pairs
    <2>2. QED
      BY <2>1 DEF Counted, Stable
  <1>2. \A d \in Calls : d # c => call'[d] = call[d] /\ (Strange(d)' <=> Strange(d))
                                  /\ (Refreshing(d)' <=> Refreshing(d))
    BY DEF Only, Strange, Refreshing
  <1>3. \A d \in Calls : call[d].at \in Asking => call[d].pair # 0
    BY <1>0 DEF CallsOK
  <1>4. \A d, e \in Calls : Strange(d)' /\ Strange(e)' => d = e
    BY <1>2 DEF Asked
  <1>5. \A d, e \in Calls : Refreshing(d)' /\ Refreshing(e)' => d = e
    BY <1>2 DEF Asked
  <1>6. \A d \in Calls : Strange(d)' /\ store'.auth => call'[d].user = store'.user
    BY <1>2 DEF Asked
  <1>7. \A d \in Calls : Strange(d)' /\ call'[d].at = "ok"
           => call'[d].pair # 0 /\ token'[call'[d].pair].user = call'[d].user
    BY <1>1, <1>2 DEF Asked
  <1>8. \A d \in Calls : Refreshing(d)' => store'.auth
    BY <1>2 DEF Asked
  <1>9. \A d \in Calls : call'[d].at \in Asking
           => token'[call'[d].pair].user = store'.user
    BY <1>1, <1>2, <1>3 DEF Asked
  <1>10. QED
    BY <1>4, <1>5, <1>6, <1>7, <1>8, <1>9 DEF Asked

LEMMA AskedNext ==
  ASSUME Orderly, Typed, Counted, Owned, Asked, [Next]_vars
  PROVE  Asked'
  <1>0. ClientOK /\ ServerOK /\ CallsOK /\ Stable
    BY TypedIs, AllStable
  <1> USE DEF Refreshing, RefreshSteps
  <1>1. CASE Stays /\ UNCHANGED call
    BY <1>0, <1>1, AskedStays DEF Stays
  <1>2. CASE UserLogout
    <2>1. Out /\ call' = call /\ token' = token
      BY <1>0, <1>2, ClientShapes DEF UserLogout
    <2>2. \A d \in Calls : call'[d] = call[d] /\ ~Refreshing(d)
      BY <1>2, <2>1 DEF UserLogout, NoRefresh
    <2>3. QED
      BY <2>1, <2>2, AskedOut DEF Out
  <1>3. CASE Reload
    <2>1. \A d \in Calls : call'[d] = Idle
      BY <1>3 DEF Reload
    <2>2. \A d \in Calls : call'[d].at = "idle" /\ call'[d].kind = "call"
      BY <2>1, IdleOK
    <2>3. QED
      BY <2>2 DEF Asked, Strange, Asking
  <1>4. ASSUME NEW c \in Calls, NEW u \in Users, OAuthReturn(c, u) PROVE Asked'
    <2>1. /\ \A d \in Calls : d # c => call'[d] = Idle
          /\ call'[c].at = "sent" /\ call'[c].user = u
      BY <1>0, <1>4, StartShapes DEF Begins
    <2>2. Loaded /\ (kept # 0 => token[kept].user = u)
      BY <1>0, <1>4, ClientShapes DEF OAuthReturn
    <2>3. store'.auth => store'.user = u
      BY <2>2 DEF Loaded
    <2>4. QED
      BY <2>1, <2>3, AskedFresh
  <1>5. ASSUME NEW c \in Calls, CallStart(c) PROVE Asked'
    <2>1. Stays /\ Only(c) /\ Begins(c, "call", Idle.user, kept) /\ call[c].at = "idle"
      BY <1>0, <1>5, ClientShapes, StartShapes, IdleOK DEF CallStart
    <2>2. ~Strange(c)' /\ ~Refreshing(c)' /\ call'[c].at = "sent"
      BY <2>1 DEF Strange, Begins
    <2>3. token' = token
      BY <1>5 DEF CallStart
    <2>4. \A d \in Calls : d # c => call'[d] = call[d] /\ (Strange(d)' <=> Strange(d))
                                    /\ (Refreshing(d)' <=> Refreshing(d))
      BY <2>1 DEF Only, Strange
    <2>5. store'.auth = store.auth /\ store'.user = store.user
      BY <2>1 DEF Stays
    <2>6. QED
      BY <2>2, <2>3, <2>4, <2>5 DEF Asked, Asking
  <1>6. ASSUME NEW c \in Calls, NEW u \in Users, LoginSubmit(c, u) PROVE Asked'
    <2>1. Stays /\ Only(c) /\ Begins(c, "login", u, 0)
      BY <1>0, <1>6, ClientShapes, StartShapes
    <2>2. \A d \in Calls : d # c => call'[d] = call[d] /\ ~Strange(d)'
                                    /\ (Refreshing(d)' <=> Refreshing(d))
      BY <1>6, <2>1 DEF Only, LoginSubmit, Strange
    <2>3. call'[c].at = "sent" /\ ~Refreshing(c)'
      BY <2>1 DEF Begins
    <2>4. store.auth => u = store.user
      BY <1>6 DEF LoginSubmit, MaySignIn
    <2>5. token' = token /\ call'[c].user = u
      BY <1>6, <2>1 DEF LoginSubmit, Begins
    <2>6. store'.auth = store.auth /\ store'.user = store.user
      BY <2>1 DEF Stays
    <2>7. QED
      BY <2>2, <2>3, <2>4, <2>5, <2>6 DEF Asked, Asking
  <1>7. ASSUME NEW c \in Calls, CallStep(c) PROVE Asked'
    <2>1. CASE LoginServe(c)
      <3>1. Stays /\ Strange(c) /\ call[c].at = "sent"
        BY <1>0, <2>1, ClientShapes DEF LoginServe, Strange
      <3>2. CASE Becomes(c, "ok", issued + 1) /\ Issue(call[c].user, token, TRUE)
        <4>1. /\ token'[issued + 1] = [user |-> call[c].user, fresh |-> TRUE, live |-> TRUE]
              /\ issued' = issued + 1 /\ issued' \in Pairs
          BY <1>0, <3>2, CallOf, IssueStable DEF ServerOK
        <4>2. issued + 1 # 0
          BY <4>1 DEF Pairs
        <4>3. QED
          BY <1>0, <3>1, <3>2, <4>1, <4>2, AskedMoves DEF Becomes, Stays, Strange, Asking
      <3>3. CASE Becomes(c, "refused", call[c].pair)
        BY <1>0, <3>1, <3>3, AskedMoves DEF Becomes, Stays, Strange, Asking
      <3>4. QED
        BY <1>0, <2>1, <3>2, <3>3, Shapes
    <2>2. CASE LoginOk(c)
      <3>1. /\ Ends(c) /\ token' = token /\ Strange(c)
            /\ store'.auth /\ store'.user = call[c].user
        BY <1>0, <2>2, Shapes DEF LoginOk, Strange, ClientOK
      <3>2. call'[c].at = "idle" /\ call'[c].kind = "call"
        BY <3>1, IdleOK DEF Ends
      <3>3. \A d \in Calls : ~Strange(d)'
        BY <3>1, <3>2 DEF Ends, Only, Strange, Asked
      <3>4. \A d \in Calls : Refreshing(d)' => d # c /\ call'[d] = call[d] /\ Refreshing(d)
        BY <3>1, <3>2 DEF Ends, Only
      <3>5. store.auth => store'.user = store.user
        BY <3>1 DEF Asked
      <3>6. \A d \in Calls : call'[d].at \in Asking => Refreshing(d)'
        BY DEF Asking
      <3>7. QED
        BY <3>1, <3>3, <3>4, <3>5, <3>6 DEF Asked
    <2>3. CASE CallOk(c) \/ CallRefusedTwice(c) \/ CallLost(c)
      <3>1. Ends(c) /\ Stays
        BY <1>0, <2>3, Shapes, ClientShapes
      <3>2. token' = token
        BY <2>3 DEF CallOk, CallRefusedTwice, CallLost
      <3>3. QED
        BY <3>1, <3>2, AskedEnds DEF Stays
    <2>4. CASE CallSignsOut(c)
      <3>1. Ends(c) /\ Out /\ token' = token
        BY <1>0, <2>4, Shapes, ClientShapes DEF CallSignsOut
      <3>2. \A d \in Calls \ {c} : ~Refreshing(d)
        <4>1. CASE kept = 0
          BY <4>1 DEF Asked, Owned
        <4>2. CASE kept # 0
          BY <2>4, <4>2 DEF CallSignsOut, Asked
        <4>3. QED
          BY <4>1, <4>2
      <3>3. QED
        BY <3>1, <3>2, AskedOut DEF Ends, Only, Out
    <2>5. CASE CallServe(c)
      <3>1. Stays /\ ~Strange(c)
        BY <1>0, <2>5, ClientShapes DEF CallServe, Strange
      <3>2. CASE Becomes(c, "ok", 0)
        BY <1>0, <3>1, <3>2, AskedMoves DEF Becomes, Stays, Strange, Asking
      <3>3. CASE Becomes(c, "refused", 0)
        BY <1>0, <3>1, <3>3, AskedMoves DEF Becomes, Stays, Strange, Asking
      <3>4. QED
        BY <1>0, <2>5, <3>2, <3>3, Shapes
    <2>6. CASE CallRefused(c)
      <3>1. Stays /\ Becomes(c, "refresh_sent", kept) /\ token' = token
        BY <1>0, <2>6, Shapes, ClientShapes DEF CallRefused
      <3>2. kept # 0 /\ \A d \in Calls : ~Refreshing(d)
        BY <2>6 DEF CallRefused, NoRefresh
      <3>3. store.auth /\ token[kept].user = store.user
        BY <3>2 DEF Owned
      <3>4. QED
        BY <1>0, <3>1, <3>2, <3>3, AskedMoves DEF Becomes, Stays, Strange, Asking
    <2>7. CASE RefreshFind(c)
      <3>1. Stays /\ call[c].at = "refresh_sent" /\ token' = token
        BY <1>0, <2>7, ClientShapes DEF RefreshFind
      <3>2. /\ store.auth /\ token[call[c].pair].user = store.user
            /\ \A d \in Calls : d # c => ~Refreshing(d)
        BY <3>1 DEF Asked, Asking
      <3>3. CASE Becomes(c, "refresh_found", call[c].pair)
        BY <1>0, <3>1, <3>2, <3>3, AskedMoves DEF Becomes, Stays, Strange, Asking
      <3>4. CASE Becomes(c, "refresh_refused", 0)
        BY <1>0, <3>1, <3>2, <3>4, AskedMoves DEF Becomes, Stays, Strange, Asking
      <3>5. QED
        BY <1>0, <2>7, <3>3, <3>4, Shapes
    <2>8. CASE RefreshRotate(c)
      <3>1. Stays /\ call[c].at = "refresh_found" /\ Becomes(c, "refresh_ok", issued + 1)
        BY <1>0, <2>8, ClientShapes, Shapes DEF RefreshRotate
      <3>2. /\ store.auth /\ token[call[c].pair].user = store.user
            /\ \A d \in Calls : d # c => ~Refreshing(d)
        BY <3>1 DEF Asked, Asking
      <3>3. token'[issued + 1].user = token[call[c].pair].user
        <4>1. call[c].pair \in Pairs /\ Rotate(call[c].pair)
          BY <1>0, <2>8, CallOf DEF RefreshRotate, Asking
        <4>2. QED
          BY <1>0, <4>1, RotateStable
      <3>4. QED
        BY <1>0, <3>1, <3>2, <3>3, AskedMoves DEF Becomes, Stays, Strange, Asking
    <2>9. CASE RefreshOk(c)
      <3>1. store' = store /\ call[c].at = "refresh_ok"
        BY <2>9 DEF RefreshOk
      <3>2. CASE Becomes(c, "sent", call[c].pair)
        BY <1>0, <3>1, <3>2, AskedMoves DEF Becomes, Strange, Asking
      <3>3. CASE Becomes(c, "sent", 0)
        BY <1>0, <3>1, <3>3, AskedMoves DEF Becomes, Strange, Asking
      <3>4. QED
        BY <1>0, <2>9, <3>2, <3>3, Shapes
    <2>10. CASE RefreshLost(c)
      <3>1. Stays /\ call[c].at \in Asking /\ Becomes(c, "refresh_refused", 0)
        BY <1>0, <2>10, ClientShapes, Shapes DEF RefreshLost, Asking
      <3>2. store.auth /\ \A d \in Calls : d # c => ~Refreshing(d)
        BY <3>1 DEF Asked, Asking
      <3>3. QED
        BY <1>0, <3>1, <3>2, AskedMoves DEF Becomes, Stays, Strange, Asking
    <2>11. QED
      BY <1>7, <2>1, <2>2, <2>3, <2>4, <2>5, <2>6, <2>7, <2>8, <2>9, <2>10 DEF CallStep
  <1>8. CASE UNCHANGED vars
    BY <1>0, <1>8, AskedStays DEF vars
  <1>9. QED
    BY <1>0, <1>1, <1>2, <1>3, <1>4, <1>5, <1>6, <1>7, <1>8, ClientShapes DEF Next

LEMMA OwnedInit == Init => Counted /\ Owned /\ Asked
  <1> SUFFICES ASSUME Init PROVE Counted /\ Owned /\ Asked
    OBVIOUS
  <1>1. \A c \in Calls : call[c].at = "idle" /\ call[c].kind = "call" /\ call[c].pair = 0
    BY IdleOK DEF Init
  <1>2. QED
    BY <1>1 DEF Init, Counted, Owned, Asked, Strange, Refreshing, RefreshSteps, Asking

\* On an orderly device the event stream is the signed-in user's own, for any
\* number of users, calls, retries of the stream and reloads (app.js:907-910).
THEOREM StreamBelongs == Spec => []StreamIsOwn
  <1>1. CASE Orderly
    <2>1. Typed /\ Counted /\ Owned /\ Asked /\ [Next]_vars
            => (Typed /\ Counted /\ Owned /\ Asked)'
      BY <1>1, TypedNext, CountedNext, OwnedNext, AskedNext
    <2>2. Owned => StreamIsOwn
      BY DEF Owned, StreamIsOwn
    <2>3. QED
      BY <2>1, <2>2, TypedInit, OwnedInit, PTL DEF Spec
  <1>2. CASE ~Orderly
    <2>1. StreamIsOwn
      BY <1>2 DEF StreamIsOwn
    <2>2. QED
      BY <2>1, PTL
  <1>3. QED
    BY <1>1, <1>2

-----------------------------------------------------------------------------
(* An orderly device: the pair it holds is the one the server accepts      *)

\* The session of a pair lives, or was ended from elsewhere.
Alive(n) == token[n].live \/ n \in lost
Survives(n) == token'[n].live \/ n \in lost'

Held ==
    /\ kept # 0 => kept \notin bye
    /\ \A c \in Calls : call[c].at \in Asking => call[c].pair \notin bye
    /\ kept # 0 => Alive(kept) \/ \E c \in Calls : Refreshing(c)
    /\ \A c \in Calls : call[c].at = "refresh_ok" => Alive(call[c].pair)
    /\ \A c \in Calls : Strange(c) /\ call[c].at = "ok" =>
          /\ Alive(call[c].pair)
          /\ call[c].pair \notin bye /\ call[c].pair # kept
          /\ \A d \in Calls : call[d].at \in Asking => call[d].pair # call[c].pair

\* No session is ended but that of x and those that sign out.
Aged(x) ==
    \A n \in Pairs : n <= issued /\ n \notin bye /\ n # x /\ Alive(n) => Survives(n)

LEMMA PairsOf ==
  ASSUME Typed, Counted, Asked
  PROVE  /\ kept # 0 => kept \in Pairs /\ kept <= issued
         /\ \A c \in Calls : call[c].pair # 0 => call[c].pair \in Pairs
         /\ \A c \in Calls : call[c].pair <= issued
         /\ \A c \in Calls : call[c].at \in Asking => call[c].pair # 0
         /\ \A c \in Calls : Strange(c) /\ call[c].at = "ok" => call[c].pair # 0
  <1>0. ClientOK /\ CallsOK
    BY TypedIs
  <1>1. kept # 0 => kept \in Pairs
    BY <1>0, WebClientAssumption DEF ClientOK, Pairs
  <1>2. \A c \in Calls : call[c].pair # 0 => call[c].pair \in Pairs
    BY <1>0, CallOf, WebClientAssumption DEF Pairs
  <1>3. QED
    BY <1>0, <1>1, <1>2 DEF Counted, Asked, CallsOK

LEMMA QuietAges == UNCHANGED <<token, lost>> => Aged(0)
  BY DEF Aged, Alive, Survives

LEMMA ServerAges ==
  ASSUME Typed
  PROVE  /\ \A n \in Pairs : ByeServe(n) \/ ExpireAccess(n) => Aged(0)
         /\ \A u \in Users : Revoke(u) => Aged(0)
         /\ Load => Aged(0)
  <1>0. ServerOK
    BY TypedIs
  <1>1. ASSUME NEW n \in Pairs, ByeServe(n) PROVE Aged(0)
    <2>1. n \in bye /\ lost' = lost
      BY <1>1 DEF ByeServe
    <2>2. \A m \in Pairs : m # n => token'[m] = token[m]
      BY <1>0, <1>1 DEF ByeServe, ServerOK
    <2>3. QED
      BY <2>1, <2>2 DEF Aged, Alive, Survives
  <1>2. ASSUME NEW n \in Pairs, ExpireAccess(n) PROVE Aged(0)
    <2>1. lost' = lost /\ \A m \in Pairs : token'[m].live = token[m].live
      BY <1>0, <1>2 DEF ExpireAccess, ServerOK
    <2>2. QED
      BY <2>1 DEF Aged, Alive, Survives
  <1>3. ASSUME NEW u \in Users, Revoke(u) PROVE Aged(0)
    <2>1. \A m \in Pairs : token[m].user # u => token'[m] = token[m]
      BY <1>0, <1>3 DEF Revoke
    <2>2. \A m \in Pairs : token[m].user = u => m \in lost'
      BY <1>3 DEF Revoke
    <2>3. lost \subseteq lost'
      BY <1>3 DEF Revoke
    <2>4. QED
      BY <2>1, <2>2, <2>3 DEF Aged, Alive, Survives
  <1>4. ASSUME Load PROVE Aged(0)
    <2>1. token' = token /\ lost \subseteq lost'
      BY <1>4 DEF Load
    <2>2. QED
      BY <2>1 DEF Aged, Alive, Survives
  <1>5. QED
    BY <1>1, <1>2, <1>3, <1>4

\* The calls stay where they are.
LEMMA HeldStays ==
  ASSUME Typed, Counted, Asked, Held, Aged(0), kept' = kept, bye' \subseteq bye,
         UNCHANGED call
  PROVE  Held'
  <1>1. kept # 0 => (Alive(kept) => Survives(kept))
    BY PairsOf DEF Aged, Held, Pairs
  <1>2. \A c \in Calls : call[c].at = "refresh_ok" => Survives(call[c].pair)
    BY PairsOf DEF Aged, Held, Pairs, Asking
  <1>3. \A c \in Calls : Strange(c) /\ call[c].at = "ok" => Survives(call[c].pair)
    BY PairsOf DEF Aged, Held, Pairs
  <1>4. QED
    BY <1>1, <1>2, <1>3 DEF Held, Refreshing, Strange, Alive, Survives

\* One call moves; it may be the one whose pair is rotated.
LEMMA HeldMoves ==
  ASSUME Typed, Counted, Asked, Held, kept' = kept, bye' \subseteq bye,
         NEW c \in Calls, Only(c), NEW x \in Nat, Aged(x),
         x # 0 => x = call[c].pair /\ call[c].at \in Asking,
         Refreshing(c) => Refreshing(c)',
         call'[c].at \in Asking =>
            /\ call'[c].pair \notin bye
            /\ \A d \in Calls : d # c /\ Strange(d) /\ call[d].at = "ok"
                  => call[d].pair # call'[c].pair,
         call'[c].at = "refresh_ok" => Survives(call'[c].pair),
         Strange(c)' /\ call'[c].at = "ok" =>
            /\ Survives(call'[c].pair)
            /\ call'[c].pair \notin bye /\ call'[c].pair # kept
            /\ \A d \in Calls : d # c /\ call[d].at \in Asking
                  => call[d].pair # call'[c].pair
  PROVE  Held'
  <1>0. \A d \in Calls : d # c => /\ call'[d] = call[d] /\ (Strange(d)' <=> Strange(d))
                                  /\ (Refreshing(d)' <=> Refreshing(d))
    BY DEF Only, Strange, Refreshing
  <1>1. kept # 0 => Survives(kept) \/ \E d \in Calls : Refreshing(d)'
    <2>1. CASE \E d \in Calls : Refreshing(d)
      BY <1>0, <2>1
    <2>2. CASE \A d \in Calls : ~Refreshing(d)
      <3>1. x = 0
        BY <2>2 DEF Refreshing, RefreshSteps, Asking
      <3>2. QED
        BY <2>2, <3>1, PairsOf DEF Held, Aged
    <2>3. QED
      BY <2>1, <2>2
  <1>2. \A d \in Calls : call'[d].at = "refresh_ok" => Survives(call'[d].pair)
    <2> SUFFICES ASSUME NEW d \in Calls, d # c, call[d].at = "refresh_ok"
                 PROVE  Survives(call[d].pair)
      BY <1>0
    <2>1. Alive(call[d].pair) /\ call[d].pair \notin bye /\ call[d].pair \in Pairs
          /\ call[d].pair <= issued
      BY PairsOf DEF Held, Asking
    <2>2. x = 0
      BY DEF Asked, Refreshing, RefreshSteps, Asking
    <2>3. QED
      BY <1>0, <2>1, <2>2 DEF Aged, Pairs
  <1>3. \A d \in Calls : d # c /\ Strange(d) /\ call[d].at = "ok" => Survives(call[d].pair)
    <2> SUFFICES ASSUME NEW d \in Calls, d # c, Strange(d), call[d].at = "ok"
                 PROVE  Survives(call[d].pair)
      OBVIOUS
    <2>1. Alive(call[d].pair) /\ call[d].pair \notin bye /\ call[d].pair \in Pairs
          /\ call[d].pair <= issued /\ call[d].pair # 0
      BY PairsOf DEF Held
    <2>2. x # call[d].pair
      BY <2>1 DEF Held
    <2>3. QED
      BY <1>0, <2>1, <2>2 DEF Aged
  <1>4. \A d \in Calls : call'[d].at \in Asking => call'[d].pair \notin bye'
    BY <1>0 DEF Held
  <1>5. \A d \in Calls : Strange(d)' /\ call'[d].at = "ok" =>
          /\ Survives(call'[d].pair)
          /\ call'[d].pair \notin bye' /\ call'[d].pair # kept'
          /\ \A e \in Calls : call'[e].at \in Asking => call'[e].pair # call'[d].pair
    <2> SUFFICES ASSUME NEW d \in Calls, Strange(d)', call'[d].at = "ok"
                 PROVE  /\ Survives(call'[d].pair)
                        /\ call'[d].pair \notin bye' /\ call'[d].pair # kept'
                        /\ \A e \in Calls : call'[e].at \in Asking
                              => call'[e].pair # call'[d].pair
      OBVIOUS
    <2>1. CASE d = c
      BY <1>0, <2>1 DEF Asking
    <2>2. CASE d # c
      <3>1. call'[d] = call[d] /\ Strange(d) /\ call[d].at = "ok"
        BY <1>0, <2>2
      <3>2. Survives(call'[d].pair)
        BY <1>3, <2>2, <3>1
      <3>3. \A e \in Calls : call'[e].at \in Asking => call'[e].pair # call'[d].pair
        BY <1>0, <2>2, <3>1 DEF Held
      <3>4. QED
        BY <3>1, <3>2, <3>3 DEF Held
    <2>3. QED
      BY <2>1, <2>2
  <1>6. QED
    BY <1>1, <1>2, <1>4, <1>5 DEF Held, Alive, Survives

LEMMA HeldNext ==
  ASSUME Orderly, Typed, Counted, Owned, Asked, Held, [Next]_vars
  PROVE  Held'
  <1>0. ClientOK /\ ServerOK /\ CallsOK
    BY TypedIs
  <1>1. CASE UNCHANGED vars
    BY <1>1, QuietAges, HeldStays DEF vars
  <1>2. ASSUME Stays, UNCHANGED call, Aged(0) PROVE Held'
    BY <1>2, HeldStays DEF Stays
  <1>3. CASE \/ \E screen \in Screens : Navigate(screen)
             \/ TripCallback \/ StreamError \/ StreamRetry
    <2>1. Stays /\ UNCHANGED <<call, token, lost>>
      BY <1>0, <1>3, ClientShapes DEF Navigate, TripCallback, StreamError, StreamRetry
    <2>2. QED
      BY <1>2, <2>1, QuietAges
  <1>4. CASE \/ \E n \in Pairs : ByeServe(n) \/ ExpireAccess(n)
             \/ \E u \in Users : Revoke(u)
    BY <1>0, <1>2, <1>4, ClientShapes, ServerAges
  <1>5. CASE UserLogout
    <2>1. Out /\ UNCHANGED <<call, token, lost>> /\ \A d \in Calls : ~Refreshing(d)
      BY <1>0, <1>5, ClientShapes DEF UserLogout, NoRefresh
    <2>2. \A d \in Calls : call[d].at \notin Asking
      BY <2>1 DEF Asking, Refreshing, RefreshSteps
    <2>3. QED
      BY <2>1, <2>2, PairsOf DEF Out, Held, Alive, Strange, Asking
  <1>6. CASE \/ Reload
             \/ \E c \in Calls, u \in Users : OAuthReturn(c, u)
    <2>1. Load /\ Loaded /\ Aged(0)
      BY <1>0, <1>6, ClientShapes, ServerAges DEF Reload, OAuthReturn
    <2>2. \A d \in Calls : call'[d].at \in {"idle", "sent"}
      <3>1. CASE Reload
        BY <3>1, IdleOK DEF Reload
      <3>2. CASE \E c \in Calls, u \in Users : OAuthReturn(c, u)
        BY <1>0, <3>2, StartShapes, IdleOK DEF Begins
      <3>3. QED
        BY <1>6, <3>1, <3>2
    <2>3. kept # 0 => Survives(kept)
      <3>1. CASE \E c \in Calls : Refreshing(c)
        BY <2>1, <3>1 DEF Load, Survives
      <3>2. CASE \A c \in Calls : ~Refreshing(c)
        BY <2>1, <3>2, PairsOf DEF Held, Aged, Pairs
      <3>3. QED
        BY <3>1, <3>2
    <2>4. kept' = kept /\ bye' = bye
      BY <2>1 DEF Loaded
    <2>5. \A d \in Calls : call'[d].at \notin Asking /\ call'[d].at # "ok"
      BY <2>2 DEF Asking
    <2>6. QED
      BY <2>3, <2>4, <2>5 DEF Held, Alive, Survives, Asking
  <1>7. ASSUME NEW c \in Calls, CallStart(c) PROVE Held'
    <2>1. Stays /\ Only(c) /\ Begins(c, "call", Idle.user, kept) /\ call[c].at = "idle"
          /\ UNCHANGED <<token, lost>>
      BY <1>0, <1>7, ClientShapes, StartShapes, IdleOK DEF CallStart
    <2>2. Aged(0) /\ 0 \in Nat
      BY <2>1, QuietAges
    <2>3. QED
      BY <2>1, <2>2, HeldMoves DEF Begins, Stays, Strange, Asking, Refreshing, RefreshSteps
  <1>8. ASSUME NEW c \in Calls, NEW u \in Users, LoginSubmit(c, u) PROVE Held'
    <2>1. Stays /\ Only(c) /\ Begins(c, "login", u, 0) /\ call[c].at = "idle"
          /\ UNCHANGED <<token, lost>>
      BY <1>0, <1>8, ClientShapes, StartShapes DEF LoginSubmit
    <2>2. Aged(0) /\ 0 \in Nat
      BY <2>1, QuietAges
    <2>3. QED
      BY <2>1, <2>2, HeldMoves DEF Begins, Stays, Strange, Asking, Refreshing, RefreshSteps
  <1>9. ASSUME NEW c \in Calls, CallStep(c) PROVE Held'
    <2> USE DEF Refreshing, RefreshSteps, Asking
    <2>1. CASE LoginServe(c)
      <3>1. Stays /\ Strange(c) /\ call[c].at = "sent" /\ lost' = lost
        BY <1>0, <2>1, ClientShapes DEF LoginServe, Strange
      <3>2. CASE Becomes(c, "ok", issued + 1) /\ Issue(call[c].user, token, TRUE)
        <4>1. /\ token'[issued + 1] = [user |-> call[c].user, fresh |-> TRUE, live |-> TRUE]
              /\ \A n \in Pairs : n <= issued => token'[n] = token[n]
              /\ issued \in Nat
          <5>1. issued \in Nat
            BY <1>0, WebClientAssumption DEF ServerOK
          <5>2. call[c].user \in Users
            BY <1>0, CallOf
          <5>3. /\ token \in [Pairs -> [user : Users, fresh : BOOLEAN, live : BOOLEAN]]
                /\ \A n \in Pairs : token[n].user = token[n].user
            BY <1>0 DEF ServerOK
          <5>4. QED
            BY <1>0, <3>2, <5>1, <5>2, <5>3, IssueStable, ZenonT(60)
        <4>2. Aged(0) /\ Survives(issued + 1)
          BY <3>1, <4>1 DEF Aged, Alive, Survives
        <4>3. /\ issued + 1 \notin bye /\ issued + 1 # kept
              /\ \A d \in Calls : call[d].pair # issued + 1
          BY <1>0, <4>1 DEF Counted, ClientOK
        <4>4. 0 \in Nat
          OBVIOUS
        <4>5. QED
          BY <3>1, <3>2, <4>2, <4>3, <4>4, HeldMoves DEF Becomes, Stays, Strange
      <3>3. CASE Becomes(c, "refused", call[c].pair) /\ UNCHANGED <<token, issued>>
        <4>1. Aged(0) /\ 0 \in Nat
          BY <3>1, <3>3, QuietAges
        <4>2. QED
          BY <3>1, <3>3, <4>1, HeldMoves DEF Becomes, Stays, Strange
      <3>4. QED
        BY <1>0, <2>1, <3>2, <3>3, Shapes
    <2>2. CASE LoginOk(c)
      <3>1. /\ Ends(c) /\ UNCHANGED <<token, lost, bye>> /\ kept' = call[c].pair
            /\ Strange(c) /\ call[c].at = "ok"
        BY <1>0, <2>2, Shapes DEF LoginOk, Strange
      <3>2. call'[c].at = "idle" /\ call'[c].kind = "call"
        BY <3>1, IdleOK DEF Ends
      <3>3. \A d \in Calls : ~Strange(d)'
        BY <3>1, <3>2 DEF Ends, Only, Strange, Asked
      <3>4. \A d \in Calls : call'[d].at \in Asking => call'[d] = call[d]
        BY <3>1, <3>2 DEF Ends, Only
      <3>5. Alive(kept') /\ kept' \notin bye'
        BY <3>1 DEF Held
      <3>6. QED
        BY <3>1, <3>3, <3>4, <3>5 DEF Held, Alive
    <2>3. CASE CallOk(c) \/ CallRefusedTwice(c) \/ CallLost(c)
      <3>1. Ends(c) /\ Stays /\ UNCHANGED <<token, lost>> /\ ~Refreshing(c)
        BY <1>0, <2>3, Shapes, ClientShapes DEF CallOk, CallRefusedTwice, CallLost
      <3>2. Aged(0) /\ 0 \in Nat /\ call'[c].at = "idle" /\ Only(c)
        BY <3>1, QuietAges, IdleOK DEF Ends
      <3>3. QED
        BY <3>1, <3>2, HeldMoves DEF Stays
    <2>4. CASE CallSignsOut(c)
      <3>1. Ends(c) /\ Out /\ UNCHANGED <<token, lost>>
        BY <1>0, <2>4, Shapes, ClientShapes DEF CallSignsOut
      <3>2. \A d \in Calls \ {c} : ~Refreshing(d)
        <4>1. CASE kept = 0
          BY <4>1 DEF Asked, Owned
        <4>2. CASE kept # 0
          BY <2>4, <4>2 DEF CallSignsOut, Asked
        <4>3. QED
          BY <4>1, <4>2
      <3>3. call'[c].at = "idle" /\ \A d \in Calls \ {c} : call'[d] = call[d]
        BY <3>1, IdleOK DEF Ends, Only
      <3>4. \A d \in Calls : call'[d].at \notin Asking
        BY <3>2, <3>3
      <3>5. QED
        BY <3>1, <3>3, <3>4, PairsOf DEF Held, Out, Strange, Alive
    <2>5. CASE CallServe(c)
      <3>1. Stays /\ ~Strange(c) /\ UNCHANGED <<token, lost>> /\ call[c].at = "sent"
        BY <1>0, <2>5, ClientShapes DEF CallServe, Strange
      <3>2. Aged(0) /\ 0 \in Nat
        BY <3>1, QuietAges
      <3>3. CASE Becomes(c, "ok", 0)
        BY <3>1, <3>2, <3>3, HeldMoves DEF Becomes, Stays, Strange
      <3>4. CASE Becomes(c, "refused", 0)
        BY <3>1, <3>2, <3>4, HeldMoves DEF Becomes, Stays, Strange
      <3>5. QED
        BY <1>0, <2>5, <3>3, <3>4, Shapes
    <2>6. CASE CallRefused(c)
      <3>1. Stays /\ Becomes(c, "refresh_sent", kept) /\ UNCHANGED <<token, lost>>
            /\ call[c].at = "refused" /\ kept # 0
        BY <1>0, <2>6, Shapes, ClientShapes DEF CallRefused
      <3>2. Aged(0) /\ 0 \in Nat
        BY <3>1, QuietAges
      <3>3. /\ kept \notin bye
            /\ \A d \in Calls : Strange(d) /\ call[d].at = "ok" => call[d].pair # kept
        BY <3>1 DEF Held
      <3>4. QED
        BY <3>1, <3>2, <3>3, HeldMoves DEF Becomes, Stays
    <2>7. CASE RefreshFind(c)
      <3>1. Stays /\ call[c].at = "refresh_sent" /\ UNCHANGED <<token, lost>>
        BY <1>0, <2>7, ClientShapes DEF RefreshFind
      <3>2. Aged(0) /\ 0 \in Nat
        BY <3>1, QuietAges
      <3>3. /\ call[c].pair \notin bye
            /\ \A d \in Calls : Strange(d) /\ call[d].at = "ok" => call[d].pair # call[c].pair
        BY <3>1 DEF Held
      <3>4. CASE Becomes(c, "refresh_found", call[c].pair)
        BY <3>1, <3>2, <3>3, <3>4, HeldMoves DEF Becomes, Stays
      <3>5. CASE Becomes(c, "refresh_refused", 0)
        BY <3>1, <3>2, <3>5, HeldMoves DEF Becomes, Stays
      <3>6. QED
        BY <1>0, <2>7, <3>4, <3>5, Shapes
    <2>8. CASE RefreshRotate(c)
      <3> DEFINE x == call[c].pair
      <3>1. Stays /\ call[c].at = "refresh_found" /\ Becomes(c, "refresh_ok", issued + 1)
        BY <1>0, <2>8, ClientShapes, Shapes DEF RefreshRotate
      <3>2. x \in Pairs /\ Rotate(x)
        BY <1>0, <2>8, CallOf DEF RefreshRotate
      <3>3. /\ issued \in Nat /\ token'[issued + 1].live = token[x].live
            /\ \A m \in Pairs : m <= issued /\ m # x => token'[m] = token[m]
        BY <1>0, <3>2, RotateStable DEF ServerOK
      <3>4. /\ lost \subseteq lost'
            /\ ~token[x].live => issued + 1 \in lost'
        BY <3>2 DEF Rotate
      <3>5. Aged(x) /\ Survives(issued + 1) /\ x \in Nat
        BY <3>2, <3>3, <3>4 DEF Aged, Alive, Survives, Pairs
      <3>6. /\ issued + 1 \notin bye
            /\ \A d \in Calls : call[d].pair # issued + 1
        BY <1>0, <3>3 DEF Counted
      <3> HIDE DEF x
      <3>7. x = call[c].pair
        BY DEF x
      <3>8. QED
        BY <3>1, <3>5, <3>6, <3>7, HeldMoves DEF Becomes, Stays
    <2>9. CASE RefreshOk(c)
      <3>1. /\ UNCHANGED <<token, lost, bye>> /\ call[c].at = "refresh_ok"
            /\ kept' = call[c].pair
        BY <2>9 DEF RefreshOk
      <3>2. /\ Only(c) /\ call'[c].at = "sent"
        BY <1>0, <2>9, Shapes DEF Becomes
      <3>3. Alive(kept') /\ kept' \notin bye'
        BY <3>1 DEF Held
      <3>4. \A d \in Calls : d # c => call'[d] = call[d] /\ (Strange(d)' <=> Strange(d))
        BY <3>2 DEF Only, Strange
      <3>5. \A d \in Calls : call'[d].at \in Asking => call'[d] = call[d] /\ d # c
        BY <3>2, <3>4
      <3>6. \A d \in Calls : Strange(d)' /\ call'[d].at = "ok" =>
               call'[d] = call[d] /\ Strange(d) /\ call[d].pair # kept'
        BY <3>1, <3>2, <3>4 DEF Held
      <3>7. QED
        BY <3>1, <3>3, <3>5, <3>6 DEF Held, Alive
    <2>10. CASE RefreshLost(c)
      <3>1. Stays /\ Becomes(c, "refresh_refused", 0) /\ UNCHANGED <<token, lost>>
        BY <1>0, <2>10, ClientShapes, Shapes DEF RefreshLost
      <3>2. Aged(0) /\ 0 \in Nat
        BY <3>1, QuietAges
      <3>3. QED
        BY <3>1, <3>2, HeldMoves DEF Becomes, Stays
    <2>11. QED
      BY <1>9, <2>1, <2>2, <2>3, <2>4, <2>5, <2>6, <2>7, <2>8, <2>9, <2>10 DEF CallStep
  <1>10. QED
    BY <1>1, <1>3, <1>4, <1>5, <1>6, <1>7, <1>8, <1>9 DEF Next

\* On an orderly device a session that is still good is never given up: while
\* signed in, the pair kept is the one whose session lives, but for a refresh on
\* its way, one whose answer was lost, or a revocation (app.js:84-87).
THEOREM SessionIsHeld == Spec => []ClientHoldsSession
  <1>1. CASE Orderly
    <2>1. Typed /\ Counted /\ Owned /\ Asked /\ Held /\ [Next]_vars
            => (Typed /\ Counted /\ Owned /\ Asked /\ Held)'
      BY <1>1, TypedNext, CountedNext, OwnedNext, AskedNext, HeldNext
    <2>2. Init => Held
      <3> SUFFICES ASSUME Init PROVE Held
        OBVIOUS
      <3>1. \A c \in Calls : call[c].at = "idle"
        BY IdleOK DEF Init
      <3>2. QED
        BY <3>1 DEF Init, Held, Asking
    <2>3. Owned /\ Held => ClientHoldsSession
      BY DEF Owned, Held, Alive, ClientHoldsSession
    <2>4. QED
      BY <2>1, <2>2, <2>3, TypedInit, OwnedInit, PTL DEF Spec
  <1>2. CASE ~Orderly
    <2>1. ClientHoldsSession
      BY <1>2 DEF ClientHoldsSession
    <2>2. QED
      BY <2>1, PTL
  <1>3. QED
    BY <1>1, <1>2
=============================================================================
