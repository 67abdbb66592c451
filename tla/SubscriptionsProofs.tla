------------------------ MODULE SubscriptionsProofs ------------------------
(***************************************************************************)
(* Theorems about Subscriptions, for every month, batch limit and number   *)
(* of processes.                                                           *)
(***************************************************************************)
EXTENDS Subscriptions, FiniteSetTheorems, TLAPS

-----------------------------------------------------------------------------
(* Processes                                                               *)

ProcsOK == proc \in [Procs -> Proc]

Process(p) == Subscriber(p) \/ Batch(p) \/ Remind(p) \/ Abort(p)

LEMMA IdleOK == Idle \in Proc /\ Idle.at = "idle" /\ Idle.left = {} /\ Idle.slot \in Slots
  <1>1. (CHOOSE d \in Slots : TRUE) \in Slots
    BY SubscriptionsAssumption DEF Slots
  <1>2. 0 \in 0..MaxIntents
    BY SubscriptionsAssumption
  <1>3. QED
    BY <1>1, <1>2 DEF Idle, Proc, Steps

\* What a process may do to its own slot in proc.
LEMMA Takes ==
  ASSUME ProcsOK, NEW p \in Procs, NEW v \in Proc, proc' = [proc EXCEPT ![p] = v]
  PROVE  ProcsOK' /\ proc'[p] = v /\ \A q \in Procs \ {p} : proc'[q] = proc[q]
  BY DEF ProcsOK

LEMMA DoneOK ==
  ASSUME ProcsOK, NEW p \in Procs, Done(p)
  PROVE  ProcsOK' /\ proc'[p].at = "idle" /\ \A q \in Procs \ {p} : proc'[q] = proc[q]
  BY IdleOK, Takes DEF Done

LEMMA GotoOK ==
  ASSUME ProcsOK, NEW p \in Procs, NEW s \in Steps, Goto(p, s)
  PROVE  /\ ProcsOK'
         /\ proc'[p].at = s /\ proc'[p].left = proc[p].left
         /\ proc'[p].placed = proc[p].placed /\ proc'[p].slot = proc[p].slot
         /\ proc'[p].intent = proc[p].intent /\ proc'[p].failed = proc[p].failed
         /\ \A q \in Procs \ {p} : proc'[q] = proc[q]
  BY DEF ProcsOK, Proc, Goto

\* Which step leads where, and with what.
Goes(p) ==
    LET v == proc[p]
        w == proc'[p]
        same == w.slot = v.slot /\ w.intent = v.intent /\ w.left = v.left
    IN
    \/ w.at = "idle" /\ v.at # "idle"
    \/ w.at \in {"create_insert", "cancel_sub"} /\ v.at = "idle" /\ Alone
    \/ w.at = "pay_create" /\ v.at = "idle" /\ Alone /\ MayPay
    \/ w.at = "skip_write" /\ v.at = "idle" /\ Alone
    \/ w.at = "batch" /\ v.at \in {"idle"} \union BatchSteps
    \/ w.at = "remind_put" /\ v.at = "idle" /\ RemindGet(p)
    \/ w.at = "create_days" /\ v.at = "create_insert" /\ w.left = Days
    \/ /\ w.at = "create_days" /\ v.at = "create_days"
       /\ \E d \in v.left : /\ w.left = v.left \ {d}
                            /\ w.failed \/ (CreateDay(p, d) /\ ~v.failed)
    \/ w.at = "cancel_days" /\ v.at = "cancel_sub" /\ same
    \/ w.at = "pay_write" /\ v.at = "pay_create" /\ PayCreate(p) /\ w.intent = issued + 1
    \/ w.at = "batch_request" /\ v.at = "batch"
    \/ w.at = "batch_find" /\ v.at = "batch_request" /\ same /\ request[v.slot] = "none" /\ BatchRequest(p)
    \/ w.at = "batch_save" /\ v.at = "batch_find" /\ same /\ BatchFind(p)
    \/ w.at = "batch_tell" /\ v.at = "batch_save" /\ same /\ BatchSave(p)
    \/ w.at = "batch_matched" /\ v.at = "batch_tell" /\ same /\ BatchTell(p)
    \/ w.at = "remind_send" /\ v.at = "remind_put" /\ RemindPut(p)

LEMMA ControlFlow ==
  ASSUME TypeOK, NEW p \in Procs, Process(p)
  PROVE  ProcsOK' /\ Goes(p) /\ \A q \in Procs \ {p} : proc'[q] = proc[q]
  <1> DEFINE Goal == ProcsOK' /\ Goes(p) /\ \A q \in Procs \ {p} : proc'[q] = proc[q]
  <1>0. ProcsOK /\ proc[p] \in Proc
    BY DEF TypeOK, ProcsOK
  <1> USE DEF UserSteps, BatchSteps, RemindSteps
  <1>1. CASE CreateRead(p)
    <2> DEFINE v == [Idle EXCEPT !.at = "create_insert"]
    <2>1. v \in Proc /\ v.at = "create_insert"
      BY IdleOK DEF Proc, Steps
    <2>2. Start(p, v)
      BY <1>1 DEF CreateRead
    <2> HIDE DEF v
    <2>3. QED
      BY <1>0, <1>1, <2>1, <2>2, Takes DEF Start, Goes, CreateRead
  <1>2. CASE CancelRead(p)
    <2> DEFINE v == [Idle EXCEPT !.at = "cancel_sub"]
    <2>1. v \in Proc /\ v.at = "cancel_sub"
      BY IdleOK DEF Proc, Steps
    <2>2. Start(p, v)
      BY <1>2 DEF CancelRead
    <2> HIDE DEF v
    <2>3. QED
      BY <1>0, <1>2, <2>1, <2>2, Takes DEF Start, Goes, CancelRead
  <1>3. CASE PayRead(p)
    <2> DEFINE v == [Idle EXCEPT !.at = "pay_create"]
    <2>1. v \in Proc /\ v.at = "pay_create"
      BY IdleOK DEF Proc, Steps
    <2>2. Start(p, v)
      BY <1>3 DEF PayRead
    <2> HIDE DEF v
    <2>3. QED
      BY <1>0, <1>3, <2>1, <2>2, Takes DEF Start, Goes, PayRead
  <1>4. ASSUME NEW d \in Slots, SkipRead(p, d) PROVE Goal
    <2> DEFINE v == [Idle EXCEPT !.at = "skip_write", !.slot = d]
    <2>1. v \in Proc /\ v.at = "skip_write"
      BY IdleOK DEF Proc, Steps
    <2>2. Start(p, v)
      BY <1>4 DEF SkipRead
    <2> HIDE DEF v
    <2>3. QED
      BY <1>0, <1>4, <2>1, <2>2, Takes DEF Start, Goes, SkipRead
  <1>5. CASE RemindGet(p)
    <2> DEFINE v == [Idle EXCEPT !.at = "remind_put"]
    <2>1. v \in Proc /\ v.at = "remind_put"
      BY IdleOK DEF Proc, Steps
    <2>2. Start(p, v)
      BY <1>5 DEF RemindGet
    <2> HIDE DEF v
    <2>3. QED
      BY <1>0, <1>5, <2>1, <2>2, Takes DEF Start, Goes
  <1>6. CASE BatchList(p)
    <2>1. PICK listed \in SUBSET Scheduled :
             Start(p, [Idle EXCEPT !.at = "batch", !.left = listed,
                                   !.placed = listed \intersect Placed])
      BY <1>6 DEF BatchList
    <2> DEFINE v == [Idle EXCEPT !.at = "batch", !.left = listed,
                                 !.placed = listed \intersect Placed]
    <2>2. v \in Proc /\ v.at = "batch"
      BY IdleOK DEF Proc, Steps, Scheduled, Placed
    <2>3. Start(p, v)
      BY <2>1
    <2> HIDE DEF v
    <2>4. QED
      BY <1>0, <2>2, <2>3, Takes DEF Start, Goes
  <1>7. CASE CreateInsert(p)
    BY <1>0, <1>7, DoneOK DEF CreateInsert, ProcsOK, Proc, Steps, Goes, Slots
  <1>8. ASSUME NEW d \in Slots, CreateDay(p, d) PROVE Goal
    <2>1. /\ ProcsOK' /\ proc'[p].at = "create_days" /\ proc'[p].left = proc[p].left \ {d}
          /\ proc'[p].failed = (proc[p].failed \/ day[d].status # "none")
          /\ \A q \in Procs \ {p} : proc'[q] = proc[q]
      BY <1>0, <1>8 DEF CreateDay, ProcsOK, Proc, Steps
    <2>2. d \in proc[p].left /\ proc[p].at = "create_days"
      BY <1>8 DEF CreateDay
    <2>3. proc[p].failed => proc'[p].failed
      BY <2>1
    <2>4. QED
      BY <1>8, <2>1, <2>2, <2>3 DEF Goes
  <1>9. ASSUME NEW d \in Slots, CreateDayFails(p, d) PROVE Goal
    BY <1>0, <1>9 DEF CreateDayFails, ProcsOK, Proc, Steps, Goes
  <1>10. CASE CreateAnswer(p) \/ CancelDays(p) \/ PayWrite(p) \/ SkipWrite(p) \/ BatchEnd(p) \/ RemindSend(p)
    BY <1>0, <1>10, DoneOK DEF CreateAnswer, CancelDays, PayWrite, SkipWrite, BatchEnd, RemindSend, Goes
  <1>11. CASE CancelSub(p) \/ BatchRequest(p) \/ BatchFind(p)
    BY <1>0, <1>11, GotoOK DEF CancelSub, BatchRequest, BatchFind, Steps, Goes
  <1>12. CASE BatchSave(p) \/ BatchTell(p) \/ BatchMatched(p) \/ RemindPut(p)
    BY <1>0, <1>12, GotoOK DEF BatchSave, BatchTell, BatchMatched, RemindPut, Steps, Goes
  <1>13. CASE PayCreate(p)
    <2>1. issued + 1 \in 0..MaxIntents
      BY <1>13, SubscriptionsAssumption DEF PayCreate, TypeOK
    <2>2. /\ ProcsOK' /\ proc'[p].at = "pay_write" /\ proc'[p].intent = issued + 1
          /\ \A q \in Procs \ {p} : proc'[q] = proc[q]
      BY <1>0, <1>13, <2>1 DEF PayCreate, ProcsOK, Proc, Steps
    <2>3. proc[p].at = "pay_create"
      BY <1>13 DEF PayCreate
    <2>4. QED
      BY <1>13, <2>2, <2>3 DEF Goes
  <1>14. ASSUME NEW d \in Slots, BatchMark(p, d) PROVE Goal
    BY <1>0, <1>14 DEF BatchMark, ProcsOK, Proc, Steps, Goes
  <1>15. CASE Abort(p)
    BY <1>0, <1>15, DoneOK, GotoOK DEF Abort, Steps, Goes
  <1>16. QED
    BY <1>1, <1>2, <1>3, <1>4, <1>5, <1>6, <1>7, <1>8, <1>9, <1>10, <1>11, <1>12, <1>13,
       <1>14, <1>15 DEF Process, Subscriber, Batch, Remind

\* Every step is a process's, or one of those that no process is needed for.
LEMMA StepsOf ==
  ASSUME [Next]_vars
  PROVE  \/ \E p \in Procs : Process(p)
         \/ \E d \in Slots, placed \in BOOLEAN : UpsertDay(d, placed)
         \/ \E n \in 1..MaxIntents : Charge(n) \/ Webhook(n)
         \/ UNCHANGED vars
  BY DEF Next, Process

LEMMA OthersAnswerNot ==
  ASSUME NEW p \in Procs, Process(p), ~CreateAnswer(p)
  PROVE  answered' = answered
  <1>1. CASE Subscriber(p)
    BY <1>1 DEF Subscriber, CreateRead, CancelRead, PayRead, PayCreate, PayWrite, CreateInsert,
       CancelSub, CancelDays, SkipWrite, CreateDay, CreateDayFails, SkipRead
  <1>2. CASE Batch(p)
    BY <1>2 DEF Batch, BatchList, BatchEnd, BatchRequest, BatchFind, BatchSave, BatchTell,
       BatchMatched, BatchMark
  <1>3. CASE Remind(p) \/ Abort(p)
    BY <1>3 DEF Remind, RemindGet, RemindPut, RemindSend, Abort
  <1>4. QED
    BY <1>1, <1>2, <1>3 DEF Process

\* The webhook never finds a subscription in an event: the metadata name none.
LEMMA WebhookPasses ==
  ASSUME NEW n, Webhook(n)
  PROVE  sub' = sub
  BY DEF Webhook, Required, Metadata

-----------------------------------------------------------------------------
(* Types                                                                   *)

RowsOK ==
    /\ sub \in [status : {"none", "pending_payment", "active", "cancelled"},
                payment : {"unpaid", "pending", "paid"}, intent : 0..MaxIntents]
    /\ day \in [Slots -> [status : DayStatus, placed : BOOLEAN]]
    /\ request \in [Slots -> {"none", "pending", "matched"}]
    /\ saved \in [Slots -> Nat]
    /\ reminder \in [marked : BOOLEAN, sent : Nat]
    /\ runs \in 0..MaxRuns
    /\ aborts \in 0..MaxAborts

MoneyOK ==
    /\ issued \in 0..MaxIntents
    /\ shown \subseteq 1..MaxIntents
    /\ charged \subseteq shown
    /\ heard \subseteq charged
    /\ \A p \in Procs : proc[p].at = "pay_write" => proc[p].intent \in 1..MaxIntents

Typed == TypeOK /\ MoneyOK

LEMMA TypedIs == Typed <=> RowsOK /\ MoneyOK /\ ProcsOK /\ answered \in BOOLEAN
  BY DEF Typed, TypeOK, RowsOK, MoneyOK, ProcsOK

LEMMA TypedInit == Init => Typed
  <1> SUFFICES ASSUME Init PROVE RowsOK /\ MoneyOK /\ ProcsOK /\ answered \in BOOLEAN
    BY TypedIs
  <1>1. ProcsOK /\ \A p \in Procs : proc[p].at = "idle"
    BY IdleOK DEF Init, ProcsOK
  <1>2. RowsOK
    BY SubscriptionsAssumption DEF Init, RowsOK, DayStatus
  <1>3. MoneyOK
    BY <1>1, SubscriptionsAssumption DEF Init, MoneyOK
  <1>4. answered \in BOOLEAN
    BY DEF Init
  <1>5. QED
    BY <1>1, <1>2, <1>3, <1>4

LEMMA TypedNext ==
  ASSUME Typed, [Next]_vars
  PROVE  Typed'
  <1> USE SubscriptionsAssumption
  <1>0. SUFFICES RowsOK' /\ MoneyOK' /\ ProcsOK' /\ answered' \in BOOLEAN
    BY DEF Typed, TypeOK, RowsOK, MoneyOK, ProcsOK
  <1>1. answered \in BOOLEAN /\ RowsOK /\ MoneyOK /\ ProcsOK /\ TypeOK
    BY TypedIs DEF Typed
  <1>2. ASSUME NEW p \in Procs, Process(p) PROVE RowsOK'
    <2>0. proc[p] \in Proc
      BY <1>1 DEF ProcsOK
    <2>1. CASE CreateRead(p) \/ CancelRead(p) \/ PayRead(p) \/ CreateInsert(p) \/ CreateAnswer(p)
               \/ CancelSub(p) \/ PayCreate(p)
      BY <1>1, <2>0, <2>1 DEF RowsOK, Proc, CreateRead, CancelRead, PayRead, CreateInsert,
         CreateAnswer, CancelSub, PayCreate
    <2>2. CASE PayWrite(p)
      BY <1>1, <2>0, <2>2 DEF RowsOK, Proc, PayWrite
    <2>3. CASE CancelDays(p)
      BY <1>1, <2>3 DEF RowsOK, CancelDays, DayStatus
    <2>4. CASE SkipWrite(p) \/ BatchMatched(p)
      BY <1>1, <2>0, <2>4 DEF RowsOK, Proc, SkipWrite, BatchMatched, DayStatus
    <2>5. ASSUME NEW d \in Slots, CreateDay(p, d) \/ CreateDayFails(p, d) \/ SkipRead(p, d)
          PROVE  RowsOK'
      <3>1. CASE CreateDay(p, d)
        BY <1>1, <3>1 DEF RowsOK, CreateDay, DayStatus
      <3>2. CASE CreateDayFails(p, d)
        BY <1>1, <3>2 DEF RowsOK, CreateDayFails
      <3>3. CASE SkipRead(p, d)
        BY <1>1, <3>3 DEF RowsOK, SkipRead
      <3>4. QED
        BY <2>5, <3>1, <3>2, <3>3
    <2>6. CASE BatchList(p) \/ BatchEnd(p) \/ BatchFind(p) \/ RemindGet(p) \/ Abort(p)
      <3>1. UNCHANGED <<sub, day, request, saved, reminder>>
        BY <2>6 DEF BatchList, BatchEnd, BatchFind, RemindGet, Abort
      <3>2. runs' = runs \/ (runs' = runs + 1 /\ runs < MaxRuns)
        BY <2>6 DEF BatchList, BatchEnd, BatchFind, RemindGet, Abort
      <3>3. aborts' = aborts \/ (aborts' = aborts + 1 /\ aborts < MaxAborts)
        BY <2>6 DEF BatchList, BatchEnd, BatchFind, RemindGet, Abort
      <3>4. QED
        BY <1>1, <3>1, <3>2, <3>3 DEF RowsOK
    <2>7. CASE BatchRequest(p) \/ BatchTell(p)
      BY <1>1, <2>0, <2>7 DEF RowsOK, Proc, BatchRequest, BatchTell
    <2>8. CASE BatchSave(p)
      BY <1>1, <2>0, <2>8 DEF RowsOK, Proc, BatchSave
    <2>9. CASE RemindPut(p) \/ RemindSend(p)
      <3>1. reminder' \in [marked : BOOLEAN, sent : Nat]
        <4>1. reminder.sent \in Nat /\ reminder.marked \in BOOLEAN
          BY <1>1 DEF RowsOK
        <4>2. CASE RemindPut(p)
          <5>1. reminder' = [marked |-> TRUE, sent |-> reminder.sent]
            BY <1>1, <4>2 DEF RowsOK, RemindPut
          <5>2. QED
            BY <4>1, <5>1
        <4>3. CASE RemindSend(p)
          <5>1. reminder' = [marked |-> reminder.marked, sent |-> reminder.sent + 1]
            BY <1>1, <4>3 DEF RowsOK, RemindSend
          <5>2. QED
            BY <4>1, <5>1
        <4>4. QED
          BY <2>9, <4>2, <4>3
      <3>2. UNCHANGED <<sub, day, request, saved, runs, aborts>>
        BY <2>9 DEF RemindPut, RemindSend
      <3>3. QED
        BY <1>1, <3>1, <3>2 DEF RowsOK
    <2>10. ASSUME NEW d \in Slots, BatchMark(p, d) PROVE RowsOK'
      BY <1>1, <2>10 DEF RowsOK, BatchMark, DayStatus
    <2>11. QED
      BY <1>2, <2>1, <2>2, <2>3, <2>4, <2>5, <2>6, <2>7, <2>8, <2>9, <2>10
         DEF Process, Subscriber, Batch, Remind
  <1>3. ASSUME NEW p \in Procs, Process(p) PROVE MoneyOK' /\ ProcsOK'
    <2>1. ProcsOK' /\ Goes(p) /\ \A q \in Procs \ {p} : proc'[q] = proc[q]
      BY <1>1, <1>3, ControlFlow
    <2>2. CASE PayCreate(p)
      <3>1. issued' = issued + 1 /\ issued' \in 1..MaxIntents /\ UNCHANGED <<shown, charged, heard>>
        BY <1>1, <2>2 DEF PayCreate, MoneyOK
      <3>2. proc'[p].intent = issued + 1
        BY <1>1, <2>2 DEF PayCreate, ProcsOK, Proc
      <3>3. QED
        BY <1>1, <2>1, <3>1, <3>2 DEF MoneyOK
    <2>3. CASE PayWrite(p)
      <3>1. proc'[p].at = "idle"
        BY <1>1, <2>3, DoneOK DEF PayWrite
      <3>2. QED
        BY <1>1, <2>1, <2>3, <3>1 DEF MoneyOK, PayWrite
    <2>4. CASE UNCHANGED <<issued, shown, charged, heard>> /\ ~PayCreate(p)
      <3>1. proc'[p].at # "pay_write"
        BY <2>1, <2>4 DEF Goes, BatchSteps
      <3>2. QED
        BY <1>1, <2>1, <2>4, <3>1 DEF MoneyOK
    <2>5. UNCHANGED <<issued, shown, charged, heard>> \/ PayCreate(p) \/ PayWrite(p)
      BY <1>3 DEF Process, Subscriber, Batch, Remind, CreateRead, CancelRead, PayRead,
         CreateInsert, CreateAnswer, CancelSub, CancelDays, SkipWrite, CreateDay, CreateDayFails,
         SkipRead, BatchList, BatchEnd, BatchRequest, BatchFind, BatchSave, BatchTell,
         BatchMatched, BatchMark, RemindGet, RemindPut, RemindSend, Abort
    <2>6. QED
      BY <2>1, <2>2, <2>3, <2>4, <2>5
  <1>4. ASSUME NEW d \in Slots, NEW placed \in BOOLEAN, UpsertDay(d, placed) PROVE RowsOK' /\ MoneyOK' /\ ProcsOK'
    <2>1. RowsOK'
      BY <1>1, <1>4 DEF RowsOK, UpsertDay, DayStatus
    <2>2. QED
      BY <1>1, <1>4, <2>1 DEF UpsertDay, MoneyOK, ProcsOK
  <1>5. ASSUME NEW n \in 1..MaxIntents, Charge(n) \/ Webhook(n) PROVE RowsOK' /\ MoneyOK' /\ ProcsOK'
    <2>1. UNCHANGED <<sub, day, request, saved, issued, shown, reminder, proc, answered, runs, aborts>>
      BY <1>5, WebhookPasses DEF Charge, Webhook
    <2>2. charged' \subseteq shown' /\ heard' \subseteq charged'
      BY <1>1, <1>5 DEF Charge, Webhook, MoneyOK
    <2>3. QED
      BY <1>1, <2>1, <2>2 DEF RowsOK, MoneyOK, ProcsOK
  <1>6. ASSUME UNCHANGED vars PROVE RowsOK' /\ MoneyOK' /\ ProcsOK'
    BY <1>1, <1>6 DEF vars, RowsOK, MoneyOK, ProcsOK
  <1>7. answered' \in BOOLEAN
    <2>1. CASE UNCHANGED answered
      BY <1>1, <2>1
    <2>2. ASSUME NEW p \in Procs, CreateAnswer(p) PROVE answered' \in BOOLEAN
      BY <1>1, <2>2 DEF CreateAnswer
    <2>3. ASSUME NEW p \in Procs, Process(p), ~CreateAnswer(p) PROVE UNCHANGED answered
      BY <2>3, OthersAnswerNot
    <2>4. QED
      BY <2>1, <2>2, <2>3, StepsOf DEF vars, UpsertDay, Charge, Webhook
  <1>8. QED
    BY <1>2, <1>3, <1>4, <1>5, <1>6, <1>7, StepsOf

\* Every reachable state is well typed: a client secret is shown only of an
\* intent Stripe knows, and charged only if it was shown.
THEOREM TypeCorrect == Spec => []TypeOK
  <1>1. Typed => TypeOK
    BY DEF Typed
  <1>2. QED
    BY <1>1, TypedInit, TypedNext, PTL DEF Spec

-----------------------------------------------------------------------------
(* A day that was served is not scheduled again                            *)

\* What a step may do to the status of a slot.
DayMoves(d) ==
    \/ day'[d].status = day[d].status
    \/ day'[d].status = "scheduled" /\ day[d].status = "none"
    \/ day'[d].status \in {"requested", "cancelled", "matched"}

LEMMA DaysMove ==
  ASSUME Typed, [Next]_vars, NEW d \in Slots
  PROVE  DayMoves(d)
  <1> USE DEF DayMoves
  <1>0. day \in [Slots -> [status : DayStatus, placed : BOOLEAN]] /\ ProcsOK
    BY TypedIs DEF RowsOK
  <1>1. CASE UNCHANGED day
    BY <1>1
  <1>2. ASSUME NEW p \in Procs, NEW e \in Slots, CreateDay(p, e) \/ BatchMark(p, e)
        PROVE  DayMoves(d)
    BY <1>0, <1>2 DEF CreateDay, BatchMark
  <1>3. ASSUME NEW p \in Procs, SkipWrite(p) \/ BatchMatched(p)
        PROVE  DayMoves(d)
    <2>1. proc[p].slot \in Slots
      BY <1>0 DEF ProcsOK, Proc
    <2>2. QED
      BY <1>0, <1>3, <2>1 DEF SkipWrite, BatchMatched
  <1>4. ASSUME NEW p \in Procs, CancelDays(p)
        PROVE  DayMoves(d)
    BY <1>0, <1>4 DEF CancelDays
  <1>5. ASSUME NEW e \in Slots, NEW placed \in BOOLEAN, UpsertDay(e, placed)
        PROVE  DayMoves(d)
    BY <1>0, <1>5 DEF UpsertDay
  <1>6. QED
    BY <1>1, <1>2, <1>3, <1>4, <1>5, ZenonT(60) DEF Next, vars, Subscriber, Batch, Remind, CreateRead,
       CancelRead, PayRead, PayCreate, PayWrite, CreateInsert, CreateAnswer, CancelSub,
       CreateDayFails, SkipRead, BatchList, BatchEnd, BatchRequest, BatchFind, BatchSave,
       BatchTell, RemindGet, RemindPut, RemindSend, Abort, Charge, Webhook

\* A slot put to drivers, matched or skipped is never scheduled again
\* (subscriptions.ts:442-470).
THEOREM DaysGoForward == Spec => NeverRescheduled
  <1>1. Typed /\ [Next]_vars =>
          [\A d \in Slots : day[d].status \in {"requested", "matched", "cancelled"} =>
                              day'[d].status # "scheduled"]_vars
    BY DaysMove DEF DayMoves
  <1>2. QED
    BY <1>1, TypedInit, TypedNext, PTL DEF Spec, NeverRescheduled

-----------------------------------------------------------------------------
(* An answered creation is complete                                        *)

\* Where a loop over the inserts stands: the slots behind it have their rows,
\* unless one was refused.
InsertsSoFar ==
    \A p \in Procs : proc[p].at = "create_days" /\ ~proc[p].failed =>
        \A d \in Days \ proc[p].left : day[d].status # "none"

LEMMA AnsweredInit == Init => AnsweredIsComplete /\ InsertsSoFar
  BY IdleOK DEF Init, AnsweredIsComplete, InsertsSoFar

LEMMA AnsweredNext ==
  ASSUME Typed, AnsweredIsComplete, InsertsSoFar, [Next]_vars
  PROVE  AnsweredIsComplete' /\ InsertsSoFar'
  <1>1. \A d \in Slots : day[d].status # "none" => day'[d].status # "none"
    BY DaysMove DEF DayMoves
  <1>2. Days \subseteq Slots /\ TypeOK
    BY DEF Slots, Typed
  <1>3. ASSUME NEW p \in Procs, Process(p)
        PROVE  AnsweredIsComplete' /\ InsertsSoFar'
    <2>1. Goes(p) /\ \A q \in Procs \ {p} : proc'[q] = proc[q]
      BY <1>2, <1>3, ControlFlow
    <2>2. AnsweredIsComplete'
      <3>1. CASE answered' = answered
        BY <1>1, <1>2, <3>1 DEF AnsweredIsComplete
      <3>2. CASE CreateAnswer(p)
        BY <1>1, <1>2, <3>2 DEF CreateAnswer, AnsweredIsComplete, InsertsSoFar
      <3>3. QED
        BY <1>3, <3>1, <3>2, OthersAnswerNot
    <2>3. ASSUME proc'[p].at = "create_days", ~proc'[p].failed, NEW d \in Days \ proc'[p].left
          PROVE  day'[d].status # "none"
      <3>1. proc[p].at = "create_days" \/ proc'[p].left = Days
        BY <2>1, <2>3 DEF Goes
      <3>2. CASE proc[p].at = "create_days"
        <4>1. PICK e \in proc[p].left :
                 proc'[p].left = proc[p].left \ {e} /\ CreateDay(p, e) /\ ~proc[p].failed
          BY <2>1, <2>3, <3>2 DEF Goes, BatchSteps
        <4>2. CASE d = e
          <5>1. day \in [Slots -> [status : DayStatus, placed : BOOLEAN]] /\ d \in Slots
            BY <1>2 DEF TypeOK
          <5>2. QED
            BY <4>1, <4>2, <5>1 DEF CreateDay
        <4>3. CASE d # e
          BY <1>1, <1>2, <3>2, <4>1, <4>3 DEF InsertsSoFar
        <4>4. QED
          BY <4>2, <4>3
      <3>3. QED
        BY <2>3, <3>1, <3>2
    <2>4. InsertsSoFar'
      BY <1>1, <1>2, <2>1, <2>3 DEF InsertsSoFar
    <2>5. QED
      BY <2>2, <2>4
  <1>4. CASE UNCHANGED <<proc, answered>>
    BY <1>1, <1>2, <1>4 DEF AnsweredIsComplete, InsertsSoFar
  <1>5. QED
    BY <1>3, <1>4, StepsOf DEF UpsertDay, Charge, Webhook, vars

\* A creation answered with success has a row for every slot it counted, though
\* any insert may fail (subscriptions.ts:194-248).
THEOREM AnsweredMeansInserted == Spec => []AnsweredIsComplete
  <1>1. Init => Typed /\ AnsweredIsComplete /\ InsertsSoFar
    BY TypedInit, AnsweredInit
  <1>2. (Typed /\ AnsweredIsComplete /\ InsertsSoFar) /\ [Next]_vars
          => (Typed /\ AnsweredIsComplete /\ InsertsSoFar)'
    BY TypedNext, AnsweredNext
  <1>3. QED
    BY <1>1, <1>2, PTL DEF Spec

-----------------------------------------------------------------------------
(* A slot is put to drivers once                                           *)

Working(v) == v.at \in {"batch_find", "batch_save", "batch_tell", "batch_matched"}

\* A run past the insert of a slot's request is the only one for that slot, and
\* the slot's match is saved when the run has come that far.
Batches ==
    /\ \A d \in Slots :
          /\ saved[d] <= 1
          /\ request[d] = "none" => saved[d] = 0
          /\ day[d].status = "matched" => request[d] = "matched" /\ saved[d] = 1
    /\ \A p \in Procs : LET v == proc[p] IN
          /\ Working(v) => request[v.slot] # "none"
          /\ v.at \in {"batch_find", "batch_save"} => saved[v.slot] = 0
          /\ v.at \in {"batch_tell", "batch_matched"} => saved[v.slot] = 1
          /\ v.at = "batch_matched" => request[v.slot] = "matched"
    /\ \A p, q \in Procs :
          p # q /\ Working(proc[p]) /\ Working(proc[q]) => proc[p].slot # proc[q].slot

LEMMA BatchesInit == Init => Batches
  BY IdleOK DEF Init, Batches, Working

\* No other step writes a match or a request, or calls a day matched.
LEMMA OthersMatchNot ==
  ASSUME Typed, NEW p \in Procs, Process(p),
         ~BatchRequest(p), ~BatchSave(p), ~BatchTell(p), ~BatchMatched(p)
  PROVE  /\ UNCHANGED <<request, saved>>
         /\ \A d \in Slots : day'[d].status = "matched" => day[d].status = "matched"
  <1>0. day \in [Slots -> [status : DayStatus, placed : BOOLEAN]] /\ proc[p].slot \in Slots
    BY TypedIs DEF RowsOK, ProcsOK, Proc
  <1>1. CASE Subscriber(p)
    <2>1. CASE SkipWrite(p)
      BY <1>0, <2>1 DEF SkipWrite
    <2>2. CASE CancelDays(p)
      BY <1>0, <2>2 DEF CancelDays
    <2>3. ASSUME NEW e \in Slots, CreateDay(p, e)
          PROVE  /\ UNCHANGED <<request, saved>>
                 /\ \A d \in Slots : day'[d].status = "matched" => day[d].status = "matched"
      BY <1>0, <2>3 DEF CreateDay
    <2>4. QED
      BY <1>1, <2>1, <2>2, <2>3 DEF Subscriber, CreateRead, CancelRead, PayRead, PayCreate,
         PayWrite, CreateInsert, CreateAnswer, CancelSub, CreateDayFails, SkipRead
  <1>2. ASSUME NEW e \in Slots, BatchMark(p, e)
        PROVE  /\ UNCHANGED <<request, saved>>
               /\ \A d \in Slots : day'[d].status = "matched" => day[d].status = "matched"
    BY <1>0, <1>2 DEF BatchMark
  <1>3. CASE BatchList(p) \/ BatchEnd(p) \/ BatchFind(p) \/ Remind(p) \/ Abort(p)
    BY <1>3 DEF BatchList, BatchEnd, BatchFind, Remind, RemindGet, RemindPut, RemindSend, Abort
  <1>4. QED
    BY <1>1, <1>2, <1>3 DEF Process, Batch

LEMMA BatchesNext ==
  ASSUME Typed, Batches, [Next]_vars
  PROVE  Batches'
  <1>0. /\ day \in [Slots -> [status : DayStatus, placed : BOOLEAN]]
        /\ request \in [Slots -> {"none", "pending", "matched"}]
        /\ saved \in [Slots -> Nat]
        /\ ProcsOK /\ TypeOK
        /\ \A p \in Procs : proc[p].slot \in Slots
    BY TypedIs DEF Typed, RowsOK, ProcsOK, Proc
  <1>1. ASSUME NEW p \in Procs, Process(p) PROVE Batches'
    <2>0. Goes(p) /\ \A q \in Procs \ {p} : proc'[q] = proc[q]
      BY <1>0, <1>1, ControlFlow
    <2> DEFINE s == proc[p].slot
    <2>1. CASE BatchRequest(p) /\ request[s] = "none"
      <3>1. /\ request' = [request EXCEPT ![s] = "pending"]
            /\ UNCHANGED <<day, saved>> /\ Goto(p, "batch_find")
        BY <2>1 DEF BatchRequest
      <3>2. proc'[p].at = "batch_find" /\ proc'[p].slot = s
        BY <1>0, <3>1, GotoOK DEF Steps, BatchSteps
      <3>3. \A q \in Procs \ {p} : Working(proc[q]) => proc[q].slot # s
        BY <2>1 DEF Batches
      <3>4. \A d \in Slots : /\ request'[d] = IF d = s THEN "pending" ELSE request[d]
                             /\ saved'[d] = saved[d] /\ day'[d] = day[d]
        BY <1>0, <3>1
      <3> HIDE DEF s
      <3>5. saved[s] = 0 /\ s \in Slots
        BY <1>0, <2>1 DEF Batches, s
      <3>6. QED
        BY <1>0, <2>0, <2>1, <3>2, <3>3, <3>4, <3>5 DEF Batches, Working
    <2>2. CASE BatchSave(p)
      <3>1. /\ saved' = [saved EXCEPT ![s] = @ + 1] /\ proc[p].at = "batch_save"
            /\ UNCHANGED <<day, request>> /\ Goto(p, "batch_tell")
        BY <2>2 DEF BatchSave
      <3>2. proc'[p].at = "batch_tell" /\ proc'[p].slot = s
        BY <1>0, <3>1, GotoOK DEF Steps, BatchSteps
      <3>3. /\ \A q \in Procs \ {p} : Working(proc[q]) => proc[q].slot # s
            /\ saved[s] = 0 /\ request[s] # "none" /\ s \in Slots
        BY <1>0, <3>1 DEF Batches, Working
      <3>4. \A d \in Slots : /\ saved'[d] = IF d = s THEN 1 ELSE saved[d]
                             /\ request'[d] = request[d] /\ day'[d] = day[d]
        BY <1>0, <3>1, <3>3
      <3> HIDE DEF s
      <3>5. QED
        BY <1>0, <2>0, <3>2, <3>3, <3>4 DEF Batches, Working
    <2>3. CASE BatchTell(p)
      <3>1. /\ request' = [request EXCEPT ![s] = "matched"] /\ proc[p].at = "batch_tell"
            /\ UNCHANGED <<day, saved>> /\ Goto(p, "batch_matched")
        BY <2>3 DEF BatchTell
      <3>2. proc'[p].at = "batch_matched" /\ proc'[p].slot = s
        BY <1>0, <3>1, GotoOK DEF Steps, BatchSteps
      <3>3. /\ \A q \in Procs \ {p} : Working(proc[q]) => proc[q].slot # s
            /\ saved[s] = 1 /\ s \in Slots
        BY <1>0, <3>1 DEF Batches, Working
      <3>4. \A d \in Slots : /\ request'[d] = IF d = s THEN "matched" ELSE request[d]
                             /\ saved'[d] = saved[d] /\ day'[d] = day[d]
        BY <1>0, <3>1
      <3> HIDE DEF s
      <3>5. QED
        BY <1>0, <2>0, <3>2, <3>3, <3>4 DEF Batches, Working
    <2>4. CASE BatchMatched(p)
      <3>1. /\ day' = [day EXCEPT ![s].status = "matched"] /\ proc[p].at = "batch_matched"
            /\ UNCHANGED <<request, saved>> /\ Goto(p, "batch")
        BY <2>4 DEF BatchMatched
      <3>2. proc'[p].at = "batch"
        BY <1>0, <3>1, GotoOK DEF Steps, BatchSteps
      <3>3. saved[s] = 1 /\ request[s] = "matched" /\ s \in Slots
        BY <1>0, <3>1 DEF Batches, Working
      <3>4. \A d \in Slots : /\ d # s => day'[d].status = day[d].status
                             /\ request'[d] = request[d] /\ saved'[d] = saved[d]
        BY <1>0, <3>1
      <3> HIDE DEF s
      <3>5. QED
        BY <1>0, <2>0, <3>2, <3>3, <3>4 DEF Batches, Working
    <2>5. CASE /\ ~(BatchRequest(p) /\ request[s] = "none")
               /\ ~BatchSave(p) /\ ~BatchTell(p) /\ ~BatchMatched(p)
      <3>1. /\ UNCHANGED <<request, saved>>
            /\ \A d \in Slots : day'[d].status = "matched" => day[d].status = "matched"
        BY <1>1, <2>5, OthersMatchNot DEF BatchRequest
      <3>2. Working(proc'[p]) => /\ proc[p].at = "batch_find" /\ proc'[p].at = "batch_save"
                                 /\ proc'[p].slot = proc[p].slot
        BY <2>0, <2>5 DEF Goes, Working
      <3>3. \A d \in Slots : request'[d] = request[d] /\ saved'[d] = saved[d]
        BY <3>1
      <3>4. QED
        BY <1>0, <2>0, <3>1, <3>2, <3>3 DEF Batches, Working
    <2>6. QED
      BY <2>1, <2>2, <2>3, <2>4, <2>5
  <1>2. ASSUME UNCHANGED <<request, saved, proc>>,
               \A d \in Slots : day'[d].status = "matched" => day[d].status = "matched"
        PROVE  Batches'
    BY <1>2 DEF Batches, Working
  <1>3. ASSUME NEW e \in Slots, NEW placed \in BOOLEAN, UpsertDay(e, placed)
        PROVE  Batches'
    BY <1>0, <1>2, <1>3 DEF UpsertDay
  <1>4. QED
    BY <1>1, <1>2, <1>3, StepsOf DEF Charge, Webhook, vars

\* A slot is put to drivers once however many runs of the batch overlap or die,
\* and one that says it is matched has its match (cron.ts:115).
THEOREM MatchedOnceOnly == Spec => []MatchedOnce
  <1>1. Init => Typed /\ Batches
    BY TypedInit, BatchesInit
  <1>2. (Typed /\ Batches) /\ [Next]_vars => (Typed /\ Batches)'
    BY TypedNext, BatchesNext
  <1>3. Batches => MatchedOnce
    BY DEF Batches, MatchedOnce
  <1>4. QED
    BY <1>1, <1>2, <1>3, PTL DEF Spec

-----------------------------------------------------------------------------
(* A ride is reminded at most once                                         *)

\* One run sends the reminders of a window; until it has put the key nothing is
\* sent, and the key is never taken back.
Reminders ==
    /\ \A p, q \in Procs :
          p # q /\ proc[p].at \in RemindSteps => proc[q].at \notin RemindSteps
    /\ \A p \in Procs : proc[p].at = "remind_put" => ~reminder.marked
    /\ \A p \in Procs : proc[p].at = "remind_send" => reminder.marked /\ reminder.sent = 0
    /\ ~reminder.marked => reminder.sent = 0
    /\ reminder.sent <= 1

LEMMA RemindersInit == Init => Reminders
  BY IdleOK DEF Init, Reminders, RemindSteps

LEMMA RemindersNext ==
  ASSUME OneAtATime, Typed, Reminders, [Next]_vars
  PROVE  Reminders'
  <1>0. reminder.sent \in Nat /\ TypeOK /\ ProcsOK /\ reminder \in [marked : BOOLEAN, sent : Nat]
    BY TypedIs DEF Typed, RowsOK
  <1> USE DEF RemindSteps
  <1>1. ASSUME NEW p \in Procs, Process(p) PROVE Reminders'
    <2>0. Goes(p) /\ \A q \in Procs \ {p} : proc'[q] = proc[q]
      BY <1>0, <1>1, ControlFlow
    <2>1. CASE RemindGet(p)
      <3>1. /\ ~reminder.marked /\ reminder' = reminder
            /\ \A q \in Procs : proc[q].at \notin RemindSteps
        BY <2>1 DEF RemindGet
      <3>2. proc'[p].at # "remind_send"
        BY <2>0, <3>1 DEF Goes
      <3>3. QED
        BY <2>0, <3>1, <3>2 DEF Reminders
    <2>2. CASE RemindPut(p)
      <3>1. /\ proc[p].at = "remind_put" /\ reminder' = [reminder EXCEPT !.marked = TRUE]
            /\ Goto(p, "remind_send")
        BY <2>2 DEF RemindPut
      <3>2. proc'[p].at = "remind_send"
        BY <1>0, <3>1, GotoOK DEF Steps
      <3>3. reminder'.marked /\ reminder'.sent = reminder.sent /\ reminder.sent = 0
        BY <1>0, <3>1 DEF Reminders
      <3>4. \A q \in Procs \ {p} : proc'[q].at \notin RemindSteps
        BY <2>0, <3>1 DEF Reminders
      <3>5. QED
        BY <3>2, <3>3, <3>4 DEF Reminders
    <2>3. CASE RemindSend(p)
      <3>1. /\ proc[p].at = "remind_send" /\ reminder' = [reminder EXCEPT !.sent = @ + 1]
            /\ Done(p)
        BY <2>3 DEF RemindSend
      <3>2. proc'[p].at = "idle"
        BY <1>0, <3>1, DoneOK
      <3>3. /\ reminder'.marked = reminder.marked /\ reminder'.sent = reminder.sent + 1
            /\ reminder.sent = 0 /\ reminder.marked
        BY <1>0, <3>1 DEF Reminders
      <3>4. \A q \in Procs \ {p} : proc'[q].at \notin RemindSteps
        BY <2>0, <3>1 DEF Reminders
      <3>5. QED
        BY <3>2, <3>3, <3>4 DEF Reminders
    <2>4. CASE ~Remind(p)
      <3>1. reminder' = reminder
        <4>1. CASE Subscriber(p)
          BY <4>1 DEF Subscriber, CreateRead, CancelRead, PayRead, PayCreate, PayWrite,
             CreateInsert, CreateAnswer, CancelSub, CancelDays, SkipWrite, CreateDay,
             CreateDayFails, SkipRead
        <4>2. CASE Batch(p) \/ Abort(p)
          BY <4>2 DEF Batch, BatchList, BatchEnd, BatchRequest, BatchFind, BatchSave, BatchTell,
             BatchMatched, BatchMark, Abort
        <4>3. QED
          BY <1>1, <2>4, <4>1, <4>2 DEF Process
      <3>2. proc'[p].at \notin RemindSteps
        BY <2>0, <2>4 DEF Goes, Remind, BatchSteps
      <3>3. QED
        BY <2>0, <3>1, <3>2 DEF Reminders
    <2>5. QED
      BY <2>1, <2>2, <2>3, <2>4 DEF Remind
  <1>2. CASE UNCHANGED <<reminder, proc>>
    BY <1>2 DEF Reminders
  <1>3. QED
    BY <1>1, <1>2, StepsOf DEF UpsertDay, Charge, Webhook, vars

\* A ride is reminded at most once, wherever a run dies (cron.ts:217-240), if
\* one run at a time sends the reminders of a window.
THEOREM RemindedAtMostOnce ==
  ASSUME OneAtATime
  PROVE  Spec => []RemindedOnce
  <1>1. Init => Typed /\ Reminders
    BY TypedInit, RemindersInit
  <1>2. (Typed /\ Reminders) /\ [Next]_vars => (Typed /\ Reminders)'
    BY TypedNext, RemindersNext
  <1>3. Reminders => RemindedOnce
    BY DEF Reminders, RemindedOnce
  <1>4. QED
    BY <1>1, <1>2, <1>3, PTL DEF Spec

-----------------------------------------------------------------------------
(* A subscriber is asked to pay once                                       *)

Paying == \E p \in Procs : proc[p].at = "pay_write"

\* Until the row has an intent no secret is shown; then only that one is.  One
\* intent is made for the row, and one more by each request that died.
Payments ==
    /\ \A p, q \in Procs : p # q /\ proc[p].at \in UserSteps => proc[q].at \notin UserSteps
    /\ \A p \in Procs : proc[p].at \in {"pay_create", "pay_write"} => sub.payment = "unpaid"
    /\ sub.payment = "unpaid" => shown = {}
    /\ sub.payment # "unpaid" => shown = {sub.intent}
    /\ issued <= aborts + 1
    /\ sub.payment = "unpaid" /\ ~Paying => issued <= aborts

LEMMA PaymentsInit == Init => Payments
  BY IdleOK DEF Init, Payments, Paying, UserSteps

\* Arithmetic, without the state around it.
LEMMA Compare ==
  ASSUME NEW x \in Int, NEW y \in Int, NEW z \in Int, x <= y + 1, y <= z
  PROVE  x <= z + 1
  OBVIOUS

LEMMA PaymentsNext ==
  ASSUME OneAtATime, Typed, Payments, [Next]_vars
  PROVE  Payments'
  <1>0. /\ TypeOK /\ ProcsOK /\ issued \in Nat /\ aborts \in Nat
        /\ sub \in [status : {"none", "pending_payment", "active", "cancelled"},
                    payment : {"unpaid", "pending", "paid"}, intent : 0..MaxIntents]
    BY TypedIs DEF Typed, RowsOK, MoneyOK
  <1> USE DEF UserSteps
  <1>1. ASSUME NEW p \in Procs, Process(p) PROVE Payments'
    <2>0. Goes(p) /\ \A q \in Procs \ {p} : proc'[q] = proc[q]
      BY <1>0, <1>1, ControlFlow
    <2>1. \A q, r \in Procs :
             q # r /\ proc'[q].at \in UserSteps => proc'[r].at \notin UserSteps
      <3>1. proc'[p].at \in UserSteps =>
               proc[p].at \in UserSteps \/ \A q \in Procs : proc[q].at \notin UserSteps
        BY <2>0 DEF Goes, Alone
      <3>2. QED
        BY <2>0, <3>1 DEF Payments
    <2>2. CASE PayCreate(p)
      <3>1. /\ proc[p].at = "pay_create" /\ issued' = issued + 1 /\ UNCHANGED <<sub, shown, aborts>>
        BY <2>2 DEF PayCreate
      <3>2. ~Paying /\ sub.payment = "unpaid"
        BY <3>1 DEF Payments, Paying
      <3>3. issued <= aborts
        BY <3>2 DEF Payments
      <3>4. proc'[p].at = "pay_write"
        BY <1>0, <2>2 DEF PayCreate, ProcsOK, Proc
      <3>5. Paying'
        BY <3>4 DEF Paying
      <3>6. issued' <= aborts' + 1
        BY <1>0, <3>1, <3>3
      <3>7. \A q \in Procs : proc'[q].at \in {"pay_create", "pay_write"} => sub'.payment = "unpaid"
        BY <3>1, <3>2
      <3>8. sub'.payment = "unpaid" /\ shown' = {}
        BY <3>1, <3>2 DEF Payments
      <3>9. QED
        BY <2>1, <3>5, <3>6, <3>7, <3>8 DEF Payments
    <2>3. CASE PayWrite(p)
      <3>1. /\ proc[p].at = "pay_write" /\ shown' = shown \union {proc[p].intent}
            /\ sub' = [sub EXCEPT !.payment = "pending", !.intent = proc[p].intent]
            /\ Done(p) /\ UNCHANGED <<issued, aborts>>
        BY <2>3 DEF PayWrite
      <3>2. sub.payment = "unpaid" /\ shown = {}
        BY <3>1 DEF Payments
      <3>3. sub'.payment = "pending" /\ sub'.intent = proc[p].intent
        BY <1>0, <3>1
      <3>4. \A q \in Procs : proc'[q].at \notin {"pay_create", "pay_write"}
        BY <1>0, <2>0, <3>1, DoneOK DEF Payments
      <3>5. QED
        BY <1>0, <2>1, <3>1, <3>2, <3>3, <3>4 DEF Payments
    <2>4. CASE Abort(p)
      <3>1. aborts' = aborts + 1 /\ UNCHANGED <<sub, issued, shown>>
        BY <2>4 DEF Abort
      <3>2. proc'[p].at \notin {"pay_create", "pay_write"}
        BY <1>0, <2>4, DoneOK, GotoOK DEF Abort, Steps, BatchSteps
      <3>3. issued <= aborts + 1
        BY DEF Payments
      <3>4. issued <= aborts' /\ issued <= aborts' + 1
        BY <1>0, <3>1, <3>3
      <3>5. QED
        BY <2>0, <2>1, <3>1, <3>2, <3>4 DEF Payments
    <2>5. CASE ~PayCreate(p) /\ ~PayWrite(p) /\ ~Abort(p)
      <3>1. /\ sub'.payment = sub.payment /\ sub'.intent = sub.intent
            /\ issued' = issued /\ shown' = shown
        <4>1. CASE CreateInsert(p)
          BY <1>0, <4>1 DEF CreateInsert
        <4>2. CASE CancelSub(p)
          BY <1>0, <4>2 DEF CancelSub
        <4>3. CASE Subscriber(p) /\ ~CreateInsert(p) /\ ~CancelSub(p)
          BY <2>5, <4>3 DEF Subscriber, CreateRead, CancelRead, PayRead, CreateAnswer,
             CancelDays, SkipWrite, CreateDay, CreateDayFails, SkipRead
        <4>4. CASE Batch(p) \/ Remind(p)
          BY <4>4 DEF Batch, BatchList, BatchEnd, BatchRequest, BatchFind, BatchSave, BatchTell,
             BatchMatched, BatchMark, Remind, RemindGet, RemindPut, RemindSend
        <4>5. QED
          BY <1>1, <2>5, <4>1, <4>2, <4>3, <4>4 DEF Process
      <3>2. aborts' \in Nat /\ aborts <= aborts'
        <4>1. aborts' = aborts \/ aborts' = aborts + 1
          <5>1. CASE Subscriber(p)
            BY <5>1 DEF Subscriber, CreateRead, CancelRead, PayRead, PayCreate, PayWrite,
               CreateInsert, CreateAnswer, CancelSub, CancelDays, SkipWrite, CreateDay,
               CreateDayFails, SkipRead
          <5>2. CASE Batch(p) \/ Remind(p)
            BY <5>2 DEF Batch, BatchList, BatchEnd, BatchRequest, BatchFind, BatchSave,
               BatchTell, BatchMatched, BatchMark, Remind, RemindGet, RemindPut, RemindSend
          <5>3. QED
            BY <1>1, <2>5, <5>1, <5>2 DEF Process
        <4>2. QED
          BY <1>0, <4>1
      <3>3. /\ proc'[p].at # "pay_write"
            /\ proc'[p].at = "pay_create" => sub.payment = "unpaid"
        BY <2>0, <2>5 DEF Goes, MayPay, BatchSteps
      <3>4. proc[p].at # "pay_write"
        <4>1. CASE Subscriber(p)
          BY <2>5, <4>1 DEF Subscriber, CreateRead, CancelRead, PayRead, CreateInsert,
             CreateAnswer, CancelSub, CancelDays, SkipWrite, CreateDay, CreateDayFails, SkipRead, Start
        <4>2. CASE Batch(p) \/ Remind(p)
          BY <4>2 DEF Batch, BatchList, BatchEnd, BatchRequest, BatchFind, BatchSave, BatchTell,
             BatchMatched, BatchMark, Remind, RemindGet, RemindPut, RemindSend, Start
        <4>3. QED
          BY <1>1, <2>5, <4>1, <4>2 DEF Process
      <3>5. Paying' <=> Paying
        BY <2>0, <3>3, <3>4 DEF Paying
      <3>6. /\ issued' <= aborts' + 1
            /\ sub'.payment = "unpaid" /\ ~Paying' => issued' <= aborts'
        <4>1. /\ issued <= aborts + 1
              /\ (sub.payment = "unpaid" /\ ~Paying) => issued <= aborts
          BY DEF Payments
        <4>2. issued <= aborts' + 1
          <5>1. issued \in Nat /\ aborts \in Nat
            BY <1>0
          <5>2. issued <= aborts + 1
            BY <4>1
          <5>3. aborts' \in Nat /\ aborts <= aborts'
            BY <3>2
          <5>4. issued \in Int /\ aborts \in Int /\ aborts' \in Int
            BY <5>1, <5>3
          <5>5. QED
            BY <5>2, <5>3, <5>4, Compare
        <4>3. ASSUME sub.payment = "unpaid", ~Paying PROVE issued <= aborts'
          <5>1. issued <= aborts
            BY <4>1, <4>3
          <5>2. issued \in Nat /\ aborts \in Nat
            BY <1>0
          <5>3. QED
            BY <3>2, <5>1, <5>2
        <4>4. QED
          BY <3>1, <3>5, <4>2, <4>3
      <3>7. \A q \in Procs : proc'[q].at \in {"pay_create", "pay_write"} => sub'.payment = "unpaid"
        BY <2>0, <3>1, <3>3 DEF Payments
      <3>8. QED
        BY <2>1, <3>1, <3>6, <3>7 DEF Payments
    <2>6. QED
      BY <2>2, <2>3, <2>4, <2>5
  <1>2. CASE UNCHANGED <<sub, proc, issued, shown, aborts>>
    BY <1>2 DEF Payments, Paying
  <1>3. QED
    BY <1>1, <1>2, StepsOf, WebhookPasses DEF UpsertDay, Charge, Webhook, vars

\* A subscriber who sends one request at a time is shown one intent, and another
\* is made only for each request that died (subscriptions.ts:611-640).
THEOREM AskedOnce ==
  ASSUME OneAtATime
  PROVE  Spec => []AskedToPayOnce
  <1>1. Init => Typed /\ Payments
    BY TypedInit, PaymentsInit
  <1>2. (Typed /\ Payments) /\ [Next]_vars => (Typed /\ Payments)'
    BY TypedNext, PaymentsNext
  <1>3. Typed /\ Payments => AskedToPayOnce
    <2> SUFFICES ASSUME Typed, Payments PROVE AskedToPayOnce
      OBVIOUS
    <2>1. Cardinality(shown) <= 1
      <3>1. CASE shown = {}
        <4>1. Cardinality({}) = 0
          BY FS_EmptySet
        <4>2. QED
          BY <3>1, <4>1
      <3>2. CASE shown = {sub.intent}
        <4>1. Cardinality({sub.intent}) = 1
          BY FS_Singleton
        <4>2. QED
          BY <3>2, <4>1
      <3>3. QED
        BY <3>1, <3>2 DEF Payments
    <2>2. issued <= 1 + aborts
      <3>1. issued \in Nat /\ aborts \in Nat
        BY TypedIs DEF RowsOK, MoneyOK
      <3>2. QED
        BY <3>1 DEF Payments
    <2>3. QED
      BY <2>1, <2>2 DEF AskedToPayOnce
  <1>4. QED
    BY <1>1, <1>2, <1>3, PTL DEF Spec

=============================================================================
