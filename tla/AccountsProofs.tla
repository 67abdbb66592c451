---------------------------- MODULE AccountsProofs ----------------------------
(***************************************************************************)
(* What holds of accounts and the desks around them for any number of      *)
(* users, documents, organizations, disputes and requests (Accounts.tla).  *)
(*                                                                         *)
(* Typed is TypeOK together with what a request remembers: whoever sent it *)
(* and whoever it is about are users.                                      *)
(***************************************************************************)
EXTENDS Accounts, TLAPS

-----------------------------------------------------------------------------
(* Types                                                                   *)

Account == [role : Roles, active : BOOLEAN, deleted : BOOLEAN, profile : Nat,
            org : Orgs \union {NoOrg}]
Doc == [kind : Kinds, status : Reviews \union {"none", "pending"}]
Dispute == [by : Users \union {Nobody}, status : {"none", "open", "resolved"},
            refund : BOOLEAN]
Safety == [contacts : SUBSET Users, events : Nat, alerts : Nat]
Proc == [at : Steps, by : Users \union {Nobody}, role : Roles,
         on : Users \union {Nobody}, seen : Nat, change : Changes,
         org : Orgs \union {NoOrg}]

PeopleOK == account \in [Users -> Account] /\ token \in [Users -> Roles] /\ profiles \in Nat
CacheOK == cache \in [Users -> Nat] /\ updated \in [Users -> Nat] /\ lost \subseteq Users
SettingsOK == prefs \in [Users -> SUBSET Sections] /\ tos \in [Users -> Nat]
RidingOK ==
    /\ trip \in {"scheduled", "completed"}
    /\ part \in [Users -> {"none", "rider", "left"}]
    /\ places \subseteq Users
OrgsOK == org \in [Orgs -> Users \union {Nobody}] /\ founders \subseteq Users
PapersOK == doc \in [Docs -> Doc] /\ verified \in BOOLEAN /\ complete \in BOOLEAN
UploadsOK == ticket \subseteq Users /\ file \in [Users -> Nat]
TalkOK ==
    /\ dispute \in [Disputes -> Dispute]
    /\ message \in [Users -> {"none", "unread", "read"}]
    /\ safety \in Safety
BoundsOK == served \in 0..MaxServed /\ trouble \in 0..MaxTrouble

\* A request in flight is from a user and about a user.
ProcOK ==
    /\ proc \in [Procs -> Proc]
    /\ \A p \in Procs : proc[p].at # "idle" => proc[p].by \in Users /\ proc[p].on \in Users

StateOK ==
    /\ PeopleOK /\ CacheOK /\ SettingsOK /\ RidingOK /\ OrgsOK /\ PapersOK
    /\ UploadsOK /\ TalkOK
Typed == StateOK /\ BoundsOK /\ ProcOK

LEMMA TypedIsTypeOK == Typed => TypeOK
  BY DEF Typed, StateOK, TypeOK, PeopleOK, CacheOK, SettingsOK, RidingOK, OrgsOK, PapersOK,
     UploadsOK, TalkOK, BoundsOK, ProcOK, Account, Doc, Dispute, Safety, Proc

LEMMA IdleOK ==
  /\ Idle \in Proc
  /\ Idle.at = "idle" /\ Idle.by = Nobody /\ Idle.on = Nobody
  BY DEF Idle, Proc, Steps, Roles, Changes

LEMMA StepNames == Steps = {"idle", "profile_set", "profile_drop", "admin_write",
    "delete_driver", "delete_row", "delete_places", "org_member", "join_write",
    "upload_delete", "upload_put", "review_read", "review_verify", "dispute_insert",
    "message_insert", "message_mark"}
  BY DEF Steps

\* What a request remembers when it starts.
Own(u, at, r) ==
    /\ r \in Proc
    /\ r.at = at /\ r.by = u /\ r.role = token[u]

LEMMA RequestIs ==
  ASSUME PeopleOK, NEW u \in Users, NEW at \in Steps
  PROVE  Own(u, at, Request(u, at)) /\ Request(u, at).on = u
  <1> DEFINE i == Idle
  <1>1. token[u] \in Roles /\ i \in Proc
    BY IdleOK DEF PeopleOK
  <1> HIDE DEF i
  <1>2. LET r == [i EXCEPT !.at = at, !.by = u, !.role = token[u], !.on = u]
        IN  Own(u, at, r) /\ r.on = u
    BY <1>1 DEF Own, Proc
  <1>3. QED
    BY <1>2 DEF i, Request

LEMMA RequestSeen ==
  ASSUME PeopleOK, NEW u \in Users, NEW at \in Steps, NEW n \in Nat
  PROVE  LET r == [Request(u, at) EXCEPT !.seen = n]
         IN  Own(u, at, r) /\ r.on = u /\ r.seen = n
  <1> DEFINE i == Request(u, at)
  <1>1. Own(u, at, i) /\ i.on = u
    BY RequestIs
  <1> HIDE DEF i
  <1>2. LET r == [i EXCEPT !.seen = n]
        IN  Own(u, at, r) /\ r.on = u /\ r.seen = n
    BY <1>1 DEF Own, Proc
  <1>3. QED
    BY <1>2 DEF i

LEMMA RequestOrg ==
  ASSUME PeopleOK, NEW u \in Users, NEW at \in Steps, NEW o \in Orgs
  PROVE  LET r == [Request(u, at) EXCEPT !.org = o]
         IN  Own(u, at, r) /\ r.on = u /\ r.org = o
  <1> DEFINE i == Request(u, at)
  <1>1. Own(u, at, i) /\ i.on = u
    BY RequestIs
  <1> HIDE DEF i
  <1>2. LET r == [i EXCEPT !.org = o]
        IN  Own(u, at, r) /\ r.on = u /\ r.org = o
    BY <1>1 DEF Own, Proc
  <1>3. QED
    BY <1>2 DEF i

Asks(u, at, v, change) == [Request(u, at) EXCEPT !.on = v, !.change = change]

LEMMA RequestChange ==
  ASSUME PeopleOK, NEW u \in Users, NEW at \in Steps,
         NEW v \in Users, NEW change \in Changes
  PROVE  LET r == Asks(u, at, v, change)
         IN  Own(u, at, r) /\ r.on = v /\ r.change = change
  <1> DEFINE i == Request(u, at)
  <1>1. Own(u, at, i) /\ i.on = u
    BY RequestIs
  <1> HIDE DEF i
  <1>2. LET r == [i EXCEPT !.on = v, !.change = change]
        IN  Own(u, at, r) /\ r.on = v /\ r.change = change
    BY <1>1 DEF Own, Proc
  <1>3. QED
    BY <1>2 DEF i, Asks

LEMMA TypedInit == Init => Typed
  <1> SUFFICES ASSUME Init PROVE Typed
    OBVIOUS
  <1> USE AccountsAssumption DEF Init
  <1>1. PeopleOK
    <2>1. account \in [Users -> Account]
      BY DEF Account, Roles
    <2>2. QED
      BY <2>1 DEF PeopleOK, Account
  <1>2. CacheOK /\ SettingsOK /\ RidingOK /\ OrgsOK /\ UploadsOK
    BY DEF CacheOK, SettingsOK, RidingOK, OrgsOK, UploadsOK
  <1>3. PapersOK
    <2>1. doc \in [Docs -> [kind : Kinds, status : {"none", "pending"}]]
      OBVIOUS
    <2>2. [kind : Kinds, status : {"none", "pending"}] \subseteq Doc
      BY DEF Doc
    <2>3. doc \in [Docs -> Doc]
      BY <2>1, <2>2
    <2>4. QED
      BY <2>3 DEF PapersOK
  <1>4. TalkOK
    BY DEF TalkOK, Dispute, Safety
  <1>5. BoundsOK
    BY DEF BoundsOK
  <1>6. ProcOK
    BY IdleOK DEF ProcOK
  <1>7. QED
    BY <1>1, <1>2, <1>3, <1>4, <1>5, <1>6 DEF Typed, StateOK

-----------------------------------------------------------------------------
(* Requests start, go on and end                                           *)

LEMMA ProcOf ==
  ASSUME ProcOK, NEW p \in Procs
  PROVE  /\ proc[p] \in Proc
         /\ proc[p].at \in Steps /\ proc[p].seen \in Nat /\ proc[p].change \in Changes
         /\ proc[p].org \in Orgs \union {NoOrg}
         /\ proc[p].at # "idle" => proc[p].by \in Users /\ proc[p].on \in Users
  BY DEF ProcOK, Proc

LEMMA Starts ==
  ASSUME ProcOK, BoundsOK, NEW p \in Procs, NEW r \in Proc, r.by \in Users, r.on \in Users,
         Start(p, r)
  PROVE  /\ ProcOK' /\ served' \in 0..MaxServed
         /\ proc[p].at = "idle" /\ proc'[p] = r
         /\ \A q \in Procs : q # p => proc'[q] = proc[q]
  <1>1. served' \in 0..MaxServed
    BY AccountsAssumption DEF Start, BoundsOK
  <1>2. QED
    BY <1>1 DEF Start, ProcOK

LEMMA Dones ==
  ASSUME ProcOK, NEW p \in Procs, Done(p)
  PROVE  /\ ProcOK' /\ proc'[p] = Idle
         /\ \A q \in Procs : q # p => proc'[q] = proc[q]
  BY IdleOK DEF Done, ProcOK

LEMMA Gotos ==
  ASSUME ProcOK, NEW p \in Procs, NEW at \in Steps, proc[p].at # "idle", Goto(p, at)
  PROVE  /\ ProcOK'
         /\ proc'[p].at = at /\ proc'[p].by = proc[p].by /\ proc'[p].on = proc[p].on
         /\ proc'[p].seen = proc[p].seen
         /\ \A q \in Procs : q # p => proc'[q] = proc[q]
  <1>1. proc[p] \in Proc
    BY DEF ProcOK
  <1>2. proc' = [proc EXCEPT ![p] = [proc[p] EXCEPT !.at = at]]
    BY DEF Goto, ProcOK
  <1>3. LET r == [proc[p] EXCEPT !.at = at]
        IN  /\ r \in Proc /\ r.at = at /\ r.by = proc[p].by /\ r.on = proc[p].on
            /\ r.seen = proc[p].seen
    BY <1>1 DEF Proc
  <1>4. QED
    BY <1>2, <1>3 DEF ProcOK

LEMMA Mays ==
  ASSUME BoundsOK, NEW fails \in BOOLEAN, May(fails)
  PROVE  trouble' \in 0..MaxTrouble /\ trouble <= trouble'
  BY AccountsAssumption DEF May, BoundsOK

LEMMA OneStatement ==
  ASSUME BoundsOK, ProcOK, AtOnce
  PROVE  BoundsOK' /\ ProcOK' /\ proc' = proc
  <1>1. served' \in 0..MaxServed /\ trouble' = trouble /\ proc' = proc
    BY AccountsAssumption DEF AtOnce, BoundsOK
  <1>2. QED
    BY <1>1 DEF BoundsOK, ProcOK

-----------------------------------------------------------------------------
(* Every step keeps the types                                              *)

LEMMA Frames ==
  ASSUME Typed
  PROVE  /\ UNCHANGED people => PeopleOK'
         /\ UNCHANGED cached => CacheOK'
         /\ UNCHANGED settings => SettingsOK'
         /\ UNCHANGED riding => RidingOK'
         /\ UNCHANGED orgs => OrgsOK'
         /\ UNCHANGED papers => PapersOK'
         /\ UNCHANGED uploads => UploadsOK'
         /\ UNCHANGED talk => TalkOK'
         /\ UNCHANGED bounds => BoundsOK'
         /\ UNCHANGED proc => ProcOK'
  BY DEF Typed, StateOK, people, cached, settings, riding, orgs, papers, uploads, talk,
     bounds, PeopleOK, CacheOK, SettingsOK, RidingOK, OrgsOK, PapersOK, UploadsOK, TalkOK,
     BoundsOK, ProcOK

LEMMA RideTyped ==
  ASSUME Typed, Complete \/ \E u \in Users : SignIn(u) \/ Book(u) \/ Leave(u)
  PROVE  Typed'
  <1> USE Frames, OneStatement DEF Typed, StateOK
  <1>1. CASE Complete
    BY <1>1 DEF Complete, RidingOK
  <1>2. ASSUME NEW u \in Users, SignIn(u) PROVE Typed'
    BY <1>2 DEF SignIn, PeopleOK, Account
  <1>3. ASSUME NEW u \in Users, Book(u) PROVE Typed'
    BY <1>3 DEF Book, RidingOK
  <1>4. ASSUME NEW u \in Users, Leave(u) PROVE Typed'
    BY <1>4 DEF Leave, RidingOK
  <1>5. QED
    BY <1>1, <1>2, <1>3, <1>4

\* The requests of one statement.
LEMMA OnceTyped ==
  ASSUME Typed, NEW u \in Users,
         \/ TosAccept(u) \/ UploadUrl(u) \/ ContactAdd(u) \/ ContactDelete(u)
         \/ \E given \in SUBSET Sections : Preferences(u, given)
  PROVE  Typed'
  <1> USE Frames, OneStatement DEF Typed, StateOK
  <1>1. CASE TosAccept(u)
    BY <1>1 DEF TosAccept, SettingsOK
  <1>2. CASE UploadUrl(u)
    BY <1>2 DEF UploadUrl, UploadsOK
  <1>3. CASE ContactAdd(u)
    BY <1>3 DEF ContactAdd, TalkOK, Safety
  <1>4. CASE ContactDelete(u)
    BY <1>4 DEF ContactDelete, TalkOK, Safety
  <1>5. CASE \E given \in SUBSET Sections : Preferences(u, given)
    BY <1>5 DEF Preferences, SettingsOK
  <1>6. QED
    BY <1>1, <1>2, <1>3, <1>4, <1>5

\* What needs no request: time, and a failed creation.
LEMMA TimeTyped ==
  ASSUME Typed, NEW u \in Users,
         CacheExpire(u) \/ TicketExpire(u) \/ \E o \in Orgs : OrgInsertFails(u, o)
  PROVE  Typed'
  <1> USE Frames DEF Typed, StateOK
  <1>1. CASE CacheExpire(u)
    BY <1>1 DEF CacheExpire, CacheOK
  <1>2. CASE TicketExpire(u)
    BY <1>2 DEF TicketExpire, UploadsOK
  <1>3. ASSUME NEW o \in Orgs, OrgInsertFails(u, o) PROVE Typed'
    <2>1. BoundsOK'
      BY <1>3, Mays DEF OrgInsertFails, BoundsOK
    <2>2. OrgsOK'
      BY <1>3 DEF OrgInsertFails, OrgsOK
    <2>3. QED
      BY <1>3, <2>1, <2>2 DEF OrgInsertFails
  <1>4. QED
    BY <1>1, <1>2, <1>3

LEMMA DeskTyped ==
  ASSUME Typed,
         \/ \E fails \in BOOLEAN : Sos(fails)
         \/ \E d \in Docs, k \in Kinds : DocRecord(d, k)
         \/ \E m \in Users, d \in Disputes, refund \in BOOLEAN : DisputeResolve(m, d, refund)
  PROVE  Typed'
  <1>0. StateOK /\ BoundsOK /\ ProcOK
    BY DEF Typed
  <1>1. ASSUME NEW fails \in BOOLEAN, Sos(fails) PROVE Typed'
    <2>1. trouble' \in 0..MaxTrouble
      BY <1>0, <1>1, Mays DEF Sos
    <2>2. served' \in 0..MaxServed
      <3>1. served < MaxServed /\ served' = served + 1
        BY <1>1, Zenon DEF Sos
      <3>2. QED
        BY <1>0, <3>1, AccountsAssumption DEF BoundsOK
    <2>3. safety' \in Safety
      <3>1. safety \in Safety
        BY <1>0 DEF StateOK, TalkOK
      <3>2. safety.events + 1 \in Nat /\ safety.alerts + 1 \in Nat /\ safety.events \in Nat
        BY <3>1 DEF Safety
      <3>3. CASE fails
        <4>1. safety' = [safety EXCEPT !.events = safety.events, !.alerts = safety.alerts + 1]
          BY <1>1, <3>3 DEF Sos
        <4>2. QED
          BY <3>1, <3>2, <4>1 DEF Safety
      <3>4. CASE ~fails
        <4>1. safety' = [safety EXCEPT !.events = safety.events + 1,
                                       !.alerts = safety.alerts + 1]
          BY <1>1, <3>4 DEF Sos
        <4>2. QED
          BY <3>1, <3>2, <4>1 DEF Safety
      <3>5. QED
        BY <3>3, <3>4
    <2>4. TalkOK'
      BY <1>0, <1>1, <2>3 DEF Sos, StateOK, TalkOK
    <2>5. BoundsOK'
      BY <2>1, <2>2 DEF BoundsOK
    <2>6. QED
      BY <1>1, <2>4, <2>5, Frames DEF Sos, Typed, StateOK
  <1>2. ASSUME NEW d \in Docs, NEW k \in Kinds, DocRecord(d, k) PROVE Typed'
    <2>1. PapersOK'
      BY <1>0, <1>2 DEF DocRecord, StateOK, PapersOK, Doc
    <2>2. QED
      BY <1>0, <1>2, <2>1, Frames, OneStatement DEF DocRecord, Typed, StateOK
  <1>3. ASSUME NEW m \in Users, NEW d \in Disputes, NEW refund \in BOOLEAN,
               DisputeResolve(m, d, refund)
        PROVE  Typed'
    <2>1. TalkOK'
      BY <1>0, <1>3 DEF DisputeResolve, StateOK, TalkOK, Dispute
    <2>2. QED
      BY <1>0, <1>3, <2>1, Frames, OneStatement DEF DisputeResolve, Typed, StateOK
  <1>4. QED
    BY <1>1, <1>2, <1>3

\* A request that starts: what it remembers, and what it is.
LEMMA Begins ==
  ASSUME Typed, NEW p \in Procs, NEW u \in Users, NEW at \in Steps, NEW r,
         Own(u, at, r), r.on \in Users, Start(p, r)
  PROVE  ProcOK' /\ served' \in 0..MaxServed /\ (trouble' = trouble => BoundsOK')
  <1>1. ProcOK' /\ served' \in 0..MaxServed
    BY Starts DEF Own, Typed
  <1>2. QED
    BY <1>1 DEF BoundsOK, Typed

\* The requests that only start: they read, and write nothing.
LEMMA ReadsTyped ==
  ASSUME Typed, NEW p \in Procs, NEW u \in Users,
         \/ ProfileRead(p, u) \/ DeleteRider(p, u) \/ UploadGet(p, u) \/ DisputeRead(p, u)
         \/ \E o \in Orgs : JoinRead(p, u, o)
         \/ \E at \in {"message_insert", "message_mark"} : MessageAccess(p, u, at)
         \/ \E v \in Users, change \in Changes \ {"none"} : AdminRead(p, u, v, change)
  PROVE  Typed'
  <1>0. StateOK /\ BoundsOK /\ PeopleOK
    BY DEF Typed, StateOK
  <1>1. \A at \in Steps : Start(p, Request(u, at)) /\ trouble' = trouble => ProcOK' /\ BoundsOK'
    BY <1>0, RequestIs, Begins
  <1> DEFINE Still == UNCHANGED <<people, cached, settings, riding, orgs, papers, uploads, talk>>
  <1>2. Still /\ ProcOK' /\ BoundsOK' => Typed'
    BY Frames DEF Typed, StateOK
  <1> HIDE DEF Still
  <1>3. CASE ProfileRead(p, u)
    <2>1. account[u].profile \in Nat
      BY <1>0 DEF PeopleOK, Account
    <2>2. trouble' \in 0..MaxTrouble
      BY <1>0, <1>3, Mays DEF ProfileRead
    <2>0. "profile_set" \in Steps
      BY StepNames
    <2> DEFINE r == [Request(u, "profile_set") EXCEPT !.seen = account[u].profile]
    <2>3. Own(u, "profile_set", r) /\ r.on = u
      BY <1>0, <2>0, <2>1, RequestSeen
    <2>4. Start(p, r)
      BY <1>3 DEF ProfileRead
    <2> HIDE DEF r
    <2>5. ProcOK' /\ served' \in 0..MaxServed
      BY <2>3, <2>4, Begins, StepNames
    <2>6. QED
      BY <1>2, <1>3, <2>2, <2>5 DEF ProfileRead, BoundsOK, Still
  <1>4. CASE DeleteRider(p, u)
    BY <1>1, <1>2, <1>4, StepNames DEF DeleteRider, Still
  <1>5. CASE UploadGet(p, u)
    BY <1>1, <1>2, <1>5, StepNames DEF UploadGet, Still
  <1>6. CASE DisputeRead(p, u)
    BY <1>1, <1>2, <1>6, StepNames DEF DisputeRead, Still
  <1>7. ASSUME NEW o \in Orgs, JoinRead(p, u, o) PROVE Typed'
    <2>0. "join_write" \in Steps
      BY StepNames
    <2> DEFINE r == [Request(u, "join_write") EXCEPT !.org = o]
    <2>1. Own(u, "join_write", r) /\ r.on = u
      BY <1>0, <2>0, RequestOrg
    <2>2. Start(p, r) /\ Still /\ trouble' = trouble
      BY <1>7 DEF JoinRead, Still
    <2> HIDE DEF r
    <2>3. QED
      BY <1>2, <2>1, <2>2, Begins, StepNames
  <1>8. ASSUME NEW at \in {"message_insert", "message_mark"}, MessageAccess(p, u, at)
        PROVE  Typed'
    BY <1>1, <1>2, <1>8, StepNames DEF MessageAccess, Still
  <1>9. ASSUME NEW v \in Users, NEW change \in Changes \ {"none"}, AdminRead(p, u, v, change)
        PROVE  Typed'
    <2>0. "admin_write" \in Steps /\ change \in Changes
      BY StepNames
    <2> DEFINE r == Asks(u, "admin_write", v, change)
    <2>1. Own(u, "admin_write", r) /\ r.on = v
      BY <1>0, <2>0, RequestChange
    <2>2. Start(p, r) /\ Still /\ trouble' = trouble
      BY <1>9 DEF AdminRead, Still, Asks
    <2> HIDE DEF r
    <2>3. QED
      BY <1>2, <2>1, <2>2, Begins, StepNames
  <1>10. QED
    BY <1>3, <1>4, <1>5, <1>6, <1>7, <1>8, <1>9

\* The requests that start with a write.
LEMMA WritesTyped ==
  ASSUME Typed, NEW p \in Procs, NEW u \in Users,
         \/ ProfileUpdate(p, u)
         \/ \E o \in Orgs : OrgInsert(p, u, o)
         \/ \E d \in Docs, status \in Reviews : ReviewWrite(p, u, d, status)
  PROVE  Typed'
  <1>0. StateOK /\ BoundsOK /\ ProcOK /\ PeopleOK /\ OrgsOK /\ PapersOK
    BY DEF Typed, StateOK
  <1>1. CASE ProfileUpdate(p, u)
    <2>0. "profile_drop" \in Steps
      BY StepNames
    <2> DEFINE r == [Request(u, "profile_drop") EXCEPT !.seen = profiles + 1]
    <2>1. profiles + 1 \in Nat
      BY <1>0 DEF PeopleOK
    <2>2. PeopleOK'
      <3>1. [account[u] EXCEPT !.profile = profiles + 1] \in Account
        BY <1>0, <2>1 DEF PeopleOK, Account
      <3>2. account' = [account EXCEPT ![u] = [account[u] EXCEPT !.profile = profiles + 1]]
        BY <1>1 DEF ProfileUpdate
      <3>3. account' \in [Users -> Account]
        BY <1>0, <3>1, <3>2 DEF PeopleOK
      <3>4. QED
        BY <1>0, <1>1, <2>1, <3>3 DEF ProfileUpdate, PeopleOK
    <2>3. Own(u, "profile_drop", r) /\ r.on = u
      BY <1>0, <2>0, <2>1, RequestSeen
    <2>4. Start(p, r) /\ trouble' = trouble
      BY <1>1 DEF ProfileUpdate
    <2> HIDE DEF r
    <2>5. ProcOK' /\ BoundsOK'
      BY <2>3, <2>4, Begins, StepNames
    <2>6. QED
      BY <1>1, <2>2, <2>5, Frames DEF ProfileUpdate, Typed, StateOK
  <1>2. ASSUME NEW o \in Orgs, OrgInsert(p, u, o) PROVE Typed'
    <2>0. "org_member" \in Steps
      BY StepNames
    <2> DEFINE r == [Request(u, "org_member") EXCEPT !.org = o]
    <2>1. OrgsOK'
      BY <1>0, <1>2 DEF OrgInsert, OrgsOK
    <2>2. Own(u, "org_member", r) /\ r.on = u
      BY <1>0, <2>0, RequestOrg
    <2>3. Start(p, r) /\ trouble' = trouble
      BY <1>2 DEF OrgInsert
    <2> HIDE DEF r
    <2>4. ProcOK' /\ BoundsOK'
      BY <2>2, <2>3, Begins, StepNames
    <2>5. QED
      BY <1>2, <2>1, <2>4, Frames DEF OrgInsert, Typed, StateOK
  <1>3. ASSUME NEW d \in Docs, NEW status \in Reviews, ReviewWrite(p, u, d, status)
        PROVE  Typed'
    <2>1. doc' \in [Docs -> Doc]
      <3>1. [doc[d] EXCEPT !.status = status] \in Doc
        BY <1>0 DEF PapersOK, Doc
      <3>2. doc' = [doc EXCEPT ![d] = [doc[d] EXCEPT !.status = status]]
        BY <1>3 DEF ReviewWrite
      <3>3. QED
        BY <1>0, <3>1, <3>2 DEF PapersOK
    <2>2. (complete \/ Kinds \subseteq ApprovedKinds(doc')) \in BOOLEAN
      BY <1>0 DEF PapersOK
    <2>3. PapersOK'
      BY <1>0, <1>3, <2>1, <2>2 DEF ReviewWrite, PapersOK
    <2>4. ProcOK' /\ BoundsOK'
      <3>1. CASE status = "approved"
        <4>1. Start(p, Request(u, "review_read")) /\ trouble' = trouble
          BY <1>3, <3>1 DEF ReviewWrite
        <4>2. QED
          BY <1>0, <4>1, RequestIs, Begins, StepNames
      <3>2. CASE status # "approved"
        BY <1>0, <1>3, <3>2, OneStatement DEF ReviewWrite
      <3>3. QED
        BY <3>1, <3>2
    <2>5. QED
      BY <1>3, <2>3, <2>4, Frames DEF ReviewWrite, Typed, StateOK
  <1>4. QED
    BY <1>1, <1>2, <1>3

\* The steps of a request that has started.
LEMMA PersonalSteps ==
  ASSUME Typed, NEW p \in Procs,
         \/ ProfileSet(p) \/ ProfileDrop(p) \/ DeleteDriver(p) \/ DeleteRow(p)
         \/ DeletePlaces(p) \/ AdminWrite(p) \/ OrgMember(p) \/ JoinWrite(p)
  PROVE  Typed'
  <1>0. StateOK /\ BoundsOK /\ ProcOK /\ PeopleOK /\ CacheOK /\ OrgsOK /\ RidingOK
    BY DEF Typed, StateOK
  <1>u. ASSUME proc[p].at # "idle" PROVE proc[p].by \in Users /\ proc[p].on \in Users
    BY <1>0, <1>u DEF ProcOK
  <1>n. proc[p].seen \in Nat /\ proc[p].change \in Changes
        /\ proc[p].org \in Orgs \union {NoOrg}
    BY <1>0, ProcOf
  <1>t. \A f \in BOOLEAN : May(f) /\ served' = served => BoundsOK'
    BY <1>0, Mays DEF BoundsOK
  <1>b. UNCHANGED bounds => BoundsOK'
    BY Frames
  <1>a. ASSUME NEW u \in Users, NEW x \in Account, account' = [account EXCEPT ![u] = x],
               UNCHANGED token, profiles' \in Nat
        PROVE  PeopleOK'
    BY <1>0, <1>a DEF PeopleOK
  <1>1. CASE ProfileSet(p)
    <2>1. PICK fails \in BOOLEAN :
            /\ May(fails)
            /\ cache' = IF fails THEN cache ELSE [cache EXCEPT ![proc[p].on] = proc[p].seen]
      BY <1>1 DEF ProfileSet
    <2>2. CacheOK'
      BY <1>0, <1>1, <1>n, <2>1 DEF ProfileSet, CacheOK
    <2>3. BoundsOK'
      BY <1>1, <1>t, <2>1 DEF ProfileSet
    <2>4. QED
      BY <1>0, <1>1, <2>2, <2>3, Frames, Dones DEF ProfileSet, Typed, StateOK
  <1>2. CASE ProfileDrop(p)
    <2>1. PICK fails \in BOOLEAN :
            /\ May(fails)
            /\ cache' = IF fails THEN cache ELSE [cache EXCEPT ![proc[p].on] = 0]
            /\ lost' = IF fails THEN lost \union {proc[p].on} ELSE lost
      BY <1>2 DEF ProfileDrop
    <2>2. proc[p].on \in Users
      BY <1>2, <1>u DEF ProfileDrop
    <2>3. updated' = [updated EXCEPT ![proc[p].on] = proc[p].seen]
      BY <1>2 DEF ProfileDrop
    <2>4. CacheOK'
      BY <1>0, <1>n, <2>1, <2>2, <2>3 DEF CacheOK
    <2>5. BoundsOK'
      BY <1>2, <1>t, <2>1 DEF ProfileDrop
    <2>6. QED
      BY <1>0, <1>2, <2>4, <2>5, Frames, Dones DEF ProfileDrop, Typed, StateOK
  <1>3. CASE DeleteDriver(p)
    <2>1. ProcOK'
      <3>1. Done(p) \/ Goto(p, "delete_row")
        BY <1>3 DEF DeleteDriver
      <3>2. proc[p].at # "idle" /\ "delete_row" \in Steps
        BY <1>3, StepNames DEF DeleteDriver
      <3>3. QED
        BY <1>0, <3>1, <3>2, Dones, Gotos
    <2>2. QED
      BY <1>0, <1>3, <2>1, Frames DEF DeleteDriver, Typed, StateOK
  <1>4. CASE DeleteRow(p)
    <2> DEFINE u == proc[p].by
               x == [account[u] EXCEPT !.deleted = TRUE, !.active = FALSE, !.profile = 0]
    <2>1. u \in Users
      BY <1>4, <1>u DEF DeleteRow
    <2>2. account' = [account EXCEPT ![u] = x]
      BY <1>0, <1>4, <2>1 DEF DeleteRow, PeopleOK
    <2>3. x \in Account
      BY <1>0, <2>1 DEF PeopleOK, Account
    <2>4. profiles' \in Nat /\ UNCHANGED token
      BY <1>0, <1>4 DEF DeleteRow, PeopleOK
    <2> HIDE DEF x, u
    <2>5. PeopleOK'
      BY <1>a, <2>1, <2>2, <2>3, <2>4
    <2>6. ProcOK'
      <3>1. "delete_places" \in Steps /\ proc[p].at # "idle" /\ Goto(p, "delete_places")
        BY <1>4, StepNames DEF DeleteRow
      <3>2. QED
        BY <1>0, <3>1, Gotos
    <2>7. QED
      BY <1>0, <1>4, <2>5, <2>6, Frames DEF DeleteRow, Typed, StateOK
  <1>5. CASE DeletePlaces(p)
    <2>1. RidingOK'
      BY <1>0, <1>5 DEF DeletePlaces, RidingOK
    <2>2. QED
      BY <1>0, <1>5, <2>1, Frames, Dones DEF DeletePlaces, Typed, StateOK
  <1>6. CASE AdminWrite(p)
    <2> DEFINE u == proc[p].on
               c == proc[p].change
               x == CASE c \in Roles -> [account[u] EXCEPT !.role = c]
                      [] c = "activate" -> [account[u] EXCEPT !.active = TRUE]
                      [] c = "suspend" -> [account[u] EXCEPT !.active = FALSE]
                      [] OTHER -> [account[u] EXCEPT !.profile = profiles + 1]
    <2>1. u \in Users /\ account[u] \in Account
      BY <1>0, <1>6, <1>u DEF AdminWrite, PeopleOK
    <2>2. account' = [account EXCEPT ![u] = x]
      BY <1>6 DEF AdminWrite
    <2>3. x \in Account
      <3>1. CASE c \in Roles
        <4>1. x = [account[u] EXCEPT !.role = c]
          BY <3>1 DEF Roles
        <4>2. QED
          BY <2>1, <3>1, <4>1 DEF Account
      <3>2. CASE c = "activate"
        <4>1. x = [account[u] EXCEPT !.active = TRUE]
          BY <3>2 DEF Roles
        <4>2. QED
          BY <2>1, <4>1 DEF Account
      <3>3. CASE c = "suspend"
        <4>1. x = [account[u] EXCEPT !.active = FALSE]
          BY <3>3 DEF Roles
        <4>2. QED
          BY <2>1, <4>1 DEF Account
      <3>4. CASE c \notin Roles \union {"activate", "suspend"}
        <4>1. x = [account[u] EXCEPT !.profile = profiles + 1]
          BY <3>4
        <4>2. profiles + 1 \in Nat
          BY <1>0 DEF PeopleOK
        <4>3. QED
          BY <2>1, <4>1, <4>2 DEF Account
      <3>5. QED
        BY <3>1, <3>2, <3>3, <3>4
    <2>4. profiles' \in Nat /\ UNCHANGED token
      BY <1>0, <1>6 DEF AdminWrite, PeopleOK
    <2> HIDE DEF x, u, c
    <2>5. PeopleOK'
      BY <1>a, <2>1, <2>2, <2>3, <2>4
    <2>6. QED
      BY <1>0, <1>6, <2>5, Frames, Dones DEF AdminWrite, Typed, StateOK
  <1>7. CASE OrgMember(p)
    <2> DEFINE u == proc[p].by
               x == [account[u] EXCEPT !.org = proc[p].org]
    <2>1. u \in Users
      BY <1>7, <1>u DEF OrgMember
    <2>2. PICK fails \in BOOLEAN :
            May(fails) /\ account' = IF fails THEN account ELSE [account EXCEPT ![u] = x]
      BY <1>7 DEF OrgMember
    <2>3. x \in Account /\ account[u] \in Account
      BY <1>0, <1>n, <2>1 DEF PeopleOK, Account
    <2>4. profiles' \in Nat /\ UNCHANGED token
      BY <1>0, <1>7 DEF OrgMember, PeopleOK
    <2> HIDE DEF x
    <2>5. PeopleOK'
      BY <1>0, <2>1, <2>2, <2>3, <2>4 DEF PeopleOK
    <2>6. OrgsOK'
      BY <1>0, <1>7, <2>1 DEF OrgMember, OrgsOK
    <2>7. BoundsOK'
      BY <1>7, <1>t, <2>2 DEF OrgMember
    <2>8. QED
      BY <1>0, <1>7, <2>5, <2>6, <2>7, Frames, Dones DEF OrgMember, Typed, StateOK
  <1>8. CASE JoinWrite(p)
    <2> DEFINE u == proc[p].by
               x == [account[u] EXCEPT !.org = proc[p].org]
    <2>1. u \in Users
      BY <1>8, <1>u DEF JoinWrite
    <2>2. account' = [account EXCEPT ![u] = x]
      BY <1>8 DEF JoinWrite
    <2>3. x \in Account
      BY <1>0, <1>n, <2>1 DEF PeopleOK, Account
    <2>4. profiles' \in Nat /\ UNCHANGED token
      BY <1>0, <1>8 DEF JoinWrite, PeopleOK
    <2> HIDE DEF x, u
    <2>5. PeopleOK'
      BY <1>a, <2>1, <2>2, <2>3, <2>4
    <2>6. QED
      BY <1>0, <1>8, <2>5, Frames, Dones DEF JoinWrite, Typed, StateOK
  <1>9. QED
    BY <1>1, <1>2, <1>3, <1>4, <1>5, <1>6, <1>7, <1>8

LEMMA DeskSteps ==
  ASSUME Typed, NEW p \in Procs,
         \/ UploadDelete(p) \/ UploadPut(p) \/ ReviewRead(p) \/ ReviewVerify(p)
         \/ DisputeInsert(p) \/ MessageInsert(p) \/ MessageMark(p) \/ Abort(p)
  PROVE  Typed'
  <1>0. StateOK /\ BoundsOK /\ ProcOK /\ PapersOK /\ UploadsOK /\ TalkOK
    BY DEF Typed, StateOK
  <1>u. ASSUME proc[p].at # "idle" PROVE proc[p].by \in Users /\ proc[p].on \in Users
    BY <1>0, <1>u DEF ProcOK
  <1>1. CASE UploadDelete(p)
    <2>1. ProcOK'
      <3>1. Done(p) \/ Goto(p, "upload_put")
        BY <1>1 DEF UploadDelete
      <3>2. proc[p].at # "idle" /\ "upload_put" \in Steps
        BY <1>1, StepNames DEF UploadDelete
      <3>3. QED
        BY <1>0, <3>1, <3>2, Dones, Gotos
    <2>2. UploadsOK'
      BY <1>0, <1>1 DEF UploadDelete, UploadsOK
    <2>3. QED
      BY <1>0, <1>1, <2>1, <2>2, Frames DEF UploadDelete, Typed, StateOK
  <1>2. CASE UploadPut(p)
    <2>1. UploadsOK'
      <3>1. file[proc[p].by] + 1 \in Nat
        BY <1>0, <1>2, <1>u DEF UploadPut, UploadsOK
      <3>2. QED
        BY <1>0, <1>2, <3>1 DEF UploadPut, UploadsOK
    <2>2. QED
      BY <1>0, <1>2, <2>1, Frames, Dones DEF UploadPut, Typed, StateOK
  <1>3. CASE ReviewRead(p)
    <2>1. ProcOK'
      <3>1. Done(p) \/ Goto(p, "review_verify")
        BY <1>3 DEF ReviewRead
      <3>2. proc[p].at # "idle" /\ "review_verify" \in Steps
        BY <1>3, StepNames DEF ReviewRead
      <3>3. QED
        BY <1>0, <3>1, <3>2, Dones, Gotos
    <2>2. QED
      BY <1>0, <1>3, <2>1, Frames DEF ReviewRead, Typed, StateOK
  <1>4. CASE ReviewVerify(p)
    <2>1. PapersOK'
      BY <1>0, <1>4 DEF ReviewVerify, PapersOK
    <2>2. QED
      BY <1>0, <1>4, <2>1, Frames, Dones DEF ReviewVerify, Typed, StateOK
  <1>5. CASE DisputeInsert(p)
    <2>1. proc[p].by \in Users
      BY <1>5, <1>u DEF DisputeInsert
    <2>2. PICK d \in Disputes :
            dispute' = [dispute EXCEPT ![d] = [by |-> proc[p].by, status |-> "open",
                                               refund |-> FALSE]]
      BY <1>5 DEF DisputeInsert
    <2>3. TalkOK'
      BY <1>0, <1>5, <2>1, <2>2 DEF DisputeInsert, TalkOK, Dispute
    <2>4. QED
      BY <1>0, <1>5, <2>3, Frames, Dones DEF DisputeInsert, Typed, StateOK
  <1>6. CASE MessageInsert(p)
    <2>1. TalkOK'
      BY <1>0, <1>6 DEF MessageInsert, TalkOK
    <2>2. QED
      BY <1>0, <1>6, <2>1, Frames, Dones DEF MessageInsert, Typed, StateOK
  <1>7. CASE MessageMark(p)
    <2>1. TalkOK'
      BY <1>0, <1>7 DEF MessageMark, TalkOK
    <2>2. QED
      BY <1>0, <1>7, <2>1, Frames, Dones DEF MessageMark, Typed, StateOK
  <1>8. CASE Abort(p)
    <2>1. BoundsOK'
      BY <1>0, <1>8, Mays DEF Abort, BoundsOK
    <2>2. QED
      BY <1>0, <1>8, <2>1, Frames, Dones DEF Abort, Typed, StateOK
  <1>9. QED
    BY <1>1, <1>2, <1>3, <1>4, <1>5, <1>6, <1>7, <1>8

LEMMA TypedNext == Typed /\ [Next]_vars => Typed'
  <1> SUFFICES ASSUME Typed, [Next]_vars PROVE Typed'
    OBVIOUS
  <1>1. CASE UNCHANGED vars
    BY <1>1, Frames DEF vars, Typed, StateOK
  <1>2. ASSUME NEW u \in Users, Personal(u) PROVE Typed'
    BY <1>2, RideTyped, OnceTyped, TimeTyped DEF Personal
  <1>3. ASSUME NEW p \in Procs, Continue(p) PROVE Typed'
    BY <1>3, PersonalSteps, DeskSteps DEF Continue
  <1>4. ASSUME NEW p \in Procs, NEW u \in Users, Profile(p, u) PROVE Typed'
    BY <1>4, ReadsTyped, WritesTyped DEF Profile
  <1>5. CASE Next
    BY <1>2, <1>3, <1>4, <1>5, RideTyped, DeskTyped, ReadsTyped, WritesTyped DEF Next
  <1>6. QED
    BY <1>1, <1>5

\* Every reachable state is well typed, for any number of accounts and requests.
THEOREM TypeCorrect == Spec => []TypeOK
  <1>1. QED
    BY TypedInit, TypedNext, TypedIsTypeOK, PTL DEF Spec

-----------------------------------------------------------------------------
(* What a step does to the requests                                        *)

\* A user's own requests, of which he has one in flight.
OwnSteps == {"profile_set", "profile_drop", "delete_driver", "delete_row",
             "delete_places", "upload_delete", "upload_put", "dispute_insert"}
Follows == {<<"delete_driver", "delete_row">>, <<"delete_row", "delete_places">>,
            <<"upload_delete", "upload_put">>, <<"review_read", "review_verify">>}

\* One that starts, with what it was checked for...
Started(p) ==
    \/ \E u \in Users :
          /\ Alone(u)
          /\ proc'[p].by = u /\ proc'[p].on = u
          /\ \/ proc'[p].at \in {"delete_driver", "upload_delete"}
             \/ /\ proc'[p].at = "profile_set"
                /\ proc'[p].seen = account[u].profile /\ ~account[u].deleted
             \/ /\ proc'[p].at = "profile_drop"
                /\ proc'[p].seen = profiles + 1
                /\ account'[u].profile = profiles + 1 /\ profiles' = profiles + 1
             \/ proc'[p].at = "dispute_insert" /\ ~HasOpen(u)
    \/ \E o \in Orgs :
          /\ proc'[p].at = "org_member" /\ proc'[p].org = o /\ org[o] = Nobody
          /\ org' = [org EXCEPT ![o] = proc'[p].by]
    \/ proc'[p].at \in {"join_write", "message_insert", "message_mark", "review_read"}
    \/ /\ proc'[p].at = "admin_write"
       /\ OneAtATime => \A q \in Procs : proc[q].at # "admin_write"
       /\ Outranks(proc'[p].role, account[proc'[p].on].role, proc'[p].change)
       /\ account' = account

\* ...or goes on...
Moved(p) ==
    /\ <<proc[p].at, proc'[p].at>> \in Follows
    /\ proc'[p].by = proc[p].by /\ proc'[p].on = proc[p].on

\* ...or ends; the others stay as they are.
Others(p) == \A q \in Procs : q # p => proc'[q] = proc[q]
Turn(p) ==
    /\ Others(p)
    /\ \/ proc[p].at = "idle" /\ Started(p)
       \/ proc[p].at # "idle" /\ Moved(p)
       \/ proc[p].at # "idle" /\ proc'[p] = Idle

LEMMA StartsTurn ==
  ASSUME Typed, NEW p \in Procs, NEW u \in Users,
         \/ Profile(p, u) \/ UploadGet(p, u) \/ DisputeRead(p, u)
         \/ \E o \in Orgs : OrgInsert(p, u, o) \/ JoinRead(p, u, o)
         \/ \E at \in {"message_insert", "message_mark"} : MessageAccess(p, u, at)
         \/ \E v \in Users, change \in Changes \ {"none"} : AdminRead(p, u, v, change)
  PROVE  Turn(p)
  <1>0. PeopleOK /\ ProcOK /\ BoundsOK
    BY DEF Typed, StateOK
  <1>r. ASSUME NEW at \in Steps, NEW r, Own(u, at, r), r.on \in Users, Start(p, r)
        PROVE  proc[p].at = "idle" /\ proc'[p] = r /\ Others(p)
    BY <1>0, <1>r, Starts DEF Own, Others
  <1>1. CASE ProfileRead(p, u)
    <2> DEFINE r == [Request(u, "profile_set") EXCEPT !.seen = account[u].profile]
    <2>0. "profile_set" \in Steps /\ account[u].profile \in Nat
      BY <1>0, StepNames DEF PeopleOK, Account
    <2>1. Own(u, "profile_set", r) /\ r.on = u /\ r.seen = account[u].profile
      BY <1>0, <2>0, RequestSeen
    <2>2. Start(p, r) /\ Alone(u) /\ ~account[u].deleted
      BY <1>1 DEF ProfileRead
    <2> HIDE DEF r
    <2>3. QED
      BY <1>r, <2>0, <2>1, <2>2 DEF Turn, Started, Own
  <1>2. CASE ProfileUpdate(p, u)
    <2> DEFINE r == [Request(u, "profile_drop") EXCEPT !.seen = profiles + 1]
    <2>0. "profile_drop" \in Steps /\ profiles + 1 \in Nat
      BY <1>0, StepNames DEF PeopleOK
    <2>1. Own(u, "profile_drop", r) /\ r.on = u /\ r.seen = profiles + 1
      BY <1>0, <2>0, RequestSeen
    <2>2. Start(p, r) /\ Alone(u)
      BY <1>2 DEF ProfileUpdate
    <2>3. account'[u].profile = profiles + 1
      <3>1. account' = [account EXCEPT ![u] = [account[u] EXCEPT !.profile = profiles + 1]]
        BY <1>2 DEF ProfileUpdate
      <3>2. [account[u] EXCEPT !.profile = profiles + 1].profile = profiles + 1
        BY <1>0 DEF PeopleOK, Account
      <3>3. QED
        BY <1>0, <3>1, <3>2 DEF PeopleOK
    <2>4. profiles' = profiles + 1
      BY <1>2 DEF ProfileUpdate
    <2> HIDE DEF r
    <2>5. QED
      BY <1>r, <2>0, <2>1, <2>2, <2>3, <2>4 DEF Turn, Started, Own
  <1>3. CASE DeleteRider(p, u)
    <2>1. Start(p, Request(u, "delete_driver")) /\ Alone(u) /\ "delete_driver" \in Steps
      BY <1>3, StepNames DEF DeleteRider
    <2>2. QED
      BY <1>0, <1>r, <2>1, RequestIs DEF Turn, Started, Own
  <1>4. CASE UploadGet(p, u)
    <2>1. Start(p, Request(u, "upload_delete")) /\ Alone(u) /\ "upload_delete" \in Steps
      BY <1>4, StepNames DEF UploadGet
    <2>2. QED
      BY <1>0, <1>r, <2>1, RequestIs DEF Turn, Started, Own
  <1>5. CASE DisputeRead(p, u)
    <2>1. /\ Start(p, Request(u, "dispute_insert")) /\ Alone(u) /\ ~HasOpen(u)
          /\ "dispute_insert" \in Steps
      BY <1>5, StepNames DEF DisputeRead, MayDispute
    <2>2. QED
      BY <1>0, <1>r, <2>1, RequestIs DEF Turn, Started, Own
  <1>6. ASSUME NEW o \in Orgs, OrgInsert(p, u, o) PROVE Turn(p)
    <2> DEFINE r == [Request(u, "org_member") EXCEPT !.org = o]
    <2>0. "org_member" \in Steps
      BY StepNames
    <2>1. Own(u, "org_member", r) /\ r.on = u /\ r.org = o
      BY <1>0, <2>0, RequestOrg
    <2>2. Start(p, r) /\ org[o] = Nobody /\ org' = [org EXCEPT ![o] = u]
      BY <1>6 DEF OrgInsert
    <2> HIDE DEF r
    <2>3. QED
      BY <1>r, <2>0, <2>1, <2>2 DEF Turn, Started, Own
  <1>7. ASSUME NEW o \in Orgs, JoinRead(p, u, o) PROVE Turn(p)
    <2> DEFINE r == [Request(u, "join_write") EXCEPT !.org = o]
    <2>0. "join_write" \in Steps
      BY StepNames
    <2>1. Own(u, "join_write", r) /\ r.on = u
      BY <1>0, <2>0, RequestOrg
    <2>2. Start(p, r)
      BY <1>7 DEF JoinRead
    <2> HIDE DEF r
    <2>3. QED
      BY <1>r, <2>0, <2>1, <2>2 DEF Turn, Started, Own
  <1>8. ASSUME NEW at \in {"message_insert", "message_mark"}, MessageAccess(p, u, at)
        PROVE  Turn(p)
    <2>1. Start(p, Request(u, at)) /\ at \in Steps
      BY <1>8, StepNames DEF MessageAccess
    <2>2. QED
      BY <1>0, <1>r, <2>1, RequestIs DEF Turn, Started, Own
  <1>9. ASSUME NEW v \in Users, NEW change \in Changes \ {"none"}, AdminRead(p, u, v, change)
        PROVE  Turn(p)
    <2>0. "admin_write" \in Steps /\ change \in Changes
      BY StepNames
    <2> DEFINE r == Asks(u, "admin_write", v, change)
    <2>1. Own(u, "admin_write", r) /\ r.on = v /\ r.change = change
      BY <1>0, <2>0, RequestChange
    <2>2. /\ Start(p, r) /\ account' = account
          /\ Outranks(token[u], account[v].role, change)
          /\ OneAtATime => \A q \in Procs : proc[q].at # "admin_write"
      BY <1>9 DEF AdminRead, Asks, people
    <2> HIDE DEF r
    <2>3. QED
      BY <1>r, <2>0, <2>1, <2>2 DEF Turn, Started, Own
  <1>10. QED
    BY <1>1, <1>2, <1>3, <1>4, <1>5, <1>6, <1>7, <1>8, <1>9 DEF Profile

LEMMA ReviewTurn ==
  ASSUME Typed, NEW p \in Procs, NEW m \in Users, NEW d \in Docs, NEW status \in Reviews,
         ReviewWrite(p, m, d, status)
  PROVE  Turn(p) \/ (status # "approved" /\ UNCHANGED proc)
  <1>0. PeopleOK /\ ProcOK /\ BoundsOK
    BY DEF Typed, StateOK
  <1>1. CASE status = "approved"
    <2>1. Start(p, Request(m, "review_read")) /\ "review_read" \in Steps
      BY <1>1, StepNames DEF ReviewWrite
    <2>2. Own(m, "review_read", Request(m, "review_read")) /\ Request(m, "review_read").on = m
      BY <1>0, <2>1, RequestIs
    <2>3. QED
      BY <1>0, <2>1, <2>2, Starts DEF Own, Turn, Started, Others
  <1>2. CASE status # "approved"
    BY <1>2, OneStatement, <1>0 DEF ReviewWrite
  <1>3. QED
    BY <1>1, <1>2

LEMMA StepsTurn ==
  ASSUME Typed, NEW p \in Procs, Continue(p)
  PROVE  Turn(p)
  <1>0. ProcOK
    BY DEF Typed
  <1>1. CASE Done(p) /\ proc[p].at # "idle"
    BY <1>0, <1>1, Dones DEF Turn, Others
  <1>2. ASSUME NEW at \in Steps, Goto(p, at), proc[p].at # "idle",
               <<proc[p].at, at>> \in Follows
        PROVE  Turn(p)
    BY <1>0, <1>2, Gotos DEF Turn, Others, Moved
  <1>3. CASE \/ ProfileSet(p) \/ ProfileDrop(p) \/ DeletePlaces(p) \/ AdminWrite(p)
             \/ OrgMember(p) \/ JoinWrite(p) \/ UploadPut(p) \/ ReviewVerify(p)
             \/ DisputeInsert(p) \/ MessageInsert(p) \/ MessageMark(p) \/ Abort(p)
    <2>1. Done(p)
      BY <1>3, Zenon DEF ProfileSet, ProfileDrop, DeletePlaces, AdminWrite, OrgMember, JoinWrite,
         UploadPut, ReviewVerify, DisputeInsert, MessageInsert, MessageMark, Abort
    <2>2. proc[p].at # "idle"
      BY <1>3 DEF ProfileSet, ProfileDrop, DeletePlaces, AdminWrite, OrgMember, JoinWrite,
         UploadPut, ReviewVerify, DisputeInsert, MessageInsert, MessageMark, Abort
    <2>3. QED
      BY <1>1, <2>1, <2>2
  <1>4. CASE DeleteDriver(p)
    BY <1>1, <1>2, <1>4, StepNames DEF DeleteDriver, Follows
  <1>5. CASE DeleteRow(p)
    BY <1>2, <1>5, StepNames DEF DeleteRow, Follows
  <1>6. CASE UploadDelete(p)
    BY <1>1, <1>2, <1>6, StepNames DEF UploadDelete, Follows
  <1>7. CASE ReviewRead(p)
    BY <1>1, <1>2, <1>7, StepNames DEF ReviewRead, Follows
  <1>8. QED
    BY <1>3, <1>4, <1>5, <1>6, <1>7 DEF Continue

LEMMA TurnNext == Typed /\ [Next]_vars => UNCHANGED proc \/ \E p \in Procs : Turn(p)
  <1> SUFFICES ASSUME Typed, [Next]_vars PROVE UNCHANGED proc \/ \E p \in Procs : Turn(p)
    OBVIOUS
  <1>1. CASE UNCHANGED vars
    BY <1>1 DEF vars
  <1>2. CASE Complete \/ \E fails \in BOOLEAN : Sos(fails)
    BY <1>2 DEF Complete, Sos, AtOnce
  <1>3. ASSUME NEW u \in Users, Personal(u) PROVE UNCHANGED proc
    BY <1>3 DEF Personal, SignIn, CacheExpire, TosAccept, UploadUrl, TicketExpire, ContactAdd,
       ContactDelete, Book, Leave, Preferences, OrgInsertFails, AtOnce
  <1>4. CASE \/ \E d \in Docs, k \in Kinds : DocRecord(d, k)
             \/ \E m \in Users, d \in Disputes, refund \in BOOLEAN : DisputeResolve(m, d, refund)
    BY <1>4 DEF DocRecord, DisputeResolve, AtOnce
  <1>5. ASSUME NEW p \in Procs, Continue(p) PROVE Turn(p)
    BY <1>5, StepsTurn
  <1>6. QED
    BY <1>1, <1>2, <1>3, <1>4, <1>5, StartsTurn, ReviewTurn DEF Next

-----------------------------------------------------------------------------
(* Who writes what                                                         *)

\* Starting a request only reads, but for three of them.
Reading(p, u) ==
    \/ ProfileRead(p, u) \/ DeleteRider(p, u) \/ UploadGet(p, u) \/ DisputeRead(p, u)
    \/ \E o \in Orgs : JoinRead(p, u, o)
    \/ \E at \in {"message_insert", "message_mark"} : MessageAccess(p, u, at)
    \/ \E v \in Users, change \in Changes \ {"none"} : AdminRead(p, u, v, change)

LEMMA ReadingWritesNothing ==
  ASSUME NEW p \in Procs, NEW u \in Users, Reading(p, u)
  PROVE  UNCHANGED <<people, cached, orgs, papers, talk>>
  BY DEF Reading, ProfileRead, DeleteRider, UploadGet, DisputeRead, JoinRead, MessageAccess,
     AdminRead

LEMMA PersonalWrites ==
  ASSUME NEW u \in Users, Personal(u)
  PROVE  /\ UNCHANGED <<account, profiles, papers, dispute>>
         /\ UNCHANGED cached \/ CacheExpire(u)
         /\ UNCHANGED orgs \/ \E o \in Orgs : OrgInsertFails(u, o)
  BY DEF Personal, SignIn, CacheExpire, TosAccept, UploadUrl, TicketExpire, ContactAdd,
     ContactDelete, Book, Leave, Preferences, OrgInsertFails, people, talk

LEMMA ContinueWrites ==
  ASSUME NEW p \in Procs, Continue(p)
  PROVE  /\ UNCHANGED cached \/ ProfileSet(p) \/ ProfileDrop(p)
         /\ UNCHANGED orgs \/ OrgMember(p)
         /\ UNCHANGED papers \/ ReviewVerify(p)
         /\ UNCHANGED dispute \/ DisputeInsert(p)
         /\ \/ UNCHANGED <<account, profiles>>
            \/ DeleteRow(p) \/ AdminWrite(p) \/ OrgMember(p) \/ JoinWrite(p)
  <1> USE DEF people, talk
  <1>1. CASE ProfileSet(p) \/ ProfileDrop(p)
    BY <1>1 DEF ProfileSet, ProfileDrop
  <1>2. CASE DeleteDriver(p) \/ DeletePlaces(p) \/ UploadDelete(p) \/ UploadPut(p) \/ Abort(p)
    BY <1>2 DEF DeleteDriver, DeletePlaces, UploadDelete, UploadPut, Abort
  <1>3. CASE DeleteRow(p) \/ AdminWrite(p) \/ JoinWrite(p) \/ OrgMember(p)
    BY <1>3 DEF DeleteRow, AdminWrite, JoinWrite, OrgMember
  <1>4. CASE ReviewRead(p) \/ ReviewVerify(p)
    BY <1>4 DEF ReviewRead, ReviewVerify
  <1>5. CASE DisputeInsert(p) \/ MessageInsert(p) \/ MessageMark(p)
    BY <1>5 DEF DisputeInsert, MessageInsert, MessageMark
  <1>6. QED
    BY <1>1, <1>2, <1>3, <1>4, <1>5 DEF Continue

LEMMA Who ==
  ASSUME [Next]_vars
  PROVE  /\ \/ UNCHANGED cached
            \/ \E p \in Procs : ProfileSet(p) \/ ProfileDrop(p)
            \/ \E u \in Users : CacheExpire(u)
         /\ \/ UNCHANGED orgs
            \/ \E p \in Procs : OrgMember(p)
            \/ \E p \in Procs, u \in Users, o \in Orgs : OrgInsert(p, u, o)
            \/ \E u \in Users, o \in Orgs : OrgInsertFails(u, o)
         /\ \/ UNCHANGED papers
            \/ \E p \in Procs : ReviewVerify(p)
            \/ \E d \in Docs, k \in Kinds : DocRecord(d, k)
            \/ \E p \in Procs, m \in Users, d \in Docs, status \in Reviews :
                  ReviewWrite(p, m, d, status)
         /\ \/ UNCHANGED dispute
            \/ \E p \in Procs : DisputeInsert(p)
            \/ \E m \in Users, d \in Disputes, refund \in BOOLEAN :
                  DisputeResolve(m, d, refund)
         /\ \/ UNCHANGED <<account, profiles>>
            \/ \E p \in Procs, u \in Users : ProfileUpdate(p, u)
            \/ \E p \in Procs : DeleteRow(p) \/ AdminWrite(p) \/ OrgMember(p) \/ JoinWrite(p)
  <1> USE DEF people, talk
  <1>1. CASE UNCHANGED vars
    BY <1>1 DEF vars
  <1>2. CASE Complete \/ \E fails \in BOOLEAN : Sos(fails)
    BY <1>2 DEF Complete, Sos
  <1>3. CASE \E u \in Users : Personal(u)
    BY <1>3, PersonalWrites
  <1>4. CASE \E d \in Docs, k \in Kinds : DocRecord(d, k)
    BY <1>4 DEF DocRecord
  <1>5. CASE \E m \in Users, d \in Disputes, refund \in BOOLEAN : DisputeResolve(m, d, refund)
    BY <1>5 DEF DisputeResolve
  <1>6. CASE \E p \in Procs : Continue(p)
    BY <1>6, ContinueWrites
  <1>7. CASE \E p \in Procs, u \in Users : Reading(p, u)
    BY <1>7, ReadingWritesNothing
  <1>8. CASE \E p \in Procs, u \in Users : ProfileUpdate(p, u)
    BY <1>8 DEF ProfileUpdate
  <1>9. CASE \E p \in Procs, u \in Users, o \in Orgs : OrgInsert(p, u, o)
    BY <1>9 DEF OrgInsert
  <1>10. CASE \E p \in Procs, m \in Users, d \in Docs, status \in Reviews :
                ReviewWrite(p, m, d, status)
    BY <1>10 DEF ReviewWrite
  <1>11. QED
    BY <1>1, <1>2, <1>3, <1>4, <1>5, <1>6, <1>7, <1>8, <1>9, <1>10
       DEF Next, Profile, Reading

-----------------------------------------------------------------------------
(* Organizations                                                           *)

Founded ==
    /\ \A u \in founders : \E o \in Orgs : org[o] = u
    /\ \A p \in Procs : proc[p].at = "org_member" =>
          proc[p].org \in Orgs /\ org[proc[p].org] = proc[p].by

LEMMA OrgStays == Typed /\ [Next]_vars => \A o \in Orgs : org[o] # Nobody => org'[o] = org[o]
  <1> SUFFICES ASSUME Typed, [Next]_vars PROVE \A o \in Orgs : org[o] # Nobody => org'[o] = org[o]
    OBVIOUS
  <1>1. org \in [Orgs -> Users \union {Nobody}]
    BY DEF Typed, StateOK, OrgsOK
  <1>2. CASE UNCHANGED orgs \/ \E p \in Procs : OrgMember(p)
    BY <1>2 DEF orgs, OrgMember
  <1>3. ASSUME NEW u \in Users, NEW o \in Orgs,
               OrgInsertFails(u, o) \/ \E p \in Procs : OrgInsert(p, u, o)
        PROVE  \A i \in Orgs : org[i] # Nobody => org'[i] = org[i]
    BY <1>1, <1>3 DEF OrgInsertFails, OrgInsert
  <1>4. QED
    BY <1>2, <1>3, Who

LEMMA FoundedNext == Typed /\ Founded /\ [Next]_vars => Founded'
  <1> SUFFICES ASSUME Typed, Founded, [Next]_vars PROVE Founded'
    OBVIOUS
  <1>0. ProcOK /\ OrgsOK
    BY DEF Typed, StateOK
  <1>1. \A u \in Users, o \in Orgs : org[o] = u => org'[o] = u
    BY OrgStays, AccountsAssumption
  <1>2. \A u \in founders' : u \in founders \/ \E p \in Procs :
           proc[p].at = "org_member" /\ proc[p].by = u
    <2>1. CASE UNCHANGED orgs \/ \E u \in Users, o \in Orgs : OrgInsertFails(u, o)
      BY <2>1 DEF orgs, OrgInsertFails
    <2>2. CASE \E p \in Procs, u \in Users, o \in Orgs : OrgInsert(p, u, o)
      BY <2>2 DEF OrgInsert
    <2>3. CASE \E p \in Procs : OrgMember(p)
      BY <2>3 DEF OrgMember
    <2>4. QED
      BY <2>1, <2>2, <2>3, Who
  <1>3. \A p \in Procs : proc[p].at = "org_member" => proc[p].by \in Users
    BY <1>0 DEF ProcOK
  <1>4. \A u \in founders' : \E o \in Orgs : org'[o] = u
    BY <1>0, <1>1, <1>2, <1>3 DEF Founded, OrgsOK
  <1>5. ASSUME NEW p \in Procs, proc'[p].at = "org_member"
        PROVE  proc'[p].org \in Orgs /\ org'[proc'[p].org] = proc'[p].by
    <2>1. CASE proc'[p] = proc[p]
      BY <1>1, <1>3, <1>5, <2>1 DEF Founded
    <2>2. CASE proc'[p] # proc[p]
      <3>1. Started(p)
        BY <1>5, <2>2, TurnNext, IdleOK DEF Turn, Others, Moved, Follows
      <3>2. PICK o \in Orgs : proc'[p].org = o /\ org' = [org EXCEPT ![o] = proc'[p].by]
        BY <1>5, <3>1 DEF Started
      <3>3. QED
        BY <1>0, <3>2 DEF OrgsOK
    <2>3. QED
      BY <2>1, <2>2
  <1>6. QED
    BY <1>4, <1>5 DEF Founded

\* Whoever was told that his organization exists is shown one, for any number of
\* users, organizations, lost answers and failed memberships.
THEOREM FoundersAreShown == Spec => []FounderSeesOrganization
  <1>1. Init => Founded
    BY IdleOK DEF Init, Founded
  <1>2. Founded => FounderSeesOrganization
    BY DEF Founded, FounderSeesOrganization, Shown
  <1>3. QED
    BY <1>1, <1>2, TypedInit, TypedNext, FoundedNext, PTL DEF Spec

-----------------------------------------------------------------------------
(* What a step may do to an account                                        *)

LEMMA AccountMoves ==
  ASSUME Typed, [Next]_vars, NEW u \in Users
  PROVE  /\ account[u].deleted => account'[u].deleted
         /\ account'[u].role = account[u].role \/ \E p \in Procs : AdminWrite(p)
         /\ profiles <= profiles'
         /\ \/ account'[u].profile = account[u].profile
            \/ account'[u].profile = profiles + 1
            \/ account'[u].deleted
  <1>0. PeopleOK /\ account[u] \in Account /\ profiles \in Nat
    BY DEF Typed, StateOK, PeopleOK
  <1>1. CASE UNCHANGED <<account, profiles>>
    BY <1>0, <1>1
  <1>2. ASSUME NEW p \in Procs, NEW v \in Users, ProfileUpdate(p, v)
        PROVE  /\ account'[u].deleted = account[u].deleted
               /\ account'[u].role = account[u].role
               /\ profiles' = profiles + 1
               /\ account'[u].profile \in {account[u].profile, profiles + 1}
    <2>1. account' = [account EXCEPT ![v] = [account[v] EXCEPT !.profile = profiles + 1]]
      BY <1>2 DEF ProfileUpdate
    <2>2. LET a == [account[u] EXCEPT !.profile = profiles + 1]
          IN  a.deleted = account[u].deleted /\ a.role = account[u].role
              /\ a.profile = profiles + 1
      BY <1>0 DEF Account
    <2>3. account'[u] \in {account[u], [account[u] EXCEPT !.profile = profiles + 1]}
      BY <1>0, <2>1 DEF PeopleOK
    <2>4. QED
      BY <1>2, <2>2, <2>3 DEF ProfileUpdate
  <1>3. ASSUME NEW p \in Procs, DeleteRow(p)
        PROVE  /\ account[u].deleted => account'[u].deleted
               /\ account'[u].role = account[u].role
               /\ profiles' = profiles
               /\ account'[u].profile = account[u].profile \/ account'[u].deleted
    <2> DEFINE v == proc[p].by
               gone(a) == [a EXCEPT !.deleted = TRUE, !.active = FALSE, !.profile = 0]
    <2>1. account' = [account EXCEPT ![v] = gone(account[v])]
      BY <1>0, <1>3 DEF DeleteRow, PeopleOK
    <2>2. gone(account[u]).deleted /\ gone(account[u]).role = account[u].role
      BY <1>0 DEF Account
    <2>3. account'[u] = account[u] \/ account'[u] = gone(account[u])
      <3> HIDE DEF gone, v
      <3> QED
        BY <1>0, <2>1 DEF PeopleOK
    <2>4. profiles' = profiles
      BY <1>3 DEF DeleteRow
    <2> HIDE DEF gone
    <2>5. QED
      BY <2>2, <2>3, <2>4
  <1>4. ASSUME NEW p \in Procs, OrgMember(p) \/ JoinWrite(p)
        PROVE  /\ account'[u].deleted = account[u].deleted
               /\ account'[u].role = account[u].role
               /\ account'[u].profile = account[u].profile
               /\ profiles' = profiles
    <2> DEFINE v == proc[p].by
    <2>1. \/ account' = account
          \/ account' = [account EXCEPT ![v] = [account[v] EXCEPT !.org = proc[p].org]]
      BY <1>4 DEF OrgMember, JoinWrite
    <2>2. LET a == [account[u] EXCEPT !.org = proc[p].org]
          IN  a.deleted = account[u].deleted /\ a.role = account[u].role
              /\ a.profile = account[u].profile
      BY <1>0 DEF Account
    <2>3. account'[u] \in {account[u], [account[u] EXCEPT !.org = proc[p].org]}
      <3> HIDE DEF v
      <3> QED
        BY <1>0, <2>1 DEF PeopleOK, v
    <2>4. QED
      BY <1>4, <2>2, <2>3 DEF OrgMember, JoinWrite
  <1>5. ASSUME NEW p \in Procs, AdminWrite(p)
        PROVE  /\ account'[u].deleted = account[u].deleted
               /\ profiles' \in {profiles, profiles + 1}
               /\ \/ account'[u].profile = account[u].profile
                  \/ account'[u].profile = profiles + 1
    <2> DEFINE c == proc[p].change
               v == proc[p].on
    <2>0. c \in Changes
      BY ProcOf DEF Typed
    <2>1. ASSUME NEW a, account' = [account EXCEPT ![v] = a]
          PROVE  account'[u] = account[u] \/ (u = v /\ account'[u] = a)
      <3> HIDE DEF v
      <3> QED
        BY <1>0, <2>1 DEF PeopleOK
    <2>2. CASE c \in Roles
      <3>1. account' = [account EXCEPT ![v] = [account[v] EXCEPT !.role = c]] /\ c # "rename"
        BY <1>5, <2>2 DEF AdminWrite, Roles
      <3>2. [account[u] EXCEPT !.role = c].deleted = account[u].deleted
            /\ [account[u] EXCEPT !.role = c].profile = account[u].profile
        BY <1>0 DEF Account
      <3>3. profiles' = profiles
        BY <1>5, <3>1 DEF AdminWrite
      <3>4. QED
        BY <2>1, <3>1, <3>2, <3>3
    <2>3. CASE c \in {"activate", "suspend"}
      <3>1. PICK b \in BOOLEAN :
              account' = [account EXCEPT ![v] = [account[v] EXCEPT !.active = b]]
        BY <1>5, <2>3 DEF AdminWrite, Roles
      <3>2. [account[u] EXCEPT !.active = b].deleted = account[u].deleted
            /\ [account[u] EXCEPT !.active = b].profile = account[u].profile
        BY <1>0 DEF Account
      <3>3. profiles' = profiles
        BY <1>5, <2>3 DEF AdminWrite
      <3>4. QED
        BY <2>1, <3>1, <3>2, <3>3
    <2>4. CASE c \in {"none", "rename"}
      <3>1. account' = [account EXCEPT ![v] = [account[v] EXCEPT !.profile = profiles + 1]]
        BY <1>5, <2>4 DEF AdminWrite, Roles
      <3>2. [account[u] EXCEPT !.profile = profiles + 1].deleted = account[u].deleted
            /\ [account[u] EXCEPT !.profile = profiles + 1].profile = profiles + 1
        BY <1>0 DEF Account
      <3>3. profiles' \in {profiles, profiles + 1}
        BY <1>5 DEF AdminWrite
      <3>4. QED
        BY <2>1, <3>1, <3>2, <3>3
    <2>5. QED
      BY <2>0, <2>2, <2>3, <2>4 DEF Changes
  <1>6. QED
    BY <1>0, <1>1, <1>2, <1>3, <1>4, <1>5, Who

-----------------------------------------------------------------------------
(* One request of a user, one update of an administrator                   *)

\* What OneAtATime makes of the requests in flight.
Single ==
    /\ \A p \in Procs : proc[p].at \in OwnSteps => proc[p].on = proc[p].by
    /\ \A p, q \in Procs :
          p # q /\ proc[p].at \in OwnSteps /\ proc[q].at \in OwnSteps
          => proc[p].by # proc[q].by
    /\ \A p, q \in Procs :
          proc[p].at = "admin_write" /\ proc[q].at = "admin_write" => p = q

LEMMA SingleNext == OneAtATime /\ Typed /\ Single /\ [Next]_vars => Single'
  <1> SUFFICES ASSUME OneAtATime, Typed, Single, [Next]_vars PROVE Single'
    OBVIOUS
  <1>1. CASE UNCHANGED proc
    BY <1>1 DEF Single
  <1>2. ASSUME NEW p \in Procs, Turn(p) PROVE Single'
    <2>1. CASE proc'[p] = Idle
      BY <1>2, <2>1, IdleOK DEF Single, Turn, Others, OwnSteps
    <2>2. CASE proc[p].at # "idle" /\ Moved(p)
      BY <1>2, <2>2 DEF Single, Turn, Others, Moved, Follows, OwnSteps
    <2>3. CASE proc[p].at = "idle" /\ Started(p)
      <3>1. CASE proc'[p].at \in OwnSteps
        <4>1. PICK u \in Users : Alone(u) /\ proc'[p].by = u /\ proc'[p].on = u
          BY <2>3, <3>1 DEF Started, OwnSteps
        <4>2. \A q \in Procs : proc[q].by # u
          BY <4>1 DEF Alone
        <4>3. proc'[p].at # "admin_write"
          BY <3>1 DEF OwnSteps
        <4>4. QED
          BY <1>2, <4>1, <4>2, <4>3 DEF Single, Turn, Others
      <3>2. CASE proc'[p].at = "admin_write"
        <4>1. \A q \in Procs : proc[q].at # "admin_write"
          BY <2>3, <3>2 DEF Started
        <4>2. proc'[p].at \notin OwnSteps
          BY <3>2 DEF OwnSteps
        <4>3. QED
          BY <1>2, <4>1, <4>2 DEF Single, Turn, Others
      <3>3. CASE proc'[p].at \notin OwnSteps /\ proc'[p].at # "admin_write"
        BY <1>2, <3>3 DEF Single, Turn, Others
      <3>4. QED
        BY <3>1, <3>2, <3>3
    <2>4. QED
      BY <1>2, <2>1, <2>2, <2>3 DEF Turn
  <1>3. QED
    BY <1>1, <1>2, TurnNext

LEMMA SingleInit == Init => Single
  BY IdleOK DEF Init, Single, OwnSteps

-----------------------------------------------------------------------------
(* Super admins                                                            *)

\* A request that will write an account still outranks it.
Ranked ==
    \A p \in Procs : proc[p].at = "admin_write" =>
        Outranks(proc[p].role, account[proc[p].on].role, proc[p].change)

LEMMA RankedNext ==
  OneAtATime /\ Typed /\ Single /\ Ranked /\ [Next]_vars => Ranked'
  <1> SUFFICES ASSUME OneAtATime, Typed, Single, Ranked, [Next]_vars,
                      NEW p \in Procs, proc'[p].at = "admin_write"
               PROVE  Outranks(proc'[p].role, account'[proc'[p].on].role, proc'[p].change)
    BY DEF Ranked
  <1>0. ProcOK
    BY DEF Typed
  <1>1. CASE proc'[p] = proc[p]
    <2>1. proc[p].on \in Users
      BY <1>0, <1>1 DEF ProcOK
    <2>2. ASSUME NEW q \in Procs, AdminWrite(q) PROVE FALSE
      <3>1. q = p
        BY <1>1, <2>2 DEF AdminWrite, Single
      <3>2. proc'[p] = Idle
        BY <1>0, <2>2, <3>1, Dones DEF AdminWrite
      <3>3. QED
        BY <3>2, IdleOK
    <2>3. account'[proc[p].on].role = account[proc[p].on].role
      BY <2>1, <2>2, AccountMoves
    <2>4. QED
      BY <1>1, <2>3 DEF Ranked
  <1>2. CASE proc'[p] # proc[p]
    <2>1. Started(p)
      BY <1>2, TurnNext, IdleOK DEF Turn, Others, Moved, Follows
    <2>2. /\ Outranks(proc'[p].role, account[proc'[p].on].role, proc'[p].change)
          /\ account' = account
      BY <2>1 DEF Started
    <2>3. QED
      BY <2>2
  <1>3. QED
    BY <1>1, <1>2

\* Administrators updating accounts one after the other, a plain admin's update
\* changes no super admin, whatever the roles in the tokens have become.
THEOREM OutranksHolds == OneAtATime /\ Spec => OutrankedLeftAlone
  <1>1. Init => Ranked
    BY IdleOK DEF Init, Ranked
  <1>2. Typed /\ Ranked =>
          \A p \in Procs, u \in Users :
            ~(/\ proc[p].at = "admin_write" /\ proc[p].on = u
              /\ proc[p].role # "super_admin" /\ account[u].role = "super_admin")
    BY DEF Ranked, Outranks
  <1>3. Typed /\ Ranked /\ [Next]_vars =>
          [\A p \in Procs, u \in Users :
              (/\ proc[p].at = "admin_write" /\ proc'[p].at = "idle" /\ proc[p].on = u
               /\ proc[p].role # "super_admin" /\ account[u].role = "super_admin")
              => Standing(u)' = Standing(u)]_vars
    BY <1>2
  <1>4. ASSUME OneAtATime PROVE Spec => OutrankedLeftAlone
    <2>1. Typed /\ Single /\ [Next]_vars => Single'
      BY <1>4, SingleNext
    <2>2. Typed /\ Single /\ Ranked /\ [Next]_vars => Ranked'
      BY <1>4, RankedNext
    <2>3. QED
      BY <1>1, <1>3, <2>1, <2>2, SingleInit, TypedInit, TypedNext, PTL
         DEF Spec, OutrankedLeftAlone
  <1>5. QED
    BY <1>4

-----------------------------------------------------------------------------
(* Disputes                                                                *)

\* One who is about to open a dispute has none open.
NoneOpen ==
    \A p \in Procs, u \in Users :
        proc[p].at = "dispute_insert" /\ proc[p].by = u => ~HasOpen(u)

LEMMA DisputesMove ==
  ASSUME Typed, [Next]_vars, NEW d \in Disputes, dispute'[d].status = "open"
  PROVE  \/ dispute[d].status = "open" /\ dispute'[d].by = dispute[d].by
         \/ \E p \in Procs :
              /\ proc[p].at = "dispute_insert" /\ proc'[p] = Idle
              /\ dispute' = [dispute EXCEPT ![d] = [by |-> proc[p].by, status |-> "open",
                                                    refund |-> FALSE]]
  <1>0. ProcOK /\ dispute \in [Disputes -> Dispute]
    BY DEF Typed, StateOK, TalkOK
  <1>1. CASE UNCHANGED dispute
    BY <1>1
  <1>2. ASSUME NEW p \in Procs, DisputeInsert(p)
        PROVE  \/ dispute[d].status = "open" /\ dispute'[d].by = dispute[d].by
               \/ /\ proc[p].at = "dispute_insert" /\ proc'[p] = Idle
                  /\ dispute' = [dispute EXCEPT ![d] = [by |-> proc[p].by, status |-> "open",
                                                        refund |-> FALSE]]
    <2>1. proc[p].at = "dispute_insert" /\ proc'[p] = Idle
      BY <1>0, <1>2, Dones DEF DisputeInsert
    <2>2. PICK c \in Disputes :
            dispute' = [dispute EXCEPT ![c] = [by |-> proc[p].by, status |-> "open",
                                               refund |-> FALSE]]
      BY <1>2 DEF DisputeInsert
    <2>3. QED
      BY <1>0, <2>1, <2>2
  <1>3. ASSUME NEW m \in Users, NEW c \in Disputes, NEW refund \in BOOLEAN,
               DisputeResolve(m, c, refund)
        PROVE  dispute[d].status = "open" /\ dispute'[d].by = dispute[d].by
    <2> DEFINE r == [dispute[c] EXCEPT !.status = "resolved", !.refund = refund]
    <2>1. dispute' = [dispute EXCEPT ![c] = r]
      BY <1>0, <1>3 DEF DisputeResolve
    <2>2. r.status = "resolved"
      BY <1>0 DEF Dispute
    <2> HIDE DEF r
    <2>3. QED
      BY <1>0, <2>1, <2>2
  <1>4. QED
    BY <1>1, <1>2, <1>3, Who

LEMMA DisputesNext ==
  OneAtATime /\ Typed /\ Single /\ NoneOpen /\ OneOpenDispute /\ [Next]_vars
  => NoneOpen' /\ OneOpenDispute'
  <1> SUFFICES ASSUME OneAtATime, Typed, Single, NoneOpen, OneOpenDispute, [Next]_vars
               PROVE  NoneOpen' /\ OneOpenDispute'
    OBVIOUS
  <1>0. ProcOK /\ dispute \in [Disputes -> Dispute]
    BY DEF Typed, StateOK, TalkOK
  <1> DEFINE Opened(p, d) ==
               /\ proc[p].at = "dispute_insert" /\ proc'[p] = Idle
               /\ dispute' = [dispute EXCEPT ![d] = [by |-> proc[p].by, status |-> "open",
                                                     refund |-> FALSE]]
  <1>1. CASE \E p \in Procs, d \in Disputes : Opened(p, d)
    <2>1. PICK p \in Procs, d \in Disputes : Opened(p, d)
      BY <1>1
    <2> DEFINE u == proc[p].by
    <2>2. u \in Users /\ ~HasOpen(u)
      BY <1>0, <2>1 DEF ProcOK, NoneOpen
    <2>3. /\ dispute'[d].by = u
          /\ \A c \in Disputes : c # d => dispute'[c] = dispute[c]
      BY <1>0, <2>1
    <2>4. OneOpenDispute'
      <3>1. SUFFICES ASSUME NEW b \in Disputes, NEW c \in Disputes, b # c,
                            dispute'[b].status = "open", dispute'[c].status = "open"
                     PROVE  dispute'[b].by # dispute'[c].by
        BY DEF OneOpenDispute
      <3>2. QED
        BY <2>2, <2>3, <3>1 DEF OneOpenDispute, HasOpen
    <2>5. ASSUME NEW q \in Procs, proc'[q].at = "dispute_insert"
          PROVE  proc'[q] = proc[q] /\ proc[q].by # u
      <3>1. q # p
        BY <2>1, <2>5, IdleOK
      <3>2. PICK i \in Procs : Turn(i)
        BY <2>1, TurnNext, IdleOK
      <3>3. i = p
        BY <2>1, <3>2, IdleOK DEF Turn, Others
      <3>4. proc'[q] = proc[q]
        BY <3>1, <3>2, <3>3 DEF Turn, Others
      <3>5. QED
        BY <2>1, <2>5, <3>1, <3>4 DEF Single, OwnSteps
    <2>6. NoneOpen'
      <3>1. SUFFICES ASSUME NEW q \in Procs, NEW v \in Users, NEW c \in Disputes,
                            proc'[q].at = "dispute_insert", proc'[q].by = v,
                            dispute'[c].by = v, dispute'[c].status = "open"
                     PROVE  FALSE
        BY DEF NoneOpen, HasOpen
      <3>2. proc[q].at = "dispute_insert" /\ proc[q].by = v /\ v # u
        BY <2>5, <3>1
      <3>3. dispute[c].by = v /\ dispute[c].status = "open"
        BY <2>3, <3>1, <3>2
      <3>4. QED
        BY <3>2, <3>3 DEF NoneOpen, HasOpen
    <2>7. QED
      BY <2>4, <2>6
  <1>2. CASE ~ \E p \in Procs, d \in Disputes : Opened(p, d)
    <2>1. \A d \in Disputes : dispute'[d].status = "open" =>
             dispute[d].status = "open" /\ dispute'[d].by = dispute[d].by
      BY <1>2, DisputesMove
    <2>2. OneOpenDispute'
      BY <2>1 DEF OneOpenDispute
    <2>3. NoneOpen'
      <3>1. SUFFICES ASSUME NEW q \in Procs, NEW v \in Users, NEW c \in Disputes,
                            proc'[q].at = "dispute_insert", proc'[q].by = v,
                            dispute'[c].by = v, dispute'[c].status = "open"
                     PROVE  FALSE
        BY DEF NoneOpen, HasOpen
      <3>2. HasOpen(v)
        BY <2>1, <3>1 DEF HasOpen
      <3>3. CASE proc'[q] = proc[q]
        BY <3>1, <3>2, <3>3 DEF NoneOpen
      <3>4. CASE proc'[q] # proc[q]
        <4>1. Started(q)
          BY <3>1, <3>4, TurnNext, IdleOK DEF Turn, Others, Moved, Follows
        <4>2. QED
          BY <3>1, <3>2, <4>1 DEF Started
      <3>5. QED
        BY <3>3, <3>4
    <2>4. QED
      BY <2>2, <2>3
  <1>3. QED
    BY <1>1, <1>2

\* With one request of a user in flight nobody has two disputes of the trip
\* open, for any number of users, disputes and resolutions.
THEOREM DisputesAreSingle == OneAtATime /\ Spec => []OneOpenDispute
  <1>1. Init => NoneOpen /\ OneOpenDispute
    BY IdleOK DEF Init, NoneOpen, OneOpenDispute
  <1>2. ASSUME OneAtATime PROVE Spec => []OneOpenDispute
    <2>1. Typed /\ Single /\ [Next]_vars => Single'
      BY <1>2, SingleNext
    <2>2. Typed /\ Single /\ NoneOpen /\ OneOpenDispute /\ [Next]_vars
          => NoneOpen' /\ OneOpenDispute'
      BY <1>2, DisputesNext
    <2>3. QED
      BY <1>1, <2>1, <2>2, SingleInit, TypedInit, TypedNext, PTL DEF Spec
  <1>3. QED
    BY <1>2

-----------------------------------------------------------------------------
(* The cached profile                                                      *)

\* What was told to a user, what his row holds and what his requests remember.
Fresh ==
    /\ \A u \in Users :
          updated[u] <= profiles /\ (account[u].deleted \/ updated[u] <= account[u].profile)
    /\ \A p \in Procs : proc[p].at = "profile_set" => updated[proc[p].on] <= proc[p].seen
    /\ \A p \in Procs : proc[p].at = "profile_drop" =>
          /\ proc[p].seen <= profiles
          /\ \/ account[proc[p].on].deleted
             \/ proc[p].seen <= account[proc[p].on].profile

\* Only the end of an update of one's own changes what one was told.
LEMMA CacheMoves ==
  ASSUME Typed, [Next]_vars, NEW u \in Users
  PROVE  /\ lost \subseteq lost'
         /\ \/ updated'[u] = updated[u] /\ (cache'[u] = cache[u] \/ cache'[u] = 0)
            \/ \E p \in Procs :
                 /\ proc[p].at = "profile_set" /\ proc[p].on = u
                 /\ cache'[u] = proc[p].seen /\ updated'[u] = updated[u]
            \/ \E p \in Procs :
                 /\ proc[p].at = "profile_drop" /\ proc[p].on = u /\ proc'[p] = Idle
                 /\ updated'[u] = proc[p].seen
                 /\ cache'[u] = 0 \/ u \in lost'
  <1>0. ProcOK /\ CacheOK
    BY DEF Typed, StateOK
  <1>1. CASE UNCHANGED cached
    BY <1>1 DEF cached
  <1>2. CASE \E v \in Users : CacheExpire(v)
    BY <1>0, <1>2 DEF CacheExpire, CacheOK
  <1>3. ASSUME NEW p \in Procs, ProfileSet(p)
        PROVE  /\ lost' = lost /\ updated' = updated
               /\ \/ cache'[u] = cache[u]
                  \/ proc[p].at = "profile_set" /\ proc[p].on = u /\ cache'[u] = proc[p].seen
    <2>1. /\ proc[p].at = "profile_set" /\ lost' = lost /\ updated' = updated
          /\ cache' = cache \/ cache' = [cache EXCEPT ![proc[p].on] = proc[p].seen]
      BY <1>3 DEF ProfileSet
    <2>2. QED
      BY <1>0, <2>1 DEF CacheOK
  <1>4. ASSUME NEW p \in Procs, ProfileDrop(p)
        PROVE  /\ lost \subseteq lost'
               /\ \/ updated'[u] = updated[u] /\ cache'[u] = cache[u]
                  \/ /\ proc[p].at = "profile_drop" /\ proc[p].on = u /\ proc'[p] = Idle
                     /\ updated'[u] = proc[p].seen
                     /\ cache'[u] = 0 \/ u \in lost'
    <2>1. proc[p].at = "profile_drop" /\ proc'[p] = Idle
      BY <1>0, <1>4, Dones DEF ProfileDrop
    <2>2. /\ updated' = [updated EXCEPT ![proc[p].on] = proc[p].seen]
          /\ \/ cache' = cache /\ lost' = lost \union {proc[p].on}
             \/ cache' = [cache EXCEPT ![proc[p].on] = 0] /\ lost' = lost
      BY <1>4 DEF ProfileDrop
    <2>3. QED
      BY <1>0, <2>1, <2>2 DEF CacheOK
  <1>5. QED
    BY <1>1, <1>2, <1>3, <1>4, Who

LEMMA FreshNext ==
  OneAtATime /\ Typed /\ Single /\ Fresh /\ [Next]_vars => Fresh'
  <1> SUFFICES ASSUME OneAtATime, Typed, Single, Fresh, [Next]_vars PROVE Fresh'
    OBVIOUS
  <1>0. ProcOK /\ CacheOK /\ PeopleOK /\ PeopleOK' /\ CacheOK' /\ ProcOK'
    BY TypedNext DEF Typed, StateOK
  <1>a. \A u \in Users : /\ account[u].profile \in Nat /\ account'[u].profile \in Nat
                         /\ updated[u] \in Nat /\ updated'[u] \in Nat
    BY <1>0 DEF PeopleOK, CacheOK, Account
  <1>b. profiles \in Nat /\ profiles' \in Nat /\ profiles <= profiles'
    <2>1. profiles <= profiles'
      BY AccountMoves, AccountsAssumption
    <2>2. QED
      BY <1>0, <2>1 DEF PeopleOK
  <1>c. \A p \in Procs : proc[p].seen \in Nat /\ proc'[p].seen \in Nat
    BY <1>0 DEF ProcOK, Proc
  <1>d. ASSUME NEW u \in Users, NEW n \in Nat, n <= profiles,
               account[u].deleted \/ n <= account[u].profile
        PROVE  account'[u].deleted \/ n <= account'[u].profile
    <2>1. /\ account[u].deleted => account'[u].deleted
          /\ \/ account'[u].profile = account[u].profile
             \/ account'[u].profile = profiles + 1
             \/ account'[u].deleted
      BY AccountMoves
    <2>2. QED
      BY <1>a, <1>b, <1>d, <2>1
  <1>1. ASSUME NEW u \in Users
        PROVE  /\ updated'[u] <= profiles'
               /\ account'[u].deleted \/ updated'[u] <= account'[u].profile
    <2>1. /\ updated'[u] <= profiles
          /\ account[u].deleted \/ updated'[u] <= account[u].profile
      BY CacheMoves DEF Fresh
    <2>2. QED
      BY <1>a, <1>b, <1>d, <2>1
  <1>2. ASSUME NEW p \in Procs, proc'[p].at = "profile_set"
        PROVE  updated'[proc'[p].on] <= proc'[p].seen
    <2>1. CASE proc'[p] = proc[p]
      <3>1. proc[p].on \in Users /\ updated[proc[p].on] <= proc[p].seen
        BY <1>0, <1>2, <2>1 DEF ProcOK, Fresh
      <3>2. ASSUME NEW q \in Procs, proc[q].at = "profile_drop" PROVE proc[q].on # proc[p].on
        BY <1>2, <2>1, <3>2 DEF Single, OwnSteps
      <3>3. updated'[proc[p].on] = updated[proc[p].on]
        BY <3>1, <3>2, CacheMoves
      <3>4. QED
        BY <2>1, <3>1, <3>3
    <2>2. CASE proc'[p] # proc[p]
      <3>1. Started(p) /\ Turn(p)
        BY <1>2, <2>2, TurnNext, IdleOK DEF Turn, Others, Moved, Follows
      <3>2. PICK u \in Users :
              /\ Alone(u) /\ proc'[p].on = u
              /\ proc'[p].seen = account[u].profile /\ ~account[u].deleted
        BY <1>2, <3>1 DEF Started
      <3>3. ASSUME NEW q \in Procs, proc[q].at = "profile_drop" PROVE proc[q].on # u
        BY <3>2, <3>3 DEF Single, OwnSteps, Alone
      <3>4. updated'[u] = updated[u]
        BY <3>3, CacheMoves
      <3>5. QED
        BY <3>2, <3>4 DEF Fresh
    <2>3. QED
      BY <2>1, <2>2
  <1>3. ASSUME NEW p \in Procs, proc'[p].at = "profile_drop"
        PROVE  /\ proc'[p].seen <= profiles'
               /\ \/ account'[proc'[p].on].deleted
                  \/ proc'[p].seen <= account'[proc'[p].on].profile
    <2>1. CASE proc'[p] = proc[p]
      <3>1. proc[p].on \in Users
        BY <1>0, <1>3, <2>1 DEF ProcOK
      <3>2. /\ proc[p].seen <= profiles
            /\ account[proc[p].on].deleted \/ proc[p].seen <= account[proc[p].on].profile
        BY <1>3, <2>1 DEF Fresh
      <3>3. QED
        BY <1>b, <1>c, <1>d, <2>1, <3>1, <3>2
    <2>2. CASE proc'[p] # proc[p]
      <3>1. Started(p)
        BY <1>3, <2>2, TurnNext, IdleOK DEF Turn, Others, Moved, Follows
      <3>2. PICK u \in Users :
              /\ proc'[p].on = u
              /\ proc'[p].seen = profiles + 1 /\ account'[u].profile = profiles + 1
              /\ profiles' = profiles + 1
        BY <1>3, <3>1 DEF Started
      <3>3. QED
        BY <1>b, <3>2
    <2>3. QED
      BY <2>1, <2>2
  <1>4. QED
    BY <1>1, <1>2, <1>3 DEF Fresh

LEMMA CacheNext ==
  Typed /\ Fresh /\ CacheSeesOwnUpdates /\ [Next]_vars => CacheSeesOwnUpdates'
  <1> SUFFICES ASSUME Typed, Fresh, CacheSeesOwnUpdates, [Next]_vars,
                      NEW u \in Users, u \notin lost', cache'[u] # 0
               PROVE  cache'[u] >= updated'[u]
    BY DEF CacheSeesOwnUpdates
  <1>1. CacheOK /\ ProcOK
    BY DEF Typed, StateOK
  <1>2. u \notin lost /\ cache[u] \in Nat /\ updated[u] \in Nat
    BY <1>1, CacheMoves DEF CacheOK
  <1>3. \/ updated'[u] = updated[u] /\ cache'[u] = cache[u]
        \/ \E p \in Procs :
             /\ proc[p].at = "profile_set" /\ proc[p].on = u
             /\ cache'[u] = proc[p].seen /\ updated'[u] = updated[u]
    BY CacheMoves
  <1>4. \A p \in Procs : proc[p].seen \in Nat
    BY <1>1 DEF ProcOK, Proc
  <1>5. QED
    BY <1>2, <1>3, <1>4 DEF CacheSeesOwnUpdates, Fresh

\* With one request of a user in flight his cached profile is never older than
\* his last answered update, unless KV failed to drop it: for any number of
\* users, updates and failures.
THEOREM CacheIsFresh == OneAtATime /\ Spec => []CacheSeesOwnUpdates
  <1>1. Init => Fresh /\ CacheSeesOwnUpdates
    <2> SUFFICES ASSUME Init PROVE Fresh /\ CacheSeesOwnUpdates
      OBVIOUS
    <2>1. \A u \in Users : account[u].profile = 1
      BY DEF Init
    <2>2. Fresh
      BY <2>1, IdleOK DEF Init, Fresh
    <2>3. CacheSeesOwnUpdates
      BY DEF Init, CacheSeesOwnUpdates
    <2>4. QED
      BY <2>2, <2>3
  <1>2. ASSUME OneAtATime PROVE Spec => []CacheSeesOwnUpdates
    <2>1. Typed /\ Single /\ [Next]_vars => Single'
      BY <1>2, SingleNext
    <2>2. Typed /\ Single /\ Fresh /\ [Next]_vars => Fresh'
      BY <1>2, FreshNext
    <2>3. QED
      BY <1>1, <2>1, <2>2, CacheNext, SingleInit, TypedInit, TypedNext, PTL DEF Spec
  <1>3. QED
    BY <1>2

-----------------------------------------------------------------------------
(* A driver's documents                                                    *)

Reviewing == {"review_read", "review_verify"}

\* Every type approved: the driver is marked, or a reviewer will look, or one
\* who would have looked has failed.
Decided ==
    /\ verified => complete
    /\ Kinds \subseteq ApprovedKinds(doc) => complete
    /\ \A p \in Procs : proc[p].at = "review_verify" => complete
    /\ Kinds \subseteq ApprovedKinds(doc) /\ trouble = 0
       => verified \/ \E p \in Procs : proc[p].at \in Reviewing

LEMMA TroubleGrows == Typed /\ [Next]_vars => trouble <= trouble'
  <1> SUFFICES ASSUME Typed, [Next]_vars PROVE trouble <= trouble'
    OBVIOUS
  <1>0. BoundsOK /\ trouble \in Nat
    BY AccountsAssumption DEF Typed, BoundsOK
  <1>1. CASE trouble' = trouble
    BY <1>0, <1>1
  <1>2. CASE \E fails \in BOOLEAN : May(fails)
    BY <1>0, <1>2, Mays
  <1>3. CASE UNCHANGED vars \/ Complete \/ \E fails \in BOOLEAN : Sos(fails)
    BY <1>1, <1>2, <1>3 DEF vars, bounds, Complete, AtOnce, Sos
  <1>4. ASSUME NEW u \in Users, Personal(u) PROVE trouble <= trouble'
    BY <1>1, <1>2, <1>4
       DEF Personal, SignIn, CacheExpire, TosAccept, UploadUrl, TicketExpire, ContactAdd,
           ContactDelete, Book, Leave, Preferences, OrgInsertFails, AtOnce, bounds
  <1>5. CASE \/ \E d \in Docs, k \in Kinds : DocRecord(d, k)
             \/ \E m \in Users, d \in Disputes, refund \in BOOLEAN : DisputeResolve(m, d, refund)
    BY <1>1, <1>5 DEF DocRecord, DisputeResolve, AtOnce
  <1>6. ASSUME NEW p \in Procs, Continue(p) PROVE trouble <= trouble'
    <2>1. CASE ProfileSet(p) \/ ProfileDrop(p) \/ OrgMember(p) \/ Abort(p)
      BY <1>2, <2>1 DEF ProfileSet, ProfileDrop, OrgMember, Abort
    <2>2. CASE DeleteDriver(p) \/ DeleteRow(p) \/ DeletePlaces(p) \/ AdminWrite(p) \/ JoinWrite(p)
      BY <1>1, <2>2 DEF DeleteDriver, DeleteRow, DeletePlaces, AdminWrite, JoinWrite, bounds
    <2>3. CASE UploadDelete(p) \/ UploadPut(p) \/ ReviewRead(p) \/ ReviewVerify(p)
      BY <1>1, <2>3 DEF UploadDelete, UploadPut, ReviewRead, ReviewVerify, bounds
    <2>4. CASE DisputeInsert(p) \/ MessageInsert(p) \/ MessageMark(p)
      BY <1>1, <2>4 DEF DisputeInsert, MessageInsert, MessageMark, bounds
    <2>5. QED
      BY <1>6, <2>1, <2>2, <2>3, <2>4 DEF Continue
  <1>7. ASSUME NEW p \in Procs, NEW u \in Users, Reading(p, u) PROVE trouble <= trouble'
    BY <1>1, <1>2, <1>7
       DEF Reading, ProfileRead, DeleteRider, UploadGet, DisputeRead, JoinRead, MessageAccess,
           AdminRead
  <1>8. ASSUME NEW p \in Procs, NEW u \in Users,
               ProfileUpdate(p, u) \/ \E o \in Orgs : OrgInsert(p, u, o)
        PROVE  trouble <= trouble'
    BY <1>1, <1>8 DEF ProfileUpdate, OrgInsert
  <1>9. ASSUME NEW p \in Procs, NEW m \in Users, NEW d \in Docs, NEW status \in Reviews,
               ReviewWrite(p, m, d, status)
        PROVE  trouble <= trouble'
    BY <1>1, <1>9 DEF ReviewWrite, AtOnce
  <1>10. QED
    BY <1>3, <1>4, <1>5, <1>6, <1>7, <1>8, <1>9 DEF Next, Profile, Reading

\* A review goes on to its end, unless its process dies.
LEMMA ReviewsGoOn ==
  ASSUME Typed, [Next]_vars, NEW p \in Procs, proc[p].at \in Reviewing
  PROVE  proc'[p] = proc[p] \/ ReviewRead(p) \/ ReviewVerify(p) \/ Abort(p)
  <1>0. ProcOK /\ proc[p].at # "idle"
    BY DEF Typed, Reviewing
  <1>1. CASE UNCHANGED proc
    BY <1>1
  <1>2. ASSUME NEW q \in Procs, NEW r, Start(q, r) PROVE proc'[p] = proc[p]
    BY <1>0, <1>2 DEF Start, ProcOK
  <1>3. CASE UNCHANGED vars \/ Complete \/ \E fails \in BOOLEAN : Sos(fails)
    BY <1>1, <1>3 DEF vars, Complete, AtOnce, Sos
  <1>4. ASSUME NEW u \in Users, Personal(u) PROVE proc'[p] = proc[p]
    BY <1>1, <1>4
       DEF Personal, SignIn, CacheExpire, TosAccept, UploadUrl, TicketExpire, ContactAdd,
           ContactDelete, Book, Leave, Preferences, OrgInsertFails, AtOnce
  <1>5. CASE \/ \E d \in Docs, k \in Kinds : DocRecord(d, k)
             \/ \E m \in Users, d \in Disputes, refund \in BOOLEAN : DisputeResolve(m, d, refund)
    BY <1>1, <1>5 DEF DocRecord, DisputeResolve, AtOnce
  <1>6. CASE Continue(p)
    <2>1. proc[p].at = "review_read" \/ proc[p].at = "review_verify"
      BY DEF Reviewing
    <2>2. QED
      BY <1>6, <2>1, Zenon
         DEF Continue, ProfileSet, ProfileDrop, DeleteDriver, DeleteRow, DeletePlaces, AdminWrite,
             OrgMember, JoinWrite, UploadDelete, UploadPut, DisputeInsert, MessageInsert,
             MessageMark
  <1>7. ASSUME NEW q \in Procs, Continue(q), q # p PROVE proc'[p] = proc[p]
    BY <1>7, StepsTurn DEF Turn, Others
  <1>8. ASSUME NEW q \in Procs, NEW u \in Users, Profile(q, u) \/ Reading(q, u)
        PROVE  proc'[p] = proc[p]
    BY <1>2, <1>8, Zenon
       DEF Profile, Reading, ProfileUpdate, ProfileRead, DeleteRider, UploadGet, DisputeRead,
           JoinRead, MessageAccess, AdminRead
  <1>9. ASSUME NEW q \in Procs, NEW u \in Users, NEW o \in Orgs, OrgInsert(q, u, o)
        PROVE  proc'[p] = proc[p]
    BY <1>2, <1>9 DEF OrgInsert
  <1>10. ASSUME NEW q \in Procs, NEW m \in Users, NEW d \in Docs, NEW status \in Reviews,
                ReviewWrite(q, m, d, status)
         PROVE  proc'[p] = proc[p]
    BY <1>1, <1>2, <1>10, Zenon DEF ReviewWrite, AtOnce
  <1>11. QED
    BY <1>3, <1>4, <1>5, <1>6, <1>7, <1>8, <1>9, <1>10 DEF Next, Reading

\* What a step may do to the documents and the flags.
LEMMA PapersMove ==
  ASSUME Typed, [Next]_vars
  PROVE  /\ complete => complete'
         /\ verified => verified'
         /\ verified' => verified \/ \E p \in Procs : ReviewVerify(p)
         /\ Kinds \subseteq ApprovedKinds(doc') =>
              \/ Kinds \subseteq ApprovedKinds(doc)
              \/ complete' /\ \E p \in Procs : proc'[p].at \in Reviewing
  <1>0. /\ doc \in [Docs -> Doc] /\ verified \in BOOLEAN /\ complete \in BOOLEAN
        /\ ProcOK /\ PeopleOK
    BY DEF Typed, StateOK, PapersOK
  <1>1. CASE UNCHANGED papers
    BY <1>1 DEF papers
  <1>2. CASE \E p \in Procs : ReviewVerify(p)
    BY <1>0, <1>2 DEF ReviewVerify
  <1>3. ASSUME NEW d \in Docs, NEW k \in Kinds, DocRecord(d, k)
        PROVE  /\ verified' = verified /\ complete' = complete
               /\ ApprovedKinds(doc') \subseteq ApprovedKinds(doc)
    <2>1. /\ verified' = verified /\ complete' = complete
          /\ doc' = [doc EXCEPT ![d] = [kind |-> k, status |-> "pending"]]
      BY <1>3 DEF DocRecord
    <2>2. \A i \in Docs : doc'[i].status = "approved" => doc'[i] = doc[i]
      BY <1>0, <2>1
    <2>3. QED
      BY <1>0, <2>1, <2>2 DEF ApprovedKinds
  <1>4. ASSUME NEW p \in Procs, NEW m \in Users, NEW d \in Docs, NEW status \in Reviews,
               ReviewWrite(p, m, d, status)
        PROVE  /\ verified' = verified
               /\ complete => complete'
               /\ Kinds \subseteq ApprovedKinds(doc') =>
                    \/ Kinds \subseteq ApprovedKinds(doc)
                    \/ complete' /\ \E q \in Procs : proc'[q].at \in Reviewing
    <2>1. /\ verified' = verified
          /\ complete' = (complete \/ Kinds \subseteq ApprovedKinds(doc'))
          /\ doc' = [doc EXCEPT ![d] = [doc[d] EXCEPT !.status = status]]
      BY <1>0, <1>4 DEF ReviewWrite
    <2>2. CASE status = "approved"
      <3>1. Start(p, Request(m, "review_read")) /\ "review_read" \in Steps
        BY <1>4, <2>2, StepNames DEF ReviewWrite
      <3>2. Own(m, "review_read", Request(m, "review_read"))
            /\ Request(m, "review_read").on = m
        BY <1>0, <3>1, RequestIs
      <3>3. proc'[p].at = "review_read"
        BY <1>0, <3>1, <3>2 DEF Own, Start, ProcOK
      <3>4. QED
        BY <1>0, <2>1, <3>3 DEF Reviewing
    <2>3. CASE status # "approved"
      <3>1. [doc[d] EXCEPT !.status = status].status = status
        BY <1>0 DEF Doc
      <3> DEFINE r == [doc[d] EXCEPT !.status = status]
      <3>2. doc' = [doc EXCEPT ![d] = r] /\ r.status # "approved"
        BY <2>1, <2>3, <3>1
      <3> HIDE DEF r
      <3>3. \A i \in Docs : doc'[i].status = "approved" => doc'[i] = doc[i]
        BY <1>0, <3>2
      <3>4. ApprovedKinds(doc') \subseteq ApprovedKinds(doc)
        BY <1>0, <3>2, <3>3 DEF ApprovedKinds
      <3>5. QED
        BY <1>0, <2>1, <3>4
    <2>4. QED
      BY <2>2, <2>3
  <1>5. QED
    BY <1>1, <1>2, <1>3, <1>4, Who

LEMMA DecidedNext == Typed /\ Decided /\ [Next]_vars => Decided'
  <1> SUFFICES ASSUME Typed, Decided, [Next]_vars PROVE Decided'
    OBVIOUS
  <1>0. ProcOK /\ trouble \in Nat /\ trouble' \in Nat /\ trouble <= trouble'
    BY TypedNext, TroubleGrows, AccountsAssumption DEF Typed, BoundsOK
  <1>1. complete => complete'
    BY PapersMove
  <1>2. ASSUME NEW p \in Procs, ReviewVerify(p) PROVE complete
    BY <1>2 DEF ReviewVerify, Decided
  <1>3. verified' => complete'
    BY <1>1, <1>2, PapersMove DEF Decided
  <1>4. Kinds \subseteq ApprovedKinds(doc') => complete'
    BY <1>1, PapersMove DEF Decided
  <1>5. ASSUME NEW p \in Procs, proc'[p].at = "review_verify" PROVE complete
    <2>1. CASE proc'[p] = proc[p]
      BY <1>5, <2>1 DEF Decided
    <2>2. CASE proc'[p] # proc[p]
      <3>1. proc[p].at = "review_read"
        BY <1>5, <2>2, TurnNext, IdleOK DEF Turn, Others, Moved, Follows, Started, OwnSteps
      <3>2. ReviewRead(p)
        <4>1. ~Abort(p)
          BY <1>0, <1>5, Dones, IdleOK DEF Abort
        <4>2. QED
          BY <2>2, <3>1, <4>1, ReviewsGoOn DEF Reviewing, ReviewVerify
      <3>3. AllApproved
        <4>1. ~Done(p)
          BY <1>0, <1>5, Dones, IdleOK
        <4>2. QED
          BY <3>2, <4>1 DEF ReviewRead
      <3>4. QED
        BY <3>3 DEF AllApproved, Decided
    <2>3. QED
      BY <2>1, <2>2
  <1>6. ASSUME Kinds \subseteq ApprovedKinds(doc'), trouble' = 0
        PROVE  verified' \/ \E p \in Procs : proc'[p].at \in Reviewing
    <2>1. CASE \E p \in Procs : proc'[p].at \in Reviewing
      BY <2>1
    <2>2. CASE ~ \E p \in Procs : proc'[p].at \in Reviewing
      <3>1. Kinds \subseteq ApprovedKinds(doc) /\ trouble = 0
        BY <1>0, <1>6, <2>2, PapersMove
      <3>2. CASE verified
        BY <3>2, PapersMove
      <3>3. ASSUME NEW p \in Procs, proc[p].at \in Reviewing PROVE verified'
        <4>1. proc'[p] # proc[p]
          BY <2>2, <3>3
        <4>2. ~Abort(p)
          BY <1>6, <3>1 DEF Abort, May
        <4>3. CASE ReviewVerify(p)
          BY <4>3 DEF ReviewVerify
        <4>4. CASE ReviewRead(p)
          <5>1. Goto(p, "review_verify")
            BY <3>1, <4>4 DEF ReviewRead, AllApproved
          <5>2. proc'[p].at = "review_verify"
            BY <1>0, <4>4, <5>1, Gotos, StepNames DEF ReviewRead
          <5>3. QED
            BY <2>2, <5>2 DEF Reviewing
        <4>5. QED
          BY <3>3, <4>1, <4>2, <4>3, <4>4, ReviewsGoOn
      <3>4. QED
        BY <3>1, <3>2, <3>3 DEF Decided
    <2>3. QED
      BY <2>1, <2>2
  <1>7. QED
    BY <1>1, <1>3, <1>4, <1>5, <1>6 DEF Decided

\* A driver is marked as verified only when every type was approved at a time,
\* and is marked when they are, for any number of administrators, documents and
\* reviews in flight.
THEOREM ReviewsAreDecisive == Spec => []ReviewsDecide
  <1>1. Init => Decided
    <2> SUFFICES ASSUME Init PROVE Decided
      OBVIOUS
    <2>1. doc \in [Docs -> [kind : Kinds, status : {"none", "pending"}]]
      BY DEF Init
    <2>2. ApprovedKinds(doc) = {}
      BY <2>1 DEF ApprovedKinds
    <2>3. ~(Kinds \subseteq ApprovedKinds(doc))
      BY <2>2, AccountsAssumption
    <2>4. QED
      BY <2>3, IdleOK DEF Init, Decided
  <1>2. Decided => ReviewsDecide
    BY DEF Decided, ReviewsDecide, Reviewing
  <1>3. QED
    BY <1>1, <1>2, TypedInit, TypedNext, DecidedNext, PTL DEF Spec
=============================================================================
