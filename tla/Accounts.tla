-------------------------------- MODULE Accounts --------------------------------
(***************************************************************************)
(* What users and administrators do to accounts, and the desks around them *)
(* (src/src/routes/users.ts, admin.ts, organizations.ts, documents.ts,     *)
(* disputes.ts, messages.ts, safety.ts, lib/userPreferences.ts and         *)
(* lib/cache.ts).                                                          *)
(*                                                                         *)
(* One trip stands for all, with Driver at its wheel; the documents are    *)
(* those of one driver.  Handlers trust the claims of the access token and *)
(* read no account: a token lives for an hour after a change of role, a    *)
(* deactivation or a deletion, so that everyone may act at any time.       *)
(***************************************************************************)
EXTENDS Integers, FiniteSets

CONSTANTS
    Users,         \* the accounts
    Root,          \* the first super admin
    Driver,        \* who drives the trip
    Nobody,        \* no user
    Kinds,         \* the document types a driver needs
    Docs,          \* rows of driver_documents
    Orgs,          \* rows of organizations
    NoOrg,         \* no organization
    Disputes,      \* rows of disputes
    Procs,         \* slots for the requests in flight
    OneAtATime,    \* TRUE: a user has one request of his own in flight, and
                   \* administrators update accounts one after the other
    MaxServed,     \* bound on the requests, and on the trip's changes
    MaxTrouble     \* bound on the calls that fail and the processes that die

VARIABLES
    account,       \* users: role, active, deleted, which profile it holds, organization
    token,         \* the role claim of the access token
    profiles,      \* how many profiles were written: they are numbered from 1
    cache,         \* KV: the profile cached for a user, 0 for none
    updated,       \* the last profile a user's own answered update wrote
    lost,          \* users one of whose cache deletions failed
    prefs,         \* user_preferences: the sections that differ from the default
    tos,           \* rows of tos_acceptances
    trip, part,    \* the trip's status and its participants' rows
    places,        \* users whose rows of trip_participants hold addresses
    org, founders, \* who created an organization; whose creation was answered 201
    doc,           \* driver_documents: type and status
    verified,      \* users.documents_verified
    complete,      \* every type was approved at some time
    ticket, file,  \* upload tokens in KV; how often a token's file was stored
    dispute,       \* disputes: by whom, status, refunded
    message,       \* messages: the last of a sender
    safety,        \* emergency contacts, sos_events and the alerts raised
    proc,          \* the requests
    served, trouble

people == <<account, token, profiles>>
cached == <<cache, updated, lost>>
settings == <<prefs, tos>>
riding == <<trip, part, places>>
orgs == <<org, founders>>
papers == <<doc, verified, complete>>
uploads == <<ticket, file>>
talk == <<dispute, message, safety>>
bounds == <<served, trouble>>

vars == <<people, cached, settings, riding, orgs, papers, uploads, talk, proc, bounds>>

-----------------------------------------------------------------------------

Roles == {"user", "admin", "super_admin"}
Admins == {"admin", "super_admin"}
Sections == {"notifications", "language"}
Reviews == {"approved", "rejected", "expired"}
Steps == {"idle", "profile_set", "profile_drop", "admin_write", "delete_driver",
          "delete_row", "delete_places", "org_member", "join_write", "upload_delete",
          "upload_put", "review_read", "review_verify", "dispute_insert",
          "message_insert", "message_mark"}

\* by: whose token; role: its claim; on: the account; seen: a profile that was
\* read; role_to, active_to: what an administrator asks for; org.
Idle == [at |-> "idle", by |-> Nobody, role |-> "user", on |-> Nobody, seen |-> 0,
         change |-> "none", org |-> NoOrg]
Changes == {"none", "activate", "suspend", "rename"} \union Roles

ASSUME AccountsAssumption ==
    /\ Root \in Users /\ Driver \in Users /\ Nobody \notin Users
    /\ NoOrg \notin Orgs /\ Kinds # {}
    /\ IsFiniteSet(Kinds) /\ IsFiniteSet(Procs)
    /\ OneAtATime \in BOOLEAN
    /\ MaxServed \in Nat /\ MaxTrouble \in Nat

TypeOK ==
    /\ account \in [Users -> [role : Roles, active : BOOLEAN, deleted : BOOLEAN,
                              profile : Nat, org : Orgs \union {NoOrg}]]
    /\ token \in [Users -> Roles]
    /\ profiles \in Nat
    /\ cache \in [Users -> Nat] /\ updated \in [Users -> Nat] /\ lost \subseteq Users
    /\ prefs \in [Users -> SUBSET Sections]
    /\ tos \in [Users -> Nat]
    /\ trip \in {"scheduled", "completed"}
    /\ part \in [Users -> {"none", "rider", "left"}]
    /\ places \subseteq Users
    /\ org \in [Orgs -> Users \union {Nobody}] /\ founders \subseteq Users
    /\ doc \in [Docs -> [kind : Kinds, status : Reviews \union {"none", "pending"}]]
    /\ verified \in BOOLEAN /\ complete \in BOOLEAN
    /\ ticket \subseteq Users /\ file \in [Users -> Nat]
    /\ dispute \in [Disputes -> [by : Users \union {Nobody},
                                 status : {"none", "open", "resolved"}, refund : BOOLEAN]]
    /\ message \in [Users -> {"none", "unread", "read"}]
    /\ safety \in [contacts : SUBSET Users, events : Nat, alerts : Nat]
    /\ proc \in [Procs -> [at : Steps, by : Users \union {Nobody}, role : Roles,
                           on : Users \union {Nobody}, seen : Nat, change : Changes,
                           org : Orgs \union {NoOrg}]]
    /\ served \in 0..MaxServed /\ trouble \in 0..MaxTrouble

Init ==
    /\ account = [u \in Users |-> [role |-> IF u = Root THEN "super_admin" ELSE "admin",
                                   active |-> TRUE, deleted |-> FALSE, profile |-> 1,
                                   org |-> NoOrg]]
    /\ token = [u \in Users |-> account[u].role]
    /\ profiles = 1
    /\ cache = [u \in Users |-> 0] /\ updated = [u \in Users |-> 0] /\ lost = {}
    /\ prefs = [u \in Users |-> {}] /\ tos = [u \in Users |-> 0]
    /\ trip = "scheduled" /\ part = [u \in Users |-> "none"] /\ places = {}
    /\ org = [o \in Orgs |-> Nobody] /\ founders = {}
    /\ doc \in [Docs -> [kind : Kinds, status : {"none", "pending"}]]
    /\ verified = FALSE /\ complete = FALSE
    /\ ticket = {} /\ file = [u \in Users |-> 0]
    /\ dispute = [d \in Disputes |-> [by |-> Nobody, status |-> "none", refund |-> FALSE]]
    /\ message = [u \in Users |-> "none"]
    /\ safety = [contacts |-> {}, events |-> 0, alerts |-> 0]
    /\ proc = [p \in Procs |-> Idle]
    /\ served = 0 /\ trouble = 0

-----------------------------------------------------------------------------
(* Requests                                                                *)

Start(p, r) ==
    /\ proc[p].at = "idle"
    /\ served < MaxServed /\ served' = served + 1
    /\ proc' = [proc EXCEPT ![p] = r]

Request(u, at) == [Idle EXCEPT !.at = at, !.by = u, !.role = token[u], !.on = u]
Alone(u) == OneAtATime => \A p \in Procs : proc[p].by # u
Goto(p, at) == proc' = [proc EXCEPT ![p].at = at]
Done(p) == proc' = [proc EXCEPT ![p] = Idle]

\* A request of one statement.
AtOnce == served < MaxServed /\ served' = served + 1 /\ UNCHANGED <<proc, trouble>>

\* A call that fails, or does not.
May(fails) ==
    /\ fails => trouble < MaxTrouble
    /\ trouble' = IF fails THEN trouble + 1 ELSE trouble

\* A request dies between two statements, or one of them fails: what was
\* written stays.
Abort(p) ==
    /\ proc[p].at # "idle"
    /\ May(TRUE) /\ Done(p)
    /\ UNCHANGED <<people, cached, settings, riding, orgs, papers, uploads, talk,
                   served>>

\* A login or a refresh copies the role into a new access token.
SignIn(u) ==
    /\ account[u].active /\ ~account[u].deleted
    /\ token' = [token EXCEPT ![u] = account[u].role]
    /\ token' # token
    /\ UNCHANGED <<account, profiles, cached, settings, riding, orgs, papers, uploads,
                   talk, proc, bounds>>

\* The trip: a rider books and leaves, the driver completes it.
Book(u) ==
    /\ trip = "scheduled" /\ u # Driver /\ part[u] = "none"
    /\ AtOnce
    /\ part' = [part EXCEPT ![u] = "rider"] /\ places' = places \union {u}
    /\ UNCHANGED <<trip, people, cached, settings, orgs, papers, uploads, talk>>
Leave(u) ==
    /\ trip = "scheduled" /\ part[u] = "rider"
    /\ AtOnce
    /\ part' = [part EXCEPT ![u] = "left"]
    /\ UNCHANGED <<trip, places, people, cached, settings, orgs, papers, uploads, talk>>
Complete ==
    /\ trip = "scheduled"
    /\ AtOnce
    /\ trip' = "completed"
    /\ UNCHANGED <<part, places, people, cached, settings, orgs, papers, uploads, talk>>

-----------------------------------------------------------------------------
(* The profile and its cache                                               *)

\* GET /profile.  A hit answers and leaves everything as it is; a miss, or a KV
\* that fails, reads the row...
ProfileRead(p, u) ==
    /\ Alone(u)
    /\ ~account[u].deleted
    /\ May(cache[u] # 0)
    /\ Start(p, [Request(u, "profile_set") EXCEPT !.seen = account[u].profile])
    /\ UNCHANGED <<people, cached, settings, riding, orgs, papers, uploads, talk>>

\* ...and caches it; a put that fails is only logged.
ProfileSet(p) == LET r == proc[p] IN
    /\ r.at = "profile_set"
    /\ \E fails \in BOOLEAN :
        /\ May(fails)
        /\ cache' = IF fails THEN cache ELSE [cache EXCEPT ![r.on] = r.seen]
    /\ Done(p)
    /\ UNCHANGED <<people, updated, lost, settings, riding, orgs, papers, uploads, talk,
                   served>>

\* The cache's ten minutes are over.
CacheExpire(u) ==
    /\ cache[u] # 0
    /\ cache' = [cache EXCEPT ![u] = 0]
    /\ UNCHANGED <<people, updated, lost, settings, riding, orgs, papers, uploads, talk,
                   proc, bounds>>

\* PUT /profile: the row...
ProfileUpdate(p, u) ==
    /\ Alone(u)
    /\ Start(p, [Request(u, "profile_drop") EXCEPT !.seen = profiles + 1])
    /\ profiles' = profiles + 1
    /\ account' = [account EXCEPT ![u].profile = profiles + 1]
    /\ UNCHANGED <<token, cached, settings, riding, orgs, papers, uploads, talk, trouble>>

\* ...then the cache, and the answer.
ProfileDropNot(p) == LET r == proc[p] IN       \* mutant: the cache is left alone
    /\ r.at = "profile_drop"
    /\ updated' = [updated EXCEPT ![r.on] = r.seen]
    /\ Done(p)
    /\ UNCHANGED <<people, cache, lost, settings, riding, orgs, papers, uploads, talk,
                   bounds>>
ProfileDrop(p) == LET r == proc[p] IN
    /\ r.at = "profile_drop"
    /\ \E fails \in BOOLEAN :
        /\ May(fails)
        /\ cache' = IF fails THEN cache ELSE [cache EXCEPT ![r.on] = 0]
        /\ lost' = IF fails THEN lost \union {r.on} ELSE lost
    /\ updated' = [updated EXCEPT ![r.on] = r.seen]
    /\ Done(p)
    /\ UNCHANGED <<people, settings, riding, orgs, papers, uploads, talk, served>>

\* PUT /preferences.  The handler passes every section, those the body leaves
\* out as undefined; spread over the stored ones they win and become defaults.
Preferences(u, given) ==
    /\ AtOnce
    /\ prefs' = [prefs EXCEPT ![u] = given]
    /\ UNCHANGED <<people, cached, tos, riding, orgs, papers, uploads, talk>>

\* POST /tos-accept: INSERT ... WHERE NOT EXISTS, one version.
TosAccept(u) ==
    /\ AtOnce
    /\ tos' = IF tos[u] = 0 THEN [tos EXCEPT ![u] = 1] ELSE tos
    /\ UNCHANGED <<people, cached, prefs, riding, orgs, papers, uploads, talk>>

-----------------------------------------------------------------------------
(* DELETE /account                                                         *)

Riding(u) == part[u] = "rider" /\ trip = "scheduled"
Driving(u) == u = Driver /\ trip = "scheduled"

DeleteRider(p, u) ==
    /\ Alone(u)
    /\ ~Riding(u)
    /\ Start(p, Request(u, "delete_driver"))
    /\ UNCHANGED <<people, cached, settings, riding, orgs, papers, uploads, talk, trouble>>

DeleteDriver(p) ==
    /\ proc[p].at = "delete_driver"
    /\ IF Driving(proc[p].by) THEN Done(p) ELSE Goto(p, "delete_row")
    /\ UNCHANGED <<people, cached, settings, riding, orgs, papers, uploads, talk, bounds>>

\* The row loses its personal data; profile 0 is none.
DeleteRow(p) ==
    /\ proc[p].at = "delete_row"
    /\ account' = [account EXCEPT ![proc[p].by].deleted = TRUE,
                                  ![proc[p].by].active = FALSE,
                                  ![proc[p].by].profile = 0]
    /\ Goto(p, "delete_places")
    /\ UNCHANGED <<token, profiles, cached, settings, riding, orgs, papers, uploads, talk,
                   bounds>>

DeletePlaces(p) ==
    /\ proc[p].at = "delete_places"
    /\ places' = places \ {proc[p].by}
    /\ Done(p)
    /\ UNCHANGED <<people, cached, settings, trip, part, orgs, papers, uploads, talk,
                   bounds>>

-----------------------------------------------------------------------------
(* PUT /admin/users/:userId                                                *)

\* Who holds `claim` may ask for `change` of an account with the role `target`.
Outranks(claim, target, change) ==
    "super_admin" \in {target, change} => claim = "super_admin"

AdminRead(p, m, u, change) ==
    /\ OneAtATime => \A q \in Procs : proc[q].at # "admin_write"
    /\ token[m] \in Admins
    /\ Outranks(token[m], account[u].role, change)
    /\ Start(p, [Request(m, "admin_write") EXCEPT !.on = u, !.change = change])
    /\ UNCHANGED <<people, cached, settings, riding, orgs, papers, uploads, talk, trouble>>

\* The row is written by its id alone: a deleted account is written too, and
\* the cache is left to expire.
AdminWrite(p) == LET r == proc[p] IN
    /\ r.at = "admin_write"
    /\ account' = [account EXCEPT ![r.on] =
           CASE r.change \in Roles -> [@ EXCEPT !.role = r.change]
             [] r.change = "activate" -> [@ EXCEPT !.active = TRUE]
             [] r.change = "suspend" -> [@ EXCEPT !.active = FALSE]
             [] OTHER -> [@ EXCEPT !.profile = profiles + 1]]
    /\ profiles' = IF r.change = "rename" THEN profiles + 1 ELSE profiles
    /\ Done(p)
    /\ UNCHANGED <<token, cached, settings, riding, orgs, papers, uploads, talk, bounds>>

-----------------------------------------------------------------------------
(* Organizations                                                           *)

\* POST /organizations: up to five attempts with one id.  An attempt whose
\* answer is lost has landed, and those after it collide with it.
OrgInsert(p, u, o) ==
    /\ org[o] = Nobody
    /\ org' = [org EXCEPT ![o] = u]
    /\ Start(p, [Request(u, "org_member") EXCEPT !.org = o])
    /\ UNCHANGED <<people, cached, settings, riding, founders, papers, uploads, talk, trouble>>
OrgInsertFails(u, o) ==
    /\ org[o] = Nobody
    /\ May(TRUE)
    /\ org' = [org EXCEPT ![o] = u]
    /\ UNCHANGED <<people, cached, settings, riding, founders, papers, uploads, talk, proc,
                   served>>

\* A membership that fails to be written is only logged.
OrgMember(p) == LET r == proc[p] IN
    /\ r.at = "org_member"
    /\ \E fails \in BOOLEAN :
        /\ May(fails)
        /\ account' = IF fails THEN account ELSE [account EXCEPT ![r.by].org = r.org]
    /\ founders' = founders \union {r.by}
    /\ Done(p)
    /\ UNCHANGED <<token, profiles, cached, settings, riding, org, papers, uploads, talk,
                   served>>

\* GET /organizations/current: the member's, or the last one the user created.
ShownOnlyMember(u) ==                          \* mutant: no fallback to one's own
    IF account[u].org # NoOrg THEN {account[u].org} ELSE {}
Shown(u) ==
    IF account[u].org # NoOrg THEN {account[u].org} ELSE {o \in Orgs : org[o] = u}

\* POST /organizations/join: no member yet, and the code of an organization...
JoinRead(p, u, o) ==
    /\ account[u].org = NoOrg /\ org[o] # Nobody
    /\ Start(p, [Request(u, "join_write") EXCEPT !.org = o])
    /\ UNCHANGED <<people, cached, settings, riding, orgs, papers, uploads, talk, trouble>>

\* ...then a member, whatever happened in between.
JoinWrite(p) == LET r == proc[p] IN
    /\ r.at = "join_write"
    /\ account' = [account EXCEPT ![r.by].org = r.org]
    /\ Done(p)
    /\ UNCHANGED <<token, profiles, cached, settings, riding, orgs, papers, uploads, talk,
                   bounds>>

-----------------------------------------------------------------------------
(* A driver's documents                                                    *)

\* POST /users/documents/upload-url
UploadUrl(u) ==
    /\ AtOnce
    /\ ticket' = ticket \union {u}
    /\ UNCHANGED <<people, cached, settings, riding, orgs, papers, file, talk>>

\* POST /users/documents/r2-upload: the token is read...
UploadGet(p, u) ==
    /\ Alone(u) /\ u \in ticket
    /\ Start(p, Request(u, "upload_delete"))
    /\ UNCHANGED <<people, cached, settings, riding, orgs, papers, uploads, talk, trouble>>

\* ...consumed, and a file that is too large refused...
UploadDelete(p) == LET r == proc[p] IN
    /\ r.at = "upload_delete"
    /\ ticket' = ticket \ {r.by}
    /\ Goto(p, "upload_put") \/ Done(p)
    /\ UNCHANGED <<people, cached, settings, riding, orgs, papers, file, talk, bounds>>

\* ...and the file stored.
UploadPut(p) == LET r == proc[p] IN
    /\ r.at = "upload_put"
    /\ file' = [file EXCEPT ![r.by] = @ + 1]
    /\ Done(p)
    /\ UNCHANGED <<people, cached, settings, riding, orgs, papers, ticket, talk, bounds>>

\* The token's five minutes are over.
TicketExpire(u) ==
    /\ u \in ticket
    /\ ticket' = ticket \ {u}
    /\ UNCHANGED <<people, cached, settings, riding, orgs, papers, file, talk, proc, bounds>>

\* POST /users/documents: a row, whether or not its file was stored.
DocRecord(d, k) ==
    /\ doc[d].status = "none"
    /\ AtOnce
    /\ doc' = [doc EXCEPT ![d] = [kind |-> k, status |-> "pending"]]
    /\ UNCHANGED <<people, cached, settings, riding, orgs, verified, complete, uploads, talk>>

ApprovedKinds(d) == {d[i].kind : i \in {j \in DOMAIN d : d[j].status = "approved"}}

\* PUT /admin/documents/:id: the review is written whatever the status was...
ReviewWrite(p, m, d, status) ==
    /\ token[m] \in Admins
    /\ doc[d].status # "none"
    /\ doc' = [doc EXCEPT ![d].status = status]
    /\ complete' = (complete \/ Kinds \subseteq ApprovedKinds(doc'))
    /\ IF status = "approved"
       THEN Start(p, Request(m, "review_read")) /\ UNCHANGED trouble
       ELSE AtOnce
    /\ UNCHANGED <<people, cached, settings, riding, orgs, verified, uploads, talk>>

\* ...and after an approval the driver's approved types are read...
AllApprovedSome == Kinds \intersect ApprovedKinds(doc) # {}  \* mutant: some, not every
AllApproved == Kinds \subseteq ApprovedKinds(doc)

ReviewRead(p) ==
    /\ proc[p].at = "review_read"
    /\ IF AllApproved THEN Goto(p, "review_verify") ELSE Done(p)
    /\ UNCHANGED <<people, cached, settings, riding, orgs, papers, uploads, talk, bounds>>

\* ...and the flag set when all are.
ReviewVerify(p) ==
    /\ proc[p].at = "review_verify"
    /\ verified' = TRUE
    /\ Done(p)
    /\ UNCHANGED <<people, cached, settings, riding, orgs, doc, complete, uploads, talk,
                   bounds>>

-----------------------------------------------------------------------------
(* Disputes, messages and safety                                           *)

\* POST /disputes: of a completed trip, by one who has a row on it or drove it.
HasOpen(u) == \E d \in Disputes : dispute[d].by = u /\ dispute[d].status = "open"

\* POST /trips/:tripId/dispute asks the same, in another order.
MayDispute(u) ==
    /\ part[u] # "none" \/ u = Driver
    /\ trip = "completed"
    /\ ~HasOpen(u)

DisputeRead(p, u) ==
    /\ Alone(u)
    /\ MayDispute(u)
    /\ Start(p, Request(u, "dispute_insert"))
    /\ UNCHANGED <<people, cached, settings, riding, orgs, papers, uploads, talk, trouble>>

DisputeInsert(p) ==
    /\ proc[p].at = "dispute_insert"
    /\ \E d \in Disputes :
        /\ dispute[d].status = "none"
        /\ dispute' = [dispute EXCEPT ![d] = [by |-> proc[p].by, status |-> "open",
                                              refund |-> FALSE]]
    /\ Done(p)
    /\ UNCHANGED <<people, cached, settings, riding, orgs, papers, uploads, message, safety,
                   bounds>>

\* PUT /admin/disputes/:id, once or again.
DisputeResolve(m, d, refund) ==
    /\ token[m] \in Admins
    /\ dispute[d].status # "none"
    /\ AtOnce
    /\ dispute' = [dispute EXCEPT ![d].status = "resolved", ![d].refund = refund]
    /\ UNCHANGED <<people, cached, settings, riding, orgs, papers, uploads, message, safety>>

\* The trip's chat is for its driver and its riders...
HasTripAccess(u) == u = Driver \/ part[u] = "rider"

MessageAccess(p, u, at) ==
    /\ HasTripAccess(u)
    /\ Start(p, Request(u, at))
    /\ UNCHANGED <<people, cached, settings, riding, orgs, papers, uploads, talk, trouble>>

\* ...when they ask: one who leaves meanwhile still sends, or marks as read.
MessageInsert(p) ==
    /\ proc[p].at = "message_insert"
    /\ message' = [message EXCEPT ![proc[p].by] = "unread"]
    /\ Done(p)
    /\ UNCHANGED <<people, cached, settings, riding, orgs, papers, uploads, dispute, safety,
                   bounds>>
MessageMark(p) ==
    /\ proc[p].at = "message_mark"
    /\ \E u \in Users \ {proc[p].by} :
        /\ message[u] # "none"
        /\ message' = [message EXCEPT ![u] = "read"]
    /\ Done(p)
    /\ UNCHANGED <<people, cached, settings, riding, orgs, papers, uploads, dispute, safety,
                   bounds>>

ContactAdd(u) ==
    /\ AtOnce
    /\ safety' = [safety EXCEPT !.contacts = @ \union {u}]
    /\ UNCHANGED <<people, cached, settings, riding, orgs, papers, uploads, dispute, message>>
ContactDelete(u) ==
    /\ AtOnce
    /\ safety' = [safety EXCEPT !.contacts = @ \ {u}]
    /\ UNCHANGED <<people, cached, settings, riding, orgs, papers, uploads, dispute, message>>

\* POST /safety/sos: the alert is raised whether or not the row was stored.
Sos(fails) ==
    /\ served < MaxServed /\ served' = served + 1 /\ May(fails)
    /\ safety' = [safety EXCEPT !.events = IF fails THEN @ ELSE @ + 1, !.alerts = @ + 1]
    /\ UNCHANGED <<people, cached, settings, riding, orgs, papers, uploads, dispute, message,
                   proc>>

-----------------------------------------------------------------------------

Profile(p, u) == ProfileRead(p, u) \/ ProfileUpdate(p, u) \/ DeleteRider(p, u)
Continue(p) ==
    \/ ProfileSet(p) \/ ProfileDrop(p) \/ DeleteDriver(p) \/ DeleteRow(p) \/ DeletePlaces(p)
    \/ AdminWrite(p) \/ OrgMember(p) \/ JoinWrite(p) \/ UploadDelete(p) \/ UploadPut(p)
    \/ ReviewRead(p) \/ ReviewVerify(p) \/ DisputeInsert(p) \/ MessageInsert(p)
    \/ MessageMark(p) \/ Abort(p)
Personal(u) ==
    \/ SignIn(u) \/ CacheExpire(u) \/ TosAccept(u) \/ UploadUrl(u) \/ TicketExpire(u)
    \/ ContactAdd(u) \/ ContactDelete(u) \/ Book(u) \/ Leave(u)
    \/ \E given \in SUBSET Sections : Preferences(u, given)
    \/ \E o \in Orgs : OrgInsertFails(u, o)

Next ==
    \/ Complete
    \/ \E fails \in BOOLEAN : Sos(fails)
    \/ \E u \in Users : Personal(u)
    \/ \E d \in Docs, k \in Kinds : DocRecord(d, k)
    \/ \E m \in Users, d \in Disputes, refund \in BOOLEAN : DisputeResolve(m, d, refund)
    \/ \E p \in Procs :
        \/ Continue(p)
        \/ \E u \in Users : Profile(p, u) \/ UploadGet(p, u) \/ DisputeRead(p, u)
        \/ \E u \in Users, o \in Orgs : OrgInsert(p, u, o) \/ JoinRead(p, u, o)
        \/ \E u \in Users, at \in {"message_insert", "message_mark"} :
              MessageAccess(p, u, at)
        \/ \E m, u \in Users, change \in Changes \ {"none"} : AdminRead(p, m, u, change)
        \/ \E m \in Users, d \in Docs, status \in Reviews : ReviewWrite(p, m, d, status)

Spec == Init /\ [][Next]_vars

-----------------------------------------------------------------------------

\* A driver is marked as verified only if every type was approved at one time,
\* and, no review being unfinished and none having died, whenever every type is
\* approved: of two administrators who approve the last two documents at once,
\* one sees both.  (documents.ts: each writes its review before it reads)
ReviewsDecide ==
    /\ verified => complete
    /\ (Kinds \subseteq ApprovedKinds(doc) /\ trouble = 0
          /\ \A p \in Procs : proc[p].at \notin {"review_read", "review_verify"})
       => verified

\* A cached profile is not older than the last update its user was told had
\* succeeded, unless KV failed to drop it: with one request of the user in
\* flight, the cache never shows what the update replaced.  (users.ts: GET and
\* PUT /profile)
CacheSeesOwnUpdates ==
    \A u \in Users \ lost : cache[u] # 0 => cache[u] >= updated[u]

\* Whoever was told that an organization was created sees one, though the
\* membership failed to be written and others joined and left in between.
\* (organizations.ts: create, /current)
FounderSeesOrganization == \A u \in founders : Shown(u) # {}

\* No one has two disputes of a trip open.  (disputes.ts, with one request of a
\* user in flight)
OneOpenDispute ==
    \A c, d \in Disputes :
        c # d /\ dispute[c].status = "open" /\ dispute[d].status = "open"
        => dispute[c].by # dispute[d].by

\* The request of a plain admin never changes the role, the standing or the
\* name of a super admin.  (admin.ts: PUT /users/:userId, one update at a time)
Standing(u) == <<account[u].role, account[u].active, account[u].profile>>
OutrankedLeftAlone ==
    [][\A p \in Procs, u \in Users :
          (/\ proc[p].at = "admin_write" /\ proc'[p].at = "idle" /\ proc[p].on = u
           /\ proc[p].role # "super_admin" /\ account[u].role = "super_admin")
          => Standing(u)' = Standing(u)]_vars

=============================================================================
