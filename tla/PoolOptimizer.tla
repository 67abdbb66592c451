---------------------------- MODULE PoolOptimizer ----------------------------
(***************************************************************************)
(* The matching engine's pure part: which riders suit a driver's trip (the *)
(* SQL pre-filter, the hard filters, the route check), and the greedy      *)
(* choice of the riders that share it, with the order of their stops.      *)
(*                                                                         *)
(* Code: src/src/lib/matching/{engine,optimizer,geo,repository}.ts.  All   *)
(* points lie on one straight road, so a point is its kilometre and the    *)
(* distance of two is a difference; arithmetic is exact, and where two     *)
(* stops tie, as rounding may, either comes first.  The score is left      *)
(* open: the candidates are taken in any order.                            *)
(***************************************************************************)
EXTENDS Integers, FiniteSets, SequencesExt

CONSTANTS
    Requesters, \* the riders with a request
    Points,     \* the kilometres a rider may name, integers
    Routes,     \* the polylines of the trip, each driven straight on
    MaxWalk,    \* maxPickupDistanceKm and maxDropoffDistanceKm
    Padding,    \* boundingBoxPaddingDeg
    MaxDetour,  \* maxAbsoluteDetourKm and maxPoolDetourKm
    MaxRiders   \* maxRidersPerPool

VARIABLES
    trip,    \* the driver's trip: its route and available_seats
    rider,   \* the riders' requests
    at,      \* "match", then "pool", then "saved"
    waiting, \* the matches optimizePool has not looked at
    pool,    \* those it took: currentStops and cumulativeDetourKm
    member   \* pool_members: pickup_order and dropoff_order

poolVars == <<trip, rider, at, waiting, pool, member>>

\* A route is at least its departure and its destination.
ASSUME PoolAssumption ==
    /\ IsFiniteSet(Requesters)
    /\ Points \subseteq Int
    /\ \A route \in Routes : route \in Seq(Int) /\ Len(route) >= 2
    /\ {MaxWalk, Padding, MaxDetour, MaxRiders} \subseteq Nat

-----------------------------------------------------------------------------
\* suits is what the rest of the two rows says: the trip is open and leaves within
\* the rider's window, and the organizations and the driver's rating agree.
Requests == [pickup : Points, dropoff : Points, seatsNeeded : 1..2,
             suits : {"yes", "not_open", "not_agreed"}]
NoPool == [stops |-> <<>>, detour |-> 0]
Selected == {pool.stops[i].rider : i \in DOMAIN pool.stops}
Stops(riders) == [type : {"pickup", "dropoff"}, rider : riders]

PoolTypeOK ==
    /\ trip \in [route : Routes, available_seats : 1..2]
    /\ rider \in [Requesters -> Requests]
    /\ at \in {"match", "pool", "saved"}
    /\ waiting \subseteq Requesters
    /\ pool \in [stops : Seq(Stops(Requesters)), detour : 0..MaxDetour]
    /\ DOMAIN member \subseteq Requesters /\ member \in [DOMAIN member -> Nat \X Nat]

PoolInit ==
    /\ trip \in [route : Routes, available_seats : 1..2]
    /\ rider \in [Requesters -> Requests]
    /\ at = "match"
    /\ waiting = {}
    /\ pool = NoPool
    /\ member = [r \in {} |-> <<>>]

-----------------------------------------------------------------------------
(* Distances                                                               *)

Dist(p, q) == IF p < q THEN q - p ELSE p - q                         \* haversine
Lesser(p, q) == IF p < q THEN p ELSE q
Greater(p, q) == IF p < q THEN q ELSE p

\* buildBoundingBox; both polylines and a rider's two points have a first and a last
Low(points) == Min(ToSet(points))
High(points) == Max(ToSet(points))

\* Of a point beside the segment the nearest end, of one on it the point itself.
PointToSegment(p, a, b) ==
    IF Lesser(a, b) <= p /\ p <= Greater(a, b) THEN 0 ELSE Lesser(Dist(p, a), Dist(p, b))

Segments(route) == 1..(Len(route) - 1)
ToRoute(p, route) == Min({PointToSegment(p, route[i], route[i + 1]) : i \in Segments(route)})
\* The first of the segments that are as near.
SegmentIndex(p, route) ==
    Min({i \in Segments(route) :
           PointToSegment(p, route[i], route[i + 1]) = ToRoute(p, route)})

\* Out to the pickup, the ride and back from the dropoff, less the segments from the
\* pickup's to the dropoff's.
EstimateDetour(p, d, route) ==
    LET first == Lesser(SegmentIndex(p, route), SegmentIndex(d, route))
        last  == Greater(SegmentIndex(p, route), SegmentIndex(d, route))
        original == Dist(route[first], route[last + 1])
    IN  Greater(0, ToRoute(p, route) + Dist(p, d) + ToRoute(d, route) - original)

Length(w) ==
    LET upTo[i \in DOMAIN w] == IF i = 1 THEN 0 ELSE upTo[i - 1] + Dist(w[i - 1], w[i])
    IN  upTo[Len(w)]
\* What it costs to pass by p between the stops i - 1 and i.
Cost(w, i, p) == Dist(w[i - 1], p) + Dist(p, w[i]) - Dist(w[i - 1], w[i])

Location(stop) == IF stop.type = "pickup" THEN rider[stop.rider].pickup
                  ELSE rider[stop.rider].dropoff
Waypoints ==
    <<trip.route[1]>> \o [i \in DOMAIN pool.stops |-> Location(pool.stops[i])]
      \o <<Last(trip.route)>>

\* Mutant: the dropoff may come between the stop before the pickup and the pickup.
MarginalDetourAnywhere(r) ==
    LET w == Waypoints
        p == rider[r].pickup
        pickupCost == Min({Cost(w, i, p) : i \in 2..Len(w)})
        best == Min({i \in 2..Len(w) : Cost(w, i, p) = pickupCost})
        with == InsertAt(w, best, p)
    IN  pickupCost + Min({Cost(with, i, rider[r].dropoff) : i \in best..Len(with)})

\* The cheapest place for the pickup, the first of them, then the cheapest place
\* after it for the dropoff.
MarginalDetour(r) ==
    LET w == Waypoints
        p == rider[r].pickup
        pickupCost == Min({Cost(w, i, p) : i \in 2..Len(w)})
        best == Min({i \in 2..Len(w) : Cost(w, i, p) = pickupCost})
        with == InsertAt(w, best, p)
    IN  pickupCost + Min({Cost(with, i, rider[r].dropoff) : i \in (best + 1)..Len(with)})

-----------------------------------------------------------------------------
(* Which riders suit the trip                                              *)

PrefilterUnpadded(r) ==                                 \* mutant: the padding is forgotten
    /\ trip.available_seats >= rider[r].seatsNeeded
    /\ rider[r].suits # "not_open"
    /\ High(trip.route) >= Lesser(rider[r].pickup, rider[r].dropoff)
    /\ Low(trip.route) <= Greater(rider[r].pickup, rider[r].dropoff)

\* The SQL of findCandidateDrivers: the trip's box meets the rider's padded one.
Prefilter(r) ==
    /\ trip.available_seats >= rider[r].seatsNeeded
    /\ rider[r].suits # "not_open"
    /\ High(trip.route) >= Lesser(rider[r].pickup, rider[r].dropoff) - Padding
    /\ Low(trip.route) <= Greater(rider[r].pickup, rider[r].dropoff) + Padding

Inside(p) == Low(trip.route) - Padding <= p /\ p <= High(trip.route) + Padding

HardFilters(r) ==
    /\ trip.available_seats >= rider[r].seatsNeeded
    /\ rider[r].suits = "yes"
    /\ Inside(rider[r].pickup) \/ Inside(rider[r].dropoff)

\* The detour in minutes, at 30 km/h, keeps within maxPoolDetourMinutes exactly when
\* it keeps within maxAbsoluteDetourKm: 20 minutes and 10 km.
RouteCompatible(r) ==
    LET p == rider[r].pickup  d == rider[r].dropoff IN
    /\ ToRoute(p, trip.route) <= MaxWalk
    /\ ToRoute(d, trip.route) <= MaxWalk
    /\ SegmentIndex(p, trip.route) <= SegmentIndex(d, trip.route)
    /\ EstimateDetour(p, d, trip.route) <= MaxDetour

Suits(r) == HardFilters(r) /\ RouteCompatible(r)

MatchRiders ==
    /\ at = "match"
    /\ waiting' = {r \in Requesters : Prefilter(r) /\ Suits(r)}
    /\ at' = "pool"
    /\ UNCHANGED <<trip, rider, pool, member>>

-----------------------------------------------------------------------------
(* The pool                                                                *)

\* Along the route: by segment, then by the distance from it.
NotAfter(s, t) ==
    LET i == SegmentIndex(Location(s), trip.route)
        j == SegmentIndex(Location(t), trip.route)
    IN  \/ i < j
        \/ i = j /\ ToRoute(Location(s), trip.route) <= ToRoute(Location(t), trip.route)
Sorted(riders) == {s \in SetToSeqs(Stops(riders)) : IsSorted(s, NotAfter)}

EnforceNothing(stops) == stops                        \* mutant: the stops stay as sorted

\* A dropoff whose pickup has not been passed has it moved to its front.
Ahead(s, i) ==
    LET up == [type |-> "pickup", rider |-> s[i].rider] IN
    IF \E j \in 1..i : s[j] = up THEN s ELSE InsertAt(RemoveFirst(s, up), i, up)
EnforcePickupBeforeDropoff(stops) ==
    LET upTo[i \in 0..Len(stops)] == IF i = 0 THEN stops ELSE Ahead(upTo[i - 1], i)
    IN  upTo[Len(stops)]

FitsUntilFull(r) ==                     \* mutant: the rider's own detour is not added
    /\ Cardinality(Selected) < Lesser(trip.available_seats, MaxRiders)
    /\ pool.detour <= MaxDetour

Fits(r) ==
    /\ Cardinality(Selected) < Lesser(trip.available_seats, MaxRiders)
    /\ pool.detour + MarginalDetour(r) <= MaxDetour

\* One turn of optimizePool's loop.  A rider counts as one seat.
Consider(r) ==
    /\ at = "pool" /\ r \in waiting
    /\ waiting' = waiting \ {r}
    /\ IF Fits(r)
       THEN \E s \in Sorted(Selected \union {r}) :
              pool' = [stops |-> EnforcePickupBeforeDropoff(s),
                       detour |-> pool.detour + MarginalDetour(r)]
       ELSE UNCHANGED pool
    /\ UNCHANGED <<trip, rider, at, member>>

\* savePoolAssignment: a member row for each rider, with the places of his stops.
Place(type, r) == SelectInSeq(pool.stops, LAMBDA s : s.type = type /\ s.rider = r)
SavePool ==
    /\ at = "pool" /\ waiting = {}
    /\ member' = [r \in Selected |-> <<Place("pickup", r), Place("dropoff", r)>>]
    /\ at' = "saved"
    /\ UNCHANGED <<trip, rider, waiting, pool>>

PoolNext == MatchRiders \/ (\E r \in Requesters : Consider(r)) \/ SavePool

PoolSpec == PoolInit /\ [][PoolNext]_poolVars

-----------------------------------------------------------------------------
(* Properties                                                              *)

\* The query of the repository, written to save the engine work, hides no trip that
\* the engine would have matched (repository.ts:358, engine.ts:81).
PrefilterKeepsMatches == \A r \in Requesters : Suits(r) => Prefilter(r)

\* Every member of a saved pool is picked up and dropped off, in this order, though
\* the stops were sorted by their place on the route (optimizer.ts:98).
PickupFirst ==
    \A r \in DOMAIN member : 0 < member[r][1] /\ member[r][1] < member[r][2]

\* What a rider is charged against the detour budget is the length that some tour
\* through all stops so far, with him picked up before he is dropped off, has over the
\* tour without him (geo.ts:337).
MarginalIsInsertion ==
    \A r \in waiting :
      LET w == Waypoints IN
      \E i \in 2..Len(w), j \in 3..(Len(w) + 1) :
        /\ i < j
        /\ MarginalDetour(r) =
             Length(InsertAt(InsertAt(w, i, rider[r].pickup), j, rider[r].dropoff)) - Length(w)

\* A pool of one rider, the only kind that POST /find-pool asks for, fits: the seats of
\* his party are free and the tour with its stops as they end up sorted drives no more
\* than the budget over the direct way.  (Neither holds of two riders: each counts as
\* one seat, and the second is charged on a tour that the sorting then replaces,
\* optimizer.ts:190.)
SoleRiderFits ==
    \A r \in Requesters : Selected = {r} =>
      /\ rider[r].seatsNeeded <= trip.available_seats
      /\ Length(Waypoints) <= Dist(trip.route[1], Last(trip.route)) + MaxDetour
=============================================================================
