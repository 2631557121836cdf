----------------------------- MODULE Planning -----------------------------
(***************************************************************************)
(* POST /plan of journey-management: the regions of a journey from the     *)
(* overlay graph, then one leg per region from that region's route-service *)
(* (module RouteSearch), joined at the gateways.                           *)
(***************************************************************************)
EXTENDS RouteSearch, Sequences, SequencesExt, FiniteSets

CONSTANTS
    PlacesOf,       \* NODE_ID_TO_REGION, by region; also each region's places
    Late,           \* places that the last import of the graph has added
    LateRoad,       \* roads that it has added between places of any age
    Overlay,        \* OVERLAY: exit, entry and cost_km from a region to another
    MaxErrors       \* how many calls to a route-service can fail

Region == DOMAIN PlacesOf

(* A region's graph has the region's roads only.                           *)
ASSUME PlanningAssumption ==
    /\ IsFiniteSet(Node)
    /\ IsFiniteSet(Region)
    /\ Node = UNION {PlacesOf[r] : r \in Region}
    /\ \A r \in Road, a \in Region : r[1] \in PlacesOf[a] => r[2] \in PlacesOf[a]
    /\ MaxErrors \in Nat

VARIABLES
    origin, destination,    \* of the PlanRequest
    regionSequence,
    legs,                   \* legs planned so far
    attempt,                \* tries of _get_route_sync for the current leg
    outcome,                \* "none", "open", "planned", or how the plan failed
    errors,                 \* failed calls so far
    reloaded,               \* regions whose route-service was restarted since the import
    informed                \* those of them at the time of the request (history)

planVars == <<origin, destination, regionSequence, legs, attempt, outcome, errors,
              reloaded, informed>>
vars     == <<searchVars, planVars>>

----------------------------------------------------------------------------
(* The plan of regions *)

RegionOf(place) == CHOOSE r \in Region : place \in PlacesOf[r]

(* Region sequences along the overlay that visit no region twice.          *)
OverlayPaths(a, b) ==
    {p \in UNION {[1 .. k -> Region] : k \in 1 .. Cardinality(Region)} :
        /\ p[1] = a /\ p[Len(p)] = b
        /\ IsInjective(p)
        /\ \A i \in 1 .. Len(p) - 1 : p[i + 1] \in DOMAIN Overlay[p[i]]}

OverlayCost(p) ==
    FoldLeft(LAMBDA km, i : km + Overlay[p[i]][p[i + 1]].cost_km, 0,
             [i \in 1 .. Len(p) - 1 |-> i])

(* OVERLAY is one line of regions, and its gateways are places of their    *)
(* regions that were there from the first import on.                       *)
ASSUME OverlayAssumption ==
    /\ \A a, b \in Region : \A p, q \in OverlayPaths(a, b) : p = q
    /\ \A a, b \in Region : b \in DOMAIN Overlay[a] =>
         /\ Overlay[a][b].exit \in PlacesOf[a] \ Late
         /\ Overlay[a][b].entry \in PlacesOf[b] \ Late

(* What Dijkstra on the overlay returns: a path of least cost, or none.    *)
OverlayShortestPaths(a, b) ==
    LET paths == OverlayPaths(a, b)
    IN IF paths = {} THEN {<<>>}
       ELSE {p \in paths : \A q \in paths : OverlayCost(p) <= OverlayCost(q)}

(* plan_journey up to its loop over the legs; a place that is not in       *)
(* NODE_ID_TO_REGION is geocoded, which can fail.                          *)
Plan(o, d) ==
    /\ outcome = "none"
    /\ origin' = o
    /\ destination' = d
    /\ \E p \in OverlayShortestPaths(RegionOf(o), RegionOf(d)) :
         /\ regionSequence' = p
         /\ outcome' \in IF p = <<>> THEN {"no_corridor", "not_geocoded"}
                                     ELSE {"open", "not_geocoded"}
    /\ informed' = reloaded
    /\ UNCHANGED <<searchVars, legs, attempt, errors, reloaded>>

----------------------------------------------------------------------------
(* One leg *)

Index   == Len(legs) + 1
Here    == regionSequence[Index]
LastLeg == Index = Len(regionSequence)

(* Mutant: the next leg starts on the near side of the border.             *)
NearSide(a, b) == Overlay[a][b].exit

FarSide(a, b) == Overlay[a][b].entry

LegOrigin      == IF Index = 1 THEN origin ELSE FarSide(regionSequence[Index - 1], Here)
LegDestination == IF LastLeg THEN destination
                  ELSE Overlay[Here][regionSequence[Index + 1]].exit

(* The loop of astar that follows came_from back from the goal, and how    *)
(* far it goes: to the first node that came from None.                     *)
Back[i \in Nat] == IF i = 0 THEN goal ELSE cameFrom[Back[i - 1]]

Hops == CHOOSE i \in 0 .. Cardinality(Seen) :
            /\ cameFrom[Back[i]] = NoNode
            /\ \A j \in 0 .. i - 1 : cameFrom[Back[j]] # NoNode

(* Mutant: the list is not reversed.                                       *)
PathFromGoal == [j \in 1 .. Hops + 1 |-> Back[j - 1]]

Path == [j \in 1 .. Hops + 1 |-> Back[Hops + 1 - j]]

AddLeg(path) ==
    /\ legs' = Append(legs, path)
    /\ attempt' = 0
    /\ outcome' = IF LastLeg THEN "planned" ELSE "open"
    /\ UNCHANGED <<origin, destination, regionSequence, errors, reloaded, informed>>

Fail(how) ==
    /\ outcome' = how
    /\ UNCHANGED <<origin, destination, regionSequence, legs, attempt, errors, reloaded,
                   informed>>

(* Every region's route-service loads its graph once, when it starts.      *)
RoadsOf(a) == {r \in Road : r[1] \in PlacesOf[a]}

(* The roads in the graphs when the regions of S have restarted since the  *)
(* import: _load_graph leaves out a road whose ends it does not know.      *)
KnownRoads(S) ==
    {r \in Road \ LateRoad : {r[1], r[2]} \cap Late = {}} \cup UNION {RoadsOf(a) : a \in S}

Loaded == IF Here \in reloaded THEN PlacesOf[Here] ELSE PlacesOf[Here] \ Late

(* A restart in the middle of a search fails the call first (CallFails).   *)
Reload(a) ==
    /\ a \notin reloaded
    /\ reloaded' = reloaded \cup {a}
    /\ Load(RoadsOf(a))
    /\ UNCHANGED <<origin, destination, regionSequence, legs, attempt, outcome, errors,
                   informed>>

(* find_route: both ends must be in the region's graph and differ.         *)
CallRoute ==
    /\ outcome = "open"
    /\ search = "idle"
    /\ {LegOrigin, LegDestination} \subseteq Loaded
    /\ LegOrigin # LegDestination
    /\ BeginSearch(LegOrigin, LegDestination)
    /\ UNCHANGED planVars

(* _resolve: an identifier that is not in the graph is taken for the name  *)
(* of a place, which the geocoder does not know.                           *)
CallUnknown ==
    /\ outcome = "open"
    /\ search = "idle"
    /\ ~({LegOrigin, LegDestination} \subseteq Loaded)
    /\ Fail("unknown_place")
    /\ UNCHANGED searchVars

(* "Same node" is an empty leg: the journey starts or ends at the border.  *)
CallSameNode ==
    /\ outcome = "open"
    /\ search = "idle"
    /\ LegOrigin = LegDestination
    /\ LegOrigin \in Loaded
    /\ AddLeg(<<LegOrigin>>)
    /\ UNCHANGED searchVars

GiveUp == attempt = 2

(* The connection fails or times out: three attempts in all.               *)
CallFails ==
    /\ outcome = "open"
    /\ errors < MaxErrors
    /\ errors' = errors + 1
    /\ Abandon
    /\ IF GiveUp THEN outcome' = "unavailable" /\ UNCHANGED attempt
                 ELSE attempt' = attempt + 1 /\ UNCHANGED outcome
    /\ UNCHANGED <<origin, destination, regionSequence, legs, reloaded, informed>>

(* Any other error status is not retried.                                  *)
CallRefused ==
    /\ outcome = "open"
    /\ errors < MaxErrors
    /\ errors' = errors + 1
    /\ Abandon
    /\ outcome' = "unavailable"
    /\ UNCHANGED <<origin, destination, regionSequence, legs, attempt, reloaded, informed>>

Search == outcome = "open" /\ SearchStep /\ UNCHANGED planVars

LegFound ==
    /\ outcome = "open"
    /\ search = "found"
    /\ AddLeg(Path)
    /\ Abandon

LegNotFound ==
    /\ outcome = "open"
    /\ search = "none"
    /\ Fail("no_route")
    /\ Abandon

----------------------------------------------------------------------------
Init ==
    /\ reloaded \in SUBSET Region
    /\ informed = {}
    /\ graph = KnownRoads(reloaded)
    /\ SearchInit
    /\ origin = NoNode
    /\ destination = NoNode
    /\ regionSequence = <<>>
    /\ legs = <<>>
    /\ attempt = 0
    /\ outcome = "none"
    /\ errors = 0

Handle ==
    \/ CallRoute \/ CallUnknown \/ CallSameNode
    \/ Search \/ LegFound \/ LegNotFound

Next ==
    \/ \E o, d \in Node : Plan(o, d)
    \/ Handle
    \/ CallFails
    \/ CallRefused
    \/ \E a \in Region : Reload(a)

Spec == Init /\ [][Next]_vars

(* The handler and the route-services run on.                              *)
FairSpec == Spec /\ WF_vars(Handle)

----------------------------------------------------------------------------
(* Type correctness: a plan never has more legs than regions.              *)
PlanTypeOK ==
    /\ SearchTypeOK
    /\ {origin, destination} \subseteq Node \cup {NoNode}
    /\ regionSequence \in Seq(Region)
    /\ legs \in Seq(Seq(Node))
    /\ Len(legs) <= Len(regionSequence)
    /\ attempt \in 0 .. 2
    /\ outcome \in {"none", "open", "planned", "no_corridor", "not_geocoded", "no_route",
                    "unknown_place", "unavailable"}
    /\ errors \in 0 .. MaxErrors
    /\ informed \subseteq reloaded /\ reloaded \subseteq Region

(* Reference: the paths of up to k roads that visit no node twice.         *)
SimplePaths[k \in Nat] ==
    IF k = 0
      THEN {<<n>> : n \in Node}
      ELSE LET shorter == SimplePaths[k - 1]
           IN shorter \cup UNION {{Append(p, r[2]) : r \in {q \in Road :
                   q[1] = Last(p) /\ q[2] \notin ToSet(p)}} : p \in shorter}

Paths == SimplePaths[Cardinality(Node)]

(* What the route-services could know of when the plan was asked for.      *)
KnownPathsBetween(a, b) ==
    LET known == KnownRoads(informed)
    IN {p \in Paths : /\ p[1] = a /\ Last(p) = b
                      /\ \A i \in 1 .. Len(p) - 1 : <<p[i], p[i + 1]>> \in known}

PathKm(path) ==
    LET km[i \in 1 .. Len(path)] ==
            IF i = 1 THEN 0 ELSE km[i - 1] + Km[<<path[i - 1], path[i]>>]
    IN km[Len(path)]

(* A plan is a drive: every leg follows roads of its region, the first     *)
(* leaves from the origin, the last ends at the destination, and one ends  *)
(* where the next begins, on the two sides of one border.                  *)
PlanIsDrivable ==
    outcome = "planned" =>
        /\ Len(legs) = Len(regionSequence)
        /\ legs[1][1] = origin
        /\ Last(legs[Len(legs)]) = destination
        /\ \A i \in 1 .. Len(legs) :
             /\ \A j \in 1 .. Len(legs[i]) : legs[i][j] \in PlacesOf[regionSequence[i]]
             /\ \A j \in 1 .. Len(legs[i]) - 1 : <<legs[i][j], legs[i][j + 1]>> \in Road
        /\ \A i \in 1 .. Len(legs) - 1 :
             LET border == Overlay[regionSequence[i]][regionSequence[i + 1]]
             IN Last(legs[i]) = border.exit /\ legs[i + 1][1] = border.entry

(* No leg that a plan takes over is longer than any path between its ends  *)
(* over the roads that were loaded when the plan was asked for: where the  *)
(* service has restarted since the import, over all roads.  (Two roads of  *)
(* Laos are shorter than the estimate; the routes are the shortest all the *)
(* same.)                                                                  *)
LegsAreShortest ==
    \A i \in 1 .. Len(legs) :
        \A p \in KnownPathsBetween(legs[i][1], Last(legs[i])) : PathKm(legs[i]) <= PathKm(p)

(* The distance a route-service answers is that of the route it answers    *)
(* with it: came_from may have changed since the entry of the goal was put *)
(* into the heap, but only for the better, and not at all where the        *)
(* estimate can be trusted.                                                *)
DistanceFitsRoute ==
    search = "found" =>
        /\ PathKm(Path) <= total
        /\ ConsistentFor(goal) => PathKm(Path) = total

(* A journey is refused for want of a road only when some leg between its  *)
(* ends and the borders cannot be driven over the roads that the services  *)
(* had loaded when the plan was asked for: only a service that did not     *)
(* restart since misses a road of the last import.  A place of the map is  *)
(* unknown only to such a service.                                         *)
Drivable(p) ==
    LET from(i) == IF i = 1 THEN origin ELSE Overlay[p[i - 1]][p[i]].entry
        to(i)   == IF i = Len(p) THEN destination ELSE Overlay[p[i]][p[i + 1]].exit
    IN \A i \in 1 .. Len(p) : KnownPathsBetween(from(i), to(i)) # {}

RefusalIsTrue ==
    /\ outcome \in {"no_route", "no_corridor"} =>
         \A p \in OverlayPaths(RegionOf(origin), RegionOf(destination)) : ~Drivable(p)
    /\ outcome = "unknown_place" =>
         \E place \in {origin, destination} \cap Late : RegionOf(place) \notin informed

(* Every plan request is answered: no search runs forever and no call is   *)
(* repeated for ever.                                                      *)
EveryPlanAnswered == outcome = "open" ~> outcome \notin {"none", "open"}
=============================================================================
