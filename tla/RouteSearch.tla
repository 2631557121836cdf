---------------------------- MODULE RouteSearch ----------------------------
(***************************************************************************)
(* A* in a route-service: the search behind GET /routes over the roads     *)
(* that the service has read into its memory.                              *)
(* Distances are integers here (hundreds of metres in the instance).       *)
(***************************************************************************)
EXTENDS Integers

CONSTANTS
    Node,           \* node_coords
    Km,             \* the length of each imported road, a function on pairs of nodes
    Estimate,       \* _haversine between two nodes
    NoNode          \* None in came_from

Road == DOMAIN Km

(* No road has a negative length; nothing is asked of the estimate but to  *)
(* be a distance.                                                          *)
ASSUME SearchAssumption ==
    /\ Road \subseteq Node \X Node
    /\ Km \in [Road -> Nat]
    /\ Estimate \in [Node -> [Node -> Nat]]
    /\ \A n \in Node : Estimate[n][n] = 0
    /\ NoNode \notin Node

VARIABLES
    graph,          \* adjacency: the roads that were loaded
    search,         \* "idle", "searching", "found" or "none"
    start, goal,    \* arguments of astar
    heap,           \* its heap; entries with the same f come out in any order
    gScore,         \* g_score, a function on the nodes it has seen
    cameFrom,       \* came_from, on the same nodes
    total           \* the distance it returned

searchVars == <<graph, search, start, goal, heap, gScore, cameFrom, total>>

Entry(n, g, t) == [f |-> g + Estimate[n][t], g |-> g, node |-> n]

Seen == DOMAIN gScore

----------------------------------------------------------------------------
BeginSearch(s, t) ==
    /\ search' = "searching"
    /\ start' = s
    /\ goal' = t
    /\ heap' = {Entry(s, 0, t)}
    /\ gScore' = [n \in {s} |-> 0]
    /\ cameFrom' = [n \in {s} |-> NoNode]
    /\ total' = 0
    /\ UNCHANGED graph

(* Mutant: a stack instead of a heap.                                      *)
AnyEntry(e) == TRUE

Least(e) == \A other \in heap : e.f <= other.f

Popped(e) ==
    /\ search = "searching"
    /\ e \in heap
    /\ Least(e)

Arrive(e) ==
    /\ Popped(e)
    /\ e.node = goal
    /\ search' = "found"
    /\ total' = e.g
    /\ heap' = heap \ {e}
    /\ UNCHANGED <<graph, start, goal, gScore, cameFrom>>

(* Mutant: a stale entry is left where it is.                              *)
SkipNothing(e) == FALSE /\ UNCHANGED searchVars

SkipStale(e) ==
    /\ Popped(e)
    /\ e.node # goal
    /\ e.g > gScore[e.node]
    /\ heap' = heap \ {e}
    /\ UNCHANGED <<graph, search, start, goal, gScore, cameFrom, total>>

(* Mutant: a neighbour reached before is never improved.                   *)
FirstReached(e) == {m \in Node : <<e.node, m>> \in graph /\ m \notin Seen}

(* The neighbours that the popped entry improves.                          *)
Improved(e) ==
    {m \in Node : /\ <<e.node, m>> \in graph
                  /\ m \in Seen => e.g + Km[<<e.node, m>>] < gScore[m]}

Through(e, m) == e.g + Km[<<e.node, m>>]

Expand(e) ==
    /\ Popped(e)
    /\ e.node # goal
    /\ e.g <= gScore[e.node]
    /\ gScore' = [m \in Seen \cup Improved(e) |->
                      IF m \in Improved(e) THEN Through(e, m) ELSE gScore[m]]
    /\ cameFrom' = [m \in Seen \cup Improved(e) |->
                      IF m \in Improved(e) THEN e.node ELSE cameFrom[m]]
    /\ heap' = (heap \ {e}) \cup {Entry(m, Through(e, m), goal) : m \in Improved(e)}
    /\ UNCHANGED <<graph, search, start, goal, total>>

Exhausted ==
    /\ search = "searching"
    /\ heap = {}
    /\ search' = "none"
    /\ UNCHANGED <<graph, start, goal, heap, gScore, cameFrom, total>>

(* The answer is sent, or the call was lost and with it the search.        *)
Abandon ==
    /\ search' = "idle"
    /\ UNCHANGED <<graph, start, goal, heap, gScore, cameFrom, total>>

(* _load_graph reads the roads that were imported since.                   *)
Load(roads) ==
    /\ search = "idle"
    /\ graph' = graph \cup roads
    /\ UNCHANGED <<search, start, goal, heap, gScore, cameFrom, total>>

SearchStep ==
    \/ Exhausted
    \/ \E e \in heap : Arrive(e) \/ SkipStale(e) \/ Expand(e)

----------------------------------------------------------------------------
SearchInit ==
    /\ graph \in SUBSET Road
    /\ search = "idle"
    /\ start = NoNode
    /\ goal = NoNode
    /\ heap = {}
    /\ gScore = <<>>
    /\ cameFrom = <<>>
    /\ total = 0

(* One search after another; find_route refuses a search from a node to    *)
(* itself.                                                                 *)
SearchNext ==
    \/ SearchStep
    \/ Abandon
    \/ \E roads \in SUBSET Road : Load(roads)
    \/ \E s, t \in Node : s # t /\ BeginSearch(s, t)

SearchSpec == SearchInit /\ [][SearchNext]_searchVars

----------------------------------------------------------------------------
HeapEntry == [f : Nat, g : Nat, node : Node]

(* Type correctness: the heap holds seen nodes with their estimates, and   *)
(* came_from has an entry for every seen node.                             *)
SearchTypeOK ==
    /\ graph \subseteq Road
    /\ search \in {"idle", "searching", "found", "none"}
    /\ start \in Node \cup {NoNode}
    /\ goal \in Node \cup {NoNode}
    /\ Seen \subseteq Node
    /\ gScore \in [Seen -> Nat]
    /\ cameFrom \in [Seen -> Node \cup {NoNode}]
    /\ heap \subseteq [f : Nat, g : Nat, node : Seen]
    /\ total \in Nat

(* What the docstring of astar says of its heuristic, in the form that A*  *)
(* needs: no road is shorter than what it gains on the estimate.           *)
ConsistentFor(t) ==
    \A n, m \in Node : <<n, m>> \in Road => Estimate[n][t] <= Km[<<n, m>>] + Estimate[m][t]

(* A potential that no road descends faster than its length: along any     *)
(* path the total length is at least the difference of its ends.           *)
Bound(n) ==
    IF n \in Seen /\ gScore[n] + Estimate[n][goal] <= total
      THEN gScore[n]
      ELSE total - Estimate[n][goal]

(* The distance astar returns is the shortest: the bound starts at 0, ends *)
(* at the returned distance, and rises along no road by more than its      *)
(* length, so that no path from start to goal over loaded roads is shorter.*)
NoShorterRoute ==
    search = "found" /\ ConsistentFor(goal) =>
        /\ Bound(start) = 0
        /\ Bound(goal) = total
        /\ \A n, m \in Node : <<n, m>> \in graph => Bound(m) <= Bound(n) + Km[<<n, m>>]
=============================================================================
