------------------------- MODULE RouteSearchProofs -------------------------
(***************************************************************************)
(* The route that A* returns is the shortest, for every road network and   *)
(* every estimate that is consistent for the goal; what the plans are that *)
(* journey-management makes of such routes, and when it refuses one.       *)
(***************************************************************************)
EXTENDS Planning, TLAPS, SequenceTheorems, FiniteSetTheorems, WellFoundedInduction

(* The estimate never falls by more than the road's length, along the      *)
(* roads towards one goal.                                                 *)
Fair == search = "searching" /\ ConsistentFor(goal)

(* What a running search maintains.  Every entry is at least as late as    *)
(* its node's score and as the estimate from the start; a seen node either *)
(* waits in the heap with its score or has been expanded with it; the goal *)
(* is never expanded.                                                      *)
Started   == /\ start \in Seen /\ goal \in Node /\ gScore[start] = 0
             /\ start \in Node

HeapSound == \A e \in heap : /\ e.node \in Seen
                             /\ e.f = e.g + Estimate[e.node][goal]
                             /\ e.g >= gScore[e.node]

Waiting(n) == Entry(n, gScore[n], goal) \in heap

Expanded(n) == \A m \in Node : <<n, m>> \in graph =>
                   m \in Seen /\ gScore[m] <= gScore[n] + Km[<<n, m>>]

Frontier  == \A n \in Seen : Waiting(n) \/ (n # goal /\ Expanded(n))

FarEnough == \A n \in Seen : gScore[n] + Estimate[n][goal] >= Estimate[start][goal]

SearchInv ==
    /\ SearchTypeOK
    /\ search = "searching" => Started /\ HeapSound /\ Frontier
    /\ Fair => FarEnough
    /\ NoShorterRoute

----------------------------------------------------------------------------
(* Equality from two inequalities.                                         *)
LEMMA Antisymmetry == \A x, y \in Nat : x <= y /\ x >= y => x = y
  OBVIOUS

(* A search begins with a type-correct state in which the start waits.     *)
LEMMA BeginKeeps ==
    ASSUME SearchInv, NEW s \in Node, NEW t \in Node, BeginSearch(s, t)
    PROVE  SearchInv'
<1> USE SearchAssumption
<1>1. /\ search' = "searching" /\ start' = s /\ goal' = t
      /\ heap' = {Entry(s, 0, t)} /\ Seen' = {s} /\ gScore'[s] = 0
      /\ gScore' = [n \in {s} |-> 0] /\ cameFrom' = [n \in {s} |-> NoNode]
      /\ total' = 0 /\ graph' = graph /\ graph \subseteq Road
  BY DEF BeginSearch, Seen, SearchInv, SearchTypeOK
<1>2. Entry(s, 0, t) = [f |-> Estimate[s][t], g |-> 0, node |-> s]
  BY DEF Entry
<1>3. Estimate[s][t] \in Nat
  OBVIOUS
<1>4. SearchTypeOK'
  BY <1>1, <1>2, <1>3 DEF SearchTypeOK
<1>5. Started' /\ HeapSound'
  BY <1>1, <1>2, <1>3 DEF Started, HeapSound
<1>6. Frontier'
  BY <1>1 DEF Frontier, Waiting, Entry
<1>7. FarEnough'
  BY <1>1, <1>3 DEF FarEnough
<1> QED
  BY <1>1, <1>4, <1>5, <1>6, <1>7 DEF SearchInv, NoShorterRoute

(* Relaxing the roads of an entry keeps the types.                         *)
LEMMA ExpandTypes ==
    ASSUME SearchInv, NEW e \in heap, Expand(e)
    PROVE  /\ SearchTypeOK'
           /\ e.node \in Seen /\ e.g \in Nat /\ e.g = gScore[e.node]
           /\ Seen' = Seen \cup Improved(e)
           /\ \A m \in Seen' : gScore'[m] =
                 IF m \in Improved(e) THEN e.g + Km[<<e.node, m>>] ELSE gScore[m]
           /\ \A m \in Seen : gScore'[m] <= gScore[m]
<1> USE SearchAssumption
<1>1. SearchTypeOK /\ HeapSound /\ search = "searching"
  BY DEF SearchInv, Expand, Popped
<1>2. e.node \in Seen /\ e.g \in Nat /\ e.node \in Node
  BY <1>1 DEF SearchTypeOK
<1>3. e.g = gScore[e.node]
  <2>1. gScore[e.node] \in Nat
    BY <1>1, <1>2 DEF SearchTypeOK
  <2>2. e.g >= gScore[e.node]
    BY <1>1 DEF HeapSound
  <2>3. e.g <= gScore[e.node]
    BY DEF Expand
  <2> QED
    BY <1>2, <2>1, <2>2, <2>3, Antisymmetry
<1>4. \A m \in Improved(e) : m \in Node /\ <<e.node, m>> \in Road
                              /\ Through(e, m) = e.g + Km[<<e.node, m>>]
                              /\ Through(e, m) \in Nat
  BY <1>1, <1>2 DEF Improved, Through, SearchTypeOK
<1>5. /\ Seen' = Seen \cup Improved(e)
      /\ \A m \in Seen' : gScore'[m] =
            IF m \in Improved(e) THEN Through(e, m) ELSE gScore[m]
      /\ gScore' \in [Seen' -> Nat]
  <2>1. gScore' = [m \in Seen \cup Improved(e) |->
                      IF m \in Improved(e) THEN Through(e, m) ELSE gScore[m]]
    BY DEF Expand
  <2>2. Seen' = Seen \cup Improved(e)
    BY <2>1 DEF Seen
  <2>3. \A m \in Seen : gScore[m] \in Nat
    BY <1>1 DEF SearchTypeOK
  <2> QED
    BY <2>1, <2>2, <2>3, <1>4
<1>6. \A m \in Seen : gScore'[m] <= gScore[m]
  <2> SUFFICES ASSUME NEW m \in Seen PROVE gScore'[m] <= gScore[m]
    OBVIOUS
  <2>1. gScore[m] \in Nat
    BY <1>1 DEF SearchTypeOK
  <2>2. CASE m \in Improved(e)
    <3>1. /\ m \in Seen' /\ gScore'[m] = Through(e, m)
          /\ Through(e, m) = e.g + Km[<<e.node, m>>] /\ Through(e, m) \in Nat
      BY <2>2, <1>4, <1>5
    <3>2. e.g + Km[<<e.node, m>>] < gScore[m]
      BY <2>2 DEF Improved
    <3> QED
      BY <2>1, <3>1, <3>2
  <2>3. CASE m \notin Improved(e)
    BY <2>1, <2>3, <1>5
  <2> QED
    BY <2>2, <2>3
<1>7. cameFrom' \in [Seen' -> Node \cup {NoNode}]
  <2>1. cameFrom' = [m \in Seen \cup Improved(e) |->
                      IF m \in Improved(e) THEN e.node ELSE cameFrom[m]]
    BY DEF Expand
  <2>2. \A m \in Seen : cameFrom[m] \in Node \cup {NoNode}
    BY <1>1 DEF SearchTypeOK
  <2> QED
    BY <2>1, <2>2, <1>2, <1>5
<1>8. heap' \subseteq [f : Nat, g : Nat, node : Seen']
  <2> SUFFICES ASSUME NEW x \in heap' PROVE x \in [f : Nat, g : Nat, node : Seen']
    OBVIOUS
  <2>1. CASE x \in heap
    BY <2>1, <1>1, <1>5 DEF SearchTypeOK
  <2>2. CASE \E m \in Improved(e) : x = Entry(m, Through(e, m), goal)
    <3>1. PICK m \in Improved(e) : x = Entry(m, Through(e, m), goal)
      BY <2>2
    <3>2. goal \in Node
      BY <1>1 DEF SearchInv, Started
    <3>3. m \in Node /\ m \in Seen' /\ Through(e, m) \in Nat
      BY <1>4, <1>5
    <3>4. Estimate[m][goal] \in Nat
      BY <3>2, <3>3
    <3>5. Through(e, m) + Estimate[m][goal] \in Nat
      BY <3>3, <3>4
    <3> QED
      BY <3>1, <3>3, <3>5 DEF Entry
  <2> QED
    BY <2>1, <2>2 DEF Expand
<1>9. Seen' \subseteq Node
  BY <1>1, <1>4, <1>5 DEF SearchTypeOK
<1>10. SearchTypeOK'
  BY <1>1, <1>5, <1>7, <1>8, <1>9 DEF SearchTypeOK, Expand
<1> QED
  BY <1>10, <1>2, <1>3, <1>4, <1>5, <1>6

----------------------------------------------------------------------------
(* Relaxing keeps the heap sound and the frontier closed.                  *)
LEMMA ExpandKeeps ==
    ASSUME SearchInv, NEW e \in heap, Expand(e)
    PROVE  SearchInv'
<1> USE SearchAssumption
<1>1. /\ SearchTypeOK /\ Started /\ HeapSound /\ Frontier
      /\ search = "searching" /\ goal \in Node
  BY DEF SearchInv, Expand, Popped, Started
<1>2. /\ SearchTypeOK'
      /\ e.node \in Seen /\ e.g \in Nat /\ e.g = gScore[e.node]
      /\ Seen' = Seen \cup Improved(e)
      /\ \A m \in Seen' : gScore'[m] =
            IF m \in Improved(e) THEN e.g + Km[<<e.node, m>>] ELSE gScore[m]
      /\ \A m \in Seen : gScore'[m] <= gScore[m]
  BY ExpandTypes
<1>3. /\ search' = "searching" /\ start' = start /\ goal' = goal
      /\ e.node # goal /\ total' = total /\ graph' = graph /\ graph \subseteq Road
      /\ heap' = (heap \ {e}) \cup {Entry(m, Through(e, m), goal) : m \in Improved(e)}
  BY <1>1 DEF Expand, SearchTypeOK
<1>4. \A m \in Improved(e) :
         m \in Node /\ <<e.node, m>> \in Road /\ Km[<<e.node, m>>] \in Nat
         /\ (m \in Seen => e.g + Km[<<e.node, m>>] < gScore[m])
  BY <1>1 DEF Improved, SearchTypeOK
<1>5. /\ \A m \in Seen : m \in Node /\ gScore[m] \in Nat
      /\ \A m \in Seen' : m \in Node /\ gScore'[m] \in Nat
  BY <1>1, <1>2 DEF SearchTypeOK
<1>6. start \notin Improved(e)
  <2> SUFFICES ASSUME start \in Improved(e) PROVE FALSE
    OBVIOUS
  <2>1. start \in Seen /\ gScore[start] = 0
    BY <1>1 DEF Started
  <2>2. e.g + Km[<<e.node, start>>] < 0 /\ Km[<<e.node, start>>] \in Nat
    BY <2>1, <1>4
  <2> QED
    BY <2>2, <1>2
<1>7. Started'
  BY <1>1, <1>2, <1>3, <1>6 DEF Started
<1>8. HeapSound'
  <2> SUFFICES ASSUME NEW x \in heap'
               PROVE  /\ x.node \in Seen'
                      /\ x.f = x.g + Estimate[x.node][goal]
                      /\ x.g >= gScore'[x.node]
    BY <1>3 DEF HeapSound
  <2>1. CASE x \in heap
    <3>1. x.node \in Seen /\ x.f = x.g + Estimate[x.node][goal] /\ x.g >= gScore[x.node]
      BY <2>1, <1>1 DEF HeapSound
    <3>2. x.g \in Nat
      BY <2>1, <1>1 DEF SearchTypeOK
    <3>3. gScore'[x.node] <= gScore[x.node] /\ gScore[x.node] \in Nat
          /\ gScore'[x.node] \in Nat
      BY <3>1, <1>2, <1>5
    <3> QED
      BY <3>1, <3>2, <3>3, <1>2
  <2>2. CASE \E m \in Improved(e) : x = Entry(m, Through(e, m), goal)
    <3>1. PICK m \in Improved(e) : x = Entry(m, Through(e, m), goal)
      BY <2>2
    <3>2. x.node = m /\ x.g = Through(e, m) /\ x.f = Through(e, m) + Estimate[m][goal]
      BY <3>1 DEF Entry
    <3>3. m \in Seen' /\ gScore'[m] = Through(e, m) /\ Through(e, m) \in Nat
      BY <1>2, <1>4 DEF Through
    <3> QED
      BY <3>2, <3>3
  <2> QED
    BY <2>1, <2>2, <1>3
<1>9. Frontier'
  <2> SUFFICES ASSUME NEW n \in Seen'
               PROVE  Waiting(n)' \/ (n # goal /\ Expanded(n)')
    BY <1>3 DEF Frontier
  <2>1. CASE n \in Improved(e)
    <3>1. gScore'[n] = Through(e, n)
      BY <2>1, <1>2 DEF Through
    <3>2. Entry(n, Through(e, n), goal) \in heap'
      BY <2>1, <1>3
    <3> QED
      BY <3>1, <3>2, <1>3 DEF Waiting, Entry
  <2>2. CASE n \notin Improved(e) /\ n = e.node
    <3>1. gScore'[n] = gScore[n] /\ n \in Seen
      BY <2>2, <1>2
    <3>2. ASSUME NEW m \in Node, <<n, m>> \in graph
          PROVE  m \in Seen' /\ gScore'[m] <= gScore'[n] + Km[<<n, m>>]
      <4>1. Km[<<n, m>>] \in Nat
        BY <1>3, <3>2
      <4>2. CASE m \in Improved(e)
        BY <4>1, <4>2, <3>1, <2>2, <1>2, <1>5
      <4>3. CASE m \notin Improved(e)
        <5>1. m \in Seen /\ ~(e.g + Km[<<n, m>>] < gScore[m])
          BY <4>3, <3>2, <2>2 DEF Improved
        <5>2. gScore'[m] = gScore[m] /\ gScore[m] \in Nat
          BY <5>1, <4>3, <1>2, <1>5
        <5> QED
          BY <5>1, <5>2, <4>1, <3>1, <2>2, <1>2
      <4> QED
        BY <4>2, <4>3
    <3>3. Expanded(n)'
      BY <1>3, <3>2 DEF Expanded
    <3> QED
      BY <3>3, <2>2, <1>3
  <2>3. CASE n \notin Improved(e) /\ n # e.node
    <3>1. n \in Seen /\ gScore'[n] = gScore[n]
      BY <2>3, <1>2
    <3>2. CASE Waiting(n)
      <4>1. Entry(n, gScore[n], goal) \in heap /\ Entry(n, gScore[n], goal).node = n
        BY <3>2 DEF Waiting, Entry
      <4>2. Entry(n, gScore[n], goal) \in heap'
        BY <4>1, <2>3, <1>3
      <4> QED
        BY <4>2, <3>1, <1>3 DEF Waiting, Entry
    <3>3. CASE n # goal /\ Expanded(n)
      <4>1. ASSUME NEW m \in Node, <<n, m>> \in graph
            PROVE  m \in Seen' /\ gScore'[m] <= gScore'[n] + Km[<<n, m>>]
        <5>1. m \in Seen /\ gScore[m] <= gScore[n] + Km[<<n, m>>]
          BY <4>1, <3>3 DEF Expanded
        <5>2. gScore'[m] <= gScore[m] /\ gScore[m] \in Nat /\ gScore'[m] \in Nat
              /\ gScore[n] \in Nat /\ Km[<<n, m>>] \in Nat /\ m \in Seen'
          BY <5>1, <4>1, <3>1, <1>2, <1>3, <1>5
        <5> QED
          BY <5>1, <5>2, <3>1
      <4>2. Expanded(n)'
        BY <1>3, <4>1 DEF Expanded
      <4> QED
        BY <4>2, <3>3, <1>3
    <3> QED
      BY <3>1, <3>2, <3>3, <1>1 DEF Frontier
  <2> QED
    BY <2>1, <2>2, <2>3
<1>10. Fair' => FarEnough'
  <2> SUFFICES ASSUME Fair', NEW n \in Seen'
               PROVE  gScore'[n] + Estimate[n][goal] >= Estimate[start][goal]
    BY <1>3 DEF FarEnough
  <2>1. ConsistentFor(goal)
    BY <1>3 DEF Fair, ConsistentFor
  <2>2. FarEnough
    BY <2>1, <1>1 DEF SearchInv, Fair
  <2>3. CASE n \in Improved(e)
    <3>1. gScore[e.node] + Estimate[e.node][goal] >= Estimate[start][goal]
      BY <2>2, <1>2 DEF FarEnough
    <3>2. Estimate[e.node][goal] <= Km[<<e.node, n>>] + Estimate[n][goal]
      BY <2>1, <2>3, <1>2, <1>4, <1>5 DEF ConsistentFor
    <3>3. gScore'[n] = e.g + Km[<<e.node, n>>] /\ Km[<<e.node, n>>] \in Nat
      BY <2>3, <1>2, <1>4
    <3>4. Estimate[e.node][goal] \in Nat /\ Estimate[n][goal] \in Nat
          /\ Estimate[start][goal] \in Nat
      BY <1>1, <1>2, <1>5 DEF Started
    <3> QED
      BY <3>1, <3>2, <3>3, <3>4, <1>2
  <2>4. CASE n \notin Improved(e)
    BY <2>2, <2>4, <1>2 DEF FarEnough
  <2> QED
    BY <2>3, <2>4
<1>11. NoShorterRoute'
  BY <1>3 DEF NoShorterRoute
<1> QED
  BY <1>2, <1>3, <1>7, <1>8, <1>9, <1>10, <1>11 DEF SearchInv

(* A stale entry is no node's score, so dropping it opens no gap.          *)
LEMMA SkipKeeps ==
    ASSUME SearchInv, NEW e \in heap, SkipStale(e)
    PROVE  SearchInv'
<1> USE SearchAssumption
<1>1. /\ search = "searching" /\ heap' = heap \ {e} /\ e.g > gScore[e.node]
      /\ UNCHANGED <<graph, search, start, goal, gScore, cameFrom, total>>
  BY DEF SkipStale, Popped
<1>2. Seen' = Seen
  BY <1>1 DEF Seen
<1>3. SearchTypeOK /\ Started /\ HeapSound /\ Frontier
  BY <1>1 DEF SearchInv
<1>4. SearchTypeOK' /\ Started' /\ HeapSound'
  BY <1>1, <1>2, <1>3 DEF SearchTypeOK, Started, HeapSound
<1>5. Frontier'
  <2> SUFFICES ASSUME NEW n \in Seen
               PROVE  Waiting(n)' \/ (n # goal /\ Expanded(n)')
    BY <1>1, <1>2 DEF Frontier
  <2>1. CASE Waiting(n)
    <3>1. gScore[n] \in Nat
      BY <1>3 DEF SearchTypeOK
    <3>2. Entry(n, gScore[n], goal) # e
      BY <3>1, <1>1, <1>3 DEF Entry
    <3> QED
      BY <2>1, <3>2, <1>1 DEF Waiting, Entry
  <2>2. CASE n # goal /\ Expanded(n)
    BY <2>2, <1>1, <1>2 DEF Expanded
  <2> QED
    BY <2>1, <2>2, <1>3 DEF Frontier
<1>6. Fair' => FarEnough'
  BY <1>1, <1>2 DEF SearchInv, Fair, FarEnough, ConsistentFor
<1> QED
  BY <1>1, <1>4, <1>5, <1>6 DEF SearchInv, NoShorterRoute

----------------------------------------------------------------------------
(* The heart of the matter: when the goal comes out of the heap, the       *)
(* scores cut off at the returned distance certify it.                     *)
LEMMA ArriveKeeps ==
    ASSUME SearchInv, NEW e \in heap, Arrive(e)
    PROVE  SearchInv'
<1> USE SearchAssumption
<1>1. /\ search = "searching" /\ search' = "found" /\ e.node = goal /\ total' = e.g
      /\ \A other \in heap : e.f <= other.f
      /\ heap' = heap \ {e}
      /\ UNCHANGED <<graph, start, goal, gScore, cameFrom>>
  BY DEF Arrive, Popped, Least
<1>2. Seen' = Seen
  BY <1>1 DEF Seen
<1>3. SearchTypeOK /\ Started /\ HeapSound /\ Frontier
  BY <1>1 DEF SearchInv
<1>4. e.g \in Nat /\ e.f = e.g /\ goal \in Node /\ goal \in Seen
  BY <1>1, <1>3 DEF SearchTypeOK, HeapSound, Started
<1>5. SearchTypeOK'
  BY <1>1, <1>2, <1>3, <1>4 DEF SearchTypeOK
<1>6. /\ \A n \in Seen : n \in Node /\ gScore[n] \in Nat
      /\ \A n \in Node : Estimate[n][goal] \in Nat
      /\ start \in Node
  BY <1>3, <1>4 DEF SearchTypeOK, Started
<1>7. ASSUME ConsistentFor(goal)
      PROVE  /\ Bound(start)' = 0
             /\ Bound(goal)' = total'
             /\ \A n, m \in Node : <<n, m>> \in graph => Bound(m)' <= Bound(n)' + Km[<<n, m>>]
  <2> DEFINE B(n) == IF n \in Seen /\ gScore[n] + Estimate[n][goal] <= e.g
                       THEN gScore[n] ELSE e.g - Estimate[n][goal]
  <2>1. \A n \in Node : Bound(n)' = B(n)
    BY <1>1, <1>2 DEF Bound
  <2>2. FarEnough
    BY <1>1, <1>7 DEF SearchInv, Fair
  <2>3. gScore[goal] = e.g
    <3>1. Waiting(goal)
      BY <1>3, <1>4 DEF Frontier
    <3>2. e.f <= Entry(goal, gScore[goal], goal).f
      BY <3>1, <1>1 DEF Waiting
    <3>3. Entry(goal, gScore[goal], goal).f = gScore[goal]
      BY <1>4, <1>6 DEF Entry
    <3>4. e.g >= gScore[goal]
      BY <1>1, <1>3 DEF HeapSound
    <3>5. e.g <= gScore[goal]
      BY <3>2, <3>3, <1>4
    <3> QED
      BY <3>4, <3>5, <1>4, <1>6, Antisymmetry
  <2>4. B(goal) = e.g
    <3>1. Estimate[goal][goal] = 0
      BY <1>4
    <3> QED
      BY <2>3, <3>1, <1>4
  <2>5. B(start) = 0
    <3>1. e.g >= Estimate[start][goal]
      BY <2>2, <2>3, <1>4, <1>6 DEF FarEnough
    <3>2. gScore[start] = 0 /\ start \in Seen /\ Estimate[start][goal] \in Nat
      BY <1>3, <1>6 DEF Started
    <3> QED
      BY <3>1, <3>2, <1>4
  <2>6. ASSUME NEW n \in Node, NEW m \in Node, <<n, m>> \in graph
        PROVE  B(m) <= B(n) + Km[<<n, m>>]
    <3>1. /\ Estimate[n][goal] <= Km[<<n, m>>] + Estimate[m][goal]
          /\ Km[<<n, m>>] \in Nat /\ Estimate[n][goal] \in Nat /\ Estimate[m][goal] \in Nat
      BY <2>6, <1>3, <1>6, <1>7 DEF ConsistentFor, SearchTypeOK
    <3>2. B(m) <= e.g - Estimate[m][goal] /\ B(m) \in Int
      BY <3>1, <1>4, <1>6
    <3>3. CASE ~(n \in Seen /\ gScore[n] + Estimate[n][goal] <= e.g)
      <4>1. B(n) = e.g - Estimate[n][goal]
        BY <3>3
      <4> QED
        BY <4>1, <3>1, <3>2, <1>4
    <3>4. CASE n \in Seen /\ gScore[n] + Estimate[n][goal] <= e.g
      <4>1. B(n) = gScore[n] /\ gScore[n] \in Nat
        BY <3>4, <1>6
      <4>2. CASE Waiting(n)
        <5>1. e.f <= Entry(n, gScore[n], goal).f
          BY <4>2, <1>1 DEF Waiting
        <5>2. e.g <= gScore[n] + Estimate[n][goal]
          BY <5>1, <1>4 DEF Entry
        <5> QED
          BY <5>2, <4>1, <3>1, <3>2, <3>4, <1>4
      <4>3. CASE Expanded(n)
        <5>1. m \in Seen /\ gScore[m] <= gScore[n] + Km[<<n, m>>] /\ gScore[m] \in Nat
          BY <4>3, <2>6, <1>6 DEF Expanded
        <5>2. B(m) <= gScore[m]
          BY <5>1, <3>1, <1>4
        <5> QED
          BY <5>1, <5>2, <4>1, <3>1, <3>2
      <4> QED
        BY <4>2, <4>3, <3>4, <1>3 DEF Frontier
    <3> QED
      BY <3>3, <3>4
  <2> QED
    <3>1. Bound(start)' = B(start) /\ Bound(goal)' = B(goal)
      BY <1>1, <1>2 DEF Bound
    <3> QED
      BY <3>1, <2>1, <2>4, <2>5, <2>6, <1>1
<1>8. NoShorterRoute'
  BY <1>1, <1>7 DEF NoShorterRoute, ConsistentFor
<1> QED
  BY <1>1, <1>5, <1>8 DEF SearchInv, Fair

(* Ending a search leaves nothing to show.                                 *)
LEMMA EndKeeps ==
    ASSUME SearchInv, Exhausted \/ Abandon
    PROVE  SearchInv'
<1>1. /\ search' \in {"none", "idle"}
      /\ UNCHANGED <<graph, start, goal, heap, gScore, cameFrom, total>>
  BY DEF Exhausted, Abandon
<1>2. Seen' = Seen
  BY <1>1 DEF Seen
<1>3. SearchTypeOK'
  BY <1>1, <1>2 DEF SearchInv, SearchTypeOK
<1> QED
  BY <1>1, <1>3 DEF SearchInv, Fair, NoShorterRoute

(* Roads are loaded between the searches.                                  *)
LEMMA LoadKeeps ==
    ASSUME SearchInv, NEW roads \in SUBSET Road, Load(roads)
    PROVE  SearchInv'
<1>1. /\ search' = "idle" /\ graph' = graph \cup roads
      /\ UNCHANGED <<start, goal, heap, gScore, cameFrom, total>>
  BY DEF Load
<1>2. Seen' = Seen
  BY <1>1 DEF Seen
<1>3. SearchTypeOK'
  BY <1>1, <1>2 DEF SearchInv, SearchTypeOK
<1> QED
  BY <1>1, <1>3 DEF SearchInv, Fair, NoShorterRoute

----------------------------------------------------------------------------
(* Nothing is searched at first.                                           *)
LEMMA SearchInitKeeps == SearchInit => SearchInv
<1> SUFFICES ASSUME SearchInit PROVE SearchInv
  OBVIOUS
<1>1. Seen = {} /\ heap = {} /\ search = "idle"
  BY DEF SearchInit, Seen
<1>2. gScore \in [{} -> Nat] /\ cameFrom \in [{} -> Node \cup {NoNode}]
  BY DEF SearchInit
<1>3. SearchTypeOK
  BY <1>1, <1>2 DEF SearchInit, SearchTypeOK
<1> QED
  BY <1>1, <1>3 DEF SearchInv, Fair, NoShorterRoute

(* Every step of a search keeps the invariant.                             *)
LEMMA SearchStepKeeps == SearchInv /\ [SearchNext]_searchVars => SearchInv'
<1> SUFFICES ASSUME SearchInv, [SearchNext]_searchVars PROVE SearchInv'
  OBVIOUS
<1>1. CASE Exhausted \/ Abandon
  BY <1>1, EndKeeps
<1>2. ASSUME NEW e \in heap, Arrive(e) PROVE SearchInv'
  BY <1>2, ArriveKeeps
<1>3. ASSUME NEW e \in heap, SkipStale(e) PROVE SearchInv'
  BY <1>3, SkipKeeps
<1>4. ASSUME NEW e \in heap, Expand(e) PROVE SearchInv'
  BY <1>4, ExpandKeeps
<1>5. ASSUME NEW s \in Node, NEW t \in Node, BeginSearch(s, t) PROVE SearchInv'
  BY <1>5, BeginKeeps
<1>6. ASSUME NEW roads \in SUBSET Road, Load(roads) PROVE SearchInv'
  BY <1>6, LoadKeeps
<1>7. CASE UNCHANGED searchVars
  <2>1. Seen' = Seen
    BY <1>7 DEF searchVars, Seen
  <2>2. SearchTypeOK'
    BY <1>7, <2>1 DEF searchVars, SearchInv, SearchTypeOK
  <2>3. search' = "searching" => Started' /\ HeapSound' /\ Frontier'
    BY <1>7, <2>1 DEF searchVars, SearchInv, Started, HeapSound, Frontier, Waiting,
                      Entry, Expanded
  <2>4. (Fair' => FarEnough') /\ NoShorterRoute'
    BY <1>7, <2>1 DEF searchVars, SearchInv, Fair, FarEnough, NoShorterRoute,
                      ConsistentFor, Bound
  <2> QED
    BY <2>2, <2>3, <2>4 DEF SearchInv
<1> QED
  BY <1>1, <1>2, <1>3, <1>4, <1>5, <1>6, <1>7 DEF SearchNext, SearchStep

(* The invariant holds of every search.                                    *)
LEMMA SearchInvariant == SearchSpec => []SearchInv
  BY SearchInitKeeps, SearchStepKeeps, PTL DEF SearchSpec

(* Type correctness of the search.                                         *)
THEOREM SearchTypes == SearchSpec => []SearchTypeOK
<1>1. SearchInv => SearchTypeOK
  BY DEF SearchInv
<1> QED
  BY <1>1, SearchInvariant, PTL

(* The distance astar returns is the shortest between start and goal, on   *)
(* any network whose estimate is consistent for the goal.                  *)
THEOREM RoutesAreShortest == SearchSpec => []NoShorterRoute
<1>1. SearchInv => NoShorterRoute
  BY DEF SearchInv
<1> QED
  BY <1>1, SearchInvariant, PTL

----------------------------------------------------------------------------
(* What the search leaves behind *)

(* came_from leads back: to every node but the start a loaded road comes   *)
(* from the node it names, and the score makes room for its length.          *)
LeadsBack ==
    \A n \in Seen \ {start} :
        /\ cameFrom[n] \in Seen
        /\ <<cameFrom[n], n>> \in graph
        /\ gScore[cameFrom[n]] + Km[<<cameFrom[n], n>>] <= gScore[n]

(* No road leads out of what was seen, and the goal was not seen.          *)
CutOff ==
    /\ start \in Seen /\ goal \notin Seen
    /\ \A n \in Seen, m \in Node : <<n, m>> \in graph => m \in Seen

Certified ==
    /\ search = "found" => goal \in Seen /\ total = gScore[goal] /\ LeadsBack
    /\ search = "none" => CutOff

CertifiedInv ==
    /\ SearchInv
    /\ search = "searching" => LeadsBack
    /\ Certified

(* An improved node comes from the entry that was popped; the scores of    *)
(* the others are as before, and the popped entry's own stays.             *)
LEMMA ExpandLeadsBack ==
    ASSUME CertifiedInv, NEW e \in heap, Expand(e)
    PROVE  LeadsBack'
<1> USE SearchAssumption
<1>1. /\ SearchTypeOK /\ LeadsBack /\ SearchInv /\ start' = start /\ Started
      /\ graph' = graph /\ graph \subseteq Road
  BY DEF CertifiedInv, SearchInv, SearchTypeOK, Expand, Popped
<1>2. /\ e.node \in Seen /\ e.g \in Nat /\ e.g = gScore[e.node]
      /\ Seen' = Seen \cup Improved(e)
      /\ \A m \in Seen' : gScore'[m] =
            IF m \in Improved(e) THEN e.g + Km[<<e.node, m>>] ELSE gScore[m]
      /\ \A m \in Seen : gScore'[m] <= gScore[m]
  BY <1>1, ExpandTypes
<1>3. SearchTypeOK'
  BY <1>1, ExpandTypes
<1>4. \A m \in Seen' : cameFrom'[m] = IF m \in Improved(e) THEN e.node ELSE cameFrom[m]
  BY <1>2 DEF Expand
<1>5. /\ \A m \in Seen : gScore[m] \in Nat
      /\ \A m \in Seen' : gScore'[m] \in Nat
  BY <1>1, <1>3 DEF SearchTypeOK
<1> SUFFICES ASSUME NEW n \in Seen' \ {start}
             PROVE  /\ cameFrom'[n] \in Seen'
                    /\ <<cameFrom'[n], n>> \in graph
                    /\ gScore'[cameFrom'[n]] + Km[<<cameFrom'[n], n>>] <= gScore'[n]
  BY <1>1 DEF LeadsBack
<1>6. CASE n \in Improved(e)
  <2>1. <<e.node, n>> \in graph /\ Km[<<e.node, n>>] \in Nat
    BY <1>1, <1>6 DEF Improved
  <2>2. cameFrom'[n] = e.node /\ gScore'[n] = e.g + Km[<<e.node, n>>]
    BY <1>2, <1>4, <1>6
  <2>3. gScore'[e.node] <= e.g /\ gScore'[e.node] \in Nat /\ e.node \in Seen'
    BY <1>2, <1>5
  <2>4. QED
    BY <1>2, <2>1, <2>2, <2>3
<1>7. CASE n \notin Improved(e)
  <2> DEFINE p == cameFrom[n]
  <2>1. n \in Seen \ {start}
    BY <1>2, <1>7
  <2>2. p \in Seen /\ <<p, n>> \in graph /\ gScore[p] + Km[<<p, n>>] <= gScore[n]
    BY <1>1, <2>1 DEF LeadsBack
  <2>3. cameFrom'[n] = p /\ gScore'[n] = gScore[n]
    BY <1>2, <1>4, <1>7, <2>1
  <2>4. gScore'[p] <= gScore[p] /\ gScore'[p] \in Nat /\ gScore[p] \in Nat /\ p \in Seen'
    BY <1>2, <1>5, <2>2
  <2>5. Km[<<p, n>>] \in Nat /\ gScore[n] \in Nat
    BY <1>1, <1>5, <2>1, <2>2
  <2> HIDE DEF p
  <2>6. QED
    BY <2>2, <2>3, <2>4, <2>5
<1>8. QED
  BY <1>6, <1>7

(* A search that ran dry has expanded all that it saw.                     *)
LEMMA DryIsCutOff ==
    ASSUME SearchInv, Exhausted
    PROVE  CutOff'
<1>1. /\ Started /\ Frontier /\ heap = {}
      /\ UNCHANGED <<graph, start, goal, gScore>>
  BY DEF SearchInv, Exhausted
<1>2. Seen' = Seen
  BY <1>1 DEF Seen
<1>3. \A n \in Seen : n # goal /\ Expanded(n)
  BY <1>1 DEF Frontier, Waiting
<1>4. QED
  BY <1>1, <1>2, <1>3 DEF CutOff, Started, Expanded

(* The entry that ends a search has the goal's score.                      *)
LEMMA ArriveAtScore ==
    ASSUME SearchInv, NEW e \in heap, Arrive(e)
    PROVE  goal \in Seen /\ e.g = gScore[goal]
<1> USE SearchAssumption
<1>1. /\ SearchTypeOK /\ Started /\ HeapSound /\ Frontier
      /\ e.node = goal /\ \A other \in heap : e.f <= other.f
  BY DEF SearchInv, Arrive, Popped, Least
<1>2. /\ goal \in Seen /\ goal \in Node /\ e.g \in Nat /\ gScore[goal] \in Nat
      /\ e.f = e.g + Estimate[goal][goal] /\ Estimate[goal][goal] = 0
      /\ e.g >= gScore[goal]
  BY <1>1 DEF SearchTypeOK, HeapSound, Started
<1>3. Entry(goal, gScore[goal], goal) \in heap
  BY <1>1, <1>2 DEF Frontier, Waiting
<1>4. e.f <= Entry(goal, gScore[goal], goal).f
  BY <1>1, <1>3
<1>5. e.g <= gScore[goal]
  BY <1>2, <1>4 DEF Entry
<1>6. QED
  BY <1>2, <1>5, Antisymmetry

(* Every step keeps the certificates.                                      *)
LEMMA StepKeepsCertified == CertifiedInv /\ [SearchNext]_searchVars => CertifiedInv'
<1> SUFFICES ASSUME CertifiedInv, [SearchNext]_searchVars, SearchInv' PROVE CertifiedInv'
  BY SearchStepKeeps DEF CertifiedInv
<1>1. CASE Exhausted
  BY <1>1, DryIsCutOff DEF CertifiedInv, Certified, Exhausted
<1>2. CASE Abandon
  BY <1>2 DEF CertifiedInv, Certified, Abandon
<1>3. ASSUME NEW e \in heap, Arrive(e) PROVE CertifiedInv'
  <2>1. /\ search' = "found" /\ search = "searching" /\ total' = e.g
        /\ UNCHANGED <<graph, start, goal, gScore, cameFrom>>
    BY <1>3 DEF Arrive, Popped
  <2>2. Seen' = Seen
    BY <2>1 DEF Seen
  <2>3. LeadsBack'
    BY <2>1, <2>2 DEF LeadsBack, CertifiedInv
  <2>4. goal \in Seen /\ e.g = gScore[goal]
    BY <1>3, ArriveAtScore DEF CertifiedInv
  <2>5. QED
    BY <2>1, <2>2, <2>3, <2>4 DEF CertifiedInv, Certified
<1>4. ASSUME NEW e \in heap, SkipStale(e) PROVE CertifiedInv'
  <2>1. search = "searching" /\ UNCHANGED <<graph, search, start, goal, gScore, cameFrom, total>>
    BY <1>4 DEF SkipStale, Popped
  <2>2. Seen' = Seen
    BY <2>1 DEF Seen
  <2>3. QED
    BY <2>1, <2>2 DEF CertifiedInv, Certified, LeadsBack
<1>5. ASSUME NEW e \in heap, Expand(e) PROVE CertifiedInv'
  BY <1>5, ExpandLeadsBack DEF CertifiedInv, Certified, Expand, Popped
<1>6. ASSUME NEW s \in Node, NEW t \in Node, BeginSearch(s, t) PROVE CertifiedInv'
  BY <1>6 DEF BeginSearch, CertifiedInv, Certified, LeadsBack, Seen
<1>7. CASE UNCHANGED searchVars
  <2>1. UNCHANGED searchVars
    BY <1>7
  <2>2. Seen' = Seen
    BY <2>1 DEF Seen, searchVars
  <2>3. QED
    BY <2>1, <2>2 DEF CertifiedInv, Certified, LeadsBack, CutOff, searchVars
<1>8. ASSUME NEW roads \in SUBSET Road, Load(roads) PROVE CertifiedInv'
  BY <1>8 DEF CertifiedInv, Certified, Load
<1>9. QED
  BY <1>1, <1>2, <1>3, <1>4, <1>5, <1>6, <1>7, <1>8 DEF SearchNext, SearchStep

(* The answer of a search can be checked without it: a route leads back    *)
(* along roads to the start within the distance returned, and when none is *)
(* found no road leaves what was seen from the start.                      *)
THEOREM AnswersAreCertified == SearchSpec => []Certified
<1>1. SearchInit => CertifiedInv
  BY SearchInitKeeps DEF SearchInit, CertifiedInv, Certified
<1>2. CertifiedInv /\ [SearchNext]_searchVars => CertifiedInv'
  BY StepKeepsCertified
<1>3. CertifiedInv => Certified
  BY DEF CertifiedInv
<1>4. QED
  BY <1>1, <1>2, <1>3, PTL DEF SearchSpec

----------------------------------------------------------------------------
(* Plans: the searches of Planning *)

(* An open plan has a region left to plan a leg in.                        *)
OnTheWay ==
    /\ regionSequence \in Seq(Region)
    /\ legs \in Seq(ToSet(legs))
    /\ outcome = "none" => legs = <<>>
    /\ outcome = "open" => Len(legs) < Len(regionSequence)

(* One leg more.                                                           *)
LEMMA LegAdded ==
    ASSUME legs \in Seq(ToSet(legs)), NEW path, AddLeg(path)
    PROVE  /\ legs' \in Seq(ToSet(legs'))
           /\ Len(legs') = Len(legs) + 1 /\ Len(legs) \in Nat
           /\ \A i \in 1 .. Len(legs) : legs'[i] = legs[i]
           /\ legs'[Len(legs) + 1] = path
<1> DEFINE S == ToSet(legs) \cup {path}
<1>1. legs' = Append(legs, path)
  BY DEF AddLeg
<1>2. legs \in Seq(S) /\ path \in S
  <2>1. \A i \in 1 .. Len(legs) : legs[i] \in S
    BY ElementOfSeq
  <2>2. legs = [i \in 1 .. Len(legs) |-> legs[i]] /\ Len(legs) \in Nat
    BY LenProperties
  <2> HIDE DEF S
  <2>3. legs \in Seq(S)
    BY <2>1, <2>2, SeqDef
  <2>4. QED
    BY <2>3 DEF S
<1> HIDE DEF S
<1>3. /\ legs' \in Seq(S) /\ Len(legs') = Len(legs) + 1 /\ Len(legs) \in Nat
      /\ \A i \in 1 .. Len(legs) : legs'[i] = legs[i]
      /\ legs'[Len(legs) + 1] = path
  BY <1>1, <1>2, AppendProperties, LenProperties
<1>4. Len(legs') \in Nat /\ DOMAIN legs' = 1 .. Len(legs')
  BY <1>3, LenProperties
<1>5. \A i \in 1 .. Len(legs') : legs'[i] \in ToSet(legs')
  BY <1>4 DEF ToSet
<1>6. legs' = [i \in 1 .. Len(legs') |-> legs'[i]]
  BY <1>3, LenProperties
<1>7. legs' \in Seq(ToSet(legs'))
  <2> DEFINE T == ToSet(legs')
  <2> HIDE DEF T
  <2>1. \A i \in 1 .. Len(legs') : legs'[i] \in T
    BY <1>5 DEF T
  <2>2. legs' \in Seq(T)
    BY <1>4, <1>6, <2>1, SeqDef
  <2>3. QED
    BY <2>2 DEF T
<1>8. QED
  BY <1>3, <1>7

(* The overlay's plan of regions is a list of regions, empty when there is *)
(* no corridor.                                                            *)
LEMMA PathsAreLists ==
    ASSUME NEW a, NEW b, NEW p \in OverlayShortestPaths(a, b)
    PROVE  /\ p \in Seq(Region)
           /\ p # <<>> => 0 < Len(p)
<1>1. CASE p = <<>>
  BY <1>1, EmptySeq
<1>2. CASE p # <<>>
  <2>1. p \in OverlayPaths(a, b)
    BY <1>2 DEF OverlayShortestPaths
  <2>2. PICK k \in 1 .. Cardinality(Region) : p \in [1 .. k -> Region]
    BY <2>1 DEF OverlayPaths
  <2>3. k \in Nat \ {0}
    <3>1. Cardinality(Region) \in Nat
      BY PlanningAssumption, FS_CardinalityType
    <3>2. QED
      BY <3>1
  <2>4. p \in Seq(Region) /\ Len(p) = k
    BY <2>2, <2>3, SeqDef, LenProperties
  <2>5. QED
    BY <2>3, <2>4
<1>3. QED
  BY <1>1, <1>2

(* Every step leaves a region for every open plan.                         *)
LEMMA StepKeepsWay == OnTheWay /\ [Next]_vars => OnTheWay'
<1> SUFFICES ASSUME OnTheWay, [Next]_vars PROVE OnTheWay'
  OBVIOUS
<1>1. ASSUME NEW o \in Node, NEW d \in Node, Plan(o, d) PROVE OnTheWay'
  <2>1. PICK p \in OverlayShortestPaths(RegionOf(o), RegionOf(d)) :
          /\ regionSequence' = p
          /\ outcome' \in IF p = <<>> THEN {"no_corridor", "not_geocoded"}
                                      ELSE {"open", "not_geocoded"}
    BY <1>1 DEF Plan
  <2>2. legs' = legs /\ legs = <<>> /\ Len(<<>>) = 0
    BY <1>1, EmptySeq DEF Plan, OnTheWay
  <2>3. outcome' # "none" /\ (outcome' = "open" => p # <<>>)
    BY <2>1
  <2>4. QED
    BY <2>1, <2>2, <2>3, PathsAreLists DEF OnTheWay
<1>2. ASSUME NEW path, outcome = "open", AddLeg(path) PROVE OnTheWay'
  <2>1. /\ legs' \in Seq(ToSet(legs'))
        /\ Len(legs') = Len(legs) + 1 /\ Len(legs) \in Nat
    BY <1>2, LegAdded DEF OnTheWay
  <2>2. regionSequence' = regionSequence /\ Len(regionSequence) \in Nat
    BY <1>2, LenProperties DEF AddLeg, OnTheWay
  <2>3. outcome' \in {"planned", "open"}
        /\ (outcome' = "open" => Len(legs) + 1 # Len(regionSequence))
    BY <1>2 DEF AddLeg, LastLeg, Index
  <2>4. Len(legs) < Len(regionSequence)
    BY <1>2 DEF OnTheWay
  <2>5. QED
    BY <2>1, <2>2, <2>3, <2>4 DEF OnTheWay
<1>3. ASSUME NEW how \in {"unknown_place", "no_route"}, Fail(how) PROVE OnTheWay'
  BY <1>3 DEF Fail, OnTheWay
<1>4. CASE CallFails \/ CallRefused
  BY <1>4 DEF CallFails, CallRefused, OnTheWay
<1>5. CASE CallRoute \/ Search \/ (\E a \in Region : Reload(a)) \/ UNCHANGED vars
  BY <1>5 DEF CallRoute, Search, Reload, vars, planVars, OnTheWay
<1>6. QED
  BY <1>1, <1>2, <1>3, <1>4, <1>5 DEF Next, Handle, CallUnknown, CallSameNode, LegFound,
     LegNotFound

(* A leg is asked for between two nodes of the region's graph.             *)
LEMMA LegsAreInGraph ==
    ASSUME OnTheWay, CallRoute
    PROVE  LegOrigin \in Node /\ LegDestination \in Node /\ LegOrigin # LegDestination
<1>1. Len(legs) \in Nat /\ Len(regionSequence) \in Nat /\ Len(legs) < Len(regionSequence)
  BY LenProperties DEF OnTheWay, CallRoute
<1>2. Index \in 1 .. Len(regionSequence)
  BY <1>1 DEF Index
<1>3. Here \in Region
  BY <1>2, ElementOfSeq DEF OnTheWay, Here
<1>4. PlacesOf[Here] \subseteq Node
  BY <1>3, PlanningAssumption
<1>5. QED
  BY <1>4 DEF CallRoute, Loaded

(* Whatever the plan does with it, the search sees one of its own steps.   *)
LEMMA PlanStepIsSearchStep == OnTheWay /\ [Next]_vars => [SearchNext]_searchVars
<1> SUFFICES ASSUME OnTheWay, [Next]_vars PROVE [SearchNext]_searchVars
  OBVIOUS
<1>1. CASE CallRoute
  <2>1. BeginSearch(LegOrigin, LegDestination)
    BY <1>1 DEF CallRoute
  <2>2. QED
    BY <1>1, <2>1, LegsAreInGraph DEF SearchNext
<1>2. CASE CallFails \/ CallRefused \/ LegFound \/ LegNotFound
  BY <1>2 DEF CallFails, CallRefused, LegFound, LegNotFound, SearchNext
<1>3. CASE Search
  BY <1>3 DEF Search, SearchNext
<1>4. CASE CallUnknown \/ CallSameNode \/ UNCHANGED vars
  BY <1>4 DEF CallUnknown, CallSameNode, vars
<1>5. ASSUME NEW o \in Node, NEW d \in Node, Plan(o, d) PROVE UNCHANGED searchVars
  BY <1>5 DEF Plan
<1>6. ASSUME NEW a \in Region, Reload(a) PROVE SearchNext
  <2>1. RoadsOf(a) \in SUBSET Road /\ Load(RoadsOf(a))
    BY <1>6 DEF Reload, RoadsOf
  <2>2. QED
    BY <2>1 DEF SearchNext
<1>7. QED
  BY <1>1, <1>2, <1>3, <1>4, <1>5, <1>6 DEF Next, Handle

(* Whatever calls fail, are retried or are refused around it, the search   *)
(* of a leg is a search of RouteSearch.                                    *)
LEMMA PlansSearch == Spec => SearchSpec
<1>1. Init => SearchInit /\ OnTheWay
  <2>1. ToSet(<<>>) = {} /\ <<>> \in Seq({}) /\ <<>> \in Seq(Region)
    BY EmptySeq, LenProperties DEF ToSet
  <2>2. QED
    BY <2>1 DEF Init, OnTheWay
<1>2. OnTheWay /\ [Next]_vars => OnTheWay' /\ [SearchNext]_searchVars
  BY StepKeepsWay, PlanStepIsSearchStep
<1>3. QED
  BY <1>1, <1>2, PTL DEF Spec, SearchSpec

(* Every leg that a plan takes over is the shortest over the roads that    *)
(* its service has loaded, on any network, any overlay and any division    *)
(* into regions whose estimate is consistent for the leg's destination.    *)
THEOREM PlannedLegsAreShortest == Spec => []NoShorterRoute
  BY PlansSearch, RoutesAreShortest, PTL

----------------------------------------------------------------------------
(* Induction over the natural numbers, without a predicate for a parameter *)

(* A set of natural numbers has a least element.                           *)
LEMMA LeastOf ==
    ASSUME NEW T, T \subseteq Nat, T # {}
    PROVE  \E n \in T : \A m \in T : n <= m
<1> DEFINE R == {p \in Nat \X Nat : p[1] < p[2]}
<1>1. IsWellFoundedOn(R, Nat)
  <2>1. OpToRel(<, Nat) = R
    BY DEF OpToRel
  <2> QED
    BY <2>1, NatLessThanWellFounded
<1>2. PICK n \in T : \A m \in T : ~(<<m, n>> \in R)
  <2> HIDE DEF R
  <2> QED
    BY <1>1, WFMin
<1>3. ASSUME NEW m \in T PROVE n <= m
  <2>1. m \in Nat /\ n \in Nat /\ <<m, n>> \in Nat \X Nat
    OBVIOUS
  <2>2. ~(m < n)
    BY <1>2, <2>1
  <2> QED
    BY <2>1, <2>2
<1> QED
  BY <1>3

(* Induction with a set in the place of a predicate: a set that has 0 and  *)
(* the successor of each of its numbers has them all.                      *)
LEMMA SetInduction ==
    ASSUME NEW T, 0 \in T, \A n \in Nat : n \in T => n + 1 \in T
    PROVE  Nat \subseteq T
<1> DEFINE U == Nat \ T
<1> SUFFICES ASSUME U # {} PROVE FALSE
  OBVIOUS
<1>1. PICK n \in U : \A m \in U : n <= m
  BY LeastOf
<1>2. n # 0 /\ n - 1 \in Nat /\ n - 1 \notin U
  BY <1>1
<1> QED
  BY <1>2

(* g has the first k + 1 values that c makes from x.                       *)
Starts(g, k, c, x) == g = [i \in 0 .. k |-> IF i = 0 THEN x ELSE c[g[i - 1]]]

(* Two beginnings of one iteration agree as far as both go.                *)
LEMMA ApproximationsAgree ==
    ASSUME NEW c, NEW x, NEW k \in Nat, NEW l \in Nat, k <= l, NEW g, NEW h,
           Starts(g, k, c, x), Starts(h, l, c, x)
    PROVE  \A i \in 0 .. k : g[i] = h[i]
<1> DEFINE T == {n \in Nat : n <= k => g[n] = h[n]}
<1>1. 0 \in T
  BY DEF Starts
<1>2. ASSUME NEW n \in Nat, n \in T PROVE n + 1 \in T
  <2> SUFFICES ASSUME n + 1 <= k PROVE g[n + 1] = h[n + 1]
    OBVIOUS
  <2>1. n + 1 \in 0 .. k /\ n + 1 \in 0 .. l /\ n + 1 # 0 /\ n + 1 - 1 = n
    OBVIOUS
  <2>2. g[n + 1] = c[g[n]]
    BY <2>1 DEF Starts
  <2>3. h[n + 1] = c[h[n]]
    BY <2>1 DEF Starts
  <2>4. g[n] = h[n]
    BY <1>2
  <2> QED
    BY <2>2, <2>3, <2>4
<1>3. Nat \subseteq T
  <2> HIDE DEF T
  <2> QED
    BY <1>1, <1>2, SetInduction
<1> SUFFICES ASSUME NEW i \in 0 .. k PROVE g[i] = h[i]
  OBVIOUS
<1>4. i \in T /\ i <= k
  BY <1>3
<1> QED
  BY <1>4

(* f has all of them.                                                      *)
Iterated(f, c, x) == f = [i \in Nat |-> IF i = 0 THEN x ELSE c[f[i - 1]]]

(* Every function can be iterated from every value: what a definition by   *)
(* recursion over the numbers needs to exist.                              *)
LEMMA Iterates ==
    ASSUME NEW c, NEW x
    PROVE  \E f : Iterated(f, c, x)
<1> DEFINE A(k, g) == Starts(g, k, c, x)
           T == {k \in Nat : \E g : A(k, g)}
<1>1. 0 \in T
  <2> DEFINE g == [i \in 0 .. 0 |-> x]
  <2>1. g = [i \in 0 .. 0 |-> IF i = 0 THEN x ELSE c[g[i - 1]]]
    OBVIOUS
  <2> HIDE DEF g
  <2>2. A(0, g)
    BY <2>1 DEF Starts
  <2> QED
    BY <2>2
<1>2. ASSUME NEW k \in Nat, k \in T PROVE k + 1 \in T
  <2>1. PICK g : A(k, g)
    BY <1>2
  <2> DEFINE h == [i \in 0 .. k + 1 |-> IF i = k + 1 THEN c[g[k]] ELSE g[i]]
  <2>2. ASSUME NEW i \in 0 .. k + 1
        PROVE  h[i] = IF i = 0 THEN x ELSE c[h[i - 1]]
    <3>1. CASE i = k + 1
      <4>1. i # 0 /\ i - 1 = k /\ k \in 0 .. k + 1 /\ k # k + 1
        BY <3>1
      <4>2. h[k] = g[k]
        BY <4>1
      <4>3. h[i] = c[g[k]]
        BY <3>1
      <4> QED
        BY <3>1, <4>1, <4>2, <4>3
    <3>2. CASE i # k + 1 /\ i # 0
      <4>1. i \in 0 .. k /\ i - 1 \in 0 .. k + 1 /\ i - 1 # k + 1
        BY <3>2
      <4>2. g[i] = c[g[i - 1]]
        BY <2>1, <3>2, <4>1 DEF Starts
      <4>3. h[i] = g[i] /\ h[i - 1] = g[i - 1]
        BY <3>2, <4>1
      <4> QED
        BY <3>2, <4>2, <4>3
    <3>3. CASE i = 0
      <4>1. i \in 0 .. k /\ i # k + 1
        BY <3>3
      <4>2. g[i] = x
        BY <2>1, <3>3, <4>1 DEF Starts
      <4> QED
        BY <3>3, <4>1, <4>2
    <3> QED
      BY <3>1, <3>2, <3>3
  <2>3. h = [i \in 0 .. k + 1 |-> h[i]]
    OBVIOUS
  <2> HIDE DEF h
  <2>4. h = [i \in 0 .. k + 1 |-> IF i = 0 THEN x ELSE c[h[i - 1]]]
    BY <2>2, <2>3
  <2>5. A(k + 1, h)
    BY <2>4 DEF Starts
  <2> HIDE DEF A
  <2> QED
    BY <2>5
<1>3. Nat \subseteq T
  <2> HIDE DEF T
  <2> QED
    BY <1>1, <1>2, SetInduction
<1> DEFINE G(k) == CHOOSE g : A(k, g)
           f == [i \in Nat |-> G(i)[i]]
<1>4. \A k \in Nat : A(k, G(k))
  <2> HIDE DEF A
  <2> QED
    BY <1>3
<1>5. ASSUME NEW i \in Nat
      PROVE  f[i] = IF i = 0 THEN x ELSE c[f[i - 1]]
  <2>1. A(i, G(i))
    BY <1>4
  <2>2. i \in 0 .. i
    OBVIOUS
  <2>3. G(i)[i] = IF i = 0 THEN x ELSE c[G(i)[i - 1]]
    <3> DEFINE g == G(i)
    <3>1. A(i, g)
      BY <2>1
    <3> HIDE DEF g
    <3>2. g[i] = IF i = 0 THEN x ELSE c[g[i - 1]]
      BY <3>1, <2>2 DEF Starts
    <3> QED
      BY <3>2 DEF g
  <2>4. ASSUME i # 0 PROVE G(i)[i - 1] = G(i - 1)[i - 1]
    <3> DEFINE g == G(i - 1)
               h == G(i)
    <3>1. i - 1 \in Nat /\ i - 1 <= i /\ i - 1 \in 0 .. i - 1
      BY <2>4
    <3>2. A(i - 1, g) /\ A(i, h)
      BY <2>1, <3>1, <1>4
    <3> HIDE DEF g, h
    <3>3. \A j \in 0 .. i - 1 : g[j] = h[j]
      BY <3>1, <3>2, ApproximationsAgree
    <3>4. g[i - 1] = h[i - 1]
      BY <3>1, <3>3
    <3> QED
      BY <3>4 DEF g, h
  <2> HIDE DEF G
  <2>5. f[i] = G(i)[i] /\ (i # 0 => f[i - 1] = G(i - 1)[i - 1])
    OBVIOUS
  <2> QED
    BY <2>3, <2>4, <2>5
<1>6. f = [i \in Nat |-> f[i]]
  OBVIOUS
<1> HIDE DEF f
<1>7. f = [i \in Nat |-> IF i = 0 THEN x ELSE c[f[i - 1]]]
  BY <1>5, <1>6
<1>8. Iterated(f, c, x)
  BY <1>7 DEF Iterated
<1> QED
  BY <1>8

----------------------------------------------------------------------------
(* Walks and their lengths *)

(* A walk along roads; it may visit a node twice.                          *)
IsWalk(p) ==
    /\ p \in Seq(Node) /\ p # <<>>
    /\ \A i \in 1 .. Len(p) - 1 : <<p[i], p[i + 1]>> \in Road

(* It keeps to some of them.                                               *)
Along(p, roads) == \A i \in 1 .. Len(p) - 1 : <<p[i], p[i + 1]>> \in roads

(* Back does what it says: it starts at the goal and follows came_from.    *)
LEMMA BackDef ==
    /\ Back[0] = goal
    /\ \A i \in Nat : Back[i + 1] = cameFrom[Back[i]]
<1> DEFINE P(f) == f = [i \in Nat |-> IF i = 0 THEN goal ELSE cameFrom[f[i - 1]]]
<1>1. \E f : P(f)
  <2>1. PICK f : Iterated(f, cameFrom, goal)
    BY Iterates
  <2>2. P(f)
    BY <2>1 DEF Iterated
  <2> HIDE DEF P
  <2> QED
    BY <2>2
<1>2. Back = CHOOSE f : P(f)
  BY DEF Back
<1>3. P(Back)
  <2> HIDE DEF P
  <2> QED
    BY <1>1, <1>2
<1>4. \A i \in Nat : Back[i] = IF i = 0 THEN goal ELSE cameFrom[Back[i - 1]]
  BY <1>3
<1>5. \A i \in Nat : i + 1 \in Nat /\ i + 1 # 0 /\ i + 1 - 1 = i
  OBVIOUS
<1> QED
  BY <1>4, <1>5

(* So does SimplePaths, one road more at a time.                           *)
LEMMA SimplePathsDef ==
    /\ SimplePaths[0] = {<<n>> : n \in Node}
    /\ \A k \in Nat : SimplePaths[k] \subseteq Seq(Node) =>
         SimplePaths[k + 1] = SimplePaths[k] \cup
             UNION {{Append(p, r[2]) : r \in {q \in Road :
                   q[1] = Last(p) /\ q[2] \notin ToSet(p)}} : p \in SimplePaths[k]}
<1> DEFINE Grow(S) == S \cup UNION {{Append(p, r[2]) : r \in {q \in Road :
                   q[1] = Last(p) /\ q[2] \notin ToSet(p)}} : p \in S}
           c == [S \in SUBSET Seq(Node) |-> Grow(S)]
           P(f) == f = [k \in Nat |-> IF k = 0 THEN {<<n>> : n \in Node} ELSE Grow(f[k - 1])]
           x == {<<n>> : n \in Node}
<1>1. PICK f : Iterated(f, c, x)
  BY Iterates
<1>2. \A S \in SUBSET Seq(Node) : Grow(S) \in SUBSET Seq(Node)
  <2> SUFFICES ASSUME NEW S \in SUBSET Seq(Node), NEW p \in S,
                      NEW r \in Road
               PROVE  Append(p, r[2]) \in Seq(Node)
    OBVIOUS
  <2>1. r[2] \in Node /\ p \in Seq(Node)
    BY SearchAssumption
  <2> QED
    BY <2>1, AppendProperties
<1>3. x \in SUBSET Seq(Node)
  <2> SUFFICES ASSUME NEW n \in Node PROVE <<n>> \in Seq(Node)
    OBVIOUS
  <2> QED
    OBVIOUS
<1>4. \A k \in Nat : f[k] = IF k = 0 THEN x ELSE c[f[k - 1]]
  <2> HIDE DEF c, x
  <2> QED
    BY <1>1 DEF Iterated
<1> DEFINE T == {k \in Nat : f[k] \in SUBSET Seq(Node)}
<1>5. Nat \subseteq T
  <2>1. 0 \in T
    <3> HIDE DEF x, c
    <3> QED
      BY <1>3, <1>4
  <2>2. ASSUME NEW k \in Nat, k \in T PROVE k + 1 \in T
    <3>1. k + 1 \in Nat /\ k + 1 # 0 /\ k + 1 - 1 = k /\ f[k] \in SUBSET Seq(Node)
      BY <2>2
    <3>2. f[k + 1] = c[f[k]]
      <4> HIDE DEF c, x
      <4> QED
        BY <1>4, <3>1
    <3>3. c[f[k]] = Grow(f[k])
      <4> HIDE DEF Grow
      <4> QED
        BY <3>1
    <3> HIDE DEF c, Grow
    <3> QED
      BY <1>2, <3>1, <3>2, <3>3
  <2> HIDE DEF T
  <2> QED
    BY <2>1, <2>2, SetInduction
<1>6. P(f)
  <2>1. f = [k \in Nat |-> f[k]]
    <3> HIDE DEF c, x
    <3> QED
      BY <1>1 DEF Iterated
  <2>2. ASSUME NEW k \in Nat
        PROVE  f[k] = IF k = 0 THEN x ELSE Grow(f[k - 1])
    <3>1. k # 0 => k - 1 \in T
      <4> HIDE DEF T
      <4> QED
        BY <1>5
    <3>2. k # 0 => f[k - 1] \in SUBSET Seq(Node)
      BY <3>1
    <3> HIDE DEF x, Grow, T
    <3> QED
      BY <3>2, <1>4
  <2>3. f = [k \in Nat |-> IF k = 0 THEN x ELSE Grow(f[k - 1])]
    <3> HIDE DEF x, Grow
    <3> QED
      BY <2>1, <2>2
  <2> QED
    BY <2>3
<1>7. SimplePaths = CHOOSE g : P(g)
  BY DEF SimplePaths
<1>8. P(SimplePaths)
  <2> HIDE DEF P
  <2> QED
    BY <1>6, <1>7
<1>9. \A k \in Nat : SimplePaths[k] = IF k = 0 THEN x ELSE Grow(SimplePaths[k - 1])
  <2> DEFINE h == SimplePaths
  <2>1. h = [k \in Nat |-> IF k = 0 THEN x ELSE Grow(h[k - 1])]
    BY <1>8
  <2> HIDE DEF x, Grow, h
  <2>2. \A k \in Nat : h[k] = IF k = 0 THEN x ELSE Grow(h[k - 1])
    BY <2>1
  <2> QED
    BY <2>2 DEF h
<1>10. \A k \in Nat : k + 1 \in Nat /\ k + 1 # 0 /\ k + 1 - 1 = k
  OBVIOUS
<1>11. SimplePaths[0] = x /\ \A k \in Nat : SimplePaths[k + 1] = Grow(SimplePaths[k])
  <2> HIDE DEF x, Grow
  <2> QED
    BY <1>9, <1>10
<1> QED
  BY <1>11

(* A road more makes a longer walk.                                        *)
LEMMA WalkExtends ==
    ASSUME NEW p, IsWalk(p), NEW m \in Node, <<Last(p), m>> \in Road
    PROVE  IsWalk(Append(p, m))
<1> DEFINE q == Append(p, m)
<1>1. p \in Seq(Node) /\ Len(p) \in Nat /\ Len(p) > 0 /\ Last(p) = p[Len(p)]
  BY LenProperties, EmptySeq DEF IsWalk, Last
<1>2. /\ q \in Seq(Node) /\ Len(q) = Len(p) + 1 /\ q # <<>>
      /\ \A i \in 1 .. Len(p) : q[i] = p[i]
      /\ q[Len(p) + 1] = m
  BY <1>1, AppendProperties, LenProperties
<1> HIDE DEF q
<1>3. ASSUME NEW i \in 1 .. Len(q) - 1 PROVE <<q[i], q[i + 1]>> \in Road
  <2>1. CASE i = Len(p)
    BY <2>1, <1>1, <1>2
  <2>2. CASE i # Len(p)
    <3>1. i \in 1 .. Len(p) - 1 /\ i \in 1 .. Len(p) /\ i + 1 \in 1 .. Len(p)
      BY <2>2, <1>1, <1>2
    <3>2. <<p[i], p[i + 1]>> \in Road
      BY <3>1 DEF IsWalk
    <3> QED
      BY <1>2, <3>1, <3>2
  <2> QED
    BY <2>1, <2>2
<1>4. IsWalk(q)
  BY <1>2, <1>3 DEF IsWalk
<1> QED
  BY <1>4 DEF q

(* The paths that the properties compare with are walks.                   *)
LEMMA PathsAreWalks == \A p \in Paths : IsWalk(p)
<1> DEFINE T == {k \in Nat : \A p \in SimplePaths[k] : IsWalk(p)}
<1>1. 0 \in T
  <2> SUFFICES ASSUME NEW n \in Node PROVE IsWalk(<<n>>)
    BY SimplePathsDef
  <2>1. <<n>> \in Seq(Node) /\ Len(<<n>>) = 1 /\ <<n>> # <<>>
    OBVIOUS
  <2>2. 1 .. Len(<<n>>) - 1 = {}
    BY <2>1
  <2> QED
    BY <2>1, <2>2 DEF IsWalk
<1>2. ASSUME NEW k \in Nat, k \in T PROVE k + 1 \in T
  <2>1. /\ \A p \in SimplePaths[k] : IsWalk(p)
        /\ SimplePaths[k] \subseteq Seq(Node)
    BY <1>2 DEF IsWalk
  <2> SUFFICES ASSUME NEW q \in SimplePaths[k + 1] PROVE IsWalk(q)
    OBVIOUS
  <2>2. SimplePaths[k + 1] = SimplePaths[k] \cup
          UNION {{Append(p, r[2]) : r \in {s \in Road :
                s[1] = Last(p) /\ s[2] \notin ToSet(p)}} : p \in SimplePaths[k]}
    BY <2>1, SimplePathsDef
  <2>3. CASE q \in SimplePaths[k]
    BY <2>1, <2>3
  <2>4. CASE q \notin SimplePaths[k]
    <3>1. PICK p \in SimplePaths[k] : \E r \in Road : r[1] = Last(p) /\ q = Append(p, r[2])
      BY <2>2, <2>4
    <3>2. PICK r \in Road : r[1] = Last(p) /\ q = Append(p, r[2])
      BY <3>1
    <3>3. r = <<r[1], r[2]>> /\ r[2] \in Node
      BY SearchAssumption
    <3>4. IsWalk(p) /\ <<Last(p), r[2]>> \in Road
      BY <2>1, <3>2, <3>3
    <3> HIDE DEF T
    <3> QED
      BY <3>2, <3>3, <3>4, WalkExtends
  <2> QED
    BY <2>3, <2>4
<1>3. Nat \subseteq T
  <2> HIDE DEF T
  <2> QED
    BY <1>1, <1>2, SetInduction
<1>4. Cardinality(Node) \in T
  BY <1>3, PlanningAssumption, FS_CardinalityType
<1> QED
  BY <1>4 DEF Paths

(* The kilometres up to each node of a walk.                               *)
KmsOf(km, p) ==
    /\ km \in [1 .. Len(p) -> Nat]
    /\ km[1] = 0
    /\ \A i \in 1 .. Len(p) - 1 : km[i + 1] = km[i] + Km[<<p[i], p[i + 1]>>]

(* The length of a walk grows from 0 by the length of each of its roads.   *)
LEMMA PathKmDef ==
    ASSUME NEW p, IsWalk(p)
    PROVE  \E km : KmsOf(km, p) /\ PathKm(p) = km[Len(p)]
<1> DEFINE L == Len(p)
           D == (1 .. L - 1) \X Nat
           c == [q \in D |-> <<q[1] + 1, q[2] + Km[<<p[q[1]], p[q[1] + 1]>>]>>]
<1>1. L \in Nat /\ L > 0 /\ \A i \in 1 .. L - 1 : Km[<<p[i], p[i + 1]>>] \in Nat
  BY LenProperties, EmptySeq, SearchAssumption DEF IsWalk
<1>2. PICK f : Iterated(f, c, <<1, 0>>)
  BY Iterates
<1>3. f[0] = <<1, 0>> /\ \A i \in Nat : f[i + 1] = c[f[i]]
  <2> HIDE DEF c
  <2>1. \A i \in Nat : i + 1 \in Nat /\ i + 1 # 0 /\ i + 1 - 1 = i
    OBVIOUS
  <2>2. \A i \in Nat : f[i] = IF i = 0 THEN <<1, 0>> ELSE c[f[i - 1]]
    BY <1>2 DEF Iterated
  <2> QED
    BY <2>1, <2>2
<1> DEFINE T == {i \in Nat : i < L => f[i] \in Nat \X Nat /\ f[i][1] = i + 1}
<1> HIDE DEF L
<1>4. ASSUME NEW i \in Nat, i + 1 < L, f[i] \in Nat \X Nat, f[i][1] = i + 1
      PROVE  f[i + 1] = <<i + 2, f[i][2] + Km[<<p[i + 1], p[i + 2]>>]>>
  <2>1. i + 1 \in 1 .. L - 1
    BY <1>1, <1>4
  <2>2. f[i] \in D
    BY <1>4, <2>1
  <2>3. c[f[i]] = <<f[i][1] + 1, f[i][2] + Km[<<p[f[i][1]], p[f[i][1] + 1]>>]>>
    <3> HIDE DEF D
    <3> QED
      BY <2>2
  <2> HIDE DEF c
  <2>4. i + 1 + 1 = i + 2
    OBVIOUS
  <2> QED
    BY <1>3, <1>4, <2>3, <2>4
<1>5. 0 \in T
  <2> HIDE DEF c
  <2>1. <<1, 0>> \in Nat \X Nat /\ <<1, 0>>[1] = 0 + 1
    OBVIOUS
  <2> QED
    BY <1>3, <2>1
<1>6. ASSUME NEW i \in Nat, i \in T PROVE i + 1 \in T
  <2> SUFFICES ASSUME i + 1 < L PROVE f[i + 1] \in Nat \X Nat /\ f[i + 1][1] = i + 1 + 1
    OBVIOUS
  <2>1. f[i] \in Nat \X Nat /\ f[i][1] = i + 1
    BY <1>1, <1>6
  <2>2. f[i + 1] = <<i + 2, f[i][2] + Km[<<p[i + 1], p[i + 2]>>]>>
    BY <2>1, <1>4
  <2>3. Km[<<p[i + 1], p[i + 1 + 1]>>] \in Nat
    BY <1>1 DEF L
  <2>4. i + 1 + 1 = i + 2
    OBVIOUS
  <2> HIDE DEF c, T
  <2> QED
    BY <2>1, <2>2, <2>3, <2>4
<1>7. Nat \subseteq T
  <2> HIDE DEF T
  <2> QED
    BY <1>5, <1>6, SetInduction
<1> DEFINE km == [i \in 1 .. L |-> f[i - 1][2]]
<1>8. ASSUME NEW i \in 1 .. L PROVE i - 1 \in Nat /\ f[i - 1] \in Nat \X Nat /\ f[i - 1][1] = i
  <2>1. i - 1 \in Nat /\ i - 1 < L /\ i - 1 + 1 = i
    BY <1>1
  <2>2. i - 1 \in T
    <3> HIDE DEF T
    <3> QED
      BY <1>7, <2>1
  <2> QED
    BY <2>1, <2>2
<1>9. km \in [1 .. L -> Nat] /\ km[1] = 0
  <2> HIDE DEF c, T
  <2>1. 1 \in 1 .. L /\ 1 - 1 = 0 /\ <<1, 0>>[2] = 0
    BY <1>1
  <2>2. km[1] = f[0][2]
    BY <2>1
  <2>3. \A i \in 1 .. L : f[i - 1][2] \in Nat
    BY <1>8
  <2> QED
    BY <1>3, <2>1, <2>2, <2>3
<1>10. ASSUME NEW i \in 1 .. L - 1 PROVE km[i + 1] = km[i] + Km[<<p[i], p[i + 1]>>]
  <2>1. /\ i \in 1 .. L /\ i + 1 \in 1 .. L /\ i - 1 \in Nat /\ i - 1 + 1 < L
        /\ i - 1 + 1 = i /\ i + 1 - 1 = i /\ i - 1 + 2 = i + 1
    BY <1>1
  <2>2. f[i - 1] \in Nat \X Nat /\ f[i - 1][1] = i - 1 + 1
    BY <1>8, <2>1
  <2> HIDE DEF c, T
  <2>3. f[i - 1 + 1] = <<i - 1 + 2, f[i - 1][2] + Km[<<p[i - 1 + 1], p[i - 1 + 2]>>]>>
    BY <1>4, <2>1, <2>2
  <2>4. f[i] = <<i + 1, f[i - 1][2] + Km[<<p[i], p[i + 1]>>]>>
    BY <2>1, <2>3
  <2> QED
    BY <2>1, <2>4
<1>11. KmsOf(km, p)
  BY <1>9, <1>10 DEF KmsOf, L
<1> DEFINE P(g) == g = [i \in 1 .. Len(p) |-> IF i = 1 THEN 0
                                              ELSE g[i - 1] + Km[<<p[i - 1], p[i]>>]]
<1>12. P(km)
  <2>1. ASSUME NEW i \in 1 .. L
        PROVE  km[i] = IF i = 1 THEN 0 ELSE km[i - 1] + Km[<<p[i - 1], p[i]>>]
    <3>1. CASE i = 1
      BY <1>9, <3>1
    <3>2. CASE i # 1
      <4>1. i - 1 \in 1 .. L - 1 /\ i - 1 + 1 = i
        BY <1>1, <3>2
      <4> HIDE DEF km
      <4>2. km[i - 1 + 1] = km[i - 1] + Km[<<p[i - 1], p[i - 1 + 1]>>]
        BY <1>10, <4>1
      <4> QED
        BY <3>2, <4>1, <4>2
    <3> QED
      BY <3>1, <3>2
  <2>2. km = [i \in 1 .. L |-> km[i]]
    OBVIOUS
  <2> HIDE DEF km
  <2>3. km = [i \in 1 .. L |-> IF i = 1 THEN 0 ELSE km[i - 1] + Km[<<p[i - 1], p[i]>>]]
    BY <2>1, <2>2
  <2> QED
    BY <2>3 DEF L
<1> DEFINE g == CHOOSE h : P(h)
<1>13. P(g)
  <2> HIDE DEF P, km
  <2> QED
    BY <1>12
<1>14. PathKm(p) = g[Len(p)]
  BY DEF PathKm
<1> HIDE DEF g, km
<1>15. KmsOf(g, p)
  <2> HIDE DEF c, T
  <2>1. \A i \in 1 .. L : g[i] = IF i = 1 THEN 0 ELSE g[i - 1] + Km[<<p[i - 1], p[i]>>]
    BY <1>13 DEF L
  <2> DEFINE U == {i \in Nat : i \in 1 .. L => g[i] = km[i]}
  <2>2. 0 \in U
    OBVIOUS
  <2>3. ASSUME NEW i \in Nat, i \in U PROVE i + 1 \in U
    <3> SUFFICES ASSUME i + 1 \in 1 .. L PROVE g[i + 1] = km[i + 1]
      OBVIOUS
    <3>1. CASE i = 0
      <4>1. 1 \in 1 .. L /\ i + 1 = 1
        BY <1>1, <3>1
      <4> QED
        BY <1>9, <2>1, <4>1
    <3>2. CASE i # 0
      <4>1. i \in 1 .. L - 1 /\ i \in 1 .. L /\ i + 1 - 1 = i /\ i + 1 # 1
        BY <1>1, <3>2
      <4>2. g[i] = km[i]
        BY <2>3, <4>1
      <4>3. g[i + 1] = g[i] + Km[<<p[i], p[i + 1]>>]
        BY <2>1, <4>1
      <4> QED
        BY <1>10, <4>1, <4>2, <4>3
    <3> QED
      BY <3>1, <3>2
  <2>4. Nat \subseteq U
    <3> HIDE DEF U
    <3> QED
      BY <2>2, <2>3, SetInduction
  <2>5. \A i \in 1 .. L : g[i] = km[i]
    <3> SUFFICES ASSUME NEW i \in 1 .. L PROVE g[i] = km[i]
      OBVIOUS
    <3>1. i \in U
      <4> HIDE DEF U
      <4> QED
        BY <1>1, <2>4
    <3> QED
      BY <3>1
  <2>6. g = [i \in 1 .. L |-> g[i]] /\ km = [i \in 1 .. L |-> km[i]]
    BY <1>9, <1>13 DEF L
  <2>7. g = km
    BY <2>5, <2>6
  <2> QED
    BY <1>11, <2>7
<1> QED
  BY <1>14, <1>15

(* And so it is a number.                                                  *)
LEMMA PathKmIsNat ==
    ASSUME NEW p, IsWalk(p)
    PROVE  PathKm(p) \in Nat
<1>1. PICK km : KmsOf(km, p) /\ PathKm(p) = km[Len(p)]
  BY PathKmDef
<1>2. Len(p) \in 1 .. Len(p)
  BY LenProperties, EmptySeq DEF IsWalk
<1> QED
  BY <1>1, <1>2 DEF KmsOf

----------------------------------------------------------------------------
(* The route that a search leaves behind *)

(* came_from closes no cycle: every set of seen nodes without the start    *)
(* has a node that came from outside of it. (The scores do not say so by   *)
(* themselves, for a road may have no length.)                             *)
Grounded ==
    \A T \in SUBSET (Seen \ {start}) : T # {} => \E n \in T : cameFrom[n] \notin T

(* came_from is a tree with the start at its root.                         *)
Rooted == start \in Seen /\ cameFrom[start] = NoNode /\ Grounded

(* What a search maintains of came_from.                                   *)
RootedInv ==
    /\ CertifiedInv
    /\ search \in {"searching", "found"} => Rooted

(* Relaxing the roads of an entry closes no cycle. A set that holds an     *)
(* improved node and the popped one has, among its nodes that are not      *)
(* improved and no farther than the popped one, one that came from outside *)
(* of these; that node is neither improved, for it would have been         *)
(* farther, nor in the set.                                                *)
LEMMA ExpandGrounded ==
    ASSUME RootedInv, NEW e \in heap, Expand(e)
    PROVE  Rooted'
<1> USE SearchAssumption
<1>1. /\ SearchTypeOK /\ LeadsBack /\ SearchInv /\ start' = start /\ Started
      /\ Rooted
  BY DEF RootedInv, CertifiedInv, SearchInv, Expand, Popped
<1>2. /\ e.node \in Seen /\ e.g \in Nat /\ e.g = gScore[e.node]
      /\ Seen' = Seen \cup Improved(e)
  BY <1>1, ExpandTypes
<1>3. \A m \in Seen' : cameFrom'[m] = IF m \in Improved(e) THEN e.node ELSE cameFrom[m]
  BY <1>2 DEF Expand
<1>4. \A m \in Improved(e) :
         Km[<<e.node, m>>] \in Nat /\ (m \in Seen => e.g + Km[<<e.node, m>>] < gScore[m])
  BY <1>1 DEF Improved, SearchTypeOK
<1>5. \A m \in Seen : gScore[m] \in Nat
  BY <1>1 DEF SearchTypeOK
<1>6. ASSUME NEW m \in Improved(e), m \in Seen PROVE e.g < gScore[m]
  <2>1. Km[<<e.node, m>>] \in Nat /\ e.g + Km[<<e.node, m>>] < gScore[m]
    BY <1>4, <1>6
  <2>2. gScore[m] \in Nat /\ e.g \in Nat
    BY <1>2, <1>5, <1>6
  <2> QED
    BY <2>1, <2>2
<1>7. start \notin Improved(e) /\ start \in Seen /\ e.node \notin Improved(e)
  <2>1. gScore[start] = 0 /\ start \in Seen
    BY <1>1 DEF Started
  <2> QED
    BY <1>2, <1>6, <2>1
<1>8. start \in Seen' /\ cameFrom'[start] = NoNode
  BY <1>1, <1>2, <1>3, <1>7 DEF Rooted
<1>9. ASSUME NEW T \in SUBSET (Seen' \ {start}), T # {}
      PROVE  \E n \in T : cameFrom'[n] \notin T
  <2>1. CASE T \cap Improved(e) = {}
    <3>1. T \in SUBSET (Seen \ {start})
      BY <1>2, <2>1
    <3>2. PICK n \in T : cameFrom[n] \notin T
      BY <1>1, <1>9, <3>1 DEF Rooted, Grounded
    <3>3. cameFrom'[n] = cameFrom[n]
      BY <1>3, <2>1
    <3> QED
      BY <3>2, <3>3
  <2>2. CASE T \cap Improved(e) # {} /\ e.node \notin T
    <3>1. PICK n \in T : n \in Improved(e)
      BY <2>2
    <3>2. cameFrom'[n] = e.node
      BY <1>3, <3>1
    <3> QED
      BY <2>2, <3>2
  <2>3. CASE T \cap Improved(e) # {} /\ e.node \in T
    <3> DEFINE T1 == {n \in T \ Improved(e) : gScore[n] <= e.g}
    <3>1. T1 \in SUBSET (Seen \ {start}) /\ T1 # {}
      <4>1. e.node \in T1
        BY <1>2, <1>7, <2>3
      <4> QED
        BY <1>2, <4>1
    <3>2. PICK n \in T1 : cameFrom[n] \notin T1
      <4> HIDE DEF T1
      <4> QED
        BY <1>1, <3>1 DEF Rooted, Grounded
    <3> DEFINE p == cameFrom[n]
    <3>3. /\ n \in Seen \ {start} /\ n \in T /\ n \notin Improved(e)
          /\ gScore[n] <= e.g /\ gScore[n] \in Nat
      BY <3>1, <1>5
    <3>4. cameFrom'[n] = p
      BY <1>3, <3>3
    <3>5. /\ p \in Seen /\ <<p, n>> \in graph
          /\ gScore[p] + Km[<<p, n>>] <= gScore[n]
      BY <1>1, <3>3 DEF LeadsBack
    <3>6. Km[<<p, n>>] \in Nat /\ gScore[p] \in Nat
      BY <1>1, <3>5, <1>5 DEF SearchTypeOK
    <3>7. p \notin T1
      BY <3>2
    <3>8. p \notin T
      <4> HIDE DEF p
      <4>1. gScore[p] <= e.g
        BY <1>2, <3>3, <3>5, <3>6
      <4>2. p \notin Improved(e)
        BY <1>2, <1>6, <3>5, <3>6, <4>1
      <4> QED
        BY <3>7, <4>1, <4>2
    <3> QED
      BY <3>3, <3>4, <3>8
  <2> QED
    BY <2>1, <2>2, <2>3
<1>10. Grounded'
  BY <1>1, <1>9 DEF Grounded
<1> QED
  BY <1>1, <1>8, <1>10 DEF Rooted

(* Every step of a search keeps the tree.                                  *)
LEMMA StepKeepsRooted == RootedInv /\ [SearchNext]_searchVars => RootedInv'
<1> SUFFICES ASSUME RootedInv, [SearchNext]_searchVars, CertifiedInv' PROVE RootedInv'
  BY StepKeepsCertified DEF RootedInv
<1>1. CASE Exhausted \/ Abandon
  BY <1>1 DEF RootedInv, Exhausted, Abandon
<1>2. ASSUME NEW e \in heap, Arrive(e) \/ SkipStale(e) PROVE RootedInv'
  <2>1. search = "searching" /\ UNCHANGED <<start, goal, gScore, cameFrom>>
    BY <1>2 DEF Arrive, SkipStale, Popped
  <2>2. Seen' = Seen
    BY <2>1 DEF Seen
  <2> QED
    BY <2>1, <2>2 DEF RootedInv, Rooted, Grounded
<1>3. ASSUME NEW e \in heap, Expand(e) PROVE RootedInv'
  BY <1>3, ExpandGrounded DEF RootedInv
<1>4. ASSUME NEW s \in Node, NEW t \in Node, BeginSearch(s, t) PROVE RootedInv'
  <2>1. /\ start' = s /\ gScore' = [n \in {s} |-> 0] /\ cameFrom' = [n \in {s} |-> NoNode]
    BY <1>4 DEF BeginSearch
  <2>2. Seen' = {s}
    BY <2>1 DEF Seen
  <2>3. \A T \in SUBSET (Seen' \ {start'}) : T = {}
    BY <2>1, <2>2
  <2> QED
    BY <2>1, <2>2, <2>3 DEF RootedInv, Rooted, Grounded
<1>5. CASE UNCHANGED searchVars
  <2>1. UNCHANGED <<search, start, goal, gScore, cameFrom>>
    BY <1>5 DEF searchVars
  <2>2. Seen' = Seen
    BY <2>1 DEF Seen
  <2> QED
    BY <2>1, <2>2 DEF RootedInv, Rooted, Grounded
<1>6. ASSUME NEW roads \in SUBSET Road, Load(roads) PROVE RootedInv'
  BY <1>6 DEF RootedInv, Load
<1> QED
  BY <1>1, <1>2, <1>3, <1>4, <1>5, <1>6 DEF SearchNext, SearchStep

(* Followed back from the goal, came_from comes to the start, over nodes   *)
(* that were seen: if it never did, the nodes on the way would have no     *)
(* first one.                                                              *)
LEMMA BackReachesStart ==
    ASSUME RootedInv, search = "found"
    PROVE  \E h \in Nat :
             /\ Back[h] = start
             /\ \A i \in 0 .. h : Back[i] \in Seen
             /\ \A i \in 0 .. h : i # h => Back[i] # start
<1>1. /\ Rooted /\ LeadsBack /\ goal \in Seen
  BY DEF RootedInv, CertifiedInv, Certified
<1>2. Back[0] = goal /\ \A i \in Nat : Back[i + 1] = cameFrom[Back[i]]
  BY BackDef
<1>3. \A n \in Seen : n # start => cameFrom[n] \in Seen
  BY <1>1 DEF LeadsBack
<1> DEFINE H == {i \in Nat : Back[i] = start}
<1>4. H # {}
  <2> SUFFICES ASSUME H = {} PROVE FALSE
    OBVIOUS
  <2>1. \A i \in Nat : Back[i] # start
    OBVIOUS
  <2> DEFINE U == {i \in Nat : Back[i] \in Seen}
             T == {Back[i] : i \in Nat}
  <2>2. 0 \in U /\ \A i \in Nat : i \in U => i + 1 \in U
    BY <1>1, <1>2, <1>3, <2>1
  <2>3. Nat \subseteq U
    <3> HIDE DEF U
    <3> QED
      BY <2>2, SetInduction
  <2>4. T \in SUBSET (Seen \ {start}) /\ T # {}
    BY <2>1, <2>3
  <2>5. PICK n \in T : cameFrom[n] \notin T
    <3> HIDE DEF T
    <3> QED
      BY <1>1, <2>4 DEF Rooted, Grounded
  <2>6. PICK i \in Nat : n = Back[i]
    OBVIOUS
  <2>7. cameFrom[n] = Back[i + 1] /\ i + 1 \in Nat
    BY <1>2, <2>6
  <2> QED
    BY <2>5, <2>7
<1>5. PICK h \in H : \A m \in H : h <= m
  <2>1. H \subseteq Nat
    OBVIOUS
  <2> HIDE DEF H
  <2> QED
    BY <1>4, <2>1, LeastOf
<1>6. h \in Nat /\ Back[h] = start
  OBVIOUS
<1>7. \A i \in 0 .. h : i # h => Back[i] # start
  <2> SUFFICES ASSUME NEW i \in 0 .. h, i # h, Back[i] = start PROVE FALSE
    OBVIOUS
  <2>1. i \in H
    OBVIOUS
  <2> HIDE DEF H
  <2> QED
    BY <1>5, <1>6, <2>1
<1> DEFINE V == {i \in Nat : i <= h => Back[i] \in Seen}
<1> HIDE DEF H
<1>8. 0 \in V
  BY <1>1, <1>2
<1>9. ASSUME NEW i \in Nat, i \in V PROVE i + 1 \in V
  <2> SUFFICES ASSUME i + 1 <= h PROVE Back[i + 1] \in Seen
    OBVIOUS
  <2>1. i \in 0 .. h /\ i # h /\ i <= h
    BY <1>6
  <2>2. Back[i] \in Seen /\ Back[i] # start
    BY <1>7, <1>9, <2>1
  <2> QED
    BY <1>2, <1>3, <2>2
<1>10. Nat \subseteq V
  <2> HIDE DEF V
  <2> QED
    BY <1>8, <1>9, SetInduction
<1>11. \A i \in 0 .. h : Back[i] \in Seen
  <2> SUFFICES ASSUME NEW i \in 0 .. h PROVE Back[i] \in Seen
    OBVIOUS
  <2>1. i \in V /\ i <= h
    BY <1>6, <1>10
  <2> QED
    BY <2>1
<1> QED
  BY <1>6, <1>7, <1>11

(* It visits no node twice on the way, so it is there within as many turns *)
(* as there are nodes, and that is where the loop of astar ends.           *)
LEMMA PathIsBack ==
    ASSUME RootedInv, search = "found"
    PROVE  \E h \in Nat :
             /\ Back[h] = start
             /\ \A i \in 0 .. h : Back[i] \in Seen
             /\ \A i \in 0 .. h : i # h => Back[i] # start
             /\ Path = [j \in 1 .. h + 1 |-> Back[h + 1 - j]]
<1>1. PICK h \in Nat : /\ Back[h] = start
                       /\ \A i \in 0 .. h : Back[i] \in Seen
                       /\ \A i \in 0 .. h : i # h => Back[i] # start
  BY BackReachesStart
<1>2. /\ Rooted /\ LeadsBack /\ SearchTypeOK
  BY DEF RootedInv, CertifiedInv, Certified, SearchInv
<1>3. Back[0] = goal /\ \A i \in Nat : Back[i + 1] = cameFrom[Back[i]]
  BY BackDef
<1>4. ASSUME NEW i \in 0 .. h, NEW j \in 0 .. h, i < j PROVE Back[i] # Back[j]
  <2> SUFFICES ASSUME Back[i] = Back[j] PROVE FALSE
    OBVIOUS
  <2> DEFINE T == {Back[k] : k \in i .. j - 1}
  <2>1. \A k \in i .. j - 1 : k \in 0 .. h /\ k # h /\ k \in Nat
    BY <1>4
  <2>2. T \in SUBSET (Seen \ {start})
    BY <1>1, <2>1
  <2>3. T # {}
    <3>1. i \in i .. j - 1
      BY <1>4
    <3> QED
      BY <3>1
  <2>4. PICK n \in T : cameFrom[n] \notin T
    <3> HIDE DEF T
    <3> QED
      BY <1>2, <2>2, <2>3 DEF Rooted, Grounded
  <2>5. PICK k \in i .. j - 1 : n = Back[k]
    OBVIOUS
  <2>6. cameFrom[n] = Back[k + 1]
    BY <1>3, <2>1, <2>5
  <2>7. Back[k + 1] \in T
    <3>1. CASE k + 1 = j
      <4>1. i \in i .. j - 1
        BY <1>4
      <4> QED
        BY <3>1, <4>1
    <3>2. CASE k + 1 # j
      <4>1. k + 1 \in i .. j - 1
        BY <1>4, <3>2
      <4> QED
        BY <4>1
    <3> QED
      BY <3>1, <3>2
  <2> QED
    BY <2>4, <2>6, <2>7
<1>5. IsFiniteSet(Seen)
  BY <1>2, PlanningAssumption, FS_Subset DEF SearchTypeOK
<1>6. h \in 0 .. Cardinality(Seen)
  <2> DEFINE f == [k \in 0 .. h |-> Back[k]]
  <2>1. f \in Injection(0 .. h, Seen)
    <3>1. f \in [0 .. h -> Seen]
      BY <1>1
    <3>2. \A i, j \in 0 .. h : f[i] = f[j] => i = j
      <4> SUFFICES ASSUME NEW i \in 0 .. h, NEW j \in 0 .. h, f[i] = f[j], i # j PROVE FALSE
        OBVIOUS
      <4>1. Back[i] = Back[j]
        OBVIOUS
      <4>2. i < j \/ j < i
        OBVIOUS
      <4> QED
        BY <1>4, <4>1, <4>2
    <3> HIDE DEF f
    <3> QED
      BY <3>1, <3>2 DEF Injection, IsInjective
  <2>2. Cardinality(0 .. h) <= Cardinality(Seen)
    <3> HIDE DEF f
    <3> QED
      BY <1>5, <2>1, FS_Injection
  <2>3. Cardinality(0 .. h) = h + 1
    BY FS_Interval
  <2>4. Cardinality(Seen) \in Nat
    BY <1>5, FS_CardinalityType
  <2> QED
    BY <2>2, <2>3, <2>4
<1>7. /\ cameFrom[Back[h]] = NoNode
      /\ \A j \in 0 .. h : j # h => cameFrom[Back[j]] # NoNode
  <2>1. cameFrom[Back[h]] = NoNode
    BY <1>1, <1>2 DEF Rooted
  <2>2. ASSUME NEW j \in 0 .. h, j # h PROVE cameFrom[Back[j]] # NoNode
    <3>1. cameFrom[Back[j]] \in Seen
      BY <1>1, <1>2, <2>2 DEF LeadsBack
    <3> QED
      BY <1>2, <3>1, SearchAssumption DEF SearchTypeOK
  <2> QED
    BY <2>1, <2>2
<1> DEFINE Q(i) == /\ cameFrom[Back[i]] = NoNode
                   /\ \A j \in 0 .. i - 1 : cameFrom[Back[j]] # NoNode
           N == Cardinality(Seen)
           hops == Hops
<1>8. Q(h)
  <2>1. \A j \in 0 .. h - 1 : j \in 0 .. h /\ j # h
    OBVIOUS
  <2> QED
    BY <1>7, <2>1
<1>9. ASSUME NEW i \in 0 .. N, Q(i) PROVE i = h
  <2>1. i \in Nat
    OBVIOUS
  <2>2. CASE i < h
    <3>1. i \in 0 .. h /\ i # h
      BY <2>1, <2>2
    <3> QED
      BY <1>7, <1>9, <3>1
  <2>3. CASE h < i
    <3>1. h \in 0 .. i - 1
      BY <2>1, <2>3
    <3> QED
      BY <1>7, <1>9, <3>1
  <2> QED
    BY <2>1, <2>2, <2>3
<1>10. hops = h
  <2>1. hops = CHOOSE i \in 0 .. N : Q(i)
    BY DEF Hops
  <2> HIDE DEF Q, N, hops
  <2>2. h \in 0 .. N
    BY <1>6 DEF N
  <2>3. hops \in 0 .. N /\ Q(hops)
    BY <1>8, <2>1, <2>2
  <2> QED
    BY <1>9, <2>3
<1>11. Path = [j \in 1 .. hops + 1 |-> Back[hops + 1 - j]]
  BY DEF Path
<1> HIDE DEF hops
<1>12. Path = [j \in 1 .. h + 1 |-> Back[h + 1 - j]]
  BY <1>10, <1>11
<1> QED
  BY <1>1, <1>12

(* The route returned: a walk from the start to the goal over nodes that   *)
(* were seen, no longer than the distance returned with it.                *)
LEMMA PathLeadsHome ==
    ASSUME RootedInv, search = "found"
    PROVE  /\ IsWalk(Path) /\ Along(Path, graph) /\ Path[1] = start /\ Last(Path) = goal
           /\ \A j \in 1 .. Len(Path) : Path[j] \in Seen
           /\ PathKm(Path) <= total
<1>1. PICK h \in Nat :
        /\ Back[h] = start
        /\ \A i \in 0 .. h : Back[i] \in Seen
        /\ \A i \in 0 .. h : i # h => Back[i] # start
        /\ Path = [j \in 1 .. h + 1 |-> Back[h + 1 - j]]
  BY PathIsBack
<1>2. /\ LeadsBack /\ SearchTypeOK /\ total = gScore[goal] /\ Rooted
      /\ SearchInv /\ Seen \subseteq Node /\ graph \subseteq Road
  BY DEF RootedInv, CertifiedInv, Certified, SearchInv, SearchTypeOK
<1>3. Back[0] = goal /\ \A i \in Nat : Back[i + 1] = cameFrom[Back[i]]
  BY BackDef
<1> DEFINE p == Path
<1> HIDE DEF p
<1>4. p = [j \in 1 .. h + 1 |-> Back[h + 1 - j]]
  BY <1>1 DEF p
<1>5. \A j \in 1 .. h + 1 : h + 1 - j \in 0 .. h /\ p[j] = Back[h + 1 - j] /\ p[j] \in Seen
  BY <1>1, <1>4
<1>6. /\ p \in Seq(Node) /\ Len(p) = h + 1 /\ p # <<>>
  <2>1. h + 1 \in Nat /\ p \in [1 .. h + 1 -> Node]
    BY <1>2, <1>4, <1>5
  <2>2. p \in Seq(Node)
    BY <2>1, SeqDef
  <2>3. Len(p) = h + 1
    BY <2>1, <2>2, LenProperties
  <2> QED
    BY <2>2, <2>3, EmptySeq
<1>7. ASSUME NEW j \in 1 .. h
      PROVE  /\ p[j + 1] \in Seen \ {start}
             /\ p[j] = cameFrom[p[j + 1]]
             /\ p[j] \in Seen
  <2>1. /\ j \in 1 .. h + 1 /\ j + 1 \in 1 .. h + 1 /\ h + 1 - (j + 1) = h - j
        /\ h + 1 - j = h - j + 1 /\ h - j \in 0 .. h /\ h - j # h /\ h - j \in Nat
    OBVIOUS
  <2>2. p[j] = Back[h - j + 1] /\ p[j + 1] = Back[h - j] /\ p[j] \in Seen
    BY <1>5, <2>1
  <2>3. Back[h - j] \in Seen /\ Back[h - j] # start
    BY <1>1, <2>1
  <2>4. Back[h - j + 1] = cameFrom[Back[h - j]]
    BY <1>3, <2>1
  <2> QED
    BY <2>2, <2>3, <2>4
<1>8. ASSUME NEW j \in 1 .. h
      PROVE  /\ <<p[j], p[j + 1]>> \in graph
             /\ gScore[p[j]] + Km[<<p[j], p[j + 1]>>] <= gScore[p[j + 1]]
  <2> DEFINE n == p[j + 1]
  <2>1. n \in Seen \ {start} /\ p[j] = cameFrom[n]
    BY <1>7
  <2>2. <<cameFrom[n], n>> \in graph /\ gScore[cameFrom[n]] + Km[<<cameFrom[n], n>>] <= gScore[n]
    <3> HIDE DEF n
    <3> QED
      BY <1>2, <2>1 DEF LeadsBack
  <2> QED
    BY <2>1, <2>2
<1>9. IsWalk(p) /\ Along(p, graph)
  <2>1. Len(p) - 1 = h
    BY <1>6
  <2> QED
    BY <1>2, <1>6, <1>8, <2>1 DEF IsWalk, Along
<1>10. p[1] = start /\ Last(p) = goal
  <2>1. 1 \in 1 .. h + 1 /\ h + 1 \in 1 .. h + 1 /\ h + 1 - 1 = h /\ h + 1 - (h + 1) = 0
    OBVIOUS
  <2>2. p[1] = Back[h] /\ p[h + 1] = Back[0]
    BY <1>5, <2>1
  <2> QED
    BY <1>1, <1>3, <1>6, <2>2 DEF Last
<1>11. PathKm(p) <= gScore[goal]
  <2>1. PICK km : KmsOf(km, p) /\ PathKm(p) = km[Len(p)]
    BY <1>9, PathKmDef
  <2>2. /\ \A j \in 1 .. h + 1 : km[j] \in Nat
        /\ km[1] = 0
        /\ \A j \in 1 .. h : km[j + 1] = km[j] + Km[<<p[j], p[j + 1]>>]
    <3>1. Len(p) - 1 = h
      BY <1>6
    <3> QED
      BY <1>6, <2>1, <3>1 DEF KmsOf
  <2>3. \A j \in 1 .. h + 1 : gScore[p[j]] \in Nat
    BY <1>2, <1>5 DEF SearchTypeOK
  <2> DEFINE T == {j \in Nat : j \in 1 .. h + 1 => km[j] <= gScore[p[j]]}
  <2>4. 0 \in T
    OBVIOUS
  <2>5. ASSUME NEW j \in Nat, j \in T PROVE j + 1 \in T
    <3> SUFFICES ASSUME j + 1 \in 1 .. h + 1 PROVE km[j + 1] <= gScore[p[j + 1]]
      OBVIOUS
    <3>1. CASE j = 0
      <4>1. j + 1 = 1 /\ 1 \in 1 .. h + 1
        BY <3>1
      <4>2. gScore[p[1]] \in Nat
        BY <2>3, <4>1
      <4> QED
        BY <2>2, <4>1, <4>2
    <3>2. CASE j # 0
      <4>1. j \in 1 .. h /\ j \in 1 .. h + 1 /\ j + 1 \in 1 .. h + 1
        BY <3>2
      <4>2. km[j] <= gScore[p[j]]
        BY <2>5, <4>1
      <4>3. km[j + 1] = km[j] + Km[<<p[j], p[j + 1]>>]
        BY <2>2, <4>1
      <4>4. gScore[p[j]] + Km[<<p[j], p[j + 1]>>] <= gScore[p[j + 1]]
        BY <1>8, <4>1
      <4>5. Km[<<p[j], p[j + 1]>>] \in Nat
        BY <1>2, <1>8, <4>1, SearchAssumption
      <4>6. km[j] \in Nat /\ gScore[p[j]] \in Nat /\ gScore[p[j + 1]] \in Nat
        BY <2>2, <2>3, <4>1
      <4> HIDE DEF T
      <4> QED
        BY <4>2, <4>3, <4>4, <4>5, <4>6
    <3> QED
      BY <3>1, <3>2
  <2>6. Nat \subseteq T
    <3> HIDE DEF T
    <3> QED
      BY <2>4, <2>5, SetInduction
  <2>7. h + 1 \in T /\ h + 1 \in 1 .. h + 1
    <3> HIDE DEF T
    <3> QED
      BY <2>6
  <2>8. km[h + 1] <= gScore[p[h + 1]]
    BY <2>7
  <2>9. p[h + 1] = goal
    BY <1>6, <1>10 DEF Last
  <2> QED
    BY <1>6, <2>1, <2>8, <2>9
<1> QED
  BY <1>2, <1>5, <1>6, <1>9, <1>10, <1>11 DEF p

(* The bound of NoShorterRoute, added up along a walk over loaded roads:   *)
(* none from the start to the goal is shorter than the distance returned.  *)
LEMMA NoWalkIsShorter ==
    ASSUME SearchInv, search = "found", ConsistentFor(goal), start \in Node, goal \in Node,
           NEW p, IsWalk(p), Along(p, graph), p[1] = start, Last(p) = goal
    PROVE  total <= PathKm(p)
<1>1. /\ Bound(start) = 0 /\ Bound(goal) = total
      /\ \A n, m \in Node : <<n, m>> \in graph => Bound(m) <= Bound(n) + Km[<<n, m>>]
      /\ SearchTypeOK
  BY DEF SearchInv, NoShorterRoute
<1> DEFINE L == Len(p)
<1>2. /\ L \in Nat /\ L > 0 /\ p[L] = goal
      /\ \A i \in 1 .. L : p[i] \in Node
      /\ \A i \in 1 .. L - 1 : <<p[i], p[i + 1]>> \in graph /\ Km[<<p[i], p[i + 1]>>] \in Nat
  <2>1. p \in Seq(Node) /\ p # <<>>
    BY DEF IsWalk
  <2>2. L \in Nat /\ L > 0 /\ p[L] = goal
    BY <2>1, LenProperties, EmptySeq DEF Last
  <2>3. \A i \in 1 .. L : p[i] \in Node
    BY <2>1, ElementOfSeq
  <2> QED
    BY <2>2, <2>3, SearchAssumption DEF IsWalk, Along
<1>3. PICK km : KmsOf(km, p) /\ PathKm(p) = km[L]
  BY PathKmDef
<1> HIDE DEF L
<1>4. /\ \A i \in 1 .. L : km[i] \in Nat
      /\ km[1] = 0
      /\ \A i \in 1 .. L - 1 : km[i + 1] = km[i] + Km[<<p[i], p[i + 1]>>]
  BY <1>3 DEF KmsOf, L
<1>5. \A n \in Node : Bound(n) \in Int
  <2> SUFFICES ASSUME NEW n \in Node PROVE Bound(n) \in Int
    OBVIOUS
  <2>1. Estimate[n][goal] \in Nat /\ total \in Nat
    BY <1>1, SearchAssumption DEF SearchTypeOK
  <2>2. n \in Seen => gScore[n] \in Nat
    BY <1>1 DEF SearchTypeOK
  <2> QED
    BY <2>1, <2>2 DEF Bound
<1> DEFINE T == {i \in Nat : i \in 1 .. L => Bound(p[i]) <= km[i]}
<1>6. 0 \in T
  OBVIOUS
<1>7. ASSUME NEW i \in Nat, i \in T PROVE i + 1 \in T
  <2> SUFFICES ASSUME i + 1 \in 1 .. L PROVE Bound(p[i + 1]) <= km[i + 1]
    OBVIOUS
  <2>1. CASE i = 0
    <3>1. i + 1 = 1
      BY <2>1
    <3> QED
      BY <1>1, <1>4, <3>1
  <2>2. CASE i # 0
    <3>1. i \in 1 .. L - 1 /\ i \in 1 .. L /\ i + 1 \in 1 .. L
      BY <1>2, <2>2
    <3>2. Bound(p[i]) <= km[i]
      BY <1>7, <3>1
    <3>3. /\ Bound(p[i + 1]) <= Bound(p[i]) + Km[<<p[i], p[i + 1]>>]
          /\ Km[<<p[i], p[i + 1]>>] \in Nat
          /\ Bound(p[i]) \in Int /\ Bound(p[i + 1]) \in Int
      BY <1>1, <1>2, <1>5, <3>1
    <3>4. km[i + 1] = km[i] + Km[<<p[i], p[i + 1]>>] /\ km[i] \in Nat
      BY <1>4, <3>1
    <3> HIDE DEF T
    <3> QED
      BY <3>2, <3>3, <3>4
  <2> QED
    BY <2>1, <2>2
<1>8. Nat \subseteq T
  <2> HIDE DEF T
  <2> QED
    BY <1>6, <1>7, SetInduction
<1>9. L \in T /\ L \in 1 .. L
  <2> HIDE DEF T
  <2> QED
    BY <1>2, <1>8
<1>10. Bound(p[L]) <= km[L]
  BY <1>9
<1> QED
  BY <1>1, <1>2, <1>3, <1>10

(* What is cut off is not reached by any walk over loaded roads.           *)
LEMMA NoWalkLeads ==
    ASSUME CutOff, Seen \subseteq Node, NEW p, IsWalk(p), Along(p, graph), p[1] = start
    PROVE  Last(p) # goal
<1> DEFINE L == Len(p)
<1>1. /\ L \in Nat /\ L > 0 /\ Last(p) = p[L]
      /\ \A i \in 1 .. L : p[i] \in Node
      /\ \A i \in 1 .. L - 1 : <<p[i], p[i + 1]>> \in graph
  <2>1. p \in Seq(Node) /\ p # <<>>
    BY DEF IsWalk
  <2>2. L \in Nat /\ L > 0 /\ Last(p) = p[L]
    BY <2>1, LenProperties, EmptySeq DEF Last
  <2>3. \A i \in 1 .. L : p[i] \in Node
    BY <2>1, ElementOfSeq
  <2> QED
    BY <2>2, <2>3 DEF Along
<1> HIDE DEF L
<1> DEFINE T == {i \in Nat : i \in 1 .. L => p[i] \in Seen}
<1>2. 0 \in T
  OBVIOUS
<1>3. ASSUME NEW i \in Nat, i \in T PROVE i + 1 \in T
  <2> SUFFICES ASSUME i + 1 \in 1 .. L PROVE p[i + 1] \in Seen
    OBVIOUS
  <2>1. CASE i = 0
    BY <2>1 DEF CutOff
  <2>2. CASE i # 0
    <3>1. i \in 1 .. L - 1 /\ i \in 1 .. L /\ i + 1 \in 1 .. L
      BY <1>1, <2>2
    <3> QED
      BY <1>1, <1>3, <3>1 DEF CutOff
  <2> QED
    BY <2>1, <2>2
<1>4. Nat \subseteq T
  <2> HIDE DEF T
  <2> QED
    BY <1>2, <1>3, SetInduction
<1>5. L \in T /\ L \in 1 .. L
  <2> HIDE DEF T
  <2> QED
    BY <1>1, <1>4
<1> QED
  BY <1>1, <1>5 DEF CutOff

----------------------------------------------------------------------------
(* Plans can be driven *)

(* Where leg i of the plan begins and ends.                                *)
LegFrom(i) == IF i = 1 THEN origin ELSE FarSide(regionSequence[i - 1], regionSequence[i])

LegTo(i) ==
    IF i = Len(regionSequence) THEN destination
    ELSE Overlay[regionSequence[i]][regionSequence[i + 1]].exit

(* A route for leg i: a walk between the leg's ends in its region.         *)
LegDrives(leg, i) ==
    /\ IsWalk(leg)
    /\ leg[1] = LegFrom(i) /\ Last(leg) = LegTo(i)
    /\ \A j \in 1 .. Len(leg) : leg[j] \in PlacesOf[regionSequence[i]]

(* The regions of a plan are those of its request.                         *)
Asked ==
    outcome # "none" =>
        /\ origin \in Node /\ destination \in Node
        /\ regionSequence \in OverlayShortestPaths(RegionOf(origin), RegionOf(destination))

(* A search that is going on is that of the leg at hand, in its region.    *)
SearchIsLegs ==
    search # "idle" =>
        /\ outcome = "open"
        /\ start = LegFrom(Index) /\ goal = LegTo(Index)
        /\ goal \in PlacesOf[Here]
        /\ Seen \subseteq PlacesOf[Here]
        /\ search = "searching" => start \in Seen

(* All legs planned so far are such routes.                                *)
LegsDrive == \A i \in 1 .. Len(legs) : LegDrives(legs[i], i)

(* What is left of the types, and how far a plan got.                      *)
PlanStands ==
    /\ origin \in Node \cup {NoNode} /\ destination \in Node \cup {NoNode}
    /\ Len(legs) <= Len(regionSequence)
    /\ attempt \in 0 .. 2
    /\ outcome \in {"none", "open", "planned", "no_corridor", "not_geocoded", "no_route",
                    "unknown_place", "unavailable"}
    /\ errors \in 0 .. MaxErrors
    /\ outcome = "planned" => Len(legs) = Len(regionSequence) /\ regionSequence # <<>>

(* What the services know: no region forgets what it has loaded.           *)
Knows ==
    /\ informed \subseteq reloaded /\ reloaded \subseteq Region
    /\ graph = KnownRoads(reloaded)

(* What a plan and the search of its leg maintain together.                *)
PlanInv ==
    /\ RootedInv /\ OnTheWay /\ Asked /\ SearchIsLegs /\ LegsDrive /\ PlanStands /\ Knows

(* More regions know more roads.                                           *)
LEMMA KnownGrows ==
    ASSUME NEW S, NEW T, S \subseteq T
    PROVE  KnownRoads(S) \subseteq KnownRoads(T)
  BY DEF KnownRoads

(* Every step keeps them informed.                                         *)
LEMMA StepKeepsKnows == Knows /\ [Next]_vars => Knows'
<1> SUFFICES ASSUME Knows, [Next]_vars PROVE Knows'
  OBVIOUS
<1>1. ASSUME NEW a \in Region, Reload(a) PROVE Knows'
  <2>1. /\ reloaded' = reloaded \cup {a} /\ graph' = graph \cup RoadsOf(a)
        /\ informed' = informed
    BY <1>1 DEF Reload, Load
  <2>2. KnownRoads(reloaded \cup {a}) = KnownRoads(reloaded) \cup RoadsOf(a)
    BY DEF KnownRoads
  <2> QED
    BY <2>1, <2>2 DEF Knows
<1>2. ASSUME NEW o \in Node, NEW d \in Node, Plan(o, d) PROVE Knows'
  BY <1>2 DEF Plan, Knows, searchVars
<1>3. CASE CallRoute
  BY <1>3 DEF CallRoute, BeginSearch, Knows, planVars
<1>4. CASE CallUnknown \/ CallSameNode
  BY <1>4 DEF CallUnknown, CallSameNode, Fail, AddLeg, Knows, searchVars
<1>5. CASE Search
  BY <1>5 DEF Search, SearchStep, Exhausted, Arrive, SkipStale, Expand, Knows, planVars
<1>6. CASE LegFound \/ LegNotFound \/ CallFails \/ CallRefused
  BY <1>6 DEF LegFound, LegNotFound, CallFails, CallRefused, Fail, AddLeg, Abandon, Knows
<1>7. CASE UNCHANGED vars
  BY <1>7 DEF vars, searchVars, planVars, Knows
<1> QED
  BY <1>1, <1>2, <1>3, <1>4, <1>5, <1>6, <1>7 DEF Next, Handle

(* A path of the overlay, region by region.                                *)
LEMMA OverlayPathsLead ==
    ASSUME NEW a, NEW b, NEW p \in OverlayPaths(a, b)
    PROVE  /\ p \in Seq(Region) /\ Len(p) \in Nat /\ Len(p) > 0
           /\ p[1] = a /\ p[Len(p)] = b
           /\ \A i \in 1 .. Len(p) - 1 : p[i + 1] \in DOMAIN Overlay[p[i]]
<1>1. PICK k \in 1 .. Cardinality(Region) : p \in [1 .. k -> Region]
  BY DEF OverlayPaths
<1>2. k \in Nat \ {0}
  <2>1. Cardinality(Region) \in Nat
    BY PlanningAssumption, FS_CardinalityType
  <2> QED
    BY <2>1
<1>3. p \in Seq(Region) /\ Len(p) = k
  BY <1>1, <1>2, SeqDef, LenProperties
<1> QED
  BY <1>2, <1>3 DEF OverlayPaths

(* Every place has a region that it lies in.                               *)
LEMMA PlaceHasRegion ==
    ASSUME NEW n \in Node
    PROVE  RegionOf(n) \in Region /\ n \in PlacesOf[RegionOf(n)]
<1>1. \E r \in Region : n \in PlacesOf[r]
  BY PlanningAssumption
<1> QED
  BY <1>1 DEF RegionOf

(* The leg that an open plan is at.                                        *)
LEMMA LegAtHand ==
    ASSUME OnTheWay, outcome = "open"
    PROVE  /\ Len(legs) \in Nat /\ Len(regionSequence) \in Nat
           /\ Index = Len(legs) + 1
           /\ Index \in 1 .. Len(regionSequence)
           /\ Here = regionSequence[Index] /\ Here \in Region /\ PlacesOf[Here] \subseteq Node
           /\ Loaded \subseteq PlacesOf[Here]
           /\ LegOrigin = LegFrom(Index) /\ LegDestination = LegTo(Index)
<1>1. Len(legs) \in Nat /\ Len(regionSequence) \in Nat /\ Len(legs) < Len(regionSequence)
  BY LenProperties DEF OnTheWay
<1>2. Index \in 1 .. Len(regionSequence) /\ Index = Len(legs) + 1
  BY <1>1 DEF Index
<1>3. Here = regionSequence[Index] /\ Here \in Region
  BY <1>2, ElementOfSeq DEF OnTheWay, Here
<1>4. PlacesOf[Here] \subseteq Node
  BY <1>3, PlanningAssumption
<1>5. LegOrigin = LegFrom(Index) /\ LegDestination = LegTo(Index)
  BY <1>3 DEF LegOrigin, LegFrom, LegDestination, LegTo, LastLeg
<1> QED
  BY <1>1, <1>2, <1>3, <1>4, <1>5 DEF Loaded

(* A leg that can be driven keeps the plan one that can.                   *)
LEMMA AddedLegDrives ==
    ASSUME PlanInv, outcome = "open", NEW path, LegDrives(path, Index), AddLeg(path)
    PROVE  Asked' /\ LegsDrive' /\ PlanStands'
<1>1. /\ OnTheWay /\ Asked /\ LegsDrive /\ PlanStands
  BY DEF PlanInv
<1>2. /\ Len(legs) \in Nat /\ Len(regionSequence) \in Nat /\ Index = Len(legs) + 1
      /\ Index \in 1 .. Len(regionSequence)
  BY <1>1, LegAtHand
<1>3. /\ legs' = Append(legs, path) /\ attempt' = 0
      /\ outcome' = IF LastLeg THEN "planned" ELSE "open"
      /\ UNCHANGED <<origin, destination, regionSequence, errors>>
  BY DEF AddLeg
<1>4. /\ Len(legs') = Len(legs) + 1
      /\ \A i \in 1 .. Len(legs) : legs'[i] = legs[i]
      /\ legs'[Len(legs) + 1] = path
  BY <1>1, LegAdded DEF OnTheWay
<1>5. Asked'
  BY <1>1, <1>3 DEF Asked, AddLeg
<1>6. LegsDrive'
  <2> SUFFICES ASSUME NEW i \in 1 .. Len(legs) + 1 PROVE LegDrives(legs'[i], i)
    BY <1>3, <1>4 DEF LegsDrive, LegDrives, LegFrom, LegTo
  <2>1. CASE i \in 1 .. Len(legs)
    BY <1>1, <1>4, <2>1 DEF LegsDrive
  <2>2. CASE i = Len(legs) + 1
    BY <1>2, <1>4, <2>2
  <2> QED
    BY <1>2, <2>1, <2>2
<1>7. Len(legs') <= Len(regionSequence)
      /\ (outcome' = "planned" => Len(legs') = Len(regionSequence) /\ regionSequence # <<>>)
  <2>1. Len(<<>>) = 0
    BY EmptySeq
  <2> QED
    BY <1>2, <1>3, <1>4, <2>1 DEF LastLeg
<1>8. PlanStands'
  BY <1>1, <1>3, <1>7 DEF PlanStands
<1> QED
  BY <1>5, <1>6, <1>8

(* The route of a search that found the goal is a leg of the plan.         *)
LEMMA RouteDrives ==
    ASSUME PlanInv, search = "found"
    PROVE  LegDrives(Path, Index)
<1>1. /\ RootedInv /\ OnTheWay /\ SearchIsLegs /\ outcome = "open"
  BY DEF PlanInv, SearchIsLegs
<1>2. /\ IsWalk(Path) /\ Path[1] = start /\ Last(Path) = goal
      /\ \A j \in 1 .. Len(Path) : Path[j] \in Seen
  BY <1>1, PathLeadsHome
<1>3. Here = regionSequence[Index]
  BY DEF Here
<1> QED
  BY <1>1, <1>2, <1>3 DEF LegDrives, SearchIsLegs

(* So is the empty leg, from a gateway to itself.                          *)
LEMMA SameNodeDrives ==
    ASSUME PlanInv, CallSameNode
    PROVE  LegDrives(<<LegOrigin>>, Index)
<1>1. OnTheWay /\ outcome = "open" /\ LegOrigin = LegDestination /\ LegOrigin \in Loaded
  BY DEF PlanInv, CallSameNode
<1>2. /\ Here = regionSequence[Index] /\ Here \in Region /\ PlacesOf[Here] \subseteq Node
      /\ Loaded \subseteq PlacesOf[Here]
      /\ LegOrigin = LegFrom(Index) /\ LegDestination = LegTo(Index)
  BY <1>1, LegAtHand
<1> DEFINE n == LegOrigin
           p == <<n>>
<1> HIDE DEF n
<1>3. n \in Node /\ n \in PlacesOf[Here] /\ n = LegFrom(Index) /\ n = LegTo(Index)
  BY <1>1, <1>2 DEF n
<1>4. p \in Seq(Node) /\ Len(p) = 1 /\ p # <<>> /\ p[1] = n /\ Last(p) = n
  BY <1>3 DEF Last
<1>5. 1 .. Len(p) - 1 = {} /\ 1 .. Len(p) = {1}
  BY <1>4
<1>6. LegDrives(p, Index)
  <2> HIDE DEF p
  <2> QED
    BY <1>2, <1>3, <1>4, <1>5 DEF LegDrives, IsWalk
<1> QED
  BY <1>6 DEF n

(* The plan of regions is made before any leg.                             *)
LEMMA PlanStepKeeps ==
    ASSUME PlanInv, NEW o \in Node, NEW d \in Node, Plan(o, d)
    PROVE  Asked' /\ SearchIsLegs' /\ LegsDrive' /\ PlanStands'
<1>1. /\ OnTheWay /\ SearchIsLegs /\ PlanStands /\ outcome = "none"
  BY DEF PlanInv, Plan
<1>2. PICK p \in OverlayShortestPaths(RegionOf(o), RegionOf(d)) :
        /\ regionSequence' = p
        /\ outcome' \in IF p = <<>> THEN {"no_corridor", "not_geocoded"}
                                    ELSE {"open", "not_geocoded"}
  BY DEF Plan
<1>3. /\ origin' = o /\ destination' = d
      /\ UNCHANGED <<searchVars, legs, attempt, errors>>
  BY DEF Plan
<1>4. search = "idle" /\ legs = <<>> /\ Len(legs) = 0
  BY <1>1, EmptySeq DEF SearchIsLegs, OnTheWay
<1>5. p \in Seq(Region) /\ Len(p) \in Nat
  BY <1>2, PathsAreLists, LenProperties
<1>6. Asked'
  BY <1>2, <1>3 DEF Asked
<1>7. SearchIsLegs'
  BY <1>3, <1>4 DEF SearchIsLegs, searchVars
<1>8. LegsDrive'
  <2>1. 1 .. Len(legs') = {}
    BY <1>3, <1>4
  <2> QED
    BY <2>1 DEF LegsDrive
<1>9. PlanStands'
  <2>1. Len(legs') <= Len(regionSequence')
    BY <1>2, <1>3, <1>4, <1>5
  <2>2. outcome' \in {"open", "no_corridor", "not_geocoded"}
    BY <1>2
  <2> QED
    BY <1>1, <1>3, <2>1, <2>2 DEF PlanStands
<1> QED
  BY <1>6, <1>7, <1>8, <1>9

(* A search stays in its region, whose graph has no road out of it.        *)
LEMMA SearchStepStays ==
    ASSUME PlanInv, Search
    PROVE  SearchIsLegs'
<1>1. /\ SearchIsLegs /\ OnTheWay /\ RootedInv /\ outcome = "open" /\ SearchStep
      /\ UNCHANGED planVars
  BY DEF PlanInv, Search
<1>2. /\ Here \in Region /\ PlacesOf[Here] \subseteq Node
  BY <1>1, LegAtHand
<1>3. UNCHANGED <<origin, destination, regionSequence, legs, outcome>>
  BY <1>1 DEF planVars
<1>4. Index' = Index /\ Here' = Here /\ LegFrom(Index)' = LegFrom(Index)
      /\ LegTo(Index)' = LegTo(Index)
  BY <1>3 DEF Index, Here, LegFrom, LegTo
<1>5. search # "idle" /\ UNCHANGED <<start, goal>>
  BY <1>1 DEF SearchStep, Exhausted, Arrive, SkipStale, Expand, Popped
<1>6. Seen' \subseteq PlacesOf[Here] /\ Seen \subseteq Seen'
  <2>1. ASSUME NEW e \in heap, Expand(e)
        PROVE  Seen' \subseteq PlacesOf[Here] /\ Seen \subseteq Seen'
    <3>1. e.node \in Seen /\ Seen' = Seen \cup Improved(e)
      BY <1>1, <2>1, ExpandTypes DEF RootedInv, CertifiedInv
    <3>2. ASSUME NEW m \in Improved(e) PROVE m \in PlacesOf[Here]
      <4>1. <<e.node, m>> \in Road
        BY <1>1, <3>2 DEF Improved, RootedInv, CertifiedInv, SearchInv, SearchTypeOK
      <4>2. e.node \in PlacesOf[Here]
        BY <1>1, <1>5, <3>1 DEF SearchIsLegs
      <4>3. <<e.node, m>>[1] \in PlacesOf[Here] => <<e.node, m>>[2] \in PlacesOf[Here]
        BY <1>2, <4>1, PlanningAssumption
      <4> QED
        BY <4>2, <4>3
    <3> QED
      BY <1>1, <1>5, <3>1, <3>2 DEF SearchIsLegs
  <2>2. ASSUME UNCHANGED gScore PROVE Seen' \subseteq PlacesOf[Here] /\ Seen \subseteq Seen'
    BY <1>1, <1>5, <2>2 DEF SearchIsLegs, Seen
  <2> QED
    BY <1>1, <2>1, <2>2 DEF SearchStep, Exhausted, Arrive, SkipStale
<1>7. start \in Seen
  BY <1>1 DEF RootedInv, CertifiedInv, SearchInv, Started, SearchStep, Exhausted, Arrive,
              SkipStale, Expand, Popped
<1> QED
  BY <1>1, <1>3, <1>4, <1>5, <1>6, <1>7 DEF SearchIsLegs

(* It starts there, between the ends of the leg.                           *)
LEMMA CallRouteStays ==
    ASSUME PlanInv, CallRoute
    PROVE  SearchIsLegs'
<1>1. /\ OnTheWay /\ outcome = "open" /\ BeginSearch(LegOrigin, LegDestination)
      /\ {LegOrigin, LegDestination} \subseteq Loaded
      /\ UNCHANGED planVars
  BY DEF PlanInv, CallRoute
<1>2. /\ Loaded \subseteq PlacesOf[Here]
      /\ LegOrigin = LegFrom(Index) /\ LegDestination = LegTo(Index)
  BY <1>1, LegAtHand
<1>3. UNCHANGED <<origin, destination, regionSequence, legs, outcome>>
  BY <1>1 DEF planVars
<1>4. Index' = Index /\ Here' = Here /\ LegFrom(Index)' = LegFrom(Index)
      /\ LegTo(Index)' = LegTo(Index)
  BY <1>3 DEF Index, Here, LegFrom, LegTo
<1>5. start' = LegOrigin /\ goal' = LegDestination /\ Seen' = {LegOrigin}
  BY <1>1 DEF BeginSearch, Seen
<1> QED
  BY <1>1, <1>2, <1>3, <1>4, <1>5 DEF SearchIsLegs

(* Every step keeps the plan together.                                     *)
LEMMA StepKeepsPlan == PlanInv /\ [Next]_vars => PlanInv'
<1> SUFFICES ASSUME PlanInv, [Next]_vars PROVE PlanInv'
  OBVIOUS
<1>1. /\ RootedInv /\ OnTheWay /\ Asked /\ SearchIsLegs /\ LegsDrive /\ PlanStands /\ Knows
  BY DEF PlanInv
<1>2. OnTheWay' /\ [SearchNext]_searchVars
  BY <1>1, StepKeepsWay, PlanStepIsSearchStep
<1>3. RootedInv' /\ Knows'
  BY <1>1, <1>2, StepKeepsRooted, StepKeepsKnows
<1> SUFFICES Asked' /\ SearchIsLegs' /\ LegsDrive' /\ PlanStands'
  BY <1>2, <1>3 DEF PlanInv
<1>4. ASSUME NEW o \in Node, NEW d \in Node, Plan(o, d)
      PROVE  Asked' /\ SearchIsLegs' /\ LegsDrive' /\ PlanStands'
  BY <1>4, PlanStepKeeps
<1>5. CASE CallRoute \/ Search
  <2>1. UNCHANGED <<origin, destination, regionSequence, legs, attempt, outcome, errors>>
    BY <1>5 DEF CallRoute, Search, planVars
  <2>2. SearchIsLegs'
    BY <1>5, CallRouteStays, SearchStepStays
  <2> QED
    BY <1>1, <2>1, <2>2 DEF Asked, LegsDrive, LegDrives, LegFrom, LegTo, PlanStands
<1>6. CASE CallUnknown \/ LegNotFound
  <2>1. /\ outcome = "open" /\ outcome' \in {"unknown_place", "no_route"} /\ search' = "idle"
        /\ UNCHANGED <<origin, destination, regionSequence, legs, attempt, errors>>
    BY <1>6 DEF CallUnknown, LegNotFound, Fail, Abandon, searchVars
  <2> QED
    BY <1>1, <2>1 DEF Asked, SearchIsLegs, LegsDrive, LegDrives, LegFrom, LegTo, PlanStands
<1>7. CASE CallFails \/ CallRefused
  <2>1. /\ outcome = "open" /\ outcome' \in {"open", "unavailable"} /\ search' = "idle"
        /\ errors < MaxErrors /\ errors' = errors + 1
        /\ attempt' = attempt \/ (attempt # 2 /\ attempt' = attempt + 1)
        /\ UNCHANGED <<origin, destination, regionSequence, legs>>
    BY <1>7 DEF CallFails, CallRefused, Abandon, GiveUp
  <2>2. errors' \in 0 .. MaxErrors /\ attempt' \in 0 .. 2
    BY <1>1, <2>1, PlanningAssumption DEF PlanStands
  <2> QED
    BY <1>1, <2>1, <2>2 DEF Asked, SearchIsLegs, LegsDrive, LegDrives, LegFrom, LegTo,
                            PlanStands
<1>8. CASE CallSameNode
  <2>1. outcome = "open" /\ search = "idle" /\ AddLeg(<<LegOrigin>>) /\ UNCHANGED searchVars
    BY <1>8 DEF CallSameNode
  <2>2. Asked' /\ LegsDrive' /\ PlanStands'
    BY <1>8, <2>1, SameNodeDrives, AddedLegDrives
  <2> QED
    BY <2>1, <2>2 DEF SearchIsLegs, searchVars
<1>9. CASE LegFound
  <2>1. outcome = "open" /\ search = "found" /\ AddLeg(Path) /\ search' = "idle"
    BY <1>9 DEF LegFound, Abandon
  <2>2. Asked' /\ LegsDrive' /\ PlanStands'
    BY <2>1, RouteDrives, AddedLegDrives
  <2> QED
    BY <2>1, <2>2 DEF SearchIsLegs
<1>10. CASE (\E a \in Region : Reload(a)) \/ UNCHANGED vars
  <2>1. UNCHANGED <<search, start, goal, gScore, origin, destination, regionSequence, legs,
                    attempt, outcome, errors>>
    BY <1>10 DEF Reload, Load, vars, planVars, searchVars
  <2>2. Seen' = Seen
    BY <2>1 DEF Seen
  <2> QED
    BY <1>1, <2>1, <2>2 DEF Asked, SearchIsLegs, LegsDrive, LegDrives, LegFrom, LegTo,
                            PlanStands, Index, Here
<1> QED
  BY <1>4, <1>5, <1>6, <1>7, <1>8, <1>9, <1>10 DEF Next, Handle

(* Before the request there is no plan.                                    *)
LEMMA InitKeepsPlan == Init => PlanInv
<1> SUFFICES ASSUME Init PROVE PlanInv
  OBVIOUS
<1>1. ToSet(<<>>) = {} /\ <<>> \in Seq({}) /\ <<>> \in Seq(Region) /\ Len(<<>>) = 0
  BY EmptySeq, LenProperties DEF ToSet
<1>2. RootedInv
  BY SearchInitKeeps DEF Init, SearchInit, RootedInv, CertifiedInv, Certified
<1>3. 1 .. Len(legs) = {}
  BY <1>1 DEF Init
<1>4. OnTheWay /\ Knows
  BY <1>1 DEF OnTheWay, Knows, Init
<1>5. MaxErrors \in Nat
  BY PlanningAssumption
<1> QED
  BY <1>1, <1>2, <1>3, <1>4, <1>5 DEF PlanInv, Init, SearchInit, Asked, SearchIsLegs, LegsDrive,
                                      PlanStands

(* The invariant holds of every plan.                                      *)
LEMMA PlanInvariant == Spec => []PlanInv
  BY InitKeepsPlan, StepKeepsPlan, PTL DEF Spec

(* Type correctness of the planning: a plan has no more legs than regions, *)
(* a call no more than three attempts.                                     *)
THEOREM PlanTypes == Spec => []PlanTypeOK
<1>1. PlanInv => PlanTypeOK
  <2> SUFFICES ASSUME PlanInv PROVE PlanTypeOK
    OBVIOUS
  <2>1. SearchTypeOK /\ OnTheWay /\ PlanStands /\ LegsDrive /\ Knows
    BY DEF PlanInv, RootedInv, CertifiedInv, SearchInv
  <2>2. legs \in Seq(Seq(Node))
    <3>1. \A i \in 1 .. Len(legs) : legs[i] \in Seq(Node)
      BY <2>1 DEF LegsDrive, LegDrives, IsWalk
    <3>2. legs = [i \in 1 .. Len(legs) |-> legs[i]] /\ Len(legs) \in Nat
      BY <2>1, LenProperties DEF OnTheWay
    <3> DEFINE S == Seq(Node)
    <3> HIDE DEF S
    <3>3. legs \in Seq(S)
      BY <3>1, <3>2, SeqDef DEF S
    <3> QED
      BY <3>3 DEF S
  <2> QED
    BY <2>1, <2>2 DEF PlanTypeOK, PlanStands, OnTheWay, Knows
<1> QED
  BY <1>1, PlanInvariant, PTL

(* Every plan answered can be driven from its origin to its destination,   *)
(* on any network and overlay, whatever calls failed on the way.           *)
THEOREM PlansAreDrivable == Spec => []PlanIsDrivable
<1>1. PlanInv => PlanIsDrivable
  <2> SUFFICES ASSUME PlanInv, outcome = "planned"
               PROVE  /\ Len(legs) = Len(regionSequence)
                      /\ legs[1][1] = origin
                      /\ Last(legs[Len(legs)]) = destination
                      /\ \A i \in 1 .. Len(legs) :
                           /\ \A j \in 1 .. Len(legs[i]) :
                                 legs[i][j] \in PlacesOf[regionSequence[i]]
                           /\ \A j \in 1 .. Len(legs[i]) - 1 :
                                 <<legs[i][j], legs[i][j + 1]>> \in Road
                      /\ \A i \in 1 .. Len(legs) - 1 :
                           /\ Last(legs[i])
                              = Overlay[regionSequence[i]][regionSequence[i + 1]].exit
                           /\ legs[i + 1][1]
                              = Overlay[regionSequence[i]][regionSequence[i + 1]].entry
    BY DEF PlanIsDrivable
  <2>1. /\ OnTheWay /\ PlanStands /\ LegsDrive
        /\ Len(legs) = Len(regionSequence) /\ regionSequence # <<>>
    BY DEF PlanInv, PlanStands
  <2> DEFINE L == Len(legs)
  <2>2. L \in Nat /\ L > 0 /\ L = Len(regionSequence)
    BY <2>1, LenProperties, EmptySeq DEF OnTheWay
  <2> HIDE DEF L
  <2>3. \A i \in 1 .. L : /\ IsWalk(legs[i])
                          /\ legs[i][1] = LegFrom(i) /\ Last(legs[i]) = LegTo(i)
                          /\ \A j \in 1 .. Len(legs[i]) : legs[i][j] \in PlacesOf[regionSequence[i]]
    BY <2>1 DEF LegsDrive, LegDrives, L
  <2>4. LegFrom(1) = origin /\ LegTo(L) = destination
    BY <2>2 DEF LegFrom, LegTo
  <2>5. 1 \in 1 .. L /\ L \in 1 .. L
    BY <2>2
  <2>6. ASSUME NEW i \in 1 .. L - 1
        PROVE  /\ Last(legs[i]) = Overlay[regionSequence[i]][regionSequence[i + 1]].exit
               /\ legs[i + 1][1] = Overlay[regionSequence[i]][regionSequence[i + 1]].entry
    <3>1. i \in 1 .. L /\ i + 1 \in 1 .. L /\ i # L /\ i + 1 # 1 /\ i + 1 - 1 = i
      BY <2>2
    <3>2. /\ LegTo(i) = Overlay[regionSequence[i]][regionSequence[i + 1]].exit
          /\ LegFrom(i + 1) = Overlay[regionSequence[i]][regionSequence[i + 1]].entry
      BY <2>2, <3>1 DEF LegFrom, LegTo, FarSide
    <3> QED
      BY <2>3, <3>1, <3>2
  <2>7. \A i \in 1 .. L :
          /\ \A j \in 1 .. Len(legs[i]) : legs[i][j] \in PlacesOf[regionSequence[i]]
          /\ \A j \in 1 .. Len(legs[i]) - 1 : <<legs[i][j], legs[i][j + 1]>> \in Road
    BY <2>3 DEF IsWalk
  <2> QED
    BY <2>1, <2>3, <2>4, <2>5, <2>6, <2>7 DEF L
<1> QED
  BY <1>1, PlanInvariant, PTL

----------------------------------------------------------------------------
(* Plans are the shortest *)

(* No walk along the roads between its ends is shorter than this leg.      *)
IsShortest(leg, roads) ==
    \A p \in Seq(Node) :
        IsWalk(p) /\ Along(p, roads) /\ p[1] = leg[1] /\ Last(p) = Last(leg) =>
            PathKm(leg) <= PathKm(p)

(* So it is for a leg to a place whose estimates can be trusted.           *)
TrustedIsShortest(leg, roads) == ConsistentFor(Last(leg)) => IsShortest(leg, roads)

ShortInv ==
    PlanInv /\ \A i \in 1 .. Len(legs) : TrustedIsShortest(legs[i], KnownRoads(informed))

(* Where the estimate is consistent the route is as long as the distance   *)
(* returned, and no walk between its ends is shorter.                      *)
LEMMA RouteIsShortest ==
    ASSUME RootedInv, search = "found", ConsistentFor(goal)
    PROVE  IsShortest(Path, graph) /\ PathKm(Path) = total
<1>1. /\ IsWalk(Path) /\ Along(Path, graph) /\ PathKm(Path) <= total
      /\ Path[1] = start /\ Last(Path) = goal
  BY PathLeadsHome
<1>2. /\ SearchInv /\ SearchTypeOK /\ start \in Node /\ goal \in Node /\ total \in Nat
  BY DEF RootedInv, CertifiedInv, Certified, SearchInv, SearchTypeOK, Rooted
<1>3. \A p : IsWalk(p) /\ Along(p, graph) /\ p[1] = start /\ Last(p) = goal => total <= PathKm(p)
  BY <1>2, NoWalkIsShorter
<1>4. \A p : IsWalk(p) => PathKm(p) \in Nat
  BY PathKmIsNat
<1> DEFINE d == PathKm(Path)
<1>5. d \in Nat /\ d <= total /\ total <= d
  BY <1>1, <1>3, <1>4
<1>6. ASSUME NEW p \in Seq(Node), IsWalk(p), Along(p, graph), p[1] = Path[1], Last(p) = Last(Path)
      PROVE  PathKm(Path) <= PathKm(p)
  <2> DEFINE x == PathKm(p)
  <2>1. total <= x /\ x \in Nat
    BY <1>1, <1>3, <1>4, <1>6
  <2> HIDE DEF d, x
  <2>2. d <= x
    BY <1>2, <1>5, <2>1
  <2> QED
    BY <2>2 DEF d, x
<1>7. IsShortest(Path, graph)
  BY <1>6 DEF IsShortest
<1>8. d = total
  <2> HIDE DEF d
  <2> QED
    BY <1>2, <1>5
<1> QED
  BY <1>7, <1>8

(* Nothing is shorter than to stay.                                        *)
LEMMA SingleNodeIsShortest ==
    ASSUME NEW n \in Node, NEW roads
    PROVE  IsShortest(<<n>>, roads)
<1> DEFINE q == <<n>>
<1>1. q \in Seq(Node) /\ Len(q) = 1 /\ q # <<>>
  OBVIOUS
<1>2. 1 .. Len(q) - 1 = {}
  BY <1>1
<1> HIDE DEF q
<1>3. IsWalk(q)
  BY <1>1, <1>2 DEF IsWalk
<1>4. PathKm(q) = 0
  BY <1>1, <1>3, PathKmDef DEF KmsOf
<1>5. \A p : IsWalk(p) => PathKm(p) \in Nat
  BY PathKmIsNat
<1>6. IsShortest(q, roads)
  <2> SUFFICES ASSUME NEW p \in Seq(Node), IsWalk(p) PROVE PathKm(q) <= PathKm(p)
    BY DEF IsShortest
  <2> DEFINE x == PathKm(p)
  <2>1. x \in Nat
    BY <1>5
  <2> HIDE DEF x
  <2>2. 0 <= x
    BY <2>1
  <2> QED
    BY <1>4, <2>2 DEF x
<1> QED
  BY <1>6 DEF q

(* One leg more that is the shortest.                                      *)
LEMMA AddedLegIsShortest ==
    ASSUME ShortInv, NEW path, TrustedIsShortest(path, KnownRoads(informed)), AddLeg(path)
    PROVE  \A i \in 1 .. Len(legs') : TrustedIsShortest(legs'[i], KnownRoads(informed'))
<1>1. OnTheWay
  BY DEF ShortInv, PlanInv
<1>2. /\ Len(legs') = Len(legs) + 1 /\ Len(legs) \in Nat
      /\ \A i \in 1 .. Len(legs) : legs'[i] = legs[i]
      /\ legs'[Len(legs) + 1] = path
      /\ informed' = informed
  BY <1>1, LegAdded DEF OnTheWay, AddLeg
<1> SUFFICES ASSUME NEW i \in 1 .. Len(legs')
             PROVE  TrustedIsShortest(legs'[i], KnownRoads(informed))
  BY <1>2
<1>3. CASE i \in 1 .. Len(legs)
  BY <1>2, <1>3 DEF ShortInv
<1>4. CASE i = Len(legs) + 1
  BY <1>2, <1>4
<1> QED
  BY <1>2, <1>3, <1>4

(* Every step keeps such legs the shortest: what a service has loaded      *)
(* since the request can only add to the roads compared.                   *)
LEMMA StepKeepsShort == ShortInv /\ [Next]_vars => ShortInv'
<1> SUFFICES ASSUME ShortInv, [Next]_vars, PlanInv' PROVE ShortInv'
  BY StepKeepsPlan DEF ShortInv
<1> SUFFICES \A i \in 1 .. Len(legs') : TrustedIsShortest(legs'[i], KnownRoads(informed'))
  BY DEF ShortInv, TrustedIsShortest, IsShortest, ConsistentFor, KnownRoads, RoadsOf
<1>1. CASE CallSameNode
  <2>1. AddLeg(<<LegOrigin>>) /\ outcome = "open" /\ LegOrigin \in Loaded
    BY <1>1 DEF CallSameNode
  <2>2. Loaded \subseteq PlacesOf[Here] /\ PlacesOf[Here] \subseteq Node
    BY <2>1, LegAtHand DEF ShortInv, PlanInv
  <2>3. TrustedIsShortest(<<LegOrigin>>, KnownRoads(informed))
    BY <2>1, <2>2, SingleNodeIsShortest DEF TrustedIsShortest
  <2> QED
    BY <2>1, <2>3, AddedLegIsShortest
<1>2. CASE LegFound
  <2>1. AddLeg(Path) /\ search = "found"
    BY <1>2 DEF LegFound
  <2>2. RootedInv /\ goal \in Node
    BY <2>1 DEF ShortInv, PlanInv, RootedInv, CertifiedInv, Certified, SearchInv, SearchTypeOK
  <2>3. KnownRoads(informed) \subseteq graph
    BY KnownGrows DEF ShortInv, PlanInv, Knows
  <2>4. TrustedIsShortest(Path, KnownRoads(informed))
    <3> SUFFICES ASSUME ConsistentFor(Last(Path)) PROVE IsShortest(Path, KnownRoads(informed))
      BY DEF TrustedIsShortest
    <3>1. IsShortest(Path, graph)
      BY <2>1, <2>2, RouteIsShortest, PathLeadsHome
    <3> QED
      BY <2>3, <3>1 DEF IsShortest, Along
  <2> QED
    BY <2>1, <2>4, AddedLegIsShortest
<1>3. ASSUME NEW o \in Node, NEW d \in Node, Plan(o, d)
      PROVE  \A i \in 1 .. Len(legs') : TrustedIsShortest(legs'[i], KnownRoads(informed'))
  <2>1. legs' = <<>> /\ Len(<<>>) = 0
    BY <1>3, EmptySeq DEF Plan, ShortInv, PlanInv, OnTheWay
  <2> QED
    BY <2>1
<1>4. ASSUME UNCHANGED <<legs, informed>>
      PROVE  \A i \in 1 .. Len(legs') : TrustedIsShortest(legs'[i], KnownRoads(informed'))
  BY <1>4 DEF ShortInv
<1>5. CallRoute \/ CallUnknown \/ Search \/ LegNotFound \/ CallFails \/ CallRefused
        \/ (\E a \in Region : Reload(a)) \/ UNCHANGED vars => UNCHANGED <<legs, informed>>
  BY DEF CallRoute, CallUnknown, Search, LegNotFound, CallFails, CallRefused, Reload, Fail,
         vars, planVars
<1> QED
  BY <1>1, <1>2, <1>3, <1>4, <1>5 DEF Next, Handle

(* Every step starts from legs that are.                                   *)
LEMMA ShortInvariant == Spec => []ShortInv
<1>1. Init => ShortInv
  <2> SUFFICES ASSUME Init PROVE ShortInv
    OBVIOUS
  <2>1. 1 .. Len(legs) = {}
    BY EmptySeq DEF Init
  <2> QED
    BY <2>1, InitKeepsPlan DEF ShortInv
<1> QED
  BY <1>1, StepKeepsShort, PTL DEF Spec

(* No leg of a plan is longer than any path between its ends over the      *)
(* roads that were loaded when the plan was asked for, on any network,     *)
(* where no road is shorter than what it gains on the estimates to the end *)
(* of the leg.                                                             *)
TrustedLegsAreShortest ==
    \A i \in 1 .. Len(legs) : ConsistentFor(Last(legs[i])) =>
        \A p \in KnownPathsBetween(legs[i][1], Last(legs[i])) : PathKm(legs[i]) <= PathKm(p)

THEOREM TrustedPlansAreShortest == Spec => []TrustedLegsAreShortest
<1>1. ShortInv => TrustedLegsAreShortest
  <2> SUFFICES ASSUME ShortInv, NEW i \in 1 .. Len(legs), ConsistentFor(Last(legs[i])),
                      NEW p \in KnownPathsBetween(legs[i][1], Last(legs[i]))
               PROVE  PathKm(legs[i]) <= PathKm(p)
    BY DEF TrustedLegsAreShortest
  <2>1. /\ p \in Paths /\ p[1] = legs[i][1] /\ Last(p) = Last(legs[i])
        /\ Along(p, KnownRoads(informed))
    BY DEF KnownPathsBetween, Along
  <2>2. IsWalk(p) /\ p \in Seq(Node)
    BY <2>1, PathsAreWalks DEF IsWalk
  <2>3. IsShortest(legs[i], KnownRoads(informed))
    BY DEF ShortInv, TrustedIsShortest
  <2> QED
    BY <2>1, <2>2, <2>3 DEF IsShortest
<1> QED
  BY <1>1, ShortInvariant, PTL

(* The distance that a route-service answers is that of its route where    *)
(* the estimate is consistent, and nowhere less.                           *)
THEOREM DistancesFitRoutes == Spec => []DistanceFitsRoute
<1>1. PlanInv => DistanceFitsRoute
  <2> SUFFICES ASSUME PlanInv, search = "found"
               PROVE  /\ PathKm(Path) <= total
                      /\ ConsistentFor(goal) => PathKm(Path) = total
    BY DEF DistanceFitsRoute
  <2>1. RootedInv
    BY DEF PlanInv
  <2> QED
    BY <2>1, PathLeadsHome, RouteIsShortest
<1> QED
  BY <1>1, PlanInvariant, PTL

----------------------------------------------------------------------------
(* Refusals *)

(* No path over the roads known at the request leads from the beginning of *)
(* leg i to its end.                                                       *)
Unreached(i) == KnownPathsBetween(LegFrom(i), LegTo(i)) = {}

(* An end of the journey is new, and its service did not know at the       *)
(* request.                                                                *)
UnknownEnd == \E place \in {origin, destination} \cap Late : RegionOf(place) \notin informed

(* What each way to refuse a journey rests on.                             *)
RefusedInv ==
    /\ PlanInv
    /\ outcome = "no_route" => Index \in 1 .. Len(regionSequence) /\ Unreached(Index)
    /\ outcome = "no_corridor" => regionSequence = <<>>
    /\ outcome = "unknown_place" => UnknownEnd

(* A search that ran dry leaves a leg that no path over the roads known    *)
(* covers.                                                                 *)
LEMMA DryLegCannotBeDriven ==
    ASSUME PlanInv, search = "none"
    PROVE  Index \in 1 .. Len(regionSequence) /\ Unreached(Index)
<1>1. /\ OnTheWay /\ outcome = "open" /\ start = LegFrom(Index) /\ goal = LegTo(Index)
      /\ CutOff /\ Seen \subseteq Node
  BY DEF PlanInv, SearchIsLegs, RootedInv, CertifiedInv, Certified, SearchInv, SearchTypeOK
<1>2. Index \in 1 .. Len(regionSequence)
  BY <1>1, LegAtHand
<1>3. KnownRoads(informed) \subseteq graph
  BY KnownGrows DEF PlanInv, Knows
<1>4. Unreached(Index)
  <2> SUFFICES ASSUME NEW p \in KnownPathsBetween(start, goal) PROVE FALSE
    BY <1>1 DEF Unreached
  <2>1. p \in Paths /\ p[1] = start /\ Last(p) = goal /\ Along(p, graph)
    BY <1>3 DEF KnownPathsBetween, Along
  <2> QED
    BY <1>1, <2>1, PathsAreWalks, NoWalkLeads
<1> QED
  BY <1>2, <1>4

(* The gateways were there from the start, so what a service does not know *)
(* is the origin or the destination, brought by an import that the service *)
(* had not loaded when it was asked.                                       *)
LEMMA UnknownIsLate ==
    ASSUME PlanInv, CallUnknown
    PROVE  UnknownEnd
<1>1. /\ OnTheWay /\ Asked /\ outcome = "open"
      /\ ~({LegOrigin, LegDestination} \subseteq Loaded)
  BY DEF PlanInv, CallUnknown
<1>2. /\ Index \in 1 .. Len(regionSequence) /\ Here = regionSequence[Index]
      /\ LegOrigin = LegFrom(Index) /\ LegDestination = LegTo(Index)
      /\ Here \in Region /\ Len(regionSequence) \in Nat
  BY <1>1, LegAtHand
<1> DEFINE a == RegionOf(origin)
           b == RegionOf(destination)
           R == regionSequence
           L == Len(regionSequence)
<1>3. /\ origin \in PlacesOf[a] /\ destination \in PlacesOf[b]
  BY <1>1, PlaceHasRegion DEF Asked
<1>4. R \in OverlayPaths(a, b)
  <2>1. R # <<>>
    BY <1>2, EmptySeq
  <2>2. R \in OverlayShortestPaths(a, b)
    BY <1>1 DEF Asked
  <2> HIDE DEF a, b, R
  <2> QED
    BY <2>1, <2>2 DEF OverlayShortestPaths
<1>5. /\ R \in Seq(Region) /\ R[1] = a /\ R[L] = b
      /\ \A i \in 1 .. L - 1 : R[i + 1] \in DOMAIN Overlay[R[i]]
  <2> HIDE DEF a, b
  <2> QED
    BY <1>4, OverlayPathsLead
<1>6. \A i \in 1 .. L : R[i] \in Region
  BY <1>5, ElementOfSeq
<1>7. \A i \in 1 .. L - 1 :
         /\ Overlay[R[i]][R[i + 1]].exit \in PlacesOf[R[i]] \ Late
         /\ Overlay[R[i]][R[i + 1]].entry \in PlacesOf[R[i + 1]] \ Late
  <2> SUFFICES ASSUME NEW i \in 1 .. L - 1
               PROVE  /\ Overlay[R[i]][R[i + 1]].exit \in PlacesOf[R[i]] \ Late
                      /\ Overlay[R[i]][R[i + 1]].entry \in PlacesOf[R[i + 1]] \ Late
    OBVIOUS
  <2>1. i \in 1 .. L /\ i + 1 \in 1 .. L
    BY <1>2
  <2>2. R[i] \in Region /\ R[i + 1] \in Region /\ R[i + 1] \in DOMAIN Overlay[R[i]]
    BY <1>5, <1>6, <2>1
  <2> QED
    BY <2>2, OverlayAssumption
<1>8. /\ LegOrigin \in PlacesOf[Here]
      /\ LegOrigin \in Late => LegOrigin = origin /\ Here = a
  <2>1. CASE Index = 1
    <3>1. LegOrigin = origin /\ Here = a
      BY <1>2, <1>5, <2>1 DEF LegFrom
    <3> QED
      BY <1>3, <3>1
  <2>2. CASE Index # 1
    <3>1. Index - 1 \in 1 .. L - 1 /\ Index - 1 + 1 = Index
      BY <1>2, <2>2
    <3>2. LegOrigin = Overlay[R[Index - 1]][R[Index]].entry
      BY <1>2, <2>2 DEF LegFrom, FarSide
    <3> HIDE DEF R, L
    <3>3. LegOrigin \in PlacesOf[R[Index]] \ Late
      BY <1>7, <3>1, <3>2
    <3> QED
      BY <1>2, <3>3 DEF R
  <2> QED
    BY <2>1, <2>2
<1>9. /\ LegDestination \in PlacesOf[Here]
      /\ LegDestination \in Late => LegDestination = destination /\ Here = b
  <2>1. CASE Index = L
    <3>1. LegDestination = destination /\ Here = b
      BY <1>2, <1>5, <2>1 DEF LegTo
    <3> QED
      BY <1>3, <3>1
  <2>2. CASE Index # L
    <3>1. Index \in 1 .. L - 1
      BY <1>2, <2>2
    <3>2. LegDestination = Overlay[R[Index]][R[Index + 1]].exit
      BY <1>2, <2>2 DEF LegTo
    <3> HIDE DEF R, L
    <3>3. LegDestination \in PlacesOf[R[Index]] \ Late
      BY <1>7, <3>1, <3>2
    <3> QED
      BY <1>2, <3>3 DEF R
  <2> QED
    BY <2>1, <2>2
<1>10. (LegOrigin \in Late \/ LegDestination \in Late) /\ Here \notin reloaded
  BY <1>1, <1>8, <1>9 DEF Loaded
<1>11. Here \notin informed
  BY <1>10 DEF PlanInv, Knows
<1> QED
  BY <1>8, <1>9, <1>10, <1>11 DEF UnknownEnd

(* Every step keeps to the reasons of a refusal.                           *)
LEMMA StepKeepsRefused == RefusedInv /\ [Next]_vars => RefusedInv'
<1> SUFFICES ASSUME RefusedInv, [Next]_vars, PlanInv' PROVE RefusedInv'
  BY StepKeepsPlan DEF RefusedInv
<1>1. PlanInv
  BY DEF RefusedInv
<1>2. ASSUME NEW o \in Node, NEW d \in Node, Plan(o, d) PROVE RefusedInv'
  <2>1. outcome' \in {"no_corridor", "open", "not_geocoded"}
        /\ (outcome' = "no_corridor" => regionSequence' = <<>>)
    BY <1>2 DEF Plan
  <2> QED
    BY <2>1 DEF RefusedInv
<1>3. CASE LegNotFound
  <2>1. /\ search = "none" /\ outcome' = "no_route"
        /\ UNCHANGED <<origin, destination, regionSequence, legs, informed>>
    BY <1>3 DEF LegNotFound, Fail
  <2>2. Index \in 1 .. Len(regionSequence) /\ Unreached(Index)
    BY <1>1, <2>1, DryLegCannotBeDriven
  <2> QED
    BY <2>1, <2>2 DEF RefusedInv, Unreached, KnownPathsBetween, LegFrom, LegTo, Index
<1>4. CASE CallUnknown
  <2>1. outcome' = "unknown_place" /\ UNCHANGED <<origin, destination, informed>>
    BY <1>4 DEF CallUnknown, Fail
  <2> QED
    BY <1>1, <1>4, <2>1, UnknownIsLate DEF RefusedInv, UnknownEnd
<1>5. CASE CallRoute \/ CallSameNode \/ Search \/ LegFound \/ CallFails \/ CallRefused
  <2>1. outcome' \in {"open", "planned", "unavailable"}
    BY <1>5 DEF CallRoute, CallSameNode, Search, LegFound, CallFails, CallRefused, AddLeg, planVars
  <2> QED
    BY <2>1 DEF RefusedInv
<1>6. CASE (\E a \in Region : Reload(a)) \/ UNCHANGED vars
  <2>1. UNCHANGED <<origin, destination, regionSequence, legs, outcome, informed>>
    BY <1>6 DEF Reload, vars, planVars
  <2> QED
    BY <2>1 DEF RefusedInv, UnknownEnd, Unreached, KnownPathsBetween, LegFrom, LegTo, Index
<1> QED
  BY <1>2, <1>3, <1>4, <1>5, <1>6 DEF Next, Handle

(* There is one line of regions to try, and one leg of it cannot be        *)
(* driven.                                                                 *)
LEMMA RefusedIsTrue == RefusedInv => RefusalIsTrue
<1> SUFFICES ASSUME RefusedInv PROVE RefusalIsTrue
  OBVIOUS
<1> SUFFICES ASSUME outcome \in {"no_route", "no_corridor"},
                    NEW p \in OverlayPaths(RegionOf(origin), RegionOf(destination))
             PROVE  ~Drivable(p)
  BY DEF RefusalIsTrue, RefusedInv, UnknownEnd
<1> DEFINE a == RegionOf(origin)
           b == RegionOf(destination)
<1>1. /\ a \in Region /\ b \in Region
      /\ regionSequence \in OverlayShortestPaths(a, b)
  BY PlaceHasRegion DEF RefusedInv, PlanInv, Asked
<1> HIDE DEF a, b
<1>2. p \in OverlayPaths(a, b) /\ p # <<>> /\ <<>> \notin OverlayPaths(a, b)
  <2>1. p \in OverlayPaths(a, b)
    BY DEF a, b
  <2>2. \A q \in OverlayPaths(a, b) : Len(q) > 0
    BY OverlayPathsLead
  <2> QED
    BY <2>1, <2>2, EmptySeq
<1>3. regionSequence # <<>>
  BY <1>1, <1>2 DEF OverlayShortestPaths
<1>4. p = regionSequence
  <2>1. regionSequence \in OverlayPaths(a, b)
    BY <1>1, <1>3 DEF OverlayShortestPaths
  <2> QED
    BY <1>1, <1>2, <2>1, OverlayAssumption
<1>5. Index \in 1 .. Len(p) /\ Unreached(Index)
  BY <1>3, <1>4 DEF RefusedInv
<1>6. KnownPathsBetween(LegFrom(Index), LegTo(Index)) = {}
  BY <1>5 DEF Unreached
<1> QED
  BY <1>4, <1>5, <1>6 DEF Drivable, LegFrom, LegTo, FarSide

(* A journey is refused for want of a road only when none was loaded at    *)
(* the time of the request, and for an unknown place only when an import   *)
(* has added it to a region whose service had not restarted since: after   *)
(* the restart of every service refusals are true of the whole network.    *)
THEOREM RefusalsAreTrue == Spec => []RefusalIsTrue
<1>1. Init => RefusedInv
  BY InitKeepsPlan DEF RefusedInv, Init
<1>2. RefusedInv /\ [Next]_vars => RefusedInv'
  BY StepKeepsRefused
<1> QED
  BY <1>1, <1>2, RefusedIsTrue, PTL DEF Spec
=============================================================================
