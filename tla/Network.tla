------------------------------ MODULE Network ------------------------------
(***************************************************************************)
(* The road network of import_custom_graph.py, which every region of the   *)
(* system imports, the border that journey-management knows, and the       *)
(* great-circle estimate of the route-services, in hundreds of metres.     *)
(***************************************************************************)
EXTENDS Integers, FiniteSets

(* NODES: latitude and longitude in 1/10000 degree.                        *)
Position == [
    vella       |-> <<425063, 15218>>,      escaldes     |-> <<425072, 15341>>,
    encamp      |-> <<425350, 15800>>,      canillo      |-> <<425667, 15973>>,
    ordino      |-> <<425560, 15333>>,      sant_julia   |-> <<424635, 14914>>,
    la_massana  |-> <<425452, 15144>>,      arinsal      |-> <<425733, 14847>>,
    vientiane   |-> <<179757, 1026331>>,    luang_prabang |-> <<198845, 1021351>>,
    pakse       |-> <<151167, 1057833>>,    savannakhet  |-> <<165500, 1047500>>,
    thakhek     |-> <<174000, 1048167>>,    border_laos  |-> <<139200, 1057900>>,
    phnom_penh  |-> <<115625, 1049160>>,    siem_reap    |-> <<133671, 1038597>>,
    battambang  |-> <<130957, 1031990>>,    kompong_cham |-> <<119927, 1054635>>,
    stung_treng |-> <<135260, 1059683>>,    kratie       |-> <<124833, 1060167>>,
    border_camb |-> <<139200, 1057900>>]

Place == DOMAIN Position

PlacesByRegion == [
    andorra  |-> {"vella", "escaldes", "encamp", "canillo", "ordino", "sant_julia",
                  "la_massana", "arinsal"},
    laos     |-> {"vientiane", "luang_prabang", "pakse", "savannakhet", "thakhek",
                  "border_laos"},
    cambodia |-> {"phnom_penh", "siem_reap", "battambang", "kompong_cham", "stung_treng",
                  "kratie", "border_camb"}]

(* EDGES, each of them once.                                               *)
OneWay == {
    <<"vella", "escaldes", 20>>, <<"vella", "sant_julia", 75>>, <<"vella", "ordino", 100>>,
    <<"escaldes", "encamp", 55>>, <<"encamp", "canillo", 60>>, <<"ordino", "canillo", 120>>,
    <<"la_massana", "arinsal", 80>>,
    <<"vientiane", "thakhek", 2200>>, <<"thakhek", "savannakhet", 1250>>,
    <<"savannakhet", "pakse", 2300>>, <<"pakse", "border_laos", 1000>>,
    <<"vientiane", "luang_prabang", 3800>>,
    <<"border_camb", "stung_treng", 450>>, <<"stung_treng", "kratie", 1400>>,
    <<"kratie", "kompong_cham", 1450>>, <<"kompong_cham", "phnom_penh", 1200>>,
    <<"phnom_penh", "battambang", 2950>>, <<"battambang", "siem_reap", 950>>,
    <<"siem_reap", "stung_treng", 2500>>}

(* bidir: a road runs both ways.                                           *)
RoadKm ==
    LET both == OneWay \cup {<<e[2], e[1], e[3]>> : e \in OneWay}
    IN [p \in {<<e[1], e[2]>> : e \in both} |->
            (CHOOSE e \in both : <<e[1], e[2]>> = p)[3]]

----------------------------------------------------------------------------
(* A degree is about 111.2 km; the meridians converge with the latitude.   *)
CosineOf(lats) == CASE lats > 800000 -> 737 [] lats > 290000 -> 957 [] OTHER -> 975

SquareRoot(x) == CHOOSE r \in 0 .. 9999 : r * r <= x /\ x < (r + 1) * (r + 1)

(* _haversine, as the plane distance that it is at this scale.             *)
Distance(a, b) ==
    LET north == ((Position[a][1] - Position[b][1]) * 1112) \div 10000
        east  == ((((Position[a][2] - Position[b][2]) * 1112) \div 10000)
                    * CosineOf(Position[a][1] + Position[b][1])) \div 1000
    IN SquareRoot(north * north + east * east)

Table == [a \in Place |-> [b \in Place |->
              IF \E r \in DOMAIN PlacesByRegion : {a, b} \subseteq PlacesByRegion[r]
                THEN Distance(a, b) ELSE 0]]

(* OVERLAY with the gateways that docker-compose.yml sets.                 *)
Corridor == [
    laos     |-> [cambodia |-> [exit |-> "border_laos", entry |-> "border_camb", cost_km |-> 600]],
    cambodia |-> [laos |-> [exit |-> "border_camb", entry |-> "border_laos", cost_km |-> 600]],
    andorra  |-> <<>>]
=============================================================================
