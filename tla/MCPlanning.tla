---------------------------- MODULE MCPlanning ----------------------------
(* Planning on the network that the system imports, all journeys.          *)
EXTENDS Planning, Network

MCNode     == Place
MCKm       == RoadKm
MCEstimate == Table
MCPlacesOf == PlacesByRegion
MCOverlay  == Corridor
MCLate     == {"la_massana", "arinsal"}

(* Without them one goes to Ordino by Canillo and cannot leave Luang       *)
(* Prabang.                                                                *)
MCLateRoad == {<<"vella", "ordino">>, <<"ordino", "vella">>,
               <<"vientiane", "luang_prabang">>, <<"luang_prabang", "vientiane">>}
=============================================================================
