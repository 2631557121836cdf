----------------------------- MODULE MCJourneys -----------------------------
(* Instances of Journeys for TLC: the three regions in the order of        *)
(* REGION_DATA_SERVICES, a journey either way, two DELETEs and two readers.*)
EXTENDS Journeys

MCRegion      == {"laos", "cambodia", "andorra"}
MCQueryOrder  == <<"laos", "cambodia", "andorra">>
MCItineraries == {<<"laos", "cambodia">>, <<"cambodia", "laos">>}
=============================================================================
