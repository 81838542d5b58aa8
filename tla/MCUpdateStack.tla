---------------------------- MODULE MCUpdateStack ----------------------------
(* Small instances of UpdateStack for TLC: a facet that is compared with the *)
(* saved spec at start-up, one that is not, and the zone.                    *)
EXTENDS UpdateStack

MCFacets == {"overrides", "nodeOU", "zone"}
MCRecovered == {"overrides"}
MCPinned == {"zone"}
=============================================================================
