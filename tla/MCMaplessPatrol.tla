--------------------------- MODULE MCMaplessPatrol ---------------------------
(* MaplessPatrol for TLC: two lanes, as PatrolContext has by default.      *)
EXTENDS MaplessPatrol
=============================================================================
