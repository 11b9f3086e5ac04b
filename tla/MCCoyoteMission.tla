--------------------------- MODULE MCCoyoteMission ---------------------------
(* CoyoteMission for TLC: a mission and the one after it.                  *)
EXTENDS CoyoteMission

CONSTANTS e1, e2

MCEvents == {e1, e2}
MCOutcomes == {"TARGET_REACHED", "NOT_FOUND"}
=============================================================================
