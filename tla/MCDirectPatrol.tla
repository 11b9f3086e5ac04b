---------------------------- MODULE MCDirectPatrol ----------------------------
(* DirectPatrol for TLC: one return-home thread besides the patrol thread. *)
EXTENDS DirectPatrol

CONSTANT r1

MCReturns == {r1}
=============================================================================
