-------------------------- MODULE MCContinuousPatrol --------------------------
(* ContinuousPatrol for TLC: a patrol of two loops.                         *)
EXTENDS ContinuousPatrol
=============================================================================
