---------------------------- MODULE MCCoyoteSpool ----------------------------
(* CoyoteSpool for TLC: three events, so that one can be with the worker,  *)
(* one in a queue of length one, and one be refused.                       *)
EXTENDS CoyoteSpool

CONSTANTS e1, e2, e3

MCEvents == {e1, e2, e3}
MCTwoEvents == {e1, e2}
=============================================================================
