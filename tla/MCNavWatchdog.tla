---------------------------- MODULE MCNavWatchdog ----------------------------
(* NavWatchdog for TLC: two cancel services, two clients' tokens.          *)
EXTENDS NavWatchdog

CONSTANTS s1, s2

MCServices == {s1, s2}
MCTokens == {1, 2}
=============================================================================
