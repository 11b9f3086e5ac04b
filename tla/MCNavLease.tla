----------------------------- MODULE MCNavLease -----------------------------
(* NavLease for TLC: one cancel service; three tokens for the client (a     *)
(* handshake and a route, before or after another handshake), or two and   *)
(* one of the Coyote output node.                                          *)
EXTENDS NavLease

CONSTANT nav

MCServices == {nav}
MCTokens == 1 .. MaxToken \cup CoyoteTokens
=============================================================================
