---------------------------- MODULE MCCoyoteMotion ----------------------------
EXTENDS CoyoteMotion, TLC

Symmetry == Permutations(Events) \union Permutations(Types)

=============================================================================
