---------------------------- MODULE MCOrbInvoke ----------------------------
(* The small instance of OrbInvoke that TLC explores.                      *)
EXTENDS OrbInvoke, TLC

Symm == Permutations(Caps) \union Permutations(Handlers) \union Permutations(Calls)
=============================================================================
