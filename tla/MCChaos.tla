------------------------------- MODULE MCChaos -------------------------------
(* A small chaosd for TLC. *)
EXTENDS ChaosStream

\* The bounds of the behaviours, see Scopes.
Scope(f, p, d, s, dies) ==
  [faults |-> f, peers |-> p, packets |-> d, sessions |-> s, dies |-> dies]
MCScopes ==
  {Scope(1, 1, 2, <<0>>, FALSE), Scope(0, 1, 1, <<1>>, FALSE), Scope(1, 1, 0, <<2>>, FALSE),
   Scope(1, 2, 0, <<1, 0>>, FALSE), Scope(1, 1, 0, <<1>>, TRUE), Scope(2, 1, 0, <<0>>, FALSE)}
===========================================================================
