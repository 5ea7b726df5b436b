------------------------ MODULE MC_CommandExchange ------------------------
(* TLC instances of CommandExchange. *)
EXTENDS CommandExchange, TLC

Symmetry == Permutations(Callers)
=============================================================================
