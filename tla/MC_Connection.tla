--------------------------- MODULE MC_Connection ---------------------------
(* TLC instances of Connection. *)
EXTENDS Connection, TLC

ThreadSymmetry == Permutations(Apps)

Modes == AllOps \ {"register", "reconnect"}
NoCommands == AllOps \ {"register"}
=============================================================================
