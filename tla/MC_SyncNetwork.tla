--------------------------- MODULE MC_SyncNetwork ---------------------------
(* TLC instances of SyncNetwork. *)
EXTENDS SyncNetwork

OneProtocol == [lxrs |-> 2]
TwoProtocols == [lxrs |-> 4, lxrsPlus |-> 2]

OneDemand == [n \in Nodes |-> {2 * n + 1}]
=============================================================================
