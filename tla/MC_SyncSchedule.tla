-------------------------- MODULE MC_SyncSchedule --------------------------
(* TLC instances of SyncSchedule. *)
EXTENDS SyncSchedule

OneProtocol == [lxrs |-> 2]
TwoProtocols == [lxrs |-> 4, lxrsPlus |-> 2]

OneLarge == [n \in Nodes |-> IF n = 4 THEN {20} ELSE IF n = 3 THEN {1, 20} ELSE {1}]
AnyDemand == [n \in Nodes |-> {3, 5}]
=============================================================================
