---------------------------- MODULE MC_SlotTable ----------------------------
(* TLC instances of SlotTable. *)
EXTENDS SlotTable

NoCheck == {<<0, 0>>}
SomeChecks == {<<0, 0>>, <<8, 3>>, <<16, 9>>}
=============================================================================
