--------------------------- MODULE MC_NodeEeprom ---------------------------
(* TLC instances of NodeEeprom. *)
EXTENDS NodeEeprom

MCLocations == {"a", "count", "version"}
OnePage == [l \in MCLocations |-> IF l = "version" THEN {} ELSE MCLocations \ {"version"}]
OneItem == <<[loc |-> "a", val |-> 1]>>
=============================================================================
