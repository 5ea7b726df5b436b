\* Two threads use the Node before its protocol is known.
CONSTANTS
  Threads = {t1, t2}
  Nobody = Nobody
  Writers = {t1}
  Locations <- MCLocations
  Version = "version"
  Volatile = {"count"}
  AlwaysWritten = {}
  Group <- OnePage
  Values = {0, 1}
  Initial = 0
  Config <- OneItem
  Plain = {"a"}
  NumRetries = 1
  Discovered = {"a"}
  Rules = {"fresh", "reset"}
SPECIFICATION Spec
INVARIANT NoDeadlock
