CONSTANTS
  Threads = {t1, t2}
  Nobody = Nobody
  Writers = {t1}
  Locations <- MCLocations
  Version = "version"
  Volatile = {"count"}
  AlwaysWritten = {}
  Group <- OnePage
  Values = {0, 1}
  Initial = 0
  Config <- OneItem
  Plain = {"a", "count"}
  NumRetries = 1
  Discovered = {"a"}
  Rules = {"alone", "fresh", "reset"}
SPECIFICATION Spec
INVARIANTS CacheIsDevice ReferenceIsValid NoDeadlock
PROPERTY ImplementsRegister
