\* Two threads write; with one writer and without the rule "fresh" a discovery
\* packet older than a write does the same.
CONSTANTS
  Threads = {t1, t2}
  Nobody = Nobody
  Writers = {t1, t2}
  Locations <- MCLocations
  Version = "version"
  Volatile = {"count"}
  AlwaysWritten = {}
  Group <- OnePage
  Values = {0, 1}
  Initial = 0
  Config <- OneItem
  Plain = {"a"}
  NumRetries = 1
  Discovered = {"a"}
  Rules = {"alone", "fresh", "reset"}
SPECIFICATION Spec
INVARIANT CacheIsDevice
