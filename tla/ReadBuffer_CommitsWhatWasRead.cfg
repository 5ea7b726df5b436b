\* One call of clearBuffer is enough.
CONSTANTS
  Capacity = 4
  MaxBytes = 7
  ClearAnytime = TRUE
SPECIFICATION Spec
INVARIANT CommitsWhatWasRead
