\* The application clears the buffer only when it is empty.
CONSTANTS
  Capacity = 4
  MaxBytes = 7
  ClearAnytime = FALSE
SPECIFICATION Spec
INVARIANTS CommitsWhatWasRead RoomToRead
PROPERTY ImplementsStream
