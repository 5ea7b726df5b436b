\* Slots in blocks of two, as they are in blocks of four and eight in the code.
CONSTANTS
  MaxSlots = 16
  Reserved = 12
  MaxNodes = 4
  Rates = {0, 1, 2, 4}
  Spacings = {2, 4}
  DelayChecks <- SomeChecks
  Legacies = {TRUE, FALSE}
SPECIFICATION Spec
INVARIANTS NoCollision EveryTransmissionHasSlots TurnedAwayOnlyIfFull AvailableCounts
CHECK_DEADLOCK FALSE
