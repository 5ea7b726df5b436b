\* Three threads call everything, and opening the port may fail.  A command that
\* is being registered can block everybody for ever.
CONSTANTS
  IO = IO
  NoThread = NoThread
  Apps = {a1, a2, a3}
  Ops <- AllOps
  OpenFails = TRUE
SPECIFICATION Spec
SYMMETRY ThreadSymmetry
INVARIANTS NoDeadlock
CHECK_DEADLOCK FALSE
