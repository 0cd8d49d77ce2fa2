SPECIFICATION Spec
CONSTANTS
  Drivers <- Confirm
  MaxErrors = 2
  MaxCrashes = 1
INVARIANT MeasuredAlone
CHECK_DEADLOCK FALSE
