SPECIFICATION Spec
CONSTANTS
  Drivers <- Clean
  MaxErrors = 2
  MaxCrashes = 1
INVARIANTS MeasuredAlone NoArmLost WrittenRowsStay CrashCostsOneArm DeltasComplete
CHECK_DEADLOCK FALSE
