CONSTANTS
  Keys = {1, 2, 3}
  Serials = {1, 2, 3}
  MaxCrashes = 3
  MaxFaults = 1
SPECIFICATION Spec
INVARIANT KeyWrittenToFlash
