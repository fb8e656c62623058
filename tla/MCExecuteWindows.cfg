\* Windows, inherited stdout, two descendants, every operation may fail.
CONSTANTS
  Platform = "windows"
  Capture = FALSE
  Leader = leader
  Forked = {d1, d2}
  CaptureLimit = 1
  PipeSize = 1
  MaxWrites = 1
  Faults <- AllFaults
SPECIFICATION Spec
PROPERTIES
  Implements
CHECK_DEADLOCK FALSE
