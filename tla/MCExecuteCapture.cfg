\* Linux, captured stdout, two descendants, the reader may fail to start.
CONSTANTS
  Platform = "linux"
  Capture = TRUE
  Leader = leader
  Forked = {d1, d2}
  CaptureLimit = 2
  PipeSize = 2
  MaxWrites = 3
  Faults <- LinuxFaults
SPECIFICATION Spec
SYMMETRY Symmetry
INVARIANTS
  TypeOK
  GroupContained
  CaptureComplete
  ChildNotBlamed
CHECK_DEADLOCK FALSE
