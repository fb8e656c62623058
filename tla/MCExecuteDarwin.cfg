\* Darwin, captured stdout, one descendant, reading, polling and killing may fail.
CONSTANTS
  Platform = "darwin"
  Capture = TRUE
  Leader = leader
  Forked = {d1}
  CaptureLimit = 0
  PipeSize = 1
  MaxWrites = 1
  Faults <- DarwinFaults
SPECIFICATION Spec
INVARIANTS
  IoHasCause
PROPERTIES
  Implements
  Returns
CHECK_DEADLOCK FALSE
