SPECIFICATION CSpec
CONSTANTS
  Root = "root"
  Ids = {"root", "user"}
  MaxContainers = 2
  Errors = {"Io", "Child", "Cancelled"}
CHECK_DEADLOCK FALSE
INVARIANTS
  TypeOK
  FreshOverlay
  OccupiedLayerUntouched
  IdentityAsSelected
  ZeroMeansIndex
  RefusedLeavesAll
PROPERTIES
  StopEnds
