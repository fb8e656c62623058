SPECIFICATION Spec
CONSTANTS
  Families = {"Ruby"}
  Solutions <- TwoSolutions
  Projects <- SixProjects
  Gemspecs <- ThreeGemspecs
  Fixtures <- Kept
  Members <- Sharing
  Listed <- Printed
  Hidden <- DotNames
  Links <- LinkPaths
  MaxDiscovery = 4
  Names = {"short", "long"}
  MaxRuns = 2
  MaxEdits = 0
CHECK_DEADLOCK FALSE
INVARIANTS
  RejectedConfigurationStartsNothing
