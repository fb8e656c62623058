SPECIFICATION FairSpec
CONSTANTS
  Families <- AllFamilies
  Solutions <- TwoSolutions
  Projects <- SixProjects
  Gemspecs <- ThreeGemspecs
  Fixtures <- Kept
  Members <- Sharing
  Listed <- Printed
  Hidden <- DotNames
  Links <- LinkPaths
  MaxDiscovery = 4
  Names = {"short", "long"}
  MaxRuns = 2
  MaxEdits = 1
CHECK_DEADLOCK FALSE
INVARIANTS
  TypeOK
  OnlyFreshAccepted
  IndexWellPrepared
  EveryProjectIndexed
PROPERTIES
  Publishes
