SPECIFICATION Spec
CONSTANTS
  Names <- MCNames
  Lower <- MCLower
  Fold <- MCFold
  Roots <- MCRoots
  Sources <- MCSources
  Directories <- MCDirectories
  Manifests <- MCManifests
  MaxEntries = 1
  Climbing = TRUE
CHECK_DEADLOCK FALSE
INVARIANTS
  KeptInPlace
