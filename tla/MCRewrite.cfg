SPECIFICATION RewriteSpec
CONSTANTS
  Inputs <- MCInputs
  Variants <- MCVariants
  Letters = {"s", "S", "-", "-I"}
  RootLength = 5
  NameLength = 4
CHECK_DEADLOCK FALSE
INVARIANTS
  RootsTranslated
  SourceRespelled
  NothingLost
