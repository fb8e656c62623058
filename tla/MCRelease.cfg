SPECIFICATION Spec
CONSTANTS
  Families <- ThreeFamilies
  Invalid = {"Bad"}
  MaxFamilies = 2
  MaxChanges = 2
CHECK_DEADLOCK FALSE
INVARIANTS
  AppendedWholeOrReported
  DockerfilesSurvive
  MatrixExact
