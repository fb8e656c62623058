SPECIFICATION Spec
CONSTANTS
  InputLimit = 2
  MaxLength = 3
  MaxMeddling = 3
CHECK_DEADLOCK FALSE
INVARIANTS
  TypeOK
  InputSurvives
  RefusalKeepsFiles
  TranslatesInput
  ReportedComplete
  ManifestNotIgnored
