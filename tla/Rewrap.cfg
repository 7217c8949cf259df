SPECIFICATION RewrapSpec
CONSTANTS
  Files = {f1, f2}
  NoFile = NoFile
  MaxVersion = 3
  MaxRuns = 2
  MaxWrites = 1
SYMMETRY MCSymmetry
INVARIANTS RewrapTypeOK ReportMatchesFiles BackupIsPrevious
PROPERTIES KeepsOpening VersionNeverDrops OnlyOldKeysTouched
CHECK_DEADLOCK FALSE
