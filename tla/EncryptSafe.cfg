SPECIFICATION PipeSpec
CONSTANTS
  NumItems = 3
  Workers = {p}
  Processor = p
  NoItem = NoItem
  MaxRetries = 2
  AttemptCap = 3
  MaxStops = 1
  Delay <- MCDelay
  Names = {f}
  MaxUploads = 2
  MaxReloads = 1
  Worlds <- SafeWorlds
INVARIANTS PipeTypeOK NothingLost CompletedIsRecoverable DuplicatesHarmless
PROPERTIES SourceOnlyLeavesSafely
CHECK_DEADLOCK FALSE
