SPECIFICATION PipeSpec
CONSTANTS
  NumItems = 2
  Workers = {p}
  Processor = p
  NoItem = NoItem
  MaxRetries = 2
  AttemptCap = 3
  MaxStops = 0
  Delay <- MCDelay
  Names = {f}
  MaxUploads = 1
  MaxReloads = 0
  Worlds <- FaultyWorld
INVARIANTS RetryHasSource
CHECK_DEADLOCK FALSE
