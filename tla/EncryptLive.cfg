SPECIFICATION PipeFairSpec
CONSTANTS
  NumItems = 3
  Workers = {p}
  Processor = p
  NoItem = NoItem
  MaxRetries = 2
  AttemptCap = 3
  MaxStops = 1
  Delay <- MCDelay
  Names = {f}
  MaxUploads = 1
  MaxReloads = 1
  Worlds <- LiveWorlds
PROPERTIES EveryUploadSettles QueueDrains
CHECK_DEADLOCK FALSE
