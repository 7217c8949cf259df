SPECIFICATION DecryptFairSpec
CONSTANTS
  NumItems = 3
  Workers = {p}
  Processor = p
  NoItem = NoItem
  NoName = NoName
  MaxRetries = 2
  AttemptCap = 3
  MaxStops = 1
  Delay <- MCDelay
  Names = {f}
  MaxBundles = 1
  KeyPolls = 2
  Worlds <- LiveWorlds
PROPERTIES BundleSettles
CHECK_DEADLOCK FALSE
