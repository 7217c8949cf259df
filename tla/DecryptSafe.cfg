SPECIFICATION DecryptSpec
CONSTANTS
  NumItems = 3
  Workers = {p}
  Processor = p
  NoItem = NoItem
  NoName = NoName
  MaxRetries = 2
  AttemptCap = 3
  MaxStops = 1
  Delay <- MCDelay
  Names = {f}
  MaxBundles = 2
  KeyPolls = 2
  Worlds <- SafeWorlds
INVARIANTS DecryptTypeOK BundleKept PlaintextStays HealthyNeverFails
PROPERTIES LeavesOnlyDecrypted
CHECK_DEADLOCK FALSE
