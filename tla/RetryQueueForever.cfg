SPECIFICATION FairSpec
CONSTANTS
  NumItems = 2
  Workers = {w1}
  NoItem = NoItem
  MaxRetries <- Infinite
  AttemptCap = 3
  MaxStops = 1
  Delay <- MCDelay
  BaseDelay = 1
  MaxDelay = 3
INVARIANTS GivenUpAtLimit
PROPERTIES QueuedIsTaken RetriesBackOff
CHECK_DEADLOCK FALSE
