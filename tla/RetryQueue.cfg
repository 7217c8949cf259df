SPECIFICATION Spec
CONSTANTS
  NumItems = 3
  Workers = {w1, w2}
  NoItem = NoItem
  MaxRetries = 2
  AttemptCap = 3
  MaxStops = 2
  Delay <- MCDelay
  BaseDelay = 1
  MaxDelay = 2
INVARIANTS TypeOK  SingleOwner QueuedRunnable GivenUpAtLimit PendingInArrivalOrder
PROPERTIES FirstAttemptsInOrder ImplementsLedger
CHECK_DEADLOCK FALSE
