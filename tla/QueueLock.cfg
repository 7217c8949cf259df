SPECIFICATION LockSpec
CONSTANTS
  Writers = {watcher, processor}
  Nobody = Nobody
PROPERTIES ShutdownSaves
CHECK_DEADLOCK FALSE
