SPECIFICATION ReloadFairSpec
CONSTANTS
  in1 = in1
  in2 = in2
  in3 = in3
  in4 = in4
  out1 = out1
  out2 = out2
  Dirs = {in1, in2, in3, in4}
  Dests = {out1, out2}
  NoDir = NoDir
  Files = {f}
  NoFile = NoFile
  Worlds <- ReloadWorlds
  MaxWrites = 3
  MaxEdits = 2
  MaxSignals = 2
INVARIANTS ReloadTypeOK SourcesWatched OneConfiguration OneLogOpen
PROPERTIES BriskUploadsWhole ImplementsRegister StopServed ArrivalsQueued
CHECK_DEADLOCK FALSE
