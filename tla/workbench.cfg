SPECIFICATION Spec
CONSTANTS
  d1 = d1
  d2 = d2
  Dirs <- MCDirs
  FileProcs <- None
  Autostart <- FirstHasOne
  Dumping = FALSE
  Faults = {}
  MaxMint = 3
  MaxStarts = 2
PROPERTIES WorkbenchSurvives RestartForgetsNothing
CHECK_DEADLOCK FALSE
