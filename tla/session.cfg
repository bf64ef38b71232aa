SPECIFICATION Spec
CONSTANTS
  d1 = d1
  d2 = d2
  Dirs <- MCDirs
  FileProcs <- FirstHasOne
  Autostart <- None
  Dumping = TRUE
  Faults = {"duplicate", "spawn", "bare"}
  MaxMint = 3
  MaxStarts = 2
INVARIANTS SessionFits
PROPERTIES HeldSurvives TeardownKeepsStore
CHECK_DEADLOCK FALSE
