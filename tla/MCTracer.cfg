SPECIFICATION FairSpec
CONSTANTS
  p1 = p1
  p2 = p2
  Main = p1
  Pids <- TwoPids
  Modes <- BothModes
  SeccompFirst = TRUE
  Kinds <- EveryKind
  ThreadExec = FALSE
  MainReused = FALSE
INVARIANTS StackIntact ResultsComplete StopsMatch NothingRunsInside NoStaleState ExitStatus
PROPERTIES StopsAnswered EndsWithMain
