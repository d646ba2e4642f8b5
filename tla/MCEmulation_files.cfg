SPECIFICATION Spec
CONSTANTS
  s1 = s1
  Signals <- MCNoSignals
  Masks <- MCNoMasks
  Fds <- MCFds
  Calls <- FileCalls
INVARIANTS OwnFilesUntouched
PROPERTIES SeenAsAtomic
