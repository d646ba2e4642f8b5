SPECIFICATION FairSpec
CONSTANTS
  s1 = s1
  Signals <- MCSignals
  Masks <- MCMasks
  Fds <- MCFewFds
  Calls <- SignalCalls
INVARIANTS MaskIntact RegistersIntact StopsMatch NothingRunsInside HeldInsideOnly
PROPERTIES WaitAnswered NoSignalDropped CallReturns
