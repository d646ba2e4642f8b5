SPECIFICATION BusySpec
CONSTANTS
  p1 = p1
  p2 = p2
  i1 = i1
  i2 = i2
  Off = Off
  First = p1
  Procs <- OneProc
  Fds <- TwoFds
  Pipes <- TwoPipes
  Delays <- SomeDelays
  Periods <- SomePeriods
  Cap = 1
  MaxLate = 2
INVARIANTS TrackedIsOpen
PROPERTIES PeriodsExact ExpirationServed
