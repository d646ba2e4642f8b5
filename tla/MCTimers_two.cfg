SPECIFICATION Spec
CONSTANTS
  p1 = p1
  p2 = p2
  i1 = i1
  i2 = i2
  Off = Off
  First = p1
  Procs <- TwoProcs
  Fds <- OneFd
  Pipes <- TwoPipes
  Delays <- OneDelay
  Periods <- ShortPeriods
  Cap = 1
  MaxLate = 1
INVARIANTS WakeupArmed
