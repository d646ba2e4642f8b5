SPECIFICATION IdleSpec
CONSTANTS
  p1 = p1
  p2 = p2
  i1 = i1
  i2 = i2
  Off = Off
  First = p1
  Procs <- OneProc
  Fds <- OneFd
  Pipes <- OnePipe
  Delays <- OneDelay
  Periods <- OneShot
  Cap = 2
  MaxLate = 2
PROPERTIES ExpirationServed
