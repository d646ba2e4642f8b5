SPECIFICATION FairSpec
CONSTANTS
  Kernels <- AllKernels
  MaxSignals = 2
INVARIANTS ModesAgree FilterExact StatusKept
PROPERTIES LaunchedIfQuiet ParentEnds
\* The launch is over when the parent has exited or is the application.
CHECK_DEADLOCK FALSE
