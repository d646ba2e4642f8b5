------------------------------ MODULE MCLaunch ------------------------------
(* Instances of Launch for TLC: kernels on both sides of each threshold.   *)
EXTENDS Launch

Kernel(version, missing, filters) ==
    [version |-> version, missing |-> missing, filters |-> filters,
     options |-> IF filters THEN OptionNames ELSE OptionNames \ {"seccomp"},
     ptrace |-> TRUE]

\* No filters; filters and two, one or no missing calls.
SomeKernels ==
    {Kernel(<<2, 6, 17>>, {"pipe2", "statx", "getrandom"}, FALSE),
     Kernel(<<2, 6, 28>>, {"statx", "getrandom"}, FALSE),
     Kernel(<<3, 5, 0>>, {"statx", "getrandom"}, TRUE),
     Kernel(<<4, 4, 0>>, {"statx"}, TRUE),
     Kernel(<<4, 11, 0>>, {}, TRUE)}

AllKernels == SomeKernels \cup {[k EXCEPT !.ptrace = FALSE] : k \in SomeKernels}

OneKernel == {Kernel(<<4, 4, 0>>, {"statx"}, TRUE)}
=============================================================================
