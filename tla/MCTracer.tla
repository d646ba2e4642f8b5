------------------------------ MODULE MCTracer ------------------------------
(* Instances of Tracer for TLC.                                            *)
EXTENDS Tracer

CONSTANTS p1, p2

TwoPids == {p1, p2}

BothModes == {"ptrace", "seccomp"}
EveryKind == AllKinds
==============================================================================
