------------------------------ MODULE MCTimers ------------------------------
(* Instances of Timers for TLC.                                            *)
EXTENDS Timers

CONSTANTS p1, p2, i1, i2

OneProc == {p1}
TwoProcs == {p1, p2}
OneFd == {3}
TwoFds == {3, 4}
OnePipe == {i1}
TwoPipes == {i1, i2}
OneDelay == {1}
SomeDelays == {1, 2}
OneShot == {0}
ShortPeriods == {0, 1}
SomePeriods == {0, 2}
=============================================================================
