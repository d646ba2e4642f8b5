---------------------------- MODULE MCEmulation ----------------------------
(* Instances of Emulation for TLC.                                         *)
EXTENDS Emulation

CONSTANT s1

MCSignals == {s1}
MCNoSignals == {}
MCMasks == SUBSET {s1}
MCNoMasks == {{}}

MCFds == 3 .. 5
MCFewFds == 3 .. 4

\* Calls around signals: masks and waits, and one emulation of every shape.
SignalCalls == {"epoll_pwait", "sigprocmask", "vector_io", "dupfd_cloexec",
                "timerfd_create", "timerfd_settime"}
WaitCalls == {"epoll_pwait", "sigprocmask", "vector_io"}

\* Calls around descriptors.
FileCalls == {"dupfd_cloexec", "eventfd", "timerfd_create", "timerfd_settime",
              "open", "close"}
=============================================================================
