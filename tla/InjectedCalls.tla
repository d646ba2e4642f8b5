--------------------------- MODULE InjectedCalls ---------------------------
(***************************************************************************)
(* The sequences of calls the tracer makes inside a tracee to stand for a  *)
(* syscall the kernel does not have, and the rules by which one of them    *)
(* advances: emulated_syscalls.rs, Emulations::{epoll_pwait .. step}.      *)
(*                                                                         *)
(* Constant level only.  A step is named by the call it makes; the fd it   *)
(* works on is found by FdOf from what earlier steps produced.             *)
(***************************************************************************)
EXTENDS Integers, Sequences

NoFd == -1

\* Error numbers, as the kernel returns them (negated).
EINTR == 4
EIO == 5
EBADF == 9
EACCES == 13    \* stands for whatever a security module answers
EFAULT == 14
EINVAL == 22
EMFILE == 24
ESPIPE == 29
ENOSYS == 38
EADDRINUSE == 98

-----------------------------------------------------------------------------
\* epoll_pwait: install the caller's mask, wait, put the old mask back.  The
\* last call is the one marked `always`.
EpollPwaitSeq == <<"sigprocmask_set", "epoll_wait", "sigprocmask_restore">>

\* pwritev / preadv.
VectorIoSeq == <<"lseek", "vector_io">>

\* fcntl(F_DUPFD_CLOEXEC).
DupfdCloexecSeq == <<"fcntl_dupfd", "fcntl_cloexec">>

\* eventfd / eventfd2: a datagram socket connected to its own address.
EventfdSeq(nonblock, initial) ==
    <<"socket", "bind", "connect">>
        \o (IF nonblock THEN <<"nonblock">> ELSE << >>)
        \o (IF initial THEN <<"write_initial">> ELSE << >>)

\* Both ends of the pipe stay in the tracee.
Bug_TimerfdCreateSeq(nonblock) ==
    <<"pipe">> \o (IF nonblock THEN <<"nonblock">> ELSE << >>)

\* timerfd_create: a pipe of which the tracee keeps only the read end.
TimerfdCreateSeq(nonblock) ==
    <<"pipe", "close_write_end">>
        \o (IF nonblock THEN <<"nonblock">> ELSE << >>)

\* Steps that still run after a failure.
AlwaysSteps == {"sigprocmask_restore"}

\* Steps whose result is the descriptor the emulation is built on, if first.
MakesFd == {"socket", "fcntl_dupfd"}

-----------------------------------------------------------------------------
\* Errors are the values -4095..-1.
IsError(rc) == rc \in -4095 .. -1

\* The first error among the results, 0 if there is none.
Failure(results) ==
    LET bad == {i \in 1 .. Len(results) : IsError(results[i])}
    IN  IF bad = {} THEN 0
        ELSE results[CHOOSE i \in bad : \A j \in bad : i <= j]

\* Everything before the last call succeeded, so there is something to undo.
TookEffect(results) ==
    /\ Len(results) > 1
    /\ \A i \in 1 .. Len(results) - 1 : results[i] >= 0

\* Positions of the queue at which a cleanup step waits.
Cleanups(queue) == {i \in 1 .. Len(queue) : queue[i] \in AlwaysSteps}

\* A failed call ends the sequence with no cleanup.
Bug_PoppedNoCleanup(queue, results) ==
    IF queue = << >> \/ Failure(results) # 0 THEN 0 ELSE 1

\* The sequence carries on after a failed call.
Bug_PoppedOnFailure(queue, results) == IF queue = << >> THEN 0 ELSE 1

\* How many entries of the queue are popped to find the step to run next; the
\* last one popped is that step.  0: no step is left to run.
Popped(queue, results) ==
    IF Failure(results) = 0
    THEN IF queue = << >> THEN 0 ELSE 1
    ELSE IF TookEffect(results) /\ Cleanups(queue) # {}
         THEN CHOOSE i \in Cleanups(queue) :
                  \A j \in Cleanups(queue) : i <= j
         ELSE 0

\* The first error answers the call, whatever its outcome was.
Bug_Answer(outcome, results, fd) ==
    LET value == IF outcome = 0 THEN fd
                 ELSE IF outcome <= Len(results) THEN results[outcome]
                 ELSE -EINVAL
    IN  IF Failure(results) = 0 THEN value ELSE Failure(results)

\* Which result answers the emulated call: the outcome's value if it happened,
\* else the first error.  outcome = 0 stands for Outcome::Adopted.
Answer(outcome, results, fd) ==
    LET value == IF outcome = 0 THEN fd
                 ELSE IF outcome <= Len(results) THEN results[outcome]
                 ELSE -EINVAL
    IN  IF value >= 0 \/ Failure(results) = 0 THEN value ELSE Failure(results)
=============================================================================
