---------------------------- MODULE AtomicCalls ----------------------------
(***************************************************************************)
(* What an application is entitled to when some of its system calls are    *)
(* emulated: the kernel as the application knows it.  A call is answered   *)
(* once and takes effect at once, its registers and its mask stay what     *)
(* they were, and a handler runs between calls only.                       *)
(*                                                                         *)
(* Where the tracer falls short of a kernel that has the call, the answer  *)
(* it gives instead is written down here and marked as a limit.            *)
(***************************************************************************)
EXTENDS InjectedCalls, FiniteSets

CONSTANTS
    Signals,    \* signals the application handles
    Fds,        \* its descriptor numbers
    Calls       \* the calls it makes

VARIABLES
    place,      \* "code", "call", or "back": out of the call, not yet in code
    call,       \* the call it is in
    view,       \* its registers: fd, mask and option arguments, rip
    result,     \* what rax says
    blocked,    \* its signal mask
    table,      \* what its descriptors refer to
    frame,      \* the signal frame of a running handler, if any
    sent        \* signals on their way to a handler

vars == <<place, call, view, result, blocked, table, frame, sent>>

Fresh == <<NoFd, {}, {}, "app">>

Init ==
    /\ place = "code" /\ call = "none"
    /\ view = Fresh /\ result = 0
    /\ blocked \in SUBSET Signals
    /\ table = [f \in Fds |-> "free"]
    /\ frame = << >> /\ sent = {}

-----------------------------------------------------------------------------
(* Calls.                                                                  *)

Ask ==
    /\ place = "code" /\ place' = "call"
    /\ call' \in Calls \cup (IF frame = << >> THEN {} ELSE {"sigreturn"})
    /\ \E f \in Fds \cup {NoFd}, m \in SUBSET Signals, o \in SUBSET {"nonblock", "initial"} :
         view' = <<f, m, o, "app">>
    /\ result' = 0
    /\ UNCHANGED <<blocked, table, frame, sent>>

Leave == place = "call" /\ place' = "back" /\ call' = "none" /\ UNCHANGED sent

Answered(rc) == Leave /\ result' = rc /\ UNCHANGED <<view, frame>>

\* Answers that leave the mask alone, and those that change nothing at all.
Tells(rc) == Answered(rc) /\ UNCHANGED blocked
Only(rc) == Tells(rc) /\ UNCHANGED table

Free == {f \in Fds : table[f] = "free"}
Lowest(S) == CHOOSE f \in S : \A g \in S : f <= g
First == Lowest(Free)
Second == Lowest(Free \ {First})

\* A new descriptor: the lowest free number.
New(object) ==
    IF Free = {} THEN Only(-EMFILE)
    ELSE Tells(First) /\ table' = [table EXCEPT ![First] = object]

Sigprocmask ==
    /\ call = "sigprocmask"
    /\ Answered(0)
    /\ blocked' = view[2]
    /\ UNCHANGED table

Sigreturn ==
    /\ call = "sigreturn"
    /\ Leave
    /\ view' = frame[1].view /\ result' = frame[1].result /\ blocked' = frame[1].blocked
    /\ frame' = << >>
    /\ UNCHANGED table

Open == call = "open" /\ New("file")

Close ==
    /\ call = "close"
    /\ IF view[1] \notin Fds \/ view[1] \in Free THEN Only(-EBADF)
       ELSE Tells(0) /\ table' = [table EXCEPT ![view[1]] = "free"]

\* What the wait returned, or the mask could not be read.  It was interrupted
\* only if there is a signal.
EpollPwait ==
    /\ call = "epoll_pwait"
    /\ \/ \E rc \in {0, 1, -EBADF, -EFAULT} : Only(rc)
       \/ sent # {} /\ Only(-EINTR)

\* Limit: when the kernel refuses to put the mask back that was in force before
\* the wait, the one of the wait stays.
KeepWaitMask ==
    /\ place = "call" /\ call = "epoll_pwait"
    /\ blocked' = view[2]
    /\ UNCHANGED <<place, call, view, result, table, frame, sent>>

VectorIo ==
    /\ call = "vector_io"
    /\ \E rc \in {0, 8, -EFAULT, -ESPIPE} : Only(rc)

Dupfd ==
    /\ call = "dupfd_cloexec"
    /\ IF view[1] \in Free THEN Only(-EBADF) ELSE New("file")

\* Limit: the socket that could not be bound, or not be connected to itself, is
\* handed out as it is.
Eventfd ==
    call = "eventfd" /\ \E object \in {"selfconnected", "bound", "socket"} : New(object)

\* Only the read end is left.  Limits: a pipe the tracer cannot open stays open
\* at both ends; with no room for one, the answer may be an earlier number.
TimerfdCreate ==
    /\ call = "timerfd_create"
    /\ IF Cardinality(Free) < 2
       THEN \E rc \in Fds \cup {-EMFILE} : Only(rc)
       ELSE \/ Tells(First) /\ table' = [table EXCEPT ![First] = "pipeR"]
            \/ Tells(-EIO) /\ table' = [table EXCEPT ![First] = "pipeR", ![Second] = "pipeW"]

\* Reading and setting a timer changes no descriptor.
Timerfd == call \in {"timerfd_settime", "timerfd_gettime"} /\ Only(0)

\* The call is emulated only if the tracer gets at the tracee's memory, and
\* knows the timer.
Missing ==
    /\ call \in {"epoll_pwait", "vector_io", "dupfd_cloexec", "eventfd", "timerfd_create",
                 "timerfd_settime", "timerfd_gettime"}
    /\ Only(-ENOSYS)

Reply == \/ Sigprocmask \/ Sigreturn \/ Open \/ Close
         \/ EpollPwait \/ VectorIo \/ Dupfd \/ Eventfd \/ TimerfdCreate \/ Timerfd \/ Missing

-----------------------------------------------------------------------------
(* Signals.                                                                *)

\* To application code, and out of it because of a signal.
Moves(from, to) ==
    /\ place = from /\ place' = to
    /\ UNCHANGED <<call, view, result, blocked, table, frame, sent>>
Resume == Moves("back", "code")
Stop == Moves("code", "back")

Send ==
    /\ \E s \in Signals : sent' = sent \cup {s}
    /\ UNCHANGED <<place, call, view, result, blocked, table, frame>>

\* A handler runs outside of calls, for a signal that was sent and that is not
\* blocked; it may have been sent again since.
Handle ==
    /\ place = "back" /\ place' = "code"
    /\ frame = << >>
    /\ frame' = <<[view |-> view, result |-> result, blocked |-> blocked]>>
    /\ \E s \in sent \ blocked : sent' \in {sent, sent \ {s}}
    /\ view' = Fresh /\ result' = 0 /\ blocked' = Signals
    /\ UNCHANGED <<call, table>>

\* Limit: during a call a signal may take the place of another.
Replace ==
    /\ place = "call"
    /\ sent' \subseteq sent /\ sent' # {}
    /\ UNCHANGED <<place, call, view, result, blocked, table, frame>>

Next == Ask \/ Reply \/ KeepWaitMask \/ Resume \/ Stop \/ Send \/ Handle \/ Replace

Spec == Init /\ [][Next]_vars
=============================================================================
