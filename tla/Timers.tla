------------------------------- MODULE Timers -------------------------------
(***************************************************************************)
(* Emulated timerfds: Emulations::{timerfd_settime, tick, arm} and the     *)
(* timer half of begin and capture_pipe in emulated_syscalls.rs, with the  *)
(* part of Tracer::supervise that decides when tick runs.                  *)
(*                                                                         *)
(* A timerfd is a pipe: the application reads it, the tracer writes to it  *)
(* when a deadline has passed.  The tracer learns of deadlines through one *)
(* ITIMER_REAL; its SIGALRM handler sets a flag and, if the tracer is      *)
(* blocked in waitpid, ends that call.                                     *)
(*                                                                         *)
(* Times are kept relative to now: a deadline d > 0 lies ahead, d <= 0 has *)
(* passed.  Advance is the passage of one unit.                            *)
(***************************************************************************)
EXTENDS Integers, Sequences, FiniteSets

CONSTANTS
    Procs,      \* traced processes
    First,      \* the one that exists at the start
    Fds,        \* descriptor numbers
    Pipes,      \* pipes there can be at a time
    Delays,     \* values an application arms a timer with
    Periods,    \* and intervals, 0 for one-shot
    Cap,        \* records a pipe holds (8192 in Linux)
    MaxLate,    \* how many units the tracer lags at most
    Off         \* a timer that is not armed

ASSUME ConstantsAssumption ==
    /\ First \in Procs
    /\ Fds \subseteq Nat
    /\ Delays \subseteq Nat \ {0}
    /\ Periods \subseteq Nat
    /\ Cap \in Nat \ {0}
    /\ MaxLate \in Nat
    /\ Off \notin Int
    /\ {"none", "closed", "file"} \cap Pipes = {}

VARIABLES
    alive,      \* processes that exist
    table,      \* table[p][f]: the pipe f refers to, or "closed"
    request,    \* the call a process is stopped at, if any
    queued,     \* queued[i]: expiration counts written to pipe i, not yet read
    deadline,   \* deadline[f]: timers[f].deadline
    interval,   \* timers[f].interval
    handle,     \* write_ends[f], or "none" for a number not tracked
    itimer,     \* ITIMER_REAL: time left, or Off
    alarm,      \* ALARM
    pc          \* top: before tick; ticked: after it; waiting: in waitpid

procVars == <<alive, table, request>>
timerVars == <<deadline, interval, handle>>
vars == <<procVars, queued, timerVars, itimer, alarm, pc>>

NoRequest == [op |-> "none", fd |-> 0, delay |-> 0, period |-> 0]

Tracked(f) == handle[f] # "none"
Readers(i) == {p \in alive : \E f \in Fds : table[p][f] = i}
Larger(a, b) == IF a > b THEN a ELSE b

Init ==
    /\ alive = {First}
    /\ table = [p \in Procs |-> [f \in Fds |-> "closed"]]
    /\ request = [p \in Procs |-> NoRequest]
    /\ queued = [i \in Pipes |-> << >>]
    /\ deadline = [f \in Fds |-> Off]
    /\ interval = [f \in Fds |-> 0]
    /\ handle = [f \in Fds |-> "none"]
    /\ itimer = Off
    /\ alarm = FALSE
    /\ pc = "top"

-----------------------------------------------------------------------------
(* Processes.                                                              *)

\* p enters a call and stops for the tracer.
Ask(p, r) ==
    /\ p \in alive
    /\ request[p] = NoRequest
    /\ request' = [request EXCEPT ![p] = r]
    /\ UNCHANGED <<alive, table, queued, timerVars, itimer, alarm, pc>>

AskCreate(p) == Ask(p, [NoRequest EXCEPT !.op = "create"])

AskSettime(p) ==
    \E f \in Fds, v \in Delays \cup {0}, i \in Periods :
        /\ table[p][f] # "closed"
        /\ v = 0 => i = 0
        /\ Ask(p, [op |-> "settime", fd |-> f, delay |-> v, period |-> i])

AskClose(p) ==
    \E f \in Fds :
        /\ table[p][f] # "closed"
        /\ Ask(p, [NoRequest EXCEPT !.op = "close", !.fd = f])

\* An ordinary descriptor.
AskOpen(p) == Ask(p, [NoRequest EXCEPT !.op = "open"])

\* Any other call: it stops the tracee and means nothing to the timers.
AskOther(p) == Ask(p, [NoRequest EXCEPT !.op = "other"])

\* p reads one record from a timerfd.
Read(p) ==
    /\ p \in alive
    /\ request[p] = NoRequest
    /\ \E f \in Fds :
         LET i == table[p][f]
         IN  /\ i \in Pipes
             /\ queued[i] # << >>
             /\ queued' = [queued EXCEPT ![i] = Tail(@)]
    /\ UNCHANGED <<procVars, timerVars, itimer, alarm, pc>>

\* A fork: the child has the parent's descriptors.
Fork(p) ==
    /\ p \in alive
    /\ request[p] = NoRequest
    /\ \E q \in Procs \ alive :
         /\ alive' = alive \cup {q}
         /\ table' = [table EXCEPT ![q] = table[p]]
    /\ UNCHANGED <<request, queued, timerVars, itimer, alarm, pc>>

\* A process ends; its descriptors are closed by no call the tracer sees.
Exit(p) ==
    /\ p \in alive
    /\ alive # {p}
    /\ alive' = alive \ {p}
    /\ table' = [table EXCEPT ![p] = [f \in Fds |-> "closed"]]
    /\ request' = [request EXCEPT ![p] = NoRequest]
    /\ UNCHANGED <<queued, timerVars, itimer, alarm, pc>>

-----------------------------------------------------------------------------
(* Time.                                                                   *)

\* How late a one-shot timer is served makes no difference beyond MaxLate.
Advance ==
    /\ itimer # Off => itimer > 0
    /\ \A f \in Fds :
         deadline[f] # Off => deadline[f] > -MaxLate \/ interval[f] = 0
    /\ itimer' = IF itimer = Off THEN Off ELSE itimer - 1
    /\ deadline' = [f \in Fds |-> IF deadline[f] \in {Off, -MaxLate}
                                  THEN deadline[f] ELSE deadline[f] - 1]
    /\ UNCHANGED <<procVars, queued, interval, handle, alarm, pc>>

\* ITIMER_REAL has run out: its signal is handled before the tracer's own code
\* goes on, so re-arming the timer does not take it back.
Expired == itimer # Off /\ itimer <= 0

\* SIGALRM: on_alarm sets the flag, and waitpid returns EINTR if the tracer is
\* in it by then.
Alarm ==
    /\ Expired
    /\ itimer' = Off
    /\ alarm' = TRUE
    /\ pc' = IF pc = "waiting" THEN "top" ELSE pc
    /\ UNCHANGED <<procVars, queued, timerVars>>

-----------------------------------------------------------------------------
(* The tracer.                                                             *)

\* An overdue deadline arms a delay of zero, which turns the timer off.
Bug_Arm(dl) ==
    LET ahead == {Larger(dl[f], 0) : f \in {g \in Fds : dl[g] # Off}}
    IN  IF ahead \ {0} = {} THEN itimer' = Off
        ELSE itimer' = CHOOSE d \in ahead \ {0} : \A e \in ahead \ {0} : d <= e

\* arm: the nearest deadline, an overdue one as soon as possible.  Truncation
\* to microseconds may make it fire a little early.
Arm(dl) ==
    LET ahead == {Larger(dl[f], 0) : f \in {g \in Fds : dl[g] # Off}}
    IN  IF ahead = {} THEN itimer' = Off
        ELSE LET soonest == CHOOSE d \in ahead : \A e \in ahead : d <= e
             IN  \E early \in {0, 1} : itimer' = Larger(1, soonest - early)

\* Expirations of a timer that is due: the periods up to now.
Count(d, period) == IF period = 0 THEN 1 ELSE (-d) \div period + 1

\* The deadline moves by one period however many are reported.
Bug_Following(d, period) == IF period = 0 THEN Off ELSE d + period

\* The deadline after them.
Following(d, period) == IF period = 0 THEN Off ELSE d + Count(d, period) * period

Due(f) == deadline[f] # Off /\ deadline[f] <= 0

\* The write to f's pipe: "sent", "full" (EAGAIN) or "broken" (EPIPE).
WriteResult(f) ==
    IF Readers(handle[f]) = {} THEN "broken"
    ELSE IF Len(queued[handle[f]]) >= Cap THEN "full" ELSE "sent"

\* What tick leaves of timer f's deadline.
NextDeadline(f) ==
    IF ~Due(f) THEN deadline[f]
    ELSE CASE ~Tracked(f) -> Off
           [] Tracked(f) /\ WriteResult(f) = "sent" -> Following(deadline[f], interval[f])
           [] Tracked(f) /\ WriteResult(f) = "full" ->
                IF interval[f] = 0 THEN deadline[f]
                ELSE Following(deadline[f], interval[f])
           [] OTHER -> Off

\* tick: serve what is due, if the alarm has rung.
Tick ==
    /\ pc = "top"
    /\ ~Expired
    /\ pc' = "ticked"
    /\ alarm' = FALSE
    /\ IF ~alarm THEN UNCHANGED <<queued, timerVars, itimer>>
       ELSE LET sent == {f \in Fds : Due(f) /\ Tracked(f) /\ WriteResult(f) = "sent"}
                broken == {f \in Fds : Due(f) /\ Tracked(f) /\ WriteResult(f) = "broken"}
                timerOf(i) == CHOOSE f \in sent : handle[f] = i
                written == {handle[f] : f \in sent}
            IN  /\ queued' = [i \in Pipes |->
                     IF i \in written
                     THEN Append(queued[i], Count(deadline[timerOf(i)], interval[timerOf(i)]))
                     ELSE queued[i]]
                /\ deadline' = [f \in Fds |-> NextDeadline(f)]
                /\ interval' = [f \in Fds |-> IF f \in broken THEN 0 ELSE interval[f]]
                /\ handle' = [f \in Fds |-> IF f \in broken THEN "none" ELSE handle[f]]
                /\ Arm(deadline')
    /\ UNCHANGED procVars

\* waitpid finds nothing to report.
Block ==
    /\ pc = "ticked"
    /\ \A p \in Procs : request[p] = NoRequest
    /\ pc' = "waiting"
    /\ UNCHANGED <<procVars, queued, timerVars, itimer, alarm>>

\* waitpid returns the stop of p; the call runs on in the tracee afterwards.
Answer(p) ==
    /\ pc \in {"ticked", "waiting"}
    /\ ~Expired
    /\ pc' = "top"
    /\ request[p] # NoRequest
    /\ request' = [request EXCEPT ![p] = NoRequest]
    /\ UNCHANGED <<alive, alarm>>

\* timerfd_create: a pipe whose read end is the lowest free number.  Tracking
\* is by that number alone.
Create(p) ==
    /\ request[p].op = "create"
    /\ LET free == {f \in Fds : table[p][f] = "closed"}
           spare == {i \in Pipes : Readers(i) = {} /\ \A f \in Fds : handle[f] # i}
       IN  IF free = {} \/ spare = {}
           THEN UNCHANGED <<table, queued, timerVars>>
           ELSE LET f == CHOOSE g \in free : \A h \in free : g <= h
                IN  \E i \in spare :
                      /\ table' = [table EXCEPT ![p][f] = i]
                      /\ queued' = [queued EXCEPT ![i] = << >>]
                      /\ deadline' = [deadline EXCEPT ![f] = Off]
                      /\ interval' = [interval EXCEPT ![f] = 0]
                      /\ handle' = [handle EXCEPT ![f] = i]
    /\ UNCHANGED itimer
    /\ Answer(p)

\* open, answered by the kernel alone.
Open(p) ==
    /\ request[p].op = "open"
    /\ LET free == {f \in Fds : table[p][f] = "closed"}
       IN  table' = IF free = {} THEN table
                    ELSE [table EXCEPT ![p][CHOOSE g \in free : \A h \in free : g <= h] = "file"]
    /\ UNCHANGED <<queued, timerVars, itimer>>
    /\ Answer(p)

\* timerfd_settime: bookkeeping for a tracked number, else left to fail.
Settime(p) ==
    /\ request[p].op = "settime"
    /\ LET f == request[p].fd
       IN  IF ~Tracked(f) THEN UNCHANGED <<queued, timerVars, itimer>>
           ELSE /\ deadline' = [deadline EXCEPT ![f] = IF request[p].delay = 0 THEN Off
                                                       ELSE request[p].delay]
                /\ interval' = [interval EXCEPT ![f] = request[p].period]
                /\ Arm(deadline')
                /\ UNCHANGED <<queued, handle>>
    /\ UNCHANGED table
    /\ Answer(p)

\* The timer of a closed descriptor stays.
Bug_Untracked(f) == handle

\* What close leaves of the tracked timers.
Untracked(f) == [handle EXCEPT ![f] = "none"]

\* close: stop tracking the number, then close it.
Close(p) ==
    /\ request[p].op = "close"
    /\ LET f == request[p].fd
       IN  /\ deadline' = [deadline EXCEPT ![f] = Off]
           /\ interval' = [interval EXCEPT ![f] = 0]
           /\ handle' = Untracked(f)
           /\ table' = [table EXCEPT ![p][f] = "closed"]
    /\ UNCHANGED <<queued, itimer>>
    /\ Answer(p)

Other(p) ==
    /\ request[p].op = "other"
    /\ UNCHANGED <<table, queued, timerVars, itimer>>
    /\ Answer(p)

Serve(p) == Create(p) \/ Open(p) \/ Settime(p) \/ Close(p) \/ Other(p)

Next ==
    \/ \E p \in Procs :
         \/ AskCreate(p) \/ AskOpen(p) \/ AskSettime(p) \/ AskClose(p) \/ AskOther(p)
         \/ Read(p) \/ Fork(p) \/ Exit(p)
         \/ Create(p) \/ Open(p) \/ Settime(p) \/ Close(p) \/ Other(p)
    \/ Advance \/ Alarm \/ Tick \/ Block

Spec == Init /\ [][Next]_vars

\* The tracer runs, time passes and SIGALRM arrives.
Fairness ==
    /\ WF_vars(Tick) /\ WF_vars(Block) /\ \A p \in Procs : WF_vars(Serve(p))
    /\ WF_vars(Advance) /\ WF_vars(Alarm)

\* An application may sleep in poll until its timer is readable.
IdleSpec == Spec /\ Fairness

\* Some thread of the application always gets round to another call.
BusySpec == IdleSpec /\ WF_vars(AskOther(First))

-----------------------------------------------------------------------------
(* Properties.                                                             *)

\* Type invariant of the timers and of the tracer's loop.
TypeOK ==
    /\ alive \subseteq Procs /\ alive # {}
    /\ table \in [Procs -> [Fds -> Pipes \cup {"closed", "file"}]]
    /\ \A i \in Pipes : Len(queued[i]) <= Cap
    /\ deadline \in [Fds -> Int \cup {Off}]
    /\ interval \in [Fds -> Nat]
    /\ handle \in [Fds -> Pipes \cup {"none"}]
    /\ itimer \in Nat \cup {Off}
    /\ alarm \in BOOLEAN
    /\ pc \in {"top", "ticked", "waiting"}

\* As long as one process uses timers, the numbers tracked are exactly the
\* timerfds it has open, each with the write end of its own pipe: no
\* descriptor that reuses a number is taken for a timer, and no open timer is
\* forgotten (begin's close arm, capture_pipe, tick's EPIPE arm).
TrackedIsOpen ==
    \A f \in Fds :
        handle[f] = IF table[First][f] \in Pipes THEN table[First][f] ELSE "none"

\* While an armed timer has a deadline, either the alarm has rung and is not
\* yet served, or ITIMER_REAL is running and rings no later than the nearest
\* deadline: no path through settime, close and tick leaves a deadline nobody
\* will wake up for (arm, and the callers that must not forget it).
WakeupArmed ==
    \A f \in Fds :
        deadline[f] # Off /\ ~alarm => itimer # Off /\ itimer <= Larger(1, deadline[f])

\* An interval timer keeps its phase: when tick serves it, however late, the
\* next deadline lies ahead, within one period, and the expirations reported
\* are exactly the periods that passed.
PeriodsExact ==
    [][ \A f \in Fds :
          (pc = "top" /\ pc' = "ticked" /\ Due(f) /\ interval[f] > 0 /\ handle'[f] # "none"
             /\ deadline'[f] # deadline[f])
          => /\ deadline'[f] \in 1 .. interval[f]
             /\ queued'[handle[f]] # queued[handle[f]] =>
                  deadline'[f] - deadline[f]
                    = queued'[handle[f]][Len(queued'[handle[f]])] * interval[f]
      ]_vars

\* A deadline that has passed is served, unless the application has stopped
\* reading the timer.
ExpirationServed ==
    \A f \in Fds :
        (Due(f) /\ Tracked(f))
            ~> (~Due(f) \/ ~Tracked(f) \/ Len(queued[handle[f]]) = Cap)
=============================================================================
