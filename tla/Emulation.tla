----------------------------- MODULE Emulation -----------------------------
(***************************************************************************)
(* One tracee in ptrace mode (every syscall stops), the kernel it runs on, *)
(* and the part of the tracer that answers a missing syscall with calls it *)
(* makes inside the tracee: Emulations::begin and step of                  *)
(* emulated_syscalls.rs, and the arms of Tracer::supervise that call them. *)
(*                                                                         *)
(* The tracee is at one of these places:                                   *)
(*   user     running application code (a handler when frames # << >>)     *)
(*   entry    at a syscall-entry stop                                      *)
(*   kernel   inside the call regs.nr                                      *)
(*   exit     at a syscall-exit stop                                       *)
(*   resumed  on its way out of the kernel, where signals are looked for   *)
(*   signal   at a signal-delivery stop                                    *)
(* Every stop is answered by exactly one tracer action.                    *)
(***************************************************************************)
EXTENDS InjectedCalls, FiniteSets

CONSTANTS
    Signals,    \* signals the application handles (not SIGSTOP, SIGTRAP)
    Masks,      \* signal masks it uses, sets of Signals
    Fds,        \* its descriptor numbers, i.e. the RLIMIT_NOFILE bound
    Calls       \* the calls it makes, a subset of AppCalls

\* Calls that are emulated with a sequence, and with bookkeeping only.
SequenceCalls ==
    {"epoll_pwait", "vector_io", "dupfd_cloexec", "eventfd", "timerfd_create"}
FixupCalls == {"timerfd_settime", "timerfd_gettime"}
AppCalls == SequenceCalls \cup FixupCalls \cup {"sigprocmask", "open", "close"}

ASSUME ConstantsAssumption ==
    /\ Masks \subseteq SUBSET Signals
    /\ Fds \subseteq Nat
    /\ Calls \subseteq AppCalls

VARIABLES
    \* the tracee, as the kernel keeps it
    where,      \* see above
    regs,       \* its registers: call number, fd and mask arguments, rip, rax
    mask,       \* the signals it blocks
    pending,    \* signals sent to it and not yet dequeued
    stopSig,    \* the signal of a signal-delivery stop, as a set
    frames,     \* the signal frame of a running handler, if any
    files,      \* what each descriptor number refers to
    scratchMask, scratchPair,   \* memory below its stack pointer
    \* the tracer
    inSyscall,  \* in_syscall: the last stop was an entry
    active,     \* Emulations.active
    held,       \* stashed_signal, one slot
    timers,     \* descriptors tracked as emulated timerfds
    \* what the application is entitled to, to state properties with
    mine,       \* the registers application code left behind at its last call
    appMask,    \* the mask application code asked for, or is left with when the
                \* kernel refuses to put it back
    owed        \* signals sent whose handler has not run since

tracee == <<where, regs, mask, pending, stopSig, frames, files,
            scratchMask, scratchPair>>
tracer == <<inSyscall, active, held, timers>>
ghosts == <<mine, appMask, owed>>
vars == <<tracee, tracer, ghosts>>

Free == {f \in Fds : files[f] = "free"}
Lowest(S) == CHOOSE f \in S : \A g \in S : f <= g

Regs(nr, fd, set, opts, rip) ==
    [nr |-> nr, fd |-> fd, set |-> set, opts |-> opts, rip |-> rip, rax |-> 0]

NoPair == <<NoFd, NoFd>>

\* No emulation, and the bookkeeping-only one (Active::Fixup).
Idle == [kind |-> "none", saved |-> Regs("none", NoFd, {}, {}, "app"),
         queue |-> << >>, running |-> "none", atEntry |-> FALSE,
         results |-> << >>, fd |-> NoFd, writeEnd |-> NoFd,
         before |-> [f \in Fds |-> "free"]]
Fixup == [Idle EXCEPT !.kind = "fixup"]
Busy == active.kind # "none"

\* The registers application code sees; the call number is the kernel's own
\* copy (orig_rax), the result is replaced on purpose.
Visible(r) == <<r.fd, r.set, r.opts, r.rip>>

Init ==
    /\ where = "user"
    /\ regs = Regs("none", NoFd, {}, {}, "app")
    /\ mask \in Masks
    /\ pending = {}
    /\ stopSig = {}
    /\ frames = << >>
    /\ files = [f \in Fds |-> "free"]
    /\ scratchMask = {}
    /\ scratchPair = NoPair
    /\ inSyscall = FALSE
    /\ active = Idle
    /\ held = {}
    /\ timers = {}
    /\ mine = regs
    /\ appMask = mask
    /\ owed = {}

-----------------------------------------------------------------------------
(* The application.  Memory below the stack pointer is its own: by the     *)
(* time it makes a call the scratch area may hold what the last emulation  *)
(* left there, or something else.                                          *)

Enter(r) ==
    /\ where = "user"
    /\ where' = "entry"
    /\ regs' = r
    /\ mine' = r

\* A call of the application, with any arguments it may pass.  A handler does
\* not touch the mask, so that one frame is enough.
AppCall ==
    /\ \E k \in Calls, f \in Fds, m \in Masks \cup {mask},
          o \in SUBSET {"nonblock", "initial"} :
            /\ k \in {"dupfd_cloexec", "vector_io", "close"} \cup FixupCalls
                 \/ f = Lowest(Fds)
            /\ (k \in {"epoll_pwait", "sigprocmask"} /\ frames = << >>)
                 \/ (k # "sigprocmask" /\ m = mask)
            /\ k = "eventfd" \/ (k = "timerfd_create" /\ "initial" \notin o)
                 \/ o = {}
            /\ Enter(Regs(k, f, m, o, "app"))
    /\ scratchMask' \in IF regs'.nr = "epoll_pwait" THEN Masks ELSE {{}}
    /\ scratchPair' \in {scratchPair, NoPair}
    /\ UNCHANGED <<mask, pending, stopSig, frames, files, tracer, appMask, owed>>

\* The end of a handler: rt_sigreturn is a syscall like any other.
Sigreturn ==
    /\ frames # << >>
    /\ Enter(Regs("sigreturn", NoFd, {}, {}, "app"))
    /\ UNCHANGED <<mask, pending, stopSig, frames, files, scratchMask,
                   scratchPair, tracer, appMask, owed>>

-----------------------------------------------------------------------------
(* The kernel.                                                             *)

\* Somebody sends s; a signal already pending is not queued twice.
SendSignal ==
    /\ \E s \in Signals \ pending :
         /\ pending' = pending \cup {s}
         /\ owed' = owed \cup {s}
    /\ UNCHANGED <<where, regs, mask, stopSig, frames, files, scratchMask,
                   scratchPair, tracer, mine, appMask>>

\* A signal that is not blocked stops the tracee on its way to user mode.
TakeSignal ==
    /\ where \in {"user", "resumed"}
    /\ \E s \in pending \ mask :
         /\ stopSig' = {s}
         /\ pending' = pending \ {s}
    /\ where' = "signal"
    /\ UNCHANGED <<regs, mask, frames, files, scratchMask, scratchPair,
                   tracer, ghosts>>

\* No signal in the way: user mode.  At the gadget that is a syscall
\* instruction, which enters the kernel again at once.
LeaveKernel ==
    /\ where = "resumed"
    /\ pending \ mask = {}
    /\ where' = IF regs.rip = "gadget" THEN "entry" ELSE "user"
    /\ UNCHANGED <<regs, mask, pending, stopSig, frames, files, scratchMask,
                   scratchPair, tracer, ghosts>>

Return(rax) ==
    /\ where = "kernel"
    /\ where' = "exit"
    /\ regs' = [regs EXCEPT !.rax = rax]

\* Calls that answer without changing anything the model keeps.
RunPlain ==
    /\ \/ regs.nr = "getpid" /\ Return(1)
       \/ regs.nr \in {"nonblock", "fcntl_cloexec"} /\ \E rc \in {0, -EACCES} : Return(rc)
       \/ regs.nr = "write_initial" /\ \E rc \in {8, -EACCES, -EFAULT} : Return(rc)
       \/ regs.nr = "lseek" /\ \E rc \in {0, -ESPIPE} : Return(rc)
       \/ regs.nr = "vector_io" /\ regs.rip = "gadget"
            /\ \E rc \in {0, 8, -EFAULT} : Return(rc)
       \* a call this kernel does not have, left alone by the tracer
       \/ regs.nr \in SequenceCalls \cup FixupCalls /\ regs.rip = "app"
            /\ Return(-ENOSYS)
    /\ UNCHANGED <<mask, pending, stopSig, frames, files, scratchMask,
                   scratchPair, tracer, ghosts>>

\* rt_sigprocmask: the application's own, the one that installs the wait's
\* mask and saves the old one in scratch, and the one that puts it back.  The
\* first of the two fails when it cannot read the application's mask, the
\* second when scratch is gone, which another thread may have unmapped: then
\* the application is left with the mask of the wait.
RunSigprocmask ==
    /\ \/ /\ regs.nr = "sigprocmask"
          /\ mask' = regs.set
          /\ appMask' = regs.set
          /\ Return(0)
          /\ UNCHANGED scratchMask
       \/ /\ regs.nr = "sigprocmask_set"
          /\ \/ mask' = regs.set /\ scratchMask' = mask /\ Return(0)
             \/ Return(-EFAULT) /\ UNCHANGED <<mask, scratchMask>>
          /\ UNCHANGED appMask
       \/ /\ regs.nr = "sigprocmask_restore"
          /\ \/ mask' = scratchMask /\ Return(0) /\ UNCHANGED appMask
             \/ Return(-EFAULT) /\ UNCHANGED mask /\ appMask' = mask
          /\ UNCHANGED scratchMask
    /\ UNCHANGED <<pending, stopSig, frames, files, scratchPair, tracer,
                   mine, owed>>

\* epoll_wait ends with an event, at its timeout, or with an error ...
EndWait ==
    /\ regs.nr = "epoll_wait"
    /\ \E rc \in {0, 1, -EBADF} : Return(rc)
    /\ UNCHANGED <<mask, pending, stopSig, frames, files, scratchMask,
                   scratchPair, tracer, ghosts>>

\* ... or because of a signal the mask in force lets through.
InterruptWait ==
    /\ regs.nr = "epoll_wait"
    /\ pending \ mask # {}
    /\ Return(-EINTR)
    /\ UNCHANGED <<mask, pending, stopSig, frames, files, scratchMask,
                   scratchPair, tracer, ghosts>>

\* Calls that make a descriptor of the given kind: the lowest free number.
Allocate(object) ==
    IF Free = {} THEN Return(-EMFILE) /\ UNCHANGED files
    ELSE /\ Return(Lowest(Free))
         /\ files' = [files EXCEPT ![Lowest(Free)] = object]

\* Calls on a descriptor, which becomes `object`.
Change(object) ==
    IF regs.fd \notin Fds \/ regs.fd \in Free
    THEN Return(-EBADF) /\ UNCHANGED files
    ELSE Return(0) /\ files' = [files EXCEPT ![regs.fd] = object]

RunFiles ==
    /\ \/ regs.nr = "open" /\ Allocate("file")
       \/ regs.nr \in {"close", "close_write_end"} /\ Change("free")
       \/ regs.nr = "socket" /\ Allocate("socket")
       \/ regs.nr = "bind" /\ \/ Change("bound")
                              \/ Return(-EADDRINUSE) /\ UNCHANGED files
       \/ regs.nr = "connect" /\ \/ Change("selfconnected")
                                 \/ Return(-EACCES) /\ UNCHANGED files
       \/ regs.nr = "fcntl_dupfd"
            /\ IF regs.fd \in Free THEN Return(-EBADF) /\ UNCHANGED files
               ELSE Allocate("file")
    /\ UNCHANGED <<mask, pending, stopSig, frames, scratchMask, scratchPair,
                   tracer, ghosts>>

\* pipe: two descriptors, reported through the scratch area.
RunPipe ==
    /\ regs.nr = "pipe"
    /\ IF Cardinality(Free) < 2
       THEN Return(-EMFILE) /\ UNCHANGED <<files, scratchPair>>
       ELSE LET r == Lowest(Free)
                w == Lowest(Free \ {r})
            IN  /\ Return(0)
                /\ files' = [files EXCEPT ![r] = "pipeR", ![w] = "pipeW"]
                /\ scratchPair' = <<r, w>>
    /\ UNCHANGED <<mask, pending, stopSig, frames, scratchMask, tracer, ghosts>>

\* rt_sigreturn: back to where the handler's signal found the tracee.
RunSigreturn ==
    /\ where = "kernel"
    /\ regs.nr = "sigreturn"
    /\ where' = "exit"
    /\ regs' = frames[1].regs
    /\ mine' = frames[1].mine
    /\ mask' = frames[1].mask
    /\ appMask' = frames[1].appMask
    /\ frames' = << >>
    /\ UNCHANGED <<pending, stopSig, files, scratchMask, scratchPair, tracer,
                   owed>>

Run == RunPlain \/ RunSigprocmask \/ RunFiles \/ RunPipe \/ RunSigreturn

-----------------------------------------------------------------------------
(* The tracer resumes the tracee.                                          *)

\* The arm that holds a signal back does not resume the tracee.
Bug_Resume ==
    /\ where' = IF where = "entry" THEN "kernel"
                ELSE IF where = "signal" THEN "held" ELSE "resumed"
    /\ stopSig' = {}

\* PTRACE_SYSCALL with no signal.
Resume ==
    /\ where' = IF where = "entry" THEN "kernel" ELSE "resumed"
    /\ stopSig' = {}

\* The signal of this stop goes through: a handler starts, its frame lands in
\* the memory below the stack pointer and it blocks every signal meanwhile.
StartHandler ==
    /\ where' = "user"
    /\ frames' = <<[regs |-> regs, mine |-> mine, mask |-> mask,
                    appMask |-> appMask]>>
    /\ regs' = Regs("none", NoFd, {}, {}, "app")
    /\ mine' = regs'
    /\ mask' = Signals
    /\ appMask' = Signals
    /\ scratchMask' \in IF Busy THEN Masks ELSE {{}}
    /\ owed' = owed \ stopSig
    /\ stopSig' = {}

Bug_MustHold == FALSE

\* Wait::Stopped: a signal that arrives during an emulation is held back, in
\* place of one that is held already.
MustHold == Busy

OnStopped ==
    /\ where = "signal"
    /\ \/ /\ MustHold
          /\ held' = stopSig
          /\ Resume
          /\ UNCHANGED <<regs, mask, frames, scratchMask, mine, appMask, owed>>
       \/ /\ ~MustHold
          /\ StartHandler
          /\ UNCHANGED held
    /\ UNCHANGED <<pending, files, scratchPair, inSyscall, active, timers>>

-----------------------------------------------------------------------------
(* Emulations::begin.                                                      *)

QueueOf(r) ==
    CASE r.nr = "epoll_pwait"    -> EpollPwaitSeq
      [] r.nr = "vector_io"      -> VectorIoSeq
      [] r.nr = "dupfd_cloexec"  -> DupfdCloexecSeq
      [] r.nr = "eventfd"        -> EventfdSeq("nonblock" \in r.opts,
                                               "initial" \in r.opts)
      [] r.nr = "timerfd_create" -> TimerfdCreateSeq("nonblock" \in r.opts)

\* Which result answers the call; 0 for Outcome::Adopted.
OutcomeOf(nr) ==
    CASE nr \in {"epoll_pwait", "vector_io"} -> 2
      [] nr \in {"dupfd_cloexec", "eventfd"} -> 1
      [] nr = "timerfd_create" -> 0

\* The fd argument build() gives a step.
FdOf(step, act) ==
    CASE step \in {"fcntl_dupfd", "lseek", "vector_io"} -> act.saved.fd
      [] step = "close_write_end" -> act.writeEnd
      [] OTHER -> act.fd

Build(step, act, rip) ==
    Regs(step, FdOf(step, act),
         IF step = "sigprocmask_set" THEN act.saved.set ELSE {}, {}, rip)

\* start_sequence: the call becomes the first one of the sequence.
StartSequence ==
    LET queue == QueueOf(regs)
        act == [kind |-> regs.nr, saved |-> regs, queue |-> Tail(queue),
                running |-> Head(queue), atEntry |-> FALSE, results |-> << >>,
                fd |-> NoFd, writeEnd |-> NoFd, before |-> files]
    IN  /\ regs.nr \in SequenceCalls
        /\ active' = act
        /\ regs' = Build(Head(queue), act, regs.rip)
        /\ UNCHANGED timers

\* timerfd_settime / gettime on a tracked timer: stand_in.
StandIn ==
    /\ regs.nr \in FixupCalls
    /\ regs.fd \in timers
    /\ active' = Fixup
    /\ regs' = [regs EXCEPT !.nr = "getpid"]
    /\ UNCHANGED timers

\* begin declined: on_syscall_stop only toggles its record of the direction.
\* Any call may end here, because the tracer cannot find a syscall instruction,
\* read or write an argument, or set the registers; a timer call also when its
\* fd is not tracked.
NotEmulated ==
    /\ inSyscall' = ~inSyscall
    /\ timers' = IF ~inSyscall /\ regs.nr = "close"
                 THEN timers \ {regs.fd} ELSE timers
    /\ UNCHANGED <<regs, active>>

Bug_Entering == TRUE

\* Only the entry of a call is taken over.
Entering == ~inSyscall

OnSyscall ==
    /\ where \in {"entry", "exit"}
    /\ ~Busy
    /\ \/ Entering /\ StartSequence /\ UNCHANGED inSyscall
       \/ Entering /\ StandIn /\ UNCHANGED inSyscall
       \/ NotEmulated
    /\ Resume
    /\ UNCHANGED <<mask, pending, frames, files, scratchMask, scratchPair,
                   held, mine, appMask, owed>>

-----------------------------------------------------------------------------
(* Emulations::step.                                                       *)

\* The held signal is kept when the emulation is over.
Bug_ResumeAfterStep ==
    /\ Resume
    /\ UNCHANGED <<pending, held, mask, frames, files, scratchMask,
                   scratchPair, inSyscall, mine, appMask, owed>>

\* The held signal is taken from its slot and not passed on.
Bug_ResumeDropsHeld ==
    /\ Resume
    /\ held' = IF active'.kind = "none" THEN {} ELSE held
    /\ UNCHANGED <<pending, mask, frames, files, scratchMask, scratchPair,
                   inSyscall, mine, appMask, owed>>

\* The caller resumes, with the held signal if the emulation is over: at a
\* syscall stop that sends the signal to the tracee again.
ResumeAfterStep ==
    /\ Resume
    /\ IF active'.kind = "none"
       THEN pending' = pending \cup held /\ held' = {}
       ELSE UNCHANGED <<pending, held>>
    /\ UNCHANGED <<mask, frames, files, scratchMask, scratchPair, inSyscall,
                   mine, appMask, owed>>

StepFixup ==
    /\ where \in {"entry", "exit"}
    /\ active.kind = "fixup"
    /\ regs' = [regs EXCEPT !.rax = 0]
    /\ active' = Idle
    /\ UNCHANGED timers
    /\ ResumeAfterStep

StepEntry ==
    /\ where \in {"entry", "exit"}
    /\ active.kind \in SequenceCalls
    /\ active.atEntry
    /\ active' = [active EXCEPT !.atEntry = FALSE]
    /\ UNCHANGED <<regs, timers>>
    /\ ResumeAfterStep

\* capture_pipe can open the write end named in the scratch area through
\* /proc: a pipe or a file, not a socket.
Reopenable(f) == f \in Fds /\ files[f] \in {"pipeR", "pipeW", "file"}

Tracked(captured) == IF captured THEN timers \cup {scratchPair[1]} ELSE timers

\* What step() records of the call that just returned.  captured: the tracer
\* got hold of the pipe, which it tries whenever the call was a pipe.
Collected(captured) ==
    LET rs == Append(active.results, regs.rax)
        isPipe == active.running = "pipe"
    IN  [active EXCEPT
            !.results = IF isPipe /\ ~captured THEN Append(rs, -EIO) ELSE rs,
            !.fd = IF captured THEN scratchPair[1]
                   ELSE IF Len(rs) = 1 /\ active.running \in MakesFd
                   THEN regs.rax ELSE active.fd,
            !.writeEnd = IF captured THEN scratchPair[2] ELSE @]

\* Enter the kernel again from the gadget, for the n-th queued step.
Inject(act, n) ==
    /\ active' = [act EXCEPT !.running = act.queue[n], !.atEntry = TRUE,
                             !.queue = SubSeq(@, n + 1, Len(@))]
    /\ regs' = Build(act.queue[n], act, "gadget")

\* Only the result is written; the rest stays as the last call left it.
Bug_Finish(act) ==
    /\ active' = Idle
    /\ regs' = [regs EXCEPT !.rax = Answer(OutcomeOf(act.kind), act.results, act.fd)]

\* Hand the application its registers back, with the result.
Finish(act) ==
    /\ active' = Idle
    /\ regs' = [act.saved EXCEPT !.rax = Answer(OutcomeOf(act.kind), act.results, act.fd)]

StepCollect ==
    /\ where \in {"entry", "exit"}
    /\ active.kind \in SequenceCalls
    /\ ~active.atEntry
    /\ \E captured \in BOOLEAN :
         /\ captured => active.running = "pipe" /\ Reopenable(scratchPair[2])
         /\ timers' = Tracked(captured)
         /\ LET act == Collected(captured)
                n == Popped(act.queue, act.results)
            IN  IF n > 0 THEN Inject(act, n) ELSE Finish(act)
    /\ ResumeAfterStep

Tracer == OnStopped \/ OnSyscall \/ StepFixup \/ StepEntry \/ StepCollect

Next ==
    \/ AppCall \/ Sigreturn
    \/ SendSignal \/ TakeSignal \/ LeaveKernel
    \/ Run \/ EndWait \/ InterruptWait
    \/ OnStopped \/ OnSyscall \/ StepFixup \/ StepEntry \/ StepCollect

Spec == Init /\ [][Next]_vars

\* The tracer answers every stop and the kernel finishes every call but a wait.
Fairness ==
    /\ WF_vars(Tracer)
    /\ WF_vars(Run)
    /\ WF_vars(TakeSignal)
    /\ WF_vars(LeaveKernel)
    /\ WF_vars(InterruptWait)

\* An epoll_wait without a timeout ends only by an event or a signal.
PatientSpec == Spec /\ Fairness

\* Every wait has a timeout, and senders fall silent in the end.
FairSpec ==
    /\ PatientSpec
    /\ WF_vars(EndWait)
    /\ <>[][~SendSignal]_vars

-----------------------------------------------------------------------------
(* Properties.                                                             *)

Objects == {"free", "file", "socket", "bound", "selfconnected", "pipeR", "pipeW"}
Steps ==
    {"sigprocmask_set", "epoll_wait", "sigprocmask_restore", "lseek",
     "vector_io", "fcntl_dupfd", "fcntl_cloexec", "socket", "bind", "connect",
     "nonblock", "write_initial", "pipe", "close_write_end"}
RegsType ==
    [nr : AppCalls \cup Steps \cup {"none", "getpid", "sigreturn"},
     fd : Int, set : SUBSET Signals, opts : SUBSET {"nonblock", "initial"},
     rip : {"app", "gadget"}, rax : Int]
FrameType ==
    [regs : RegsType, mine : RegsType, mask : SUBSET Signals, appMask : SUBSET Signals]
ActiveType ==
    [kind : SequenceCalls \cup {"none", "fixup"}, saved : RegsType,
     queue : Seq(Steps), running : Steps \cup {"none"}, atEntry : BOOLEAN,
     results : Seq(Int), fd : Int, writeEnd : Int, before : [Fds -> Objects]]

\* Type invariant of the tracee, the kernel and Emulations.
TypeOK ==
    /\ where \in {"user", "entry", "kernel", "exit", "resumed", "signal"}
    /\ regs \in RegsType /\ mine \in RegsType
    /\ mask \in SUBSET Signals /\ appMask \in SUBSET Signals
    /\ pending \in SUBSET Signals /\ stopSig \in SUBSET Signals
    /\ held \in SUBSET Signals /\ owed \in SUBSET Signals
    /\ frames \in Seq(FrameType)
    /\ files \in [Fds -> Objects]
    /\ scratchMask \in SUBSET Signals
    /\ scratchPair \in (Fds \X Fds) \cup {NoPair}
    /\ inSyscall \in BOOLEAN
    /\ active \in ActiveType
    /\ timers \subseteq Fds

\* Application code, handlers included, always runs with the signal mask it
\* asked for: an emulated epoll_pwait takes its mask back however the wait ends
\* (Step::Sigprocmask { always }, step's cleanup rule).  Only when the kernel
\* refuses that very call is it left with the mask of the wait.
MaskIntact == where = "user" => mask = appMask

\* Application code finds its own registers, rip and arguments included, with
\* only rax replaced: no injected call shows through (step's write-back of
\* `saved`, the Wait::Stopped arm that keeps handlers out of a sequence).
RegistersIntact == where = "user" => Visible(regs) = Visible(mine)

\* The tracer always knows which way round a stop is: outside an emulation
\* in_syscall, inside one at_entry, agree with the kernel.
StopsMatch ==
    /\ where = "entry" => IF Busy THEN active.kind \in SequenceCalls /\ active.atEntry
                                  ELSE ~inSyscall
    /\ where = "exit" => IF Busy THEN active.kind = "fixup" \/ ~active.atEntry
                                 ELSE inSyscall

\* No application code runs while an emulation is in progress.
NothingRunsInside == where = "user" => ~Busy

\* The descriptors the application had open when the emulation began are still
\* open and unchanged: a sequence works on nothing but what it created, even
\* when one of its calls fails (build's fd arguments, step's failure rule).
OwnFilesUntouched ==
    active.kind \in SequenceCalls =>
        \A f \in Fds : active.before[f] # "free" => files[f] = active.before[f]

\* epoll_pwait answers what the wait returned, also when the call after it, that
\* puts the mask back, fails (step's choice between the outcome and the first
\* error).
WaitAnswered ==
    [][ (active.kind = "epoll_pwait" /\ active'.kind = "none" /\ Len(active.results) >= 1)
          => regs'.rax = Append(active.results, regs.rax)[2] ]_vars

\* A held signal never outlives the emulation that held it back: it is sent on
\* when the sequence ends, however that comes about.
HeldInsideOnly == held # {} => Busy

\* Every emulated call comes back to the application.
CallReturns == where # "user" ~> where = "user"

\* A signal on its way to a handler: pending, reported at a stop, or held back.
InFlight == pending \cup stopSig \cup held

\* A signal stays on its way until its handler runs, across the end of an
\* emulation too and when it is sent again meanwhile; the one way to lose it is
\* a later one that takes its place in the slot (Wait::Stopped, the hand-over
\* after step).
NoSignalDropped ==
    [][ \A s \in InFlight \cap owed' :
          s \in InFlight' \/ (where = "signal" /\ s \in held /\ held' = stopSig) ]_vars

\* A signal the wait's mask lets in wakes the wait and is handled: that is what
\* the mask argument of epoll_pwait is for.
GatedSignalHandled ==
    \A s \in Signals :
        (s \in owed /\ where = "kernel" /\ regs.nr = "epoll_wait" /\ s \notin mask)
            ~> (s \notin owed)

-----------------------------------------------------------------------------
(* What the application sees.                                              *)

\* In a call: from its entry to the stop after which the tracee goes back to
\* its own code.
InCall == Busy \/ where \in {"entry", "kernel"}

Place == IF where = "user" THEN "code" ELSE IF InCall THEN "call" ELSE "back"
Call == IF InCall THEN mine.nr ELSE "none"
View == IF InCall THEN Visible(mine) ELSE Visible(regs)
Result == IF InCall THEN 0 ELSE regs.rax
Blocked == IF InCall THEN appMask ELSE mask
Table == IF active.kind \in SequenceCalls THEN active.before ELSE files
Frame == IF frames = << >> THEN << >>
         ELSE <<[view |-> Visible(frames[1].regs), result |-> frames[1].regs.rax,
                 blocked |-> frames[1].mask]>>

Seen == INSTANCE AtomicCalls WITH
    place <- Place, call <- Call, view <- View, result <- Result,
    blocked <- Blocked, table <- Table, frame <- Frame, sent <- InFlight

\* A sequence of injected calls, with its failures and the signals that come
\* in between, looks to the application like one call (begin, step and the arms
\* of supervise that call them).
SeenAsAtomic == Seen!Spec
=============================================================================
