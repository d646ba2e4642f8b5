---------------------------- MODULE AtomicProofs ----------------------------
(***************************************************************************)
(* Emulation implements AtomicCalls, for every set of signals, masks,      *)
(* descriptors and calls: a sequence of injected calls, with its failures  *)
(* and the signals that come in between, looks to the application like     *)
(* one call.                                                               *)
(*                                                                         *)
(* The invariant of EmulationProofs says that the mask and the registers   *)
(* are put back.  That a call has exactly one effect needs three more:     *)
(*   Asked      the call in progress is the one the application made       *)
(*   Reporting  a signal at its stop is not blocked; handlers block all    *)
(*   Progress   how far each sequence is, what its calls have returned,    *)
(*              and that the descriptor table is the one at its beginning  *)
(*              with what the calls so far have made                       *)
(***************************************************************************)
EXTENDS EmulationProofs

\* The registers of the call in progress are the application's, or kept.
Asked ==
    /\ (~Busy /\ where \in {"entry", "kernel"}) => regs = mine
    /\ InSequence => active.saved = mine /\ mine.nr = active.kind
    /\ active.kind = "fixup" => mine.nr \in FixupCalls

\* Signals and handlers.
Reporting ==
    /\ stopSig # {} => where = "signal"
    /\ where = "signal" => \E s \in Signals \ mask : stopSig = {s}
    /\ frames # << >> => appMask = Signals
    /\ (frames # << >> /\ mine.nr = "epoll_pwait") => mine.set = Signals
    /\ (~Busy /\ where \in {"entry", "kernel"} /\ regs.nr = "sigprocmask") => frames = << >>

-----------------------------------------------------------------------------
(* How far a sequence is.  Its running call has been made once the tracee  *)
(* is at the exit stop, and not before.                                    *)

Made == where = "exit"

\* The descriptors free at the beginning, and the ones the kernel gives out.
FreeBefore == {f \in Fds : active.before[f] = "free"}
First == Lowest(FreeBefore)
Second == Lowest(FreeBefore \ {First})
With(object) == [active.before EXCEPT ![First] = object]

\* What a call that makes a descriptor does to the table and returns.
Given(object, rc) ==
    IF FreeBefore = {} THEN rc = -EMFILE /\ files = active.before
    ELSE rc = First /\ files = With(object)
Allocated(object) == Given(object, regs.rax)

\* epoll_pwait.  Once installed, the mask of the wait is in force until the call
\* that puts the old one back has been made.
WaitProgress ==
    /\ files = active.before
    /\ active.running = "sigprocmask_set" =>
         IF Made THEN regs.rax = 0 => mask = active.saved.set
                 ELSE regs.set = active.saved.set
    /\ active.running = "epoll_wait" => mask = active.saved.set
    /\ (active.running = "sigprocmask_restore" /\ ~Made) => mask = active.saved.set
    /\ active.running = "epoll_wait" /\ Made =>
         regs.rax \in {0, 1, -EBADF} \/ (regs.rax = -EINTR /\ InFlight # {})
    /\ active.running = "sigprocmask_restore" =>
         active.results[2] \in {0, 1, -EBADF} \/ (active.results[2] = -EINTR /\ InFlight # {})

\* pwritev and preadv.
VectorProgress ==
    /\ files = active.before
    /\ \/ /\ active.running = "lseek" /\ active.queue = <<"vector_io">>
          /\ active.results = << >>
          /\ Made => regs.rax \in {0, -ESPIPE}
       \/ /\ active.running = "vector_io" /\ active.queue = << >>
          /\ active.results = <<0>>
          /\ regs.rip = "gadget"
          /\ Made => regs.rax \in {0, 8, -EFAULT}

\* fcntl(F_DUPFD_CLOEXEC).
DupfdProgress ==
    \/ /\ active.running = "fcntl_dupfd" /\ active.queue = <<"fcntl_cloexec">>
       /\ active.results = << >>
       /\ IF ~Made THEN files = active.before
          ELSE IF active.saved.fd \in FreeBefore
          THEN regs.rax = -EBADF /\ files = active.before
          ELSE Allocated("file")
    \/ /\ active.running = "fcntl_cloexec" /\ active.queue = << >>
       /\ active.results = <<First>>
       /\ FreeBefore # {} /\ active.saved.fd \notin FreeBefore
       /\ files = With("file")
       /\ Made => regs.rax \in {0, -EACCES}

\* eventfd: after connect only the optional calls are left.
Options == {"nonblock", "write_initial"}
NoErrors(results) == \A i \in 1 .. Len(results) : results[i] >= 0

EventfdProgress ==
    \/ /\ active.running = "socket"
       /\ Begins(active.queue, "bind", Options \cup {"connect"})
       /\ Begins(Tail(active.queue), "connect", Options)
       /\ active.results = << >>
       /\ IF Made THEN Allocated("socket") ELSE files = active.before
    \/ /\ active.running = "bind"
       /\ Begins(active.queue, "connect", Options)
       /\ active.results = <<First>> /\ active.fd = First /\ FreeBefore # {}
       /\ \/ files = With("socket") /\ (Made => regs.rax = -EADDRINUSE)
          \/ Made /\ files = With("bound") /\ regs.rax = 0
    \/ /\ active.running \in Options \cup {"connect"}
       /\ active.queue \in Seq(Options)
       /\ active.results # << >> /\ active.results[1] = First /\ NoErrors(active.results)
       /\ active.fd = First /\ FreeBefore # {}
       /\ IF active.running = "connect"
          THEN \/ files = With("bound") /\ (Made => regs.rax = -EACCES)
               \/ Made /\ files = With("selfconnected") /\ regs.rax = 0
          ELSE files = With("selfconnected") /\ (Made => regs.rax \in {0, 8, -EACCES, -EFAULT})

\* timerfd_create.
TimerfdProgress ==
    \/ /\ active.running = "pipe"
       /\ Begins(active.queue, "close_write_end", {"nonblock"})
       /\ active.results = << >> /\ active.fd = NoFd
       /\ IF ~Made THEN files = active.before
          ELSE IF Cardinality(FreeBefore) < 2
          THEN regs.rax = -EMFILE /\ files = active.before
          ELSE /\ regs.rax = 0 /\ scratchPair = <<First, Second>>
               /\ files = [active.before EXCEPT ![First] = "pipeR", ![Second] = "pipeW"]
    \/ /\ active.running \in {"close_write_end", "nonblock"}
       /\ active.queue \in Seq({"nonblock"})
       /\ active.results # << >> /\ NoErrors(active.results)
       /\ active.fd = First /\ active.writeEnd = Second /\ ~(Cardinality(FreeBefore) < 2)
       /\ files = IF active.running = "close_write_end" /\ ~Made
                  THEN [active.before EXCEPT ![First] = "pipeR", ![Second] = "pipeW"]
                  ELSE With("pipeR")
       /\ Made => regs.rax = 0 \/ (active.running = "nonblock" /\ regs.rax = -EACCES)

Progress ==
    /\ InSequence => regs.fd = FdOf(active.running, active)
    /\ active.kind = "epoll_pwait" => WaitProgress
    /\ active.kind = "vector_io" => VectorProgress
    /\ active.kind = "dupfd_cloexec" => DupfdProgress
    /\ active.kind = "eventfd" => EventfdProgress
    /\ active.kind = "timerfd_create" => TimerfdProgress

\* The invariant of the refinement.
AtomicInv == IInv /\ Asked /\ Reporting /\ Progress

-----------------------------------------------------------------------------
(* Asked and Reporting.                                                    *)

\* In application code, and around a handler, no emulation is in progress.
LEMMA NotBusy ==
  ASSUME IInv
  PROVE  /\ where = "user" => ~Busy
         /\ ~Busy => ~InSequence
         /\ InSequence => Busy
         /\ Busy => InSequence \/ active.kind = "fixup"
BY DEF IInv, TypeOK, ActiveType, Directions, Busy, InSequence, SequenceCalls

\* Where the steps of the tracer take place.
LEMMA StepPlaces ==
  ASSUME IInv
  PROVE  /\ StepFixup => where = "exit" /\ ~InSequence
         /\ StepEntry => where = "entry" /\ InSequence
         /\ StepCollect => where = "exit" /\ InSequence
         /\ (OnSyscall /\ Entering) => where = "entry"
         /\ (OnSyscall /\ where = "entry") => Entering
BY DEF IInv, Directions, StepFixup, StepEntry, StepCollect, OnSyscall, Entering, Busy,
       InSequence, SequenceCalls

\* The next call of a queue, and what is left after it.
LEMMA PopsOne ==
  ASSUME NEW T, NEW queue \in Seq(T), queue # << >>
  PROVE  queue[1] = Head(queue) /\ SubSeq(queue, 1 + 1, Len(queue)) = Tail(queue)
<1> DEFINE rest == SubSeq(queue, 2, Len(queue))
           tail == Tail(queue)
<1>1. PICK k \in Nat : k = Len(queue) /\ k >= 1
  OBVIOUS
<1>2. /\ rest \in Seq(T) /\ Len(rest) = k - 1
      /\ \A i \in 1 .. k - 1 : rest[i] = queue[i + 1]
  <2>1. CASE k = 1
    <3>1. rest = << >>
      BY <1>1, <2>1, SubSeqEmpty
    <3> HIDE DEF rest
    <3>2. QED
      BY <2>1, <3>1
  <2>2. CASE k >= 2
    <3>1. \A i \in 2 .. k : queue[i] \in T
      BY <1>1
    <3>2. /\ rest \in Seq(T) /\ Len(rest) = k - 2 + 1
          /\ \A i \in 1 .. k - 2 + 1 : rest[i] = queue[2 + i - 1]
      BY <1>1, <2>2, <3>1, SubSeqProperties
    <3>3. \A i \in 1 .. k - 1 : i \in 1 .. k - 2 + 1 /\ 2 + i - 1 = i + 1
      BY <1>1
    <3> HIDE DEF rest
    <3>4. \A i \in 1 .. k - 1 : rest[i] = queue[i + 1]
      BY <3>2, <3>3
    <3>5. k - 2 + 1 = k - 1
      BY <1>1
    <3>6. QED
      BY <3>2, <3>4, <3>5
  <2>3. QED
    BY <1>1, <2>1, <2>2
<1>3. /\ tail \in Seq(T) /\ Len(tail) = k - 1
      /\ \A i \in 1 .. k - 1 : tail[i] = queue[i + 1]
  BY <1>1, HeadTailProperties
<1> HIDE DEF rest, tail
<1>4. rest = tail
  BY <1>2, <1>3, SeqEqual
<1>5. QED
  BY <1>4 DEF rest, tail

\* The call that returned is recorded: the results are rs, the descriptors fd and
\* writeEnd; the next call is on its way or the application has its answer.
CollectedAs(captured, rs, fd, writeEnd) ==
    /\ captured => active.running = "pipe" /\ Reopenable(scratchPair[2])
    /\ rs = IF active.running = "pipe" /\ ~captured
            THEN Append(Append(active.results, regs.rax), -EIO)
            ELSE Append(active.results, regs.rax)
    /\ fd = IF captured THEN scratchPair[1]
            ELSE IF active.results = << >> /\ active.running \in MakesFd
            THEN regs.rax ELSE active.fd
    /\ writeEnd = IF captured THEN scratchPair[2] ELSE active.writeEnd
    /\ Popped(active.queue, rs) \in 0 .. Len(active.queue)
    /\ IF Popped(active.queue, rs) > 0
       THEN /\ active'.kind = active.kind /\ active'.saved = active.saved
            /\ active'.before = active.before
            /\ active'.fd = fd /\ active'.writeEnd = writeEnd
            /\ active'.results = rs
            /\ active'.running = active.queue[Popped(active.queue, rs)]
            /\ active'.queue = SubSeq(active.queue, Popped(active.queue, rs) + 1,
                                      Len(active.queue))
            /\ regs'.fd = FdOf(active'.running, active') /\ regs'.rip = "gadget"
            /\ Popped(active.queue, rs) = 1 =>
                 active'.running = Head(active.queue) /\ active'.queue = Tail(active.queue)
       ELSE /\ active' = Idle
            /\ regs' = [active.saved EXCEPT
                          !.rax = Answer(OutcomeOf(active.kind), rs, fd)]

\* What step makes of the call that returned: the results with this one, the
\* descriptors it noted, and the next call or the answer.
LEMMA CollectOutcome ==
  ASSUME IInv, StepCollect
  PROVE  \E captured \in BOOLEAN, rs \in Seq(Int), fd \in Int, writeEnd \in Int :
           CollectedAs(captured, rs, fd, writeEnd)
<1>1. PICK captured \in BOOLEAN :
        /\ captured => active.running = "pipe" /\ Reopenable(scratchPair[2])
        /\ LET act == Collected(captured)
               n == Popped(act.queue, act.results)
           IN  IF n > 0 THEN Inject(act, n) ELSE Finish(act)
  BY DEF StepCollect
<1> DEFINE act == Collected(captured)
           n == Popped(act.queue, act.results)
<1>2. /\ act \in ActiveType /\ act.kind = active.kind /\ act.saved = active.saved
      /\ act.queue = active.queue
  BY <1>1, CollectedTyped DEF IInv
<1>3. /\ act.before = active.before
      /\ act.results = IF active.running = "pipe" /\ ~captured
                       THEN Append(Append(active.results, regs.rax), -EIO)
                       ELSE Append(active.results, regs.rax)
      /\ act.fd = IF captured THEN scratchPair[1]
                  ELSE IF active.results = << >> /\ active.running \in MakesFd
                  THEN regs.rax ELSE active.fd
      /\ act.writeEnd = IF captured THEN scratchPair[2] ELSE active.writeEnd
  <2>1. active \in ActiveType /\ active.results \in Seq(Int) /\ regs.rax \in Int
    BY DEF IInv, TypeOK, ActiveType, RegsType
  <2>2. Len(Append(active.results, regs.rax)) = 1 <=> active.results = << >>
    BY <2>1
  <2>3. QED
    BY <2>1, <2>2 DEF Collected, ActiveType
<1>4. n \in 0 .. Len(active.queue)
  BY <1>2, PoppedRange DEF ActiveType
<1>5. IF n > 0 THEN Inject(act, n) ELSE Finish(act)
  BY <1>1
<1> HIDE DEF act
<1>6. act.results \in Seq(Int) /\ act.fd \in Int /\ act.writeEnd \in Int
  BY <1>2 DEF ActiveType
<1>7. n = Popped(active.queue, act.results)
  BY <1>2
<1> HIDE DEF n
<1>8. n > 0 =>
        /\ active'.kind = active.kind /\ active'.saved = active.saved
        /\ active'.before = active.before
        /\ active'.fd = act.fd /\ active'.writeEnd = act.writeEnd
        /\ active'.results = act.results
        /\ active'.running = active.queue[n]
        /\ active'.queue = SubSeq(active.queue, n + 1, Len(active.queue))
        /\ regs' = Build(active.queue[n], act, "gadget")
  <2> SUFFICES ASSUME n > 0
               PROVE  /\ active'.kind = active.kind /\ active'.saved = active.saved
                      /\ active'.before = active.before
                      /\ active'.fd = act.fd /\ active'.writeEnd = act.writeEnd
                      /\ active'.results = act.results
                      /\ active'.running = active.queue[n]
                      /\ active'.queue = SubSeq(active.queue, n + 1, Len(active.queue))
                      /\ regs' = Build(active.queue[n], act, "gadget")
    OBVIOUS
  <2>1. Inject(act, n)
    BY <1>5
  <2>2. /\ active' = [act EXCEPT !.running = active.queue[n], !.atEntry = TRUE,
                                 !.queue = SubSeq(act.queue, n + 1, Len(act.queue))]
        /\ regs' = Build(active.queue[n], act, "gadget")
    BY <1>2, <2>1 DEF Inject, ActiveType
  <2>3. /\ active'.kind = act.kind /\ active'.saved = act.saved
        /\ active'.before = act.before
        /\ active'.fd = act.fd /\ active'.writeEnd = act.writeEnd
        /\ active'.results = act.results
        /\ active'.running = active.queue[n]
        /\ active'.queue = SubSeq(act.queue, n + 1, Len(act.queue))
    BY <1>2, <2>2 DEF ActiveType
  <2>4. QED
    BY <1>2, <1>3, <2>2, <2>3
<1>9. n > 0 => regs'.fd = FdOf(active'.running, active') /\ regs'.rip = "gadget"
  BY <1>2, <1>8 DEF Build, Regs, FdOf
<1>10. n = 1 => active'.running = Head(active.queue) /\ active'.queue = Tail(active.queue)
  <2> SUFFICES ASSUME n = 1
               PROVE  active'.running = Head(active.queue) /\ active'.queue = Tail(active.queue)
    OBVIOUS
  <2>1. n > 0 /\ n + 1 = 1 + 1 /\ active.queue \in Seq(Steps) /\ active.queue # << >>
    BY <1>4 DEF IInv, TypeOK, ActiveType
  <2>2. active.queue[1] = Head(active.queue)
        /\ SubSeq(active.queue, 1 + 1, Len(active.queue)) = Tail(active.queue)
    BY <2>1, PopsOne
  <2>3. active'.running = active.queue[n]
        /\ active'.queue = SubSeq(active.queue, n + 1, Len(active.queue))
    BY <1>8, <2>1
  <2>4. SubSeq(active.queue, n + 1, Len(active.queue))
          = SubSeq(active.queue, 1 + 1, Len(active.queue))
    BY <2>1, Zenon
  <2>5. QED
    BY <2>2, <2>3, <2>4
<1>11. ~(n > 0) =>
        /\ active' = Idle
        /\ regs' = [active.saved EXCEPT !.rax = Answer(OutcomeOf(active.kind), act.results, act.fd)]
  BY <1>2, <1>5 DEF Finish
<1>12. CollectedAs(captured, act.results, act.fd, act.writeEnd)
  <2>1. captured => active.running = "pipe" /\ Reopenable(scratchPair[2])
    BY <1>1
  <2>2. CASE n > 0
    BY <1>3, <1>4, <1>7, <1>8, <1>9, <1>10, <2>1, <2>2 DEF CollectedAs
  <2>3. CASE ~(n > 0)
    BY <1>3, <1>4, <1>7, <1>11, <2>1, <2>3 DEF CollectedAs
  <2>4. QED
    BY <2>2, <2>3
<1>13. QED
  BY <1>6, <1>12

\* The application's call stays on record until it is answered.
LEMMA AskedStep == IInv /\ Asked /\ [Next]_vars => Asked'
<1> SUFFICES ASSUME IInv, Asked, [Next]_vars PROVE Asked'
  OBVIOUS
<1> USE NotBusy
<1>1. CASE AppCall \/ Sigreturn
  <2>1. where = "user" /\ regs' = mine' /\ UNCHANGED active
    BY <1>1 DEF AppCall, Sigreturn, Enter, tracer
  <2>2. ~InSequence' /\ active'.kind # "fixup"
    BY <2>1 DEF Busy, InSequence
  <2>3. QED
    BY <2>1, <2>2 DEF Asked
<1>2. CASE SendSignal \/ UNCHANGED vars
  BY <1>2 DEF SendSignal, vars, tracee, tracer, ghosts, Asked, Busy, InSequence
<1>3. CASE TakeSignal
  BY <1>3 DEF TakeSignal, tracer, ghosts, Asked, Busy, InSequence
<1>4. CASE LeaveKernel
  <2>1. regs.rip = "gadget" => Busy
    BY <1>4 DEF LeaveKernel, IInv, Directions, Registers, Visible, Busy, InSequence, SequenceCalls
  <2>2. QED
    BY <1>4, <2>1 DEF LeaveKernel, tracer, ghosts, Asked, Busy, InSequence
<1>5. CASE Run \/ EndWait \/ InterruptWait
  <2>1. where' = "exit" /\ UNCHANGED active
    BY <1>5 DEF Run, RunPlain, RunSigprocmask, RunFiles, RunPipe, RunSigreturn, EndWait,
                InterruptWait, Return, Allocate, Change, tracer
  <2>2. Busy => UNCHANGED mine
    <3>1. RunSigreturn => ~Busy
      BY DEF RunSigreturn, IInv, TypeOK, ActiveType, CallNumbers, Busy, InSequence, Steps
    <3>2. QED
      BY <1>5, <3>1 DEF Run, RunPlain, RunSigprocmask, RunFiles, RunPipe, EndWait,
                        InterruptWait, ghosts
  <2>3. QED
    BY <2>1, <2>2 DEF Asked, Busy, InSequence, SequenceCalls
<1>6. CASE OnStopped
  <2>1. CASE Busy
    BY <1>6, <2>1 DEF OnStopped, MustHold, Resume, Asked, Busy, InSequence
  <2>2. CASE ~Busy
    BY <1>6, <2>2 DEF OnStopped, MustHold, StartHandler, Asked, Busy, InSequence
  <2>3. QED
    BY <2>1, <2>2
<1>7. CASE OnSyscall
  <2>1. CASE Entering /\ StartSequence
    <3>1. regs = mine /\ UNCHANGED mine
      BY <1>7, <2>1, StepPlaces DEF OnSyscall, Asked
    <3>2. active'.saved = regs /\ active'.kind = regs.nr /\ regs.nr \in SequenceCalls
      BY <2>1 DEF StartSequence
    <3>3. QED
      BY <3>1, <3>2 DEF Asked, Busy, InSequence, SequenceCalls
  <2>2. CASE Entering /\ StandIn
    <3>1. regs = mine /\ UNCHANGED mine
      BY <1>7, <2>2, StepPlaces DEF OnSyscall, Asked
    <3>2. QED
      BY <2>2, <3>1 DEF StandIn, Fixup, Idle, Asked, Busy, InSequence, SequenceCalls
  <2>3. CASE NotEmulated
    BY <1>7, <2>3 DEF OnSyscall, NotEmulated, Resume, Asked, Busy, InSequence
  <2>4. QED
    BY <1>7, <2>1, <2>2, <2>3 DEF OnSyscall
<1>8. CASE StepFixup
  BY <1>8, StepPlaces DEF StepFixup, ResumeAfterStep, Resume, Idle, Asked, InSequence, SequenceCalls
<1>9. CASE StepEntry
  <2>1. active'.kind = active.kind /\ active'.saved = active.saved
    BY <1>9 DEF StepEntry, IInv, TypeOK, ActiveType
  <2>2. QED
    BY <1>9, <2>1, StepPlaces DEF StepEntry, ResumeAfterStep, Asked, Busy, InSequence
<1>10. CASE StepCollect
  <2>1. where' = "resumed" /\ UNCHANGED mine
    BY <1>10, StepPlaces DEF StepCollect, ResumeAfterStep, Resume
  <2>2. \/ active'.kind = active.kind /\ active'.saved = active.saved
        \/ active' = Idle
    BY <1>10, CollectOutcome DEF CollectedAs
  <2>3. QED
    BY <2>1, <2>2 DEF Idle, Asked, InSequence, SequenceCalls
<1>11. QED
  BY <1>1, <1>2, <1>3, <1>4, <1>5, <1>6, <1>7, <1>8, <1>9, <1>10 DEF Next

\* A signal at its stop is one the mask in force lets through; while a handler
\* runs none is.
LEMMA ReportingStep == IInv /\ Asked /\ Reporting /\ Progress /\ [Next]_vars => Reporting'
<1> SUFFICES ASSUME IInv, Asked, Reporting, Progress, [Next]_vars PROVE Reporting'
  OBVIOUS
<1> USE NotBusy
<1>1. CASE AppCall
  <2>1. where' = "entry" /\ stopSig = {} /\ UNCHANGED <<stopSig, frames, appMask>>
    BY <1>1 DEF AppCall, Enter, Reporting
  <2>2. /\ regs'.nr = "sigprocmask" => frames = << >>
        /\ regs'.nr = "epoll_pwait" => frames = << >> \/ regs'.set = mask
        /\ mine' = regs'
    BY <1>1, ConstantsAssumption DEF AppCall, Enter, Regs, FixupCalls
  <2>3. mask = appMask
    BY <1>1 DEF AppCall, Enter, IInv, MaskSaved, Busy
  <2>4. QED
    BY <2>1, <2>2, <2>3 DEF Reporting
<1>2. CASE Sigreturn
  BY <1>2 DEF Sigreturn, Enter, Regs, Reporting
<1>3. CASE SendSignal \/ UNCHANGED vars
  BY <1>3 DEF SendSignal, vars, tracee, tracer, ghosts, Reporting, Busy
<1>4. CASE TakeSignal
  BY <1>4 DEF TakeSignal, tracer, ghosts, Reporting, IInv, TypeOK
<1>5. CASE LeaveKernel
  <2>1. regs.rip = "gadget" => Busy
    BY <1>5 DEF LeaveKernel, IInv, Directions, Registers, Visible, Busy, InSequence, SequenceCalls
  <2>2. QED
    BY <1>5, <2>1 DEF LeaveKernel, tracer, ghosts, Reporting, Busy
<1>6. CASE Run \/ EndWait \/ InterruptWait
  <2>1. where = "kernel" /\ where' = "exit" /\ UNCHANGED <<active, stopSig>>
    BY <1>6 DEF Run, RunPlain, RunSigprocmask, RunFiles, RunPipe, RunSigreturn, EndWait,
                InterruptWait, Return, Allocate, Change, tracer
  <2>2. frames' = << >> \/ (frames' = frames /\ appMask' = appMask /\ mine' = mine)
    <3>1. (RunSigprocmask /\ regs.nr # "sigprocmask_restore" /\ ~UNCHANGED appMask)
            => frames = << >>
      BY <2>1 DEF RunSigprocmask, Reporting, IInv, TypeOK, ActiveType, CallNumbers, Busy,
                  InSequence, Steps
    <3>2. ASSUME RunSigprocmask, regs.nr = "sigprocmask_restore", ~UNCHANGED appMask
          PROVE  frames = << >> \/ UNCHANGED appMask
      <4>1. appMask' = mask
        BY <3>2 DEF RunSigprocmask
      <4>2. InSequence /\ active.running = "sigprocmask_restore"
        <5>1. active.kind \in SequenceCalls \cup {"none", "fixup"}
          BY DEF IInv, TypeOK, ActiveType
        <5>2. regs.nr \notin AppCalls \cup {"sigreturn"} /\ regs.nr # "getpid"
          BY <3>2 DEF AppCalls, SequenceCalls, FixupCalls
        <5>3. QED
          BY <2>1, <3>2, <5>1, <5>2 DEF IInv, CallNumbers, Busy, InSequence
      <4>3. active.kind = "epoll_pwait"
        BY <4>2 DEF IInv, CallNumbers, MaskSteps
      <4>4. mask = active.saved.set
        BY <2>1, <4>2, <4>3 DEF Progress, WaitProgress, Made
      <4>5. frames # << >> => active.saved.set = Signals /\ appMask = Signals
        BY <4>2, <4>3 DEF Asked, Reporting
      <4>6. QED
        BY <4>1, <4>4, <4>5
    <3>3. RunSigprocmask => UNCHANGED <<frames, mine>>
      BY DEF RunSigprocmask
    <3>4. ~RunSigprocmask => frames' = << >> \/ UNCHANGED <<frames, appMask, mine>>
      BY <1>6 DEF Run, RunPlain, RunFiles, RunPipe, RunSigreturn, EndWait, InterruptWait, ghosts
    <3>5. QED
      BY <3>1, <3>2, <3>3, <3>4
  <2>3. QED
    BY <2>1, <2>2 DEF Reporting
<1>7. CASE OnStopped
  <2>1. CASE Busy
    BY <1>7, <2>1 DEF OnStopped, MustHold, Resume, Reporting
  <2>2. CASE ~Busy
    BY <1>7, <2>2 DEF OnStopped, MustHold, StartHandler, Regs, Reporting
  <2>3. QED
    BY <2>1, <2>2
<1>8. CASE OnSyscall
  <2>1. /\ stopSig' = {} /\ where' # "signal" /\ UNCHANGED <<frames, appMask, mine>>
        /\ where' \in {"entry", "kernel"} => where = "entry"
    BY <1>8 DEF OnSyscall, Resume
  <2>2. ~Busy' => UNCHANGED regs
    BY <1>8 DEF OnSyscall, StartSequence, StandIn, NotEmulated, Fixup, Idle, Busy, SequenceCalls
  <2>3. ~Busy
    BY <1>8 DEF OnSyscall
  <2>4. QED
    BY <2>1, <2>2, <2>3 DEF Reporting
<1>9. CASE StepFixup \/ StepCollect
  BY <1>9, StepPlaces DEF StepFixup, StepCollect, ResumeAfterStep, Resume, Reporting
<1>10. CASE StepEntry
  <2>1. active'.kind = active.kind
    BY <1>10 DEF StepEntry, IInv, TypeOK, ActiveType
  <2>2. QED
    BY <1>10, <2>1, StepPlaces DEF StepEntry, ResumeAfterStep, Resume, Reporting, Busy
<1>11. QED
  BY <1>1, <1>2, <1>3, <1>4, <1>5, <1>6, <1>7, <1>8, <1>9, <1>10 DEF Next

-----------------------------------------------------------------------------
(* How a sequence advances.                                                *)

\* Without an error the sequence goes on to its end.
LEMMA PoppedNext ==
  ASSUME NEW queue, NEW rs \in Seq(Int), NoErrors(rs)
  PROVE  Failure(rs) = 0 /\ Popped(queue, rs) = IF queue = << >> THEN 0 ELSE 1
<1>1. \A i \in 1 .. Len(rs) : ~IsError(rs[i])
  <2>1. \A i \in 1 .. Len(rs) : rs[i] \in Int /\ rs[i] >= 0
    BY DEF NoErrors
  <2>2. QED
    BY <2>1, NotError
<1>2. Failure(rs) = 0
  BY <1>1 DEF Failure
<1>3. QED
  BY <1>2 DEF Popped

\* One more result that is no error.
LEMMA StillNoErrors ==
  ASSUME NEW rs \in Seq(Int), NoErrors(rs), NEW r \in Int, r >= 0
  PROVE  NoErrors(Append(rs, r)) /\ Append(rs, r) \in Seq(Int) /\ Append(rs, r) # << >>
<1> DEFINE more == Append(rs, r)
<1>1. /\ more \in Seq(Int) /\ Len(more) = Len(rs) + 1
      /\ \A i \in 1 .. Len(rs) + 1 : more[i] = IF i <= Len(rs) THEN rs[i] ELSE r
  BY AppendProperties
<1> HIDE DEF more
<1>2. more # << >> /\ NoErrors(more)
  BY <1>1 DEF NoErrors
<1>3. QED
  BY <1>1, <1>2 DEF more

\* The answer when one of the calls failed and what it should have produced
\* is not there.
LEMMA FailureAt ==
  ASSUME NEW rs \in Seq(Int), NEW k \in 1 .. Len(rs), IsError(rs[k]),
         \A i \in 1 .. Len(rs) : i < k => rs[i] >= 0
  PROVE  Failure(rs) = rs[k]
<1> DEFINE bad == {i \in 1 .. Len(rs) : IsError(rs[i])}
<1>1. k \in bad /\ \A i \in bad : i \in Nat /\ k <= i
  <2>1. \A i \in 1 .. Len(rs) : i < k => ~IsError(rs[i])
    <3>1. \A i \in 1 .. Len(rs) : rs[i] \in Int
      OBVIOUS
    <3>2. QED
      BY <3>1, NotError
  <2>2. QED
    BY <2>1
<1>2. bad # {}
  BY <1>1
<1> HIDE DEF bad
<1>3. (CHOOSE i \in bad : \A j \in bad : i <= j) = k
  <2>1. \A i \in bad : (\A j \in bad : i <= j) => i = k
    BY <1>1
  <2>2. QED
    BY <1>1, <2>1
<1>4. QED
  BY <1>2, <1>3 DEF Failure, bad

\* The result of the last call is the answer, or it failed.
LEMMA AnswerAt ==
  ASSUME NEW rs \in Seq(Int), NEW k \in 1 .. Len(rs), NEW fd
  PROVE  /\ rs[k] >= 0 => Answer(k, rs, fd) = rs[k]
         /\ (IsError(rs[k]) /\ \A i \in 1 .. Len(rs) : i < k => rs[i] >= 0)
              => Answer(k, rs, fd) = rs[k]
<1>1. rs[k] \in Int /\ k > 0
  OBVIOUS
<1>2. ASSUME rs[k] >= 0 PROVE Answer(k, rs, fd) = rs[k]
  BY <1>1, <1>2 DEF Answer
<1>3. ASSUME IsError(rs[k]), \A i \in 1 .. Len(rs) : i < k => rs[i] >= 0
      PROVE  Answer(k, rs, fd) = rs[k]
  <2>1. Failure(rs) = rs[k]
    BY <1>3, FailureAt
  <2>2. QED
    BY <1>1, <2>1 DEF Answer
<1>4. QED
  BY <1>2, <1>3

\* The lowest free descriptors of a sequence's beginning.
LEMMA LowestBefore ==
  ASSUME IInv
  PROVE  /\ FreeBefore # {} => First \in FreeBefore /\ First \in Nat /\ First \in Fds
         /\ ~(Cardinality(FreeBefore) < 2) =>
              /\ FreeBefore # {} /\ Second \in FreeBefore /\ Second \in Nat
              /\ Second \in Fds /\ Second # First
<1>1. FreeBefore \in SUBSET Fds /\ FreeBefore \ {First} \in SUBSET Fds
  BY DEF FreeBefore
<1>2. FreeBefore # {} => First \in FreeBefore /\ First \in Nat
  BY <1>1, LowestIn DEF First
<1>3. ASSUME ~(Cardinality(FreeBefore) < 2)
      PROVE  FreeBefore # {} /\ Second \in FreeBefore \ {First} /\ Second \in Nat
  <2>1. FreeBefore # {}
    BY <1>3, FS_EmptySet
  <2>2. FreeBefore # {First}
    <3>1. Cardinality({First}) = 1
      BY FS_Singleton, Zenon
    <3>2. QED
      BY <1>3, <3>1
  <2>3. FreeBefore \ {First} # {}
    BY <1>2, <2>1, <2>2
  <2>4. QED
    BY <1>1, <2>1, <2>3, LowestIn DEF Second
<1>4. QED
  BY <1>1, <1>2, <1>3

-----------------------------------------------------------------------------
(* The kernel runs an injected call.                                       *)

\* Which of the kernel's actions runs it, and what it leaves alone.
LEMMA RunInside ==
  ASSUME IInv, InSequence, Run \/ EndWait \/ InterruptWait
  PROVE  /\ where = "kernel" /\ where' = "exit" /\ UNCHANGED <<active, frames, mine>>
         /\ UNCHANGED <<pending, stopSig, held>>
         /\ \/ UNCHANGED appMask
            \/ active.running = "sigprocmask_restore" /\ appMask' = mask
         /\ regs.nr = active.running /\ regs'.nr = regs.nr /\ regs'.fd = regs.fd
         /\ regs'.rip = regs.rip /\ regs'.rax \in Int
         /\ \A rc : Return(rc) => regs'.rax = rc
         /\ regs.nr \in {"nonblock", "write_initial", "fcntl_cloexec", "lseek", "vector_io"}
              => RunPlain
         /\ regs.nr \in {"socket", "bind", "connect", "fcntl_dupfd", "close_write_end"}
              => RunFiles
         /\ regs.nr = "pipe" => RunPipe
         /\ regs.nr = "epoll_wait" => EndWait \/ InterruptWait
         /\ regs.nr \in MaskSteps => RunSigprocmask
<1>1. regs.nr = active.running /\ active.running \in Steps
  BY DEF IInv, TypeOK, ActiveType, CallNumbers
<1>2. ~RunSigreturn
  BY <1>1 DEF RunSigreturn, Steps
<1>3. RunPlain \/ RunSigprocmask \/ RunFiles \/ RunPipe \/ EndWait \/ InterruptWait
  BY <1>2 DEF Run
<1>4. PICK rc : Return(rc)
  BY <1>3 DEF RunPlain, RunSigprocmask, RunFiles, RunPipe, EndWait, InterruptWait, Allocate, Change
<1>5. /\ where = "kernel" /\ where' = "exit" /\ regs'.nr = regs.nr /\ regs'.fd = regs.fd
      /\ regs'.rip = regs.rip /\ \A r : Return(r) => regs'.rax = r
  BY <1>4 DEF Return, IInv, TypeOK, RegsType
<1>6. UNCHANGED <<active, frames, mine, pending, stopSig, held>>
  BY <1>3 DEF RunPlain, RunSigprocmask, RunFiles, RunPipe, EndWait, InterruptWait, tracer, ghosts
<1>7. UNCHANGED appMask \/ (active.running = "sigprocmask_restore" /\ appMask' = mask)
  BY <1>1, <1>3 DEF RunPlain, RunSigprocmask, RunFiles, RunPipe, EndWait, InterruptWait, ghosts,
                    Steps
<1>8. /\ regs.nr \in {"nonblock", "write_initial", "fcntl_cloexec", "lseek", "vector_io"}
           => RunPlain
      /\ regs.nr \in {"socket", "bind", "connect", "fcntl_dupfd", "close_write_end"}
           => RunFiles
      /\ regs.nr = "pipe" => RunPipe
      /\ regs.nr = "epoll_wait" => EndWait \/ InterruptWait
      /\ regs.nr \in MaskSteps => RunSigprocmask
  BY <1>3 DEF RunPlain, RunSigprocmask, RunFiles, RunPipe, EndWait, InterruptWait, MaskSteps,
              SequenceCalls, FixupCalls
<1>9. regs'.rax \in Int
  <2>1. IInv'
    BY <1>3, RunPlainKeeps, RunSigprocmaskKeeps, RunFilesKeeps, RunPipeKeeps, WaitKeeps
  <2>2. QED
    BY <2>1 DEF IInv, TypeOK, RegsType
<1>10. QED
  BY <1>1, <1>5, <1>6, <1>7, <1>8, <1>9

\* A call that makes a descriptor, at the beginning of a sequence.
LEMMA AllocateInside ==
  ASSUME IInv, InSequence, Run \/ EndWait \/ InterruptWait, files = active.before,
         NEW object, Allocate(object)
  PROVE  Allocated(object)'
<1>1. UNCHANGED active /\ \A rc : Return(rc) => regs'.rax = rc
  BY RunInside
<1>2. Free = FreeBefore /\ Lowest(Free) = First
  BY DEF Free, FreeBefore, First
<1>3. FreeBefore' = FreeBefore /\ First' = First /\ With(object)' = With(object)
  BY <1>1 DEF FreeBefore, First, With
<1>4. CASE Free = {}
  BY <1>1, <1>2, <1>3, <1>4 DEF Allocate, Allocated, Given
<1>5. CASE Free # {}
  BY <1>1, <1>2, <1>3, <1>5 DEF Allocate, Allocated, Given, With
<1>6. QED
  BY <1>4, <1>5

\* The calls of an epoll_pwait.
LEMMA RunWaitProgress ==
  ASSUME IInv, WaitProgress, active.kind = "epoll_pwait", Run \/ EndWait \/ InterruptWait
  PROVE  WaitProgress'
<1>1. InSequence
  BY DEF InSequence, SequenceCalls
<1>2. /\ UNCHANGED <<active, pending, stopSig, held>> /\ regs.nr = active.running
      /\ \A rc : Return(rc) => regs'.rax = rc
      /\ regs.nr = "epoll_wait" => EndWait \/ InterruptWait
      /\ regs.nr \in MaskSteps => RunSigprocmask
  BY <1>1, RunInside
<1>3. active.running \in {"sigprocmask_set", "epoll_wait", "sigprocmask_restore"}
  BY DEF IInv, MaskSaved, Setting, Waiting, Restoring
<1>4. UNCHANGED files
  BY <1>2, <1>3 DEF MaskSteps, EndWait, InterruptWait, RunSigprocmask
<1>5. active.running = "epoll_wait" =>
        regs'.rax \in {0, 1, -EBADF} \/ (regs'.rax = -EINTR /\ InFlight' # {})
  BY <1>2 DEF EndWait, InterruptWait, InFlight
<1>6. InFlight' = InFlight
  BY <1>2 DEF InFlight
<1>7. active.running = "epoll_wait" => UNCHANGED mask
  BY <1>2 DEF EndWait, InterruptWait
<1>8. active.running = "sigprocmask_set" => mask' = regs.set \/ regs'.rax = -14
  BY <1>2 DEF MaskSteps, RunSigprocmask, EFAULT
<1>9. where = "kernel" /\ where' = "exit"
  BY <1>1, RunInside
<1>10. QED
  BY <1>2, <1>4, <1>5, <1>6, <1>7, <1>8, <1>9 DEF WaitProgress, Made

\* The calls of a pwritev or preadv.
LEMMA RunVectorProgress ==
  ASSUME IInv, VectorProgress, active.kind = "vector_io", Run \/ EndWait \/ InterruptWait
  PROVE  VectorProgress'
<1>1. InSequence
  BY DEF InSequence, SequenceCalls
<1>2. /\ UNCHANGED active /\ regs.nr = active.running /\ regs'.rip = regs.rip
      /\ \A rc : Return(rc) => regs'.rax = rc
      /\ regs.nr \in {"lseek", "vector_io"} => RunPlain
  BY <1>1, RunInside
<1>3. RunPlain
  BY <1>2 DEF VectorProgress
<1>4. UNCHANGED files
  BY <1>3 DEF RunPlain
<1>5. active.running = "lseek" => regs'.rax \in {0, -ESPIPE}
  BY <1>2, <1>3 DEF RunPlain, SequenceCalls, FixupCalls
<1>6. (active.running = "vector_io" /\ regs.rip = "gadget") => regs'.rax \in {0, 8, -EFAULT}
  BY <1>2, <1>3 DEF RunPlain
<1>7. QED
  BY <1>2, <1>4, <1>5, <1>6 DEF VectorProgress

\* The calls of a fcntl(F_DUPFD_CLOEXEC).
LEMMA RunDupfdProgress ==
  ASSUME IInv, DupfdProgress, active.kind = "dupfd_cloexec", regs.fd = FdOf(active.running, active),
         Run \/ EndWait \/ InterruptWait
  PROVE  DupfdProgress'
<1>1. InSequence
  BY DEF InSequence, SequenceCalls
<1>2. /\ where = "kernel" /\ where' = "exit" /\ UNCHANGED active /\ regs.nr = active.running
      /\ \A rc : Return(rc) => regs'.rax = rc
      /\ regs.nr = "fcntl_cloexec" => RunPlain
      /\ regs.nr = "fcntl_dupfd" => RunFiles
  BY <1>1, RunInside
<1>3. FreeBefore' = FreeBefore /\ First' = First /\ With("file")' = With("file")
  BY <1>2 DEF FreeBefore, First, With
<1>4. CASE active.running = "fcntl_dupfd"
  <2>1. files = active.before /\ Free = FreeBefore /\ regs.fd = active.saved.fd
    BY <1>2, <1>4 DEF DupfdProgress, Made, Free, FreeBefore, FdOf
  <2>2. IF regs.fd \in Free THEN Return(-EBADF) /\ UNCHANGED files ELSE Allocate("file")
    BY <1>2, <1>4 DEF RunFiles
  <2>3. active.saved.fd \in FreeBefore => regs'.rax = -EBADF /\ files' = active.before
    BY <1>2, <2>1, <2>2
  <2>4. active.saved.fd \notin FreeBefore => Allocated("file")'
    BY <1>1, <2>1, <2>2, AllocateInside
  <2>5. QED
    BY <1>2, <1>3, <1>4, <2>3, <2>4 DEF DupfdProgress, Made
<1>5. CASE active.running = "fcntl_cloexec"
  <2>1. regs'.rax \in {0, -EACCES} /\ UNCHANGED files
    BY <1>2, <1>5 DEF RunPlain, SequenceCalls, FixupCalls
  <2>2. QED
    BY <1>2, <1>3, <1>5, <2>1 DEF DupfdProgress, Made
<1>6. QED
  BY <1>4, <1>5 DEF DupfdProgress

\* The table at the beginning of a sequence and one change to it.
LEMMA WithTwice ==
  ASSUME IInv, FreeBefore # {}, NEW x, NEW y
  PROVE  /\ With(x)[First] = x
         /\ [With(x) EXCEPT ![First] = y] = With(y)
<1>1. active.before \in [Fds -> Objects] /\ First \in Fds
  BY LowestBefore DEF IInv, TypeOK, ActiveType
<1>2. QED
  BY <1>1 DEF With

\* A call on the descriptor the sequence has made.
LEMMA ChangeInside ==
  ASSUME IInv, InSequence, Run \/ EndWait \/ InterruptWait,
         FreeBefore # {}, regs.fd = First,
         NEW x \in Objects \ {"free"}, files = With(x), NEW y, Change(y)
  PROVE  regs'.rax = 0 /\ files' = With(y)
<1>1. \A rc : Return(rc) => regs'.rax = rc
  BY RunInside
<1>2. First \in Fds /\ files[First] = x
  BY LowestBefore, WithTwice
<1>3. First \notin Free
  BY <1>2 DEF Free
<1>4. Return(0) /\ files' = [files EXCEPT ![First] = y]
  BY <1>2, <1>3 DEF Change
<1>5. QED
  BY <1>1, <1>4, WithTwice

\* The calls of an eventfd.
LEMMA RunEventfdProgress ==
  ASSUME IInv, EventfdProgress, active.kind = "eventfd", regs.fd = FdOf(active.running, active),
         Run \/ EndWait \/ InterruptWait
  PROVE  EventfdProgress'
<1>1. InSequence
  BY DEF InSequence, SequenceCalls
<1>2. /\ where = "kernel" /\ where' = "exit" /\ UNCHANGED active /\ regs.nr = active.running
      /\ \A rc : Return(rc) => regs'.rax = rc
      /\ regs.nr \in Options => RunPlain
      /\ regs.nr \in {"socket", "bind", "connect"} => RunFiles
  BY <1>1, RunInside DEF Options
<1>3. /\ FreeBefore' = FreeBefore /\ First' = First /\ ~Made /\ Made'
      /\ \A object : With(object)' = With(object)
  BY <1>2 DEF FreeBefore, First, With, Made
<1>4. CASE active.running = "socket"
  <2>1. files = active.before
    BY <1>3, <1>4 DEF EventfdProgress, Options
  <2>2. Allocate("socket")
    BY <1>2, <1>4 DEF RunFiles
  <2>3. Allocated("socket")'
    BY <1>1, <2>1, <2>2, AllocateInside
  <2>4. QED
    BY <1>2, <1>3, <1>4, <2>3 DEF EventfdProgress, Options
<1>5. CASE active.running = "bind"
  <2>1. /\ files = With("socket") /\ active.fd = First /\ FreeBefore # {}
        /\ active.results = <<First>> /\ Begins(active.queue, "connect", Options)
    BY <1>3, <1>5 DEF EventfdProgress, Options
  <2>2. regs.fd = First /\ "socket" \in Objects \ {"free"}
    BY <1>5, <2>1 DEF FdOf, Objects
  <2>3. Change("bound") \/ (Return(-EADDRINUSE) /\ UNCHANGED files)
    BY <1>2, <1>5 DEF RunFiles
  <2>4. Change("bound") => regs'.rax = 0 /\ files' = With("bound")
    BY <1>1, <2>1, <2>2, ChangeInside
  <2>5. \/ files' = With("socket") /\ regs'.rax = -EADDRINUSE
        \/ files' = With("bound") /\ regs'.rax = 0
    BY <1>2, <2>1, <2>3, <2>4
  <2>6. QED
    BY <1>2, <1>3, <1>5, <2>1, <2>5 DEF EventfdProgress
<1>6. CASE active.running \in Options \cup {"connect"}
  <2>1. /\ active.queue \in Seq(Options) /\ active.results # << >>
        /\ active.results[1] = First /\ NoErrors(active.results)
        /\ active.fd = First /\ FreeBefore # {}
        /\ files = With(IF active.running = "connect" THEN "bound" ELSE "selfconnected")
    BY <1>3, <1>6 DEF EventfdProgress, Options
  <2>2. CASE active.running = "connect"
    <3>1. regs.fd = First /\ "bound" \in Objects \ {"free"} /\ files = With("bound")
      BY <2>1, <2>2 DEF FdOf, Objects
    <3>2. Change("selfconnected") \/ (Return(-EACCES) /\ UNCHANGED files)
      BY <1>2, <2>2 DEF RunFiles
    <3>3. Change("selfconnected") => regs'.rax = 0 /\ files' = With("selfconnected")
      BY <1>1, <2>1, <3>1, ChangeInside
    <3>4. \/ regs'.rax = 0 /\ files' = With("selfconnected")
          \/ regs'.rax = -EACCES /\ files' = With("bound")
      BY <1>2, <3>1, <3>2, <3>3
    <3>5. QED
      BY <1>2, <1>3, <1>6, <2>1, <2>2, <3>4 DEF EventfdProgress
  <2>3. CASE active.running # "connect"
    <3>1. RunPlain /\ active.running \in Options
      BY <1>2, <1>6, <2>3
    <3>2. regs'.rax \in {0, 8, -EACCES, -EFAULT} /\ UNCHANGED files
      BY <1>2, <3>1 DEF RunPlain, Options, SequenceCalls, FixupCalls
    <3>3. QED
      BY <1>2, <1>3, <1>6, <2>1, <2>3, <3>2 DEF EventfdProgress
  <2>4. QED
    BY <2>2, <2>3
<1>7. QED
  BY <1>4, <1>5, <1>6 DEF EventfdProgress

\* The calls of a timerfd_create.
LEMMA RunTimerfdProgress ==
  ASSUME IInv, TimerfdProgress, active.kind = "timerfd_create",
         regs.fd = FdOf(active.running, active), Run \/ EndWait \/ InterruptWait
  PROVE  TimerfdProgress'
<1> DEFINE both == [active.before EXCEPT ![First] = "pipeR", ![Second] = "pipeW"]
<1>1. InSequence
  BY DEF InSequence, SequenceCalls
<1>2. /\ where = "kernel" /\ where' = "exit" /\ UNCHANGED active /\ regs.nr = active.running
      /\ \A rc : Return(rc) => regs'.rax = rc
      /\ regs.nr = "nonblock" => RunPlain
      /\ regs.nr = "pipe" => RunPipe
      /\ regs.nr = "close_write_end" => RunFiles
  BY <1>1, RunInside
<1>3. /\ FreeBefore' = FreeBefore /\ First' = First /\ Second' = Second /\ ~Made /\ Made'
      /\ With("pipeR")' = With("pipeR") /\ both' = both
  BY <1>2 DEF FreeBefore, First, Second, With, Made
<1>4. CASE active.running = "pipe"
  <2>1. files = active.before /\ Free = FreeBefore
    BY <1>3, <1>4 DEF TimerfdProgress, Free, FreeBefore
  <2>2. Lowest(Free) = First /\ Lowest(Free \ {First}) = Second
    BY <2>1 DEF First, Second
  <2>3. Cardinality(FreeBefore) < 2 => regs'.rax = -EMFILE /\ files' = active.before
    BY <1>2, <1>4, <2>1 DEF RunPipe
  <2>4. ~(Cardinality(FreeBefore) < 2) =>
          regs'.rax = 0 /\ files' = both /\ scratchPair' = <<First, Second>>
    BY <1>2, <1>4, <2>1, <2>2 DEF RunPipe
  <2>5. QED
    BY <1>2, <1>3, <1>4, <2>3, <2>4 DEF TimerfdProgress
<1>5. CASE active.running = "close_write_end"
  <2>1. files = both /\ active.writeEnd = Second /\ ~(Cardinality(FreeBefore) < 2)
    BY <1>3, <1>5 DEF TimerfdProgress
  <2>2. regs.fd = Second
    BY <1>5, <2>1 DEF FdOf
  <2>3. /\ active.before \in [Fds -> Objects] /\ First \in Fds /\ Second \in Fds /\ First # Second
        /\ active.before[Second] = "free"
    BY <2>1, LowestBefore DEF IInv, TypeOK, ActiveType, FreeBefore
  <2>4. Change("free")
    BY <1>2, <1>5 DEF RunFiles
  <2>5. Return(0) /\ files' = [both EXCEPT ![Second] = "free"]
    BY <2>1, <2>2, <2>3, <2>4 DEF Change, Free
  <2>6. [both EXCEPT ![Second] = "free"] = With("pipeR")
    BY <2>3 DEF With
  <2>7. regs'.rax = 0 /\ files' = With("pipeR")
    BY <1>2, <2>5, <2>6
  <2>8. QED
    BY <1>2, <1>3, <1>5, <2>7 DEF TimerfdProgress
<1>6. CASE active.running = "nonblock"
  <2>1. regs'.rax \in {0, -EACCES} /\ UNCHANGED files
    BY <1>2, <1>6 DEF RunPlain, SequenceCalls, FixupCalls
  <2>2. QED
    BY <1>2, <1>3, <1>6, <2>1 DEF TimerfdProgress
<1>7. QED
  BY <1>4, <1>5, <1>6 DEF TimerfdProgress

-----------------------------------------------------------------------------
(* step after an injected call: the next one follows, or the application   *)
(* gets the answer of the whole call.                                      *)

\* What the application may be answered, with the descriptors it then has.
WaitAnswer(rc) ==
    /\ files = active.before
    /\ rc \in {0, 1, -EBADF, -EFAULT} \/ (rc = -EINTR /\ InFlight # {})
VectorAnswer(rc) == files = active.before /\ rc \in {0, 8, -EFAULT, -ESPIPE}
DupfdAnswer(rc) ==
    IF active.saved.fd \in FreeBefore THEN rc = -EBADF /\ files = active.before
    ELSE Given("file", rc)
EventfdAnswer(rc) == \E object \in {"selfconnected", "bound", "socket"} : Given(object, rc)
TimerfdAnswer(rc) ==
    IF Cardinality(FreeBefore) < 2
    THEN rc \in Fds \cup {-EMFILE} /\ files = active.before
    ELSE \/ rc = First /\ files = With("pipeR")
         \/ rc = -EIO /\ files = [active.before EXCEPT ![First] = "pipeR", ![Second] = "pipeW"]

\* The emulation is over and this is the answer.
EndsWith(rc) == active' = Idle /\ regs' = [active.saved EXCEPT !.rax = rc]

\* What such a step leaves alone.
LEMMA CollectLeaves ==
  ASSUME IInv, Reporting, StepCollect
  PROVE  /\ where = "exit" /\ where' = "resumed" /\ InSequence
         /\ stopSig = {} /\ stopSig' = {} /\ InFlight' = InFlight
         /\ UNCHANGED <<files, mask, frames, mine, appMask, scratchPair>>
<1>1. /\ where = "exit" /\ where' = "resumed" /\ InSequence /\ stopSig' = {}
      /\ UNCHANGED <<files, mask, frames, mine, appMask, scratchPair>>
  BY StepPlaces DEF StepCollect, ResumeAfterStep, Resume
<1>2. stopSig = {}
  BY <1>1 DEF Reporting
<1>3. pending' \cup held' = pending \cup held
  BY DEF StepCollect, ResumeAfterStep
<1>4. QED
  BY <1>1, <1>2, <1>3 DEF InFlight

\* The kernel's answers are values or errors.
LEMMA Answers ==
  /\ \A r \in {0, 1, 8} : r >= 0
  /\ \A r \in {-4, -5, -9, -13, -14, -24, -29, -98} : IsError(r)
<1>1. IsError(-4) /\ IsError(-5) /\ IsError(-9) /\ IsError(-14) /\ IsError(-24)
  BY DEF IsError
<1>2. IsError(-13) /\ IsError(-29) /\ IsError(-98)
  BY DEF IsError
<1>3. QED
  BY <1>1, <1>2

\* The results of one and of two calls.
LEMMA AppendShort ==
  ASSUME NEW q \in Int, NEW r \in Int
  PROVE  Append(<< >>, r) = <<r>> /\ Append(<<q>>, r) = <<q, r>>
<1> DEFINE two == Append(<<q>>, r)
<1>1. Append(<< >>, r) = <<r>>
  OBVIOUS
<1>2. two \in Seq(Int) /\ Len(two) = 2 /\ two[1] = q /\ two[2] = r
  OBVIOUS
<1>3. <<q, r>> \in Seq(Int) /\ Len(<<q, r>>) = 2
  OBVIOUS
<1> HIDE DEF two
<1>4. \A i \in 1 .. 2 : two[i] = <<q, r>>[i]
  BY <1>2
<1>5. two = <<q, r>>
  BY <1>2, <1>3, <1>4, SeqEqual
<1>6. QED
  BY <1>1, <1>5 DEF two

\* Appending leaves what is there.
LEMMA AppendAt ==
  ASSUME NEW S, NEW s \in Seq(S), NEW x \in S
  PROVE  Len(Append(s, x)) = Len(s) + 1 /\ \A i \in 1 .. Len(s) : Append(s, x)[i] = s[i]
OBVIOUS

\* The value after two.
LEMMA AppendThird ==
  ASSUME NEW S, NEW s \in Seq(S), NEW x \in S, Len(s) = 2
  PROVE  Len(Append(s, x)) = 3 /\ Append(s, x)[1] = s[1] /\ Append(s, x)[2] = s[2]
<1> DEFINE q == Append(s, x)
           n == Len(s)
<1>1. Len(q) = n + 1 /\ \A i \in 1 .. n : q[i] = s[i]
  BY AppendAt
<1>2. n = 2
  OBVIOUS
<1> HIDE DEF q, n
<1>3. Len(q) = 3 /\ q[1] = s[1] /\ q[2] = s[2]
  BY <1>1, <1>2
<1>4. QED
  BY <1>3 DEF q

\* epoll_pwait.
LEMMA CollectWait ==
  ASSUME IInv, Reporting, WaitProgress, active.kind = "epoll_pwait", StepCollect
  PROVE  \/ active'.kind = active.kind /\ WaitProgress'
         \/ \E rc \in Int : EndsWith(rc) /\ WaitAnswer(rc)
<1> USE DEF EFAULT, EBADF, EINTR
<1>1. where = "exit" /\ where' = "resumed" /\ UNCHANGED <<files, mask>>
      /\ InFlight' = InFlight
  BY CollectLeaves
<1>2. PICK captured \in BOOLEAN, rs \in Seq(Int), fd \in Int :
        /\ (active.running # "pipe") => rs = Append(active.results, regs.rax)
        /\ IF Popped(active.queue, rs) > 0
           THEN /\ active'.kind = active.kind /\ active'.before = active.before
                /\ active'.results = rs /\ active'.saved = active.saved
                /\ active'.running = active.queue[Popped(active.queue, rs)]
           ELSE EndsWith(Answer(2, rs, fd))
  <2>1. OutcomeOf(active.kind) = 2
    BY DEF OutcomeOf
  <2>2. PICK captured \in BOOLEAN, rs \in Seq(Int), fd \in Int, writeEnd \in Int :
          CollectedAs(captured, rs, fd, writeEnd)
    BY CollectOutcome
  <2>3. /\ (active.running # "pipe") => rs = Append(active.results, regs.rax)
        /\ IF Popped(active.queue, rs) > 0
           THEN /\ active'.kind = active.kind /\ active'.before = active.before
                /\ active'.results = rs /\ active'.saved = active.saved
                /\ active'.running = active.queue[Popped(active.queue, rs)]
           ELSE EndsWith(Answer(2, rs, fd))
    BY <2>1, <2>2 DEF CollectedAs, EndsWith
  <2>4. QED
    BY <2>3
<1>3. active.results \in Seq(Int) /\ regs.rax \in Int
  BY DEF IInv, TypeOK, ActiveType, RegsType
<1>4. CASE Setting
  <2>1. rs = <<regs.rax>> /\ active.queue = <<"epoll_wait", "sigprocmask_restore">>
    BY <1>2, <1>3, <1>4 DEF Setting
  <2>2. regs.rax \in {0, -14}
    BY <1>1, <1>4 DEF Setting
  <2>3. CASE regs.rax = 0
    <3>1. Popped(active.queue, rs) = 1
      BY <2>1, <2>3, PoppedAfterSet
    <3>2. active.queue[1] = "epoll_wait"
      BY <2>1
    <3>3. QED
      BY <1>1, <1>2, <1>4, <2>3, <3>1, <3>2 DEF WaitProgress, Setting, Made
  <2>4. CASE regs.rax = -14
    <3>1. IsError(-14) /\ -14 # 0
      BY DEF IsError
    <3>2. Popped(active.queue, rs) = 0
      BY <2>1, <2>4, <3>1, PoppedAfterSet
    <3>3. Failure(rs) = -14
      BY <2>1, <2>4, <3>1, FailureOfOne
    <3>4. Answer(2, rs, fd) = -14
      BY <2>1, <3>3 DEF Answer, EINVAL
    <3>5. QED
      BY <1>2, <3>2, <3>4 DEF WaitProgress, WaitAnswer
  <2>5. QED
    BY <2>2, <2>3, <2>4
<1>5. CASE Waiting
  <2>1. rs = <<0, regs.rax>> /\ active.queue = <<"sigprocmask_restore">>
    BY <1>2, <1>3, <1>5 DEF Waiting
  <2>2. Popped(active.queue, rs) = 1
    BY <1>3, <2>1, PoppedAfterWait
  <2>3. regs.rax \in {0, 1, -EBADF} \/ (regs.rax = -EINTR /\ InFlight # {})
    BY <1>1, <1>5 DEF WaitProgress, Waiting, Made
  <2>4. active'.results[2] = regs.rax /\ active'.kind = active.kind
        /\ active'.before = active.before /\ active'.running = "sigprocmask_restore"
        /\ active'.saved = active.saved
    BY <1>2, <2>1, <2>2
  <2>5. QED
    BY <1>1, <1>5, <2>3, <2>4 DEF WaitProgress, Waiting, Made
<1>6. CASE Restoring
  <2>1. /\ rs = Append(active.results, regs.rax) /\ active.queue = << >>
        /\ Len(active.results) = 2 /\ active.results[1] = 0
    BY <1>2, <1>6 DEF Restoring
  <2>2. Popped(active.queue, rs) = 0
    BY <2>1, PoppedAtEnd
  <2>3. Len(rs) = 3 /\ rs[1] = 0 /\ rs[2] = active.results[2]
    BY <1>3, <2>1, AppendThird
  <2>4. rs[2] \in {0, 1, -9} \/ (rs[2] = -4 /\ InFlight # {})
    BY <1>6, <2>3 DEF WaitProgress, Restoring
  <2>5. rs[2] >= 0 \/ IsError(rs[2])
    BY <2>4, Answers
  <2>6. 2 \in 1 .. Len(rs) /\ \A i \in 1 .. Len(rs) : i < 2 => rs[i] >= 0
    BY <2>3
  <2>7. Answer(2, rs, fd) = rs[2]
    BY <2>5, <2>6, AnswerAt
  <2>8. QED
    BY <1>2, <2>2, <2>4, <2>7 DEF WaitProgress, WaitAnswer
<1>7. QED
  BY <1>4, <1>5, <1>6 DEF IInv, MaskSaved

\* pwritev and preadv.
LEMMA CollectVector ==
  ASSUME IInv, Reporting, VectorProgress, active.kind = "vector_io", StepCollect
  PROVE  \/ active'.kind = active.kind /\ VectorProgress'
         \/ \E rc \in Int : EndsWith(rc) /\ VectorAnswer(rc)
<1> USE DEF EFAULT, ESPIPE
<1>1. where = "exit" /\ where' = "resumed" /\ UNCHANGED files
  BY CollectLeaves
<1>2. PICK captured \in BOOLEAN, rs \in Seq(Int), fd \in Int :
        /\ (active.running # "pipe") => rs = Append(active.results, regs.rax)
        /\ IF Popped(active.queue, rs) > 0
           THEN /\ active'.kind = active.kind /\ active'.before = active.before
                /\ active'.results = rs
                /\ Popped(active.queue, rs) = 1 =>
                     active'.running = Head(active.queue) /\ active'.queue = Tail(active.queue)
                /\ regs'.rip = "gadget"
           ELSE EndsWith(Answer(2, rs, fd))
  <2>1. OutcomeOf(active.kind) = 2
    BY DEF OutcomeOf
  <2>2. PICK captured \in BOOLEAN, rs \in Seq(Int), fd \in Int, writeEnd \in Int :
          CollectedAs(captured, rs, fd, writeEnd)
    BY CollectOutcome
  <2>3. /\ (active.running # "pipe") => rs = Append(active.results, regs.rax)
        /\ IF Popped(active.queue, rs) > 0
           THEN /\ active'.kind = active.kind /\ active'.before = active.before
                /\ active'.results = rs
                /\ Popped(active.queue, rs) = 1 =>
                     active'.running = Head(active.queue) /\ active'.queue = Tail(active.queue)
                /\ regs'.rip = "gadget"
           ELSE EndsWith(Answer(2, rs, fd))
    BY <2>1, <2>2 DEF CollectedAs, EndsWith
  <2>4. QED
    BY <2>3
<1>3. active.results \in Seq(Int) /\ regs.rax \in Int
  BY DEF IInv, TypeOK, ActiveType, RegsType
<1>4. CASE active.running = "lseek"
  <2>1. rs = <<regs.rax>> /\ active.queue = <<"vector_io">> /\ regs.rax \in {0, -29}
    BY <1>1, <1>2, <1>3, <1>4 DEF VectorProgress, Made
  <2>2. CASE regs.rax = 0
    <3>1. Popped(active.queue, rs) = 1
      <4>1. NoErrors(rs)
        BY <2>1, <2>2 DEF NoErrors
      <4>2. active.queue # << >>
        BY <2>1
      <4>3. QED
        BY <4>1, <4>2, PoppedNext
    <3>2. Head(active.queue) = "vector_io" /\ Tail(active.queue) = << >>
      BY <2>1
    <3>3. /\ active'.kind = active.kind /\ active'.before = active.before
          /\ active'.results = rs /\ active'.running = "vector_io" /\ active'.queue = << >>
          /\ regs'.rip = "gadget"
      <4>1. Popped(active.queue, rs) > 0
        BY <3>1
      <4>2. QED
        BY <1>2, <3>1, <3>2, <4>1, Zenon
    <3>4. QED
      BY <1>1, <2>1, <2>2, <3>3 DEF VectorProgress, Made
  <2>3. CASE regs.rax = -29
    <3>1. IsError(-29)
      BY DEF IsError
    <3>2. Cleanups(active.queue) = {}
      BY <2>1 DEF Cleanups, AlwaysSteps
    <3>3. 1 \in 1 .. Len(rs) /\ rs[1] = -29
      BY <2>1, <2>3
    <3>4. Popped(active.queue, rs) = 0
      BY <3>1, <3>2, <3>3, PoppedOnFailure
    <3>5. Failure(rs) = -29
      BY <2>1, <2>3, <3>1, FailureOfOne
    <3>6. Answer(2, rs, fd) = -29
      BY <2>1, <3>5 DEF Answer, EINVAL
    <3>7. QED
      BY <1>2, <3>4, <3>6 DEF VectorProgress, VectorAnswer
  <2>4. QED
    BY <2>1, <2>2, <2>3
<1>5. CASE active.running = "vector_io"
  <2>1. rs = <<0, regs.rax>> /\ active.queue = << >> /\ regs.rax \in {0, 8, -14}
    <3>1. /\ active.results = <<0>> /\ active.queue = << >> /\ regs.rax \in {0, 8, -14}
          /\ active.running # "pipe"
      BY <1>1, <1>5 DEF VectorProgress, Made
    <3>2. QED
      BY <1>2, <1>3, <3>1, AppendShort
  <2>2. Popped(active.queue, rs) = 0
    BY <2>1, PoppedAtEnd
  <2>3. rs[2] >= 0 \/ IsError(rs[2])
    BY <2>1, Answers
  <2>4. 2 \in 1 .. Len(rs) /\ \A i \in 1 .. Len(rs) : i < 2 => rs[i] >= 0
    BY <2>1
  <2>5. Answer(2, rs, fd) = regs.rax
    BY <2>1, <2>3, <2>4, AnswerAt
  <2>6. QED
    BY <1>2, <2>1, <2>2, <2>5 DEF VectorProgress, VectorAnswer
<1>6. QED
  BY <1>4, <1>5 DEF VectorProgress

\* A failed call of any other sequence is its last one: only epoll_pwait has a
\* cleanup.
LEMMA NothingAfterFailure ==
  ASSUME IInv, InSequence, active.kind # "epoll_pwait",
         NEW rs \in Seq(Int), NEW k \in 1 .. Len(rs), IsError(rs[k])
  PROVE  Popped(active.queue, rs) = 0
<1>1. active.queue \in Seq(Steps \ MaskSteps)
  BY DEF IInv, CallNumbers
<1>2. Cleanups(active.queue) = {}
  BY <1>1 DEF Cleanups, AlwaysSteps, MaskSteps
<1>3. QED
  BY <1>2, PoppedOnFailure

\* fcntl(F_DUPFD_CLOEXEC).
LEMMA CollectDupfd ==
  ASSUME IInv, Reporting, DupfdProgress, active.kind = "dupfd_cloexec", StepCollect
  PROVE  \/ active'.kind = active.kind /\ DupfdProgress'
         \/ \E rc \in Int : EndsWith(rc) /\ DupfdAnswer(rc)
<1>1. where = "exit" /\ where' = "resumed" /\ UNCHANGED files /\ InSequence
  BY CollectLeaves
<1>2. PICK rs \in Seq(Int), fd \in Int :
        /\ (active.running # "pipe") => rs = Append(active.results, regs.rax)
        /\ IF Popped(active.queue, rs) > 0
           THEN /\ active'.kind = active.kind /\ active'.before = active.before
                /\ active'.saved = active.saved /\ active'.results = rs
                /\ Popped(active.queue, rs) = 1 =>
                     active'.running = Head(active.queue) /\ active'.queue = Tail(active.queue)
           ELSE EndsWith(Answer(1, rs, fd))
  <2>1. OutcomeOf(active.kind) = 1
    BY DEF OutcomeOf
  <2>2. PICK captured \in BOOLEAN, rs \in Seq(Int), fd \in Int, writeEnd \in Int :
          CollectedAs(captured, rs, fd, writeEnd)
    BY CollectOutcome
  <2>3. /\ (active.running # "pipe") => rs = Append(active.results, regs.rax)
        /\ IF Popped(active.queue, rs) > 0
           THEN /\ active'.kind = active.kind /\ active'.before = active.before
                /\ active'.saved = active.saved /\ active'.results = rs
                /\ Popped(active.queue, rs) = 1 =>
                     active'.running = Head(active.queue) /\ active'.queue = Tail(active.queue)
           ELSE EndsWith(Answer(1, rs, fd))
    BY <2>1, <2>2 DEF CollectedAs, EndsWith
  <2>4. QED
    BY <2>3
<1>3. active.results \in Seq(Int) /\ regs.rax \in Int
  BY DEF IInv, TypeOK, ActiveType, RegsType
<1>4. CASE active.running = "fcntl_dupfd"
  <2>1. /\ active.results = << >> /\ active.queue = <<"fcntl_cloexec">>
        /\ IF active.saved.fd \in FreeBefore
           THEN regs.rax = -EBADF /\ files = active.before ELSE Allocated("file")
    BY <1>1, <1>4 DEF DupfdProgress, Made
  <2>2. rs = <<regs.rax>> /\ 1 \in 1 .. Len(rs) /\ rs[1] = regs.rax
    BY <1>2, <1>3, <1>4, <2>1, AppendShort
  <2>3. CASE regs.rax \in {-EBADF, -EMFILE} /\ IsError(regs.rax)
    <3>1. Popped(active.queue, rs) = 0
      BY <1>1, <2>2, <2>3, NothingAfterFailure
    <3>2. Answer(1, rs, fd) = regs.rax
      <4>1. \A i \in 1 .. Len(rs) : i < 1 => rs[i] >= 0
        OBVIOUS
      <4>2. QED
        BY <2>2, <2>3, <4>1, AnswerAt
    <3>3. DupfdAnswer(regs.rax)
      BY <2>1 DEF DupfdAnswer, Allocated
    <3>4. QED
      BY <1>2, <1>3, <3>1, <3>2, <3>3
  <2>4. CASE active.saved.fd \notin FreeBefore /\ FreeBefore # {}
    <3>1. regs.rax = First /\ files = With("file") /\ First \in Nat
      BY <2>1, <2>4, LowestBefore DEF Allocated, Given
    <3>2. NoErrors(rs) /\ active.queue # << >>
      BY <2>1, <2>2, <3>1 DEF NoErrors
    <3>3. Popped(active.queue, rs) = 1
      BY <3>2, PoppedNext
    <3>4. Popped(active.queue, rs) > 0
      BY <3>3
    <3>5. Head(active.queue) = "fcntl_cloexec" /\ Tail(active.queue) = << >>
      BY <2>1
    <3>6. /\ active'.kind = active.kind /\ active'.before = active.before
          /\ active'.saved = active.saved /\ active'.results = rs
          /\ active'.running = "fcntl_cloexec" /\ active'.queue = << >>
      BY <1>2, <3>3, <3>4, <3>5, Zenon
    <3>7. FreeBefore' = FreeBefore /\ First' = First /\ With("file")' = With("file")
      BY <3>6 DEF FreeBefore, First, With
    <3>8. QED
      BY <1>1, <2>2, <2>4, <3>1, <3>6, <3>7 DEF DupfdProgress, Made
  <2>5. IsError(-9) /\ IsError(-24)
    BY Answers
  <2>6. QED
    BY <2>1, <2>3, <2>4, <2>5 DEF Allocated, Given, EBADF, EMFILE
<1>5. CASE active.running = "fcntl_cloexec"
  <2>1. /\ active.queue = << >> /\ active.results = <<First>>
        /\ FreeBefore # {} /\ active.saved.fd \notin FreeBefore /\ files = With("file")
    BY <1>1, <1>5 DEF DupfdProgress, Made
  <2>2. First \in Nat
    BY <2>1, LowestBefore
  <2>3. rs = <<First, regs.rax>>
    BY <1>2, <1>3, <1>5, <2>1, <2>2, AppendShort
  <2>4. 1 \in 1 .. Len(rs) /\ rs[1] = First
    BY <2>3
  <2>5. Popped(active.queue, rs) = 0
    BY <2>1, PoppedAtEnd
  <2>6. Answer(1, rs, fd) = First
    BY <2>2, <2>4, AnswerAt
  <2>7. DupfdAnswer(First)
    BY <2>1 DEF DupfdAnswer, Given
  <2>8. QED
    BY <1>2, <2>2, <2>5, <2>6, <2>7
<1>6. QED
  BY <1>4, <1>5 DEF DupfdProgress

\* eventfd.
LEMMA CollectEventfd ==
  ASSUME IInv, Reporting, EventfdProgress, active.kind = "eventfd", StepCollect
  PROVE  \/ active'.kind = active.kind /\ EventfdProgress'
         \/ \E rc \in Int : EndsWith(rc) /\ EventfdAnswer(rc)
<1>1. where = "exit" /\ where' = "resumed" /\ UNCHANGED files /\ InSequence
  BY CollectLeaves
<1>2. PICK rs \in Seq(Int), fd \in Int :
        /\ (active.running # "pipe") => rs = Append(active.results, regs.rax)
        /\ active.running # "pipe" =>
             fd = IF active.results = << >> /\ active.running \in MakesFd
                  THEN regs.rax ELSE active.fd
        /\ IF Popped(active.queue, rs) > 0
           THEN /\ active'.kind = active.kind /\ active'.before = active.before
                /\ active'.results = rs /\ active'.fd = fd
                /\ Popped(active.queue, rs) = 1 =>
                     active'.running = Head(active.queue) /\ active'.queue = Tail(active.queue)
           ELSE EndsWith(Answer(1, rs, fd))
  <2>1. OutcomeOf(active.kind) = 1
    BY DEF OutcomeOf
  <2>2. PICK captured \in BOOLEAN, rs \in Seq(Int), fd \in Int, writeEnd \in Int :
          CollectedAs(captured, rs, fd, writeEnd)
    BY CollectOutcome
  <2>3. /\ (active.running # "pipe") => rs = Append(active.results, regs.rax)
        /\ active.running # "pipe" =>
             fd = IF active.results = << >> /\ active.running \in MakesFd
                  THEN regs.rax ELSE active.fd
        /\ IF Popped(active.queue, rs) > 0
           THEN /\ active'.kind = active.kind /\ active'.before = active.before
                /\ active'.results = rs /\ active'.fd = fd
                /\ Popped(active.queue, rs) = 1 =>
                     active'.running = Head(active.queue) /\ active'.queue = Tail(active.queue)
           ELSE EndsWith(Answer(1, rs, fd))
    BY <2>1, <2>2 DEF CollectedAs, EndsWith
  <2>4. QED
    BY <2>3
<1>3. active.results \in Seq(Int) /\ regs.rax \in Int
  BY DEF IInv, TypeOK, ActiveType, RegsType
<1>4. ASSUME NoErrors(rs), active.queue # << >>
      PROVE  /\ active'.kind = active.kind /\ active'.results = rs /\ active'.fd = fd
             /\ active'.running = Head(active.queue) /\ active'.queue = Tail(active.queue)
             /\ FreeBefore' = FreeBefore /\ First' = First
             /\ \A object : With(object)' = With(object)
  <2>1. Popped(active.queue, rs) = 1
    BY <1>4, PoppedNext
  <2>2. Popped(active.queue, rs) > 0
    BY <2>1
  <2>3. /\ active'.kind = active.kind /\ active'.results = rs /\ active'.fd = fd
        /\ active'.running = Head(active.queue) /\ active'.queue = Tail(active.queue)
        /\ active'.before = active.before
    BY <1>2, <2>1, <2>2, Zenon
  <2>4. QED
    BY <2>3 DEF FreeBefore, First, With
<1>5. CASE active.running = "socket"
  <2>1. /\ active.results = << >> /\ Allocated("socket")
        /\ Begins(active.queue, "bind", Options \cup {"connect"})
        /\ Begins(Tail(active.queue), "connect", Options)
    BY <1>1, <1>5 DEF EventfdProgress, Made, Options
  <2>2. rs = <<regs.rax>> /\ 1 \in 1 .. Len(rs) /\ rs[1] = regs.rax /\ fd = regs.rax
    <3>1. rs = <<regs.rax>>
      BY <1>2, <1>3, <1>5, <2>1, AppendShort
    <3>2. fd = regs.rax
      BY <1>2, <1>5, <2>1 DEF MakesFd
    <3>3. QED
      BY <3>1, <3>2
  <2>3. CASE FreeBefore = {}
    <3>1. regs.rax = -24
      BY <2>1, <2>3 DEF Allocated, Given, EMFILE
    <3>2. IsError(-24)
      BY Answers
    <3>3. Popped(active.queue, rs) = 0
      BY <1>1, <2>2, <3>1, <3>2, NothingAfterFailure
    <3>4. Answer(1, rs, fd) = regs.rax
      <4>1. \A i \in 1 .. Len(rs) : i < 1 => rs[i] >= 0
        OBVIOUS
      <4>2. QED
        BY <2>2, <3>1, <3>2, <4>1, AnswerAt
    <3>5. EventfdAnswer(regs.rax)
      BY <2>1 DEF EventfdAnswer, Allocated
    <3>6. QED
      BY <1>2, <1>3, <3>3, <3>4, <3>5
  <2>4. CASE FreeBefore # {}
    <3>1. regs.rax = First /\ files = With("socket") /\ First \in Nat
      BY <2>1, <2>4, LowestBefore DEF Allocated, Given
    <3>2. NoErrors(rs) /\ active.queue # << >>
      BY <2>1, <2>2, <3>1 DEF NoErrors, Begins
    <3>3. active'.running = "bind"
      BY <1>4, <2>1, <3>2 DEF Begins
    <3>4. QED
      BY <1>1, <1>4, <2>1, <2>2, <2>4, <3>1, <3>2, <3>3 DEF EventfdProgress, Made
  <2>5. QED
    BY <2>3, <2>4
<1>6. CASE active.running = "bind"
  <2>1. /\ Begins(active.queue, "connect", Options)
        /\ active.results = <<First>> /\ active.fd = First /\ FreeBefore # {}
        /\ \/ files = With("socket") /\ regs.rax = -EADDRINUSE
           \/ files = With("bound") /\ regs.rax = 0
    BY <1>1, <1>6 DEF EventfdProgress, Made, Options
  <2>2. First \in Nat
    BY <2>1, LowestBefore
  <2>3. /\ rs = <<First, regs.rax>> /\ fd = First
        /\ Len(rs) = 2 /\ rs[1] = First /\ rs[2] = regs.rax
    BY <1>2, <1>3, <1>6, <2>1, <2>2, AppendShort DEF MakesFd
  <2>4. CASE files = With("socket") /\ regs.rax = -98
    <3>1. IsError(-98) /\ 2 \in 1 .. Len(rs) /\ 1 \in 1 .. Len(rs)
      BY <2>3, Answers
    <3>2. Popped(active.queue, rs) = 0
      BY <1>1, <2>3, <2>4, <3>1, NothingAfterFailure
    <3>3. Answer(1, rs, fd) = First
      <4>1. rs[1] >= 0
        BY <2>2, <2>3
      <4>2. Answer(1, rs, fd) = rs[1]
        BY <3>1, <4>1, AnswerAt
      <4>3. QED
        BY <2>3, <4>2
    <3>4. EventfdAnswer(First)
      BY <2>1, <2>4 DEF EventfdAnswer, Given
    <3>5. QED
      BY <1>2, <2>2, <3>2, <3>3, <3>4
  <2>5. CASE files = With("bound") /\ regs.rax = 0
    <3>1. NoErrors(rs) /\ active.queue # << >> /\ rs # << >>
      BY <2>1, <2>2, <2>3, <2>5 DEF NoErrors, Begins
    <3>2. active'.running = "connect" /\ active'.queue \in Seq(Options)
      BY <1>4, <2>1, <3>1 DEF Begins
    <3>3. QED
      BY <1>1, <1>4, <2>1, <2>3, <2>5, <3>1, <3>2 DEF EventfdProgress, Made
  <2>6. QED
    BY <2>1, <2>4, <2>5 DEF EADDRINUSE
<1>7. CASE active.running \in Options \cup {"connect"}
  <2>1. /\ active.queue \in Seq(Options) /\ active.results # << >>
        /\ active.results[1] = First /\ NoErrors(active.results)
        /\ active.fd = First /\ FreeBefore # {}
        /\ \/ files = With("selfconnected") /\ regs.rax \in {0, 8, -13, -14}
           \/ files = With("bound") /\ regs.rax = -13
    BY <1>1, <1>7 DEF EventfdProgress, Made, Options, EACCES, EFAULT
  <2>2. First \in Nat
    BY <2>1, LowestBefore
  <2>3. rs = Append(active.results, regs.rax) /\ fd = First
    BY <1>2, <1>7, <2>1 DEF MakesFd, Options
  <2>4. 1 \in 1 .. Len(rs) /\ rs[1] = First
    BY <1>3, <2>1, <2>3
  <2>5. ASSUME Popped(active.queue, rs) = 0 PROVE EndsWith(First) /\ EventfdAnswer(First)
    <3>1. Answer(1, rs, fd) = First
      BY <2>2, <2>4, AnswerAt
    <3>2. EventfdAnswer(First)
      BY <2>1 DEF EventfdAnswer, Given
    <3>3. QED
      BY <1>2, <2>5, <3>1, <3>2
  <2>6. CASE regs.rax \in {-13, -14}
    <3>1. IsError(regs.rax)
      BY <2>6, Answers
    <3>2. PICK k \in 1 .. Len(rs) : rs[k] = regs.rax
      <4> DEFINE n == Len(active.results)
      <4>1. n \in Nat /\ Len(rs) = n + 1 /\ rs[n + 1] = regs.rax
        BY <1>3, <2>3, AppendProperties
      <4> HIDE DEF n
      <4>2. QED
        BY <4>1
    <3>3. Popped(active.queue, rs) = 0
      BY <1>1, <1>7, <3>1, <3>2, NothingAfterFailure
    <3>4. QED
      BY <2>2, <2>5, <3>3
  <2>7. CASE regs.rax \in {0, 8}
    <3>1. NoErrors(rs) /\ rs # << >> /\ files = With("selfconnected")
      BY <1>3, <2>1, <2>3, <2>7, StillNoErrors
    <3>2. CASE active.queue = << >>
      BY <2>2, <2>5, <3>2, PoppedAtEnd
    <3>3. CASE active.queue # << >>
      <4>1. Head(active.queue) \in Options /\ Tail(active.queue) \in Seq(Options)
        BY <2>1, <3>3
      <4>2. QED
        BY <1>1, <1>4, <2>1, <2>3, <2>4, <3>1, <3>3, <4>1 DEF EventfdProgress, Made, Options
    <3>4. QED
      BY <3>2, <3>3
  <2>8. QED
    BY <2>1, <2>6, <2>7
<1>8. QED
  BY <1>5, <1>6, <1>7 DEF EventfdProgress

\* timerfd_create.
LEMMA CollectTimerfd ==
  ASSUME IInv, Reporting, TimerfdProgress, active.kind = "timerfd_create", StepCollect
  PROVE  \/ active'.kind = active.kind /\ TimerfdProgress'
         \/ \E rc \in Int : EndsWith(rc) /\ TimerfdAnswer(rc)
<1> USE DEF EMFILE, EIO
<1> DEFINE both == [active.before EXCEPT ![First] = "pipeR", ![Second] = "pipeW"]
<1>1. where = "exit" /\ where' = "resumed" /\ UNCHANGED files /\ InSequence
  BY CollectLeaves
<1>2. PICK captured \in BOOLEAN, rs \in Seq(Int), fd \in Int, writeEnd \in Int :
        /\ captured => active.running = "pipe" /\ Reopenable(scratchPair[2])
        /\ rs = IF active.running = "pipe" /\ ~captured
                THEN Append(Append(active.results, regs.rax), -5)
                ELSE Append(active.results, regs.rax)
        /\ fd = IF captured THEN scratchPair[1] ELSE active.fd
        /\ writeEnd = IF captured THEN scratchPair[2] ELSE active.writeEnd
        /\ IF Popped(active.queue, rs) > 0
           THEN /\ active'.kind = active.kind /\ active'.before = active.before
                /\ active'.results = rs /\ active'.fd = fd /\ active'.writeEnd = writeEnd
                /\ Popped(active.queue, rs) = 1 =>
                     active'.running = Head(active.queue) /\ active'.queue = Tail(active.queue)
           ELSE EndsWith(Answer(0, rs, fd))
  <2>1. OutcomeOf(active.kind) = 0
    BY DEF OutcomeOf
  <2>2. active.running \notin MakesFd
    BY DEF TimerfdProgress, MakesFd
  <2>3. PICK captured \in BOOLEAN, rs \in Seq(Int), fd \in Int, writeEnd \in Int :
          CollectedAs(captured, rs, fd, writeEnd)
    BY CollectOutcome
  <2>4. ~(Popped(active.queue, rs) > 0) => EndsWith(Answer(0, rs, fd))
    BY <2>1, <2>3 DEF CollectedAs, EndsWith
  <2>5. /\ captured => active.running = "pipe" /\ Reopenable(scratchPair[2])
        /\ rs = IF active.running = "pipe" /\ ~captured
                THEN Append(Append(active.results, regs.rax), -5)
                ELSE Append(active.results, regs.rax)
        /\ fd = IF captured THEN scratchPair[1] ELSE active.fd
        /\ writeEnd = IF captured THEN scratchPair[2] ELSE active.writeEnd
        /\ Popped(active.queue, rs) > 0 =>
             /\ active'.kind = active.kind /\ active'.before = active.before
             /\ active'.results = rs /\ active'.fd = fd /\ active'.writeEnd = writeEnd
             /\ Popped(active.queue, rs) = 1 =>
                  active'.running = Head(active.queue) /\ active'.queue = Tail(active.queue)
    BY <2>2, <2>3 DEF CollectedAs
  <2>6. QED
    BY <2>4, <2>5
<1>3. active.results \in Seq(Int) /\ regs.rax \in Int
  BY DEF IInv, TypeOK, ActiveType, RegsType
<1>4. ASSUME NoErrors(rs), active.queue # << >>
      PROVE  /\ active'.kind = active.kind /\ active'.results = rs
             /\ active'.fd = fd /\ active'.writeEnd = writeEnd
             /\ active'.running = Head(active.queue) /\ active'.queue = Tail(active.queue)
             /\ FreeBefore' = FreeBefore /\ First' = First /\ Second' = Second
             /\ both' = both /\ With("pipeR")' = With("pipeR")
  <2>1. Popped(active.queue, rs) = 1
    BY <1>4, PoppedNext
  <2>2. Popped(active.queue, rs) > 0
    BY <2>1
  <2>3. /\ active'.kind = active.kind /\ active'.results = rs
        /\ active'.fd = fd /\ active'.writeEnd = writeEnd
        /\ active'.running = Head(active.queue) /\ active'.queue = Tail(active.queue)
        /\ active'.before = active.before
    BY <1>2, <2>1, <2>2, Zenon
  <2>4. QED
    BY <2>3 DEF FreeBefore, First, Second, With
<1>5. CASE active.running = "pipe"
  <2>1. /\ active.results = << >> /\ active.fd = -1
        /\ Begins(active.queue, "close_write_end", {"nonblock"})
        /\ IF Cardinality(FreeBefore) < 2
           THEN regs.rax = -24 /\ files = active.before
           ELSE regs.rax = 0 /\ scratchPair = <<First, Second>> /\ files = both
    BY <1>1, <1>5 DEF TimerfdProgress, Made, NoFd
  <2>2. rs = IF captured THEN <<regs.rax>> ELSE <<regs.rax, -5>>
    <3>1. Append(active.results, regs.rax) = <<regs.rax>>
      BY <1>3, <2>1, AppendShort
    <3>2. Append(<<regs.rax>>, -5) = <<regs.rax, -5>>
      BY <1>3, AppendShort
    <3>3. QED
      BY <1>2, <1>5, <3>1, <3>2
  <2>3. IsError(-24) /\ IsError(-5)
    BY Answers
  <2>4. CASE Cardinality(FreeBefore) < 2
    <3>1. 1 \in 1 .. Len(rs) /\ rs[1] = -24
      BY <2>1, <2>2, <2>4
    <3>2. Popped(active.queue, rs) = 0
      BY <1>1, <2>3, <3>1, NothingAfterFailure
    <3>3. Failure(rs) = -24
      <4>1. \A i \in 1 .. Len(rs) : i < 1 => rs[i] >= 0
        OBVIOUS
      <4>2. QED
        BY <2>3, <3>1, <4>1, FailureAt
    <3>4. Answer(0, rs, fd) \in Fds \cup {-24}
      <4>1. CASE captured
        <5>1. scratchPair # NoPair
          BY <1>2, <4>1, ConstantsAssumption DEF Reopenable, NoPair, NoFd
        <5>2. fd \in Fds /\ fd \in Nat
          BY <1>2, <4>1, <5>1, ConstantsAssumption DEF IInv, TypeOK
        <5>3. QED
          BY <5>2 DEF Answer
      <4>2. CASE ~captured
        <5>1. fd = -1
          BY <1>2, <2>1, <4>2
        <5>2. QED
          BY <3>3, <5>1 DEF Answer
      <4>3. QED
        BY <4>1, <4>2
    <3>5. TimerfdAnswer(Answer(0, rs, fd)) /\ Answer(0, rs, fd) \in Int
      BY <2>1, <2>4, <3>4, ConstantsAssumption DEF TimerfdAnswer
    <3>6. QED
      BY <1>2, <3>2, <3>5
  <2>5. CASE ~(Cardinality(FreeBefore) < 2) /\ captured
    <3>1. rs = <<0>> /\ fd = First /\ writeEnd = Second /\ files = both
      BY <1>2, <2>1, <2>2, <2>5
    <3>2. NoErrors(rs) /\ active.queue # << >> /\ rs # << >>
      BY <2>1, <3>1 DEF NoErrors, Begins
    <3>3. active'.running = "close_write_end" /\ active'.queue \in Seq({"nonblock"})
      BY <1>4, <2>1, <3>2 DEF Begins
    <3>4. QED
      BY <1>1, <1>4, <2>5, <3>1, <3>2, <3>3 DEF TimerfdProgress, Made
  <2>6. CASE ~(Cardinality(FreeBefore) < 2) /\ ~captured
    <3>1. fd = -1 /\ files = both /\ Len(rs) = 2 /\ rs[1] = 0 /\ rs[2] = -5
      BY <1>2, <2>1, <2>2, <2>6
    <3>2. Popped(active.queue, rs) = 0
      BY <1>1, <2>3, <3>1, NothingAfterFailure
    <3>3. Failure(rs) = -5
      <4>1. 2 \in 1 .. Len(rs) /\ \A i \in 1 .. Len(rs) : i < 2 => rs[i] >= 0
        BY <3>1
      <4>2. QED
        BY <2>3, <3>1, <4>1, FailureAt
    <3>4. Answer(0, rs, fd) = -5
      BY <3>1, <3>3 DEF Answer
    <3>5. TimerfdAnswer(-5) /\ -5 \in Int
      BY <2>6, <3>1 DEF TimerfdAnswer
    <3>6. QED
      BY <1>2, <3>2, <3>4, <3>5
  <2>7. QED
    BY <2>4, <2>5, <2>6
<1>6. CASE active.running \in {"close_write_end", "nonblock"}
  <2>1. /\ active.queue \in Seq({"nonblock"}) /\ active.results # << >>
        /\ NoErrors(active.results) /\ active.fd = First /\ active.writeEnd = Second
        /\ ~(Cardinality(FreeBefore) < 2) /\ files = With("pipeR") /\ regs.rax \in {0, -13}
    BY <1>1, <1>6 DEF TimerfdProgress, Made, EACCES
  <2>2. First \in Nat
    BY <2>1, LowestBefore
  <2>3. rs = Append(active.results, regs.rax) /\ fd = First /\ writeEnd = Second
    BY <1>2, <1>6, <2>1
  <2>4. ASSUME Popped(active.queue, rs) = 0 PROVE EndsWith(First) /\ TimerfdAnswer(First)
    <3>1. Answer(0, rs, fd) = First
      BY <2>2, <2>3 DEF Answer
    <3>2. TimerfdAnswer(First)
      BY <2>1 DEF TimerfdAnswer
    <3>3. QED
      BY <1>2, <2>4, <3>1, <3>2
  <2>5. CASE regs.rax = -13
    <3>1. IsError(regs.rax)
      BY <2>5, Answers
    <3>2. PICK k \in 1 .. Len(rs) : rs[k] = regs.rax
      <4> DEFINE n == Len(active.results)
      <4>1. n \in Nat /\ Len(rs) = n + 1 /\ rs[n + 1] = regs.rax
        BY <1>3, <2>3, AppendProperties
      <4> HIDE DEF n
      <4>2. QED
        BY <4>1
    <3>3. Popped(active.queue, rs) = 0
      BY <1>1, <3>1, <3>2, NothingAfterFailure
    <3>4. QED
      BY <2>2, <2>4, <3>3
  <2>6. CASE regs.rax = 0
    <3>1. NoErrors(rs) /\ rs # << >>
      BY <1>3, <2>1, <2>3, <2>6, StillNoErrors
    <3>2. CASE active.queue = << >>
      BY <2>2, <2>4, <3>2, PoppedAtEnd
    <3>3. CASE active.queue # << >>
      <4>1. Head(active.queue) = "nonblock" /\ Tail(active.queue) \in Seq({"nonblock"})
        BY <2>1, <3>3
      <4>2. QED
        BY <1>1, <1>4, <2>1, <2>3, <3>1, <3>3, <4>1 DEF TimerfdProgress, Made
    <3>4. QED
      BY <3>2, <3>3
  <2>7. QED
    BY <2>1, <2>5, <2>6
<1>7. QED
  BY <1>5, <1>6 DEF TimerfdProgress

\* One call of a sequence has returned: the sequence goes on, or the
\* application gets an answer and what goes with it.
LEMMA CollectEnds ==
  ASSUME IInv, Reporting, Progress, StepCollect
  PROVE  \/ active'.kind = active.kind /\ InSequence' /\ Progress'
         \/ \E rc \in Int :
              /\ EndsWith(rc)
              /\ active.kind = "epoll_pwait" => WaitAnswer(rc)
              /\ active.kind = "vector_io" => VectorAnswer(rc)
              /\ active.kind = "dupfd_cloexec" => DupfdAnswer(rc)
              /\ active.kind = "eventfd" => EventfdAnswer(rc)
              /\ active.kind = "timerfd_create" => TimerfdAnswer(rc)
<1>1. InSequence
  BY CollectLeaves
<1>2. active'.kind = active.kind => InSequence' /\ regs'.fd = FdOf(active'.running, active')
  <2>1. InSequence => active.kind # "none"
    BY DEF InSequence, SequenceCalls
  <2>2. QED
    BY <1>1, <2>1, CollectOutcome DEF CollectedAs, Idle, InSequence
<1>3. CASE active.kind = "epoll_pwait"
  BY <1>2, <1>3, CollectWait DEF Progress
<1>4. CASE active.kind = "vector_io"
  BY <1>2, <1>4, CollectVector DEF Progress
<1>5. CASE active.kind = "dupfd_cloexec"
  BY <1>2, <1>5, CollectDupfd DEF Progress
<1>6. CASE active.kind = "eventfd"
  BY <1>2, <1>6, CollectEventfd DEF Progress
<1>7. CASE active.kind = "timerfd_create"
  BY <1>2, <1>7, CollectTimerfd DEF Progress
<1>8. QED
  BY <1>1, <1>3, <1>4, <1>5, <1>6, <1>7 DEF InSequence, SequenceCalls

-----------------------------------------------------------------------------
(* begin, and the invariant of the refinement.                             *)

\* The tail of two sequences one after the other.
LEMMA TailConcat ==
  ASSUME NEW T, NEW q \in Seq(T), q # << >>, NEW t \in Seq(T)
  PROVE  q \o t \in Seq(T) /\ q \o t # << >> /\ Head(q \o t) = Head(q)
         /\ Tail(q \o t) = Tail(q) \o t
<1> DEFINE c == q \o t
           left == Tail(c)
           right == Tail(q) \o t
<1>1. PICK k \in Nat, l \in Nat : k = Len(q) /\ l = Len(t) /\ k >= 1
  OBVIOUS
<1>2. /\ c \in Seq(T) /\ Len(c) = k + l
      /\ \A i \in 1 .. k + l : c[i] = IF i <= k THEN q[i] ELSE t[i - k]
  BY <1>1, ConcatProperties
<1>3. /\ Tail(q) \in Seq(T) /\ Len(Tail(q)) = k - 1
      /\ \A i \in 1 .. k - 1 : Tail(q)[i] = q[i + 1]
  BY <1>1, HeadTailProperties
<1>4. /\ right \in Seq(T) /\ Len(right) = k - 1 + l
      /\ \A i \in 1 .. k - 1 + l : right[i] = IF i <= k - 1 THEN Tail(q)[i] ELSE t[i - (k - 1)]
  BY <1>1, <1>3, ConcatProperties
<1> HIDE DEF c, right
<1>5. c # << >> /\ c[1] = q[1]
  BY <1>1, <1>2
<1>6. /\ left \in Seq(T) /\ Len(left) = k + l - 1
      /\ \A i \in 1 .. k + l - 1 : left[i] = c[i + 1]
  BY <1>1, <1>2, <1>5, HeadTailProperties
<1> HIDE DEF left
<1>7. \A i \in 1 .. k + l - 1 : left[i] = right[i]
  <2> TAKE i \in 1 .. k + l - 1
  <2>1. CASE i + 1 <= k
    <3>1. left[i] = q[i + 1]
      BY <1>1, <1>2, <1>6, <2>1
    <3>2. right[i] = q[i + 1]
      BY <1>1, <1>3, <1>4, <2>1
    <3>3. QED
      BY <3>1, <3>2
  <2>2. CASE ~(i + 1 <= k)
    <3>1. left[i] = t[i + 1 - k]
      BY <1>1, <1>2, <1>6, <2>2
    <3>2. right[i] = t[i - (k - 1)]
      BY <1>1, <1>4, <2>2
    <3>3. i + 1 - k = i - (k - 1)
      BY <1>1
    <3>4. QED
      BY <3>1, <3>2, <3>3
  <2>3. QED
    BY <2>1, <2>2
<1>8. k + l - 1 = k - 1 + l
  BY <1>1
<1>9. left = right
  BY <1>4, <1>6, <1>7, <1>8, SeqEqual
<1>10. Head(c) = Head(q)
  BY <1>1, <1>2, <1>5
<1>11. QED
  BY <1>2, <1>5, <1>9, <1>10 DEF c, left, right

\* What an eventfd and a timerfd_create begin with.
LEMMA QueueParts ==
  ASSUME NEW r \in RegsType
  PROVE  /\ r.nr = "eventfd" =>
              /\ Head(QueueOf(r)) = "socket"
              /\ Begins(Tail(QueueOf(r)), "bind", Options \cup {"connect"})
              /\ Begins(Tail(Tail(QueueOf(r))), "connect", Options)
         /\ r.nr = "timerfd_create" =>
              /\ Head(QueueOf(r)) = "pipe"
              /\ Begins(Tail(QueueOf(r)), "close_write_end", {"nonblock"})
<1>1. ASSUME r.nr = "eventfd"
      PROVE  /\ Head(QueueOf(r)) = "socket"
             /\ Begins(Tail(QueueOf(r)), "bind", Options \cup {"connect"})
             /\ Begins(Tail(Tail(QueueOf(r))), "connect", Options)
  <2> DEFINE T == Options \cup {"connect", "bind", "socket"}
             a == <<"socket", "bind", "connect">>
             b == <<"bind", "connect">>
             c == <<"connect">>
             t == IF "nonblock" \in r.opts THEN <<"nonblock">> ELSE << >>
             u == IF "initial" \in r.opts THEN <<"write_initial">> ELSE << >>
  <2>1. QueueOf(r) = (a \o t) \o u
    BY <1>1 DEF QueueOf, EventfdSeq
  <2>2. /\ a \in Seq(T) /\ a # << >> /\ Head(a) = "socket" /\ Tail(a) = b
        /\ b \in Seq(T) /\ b # << >> /\ Head(b) = "bind" /\ Tail(b) = c
        /\ c \in Seq(T) /\ c # << >> /\ Head(c) = "connect" /\ Tail(c) = << >>
    BY DEF Options
  <2>3. t \in Seq(Options) /\ u \in Seq(Options)
    <3>1. << >> \in Seq(Options) /\ <<"nonblock">> \in Seq(Options)
          /\ <<"write_initial">> \in Seq(Options)
      BY DEF Options
    <3>2. QED
      BY <3>1
  <2>4. t \in Seq(T) /\ u \in Seq(T)
    <3> HIDE DEF t, u
    <3>1. Options \subseteq T
      OBVIOUS
    <3> HIDE DEF T
    <3>2. QED
      BY <2>3, <3>1
  <2>5. /\ b \in Seq((Options \cup {"connect"}) \cup {"bind"})
        /\ Begins(b, "bind", Options \cup {"connect"})
        /\ t \in Seq(Options \cup {"connect"}) /\ u \in Seq(Options \cup {"connect"})
    BY <2>2, <2>3 DEF Begins, Options
  <2>6. c \in Seq(Options \cup {"connect"}) /\ Begins(c, "connect", Options)
    BY <2>2 DEF Begins, Options
  <2> HIDE DEF a, b, c, t, u, T
  <2>7. /\ a \o t \in Seq(T) /\ a \o t # << >> /\ Head(a \o t) = "socket"
        /\ Tail(a \o t) = b \o t
    <3>1. /\ a \o t \in Seq(T) /\ a \o t # << >> /\ Head(a \o t) = Head(a)
          /\ Tail(a \o t) = Tail(a) \o t
      BY <2>2, <2>4, TailConcat
    <3>2. QED
      BY <2>2, <3>1, Zenon
  <2>8. Head(QueueOf(r)) = "socket" /\ Tail(QueueOf(r)) = (b \o t) \o u
    <3> DEFINE d == a \o t
    <3>1. d \in Seq(T) /\ d # << >>
      BY <2>7
    <3> HIDE DEF d
    <3>2. Head(d \o u) = Head(d) /\ Tail(d \o u) = Tail(d) \o u
      BY <2>4, <3>1, TailConcat
    <3>3. QED
      BY <2>1, <2>7, <3>2, Zenon DEF d
  <2>9. /\ b \o t \in Seq(T) /\ b \o t # << >> /\ Tail(b \o t) = c \o t
    BY <2>2, <2>4, TailConcat, Zenon
  <2>10. Tail(Tail(QueueOf(r))) = (c \o t) \o u
    <3> DEFINE e == b \o t
    <3>1. e \in Seq(T) /\ e # << >>
      BY <2>9
    <3> HIDE DEF e
    <3>2. Tail(e \o u) = Tail(e) \o u
      BY <2>4, <3>1, TailConcat
    <3>3. QED
      BY <2>8, <2>9, <3>2, Zenon DEF e
  <2>11. Begins((b \o t) \o u, "bind", Options \cup {"connect"})
    <3>1. /\ b \o t \in Seq((Options \cup {"connect"}) \cup {"bind"})
          /\ Begins(b \o t, "bind", Options \cup {"connect"})
      BY <2>5, BeginsConcat
    <3>2. QED
      BY <2>5, <3>1, BeginsConcat
  <2>12. Begins((c \o t) \o u, "connect", Options)
    <3>1. c \o t \in Seq(Options \cup {"connect"}) /\ Begins(c \o t, "connect", Options)
      BY <2>3, <2>6, BeginsConcat
    <3>2. QED
      BY <2>3, <3>1, BeginsConcat
  <2>13. QED
    BY <2>8, <2>10, <2>11, <2>12
<1>2. ASSUME r.nr = "timerfd_create"
      PROVE  /\ Head(QueueOf(r)) = "pipe"
             /\ Begins(Tail(QueueOf(r)), "close_write_end", {"nonblock"})
  <2> DEFINE T == {"pipe", "close_write_end", "nonblock"}
             a == <<"pipe", "close_write_end">>
             b == <<"close_write_end">>
             t == IF "nonblock" \in r.opts THEN <<"nonblock">> ELSE << >>
  <2>1. QueueOf(r) = a \o t
    BY <1>2 DEF QueueOf, TimerfdCreateSeq
  <2>2. /\ a \in Seq(T) /\ a # << >> /\ Head(a) = "pipe" /\ Tail(a) = b
        /\ b \in Seq({"nonblock"} \cup {"close_write_end"})
        /\ b # << >> /\ Head(b) = "close_write_end" /\ Tail(b) = << >>
    OBVIOUS
  <2>3. t \in Seq({"nonblock"}) /\ t \in Seq(T)
    <3>1. << >> \in Seq({"nonblock"}) /\ <<"nonblock">> \in Seq({"nonblock"})
      OBVIOUS
    <3>2. << >> \in Seq(T) /\ <<"nonblock">> \in Seq(T)
      OBVIOUS
    <3>3. QED
      BY <3>1, <3>2
  <2>4. Begins(b, "close_write_end", {"nonblock"})
    BY <2>2 DEF Begins
  <2> HIDE DEF a, b, t, T
  <2>5. Head(QueueOf(r)) = "pipe" /\ Tail(QueueOf(r)) = b \o t
    <3>1. Head(a \o t) = Head(a) /\ Tail(a \o t) = Tail(a) \o t
      BY <2>2, <2>3, TailConcat
    <3>2. QED
      BY <2>1, <2>2, <3>1, Zenon
  <2>6. QED
    BY <2>2, <2>3, <2>4, <2>5, BeginsConcat
<1>3. QED
  BY <1>1, <1>2

\* begin queues the sequence of the call and has made none of it.
LEMMA StartProgress ==
  ASSUME IInv, OnSyscall, Entering, StartSequence
  PROVE  Progress'
<1> DEFINE queue == QueueOf(regs)
           act == [kind |-> regs.nr, saved |-> regs, queue |-> Tail(queue),
                   running |-> Head(queue), atEntry |-> FALSE, results |-> << >>,
                   fd |-> NoFd, writeEnd |-> NoFd, before |-> files]
<1>1. /\ regs.nr \in SequenceCalls /\ active' = act
      /\ regs' = Build(Head(queue), act, regs.rip) /\ files' = files
  BY DEF StartSequence, OnSyscall
<1>2. where' = "kernel"
  BY StepPlaces DEF OnSyscall, Resume
<1>3. regs'.fd = FdOf(active'.running, active')
  BY <1>1 DEF Build, Regs, FdOf
<1>4. /\ active'.kind = regs.nr /\ active'.queue = Tail(queue) /\ active'.running = Head(queue)
      /\ active'.results = << >> /\ active'.before = files' /\ active'.fd = NoFd
      /\ active'.saved = regs
  BY <1>1
<1> HIDE DEF act
<1>5. regs \in RegsType
  BY DEF IInv, TypeOK
<1>6. CASE regs.nr = "epoll_pwait"
  <2>1. Head(queue) = "sigprocmask_set"
    BY <1>6 DEF QueueOf, EpollPwaitSeq
  <2>2. regs'.set = regs.set
    BY <1>1, <2>1 DEF Build, Regs, act
  <2>3. WaitProgress'
    BY <1>2, <1>4, <2>1, <2>2 DEF WaitProgress, Made
  <2>4. QED
    BY <1>3, <1>4, <1>6, <2>3 DEF Progress
<1>7. CASE regs.nr = "vector_io"
  <2>1. Head(queue) = "lseek" /\ Tail(queue) = <<"vector_io">>
    BY <1>7 DEF QueueOf, VectorIoSeq
  <2>2. VectorProgress'
    BY <1>2, <1>4, <2>1 DEF VectorProgress, Made
  <2>3. QED
    BY <1>3, <1>4, <1>7, <2>2 DEF Progress
<1>8. CASE regs.nr = "dupfd_cloexec"
  <2>1. Head(queue) = "fcntl_dupfd" /\ Tail(queue) = <<"fcntl_cloexec">>
    BY <1>8 DEF QueueOf, DupfdCloexecSeq
  <2>2. DupfdProgress'
    BY <1>2, <1>4, <2>1 DEF DupfdProgress, Made
  <2>3. QED
    BY <1>3, <1>4, <1>8, <2>2 DEF Progress
<1>9. CASE regs.nr = "eventfd"
  <2>1. /\ Head(queue) = "socket" /\ Begins(Tail(queue), "bind", Options \cup {"connect"})
        /\ Begins(Tail(Tail(queue)), "connect", Options)
    BY <1>5, <1>9, QueueParts
  <2> HIDE DEF queue
  <2>2. EventfdProgress'
    BY <1>2, <1>4, <2>1 DEF EventfdProgress, Made
  <2>3. QED
    BY <1>3, <1>4, <1>9, <2>2 DEF Progress
<1>10. CASE regs.nr = "timerfd_create"
  <2>1. Head(queue) = "pipe" /\ Begins(Tail(queue), "close_write_end", {"nonblock"})
    BY <1>5, <1>10, QueueParts
  <2> HIDE DEF queue
  <2>2. TimerfdProgress'
    BY <1>2, <1>4, <2>1 DEF TimerfdProgress, Made
  <2>3. QED
    BY <1>3, <1>4, <1>10, <2>2 DEF Progress
<1>11. QED
  BY <1>1, <1>6, <1>7, <1>8, <1>9, <1>10 DEF SequenceCalls

\* Outside a sequence there is nothing to keep.
LEMMA OutsideProgress ==
  ASSUME ~InSequence' PROVE Progress'
BY DEF Progress, InSequence, SequenceCalls

\* A step that is no part of the sequence: signals, the way into the kernel.
LEMMA StillProgress ==
  ASSUME Progress, UNCHANGED <<regs, mask, files, scratchPair>>,
         active' = active \/ active' = [active EXCEPT !.atEntry = FALSE],
         active \in ActiveType,
         Made' <=> Made, InFlight # {} => InFlight' # {}
  PROVE  Progress'
<1>1. /\ active'.kind = active.kind /\ active'.saved = active.saved /\ active'.queue = active.queue
      /\ active'.running = active.running /\ active'.results = active.results
      /\ active'.fd = active.fd /\ active'.writeEnd = active.writeEnd
      /\ active'.before = active.before
  BY DEF ActiveType
<1>2. /\ FreeBefore' = FreeBefore /\ First' = First /\ Second' = Second
      /\ \A object : With(object)' = With(object)
  BY <1>1 DEF FreeBefore, First, Second, With
<1>3. \A object : Allocated(object)' <=> Allocated(object)
  BY <1>1, <1>2 DEF Allocated, Given
<1>4. WaitProgress => WaitProgress'
  BY <1>1 DEF WaitProgress, Made
<1>5. VectorProgress => VectorProgress'
  BY <1>1 DEF VectorProgress
<1>6. DupfdProgress => DupfdProgress'
  BY <1>1, <1>2, <1>3 DEF DupfdProgress
<1>7. EventfdProgress => EventfdProgress'
  BY <1>1, <1>2, <1>3 DEF EventfdProgress, Begins, NoErrors
<1>8. TimerfdProgress => TimerfdProgress'
  BY <1>1, <1>2 DEF TimerfdProgress, Begins, NoErrors
<1>9. (InSequence => regs.fd = FdOf(active.running, active))
        => (InSequence' => regs'.fd = FdOf(active'.running, active'))
  BY <1>1 DEF InSequence, FdOf
<1>10. QED
  BY <1>1, <1>4, <1>5, <1>6, <1>7, <1>8, <1>9 DEF Progress

\* The kernel's part of a sequence.
LEMMA RunProgress ==
  ASSUME IInv, Progress, Run \/ EndWait \/ InterruptWait
  PROVE  Progress'
<1>1. CASE ~InSequence
  <2>1. UNCHANGED active
    BY DEF Run, RunPlain, RunSigprocmask, RunFiles, RunPipe, RunSigreturn, EndWait,
           InterruptWait, tracer
  <2>2. QED
    BY <1>1, <2>1, OutsideProgress DEF InSequence
<1>2. CASE InSequence
  <2>1. UNCHANGED active /\ regs'.fd = regs.fd /\ regs.fd = FdOf(active.running, active)
    BY <1>2, RunInside DEF Progress
  <2>2. regs'.fd = FdOf(active'.running, active')
    BY <2>1
  <2>3. /\ active.kind = "epoll_pwait" => WaitProgress'
        /\ active.kind = "vector_io" => VectorProgress'
        /\ active.kind = "dupfd_cloexec" => DupfdProgress'
        /\ active.kind = "eventfd" => EventfdProgress'
        /\ active.kind = "timerfd_create" => TimerfdProgress'
    BY <2>1, RunWaitProgress, RunVectorProgress, RunDupfdProgress, RunEventfdProgress,
       RunTimerfdProgress DEF Progress
  <2>4. QED
    BY <2>1, <2>2, <2>3 DEF Progress
<1>3. QED
  BY <1>1, <1>2

\* Every step keeps the account of the sequence.
LEMMA ProgressStep == IInv /\ Reporting /\ Progress /\ [Next]_vars => Progress'
<1> SUFFICES ASSUME IInv, Reporting, Progress, [Next]_vars PROVE Progress'
  OBVIOUS
<1> USE NotBusy
<1>1. active \in ActiveType
  BY DEF IInv, TypeOK
<1>2. CASE AppCall \/ Sigreturn
  <2>1. ~InSequence'
    BY <1>2 DEF AppCall, Sigreturn, Enter, tracer, Busy, InSequence
  <2>2. QED
    BY <2>1, OutsideProgress
<1>3. CASE SendSignal \/ TakeSignal \/ LeaveKernel \/ UNCHANGED vars
  <2>1. UNCHANGED <<regs, mask, files, scratchPair, active>>
    BY <1>3 DEF SendSignal, TakeSignal, LeaveKernel, vars, tracee, tracer
  <2>2. Made' <=> Made
    BY <1>3 DEF SendSignal, TakeSignal, LeaveKernel, vars, tracee, Made
  <2>3. InFlight \subseteq InFlight'
    <3>1. TakeSignal => stopSig = {}
      BY DEF TakeSignal, Reporting
    <3>2. QED
      BY <1>3, <3>1 DEF SendSignal, TakeSignal, LeaveKernel, vars, tracee, tracer, InFlight
  <2>4. QED
    BY <1>1, <2>1, <2>2, <2>3, StillProgress
<1>4. CASE Run \/ EndWait \/ InterruptWait
  BY <1>4, RunProgress
<1>5. CASE OnStopped
  <2>1. CASE Busy
    <3>1. UNCHANGED <<regs, mask, files, scratchPair, active>> /\ (Made' <=> Made)
          /\ held' = stopSig /\ stopSig # {}
      BY <1>5, <2>1 DEF OnStopped, MustHold, Resume, Made, Reporting
    <3>2. QED
      BY <1>1, <3>1, StillProgress DEF InFlight
  <2>2. CASE ~Busy
    <3>1. ~InSequence'
      BY <1>5, <2>2 DEF OnStopped, Busy, InSequence
    <3>2. QED
      BY <3>1, OutsideProgress
  <2>3. QED
    BY <2>1, <2>2
<1>6. CASE OnSyscall
  <2>1. CASE Entering /\ StartSequence
    BY <1>6, <2>1, StartProgress
  <2>2. CASE StandIn \/ NotEmulated
    <3>1. ~InSequence'
      BY <1>6, <2>2 DEF OnSyscall, StandIn, NotEmulated, Fixup, Idle, InSequence, SequenceCalls
    <3>2. QED
      BY <3>1, OutsideProgress
  <2>3. QED
    BY <1>6, <2>1, <2>2 DEF OnSyscall
<1>7. CASE StepFixup
  <2>1. ~InSequence'
    BY <1>7 DEF StepFixup, Idle, InSequence, SequenceCalls
  <2>2. QED
    BY <2>1, OutsideProgress
<1>8. CASE StepEntry
  <2>1. UNCHANGED <<regs, mask, files, scratchPair>>
        /\ active' = [active EXCEPT !.atEntry = FALSE]
    BY <1>8 DEF StepEntry, ResumeAfterStep
  <2>2. where = "entry" /\ where' = "kernel" /\ InSequence
    BY <1>8, StepPlaces DEF StepEntry, ResumeAfterStep, Resume
  <2>3. active'.kind # "none"
    BY <1>1, <2>1, <2>2 DEF ActiveType, InSequence, SequenceCalls
  <2>4. UNCHANGED <<pending, held>> /\ stopSig = {}
    BY <1>8, <2>2, <2>3 DEF StepEntry, ResumeAfterStep, Reporting
  <2>5. QED
    BY <1>1, <2>1, <2>2, <2>4, StillProgress DEF Made, InFlight
<1>9. CASE StepCollect
  <2>1. CASE active'.kind = active.kind /\ InSequence' /\ Progress'
    BY <2>1
  <2>2. CASE active' = Idle
    <3>1. ~InSequence'
      BY <2>2 DEF Idle, InSequence, SequenceCalls
    <3>2. QED
      BY <3>1, OutsideProgress
  <2>3. QED
    BY <1>9, <2>1, <2>2, CollectEnds DEF EndsWith
<1>10. QED
  BY <1>2, <1>3, <1>4, <1>5, <1>6, <1>7, <1>8, <1>9 DEF Next

\* The invariant of the refinement holds in every reachable state.
THEOREM AtomicInvariance == Spec => []AtomicInv
<1>1. Init => Asked /\ Reporting /\ Progress
  BY DEF Init, Idle, Asked, Reporting, Progress, Busy, InSequence, SequenceCalls
<1>2. QED
  BY <1>1, Invariance, AskedStep, ReportingStep, ProgressStep, PTL DEF Spec, AtomicInv

-----------------------------------------------------------------------------
(* The mapping: each step of Emulation is one of AtomicCalls, or shows     *)
(* nothing.                                                                *)

\* The application starts in its own code.
LEMMA SeenInit == Init => Seen!Init
<1> SUFFICES ASSUME Init PROVE Seen!Init
  OBVIOUS
<1>1. where = "user" /\ active.kind = "none" /\ stopSig = {} /\ frames = << >>
      /\ pending = {} /\ held = {} /\ files = [f \in Fds |-> "free"]
      /\ regs = Regs("none", NoFd, {}, {}, "app") /\ mask \in SUBSET Signals
  BY ConstantsAssumption DEF Init, Idle
<1>2. Place = "code" /\ Call = "none" /\ Frame = << >> /\ InFlight = {} /\ Blocked = mask
      /\ View = <<NoFd, {}, {}, "app">> /\ Result = 0
  BY <1>1 DEF Place, Call, Frame, InFlight, View, Result, InCall, Busy, Visible, Regs, Blocked
<1>3. Table = [f \in Fds |-> "free"]
  BY <1>1 DEF Table, SequenceCalls
<1>4. QED
  BY <1>1, <1>2, <1>3 DEF Seen!Init, Seen!Fresh, NoFd, Seen!NoFd, NoFd, Seen!NoFd, NoFd, Seen!NoFd

\* What the application sees.
Sight == <<Place, Call, View, Result, Blocked, Table, Frame, InFlight>>

\* It may be nothing.
LEMMA Unseen == UNCHANGED Sight => UNCHANGED Seen!vars
BY DEF Sight, Seen!vars

\* Entering a call from application code.
LEMMA SeenAsk ==
  ASSUME AtomicInv, AtomicInv', AppCall \/ Sigreturn
  PROVE  Seen!Ask
<1>1. ~Busy /\ active.kind = "none" /\ where = "user"
  BY NotBusy DEF AtomicInv, AppCall, Sigreturn, Enter, Busy
<1>2. /\ where' = "entry" /\ regs' = mine'
      /\ UNCHANGED <<active, files, mask, appMask, frames, pending, stopSig, held>>
  BY DEF AppCall, Sigreturn, Enter, tracer
<1>3. \E k \in Calls \cup {"sigreturn"}, f \in Fds \cup {NoFd}, m \in SUBSET Signals,
         o \in SUBSET {"nonblock", "initial"} :
        /\ k = "sigreturn" /\ k \notin Calls => frames # << >>
        /\ regs' = Regs(k, f, m, o, "app")
  <2>1. CASE AppCall
    <3>1. Masks \cup {mask} \subseteq SUBSET Signals
      BY ConstantsAssumption DEF AtomicInv, IInv, TypeOK
    <3>2. QED
      BY <2>1, <3>1 DEF AppCall, Enter
  <2>2. CASE Sigreturn
    BY <2>2 DEF Sigreturn, Enter
  <2>3. QED
    BY <2>1, <2>2
<1>4. mask = appMask
  BY <1>1 DEF AtomicInv, IInv, MaskSaved
<1>5. /\ Place = "code" /\ Place' = "call" /\ UNCHANGED <<Blocked, Table, Frame, InFlight>>
      /\ Call' = regs'.nr /\ View' = Visible(regs') /\ Result' = 0
  BY <1>1, <1>2, <1>4
     DEF Place, Call, View, Result, Blocked, Table, Frame, InFlight, InCall, Busy,
         SequenceCalls
<1>6. Frame = << >> <=> frames = << >>
  BY DEF Frame
<1>7. QED
  BY <1>3, <1>5, <1>6 DEF Seen!Ask, Visible, Regs, NoFd, Seen!NoFd, NoFd, Seen!NoFd, NoFd, Seen!NoFd

\* A signal is sent, or looked for on the way out of the kernel; the way out
\* ends in application code, or at the gadget and so in the same call.
LEMMA SeenSignals ==
  ASSUME AtomicInv, SendSignal \/ TakeSignal \/ LeaveKernel
  PROVE  Seen!Next \/ UNCHANGED Sight
<1> USE DEF Place, Call, View, Result, Blocked, Table, Frame, InFlight, InCall, Busy
<1>1. CASE SendSignal
  <2>1. PICK s \in Signals : pending' = pending \cup {s}
    BY <1>1 DEF SendSignal
  <2>2. InFlight' = InFlight \cup {s}
    BY <1>1, <2>1 DEF SendSignal, tracer
  <2>3. UNCHANGED <<Place, Call, View, Result, Blocked, Table, Frame>>
    BY <1>1 DEF SendSignal, tracer
  <2>4. QED
    BY <2>2, <2>3 DEF Seen!Next, Seen!Send
<1>2. CASE TakeSignal
  <2>1. where \in {"user", "resumed"} /\ where' = "signal" /\ InFlight' = InFlight
    BY <1>2 DEF TakeSignal, tracer, AtomicInv, Reporting
  <2>2. UNCHANGED <<Call, View, Result, Blocked, Table, Frame>>
    BY <1>2, <2>1 DEF TakeSignal, tracer, ghosts
  <2>3. CASE where = "user"
    <3>1. ~Busy
      BY <2>3, NotBusy DEF AtomicInv
    <3>2. Place = "code" /\ Place' = "back"
      BY <1>2, <2>1, <2>3, <3>1 DEF TakeSignal, tracer
    <3>3. QED
      BY <2>1, <2>2, <3>2 DEF Seen!Next, Seen!Stop, Seen!Moves
  <2>4. CASE where = "resumed"
    <3>1. UNCHANGED Place
      BY <1>2, <2>1, <2>4 DEF TakeSignal, tracer
    <3>2. QED
      BY <2>1, <2>2, <3>1 DEF Sight
  <2>5. QED
    BY <2>1, <2>3, <2>4
<1>3. CASE LeaveKernel
  <2>1. where = "resumed" /\ UNCHANGED <<regs, active, mine, mask, appMask, files, frames>>
        /\ InFlight' = InFlight
    BY <1>3 DEF LeaveKernel, tracer, ghosts
  <2>2. where' = IF Busy THEN "entry" ELSE "user"
    <3>1. regs.rip = "gadget" <=> Busy
      BY <2>1, NotBusy DEF AtomicInv, IInv, Directions, Registers, Visible
    <3>2. QED
      BY <1>3, <3>1 DEF LeaveKernel
  <2>3. UNCHANGED <<Call, View, Result, Blocked, Table, Frame>>
    BY <2>1, <2>2
  <2>4. CASE Busy
    BY <2>1, <2>2, <2>3, <2>4 DEF Sight
  <2>5. CASE ~Busy
    <3>1. Place = "back" /\ Place' = "code"
      BY <2>1, <2>2, <2>5
    <3>2. QED
      BY <2>1, <2>3, <3>1 DEF Seen!Next, Seen!Resume, Seen!Moves
  <2>6. QED
    BY <2>4, <2>5
<1>4. QED
  BY <1>1, <1>2, <1>3

\* A signal stop is a handler's start outside of calls; in one the signal is
\* held, in place of the one that was.
LEMMA SeenStopped ==
  ASSUME AtomicInv, OnStopped
  PROVE  Seen!Next
<1>1. where = "signal" /\ UNCHANGED <<pending, files, active>>
  BY DEF OnStopped
<1>2. PICK s \in Signals \ mask : stopSig = {s}
  BY <1>1 DEF AtomicInv, Reporting
<1>3. CASE Busy
  <2>1. /\ where' = "resumed" /\ stopSig' = {} /\ held' = {s}
        /\ UNCHANGED <<regs, mask, frames, mine, appMask>>
    BY <1>1, <1>2, <1>3 DEF OnStopped, MustHold, Resume
  <2>2. InFlight' \subseteq InFlight /\ InFlight' # {}
    BY <1>1, <1>2, <2>1 DEF InFlight
  <2>3. Place = "call" /\ UNCHANGED <<Place, Call, View, Result, Blocked, Table, Frame>>
    BY <1>1, <1>3, <2>1 DEF Place, Call, View, Result, Blocked, Table, Frame, InCall, Busy
  <2>4. QED
    BY <2>2, <2>3 DEF Seen!Next, Seen!Replace
<1>4. CASE ~Busy
  <2>1. /\ where' = "user" /\ stopSig' = {} /\ held' = held /\ mask' = Signals
        /\ frames' = <<[regs |-> regs, mine |-> mine, mask |-> mask, appMask |-> appMask]>>
        /\ regs' = Regs("none", NoFd, {}, {}, "app")
    BY <1>1, <1>4 DEF OnStopped, MustHold, StartHandler
  <2>2. held = {} /\ mask = appMask /\ frames = << >>
    <3>1. active.kind = "none"
      BY <1>4 DEF Busy
    <3>2. QED
      BY <1>2, <1>4, <3>1 DEF AtomicInv, IInv, HeldInsideOnly, MaskSaved, Reporting
  <2>3. InFlight = pending \cup {s} /\ InFlight' = pending
    BY <1>1, <1>2, <2>1, <2>2 DEF InFlight
  <2>4. s \in InFlight \ mask /\ InFlight' \in {InFlight, InFlight \ {s}}
    BY <1>2, <2>3
  <2>5. /\ Place = "back" /\ Place' = "code" /\ Frame = << >>
        /\ View = Visible(regs) /\ Result = regs.rax /\ Blocked = mask
    BY <1>1, <1>4, <2>1, <2>2 DEF Place, Frame, View, Result, Blocked, InCall, Busy
  <2>6. Frame' = <<[view |-> View, result |-> Result, blocked |-> Blocked]>>
    BY <2>1, <2>5 DEF Frame
  <2>7. View' = <<NoFd, {}, {}, "app">> /\ Result' = 0 /\ Blocked' = Signals
    BY <1>1, <1>4, <2>1 DEF View, Result, Blocked, InCall, Busy, Visible, Regs
  <2>8. UNCHANGED <<Call, Table>>
    BY <1>1, <1>4, <2>1 DEF Call, Table, InCall, Busy
  <2>9. QED
    BY <2>4, <2>5, <2>6, <2>7, <2>8 DEF Seen!Next, Seen!Handle, Seen!Fresh, NoFd, Seen!NoFd
<1>5. QED
  BY <1>3, <1>4

\* Taking a call over, or letting it pass, shows nothing.
LEMMA SeenSyscall ==
  ASSUME AtomicInv, OnSyscall
  PROVE  UNCHANGED Sight
<1>1. /\ where \in {"entry", "exit"} /\ ~Busy /\ stopSig' = {}
      /\ where' = IF where = "entry" THEN "kernel" ELSE "resumed"
      /\ UNCHANGED <<mask, pending, frames, files, held, mine, appMask>>
  BY DEF OnSyscall, Resume
<1>2. stopSig = {} /\ InFlight' = InFlight
  BY <1>1 DEF AtomicInv, Reporting, InFlight
<1>3. ~InSequence /\ active.kind = "none"
  BY <1>1 DEF Busy, InSequence, SequenceCalls
<1>4. CASE Entering /\ (StartSequence \/ StandIn)
  <2>1. where = "entry"
    BY <1>4, StepPlaces DEF AtomicInv
  <2>2. IF active'.kind \in SequenceCalls THEN active'.before = files ELSE active'.kind # "none"
    <3>1. CASE StartSequence
      BY <3>1 DEF StartSequence
    <3>2. CASE StandIn
      BY <3>2 DEF StandIn, Fixup, Idle, SequenceCalls
    <3>3. QED
      BY <1>4, <3>1, <3>2
  <2>3. active'.kind # "none"
    BY <2>2 DEF SequenceCalls
  <2>4. Table' = Table
    BY <1>1, <1>3, <2>2 DEF Table, InSequence
  <2>5. QED
    BY <1>1, <1>2, <1>3, <2>1, <2>3, <2>4
       DEF Sight, Place, Call, View, Result, Blocked, Frame, InCall, Busy
<1>5. CASE NotEmulated
  <2>1. UNCHANGED <<regs, active>>
    BY <1>5 DEF NotEmulated
  <2>2. QED
    BY <1>1, <1>2, <1>3, <2>1
       DEF Sight, Place, Call, View, Result, Blocked, Table, Frame, InCall, Busy
<1>6. QED
  BY <1>4, <1>5 DEF OnSyscall

\* A call inside an emulation shows nothing, except that the application may
\* be left with the mask of the wait.
LEMMA SeenInside ==
  ASSUME AtomicInv, Busy, Run \/ EndWait \/ InterruptWait
  PROVE  Seen!Next \/ UNCHANGED Sight
<1>1. CASE InSequence
  <2>1. /\ where = "kernel" /\ where' = "exit" /\ UNCHANGED <<active, frames, mine>>
        /\ InFlight' = InFlight
        /\ \/ UNCHANGED appMask
           \/ active.running = "sigprocmask_restore" /\ appMask' = mask
    BY <1>1, RunInside DEF AtomicInv, InFlight
  <2>2. Place = "call" /\ UNCHANGED <<Place, Call, View, Result, Table, Frame, InFlight>>
    BY <1>1, <2>1 DEF Place, Call, View, Result, Table, Frame, InCall, Busy, InSequence
  <2>3. CASE UNCHANGED appMask
    <3>1. UNCHANGED Blocked
      BY <2>1, <2>3 DEF Blocked, InCall, Busy
    <3>2. QED
      BY <2>2, <3>1 DEF Sight
  <2>4. CASE active.running = "sigprocmask_restore" /\ appMask' = mask
    <3>1. active.kind = "epoll_pwait"
      BY <1>1, <2>4 DEF AtomicInv, IInv, CallNumbers, MaskSteps
    <3>2. mask = active.saved.set /\ active.saved = mine /\ mine.nr = "epoll_pwait"
      BY <1>1, <2>1, <2>4, <3>1 DEF AtomicInv, Asked, Progress, WaitProgress, Made
    <3>3. Call = "epoll_pwait" /\ View[2] = mine.set /\ Blocked' = mask
      BY <2>1, <2>4, <3>2 DEF Call, View, Visible, Blocked, InCall, Busy
    <3>4. QED
      BY <2>2, <3>2, <3>3 DEF Seen!Next, Seen!KeepWaitMask
  <2>5. QED
    BY <2>1, <2>3, <2>4
<1>2. CASE active.kind = "fixup"
  <2>1. regs.nr = "getpid"
    BY <1>2 DEF AtomicInv, IInv, CallNumbers
  <2>2. RunPlain
    BY <2>1 DEF Run, RunSigprocmask, RunFiles, RunPipe, RunSigreturn, EndWait, InterruptWait
  <2>3. /\ where = "kernel" /\ where' = "exit" /\ UNCHANGED <<active, frames, mine, appMask, files>>
        /\ InFlight' = InFlight
    BY <2>2 DEF RunPlain, Return, tracer, ghosts, InFlight
  <2>4. QED
    BY <1>2, <2>3
       DEF Sight, Place, Call, View, Result, Blocked, Table, Frame, InCall, Busy
<1>3. QED
  BY <1>1, <1>2, NotBusy DEF AtomicInv

\* Where an answered call leaves the application.
LEMMA SeenAnswer ==
  ASSUME AtomicInv, ~Busy, where = "kernel", Return(regs'.rax),
         UNCHANGED <<active, frames, mine, pending, stopSig, held>>
  PROVE  /\ Seen!Answered(regs'.rax)
         /\ Call = regs.nr /\ View = Visible(regs) /\ Blocked = mask /\ Blocked' = mask'
         /\ Table = files /\ Table' = files'
<1>1. regs = mine /\ mask = appMask
  BY DEF AtomicInv, Asked, IInv, MaskSaved, Busy
<1>2. where' = "exit" /\ Visible(regs') = Visible(regs)
  BY DEF Return, AtomicInv, IInv, TypeOK, RegsType, Visible
<1>3. active.kind \notin SequenceCalls
  BY DEF Busy, SequenceCalls
<1>4. /\ Place = "call" /\ Place' = "back" /\ Call = regs.nr /\ Call' = "none"
      /\ View = Visible(regs) /\ View' = View /\ Result' = regs'.rax
      /\ Blocked = mask /\ Blocked' = mask' /\ Table = files /\ Table' = files'
      /\ Frame' = Frame /\ InFlight' = InFlight
  BY <1>1, <1>2, <1>3
     DEF Place, Call, View, Result, Blocked, Table, Frame, InFlight, InCall, Busy
<1>5. QED
  BY <1>4 DEF Seen!Answered, Seen!Leave

\* The application's own calls are answered by the kernel.
LEMMA SeenRun ==
  ASSUME AtomicInv, ~Busy, Run \/ EndWait \/ InterruptWait
  PROVE  Seen!Next
<1>1. where = "kernel"
  BY DEF Run, RunPlain, RunSigprocmask, RunFiles, RunPipe, RunSigreturn, EndWait,
         InterruptWait, Return, Allocate, Change
<1>2. /\ regs.nr \in AppCalls \cup {"sigreturn"} /\ regs.rip = "app"
      /\ regs = mine /\ mask = appMask /\ regs \in RegsType
  BY <1>1, NotBusy DEF AtomicInv, IInv, TypeOK, CallNumbers, Registers, Visible, Asked,
                       MaskSaved, Busy
<1>3. CASE RunPlain
  <2>1. /\ regs.nr \in SequenceCalls \cup FixupCalls /\ Return(-ENOSYS)
    BY <1>2, <1>3 DEF RunPlain, AppCalls, SequenceCalls, FixupCalls
  <2>2. /\ regs'.rax = -ENOSYS
        /\ UNCHANGED <<mask, files, active, frames, mine, pending, stopSig, held>>
    BY <1>2, <1>3, <2>1 DEF RunPlain, Return, RegsType, tracer, ghosts
  <2>3. Seen!Missing
    BY <1>1, <2>1, <2>2, SeenAnswer
       DEF Seen!Missing, Seen!Only, Seen!Tells, SequenceCalls, FixupCalls, ENOSYS, Seen!ENOSYS
  <2>4. QED
    BY <2>3 DEF Seen!Next, Seen!Reply
<1>4. CASE RunSigprocmask
  <2>1. regs.nr = "sigprocmask" /\ mask' = regs.set /\ Return(0)
    BY <1>2, <1>4 DEF RunSigprocmask, AppCalls, SequenceCalls, FixupCalls
  <2>2. regs'.rax = 0 /\ UNCHANGED <<files, active, frames, mine, pending, stopSig, held>>
    BY <1>2, <1>4, <2>1 DEF RunSigprocmask, Return, RegsType, tracer
  <2>3. Seen!Sigprocmask
    BY <1>1, <2>1, <2>2, SeenAnswer DEF Seen!Sigprocmask, Visible
  <2>4. QED
    BY <2>3 DEF Seen!Next, Seen!Reply
<1>5. CASE RunFiles
  <2>1. \/ regs.nr = "open" /\ Allocate("file")
        \/ regs.nr = "close" /\ Change("free")
    BY <1>2, <1>5 DEF RunFiles, AppCalls, SequenceCalls, FixupCalls
  <2>2. UNCHANGED <<mask, active, frames, mine, pending, stopSig, held>>
    BY <1>5 DEF RunFiles, tracer, ghosts
  <2>3. \A rc : Return(rc) => regs'.rax = rc
    BY <1>2 DEF Return, RegsType
  <2>4. CASE regs.nr = "open" /\ Allocate("file")
    <3>1. IF Free = {} THEN Return(-EMFILE) /\ UNCHANGED files
          ELSE Return(Lowest(Free)) /\ files' = [files EXCEPT ![Lowest(Free)] = "file"]
      BY <2>4 DEF Allocate
    <3>2. Return(regs'.rax)
      BY <2>3, <3>1
    <3>3. /\ Seen!Answered(regs'.rax) /\ Call = "open" /\ Blocked' = Blocked
          /\ Table = files /\ Table' = files'
      BY <1>1, <2>2, <2>4, <3>2, SeenAnswer
    <3>4. Seen!Free = Free /\ Seen!First = Lowest(Free)
      BY <3>3 DEF Seen!Free, Free, Seen!First, Seen!Lowest, Lowest
    <3>5. Seen!New("file")
      BY <2>3, <3>1, <3>3, <3>4 DEF Seen!New, Seen!Only, Seen!Tells, EMFILE, Seen!EMFILE
    <3>6. QED
      BY <3>3, <3>5 DEF Seen!Next, Seen!Reply, Seen!Open
  <2>5. CASE regs.nr = "close" /\ Change("free")
    <3>1. IF regs.fd \notin Fds \/ regs.fd \in Free
          THEN Return(-EBADF) /\ UNCHANGED files
          ELSE Return(0) /\ files' = [files EXCEPT ![regs.fd] = "free"]
      BY <2>5 DEF Change
    <3>2. Return(regs'.rax)
      BY <2>3, <3>1
    <3>3. /\ Seen!Answered(regs'.rax) /\ Call = "close" /\ Blocked' = Blocked
          /\ Table = files /\ Table' = files' /\ View[1] = regs.fd
      BY <1>1, <2>2, <2>5, <3>2, SeenAnswer DEF Visible
    <3>4. Seen!Free = Free
      BY <3>3 DEF Seen!Free, Free
    <3>5. Seen!Close
      BY <2>3, <3>1, <3>3, <3>4 DEF Seen!Close, Seen!Only, Seen!Tells, EBADF, Seen!EBADF
    <3>6. QED
      BY <3>5 DEF Seen!Next, Seen!Reply
  <2>6. QED
    BY <2>1, <2>4, <2>5
<1>6. CASE RunSigreturn
  <2>1. /\ regs.nr = "sigreturn" /\ frames # << >> /\ where' = "exit"
        /\ regs' = frames[1].regs /\ mask' = frames[1].mask /\ frames' = << >>
        /\ UNCHANGED <<active, files, pending, stopSig, held>>
    BY <1>1, <1>6 DEF RunSigreturn, AtomicInv, IInv, CallNumbers, tracer
  <2>2. /\ Place = "call" /\ Place' = "back" /\ Call = "sigreturn" /\ Call' = "none"
        /\ UNCHANGED <<Table, InFlight>> /\ Frame' = << >>
        /\ View' = Visible(regs') /\ Result' = regs'.rax /\ Blocked' = mask'
    BY <1>1, <1>2, <2>1
       DEF Place, Call, View, Result, Blocked, Table, Frame, InFlight, InCall, Busy, SequenceCalls
  <2>3. /\ Frame[1].view = Visible(frames[1].regs) /\ Frame[1].result = frames[1].regs.rax
        /\ Frame[1].blocked = frames[1].mask
    BY <2>1 DEF Frame
  <2>4. Seen!Sigreturn
    BY <2>1, <2>2, <2>3 DEF Seen!Sigreturn, Seen!Leave
  <2>5. QED
    BY <2>4 DEF Seen!Next, Seen!Reply
<1>7. ~RunPipe /\ ~EndWait /\ ~InterruptWait
  BY <1>2 DEF RunPipe, EndWait, InterruptWait, AppCalls, SequenceCalls, FixupCalls
<1>8. QED
  BY <1>3, <1>4, <1>5, <1>6, <1>7 DEF Run

\* What an answer by the tracer shows: the application's registers with the
\* result in them, and the mask and the descriptors as they are by then.
LEMMA SeenFinish ==
  ASSUME AtomicInv, AtomicInv', Busy, NEW rc,
         where = "exit", where' = "resumed", active' = Idle,
         Visible(regs') = Visible(mine), regs'.rax = rc, InFlight' = InFlight,
         UNCHANGED <<files, mask, frames, mine, appMask>>
  PROVE  Seen!Tells(rc) /\ Call = mine.nr /\ View = Visible(mine) /\ Table' = files
<1>1. active'.kind = "none" /\ mask = appMask
  BY DEF Idle, AtomicInv, IInv, MaskSaved
<1>2. /\ Place = "call" /\ Place' = "back" /\ Call = mine.nr /\ Call' = "none"
      /\ View = Visible(mine) /\ View' = View /\ Result' = rc /\ Blocked' = Blocked
      /\ Table' = files /\ Frame' = Frame
  BY <1>1 DEF Place, Call, View, Result, Blocked, Table, Frame, InCall, Busy, SequenceCalls
<1>3. QED
  BY <1>2 DEF Seen!Tells, Seen!Answered, Seen!Leave

\* Setting and reading a timer.
LEMMA SeenFixup ==
  ASSUME AtomicInv, AtomicInv', StepFixup
  PROVE  Seen!Next
<1>1. /\ where = "exit" /\ where' = "resumed" /\ active' = Idle /\ active.kind = "fixup"
      /\ regs' = [regs EXCEPT !.rax = 0] /\ stopSig' = {}
      /\ pending' \cup held' = pending \cup held
      /\ UNCHANGED <<files, mask, frames, mine, appMask>>
  BY StepPlaces DEF AtomicInv, StepFixup, ResumeAfterStep, Resume
<1>2. InFlight' = InFlight
  BY <1>1 DEF InFlight, AtomicInv, Reporting
<1>3. ~InSequence /\ Busy /\ mine.nr \in FixupCalls
  BY <1>1 DEF InSequence, SequenceCalls, Busy, AtomicInv, Asked
<1>4. Visible(regs') = Visible(mine) /\ regs'.rax = 0
  BY <1>1, <1>3 DEF AtomicInv, IInv, TypeOK, RegsType, Registers, Visible
<1>5. Seen!Tells(0) /\ Call = mine.nr /\ Table' = files
  BY <1>1, <1>2, <1>3, <1>4, SeenFinish
<1>6. Table = files
  BY <1>3 DEF Table, InSequence
<1>7. QED
  BY <1>3, <1>5, <1>6
     DEF Seen!Next, Seen!Reply, Seen!Timerfd, Seen!Only, FixupCalls

\* The two specifications number descriptors and errors alike.
LEMMA SameNumbers ==
  /\ InSequence => /\ Seen!Free = FreeBefore /\ Seen!First = First
                   /\ Seen!Second = Second /\ Table = active.before
  /\ Seen!EINTR = EINTR /\ Seen!EIO = EIO /\ Seen!EBADF = EBADF /\ Seen!EFAULT = EFAULT
  /\ Seen!EMFILE = EMFILE /\ Seen!ESPIPE = ESPIPE
BY DEF InSequence, Table, Seen!Free, FreeBefore, Seen!First, First, Seen!Second, Second,
       Seen!Lowest, Lowest, EINTR, EIO, EBADF, EFAULT, EMFILE, ESPIPE,
       Seen!EINTR, Seen!EIO, Seen!EBADF, Seen!EFAULT, Seen!EMFILE, Seen!ESPIPE

\* And count them alike.
LEMMA SameCount == \A S : Seen!Cardinality(S) = Cardinality(S)
BY DEF Seen!Cardinality, Cardinality

\* The steps between the calls of a sequence show nothing, the last one the
\* answer of the whole.
LEMMA SeenCollect ==
  ASSUME AtomicInv, AtomicInv', StepCollect
  PROVE  Seen!Next \/ UNCHANGED Sight
<1>1. /\ where = "exit" /\ where' = "resumed" /\ InSequence /\ Busy
      /\ InFlight' = InFlight /\ UNCHANGED <<files, mask, frames, mine, appMask>>
  BY CollectLeaves, NotBusy DEF AtomicInv
<1>2. CASE active'.kind = active.kind
  <2>1. active'.kind # Idle.kind
    BY <1>1, <1>2 DEF Idle, InSequence, SequenceCalls
  <2>2. active'.before = active.before
    BY <2>1, CollectOutcome DEF CollectedAs, AtomicInv
  <2>3. QED
    BY <1>1, <1>2, <2>2
       DEF Sight, Place, Call, View, Result, Blocked, Table, Frame, InCall, Busy, InSequence
<1>3. CASE active'.kind # active.kind
  <2>1. PICK rc \in Int :
          /\ EndsWith(rc)
          /\ active.kind = "epoll_pwait" => WaitAnswer(rc)
          /\ active.kind = "vector_io" => VectorAnswer(rc)
          /\ active.kind = "dupfd_cloexec" => DupfdAnswer(rc)
          /\ active.kind = "eventfd" => EventfdAnswer(rc)
          /\ active.kind = "timerfd_create" => TimerfdAnswer(rc)
    BY <1>3, CollectEnds DEF AtomicInv
  <2>2. active.saved = mine /\ mine.nr = active.kind /\ mine \in RegsType
    BY <1>1 DEF AtomicInv, Asked, IInv, TypeOK
  <2>3. active' = Idle /\ Visible(regs') = Visible(mine) /\ regs'.rax = rc
    BY <2>1, <2>2 DEF EndsWith, RegsType, Visible
  <2>4. Seen!Tells(rc) /\ Call = active.kind /\ View[1] = active.saved.fd /\ Table' = files
    BY <1>1, <2>2, <2>3, SeenFinish DEF Visible
  <2>5. /\ Table = active.before /\ Seen!Free = FreeBefore /\ Seen!First = First
        /\ Seen!Second = Second
    BY <1>1, SameNumbers
  <2>6. \A object : Given(object, rc) => Seen!New(object)
    BY <2>4, <2>5, SameNumbers DEF Given, With, Seen!New, Seen!Only
  <2>7. CASE active.kind = "epoll_pwait"
    <3>1. Seen!EpollPwait
      BY <2>1, <2>4, <2>5, <2>7, SameNumbers DEF WaitAnswer, Seen!EpollPwait, Seen!Only
    <3>2. QED
      BY <3>1 DEF Seen!Next, Seen!Reply
  <2>8. CASE active.kind = "vector_io"
    <3>1. Seen!VectorIo
      BY <2>1, <2>4, <2>5, <2>8, SameNumbers DEF VectorAnswer, Seen!VectorIo, Seen!Only
    <3>2. QED
      BY <3>1 DEF Seen!Next, Seen!Reply
  <2>9. CASE active.kind = "dupfd_cloexec"
    <3>1. Seen!Dupfd
      BY <2>1, <2>4, <2>5, <2>6, <2>9, SameNumbers DEF DupfdAnswer, Seen!Dupfd, Seen!Only
    <3>2. QED
      BY <3>1 DEF Seen!Next, Seen!Reply
  <2>10. CASE active.kind = "eventfd"
    <3>1. Seen!Eventfd
      BY <2>1, <2>4, <2>6, <2>10 DEF EventfdAnswer, Seen!Eventfd
    <3>2. QED
      BY <3>1 DEF Seen!Next, Seen!Reply
  <2>11. CASE active.kind = "timerfd_create"
    <3>1. IF Cardinality(FreeBefore) < 2
          THEN rc \in Fds \cup {-EMFILE} /\ files = active.before
          ELSE \/ rc = First /\ files = [active.before EXCEPT ![First] = "pipeR"]
               \/ rc = -EIO
                  /\ files = [active.before EXCEPT ![First] = "pipeR", ![Second] = "pipeW"]
      BY <2>1, <2>11 DEF TimerfdAnswer, With
    <3>2. CASE Cardinality(FreeBefore) < 2
      <4>1. Seen!Only(rc) /\ rc \in Fds \cup {-Seen!EMFILE}
        BY <2>4, <2>5, <3>1, <3>2, SameNumbers DEF Seen!Only
      <4>2. QED
        BY <2>4, <2>5, <2>11, <3>2, <4>1, SameCount DEF Seen!TimerfdCreate, Seen!Next, Seen!Reply
    <3>3. CASE ~(Cardinality(FreeBefore) < 2)
      <4>1. \/ Seen!Tells(Seen!First)
               /\ Table' = [Table EXCEPT ![Seen!First] = "pipeR"]
            \/ Seen!Tells(-Seen!EIO)
               /\ Table' = [Table EXCEPT ![Seen!First] = "pipeR", ![Seen!Second] = "pipeW"]
        BY <2>4, <2>5, <3>1, <3>3, SameNumbers
      <4>2. QED
        BY <2>4, <2>5, <2>11, <3>3, <4>1, SameCount DEF Seen!TimerfdCreate, Seen!Next, Seen!Reply
    <3>4. QED
      BY <3>2, <3>3
  <2>12. QED
    BY <1>1, <2>7, <2>8, <2>9, <2>10, <2>11 DEF InSequence, SequenceCalls
<1>4. QED
  BY <1>2, <1>3

\* One step of the emulation is one step of the atomic calls, or none.
LEMMA SeenStep ==
  ASSUME AtomicInv, AtomicInv', [Next]_vars
  PROVE  [Seen!Next]_Seen!vars
<1>1. CASE AppCall \/ Sigreturn
  BY <1>1, SeenAsk DEF Seen!Next
<1>2. CASE SendSignal \/ TakeSignal \/ LeaveKernel
  BY <1>2, SeenSignals, Unseen
<1>3. CASE Run \/ EndWait \/ InterruptWait
  BY <1>3, SeenInside, SeenRun, Unseen
<1>4. CASE OnStopped \/ OnSyscall
  BY <1>4, SeenStopped, SeenSyscall, Unseen
<1>5. CASE StepFixup \/ StepCollect
  BY <1>5, SeenFixup, SeenCollect, Unseen
<1>6. CASE StepEntry
  <2>1. where = "entry" /\ where' = "kernel" /\ InSequence
        /\ active' = [active EXCEPT !.atEntry = FALSE]
    BY <1>6, StepPlaces DEF AtomicInv, StepEntry, ResumeAfterStep, Resume
  <2>2. active'.kind = active.kind /\ active'.before = active.before /\ active.kind # "none"
    BY <2>1 DEF AtomicInv, IInv, TypeOK, ActiveType, InSequence, SequenceCalls
  <2>3. stopSig = {} /\ UNCHANGED <<regs, mine, mask, appMask, frames, files, pending, held>>
        /\ stopSig' = {}
    BY <1>6, <2>1, <2>2 DEF AtomicInv, Reporting, StepEntry, ResumeAfterStep, Resume
  <2>4. UNCHANGED Sight
    BY <2>1, <2>2, <2>3
       DEF Sight, Place, Call, View, Result, Blocked, Table, Frame, InFlight, InCall, Busy
  <2>5. QED
    BY <2>4, Unseen
<1>7. CASE UNCHANGED vars
  <2>1. UNCHANGED Sight
    BY <1>7 DEF vars, tracee, tracer, ghosts, Sight, Place, Call, View, Result, Blocked,
                Table, Frame, InFlight, InCall, Busy
  <2>2. QED
    BY <2>1, Unseen
<1>8. QED
  BY <1>1, <1>2, <1>3, <1>4, <1>5, <1>6, <1>7 DEF Next

\* A sequence of injected calls looks to the application like one call: every
\* behaviour of the emulation is one of AtomicCalls (begin, step, and the arms
\* of supervise that call them).
THEOREM EmulationIsAtomic == Spec => SeenAsAtomic
<1>1. Init => Seen!Init
  BY SeenInit
<1>2. AtomicInv /\ AtomicInv' /\ [Next]_vars => [Seen!Next]_Seen!vars
  BY SeenStep
<1>3. Spec => []AtomicInv
  BY AtomicInvariance
<1>4. Spec => Seen!Spec
  BY <1>1, <1>2, <1>3, PTL DEF Spec, Seen!Spec
<1>5. QED
  BY <1>4 DEF SeenAsAtomic
=============================================================================
