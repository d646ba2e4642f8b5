-------------------------- MODULE EmulationProofs --------------------------
(***************************************************************************)
(* Proofs about Emulation, for every set of signals, masks, descriptors    *)
(* and calls.                                                              *)
(*                                                                         *)
(* What the application sees (its mask, its registers) is only as good as  *)
(* what the tracer and the kernel agree on in between, so the properties   *)
(* are proved together, from one inductive invariant:                      *)
(*   Directions    the tracer's idea of each stop is the kernel's          *)
(*   CallNumbers   the call in the registers is the one the tracer set up  *)
(*   Registers     the application's registers are saved somewhere         *)
(*   MaskSaved     so is its mask, at every place of an epoll_pwait        *)
(***************************************************************************)
EXTENDS Emulation, OrderLemmas, FiniteSetTheorems, SequenceTheorems, TLAPS

\* An emulation made of injected calls is in progress.
InSequence == active.kind \in SequenceCalls

\* The injected calls that touch the signal mask.
MaskSteps == {"sigprocmask_set", "sigprocmask_restore"}

\* in_syscall and at_entry against where the kernel has the tracee.  Between
\* calls of a sequence the tracee stands at the gadget, about to enter again.
Directions ==
    /\ Busy => ~inSyscall
    /\ where = "user" => ~Busy /\ ~inSyscall
    /\ where = "entry" => IF Busy THEN InSequence /\ active.atEntry ELSE ~inSyscall
    /\ where \in {"kernel", "exit"} =>
         IF Busy THEN active.kind = "fixup" \/ ~active.atEntry ELSE inSyscall
    /\ where \in {"resumed", "signal"} =>
         IF Busy THEN InSequence /\ active.atEntry /\ regs.rip = "gadget"
                 ELSE ~inSyscall

\* The call number in the registers; a handler's return has a frame to return
\* to; no sequence but epoll_pwait's has calls on the mask.
CallNumbers ==
    /\ InSequence => regs.nr = active.running /\ active.running # "none"
    /\ active.kind = "fixup" => regs.nr = "getpid"
    /\ (~Busy /\ where \in {"entry", "kernel"}) => regs.nr \in AppCalls \cup {"sigreturn"}
    /\ (where \in {"entry", "kernel"} /\ regs.nr = "sigreturn") => frames # << >>
    /\ (InSequence /\ active.kind # "epoll_pwait") =>
         /\ active.running \notin MaskSteps
         /\ active.queue \in Seq(Steps \ MaskSteps)

\* The application's registers are the tracee's own, or in `saved`, or in a
\* signal frame; and never at the gadget.
Registers ==
    /\ ~InSequence => Visible(regs) = Visible(mine)
    /\ InSequence => Visible(active.saved) = Visible(mine)
    /\ mine.rip = "app"
    /\ frames # << >> =>
         /\ Visible(frames[1].regs) = Visible(frames[1].mine)
         /\ frames[1].mine.rip = "app"

\* The mask of the wait is being installed; the scratch copy is good once it
\* succeeded, and the mask is untouched if it failed.
Setting ==
    /\ active.running = "sigprocmask_set"
    /\ active.queue = <<"epoll_wait", "sigprocmask_restore">>
    /\ active.results = << >>
    /\ where \in {"kernel", "exit"}
    /\ where = "kernel" => mask = appMask
    /\ where = "exit" => \/ regs.rax = 0 /\ scratchMask = appMask
                         \/ regs.rax = -EFAULT /\ mask = appMask

\* The wait is in progress, the old mask in the scratch area.
Waiting ==
    /\ active.running = "epoll_wait"
    /\ active.queue = <<"sigprocmask_restore">>
    /\ active.results = <<0>>
    /\ scratchMask = appMask

\* The old mask is being put back; the wait's result is the second one.
Restoring ==
    /\ active.running = "sigprocmask_restore"
    /\ active.queue = << >>
    /\ Len(active.results) = 2 /\ active.results[1] = 0
    /\ IF where = "exit" THEN mask = appMask ELSE scratchMask = appMask

\* Outside an epoll_pwait the mask is the application's; inside one the
\* application's mask is in force or in the scratch area.
MaskSaved ==
    /\ active.kind # "epoll_pwait" => mask = appMask
    /\ active.kind = "epoll_pwait" => Setting \/ Waiting \/ Restoring
    /\ frames # << >> => frames[1].mask = frames[1].appMask

\* The inductive invariant.
IInv ==
    /\ TypeOK
    /\ Directions
    /\ CallNumbers
    /\ Registers
    /\ MaskSaved
    /\ HeldInsideOnly

-----------------------------------------------------------------------------
(* Constant-level lemmas.                                                  *)

\* The lowest free descriptor the kernel picks is one of the candidates.
LEMMA LowestIn ==
  ASSUME NEW S \in SUBSET Fds, S # {}
  PROVE  Lowest(S) \in S /\ Lowest(S) \in Nat
<1>1. S \in SUBSET Nat
  BY ConstantsAssumption
<1>2. \E f \in S : \A g \in S : f <= g
  BY <1>1, NatMin
<1>3. QED
  BY <1>1, <1>2 DEF Lowest

\* The first error among the results (step's `failed`) is a number.
LEMMA FailureInt ==
  ASSUME NEW rs \in Seq(Int)
  PROVE  Failure(rs) \in Int
<1> DEFINE bad == {i \in 1 .. Len(rs) : IsError(rs[i])}
<1>1. CASE bad = {}
  BY <1>1 DEF Failure
<1>2. CASE bad # {}
  <2>1. bad \in SUBSET Nat
    OBVIOUS
  <2>2. \E i \in bad : \A j \in bad : i <= j
    BY <1>2, <2>1, NatMin
  <2>3. (CHOOSE i \in bad : \A j \in bad : i <= j) \in 1 .. Len(rs)
    BY <2>2
  <2>4. rs[CHOOSE i \in bad : \A j \in bad : i <= j] \in Int
    BY <2>3
  <2>5. QED
    BY <1>2, <2>4 DEF Failure
<1>3. QED
  BY <1>1, <1>2

\* step pops no more of the queue than there is.
LEMMA PoppedRange ==
  ASSUME NEW T, NEW queue \in Seq(T), NEW rs \in Seq(Int)
  PROVE  Popped(queue, rs) \in 0 .. Len(queue)
<1>1. queue # << >> => Len(queue) >= 1
  OBVIOUS
<1>2. Cleanups(queue) # {} =>
        (CHOOSE i \in Cleanups(queue) : \A j \in Cleanups(queue) : i <= j) \in 1 .. Len(queue)
  <2>1. Cleanups(queue) \in SUBSET Nat
    BY DEF Cleanups
  <2>2. Cleanups(queue) # {} => \E i \in Cleanups(queue) : \A j \in Cleanups(queue) : i <= j
    BY <2>1, NatMin
  <2>3. Cleanups(queue) \subseteq 1 .. Len(queue)
    BY DEF Cleanups
  <2>4. QED
    BY <2>2, <2>3
<1>3. QED
  BY <1>1, <1>2 DEF Popped

\* With an empty queue no step is left, failed or not.
LEMMA PoppedAtEnd ==
  ASSUME NEW rs
  PROVE  Popped(<< >>, rs) = 0
BY DEF Popped, Cleanups

\* The first error of a single result.
LEMMA FailureOfOne ==
  ASSUME NEW r \in Int
  PROVE  Failure(<<r>>) = IF IsError(r) THEN r ELSE 0
<1>1. Len(<<r>>) = 1 /\ <<r>>[1] = r
  OBVIOUS
<1> DEFINE bad == {i \in 1 .. Len(<<r>>) : IsError(<<r>>[i])}
<1>2. CASE IsError(r)
  <2>1. bad = {1}
    BY <1>1, <1>2
  <2>2. (CHOOSE i \in bad : \A j \in bad : i <= j) = 1
    BY <2>1
  <2>3. QED
    BY <1>1, <1>2, <2>1, <2>2 DEF Failure
<1>3. CASE ~IsError(r)
  <2>1. bad = {}
    BY <1>1, <1>3
  <2>2. QED
    BY <1>3, <2>1 DEF Failure
<1>4. QED
  BY <1>2, <1>3

\* If installing the mask failed the sequence ends, else the wait is next.
LEMMA PoppedAfterSet ==
  ASSUME NEW r \in Int
  PROVE  Popped(<<"epoll_wait", "sigprocmask_restore">>, <<r>>)
           = IF r = 0 \/ ~IsError(r) THEN 1 ELSE 0
<1>1. ~TookEffect(<<r>>)
  BY DEF TookEffect
<1>2. IsError(r) => r # 0
  BY DEF IsError
<1>3. QED
  BY <1>1, <1>2, FailureOfOne DEF Popped

\* Whatever the wait returned, putting the mask back is next: the cleanup rule.
LEMMA PoppedAfterWait ==
  ASSUME NEW r \in Int
  PROVE  Popped(<<"sigprocmask_restore">>, <<0, r>>) = 1
<1>1. TookEffect(<<0, r>>)
  BY DEF TookEffect
<1>2. Cleanups(<<"sigprocmask_restore">>) = {1}
  BY DEF Cleanups, AlwaysSteps
<1>3. (CHOOSE i \in {1} : \A j \in {1} : i <= j) = 1
  OBVIOUS
<1>4. QED
  BY <1>1, <1>2, <1>3 DEF Popped

\* The value handed to the application is a number.
LEMMA AnswerInt ==
  ASSUME NEW k \in Nat, NEW rs \in Seq(Int), NEW fd \in Int
  PROVE  Answer(k, rs, fd) \in Int
BY FailureInt DEF Answer, EINVAL
-----------------------------------------------------------------------------
(* Steps.                                                                  *)

\* A call that returns changes rax only.
LEMMA ReturnTyped ==
  ASSUME regs \in RegsType, NEW rc \in Int, Return(rc)
  PROVE  regs' \in RegsType /\ where' = "exit" /\ Visible(regs') = Visible(regs)
         /\ regs'.nr = regs.nr /\ regs'.rip = regs.rip /\ regs'.rax = rc
BY DEF Return, RegsType, Visible

\* The frame of a running handler is well typed.
LEMMA FrameTyped ==
  ASSUME TypeOK, frames # << >>
  PROVE  frames[1] \in FrameType
<1>1. ASSUME NEW T, NEW s \in Seq(T), s # << >> PROVE s[1] \in T
  BY <1>1
<1>2. QED
  BY <1>1 DEF TypeOK

\* begin queues known calls, and only epoll_pwait queues calls on the mask.
LEMMA QueueTyped ==
  ASSUME NEW r \in RegsType, r.nr \in SequenceCalls
  PROVE  /\ QueueOf(r) \in Seq(Steps)
         /\ QueueOf(r) # << >>
         /\ r.nr = "epoll_pwait" => QueueOf(r) = EpollPwaitSeq
         /\ r.nr # "epoll_pwait" => QueueOf(r) \in Seq(Steps \ MaskSteps)
<1>1. EpollPwaitSeq \in Seq(Steps) /\ EpollPwaitSeq # << >>
  BY DEF EpollPwaitSeq, Steps
<1>2. /\ VectorIoSeq \in Seq(Steps \ MaskSteps) /\ VectorIoSeq # << >>
      /\ DupfdCloexecSeq \in Seq(Steps \ MaskSteps) /\ DupfdCloexecSeq # << >>
  BY DEF VectorIoSeq, DupfdCloexecSeq, Steps, MaskSteps
<1>3. ASSUME NEW s \in Seq(Steps \ MaskSteps), s # << >>, NEW t \in Seq(Steps \ MaskSteps)
      PROVE  s \o t \in Seq(Steps \ MaskSteps) /\ s \o t # << >>
  BY <1>3, ConcatProperties
<1>4. /\ << >> \in Seq(Steps \ MaskSteps)
      /\ <<"nonblock">> \in Seq(Steps \ MaskSteps)
      /\ <<"write_initial">> \in Seq(Steps \ MaskSteps)
      /\ <<"pipe", "close_write_end">> \in Seq(Steps \ MaskSteps)
      /\ <<"socket", "bind", "connect">> \in Seq(Steps \ MaskSteps)
  BY DEF Steps, MaskSteps
<1>5. Seq(Steps \ MaskSteps) \subseteq Seq(Steps)
  OBVIOUS
<1>6. CASE r.nr = "epoll_pwait"
  BY <1>1, <1>6 DEF QueueOf
<1>7. CASE r.nr \in {"vector_io", "dupfd_cloexec"}
  BY <1>2, <1>5, <1>7 DEF QueueOf
<1>8. CASE r.nr = "eventfd"
  <2> DEFINE s == <<"socket", "bind", "connect">>
             t == IF "nonblock" \in r.opts THEN <<"nonblock">> ELSE << >>
             u == IF "initial" \in r.opts THEN <<"write_initial">> ELSE << >>
  <2>1. QueueOf(r) = (s \o t) \o u
    BY <1>8 DEF QueueOf, EventfdSeq
  <2>2. s \in Seq(Steps \ MaskSteps) /\ s # << >>
    BY <1>4
  <2>3. t \in Seq(Steps \ MaskSteps) /\ u \in Seq(Steps \ MaskSteps)
    BY <1>4
  <2> HIDE DEF s, t, u
  <2>4. s \o t \in Seq(Steps \ MaskSteps) /\ s \o t # << >>
    BY <1>3, <2>2, <2>3
  <2>5. QED
    BY <1>3, <1>5, <1>8, <2>1, <2>3, <2>4
<1>9. CASE r.nr = "timerfd_create"
  <2> DEFINE s == <<"pipe", "close_write_end">>
             t == IF "nonblock" \in r.opts THEN <<"nonblock">> ELSE << >>
  <2>1. QueueOf(r) = s \o t
    BY <1>9 DEF QueueOf, TimerfdCreateSeq
  <2>2. s \in Seq(Steps \ MaskSteps) /\ s # << >>
    BY <1>4
  <2>3. t \in Seq(Steps \ MaskSteps)
    BY <1>4
  <2> HIDE DEF s, t
  <2>4. QED
    BY <1>3, <1>5, <1>9, <2>1, <2>2, <2>3
<1>10. QED
  BY <1>6, <1>7, <1>8, <1>9 DEF SequenceCalls

\* Heads, tails, elements and suffixes of a sequence over T are over T.
LEMMA SeqParts ==
  ASSUME NEW T, NEW q \in Seq(T)
  PROVE  /\ q # << >> => Head(q) \in T /\ Tail(q) \in Seq(T)
         /\ \A n \in 1 .. Len(q) : q[n] \in T /\ SubSeq(q, n + 1, Len(q)) \in Seq(T)
OBVIOUS

\* Making a descriptor keeps the table well typed.
LEMMA AllocateTyped ==
  ASSUME TypeOK, NEW object \in Objects, Allocate(object)
  PROVE  files' \in [Fds -> Objects] /\ \E rc \in Int : Return(rc)
<1>1. CASE Free = {}
  BY <1>1 DEF Allocate, TypeOK, EMFILE
<1>2. CASE Free # {}
  <2>1. Free \in SUBSET Fds
    BY DEF Free
  <2>2. Lowest(Free) \in Int
    BY <1>2, <2>1, LowestIn
  <2>3. QED
    BY <1>2, <2>2 DEF Allocate, TypeOK
<1>3. QED
  BY <1>1, <1>2

\* Changing a descriptor keeps the table well typed.
LEMMA ChangeTyped ==
  ASSUME TypeOK, NEW object \in Objects, Change(object)
  PROVE  files' \in [Fds -> Objects] /\ \E rc \in Int : Return(rc)
BY DEF Change, TypeOK, EBADF

\* The records for no emulation and for bookkeeping only are well typed.
LEMMA IdleTyped == Idle \in ActiveType /\ Fixup \in ActiveType
<1>1. Regs("none", NoFd, {}, {}, "app") \in RegsType
  BY DEF Regs, RegsType, NoFd
<1>2. [f \in Fds |-> "free"] \in [Fds -> Objects]
  BY DEF Objects
<1>3. Idle \in ActiveType
  BY <1>1, <1>2 DEF Idle, ActiveType, NoFd
<1>4. QED
  BY <1>3 DEF Fixup, ActiveType

\* A call that touches neither the mask nor the scratch copy of it returns.
LEMMA PlainReturnKeeps ==
  ASSUME IInv, NEW rc \in Int, Return(rc), regs.nr \notin MaskSteps,
         files' \in [Fds -> Objects],
         scratchPair' \in (Fds \X Fds) \cup {NoPair},
         UNCHANGED <<mask, pending, stopSig, frames, scratchMask, tracer, ghosts>>
  PROVE  IInv'
<1>1. /\ regs' \in RegsType /\ where = "kernel" /\ where' = "exit"
      /\ Visible(regs') = Visible(regs) /\ regs'.nr = regs.nr
  BY ReturnTyped DEF IInv, TypeOK, Return
<1>2. TypeOK'
  BY <1>1 DEF IInv, TypeOK, tracer, ghosts
<1>3. Directions'
  BY <1>1 DEF IInv, Directions, Busy, InSequence, tracer
<1>4. CallNumbers'
  BY <1>1 DEF IInv, CallNumbers, InSequence, Busy, tracer
<1>5. Registers'
  BY <1>1 DEF IInv, Registers, InSequence, tracer, ghosts
<1>6. MaskSaved'
  BY <1>1 DEF IInv, CallNumbers, InSequence, SequenceCalls, MaskSaved, Setting,
              Waiting, Restoring, MaskSteps, tracer, ghosts
<1>7. HeldInsideOnly'
  BY DEF IInv, HeldInsideOnly, Busy, tracer
<1>8. QED
  BY <1>2, <1>3, <1>4, <1>5, <1>6, <1>7 DEF IInv

\* Calls that change nothing keep the invariant.
LEMMA RunPlainKeeps == IInv /\ RunPlain => IInv'
<1> SUFFICES ASSUME IInv, RunPlain PROVE IInv'
  OBVIOUS
<1>1. PICK rc \in Int : Return(rc)
  BY DEF RunPlain, ESPIPE, EACCES, EFAULT, ENOSYS
<1>2. regs.nr \notin MaskSteps
  BY DEF RunPlain, MaskSteps, SequenceCalls, FixupCalls
<1>3. files' \in [Fds -> Objects] /\ scratchPair' \in (Fds \X Fds) \cup {NoPair}
  BY DEF IInv, TypeOK, RunPlain
<1>4. QED
  BY <1>1, <1>2, <1>3, PlainReturnKeeps DEF RunPlain

\* However epoll_wait ends, the invariant is kept.
LEMMA WaitKeeps == IInv /\ (EndWait \/ InterruptWait) => IInv'
<1> SUFFICES ASSUME IInv, EndWait \/ InterruptWait PROVE IInv'
  OBVIOUS
<1>1. PICK rc \in Int : Return(rc)
  BY DEF EndWait, InterruptWait, EINTR, EBADF
<1>2. regs.nr \notin MaskSteps
  BY DEF EndWait, InterruptWait, MaskSteps
<1>3. files' \in [Fds -> Objects] /\ scratchPair' \in (Fds \X Fds) \cup {NoPair}
  BY DEF IInv, TypeOK, EndWait, InterruptWait
<1>4. QED
  BY <1>1, <1>2, <1>3, PlainReturnKeeps DEF EndWait, InterruptWait

\* Calls on descriptors keep the invariant.
LEMMA RunFilesKeeps == IInv /\ RunFiles => IInv'
<1> SUFFICES ASSUME IInv, RunFiles PROVE IInv'
  OBVIOUS
<1>1. regs.nr \notin MaskSteps
  BY DEF RunFiles, MaskSteps
<1>2. files' \in [Fds -> Objects] /\ \E rc \in Int : Return(rc)
  <2>1. CASE Allocate("file") \/ Allocate("socket")
    BY <2>1, AllocateTyped DEF IInv, Objects
  <2>2. CASE Change("free") \/ Change("bound") \/ Change("selfconnected")
    BY <2>2, ChangeTyped DEF IInv, Objects
  <2>3. CASE \E rc \in {-EADDRINUSE, -EBADF, -EACCES} : Return(rc) /\ UNCHANGED files
    BY <2>3 DEF IInv, TypeOK, EADDRINUSE, EBADF, EACCES
  <2>4. QED
    BY <2>1, <2>2, <2>3 DEF RunFiles
<1>3. scratchPair' \in (Fds \X Fds) \cup {NoPair}
  BY DEF IInv, TypeOK, RunFiles
<1>4. QED
  BY <1>1, <1>2, <1>3, PlainReturnKeeps DEF RunFiles

\* pipe keeps the invariant.
LEMMA RunPipeKeeps == IInv /\ RunPipe => IInv'
<1> SUFFICES ASSUME IInv, RunPipe PROVE IInv'
  OBVIOUS
<1>1. regs.nr \notin MaskSteps
  BY DEF RunPipe, MaskSteps
<1>2. /\ files' \in [Fds -> Objects]
      /\ scratchPair' \in (Fds \X Fds) \cup {NoPair}
      /\ \E rc \in Int : Return(rc)
  <2>1. CASE Cardinality(Free) < 2
    BY <2>1 DEF IInv, TypeOK, RunPipe, EMFILE
  <2>2. CASE ~(Cardinality(Free) < 2)
    <3> DEFINE r == Lowest(Free)
               w == Lowest(Free \ {r})
    <3>1. Free \in SUBSET Fds /\ Free \ {r} \in SUBSET Fds
      BY DEF Free
    <3>2. Free # {}
      BY <2>2, FS_EmptySet
    <3>3. Free # {r}
      <4>1. Cardinality({r}) = 1
        BY FS_Singleton, Zenon
      <4>2. QED
        BY <2>2, <4>1
    <3>4. r \in Fds /\ w \in Fds
      BY <3>1, <3>2, <3>3, LowestIn
    <3>5. Return(0) /\ files' = [files EXCEPT ![r] = "pipeR", ![w] = "pipeW"]
          /\ scratchPair' = <<r, w>>
      BY <2>2 DEF RunPipe
    <3> HIDE DEF r, w
    <3>6. QED
      BY <3>4, <3>5 DEF IInv, TypeOK, Objects
  <2>3. QED
    BY <2>1, <2>2
<1>3. QED
  BY <1>1, <1>2, PlainReturnKeeps DEF RunPipe

\* The three uses of rt_sigprocmask keep the invariant: the application's own
\* outside an emulation, the other two at their places in an epoll_pwait.
LEMMA RunSigprocmaskKeeps == IInv /\ RunSigprocmask => IInv'
<1> SUFFICES ASSUME IInv, RunSigprocmask PROVE IInv'
  OBVIOUS
<1> USE DEF EFAULT
<1>1. /\ regs' \in RegsType /\ where = "kernel" /\ where' = "exit"
      /\ Visible(regs') = Visible(regs) /\ regs'.nr = regs.nr
      /\ regs'.rax \in {0, -14}
  <2>1. PICK rc \in {0, -14} : Return(rc)
    BY DEF RunSigprocmask
  <2>2. rc \in Int /\ regs \in RegsType /\ where = "kernel"
    BY <2>1 DEF IInv, TypeOK, Return
  <2>3. QED
    BY <2>1, <2>2, ReturnTyped
<1>2. TypeOK'
  BY <1>1 DEF IInv, TypeOK, RegsType, RunSigprocmask, tracer
<1>3. Directions'
  BY <1>1 DEF IInv, Directions, Busy, InSequence, RunSigprocmask, tracer
<1>4. CallNumbers'
  BY <1>1 DEF IInv, CallNumbers, InSequence, Busy, RunSigprocmask, tracer
<1>5. Registers'
  BY <1>1 DEF IInv, Registers, InSequence, RunSigprocmask, tracer
<1>6. MaskSaved'
  <2>1. UNCHANGED <<active, frames>> /\ where = "kernel" /\ where' = "exit"
    BY <1>1 DEF RunSigprocmask, tracer
  <2>2. frames' # << >> => frames'[1].mask = frames'[1].appMask
    BY <2>1 DEF IInv, MaskSaved
  <2>3. CASE regs.nr = "sigprocmask"
    <3>1. mask' = appMask'
      BY <2>3 DEF RunSigprocmask
    <3>2. active.running # "sigprocmask"
      BY DEF IInv, TypeOK, ActiveType, Steps
    <3>3. active.kind # "epoll_pwait"
      BY <2>3, <3>2 DEF IInv, CallNumbers, InSequence, SequenceCalls
    <3>4. QED
      BY <2>1, <2>2, <3>1, <3>3 DEF MaskSaved
  <2>4. ASSUME regs.nr \in MaskSteps
        PROVE  active.kind = "epoll_pwait" /\ active.running = regs.nr
    <3>1. active.kind \in SequenceCalls \cup {"none", "fixup"}
      BY DEF IInv, TypeOK, ActiveType
    <3>2. regs.nr # "getpid" /\ regs.nr \notin AppCalls \cup {"sigreturn"}
      BY <2>4 DEF MaskSteps, AppCalls, SequenceCalls, FixupCalls
    <3>3. InSequence
      BY <2>1, <3>1, <3>2 DEF IInv, CallNumbers, Busy, InSequence
    <3>4. QED
      BY <2>4, <3>3 DEF IInv, CallNumbers
  <2>5. CASE regs.nr = "sigprocmask_set"
    <3>1. active.kind = "epoll_pwait" /\ active.running = "sigprocmask_set"
      BY <2>4, <2>5 DEF MaskSteps
    <3>2. Setting /\ mask = appMask
      BY <2>1, <3>1 DEF IInv, MaskSaved, Setting, Waiting, Restoring
    <3>3. /\ appMask' = appMask
          /\ \/ scratchMask' = mask /\ Return(0)
             \/ mask' = mask /\ Return(-14)
      BY <2>5 DEF RunSigprocmask
    <3>4. regs \in RegsType
      BY DEF IInv, TypeOK
    <3>5. (scratchMask' = mask /\ regs'.rax = 0) \/ (mask' = mask /\ regs'.rax = -14)
      BY <3>3, <3>4 DEF Return, RegsType
    <3>6. Setting'
      BY <2>1, <3>2, <3>3, <3>5 DEF Setting
    <3>7. QED
      BY <2>1, <2>2, <3>1, <3>6 DEF MaskSaved
  <2>6. CASE regs.nr = "sigprocmask_restore"
    <3>1. active.kind = "epoll_pwait" /\ active.running = "sigprocmask_restore"
      BY <2>4, <2>6 DEF MaskSteps
    <3>2. Restoring /\ scratchMask = appMask
      BY <2>1, <3>1 DEF IInv, MaskSaved, Setting, Waiting, Restoring
    <3>3. \/ mask' = scratchMask /\ appMask' = appMask
          \/ mask' = mask /\ appMask' = mask
      BY <2>6 DEF RunSigprocmask
    <3>4. mask' = appMask'
      BY <3>2, <3>3
    <3>5. Restoring'
      BY <2>1, <3>2, <3>4 DEF Restoring
    <3>6. QED
      BY <2>1, <2>2, <3>1, <3>5 DEF MaskSaved
  <2>7. QED
    BY <2>3, <2>5, <2>6 DEF RunSigprocmask
<1>7. HeldInsideOnly'
  BY DEF IInv, HeldInsideOnly, Busy, RunSigprocmask, tracer
<1>8. QED
  BY <1>2, <1>3, <1>4, <1>5, <1>6, <1>7 DEF IInv

\* rt_sigreturn keeps the invariant: it never runs inside an emulation.
LEMMA RunSigreturnKeeps == IInv /\ RunSigreturn => IInv'
<1> SUFFICES ASSUME IInv, RunSigreturn PROVE IInv'
  OBVIOUS
<1>1. frames # << >> /\ frames[1] \in FrameType
  BY FrameTyped DEF IInv, CallNumbers, RunSigreturn
<1>2. ~InSequence /\ ~Busy
  BY DEF IInv, TypeOK, ActiveType, CallNumbers, Busy, InSequence, Steps, RunSigreturn
<1>3. ~InSequence' /\ ~Busy' /\ UNCHANGED tracer
  BY <1>2 DEF InSequence, Busy, RunSigreturn, tracer
<1>4. TypeOK'
  BY <1>1 DEF IInv, TypeOK, FrameType, RunSigreturn, tracer
<1>5. Directions'
  BY <1>2, <1>3 DEF IInv, Directions, RunSigreturn, tracer
<1>6. CallNumbers'
  BY <1>3 DEF CallNumbers, RunSigreturn, Busy
<1>7. Registers'
  BY <1>1, <1>3 DEF IInv, Registers, RunSigreturn
<1>8. MaskSaved'
  BY <1>1, <1>3 DEF IInv, MaskSaved, RunSigreturn, Busy
<1>9. HeldInsideOnly'
  BY <1>2, <1>3 DEF IInv, HeldInsideOnly, tracer
<1>10. QED
  BY <1>4, <1>5, <1>6, <1>7, <1>8, <1>9 DEF IInv

\* A call of the application keeps the invariant.
LEMMA AppCallKeeps == IInv /\ AppCall => IInv'
<1> SUFFICES ASSUME IInv, AppCall PROVE IInv'
  OBVIOUS
<1>1. PICK k \in Calls, f \in Fds, m \in Masks \cup {mask}, o \in SUBSET {"nonblock", "initial"} :
        Enter(Regs(k, f, m, o, "app"))
  BY DEF AppCall
<1>2. k \in AppCalls /\ f \in Int /\ m \in SUBSET Signals
  BY ConstantsAssumption DEF IInv, TypeOK
<1>3. /\ regs' \in RegsType /\ mine' = regs' /\ regs'.rip = "app" /\ regs'.nr = k
      /\ where = "user" /\ where' = "entry"
  BY <1>1, <1>2 DEF Enter, Regs, RegsType
<1>4. UNCHANGED <<mask, pending, stopSig, frames, files, tracer, appMask, owed>>
  BY DEF AppCall
<1>5. ~Busy /\ ~InSequence /\ ~Busy' /\ ~InSequence'
  BY <1>3, <1>4 DEF IInv, Directions, Busy, InSequence, SequenceCalls, tracer
<1>6. TypeOK'
  <2>1. scratchMask' \subseteq Signals
    BY ConstantsAssumption DEF AppCall
  <2>2. scratchPair' \in (Fds \X Fds) \cup {NoPair}
    BY DEF AppCall, IInv, TypeOK
  <2>3. QED
    BY <1>3, <1>4, <2>1, <2>2 DEF IInv, TypeOK, tracer
<1>7. Directions'
  BY <1>3, <1>4, <1>5 DEF IInv, Directions, tracer
<1>8. CallNumbers'
  BY <1>2, <1>3, <1>5 DEF CallNumbers, Busy, AppCalls, SequenceCalls, FixupCalls
<1>9. Registers'
  BY <1>3, <1>4, <1>5 DEF IInv, Registers
<1>10. MaskSaved'
  BY <1>4, <1>5 DEF IInv, MaskSaved, Busy, tracer
<1>11. HeldInsideOnly'
  BY <1>4, <1>5 DEF IInv, HeldInsideOnly, tracer
<1>12. QED
  BY <1>6, <1>7, <1>8, <1>9, <1>10, <1>11 DEF IInv

\* The end of a handler keeps the invariant.
LEMMA SigreturnKeeps == IInv /\ Sigreturn => IInv'
<1> SUFFICES ASSUME IInv, Sigreturn PROVE IInv'
  OBVIOUS
<1>1. /\ regs' \in RegsType /\ mine' = regs' /\ regs'.rip = "app" /\ regs'.nr = "sigreturn"
      /\ where = "user" /\ where' = "entry" /\ frames # << >>
  BY DEF Sigreturn, Enter, Regs, RegsType, NoFd
<1>2. UNCHANGED <<mask, pending, stopSig, frames, files, scratchMask, scratchPair,
                  tracer, appMask, owed>>
  BY DEF Sigreturn
<1>3. ~Busy /\ ~InSequence /\ ~Busy' /\ ~InSequence'
  BY <1>1, <1>2 DEF IInv, Directions, Busy, InSequence, SequenceCalls, tracer
<1>4. TypeOK'
  BY <1>1, <1>2 DEF IInv, TypeOK, tracer
<1>5. Directions'
  BY <1>1, <1>2, <1>3 DEF IInv, Directions, tracer
<1>6. CallNumbers'
  BY <1>1, <1>2, <1>3 DEF CallNumbers, Busy
<1>7. Registers'
  BY <1>1, <1>2, <1>3 DEF IInv, Registers
<1>8. MaskSaved'
  BY <1>2, <1>3 DEF IInv, MaskSaved, Busy, tracer
<1>9. HeldInsideOnly'
  BY <1>2, <1>3 DEF IInv, HeldInsideOnly, tracer
<1>10. QED
  BY <1>4, <1>5, <1>6, <1>7, <1>8, <1>9 DEF IInv

\* The kernel's own moves: a signal is sent, one is taken, none is in the way.
LEMMA SendSignalKeeps == IInv /\ SendSignal => IInv'
<1> SUFFICES ASSUME IInv, SendSignal PROVE IInv'
  OBVIOUS
<1>1. TypeOK'
  BY DEF IInv, TypeOK, SendSignal, tracer
<1>2. Directions' /\ CallNumbers' /\ HeldInsideOnly'
  BY DEF IInv, Directions, CallNumbers, HeldInsideOnly, InSequence, Busy, SendSignal, tracer
<1>3. Registers' /\ MaskSaved'
  BY DEF IInv, Registers, MaskSaved, Setting, Waiting, Restoring, InSequence, SendSignal, tracer
<1>4. QED
  BY <1>1, <1>2, <1>3 DEF IInv

\* Taking a signal keeps the invariant.
LEMMA TakeSignalKeeps == IInv /\ TakeSignal => IInv'
<1> SUFFICES ASSUME IInv, TakeSignal PROVE IInv'
  OBVIOUS
<1>1. TypeOK'
  BY DEF IInv, TypeOK, TakeSignal, tracer, ghosts
<1>2. Directions' /\ CallNumbers' /\ HeldInsideOnly'
  BY DEF IInv, Directions, CallNumbers, HeldInsideOnly, InSequence, Busy, TakeSignal, tracer
<1>3. Registers' /\ MaskSaved'
  BY DEF IInv, Registers, MaskSaved, Setting, Waiting, Restoring, InSequence, TakeSignal,
         tracer, ghosts
<1>4. QED
  BY <1>1, <1>2, <1>3 DEF IInv

\* Only inside a sequence is the tracee at the gadget.
LEMMA LeaveKernelKeeps == IInv /\ LeaveKernel => IInv'
<1> SUFFICES ASSUME IInv, LeaveKernel PROVE IInv'
  OBVIOUS
<1>1. TypeOK'
  BY DEF IInv, TypeOK, LeaveKernel, tracer, ghosts
<1>2. regs.rip = "gadget" <=> Busy
  BY DEF IInv, TypeOK, ActiveType, Directions, Registers, Visible, Busy, InSequence,
         SequenceCalls, LeaveKernel
<1>3. Directions' /\ HeldInsideOnly'
  BY <1>2 DEF IInv, Directions, HeldInsideOnly, InSequence, Busy, LeaveKernel, tracer
<1>4. CallNumbers'
  BY <1>2 DEF IInv, TypeOK, ActiveType, Directions, CallNumbers, InSequence, Busy, Steps,
              LeaveKernel, tracer
<1>5. Registers' /\ MaskSaved'
  BY DEF IInv, Registers, MaskSaved, Setting, Waiting, Restoring, InSequence, LeaveKernel,
         tracer, ghosts
<1>6. QED
  BY <1>1, <1>3, <1>4, <1>5 DEF IInv

\* Wait::Stopped keeps the invariant: held inside an emulation, a handler
\* outside one.
LEMMA OnStoppedKeeps == IInv /\ OnStopped => IInv'
<1> SUFFICES ASSUME IInv, OnStopped PROVE IInv'
  OBVIOUS
<1>1. CASE Busy
  <2>1. /\ held' = stopSig /\ where = "signal" /\ where' = "resumed" /\ stopSig' = {}
        /\ UNCHANGED <<regs, mask, frames, scratchMask, mine, appMask, owed, pending,
                       files, scratchPair, inSyscall, active, timers>>
    BY <1>1 DEF OnStopped, MustHold, Resume
  <2>2. TypeOK'
    BY <2>1 DEF IInv, TypeOK
  <2>3. Directions' /\ CallNumbers' /\ HeldInsideOnly'
    BY <1>1, <2>1 DEF IInv, Directions, CallNumbers, HeldInsideOnly, InSequence, Busy
  <2>4. Registers' /\ MaskSaved'
    BY <2>1 DEF IInv, Registers, MaskSaved, Setting, Waiting, Restoring, InSequence
  <2>5. QED
    BY <2>2, <2>3, <2>4 DEF IInv
<1>2. CASE ~Busy
  <2>1. /\ StartHandler /\ where = "signal"
        /\ UNCHANGED <<held, pending, files, scratchPair, inSyscall, active, timers>>
    BY <1>2 DEF OnStopped, MustHold
  <2>2. /\ regs' \in RegsType /\ mine' = regs' /\ regs'.rip = "app"
        /\ mask' = Signals /\ appMask' = Signals /\ where' = "user"
    BY <2>1 DEF StartHandler, Regs, RegsType, NoFd
  <2>3. /\ Len(frames') = 1
        /\ frames'[1] = [regs |-> regs, mine |-> mine, mask |-> mask, appMask |-> appMask]
    BY <2>1 DEF StartHandler
  <2>4. ~Busy' /\ ~InSequence /\ ~InSequence'
    BY <1>2, <2>1 DEF Busy, InSequence, SequenceCalls
  <2>5. TypeOK'
    <3>1. frames' \in Seq(FrameType)
      BY <2>1 DEF StartHandler, IInv, TypeOK, FrameType
    <3>2. scratchMask' \subseteq Signals /\ owed' \subseteq Signals /\ stopSig' = {}
      BY <1>2, <2>1 DEF StartHandler, IInv, TypeOK
    <3>3. QED
      BY <2>1, <2>2, <3>1, <3>2 DEF IInv, TypeOK
  <2>6. Directions' /\ CallNumbers' /\ HeldInsideOnly'
    BY <1>2, <2>1, <2>2, <2>4 DEF IInv, Directions, CallNumbers, HeldInsideOnly, Busy
  <2>7. Registers'
    <3>1. frames'[1].regs = regs /\ frames'[1].mine = mine
      BY <2>3
    <3>2. QED
      BY <2>2, <2>4, <3>1 DEF IInv, Registers, Visible
  <2>8. MaskSaved'
    BY <1>2, <2>1, <2>2, <2>3 DEF IInv, MaskSaved, Busy
  <2>9. QED
    BY <2>5, <2>6, <2>7, <2>8 DEF IInv
<1>3. QED
  BY <1>1, <1>2

\* The arguments build() finds for a step are well typed.
LEMMA BuildTyped ==
  ASSUME NEW act \in ActiveType, NEW step \in Steps, NEW rip \in {"app", "gadget"}
  PROVE  /\ Build(step, act, rip) \in RegsType
         /\ Build(step, act, rip).nr = step
         /\ Build(step, act, rip).rip = rip
<1>1. act.saved \in RegsType /\ act.fd \in Int /\ act.writeEnd \in Int
  BY DEF ActiveType
<1>2. FdOf(step, act) \in Int
  BY <1>1 DEF FdOf, RegsType
<1>3. (IF step = "sigprocmask_set" THEN act.saved.set ELSE {}) \in SUBSET Signals
  BY <1>1 DEF RegsType
<1>4. QED
  BY <1>2, <1>3 DEF Build, Regs, RegsType

\* A syscall stop outside an emulation keeps the invariant: begin takes the
\* call over, or the direction is toggled.
LEMMA OnSyscallKeeps == IInv /\ OnSyscall => IInv'
<1> SUFFICES ASSUME IInv, OnSyscall PROVE IInv'
  OBVIOUS
<1>1. /\ ~Busy /\ ~InSequence /\ where \in {"entry", "exit"}
      /\ where' = (IF where = "entry" THEN "kernel" ELSE "resumed") /\ stopSig' = {}
      /\ UNCHANGED <<mask, pending, frames, files, scratchMask, scratchPair,
                     held, mine, appMask, owed>>
  BY DEF OnSyscall, Resume, Busy, InSequence, SequenceCalls
<1>2. held = {} /\ mask = appMask /\ Visible(regs) = Visible(mine) /\ active.kind = "none"
  BY <1>1 DEF IInv, HeldInsideOnly, MaskSaved, Registers, Busy
<1>3. CASE Entering /\ StartSequence /\ UNCHANGED inSyscall
  <2>1. where = "entry" /\ where' = "kernel" /\ ~inSyscall
    BY <1>1, <1>3 DEF IInv, Directions, Entering
  <2> DEFINE queue == QueueOf(regs)
             act == [kind |-> regs.nr, saved |-> regs, queue |-> Tail(queue),
                     running |-> Head(queue), atEntry |-> FALSE, results |-> << >>,
                     fd |-> NoFd, writeEnd |-> NoFd, before |-> files]
  <2>2. /\ regs.nr \in SequenceCalls /\ active' = act
        /\ regs' = Build(Head(queue), act, regs.rip) /\ UNCHANGED timers
    BY <1>3 DEF StartSequence
  <2>3. regs \in RegsType
    BY DEF IInv, TypeOK
  <2>4. /\ queue \in Seq(Steps) /\ queue # << >>
        /\ regs.nr = "epoll_pwait" => queue = EpollPwaitSeq
        /\ regs.nr # "epoll_pwait" => queue \in Seq(Steps \ MaskSteps)
    BY <2>2, <2>3, QueueTyped
  <2> HIDE DEF queue
  <2>5. /\ Head(queue) \in Steps /\ Tail(queue) \in Seq(Steps)
        /\ regs.nr # "epoll_pwait" =>
             Head(queue) \in Steps \ MaskSteps /\ Tail(queue) \in Seq(Steps \ MaskSteps)
    BY <2>4, SeqParts
  <2>6. act \in ActiveType
    BY <2>2, <2>3, <2>5 DEF IInv, TypeOK, ActiveType, NoFd
  <2>7. /\ act.kind = regs.nr /\ act.saved = regs /\ act.queue = Tail(queue)
        /\ act.running = Head(queue) /\ act.atEntry = FALSE /\ act.results = << >>
    OBVIOUS
  <2> HIDE DEF act
  <2>8. regs.rip \in {"app", "gadget"}
    BY <2>3 DEF RegsType
  <2>9. regs' \in RegsType /\ regs'.nr = Head(queue)
    BY <2>2, <2>5, <2>6, <2>8, BuildTyped
  <2>10. InSequence' /\ Busy' /\ active'.kind = regs.nr
    BY <2>2, <2>7 DEF InSequence, Busy, SequenceCalls
  <2>11. TypeOK'
    BY <1>1, <1>3, <2>1, <2>2, <2>6, <2>9 DEF IInv, TypeOK
  <2>12. Directions'
    BY <1>3, <2>1, <2>2, <2>7, <2>10 DEF Directions
  <2>13. CallNumbers'
    <3>1. "sigreturn" \notin Steps /\ "none" \notin Steps
      BY DEF Steps
    <3>2. QED
      BY <2>2, <2>5, <2>7, <2>9, <2>10, <3>1 DEF CallNumbers, SequenceCalls
  <2>14. Registers'
    BY <1>1, <1>2, <2>2, <2>7, <2>10 DEF IInv, Registers, Visible
  <2>15. MaskSaved'
    <3>1. CASE regs.nr = "epoll_pwait"
      <4>1. /\ Head(queue) = "sigprocmask_set"
            /\ Tail(queue) = <<"epoll_wait", "sigprocmask_restore">>
        <5>1. /\ Head(<<"sigprocmask_set", "epoll_wait", "sigprocmask_restore">>)
                   = "sigprocmask_set"
              /\ Tail(<<"sigprocmask_set", "epoll_wait", "sigprocmask_restore">>)
                   = <<"epoll_wait", "sigprocmask_restore">>
          OBVIOUS
        <5>2. QED
          BY <2>4, <3>1, <5>1, Zenon DEF EpollPwaitSeq
      <4>2. Setting'
        BY <1>1, <1>2, <2>1, <2>2, <2>7, <4>1 DEF Setting
      <4>3. QED
        BY <1>1, <2>10, <3>1, <4>2 DEF IInv, MaskSaved
    <3>2. CASE regs.nr # "epoll_pwait"
      BY <1>1, <1>2, <2>10, <3>2 DEF IInv, MaskSaved
    <3>3. QED
      BY <3>1, <3>2
  <2>16. HeldInsideOnly'
    BY <2>10 DEF HeldInsideOnly
  <2>17. QED
    BY <2>11, <2>12, <2>13, <2>14, <2>15, <2>16 DEF IInv
<1>4. CASE Entering /\ StandIn /\ UNCHANGED inSyscall
  <2>1. where = "entry" /\ where' = "kernel" /\ ~inSyscall
    BY <1>1, <1>4 DEF IInv, Directions, Entering
  <2>2. /\ active' = Fixup /\ Fixup \in ActiveType /\ Fixup.kind = "fixup" /\ UNCHANGED timers
        /\ regs' = [regs EXCEPT !.nr = "getpid"]
    BY <1>4, IdleTyped DEF StandIn, Fixup, Idle
  <2>3. regs' \in RegsType /\ Visible(regs') = Visible(regs) /\ regs'.nr = "getpid"
    BY <2>2 DEF IInv, TypeOK, RegsType, Visible
  <2>4. ~InSequence' /\ Busy'
    BY <2>2 DEF InSequence, Busy, SequenceCalls
  <2>5. TypeOK'
    BY <1>1, <1>4, <2>1, <2>2, <2>3 DEF IInv, TypeOK
  <2>6. Directions' /\ CallNumbers' /\ HeldInsideOnly'
    BY <1>4, <2>1, <2>2, <2>3, <2>4 DEF Directions, CallNumbers, HeldInsideOnly
  <2>7. Registers' /\ MaskSaved'
    BY <1>1, <1>2, <2>2, <2>3, <2>4 DEF IInv, Registers, MaskSaved
  <2>8. QED
    BY <2>5, <2>6, <2>7 DEF IInv
<1>5. CASE NotEmulated
  <2>1. /\ inSyscall' = ~inSyscall /\ UNCHANGED <<regs, active>> /\ timers' \subseteq timers
    BY <1>5 DEF NotEmulated
  <2>2. ~InSequence' /\ ~Busy'
    BY <1>1, <2>1 DEF InSequence, Busy
  <2>3. TypeOK'
    BY <1>1, <2>1 DEF IInv, TypeOK
  <2>4. Directions'
    BY <1>1, <2>1, <2>2 DEF IInv, TypeOK, Directions
  <2>5. CallNumbers'
    BY <1>1, <1>2, <2>1, <2>2 DEF IInv, CallNumbers
  <2>6. Registers' /\ MaskSaved' /\ HeldInsideOnly'
    BY <1>1, <1>2, <2>1, <2>2 DEF IInv, Registers, MaskSaved, HeldInsideOnly
  <2>7. QED
    BY <2>3, <2>4, <2>5, <2>6 DEF IInv
<1>6. QED
  BY <1>3, <1>4, <1>5 DEF OnSyscall

\* step at the entry of an injected call keeps the invariant.
LEMMA StepEntryKeeps == IInv /\ StepEntry => IInv'
<1> SUFFICES ASSUME IInv, StepEntry PROVE IInv'
  OBVIOUS
<1>1. /\ where = "entry" /\ where' = "kernel" /\ stopSig' = {}
      /\ InSequence /\ Busy
  BY DEF StepEntry, ResumeAfterStep, Resume, IInv, Directions, InSequence, Busy, SequenceCalls
<1>2. /\ active' \in ActiveType /\ active'.kind = active.kind /\ ~active'.atEntry
      /\ active'.running = active.running /\ active'.queue = active.queue
      /\ active'.results = active.results /\ active'.saved = active.saved
  BY DEF StepEntry, IInv, TypeOK, ActiveType
<1>3. UNCHANGED <<regs, timers, pending, held, mask, frames, files, scratchMask,
                  scratchPair, inSyscall, mine, appMask, owed>>
  BY <1>1, <1>2 DEF StepEntry, ResumeAfterStep, Busy
<1>4. InSequence' /\ Busy'
  BY <1>1, <1>2 DEF InSequence, Busy
<1>5. TypeOK'
  BY <1>1, <1>2, <1>3 DEF IInv, TypeOK
<1>6. Directions' /\ CallNumbers' /\ HeldInsideOnly'
  BY <1>1, <1>2, <1>3, <1>4 DEF IInv, Directions, CallNumbers, HeldInsideOnly
<1>7. Registers'
  BY <1>1, <1>2, <1>3, <1>4 DEF IInv, Registers
<1>8. MaskSaved'
  BY <1>1, <1>2, <1>3 DEF IInv, MaskSaved, Setting, Waiting, Restoring
<1>9. QED
  BY <1>5, <1>6, <1>7, <1>8 DEF IInv

\* An emulation ends at an exit stop with a state the application may see.
LEMMA EndKeeps ==
  ASSUME IInv, where = "exit", active' = Idle, ResumeAfterStep, Busy,
         regs' \in RegsType, Visible(regs') = Visible(mine), mask = appMask,
         timers' \subseteq Fds
  PROVE  IInv'
<1>1. Idle \in ActiveType /\ Idle.kind = "none"
  BY IdleTyped DEF Idle
<1>2. /\ where' = "resumed" /\ stopSig' = {} /\ pending' = pending \cup held /\ held' = {}
      /\ UNCHANGED <<mask, frames, files, scratchMask, scratchPair, inSyscall,
                     mine, appMask, owed>>
  BY <1>1 DEF ResumeAfterStep, Resume
<1>3. ~Busy' /\ ~InSequence'
  BY <1>1 DEF Busy, InSequence, SequenceCalls
<1>4. TypeOK'
  BY <1>1, <1>2 DEF IInv, TypeOK
<1>5. Directions' /\ CallNumbers' /\ HeldInsideOnly'
  BY <1>1, <1>2, <1>3 DEF IInv, Directions, CallNumbers, HeldInsideOnly
<1>6. Registers' /\ MaskSaved'
  BY <1>1, <1>2, <1>3 DEF IInv, Registers, MaskSaved, Visible
<1>7. QED
  BY <1>4, <1>5, <1>6 DEF IInv

\* step at the end of a bookkeeping call keeps the invariant.
LEMMA StepFixupKeeps == IInv /\ StepFixup => IInv'
<1> SUFFICES ASSUME IInv, StepFixup PROVE IInv'
  OBVIOUS
<1>1. where = "exit" /\ Busy /\ ~InSequence /\ active' = Idle /\ ResumeAfterStep
  BY DEF StepFixup, IInv, Directions, Busy, InSequence, SequenceCalls
<1>2. regs' \in RegsType /\ Visible(regs') = Visible(regs)
  BY DEF StepFixup, IInv, TypeOK, RegsType, Visible
<1>3. Visible(regs) = Visible(mine) /\ mask = appMask
  BY <1>1 DEF IInv, Registers, MaskSaved, StepFixup
<1>4. timers' \subseteq Fds
  BY DEF StepFixup, IInv, TypeOK
<1>5. QED
  BY <1>1, <1>2, <1>3, <1>4, EndKeeps

\* What step() has after a call returned.
LEMMA CollectedTyped ==
  ASSUME TypeOK, NEW captured \in BOOLEAN,
         captured => active.running = "pipe" /\ Reopenable(scratchPair[2])
  PROVE  LET act == Collected(captured)
         IN  /\ act \in ActiveType
             /\ act.kind = active.kind /\ act.saved = active.saved
             /\ act.queue = active.queue /\ act.running = active.running
             /\ active.running # "pipe" => act.results = Append(active.results, regs.rax)
<1> DEFINE act == Collected(captured)
           rs == Append(active.results, regs.rax)
<1>1. regs.rax \in Int /\ active \in ActiveType
  BY DEF TypeOK, RegsType
<1>2. active.results \in Seq(Int) /\ active.fd \in Int /\ active.writeEnd \in Int
  BY <1>1 DEF ActiveType
<1>3. rs \in Seq(Int) /\ Append(rs, -EIO) \in Seq(Int)
  BY <1>1, <1>2 DEF EIO
<1>4. captured => scratchPair[1] \in Int /\ scratchPair[2] \in Int
  <2>1. captured => scratchPair # NoPair
    BY ConstantsAssumption DEF Reopenable, NoPair, NoFd
  <2>2. QED
    <3> SUFFICES ASSUME captured PROVE scratchPair[1] \in Int /\ scratchPair[2] \in Int
      OBVIOUS
    <3>1. scratchPair \in Fds \X Fds
      BY <2>1 DEF TypeOK
    <3>2. scratchPair[1] \in Fds /\ scratchPair[2] \in Fds
      BY <3>1
    <3>3. Fds \subseteq Int
      BY ConstantsAssumption
    <3>4. QED
      BY <3>2, <3>3
<1> DEFINE results == IF active.running = "pipe" /\ ~captured THEN Append(rs, -EIO) ELSE rs
           fd == IF captured THEN scratchPair[1]
                 ELSE IF Len(rs) = 1 /\ active.running \in MakesFd
                 THEN regs.rax ELSE active.fd
           writeEnd == IF captured THEN scratchPair[2] ELSE active.writeEnd
<1>5. act = [active EXCEPT !.results = results, !.fd = fd, !.writeEnd = writeEnd]
  BY <1>1 DEF Collected, ActiveType
<1> HIDE DEF rs
<1>6. results \in Seq(Int) /\ (active.running # "pipe" => results = rs)
  BY <1>3
<1>7. fd \in Int /\ writeEnd \in Int
  BY <1>1, <1>2, <1>4
<1> HIDE DEF act, results, fd, writeEnd
<1>8. /\ act \in ActiveType
      /\ act.kind = active.kind /\ act.saved = active.saved
      /\ act.queue = active.queue /\ act.running = active.running
      /\ act.results = results
  BY <1>1, <1>5, <1>6, <1>7 DEF ActiveType
<1>9. QED
  BY <1>6, <1>8 DEF act, rs

\* Tracked timers are descriptors.
LEMMA TrackedTyped ==
  ASSUME TypeOK, NEW captured \in BOOLEAN,
         captured => active.running = "pipe" /\ Reopenable(scratchPair[2])
  PROVE  Tracked(captured) \subseteq Fds
<1>1. captured => scratchPair # NoPair
  BY ConstantsAssumption DEF Reopenable, NoPair, NoFd
<1>2. QED
  BY <1>1 DEF TypeOK, Tracked

\* Where an epoll_pwait stands when one of its calls has returned, and which
\* entry of the queue follows.
LEMMA WaitPlaces ==
  ASSUME IInv, where = "exit", active.kind = "epoll_pwait", NEW captured \in BOOLEAN,
         captured => active.running = "pipe" /\ Reopenable(scratchPair[2])
  PROVE  LET act == Collected(captured)
             n == Popped(act.queue, act.results)
         IN  \/ /\ Setting /\ regs.rax = 0 /\ scratchMask = appMask
                /\ n = 1 /\ act.results = <<0>>
             \/ Setting /\ mask = appMask /\ n = 0
             \/ Waiting /\ n = 1 /\ act.results = <<0, regs.rax>>
             \/ Restoring /\ mask = appMask /\ n = 0
<1> DEFINE act == Collected(captured)
           n == Popped(act.queue, act.results)
<1>1. /\ act.queue = active.queue
      /\ active.running # "pipe" => act.results = Append(active.results, regs.rax)
  BY CollectedTyped DEF IInv
<1> HIDE DEF act
<1>2. active.results \in Seq(Int) /\ regs.rax \in Int
  BY DEF IInv, TypeOK, ActiveType, RegsType
<1>3. Setting \/ Waiting \/ Restoring
  BY DEF IInv, MaskSaved
<1>4. CASE Setting
  <2>1. act.results = <<regs.rax>> /\ act.queue = <<"epoll_wait", "sigprocmask_restore">>
    BY <1>1, <1>2, <1>4 DEF Setting
  <2>2. \/ regs.rax = 0 /\ scratchMask = appMask
        \/ regs.rax = -14 /\ mask = appMask
    BY <1>4 DEF Setting, EFAULT
  <2>3. n = IF regs.rax = 0 \/ ~IsError(regs.rax) THEN 1 ELSE 0
    BY <1>2, <2>1, PoppedAfterSet
  <2>4. IsError(-14)
    BY DEF IsError
  <2>5. QED
    BY <1>4, <2>1, <2>2, <2>3, <2>4 DEF act
<1>5. CASE Waiting
  <2>1. act.results = <<0, regs.rax>> /\ act.queue = <<"sigprocmask_restore">>
    BY <1>1, <1>2, <1>5 DEF Waiting
  <2>2. n = 1
    BY <1>2, <2>1, PoppedAfterWait
  <2>3. QED
    BY <1>5, <2>1, <2>2 DEF act
<1>6. CASE Restoring
  <2>1. act.queue = << >> /\ mask = appMask
    BY <1>1, <1>6 DEF Restoring
  <2>2. n = 0
    BY <2>1, PoppedAtEnd
  <2>3. QED
    BY <1>6, <2>1, <2>2 DEF act
<1>7. QED
  BY <1>3, <1>4, <1>5, <1>6

\* step at the end of an injected call keeps the invariant, whether another
\* call follows or the emulation ends.
LEMMA StepCollectKeeps == IInv /\ StepCollect => IInv'
<1> SUFFICES ASSUME IInv, StepCollect PROVE IInv'
  OBVIOUS
<1>1. PICK captured \in BOOLEAN :
        /\ captured => active.running = "pipe" /\ Reopenable(scratchPair[2])
        /\ timers' = Tracked(captured)
        /\ LET act == Collected(captured)
               n == Popped(act.queue, act.results)
           IN  IF n > 0 THEN Inject(act, n) ELSE Finish(act)
  BY DEF StepCollect
<1> DEFINE act == Collected(captured)
           n == Popped(act.queue, act.results)
<1>2. /\ where = "exit" /\ Busy /\ InSequence /\ ~active.atEntry /\ ~inSyscall
      /\ ResumeAfterStep
  BY DEF StepCollect, IInv, Directions, Busy, InSequence, SequenceCalls
<1>3. /\ act \in ActiveType
      /\ act.kind = active.kind /\ act.saved = active.saved
      /\ act.queue = active.queue /\ act.running = active.running
      /\ active.running # "pipe" => act.results = Append(active.results, regs.rax)
  BY <1>1, CollectedTyped DEF IInv
<1>4. timers' \subseteq Fds
  BY <1>1, TrackedTyped DEF IInv
<1>5. IF n > 0 THEN Inject(act, n) ELSE Finish(act)
  BY <1>1
<1> HIDE DEF act
<1>6. act.queue \in Seq(Steps) /\ act.results \in Seq(Int) /\ act.fd \in Int
      /\ act.saved \in RegsType /\ regs.rax \in Int
  BY <1>3 DEF ActiveType, IInv, TypeOK, RegsType
<1>7. n \in 0 .. Len(act.queue)
  BY <1>6, PoppedRange
<1>8. active.kind = "epoll_pwait" =>
        \/ /\ Setting /\ regs.rax = 0 /\ scratchMask = appMask
           /\ n = 1 /\ act.results = <<0>>
        \/ Setting /\ mask = appMask /\ n = 0
        \/ Waiting /\ n = 1 /\ act.results = <<0, regs.rax>>
        \/ Restoring /\ mask = appMask /\ n = 0
  BY <1>1, <1>2, WaitPlaces DEF act
<1> HIDE DEF n
<1>9. CASE n > 0
  <2>1. n \in 1 .. Len(act.queue)
    BY <1>6, <1>7, <1>9
  <2>2. act.queue[n] \in Steps /\ SubSeq(act.queue, n + 1, Len(act.queue)) \in Seq(Steps)
    BY <1>6, <2>1, SeqParts
  <2>3. /\ active' = [act EXCEPT !.running = act.queue[n], !.atEntry = TRUE,
                                 !.queue = SubSeq(@, n + 1, Len(@))]
        /\ regs' = Build(act.queue[n], act, "gadget")
    BY <1>5, <1>9 DEF Inject
  <2>4. /\ active' \in ActiveType /\ active'.kind = active.kind /\ active'.saved = active.saved
        /\ active'.running = act.queue[n] /\ active'.atEntry
        /\ active'.queue = SubSeq(act.queue, n + 1, Len(act.queue))
        /\ active'.results = act.results
    BY <1>3, <2>2, <2>3 DEF ActiveType
  <2>5. regs' \in RegsType /\ regs'.nr = act.queue[n] /\ regs'.rip = "gadget"
    BY <1>3, <2>2, <2>3, BuildTyped
  <2>6. InSequence' /\ Busy'
    BY <1>2, <2>4 DEF InSequence, Busy
  <2>7. /\ where' = "resumed" /\ stopSig' = {}
        /\ UNCHANGED <<pending, held, mask, frames, files, scratchMask, scratchPair,
                       inSyscall, mine, appMask, owed>>
    BY <1>2, <2>6 DEF ResumeAfterStep, Resume, Busy
  <2>8. TypeOK'
    BY <1>4, <2>4, <2>5, <2>7 DEF IInv, TypeOK
  <2>9. Directions' /\ HeldInsideOnly'
    BY <1>2, <2>4, <2>5, <2>6, <2>7 DEF Directions, HeldInsideOnly
  <2>10. CallNumbers'
    <3>1. act.queue[n] # "none"
      BY <2>2 DEF Steps
    <3>2. ASSUME active.kind # "epoll_pwait"
          PROVE  /\ act.queue[n] \in Steps \ MaskSteps
                 /\ SubSeq(act.queue, n + 1, Len(act.queue)) \in Seq(Steps \ MaskSteps)
      <4>1. act.queue \in Seq(Steps \ MaskSteps)
        BY <1>2, <1>3, <3>2 DEF IInv, CallNumbers
      <4>2. QED
        BY <2>1, <4>1, SeqParts
    <3>3. QED
      BY <2>4, <2>5, <2>6, <2>7, <3>1, <3>2 DEF CallNumbers, InSequence, SequenceCalls
  <2>11. Registers'
    BY <1>2, <2>4, <2>6, <2>7 DEF IInv, Registers, Visible
  <2>12. MaskSaved'
    <3>1. CASE active.kind # "epoll_pwait"
      BY <2>4, <2>7, <3>1 DEF IInv, MaskSaved
    <3>2. CASE active.kind = "epoll_pwait" /\ Setting
      <4>1. n = 1 /\ scratchMask = appMask /\ act.results = <<0>>
        BY <1>8, <1>9, <3>2 DEF Setting, Waiting, Restoring
      <4>2. act.queue = <<"epoll_wait", "sigprocmask_restore">>
        BY <1>3, <3>2 DEF Setting
      <4>3. act.queue[1] = "epoll_wait"
            /\ SubSeq(act.queue, 2, Len(act.queue)) = <<"sigprocmask_restore">>
        <5> DEFINE rest == SubSeq(act.queue, 2, Len(act.queue))
        <5>1. Len(act.queue) = 2 /\ act.queue[1] = "epoll_wait"
              /\ act.queue[2] = "sigprocmask_restore"
          BY <4>2
        <5>2. rest \in Seq(Steps) /\ Len(rest) = 1 /\ rest[1] = "sigprocmask_restore"
          BY <2>1, <2>2, <4>1, <5>1
        <5>3. <<"sigprocmask_restore">> \in Seq(Steps)
          BY DEF Steps
        <5> HIDE DEF rest
        <5>4. rest = <<"sigprocmask_restore">>
          BY <5>2, <5>3, SeqEqual
        <5>5. QED
          BY <5>1, <5>4 DEF rest
      <4>4. Waiting'
        BY <2>4, <2>7, <4>1, <4>3 DEF Waiting
      <4>5. QED
        BY <2>4, <2>7, <3>2, <4>4 DEF IInv, MaskSaved
    <3>3. CASE active.kind = "epoll_pwait" /\ Waiting
      <4>1. n = 1 /\ scratchMask = appMask /\ act.results = <<0, regs.rax>>
        BY <1>8, <1>9, <3>3 DEF Setting, Waiting, Restoring
      <4>2. act.queue = <<"sigprocmask_restore">>
        BY <1>3, <3>3 DEF Waiting
      <4>3. act.queue[1] = "sigprocmask_restore"
            /\ SubSeq(act.queue, 2, Len(act.queue)) = << >>
        BY <4>2
      <4>4. Restoring'
        BY <2>4, <2>7, <4>1, <4>3 DEF Restoring
      <4>5. QED
        BY <2>4, <2>7, <3>3, <4>4 DEF IInv, MaskSaved
    <3>4. QED
      BY <1>8, <1>9, <3>1, <3>2, <3>3
  <2>13. QED
    BY <2>8, <2>9, <2>10, <2>11, <2>12 DEF IInv
<1>10. CASE ~(n > 0)
  <2>1. /\ active' = Idle
        /\ regs' = [act.saved EXCEPT !.rax = Answer(OutcomeOf(act.kind), act.results, act.fd)]
    BY <1>5, <1>10 DEF Finish
  <2>2. OutcomeOf(act.kind) \in Nat
    BY <1>2, <1>3 DEF OutcomeOf, InSequence, SequenceCalls
  <2>3. Answer(OutcomeOf(act.kind), act.results, act.fd) \in Int
    BY <1>6, <2>2, AnswerInt
  <2>4. regs' \in RegsType /\ Visible(regs') = Visible(act.saved)
    BY <1>6, <2>1, <2>3 DEF RegsType, Visible
  <2>5. Visible(regs') = Visible(mine)
    BY <1>2, <1>3, <2>4 DEF IInv, Registers
  <2>6. mask = appMask
    BY <1>8, <1>10 DEF IInv, MaskSaved
  <2>7. QED
    BY <1>2, <1>4, <2>1, <2>4, <2>5, <2>6, EndKeeps
<1>11. QED
  BY <1>9, <1>10

-----------------------------------------------------------------------------
(* The invariant and what follows from it.                                 *)

\* The invariant holds at the start.
LEMMA InitIInv == Init => IInv
<1> SUFFICES ASSUME Init PROVE IInv
  OBVIOUS
<1>1. regs \in RegsType /\ mine = regs /\ regs.rip = "app"
  BY DEF Init, Regs, RegsType, NoFd
<1>2. active \in ActiveType /\ active.kind = "none"
  BY IdleTyped DEF Init, Idle
<1>3. TypeOK
  <2>1. mask \in SUBSET Signals /\ appMask \in SUBSET Signals
    BY ConstantsAssumption DEF Init
  <2>2. frames \in Seq(FrameType) /\ files \in [Fds -> Objects]
    BY DEF Init, Objects
  <2>3. QED
    BY <1>1, <1>2, <2>1, <2>2 DEF Init, TypeOK
<1>4. ~Busy /\ ~InSequence
  BY <1>2 DEF Busy, InSequence, SequenceCalls
<1>5. Directions /\ CallNumbers /\ HeldInsideOnly
  BY <1>2, <1>4 DEF Init, Directions, CallNumbers, HeldInsideOnly
<1>6. Registers /\ MaskSaved
  BY <1>1, <1>2, <1>4 DEF Init, Registers, MaskSaved
<1>7. QED
  BY <1>3, <1>5, <1>6 DEF IInv

\* The invariant depends on the variables only.
LEMMA StutterKeeps == IInv /\ UNCHANGED vars => IInv'
<1> SUFFICES ASSUME IInv, UNCHANGED vars PROVE IInv'
  OBVIOUS
<1> USE DEF vars, tracee, tracer, ghosts
<1>1. TypeOK'
  BY DEF IInv, TypeOK
<1>2. Directions' /\ CallNumbers' /\ HeldInsideOnly'
  BY DEF IInv, Directions, CallNumbers, HeldInsideOnly, InSequence, Busy
<1>3. Registers' /\ MaskSaved'
  BY DEF IInv, Registers, MaskSaved, Setting, Waiting, Restoring, InSequence, Visible
<1>4. QED
  BY <1>1, <1>2, <1>3 DEF IInv

\* The inductive invariant holds in every reachable state, for any signals,
\* masks, descriptors and calls.
THEOREM Invariance == Spec => []IInv
<1>1. Init => IInv
  BY InitIInv
<1>2. IInv /\ [Next]_vars => IInv'
  BY AppCallKeeps, SigreturnKeeps, SendSignalKeeps, TakeSignalKeeps, LeaveKernelKeeps,
     RunPlainKeeps, RunSigprocmaskKeeps, RunFilesKeeps, RunPipeKeeps, RunSigreturnKeeps,
     WaitKeeps, OnStoppedKeeps, OnSyscallKeeps, StepFixupKeeps, StepEntryKeeps,
     StepCollectKeeps, StutterKeeps DEF Next, Run
<1>3. QED
  BY <1>1, <1>2, PTL DEF Spec

\* Type correctness of the tracee, the kernel and Emulations.
THEOREM TypeCorrect == Spec => []TypeOK
<1>1. IInv => TypeOK
  BY DEF IInv
<1>2. QED
  BY <1>1, Invariance, PTL

\* Application code always runs with the mask it asked for: however the three
\* calls of an emulated epoll_pwait turn out, and wherever signals fall between
\* them, the mask is put back before the application runs.
THEOREM MaskAlwaysIntact == Spec => []MaskIntact
<1>1. IInv => MaskIntact
  BY DEF IInv, MaskIntact, MaskSaved, Directions, Busy
<1>2. QED
  BY <1>1, Invariance, PTL

\* Application code always finds its own registers.
THEOREM RegistersAlwaysIntact == Spec => []RegistersIntact
<1>1. IInv => RegistersIntact
  BY DEF IInv, RegistersIntact, Registers, Directions, Busy, InSequence, SequenceCalls
<1>2. QED
  BY <1>1, Invariance, PTL

\* The tracer's record of which way round a stop is agrees with the kernel at
\* every stop, in and out of emulations.
THEOREM StopsAlwaysMatch == Spec => []StopsMatch
<1>1. IInv => StopsMatch
  BY DEF IInv, StopsMatch, Directions, InSequence
<1>2. QED
  BY <1>1, Invariance, PTL

\* No application code runs while an emulation is in progress.
THEOREM NothingEverRunsInside == Spec => []NothingRunsInside
<1>1. IInv => NothingRunsInside
  BY DEF IInv, NothingRunsInside, Directions
<1>2. QED
  BY <1>1, Invariance, PTL

\* A held signal never outlives the emulation that held it back.
THEOREM HeldAlwaysInside == Spec => []HeldInsideOnly
<1>1. IInv => HeldInsideOnly
  BY DEF IInv
<1>2. QED
  BY <1>1, Invariance, PTL
-----------------------------------------------------------------------------
(* The answer of an epoll_pwait.                                           *)

\* A result is a value or an error, nothing in between.
Plain(rc) == rc >= 0 \/ IsError(rc)

Answering ==
    active.kind = "epoll_pwait" =>
        /\ (active.running = "epoll_wait" /\ where = "exit") => Plain(regs.rax)
        /\ active.running = "sigprocmask_restore" => Plain(active.results[2])

\* The answer is the second result, whatever the last call returned.
LEMMA AnswerOfWait ==
  ASSUME NEW rs \in Seq(Int), Len(rs) >= 2, rs[1] = 0, Plain(rs[2]), NEW fd
  PROVE  Answer(2, rs, fd) = rs[2]
<1> DEFINE bad == {i \in 1 .. Len(rs) : IsError(rs[i])}
<1>1. CASE rs[2] >= 0
  BY <1>1 DEF Answer
<1>2. CASE IsError(rs[2])
  <2>1. 2 \in bad /\ 1 \notin bad /\ bad \subseteq 1 .. Len(rs)
    <3>1. ~IsError(0)
      BY DEF IsError
    <3>2. QED
      BY <1>2, <3>1
  <2>2. (CHOOSE i \in bad : \A j \in bad : i <= j) = 2
    <3>1. \A j \in bad : j \in Nat /\ 2 <= j
      BY <2>1
    <3> HIDE DEF bad
    <3>2. \A i \in bad : (\A j \in bad : i <= j) => i = 2
      BY <2>1, <3>1
    <3>3. QED
      BY <2>1, <3>1, <3>2
  <2>3. Failure(rs) = rs[2]
    BY <2>1, <2>2 DEF Failure
  <2>4. QED
    BY <2>3 DEF Answer
<1>3. QED
  BY <1>1, <1>2 DEF Plain

\* The kernel's answer to a wait is a value or an error.
LEMMA AnsweringStep == IInv /\ Answering /\ [Next]_vars => Answering'
<1> SUFFICES ASSUME IInv, Answering, [Next]_vars PROVE Answering'
  OBVIOUS
<1>1. ASSUME UNCHANGED active, where' # "exit" \/ UNCHANGED <<where, regs>> PROVE Answering'
  BY <1>1 DEF Answering
<1>2. CASE Run
  <2>1. ASSUME active.kind = "epoll_pwait", active.running = "epoll_wait" PROVE FALSE
    <3>1. regs.nr = "epoll_wait"
      BY <2>1 DEF IInv, CallNumbers, InSequence, SequenceCalls
    <3>2. QED
      BY <1>2, <3>1 DEF Run, RunPlain, RunSigprocmask, RunFiles, RunPipe, RunSigreturn,
                        SequenceCalls, FixupCalls
  <2>2. UNCHANGED active
    BY <1>2 DEF Run, RunPlain, RunSigprocmask, RunFiles, RunPipe, RunSigreturn, tracer
  <2>3. QED
    BY <2>1, <2>2 DEF Answering
<1>3. CASE EndWait \/ InterruptWait
  <2>1. PICK rc \in {0, 1, -9, -4} : Return(rc)
    BY <1>3 DEF EndWait, InterruptWait, EBADF, EINTR
  <2>2. regs'.rax = rc /\ UNCHANGED active
    BY <1>3, <2>1 DEF EndWait, InterruptWait, Return, tracer, IInv, TypeOK, RegsType
  <2>3. Plain(rc)
    BY DEF Plain, IsError
  <2>4. QED
    BY <2>2, <2>3 DEF Answering
<1>4. CASE OnSyscall
  <2>1. where' # "exit"
    BY <1>4 DEF OnSyscall, Resume
  <2>2. CASE StartSequence
    <3>1. active'.kind = regs.nr /\ active'.running = Head(QueueOf(regs))
      BY <2>2 DEF StartSequence
    <3>2. regs.nr = "epoll_pwait" => Head(QueueOf(regs)) = "sigprocmask_set"
      BY DEF QueueOf, EpollPwaitSeq
    <3>3. QED
      BY <2>1, <3>1, <3>2 DEF Answering
  <2>3. CASE StandIn
    BY <2>3 DEF StandIn, Fixup, Idle, Answering
  <2>4. CASE NotEmulated
    BY <1>1, <2>1, <2>4 DEF NotEmulated
  <2>5. QED
    BY <1>4, <2>2, <2>3, <2>4 DEF OnSyscall
<1>5. CASE StepCollect
  <2>1. PICK captured \in BOOLEAN :
          /\ captured => active.running = "pipe" /\ Reopenable(scratchPair[2])
          /\ LET act == Collected(captured)
                 n == Popped(act.queue, act.results)
             IN  IF n > 0 THEN Inject(act, n) ELSE Finish(act)
    BY <1>5 DEF StepCollect
  <2> DEFINE act == Collected(captured)
             n == Popped(act.queue, act.results)
  <2>2. where = "exit" /\ where' = "resumed"
    BY <1>5 DEF StepCollect, ResumeAfterStep, Resume, IInv, Directions, Busy, InSequence,
                SequenceCalls
  <2>3. act \in ActiveType /\ act.kind = active.kind /\ act.queue = active.queue
    BY <2>1, CollectedTyped DEF IInv
  <2>4. CASE n > 0
    <3>1. /\ active'.kind = active.kind /\ active'.results = act.results
          /\ active'.running = active.queue[n]
      <4>1. Inject(act, n)
        BY <2>1, <2>4
      <4> HIDE DEF act, n
      <4>2. QED
        BY <2>3, <4>1 DEF Inject, ActiveType
    <3>2. ASSUME active.kind = "epoll_pwait", active'.running = "sigprocmask_restore"
          PROVE  act.results = <<0, regs.rax>> /\ active.running = "epoll_wait"
      <4>1. \/ Setting /\ n = 1
            \/ Setting /\ n = 0
            \/ Waiting /\ act.results = <<0, regs.rax>>
            \/ Restoring /\ n = 0
        BY <2>1, <2>2, <3>2, WaitPlaces
      <4> HIDE DEF act, n
      <4>2. ~(Setting /\ n = 1)
        <5>1. Setting => active.queue[1] = "epoll_wait"
          BY DEF Setting
        <5>2. n = 1 => active.queue[1] = "sigprocmask_restore"
          BY <3>1, <3>2
        <5>3. QED
          BY <5>1, <5>2
      <4>3. QED
        BY <2>4, <4>1, <4>2 DEF Waiting
    <3>3. QED
      BY <2>2, <3>1, <3>2 DEF Answering
  <2>5. CASE ~(n > 0)
    BY <2>1, <2>5 DEF Finish, Idle, Answering
  <2>6. QED
    BY <2>4, <2>5
<1>6. CASE StepFixup
  BY <1>6 DEF StepFixup, Idle, Answering
<1>7. CASE StepEntry
  <2>1. /\ active'.kind = active.kind /\ active'.running = active.running
        /\ active'.results = active.results
    BY <1>7 DEF StepEntry, IInv, TypeOK, ActiveType
  <2>2. where' # "exit"
    BY <1>7 DEF StepEntry, ResumeAfterStep, Resume
  <2>3. QED
    BY <2>1, <2>2 DEF Answering
<1>8. CASE AppCall \/ Sigreturn
  BY <1>1, <1>8 DEF AppCall, Sigreturn, Enter, tracer
<1>9. CASE SendSignal \/ TakeSignal \/ LeaveKernel \/ OnStopped \/ UNCHANGED vars
  BY <1>1, <1>9 DEF SendSignal, TakeSignal, LeaveKernel, OnStopped, Resume, StartHandler,
                    vars, tracee, tracer
<1>10. QED
  BY <1>2, <1>3, <1>4, <1>5, <1>6, <1>7, <1>8, <1>9 DEF Next

\* An emulated epoll_pwait that got as far as its wait answers what the wait
\* returned, whether or not the kernel then lets the mask be put back (Answer,
\* the outcome of Emulations::epoll_pwait).
THEOREM WaitAlwaysAnswered == Spec => WaitAnswered
<1> DEFINE A == (active.kind = "epoll_pwait" /\ active'.kind = "none" /\ Len(active.results) >= 1)
                  => regs'.rax = Append(active.results, regs.rax)[2]
<1>1. Init => Answering
  BY DEF Init, Idle, Answering
<1>2. IInv /\ Answering /\ [Next]_vars => A
  <2> SUFFICES ASSUME IInv, Answering, [Next]_vars, active.kind = "epoll_pwait",
                      active'.kind = "none", Len(active.results) >= 1
               PROVE  regs'.rax = Append(active.results, regs.rax)[2]
    OBVIOUS
  <2>1. StepCollect
    <3>1. ~UNCHANGED active
      OBVIOUS
    <3>2. QED
      BY <3>1 DEF Next, AppCall, Sigreturn, SendSignal, TakeSignal, LeaveKernel, Run, RunPlain,
                  RunSigprocmask, RunFiles, RunPipe, RunSigreturn, EndWait, InterruptWait,
                  OnStopped, OnSyscall, Busy, StepFixup, StepEntry, IInv, TypeOK, ActiveType,
                  vars, tracer
  <2>2. PICK captured \in BOOLEAN :
          /\ captured => active.running = "pipe" /\ Reopenable(scratchPair[2])
          /\ LET act == Collected(captured)
                 n == Popped(act.queue, act.results)
             IN  IF n > 0 THEN Inject(act, n) ELSE Finish(act)
    BY <2>1 DEF StepCollect
  <2> DEFINE act == Collected(captured)
             n == Popped(act.queue, act.results)
  <2>3. where = "exit"
    BY <2>1 DEF StepCollect, IInv, Directions, Busy, InSequence, SequenceCalls
  <2>4. /\ act \in ActiveType /\ act.kind = active.kind /\ act.saved = active.saved
        /\ active.running # "pipe" => act.results = Append(active.results, regs.rax)
    BY <2>2, CollectedTyped DEF IInv
  <2> HIDE DEF act
  <2>5. ~(n > 0)
    BY <2>2, <2>4 DEF Inject, ActiveType, act
  <2>6. Restoring
    BY <2>2, <2>3, <2>5, WaitPlaces DEF Setting, Waiting, act
  <2>7. /\ Len(active.results) = 2 /\ active.results[1] = 0 /\ Plain(active.results[2])
        /\ active.results \in Seq(Int) /\ regs.rax \in Int
        /\ act.results = Append(active.results, regs.rax)
    BY <2>4, <2>6 DEF Restoring, Answering, IInv, TypeOK, ActiveType, RegsType
  <2>8. /\ act.results \in Seq(Int) /\ Len(act.results) >= 2
        /\ act.results[1] = 0 /\ act.results[2] = active.results[2]
    BY <2>7
  <2>9. Answer(2, act.results, act.fd) = act.results[2]
    BY <2>7, <2>8, AnswerOfWait
  <2>10. regs' = [act.saved EXCEPT !.rax = Answer(OutcomeOf(act.kind), act.results, act.fd)]
    BY <2>2, <2>5 DEF Finish, act
  <2>11. regs'.rax = Answer(2, act.results, act.fd)
    BY <2>4, <2>10 DEF OutcomeOf, ActiveType, RegsType
  <2>12. QED
    BY <2>7, <2>9, <2>11
<1>3. QED
  BY <1>1, <1>2, Invariance, AnsweringStep, PTL DEF Spec, WaitAnswered

-----------------------------------------------------------------------------
(* Signals on their way.                                                   *)

\* A signal is reported at its own stop only.
Reported == stopSig # {} => where = "signal"

\* A signal that was sent stays on its way until its handler runs, across holding
\* it back, the end of the emulation and the hand-over after it; only a later one
\* takes its place in stashed_signal (Wait::Stopped).
THEOREM SignalNeverDropped == Spec => NoSignalDropped
<1> DEFINE A == \A s \in InFlight \cap owed' :
                  s \in InFlight' \/ (where = "signal" /\ s \in held /\ held' = stopSig)
<1>1. Init => Reported
  BY DEF Init, Reported
<1>2. Reported /\ [Next]_vars => Reported' /\ A
  <2> SUFFICES ASSUME Reported, [Next]_vars PROVE Reported' /\ A
    OBVIOUS
  <2>1. CASE AppCall \/ Sigreturn
    BY <2>1 DEF AppCall, Sigreturn, Enter, Reported, InFlight, tracer
  <2>2. CASE Run \/ EndWait \/ InterruptWait
    <3>1. where = "kernel"
      BY <2>2 DEF Run, RunPlain, RunSigprocmask, RunFiles, RunPipe, RunSigreturn, EndWait,
                  InterruptWait, Return, Allocate, Change
    <3>2. UNCHANGED <<pending, stopSig, held>>
      BY <2>2 DEF Run, RunPlain, RunSigprocmask, RunFiles, RunPipe, RunSigreturn, EndWait,
                  InterruptWait, tracer
    <3>3. QED
      BY <3>1, <3>2 DEF Reported, InFlight
  <2>3. CASE SendSignal \/ LeaveKernel \/ UNCHANGED vars
    BY <2>3 DEF SendSignal, LeaveKernel, vars, tracee, Reported, InFlight, tracer, ghosts
  <2>4. CASE TakeSignal
    BY <2>4 DEF TakeSignal, Reported, InFlight, tracer, ghosts
  <2>5. CASE OnStopped
    BY <2>5 DEF OnStopped, Resume, StartHandler, Reported, InFlight
  <2>6. CASE OnSyscall
    BY <2>6 DEF OnSyscall, Resume, Reported, InFlight
  <2>7. CASE StepFixup \/ StepEntry \/ StepCollect
    BY <2>7 DEF StepFixup, StepEntry, StepCollect, ResumeAfterStep, Resume, Reported, InFlight
  <2>8. QED
    BY <2>1, <2>2, <2>3, <2>4, <2>5, <2>6, <2>7 DEF Next
<1>3. QED
  BY <1>1, <1>2, PTL DEF Spec, NoSignalDropped

-----------------------------------------------------------------------------
(* Descriptors.  A sequence may close or change a descriptor only if it    *)
(* made it: the tracer learns the numbers from a result (socket) or from   *)
(* the scratch area (pipe), and acts on them in later calls.               *)

\* Not a descriptor the application had when the emulation began.
Own(f) == f \in Fds => active.before[f] = "free"

SocketSteps == {"bind", "connect", "nonblock", "write_initial"}
PipeSteps == {"close_write_end", "nonblock"}
QuietSteps == Steps \ {"bind", "connect", "close_write_end"}

Descriptors ==
    /\ OwnFilesUntouched
    /\ InSequence => regs.fd = FdOf(active.running, active)
    /\ active.kind = "eventfd" =>
         /\ active.queue \in Seq(SocketSteps)
         /\ IF active.running = "socket"
            THEN active.results = << >> /\ (where = "exit" => Own(regs.rax))
            ELSE active.running \in SocketSteps /\ Own(active.fd)
    /\ active.kind = "timerfd_create" =>
         /\ active.queue \in Seq(PipeSteps)
         /\ IF active.running = "pipe"
            THEN /\ active.results = << >>
                 /\ where = "exit" => \/ regs.rax = -EMFILE
                                      \/ regs.rax = 0 /\ Own(scratchPair[1]) /\ Own(scratchPair[2])
            ELSE active.running \in PipeSteps /\ Own(active.writeEnd)
    /\ (InSequence /\ active.kind \notin {"eventfd", "timerfd_create"}) =>
         active.running \in QuietSteps /\ active.queue \in Seq(QuietSteps)

\* Outside a sequence there is nothing to keep.
LEMMA OutsideDescriptors ==
  ASSUME ~InSequence' PROVE Descriptors'
BY DEF Descriptors, InSequence, SequenceCalls, OwnFilesUntouched

\* A step that neither changes the emulation nor returns from a call.
LEMMA StillDescriptors ==
  ASSUME Descriptors, UNCHANGED <<active, regs, files>>, where' # "exit"
  PROVE  Descriptors'
BY DEF Descriptors, InSequence, OwnFilesUntouched, Own

\* A number that is free now was free when the emulation began.
LEMMA FreeOwn ==
  ASSUME TypeOK, OwnFilesUntouched, InSequence, NEW f \in Free
  PROVE  f \in Fds /\ Own(f)
BY DEF OwnFilesUntouched, InSequence, Free, Own

\* Changes to descriptors that are the emulation's own touch no other.
LEMMA OwnChange ==
  ASSUME TypeOK, OwnFilesUntouched, InSequence, NEW f \in Fds, Own(f), NEW object,
         files' = [files EXCEPT ![f] = object], UNCHANGED active
  PROVE  OwnFilesUntouched'
BY DEF OwnFilesUntouched, InSequence, Own, TypeOK

\* A call of a sequence returns: what is left to show is its effect on
\* descriptors, and where the numbers it returns come from.
LEMMA ReturnDescriptors ==
  ASSUME IInv, Descriptors, InSequence, NEW rc \in Int, Return(rc), UNCHANGED active,
         OwnFilesUntouched',
         active.running = "socket" => Own(rc),
         active.running = "pipe" =>
           \/ rc = -EMFILE
           \/ rc = 0 /\ Own(scratchPair[1])' /\ Own(scratchPair[2])'
  PROVE  Descriptors'
<1>1. regs'.fd = regs.fd /\ regs'.rax = rc
  BY DEF Return, IInv, TypeOK, RegsType
<1>2. QED
  BY <1>1 DEF Descriptors, InSequence, Own

\* The calls of a sequence on descriptors: those that make one take a free
\* number, the others work on one the sequence has made.
LEMMA RunFilesDescriptors == IInv /\ Descriptors /\ RunFiles => Descriptors'
<1> SUFFICES ASSUME IInv, Descriptors, RunFiles PROVE Descriptors'
  OBVIOUS
<1>1. UNCHANGED active
  BY DEF RunFiles, tracer
<1>2. CASE ~InSequence
  BY <1>1, <1>2, OutsideDescriptors DEF InSequence
<1>3. CASE InSequence
  <2>1. regs.nr = active.running /\ active.running \in Steps
    BY <1>3 DEF IInv, TypeOK, ActiveType, CallNumbers
  <2>2. regs.nr # "pipe"
    BY DEF RunFiles
  <2>3. TypeOK /\ OwnFilesUntouched
    BY DEF IInv, Descriptors
  <2>4. ASSUME NEW object, Allocate(object) PROVE Descriptors'
    <3>1. CASE Free = {}
      <4>1. Return(-EMFILE) /\ UNCHANGED files
        BY <2>4, <3>1 DEF Allocate
      <4>2. Own(-EMFILE) /\ -EMFILE \in Int
        BY ConstantsAssumption DEF Own, EMFILE
      <4>3. OwnFilesUntouched'
        BY <1>1, <2>3, <4>1 DEF OwnFilesUntouched
      <4>4. QED
        BY <1>1, <1>3, <2>1, <2>2, <4>1, <4>2, <4>3, ReturnDescriptors
    <3>2. CASE Free # {}
      <4>1. Lowest(Free) \in Free /\ Lowest(Free) \in Int
        BY <3>2, LowestIn DEF Free
      <4>2. Own(Lowest(Free)) /\ Lowest(Free) \in Fds
        BY <1>3, <2>3, <4>1, FreeOwn
      <4>3. Return(Lowest(Free)) /\ files' = [files EXCEPT ![Lowest(Free)] = object]
        BY <2>4, <3>2 DEF Allocate
      <4>4. OwnFilesUntouched'
        BY <1>1, <1>3, <2>3, <4>2, <4>3, OwnChange
      <4>5. QED
        BY <1>1, <1>3, <2>1, <2>2, <4>1, <4>2, <4>3, <4>4, ReturnDescriptors
    <3>3. QED
      BY <3>1, <3>2
  <2>5. ASSUME regs.nr \in {"close_write_end", "bind", "connect"} PROVE Own(regs.fd)
    BY <1>3, <2>1, <2>5 DEF Descriptors, InSequence, SequenceCalls, FdOf, QuietSteps,
                            SocketSteps, PipeSteps
  <2>6. ASSUME NEW object, Change(object),
               regs.nr \in {"close_write_end", "bind", "connect"}
        PROVE  Descriptors'
    <3>1. CASE regs.fd \notin Fds \/ regs.fd \in Free
      <4>1. Return(-EBADF) /\ UNCHANGED files /\ -EBADF \in Int
        BY <2>6, <3>1 DEF Change, EBADF
      <4>2. OwnFilesUntouched'
        BY <1>1, <2>3, <4>1 DEF OwnFilesUntouched
      <4>3. QED
        BY <1>1, <1>3, <2>1, <2>6, <4>1, <4>2, ReturnDescriptors
    <3>2. CASE ~(regs.fd \notin Fds \/ regs.fd \in Free)
      <4>1. Return(0) /\ files' = [files EXCEPT ![regs.fd] = object]
        BY <2>6, <3>2 DEF Change
      <4>2. OwnFilesUntouched'
        BY <1>1, <1>3, <2>3, <2>5, <2>6, <3>2, <4>1, OwnChange
      <4>3. QED
        BY <1>1, <1>3, <2>1, <2>6, <4>1, <4>2, ReturnDescriptors
    <3>3. QED
      BY <3>1, <3>2
  <2>7. ASSUME NEW rc \in Int, Return(rc), UNCHANGED files, regs.nr \notin {"socket", "pipe"}
        PROVE  Descriptors'
    <3>1. OwnFilesUntouched'
      BY <1>1, <2>3, <2>7 DEF OwnFilesUntouched
    <3>2. QED
      BY <1>1, <1>3, <2>1, <2>7, <3>1, ReturnDescriptors
  <2>8. regs.nr \notin {"open", "close"}
    BY <2>1 DEF Steps
  <2>9. -EADDRINUSE \in Int /\ -EBADF \in Int /\ -EACCES \in Int
    BY DEF EADDRINUSE, EBADF, EACCES
  <2>10. QED
    BY <2>4, <2>6, <2>7, <2>8, <2>9 DEF RunFiles
<1>4. QED
  BY <1>2, <1>3

\* A pipe takes two free numbers.
LEMMA RunPipeDescriptors == IInv /\ Descriptors /\ RunPipe => Descriptors'
<1> SUFFICES ASSUME IInv, Descriptors, RunPipe PROVE Descriptors'
  OBVIOUS
<1>1. UNCHANGED active
  BY DEF RunPipe, tracer
<1>2. CASE ~InSequence
  BY <1>1, <1>2, OutsideDescriptors DEF InSequence
<1>3. CASE InSequence
  <2>1. active.running = "pipe"
    BY <1>3 DEF IInv, CallNumbers, RunPipe
  <2>2. TypeOK /\ OwnFilesUntouched
    BY DEF IInv, Descriptors
  <2>3. CASE Cardinality(Free) < 2
    <3>1. Return(-EMFILE) /\ UNCHANGED files /\ -EMFILE \in Int
      BY <2>3 DEF RunPipe, EMFILE
    <3>2. OwnFilesUntouched'
      BY <1>1, <2>2, <3>1 DEF OwnFilesUntouched
    <3>3. QED
      BY <1>1, <1>3, <2>1, <3>1, <3>2, ReturnDescriptors
  <2>4. CASE ~(Cardinality(Free) < 2)
    <3> DEFINE r == Lowest(Free)
               w == Lowest(Free \ {r})
    <3>1. Free \in SUBSET Fds /\ Free \ {r} \in SUBSET Fds
      BY DEF Free
    <3>2. Free # {}
      BY <2>4, FS_EmptySet
    <3>3. Free # {r}
      <4>1. Cardinality({r}) = 1
        BY FS_Singleton, Zenon
      <4>2. QED
        BY <2>4, <4>1
    <3>4. r \in Free /\ w \in Free
      BY <3>1, <3>2, <3>3, LowestIn
    <3>5. Return(0) /\ files' = [files EXCEPT ![r] = "pipeR", ![w] = "pipeW"]
          /\ scratchPair' = <<r, w>>
      BY <2>4 DEF RunPipe
    <3> HIDE DEF r, w
    <3>6. r \in Fds /\ w \in Fds /\ Own(r) /\ Own(w)
      BY <1>3, <2>2, <3>4, FreeOwn
    <3>7. OwnFilesUntouched'
      BY <1>1, <1>3, <2>2, <3>5, <3>6 DEF OwnFilesUntouched, InSequence, Own, TypeOK
    <3>8. Own(scratchPair[1])' /\ Own(scratchPair[2])'
      BY <1>1, <3>5, <3>6 DEF Own
    <3>9. QED
      BY <1>1, <1>3, <2>1, <3>5, <3>7, <3>8, ReturnDescriptors
  <2>5. QED
    BY <2>3, <2>4
<1>4. QED
  BY <1>2, <1>3

\* The other calls of a sequence leave descriptors alone.
LEMMA RunOtherDescriptors ==
  IInv /\ Descriptors /\ (RunPlain \/ RunSigprocmask \/ EndWait \/ InterruptWait)
    => Descriptors'
<1> SUFFICES ASSUME IInv, Descriptors, RunPlain \/ RunSigprocmask \/ EndWait \/ InterruptWait
             PROVE  Descriptors'
  OBVIOUS
<1>1. UNCHANGED <<active, files>>
  BY DEF RunPlain, RunSigprocmask, EndWait, InterruptWait, tracer
<1>2. CASE ~InSequence
  BY <1>1, <1>2, OutsideDescriptors DEF InSequence
<1>3. CASE InSequence
  <2>1. regs.nr = active.running
    BY <1>3 DEF IInv, CallNumbers
  <2>2. regs.nr \notin {"socket", "pipe"}
    BY DEF RunPlain, RunSigprocmask, EndWait, InterruptWait, SequenceCalls, FixupCalls
  <2>3. PICK rc \in Int : Return(rc)
    BY DEF RunPlain, RunSigprocmask, EndWait, InterruptWait, ESPIPE, EACCES, EFAULT,
           ENOSYS, EBADF, EINTR
  <2>4. OwnFilesUntouched'
    BY <1>1 DEF Descriptors, OwnFilesUntouched
  <2>5. QED
    BY <1>1, <1>3, <2>1, <2>2, <2>3, <2>4, ReturnDescriptors
<1>4. QED
  BY <1>2, <1>3

\* q begins with the call x and goes on with calls in T.
Begins(q, x, T) == q # << >> /\ Head(q) = x /\ Tail(q) \in Seq(T)

\* Optional calls at the end of a sequence.
LEMMA BeginsConcat ==
  ASSUME NEW T, NEW x, NEW q \in Seq(T \cup {x}), Begins(q, x, T), NEW t \in Seq(T)
  PROVE  q \o t \in Seq(T \cup {x}) /\ Begins(q \o t, x, T)
<1> DEFINE c == q \o t
<1>1. t \in Seq(T \cup {x})
  OBVIOUS
<1>2. /\ c \in Seq(T \cup {x}) /\ Len(c) = Len(q) + Len(t)
      /\ \A i \in 1 .. Len(q) + Len(t) : c[i] = IF i <= Len(q) THEN q[i] ELSE t[i - Len(q)]
  BY <1>1, ConcatProperties
<1>3. Len(q) >= 1 /\ q[1] = x
  BY DEF Begins
<1>4. \A i \in 2 .. Len(q) : q[i] \in T
  <2> TAKE i \in 2 .. Len(q)
  <2>1. i - 1 \in 1 .. Len(Tail(q)) /\ Tail(q)[i - 1] = q[i]
    BY <1>3, HeadTailProperties DEF Begins
  <2>2. QED
    BY <2>1 DEF Begins
<1> HIDE DEF c
<1>5. c # << >> /\ Head(c) = x
  BY <1>2, <1>3
<1>6. /\ Tail(c) \in Seq(T \cup {x}) /\ Len(Tail(c)) = Len(c) - 1
      /\ \A i \in 1 .. Len(c) - 1 : Tail(c)[i] = c[i + 1]
  BY <1>2, <1>5, HeadTailProperties
<1>7. \A i \in 1 .. Len(c) - 1 : Tail(c)[i] \in T
  <2> TAKE i \in 1 .. Len(c) - 1
  <2>1. CASE i + 1 <= Len(q)
    BY <1>2, <1>4, <1>6, <2>1
  <2>2. CASE i + 1 > Len(q)
    <3>1. i + 1 - Len(q) \in 1 .. Len(t) /\ c[i + 1] = t[i + 1 - Len(q)]
      BY <1>2, <2>2
    <3>2. QED
      BY <1>6, <3>1
  <2>3. QED
    BY <2>1, <2>2
<1>8. Tail(c) \in Seq(T)
  <2> DEFINE k == Len(Tail(c))
             z == Tail(c)
  <2>1. k \in Nat /\ z \in [1 .. k -> T \cup {x}] /\ \A i \in 1 .. k : z[i] \in T
    BY <1>6, <1>7, LenProperties
  <2> HIDE DEF k, z
  <2>2. z \in [1 .. k -> T]
    BY <2>1
  <2>3. z \in Seq(T)
    <3> DEFINE S == {[1 .. j -> T] : j \in Nat}
    <3>1. [1 .. k -> T] \in S
      BY <2>1
    <3> HIDE DEF S
    <3>2. z \in UNION S
      BY <2>2, <3>1
    <3>3. QED
      BY <3>2, SeqDef DEF S
  <2>4. QED
    BY <2>3 DEF z
<1>9. QED
  BY <1>2, <1>5, <1>8 DEF Begins, c

\* What begin queues: a call that makes a descriptor comes first, those that
\* work on it after it.
LEMMA QueueDescriptors ==
  ASSUME NEW r \in RegsType, r.nr \in SequenceCalls
  PROVE  /\ r.nr = "eventfd" => Begins(QueueOf(r), "socket", SocketSteps)
         /\ r.nr = "timerfd_create" => Begins(QueueOf(r), "pipe", PipeSteps)
         /\ r.nr \notin {"eventfd", "timerfd_create"} =>
              Head(QueueOf(r)) \in QuietSteps /\ Tail(QueueOf(r)) \in Seq(QuietSteps)
<1>1. ASSUME r.nr = "eventfd" PROVE Begins(QueueOf(r), "socket", SocketSteps)
  <2> DEFINE s == <<"socket", "bind", "connect">>
             t == IF "nonblock" \in r.opts THEN <<"nonblock">> ELSE << >>
             u == IF "initial" \in r.opts THEN <<"write_initial">> ELSE << >>
  <2>1. QueueOf(r) = (s \o t) \o u
    BY <1>1 DEF QueueOf, EventfdSeq
  <2>2. s \in Seq(SocketSteps \cup {"socket"}) /\ Begins(s, "socket", SocketSteps)
    BY DEF SocketSteps, Begins
  <2>3. t \in Seq(SocketSteps) /\ u \in Seq(SocketSteps)
    <3>1. /\ << >> \in Seq(SocketSteps)
          /\ <<"nonblock">> \in Seq(SocketSteps) /\ <<"write_initial">> \in Seq(SocketSteps)
      BY DEF SocketSteps
    <3>2. QED
      BY <3>1
  <2> HIDE DEF s, t, u
  <2>4. /\ s \o t \in Seq(SocketSteps \cup {"socket"})
        /\ Begins(s \o t, "socket", SocketSteps)
    BY <2>2, <2>3, BeginsConcat
  <2>5. QED
    BY <2>1, <2>3, <2>4, BeginsConcat
<1>2. ASSUME r.nr = "timerfd_create" PROVE Begins(QueueOf(r), "pipe", PipeSteps)
  <2> DEFINE s == <<"pipe", "close_write_end">>
             t == IF "nonblock" \in r.opts THEN <<"nonblock">> ELSE << >>
  <2>1. QueueOf(r) = s \o t
    BY <1>2 DEF QueueOf, TimerfdCreateSeq
  <2>2. s \in Seq(PipeSteps \cup {"pipe"}) /\ Begins(s, "pipe", PipeSteps)
    BY DEF PipeSteps, Begins
  <2>3. t \in Seq(PipeSteps)
    <3>1. << >> \in Seq(PipeSteps) /\ <<"nonblock">> \in Seq(PipeSteps)
      BY DEF PipeSteps
    <3>2. QED
      BY <3>1
  <2> HIDE DEF s, t
  <2>4. QED
    BY <2>1, <2>2, <2>3, BeginsConcat
<1>3. ASSUME r.nr \notin {"eventfd", "timerfd_create"}
      PROVE  Head(QueueOf(r)) \in QuietSteps /\ Tail(QueueOf(r)) \in Seq(QuietSteps)
  <2>1. CASE r.nr = "epoll_pwait"
    BY <2>1 DEF QueueOf, EpollPwaitSeq, QuietSteps, Steps
  <2>2. CASE r.nr = "vector_io"
    BY <2>2 DEF QueueOf, VectorIoSeq, QuietSteps, Steps
  <2>3. CASE r.nr = "dupfd_cloexec"
    BY <2>3 DEF QueueOf, DupfdCloexecSeq, QuietSteps, Steps
  <2>4. QED
    BY <1>3, <2>1, <2>2, <2>3 DEF SequenceCalls
<1>4. QED
  BY <1>1, <1>2, <1>3

\* begin notes the descriptors there are and has made none yet.
LEMMA OnSyscallDescriptors == IInv /\ Descriptors /\ OnSyscall => Descriptors'
<1> SUFFICES ASSUME IInv, Descriptors, OnSyscall PROVE Descriptors'
  OBVIOUS
<1>1. CASE Entering /\ StartSequence
  <2> DEFINE queue == QueueOf(regs)
             act == [kind |-> regs.nr, saved |-> regs, queue |-> Tail(queue),
                     running |-> Head(queue), atEntry |-> FALSE, results |-> << >>,
                     fd |-> NoFd, writeEnd |-> NoFd, before |-> files]
  <2>1. /\ regs.nr \in SequenceCalls /\ active' = act
        /\ regs' = Build(Head(queue), act, regs.rip)
        /\ files' = files
    BY <1>1 DEF StartSequence, OnSyscall
  <2>2. where' # "exit"
    <3>1. where = "exit" => inSyscall
      BY DEF IInv, Directions, OnSyscall
    <3>2. QED
      BY <1>1, <3>1 DEF OnSyscall, Resume, Entering
  <2>3. /\ regs.nr = "eventfd" => Begins(queue, "socket", SocketSteps)
        /\ regs.nr = "timerfd_create" => Begins(queue, "pipe", PipeSteps)
        /\ regs.nr \notin {"eventfd", "timerfd_create"} =>
             Head(queue) \in QuietSteps /\ Tail(queue) \in Seq(QuietSteps)
    BY <2>1, QueueDescriptors DEF IInv, TypeOK
  <2> HIDE DEF queue
  <2>4. regs'.fd = FdOf(Head(queue), act)
    BY <2>1 DEF Build, Regs
  <2>5. /\ active'.kind = regs.nr /\ active'.queue = Tail(queue) /\ active'.running = Head(queue)
        /\ active'.results = << >> /\ active'.before = files
    BY <2>1
  <2>6. OwnFilesUntouched'
    BY <2>1, <2>5 DEF OwnFilesUntouched
  <2> HIDE DEF act
  <2>7. QED
    BY <2>1, <2>2, <2>3, <2>4, <2>5, <2>6 DEF Descriptors, Begins
<1>2. CASE StandIn
  <2>1. ~InSequence'
    BY <1>2 DEF StandIn, Fixup, Idle, InSequence, SequenceCalls
  <2>2. QED
    BY <2>1, OutsideDescriptors
<1>3. CASE NotEmulated
  <2>1. ~InSequence'
    BY <1>3 DEF OnSyscall, NotEmulated, InSequence, Busy, SequenceCalls
  <2>2. QED
    BY <2>1, OutsideDescriptors
<1>4. QED
  BY <1>1, <1>2, <1>3 DEF OnSyscall

\* What is not negative is no error.
LEMMA NotError ==
  ASSUME NEW r \in Int, r >= 0
  PROVE  ~IsError(r)
<1>1. IsError(r) => r <= -1
  BY DEF IsError
<1>2. QED
  BY <1>1

\* A failed call with no cleanup queued is the last one.
LEMMA PoppedOnFailure ==
  ASSUME NEW queue, Cleanups(queue) = {}, NEW rs \in Seq(Int), NEW k \in 1 .. Len(rs),
         IsError(rs[k])
  PROVE  Popped(queue, rs) = 0
<1> DEFINE bad == {i \in 1 .. Len(rs) : IsError(rs[i])}
           first == CHOOSE i \in bad : \A j \in bad : i <= j
<1>1. bad \in SUBSET Nat /\ bad # {}
  <2>1. k \in bad /\ \A i \in bad : i \in Nat
    OBVIOUS
  <2> HIDE DEF bad
  <2>2. QED
    BY <2>1
<1>2. first \in bad
  <2> HIDE DEF bad
  <2>1. \E i \in bad : \A j \in bad : i <= j
    BY <1>1, NatMin
  <2>2. QED
    BY <2>1
<1>3. Failure(rs) = rs[first] /\ IsError(rs[first])
  BY <1>1, <1>2 DEF Failure
<1>4. Failure(rs) # 0
  <2>1. ~IsError(0)
    BY NotError
  <2>2. QED
    BY <1>3, <2>1
<1>5. QED
  BY <1>4 DEF Popped

\* What step learns from the call that returned: the descriptor it may change
\* and the write end it may close are the sequence's own.
LEMMA CollectedOwn ==
  ASSUME IInv, Descriptors, InSequence, where = "exit", NEW captured \in BOOLEAN,
         captured => active.running = "pipe" /\ Reopenable(scratchPair[2])
  PROVE  LET act == Collected(captured)
         IN  /\ act.before = active.before
             /\ active.kind = "eventfd" => Own(act.fd)
             /\ (active.kind = "timerfd_create" /\ Popped(act.queue, act.results) > 0)
                  => Own(act.writeEnd)
<1> DEFINE act == Collected(captured)
           rs == Append(active.results, regs.rax)
<1>1. /\ active.results \in Seq(Int) /\ regs.rax \in Int /\ active \in ActiveType
      /\ rs \in Seq(Int)
  BY DEF IInv, TypeOK, ActiveType, RegsType
<1>2. /\ act.before = active.before /\ act.queue = active.queue
      /\ act.results = IF active.running = "pipe" /\ ~captured THEN Append(rs, -EIO) ELSE rs
      /\ act.fd = IF captured THEN scratchPair[1]
                  ELSE IF Len(rs) = 1 /\ active.running \in MakesFd THEN regs.rax ELSE active.fd
      /\ act.writeEnd = IF captured THEN scratchPair[2] ELSE active.writeEnd
  BY <1>1 DEF Collected, ActiveType
<1> HIDE DEF act
<1>3. ASSUME active.kind = "eventfd" PROVE Own(act.fd)
  <2>1. CASE active.running = "socket"
    <3>1. Len(rs) = 1 /\ ~captured /\ Own(regs.rax)
      BY <1>1, <1>3, <2>1 DEF Descriptors
    <3>2. QED
      BY <1>2, <2>1, <3>1 DEF MakesFd
  <2>2. CASE active.running # "socket"
    <3>1. active.running \in SocketSteps /\ Own(active.fd)
      BY <1>3, <2>2 DEF Descriptors
    <3>2. active.running \notin MakesFd /\ ~captured
      BY <3>1 DEF SocketSteps, MakesFd
    <3>3. QED
      BY <1>2, <3>1, <3>2
  <2>3. QED
    BY <2>1, <2>2
<1>4. ASSUME active.kind = "timerfd_create", Popped(act.queue, act.results) > 0
      PROVE  Own(act.writeEnd)
  <2>1. CASE active.running = "pipe"
    <3>1. active.results = << >> /\ active.queue \in Seq(PipeSteps)
      BY <1>4, <2>1 DEF Descriptors
    <3>2. Cleanups(active.queue) = {}
      BY <3>1 DEF Cleanups, AlwaysSteps, PipeSteps
    <3>3. act.results \in Seq(Int)
      BY <1>1, <1>2 DEF EIO
    <3>4. captured
      <4> SUFFICES ASSUME ~captured PROVE FALSE
        OBVIOUS
      <4>1. act.results = Append(rs, -5) /\ Len(rs) = 1
        BY <1>1, <1>2, <2>1, <3>1 DEF EIO
      <4>2. 2 \in 1 .. Len(act.results) /\ act.results[2] = -5
        BY <1>1, <4>1
      <4>3. IsError(-5)
        BY DEF IsError
      <4>4. Popped(active.queue, act.results) = 0
        BY <3>2, <3>3, <4>2, <4>3, PoppedOnFailure
      <4>5. QED
        BY <1>2, <1>4, <4>4
    <3>5. regs.rax # -24
      <4> SUFFICES ASSUME regs.rax = -24 PROVE FALSE
        OBVIOUS
      <4>1. act.results = <<-24>>
        BY <1>2, <3>1, <3>4
      <4>2. 1 \in 1 .. Len(act.results) /\ act.results[1] = -24
        BY <4>1
      <4>3. IsError(-24)
        BY DEF IsError
      <4>4. Popped(active.queue, act.results) = 0
        BY <3>2, <3>3, <4>2, <4>3, PoppedOnFailure
      <4>5. QED
        BY <1>2, <1>4, <4>4
    <3>6. Own(scratchPair[2])
      BY <1>4, <2>1, <3>5 DEF Descriptors, EMFILE
    <3>7. QED
      BY <1>2, <3>4, <3>6
  <2>2. CASE active.running # "pipe"
    BY <1>2, <1>4, <2>2 DEF Descriptors
  <2>3. QED
    BY <2>1, <2>2
<1>5. QED
  BY <1>2, <1>3, <1>4 DEF act

\* step at the end of an injected call: the next call works on what the
\* sequence has made, and an emulation that ends leaves nothing to do.
LEMMA StepCollectDescriptors == IInv /\ Descriptors /\ StepCollect => Descriptors'
<1> SUFFICES ASSUME IInv, Descriptors, StepCollect PROVE Descriptors'
  OBVIOUS
<1>1. PICK captured \in BOOLEAN :
        /\ captured => active.running = "pipe" /\ Reopenable(scratchPair[2])
        /\ LET act == Collected(captured)
               n == Popped(act.queue, act.results)
           IN  IF n > 0 THEN Inject(act, n) ELSE Finish(act)
  BY DEF StepCollect
<1> DEFINE act == Collected(captured)
           n == Popped(act.queue, act.results)
<1>2. where = "exit" /\ InSequence /\ where' # "exit" /\ files' = files
  BY DEF StepCollect, ResumeAfterStep, Resume, IInv, Directions, Busy, InSequence, SequenceCalls
<1>3. /\ act \in ActiveType /\ act.kind = active.kind /\ act.queue = active.queue
  BY <1>1, CollectedTyped DEF IInv
<1>4. /\ act.before = active.before
      /\ active.kind = "eventfd" => Own(act.fd)
      /\ (active.kind = "timerfd_create" /\ n > 0) => Own(act.writeEnd)
  BY <1>1, <1>2, CollectedOwn
<1>5. n \in 0 .. Len(act.queue)
  BY <1>3, PoppedRange DEF ActiveType
<1>6. IF n > 0 THEN Inject(act, n) ELSE Finish(act)
  BY <1>1
<1> HIDE DEF act, n
<1>7. CASE n > 0
  <2> DEFINE rest == SubSeq(act.queue, n + 1, Len(act.queue))
  <2>1. /\ active'.kind = active.kind /\ active'.before = active.before
        /\ active'.fd = act.fd /\ active'.writeEnd = act.writeEnd /\ active'.saved = act.saved
        /\ active'.running = act.queue[n] /\ active'.queue = rest
    BY <1>3, <1>4, <1>6, <1>7 DEF Inject, ActiveType
  <2>2. regs'.fd = FdOf(act.queue[n], act)
    BY <1>6, <1>7 DEF Inject, Build, Regs
  <2>3. regs'.fd = FdOf(active'.running, active')
    BY <2>1, <2>2 DEF FdOf
  <2>4. \A T : act.queue \in Seq(T) => act.queue[n] \in T /\ rest \in Seq(T)
    BY <1>5, <1>7, SeqParts
  <2> HIDE DEF rest
  <2>5. OwnFilesUntouched'
    BY <1>2, <2>1 DEF Descriptors, OwnFilesUntouched
  <2>6. active.kind = "eventfd" =>
          /\ active'.queue \in Seq(SocketSteps) /\ active'.running \in SocketSteps
          /\ active'.running # "socket" /\ Own(active'.fd)
    BY <1>3, <1>4, <2>1, <2>4 DEF Descriptors, SocketSteps
  <2>7. active.kind = "timerfd_create" =>
          /\ active'.queue \in Seq(PipeSteps) /\ active'.running \in PipeSteps
          /\ active'.running # "pipe" /\ Own(active'.writeEnd)
    BY <1>3, <1>4, <1>7, <2>1, <2>4 DEF Descriptors, PipeSteps
  <2>8. active.kind \notin {"eventfd", "timerfd_create"} =>
          active'.running \in QuietSteps /\ active'.queue \in Seq(QuietSteps)
    BY <1>2, <1>3, <2>1, <2>4 DEF Descriptors
  <2>9. QED
    BY <2>1, <2>3, <2>5, <2>6, <2>7, <2>8 DEF Descriptors, Own
<1>8. CASE ~(n > 0)
  <2>1. ~InSequence'
    BY <1>6, <1>8 DEF Finish, Idle, InSequence, SequenceCalls
  <2>2. QED
    BY <2>1, OutsideDescriptors
<1>9. QED
  BY <1>7, <1>8

\* Every step keeps descriptors apart.
LEMMA DescriptorsStep == IInv /\ Descriptors /\ [Next]_vars => Descriptors'
<1> SUFFICES ASSUME IInv, Descriptors, [Next]_vars PROVE Descriptors'
  OBVIOUS
<1>1. CASE AppCall \/ Sigreturn
  <2>1. ~InSequence'
    BY <1>1 DEF AppCall, Sigreturn, Enter, tracer, IInv, Directions, Busy, InSequence,
                SequenceCalls
  <2>2. QED
    BY <2>1, OutsideDescriptors
<1>2. CASE SendSignal
  BY <1>2 DEF SendSignal, tracer, Descriptors, InSequence, OwnFilesUntouched, Own
<1>3. CASE TakeSignal \/ LeaveKernel
  BY <1>3, StillDescriptors DEF TakeSignal, LeaveKernel, tracer
<1>4. CASE Run
  <2>1. CASE RunSigreturn
    <3>1. ~InSequence'
      BY <2>1 DEF RunSigreturn, tracer, IInv, TypeOK, ActiveType, CallNumbers, InSequence, Steps
    <3>2. QED
      BY <3>1, OutsideDescriptors
  <2>2. QED
    BY <1>4, <2>1, RunFilesDescriptors, RunPipeDescriptors, RunOtherDescriptors DEF Run
<1>5. CASE EndWait \/ InterruptWait
  BY <1>5, RunOtherDescriptors
<1>6. CASE OnStopped
  <2>1. CASE MustHold
    BY <1>6, <2>1, StillDescriptors DEF OnStopped, Resume
  <2>2. CASE ~MustHold
    <3>1. ~InSequence'
      BY <1>6, <2>2 DEF OnStopped, MustHold, Busy, InSequence, SequenceCalls
    <3>2. QED
      BY <3>1, OutsideDescriptors
  <2>3. QED
    BY <2>1, <2>2
<1>7. CASE OnSyscall
  BY <1>7, OnSyscallDescriptors
<1>8. CASE StepFixup
  <2>1. ~InSequence'
    BY <1>8 DEF StepFixup, Idle, InSequence, SequenceCalls
  <2>2. QED
    BY <2>1, OutsideDescriptors
<1>9. CASE StepEntry
  <2>1. /\ active'.kind = active.kind /\ active'.running = active.running
        /\ active'.queue = active.queue /\ active'.results = active.results
        /\ active'.fd = active.fd /\ active'.writeEnd = active.writeEnd
        /\ active'.saved = active.saved /\ active'.before = active.before
    BY <1>9 DEF StepEntry, IInv, TypeOK, ActiveType
  <2>2. UNCHANGED <<regs, files, scratchPair>> /\ where' # "exit"
    BY <1>9 DEF StepEntry, ResumeAfterStep, Resume
  <2>3. QED
    BY <2>1, <2>2 DEF Descriptors, InSequence, OwnFilesUntouched, Own, FdOf
<1>10. CASE StepCollect
  BY <1>10, StepCollectDescriptors
<1>11. CASE UNCHANGED vars
  BY <1>11 DEF vars, tracee, tracer, Descriptors, InSequence, OwnFilesUntouched, Own
<1>12. QED
  BY <1>1, <1>2, <1>3, <1>4, <1>5, <1>6, <1>7, <1>8, <1>9, <1>10, <1>11 DEF Next

\* A sequence never closes, reconfigures or replaces a descriptor that the
\* application had open, although descriptors are allocated in between and any
\* of its calls can fail (build's fd arguments, capture_pipe, step's failure
\* rule).
THEOREM OwnFilesNeverTouched == Spec => []OwnFilesUntouched
<1>1. Init => Descriptors
  BY DEF Init, Idle, Descriptors, InSequence, SequenceCalls, OwnFilesUntouched
<1>2. Descriptors => OwnFilesUntouched
  BY DEF Descriptors
<1>3. QED
  BY <1>1, <1>2, Invariance, DescriptorsStep, PTL DEF Spec
=============================================================================
