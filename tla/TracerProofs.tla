---------------------------- MODULE TracerProofs ----------------------------
(***************************************************************************)
(* Proofs about the tracer loop, for any number of tasks, any calls and    *)
(* both modes.                                                             *)
(***************************************************************************)
EXTENDS Tracer, TLAPS

-----------------------------------------------------------------------------
(* Types, in every world that the constants can describe.                  *)

\* Where a task can be after its first and its next station.
LEMMA Stations ==
  ASSUME NEW k, NEW flag, NEW t
  PROVE  /\ FirstStation(k, flag) \in {"seccomp", "entry", "kernel"}
         /\ NextStation(t, flag) \in {"seccomp", "entry", "kernel", "exit", "user"}
BY DEF FirstStation, NextStation

\* What is the same for a task as long as nothing but its place changes.
LEMMA DieType ==
  ASSUME TypeOK, NEW p \in Pids, NEW status \in Statuses, Die(p, status)
  PROVE  task' \in [Pids -> TaskType] /\ mainStatus' \in Statuses
<1>1. ASSUME NEW t \in TaskType
      PROVE  [t EXCEPT !.st = "zombie", !.code = status] \in TaskType
  BY DEF TaskType
<1>2. task \in [Pids -> TaskType] /\ mainStatus \in Statuses
  BY DEF TypeOK
<1>3. QED
  BY <1>1, <1>2 DEF Die

\* Resuming a task keeps the types.
LEMMA ResumeType ==
  ASSUME TypeOK, NEW p \in Pids, NEW t \in TaskType, NEW flag \in BOOLEAN, NEW sig,
         Resume(p, t, flag, sig)
  PROVE  /\ task' \in [Pids -> TaskType] /\ mainStatus' \in Statuses
         /\ got' \in [pid : Pids, stop : Stops \cup {"none"}, sig : SignalNames]
<1>1. got' \in [pid : Pids, stop : Stops \cup {"none"}, sig : SignalNames]
  BY ConstantsAssumption DEF Resume, Nothing, SignalNames
<1>2. ResumedAs(t, flag, sig) \in TaskType
  <2> DEFINE st == IF t.st = "signal" /\ sig = "SIGSTOP" THEN "group" ELSE NextStation(t, flag)
             gadget == t.gadget /\ ~(t.st = "signal" /\ sig = "handled")
  <2>1. ResumedAs(t, flag, sig)
          = [t EXCEPT !.flag = flag, !.sig = "none", !.st = st, !.gadget = gadget]
    BY DEF ResumedAs
  <2>2. st \in Alive \cup {"none", "zombie", "free"}
    BY Stations DEF Alive, Stops
  <2>3. gadget \in BOOLEAN
    OBVIOUS
  <2> HIDE DEF st, gadget
  <2>4. [t EXCEPT !.flag = flag, !.sig = "none", !.st = st, !.gadget = gadget] \in TaskType
    BY <2>2, <2>3 DEF TaskType, SignalNames
  <2>5. QED
    BY <2>1, <2>4
<1>3. CASE ~Live(p)
  BY <1>1, <1>3 DEF Resume, TypeOK
<1>4. CASE Live(p) /\ t.st = "signal" /\ sig = "fatal"
  BY <1>1, <1>4, DieType DEF Resume, Statuses
<1>5. CASE Live(p) /\ ~(t.st = "signal" /\ sig = "fatal")
  BY <1>1, <1>2, <1>5 DEF Resume, TypeOK
<1>6. QED
  BY <1>3, <1>4, <1>5

\* struct Tracer and the loop's variables.
TracerTypes ==
    /\ configured \subseteq Pids /\ inSyscall \subseteq Pids
    /\ statx \subseteq Pids /\ termios2Get \subseteq Pids
    /\ reserved \subseteq Pids /\ expectEntry \subseteq Pids
    /\ lastSyscall \in [Pids -> AllKinds \cup {"none"}]
    /\ active \in [Pids -> 0 .. EmulationStops]
    /\ stashed \in [Pids -> SUBSET SignalNames]
    /\ mainCode \in Statuses /\ exitCode \in Statuses

KernelTypes ==
    /\ task \in [Pids -> TaskType] /\ mainStatus \in Statuses
    /\ got \in [pid : Pids, stop : Stops \cup {"none"}, sig : SignalNames]

\* The type invariant, as what the tracer and what the kernel keeps.
LEMMA Types == TypeOK <=> mode \in Modes /\ TracerTypes /\ KernelTypes
BY DEF TypeOK, TracerTypes, KernelTypes

\* The steps of tasks keep the types.
LEMMA KernelStepType ==
  ASSUME TypeOK, NEW p \in Pids,
         Syscall(p) \/ Gadget(p) \/ RunCall(p) \/ RunFork(p) \/ RunExec(p) \/ RunExit(p)
           \/ Kill(p) \/ TakeSignal(p)
  PROVE  TracerTypes' /\ KernelTypes'
<1> USE ConstantsAssumption
<1>1. TracerTypes'
  BY Types DEF TracerTypes, Syscall, Gadget, RunCall, RunFork, RunExec, RunExit, Kill, TakeSignal,
               tracerVars
<1>2. task \in [Pids -> TaskType] /\ NoTask \in TaskType
  BY DEF TypeOK, NoTask, TaskType, SignalNames, Statuses
<1>3. ASSUME RunExit(p) \/ Kill(p) PROVE KernelTypes'
  <2>1. PICK status \in Statuses : Die(p, status) /\ UNCHANGED got
    BY <1>3 DEF RunExit, Kill, Statuses
  <2>2. QED
    BY <2>1, DieType DEF KernelTypes, TypeOK
<1>4. ASSUME UNCHANGED <<got, mainStatus>>, task' \in [Pids -> TaskType] PROVE KernelTypes'
  BY <1>4 DEF KernelTypes, TypeOK
<1>5. CASE Syscall(p)
  <2>1. PICK k \in AllKinds :
          task' = [task EXCEPT ![p].call = k, ![p].st = FirstStation(k, task[p].flag)]
    BY <1>5 DEF Syscall
  <2>2. [task[p] EXCEPT !.call = k, !.st = FirstStation(k, task[p].flag)] \in TaskType
    BY <1>2, Stations DEF TaskType, Alive, Stops
  <2>3. QED
    BY <1>1, <1>2, <1>4, <1>5, <2>1, <2>2 DEF Syscall
<1>6. CASE Gadget(p)
  <2>1. [task[p] EXCEPT !.st = FirstStation("plain", task[p].flag)] \in TaskType
    BY <1>2, Stations DEF TaskType, Alive, Stops
  <2>2. QED
    BY <1>1, <1>2, <1>4, <1>6, <2>1 DEF Gadget
<1>7. CASE RunCall(p)
  <2>1. ASSUME NEW owes \in BOOLEAN
        PROVE  [task[p] EXCEPT !.st = AfterCall(task[p]), !.owes = owes] \in TaskType
    <3> DEFINE st == AfterCall(task[p])
    <3>1. st \in Alive
      BY DEF AfterCall, Alive, Stops
    <3>2. task[p] \in TaskType
      BY <1>2
    <3> HIDE DEF st
    <3>3. [task[p] EXCEPT !.st = st, !.owes = owes] \in TaskType
      BY <3>1, <3>2 DEF TaskType
    <3>4. QED
      BY <3>3 DEF st
  <2>2. \E owes \in BOOLEAN :
          task' = [task EXCEPT ![p].st = AfterCall(task[p]), ![p].owes = owes]
    BY <1>7, Zenon DEF RunCall
  <2>3. QED
    BY <1>1, <1>2, <1>4, <1>7, <2>1, <2>2 DEF RunCall
<1>8. CASE RunFork(p)
  <2>1. PICK q \in Pids :
          task' = [task EXCEPT ![p].st = "event",
                               ![q] = [NoTask EXCEPT
                                         !.st = "user", !.newborn = TRUE,
                                         !.leader = IF task[p].call = "fork" THEN q
                                                    ELSE task[p].leader]]
    BY <1>8 DEF RunFork
  <2>2. [NoTask EXCEPT !.st = "user", !.newborn = TRUE,
                       !.leader = IF task[p].call = "fork" THEN q ELSE task[p].leader] \in TaskType
    BY <1>2 DEF TaskType, Alive
  <2>3. task' \in [Pids -> TaskType]
    BY <1>2, <2>1, <2>2 DEF TaskType, Alive, Stops
  <2>4. QED
    BY <1>1, <1>4, <1>8, <2>3 DEF RunFork
<1>9. CASE RunExec(p)
  <2>1. ASSUME NEW t \in TaskType
        PROVE  /\ [t EXCEPT !.st = "event", !.rsp = "own"] \in TaskType
               /\ [t EXCEPT !.st = "zombie", !.code = "exit"] \in TaskType
    BY DEF TaskType, Alive, Stops, Statuses
  <2>2. task' \in [Pids -> TaskType]
    BY <1>2, <1>9, <2>1 DEF RunExec
  <2>3. QED
    BY <1>1, <1>4, <1>9, <2>2 DEF RunExec
<1>10. CASE TakeSignal(p)
  <2>1. ASSUME NEW s \in SignalNames, NEW newborn \in BOOLEAN
        PROVE  [task[p] EXCEPT !.st = "signal", !.sig = s, !.newborn = newborn] \in TaskType
    BY <1>2 DEF TaskType, Alive, Stops
  <2>2. PICK s \in SignalNames :
          task' = [task EXCEPT ![p].st = "signal", ![p].sig = s, ![p].newborn = @ /\ s # "SIGSTOP"]
    BY <1>10 DEF TakeSignal, SignalNames
  <2>3. PICK newborn \in BOOLEAN :
          task' = [task EXCEPT ![p].st = "signal", ![p].sig = s, ![p].newborn = newborn]
    BY <2>2, Zenon
  <2>4. task' \in [Pids -> TaskType]
    BY <1>2, <2>1, <2>3
  <2>5. QED
    BY <1>1, <1>4, <1>10, <2>4 DEF TakeSignal
<1>11. QED
  BY <1>1, <1>3, <1>5, <1>6, <1>7, <1>8, <1>9, <1>10

\* The handlers of all stops keep the types.
LEMMA AnswerType ==
  ASSUME TypeOK, NEW p \in Pids, Answer(p)
  PROVE  TracerTypes' /\ KernelTypes'
<1>1. /\ task \in [Pids -> TaskType] /\ got.sig \in SignalNames
      /\ TracerTypes /\ ModeFlag \in BOOLEAN /\ Pending(p) \in BOOLEAN
  <2>1. task \in [Pids -> TaskType] /\ got.sig \in SignalNames /\ TracerTypes
    BY Types DEF TypeOK
  <2>2. ModeFlag \in BOOLEAN /\ Pending(p) \in BOOLEAN
    BY Zenon DEF ModeFlag, Pending
  <2>3. QED
    BY <2>1, <2>2
<1>2. ASSUME NEW t \in TaskType, NEW flag \in BOOLEAN, NEW sig, Resume(p, t, flag, sig)
      PROVE  KernelTypes'
  BY <1>2, ResumeType DEF KernelTypes
<1>3. CASE OnStopped(p)
  <2>1. (ModeFlag \/ Pending(p)) \in BOOLEAN
    BY Zenon DEF ModeFlag, Pending
  <2>1a. \E flag \in BOOLEAN : \E sig : Resume(p, task[p], flag, sig)
    BY <1>1, <1>3, <2>1 DEF OnStopped
  <2>2. TracerTypes'
    BY <1>1, <1>3 DEF OnStopped, TracerTypes, SignalNames
  <2>3. QED
    BY <1>1, <1>2, <2>1a, <2>2
<1>4. CASE OnEvent(p)
  BY <1>1, <1>2, <1>4 DEF OnEvent, TracerTypes, tracerVars
<1>5. ASSUME NEW converts \in BOOLEAN
      PROVE  Translated(p, converts) \in TaskType /\ AtEntry(p, converts) \in TaskType
  BY <1>1 DEF Translated, AtEntry, TaskType
<1>6. Finished(p) \in TaskType
  <2>1. ASSUME NEW rsp \in {"own", "carved", "stale"}, NEW owes \in BOOLEAN
        PROVE  [task[p] EXCEPT !.rsp = rsp, !.owes = owes] \in TaskType
    <3>1. task[p] \in TaskType
      BY <1>1
    <3>2. QED
      BY <3>1 DEF TaskType
  <2>2. task[p].rsp \in {"own", "carved", "stale"}
    BY <1>1 DEF TaskType
  <2>3. QED
    BY <2>1, <2>2 DEF Finished
<1>7. CASE OnSeccomp(p)
  <2>1. \E t \in TaskType, flag \in BOOLEAN : Resume(p, t, flag, "none")
    BY <1>1, <1>5, <1>7 DEF OnSeccomp
  <2>2. TracerTypes'
    BY <1>1, <1>7 DEF OnSeccomp, Translate, TracerTypes, AllKinds
  <2>3. QED
    BY <1>2, <2>1, <2>2
<1>8. CASE OnSyscallSeccomp(p)
  <2>1. \E t \in TaskType, flag \in BOOLEAN : Resume(p, t, flag, "none")
    BY <1>1, <1>6, <1>8 DEF OnSyscallSeccomp
  <2>2. TracerTypes'
    BY <1>1, <1>8 DEF OnSyscallSeccomp, Consumed, ForgetCall, TracerTypes
  <2>3. QED
    BY <1>2, <2>1, <2>2
<1>9. CASE StepEmulation(p)
  <2>1. ASSUME NEW gadget \in BOOLEAN PROVE [task[p] EXCEPT !.gadget = gadget] \in TaskType
    BY <1>1 DEF TaskType
  <2>1a. \E gadget \in BOOLEAN :
           Resume(p, [task[p] EXCEPT !.gadget = gadget], ModeFlag, "none")
    BY <1>9, Zenon DEF StepEmulation
  <2>2. StopsLeft(p) \in 0 .. EmulationStops
    BY <1>1, <1>9 DEF StopsLeft, TracerTypes, EmulationStops, StepEmulation
  <2>3. TracerTypes'
    BY <1>1, <1>9, <2>2 DEF StepEmulation, TracerTypes
  <2>4. QED
    BY <1>1, <1>2, <2>1, <2>1a, <2>3 DEF StepEmulation
<1>10. CASE BeginEmulation(p)
  <2>1. TracerTypes'
    BY <1>1, <1>10 DEF BeginEmulation, TracerTypes, EmulationStops
  <2>2. QED
    BY <1>1, <1>2, <1>10, <2>1 DEF BeginEmulation
<1>11. CASE OnSyscallStop(p)
  <2>1. \E t \in TaskType, flag \in BOOLEAN : Resume(p, t, flag, "none")
    BY <1>1, <1>5, <1>6, <1>11 DEF OnSyscallStop
  <2>2. TracerTypes'
    BY <1>1, <1>11 DEF OnSyscallStop, Translate, SetupTermios2, ForgetCall, Toggle, TracerTypes,
                             TaskType
  <2>3. QED
    BY <1>2, <2>1, <2>2
<1>12. QED
  BY <1>3, <1>4, <1>7, <1>8, <1>9, <1>10, <1>11 DEF Answer

\* Forgetting a task keeps the types.
LEMMA ReapType ==
  ASSUME TypeOK, NEW p \in Pids, Reap(p)
  PROVE  TracerTypes' /\ KernelTypes'
<1> USE ConstantsAssumption
<1>1. /\ task \in [Pids -> TaskType] /\ NoTask \in TaskType /\ TracerTypes /\ KernelTypes
      /\ task[p].code \in Statuses
  BY Types DEF TypeOK, NoTask, TaskType, SignalNames, Statuses
<1>2. Detached \in [Pids -> TaskType]
  <2>1. ASSUME NEW t \in TaskType PROVE [t EXCEPT !.st = "free"] \in TaskType
    BY DEF TaskType
  <2>2. QED
    BY <1>1, <2>1 DEF Detached
<1>3. TracerTypes'
  BY <1>1 DEF Reap, Forget, TracerTypes, EmulationStops
<1>4. QED
  BY <1>1, <1>2, <1>3 DEF Reap, KernelTypes

\* Every step keeps the types.
LEMMA TypeKept == TypeOK /\ [Next]_vars => TypeOK'
<1> SUFFICES ASSUME TypeOK, [Next]_vars PROVE TypeOK'
  OBVIOUS
<1>1. mode' \in Modes /\ TracerTypes /\ KernelTypes
  BY Types DEF Next, vars
<1>2. SUFFICES TracerTypes' /\ KernelTypes'
  BY <1>1, Types DEF TypeOK, TracerTypes, KernelTypes
<1>3. ASSUME NEW p \in Pids, Wait(p) PROVE TracerTypes' /\ KernelTypes'
  <2>1. [pid |-> p, stop |-> task[p].st, sig |-> task[p].sig]
          \in [pid : Pids, stop : Stops \cup {"none"}, sig : SignalNames]
    BY <1>1, <1>3 DEF Wait, KernelTypes, TaskType
  <2>2. QED
    BY <1>1, <1>3, <2>1 DEF Wait, tracerVars, TracerTypes, KernelTypes
<1>4. CASE NobodyLeft
  BY <1>1, <1>4 DEF NobodyLeft, tracerVars, TracerTypes, KernelTypes, Statuses
<1>5. CASE UNCHANGED vars
  BY <1>1, <1>5 DEF vars, tracerVars, TracerTypes, KernelTypes
<1>6. QED
  BY <1>3, <1>4, <1>5, KernelStepType, AnswerType, ReapType DEF Next, Gone, Answer

\* The types hold when the loop begins.
LEMMA InitTypes == Init => TypeOK
<1> SUFFICES ASSUME Init PROVE TypeOK
  OBVIOUS
<1> USE ConstantsAssumption
<1>1. NoTask \in TaskType /\ [NoTask EXCEPT !.st = "user", !.flag = (mode = "ptrace")] \in TaskType
  BY DEF NoTask, TaskType, Alive, SignalNames, Statuses
<1>2. task \in [Pids -> TaskType]
  BY <1>1 DEF Init
<1>3. QED
  BY <1>2 DEF Init, TypeOK, Nothing, SignalNames, Statuses, EmulationStops

\* The types hold in every world: any order of stops, execs from any thread.
THEOREM TracerTypesHold == Spec => []TypeOK
BY InitTypes, TypeKept, PTL DEF Spec

-----------------------------------------------------------------------------
(* What a step does to the tasks.                                          *)

\* The task is killed where it is.
Dies(q) ==
    /\ task[q].st \in Alive \cup {"zombie"} /\ task'[q].st = "zombie"
    /\ task'[q].leader = task[q].leader /\ task'[q].call = task[q].call
    /\ task'[q].code # "none"

\* Who dies takes along its own process and nobody else.
LEMMA DieTasks ==
  ASSUME TypeOK, NEW p \in Pids, NEW status, status # "none", Die(p, status),
         task[p].st \in Alive
  PROVE  /\ \A q \in Pids : task'[q] = task[q] \/ Dies(q)
         /\ Dies(p)
<1>1. task \in [Pids -> TaskType]
  BY DEF TypeOK
<1>2. ASSUME NEW q \in Pids, q \in Threads(p) /\ task[q].st \in Alive PROVE Dies(q)
  <2>1. task'[q] = [task[q] EXCEPT !.st = "zombie", !.code = status]
    BY <1>2 DEF Die
  <2>2. QED
    BY <1>1, <1>2, <2>1 DEF Dies, TaskType
<1>3. \A q \in Pids : ~(q \in Threads(p) /\ task[q].st \in Alive) => task'[q] = task[q]
  BY DEF Die
<1>4. p \in Threads(p)
  BY DEF Threads, Alive, Stops
<1>5. QED
  BY <1>2, <1>3, <1>4

\* A resumed task goes on unless it is dead or dies of its signal.
LEMMA ResumeTasks ==
  ASSUME TypeOK, NEW p \in Pids, NEW t \in TaskType, NEW flag \in BOOLEAN, NEW sig,
         got.stop \in Stops, Resume(p, t, flag, sig)
  PROVE  /\ got' = Nothing
         /\ \A q \in Pids \ {p} : task'[q] = task[q] \/ Dies(q)
         /\ ~Live(p) => task'[p] = task[p]
         /\ Live(p) => IF t.st = "signal" /\ sig = "fatal" THEN Dies(p)
                       ELSE task'[p] = ResumedAs(t, flag, sig)
<1>1. task \in [Pids -> TaskType]
  BY DEF TypeOK
<1>2. CASE Live(p) /\ t.st = "signal" /\ sig = "fatal"
  <2>1. task[p].st \in Alive
    BY <1>2 DEF Live, Alive
  <2>2. QED
    BY <1>2, <2>1, DieTasks DEF Resume
<1>3. CASE ~(Live(p) /\ t.st = "signal" /\ sig = "fatal")
  BY <1>1, <1>3 DEF Resume
<1>4. QED
  BY <1>2, <1>3

\* What a task is after it has been resumed.
LEMMA ResumedFields ==
  ASSUME NEW t \in TaskType, NEW flag \in BOOLEAN, NEW sig
  PROVE  LET r == ResumedAs(t, flag, sig)
         IN  /\ r.flag = flag /\ r.sig = "none"
             /\ r.leader = t.leader /\ r.call = t.call /\ r.rsp = t.rsp /\ r.owes = t.owes
             /\ r.newborn = t.newborn /\ r.code = t.code
             /\ r.gadget <=> t.gadget /\ ~(t.st = "signal" /\ sig = "handled")
             /\ r.st = IF t.st = "signal" /\ sig = "SIGSTOP" THEN "group" ELSE NextStation(t, flag)
             /\ r.st \in Alive
BY Stations DEF ResumedAs, TaskType, Alive, Stops

\* The kernel's steps, field by field.
LEMMA SyscallFields ==
  ASSUME TypeOK, NEW p \in Pids, Syscall(p)
  PROVE  \E k \in Kinds :
           /\ k = "emulate" => mode = "ptrace"
           /\ k = "exec" => ThreadExec \/ task[p].leader = p
           /\ task'[p].st = FirstStation(k, task[p].flag) /\ task'[p].call = k
           /\ task'[p].leader = task[p].leader /\ task'[p].code = task[p].code
           /\ task'[p].flag = task[p].flag /\ task'[p].rsp = task[p].rsp
           /\ task'[p].owes = task[p].owes /\ task'[p].gadget = task[p].gadget
           /\ task'[p].newborn = task[p].newborn /\ task'[p].sig = task[p].sig
<1>1. task \in [Pids -> TaskType]
  BY DEF TypeOK
<1>2. PICK k \in Kinds :
        /\ k = "emulate" => mode = "ptrace"
        /\ k = "exec" => ThreadExec \/ task[p].leader = p
        /\ task' = [task EXCEPT ![p].call = k, ![p].st = FirstStation(k, task[p].flag)]
  BY DEF Syscall
<1>3. task'[p] = [task[p] EXCEPT !.call = k, !.st = FirstStation(k, task[p].flag)]
  BY <1>1, <1>2
<1>4. QED
  BY <1>1, <1>2, <1>3 DEF TaskType

\* What a task is after it has stopped for a signal.
LEMMA SignalFields ==
  ASSUME TypeOK, NEW p \in Pids, TakeSignal(p)
  PROVE  \E s \in {"handled", "fatal", "SIGSTOP"} :
           /\ s = "SIGSTOP" => task[p].newborn
           /\ task'[p].st = "signal" /\ task'[p].sig = s
           /\ task'[p].newborn <=> task[p].newborn /\ s # "SIGSTOP"
           /\ task'[p].leader = task[p].leader /\ task'[p].code = task[p].code
           /\ task'[p].flag = task[p].flag /\ task'[p].rsp = task[p].rsp
           /\ task'[p].owes = task[p].owes /\ task'[p].gadget = task[p].gadget
           /\ task'[p].call = task[p].call
<1>1. task \in [Pids -> TaskType]
  BY DEF TypeOK
<1>2. PICK s \in {"handled", "fatal"} \cup (IF task[p].newborn THEN {"SIGSTOP"} ELSE {}) :
        task' = [task EXCEPT ![p].st = "signal", ![p].sig = s, ![p].newborn = @ /\ s # "SIGSTOP"]
  BY DEF TakeSignal
<1>3. task'[p] = [task[p] EXCEPT !.st = "signal", !.sig = s, !.newborn = @ /\ s # "SIGSTOP"]
  BY <1>1, <1>2
<1>4. QED
  BY <1>1, <1>2, <1>3 DEF TaskType

\* What the tracer remembers of a task does not change.
SameMemory(q) ==
    /\ q \in configured' <=> q \in configured
    /\ q \in inSyscall' <=> q \in inSyscall
    /\ q \in statx' <=> q \in statx
    /\ q \in termios2Get' <=> q \in termios2Get
    /\ q \in reserved' <=> q \in reserved
    /\ q \in expectEntry' <=> q \in expectEntry
    /\ lastSyscall'[q] = lastSyscall[q] /\ active'[q] = active[q] /\ stashed'[q] = stashed[q]

\* A record that differs from the task's in its registers and memory only.
Touched(t, p) ==
    /\ t.st = task[p].st /\ t.leader = task[p].leader /\ t.call = task[p].call
    /\ t.code = task[p].code /\ t.newborn = task[p].newborn

Resumes(p) ==
    \E t \in TaskType, flag \in BOOLEAN : \E sig : Touched(t, p) /\ Resume(p, t, flag, sig)

\* Every handler resumes its task and touches nothing of another.
LEMMA AnswerResumes ==
  ASSUME TypeOK, NEW p \in Pids, Answer(p)
  PROVE  /\ got.pid = p /\ got.stop \in Stops
         /\ Resumes(p)
         /\ \A q \in Pids \ {p} : SameMemory(q)
         /\ UNCHANGED <<mainCode, exitCode>>
<1>1. /\ task[p] \in TaskType /\ TracerTypes /\ Touched(task[p], p)
      /\ ModeFlag \in BOOLEAN /\ (ModeFlag \/ Pending(p)) \in BOOLEAN
      /\ (task[p].call \in NeedsExit \/ ModeFlag) \in BOOLEAN
  <2>1. task[p] \in TaskType /\ TracerTypes /\ Touched(task[p], p)
    BY Types DEF TypeOK, Touched
  <2>2. /\ ModeFlag \in BOOLEAN /\ (ModeFlag \/ Pending(p)) \in BOOLEAN
        /\ (task[p].call \in NeedsExit \/ ModeFlag) \in BOOLEAN
    BY Zenon DEF ModeFlag, Pending
  <2>3. QED
    BY <2>1, <2>2
<1>2. got.pid = p /\ got.stop \in Stops /\ UNCHANGED <<mainCode, exitCode>>
  BY DEF Answer, OnStopped, OnEvent, OnSeccomp, OnSyscallSeccomp, StepEmulation, BeginEmulation,
         OnSyscallStop, tracerVars, Stops
<1>3. ASSUME NEW converts \in BOOLEAN
      PROVE  /\ Translated(p, converts) \in TaskType /\ Touched(Translated(p, converts), p)
             /\ AtEntry(p, converts) \in TaskType /\ Touched(AtEntry(p, converts), p)
  <2>1. /\ [task[p] EXCEPT !.rsp = "carved"] \in TaskType
        /\ Touched([task[p] EXCEPT !.rsp = "carved"], p)
    BY <1>1 DEF TaskType, Touched
  <2>2. /\ [task[p] EXCEPT !.owes = TRUE] \in TaskType
        /\ Touched([task[p] EXCEPT !.owes = TRUE], p)
    BY <1>1 DEF TaskType, Touched
  <2>3. Translated(p, converts) \in TaskType /\ Touched(Translated(p, converts), p)
    BY <1>1, <2>1 DEF Translated
  <2>4. AtEntry(p, converts) \in TaskType /\ Touched(AtEntry(p, converts), p)
    BY <2>2, <2>3 DEF AtEntry
  <2>5. QED
    BY <2>3, <2>4
<1>4. Finished(p) \in TaskType /\ Touched(Finished(p), p)
  <2>1. ASSUME NEW rsp \in {"own", "carved", "stale"}, NEW owes \in BOOLEAN
        PROVE  /\ [task[p] EXCEPT !.rsp = rsp, !.owes = owes] \in TaskType
               /\ Touched([task[p] EXCEPT !.rsp = rsp, !.owes = owes], p)
    BY <1>1 DEF TaskType, Touched
  <2>2. task[p].rsp \in {"own", "carved", "stale"}
    BY <1>1 DEF TaskType
  <2>3. QED
    BY <2>1, <2>2 DEF Finished
<1>5. ASSUME NEW gadget \in BOOLEAN
      PROVE  /\ [task[p] EXCEPT !.gadget = gadget] \in TaskType
             /\ Touched([task[p] EXCEPT !.gadget = gadget], p)
  BY <1>1 DEF TaskType, Touched
<1>0. ASSUME NEW t \in TaskType, NEW flag \in BOOLEAN, NEW sig, Touched(t, p),
             Resume(p, t, flag, sig)
      PROVE  Resumes(p)
  BY <1>0 DEF Resumes
<1>6. CASE OnStopped(p)
  <2>1. \A q \in Pids \ {p} : SameMemory(q)
    BY <1>1, <1>6 DEF OnStopped, SameMemory, TracerTypes
  <2>2. Resumes(p)
    BY <1>0, <1>1, <1>6 DEF OnStopped
  <2>3. QED
    BY <1>1, <1>2, <2>1, <2>2
<1>7. CASE OnEvent(p)
  BY <1>0, <1>1, <1>2, <1>7 DEF OnEvent, tracerVars, SameMemory
<1>8. CASE OnSeccomp(p)
  <2>1. \A q \in Pids \ {p} : SameMemory(q)
    BY <1>1, <1>8 DEF OnSeccomp, Translate, SameMemory, TracerTypes
  <2>2. Resumes(p)
    BY <1>0, <1>1, <1>3, <1>8 DEF OnSeccomp
  <2>3. QED
    BY <1>2, <2>1, <2>2
<1>9. CASE OnSyscallSeccomp(p)
  <2>1. \A q \in Pids \ {p} : SameMemory(q)
    BY <1>1, <1>9 DEF OnSyscallSeccomp, Consumed, ForgetCall, SameMemory, TracerTypes
  <2>2. Resumes(p)
    BY <1>0, <1>1, <1>4, <1>9 DEF OnSyscallSeccomp
  <2>3. QED
    BY <1>2, <2>1, <2>2
<1>10. CASE StepEmulation(p)
  <2>1. \A q \in Pids \ {p} : SameMemory(q)
    BY <1>1, <1>10 DEF StepEmulation, SameMemory, TracerTypes
  <2>2. \E gadget \in BOOLEAN :
          Resume(p, [task[p] EXCEPT !.gadget = gadget], ModeFlag, "none")
    BY <1>10, Zenon DEF StepEmulation
  <2>3. Resumes(p)
    BY <1>0, <1>1, <1>5, <2>2
  <2>4. QED
    BY <1>2, <2>1, <2>3
<1>11. CASE BeginEmulation(p)
  BY <1>0, <1>1, <1>2, <1>11 DEF BeginEmulation, SameMemory, TracerTypes
<1>12. CASE OnSyscallStop(p)
  <2>1. \A q \in Pids \ {p} : SameMemory(q)
    BY <1>1, <1>12 DEF OnSyscallStop, Translate, SetupTermios2, ForgetCall, Toggle, SameMemory,
                             TracerTypes
  <2>2. Resumes(p)
    BY <1>0, <1>1, <1>3, <1>4, <1>12 DEF OnSyscallStop
  <2>3. QED
    BY <1>2, <2>1, <2>2
<1>13. QED
  BY <1>6, <1>7, <1>8, <1>9, <1>10, <1>11, <1>12 DEF Answer

-----------------------------------------------------------------------------
(* The exit status.                                                        *)

\* A stop is in hand only while the tracer runs; when it has left, so have the
\* tasks from its view.
Places ==
    /\ got = Nothing \/ Running
    /\ \A p \in Pids : task[p].st \in IF Running THEN Alive \cup {"none", "zombie"}
                                      ELSE {"none", "free"}

\* A process dies as a whole: no thread outlives its leader.
Groups ==
    \A p \in Pids : task[p].st \in Alive =>
        /\ task[task[p].leader].st \in Alive
        /\ task[task[p].leader].leader = task[p].leader

\* The main child's record, its real end and what the tracer knows of it.
MainKnown ==
    /\ task[Main].leader = Main
    /\ task[Main].st \in Alive => mainStatus = "none" /\ mainCode = "none"
    /\ task[Main].st = "zombie" =>
         task[Main].code = mainStatus /\ mainStatus # "none" /\ mainCode = "none"
    /\ Running /\ task[Main].st = "none" =>
         mode = "seccomp" /\ mainCode = mainStatus /\ mainStatus # "none"

ExitInv == TypeOK /\ Places /\ Groups /\ MainKnown /\ ExitStatus

\* A step after which every task is where it was, dead or alive.
Steady ==
    /\ UNCHANGED mainStatus
    /\ \A q \in Pids :
         /\ task'[q].leader = task[q].leader /\ task'[q].code = task[q].code
         /\ IF task[q].st \in Alive THEN task'[q].st \in Alive ELSE task'[q].st = task[q].st

\* A step after which everybody alive is alive changes no status.
LEMMA SteadyKeeps ==
  ASSUME ExitInv, Steady, UNCHANGED <<mode, mainCode, exitCode>>, got' = Nothing \/ Running
  PROVE  Places' /\ Groups' /\ MainKnown' /\ ExitStatus'
<1> USE ConstantsAssumption
<1>1. \A q \in Pids : task[q].leader \in Pids
  BY DEF ExitInv, TypeOK, TaskType
<1>2. Places'
  BY DEF ExitInv, Steady, Places, Running, Alive, Stops
<1>3. Groups'
  BY <1>1 DEF ExitInv, Steady, Groups, Alive, Stops, Places
<1>4. MainKnown'
  BY DEF ExitInv, Steady, MainKnown, Running, Alive, Stops
<1>5. ExitStatus'
  BY DEF ExitInv, Steady, ExitStatus, Alive, Stops
<1>6. QED
  BY <1>2, <1>3, <1>4, <1>5

\* A death of a process keeps what is known of the main child.
LEMMA DieKeeps ==
  ASSUME ExitInv, NEW p \in Pids, NEW status \in Statuses \ {"none"}, task[p].st \in Alive,
         Die(p, status), UNCHANGED <<mode, mainCode, exitCode>>, got' = Nothing \/ Running
  PROVE  Places' /\ Groups' /\ MainKnown' /\ ExitStatus'
<1> USE ConstantsAssumption
<1>1. \A q \in Pids : task[q].leader \in Pids /\ task[q] \in TaskType
  BY DEF ExitInv, TypeOK, TaskType
<1>2. Running
  BY DEF ExitInv, Places, Alive, Stops
<1>3. ASSUME NEW q \in Pids
      PROVE  IF task[q].st \in Alive /\ task[q].leader = task[p].leader
             THEN task'[q].st = "zombie" /\ task'[q].code = status /\ task'[q].leader = task[q].leader
             ELSE task'[q] = task[q]
  <2>1. task[q].st \in Alive => task[q].st \notin {"none", "free"}
    BY DEF Alive, Stops
  <2>2. CASE task[q].st \in Alive /\ task[q].leader = task[p].leader
    <3>1. task'[q] = [task[q] EXCEPT !.st = "zombie", !.code = status]
      BY <2>1, <2>2 DEF Die, Threads
    <3>2. QED
      BY <1>1, <2>2, <3>1 DEF TaskType
  <2>3. CASE ~(task[q].st \in Alive /\ task[q].leader = task[p].leader)
    BY <2>1, <2>3 DEF Die, Threads
  <2>4. QED
    BY <2>2, <2>3
<1>4. Places'
  BY <1>2, <1>3 DEF ExitInv, Places, Running, Alive, Stops
<1>5. Groups'
  <2> SUFFICES ASSUME NEW q \in Pids, task'[q].st \in Alive
               PROVE  /\ task'[task'[q].leader].st \in Alive
                      /\ task'[task'[q].leader].leader = task'[q].leader
    BY DEF Groups
  <2>1. task'[q] = task[q] /\ task[q].leader # task[p].leader
    BY <1>3 DEF Alive, Stops
  <2>2. task[task[q].leader].st \in Alive /\ task[task[q].leader].leader = task[q].leader
    BY <2>1 DEF ExitInv, Groups
  <2>3. task'[task[q].leader] = task[task[q].leader]
    BY <1>1, <1>3, <2>1, <2>2
  <2>4. QED
    BY <2>1, <2>2, <2>3
<1>6. mainStatus' = IF task[p].leader = Main /\ mainStatus = "none" THEN status ELSE mainStatus
  BY DEF Die
<1>7. MainKnown'
  <2>1. CASE task[p].leader = Main
    <3>1. task[Main].st \in Alive /\ mainStatus = "none" /\ mainCode = "none"
      BY <2>1 DEF ExitInv, Groups, MainKnown
    <3>2. QED
      BY <1>3, <1>6, <2>1, <3>1 DEF ExitInv, MainKnown, Alive, Stops
  <2>2. CASE task[p].leader # Main
    BY <1>3, <1>6, <2>2 DEF ExitInv, MainKnown, Running
  <2>3. QED
    BY <2>1, <2>2
<1>8. ExitStatus'
  BY <1>2 DEF ExitStatus, Running
<1>9. QED
  BY <1>4, <1>5, <1>7, <1>8

\* The handlers keep what is known of the main child.
LEMMA AnswerExit ==
  ASSUME ExitInv, NEW p \in Pids, Answer(p), mode' = mode
  PROVE  Places' /\ Groups' /\ MainKnown' /\ ExitStatus'
<1>1. /\ got.stop \in Stops /\ UNCHANGED <<mode, mainCode, exitCode>>
      /\ \A q \in Pids : task[q] \in TaskType
  BY AnswerResumes DEF ExitInv, TypeOK
<1>2. PICK t \in TaskType, flag \in BOOLEAN : \E sig : Touched(t, p) /\ Resume(p, t, flag, sig)
  BY AnswerResumes DEF ExitInv, Resumes
<1>3. PICK sig : Touched(t, p) /\ Resume(p, t, flag, sig)
  BY <1>2
<1>4. got' = Nothing
  BY <1>3 DEF Resume
<1>5. CASE Live(p) /\ t.st = "signal" /\ sig = "fatal"
  <2>1. Die(p, "signal") /\ task[p].st \in Alive
    BY <1>1, <1>3, <1>5 DEF Resume, Live, Alive
  <2>2. QED
    BY <1>1, <1>4, <2>1, DieKeeps DEF Statuses
<1>6. CASE ~(Live(p) /\ t.st = "signal" /\ sig = "fatal")
  <2>1. \A q \in Pids \ {p} : task'[q] = task[q]
    BY <1>3, <1>6 DEF ExitInv, TypeOK, Resume
  <2>2. CASE ~Live(p)
    <3>1. Steady
      BY <1>3, <2>2 DEF Resume, Steady
    <3>2. QED
      BY <1>1, <1>4, <3>1, SteadyKeeps
  <2>3. CASE Live(p)
    <3>1. task'[p] = ResumedAs(t, flag, sig) /\ UNCHANGED mainStatus /\ task[p].st \in Alive
      BY <1>1, <1>3, <1>6, <2>3 DEF ExitInv, TypeOK, Resume, Live, Alive
    <3>2. task'[p].leader = task[p].leader /\ task'[p].code = task[p].code /\ task'[p].st \in Alive
      BY <1>3, <3>1, ResumedFields DEF Touched
    <3>3. Steady
      BY <2>1, <3>1, <3>2 DEF Steady
    <3>4. QED
      BY <1>1, <1>4, <3>3, SteadyKeeps
  <2>4. QED
    BY <2>2, <2>3
<1>7. QED
  BY <1>5, <1>6

\* The steps that move one live task.
LEMMA MoveExit ==
  ASSUME ExitInv, NEW p \in Pids, UNCHANGED mode,
         Syscall(p) \/ Gadget(p) \/ RunCall(p) \/ TakeSignal(p)
  PROVE  Places' /\ Groups' /\ MainKnown' /\ ExitStatus'
<1>1. /\ task[p].st \in Alive /\ UNCHANGED <<got, mainStatus, mainCode, exitCode>>
      /\ \A q \in Pids \ {p} : task'[q] = task[q]
  BY DEF Syscall, Gadget, RunCall, TakeSignal, Alive, Stops, ExitInv, TypeOK
<1>2. task \in [Pids -> TaskType]
  BY DEF ExitInv, TypeOK
<1>3. task'[p].leader = task[p].leader /\ task'[p].code = task[p].code /\ task'[p].st \in Alive
  <2>1. CASE Syscall(p)
    BY <2>1, SyscallFields, Stations DEF ExitInv, Alive, Stops
  <2>2. CASE Gadget(p)
    BY <1>2, <2>2, Stations DEF Gadget, TaskType, Alive, Stops
  <2>3. CASE RunCall(p)
    BY <1>2, <2>3 DEF RunCall, AfterCall, TaskType, Alive, Stops
  <2>4. CASE TakeSignal(p)
    BY <2>4, SignalFields DEF ExitInv, Alive, Stops
  <2>5. QED
    BY <2>1, <2>2, <2>3, <2>4
<1>4. Steady
  BY <1>1, <1>3 DEF Steady
<1>5. QED
  BY <1>1, <1>4, SteadyKeeps DEF ExitInv, Places

\* A new task does not take the main child's place.
LEMMA ForkExit ==
  ASSUME ExitInv, ~MainReused \/ "seccomp" \notin Modes, NEW p \in Pids, UNCHANGED mode, RunFork(p)
  PROVE  Places' /\ Groups' /\ MainKnown' /\ ExitStatus'
<1> USE ConstantsAssumption
<1>1. /\ task[p].st = "kernel" /\ UNCHANGED <<got, mainStatus, mainCode, exitCode>>
      /\ task \in [Pids -> TaskType] /\ mode \in Modes
  BY DEF RunFork, ExitInv, TypeOK
<1>2. Running /\ task[p].st \in Alive
  BY <1>1 DEF ExitInv, Places, Alive, Stops
<1>3. PICK q \in Pids :
        /\ task[q].st = "none" /\ (q = Main => MainReused)
        /\ task' = [task EXCEPT ![p].st = "event",
                                ![q] = [NoTask EXCEPT
                                          !.st = "user", !.newborn = TRUE,
                                          !.leader = IF task[p].call = "fork" THEN q
                                                     ELSE task[p].leader]]
  BY DEF RunFork
<1>4. q # Main
  BY <1>1, <1>2, <1>3 DEF ExitInv, MainKnown
<1>5. /\ task'[p].leader = task[p].leader /\ task'[p].code = task[p].code /\ task'[p].st = "event"
      /\ \A r \in Pids \ {p, q} : task'[r] = task[r]
  BY <1>1, <1>3 DEF TaskType
<1>6. task'[q].st = "user" /\ task'[q].leader = IF task[p].call = "fork" THEN q ELSE task[p].leader
  BY <1>1, <1>3 DEF NoTask
<1>7. Places'
  BY <1>1, <1>2, <1>5, <1>6 DEF ExitInv, Places, Running, Alive, Stops
<1>8. Groups'
  <2>1. ASSUME NEW r \in Pids \ {q}, task'[r].st \in Alive
        PROVE  /\ task'[task'[r].leader].st \in Alive
               /\ task'[task'[r].leader].leader = task'[r].leader
    <3>1. task[r].st \in Alive /\ task'[r].leader = task[r].leader
      BY <1>2, <1>5, <2>1
    <3>2. /\ task[task[r].leader].st \in Alive /\ task[task[r].leader].leader = task[r].leader
          /\ task[r].leader \in Pids \ {q}
      BY <1>1, <1>3, <3>1 DEF ExitInv, Groups, TaskType, Alive, Stops
    <3>3. /\ task'[task[r].leader].st \in Alive
          /\ task'[task[r].leader].leader = task[task[r].leader].leader
      BY <1>5, <3>2 DEF Alive, Stops
    <3>4. QED
      BY <3>1, <3>2, <3>3
  <2>2. /\ task'[task'[q].leader].st \in Alive
        /\ task'[task'[q].leader].leader = task'[q].leader
    <3>1. CASE task[p].call = "fork"
      BY <1>6, <3>1 DEF Alive
    <3>2. CASE task[p].call # "fork"
      <4>1. task'[q].leader = task'[p].leader /\ p # q /\ task'[p].st \in Alive
        BY <1>1, <1>3, <1>5, <1>6, <3>2 DEF Alive, Stops
      <4>2. QED
        BY <2>1, <4>1
    <3>3. QED
      BY <3>1, <3>2
  <2>3. QED
    BY <2>1, <2>2 DEF Groups
<1>9. MainKnown'
  BY <1>1, <1>2, <1>4, <1>5 DEF ExitInv, MainKnown, Running, Alive, Stops
<1>10. ExitStatus'
  BY <1>1, <1>2 DEF ExitStatus, Running
<1>11. QED
  BY <1>7, <1>8, <1>9, <1>10

\* An exec leaves the first thread, under the same number.
LEMMA ExecExit ==
  ASSUME ExitInv, NEW p \in Pids, UNCHANGED mode, RunExec(p)
  PROVE  Places' /\ Groups' /\ MainKnown' /\ ExitStatus'
<1> USE ConstantsAssumption
<1> DEFINE l == task[p].leader
<1>1. /\ task[p].st = "kernel" /\ UNCHANGED <<got, mainStatus, mainCode, exitCode>>
      /\ task \in [Pids -> TaskType] /\ l \in Pids
  BY DEF RunExec, ExitInv, TypeOK, TaskType
<1>2. Running /\ task[p].st \in Alive
  BY <1>1 DEF ExitInv, Places, Alive, Stops
<1>3. task[l].st \in Alive /\ task[l].leader = l
  BY <1>2 DEF ExitInv, Groups
<1>4. task'[l].st = "event" /\ task'[l].leader = l
  BY <1>1 DEF RunExec, TaskType
<1>5. ASSUME NEW q \in Pids \ {l}
      PROVE  IF q = p \/ (task[q].leader = l /\ task[q].st \notin {"none", "free"})
             THEN task'[q].st \in {"none", "zombie"}
             ELSE task'[q] = task[q]
  <2>1. CASE q = p
    BY <1>1, <2>1 DEF RunExec, NoTask
  <2>2. CASE q # p /\ q \in Threads(p)
    <3>1. task'[q] = [task[q] EXCEPT !.st = "zombie", !.code = "exit"]
      BY <2>2 DEF RunExec
    <3>2. QED
      BY <1>1, <2>2, <3>1 DEF TaskType, Threads
  <2>3. CASE q # p /\ q \notin Threads(p)
    BY <2>3 DEF RunExec, Threads
  <2>4. QED
    BY <2>1, <2>2, <2>3
<1> HIDE DEF l
<1>6. Places'
  BY <1>1, <1>2, <1>4, <1>5 DEF ExitInv, Places, Running, Alive, Stops
<1>7. Groups'
  <2> SUFFICES ASSUME NEW q \in Pids, task'[q].st \in Alive
               PROVE  /\ task'[task'[q].leader].st \in Alive
                      /\ task'[task'[q].leader].leader = task'[q].leader
    BY DEF Groups
  <2>1. CASE q = l
    BY <1>4, <2>1 DEF Alive, Stops
  <2>2. CASE q # l
    <3>1. q # p /\ task'[q] = task[q] /\ task[q].leader # l
      BY <1>5, <2>2 DEF Alive, Stops
    <3>2. /\ task[task[q].leader].st \in Alive /\ task[task[q].leader].leader = task[q].leader
          /\ task[q].leader \in Pids
      BY <1>1, <3>1 DEF ExitInv, Groups, TaskType
    <3>3. task[q].leader # p
      BY <3>1, <3>2 DEF l
    <3>4. task'[task[q].leader] = task[task[q].leader]
      BY <1>5, <3>1, <3>2, <3>3
    <3>5. QED
      BY <3>1, <3>2, <3>4
  <2>3. QED
    BY <2>1, <2>2
<1>8. MainKnown'
  <2>1. CASE l = Main
    BY <1>1, <1>3, <1>4, <2>1 DEF ExitInv, MainKnown, Running, Alive, Stops
  <2>2. CASE l # Main
    <3>1. p # Main /\ task[Main].leader # l
      BY <2>2 DEF ExitInv, MainKnown, l
    <3>2. task'[Main] = task[Main]
      BY <1>5, <2>2, <3>1
    <3>3. QED
      BY <1>1, <3>2 DEF ExitInv, MainKnown, Running
  <2>3. QED
    BY <2>1, <2>2
<1>9. ExitStatus'
  BY <1>1, <1>2 DEF ExitStatus, Running
<1>10. QED
  BY <1>6, <1>7, <1>8, <1>9

\* The status the tracer keeps is the main child's.
LEMMA ReapExit ==
  ASSUME ExitInv, NEW p \in Pids, UNCHANGED mode, Reap(p)
  PROVE  Places' /\ Groups' /\ MainKnown' /\ ExitStatus'
<1> USE ConstantsAssumption
<1>1. /\ Running /\ got' = Nothing /\ task[p].st = "zombie" /\ UNCHANGED mainStatus
      /\ task \in [Pids -> TaskType] /\ mode \in {"ptrace", "seccomp"}
  BY DEF Reap, ExitInv, TypeOK
<1>2. CASE LeavesWith(p)
  <2>1. p = Main /\ mode = "ptrace" /\ exitCode' = task[p].code /\ task' = Detached
    BY <1>1, <1>2 DEF Reap, LeavesWith
  <2>2. exitCode' = mainStatus' /\ exitCode' # "none"
    BY <1>1, <2>1 DEF ExitInv, MainKnown
  <2>3. ASSUME NEW q \in Pids
        PROVE  /\ task'[q].st \in {"none", "free"}
               /\ task'[q].leader \in {task[q].leader, Main}
    <3>1. CASE task[q].st \in Alive
      BY <1>1, <2>1, <3>1 DEF Detached, TaskType
    <3>2. CASE task[q].st \notin Alive
      BY <2>1, <3>2 DEF Detached, NoTask
    <3>3. QED
      BY <3>1, <3>2
  <2>4. QED
    BY <1>1, <2>1, <2>2, <2>3 DEF ExitInv, Places, Groups, MainKnown, ExitStatus, Running, Alive, Stops
<1>3. CASE ~LeavesWith(p)
  <2>1. /\ mainCode' = IF p = Main THEN task[p].code ELSE mainCode
        /\ task'[p] = NoTask /\ \A q \in Pids \ {p} : task'[q] = task[q]
        /\ exitCode' = exitCode
    BY <1>1, <1>3 DEF Reap
  <2>2. Places' /\ ExitStatus'
    BY <1>1, <2>1 DEF ExitInv, Places, ExitStatus, Running, NoTask
  <2>3. Groups'
    BY <1>1, <2>1 DEF ExitInv, Groups, NoTask, TaskType, Alive, Stops
  <2>4. MainKnown'
    <3>1. CASE p = Main
      BY <1>1, <1>3, <2>1, <3>1 DEF ExitInv, MainKnown, Running, LeavesWith, NoTask, Alive, Stops
    <3>2. CASE p # Main
      BY <1>1, <2>1, <3>2 DEF ExitInv, MainKnown, Running
    <3>3. QED
      BY <3>1, <3>2
  <2>5. QED
    BY <2>2, <2>3, <2>4
<1>4. QED
  BY <1>2, <1>3

\* The tracer's own status is the main child's in every world in which the main
\* child's pid is not given to another task while it stays on, that is, always
\* in ptrace mode (Tracer::supervise, main_code).
THEOREM ExitStatusHolds ==
  ASSUME ~MainReused \/ "seccomp" \notin Modes
  PROVE  Spec => []ExitStatus
<1>1. Init => ExitInv
  <2> SUFFICES ASSUME Init, TypeOK PROVE Places /\ Groups /\ MainKnown /\ ExitStatus
    BY InitTypes DEF ExitInv
  <2>1. task[Main].st = "user" /\ task[Main].leader = Main
    BY ConstantsAssumption DEF Init, NoTask
  <2>2. \A q \in Pids \ {Main} : task[q] = NoTask
    BY DEF Init
  <2>3. QED
    BY <2>1, <2>2, ConstantsAssumption
       DEF Init, Places, Groups, MainKnown, ExitStatus, Running, NoTask, Alive, Stops
<1>2. ExitInv /\ [Next]_vars => ExitInv'
  <2> SUFFICES ASSUME ExitInv, [Next]_vars PROVE Places' /\ Groups' /\ MainKnown' /\ ExitStatus'
    BY TypeKept DEF ExitInv
  <2>1. ASSUME NEW p \in Pids, UNCHANGED mode, RunExit(p) \/ Kill(p)
        PROVE  Places' /\ Groups' /\ MainKnown' /\ ExitStatus'
    <3>1. /\ task[p].st \in Alive /\ UNCHANGED <<got, mainCode, exitCode>>
          /\ Die(p, "exit") \/ Die(p, "signal")
      BY <2>1 DEF RunExit, Kill, Alive, Stops
    <3>2. QED
      BY <2>1, <3>1, DieKeeps DEF Statuses, ExitInv, Places
  <2>2. ASSUME NEW p \in Pids, UNCHANGED mode, Wait(p)
        PROVE  Places' /\ Groups' /\ MainKnown' /\ ExitStatus'
    <3>1. Steady
      BY <2>2 DEF Wait, Steady
    <3>2. QED
      BY <2>2, <3>1, SteadyKeeps DEF Wait
  <2>3. ASSUME UNCHANGED mode, NobodyLeft
        PROVE  Places' /\ Groups' /\ MainKnown' /\ ExitStatus'
    <3>1. /\ task[Main].st = "none" /\ \A q \in Pids : task[q].st = "none"
          /\ UNCHANGED <<task, got, mainCode, mainStatus>> /\ Running
          /\ exitCode' = IF mainCode = "none" THEN "exit" ELSE mainCode
      BY <2>3, ConstantsAssumption DEF NobodyLeft
    <3>2. exitCode' = mainStatus' /\ exitCode' # "none"
      BY <3>1 DEF ExitInv, MainKnown
    <3>3. QED
      BY <2>3, <3>1, <3>2, ConstantsAssumption
         DEF NobodyLeft, ExitInv, Places, Groups, MainKnown, ExitStatus, Running, Alive, Stops
  <2>4. ASSUME UNCHANGED vars
        PROVE  Places' /\ Groups' /\ MainKnown' /\ ExitStatus'
    <3>1. Steady
      BY <2>4 DEF vars, Steady
    <3>2. QED
      BY <2>4, <3>1, SteadyKeeps DEF vars, ExitInv, Places
  <2>5. QED
    BY <2>1, <2>2, <2>3, <2>4, MoveExit, ForkExit, ExecExit, AnswerExit, ReapExit
       DEF Next, Answer, Gone
<1>3. ExitInv => ExitStatus
  BY DEF ExitInv
<1>4. QED
  BY <1>1, <1>2, <1>3, PTL DEF Spec

-----------------------------------------------------------------------------
(* Where a task is in its call, and what the tracer remembers of it.       *)

\* The world of the remaining theorems: the stops come in the order the code
\* counts on, and a program is replaced by its first thread.
World == ~ThreadExec /\ (SeccompFirst \/ "seccomp" \notin Modes)

Clean(p) ==
    /\ p \notin inSyscall /\ p \notin statx /\ p \notin termios2Get
    /\ p \notin reserved /\ p \notin expectEntry
    /\ lastSyscall[p] = "none" /\ active[p] = 0

Untouched(p) == task[p].rsp = "own" /\ ~task[p].owes

\* Between its entry and its exit: what was carved is remembered, and who is
\* owed something is known to be.
Translating(p) ==
    /\ task[p].rsp = IF p \in reserved THEN "carved" ELSE "own"
    /\ p \in reserved => task[p].call \in {"carve", "statx"}
    /\ p \in statx <=> task[p].call = "statx" /\ p \in reserved
    /\ task[p].call = "getrandom" => lastSyscall[p] = "getrandom"
    /\ task[p].owes => p \in statx \cup termios2Get \/ lastSyscall[p] = "getrandom"

Outside == {"user", "signal", "group"}

\* In ptrace mode: outside a call or at its entry; inside it; in an emulation,
\* where only the gadget runs in user mode.
PtraceOutside(p) ==
    /\ task[p].st \in Outside \cup {"entry"} /\ ~task[p].gadget
    /\ Untouched(p) /\ Clean(p)
    /\ task[p].st \in {"user", "entry"} /\ ~task[p].newborn => task[p].flag
    /\ task[p].newborn => task[p].st # "entry"
PtraceInside(p) ==
    /\ task[p].st \in {"kernel", "event", "exit"}
    /\ ~task[p].gadget /\ ~task[p].newborn /\ task[p].flag
    /\ p \in inSyscall /\ active[p] = 0 /\ p \notin expectEntry
    /\ lastSyscall[p] = task[p].call /\ Translating(p)
    /\ task[p].st = "event" => task[p].call \in {"fork", "thread", "exec"}
PtraceEmulated(p) ==
    /\ active[p] > 0 /\ task[p].call = "emulate" /\ task[p].flag /\ ~task[p].newborn
    /\ Untouched(p) /\ lastSyscall[p] = "none"
    /\ p \notin inSyscall /\ p \notin statx /\ p \notin termios2Get
    /\ p \notin reserved /\ p \notin expectEntry
    /\ IF active[p] = 2
       THEN task[p].gadget /\ task[p].st \in {"user", "signal", "entry"} /\ task[p].sig # "SIGSTOP"
       ELSE ~task[p].gadget /\ task[p].st \in {"kernel", "exit"}

\* In seccomp mode: outside a call, or at its seccomp stop, or in a call that
\* leaves nothing to do; in one that does, after the seccomp stop.
SeccompQuiet(p) ==
    /\ Untouched(p) /\ Clean(p)
    /\ \/ task[p].st \in Outside /\ ~task[p].flag
       \/ task[p].st = "seccomp" /\ ~task[p].newborn
       \/ /\ task[p].st \in {"kernel", "event"} /\ ~task[p].newborn /\ ~task[p].flag
          /\ task[p].call \notin NeedsExit
SeccompInside(p) ==
    /\ task[p].st \in {"entry", "kernel", "exit"} /\ ~task[p].newborn /\ task[p].flag
    /\ task[p].call \in NeedsExit /\ Translating(p)
    /\ p \in expectEntry <=> task[p].st = "entry"
SeccompTask(p) ==
    /\ ~task[p].gadget /\ active[p] = 0 /\ p \notin inSyscall
    /\ SeccompQuiet(p) \/ SeccompInside(p)

TaskInv(p) ==
    task[p].st \in Alive =>
        IF mode = "ptrace" THEN PtraceOutside(p) \/ PtraceInside(p) \/ PtraceEmulated(p)
        ELSE SeccompTask(p)

\* The stop in hand is where the task still is, unless it was killed there.
InHand ==
    got # Nothing =>
        /\ got.stop \in Stops
        /\ \/ task[got.pid].st = "zombie"
           \/ task[got.pid].st = got.stop /\ task[got.pid].sig = got.sig

\* Only the first thread is in an exec.
Callers == \A p \in Pids : task[p].call = "exec" => task[p].leader = p

\* A task that is dead has a status to report.
Zombies == \A p \in Pids : task[p].st = "zombie" => task[p].code # "none"

LoopInv ==
    /\ TypeOK /\ Places /\ InHand /\ Callers /\ Zombies /\ NoStaleState
    /\ \A p \in Pids : TaskInv(p)

\* A task nobody touches stays where the tracer thinks it is.
LEMMA Unmoved ==
  ASSUME NEW q \in Pids, task'[q] = task[q], SameMemory(q), mode' = mode, TaskInv(q)
  PROVE  TaskInv(q)'
<1>1. /\ Clean(q) => Clean(q)'
      /\ Untouched(q) => Untouched(q)'
      /\ Translating(q) => Translating(q)'
  BY DEF Clean, Untouched, Translating, SameMemory
<1>2. PtraceOutside(q) => PtraceOutside(q)'
  BY <1>1 DEF PtraceOutside
<1>3. PtraceInside(q) => PtraceInside(q)'
  BY <1>1 DEF PtraceInside, SameMemory
<1>4. PtraceEmulated(q) => PtraceEmulated(q)'
  BY <1>1 DEF PtraceEmulated, SameMemory
<1>5. SeccompTask(q) => SeccompTask(q)'
  BY <1>1 DEF SeccompTask, SeccompQuiet, SeccompInside, SameMemory
<1>6. QED
  BY <1>2, <1>3, <1>4, <1>5 DEF TaskInv

\* A step of the kernel leaves a task alone, kills it, or moves it from a place
\* where the tracer has nothing to do with it.
Moves(q) ==
    /\ task[q].st \notin Stops \cup {"zombie"}
    /\ task'[q].st \in Alive /\ TaskInv(q)'
    /\ task'[q].call = "exec" => task'[q].leader = q

\* A step of a task alone keeps the loop's invariant.
LEMMA KernelKeeps ==
  ASSUME LoopInv, TypeOK', UNCHANGED <<mode, tracerVars, got, exitCode>>,
         got = Nothing \/ Running, Running,
         \A q \in Pids : task'[q] = task[q] \/ Dies(q) \/ Moves(q)
  PROVE  LoopInv'
<1>1. \A q \in Pids : SameMemory(q)
  BY DEF SameMemory, tracerVars
<1>2. ASSUME NEW q \in Pids PROVE TaskInv(q)'
  <2>1. CASE task'[q] = task[q]
    BY <1>1, <2>1, Unmoved DEF LoopInv
  <2>2. CASE Dies(q)
    BY <2>2 DEF Dies, TaskInv, Alive, Stops
  <2>3. CASE Moves(q)
    BY <2>3 DEF Moves
  <2>4. QED
    BY <2>1, <2>2, <2>3
<1>3. Places'
  BY DEF LoopInv, Places, Running, Dies, Moves, Alive, Stops
<1>4. InHand'
  <2>1. got.pid \in Pids
    BY DEF LoopInv, TypeOK
  <2>2. QED
    BY <2>1 DEF LoopInv, InHand, Dies, Moves
<1>5. Callers'
  BY DEF LoopInv, Callers, Dies, Moves
<1>5a. Zombies'
  BY DEF LoopInv, Zombies, Dies, Moves, Alive, Stops
<1>6. NoStaleState'
  BY <1>1 DEF LoopInv, NoStaleState, Running, SameMemory, Dies, Moves, Alive, Stops
<1>7. QED
  BY <1>2, <1>3, <1>4, <1>5, <1>5a, <1>6 DEF LoopInv

\* Only one task can be where p is, the others are where they were.
LEMMA SyscallLoop ==
  ASSUME World, LoopInv, TypeOK', NEW p \in Pids, UNCHANGED mode, Syscall(p)
  PROVE  LoopInv'
<1>1. /\ task[p].st = "user" /\ ~task[p].gadget /\ ~task[p].newborn
      /\ UNCHANGED <<tracerVars, got, exitCode>> /\ mode \in Modes
      /\ \A q \in Pids \ {p} : task'[q] = task[q]
  BY DEF Syscall, LoopInv, TypeOK
<1>2. Running
  BY <1>1 DEF LoopInv, Places
<1>3. PICK k \in Kinds :
        /\ k = "emulate" => mode = "ptrace"
        /\ k = "exec" => task[p].leader = p
        /\ task'[p].st = FirstStation(k, task[p].flag) /\ task'[p].call = k
        /\ task'[p].leader = task[p].leader
        /\ task'[p].flag = task[p].flag /\ task'[p].rsp = task[p].rsp
        /\ task'[p].owes = task[p].owes /\ task'[p].gadget = task[p].gadget
        /\ task'[p].newborn = task[p].newborn
  BY SyscallFields DEF LoopInv, World
<1>4. SameMemory(p) /\ (Clean(p) => Clean(p)') /\ (Untouched(p) => Untouched(p)')
  BY <1>1, <1>3 DEF SameMemory, tracerVars, Clean, Untouched
<1>5. TaskInv(p)'
  <2>1. CASE mode = "ptrace"
    <3>1. Clean(p) /\ Untouched(p) /\ task[p].flag
      BY <1>1, <2>1 DEF LoopInv, TaskInv, PtraceOutside, PtraceInside, PtraceEmulated, Alive
    <3>2. task'[p].st = "entry"
      BY <1>3, <2>1, <3>1 DEF FirstStation
    <3>3. PtraceOutside(p)'
      BY <1>1, <1>3, <1>4, <3>1, <3>2 DEF PtraceOutside, Outside
    <3>4. QED
      BY <1>1, <2>1, <3>3 DEF TaskInv
  <2>2. CASE mode # "ptrace"
    <3>1. Clean(p) /\ Untouched(p) /\ ~task[p].flag
      BY <1>1, <2>2 DEF LoopInv, TaskInv, SeccompTask, SeccompQuiet, SeccompInside, Alive
    <3>2. mode = "seccomp" /\ SeccompFirst
      BY <1>1, <2>2, ConstantsAssumption DEF World
    <3>3. task'[p].st = IF k \in Filtered THEN "seccomp" ELSE "kernel"
      BY <1>3, <3>1, <3>2 DEF FirstStation
    <3>4. SeccompQuiet(p)'
      BY <1>1, <1>3, <1>4, <3>1, <3>3 DEF SeccompQuiet, NeedsExit, Filtered
    <3>5. QED
      BY <1>1, <1>3, <1>4, <2>2, <3>1, <3>4 DEF TaskInv, SeccompTask, Clean
  <2>3. QED
    BY <2>1, <2>2
<1>6. Moves(p)
  BY <1>1, <1>3, <1>5, Stations DEF Moves, Alive, Stops
<1>7. QED
  BY <1>1, <1>2, <1>6, KernelKeeps

\* The tracee makes the injected call.
LEMMA GadgetLoop ==
  ASSUME LoopInv, TypeOK', NEW p \in Pids, UNCHANGED mode, Gadget(p)
  PROVE  LoopInv'
<1>1. /\ task[p].st = "user" /\ task[p].gadget /\ task[p] \in TaskType
      /\ UNCHANGED <<tracerVars, got, exitCode>>
      /\ \A q \in Pids \ {p} : task'[q] = task[q]
      /\ task'[p] = [task[p] EXCEPT !.st = FirstStation("plain", task[p].flag)]
  BY DEF Gadget, LoopInv, TypeOK
<1>2. Running /\ mode = "ptrace" /\ PtraceEmulated(p) /\ active[p] = 2
  <2>1. Running
    BY <1>1 DEF LoopInv, Places
  <2>2. TaskInv(p) /\ task[p].st \in Alive
    BY <1>1 DEF LoopInv, Alive
  <2>3. QED
    BY <1>1, <2>1, <2>2 DEF TaskInv, SeccompTask, PtraceOutside, PtraceInside, PtraceEmulated
<1>3. /\ task'[p].st = "entry" /\ task'[p].call = task[p].call
      /\ task'[p].leader = task[p].leader /\ task'[p].sig = task[p].sig
      /\ task'[p].flag = task[p].flag /\ task'[p].rsp = task[p].rsp
      /\ task'[p].owes = task[p].owes /\ task'[p].gadget = task[p].gadget
      /\ task'[p].newborn = task[p].newborn
  BY <1>1, <1>2 DEF FirstStation, TaskType, PtraceEmulated
<1>4. PtraceEmulated(p)'
  BY <1>1, <1>2, <1>3 DEF PtraceEmulated, Untouched, tracerVars
<1>5. Moves(p)
  BY <1>1, <1>2, <1>3, <1>4 DEF Moves, TaskInv, Alive, Stops, LoopInv, Callers
<1>6. QED
  BY <1>1, <1>2, <1>5, KernelKeeps

\* A signal stops a task.
LEMMA SignalLoop ==
  ASSUME LoopInv, TypeOK', NEW p \in Pids, UNCHANGED mode, TakeSignal(p)
  PROVE  LoopInv'
<1>1. /\ task[p].st = "user" /\ UNCHANGED <<tracerVars, got, exitCode>>
      /\ \A q \in Pids \ {p} : task'[q] = task[q]
  BY DEF TakeSignal, LoopInv, TypeOK
<1>2. Running
  BY <1>1 DEF LoopInv, Places
<1>3. PICK s \in {"handled", "fatal", "SIGSTOP"} :
        /\ s = "SIGSTOP" => task[p].newborn
        /\ task'[p].st = "signal" /\ task'[p].sig = s
        /\ task'[p].newborn <=> task[p].newborn /\ s # "SIGSTOP"
        /\ task'[p].leader = task[p].leader /\ task'[p].call = task[p].call
        /\ task'[p].flag = task[p].flag /\ task'[p].rsp = task[p].rsp
        /\ task'[p].owes = task[p].owes /\ task'[p].gadget = task[p].gadget
  BY SignalFields DEF LoopInv
<1>4. (Clean(p) => Clean(p)') /\ (Untouched(p) => Untouched(p)')
  BY <1>1, <1>3 DEF tracerVars, Clean, Untouched
<1>5. TaskInv(p) /\ task[p].st \in Alive
  BY <1>1 DEF LoopInv, Alive
<1>6. TaskInv(p)'
  <2>1. CASE mode = "ptrace" /\ PtraceOutside(p)
    <3>1. PtraceOutside(p)'
      BY <1>3, <1>4, <2>1 DEF PtraceOutside, Outside
    <3>2. QED
      BY <2>1, <3>1 DEF TaskInv
  <2>2. CASE mode = "ptrace" /\ PtraceEmulated(p)
    <3>1. PtraceEmulated(p)'
      BY <1>1, <1>3, <1>4, <2>2 DEF PtraceEmulated, tracerVars
    <3>2. QED
      BY <2>2, <3>1 DEF TaskInv
  <2>3. CASE mode # "ptrace"
    <3>1. SeccompTask(p)'
      BY <1>1, <1>3, <1>4, <1>5, <2>3
         DEF TaskInv, SeccompTask, SeccompQuiet, SeccompInside, Outside, tracerVars
    <3>2. QED
      BY <2>3, <3>1 DEF TaskInv
  <2>4. QED
    BY <1>1, <1>5, <2>1, <2>2, <2>3 DEF TaskInv, PtraceInside
<1>7. Moves(p)
  BY <1>1, <1>3, <1>6 DEF Moves, Alive, Stops, LoopInv, Callers
<1>8. QED
  BY <1>1, <1>2, <1>7, KernelKeeps

\* The kernel finishes a call.
LEMMA RunCallLoop ==
  ASSUME LoopInv, TypeOK', NEW p \in Pids, UNCHANGED mode, RunCall(p)
  PROVE  LoopInv'
<1> DEFINE owes == task[p].owes \/ task[p].call = "getrandom"
                     \/ (task[p].call = "statx" /\ task[p].rsp = "carved")
<1>1. /\ task[p].st = "kernel" /\ task[p] \in TaskType
      /\ UNCHANGED <<tracerVars, got, exitCode>>
      /\ \A q \in Pids \ {p} : task'[q] = task[q]
      /\ task'[p] = [task[p] EXCEPT !.st = AfterCall(task[p]), !.owes = owes]
  BY DEF RunCall, LoopInv, TypeOK
<1>2. /\ task'[p].st = (IF task[p].flag THEN "exit" ELSE "user") /\ task'[p].owes = owes
      /\ task'[p].leader = task[p].leader /\ task'[p].call = task[p].call
      /\ task'[p].flag = task[p].flag /\ task'[p].rsp = task[p].rsp
      /\ task'[p].newborn = task[p].newborn /\ task'[p].gadget = task[p].gadget
  BY <1>1 DEF AfterCall, TaskType
<1>3. Running /\ TaskInv(p) /\ task[p].st \in Alive
  BY <1>1 DEF LoopInv, Places, Alive
<1>4. Clean(p) => Clean(p)'
  BY <1>1 DEF tracerVars, Clean
<1>5. Translating(p) => Translating(p)'
  BY <1>1, <1>2 DEF tracerVars, Translating
<1>6. TaskInv(p)'
  <2>1. CASE mode = "ptrace" /\ PtraceInside(p)
    <3>1. PtraceInside(p)'
      BY <1>1, <1>2, <1>5, <2>1 DEF PtraceInside, tracerVars
    <3>2. QED
      BY <2>1, <3>1 DEF TaskInv
  <2>2. CASE mode = "ptrace" /\ PtraceEmulated(p)
    <3>1. PtraceEmulated(p)'
      BY <1>1, <1>2, <2>2 DEF PtraceEmulated, Untouched, tracerVars
    <3>2. QED
      BY <2>2, <3>1 DEF TaskInv
  <2>3. CASE mode # "ptrace" /\ SeccompQuiet(p)
    <3>1. ~task[p].flag /\ task[p].call \notin NeedsExit /\ Untouched(p) /\ Clean(p)
      BY <1>1, <2>3 DEF SeccompQuiet, Outside
    <3>2. SeccompQuiet(p)'
      BY <1>2, <1>4, <3>1 DEF SeccompQuiet, NeedsExit, Untouched, Outside
    <3>3. QED
      BY <1>1, <1>2, <1>3, <2>3, <3>2 DEF TaskInv, SeccompTask, tracerVars
  <2>4. CASE mode # "ptrace" /\ SeccompInside(p)
    <3>1. SeccompInside(p)'
      BY <1>1, <1>2, <1>5, <2>4 DEF SeccompInside, tracerVars
    <3>2. QED
      BY <1>1, <1>2, <1>3, <2>4, <3>1 DEF TaskInv, SeccompTask, tracerVars
  <2>5. QED
    BY <1>1, <1>3, <2>1, <2>2, <2>3, <2>4 DEF TaskInv, PtraceOutside, SeccompTask, Outside
<1>7. Moves(p)
  BY <1>1, <1>2, <1>6 DEF Moves, Alive, Stops, LoopInv, Callers
<1>8. QED
  BY <1>1, <1>3, <1>7, KernelKeeps

\* The caller of fork, clone or execve, at its event stop.
LEMMA EventTask ==
  ASSUME NEW p \in Pids, UNCHANGED <<mode, tracerVars>>, task[p].st = "kernel", TaskInv(p),
         task[p].call \in {"fork", "thread", "exec"}, task'[p].st = "event",
         task'[p].call = task[p].call, task'[p].flag = task[p].flag,
         task'[p].rsp \in {task[p].rsp, "own"}, task'[p].owes = task[p].owes,
         task'[p].gadget = task[p].gadget, task'[p].newborn = task[p].newborn
  PROVE  TaskInv(p)'
<1>1. task[p].st \in Alive
  BY DEF Alive
<1>2. CASE mode = "ptrace"
  <2>1. PtraceInside(p)
    BY <1>1, <1>2 DEF TaskInv, PtraceOutside, PtraceEmulated, Outside
  <2>2. Translating(p)'
    BY <2>1 DEF PtraceInside, Translating, tracerVars
  <2>3. PtraceInside(p)'
    BY <2>1, <2>2 DEF PtraceInside, tracerVars
  <2>4. QED
    BY <1>2, <2>3 DEF TaskInv
<1>3. CASE mode # "ptrace"
  <2>1. SeccompTask(p) /\ SeccompQuiet(p)
    BY <1>1, <1>3 DEF TaskInv, SeccompTask, SeccompInside, NeedsExit
  <2>2. ~task[p].newborn /\ ~task[p].flag /\ Untouched(p) /\ Clean(p)
    BY <2>1 DEF SeccompQuiet, Outside
  <2>3. SeccompQuiet(p)'
    BY <2>2 DEF SeccompQuiet, NeedsExit, Untouched, Clean, tracerVars
  <2>4. QED
    BY <1>3, <2>1, <2>3 DEF TaskInv, SeccompTask, tracerVars
<1>4. QED
  BY <1>2, <1>3

\* A task makes another one.
LEMMA ForkLoop ==
  ASSUME LoopInv, TypeOK', NEW p \in Pids, UNCHANGED mode, RunFork(p)
  PROVE  LoopInv'
<1>1. /\ task[p].st = "kernel" /\ UNCHANGED <<tracerVars, got, exitCode>>
      /\ task[p].call \in {"fork", "thread"}
      /\ task \in [Pids -> TaskType] /\ mode \in {"ptrace", "seccomp"} /\ TaskInv(p)
  BY ConstantsAssumption DEF RunFork, LoopInv, TypeOK
<1>2. Running
  BY <1>1 DEF LoopInv, Places
<1>3. PICK q \in Pids :
        /\ task[q].st = "none"
        /\ task' = [task EXCEPT ![p].st = "event",
                                ![q] = [NoTask EXCEPT
                                          !.st = "user", !.newborn = TRUE,
                                          !.leader = IF task[p].call = "fork" THEN q
                                                     ELSE task[p].leader]]
  BY DEF RunFork
<1>4. p # q /\ task'[p] = [task[p] EXCEPT !.st = "event"]
  BY <1>1, <1>3
<1>5. /\ task'[p].st = "event" /\ task'[p].call = task[p].call
      /\ task'[p].leader = task[p].leader /\ task'[p].flag = task[p].flag
      /\ task'[p].rsp = task[p].rsp /\ task'[p].owes = task[p].owes
      /\ task'[p].gadget = task[p].gadget /\ task'[p].newborn = task[p].newborn
  BY <1>1, <1>4 DEF TaskType
<1>6. Moves(p)
  <2>1. TaskInv(p)'
    BY <1>1, <1>5, EventTask
  <2>2. QED
    BY <1>1, <1>5, <2>1 DEF Moves, Alive, Stops
<1>7. /\ task'[q].st = "user" /\ task'[q].newborn /\ ~task'[q].gadget /\ ~task'[q].flag
      /\ task'[q].rsp = "own" /\ ~task'[q].owes /\ task'[q].call = "none"
  BY <1>1, <1>3 DEF NoTask
<1>8. Moves(q)
  <2>1. Clean(q)
    BY <1>2, <1>3 DEF LoopInv, NoStaleState, Clean
  <2>2. Clean(q)' /\ Untouched(q)' /\ q \notin inSyscall' /\ active'[q] = 0
    BY <1>1, <1>7, <2>1 DEF Clean, Untouched, tracerVars
  <2>3. PtraceOutside(q)' /\ SeccompTask(q)'
    BY <1>7, <2>2 DEF PtraceOutside, SeccompTask, SeccompQuiet, Outside
  <2>4. QED
    BY <1>3, <1>7, <2>3 DEF Moves, TaskInv, Alive, Stops
<1>9. \A r \in Pids \ {p, q} : task'[r] = task[r]
  BY <1>1, <1>3
<1>10. QED
  BY <1>1, <1>2, <1>6, <1>8, <1>9, KernelKeeps

\* A program is replaced.
LEMMA ExecLoop ==
  ASSUME LoopInv, TypeOK', NEW p \in Pids, UNCHANGED mode, RunExec(p)
  PROVE  LoopInv'
<1>1. /\ task[p].st = "kernel" /\ UNCHANGED <<tracerVars, got, exitCode>>
      /\ task[p].call = "exec" /\ task[p].leader = p
      /\ task \in [Pids -> TaskType] /\ TaskInv(p)
  BY DEF RunExec, LoopInv, TypeOK, Callers
<1>2. Running
  BY <1>1 DEF LoopInv, Places
<1>3. task'[p] = [task[p] EXCEPT !.st = "event", !.rsp = "own"]
  BY <1>1 DEF RunExec
<1>4. /\ task'[p].st = "event" /\ task'[p].call = task[p].call
      /\ task'[p].leader = task[p].leader /\ task'[p].flag = task[p].flag
      /\ task'[p].rsp = "own" /\ task'[p].owes = task[p].owes
      /\ task'[p].gadget = task[p].gadget /\ task'[p].newborn = task[p].newborn
  BY <1>1, <1>3 DEF TaskType
<1>5. Moves(p)
  <2>1. TaskInv(p)'
    BY <1>1, <1>4, EventTask
  <2>2. QED
    BY <1>1, <1>4, <2>1 DEF Moves, Alive, Stops
<1>6. ASSUME NEW q \in Pids \ {p} PROVE task'[q] = task[q] \/ Dies(q)
  <2>1. CASE q \in Threads(p)
    <3>1. task'[q] = [task[q] EXCEPT !.st = "zombie", !.code = "exit"]
      BY <1>1, <2>1 DEF RunExec
    <3>2. task[q].st \in Alive \cup {"zombie"}
      BY <1>2, <2>1 DEF LoopInv, Places, Threads
    <3>3. QED
      BY <1>1, <3>1, <3>2 DEF Dies, TaskType
  <2>2. CASE q \notin Threads(p)
    BY <1>1, <2>2 DEF RunExec
  <2>3. QED
    BY <2>1, <2>2
<1>7. QED
  BY <1>1, <1>2, <1>5, <1>6, KernelKeeps

\* A process dies at any of its places.
LEMMA DeathLoop ==
  ASSUME LoopInv, TypeOK', NEW p \in Pids, UNCHANGED mode, RunExit(p) \/ Kill(p)
  PROVE  LoopInv'
<1>1. /\ task[p].st \in Alive /\ UNCHANGED <<tracerVars, got, exitCode>>
      /\ \E status : status # "none" /\ Die(p, status)
  BY DEF RunExit, Kill, Alive
<1>2. Running
  BY <1>1 DEF LoopInv, Places, Alive, Stops
<1>3. \A q \in Pids : task'[q] = task[q] \/ Dies(q)
  BY <1>1, DieTasks DEF LoopInv
<1>4. QED
  BY <1>1, <1>2, <1>3, KernelKeeps

\* waitpid hands over a stop.
LEMMA WaitLoop ==
  ASSUME LoopInv, TypeOK', NEW p \in Pids, UNCHANGED mode, Wait(p)
  PROVE  LoopInv'
<1>1. /\ UNCHANGED <<task, tracerVars, exitCode>> /\ Running /\ Running'
      /\ task[p].st \in Stops
      /\ got' = [pid |-> p, stop |-> task[p].st, sig |-> task[p].sig]
  BY DEF Wait, Running
<1>2. InHand' /\ Places'
  BY <1>1 DEF LoopInv, InHand, Places
<1>3. \A q \in Pids : TaskInv(q)'
  <2>1. \A q \in Pids : SameMemory(q)
    BY <1>1 DEF SameMemory, tracerVars
  <2>2. QED
    BY <1>1, <2>1, Unmoved DEF LoopInv
<1>4. QED
  BY <1>1, <1>2, <1>3 DEF LoopInv, Callers, Zombies, NoStaleState, tracerVars

\* Forgetting a task that is gone leaves nothing of it behind.
LEMMA ReapLoop ==
  ASSUME LoopInv, TypeOK', NEW p \in Pids, UNCHANGED mode, Reap(p)
  PROVE  LoopInv'
<1>1. /\ Running /\ got' = Nothing /\ task[p].st = "zombie" /\ Forget(p)
      /\ task \in [Pids -> TaskType] /\ TracerTypes
      /\ exitCode' = IF LeavesWith(p) THEN task[p].code ELSE exitCode
      /\ task' = IF LeavesWith(p) THEN Detached ELSE [task EXCEPT ![p] = NoTask]
  BY Types DEF Reap, LoopInv, TypeOK
<1>2. \A q \in Pids \ {p} : SameMemory(q)
  BY <1>1 DEF Forget, SameMemory, TracerTypes
<1>3. CASE LeavesWith(p)
  <2>1. ASSUME NEW q \in Pids
        PROVE  /\ task'[q].st \in {"none", "free"}
               /\ task'[q].call = "exec" => task'[q].leader = q
    <3>1. CASE task[q].st \in Alive
      BY <1>1, <1>3, <3>1 DEF Detached, TaskType, LoopInv, Callers
    <3>2. CASE task[q].st \notin Alive
      BY <1>1, <1>3, <3>2 DEF Detached, NoTask
    <3>3. QED
      BY <3>1, <3>2
  <2>2. ~Running'
    BY <1>1, <1>3 DEF LoopInv, Zombies, Running
  <2>3. QED
    BY <1>1, <2>1, <2>2
       DEF LoopInv, Places, InHand, Callers, Zombies, NoStaleState, TaskInv, Alive, Stops
<1>4. CASE ~LeavesWith(p)
  <2>1. task'[p] = NoTask /\ \A q \in Pids \ {p} : task'[q] = task[q]
    BY <1>1, <1>4
  <2>2. \A q \in Pids : TaskInv(q)'
    <3>1. TaskInv(p)'
      BY <2>1 DEF TaskInv, NoTask, Alive, Stops
    <3>2. QED
      BY <1>2, <2>1, <3>1, Unmoved DEF LoopInv
  <2>3. Places' /\ InHand' /\ Callers' /\ Zombies'
    BY <1>1, <1>4, <2>1 DEF LoopInv, Places, InHand, Callers, Zombies, Running, NoTask
  <2>4. NoStaleState'
    <3>1. /\ p \notin configured' \cup inSyscall' \cup statx' \cup termios2Get'
                     \cup reserved' \cup expectEntry'
          /\ lastSyscall'[p] = "none" /\ active'[p] = 0 /\ stashed'[p] = {}
      BY <1>1 DEF Forget, TracerTypes
    <3>2. QED
      BY <1>1, <1>2, <1>4, <2>1, <3>1 DEF LoopInv, NoStaleState, SameMemory, Running
  <2>5. QED
    BY <2>2, <2>3, <2>4 DEF LoopInv
<1>5. QED
  BY <1>3, <1>4

\* waitpid has nobody left to wait for.
LEMMA NobodyLoop ==
  ASSUME LoopInv, TypeOK', UNCHANGED mode, NobodyLeft
  PROVE  LoopInv'
<1>1. /\ UNCHANGED <<task, tracerVars, got>> /\ got = Nothing
      /\ \A q \in Pids : task[q].st = "none" /\ ~Running'
  BY DEF NobodyLeft, Running
<1>2. QED
  BY <1>1 DEF LoopInv, Places, InHand, Callers, Zombies, NoStaleState, TaskInv, Alive, Stops

\* The tracer's answers concern the task they are about: what is left to show
\* of each is where that task goes on.
LEMMA AnswerKeeps ==
  ASSUME LoopInv, TypeOK', NEW p \in Pids, UNCHANGED mode, Answer(p), Live(p) => TaskInv(p)'
  PROVE  LoopInv'
<1>1. /\ got.pid = p /\ got.stop \in Stops /\ exitCode' = exitCode /\ TypeOK
      /\ \A q \in Pids \ {p} : SameMemory(q)
  BY AnswerResumes DEF LoopInv
<1>2. PICK t \in TaskType, flag \in BOOLEAN : \E sig : Touched(t, p) /\ Resume(p, t, flag, sig)
  BY AnswerResumes DEF LoopInv, Resumes
<1>3. PICK sig : Touched(t, p) /\ Resume(p, t, flag, sig)
  BY <1>2
<1>4. /\ got' = Nothing
      /\ \A q \in Pids \ {p} : task'[q] = task[q] \/ Dies(q)
      /\ ~Live(p) => task'[p] = task[p]
      /\ Live(p) => IF t.st = "signal" /\ sig = "fatal" THEN Dies(p)
                    ELSE task'[p] = ResumedAs(t, flag, sig)
  BY <1>1, <1>3, ResumeTasks
<1>5. Running /\ (~Live(p) => task[p].st = "zombie")
  BY <1>1 DEF LoopInv, InHand, Places, Live, Nothing, Stops
<1>7. /\ TaskInv(p)' /\ task'[p].st \in Alive \cup {"zombie"}
      /\ task'[p].st = "zombie" => task'[p].code # "none"
      /\ task'[p].call = "exec" => task'[p].leader = p
  <2>1. CASE ~Live(p)
    BY <1>4, <1>5, <2>1 DEF TaskInv, Alive, Stops, LoopInv, Callers, Zombies
  <2>2. CASE Live(p) /\ t.st = "signal" /\ sig = "fatal"
    BY <1>4, <2>2 DEF Dies, LoopInv, Callers
  <2>3. CASE Live(p) /\ ~(t.st = "signal" /\ sig = "fatal")
    <3>1. task'[p].st \in Alive /\ task'[p].call = t.call /\ task'[p].leader = t.leader
      BY <1>4, <2>3, ResumedFields
    <3>2. QED
      BY <1>3, <2>3, <3>1 DEF Touched, LoopInv, Callers, Alive, Stops
  <2>4. QED
    BY <2>1, <2>2, <2>3
<1>8. \A q \in Pids : TaskInv(q)'
  <2>1. ASSUME NEW q \in Pids \ {p}, Dies(q) PROVE TaskInv(q)'
    BY <2>1 DEF Dies, TaskInv, Alive, Stops
  <2>2. ASSUME NEW q \in Pids \ {p}, task'[q] = task[q] PROVE TaskInv(q)'
    BY <1>1, <2>2, Unmoved DEF LoopInv
  <2>3. QED
    BY <1>4, <1>7, <2>1, <2>2
<1>9. Places' /\ InHand' /\ Callers' /\ Zombies'
  BY <1>1, <1>4, <1>5, <1>7
     DEF LoopInv, Places, InHand, Callers, Zombies, Running, Dies
<1>10. NoStaleState'
  BY <1>1, <1>4, <1>5, <1>7
     DEF LoopInv, NoStaleState, Running, SameMemory, Dies, Alive, Stops
<1>11. QED
  BY <1>8, <1>9, <1>10 DEF LoopInv

\* Where a task lands that is resumed without a fatal signal.
LEMMA Landing ==
  ASSUME LoopInv, NEW p \in Pids, Live(p), got.stop \in Stops, NEW t \in TaskType,
         NEW flag \in BOOLEAN, NEW sig, Resume(p, t, flag, sig)
  PROVE  IF t.st = "signal" /\ sig = "fatal" THEN TaskInv(p)'
         ELSE /\ task'[p].flag = flag /\ task'[p].call = t.call /\ task'[p].rsp = t.rsp
              /\ task'[p].owes = t.owes /\ task'[p].newborn = t.newborn /\ task'[p].sig = "none"
              /\ task'[p].gadget <=> t.gadget /\ ~(t.st = "signal" /\ sig = "handled")
              /\ task'[p].st = IF t.st = "signal" /\ sig = "SIGSTOP" THEN "group"
                               ELSE NextStation(t, flag)
<1>1. IF t.st = "signal" /\ sig = "fatal" THEN Dies(p) ELSE task'[p] = ResumedAs(t, flag, sig)
  BY ResumeTasks DEF LoopInv
<1>2. QED
  BY <1>1, ResumedFields DEF Dies, TaskInv, Alive, Stops

\* The answer to a signal stop (Wait::Stopped).
LEMMA StoppedTask ==
  ASSUME LoopInv, NEW p \in Pids, UNCHANGED mode, OnStopped(p), Live(p)
  PROVE  TaskInv(p)'
<1> DEFINE s == IF got.stop = "group" THEN "SIGSTOP" ELSE got.sig
<1>1. /\ task[p].st = got.stop /\ got.stop \in {"signal", "group"} /\ task[p] \in TaskType
      /\ UNCHANGED <<inSyscall, lastSyscall, statx, termios2Get, reserved, active, expectEntry>>
      /\ task[p].st \in Alive /\ TaskInv(p) /\ mode \in {"ptrace", "seccomp"}
  BY ConstantsAssumption DEF OnStopped, LoopInv, TypeOK, Live, Alive, Stops
<1>2. got.stop = "signal" => s = task[p].sig
  BY <1>1 DEF LoopInv, InHand, OnStopped, Nothing
<1>3. \/ Resume(p, task[p], ModeFlag, "none")
      \/ active[p] = 0 /\ Resume(p, task[p], ModeFlag \/ Pending(p), s)
      \/ s = "SIGSTOP" /\ Resume(p, task[p], ModeFlag \/ Pending(p), s)
  BY <1>1 DEF OnStopped, LoopInv, TypeOK, EmulationStops
<1> HIDE DEF s
<1>4. Clean(p) => ~Pending(p)
  BY DEF Clean, Pending
<1>4a. ASSUME NEW flag \in BOOLEAN, NEW sig, Resume(p, task[p], flag, sig)
       PROVE  IF task[p].st = "signal" /\ sig = "fatal" THEN TaskInv(p)'
              ELSE /\ task'[p].flag = flag /\ task'[p].call = task[p].call
                   /\ task'[p].rsp = task[p].rsp /\ task'[p].owes = task[p].owes
                   /\ task'[p].newborn = task[p].newborn /\ task'[p].sig = "none"
                   /\ task'[p].gadget <=> task[p].gadget
                                           /\ ~(task[p].st = "signal" /\ sig = "handled")
                   /\ task'[p].st \in {"user", "group"}
                   /\ task'[p].st = "group" => task[p].st = "signal" /\ sig = "SIGSTOP"
  BY <1>1, <1>4a, Landing DEF NextStation, Stops
<1>5. CASE mode = "ptrace" /\ PtraceEmulated(p)
  <2>1. task[p].st = "signal" /\ s # "SIGSTOP" /\ active[p] = 2
    BY <1>1, <1>2, <1>5 DEF PtraceEmulated
  <2>2. Resume(p, task[p], TRUE, "none")
    <3>1. active[p] # 0
      BY <2>1
    <3>2. Resume(p, task[p], ModeFlag, "none")
      BY <1>3, <2>1, <3>1, Zenon
    <3>3. ModeFlag = TRUE
      BY <1>5 DEF ModeFlag
    <3>4. QED
      BY <3>2, <3>3
  <2>3. PtraceEmulated(p)'
    <3>1. /\ task'[p].flag /\ task'[p].call = task[p].call
          /\ task'[p].rsp = task[p].rsp /\ task'[p].owes = task[p].owes
          /\ task'[p].newborn = task[p].newborn /\ task'[p].sig = "none"
          /\ task'[p].gadget <=> task[p].gadget
          /\ task'[p].st = "user"
      <4>1. PICK sig : sig = "none" /\ Resume(p, task[p], TRUE, sig)
        BY <2>2
      <4>2. sig # "fatal" /\ sig # "handled" /\ sig # "SIGSTOP"
        BY <4>1
      <4>3. QED
        BY <1>4a, <4>1, <4>2
    <3>2. QED
      BY <1>1, <1>5, <2>1, <3>1 DEF PtraceEmulated, Untouched
  <2>4. QED
    BY <1>5, <2>3 DEF TaskInv
<1>6. CASE mode = "ptrace" /\ PtraceOutside(p)
  <2>1. PICK sig : Resume(p, task[p], TRUE, sig)
    <3>1. ModeFlag = TRUE /\ (ModeFlag \/ Pending(p)) = TRUE
      BY <1>6 DEF ModeFlag
    <3>2. QED
      BY <1>3, <3>1
  <2>2. CASE task[p].st = "signal" /\ sig = "fatal"
    BY <1>4a, <2>1, <2>2
  <2>3. CASE ~(task[p].st = "signal" /\ sig = "fatal")
    <3>1. PtraceOutside(p)'
      BY <1>1, <1>4a, <1>6, <2>1, <2>3 DEF PtraceOutside, Untouched, Clean, Outside
    <3>2. QED
      BY <1>6, <3>1 DEF TaskInv
  <2>4. QED
    BY <2>2, <2>3
<1>7. CASE mode = "seccomp"
  <2>1. SeccompTask(p) /\ SeccompQuiet(p) /\ Clean(p)
    BY <1>1, <1>7 DEF TaskInv, SeccompTask, SeccompInside, SeccompQuiet
  <2>2. PICK sig : Resume(p, task[p], FALSE, sig)
    <3>1. ModeFlag = FALSE /\ (ModeFlag \/ Pending(p)) = FALSE
      BY <1>4, <1>7, <2>1 DEF ModeFlag
    <3>2. QED
      BY <1>3, <3>1
  <2>3. CASE task[p].st = "signal" /\ sig = "fatal"
    BY <1>4a, <2>2, <2>3
  <2>4. CASE ~(task[p].st = "signal" /\ sig = "fatal")
    <3>1. SeccompTask(p)'
      BY <1>1, <1>4a, <2>1, <2>2, <2>4 DEF SeccompTask, SeccompQuiet, Untouched, Clean, Outside
    <3>2. QED
      BY <1>7, <3>1 DEF TaskInv
  <2>5. QED
    BY <2>3, <2>4
<1>8. QED
  BY <1>1, <1>5, <1>6, <1>7 DEF TaskInv, PtraceInside

\* The answer to a fork, clone or exec event (Wait::PtraceEvent).
LEMMA EventTaskResumed ==
  ASSUME LoopInv, NEW p \in Pids, UNCHANGED mode, OnEvent(p), Live(p)
  PROVE  TaskInv(p)'
<1>1. /\ task[p].st = "event" /\ got.stop = "event" /\ task[p] \in TaskType
      /\ UNCHANGED tracerVars /\ Resume(p, task[p], ModeFlag, "none")
      /\ task[p].st \in Alive /\ TaskInv(p) /\ mode \in {"ptrace", "seccomp"}
  BY ConstantsAssumption DEF OnEvent, LoopInv, TypeOK, Live, Alive, Stops
<1>2. CASE mode = "ptrace"
  <2>1. Resume(p, task[p], TRUE, "none") /\ PtraceInside(p)
    <3>1. ModeFlag = TRUE
      BY <1>2 DEF ModeFlag
    <3>2. QED
      BY <1>1, <1>2, <3>1 DEF TaskInv, PtraceOutside, PtraceEmulated, Outside
  <2>2. /\ task'[p].st = "exit" /\ task'[p].flag /\ task'[p].call = task[p].call
        /\ task'[p].rsp = task[p].rsp /\ task'[p].owes = task[p].owes
        /\ ~task'[p].newborn /\ ~task'[p].gadget
    BY <1>1, <2>1, Landing DEF PtraceInside, NextStation, Stops
  <2>3. PtraceInside(p)'
    BY <1>1, <2>1, <2>2 DEF PtraceInside, Translating, tracerVars
  <2>4. QED
    BY <1>2, <2>3 DEF TaskInv
<1>3. CASE mode = "seccomp"
  <2>1. Resume(p, task[p], FALSE, "none")
    <3>1. ModeFlag = FALSE
      BY <1>3 DEF ModeFlag
    <3>2. QED
      BY <1>1, <3>1
  <2>2. SeccompTask(p) /\ SeccompQuiet(p)
    BY <1>1, <1>3 DEF TaskInv, SeccompTask, SeccompInside
  <2>3. SeccompTask(p)'
    BY <1>1, <2>1, <2>2, Landing
       DEF SeccompTask, SeccompQuiet, Untouched, Clean, NextStation, Stops, Outside, tracerVars
  <2>4. QED
    BY <1>3, <2>3 DEF TaskInv
<1>4. QED
  BY <1>1, <1>2, <1>3

\* From a stop of a call no signal is delivered.
LEMMA Onward ==
  ASSUME LoopInv, NEW p \in Pids, Live(p), got.stop \in {"seccomp", "entry", "exit"},
         NEW t \in TaskType, t.st = task[p].st, NEW flag \in BOOLEAN, Resume(p, t, flag, "none")
  PROVE  /\ task'[p].flag = flag /\ task'[p].call = t.call /\ task'[p].rsp = t.rsp
         /\ task'[p].owes = t.owes /\ task'[p].newborn = t.newborn /\ task'[p].sig = "none"
         /\ task'[p].gadget <=> t.gadget
         /\ task'[p].st = NextStation(t, flag)
<1>1. got.stop \in Stops /\ t.st # "signal"
  BY DEF Live, Stops
<1>2. QED
  BY <1>1, Landing

\* What on_syscall_stop and on_seccomp_stop do at the entry of a call.
LEMMA TranslateEntry ==
  ASSUME TypeOK, NEW p \in Pids, NEW converts \in BOOLEAN, Untouched(p), Clean(p),
         Translate(p, converts)
  PROVE  LET t == Translated(p, converts)
         IN  /\ t \in TaskType
             /\ t.st = task[p].st /\ t.call = task[p].call /\ t.newborn = task[p].newborn
             /\ t.gadget = task[p].gadget /\ t.sig = task[p].sig /\ ~t.owes
             /\ t.rsp = IF p \in reserved' THEN "carved" ELSE "own"
             /\ p \in reserved' => t.call \in {"carve", "statx"}
             /\ p \in statx' <=> t.call = "statx" /\ p \in reserved'
             /\ t.call \notin {"carve", "statx"} => t.rsp = "own"
<1>1. task[p] \in TaskType
  BY DEF TypeOK
<1>2. CASE task[p].call = "carve" \/ (task[p].call = "statx" /\ converts)
  BY <1>1, <1>2 DEF Translate, Translated, TaskType, Untouched, Clean
<1>3. CASE ~(task[p].call = "carve" \/ (task[p].call = "statx" /\ converts))
  BY <1>1, <1>3 DEF Translate, Translated, TaskType, Untouched, Clean
<1>4. QED
  BY <1>2, <1>3

\* What on_syscall_stop does besides: a rewritten TCGETS2 leaves something to do.
LEMMA RewriteEntry ==
  ASSUME TypeOK, NEW p \in Pids, NEW converts \in BOOLEAN, Untouched(p), Clean(p),
         Translate(p, converts), SetupTermios2(p, converts)
  PROVE  LET t == AtEntry(p, converts)
         IN  /\ t \in TaskType
             /\ t.st = task[p].st /\ t.call = task[p].call /\ t.newborn = task[p].newborn
             /\ t.gadget = task[p].gadget
             /\ t.owes => p \in termios2Get'
             /\ t.rsp = IF p \in reserved' THEN "carved" ELSE "own"
             /\ p \in reserved' => t.call \in {"carve", "statx"}
             /\ p \in statx' <=> t.call = "statx" /\ p \in reserved'
<1>1. CASE Rewrites(p, converts)
  <2> DEFINE t == [task[p] EXCEPT !.owes = TRUE]
  <2>1. task[p] \in TaskType /\ task[p].call = "termios2" /\ AtEntry(p, converts) = t
    BY <1>1 DEF TypeOK, Rewrites, AtEntry
  <2>2. /\ p \notin reserved' /\ p \notin statx' /\ p \in termios2Get' /\ task[p].rsp = "own"
    BY <1>1, <2>1 DEF Translate, SetupTermios2, Clean, Untouched
  <2>3. /\ t \in TaskType /\ t.st = task[p].st /\ t.call = task[p].call /\ t.rsp = task[p].rsp
        /\ t.newborn = task[p].newborn /\ t.gadget = task[p].gadget
    BY <2>1 DEF TaskType
  <2> HIDE DEF t
  <2>4. QED
    BY <2>1, <2>2, <2>3
<1>2. CASE ~Rewrites(p, converts)
  BY <1>2, TranslateEntry DEF AtEntry
<1>3. QED
  BY <1>1, <1>2

\* What on_syscall_exit does: the caller has its stack and its results back.
LEMMA FinishedExit ==
  ASSUME TypeOK, NEW p \in Pids, Translating(p)
  PROVE  /\ Finished(p) \in TaskType
         /\ Finished(p).st = task[p].st /\ Finished(p).call = task[p].call
         /\ Finished(p).newborn = task[p].newborn /\ Finished(p).gadget = task[p].gadget
         /\ Finished(p).rsp = "own" /\ ~Finished(p).owes
<1>1. task[p] \in TaskType
  BY DEF TypeOK
<1>2. ASSUME NEW owes \in BOOLEAN, ~owes
      PROVE  LET t == [task[p] EXCEPT !.rsp = "own", !.owes = owes]
             IN  /\ t \in TaskType /\ t.st = task[p].st /\ t.call = task[p].call
                 /\ t.newborn = task[p].newborn /\ t.gadget = task[p].gadget
                 /\ t.rsp = "own" /\ ~t.owes
  BY <1>1, <1>2 DEF TaskType
<1>3. \E owes \in BOOLEAN : ~owes /\ Finished(p) = [task[p] EXCEPT !.rsp = "own", !.owes = owes]
  BY DEF Finished, Translating
<1>4. QED
  BY <1>2, <1>3

\* The answer to a seccomp stop in seccomp mode.
LEMMA SeccompStop ==
  ASSUME World, LoopInv, NEW p \in Pids, UNCHANGED mode, OnSeccomp(p), Live(p)
  PROVE  TaskInv(p)'
<1>1. /\ task[p].st = "seccomp" /\ got.stop = "seccomp" /\ TypeOK
      /\ UNCHANGED <<inSyscall, termios2Get, active>>
      /\ task[p].st \in Alive /\ TaskInv(p) /\ mode \in {"ptrace", "seccomp"} /\ mode \in Modes
  BY ConstantsAssumption DEF OnSeccomp, LoopInv, TypeOK, Live, Alive, Stops
<1>2. mode = "seccomp" /\ SeccompFirst /\ SeccompTask(p)
  BY <1>1 DEF TaskInv, PtraceOutside, PtraceInside, PtraceEmulated, Outside, World
<1>3. Untouched(p) /\ Clean(p) /\ ~task[p].newborn /\ ~task[p].gadget
  BY <1>1, <1>2 DEF SeccompTask, SeccompQuiet, SeccompInside, Outside
<1>4. PICK converts \in BOOLEAN :
        /\ Translate(p, converts)
        /\ lastSyscall' = IF task[p].call = "getrandom"
                          THEN [lastSyscall EXCEPT ![p] = "getrandom"] ELSE lastSyscall
        /\ expectEntry' = IF task[p].call \in NeedsExit THEN expectEntry \cup {p} ELSE expectEntry
        /\ Resume(p, Translated(p, converts), task[p].call \in NeedsExit \/ ModeFlag, "none")
  BY DEF OnSeccomp
<1> DEFINE t == Translated(p, converts)
<1>5. /\ t \in TaskType
      /\ t.st = task[p].st /\ t.call = task[p].call /\ ~t.newborn /\ ~t.gadget /\ ~t.owes
      /\ t.rsp = IF p \in reserved' THEN "carved" ELSE "own"
      /\ p \in reserved' => t.call \in {"carve", "statx"}
      /\ p \in statx' <=> t.call = "statx" /\ p \in reserved'
      /\ t.call \notin {"carve", "statx"} => t.rsp = "own"
  BY <1>1, <1>3, <1>4, TranslateEntry
<1> HIDE DEF t
<1>6. CASE task[p].call \in NeedsExit
  <2>1. Resume(p, t, TRUE, "none")
    <3>1. (task[p].call \in NeedsExit \/ ModeFlag) = TRUE
      BY <1>6
    <3>2. QED
      BY <1>4, <3>1 DEF t
  <2>2. /\ task'[p].flag /\ task'[p].call = task[p].call /\ task'[p].rsp = t.rsp
        /\ ~task'[p].owes /\ ~task'[p].newborn /\ ~task'[p].gadget
        /\ task'[p].st = "entry"
    <3>1. NextStation(t, TRUE) = "entry"
      BY <1>1, <1>2, <1>5 DEF NextStation
    <3>2. /\ task'[p].flag = TRUE /\ task'[p].call = t.call /\ task'[p].rsp = t.rsp
          /\ task'[p].owes = t.owes /\ task'[p].newborn = t.newborn
          /\ task'[p].gadget <=> t.gadget
          /\ task'[p].st = NextStation(t, TRUE)
      BY <1>1, <1>5, <2>1, Onward
    <3>3. QED
      BY <1>5, <3>1, <3>2
  <2>3. Translating(p)' /\ p \in expectEntry'
    <3>1. task[p].call = "getrandom" => lastSyscall'[p] = "getrandom"
      BY <1>1, <1>4 DEF TypeOK
    <3>2. QED
      BY <1>4, <1>5, <1>6, <2>2, <3>1 DEF Translating
  <2>4. SeccompInside(p)'
    BY <1>6, <2>2, <2>3 DEF SeccompInside
  <2>5. QED
    BY <1>1, <1>2, <1>3, <2>2, <2>4 DEF TaskInv, SeccompTask, Clean
<1>7. CASE task[p].call \notin NeedsExit
  <2>1. Resume(p, t, FALSE, "none")
    <3>1. (task[p].call \in NeedsExit \/ ModeFlag) = FALSE
      BY <1>2, <1>7 DEF ModeFlag
    <3>2. QED
      BY <1>4, <3>1 DEF t
  <2>2. /\ ~task'[p].flag /\ task'[p].call = task[p].call /\ task'[p].rsp = "own"
        /\ ~task'[p].owes /\ ~task'[p].newborn /\ ~task'[p].gadget
        /\ task'[p].st = "kernel"
    <3>1. NextStation(t, FALSE) = "kernel" /\ t.rsp = "own"
      BY <1>1, <1>5, <1>7 DEF NextStation, NeedsExit
    <3>2. /\ task'[p].flag = FALSE /\ task'[p].call = t.call /\ task'[p].rsp = t.rsp
          /\ task'[p].owes = t.owes /\ task'[p].newborn = t.newborn
          /\ task'[p].gadget <=> t.gadget
          /\ task'[p].st = NextStation(t, FALSE)
      BY <1>1, <1>5, <2>1, Onward
    <3>3. QED
      BY <1>5, <3>1, <3>2
  <2>3. Clean(p)'
    BY <1>1, <1>3, <1>4, <1>5, <1>7 DEF Clean, NeedsExit
  <2>4. SeccompQuiet(p)'
    BY <1>7, <2>2, <2>3 DEF SeccompQuiet, Untouched
  <2>5. QED
    BY <1>2, <2>2, <2>3, <2>4 DEF TaskInv, SeccompTask, Clean
<1>8. QED
  BY <1>6, <1>7

\* The answer to an entry or exit stop in seccomp mode.
LEMMA SyscallSeccompStop ==
  ASSUME World, LoopInv, NEW p \in Pids, UNCHANGED mode, OnSyscallSeccomp(p), Live(p)
  PROVE  TaskInv(p)'
<1>1. /\ task[p].st = got.stop /\ got.stop \in {"entry", "exit"} /\ TypeOK
      /\ task[p] \in TaskType /\ mode = "seccomp" /\ SeccompFirst
      /\ UNCHANGED <<inSyscall, active>> /\ ModeFlag = FALSE
  BY DEF OnSyscallSeccomp, LoopInv, TypeOK, Live, World, ModeFlag
<1>2. SeccompTask(p) /\ SeccompInside(p)
  BY <1>1 DEF LoopInv, TaskInv, SeccompTask, SeccompQuiet, Outside, Alive, Stops
<1>3. CASE p \in expectEntry
  <2>1. /\ task[p].st = "entry" /\ Resume(p, task[p], TRUE, "none")
        /\ UNCHANGED <<statx, termios2Get, reserved, lastSyscall>> /\ p \notin expectEntry'
    BY <1>2, <1>3 DEF OnSyscallSeccomp, SeccompInside, Consumed
  <2>2. /\ task'[p].flag /\ task'[p].call = task[p].call /\ task'[p].rsp = task[p].rsp
        /\ task'[p].owes = task[p].owes /\ task'[p].newborn = task[p].newborn
        /\ task'[p].gadget <=> task[p].gadget
        /\ task'[p].st = "kernel"
    BY <1>1, <2>1, Onward DEF NextStation
  <2>3. SeccompInside(p)'
    BY <1>2, <2>1, <2>2 DEF SeccompInside, Translating
  <2>4. QED
    BY <1>1, <1>2, <2>2, <2>3 DEF TaskInv, SeccompTask
<1>4. CASE p \notin expectEntry
  <2>1. /\ task[p].st = "exit" /\ Resume(p, Finished(p), FALSE, "none")
        /\ ForgetCall(p) /\ p \notin expectEntry' /\ Translating(p)
    BY <1>1, <1>2, <1>4 DEF OnSyscallSeccomp, SeccompInside, Consumed
  <2>2. /\ ~task'[p].flag /\ task'[p].rsp = "own" /\ ~task'[p].owes
        /\ ~task'[p].newborn /\ ~task'[p].gadget /\ task'[p].st = "user"
    <3>1. /\ Finished(p) \in TaskType /\ Finished(p).st = "exit"
          /\ ~Finished(p).newborn /\ ~Finished(p).gadget
          /\ Finished(p).rsp = "own" /\ ~Finished(p).owes
      BY <1>1, <1>2, <2>1, FinishedExit DEF SeccompTask, SeccompInside
    <3>2. NextStation(Finished(p), FALSE) = "user"
      BY <3>1 DEF NextStation
    <3>3. QED
      BY <1>1, <2>1, <3>1, <3>2, Onward
  <2>3. Clean(p)'
    BY <1>1, <1>2, <2>1 DEF Clean, ForgetCall, TypeOK, SeccompTask
  <2>4. SeccompQuiet(p)'
    BY <2>2, <2>3 DEF SeccompQuiet, Untouched, Outside
  <2>5. QED
    BY <1>1, <2>2, <2>3, <2>4 DEF TaskInv, SeccompTask, Clean
<1>5. QED
  BY <1>3, <1>4

\* A stop inside an emulation (Emulations::step).
LEMMA StepTask ==
  ASSUME LoopInv, NEW p \in Pids, UNCHANGED mode, StepEmulation(p), Live(p)
  PROVE  TaskInv(p)'
<1>1. /\ task[p].st = got.stop /\ got.stop \in {"entry", "exit"} /\ TypeOK
      /\ task[p] \in TaskType /\ mode = "ptrace" /\ active[p] \in 1 .. 3 /\ ModeFlag = TRUE
      /\ UNCHANGED <<inSyscall, lastSyscall, statx, termios2Get, reserved, expectEntry>>
      /\ active'[p] = active[p] - 1
      /\ Resume(p, [task[p] EXCEPT !.gadget = ~(active[p] % 2 = 0) /\ active[p] - 1 > 0],
                TRUE, "none")
  <2>1. StopsLeft(p) = active[p] - 1 /\ ModeFlag = TRUE
    BY DEF StopsLeft, ModeFlag, StepEmulation
  <2>2. /\ task[p].st = got.stop /\ got.stop \in {"entry", "exit"} /\ TypeOK
        /\ task[p] \in TaskType /\ mode = "ptrace" /\ active[p] \in 1 .. 3
        /\ UNCHANGED <<inSyscall, lastSyscall, statx, termios2Get, reserved, expectEntry>>
    BY DEF StepEmulation, LoopInv, TypeOK, Live, EmulationStops
  <2>3. active'[p] = StopsLeft(p)
    BY DEF StepEmulation, LoopInv, TypeOK
  <2>4. Resume(p, [task[p] EXCEPT !.gadget = ~(active[p] % 2 = 0) /\ StopsLeft(p) > 0],
               ModeFlag, "none")
    BY DEF StepEmulation
  <2>5. Resume(p, [task[p] EXCEPT !.gadget = ~(active[p] % 2 = 0) /\ active[p] - 1 > 0],
               TRUE, "none")
    BY <2>1, <2>4, Zenon
  <2>6. QED
    BY <2>1, <2>2, <2>3, <2>5
<1>2. PtraceEmulated(p)
  BY <1>1 DEF LoopInv, TaskInv, PtraceOutside, PtraceInside, Clean, Alive, Stops
<1>3. ASSUME NEW gadget \in BOOLEAN, Resume(p, [task[p] EXCEPT !.gadget = gadget], TRUE, "none")
      PROVE  /\ task'[p].flag /\ task'[p].call = task[p].call /\ task'[p].rsp = "own"
             /\ ~task'[p].owes /\ ~task'[p].newborn /\ task'[p].sig = "none"
             /\ task'[p].gadget <=> gadget
             /\ task'[p].st = IF task[p].st = "entry" THEN "kernel" ELSE "user"
  <2> DEFINE t == [task[p] EXCEPT !.gadget = gadget]
  <2>1. /\ t \in TaskType /\ t.st = task[p].st /\ t.call = task[p].call /\ t.rsp = "own"
        /\ ~t.owes /\ ~t.newborn /\ t.gadget = gadget
    BY <1>1, <1>2 DEF TaskType, PtraceEmulated, Untouched
  <2> HIDE DEF t
  <2>2. NextStation(t, TRUE) = IF task[p].st = "entry" THEN "kernel" ELSE "user"
    BY <1>1, <2>1 DEF NextStation
  <2>3. Resume(p, t, TRUE, "none")
    BY <1>3 DEF t
  <2>4. /\ task'[p].flag = TRUE /\ task'[p].call = t.call /\ task'[p].rsp = t.rsp
        /\ task'[p].owes = t.owes /\ task'[p].newborn = t.newborn /\ task'[p].sig = "none"
        /\ task'[p].gadget <=> t.gadget
        /\ task'[p].st = NextStation(t, TRUE)
    BY <1>1, <2>1, <2>3, Onward
  <2>5. QED
    BY <2>1, <2>2, <2>4
<1>4. CASE active[p] = 2
  <2>1. task[p].st = "entry" /\ active'[p] = 1
    BY <1>1, <1>2, <1>4 DEF PtraceEmulated
  <2>2. Resume(p, [task[p] EXCEPT !.gadget = FALSE], TRUE, "none")
    <3>1. (~(active[p] % 2 = 0) /\ active[p] - 1 > 0) = FALSE
      BY <1>4
    <3>2. QED
      BY <1>1, <3>1, Zenon
  <2>3. PtraceEmulated(p)'
    <3>1. /\ task'[p].flag /\ task'[p].call = task[p].call /\ task'[p].rsp = "own"
          /\ ~task'[p].owes /\ ~task'[p].newborn
          /\ ~task'[p].gadget /\ task'[p].st = "kernel"
      BY <1>3, <2>1, <2>2
    <3>2. QED
      BY <1>1, <1>2, <2>1, <3>1 DEF PtraceEmulated, Untouched
  <2>4. QED
    BY <1>1, <2>3 DEF TaskInv
<1>5. CASE active[p] = 3
  <2>1. task[p].st = "exit" /\ active'[p] = 2
    BY <1>1, <1>2, <1>5 DEF PtraceEmulated
  <2>2. Resume(p, [task[p] EXCEPT !.gadget = TRUE], TRUE, "none")
    <3>1. (~(active[p] % 2 = 0) /\ active[p] - 1 > 0) = TRUE
      BY <1>5
    <3>2. QED
      BY <1>1, <3>1, Zenon
  <2>3. PtraceEmulated(p)'
    BY <1>1, <1>2, <1>3, <2>1, <2>2 DEF PtraceEmulated, Untouched
  <2>4. QED
    BY <1>1, <2>3 DEF TaskInv
<1>6. CASE active[p] = 1
  <2>1. task[p].st = "exit" /\ active'[p] = 0
    BY <1>1, <1>2, <1>6 DEF PtraceEmulated
  <2>2. Resume(p, [task[p] EXCEPT !.gadget = FALSE], TRUE, "none")
    <3>1. (~(active[p] % 2 = 0) /\ active[p] - 1 > 0) = FALSE
      BY <1>6
    <3>2. QED
      BY <1>1, <3>1, Zenon
  <2>3. PtraceOutside(p)'
    BY <1>1, <1>2, <1>3, <2>1, <2>2 DEF PtraceEmulated, PtraceOutside, Untouched, Clean, Outside
  <2>4. QED
    BY <1>1, <2>3 DEF TaskInv
<1>7. QED
  BY <1>1, <1>4, <1>5, <1>6

\* An entry at which an emulation begins (Emulations::begin).
LEMMA BeginTask ==
  ASSUME LoopInv, NEW p \in Pids, UNCHANGED mode, BeginEmulation(p)
  PROVE  TaskInv(p)'
<1>1. /\ task[p].st = got.stop /\ got.stop \in {"entry", "exit"} /\ Live(p)
      /\ task[p] \in TaskType /\ mode = "ptrace" /\ active[p] = 0 /\ p \notin inSyscall
      /\ task[p].call = "emulate" /\ active'[p] = 3
      /\ UNCHANGED <<inSyscall, lastSyscall, statx, termios2Get, reserved, expectEntry>>
      /\ Resume(p, task[p], TRUE, "none")
  <2>1. ModeFlag = TRUE
    BY DEF BeginEmulation, ModeFlag
  <2>2. QED
    BY <2>1 DEF BeginEmulation, LoopInv, TypeOK, Live, EmulationStops
<1>2. PtraceOutside(p)
  BY <1>1 DEF LoopInv, TaskInv, PtraceInside, PtraceEmulated, Alive, Stops
<1>3. task[p].st = "entry" /\ ~task[p].newborn /\ Untouched(p) /\ Clean(p) /\ ~task[p].gadget
  BY <1>1, <1>2 DEF PtraceOutside, Outside
<1>4. NextStation(task[p], TRUE) = "kernel"
  BY <1>1, <1>3 DEF NextStation
<1>5. /\ task'[p].flag = TRUE /\ task'[p].call = task[p].call /\ task'[p].rsp = task[p].rsp
      /\ task'[p].owes = task[p].owes /\ task'[p].newborn = task[p].newborn
      /\ task'[p].gadget <=> task[p].gadget
      /\ task'[p].st = "kernel"
  BY <1>1, <1>4, Onward
<1>6. PtraceEmulated(p)'
  BY <1>1, <1>3, <1>5 DEF PtraceEmulated, Untouched, Clean
<1>7. QED
  BY <1>1, <1>6 DEF TaskInv

\* The answer to an entry or exit stop in ptrace mode.
LEMMA SyscallStop ==
  ASSUME LoopInv, NEW p \in Pids, UNCHANGED mode, OnSyscallStop(p), Live(p)
  PROVE  TaskInv(p)'
<1>1. /\ task[p].st = got.stop /\ got.stop \in {"entry", "exit"} /\ TypeOK
      /\ task[p] \in TaskType /\ mode = "ptrace" /\ active[p] = 0 /\ ModeFlag = TRUE
      /\ UNCHANGED <<active, expectEntry>>
  BY DEF OnSyscallStop, LoopInv, TypeOK, Live, ModeFlag
<1>2. TaskInv(p) /\ task[p].st \in Alive
  BY <1>1 DEF LoopInv, Alive, Stops
<1>3. CASE p \in inSyscall
  <2>1. PtraceInside(p)
    BY <1>1, <1>2, <1>3 DEF TaskInv, PtraceOutside, PtraceEmulated, Clean
  <2>2. /\ task[p].st = "exit" /\ Resume(p, Finished(p), TRUE, "none")
        /\ ForgetCall(p) /\ p \notin inSyscall' /\ Translating(p)
    BY <1>1, <1>3, <2>1 DEF OnSyscallStop, Toggle, PtraceInside
  <2>3. /\ Finished(p) \in TaskType /\ Finished(p).st = "exit"
        /\ ~Finished(p).newborn /\ ~Finished(p).gadget
        /\ Finished(p).rsp = "own" /\ ~Finished(p).owes
    BY <1>1, <2>1, <2>2, FinishedExit DEF PtraceInside
  <2>4. NextStation(Finished(p), TRUE) = "user"
    BY <2>3 DEF NextStation
  <2>5. /\ task'[p].flag = TRUE /\ task'[p].rsp = "own" /\ ~task'[p].owes
        /\ ~task'[p].newborn /\ ~task'[p].gadget /\ task'[p].st = "user"
    BY <1>1, <2>2, <2>3, <2>4, Onward
  <2>6. Clean(p)'
    BY <1>1, <2>1, <2>2 DEF Clean, ForgetCall, TypeOK, PtraceInside
  <2>7. PtraceOutside(p)'
    BY <2>5, <2>6 DEF PtraceOutside, Untouched, Outside
  <2>8. QED
    BY <1>1, <2>7 DEF TaskInv
<1>4. CASE p \notin inSyscall
  <2>1. /\ task[p].st = "entry" /\ Untouched(p) /\ Clean(p)
        /\ ~task[p].newborn /\ ~task[p].gadget
    BY <1>1, <1>2, <1>4 DEF TaskInv, PtraceOutside, PtraceInside, PtraceEmulated, Outside
  <2>2. PICK converts \in BOOLEAN :
          /\ Translate(p, converts) /\ SetupTermios2(p, converts)
          /\ lastSyscall' = [lastSyscall EXCEPT ![p] = task[p].call]
          /\ Resume(p, AtEntry(p, converts), TRUE, "none")
    BY <1>1, <1>4 DEF OnSyscallStop
  <2> DEFINE t == AtEntry(p, converts)
  <2>3. /\ t \in TaskType
        /\ t.st = task[p].st /\ t.call = task[p].call /\ ~t.newborn /\ ~t.gadget
        /\ t.owes => p \in termios2Get'
        /\ t.rsp = IF p \in reserved' THEN "carved" ELSE "own"
        /\ p \in reserved' => t.call \in {"carve", "statx"}
        /\ p \in statx' <=> t.call = "statx" /\ p \in reserved'
    BY <1>1, <2>1, <2>2, RewriteEntry
  <2>4. Resume(p, t, TRUE, "none")
    BY <2>2
  <2> HIDE DEF t
  <2>5. NextStation(t, TRUE) = "kernel"
    BY <1>1, <2>1, <2>3 DEF NextStation
  <2>6. /\ task'[p].flag = TRUE /\ task'[p].call = task[p].call /\ task'[p].rsp = t.rsp
        /\ task'[p].owes = t.owes /\ ~task'[p].newborn /\ ~task'[p].gadget
        /\ task'[p].st = "kernel"
    BY <1>1, <2>3, <2>4, <2>5, Onward
  <2>7. lastSyscall'[p] = task'[p].call /\ p \in inSyscall' /\ p \notin expectEntry'
    BY <1>1, <1>4, <2>1, <2>2, <2>6 DEF TypeOK, OnSyscallStop, Toggle, Clean
  <2>8. PtraceInside(p)'
    BY <1>1, <2>3, <2>6, <2>7 DEF PtraceInside, Translating
  <2>9. QED
    BY <1>1, <2>8 DEF TaskInv
<1>5. QED
  BY <1>3, <1>4

\* The loop's invariant: each task's place in its call, the kernel's view of it
\* and the tracer's agree in every state.
THEOREM LoopInvariant ==
  ASSUME World
  PROVE  Spec => []LoopInv
<1>1. Init => LoopInv
  <2> SUFFICES ASSUME Init, TypeOK PROVE LoopInv
    BY InitTypes
  <2> USE ConstantsAssumption
  <2>1. \A q \in Pids \ {Main} : task[q] = NoTask
    BY DEF Init
  <2>2. /\ task[Main].st = "user" /\ task[Main].leader = Main /\ task[Main].flag = (mode = "ptrace")
        /\ task[Main].rsp = "own" /\ ~task[Main].owes /\ ~task[Main].gadget /\ ~task[Main].newborn
        /\ task[Main].call = "none"
    BY DEF Init, NoTask
  <2>3. TaskInv(Main)
    BY <2>2 DEF Init, TaskInv, PtraceOutside, SeccompTask, SeccompQuiet, Untouched, Clean, Outside
  <2>4. \A q \in Pids : TaskInv(q)
    BY <2>1, <2>3 DEF TaskInv, NoTask, Alive, Stops
  <2>5. NoStaleState
    BY <2>2 DEF Init, NoStaleState
  <2>6. Places /\ InHand /\ Callers /\ Zombies
    BY <2>1, <2>2 DEF Init, Places, InHand, Callers, Zombies, Running, NoTask, Alive
  <2>7. QED
    BY <2>4, <2>5, <2>6 DEF LoopInv
<1>2. LoopInv /\ [Next]_vars => LoopInv'
  <2> SUFFICES ASSUME LoopInv, [Next]_vars PROVE LoopInv'
    OBVIOUS
  <2>1. TypeOK'
    BY TypeKept DEF LoopInv
  <2>2. ASSUME NEW p \in Pids, UNCHANGED mode, Answer(p) PROVE LoopInv'
    <3>1. Live(p) => TaskInv(p)'
      BY <2>2, StoppedTask, EventTaskResumed, SeccompStop, SyscallSeccompStop, StepTask, BeginTask,
         SyscallStop DEF Answer
    <3>2. QED
      BY <2>1, <2>2, <3>1, AnswerKeeps
  <2>3. ASSUME UNCHANGED vars PROVE LoopInv'
    <3>1. \A q \in Pids : SameMemory(q) /\ task'[q] = task[q]
      BY <2>3 DEF vars, tracerVars, SameMemory
    <3>2. \A q \in Pids : TaskInv(q)'
      BY <2>3, <3>1, Unmoved DEF LoopInv, vars
    <3>3. QED
      BY <2>1, <2>3, <3>2
         DEF LoopInv, vars, tracerVars, Places, InHand, Callers, Zombies, NoStaleState, Running
  <2>4. QED
    BY <2>1, <2>2, <2>3, SyscallLoop, GadgetLoop, RunCallLoop, ForkLoop, ExecLoop, DeathLoop,
       SignalLoop, WaitLoop, ReapLoop, NobodyLoop DEF Next, Answer, Gone
<1>3. QED
  BY <1>1, <1>2, PTL DEF Spec

\* Entry and exit stops are told apart (in_syscall, expect_entry, Emulations).
THEOREM StopsAlwaysMatch ==
  ASSUME World
  PROVE  Spec => []StopsMatch
<1>1. LoopInv => StopsMatch
  <2> SUFFICES ASSUME LoopInv, NEW p \in Pids, task[p].st \in {"entry", "exit"}
               PROVE  IF task[p].st = "entry"
                      THEN IF mode = "seccomp" THEN p \in expectEntry
                           ELSE IF active[p] > 0 THEN active[p] % 2 = 0 ELSE p \notin inSyscall
                      ELSE IF mode = "seccomp" THEN p \notin expectEntry
                           ELSE IF active[p] > 0 THEN active[p] % 2 = 1 ELSE p \in inSyscall
    BY DEF StopsMatch
  <2>1. TaskInv(p) /\ task[p].st \in Alive /\ active[p] \in 0 .. 3 /\ mode \in {"ptrace", "seccomp"}
    BY ConstantsAssumption DEF LoopInv, TypeOK, Alive, Stops, EmulationStops
  <2>2. CASE mode = "ptrace"
    BY <2>1, <2>2 DEF TaskInv, PtraceOutside, PtraceInside, PtraceEmulated, Clean, Outside
  <2>3. CASE mode = "seccomp"
    BY <2>1, <2>3 DEF TaskInv, SeccompTask, SeccompQuiet, SeccompInside, Outside
  <2>4. QED
    BY <2>1, <2>2, <2>3
<1>2. QED
  BY <1>1, LoopInvariant, PTL

\* No task in user code misses its stack pointer or a result, or is in the
\* middle of an emulation (on_syscall_exit, Emulations::step).
LEMMA UserCode ==
  ASSUME LoopInv, NEW p \in Pids, InUserCode(p)
  PROVE  Untouched(p) /\ active[p] = 0
<1>1. TaskInv(p) /\ task[p].st = "user" /\ task[p].st \in Alive /\ ~task[p].gadget
  BY DEF LoopInv, InUserCode, Alive
<1>2. QED
  BY <1>1
     DEF TaskInv, PtraceOutside, PtraceInside, PtraceEmulated, SeccompTask, SeccompQuiet,
         SeccompInside, Clean

\* Application code never runs on a stack pointer that the tracer moved.
THEOREM StackAlwaysIntact ==
  ASSUME World
  PROVE  Spec => []StackIntact
<1>1. LoopInv => StackIntact
  BY UserCode DEF StackIntact, Untouched
<1>2. QED
  BY <1>1, LoopInvariant, PTL

\* A translated statx, termios2 or getrandom is complete when its caller goes on.
THEOREM ResultsAlwaysComplete ==
  ASSUME World
  PROVE  Spec => []ResultsComplete
<1>1. LoopInv => ResultsComplete
  BY UserCode DEF ResultsComplete, Untouched
<1>2. QED
  BY <1>1, LoopInvariant, PTL

\* No application code, no handler runs between the calls of an emulation.
THEOREM NothingEverRunsInside ==
  ASSUME World
  PROVE  Spec => []NothingRunsInside
<1>1. LoopInv => NothingRunsInside
  BY UserCode DEF NothingRunsInside
<1>2. QED
  BY <1>1, LoopInvariant, PTL

\* A pid that is given to another task starts from nothing (Tracer::forget).
THEOREM NothingStale ==
  ASSUME World
  PROVE  Spec => []NoStaleState
<1>1. LoopInv => NoStaleState
  BY DEF LoopInv
<1>2. QED
  BY <1>1, LoopInvariant, PTL
=============================================================================
