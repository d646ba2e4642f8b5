------------------------------- MODULE Tracer -------------------------------
(***************************************************************************)
(* Tracer::supervise of kernel_compat.rs: one tracer, the tasks it traces  *)
(* and the ptrace interface between them, in both tracing modes.           *)
(*                                                                         *)
(* A task is at one of these places (task[p].st):                          *)
(*   none      the pid is not in use                                       *)
(*   user      in user mode: application code, or about to run the gadget  *)
(*   seccomp, entry, kernel, event, exit                                   *)
(*             the stations of a system call; all but kernel are stops     *)
(*   signal, group                                                         *)
(*             signal-delivery stop, group stop                            *)
(*   zombie    dead, its status not collected                              *)
(*   free      running without a tracer                                    *)
(* Calls are kept by what the tracer does about them: see Kinds.           *)
(***************************************************************************)
EXTENDS Integers, FiniteSets

CONSTANTS
    Pids,           \* task ids in use; reused once a task is gone
    Main,           \* the child that run_apprun_traced forked
    Modes,          \* the modes it may be started in
    SeccompFirst,   \* a seccomp stop precedes the entry stop (before Linux 4.8)
    Kinds,          \* the calls the application makes, a subset of AllKinds
    ThreadExec,     \* execve is called from any thread, not only the leader
    MainReused      \* pids wrap around to the main child's while others live

\* plain      nothing to do
\* rewrite    the number or an argument is changed, nothing at the exit: pipe2
\* carve      scratch carved below rsp, rsp restored at the exit: timed futex
\* statx      carve, and the result is converted at the exit
\* termios2   TCGETS2, made TCGETS; its speeds are filled in at the exit (ptrace
\*            mode: kernels without it have no seccomp filters)
\* getrandom  the caller's buffer is filled at the exit
\* emulate    answered by a sequence of two injected calls (ptrace mode)
AllKinds == {"plain", "rewrite", "carve", "statx", "termios2", "getrandom",
             "emulate", "fork", "thread", "exec", "exit"}

\* The calls install_seccomp_filter traps.
Filtered == {"rewrite", "carve", "statx", "getrandom"}

\* Calls with something left to do at the exit.
NeedsExit == {"carve", "statx", "getrandom"}

\* Stops an emulation of two calls goes through after the one it starts at:
\* exit of the first call, entry and exit of the second.
EmulationStops == 3

ASSUME ConstantsAssumption ==
    /\ Main \in Pids
    /\ Modes \subseteq {"ptrace", "seccomp"}
    /\ SeccompFirst \in BOOLEAN
    /\ ThreadExec \in BOOLEAN
    /\ MainReused \in BOOLEAN
    /\ Kinds \subseteq AllKinds

VARIABLES
    mode,           \* "ptrace": every syscall stops; "seccomp": filtered ones
    task,           \* the kernel's record of each task
    configured,     \* pids whose first stop has been seen
    inSyscall,      \* in_syscall: pids last seen entering a call
    lastSyscall,    \* last_syscall
    statx,          \* pids with a pending statx conversion
    termios2Get,    \* termios2_get: pids whose TCGETS2 was rewritten
    reserved,       \* pids with an rsp to restore
    active,         \* stops left of the pid's emulation, 0 for none
    stashed,        \* the held signal, a set of at most one
    expectEntry,    \* expect_entry
    got,            \* the stop wait_any just returned
    mainCode,       \* main_code
    exitCode,       \* the status the tracer exited with
    mainStatus      \* how the main child really ended

tracerVars == <<configured, inSyscall, lastSyscall, statx, termios2Get, reserved,
                active, stashed, expectEntry>>
vars == <<mode, task, tracerVars, got, mainCode, exitCode, mainStatus>>

NoTask == [st |-> "none", leader |-> Main, flag |-> FALSE, call |-> "none",
           rsp |-> "own", gadget |-> FALSE, owes |-> FALSE, sig |-> "none",
           newborn |-> FALSE, code |-> "none"]

Stops == {"seccomp", "entry", "event", "exit", "signal", "group"}
Alive == Stops \cup {"user", "kernel"}

Nothing == [pid |-> Main, stop |-> "none", sig |-> "none"]
Running == exitCode = "none"

Threads(p) == {q \in Pids : task[q].st \notin {"none", "free"} /\ task[q].leader = task[p].leader}

\* supervise() has consumed the child's SIGSTOP, set the options and resumed it.
Init ==
    /\ mode \in Modes
    /\ task = [p \in Pids |->
                 IF p = Main
                 THEN [NoTask EXCEPT !.st = "user", !.flag = (mode = "ptrace")]
                 ELSE NoTask]
    /\ configured = {Main}
    /\ inSyscall = {} /\ statx = {} /\ termios2Get = {} /\ reserved = {}
    /\ lastSyscall = [p \in Pids |-> "none"]
    /\ active = [p \in Pids |-> 0]
    /\ stashed = [p \in Pids |-> {}]
    /\ expectEntry = {}
    /\ got = Nothing
    /\ mainCode = "none" /\ exitCode = "none" /\ mainStatus = "none"

-----------------------------------------------------------------------------
(* The kernel.  An untraced task is of no further interest.                *)

\* Where a task in user mode lands when it makes call k.
FirstStation(k, flag) ==
    LET trapped == mode = "seccomp" /\ k \in Filtered
    IN  CASE trapped /\ SeccompFirst -> "seccomp"
          [] ~(trapped /\ SeccompFirst) /\ flag -> "entry"
          [] ~flag /\ trapped /\ ~SeccompFirst -> "seccomp"
          [] OTHER -> "kernel"

\* Where it goes from a stop it is resumed at; flag: with PTRACE_SYSCALL.
NextStation(t, flag) ==
    CASE t.st = "seccomp" -> IF SeccompFirst /\ flag THEN "entry" ELSE "kernel"
      [] t.st = "entry" ->
            IF ~SeccompFirst /\ mode = "seccomp" /\ t.call \in Filtered
            THEN "seccomp" ELSE "kernel"
      [] t.st = "event" -> IF flag THEN "exit" ELSE "user"
      [] OTHER -> "user"

\* Application code makes a call.
Syscall(p) ==
    /\ task[p].st = "user"
    /\ ~task[p].gadget /\ ~task[p].newborn
    /\ \E k \in Kinds :
         /\ k = "emulate" => mode = "ptrace"
         /\ k = "exec" => ThreadExec \/ task[p].leader = p
         /\ task' = [task EXCEPT ![p].call = k,
                                 ![p].st = FirstStation(k, task[p].flag)]
    /\ UNCHANGED <<tracerVars, got, mainCode, exitCode, mainStatus>>

\* The syscall instruction an emulation sent the task back to.
Gadget(p) ==
    /\ task[p].st = "user"
    /\ task[p].gadget
    /\ task' = [task EXCEPT ![p].st = FirstStation("plain", task[p].flag)]
    /\ UNCHANGED <<tracerVars, got, mainCode, exitCode, mainStatus>>

AfterCall(t) == IF t.flag THEN "exit" ELSE "user"

\* A call that creates nothing and kills nobody.  A statx that was rewritten
\* leaves a struct stat to convert, a getrandom a buffer to fill.
RunCall(p) ==
    /\ task[p].st = "kernel"
    /\ task[p].call \notin {"fork", "thread", "exec", "exit"}
    /\ task' = [task EXCEPT
                  ![p].st = AfterCall(task[p]),
                  ![p].owes = @ \/ task[p].call = "getrandom"
                                \/ (task[p].call = "statx" /\ task[p].rsp = "carved")]
    /\ UNCHANGED <<tracerVars, got, mainCode, exitCode, mainStatus>>

\* fork and clone: the child starts with a SIGSTOP for its tracer, the parent
\* reports an event.
RunFork(p) ==
    /\ task[p].st = "kernel"
    /\ task[p].call \in {"fork", "thread"}
    /\ \E q \in Pids :
         /\ task[q].st = "none"
         /\ q = Main => MainReused
         /\ \A r \in Pids : task[r].st # "none" => task[r].leader # q
         /\ task' = [task EXCEPT
              ![p].st = "event",
              ![q] = [NoTask EXCEPT
                        !.st = "user", !.newborn = TRUE,
                        !.leader = IF task[p].call = "fork" THEN q
                                   ELSE task[p].leader]]
    /\ UNCHANGED <<tracerVars, got, mainCode, exitCode, mainStatus>>

\* execve: the process keeps one task, under the leader's id.  The other
\* threads die; a caller that was not the leader gives up its own id, which no
\* wait reports.
RunExec(p) ==
    /\ task[p].st = "kernel"
    /\ task[p].call = "exec"
    /\ LET l == task[p].leader
       IN  task' = [q \in Pids |->
             CASE q = l -> [task[p] EXCEPT !.st = "event", !.rsp = "own"]
               [] q = p /\ q # l -> NoTask
               [] q \in Threads(p) \ {l, p} ->
                    [task[q] EXCEPT !.st = "zombie", !.code = "exit"]
               [] OTHER -> task[q]]
    /\ UNCHANGED <<tracerVars, got, mainCode, exitCode, mainStatus>>

\* The whole process of p dies: exit_group, a fatal signal or SIGKILL.
Die(p, status) ==
    /\ task' = [q \in Pids |->
                  IF q \in Threads(p) /\ task[q].st \in Alive
                  THEN [task[q] EXCEPT !.st = "zombie", !.code = status]
                  ELSE task[q]]
    /\ mainStatus' = IF task[p].leader = Main /\ mainStatus = "none"
                     THEN status ELSE mainStatus

RunExit(p) ==
    /\ task[p].st = "kernel"
    /\ task[p].call = "exit"
    /\ Die(p, "exit")
    /\ UNCHANGED <<tracerVars, got, mainCode, exitCode>>

\* SIGKILL, which no stop and no tracer keeps away.
Kill(p) ==
    /\ task[p].st \in Alive
    /\ Die(p, "signal")
    /\ UNCHANGED <<tracerVars, got, mainCode, exitCode>>

\* A signal is found on the way to user mode; a newborn's own SIGSTOP comes
\* first or after another one.
TakeSignal(p) ==
    /\ task[p].st = "user"
    /\ \E s \in {"handled", "fatal"} \cup (IF task[p].newborn THEN {"SIGSTOP"} ELSE {}) :
         task' = [task EXCEPT ![p].st = "signal", ![p].sig = s,
                              ![p].newborn = @ /\ s # "SIGSTOP"]
    /\ UNCHANGED <<tracerVars, got, mainCode, exitCode, mainStatus>>

-----------------------------------------------------------------------------
(* wait_any returns a stop; the tracer has the loop to itself until it has *)
(* answered it, but the task may be killed under its hands.                *)

Wait(p) ==
    /\ Running
    /\ got = Nothing
    /\ task[p].st \in Stops
    /\ got' = [pid |-> p, stop |-> task[p].st, sig |-> task[p].sig]
    /\ UNCHANGED <<task, tracerVars, mainCode, exitCode, mainStatus>>

\* ptrace requests on p still work.
Live(p) == task[p].st = got.stop

\* What p's record becomes when it is resumed as t, with PTRACE_SYSCALL or not
\* (flag), from a stop other than for a fatal signal.  A signal injected at a
\* syscall stop is sent to the task again: TakeSignal.
ResumedAs(t, flag, sig) ==
    [t EXCEPT !.flag = flag,
              !.sig = "none",
              !.st = IF t.st = "signal" /\ sig = "SIGSTOP" THEN "group"
                     ELSE NextStation(t, flag),
              !.gadget = t.gadget /\ ~(t.st = "signal" /\ sig = "handled")]

\* Resume p, whose registers were changed as in t.
Resume(p, t, flag, sig) ==
    /\ got' = Nothing
    /\ IF ~Live(p) THEN UNCHANGED <<task, mainStatus>>
       ELSE IF t.st = "signal" /\ sig = "fatal" THEN Die(p, "signal")
       ELSE /\ task' = [task EXCEPT ![p] = ResumedAs(t, flag, sig)]
            /\ UNCHANGED mainStatus

ModeFlag == mode = "ptrace"

\* An exit stop is due for p that must not be missed.
Pending(p) ==
    /\ mode = "seccomp"
    /\ p \in reserved \cup expectEntry \cup statx \/ lastSyscall[p] # "none"

-----------------------------------------------------------------------------
(* Wait::Stopped.                                                          *)

\* Every signal goes straight through.
Bug_OnStopped(p) ==
    /\ got.pid = p
    /\ got.stop \in {"signal", "group"}
    /\ configured' = configured \cup {p}
    /\ Resume(p, task[p], ModeFlag, IF got.stop = "group" THEN "SIGSTOP" ELSE got.sig)
    /\ UNCHANGED <<inSyscall, lastSyscall, statx, termios2Get, reserved, active,
                   stashed, expectEntry, mainCode, exitCode>>

OnStopped(p) ==
    /\ got.pid = p
    /\ got.stop \in {"signal", "group"}
    /\ LET s == IF got.stop = "group" THEN "SIGSTOP" ELSE got.sig
           first == p # Main /\ p \notin configured
           hold == active[p] > 0 /\ s # "SIGSTOP"
       IN  /\ configured' = configured \cup {p}
           /\ CASE first /\ s = "SIGSTOP" ->
                     Resume(p, task[p], ModeFlag, "none") /\ UNCHANGED stashed
                [] ~(first /\ s = "SIGSTOP") /\ hold ->
                     /\ stashed' = [stashed EXCEPT ![p] = {s}]
                     /\ Resume(p, task[p], ModeFlag, "none")
                [] OTHER ->
                     /\ Resume(p, task[p], ModeFlag \/ Pending(p), s)
                     /\ UNCHANGED stashed
    /\ UNCHANGED <<inSyscall, lastSyscall, statx, termios2Get, reserved, active,
                   expectEntry, mainCode, exitCode>>

\* An event stop is left for somebody else to resume.
Bug_OnEvent(p) ==
    /\ got.pid = p
    /\ got.stop = "event"
    /\ got' = Nothing
    /\ UNCHANGED <<task, mainStatus, tracerVars, mainCode, exitCode>>

OnEvent(p) ==
    /\ got.pid = p
    /\ got.stop = "event"
    /\ Resume(p, task[p], ModeFlag, "none")
    /\ UNCHANGED <<tracerVars, mainCode, exitCode>>

-----------------------------------------------------------------------------
(* The translations, reduced to what they leave for the exit stop.         *)

\* translate_common on a readable task; converts: statx was given a buffer
\* (setup_statx returns early otherwise).
Translate(p, converts) ==
    LET k == task[p].call
        carves == k = "carve" \/ (k = "statx" /\ converts)
    IN  /\ reserved' = IF carves THEN reserved \cup {p} ELSE reserved
        /\ statx' = IF k = "statx" /\ converts THEN statx \cup {p} ELSE statx

\* The task's registers after Translate.
Translated(p, converts) ==
    IF task[p].call = "carve" \/ (task[p].call = "statx" /\ converts)
    THEN [task[p] EXCEPT !.rsp = "carved"] ELSE task[p]

\* setup_termios2: the request is one that reads, and was changed.
Rewrites(p, converts) == task[p].call = "termios2" /\ converts

SetupTermios2(p, converts) ==
    termios2Get' = IF Rewrites(p, converts) THEN termios2Get \cup {p} ELSE termios2Get

\* The task's registers after both. A rewritten TCGETS2 leaves the speeds to fill in.
AtEntry(p, converts) ==
    IF Rewrites(p, converts) THEN [task[p] EXCEPT !.owes = TRUE] ELSE Translated(p, converts)

\* on_syscall_exit: finish what the entry left pending.
ForgetCall(p) ==
    /\ statx' = statx \ {p}
    /\ termios2Get' = termios2Get \ {p}
    /\ reserved' = reserved \ {p}
    /\ lastSyscall' = [lastSyscall EXCEPT ![p] = "none"]

\* The scratch reservation is not undone.
Bug_Finished(p) ==
    [task[p] EXCEPT !.owes = @ /\ ~(p \in statx \cup termios2Get \/ lastSyscall[p] = "getrandom")]

\* The statx result is not converted.
Bug_FinishedStatx(p) ==
    [task[p] EXCEPT !.rsp = IF p \in reserved THEN "own" ELSE @,
                    !.owes = @ /\ ~(p \in termios2Get \/ lastSyscall[p] = "getrandom")]

\* The task's registers and memory after it.
Finished(p) ==
    LET t == task[p]
        served == p \in statx \cup termios2Get \/ lastSyscall[p] = "getrandom"
    IN  [t EXCEPT !.rsp = IF p \notin reserved THEN t.rsp
                          ELSE IF t.rsp = "carved" THEN "own" ELSE "stale",
                  !.owes = t.owes /\ ~served]

-----------------------------------------------------------------------------
(* Wait::Event with PTRACE_EVENT_SECCOMP: on_seccomp_stop.                 *)

OnSeccomp(p) ==
    /\ got.pid = p
    /\ got.stop = "seccomp"
    /\ IF ~Live(p)
       THEN /\ Resume(p, task[p], ModeFlag, "none")
            /\ UNCHANGED <<reserved, statx, lastSyscall, expectEntry>>
       ELSE \E converts \in BOOLEAN :
              LET owesExit == task[p].call \in NeedsExit
              IN  /\ Translate(p, converts)
                  /\ lastSyscall' = IF task[p].call = "getrandom"
                                    THEN [lastSyscall EXCEPT ![p] = "getrandom"]
                                    ELSE lastSyscall
                  /\ expectEntry' = IF owesExit THEN expectEntry \cup {p}
                                    ELSE expectEntry
                  /\ Resume(p, Translated(p, converts), owesExit \/ ModeFlag, "none")
    /\ UNCHANGED <<configured, inSyscall, termios2Get, active, stashed, mainCode,
                   exitCode>>

\* The entry stop is not ticked off.
Bug_Consumed(p) == expectEntry

\* The stop in hand is the entry stop owed, if one was.
Consumed(p) == expectEntry \ {p}

\* Wait::Syscall in seccomp mode.
OnSyscallSeccomp(p) ==
    /\ mode = "seccomp"
    /\ got.pid = p
    /\ got.stop \in {"entry", "exit"}
    /\ expectEntry' = Consumed(p)
    /\ IF p \in expectEntry
       THEN /\ Resume(p, task[p], TRUE, "none")
            /\ UNCHANGED <<statx, termios2Get, reserved, lastSyscall>>
       ELSE /\ ForgetCall(p)
            /\ Resume(p, IF Live(p) THEN Finished(p) ELSE task[p], ModeFlag, "none")
    /\ UNCHANGED <<configured, inSyscall, active, stashed, mainCode, exitCode>>

-----------------------------------------------------------------------------
(* Wait::Syscall in ptrace mode.                                           *)

\* An emulation ends at its last stop, or where the task cannot be read; the
\* entry of an injected call is counted without reading it.
StopsLeft(p) == IF Live(p) \/ active[p] % 2 = 0 THEN active[p] - 1 ELSE 0

\* Emulations::step, and the delivery of the held signal at the end.
StepEmulation(p) ==
    /\ mode = "ptrace"
    /\ got.pid = p
    /\ got.stop \in {"entry", "exit"}
    /\ active[p] > 0
    /\ LET atEntry == active[p] % 2 = 0
           left == StopsLeft(p)
       IN  /\ active' = [active EXCEPT ![p] = left]
           /\ stashed' = IF left = 0 THEN [stashed EXCEPT ![p] = {}] ELSE stashed
           /\ Resume(p, [task[p] EXCEPT !.gadget = ~atEntry /\ left > 0],
                     ModeFlag, "none")
    /\ UNCHANGED <<configured, inSyscall, lastSyscall, statx, termios2Get, reserved,
                   expectEntry, mainCode, exitCode>>

\* Emulations::begin takes the call over.
BeginEmulation(p) ==
    /\ mode = "ptrace"
    /\ got.pid = p
    /\ got.stop \in {"entry", "exit"}
    /\ active[p] = 0
    /\ p \notin inSyscall
    /\ Live(p)
    /\ task[p].call = "emulate"
    /\ active' = [active EXCEPT ![p] = EmulationStops]
    /\ Resume(p, task[p], ModeFlag, "none")
    /\ UNCHANGED <<configured, inSyscall, lastSyscall, statx, termios2Get, reserved,
                   stashed, expectEntry, mainCode, exitCode>>

\* The pid's record of the direction flips at every stop.
Toggle(p) == IF p \in inSyscall THEN inSyscall \ {p} ELSE inSyscall \cup {p}

\* begin declines, for want of a gadget if nothing else: on_syscall_stop.
OnSyscallStop(p) ==
    /\ mode = "ptrace"
    /\ got.pid = p
    /\ got.stop \in {"entry", "exit"}
    /\ active[p] = 0
    /\ inSyscall' = Toggle(p)
    /\ IF p \in inSyscall
       THEN /\ ForgetCall(p)
            /\ Resume(p, IF Live(p) THEN Finished(p) ELSE task[p], ModeFlag, "none")
       ELSE IF ~Live(p)
       THEN /\ Resume(p, task[p], ModeFlag, "none")
            /\ UNCHANGED <<statx, termios2Get, reserved, lastSyscall>>
       ELSE \E converts \in BOOLEAN :
              /\ Translate(p, converts) /\ SetupTermios2(p, converts)
              /\ lastSyscall' = [lastSyscall EXCEPT ![p] = task[p].call]
              /\ Resume(p, AtEntry(p, converts), ModeFlag, "none")
    /\ UNCHANGED <<configured, active, stashed, expectEntry, mainCode, exitCode>>

-----------------------------------------------------------------------------
(* Wait::Exited and Wait::Signaled; the end of the loop.                   *)

\* Only the configuration is forgotten.
Bug_Forget(p) ==
    /\ configured' = configured \ {p}
    /\ UNCHANGED <<inSyscall, lastSyscall, statx, termios2Get, active, reserved,
                   stashed, expectEntry>>

\* Tracer::forget.
Forget(p) ==
    /\ configured' = configured \ {p}
    /\ inSyscall' = inSyscall \ {p}
    /\ lastSyscall' = [lastSyscall EXCEPT ![p] = "none"]
    /\ statx' = statx \ {p}
    /\ termios2Get' = termios2Get \ {p}
    /\ active' = [active EXCEPT ![p] = 0]
    /\ reserved' = reserved \ {p}
    /\ stashed' = [stashed EXCEPT ![p] = {}]
    /\ expectEntry' = expectEntry \ {p}

\* The tracer is gone: tasks run on untraced, statuses go to somebody else.
Detached ==
    [q \in Pids |-> IF task[q].st \in Alive THEN [task[q] EXCEPT !.st = "free"]
                    ELSE NoTask]

\* The tracer leaves with the first child that ends; with the main one in any
\* mode; never.
Bug_LeavesAlways(p) == p = Main
Bug_LeavesNever(p) == FALSE

\* In seccomp mode the filter outlives the tracer, so it stays.
LeavesWith(p) == p = Main /\ mode # "seccomp"

Reap(p) ==
    /\ Running
    /\ got = Nothing
    /\ task[p].st = "zombie"
    /\ task[p].leader = p => Threads(p) = {p}
    /\ Forget(p)
    /\ IF LeavesWith(p)
       THEN /\ exitCode' = task[p].code
            /\ task' = Detached
            /\ UNCHANGED mainCode
       ELSE /\ mainCode' = IF p = Main THEN task[p].code ELSE mainCode
            /\ task' = [task EXCEPT ![p] = NoTask]
            /\ UNCHANGED exitCode
    /\ UNCHANGED <<got, mainStatus>>

\* ECHILD.
NobodyLeft ==
    /\ Running
    /\ got = Nothing
    /\ \A p \in Pids : task[p].st = "none"
    /\ exitCode' = IF mainCode = "none" THEN "exit" ELSE mainCode
    /\ UNCHANGED <<task, tracerVars, got, mainCode, mainStatus>>

Gone == ~Running /\ UNCHANGED vars

-----------------------------------------------------------------------------
Answer(p) ==
    OnStopped(p) \/ OnEvent(p) \/ OnSeccomp(p) \/ OnSyscallSeccomp(p)
        \/ StepEmulation(p) \/ BeginEmulation(p) \/ OnSyscallStop(p)

Next ==
    /\ UNCHANGED mode
    /\ \/ \E p \in Pids :
            \/ Syscall(p) \/ Gadget(p) \/ RunCall(p) \/ RunFork(p) \/ RunExec(p)
            \/ RunExit(p) \/ Kill(p) \/ TakeSignal(p)
            \/ Wait(p) \/ OnStopped(p) \/ OnEvent(p)
            \/ OnSeccomp(p) \/ OnSyscallSeccomp(p)
            \/ StepEmulation(p) \/ BeginEmulation(p) \/ OnSyscallStop(p)
            \/ Reap(p)
       \/ NobodyLeft
       \/ Gone

Spec == Init /\ [][Next]_vars

\* The tracer answers what wait_any returned, waitpid does not pass over a
\* child with something to report forever, and calls do end.
Fairness ==
    /\ \A p \in Pids :
         /\ WF_vars(Answer(p) /\ UNCHANGED mode)
         /\ SF_vars(Wait(p) /\ UNCHANGED mode)
         /\ SF_vars(Reap(p) /\ UNCHANGED mode)
    /\ WF_vars(NobodyLeft /\ UNCHANGED mode)

FairSpec == Spec /\ Fairness

-----------------------------------------------------------------------------
(* Properties.                                                             *)

InUserCode(p) == task[p].st = "user" /\ ~task[p].gadget /\ ~task[p].newborn

Statuses == {"none", "exit", "signal"}
SignalNames == {"none", "handled", "fatal", "SIGSTOP"}
TaskType ==
    [st : Alive \cup {"none", "zombie", "free"}, leader : Pids, flag : BOOLEAN,
     call : AllKinds \cup {"none"}, rsp : {"own", "carved", "stale"},
     gadget : BOOLEAN, owes : BOOLEAN, sig : SignalNames, newborn : BOOLEAN,
     code : Statuses]

\* Type invariant of the tasks and of struct Tracer.
TypeOK ==
    /\ mode \in Modes /\ task \in [Pids -> TaskType]
    /\ configured \subseteq Pids /\ inSyscall \subseteq Pids
    /\ statx \subseteq Pids /\ termios2Get \subseteq Pids
    /\ reserved \subseteq Pids /\ expectEntry \subseteq Pids
    /\ lastSyscall \in [Pids -> AllKinds \cup {"none"}]
    /\ active \in [Pids -> 0 .. EmulationStops]
    /\ stashed \in [Pids -> SUBSET SignalNames]
    /\ got \in [pid : Pids, stop : Stops \cup {"none"}, sig : SignalNames]
    /\ mainCode \in Statuses /\ exitCode \in Statuses /\ mainStatus \in Statuses

\* Application code and its handlers never run on a stack pointer the tracer
\* moved: whatever was carved at the entry of a call is given back at its exit
\* and nothing is given back twice (reserved, on_syscall_exit).
StackIntact == \A p \in Pids : InUserCode(p) => task[p].rsp = "own"

\* A translated statx, termios2 or getrandom is complete when the caller sees it.
ResultsComplete == \A p \in Pids : InUserCode(p) => ~task[p].owes

\* The tracer never takes the entry stop of a call for its exit or the other
\* way round: in_syscall and the emulation's at_entry in ptrace mode,
\* expect_entry in seccomp mode, agree with the kernel at every stop.
StopsMatch ==
    \A p \in Pids :
        /\ task[p].st = "entry" =>
             IF mode = "seccomp" THEN p \in expectEntry
             ELSE IF active[p] > 0 THEN active[p] % 2 = 0 ELSE p \notin inSyscall
        /\ task[p].st = "exit" =>
             IF mode = "seccomp" THEN p \notin expectEntry
             ELSE IF active[p] > 0 THEN active[p] % 2 = 1 ELSE p \in inSyscall

\* No application code runs in the middle of an emulation.
NothingRunsInside == \A p \in Pids : InUserCode(p) => active[p] = 0

\* Nothing is remembered of a pid that is not in use, so that a task which gets
\* the number next starts from nothing (Tracer::forget).
NoStaleState ==
    \A p \in Pids : Running /\ task[p].st = "none" =>
        /\ p \notin configured \cup inSyscall \cup statx \cup termios2Get
                       \cup reserved \cup expectEntry
        /\ lastSyscall[p] = "none" /\ active[p] = 0 /\ stashed[p] = {}

\* The tracer's exit status is the main child's, and in seccomp mode, where
\* the filter outlives it, it leaves only after the last traced task.
ExitStatus ==
    exitCode # "none" =>
        /\ exitCode = mainStatus
        /\ mode = "seccomp" => \A p \in Pids : task[p].st = "none"

\* No task is left at a stop: it is resumed, dies, or the tracer is gone.
StopsAnswered ==
    \A p \in Pids : task[p].st \in Stops ~> task[p].st \notin Stops

\* The tracer ends once the main child has, in ptrace mode.
EndsWithMain == mainStatus # "none" ~> (exitCode # "none" \/ mode = "seccomp")
=============================================================================
