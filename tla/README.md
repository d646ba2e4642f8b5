# Anylinux-sharun: TLA+ models and proofs

Sharun starts a bundled application on whatever Linux it finds.  Two parts of it
are hard to get right.

The *preloaded libraries* (`lib/`) run inside the application: they rewrite
every path it hands to libc, so that it sees files of the bundle where it
expects the host's; they decide at every exec what the child may know of the
bundle; and they look functions of the toolkit libraries up behind the
application's back, from any of its threads.

The *kernel compatibility layer* (`src/kernel_compat.rs`,
`src/emulated_syscalls.rs`) is a ptrace supervisor that gives an application
the system calls an old kernel does not have.  It follows every task through
signals, forks, execs and deaths, rewrites calls at their entry, finishes them
at their exit, answers some of them with sequences of other calls made inside
the tracee, and keeps timers that the kernel knows nothing about.

Paths below are relative to the repository.

## 1. Inventory

| Component | State it keeps | Operations | What makes it correct |
|---|---|---|---|
| **Injected-call sequences** `src/emulated_syscalls.rs` (`Emulations::begin`, `step`, the builders) | per pid: the saved registers, queue, results, descriptor, write end, `at_entry` | `begin` at an entry stop; `step` at every later stop; `forget` | the application sees one call: its mask, registers and files are its own when it runs again, its result is the right one, no signal is lost |
| **Emulated timerfds** `src/emulated_syscalls.rs` (`timerfd_*`, `tick`, `arm`, `capture_pipe`) | `timers`, `write_ends`, `ALARM`, ITIMER_REAL | create, settime, gettime, close, tick | a deadline always has a wake-up, every expiration is handed over once, a number stands for the timer that is open under it |
| **Tracer loop** `src/kernel_compat.rs` (`supervise`, `on_*_stop`, `forget`) | per pid: `configured`, `in_syscall`, `last_syscall`, `pending statx`, `reserved rsp`, `stashed_signal`, `expect_entry`; `main_code` | one arm per kind of `waitpid` status | every stop is answered once, entry and exit are never confused, nothing survives a pid, the exit status is the main child's |
| **Syscall translations** `src/kernel_compat.rs` (`translate_common`, `setup_statx`, `translate_futex`, ...) | the caller's registers and memory | at entry: other number or arguments, scratch space below rsp; at exit: convert the result | conversion of the result, registers preserved |
| **Mode selection and start** `src/kernel_compat.rs` (`enabled`, `run_apprun_traced`, `install_seccomp_filter`) | fork, a handshake pipe, the filter | choose ptrace or seccomp, fork, stop, set options | both sides agree on the mode; a filter never outlives its tracer |
| **SIGILL emulation, crash log** `src/kernel_compat.rs` | none / a log file | decode an instruction, describe a crash | data only |
| **Launcher** `src/main.rs`, `src/utils.rs`, `src/apprun.rs` | argv, environment | find itself, choose interpreter and library path, re-exec | the right binary, no re-exec loop |
| **Environment set-up** `src/set_appdir_env.rs` | environment | one assignment per feature found in the AppDir | host values kept where they matter |
| **bwrap wrapper** `src/bwrap_wrapper.rs` | argument vector, a pipe | rewrite bubblewrap's arguments | binds in the right order, the pipe is consumed |
| **Exec hooks** `lib/anylinux.c` | environ; what the constructors saved (APPDIR, PATH, TEXTDOMAINDIR) | constructors; wrappers of execv, execve, execvp, execvpe, posix_spawn, posix_spawnp, bindtextdomain, dlopen | a host program gets the host's environment, a bundled one finds its helpers, however the program treated its environment |
| **Path mapping** `lib/path-mapping.c`, `lib/pathmap_common.h` | rule table and excludes, read once; the kernel's working directory and descriptors | constructor; wrappers of every libc function that takes or returns a path | the program sees one file system in which its names mean what they say |
| **Toolkit fixes** `lib/gtk-fix-nonsense.c`, `lib/glycin-fix.c` | one slot per wrapped function, one handle per group of libraries, the forced window class | look-up at the first call; wrappers that set or return ids, load typelibs, make image loaders | the real function is reached, with the forced id, without a sandbox, with at most one error |
| **Build files and tools** | none | - | - |

How they interact.  `main.rs` prepares the environment and, if
`kernel_compat::enabled`, calls `run_apprun_traced`, which forks the
application and becomes its tracer.  `Tracer::supervise` owns all per-pid
state, hands syscall stops of ptrace mode to `Emulations` first and treats them
itself if `Emulations` declines.  The only thing that reaches the loop other
than `waitpid` is SIGALRM, whose handler sets `ALARM` for
`Emulations::tick`.  The tracer is single-threaded: concurrency is between it,
the kernel, the tasks (which run while it works on another) and whoever sends
signals.  The launcher puts `anylinux.so` and the other libraries into
LD_PRELOAD or into the program itself, and `PATH`, `APPDIR` and the variables of
`set_appdir_env.rs` into the environment; `anylinux.so` takes them out again
for programs of the host.  `path-mapping.so` is read by nobody else: it stands
between the program and libc.

What is hard.  ptrace does not say whether a stop is an entry or an exit, so the
tracer counts; a tracee can be killed at any point, also between `waitpid` and
the next request; pids are reused; a sequence of injected calls can fail in the
middle; signals arrive between injected calls; a deadline can pass between
testing a flag and blocking.  A program may clear its environment and exec
later; a name is mapped, shown back, stored in a link and used again, from a
directory that changed meanwhile; two threads resolve the same symbol while a
third loads the library.  `PROJECT.json` lists these as hazards, each at
its line.

## 2. Modules

| Module | Models |
|---|---|
| `InjectedCalls` | constant level: the sequences and the rules of `step`: when a sequence goes on, which cleanup runs after a failure, which result answers the call |
| `Emulation` | one tracee in ptrace mode, the kernel under it, `begin`, `step` and the arms of `supervise` that call them |
| `AtomicCalls` | the abstract specification of `Emulation`: the kernel as the application knows it, every call answered once and at once |
| `Tracer` | `supervise` with several tasks, both modes; an emulation is reduced to the number of its stops, a translation to what it leaves for the exit |
| `Launch` | mode selection and the start of a traced run: parent, child, the handshake pipe, the filter and its program |
| `Timers` | emulated timerfds: several processes, pipes, time, ITIMER_REAL, and the loop's three places (before `tick`, after it, in `waitpid`) |
| `PathRules` | constant level: the string algorithms of `pathmap_common.h`: normalisation, parsing of the variables, forward and reverse mapping, names in listings |
| `PathReference` | what a mapping means, over sequences of segments: the reference for `PathRules` |
| `PathConfig` | the rule table and one question after another put to it |
| `FileTree` | a small file system with links: what the kernel does with a path (external) |
| `VirtualFS` | the abstract specification: a program without any mapping on the tree it believes in |
| `PathMapping` | the constructor and the wrappers of `path-mapping.c` over a `FileTree` of real paths |
| `ExecHooks` | chains of programs under `anylinux.so`, and their environments |
| `SymbolFix` | the lazily resolving wrappers, several threads, libraries loaded at any time |
| `EmulationProofs`, `TracerProofs`, `LaunchProofs`, `TimersProofs`, `ExecHooksProofs`, `SymbolFixProofs` | theorems about the module of that name, checked by TLAPS (section 4) |
| `AtomicProofs` | the proof that `Emulation` implements `AtomicCalls` |
| `OrderLemmas` | a set of natural numbers has a smallest element: used by `LaunchProofs` and `TimersProofs` |
| `MC...` | instances for TLC |

`Launch` ends where `Tracer` begins.  `Emulation`, `Tracer` and `Timers` overlap
on purpose.  `Emulation` has every injected
call and all of the kernel's answers but one task; `Tracer` has many tasks,
deaths and modes but counts an emulation's stops; `Timers` has time and
descriptor tables but one step per syscall.  Each is small enough to be explored
in full with the actors that matter to its properties.  `PathMapping` composes
`PathRules` with `FileTree` and implements `VirtualFS`; `PathConfig` checks
`PathRules` alone, on many more tables and names.

### Emulation

`where` is the place of the tracee between user mode and the kernel; a stop is
answered by exactly one tracer action.

| Action | Code |
|---|---|
| `OnSyscall` = `StartSequence`, `StandIn` or `NotEmulated` | `Wait::Syscall` arm, `Emulations::begin`, `start_sequence`, `stand_in`, the toggle in `on_syscall_stop` |
| `StepEntry`, `StepCollect`, `StepFixup` | `Emulations::step` |
| `Collected`, `Reopenable`, `Tracked` | what `step` records of a call that returned, `capture_pipe` |
| `Inject`, `Finish` | the two ends of `step`: another call from the gadget, or the saved registers with the answer |
| `OnStopped` | `Wait::Stopped`: hold the signal back or deliver it |
| `ResumeAfterStep` | the delivery of the held signal after the last step |
| `Run*`, `EndWait`, `InterruptWait`, `TakeSignal`, `LeaveKernel`, `SendSignal` | the kernel and other processes (external) |

Every injected call may fail in each way the code tells apart, those that only set a
mode or put something back included (`nonblock`, `fcntl_cloexec`, `write_initial`,
`connect`, `sigprocmask_restore`).  A call on a timer the tracer keeps may still be
left to the kernel (`NotEmulated`), as it is when the tracer cannot read its
arguments.  Memory below the
stack pointer (`scratchMask`, `scratchPair`) may hold what the last emulation
left there or something else when a call begins.  `mine`, `appMask`, `owed` and
`active.before` are history: what the application is entitled to; `appMask` becomes the mask of the wait when the
kernel refuses to put the other one back.  A handler
runs with every signal blocked and does not change the mask, so one frame is
enough.

`Seen` maps all that to `AtomicCalls`.  From the entry of a call to the stop after
which the tracee goes back to its own code the application is in the call `mine`,
with its own registers and mask and, in a sequence, the descriptors it had at its
beginning (`active.before`); the answer and the effect appear together at the end.
What is held, pending or at a stop is a signal on its way.  Where the tracer falls short
of a kernel that has the call, `AtomicCalls` says what it answers instead and marks
it as a limit.

### Tracer

A task is one record of the kernel (station of the call, PTRACE_SYSCALL flag,
stack pointer, whether it stands at a gadget, whether a result is owed); the
tracer's maps and sets are variables under their own names.  `Wait(p)` is
`waitpid` returning a stop; the matching handler is a later step, so a SIGKILL
can come in between, and every handler has the branch in which its ptrace
requests fail (`~Live(p)`).  `Reap` is `Wait::Exited`/`Wait::Signaled` with
`forget`; `NobodyLeft` is ECHILD.  The mode is chosen at the start from `Modes`;
`SeccompFirst` (the order of seccomp and entry stop, which Linux 4.8 changed),
`ThreadExec` and `MainReused` are constants, so that a run says which world it is
about.  Of a translation the model keeps what is left to do at the exit: a result to
convert (`statx`), speeds to fill in (`termios2Get`, only if the request was really
rewritten), a value to make up (`lastSyscall`), a stack pointer to give back
(`reserved`).

### Launch

`parent` and `child` are the program counters of the two processes of
`run_apprun_traced`; each action is one of their system calls, with the ways it
can fail.  The kernel (version, missing calls, filters, whether tracing is
permitted) is chosen once.  `Filter` is the program `install_seccomp_filter`
builds and `Verdict` what the kernel makes of it.  A traced child can be halted
by a signal at any of its steps.

### Timers

Times are relative to now; `Advance` is one unit.  `Tick`, `Block` and the
answers to requests are the tracer's steps in the order of the loop, `Alarm` is
SIGALRM and ends a `waitpid` only if the tracer is in it.  `Arm` may be early by
one unit, which stands for the truncation to microseconds.  Close is the only
call by which the application gives a descriptor up in this model.

### Path mapping

A string is a sequence of tokens: `/`, the glob characters, `.`, the separators
of the variables, and tokens for everything else, so `MaxPath` counts tokens.
`PathRules` follows the C code where it decides (which rule wins, what a star
takes, when a buffer is too small); the reference knows nothing of strings.
`Covered` says for which tables the reference speaks: prefixes in any order, or
one rule whose stars are whole segments.  The other tables are limits of the
code, listed below.

In `PathMapping` every wrapper belongs to a family: how its path arguments are
rewritten (`path`, `at` a descriptor, `search`, two of them, `mark`) and which
kinds of kernel calls it ends in.  Wrappers of one family differ in flags and
types only.  What the kernel does is `FileTree.Do`.  `disk`, `cwd` and
`dirfd` are real paths, as the kernel has them; `FixPath` is
`pm_fix_path_common`, `AbsoluteFromDirfd` its counterpart for descriptors, both of
which read the directory's name through the library's own `readlink`.  The
constructor (`Load`) may move the working directory.  A descriptor stays open on a
directory; that of a file is opened by the program just before `execveat` executes
it with AT_EMPTY_PATH (`ExecveatEmptyPath`).

The refinement mapping gives `VirtualFS` the tree of all names that are not
under a TO, each with the node of its real counterpart, link targets turned back;
the working directory and the descriptor by their virtual names.  `asked` and
`answer` are the same in both, so every answer the program gets has to be the
one it would get without the library.

The instance stays inside what the code supports: names that are not
under a TO and not empty (but for `execveat`), excluded names only absolute, no symbolic link in the
middle of a path, a TO as deep as its FROM when `..` leaves it, templates of
`mkstemp` and the search directory unmapped, results of `realpath` allocated by
libc, PATHMAP_RELSYMLINK off.  Section 3 says what happens outside.

### ExecHooks

One process at a time: `Load` runs the constructors, `Program` is what a program
does to its environment, a wrapped call leaves the list the child is handed in
`result`, and `Takeover` makes the child the process (through `sharun` when it is
bundled).  A value is where it is from: the host, the bundle, both, a portable
directory.  A program hands on `environ` or a list of its own.
`RestorePortableDirs` is the list before and after each `setenv`; the one that is
handed on is the last, or the one before an addition (`SeenThrough`).  `Shipped` says
which of the directories that sharun points at the bundle has.  After
`clearenv` `environ` is NULL.

### SymbolFix

A thread in a wrapper goes through `check`, `next`, `handle`, `probe`, `sym` and
`act`, one shared read or write per step.  A slot that the wrapper itself finds filled is used
as it is, with no look-up and no store (`TestSlot`).  `probe` goes through all the names the
code tries (`Sonames`).  `Dlopen` is another thread loading a library with what it
needs, visible to RTLD_NEXT or not.  `sure` remembers at the beginning of a
look-up that it has to succeed (`Within`).

## 3. What is checked

All runs are in `PROJECT.json`; run one with
`tlc -workers 2 -config MCEmulation_signals.cfg MCEmulation`.

### Runs that pass

| Run | Instance | Shows |
|---|---|---|
| `emulation_signals` | 1 signal sent again and again, both masks, `epoll_pwait`, `sigprocmask` and a call of every other shape, fair | `MaskIntact`, `RegistersIntact`, `StopsMatch`, `NothingRunsInside`, `HeldInsideOnly`, `WaitAnswered`, `NoSignalDropped`, `CallReturns` |
| `emulation_files` | descriptors 3..5, all calls that make or close one | `OwnFilesUntouched`, `SeenAsAtomic` (the refinement) |
| `tracer` | 2 pids, ptrace mode and seccomp mode as before Linux 4.8, every kind of call, fair | `StackIntact`, `ResultsComplete`, `StopsMatch`, `NothingRunsInside`, `NoStaleState`, `ExitStatus`, `StopsAnswered`, `EndsWithMain` |
| `timers_single` | 1 process, 2 descriptors, 2 pipes, an application that keeps making calls, fair | `TrackedIsOpen`, `PeriodsExact`, `ExpirationServed` |
| `timers_two` | 2 processes, inherited descriptors | `WakeupArmed` |
| `launch_start` | kernels from 2.6.17 to 4.11, with and without permission to trace, 2 signals | `ModesAgree`, `FilterExact`, `StatusKept`, `LaunchedIfQuiet`, `ParentEnds` |
| `paths_rules` | 8 values of PATH_MAPPING, 3 of PATH_MAPPING_EXCLUDE, all absolute names of up to 5 tokens and longer ones under the rules' prefixes | `TypeOK`, `MatchesReference`, `RoundTrip` |
| `paths_refine` | 2 mapped trees, an exclude, 3 directories to start in, 8 names alone and 3 in pairs, links, one descriptor | `NamesReach`, `SeenAsVirtual` (the refinement) |
| `exec_chain` | 5 programs, 3 sessions, 3 hosts, every change of the environment in any order, directories unset among them | `ExternalClean`, `PortableDirsRestored`, `PathRepaired`, `TextDomainKept` |
| `symbols` | 2 threads, 3 kinds of application, gtk, girepository and glycin loaded at any time | `ForcedId`, `Reached`, `ErrorContract`, `NotSandboxed` |

Most modules with variables define `TypeOK`.  A run lists it where it says more
than the shape of the state: buffers and tables that do not overflow in
`paths_rules`.  In `Emulation`, `Tracer`, `Timers` and `SymbolFix` it is proved
(section 4).  It holds in the other instances as well and can be added to a cfg.
`SeenAsAtomic` also passes on the instance of `emulation_signals` (without the
liveness, half a minute).

Why the bounds are enough.  One signal that can be sent
again at once meets itself in the one-slot stash, and is blocked or not by the
application's mask and by the wait's, in all four combinations; the safety
properties of that run are proved for any number of signals (section 4).
Three descriptors are the fewest with which a pipe can succeed next to a file of
the application, and few enough that every allocating call also fails for want
of a number.  Two pids give a parent and a child or two threads, and a pid that
is reused while the other lives (three pids pass in seccomp mode, some eight
million states; in ptrace mode they are out of reach).  A lag of two units with
a period of two, and a pipe that holds one or two records, give late ticks,
several periods at once and a full pipe.  Bounds are `Fds`, `Pids`, `Pipes`,
`Cap` (records of a pipe) and `MaxLate` (the tracer's lag: an interval timer
stops `Advance` there, a one-shot timer saturates).

`MaxPath = 12` and `MaxRules = 2` in `paths_rules` are small enough that results
do not fit and rules do not find room; the names reach every spelling that
normalisation treats (`//`, `/./`, `..` at the start, in the middle and at the end,
a prefix that is not a whole segment).  In `paths_refine` each directory the
program can be in is in the mapped tree, beside it, or one that the constructor
has to leave; each file has a twin on the other side whose contents differ, so a
path that goes to the wrong side is seen at the next look.  `exec_chain` has no
bound on the length of a chain: programs and environments come back.  Two threads
suffice for `symbols`, since a step reads or writes one slot or handle and each
group's state is its own (2.7 million states; section 4 has the proof for any
number of threads).

Every property of a passing run has a mutant in `PROJECT.json`: a definition of
the model with one plausible mistake (a dropped guard, a missing reset, a
cleanup that does not run), the `Bug_` operators, with which TLC finds the
property violated.

### Runs that end in a counterexample

Each states what a comment or the documentation says and shows an execution of
the code that does otherwise; the findings in `PROJECT.json` quote the lines.

| Run | What happens |
|---|---|
| `timers_idle` | SIGALRM between `tick` and `waitpid` is not noticed and an idle application never gets its expiration |
| `exec_cleared` | a program calls `clearenv`, then `execv`: `exec_common` looks for PATH through the NULL `environ` |

Other instances end in counterexamples too.  They are kept here in words, with
the constants to change:

* `Emulation`, an application that blocks a signal its wait lets in:
  `GatedSignalHandled` fails.  The signal interrupts `epoll_pwait`, is sent again
  after the old mask is back and stays pending.
* `Tracer` with `SeccompFirst = FALSE`, the stop order of Linux 4.8 and later:
  `ResultsComplete` fails, since `expect_entry` swallows the exit stop.
* `Tracer` with `ThreadExec = TRUE`: `StopsMatch` fails.  An exec from a thread
  that is not the leader goes on under the leader's pid with the leader's
  `in_syscall`.
* `Launch` with a signal between `PTRACE_TRACEME` and the child's report: the child
  is halted for a parent that is blocked in `read`, and `Launched` fails;
  `LaunchedIfQuiet` leaves that case out.

### Limits of the code the models show

These follow from the modelled steps and are not stated as properties; they are
what the passing properties have to leave room for.

* Two different signals during one emulation: the second replaces the first in
  `stashed_signal` (the code says so; `NoSignalDropped` allows just that).
* An eventfd whose `bind` or `connect` fails is answered with the unconnected socket:
  `Answer` prefers a non-negative value to the error (`AtomicCalls.Eventfd`).  A mode or
  initial value that could not be set goes unnoticed in the same way.
* An `epoll_pwait` whose cleanup the kernel refuses answers what the wait returned and
  leaves the application with the mask of the wait (`AtomicCalls.KeepWaitMask`).
* After a failed `pipe`, `capture_pipe` may read the numbers of an earlier one
  from the scratch area, and `timerfd_create` then answers such a number.
* In ptrace mode the tracer leaves with the main child; a descendant inside a
  rewritten call is detached there.
* `MainReused = TRUE` in a seccomp instance of `Tracer` breaks `ExitStatus`: a
  later process with the main child's number replaces its status.
* A close or create in one process untracks or replaces the timer another
  process has under the same number; `TrackedIsOpen` is for one process.
* `timerfd_settime` leaves unread expirations of the earlier setting in the pipe.
* A group stop is answered like a signal stop, so job control does not stop a
  traced process; argument registers rewritten at an entry are not put back at the
  exit; a `capture_pipe` that fails late leaves both ends of the pipe open.
* `add` carries nanoseconds once and `settime` accepts any timespec, so intervals out
  of range or tiny ones make `tick` count to its limit.
* The bwrap wrapper writes its arguments to a pipe nobody reads yet; more than the
  pipe holds would block it (`src/bwrap_wrapper.rs:163`).
* Without a handshake pipe the parent takes ptrace mode although a filter may be
  in force; `ModesAgree` is for a pipe that could be made.

Path mapping:

* A FROM with `?` or `[` matches every path (`pathmap_common.h:461`: captures are
  not even tried, and that counts as a match).
* A FROM with one star in the middle matches by what stands before the star, and
  the rest of the path after the star's segment is lost.
* A plain rule that wins over an earlier star rule keeps its captures.
* On the way back a star that is part of a segment is set off by slashes.
* FROM `/` never applies, TO `/` turns all mapping off; FROM and TO are not
  normalised, excludes are.  `/v/*` covers `/v/k/..` but not `/v`.
* A result that does not fit leaves the name unmapped, and so reaches the host's
  file.
* A relative name that leaves a mapped directory by `..`, or names an excluded file
  from inside one, is looked up in the real tree.
* The template of `mkstemp` is not filled in when its path was mapped; the target
  of a link is mapped even when it is excluded; `fanotify_mark` maps a relative path
  from the working directory instead of its descriptor; `realpath` into a buffer of
  the caller, `glob` and `fts` return real names; searches of PATH inside libc are
  not mapped; an empty name becomes the working directory.
* `execveat` with AT_EMPTY_PATH maps the empty name like any other
  (`path-mapping.c:1343`-`1347`): from a mapped working directory the kernel gets that
  directory's path instead of the descriptor, and the program is not executed; with
  that flag a relative name, too, is mapped from the working directory.  `statx`
  leaves the descriptor alone.  `VirtualFS.Execute` allows it, as a limit.

Exec hooks:

* APPDIR is asked for again at each exec: after `clearenv` a list of the program's
  own is handed on as it is.
* A path that is a prefix of APPDIR counts as internal (`anylinux.c:339`).
* An exec that fails leaves HOME and the XDG directories of the caller restored to the
  host's (`anylinux.c:436`).
* `environ` is handed on through a pointer that was read before
  `restore_portable_dirs`.  Values are replaced in place, but when a variable has to
  be added glibc moves the list, and what is restored after that the host program
  does not see.  A program with a portable home that unsets XDG_CACHE_HOME and then
  starts a host program by `execv` hands it the portable HOME
  (`anylinux.c:361`-`384`), although `README.md:49` says that the library restores the
  portable directories.  `PortableDirsRestored` states what holds: `environ` itself
  always has the host's directories, and the list that is handed on has them unless
  a directory that is restored earlier is missing from it.  (A list that `realloc`
  moved may also be freed; the model leaves its contents readable.)
* `posix_spawn` restores neither the portable directories nor PATH; a PATH that is
  set to something without the bundle stays as it is, and after an empty PATH a
  second one is added that nobody finds.
* A bundled program that is started by its bare name counts as the host's.

Toolkit fixes:

* The handle is taken from the first library found and kept: a function of a
  library that is loaded later and out of RTLD_NEXT's sight is not found, although
  unresolved slots are meant to be retried.  `Reached` is for look-ups to which that
  does not apply.
* A slower thread may overwrite a resolved slot with NULL; the next call resolves
  it again, but `require_private_or_search_path` tests the slot (line 303) and calls
  through it later (lines 307 and 324).  Two threads in the same function, with a
  girepository out of RTLD_NEXT's sight, reach a call of NULL there.  The instances
  call it from one thread, as GIRepository demands; `SlotsFilledAtCalls` proves that
  one thread for each function is enough.
* With two generations of a library in one process (libgtk-3 opened first, libgtk-4
  while another thread looks up a function only the older has) the newer one is
  tried first and its handle kept, so that a call whose library was there when it
  began is not answered.  `AlwaysReached` therefore assumes `Layered`.
* With both girepository libraries the handle is that of the newer one, and the
  older one's function is not found: NULL without a GError.

### Fairness

* `Emulation.Fairness`: the tracer answers every stop (it is a loop that blocks
  only in `waitpid`), the kernel finishes every call but a wait, signals are
  taken and waits interrupted.  `FairSpec` adds that waits have timeouts and
  that senders fall silent in the end: an endless stream of signals may keep any
  program from returning.  Handlers may run for ever otherwise, and nothing is
  assumed of application code.
* `Tracer.Fairness`: weak fairness of the answer to the stop in hand, strong
  fairness of `Wait` and `Reap`, since `waitpid(-1)` does not pass over one
  child forever while others report.
* `Launch.FairSpec`: each process takes its next step while it can; no signal
  and no end of the application is assumed.
* `Timers.IdleSpec`: the loop runs, time passes, SIGALRM arrives.  `BusySpec`
  adds that some thread keeps making calls.  A SIGALRM
  that is due is handled before the tracer's own code goes on.  That the property needs it is what
  `timers_idle` shows.

## 4. What is proved

Each theorem is checked by `tlapm` for every value of the constants that
satisfies the module's named assumption; TLC evaluates the assumptions on the
instances of section 3.  Before it was proved, each inductive invariant was checked
with TLC on those instances (`FilledInv` on one whose two threads call one require
function each).

| Module | Theorem | Statement | Assumed besides |
|---|---|---|---|
| `EmulationProofs` | `TypeCorrect` | `Spec => []TypeOK` | |
| | `MaskAlwaysIntact` | `Spec => []MaskIntact` | |
| | `RegistersAlwaysIntact` | `Spec => []RegistersIntact` | |
| | `StopsAlwaysMatch` | `Spec => []StopsMatch` | |
| | `NothingEverRunsInside` | `Spec => []NothingRunsInside` | |
| | `HeldAlwaysInside` | `Spec => []HeldInsideOnly` | |
| | `WaitAlwaysAnswered` | `Spec => WaitAnswered` | |
| | `SignalNeverDropped` | `Spec => NoSignalDropped` | |
| | `OwnFilesNeverTouched` | `Spec => []OwnFilesUntouched` | |
| `AtomicProofs` | `EmulationIsAtomic` | `Spec => SeenAsAtomic` | |
| | `AtomicInvariance` | `Spec => []AtomicInv` | |
| `TracerProofs` | `TracerTypesHold` | `Spec => []TypeOK` | |
| | `ExitStatusHolds` | `Spec => []ExitStatus` | `~MainReused \/ "seccomp" \notin Modes` |
| | `StopsAlwaysMatch` | `Spec => []StopsMatch` | `World` |
| | `StackAlwaysIntact` | `Spec => []StackIntact` | `World` |
| | `ResultsAlwaysComplete` | `Spec => []ResultsComplete` | `World` |
| | `NothingEverRunsInside` | `Spec => []NothingRunsInside` | `World` |
| | `NothingStale` | `Spec => []NoStaleState` | `World` |
| `LaunchProofs` | `ModesAlwaysAgree` | `Spec => []ModesAgree` | |
| | `StatusAlwaysKept` | `Spec => []StatusKept` | |
| | `FilterAlwaysExact` | `Spec => []FilterExact` | |
| `TimersProofs` | `TimerTypesHold` | `Spec => []TypeOK` | |
| | `WakeupAlwaysArmed` | `Spec => []WakeupArmed` | |
| | `PeriodsAlwaysExact` | `Spec => PeriodsExact` | |
| | `TrackedAlwaysOpen` | `Spec => []TrackedIsOpen` | `Procs = {First}` |
| `ExecHooksProofs` | `ExternalAlwaysClean` | `Spec => []ExternalClean` | |
| | `PortableDirsAlwaysRestored` | `Spec => []PortableDirsRestored` | |
| | `PathAlwaysRepaired` | `Spec => []PathRepaired` | |
| | `TextDomainAlwaysKept` | `Spec => []TextDomainKept` | |
| `SymbolFixProofs` | `SymbolTypesHold` | `Spec => []TypeOK` | |
| | `IdAlwaysForced` | `Spec => []ForcedId` | |
| | `ErrorContractKept` | `Spec => []ErrorContract` | |
| | `NeverSandboxed` | `Spec => []NotSandboxed` | |
| | `AlwaysReached` | `Spec => []Reached` | `Layered` |
| | `SlotsFilledAtCalls` | `Spec => []CallsFilled` | `Apart` |

The extra assumptions are there because the statement is false without them;
section 3 describes the executions.  `World` is `~ThreadExec` and, in seccomp mode,
the stop order of kernels before Linux 4.8; both modes and any number of tasks are
left.  `TrackedAlwaysOpen` is about one process since numbers are global in the code.
`Layered` says that of the libraries of a group that may be loaded, one that is tried
earlier provides what a later one does: an application with one generation of
each toolkit.  `Apart` says that no two threads call the same require function.  The
instance of `symbols` satisfies both.

### Emulation

None of the properties is inductive alone.  That the mask is right when
application code runs depends on what the tracer did several stops earlier, and
that depends on the tracer being right about which stop it is at.  The inductive
invariant `IInv` adds to the type invariant:

* `Directions`: for each place of the tracee, whether the tracer takes the next
  stop for an entry or an exit, and that between two injected calls the tracee
  stands at the gadget;
* `CallNumbers`: the call in the registers is the one the tracer set up, so the
  kernel's answer is an answer to that; only an `epoll_pwait` has calls on the
  mask in its queue;
* `Registers`: the application's registers are the tracee's own, or in `saved`,
  or in the signal frame;
* `MaskSaved`: an `epoll_pwait` is `Setting`, `Waiting` or `Restoring`, and in
  each of them the old mask is in force or in the scratch area; a failed first
  call leaves the mask untouched and must not be followed by the cleanup
  (`TookEffect`), a failed wait must be;
* `HeldInsideOnly`.

Three more invariants are proved on top of it.  `Answering` ties the results an
`epoll_pwait` has collected to what its wait returned; `WaitAnswered` follows, since
`Answer` can then pick nothing else.  `Reported` says that a signal is reported at its
own stop only, so at any time it is pending, in the stop in hand, in `stashed_signal`
or delivered.  `Descriptors` follows each descriptor from the call that makes it to
the one that closes it: what a later call of the sequence acts on is never one of
the application's (`Own`), and a `pipe` that failed is the last call of its sequence, so
nobody uses the old numbers `capture_pipe` may have read.

The refinement (`AtomicProofs`).  Each action of `Emulation` is one action of
`AtomicCalls` or shows nothing: the `Seen...` lemmas, one for each group of actions,
put together in `SeenStep`.  That a sequence has exactly one effect and one answer
is not visible in the step that ends it, so the invariant `AtomicInv` carries three more
parts:

* `Asked`: the registers kept in `saved` are those of the call the application is in;
* `Reporting`: a signal at its stop is not blocked, and a handler blocks all, so
  that one is delivered outside of calls and without another handler below it;
* `Progress`: for each kind of sequence and each of its calls, what the earlier ones
  returned, what is left in the queue, and that the descriptor table is the one at
  the beginning with what the calls so far have made (`Given`, `With`).

`CollectEnds` then says what `step` does with a call that returned: the sequence goes
on with `Progress`, or it ends with an answer (`WaitAnswer`, ..., `TimerfdAnswer`) that
is one of those `AtomicCalls` gives.

### Tracer

`LoopInv` has, for each task by itself (`TaskInv`), the table of where it can be in
its call and what the tracer remembers of it there: `PtraceOutside`,
`PtraceInside`, `PtraceEmulated` in one mode, `SeccompQuiet` and `SeccompInside` in
the other.  `in_syscall` and `expect_entry` cannot be shown right without the
kernel's PTRACE_SYSCALL flag, and what `reserved rsp` and `pending statx` mean for the stack
pointer cannot be said without the call.  `InHand` says that the stop in hand is
where its task still is, unless it was killed; `Callers` and `Zombies` are what an
exec and a death leave behind.  A step of one task leaves the others where they
were (`Unmoved`), so there is one lemma per handler about one task.  `ExitStatus`
has an invariant of its own (`ExitInv`): a process dies as a whole (`Groups`), and
the main child's record, its real end and `main_code` agree (`MainKnown`).  It holds
in worlds in which `LoopInv` does not.

### Launch

`IInv` says what each of the two processes knows at each of its steps:
`Forked`, `Reported` (the byte in the pipe), `ReadBack` (what the parent made of
it), `Settled` (no traced child is let go before the mode is settled) and `Passed`.
`FilterExact` quantifies over system call numbers and follows jumps through a
program whose length depends on the kernel.  Instead of an induction along the
program the proof takes the place nearest to its end at which `Verdict` differs from
what is expected (`Expected`); an instruction reads only places behind it.

### Timers

`WakeupArmed` needs the types of the arithmetic and `OwnPipe`: two numbers are never
tracked with one pipe's write end, so what `tick` writes for one timer does
not count for another.  `PeriodsExact` follows from the lemma `Phase`: the
count handed over, times the period, is by how much the deadline moves.

### ExecHooks

Whatever a program does to its environment, the host's directories can still be
worked out from it (`HostBehind`), in the order in which `restore_portable_dirs` looks
at the three copies of a variable.  `DirsAssumption` says that the first
environment has that property and that programs change or unset, of these variables,
at most HOME and XDG_CACHE_HOME themselves; the copies are the launcher's.  No step of
`restore_portable_dirs` loses it (`RestoreSteps`), and each adds at most the variable it
sets: so where the list moved away, that variable is the one the handed list lacks.

### SymbolFix

Each thread is on its way to keeping what its wrapper promises (`Sound`), whatever the
others store in slots and handles meanwhile (`Grows`: libraries stay, the id that
was read stays).  That the selector of glycin cannot be missed, and `g_clear_error`
not either, is `UpOK`: a probe under way has not yet passed the library that is
there.  For `Reached` the invariant `SureInv` adds that the library the probes
of a group will find, or have found, provides the function (`Good`), and that a
library loaded meanwhile does not change that (`Layered`).

`require_private_or_search_path` calls through slots it tested earlier, and any
look-up first stores what RTLD_NEXT gave it, NULL included.  `SlotsFilledAtCalls`
says when that is safe: if each of the two require functions is called by one thread
at most (`Apart`), its two slots, static in the function, are written by no
look-up of another thread (`OwnSlots`, `WritesOwnSlot`), and `FilledInv` carries the
test to the call; the fallback's slot has to stay filled through the look-up
of `g_clear_error` in between.  Two threads in the same function do reach
the call through NULL (section 3), so `Apart` cannot be dropped.

### Only model-checked

* All liveness (`CallReturns`, `StopsAnswered`, `EndsWithMain`, `ExpirationServed`,
  `LaunchedIfQuiet`, `ParentEnds`): fairness is outside the prover's reach.
* `MatchesReference`, `RoundTrip` and `TypeOK` of `PathConfig`, `NamesReach` and the
  refinement `SeenAsVirtual` of `PathMapping`: what `PathRules` computes for every string
  is a fold over a sequence and would need induction.

## 5. What is not modelled

* Translations argument by argument (statx layout, termios2, accept4, futex
  timeouts): `Tracer` keeps what they leave for the exit stop.
* (seconds, nanoseconds) arithmetic, clock ids, TFD_TIMER_ABSTIME,
  TFD_CLOEXEC; descriptors given up by `dup2`, `close_range` or exec.
* Nested handlers, handlers that change the mask, real-time signals that queue.
* SIGILL emulation, the crash log, debug output: no protocol.
* The launcher's re-execution and library paths, `set_appdir_env.rs` and the bwrap
  wrapper: arguments and variables put together from what is found on disk, in one
  process and one pass.  `ExecHooks.Sharun` has the part of it that the exec hooks
  depend on.
* `anylinux.c`: the table given to `__nss_configure_lookup` and
  `getauxval(AT_EXECFN)`, constants both; `path-mapping.c`: PATHMAP_RELSYMLINK,
  `statmount`, `open_by_handle_at`; the strings compared by `is_external_process`.
* What a call does beyond its path: owners, modes, times and attributes; `chroot`,
  `pivot_root` and mounts change what later names mean and are only looked up in
  `PathMapping`; an exec or a `dlopen` ends at the file that was found.
* Memory that cannot be had (`malloc`, `strdup`), debug output.

## 6. Plan

1. Proofs: the step simulations of `PathMapping` and `VirtualFS` for the wrappers
   that need nothing about strings.
2. Time arithmetic of `emulated_syscalls.rs` against a reference; `dup2` and
   close-on-exec in `Timers`; the argument registers of the translations.
3. `BwrapArgs` and `Reexec`: argument rewriting, pipe capacity, termination of
   the re-exec chain.
