------------------------------- MODULE Launch -------------------------------
(***************************************************************************)
(* The start of an application with the compatibility layer: the AppRun    *)
(* branch of main.rs, enabled, run_apprun_traced, install_seccomp_filter   *)
(* and the beginning of supervise in kernel_compat.rs, up to the point     *)
(* where the loop of module Tracer takes over.                             *)
(*                                                                         *)
(* Two processes.  The parent becomes the tracer; the child installs the   *)
(* filter, reports it through a pipe, stops itself and then becomes the    *)
(* application.  parent and child are their program counters; a child that *)
(* is traced may be halted at a signal-delivery stop at any of its own.    *)
(***************************************************************************)
EXTENDS Integers, Sequences

CONSTANTS
    Kernels,        \* kernels the program is started on
    MaxSignals      \* how many signals others send the child

\* Calls the filter may be about, and one it is not.
CallNames == {"futex", "pipe2", "statx", "getrandom", "read"}
Arches == {"x86_64", "i386"}
OptionNames == {"sysgood", "fork", "exec", "seccomp"}

\* version     as uname reports it
\* missing     the calls it does not have
\* filters     it has seccomp filters
\* options     the ptrace options it knows
\* ptrace      a policy lets processes be traced
ASSUME KernelsAssumption ==
    /\ MaxSignals \in Nat
    /\ \A k \in Kernels :
         /\ k.version \in Nat \X Nat \X Nat
         /\ k.missing \subseteq CallNames
         /\ k.filters \in BOOLEAN /\ k.ptrace \in BOOLEAN
         /\ k.options \subseteq OptionNames
         /\ k.filters => {"sysgood", "seccomp"} \subseteq k.options

VARIABLES
    kernel,     \* the kernel of this run
    setting,    \* SHARUN_OLD_KERNEL_COMPAT: "unset", "0" or something else
    parent,     \* start, permitted, prime, pipe, fork, read, wait, options,
                \* loop, app, done
    child,      \* none, traceme, filter, report, raise, app, ended
    halted,     \* the stop the child is at: "no", "signal", "SIGSTOP", "group"
    traced,     \* PTRACE_TRACEME succeeded
    filtered,   \* a seccomp filter is in force in the child
    nnpBroken,  \* nnp_exec_broken's cached answer
    havePipe,   \* have_pipe
    pipe,       \* [data: bytes written, writers: processes with the write end]
    useSeccomp, \* use_seccomp
    mode,       \* what supervise decided: "none", "seccomp", "ptrace", "signals"
    sent,       \* signals the child has been sent
    childCode,  \* how the child ended
    exitCode    \* what the parent exited with

probes == <<kernel, setting>>
vars == <<probes, parent, child, halted, traced, filtered, nnpBroken, havePipe,
          pipe, useSeccomp, mode, sent, childCode, exitCode>>

Init ==
    /\ kernel \in Kernels
    /\ setting \in {"unset", "0", "1"}
    /\ parent = "start"
    /\ child = "none"
    /\ halted = "no"
    /\ traced = FALSE /\ filtered = FALSE
    /\ nnpBroken = FALSE
    /\ havePipe = FALSE
    /\ pipe = [data |-> << >>, writers |-> {}]
    /\ useSeccomp = FALSE
    /\ mode = "none"
    /\ sent = 0
    /\ childCode = "none" /\ exitCode = "none"

-----------------------------------------------------------------------------
(* Whether the layer is wanted.                                            *)

\* kernel_lt: versions compare like tuples.
KernelLt(v, w) ==
    \/ v[1] < w[1]
    \/ v[1] = w[1] /\ v[2] < w[2]
    \/ v[1] = w[1] /\ v[2] = w[2] /\ v[3] < w[3]

\* A probe of a call: not_implemented.
Missing(call) == call \in kernel.missing

NeedsCompat == KernelLt(kernel.version, <<4, 0, 0>>) \/ Missing("statx")

Enabled == IF setting = "unset" THEN NeedsCompat ELSE setting # "0"

-----------------------------------------------------------------------------
(* The filter: a program of comparisons that jump forward.                 *)

Load(what) == [op |-> "load", what |-> what, jt |-> 0, jf |-> 0]
Jump(what, jt, jf) == [op |-> "jeq", what |-> what, jt |-> jt, jf |-> jf]
Ret(what) == [op |-> "ret", what |-> what, jt |-> 0, jf |-> 0]

\* A call is pushed when its condition holds.
Pushed(call, lacks) == IF lacks THEN <<call>> ELSE << >>

Wanted ==
    Pushed("futex", KernelLt(kernel.version, <<2, 6, 29>>))
      \o Pushed("pipe2", Missing("pipe2"))
      \o Pushed("statx", Missing("statx"))
      \o Pushed("getrandom", Missing("getrandom"))

\* The jump of the i-th comparison stops one short.
Bug_Offset(i) == Len(Wanted) - i

\* From the i-th comparison over the remaining ones and the default.
Offset(i) == Len(Wanted) - i + 1

Filter ==
    <<Load("arch"), Jump("x86_64", 1, 0), Ret("allow"), Load("nr")>>
      \o [i \in 1 .. Len(Wanted) |-> Jump(Wanted[i], Offset(i), 0)]
      \o <<Ret("allow")>>
      \o (IF Wanted = << >> THEN << >> ELSE <<Ret("trace")>>)

\* What the kernel makes of it for a call: the accumulator holds the last load.
Verdict(arch, nr) ==
    LET field(i) == IF i > 3 THEN nr ELSE arch
        run[i \in 1 .. Len(Filter)] ==
          CASE Filter[i].op = "load" -> run[i + 1]
            [] Filter[i].op = "jeq" ->
                 run[i + 1 + IF Filter[i].what = field(i) THEN Filter[i].jt ELSE Filter[i].jf]
            [] Filter[i].op = "ret" -> Filter[i].what
    IN  run[1]

-----------------------------------------------------------------------------
(* The parent, up to the fork.                                             *)

ParentStep(from, to) == parent = from /\ parent' = to

\* main: the layer, or the application straight away.
Start ==
    /\ ParentStep("start", IF Enabled THEN "permitted" ELSE "app")
    /\ UNCHANGED <<probes, sent, child, halted, traced, filtered, nnpBroken, havePipe,
                   pipe, useSeccomp, mode, childCode, exitCode>>

\* ptrace_permitted: asks a child of its own; no if that cannot be forked.
PtracePermitted ==
    /\ \E forked \in BOOLEAN :
         ParentStep("permitted", IF forked /\ kernel.ptrace THEN "prime" ELSE "app")
    /\ UNCHANGED <<probes, sent, child, halted, traced, filtered, nnpBroken, havePipe,
                   pipe, useSeccomp, mode, childCode, exitCode>>

\* nnp_exec_broken, cached before the fork: whether a program started with
\* no_new_privs set fails, for that reason or another.
Prime ==
    /\ ParentStep("prime", "pipe")
    /\ nnpBroken' \in BOOLEAN
    /\ UNCHANGED <<probes, sent, child, halted, traced, filtered, havePipe, pipe,
                   useSeccomp, mode, childCode, exitCode>>

MakePipe ==
    /\ ParentStep("pipe", "fork")
    /\ havePipe' \in BOOLEAN
    /\ pipe' = [pipe EXCEPT !.writers = IF havePipe' THEN {"parent"} ELSE {}]
    /\ UNCHANGED <<probes, sent, child, halted, traced, filtered, nnpBroken,
                   useSeccomp, mode, childCode, exitCode>>

\* The parent keeps its copy of the write end.
Bug_WritersAfterFork == {"parent", "child"}

\* The parent closes its copy of the write end before it reads.
WritersAfterFork == {"child"}

\* fork fails: run untraced.  Otherwise each side closes the end it does not
\* use.
Fork ==
    /\ \/ /\ ParentStep("fork", "app")
          /\ UNCHANGED <<child, pipe>>
       \/ /\ ParentStep("fork", "read")
          /\ child' = "traceme"
          /\ pipe' = [pipe EXCEPT !.writers = IF havePipe THEN WritersAfterFork ELSE {}]
    /\ UNCHANGED <<probes, sent, halted, traced, filtered, nnpBroken, havePipe,
                   useSeccomp, mode, childCode, exitCode>>

-----------------------------------------------------------------------------
(* The child.                                                              *)

ChildStep(from, to) == child = from /\ halted = "no" /\ child' = to

CloseWriteEnd == [pipe EXCEPT !.writers = @ \ {"child"}]

\* TRACEME may fail although the preflight succeeded: run untraced.
Traceme ==
    /\ \/ ChildStep("traceme", "filter") /\ traced' = TRUE /\ UNCHANGED pipe
       \/ ChildStep("traceme", "app") /\ pipe' = CloseWriteEnd /\ UNCHANGED traced
    /\ UNCHANGED <<probes, sent, parent, halted, filtered, nnpBroken, havePipe,
                   useSeccomp, mode, childCode, exitCode>>

\* install_seccomp_filter; either prctl may be refused.
InstallFilter ==
    /\ ChildStep("filter", "report")
    /\ \E granted \in BOOLEAN : filtered' = (granted /\ ~nnpBroken /\ kernel.filters)
    /\ UNCHANGED <<probes, sent, parent, halted, traced, nnpBroken, havePipe, pipe,
                   useSeccomp, mode, childCode, exitCode>>

\* The byte is written before it is known.
Bug_ReportByte == 1

\* The byte the parent is told.
ReportByte == IF filtered THEN 1 ELSE 0

\* The child stops before it has written the byte.
Bug_Report ==
    /\ ChildStep("report", "raise")
    /\ halted' = "SIGSTOP"
    /\ UNCHANGED <<probes, sent, parent, traced, filtered, nnpBroken, havePipe,
                   pipe, useSeccomp, mode, childCode, exitCode>>

Report ==
    /\ ChildStep("report", "raise")
    /\ pipe' = IF havePipe THEN [CloseWriteEnd EXCEPT !.data = <<ReportByte>>] ELSE pipe
    /\ UNCHANGED <<probes, sent, parent, halted, traced, filtered, nnpBroken, havePipe,
                   useSeccomp, mode, childCode, exitCode>>

\* raise(SIGSTOP): stops for the parent, then goes on to the application.
Raise ==
    /\ ChildStep("raise", "app")
    /\ halted' = "SIGSTOP"
    /\ UNCHANGED <<probes, sent, parent, traced, filtered, nnpBroken, havePipe, pipe,
                   useSeccomp, mode, childCode, exitCode>>

\* A signal from outside, one that is ignored by default included, halts a
\* traced process until its tracer resumes it.
Interrupted ==
    /\ sent < MaxSignals
    /\ sent' = sent + 1
    /\ traced
    /\ child \in {"filter", "report", "raise", "app"}
    /\ halted = "no"
    /\ halted' = "signal"
    /\ UNCHANGED <<probes, parent, child, traced, filtered, nnpBroken, havePipe,
                   pipe, useSeccomp, mode, childCode, exitCode>>

\* The child's process is over, killed at any point or at the end of the
\* application; its descriptors are closed.
End(code) ==
    /\ child' = "ended"
    /\ halted' = "no"
    /\ childCode' = code
    /\ pipe' = CloseWriteEnd
    /\ UNCHANGED <<probes, sent, parent, traced, filtered, nnpBroken, havePipe,
                   useSeccomp, mode, exitCode>>

AppEnds == child = "app" /\ halted = "no" /\ End("exit")
Killed == child \notin {"none", "ended"} /\ End("signal")

-----------------------------------------------------------------------------
(* The parent, after the fork.                                             *)

\* read returns a byte, or nothing once no write end is left.
Read ==
    /\ ParentStep("read", "wait")
    /\ havePipe => pipe.data # << >> \/ pipe.writers = {}
    /\ useSeccomp' = (havePipe /\ pipe.data = <<1>>)
    /\ UNCHANGED <<probes, sent, child, halted, traced, filtered, nnpBroken, havePipe,
                   pipe, mode, childCode, exitCode>>

\* supervise: waitpid reports the child's first stop ...
FirstStop ==
    /\ ParentStep("wait", "options")
    /\ halted # "no"
    /\ UNCHANGED <<probes, sent, child, halted, traced, filtered, nnpBroken, havePipe,
                   pipe, useSeccomp, mode, childCode, exitCode>>

\* An early end counts as success.
Bug_StatusOf == "exit"

\* The status the parent passes on.
StatusOf == childCode

\* ... or that it has ended, which the parent passes on.
ChildGone ==
    /\ child = "ended"
    /\ \/ ParentStep("wait", "done")
       \/ ParentStep("loop", "done")
    /\ exitCode' = StatusOf
    /\ UNCHANGED <<probes, sent, child, halted, traced, filtered, nnpBroken, havePipe,
                   pipe, useSeccomp, mode, childCode>>

\* tracer_options, and those of them install_options gets the kernel to take:
\* none if the child is gone by now.
ActiveOptions ==
    IF child = "ended" THEN {}
    ELSE kernel.options \cap (OptionNames \ (IF useSeccomp THEN {} ELSE {"seccomp"}))

\* The mode, and the first resume in supervise: without a signal.
Configure ==
    /\ ParentStep("options", "loop")
    /\ mode' = CASE useSeccomp /\ "seccomp" \in ActiveOptions -> "seccomp"
                 [] ~(useSeccomp /\ "seccomp" \in ActiveOptions)
                      /\ "sysgood" \in ActiveOptions -> "ptrace"
                 [] OTHER -> "signals"
    /\ halted' = "no"
    /\ UNCHANGED <<probes, sent, child, traced, filtered, nnpBroken, havePipe, pipe,
                   useSeccomp, childCode, exitCode>>

\* The loop answers further stops; a SIGSTOP of the main child is passed on
\* and shows once more as a group stop.
Supervise ==
    /\ parent = "loop"
    /\ halted # "no"
    /\ halted' = IF halted = "SIGSTOP" THEN "group" ELSE "no"
    /\ UNCHANGED <<probes, sent, parent, child, traced, filtered, nnpBroken, havePipe,
                   pipe, useSeccomp, mode, childCode, exitCode>>

Next ==
    \/ Start \/ PtracePermitted \/ Prime \/ MakePipe \/ Fork
    \/ Traceme \/ InstallFilter \/ Report \/ Raise
    \/ Interrupted \/ AppEnds \/ Killed
    \/ Read \/ FirstStop \/ ChildGone \/ Configure \/ Supervise

Spec == Init /\ [][Next]_vars

\* Both processes run; nobody is owed a signal or the end of the application.
FairSpec ==
    /\ Spec
    /\ WF_vars(Start \/ PtracePermitted \/ Prime \/ MakePipe \/ Fork \/ Read
                 \/ FirstStop \/ ChildGone \/ Configure \/ Supervise)
    /\ WF_vars(Traceme \/ InstallFilter \/ Report \/ Raise)

-----------------------------------------------------------------------------
(* Properties.                                                             *)

\* Application code runs in the child.
AppRuns == child = "app" /\ halted = "no"

\* The application never runs traced in a mode that does not fit it: with a
\* filter the tracer is in seccomp mode, without one it is not, provided there
\* was a pipe to tell it through (the handshake in run_apprun_traced).
ModesAgree ==
    AppRuns /\ traced =>
        /\ mode # "none"
        /\ havePipe => (filtered <=> mode = "seccomp")
        /\ mode = "seccomp" => filtered

\* The filter stops exactly the calls this kernel lacks and no other, on the
\* architecture it is written for (the jump offsets of install_seccomp_filter).
FilterExact ==
    filtered =>
        \A arch \in Arches, nr \in CallNames :
            Verdict(arch, nr) =
                IF arch = "x86_64" /\ \E i \in 1 .. Len(Wanted) : Wanted[i] = nr
                THEN "trace" ELSE "allow"

\* The parent exits with the child's own status, however early the child ended
\* (supervise's first match, "propagate that status rather than losing it").
StatusKept == parent = "done" => child = "ended" /\ exitCode = childCode

\* The application is started: by the child, by the parent where tracing is
\* not possible, or the child does not live to do it.
Started == AppRuns \/ child = "ended" \/ parent = "app"

\* run_apprun_traced gets the application started: "the child reports whether
\* it could install the seccomp filter, so the parent knows".
Launched == <>Started

\* The same for a child that no signal halts before it has reported: whichever
\* step fails, neither process waits for the other for ever.
LaunchedIfQuiet ==
    [](halted = "signal" => child \notin {"filter", "report"}) => <>Started

\* The parent does not outlive the child, at whatever point of the handshake the
\* child ends: it has closed its own copy of the pipe's write end.
ParentEnds == child = "ended" ~> parent = "done"
=============================================================================
