---------------------------- MODULE LaunchProofs ----------------------------
(***************************************************************************)
(* Proofs about the start of a traced run, for every set of kernels and    *)
(* any number of signals: the tracer and the child agree on the mode, the  *)
(* child's status is passed on, and the filter stops exactly the calls the *)
(* kernel lacks.                                                           *)
(***************************************************************************)
EXTENDS Launch, OrderLemmas, SequenceTheorems, TLAPS

Before == {"start", "permitted", "prime", "pipe", "fork", "app"}
After == {"read", "wait", "options", "loop", "done"}
Answered == {"wait", "options", "loop", "done"}
Reporting == {"traceme", "filter", "report"}

\* Type invariant of the two processes.
TypeOK ==
    /\ kernel \in Kernels
    /\ parent \in Before \cup After
    /\ child \in Reporting \cup {"none", "raise", "app", "ended"}
    /\ halted \in {"no", "signal", "SIGSTOP", "group"}
    /\ traced \in BOOLEAN /\ filtered \in BOOLEAN /\ nnpBroken \in BOOLEAN
    /\ havePipe \in BOOLEAN /\ useSeccomp \in BOOLEAN
    /\ pipe \in [data : {<< >>, <<0>>, <<1>>}, writers : SUBSET {"parent", "child"}]
    /\ mode \in {"none", "seccomp", "ptrace", "signals"}
    /\ childCode \in {"none", "exit", "signal"}

\* There is a child exactly from the fork on; TRACEME is its first step, and
\* only a traced child has a filter or is halted.
Forked ==
    /\ child = "none" <=> parent \in Before
    /\ traced => child \notin {"none", "traceme"}
    /\ child \in {"filter", "report", "raise"} => traced
    /\ filtered => traced /\ child # "filter" /\ kernel.filters
    /\ halted # "no" => traced /\ child # "ended"

\* A child that may still report is the only one with the write end, and has
\* not written; a traced one that is past it has told what it did.
Reported ==
    /\ havePipe /\ child \in Reporting => pipe.writers = {"child"} /\ pipe.data = << >>
    /\ pipe.data # << >> => pipe.data = <<ReportByte>> /\ traced
    /\ havePipe /\ traced /\ child \in {"raise", "app"} => pipe.data # << >>
    /\ ~havePipe => pipe.data = << >>

\* What the parent has read is what the child wrote, unless the child was gone.
ReadBack ==
    /\ parent \in Answered => (useSeccomp <=> havePipe /\ pipe.data = <<1>>)
    /\ parent \in Answered /\ havePipe => child \notin Reporting
    /\ parent \notin Answered => ~useSeccomp

\* A traced child is not resumed before the mode is settled, and the mode is
\* the one the byte calls for, unless there is nobody left to trace.
Settled ==
    /\ traced /\ child = "app" /\ halted = "no" => parent \in {"loop", "done"}
    /\ parent \in {"loop", "done"} /\ child # "ended" =>
         mode # "none" /\ (mode = "seccomp" <=> useSeccomp)
    /\ parent = "options" /\ child # "ended" => halted # "no"
    /\ mode # "none" => parent \in {"loop", "done"}

\* The parent is done only after the child, with its status.
Passed == parent = "done" => child = "ended" /\ exitCode = childCode

IInv == TypeOK /\ Forked /\ Reported /\ ReadBack /\ Settled /\ Passed

-----------------------------------------------------------------------------
\* Before the launcher looks at the kernel the invariant holds.
LEMMA InitIInv == Init => IInv
<1> SUFFICES ASSUME Init PROVE IInv
  OBVIOUS
<1> USE DEF Init, Before, After, Answered, Reporting
<1>1. TypeOK
  BY DEF TypeOK
<1>2. Forked /\ Reported /\ ReadBack /\ Settled /\ Passed
  BY DEF Forked, Reported, ReadBack, Settled, Passed
<1>3. QED
  BY <1>1, <1>2 DEF IInv

\* Every step of the parent up to the fork keeps the invariant.
LEMMA ParentKeeps ==
  ASSUME IInv, Start \/ PtracePermitted \/ Prime \/ MakePipe \/ Fork
  PROVE  IInv'
<1> USE DEF IInv, Start, PtracePermitted, Prime, MakePipe, Fork, ParentStep, probes,
            Before, After, Answered, Reporting
<1>1. TypeOK'
  BY DEF TypeOK, WritersAfterFork
<1>2. Forked'
  BY DEF TypeOK, Forked
<1>3. Reported'
  BY DEF TypeOK, Forked, Reported, WritersAfterFork, ReportByte
<1>4. ReadBack'
  BY DEF TypeOK, Forked, ReadBack
<1>5. Settled' /\ Passed'
  BY DEF TypeOK, Forked, Settled, Passed
<1>6. QED
  BY <1>1, <1>2, <1>3, <1>4, <1>5

\* Every step of the child keeps it.
LEMMA ChildKeeps ==
  ASSUME IInv, Traceme \/ InstallFilter \/ Report \/ Raise \/ Interrupted
  PROVE  IInv'
<1> USE DEF IInv, Traceme, InstallFilter, Report, Raise, Interrupted, ChildStep, probes,
            Before, After, Answered, Reporting
<1>1. TypeOK'
  <2>1. filtered' \in BOOLEAN
    <3>1. CASE InstallFilter
      <4> HIDE DEF IInv
      <4>1. PICK granted \in BOOLEAN : filtered' = (granted /\ ~nnpBroken /\ kernel.filters)
        BY <3>1
      <4>2. QED
        BY <4>1, Zenon
    <3>2. CASE ~InstallFilter
      BY <3>2 DEF TypeOK
    <3>3. QED
      BY <3>1, <3>2
  <2>2. pipe' \in [data : {<< >>, <<0>>, <<1>>}, writers : SUBSET {"parent", "child"}]
    <3>1. CloseWriteEnd \in [data : {<< >>, <<0>>, <<1>>}, writers : SUBSET {"parent", "child"}]
      BY DEF TypeOK, CloseWriteEnd
    <3>2. CASE Report
      BY <3>1, <3>2 DEF TypeOK, ReportByte
    <3>3. CASE ~Report
      BY <3>1, <3>3 DEF TypeOK
    <3>4. QED
      BY <3>2, <3>3
  <2>3. /\ child' \in Reporting \cup {"none", "raise", "app", "ended"}
        /\ halted' \in {"no", "signal", "SIGSTOP", "group"}
        /\ traced' \in BOOLEAN
    BY DEF TypeOK
  <2>4. UNCHANGED <<kernel, parent, nnpBroken, havePipe, useSeccomp, mode, childCode>>
    OBVIOUS
  <2>5. QED
    <3> HIDE DEF Traceme, InstallFilter, Report, Raise, Interrupted
    <3> QED
      BY <2>1, <2>2, <2>3, <2>4 DEF TypeOK
<1>2. Forked'
  BY DEF TypeOK, Forked
<1>3. Reported'
  <2>1. CASE Report
    <3>1. filtered' = filtered /\ ReportByte' = ReportByte
      BY <2>1 DEF ReportByte
    <3>2. havePipe => pipe'.data = <<ReportByte>>
      BY <2>1 DEF TypeOK, CloseWriteEnd
    <3>3. <<ReportByte>> # << >>
      OBVIOUS
    <3>4. QED
      BY <2>1, <3>1, <3>2, <3>3 DEF TypeOK, Forked, Reported
  <2>2. CASE ~Report
    BY <2>2 DEF TypeOK, Forked, Reported, CloseWriteEnd, ReportByte
  <2>3. QED
    BY <2>1, <2>2
<1>4. ReadBack'
  BY DEF TypeOK, Forked, ReadBack, CloseWriteEnd, ReportByte
<1>5. Settled' /\ Passed'
  BY DEF TypeOK, Forked, Settled, Passed
<1>6. QED
  BY <1>1, <1>2, <1>3, <1>4, <1>5

\* The end of the child keeps it.
LEMMA EndKeeps ==
  ASSUME IInv, AppEnds \/ Killed
  PROVE  IInv'
<1> USE DEF IInv, AppEnds, Killed, End, probes, Before, After, Answered, Reporting
<1>1. TypeOK'
  BY DEF TypeOK, CloseWriteEnd
<1>2. Forked'
  BY DEF TypeOK, Forked
<1>3. Reported'
  BY DEF TypeOK, Forked, Reported, CloseWriteEnd, ReportByte
<1>4. ReadBack'
  BY DEF TypeOK, Forked, ReadBack, CloseWriteEnd
<1>5. Settled' /\ Passed'
  BY DEF TypeOK, Forked, Settled, Passed
<1>6. QED
  BY <1>1, <1>2, <1>3, <1>4, <1>5

\* The mode that is chosen fits the byte, unless the child has ended.
LEMMA ConfigureSettles ==
  ASSUME IInv, Configure, child # "ended"
  PROVE  mode' # "none" /\ (mode' = "seccomp" <=> useSeccomp)
<1>1. useSeccomp => filtered
  BY DEF IInv, TypeOK, ReadBack, Reported, ReportByte, Configure, ParentStep, Answered
<1>2. useSeccomp => "seccomp" \in ActiveOptions
  BY <1>1, KernelsAssumption DEF IInv, TypeOK, Forked, ActiveOptions, OptionNames
<1>3. QED
  BY <1>2 DEF IInv, TypeOK, Configure

\* Every step of the parent after the fork keeps it.
LEMMA TracerKeeps ==
  ASSUME IInv, Read \/ FirstStop \/ ChildGone \/ Configure \/ Supervise
  PROVE  IInv'
<1> USE DEF IInv, Read, FirstStop, ChildGone, Configure, Supervise, ParentStep, probes,
            Before, After, Answered, Reporting
<1>1. TypeOK'
  <2>1. useSeccomp' \in BOOLEAN
    <3>1. CASE Read
      <4>1. useSeccomp' = (havePipe /\ pipe.data = <<1>>)
        BY <3>1
      <4>2. QED
        BY <4>1, Zenon
    <3>2. CASE ~Read
      BY <3>2 DEF TypeOK
    <3>3. QED
      BY <3>1, <3>2
  <2>2. QED
    BY <2>1 DEF TypeOK
<1>2. Forked'
  BY DEF TypeOK, Forked
<1>3. Reported'
  BY DEF TypeOK, Forked, Reported, ReportByte
<1>4. ReadBack'
  BY DEF TypeOK, Forked, Reported, ReadBack
<1>5. Settled'
  BY ConfigureSettles DEF TypeOK, Forked, ReadBack, Settled
<1>6. Passed'
  BY DEF TypeOK, Forked, Passed, StatusOf
<1>7. QED
  BY <1>1, <1>2, <1>3, <1>4, <1>5, <1>6

\* The invariant holds in every reachable state: the handshake of
\* run_apprun_traced never leaves the two processes with different views.
THEOREM LaunchInvariant == Spec => []IInv
<1>1. IInv /\ [Next]_vars => IInv'
  <2> SUFFICES ASSUME IInv, [Next]_vars PROVE IInv'
    OBVIOUS
  <2>1. CASE Next
    BY <2>1, ParentKeeps, ChildKeeps, EndKeeps, TracerKeeps DEF Next
  <2>2. CASE UNCHANGED vars
    BY <2>2 DEF vars, probes, IInv, TypeOK, Forked, Reported, ReadBack, Settled, Passed,
                ReportByte
  <2>3. QED
    BY <2>1, <2>2
<1>2. QED
  BY InitIInv, <1>1, PTL DEF Spec

\* The application never runs traced in a mode that does not fit the filter it
\* has, whatever failed on the way (the handshake in run_apprun_traced).
THEOREM ModesAlwaysAgree == Spec => []ModesAgree
<1>1. IInv => ModesAgree
  BY DEF IInv, TypeOK, Forked, Reported, ReadBack, Settled, Passed, ModesAgree, AppRuns,
         ReportByte, Reporting, Answered
<1>2. QED
  BY LaunchInvariant, <1>1, PTL

\* The parent exits with the child's own status, however early the child ended
\* (supervise's first match).
THEOREM StatusAlwaysKept == Spec => []StatusKept
<1>1. IInv => StatusKept
  BY DEF IInv, Passed, StatusKept
<1>2. QED
  BY LaunchInvariant, <1>1, PTL
-----------------------------------------------------------------------------
(* The filter. What the kernel makes of a call is a recursive function of  *)
(* the position in the program; the argument is by the smallest distance   *)
(* from the program's end at which it could differ from what is expected.  *)

\* The calls that are pushed are calls.
LEMMA WantedSeq == Wanted \in Seq(CallNames)
<1>1. ASSUME NEW c \in CallNames, NEW b
      PROVE  Pushed(c, b) \in Seq(CallNames)
  BY DEF Pushed
<1>2. QED
  BY <1>1 DEF Wanted, CallNames

\* Where the elements of two sequences are in their concatenation.
LEMMA ConcatAt ==
  ASSUME NEW S, NEW s \in Seq(S), NEW t \in Seq(S)
  PROVE  /\ s \o t \in Seq(S) /\ Len(s \o t) = Len(s) + Len(t)
         /\ \A i \in 1 .. Len(s) : (s \o t)[i] = s[i]
         /\ \A i \in 1 .. Len(t) : (s \o t)[Len(s) + i] = t[i]
OBVIOUS

\* The program instruction by instruction.
LEMMA FilterShape ==
  /\ Len(Wanted) \in Nat
  /\ Len(Filter) = IF Len(Wanted) = 0 THEN 5 ELSE Len(Wanted) + 6
  /\ Filter[1] = Load("arch") /\ Filter[2] = Jump("x86_64", 1, 0)
  /\ Filter[3] = Ret("allow") /\ Filter[4] = Load("nr")
  /\ \A i \in 1 .. Len(Wanted) : Filter[4 + i] = Jump(Wanted[i], Offset(i), 0)
  /\ Filter[Len(Wanted) + 5] = Ret("allow")
  /\ Len(Wanted) # 0 => Filter[Len(Wanted) + 6] = Ret("trace")
<1> DEFINE n == Len(Wanted)
           J(i) == Jump(Wanted[i], Offset(i), 0)
           I == {Load("arch"), Load("nr"), Jump("x86_64", 1, 0), Ret("allow"), Ret("trace")}
                  \cup {J(i) : i \in 1 .. n}
           a == <<Load("arch"), Jump("x86_64", 1, 0), Ret("allow"), Load("nr")>>
           b == [i \in 1 .. n |-> J(i)]
           c == <<Ret("allow")>>
           d == IF Wanted = << >> THEN << >> ELSE <<Ret("trace")>>
           ab == a \o b
           abc == ab \o c
<1>1. n \in Nat /\ (Wanted = << >> <=> n = 0)
  BY WantedSeq
<1>2. a \in Seq(I) /\ Len(a) = 4 /\ a[1] = Load("arch") /\ a[2] = Jump("x86_64", 1, 0)
      /\ a[3] = Ret("allow") /\ a[4] = Load("nr")
  <2> HIDE DEF J
  <2> QED OBVIOUS
<1>3. b \in Seq(I) /\ Len(b) = n /\ \A i \in 1 .. n : b[i] = J(i)
  <2> HIDE DEF J, n
  <2>1. b \in [1 .. n -> I]
    OBVIOUS
  <2> HIDE DEF I
  <2>2. QED
    BY <1>1, <2>1, IsASeq
<1>4. c \in Seq(I) /\ Len(c) = 1 /\ c[1] = Ret("allow")
  <2> HIDE DEF J
  <2> QED OBVIOUS
<1>5. d \in Seq(I) /\ Len(d) = (IF n = 0 THEN 0 ELSE 1) /\ (n # 0 => d[1] = Ret("trace"))
  <2>1. << >> \in Seq(I) /\ <<Ret("trace")>> \in Seq(I)
    <3> HIDE DEF J
    <3> QED OBVIOUS
  <2> HIDE DEF I
  <2>2. QED
    BY <1>1, <2>1
<1>6. Filter = abc \o d
  BY DEF Filter
<1> HIDE DEF n, J, I, a, b, c, d, ab, abc
<1>7. ab \in Seq(I) /\ Len(ab) = 4 + n
      /\ (\A i \in 1 .. 4 : ab[i] = a[i]) /\ \A i \in 1 .. n : ab[4 + i] = J(i)
  <2>1. /\ ab \in Seq(I) /\ Len(ab) = Len(a) + Len(b)
        /\ \A i \in 1 .. Len(a) : ab[i] = a[i]
        /\ \A i \in 1 .. Len(b) : ab[Len(a) + i] = b[i]
    <3>1. a \in Seq(I) /\ b \in Seq(I)
      BY <1>2, <1>3
    <3>2. QED
      BY <3>1, ConcatAt DEF ab
  <2>2. Len(a) = 4 /\ Len(b) = n /\ \A i \in 1 .. n : b[i] = J(i)
    BY <1>2, <1>3
  <2>3. QED
    BY <2>1, <2>2
<1>8. abc \in Seq(I) /\ Len(abc) = 5 + n
      /\ (\A i \in 1 .. 4 + n : abc[i] = ab[i]) /\ abc[5 + n] = Ret("allow")
  <2> ab \in Seq(I) /\ c \in Seq(I)
    BY <1>4, <1>7
  <2>0. /\ abc \in Seq(I) /\ Len(abc) = Len(ab) + Len(c)
        /\ \A i \in 1 .. Len(ab) : abc[i] = ab[i]
        /\ \A i \in 1 .. Len(c) : abc[Len(ab) + i] = c[i]
    BY ConcatAt DEF abc
  <2>1. abc[Len(ab) + 1] = c[1]
    <3>1. 1 \in 1 .. Len(c)
      BY <1>4
    <3>2. QED
      BY <2>0, <3>1
  <2>2. QED
    <3>1. /\ abc \in Seq(I) /\ Len(abc) = Len(ab) + Len(c)
          /\ \A i \in 1 .. Len(ab) : abc[i] = ab[i]
      BY <2>0
    <3>2. Len(ab) = 4 + n /\ Len(c) = 1 /\ c[1] = Ret("allow")
      BY <1>4, <1>7
    <3>3. QED
      BY <1>1, <2>1, <3>1, <3>2
<1>9. /\ Len(Filter) = IF n = 0 THEN 5 ELSE 6 + n
      /\ \A i \in 1 .. 5 + n : Filter[i] = abc[i]
      /\ n # 0 => Filter[6 + n] = Ret("trace")
  <2>1. Len(Filter) = Len(abc) + Len(d) /\ \A i \in 1 .. Len(abc) : Filter[i] = abc[i]
    BY <1>5, <1>6, <1>8, ConcatAt
  <2>2. n # 0 => Filter[Len(abc) + 1] = d[1]
    BY <1>5, <1>6, <1>8, ConcatAt
  <2>3. QED
    BY <1>1, <1>5, <1>8, <2>1, <2>2
<1>10. \A i \in 1 .. 4 + n : Filter[i] = ab[i]
  BY <1>1, <1>8, <1>9
<1>11. Filter[5 + n] = Ret("allow")
  BY <1>1, <1>8, <1>9
<1>12. \A i \in 1 .. 4 : Filter[i] = a[i]
  BY <1>1, <1>7, <1>10
<1>13. \A i \in 1 .. n : Filter[4 + i] = J(i)
  BY <1>1, <1>7, <1>10
<1>14. QED
  BY <1>1, <1>2, <1>9, <1>11, <1>12, <1>13 DEF n, J

\* The value the filter returns from position i on, for a call that is one of
\* the remaining comparisons or not.
Expected(arch, nr, i) ==
    LET n == Len(Wanted)
        Hit(j) == \E k \in j .. n : Wanted[k] = nr
    IN  IF i < 3 THEN IF arch = "x86_64" /\ Hit(1) THEN "trace" ELSE "allow"
        ELSE IF i = 3 THEN "allow"
        ELSE IF i = 4 THEN IF Hit(1) THEN "trace" ELSE "allow"
        ELSE IF i < n + 5 THEN IF Hit(i - 4) THEN "trace" ELSE "allow"
        ELSE IF i = n + 5 THEN "allow" ELSE "trace"

\* One instruction, given what the later ones return.
Instruction(arch, nr, r, i) ==
    CASE Filter[i].op = "load" -> r[i + 1]
      [] Filter[i].op = "jeq" ->
           r[i + 1 + IF Filter[i].what = (IF i > 3 THEN nr ELSE arch) THEN Filter[i].jt
                     ELSE Filter[i].jf]
      [] Filter[i].op = "ret" -> Filter[i].what

\* A comparison jumps behind the remaining ones and the default, or goes on.
LEMMA ComparisonAt ==
  ASSUME NEW arch, NEW nr, NEW r, NEW j \in 1 .. Len(Wanted)
  PROVE  Instruction(arch, nr, r, 4 + j)
           = IF Wanted[j] = nr THEN r[Len(Wanted) + 6] ELSE r[4 + j + 1]
<1>1. Filter[4 + j].op = "jeq" /\ Filter[4 + j].what = Wanted[j]
      /\ Filter[4 + j].jt = Len(Wanted) - j + 1 /\ Filter[4 + j].jf = 0
  <2>1. Filter[4 + j] = Jump(Wanted[j], Offset(j), 0)
    BY FilterShape
  <2>2. QED
    BY <2>1 DEF Jump, Offset
<1>2. 4 + j > 3 /\ 4 + j + 1 + (Len(Wanted) - j + 1) = Len(Wanted) + 6
      /\ 4 + j + 1 + 0 = 4 + j + 1
  BY FilterShape
<1>3. Instruction(arch, nr, r, 4 + j)
        = r[4 + j + 1 + IF Wanted[j] = nr THEN Len(Wanted) - j + 1 ELSE 0]
  BY <1>1, <1>2 DEF Instruction
<1>4. QED
  BY <1>2, <1>3

\* The other instructions.
LEMMA InstructionAt ==
  ASSUME NEW arch, NEW nr, NEW r
  PROVE  /\ Instruction(arch, nr, r, 1) = r[2]
         /\ Instruction(arch, nr, r, 2) = IF arch = "x86_64" THEN r[4] ELSE r[3]
         /\ Instruction(arch, nr, r, 3) = "allow"
         /\ Instruction(arch, nr, r, 4) = r[5]
         /\ Instruction(arch, nr, r, Len(Wanted) + 5) = "allow"
         /\ Len(Wanted) # 0 => Instruction(arch, nr, r, Len(Wanted) + 6) = "trace"
<1> USE FilterShape DEF Instruction
<1>1. Instruction(arch, nr, r, 1) = r[2]
  BY DEF Load
<1>2. Instruction(arch, nr, r, 2) = IF arch = "x86_64" THEN r[4] ELSE r[3]
  BY DEF Jump
<1>3. Instruction(arch, nr, r, 3) = "allow"
  BY DEF Ret
<1>4. Instruction(arch, nr, r, 4) = r[5]
  BY DEF Load
<1>5. Instruction(arch, nr, r, Len(Wanted) + 5) = "allow"
  BY DEF Ret
<1>6. Len(Wanted) # 0 => Instruction(arch, nr, r, Len(Wanted) + 6) = "trace"
  BY DEF Ret
<1>7. QED
  BY <1>1, <1>2, <1>3, <1>4, <1>5, <1>6

\* What is expected from one comparison on follows from the next one.
LEMMA ExpectedComparison ==
  ASSUME NEW arch, NEW nr, NEW j \in 1 .. Len(Wanted)
  PROVE  Expected(arch, nr, 4 + j)
           = IF Wanted[j] = nr THEN "trace" ELSE Expected(arch, nr, 4 + j + 1)
<1> DEFINE n == Len(Wanted)
           Hit(i) == \E k \in i .. n : Wanted[k] = nr
<1>1. n \in Nat
  BY WantedSeq
<1>2. Hit(j) <=> Wanted[j] = nr \/ Hit(j + 1)
  BY <1>1
<1>3. ~Hit(n + 1)
  BY <1>1
<1>4. \A i \in 1 .. n : Expected(arch, nr, 4 + i) = IF Hit(i) THEN "trace" ELSE "allow"
  BY <1>1 DEF Expected
<1>5. Expected(arch, nr, 4 + j + 1) = IF Hit(j + 1) THEN "trace" ELSE "allow"
  <2>1. CASE j = n
    BY <1>1, <1>3, <2>1 DEF Expected
  <2>2. CASE j # n
    <3>1. j + 1 \in 1 .. n /\ 4 + j + 1 = 4 + (j + 1)
      BY <1>1, <2>2
    <3>2. QED
      BY <1>4, <3>1
  <2>3. QED
    BY <2>1, <2>2
<1>6. Expected(arch, nr, 4 + j) = IF Hit(j) THEN "trace" ELSE "allow"
  BY <1>4
<1>7. QED
  <2> HIDE DEF Hit
  <2> QED BY <1>2, <1>5, <1>6

\* The same for the other instructions.
LEMMA ExpectedAt ==
  ASSUME NEW arch, NEW nr
  PROVE  /\ Expected(arch, nr, 1) = Expected(arch, nr, 2)
         /\ Expected(arch, nr, 2)
              = IF arch = "x86_64" THEN Expected(arch, nr, 4) ELSE Expected(arch, nr, 3)
         /\ Expected(arch, nr, 3) = "allow"
         /\ Expected(arch, nr, 4) = Expected(arch, nr, 5)
         /\ Expected(arch, nr, Len(Wanted) + 5) = "allow"
         /\ Len(Wanted) # 0 => Expected(arch, nr, Len(Wanted) + 6) = "trace"
<1> DEFINE n == Len(Wanted)
<1>1. n \in Nat
  BY WantedSeq
<1>2. Expected(arch, nr, 4) = Expected(arch, nr, 5)
  <2>1. CASE n = 0
    BY <2>1 DEF Expected
  <2>2. CASE n # 0
    BY <1>1, <2>2 DEF Expected
  <2>3. QED
    BY <2>1, <2>2
<1>3. /\ Expected(arch, nr, 1) = Expected(arch, nr, 2)
      /\ Expected(arch, nr, 2)
           = IF arch = "x86_64" THEN Expected(arch, nr, 4) ELSE Expected(arch, nr, 3)
      /\ Expected(arch, nr, 3) = "allow"
  BY DEF Expected
<1>4. /\ Expected(arch, nr, n + 5) = "allow" /\ Expected(arch, nr, n + 6) = "trace"
  BY <1>1 DEF Expected
<1>5. QED
  BY <1>2, <1>3, <1>4

\* The kernel's walk through the program ends as expected.
LEMMA VerdictExpected ==
  ASSUME NEW arch, NEW nr
  PROVE  Verdict(arch, nr) = Expected(arch, nr, 1)
<1> DEFINE n == Len(Wanted)
           D == 1 .. Len(Filter)
           r == CHOOSE f : f = [i \in D |-> Instruction(arch, nr, f, i)]
<1>1. n \in Nat /\ Len(Filter) = IF n = 0 THEN 5 ELSE n + 6
  BY FilterShape
<1>2. \A i \in D : i \in 1 .. 4 \/ (\E j \in 1 .. n : i = 4 + j) \/ i = n + 5
                    \/ (n # 0 /\ i = n + 6)
  <2> SUFFICES ASSUME NEW i \in D, i \notin 1 .. 4, i # n + 5, i # n + 6
               PROVE  i - 4 \in 1 .. n /\ i = 4 + (i - 4)
    BY <1>1
  <2> QED
    BY <1>1
<1>3. \E f : f = [i \in D |-> Instruction(arch, nr, f, i)]
  <2> DEFINE g == [i \in D |-> Expected(arch, nr, i)]
  <2>1. ASSUME NEW i \in D PROVE Instruction(arch, nr, g, i) = g[i]
    <3>1. \A k \in D : g[k] = Expected(arch, nr, k)
      OBVIOUS
    <3>2. {1, 2, 3, 4, 5, n + 5} \subseteq D /\ (n # 0 => n + 6 \in D)
      BY <1>1
    <3>3. \A j \in 1 .. n : 4 + j \in D /\ 4 + j + 1 \in D
      BY <1>1
    <3> HIDE DEF g, D
    <3>4. CASE i \in 1 .. 4
      <4>1. i = 1 \/ i = 2 \/ i = 3 \/ i = 4
        BY <3>4
      <4>2. QED
        BY <4>1, <3>1, <3>2, InstructionAt, ExpectedAt
    <3>5. CASE \E j \in 1 .. n : i = 4 + j
      <4>1. PICK j \in 1 .. n : i = 4 + j
        BY <3>5
      <4>2. n # 0 /\ g[n + 6] = "trace" /\ g[4 + j + 1] = Expected(arch, nr, 4 + j + 1)
            /\ g[4 + j] = Expected(arch, nr, 4 + j)
        BY <1>1, <3>1, <3>2, <3>3, ExpectedAt
      <4>3. Instruction(arch, nr, g, 4 + j) = IF Wanted[j] = nr THEN g[n + 6] ELSE g[4 + j + 1]
        BY ComparisonAt
      <4>4. Expected(arch, nr, 4 + j)
              = IF Wanted[j] = nr THEN "trace" ELSE Expected(arch, nr, 4 + j + 1)
        BY ExpectedComparison
      <4>5. QED
        BY <4>1, <4>2, <4>3, <4>4
    <3>6. CASE i = n + 5 \/ (n # 0 /\ i = n + 6)
      BY <3>6, <3>1, <3>2, InstructionAt, ExpectedAt
    <3>7. QED
      BY <1>2, <3>4, <3>5, <3>6 DEF D
  <2>2. g = [i \in D |-> Instruction(arch, nr, g, i)]
    <3>1. g = [i \in D |-> g[i]]
      OBVIOUS
    <3> HIDE DEF g, D
    <3>2. QED
      BY <2>1, <3>1
  <2>3. QED
    <3> HIDE DEF g, D
    <3> QED BY <2>2
<1>4. r = [i \in D |-> Instruction(arch, nr, r, i)]
  <2> HIDE DEF D
  <2> QED BY <1>3
<1>5. Verdict(arch, nr) = r[1]
  BY DEF Verdict, Instruction
<1> HIDE DEF r
<1>6. \A i \in D : r[i] = Instruction(arch, nr, r, i)
  <2> HIDE DEF D
  <2> QED BY <1>4
<1>7. ASSUME NEW m \in 0 .. n PROVE r[n + 5 - m] = Expected(arch, nr, n + 5 - m)
  <2> DEFINE Wrong == {k \in 0 .. n : r[n + 5 - k] # Expected(arch, nr, n + 5 - k)}
  <2> SUFFICES ASSUME Wrong # {} PROVE FALSE
    OBVIOUS
  <2>1. Wrong \in SUBSET Nat
    BY <1>1
  <2>2. PICK k \in Wrong : \A l \in Wrong : k <= l
    BY <2>1, NatMin
  <2>3. n + 5 \in D /\ r[n + 5] = Expected(arch, nr, n + 5)
    BY <1>1, <1>6, InstructionAt, ExpectedAt
  <2>4. k # 0
    BY <1>1, <2>3
  <2>5. k - 1 \in 0 .. n /\ k - 1 \notin Wrong
    <3>1. k \in 0 .. n
      OBVIOUS
    <3> HIDE DEF Wrong
    <3>2. QED
      BY <1>1, <2>2, <2>4, <3>1
  <2>6. r[n + 5 - (k - 1)] = Expected(arch, nr, n + 5 - (k - 1))
    BY <2>5
  <2> DEFINE j == n + 1 - k
  <2>7. j \in 1 .. n /\ n + 5 - k = 4 + j /\ n + 5 - (k - 1) = 4 + j + 1 /\ n # 0
        /\ 4 + j \in D /\ n + 6 \in D
    BY <1>1, <2>4
  <2>8. r[4 + j] = IF Wanted[j] = nr THEN r[n + 6] ELSE r[4 + j + 1]
    <3> HIDE DEF j, D, Wrong
    <3> QED BY <1>6, <2>7, ComparisonAt
  <2>9. r[n + 6] = "trace"
    <3> HIDE DEF D
    <3> QED BY <1>6, <2>7, InstructionAt
  <2>10. r[4 + j] = Expected(arch, nr, 4 + j)
    <3> HIDE DEF j, D, Wrong
    <3>1. Expected(arch, nr, 4 + j)
            = IF Wanted[j] = nr THEN "trace" ELSE Expected(arch, nr, 4 + j + 1)
      BY <2>7, ExpectedComparison
    <3>2. r[4 + j + 1] = Expected(arch, nr, 4 + j + 1)
      BY <2>6, <2>7
    <3>3. QED
      BY <2>8, <2>9, <3>1, <3>2
  <2>11. QED
    BY <2>7, <2>10
<1>8. r[5] = Expected(arch, nr, 5)
  <2>1. n \in 0 .. n /\ n + 5 - n = 5
    BY <1>1
  <2>2. QED
    BY <1>7, <2>1
<1>9. {1, 2, 3, 4} \subseteq D
  BY <1>1
<1>10. r[1] = r[2] /\ r[2] = (IF arch = "x86_64" THEN r[4] ELSE r[3]) /\ r[3] = "allow"
       /\ r[4] = r[5]
  <2> HIDE DEF D
  <2> QED BY <1>6, <1>9, InstructionAt
<1>11. QED
  BY <1>5, <1>8, <1>10, ExpectedAt

\* The filter stops exactly the calls this kernel lacks, on the architecture it
\* is written for, whatever the kernel (the jump offsets of
\* install_seccomp_filter).
THEOREM FilterAlwaysExact == Spec => []FilterExact
<1>1. FilterExact
  <2> SUFFICES ASSUME NEW arch \in Arches, NEW nr \in CallNames
               PROVE  Verdict(arch, nr) =
                        IF arch = "x86_64" /\ \E i \in 1 .. Len(Wanted) : Wanted[i] = nr
                        THEN "trace" ELSE "allow"
    BY DEF FilterExact
  <2> QED
    BY VerdictExpected DEF Expected
<1>2. QED
  BY <1>1, PTL
=============================================================================
