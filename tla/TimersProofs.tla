---------------------------- MODULE TimersProofs ----------------------------
(***************************************************************************)
(* Proofs about the emulated timerfds, for any processes, descriptors,     *)
(* pipes, delays, intervals and capacity: somebody always wakes up for the *)
(* nearest deadline, and an interval timer keeps its phase.                *)
(***************************************************************************)
EXTENDS Timers, OrderLemmas, TLAPS

Requests == [op : {"none", "create", "settime", "close", "open", "other"},
             fd : Nat, delay : Nat, period : Nat]

\* Calls that name a timer name a descriptor.
AskedOK ==
    /\ request \in [Procs -> Requests]
    /\ \A p \in Procs : request[p].op \in {"settime", "close"} => request[p].fd \in Fds

\* Counts of expirations wait in the pipes, no more than fit.
QueuedOK == /\ queued \in [Pipes -> Seq(Nat)]
            /\ \A i \in Pipes : Len(queued[i]) <= Cap

\* What tick and settime compute with.
TimersOK == /\ deadline \in [Fds -> Int \cup {Off}]
            /\ interval \in [Fds -> Nat]
            /\ handle \in [Fds -> Pipes \cup {"none"}]

\* No two numbers are tracked with the write end of one pipe.
OwnPipe == \A f, g \in Fds : Tracked(f) /\ handle[f] = handle[g] => f = g

Types == /\ alive \subseteq Procs /\ alive # {}
         /\ table \in [Procs -> [Fds -> Pipes \cup {"closed", "file"}]]
         /\ AskedOK /\ QueuedOK /\ TimersOK
         /\ itimer \in Nat \cup {Off}
         /\ alarm \in BOOLEAN
         /\ pc \in {"top", "ticked", "waiting"}

IInv == Types /\ OwnPipe /\ WakeupArmed

-----------------------------------------------------------------------------
(* Numbers.                                                                *)

\* The smallest of a set of numbers, as the code chooses it: the lowest free
\* descriptor, the nearest deadline.
LEMMA Smallest ==
  ASSUME NEW S \in SUBSET Nat, S # {}
  PROVE  LET m == CHOOSE a \in S : \A b \in S : a <= b
         IN  m \in S /\ \A b \in S : m <= b
<1>1. \E a \in S : \A b \in S : a <= b
  BY NatMin
<1>2. QED
  BY <1>1

\* Division rounds down.
LEMMA DivBounds ==
  ASSUME NEW n \in Nat, NEW p \in Nat \ {0}
  PROVE  /\ n \div p \in Nat
         /\ p * (n \div p) <= n
         /\ n < p * (n \div p) + p
<1> DEFINE q == n \div p
<1>1. q \in Int
  BY SMT
<1>2. p * q <= n /\ n < p * q + p
  BY SMT
<1>3. QED
  BY <1>1, <1>2, SMT

\* Count and Following for an interval timer that is due: the deadline moves
\* by whole periods, as many as are reported, to the next point of its phase.
LEMMA Phase ==
  ASSUME NEW d \in Int, d <= 0, NEW p \in Nat \ {0}
  PROVE  /\ Count(d, p) \in Nat
         /\ Following(d, p) \in 1 .. p
         /\ Following(d, p) - d = Count(d, p) * p
<1> DEFINE n == -d
           q == n \div p
<1>1. n \in Nat
  OBVIOUS
<1>2. q \in Nat /\ p * q <= n /\ n < p * q + p
  BY <1>1, DivBounds
<1>3. Count(d, p) = q + 1 /\ Following(d, p) = d + (q + 1) * p
  BY DEF Count, Following
<1> HIDE DEF q
<1>4. (q + 1) * p = p * q + p
  BY <1>2, SMT
<1>5. p * q \in Nat
  BY <1>2, SMT
<1>6. QED
  BY <1>1, <1>2, <1>3, <1>4, <1>5

\* The expirations of a deadline that has passed, and the next one.
LEMMA CountIsNat ==
  ASSUME NEW d \in Int, d <= 0, NEW p \in Nat
  PROVE  Count(d, p) \in Nat /\ Following(d, p) \in Int \cup {Off}
<1>1. CASE p = 0
  BY <1>1 DEF Count, Following
<1>2. CASE p # 0
  BY <1>2, Phase
<1>3. QED
  BY <1>1, <1>2

\* arm: with a deadline left, the alarm rings no later than it is due.
LEMMA ArmRings ==
  ASSUME NEW dl \in [Fds -> Int \cup {Off}], Arm(dl)
  PROVE  /\ itimer' \in Nat \cup {Off}
         /\ \A f \in Fds : dl[f] # Off => itimer' # Off /\ itimer' <= Larger(1, dl[f])
<1> DEFINE armed == {g \in Fds : dl[g] # Off}
           ahead == {Larger(dl[f], 0) : f \in armed}
           soonest == CHOOSE d \in ahead : \A e \in ahead : d <= e
<1>1. ahead \subseteq Nat
  BY DEF Larger
<1>2. CASE ahead = {}
  <2>1. itimer' = Off
    BY <1>2 DEF Arm
  <2>2. armed = {}
    BY <1>2
  <2>3. QED
    BY <2>1, <2>2
<1>3. CASE ahead # {}
  <2>1. soonest \in ahead /\ \A e \in ahead : soonest <= e
    <3> HIDE DEF ahead
    <3> QED BY <1>1, <1>3, Smallest
  <2>2. PICK early \in {0, 1} : itimer' = Larger(1, soonest - early)
    BY <1>3 DEF Arm
  <2>3. \A f \in Fds : dl[f] # Off => soonest <= Larger(dl[f], 0)
    BY <2>1
  <2> HIDE DEF soonest
  <2>4. soonest \in Nat
    BY <2>1, <1>1
  <2>5. itimer' \in Nat
    BY <2>2, <2>4 DEF Larger
  <2>6. \A f \in Fds : dl[f] # Off => dl[f] \in Int
    OBVIOUS
  <2>7. \A f \in Fds : dl[f] # Off => itimer' <= Larger(1, dl[f])
    BY <2>2, <2>3, <2>4, <2>6 DEF Larger
  <2>8. QED
    BY <2>5, <2>7, ConstantsAssumption
<1>4. QED
  BY <1>2, <1>3

-----------------------------------------------------------------------------
(* Every step keeps the invariant.                                         *)

\* Before the first timer the invariant holds.
LEMMA Start == Init => IInv
<1> SUFFICES ASSUME Init PROVE IInv
  OBVIOUS
<1>1. AskedOK
  BY DEF Init, AskedOK, Requests, NoRequest
<1>2. QueuedOK
  BY ConstantsAssumption DEF Init, QueuedOK
<1>3. Types
  BY <1>1, <1>2, ConstantsAssumption DEF Init, Types, TimersOK
<1>4. OwnPipe /\ WakeupArmed
  BY DEF Init, OwnPipe, Tracked, WakeupArmed
<1>5. QED
  BY <1>3, <1>4 DEF IInv

\* A request of the application that the tracer has yet to answer.
LEMMA AskStep ==
  ASSUME IInv, NEW p \in Procs, NEW r \in Requests,
         r.op \in {"settime", "close"} => r.fd \in Fds, Ask(p, r)
  PROVE  IInv'
<1>1. AskedOK'
  BY DEF IInv, Types, AskedOK, Ask
<1>2. QED
  BY <1>1 DEF IInv, Types, Ask, timerVars, QueuedOK, TimersOK, OwnPipe, Tracked, WakeupArmed

\* Every request the application can make keeps the invariant.
LEMMA AskSteps ==
  ASSUME IInv, NEW p \in Procs,
         AskCreate(p) \/ AskOpen(p) \/ AskSettime(p) \/ AskClose(p) \/ AskOther(p)
  PROVE  IInv'
<1>1. CASE AskCreate(p)
  BY <1>1, AskStep DEF AskCreate, NoRequest, Requests
<1>2. CASE AskOpen(p)
  BY <1>2, AskStep DEF AskOpen, NoRequest, Requests
<1>3. CASE AskOther(p)
  BY <1>3, AskStep DEF AskOther, NoRequest, Requests
<1>4. CASE AskSettime(p)
  <2>1. PICK f \in Fds, v \in Delays \cup {0}, i \in Periods :
            Ask(p, [op |-> "settime", fd |-> f, delay |-> v, period |-> i])
    BY <1>4 DEF AskSettime
  <2>2. f \in Nat /\ v \in Nat /\ i \in Nat
    BY ConstantsAssumption
  <2>3. [op |-> "settime", fd |-> f, delay |-> v, period |-> i] \in Requests
    BY <2>2 DEF Requests
  <2>4. QED
    BY <2>1, <2>3, AskStep
<1>5. CASE AskClose(p)
  <2>1. PICK f \in Fds : Ask(p, [NoRequest EXCEPT !.op = "close", !.fd = f])
    BY <1>5 DEF AskClose
  <2>2. [NoRequest EXCEPT !.op = "close", !.fd = f] \in Requests
    BY ConstantsAssumption DEF Requests, NoRequest
  <2>3. [NoRequest EXCEPT !.op = "close", !.fd = f].fd = f
    BY DEF NoRequest
  <2>4. QED
    BY <2>1, <2>2, <2>3, AskStep
<1>6. QED
  BY <1>1, <1>2, <1>3, <1>4, <1>5

\* A read of a timer takes the oldest record of its pipe.
LEMMA ReadStep == ASSUME IInv, NEW p \in Procs, Read(p) PROVE IInv'
<1>1. PICK i \in Pipes : queued[i] # << >> /\ queued' = [queued EXCEPT ![i] = Tail(@)]
  BY DEF Read
<1>2. queued[i] \in Seq(Nat) /\ Len(queued[i]) <= Cap
  BY DEF IInv, Types, QueuedOK
<1>3. Tail(queued[i]) \in Seq(Nat) /\ Len(Tail(queued[i])) <= Cap
  BY <1>1, <1>2, ConstantsAssumption
<1>4. QueuedOK'
  BY <1>1, <1>3 DEF IInv, Types, QueuedOK
<1>5. QED
  BY <1>4 DEF IInv, Types, Read, procVars, timerVars, AskedOK, TimersOK, OwnPipe, Tracked,
              WakeupArmed

\* A child has the descriptors of its parent.
LEMMA ForkStep == ASSUME IInv, NEW p \in Procs, Fork(p) PROVE IInv'
<1>1. PICK q \in Procs \ alive : /\ alive' = alive \cup {q}
                                 /\ table' = [table EXCEPT ![q] = table[p]]
  BY DEF Fork
<1>2. /\ alive' \subseteq Procs /\ alive' # {}
      /\ table' \in [Procs -> [Fds -> Pipes \cup {"closed", "file"}]]
  BY <1>1 DEF IInv, Types
<1>3. QED
  BY <1>2 DEF IInv, Types, Fork, timerVars, AskedOK, QueuedOK, TimersOK, OwnPipe, Tracked,
              WakeupArmed

\* The end of a process gives its descriptors up.
LEMMA ExitStep == ASSUME IInv, NEW p \in Procs, Exit(p) PROVE IInv'
<1>1. /\ alive' \subseteq Procs /\ alive' # {}
      /\ table' \in [Procs -> [Fds -> Pipes \cup {"closed", "file"}]]
  BY DEF IInv, Types, Exit
<1>2. AskedOK'
  BY ConstantsAssumption DEF IInv, Types, AskedOK, Exit, NoRequest, Requests
<1>3. QED
  BY <1>1, <1>2 DEF IInv, Types, Exit, timerVars, QueuedOK, TimersOK, OwnPipe, Tracked,
                    WakeupArmed

\* Time brings the alarm nearer by as much as the deadlines.
LEMMA AdvanceStep == ASSUME IInv, Advance PROVE IInv'
<1>1. itimer' \in Nat \cup {Off}
  BY ConstantsAssumption DEF IInv, Types, Advance
<1>2. deadline' \in [Fds -> Int \cup {Off}]
  BY DEF IInv, Types, TimersOK, Advance
<1>3. Types'
  BY <1>1, <1>2 DEF IInv, Types, Advance, procVars, AskedOK, QueuedOK, TimersOK
<1>4. OwnPipe'
  BY DEF IInv, OwnPipe, Tracked, Advance
<1>5. ASSUME NEW f \in Fds, deadline'[f] # Off, ~alarm'
      PROVE  itimer' # Off /\ itimer' <= Larger(1, deadline'[f])
  <2>1. deadline[f] # Off /\ deadline[f] \in Int /\ deadline'[f] \in {deadline[f], deadline[f] - 1}
    BY <1>5 DEF IInv, Types, TimersOK, Advance
  <2>2. itimer # Off /\ itimer \in Nat /\ itimer > 0 /\ itimer <= Larger(1, deadline[f])
    BY <1>5, <2>1 DEF IInv, Types, WakeupArmed, Advance
  <2>3. itimer' = itimer - 1 /\ itimer' \in Nat
    BY <2>2 DEF Advance
  <2>4. itimer' <= Larger(1, deadline'[f])
    BY <2>1, <2>2, <2>3 DEF Larger
  <2>5. QED
    BY <2>3, <2>4, ConstantsAssumption
<1>6. WakeupArmed'
  BY <1>5 DEF WakeupArmed
<1>7. QED
  BY <1>3, <1>4, <1>6 DEF IInv

\* SIGALRM sets the flag and ends a waitpid under way.
LEMMA AlarmStep == ASSUME IInv, Alarm PROVE IInv'
BY DEF IInv, Types, Alarm, procVars, timerVars, AskedOK, QueuedOK, TimersOK, OwnPipe, Tracked,
       WakeupArmed

\* The tracer goes to wait.
LEMMA BlockStep == ASSUME IInv, Block PROVE IInv'
BY DEF IInv, Types, Block, procVars, timerVars, AskedOK, QueuedOK, TimersOK, OwnPipe, Tracked,
       WakeupArmed

-----------------------------------------------------------------------------
(* tick.                                                                   *)

\* Timers whose expirations tick manages to write.
Sent == {f \in Fds : Due(f) /\ Tracked(f) /\ WriteResult(f) = "sent"}

\* After a tick a timer has a later deadline or none.
LEMMA NextDeadlineTyped ==
  ASSUME Types, NEW f \in Fds
  PROVE  NextDeadline(f) \in Int \cup {Off}
<1>1. deadline[f] \in Int \cup {Off} /\ interval[f] \in Nat
  BY DEF Types, TimersOK
<1>2. CASE ~Due(f)
  BY <1>1, <1>2 DEF NextDeadline
<1>3. CASE Due(f)
  <2>1. Following(deadline[f], interval[f]) \in Int \cup {Off}
    BY <1>1, <1>3, CountIsNat DEF Due
  <2>2. QED
    BY <1>1, <1>3, <2>1 DEF NextDeadline
<1>4. QED
  BY <1>2, <1>3

\* A timer that is served has a pipe of its own, with room in it.
LEMMA SentTo ==
  ASSUME IInv, NEW f \in Sent
  PROVE  /\ f \in Fds /\ handle[f] \in Pipes
         /\ Len(queued[handle[f]]) < Cap
         /\ deadline[f] \in Int /\ deadline[f] <= 0 /\ interval[f] \in Nat
         /\ (CHOOSE g \in Sent : handle[g] = handle[f]) = f
<1>1. f \in Fds /\ Due(f) /\ Tracked(f) /\ WriteResult(f) = "sent"
  BY DEF Sent
<1>2. /\ handle[f] \in Pipes
      /\ deadline[f] \in Int /\ deadline[f] <= 0 /\ interval[f] \in Nat
  BY <1>1 DEF IInv, Types, TimersOK, Tracked, Due
<1>3. Len(queued[handle[f]]) < Cap
  <2>1. ~(Len(queued[handle[f]]) >= Cap)
    BY <1>1 DEF WriteResult
  <2>2. Len(queued[handle[f]]) \in Nat
    BY <1>2 DEF IInv, Types, QueuedOK
  <2>3. QED
    BY <2>1, <2>2, ConstantsAssumption
<1>4. \A g \in Sent : handle[g] = handle[f] => g = f
  BY <1>1 DEF IInv, OwnPipe, Sent
<1>5. (CHOOSE g \in Sent : handle[g] = handle[f]) = f
  BY <1>4
<1>6. QED
  BY <1>1, <1>2, <1>3, <1>5

\* What tick writes: to the pipe of each timer it serves the count of that
\* timer, to no other pipe anything.
LEMMA TickWrites ==
  ASSUME IInv, Tick, alarm
  PROVE  /\ queued' \in [Pipes -> Seq(Nat)]
         /\ \A f \in Sent : queued'[handle[f]]
                = Append(queued[handle[f]], Count(deadline[f], interval[f]))
         /\ \A i \in Pipes : (\A f \in Sent : handle[f] # i) => queued'[i] = queued[i]
         /\ \A i \in Pipes : Len(queued'[i]) <= Cap
<1> DEFINE timerOf(i) == CHOOSE f \in Sent : handle[f] = i
           written == {handle[f] : f \in Sent}
           count(i) == Count(deadline[timerOf(i)], interval[timerOf(i)])
<1>1. queued' = [i \in Pipes |-> IF i \in written THEN Append(queued[i], count(i))
                                 ELSE queued[i]]
  BY DEF Tick, Sent
<1>2. \A f \in Sent : timerOf(handle[f]) = f /\ handle[f] \in Pipes
  BY SentTo
<1>3. \A f \in Sent : count(handle[f]) = Count(deadline[f], interval[f])
  BY <1>2
<1>4. \A f \in Sent : Count(deadline[f], interval[f]) \in Nat
  BY SentTo, CountIsNat
<1> HIDE DEF timerOf, count
<1>5. \A f \in Sent : queued'[handle[f]]
                = Append(queued[handle[f]], Count(deadline[f], interval[f]))
  BY <1>1, <1>2, <1>3
<1>6. \A i \in Pipes : (\A f \in Sent : handle[f] # i) => queued'[i] = queued[i]
  BY <1>1
<1>7. queued \in [Pipes -> Seq(Nat)] /\ \A i \in Pipes : Len(queued[i]) <= Cap
  BY DEF IInv, Types, QueuedOK
<1>8. ASSUME NEW i \in Pipes
      PROVE  queued'[i] \in Seq(Nat) /\ Len(queued'[i]) <= Cap
  <2>1. CASE \A f \in Sent : handle[f] # i
    BY <1>6, <1>7, <2>1
  <2>2. ASSUME NEW f \in Sent, handle[f] = i
        PROVE  queued'[i] \in Seq(Nat) /\ Len(queued'[i]) <= Cap
    <3>1. queued'[i] = Append(queued[i], Count(deadline[f], interval[f]))
      BY <1>5, <2>2
    <3>2. Len(queued[i]) < Cap /\ queued[i] \in Seq(Nat)
      BY <1>7, <2>2, SentTo
    <3>3. Count(deadline[f], interval[f]) \in Nat
      BY <1>4
    <3>4. Len(queued'[i]) = Len(queued[i]) + 1 /\ queued'[i] \in Seq(Nat)
      BY <3>1, <3>2, <3>3
    <3>5. QED
      BY <3>2, <3>4, ConstantsAssumption
  <2>3. QED
    BY <2>1, <2>2
<1>9. queued' \in [Pipes -> Seq(Nat)]
  BY <1>1, <1>8
<1>10. QED
  BY <1>5, <1>6, <1>8, <1>9

\* A tick keeps the invariant: it hands over what is due and arms again.
LEMMA TickStep == ASSUME IInv, Tick PROVE IInv'
<1>1. CASE ~alarm
  BY <1>1 DEF IInv, Types, Tick, procVars, timerVars, AskedOK, QueuedOK, TimersOK, OwnPipe,
              Tracked, WakeupArmed
<1>2. CASE alarm
  <2>1. QueuedOK'
    BY <1>2, TickWrites DEF QueuedOK
  <2>2. deadline' = [f \in Fds |-> NextDeadline(f)]
    BY <1>2 DEF Tick
  <2>3. deadline' \in [Fds -> Int \cup {Off}]
    BY <2>2, NextDeadlineTyped DEF IInv
  <2>4. TimersOK'
    BY <1>2, <2>3 DEF IInv, Types, TimersOK, Tick
  <2>5. /\ itimer' \in Nat \cup {Off}
        /\ \A f \in Fds : deadline'[f] # Off => itimer' # Off /\ itimer' <= Larger(1, deadline'[f])
    <3>1. Arm(deadline')
      BY <1>2 DEF Tick
    <3>2. PICK dl : dl = deadline' /\ Arm(dl)
      BY <3>1
    <3>3. QED
      BY <2>3, <3>2, ArmRings
  <2>6. Types'
    BY <2>1, <2>4, <2>5 DEF IInv, Types, Tick, procVars, AskedOK
  <2>7. OwnPipe'
    BY <1>2 DEF IInv, OwnPipe, Tracked, Tick, Types, TimersOK
  <2>8. WakeupArmed'
    BY <2>5 DEF WakeupArmed
  <2>9. QED
    BY <2>6, <2>7, <2>8 DEF IInv
<1>3. QED
  BY <1>1, <1>2 DEF IInv, Types

-----------------------------------------------------------------------------
(* Calls.                                                                  *)

\* What every answer leaves alone, and the request it takes away.
LEMMA Answered ==
  ASSUME IInv, NEW p \in Procs, Answer(p)
  PROVE  AskedOK' /\ alive' = alive /\ alarm' = alarm /\ pc' = "top"
BY ConstantsAssumption DEF IInv, Types, Answer, AskedOK, NoRequest, Requests

\* timerfd_create: a new pipe under numbers that are free.
LEMMA CreateStep == ASSUME IInv, NEW p \in Procs, Create(p) PROVE IInv'
<1> DEFINE free == {f \in Fds : table[p][f] = "closed"}
           spare == {i \in Pipes : Readers(i) = {} /\ \A f \in Fds : handle[f] # i}
           f == CHOOSE g \in free : \A h \in free : g <= h
<1>1. AskedOK' /\ alive' = alive /\ alarm' = alarm /\ pc' = "top" /\ itimer' = itimer
  BY Answered DEF Create
<1>2. CASE free = {} \/ spare = {}
  <2>1. UNCHANGED <<table, queued, timerVars>>
    BY <1>2 DEF Create
  <2>2. QED
    BY <1>1, <2>1 DEF IInv, Types, timerVars, QueuedOK, TimersOK, OwnPipe, Tracked, WakeupArmed
<1>3. CASE free # {} /\ spare # {}
  <2>1. f \in free
    <3>1. free \subseteq Nat
      BY ConstantsAssumption
    <3> HIDE DEF free
    <3>2. QED
      BY <1>3, <3>1, Smallest
  <2>2. PICK i \in spare : /\ table' = [table EXCEPT ![p][f] = i]
                           /\ queued' = [queued EXCEPT ![i] = << >>]
                           /\ deadline' = [deadline EXCEPT ![f] = Off]
                           /\ interval' = [interval EXCEPT ![f] = 0]
                           /\ handle' = [handle EXCEPT ![f] = i]
    BY <1>3 DEF Create
  <2> HIDE DEF f
  <2>3. f \in Fds /\ i \in Pipes /\ \A g \in Fds : handle[g] # i
    BY <2>1, <2>2
  <2>4. QueuedOK'
    BY <2>2, <2>3, ConstantsAssumption DEF IInv, Types, QueuedOK
  <2>5. TimersOK'
    BY <2>2, <2>3 DEF IInv, Types, TimersOK
  <2>6. table' \in [Procs -> [Fds -> Pipes \cup {"closed", "file"}]]
    BY <2>2, <2>3 DEF IInv, Types
  <2>7. OwnPipe'
    BY <2>2, <2>3 DEF IInv, Types, TimersOK, OwnPipe, Tracked
  <2>8. WakeupArmed'
    BY <1>1, <2>2, <2>3 DEF IInv, Types, TimersOK, WakeupArmed
  <2>9. QED
    BY <1>1, <2>4, <2>5, <2>6, <2>7, <2>8 DEF IInv, Types
<1>4. QED
  BY <1>2, <1>3

\* Another file takes the lowest free number.
LEMMA OpenStep == ASSUME IInv, NEW p \in Procs, Open(p) PROVE IInv'
<1> DEFINE free == {f \in Fds : table[p][f] = "closed"}
           f == CHOOSE g \in free : \A h \in free : g <= h
<1>1. AskedOK' /\ alive' = alive /\ alarm' = alarm /\ pc' = "top"
  BY Answered DEF Open
<1>2. table' = table \/ table' = [table EXCEPT ![p][f] = "file"]
  BY DEF Open
<1> HIDE DEF f
<1>3. table' \in [Procs -> [Fds -> Pipes \cup {"closed", "file"}]]
  BY <1>2 DEF IInv, Types
<1>4. QED
  BY <1>1, <1>3 DEF IInv, Types, Open, timerVars, QueuedOK, TimersOK, OwnPipe, Tracked,
                    WakeupArmed

\* timerfd_settime arms for the new deadline.
LEMMA SettimeStep == ASSUME IInv, NEW p \in Procs, Settime(p) PROVE IInv'
<1> DEFINE f == request[p].fd
<1>1. AskedOK' /\ alive' = alive /\ alarm' = alarm /\ pc' = "top" /\ table' = table
  BY Answered DEF Settime
<1>2. f \in Fds /\ request[p].delay \in Nat /\ request[p].period \in Nat
  BY DEF IInv, Types, AskedOK, Settime, Requests
<1>3. CASE ~Tracked(f)
  <2>1. UNCHANGED <<queued, timerVars, itimer>>
    BY <1>3 DEF Settime
  <2>2. QED
    BY <1>1, <2>1 DEF IInv, Types, timerVars, QueuedOK, TimersOK, OwnPipe, Tracked, WakeupArmed
<1>4. CASE Tracked(f)
  <2>1. /\ deadline' = [deadline EXCEPT ![f] = IF request[p].delay = 0 THEN Off
                                               ELSE request[p].delay]
        /\ interval' = [interval EXCEPT ![f] = request[p].period]
        /\ Arm(deadline') /\ queued' = queued /\ handle' = handle
    BY <1>4 DEF Settime
  <2>2. TimersOK'
    BY <1>2, <2>1 DEF IInv, Types, TimersOK
  <2>3. PICK dl : dl = deadline' /\ Arm(dl)
    BY <2>1
  <2>4. /\ itimer' \in Nat \cup {Off}
        /\ \A g \in Fds : deadline'[g] # Off => itimer' # Off /\ itimer' <= Larger(1, deadline'[g])
    BY <2>2, <2>3, ArmRings DEF TimersOK
  <2>5. Types'
    BY <1>1, <2>1, <2>2, <2>4 DEF IInv, Types, QueuedOK
  <2>6. OwnPipe' /\ WakeupArmed'
    BY <2>1, <2>4 DEF IInv, OwnPipe, Tracked, WakeupArmed
  <2>7. QED
    BY <2>5, <2>6 DEF IInv
<1>5. QED
  BY <1>3, <1>4

\* close untracks the timer under the number.
LEMMA CloseStep == ASSUME IInv, NEW p \in Procs, Close(p) PROVE IInv'
<1> DEFINE f == request[p].fd
<1>1. AskedOK' /\ alive' = alive /\ alarm' = alarm /\ pc' = "top"
  BY Answered DEF Close
<1>2. f \in Fds
  BY DEF IInv, Types, AskedOK, Close
<1>3. /\ deadline' = [deadline EXCEPT ![f] = Off]
      /\ interval' = [interval EXCEPT ![f] = 0]
      /\ handle' = [handle EXCEPT ![f] = "none"]
      /\ table' = [table EXCEPT ![p][f] = "closed"]
      /\ queued' = queued /\ itimer' = itimer
  BY DEF Close, Untracked
<1> HIDE DEF f
<1>4. table' \in [Procs -> [Fds -> Pipes \cup {"closed", "file"}]]
  BY <1>3 DEF IInv, Types
<1>5. TimersOK'
  BY <1>3 DEF IInv, Types, TimersOK
<1>6. Types'
  BY <1>1, <1>3, <1>4, <1>5 DEF IInv, Types, QueuedOK
<1>7. OwnPipe'
  BY <1>2, <1>3 DEF IInv, Types, TimersOK, OwnPipe, Tracked
<1>8. WakeupArmed'
  BY <1>1, <1>2, <1>3 DEF IInv, Types, TimersOK, WakeupArmed
<1>9. QED
  BY <1>6, <1>7, <1>8 DEF IInv

\* A call that is not about timers.
LEMMA OtherStep == ASSUME IInv, NEW p \in Procs, Other(p) PROVE IInv'
<1>1. AskedOK' /\ alive' = alive /\ alarm' = alarm /\ pc' = "top"
  BY Answered DEF Other
<1>2. QED
  BY <1>1 DEF IInv, Types, Other, timerVars, QueuedOK, TimersOK, OwnPipe, Tracked, WakeupArmed

-----------------------------------------------------------------------------
\* Every step keeps the invariant.
LEMMA Step == IInv /\ [Next]_vars => IInv'
<1> SUFFICES ASSUME IInv, [Next]_vars PROVE IInv'
  OBVIOUS
<1>1. ASSUME NEW p \in Procs,
             \/ AskCreate(p) \/ AskOpen(p) \/ AskSettime(p) \/ AskClose(p) \/ AskOther(p)
             \/ Read(p) \/ Fork(p) \/ Exit(p)
             \/ Create(p) \/ Open(p) \/ Settime(p) \/ Close(p) \/ Other(p)
      PROVE  IInv'
  BY <1>1, AskSteps, ReadStep, ForkStep, ExitStep, CreateStep, OpenStep, SettimeStep, CloseStep,
     OtherStep
<1>2. CASE Advance \/ Alarm \/ Tick \/ Block
  BY <1>2, AdvanceStep, AlarmStep, TickStep, BlockStep
<1>3. CASE UNCHANGED vars
  BY <1>3 DEF vars, procVars, IInv, Types, timerVars, AskedOK, QueuedOK, TimersOK, OwnPipe,
              Tracked, WakeupArmed
<1>4. QED
  BY <1>1, <1>2, <1>3 DEF Next

\* The tracer's bookkeeping is sound whatever the processes do: every descriptor
\* number has a pipe of its own, and no armed timer is without an alarm.
THEOREM TimersInvariant == Spec => []IInv
<1>1. Init => IInv
  BY Start
<1>2. IInv /\ [Next]_vars => IInv'
  BY Step
<1>3. QED
  BY <1>1, <1>2, PTL DEF Spec

\* The types of Timers, with the capacity of the pipes: tick never writes to a
\* pipe that is full.
THEOREM TimerTypesHold == Spec => []TypeOK
<1>1. IInv => TypeOK
  BY DEF IInv, Types, QueuedOK, TimersOK, TypeOK
<1>2. QED
  BY <1>1, TimersInvariant, PTL

\* No path through settime, close and tick leaves a deadline nobody wakes up
\* for (arm, on_alarm).
THEOREM WakeupAlwaysArmed == Spec => []WakeupArmed
<1>1. IInv => WakeupArmed
  BY DEF IInv
<1>2. QED
  BY <1>1, TimersInvariant, PTL

-----------------------------------------------------------------------------
(* Interval timers.                                                        *)

\* The action that PeriodsExact allows, for one timer.
Exact(f) ==
    (pc = "top" /\ pc' = "ticked" /\ Due(f) /\ interval[f] > 0 /\ handle'[f] # "none"
       /\ deadline'[f] # deadline[f])
    => /\ deadline'[f] \in 1 .. interval[f]
       /\ queued'[handle[f]] # queued[handle[f]] =>
            deadline'[f] - deadline[f]
              = queued'[handle[f]][Len(queued'[handle[f]])] * interval[f]

\* Only tick leaves the top of the loop for waitpid.
LEMMA OnlyTick ==
  ASSUME IInv, [Next]_vars, pc = "top", pc' = "ticked"
  PROVE  Tick
<1>1. ASSUME NEW p \in Procs,
             \/ AskCreate(p) \/ AskOpen(p) \/ AskSettime(p) \/ AskClose(p) \/ AskOther(p)
             \/ Read(p) \/ Fork(p) \/ Exit(p)
      PROVE  FALSE
  BY <1>1 DEF AskCreate, AskOpen, AskSettime, AskClose, AskOther, Ask, Read, Fork, Exit
<1>2. ASSUME NEW p \in Procs, Create(p) \/ Open(p) \/ Settime(p) \/ Close(p) \/ Other(p)
      PROVE  FALSE
  BY <1>2 DEF Create, Open, Settime, Close, Other, Answer
<1>3. CASE Advance \/ Alarm \/ Block
  BY <1>3 DEF Advance, Alarm, Block
<1>4. CASE UNCHANGED vars
  BY <1>4 DEF vars
<1>5. QED
  BY <1>1, <1>2, <1>3, <1>4 DEF Next

\* A tick hands over what one timer is due, or keeps it all.
LEMMA TickIsExact ==
  ASSUME IInv, Tick, NEW f \in Fds
  PROVE  Exact(f)
<1> SUFFICES ASSUME Due(f), interval[f] > 0, handle'[f] # "none", deadline'[f] # deadline[f]
             PROVE  /\ deadline'[f] \in 1 .. interval[f]
                    /\ queued'[handle[f]] # queued[handle[f]] =>
                         deadline'[f] - deadline[f]
                           = queued'[handle[f]][Len(queued'[handle[f]])] * interval[f]
  BY DEF Exact
<1> DEFINE d == deadline[f]
           n == interval[f]
           i == handle[f]
<1>1. alarm
  BY DEF Tick, timerVars, IInv, Types
<1>2. d \in Int /\ d <= 0 /\ n \in Nat \ {0}
  BY DEF IInv, Types, TimersOK, Due
<1>3. /\ deadline'[f] = NextDeadline(f)
      /\ handle'[f] = IF Due(f) /\ Tracked(f) /\ WriteResult(f) = "broken" THEN "none" ELSE handle[f]
  BY <1>1 DEF Tick
<1>4. Tracked(f) /\ WriteResult(f) # "broken" /\ i \in Pipes
  BY <1>3 DEF Tracked, IInv, Types, TimersOK
<1>5. WriteResult(f) \in {"sent", "full"}
  BY <1>4 DEF WriteResult
<1>6. NextDeadline(f) = Following(d, n)
  BY <1>2, <1>4, <1>5 DEF NextDeadline
<1>7. /\ Count(d, n) \in Nat
      /\ Following(d, n) \in 1 .. n
      /\ Following(d, n) - d = Count(d, n) * n
  BY <1>2, Phase
<1>8. ASSUME queued'[i] # queued[i]
      PROVE  queued'[i][Len(queued'[i])] = Count(d, n)
  <2>1. PICK g \in Sent : handle[g] = i
    BY <1>1, <1>4, <1>8, TickWrites
  <2>2. g = f
    BY <2>1, <1>4 DEF IInv, OwnPipe, Sent
  <2>3. queued'[i] = Append(queued[i], Count(d, n))
    BY <1>1, <2>1, <2>2, TickWrites
  <2>4. queued[i] \in Seq(Nat)
    BY <1>4 DEF IInv, Types, QueuedOK
  <2>5. QED
    BY <1>7, <2>3, <2>4
<1>9. QED
  BY <1>3, <1>6, <1>7, <1>8

\* However late tick comes, an interval timer keeps its phase, and the
\* expirations it reports are the periods that passed.
THEOREM PeriodsAlwaysExact == Spec => PeriodsExact
<1>1. ASSUME IInv, [Next]_vars, NEW f \in Fds
      PROVE  Exact(f)
  <2>1. CASE pc = "top" /\ pc' = "ticked"
    BY <1>1, <2>1, OnlyTick, TickIsExact
  <2>2. QED
    BY <2>1 DEF Exact
<1>2. IInv /\ [Next]_vars => [\A f \in Fds : Exact(f)]_vars
  BY <1>1
<1>3. Spec => [][\A f \in Fds : Exact(f)]_vars
  BY <1>2, TimersInvariant, PTL DEF Spec
<1>4. QED
  BY <1>3 DEF Exact, PeriodsExact

-----------------------------------------------------------------------------
(* One process with timers.                                                *)

SingleInv == IInv /\ TrackedIsOpen

\* A close that is asked for names a descriptor; with a single process the
\* reader of every tracked pipe is there.
LEMMA SingleStep ==
  ASSUME Procs = {First}, SingleInv, [Next]_vars
  PROVE  TrackedIsOpen'
<1>1. alive = {First} /\ IInv
  BY DEF SingleInv, IInv, Types
<1>2. {"none", "closed", "file"} \cap Pipes = {}
  BY ConstantsAssumption
<1>3. /\ table \in [Procs -> [Fds -> Pipes \cup {"closed", "file"}]]
      /\ handle \in [Fds -> Pipes \cup {"none"}]
  BY <1>1 DEF IInv, Types, TimersOK
<1>4. \A f \in Fds : handle[f] = IF table[First][f] \in Pipes THEN table[First][f] ELSE "none"
  BY DEF SingleInv, TrackedIsOpen
<1>5. ASSUME UNCHANGED <<table, handle>>
      PROVE  TrackedIsOpen'
  BY <1>4, <1>5 DEF TrackedIsOpen
<1>6. ASSUME NEW p \in Procs,
             \/ AskCreate(p) \/ AskOpen(p) \/ AskSettime(p) \/ AskClose(p) \/ AskOther(p)
             \/ Read(p) \/ Settime(p) \/ Other(p)
      PROVE  TrackedIsOpen'
  BY <1>5, <1>6 DEF AskCreate, AskOpen, AskSettime, AskClose, AskOther, Ask, Read, Settime, Other,
                    procVars, timerVars
<1>7. ASSUME NEW p \in Procs, Fork(p) \/ Exit(p)
      PROVE  FALSE
  BY <1>1, <1>7 DEF Fork, Exit
<1>8. CASE Advance \/ Alarm \/ Block \/ UNCHANGED vars
  BY <1>5, <1>8 DEF Advance, Alarm, Block, vars, procVars, timerVars
<1>9. CASE Tick
  <2>1. ASSUME NEW f \in Fds, Tracked(f)
        PROVE  WriteResult(f) # "broken"
    <3>1. handle[f] = table[First][f]
      BY <1>4, <2>1 DEF Tracked
    <3>2. First \in Readers(handle[f])
      BY <1>1, <3>1 DEF Readers
    <3>3. QED
      BY <3>2 DEF WriteResult
  <2>2. handle' = handle
    BY <1>3, <1>9, <2>1 DEF Tick, timerVars
  <2>3. QED
    BY <1>5, <1>9, <2>2 DEF Tick, procVars
<1>10. ASSUME NEW p \in Procs, Create(p)
       PROVE  TrackedIsOpen'
  <2> DEFINE free == {f \in Fds : table[p][f] = "closed"}
             spare == {i \in Pipes : Readers(i) = {} /\ \A f \in Fds : handle[f] # i}
             f == CHOOSE g \in free : \A h \in free : g <= h
  <2>1. CASE free = {} \/ spare = {}
    BY <1>5, <1>10, <2>1 DEF Create, timerVars
  <2>2. CASE free # {} /\ spare # {}
    <3>1. f \in Fds
      <4>1. free \subseteq Nat
        BY ConstantsAssumption
      <4>2. f \in free
        <5> HIDE DEF free
        <5> QED BY <2>2, <4>1, Smallest
      <4>3. QED
        BY <4>2
    <3>2. PICK i \in spare : /\ table' = [table EXCEPT ![p][f] = i]
                             /\ handle' = [handle EXCEPT ![f] = i]
      BY <1>10, <2>2 DEF Create
    <3> HIDE DEF f
    <3>3. p = First /\ i \in Pipes
      BY <1>1, <1>10, <3>2
    <3>4. QED
      BY <1>3, <1>4, <3>1, <3>2, <3>3 DEF TrackedIsOpen
  <2>3. QED
    BY <2>1, <2>2
<1>11. ASSUME NEW p \in Procs, Open(p)
       PROVE  TrackedIsOpen'
  <2> DEFINE free == {f \in Fds : table[p][f] = "closed"}
             f == CHOOSE g \in free : \A h \in free : g <= h
  <2>1. handle' = handle
    BY <1>11 DEF Open, timerVars
  <2>2. CASE free = {}
    BY <1>5, <1>11, <2>1, <2>2 DEF Open
  <2>3. CASE free # {}
    <3>1. f \in free
      <4>1. free \subseteq Nat
        BY ConstantsAssumption
      <4> HIDE DEF free
      <4>2. QED
        BY <2>3, <4>1, Smallest
    <3>2. table' = [table EXCEPT ![p][f] = "file"]
      BY <1>11, <2>3 DEF Open
    <3> HIDE DEF f
    <3>3. f \in Fds /\ table[p][f] = "closed" /\ p = First
      BY <1>1, <1>11, <3>1
    <3>4. QED
      BY <1>2, <1>3, <1>4, <2>1, <3>2, <3>3 DEF TrackedIsOpen
  <2>4. QED
    BY <2>2, <2>3
<1>12. ASSUME NEW p \in Procs, Close(p)
       PROVE  TrackedIsOpen'
  <2> DEFINE f == request[p].fd
  <2>1. f \in Fds /\ p = First
    BY <1>1, <1>12 DEF IInv, Types, AskedOK, Close
  <2>2. handle' = [handle EXCEPT ![f] = "none"] /\ table' = [table EXCEPT ![p][f] = "closed"]
    BY <1>12 DEF Close, Untracked
  <2> HIDE DEF f
  <2>3. QED
    BY <1>2, <1>3, <1>4, <2>1, <2>2 DEF TrackedIsOpen
<1>13. QED
  BY <1>6, <1>7, <1>8, <1>9, <1>10, <1>11, <1>12 DEF Next

\* As long as one process uses timers, the numbers tracked are exactly the
\* timerfds it has open (begin's close arm, capture_pipe, tick's EPIPE arm).
THEOREM TrackedAlwaysOpen ==
  ASSUME Procs = {First}
  PROVE  Spec => []TrackedIsOpen
<1>1. Init => SingleInv
  <2>1. Init => TrackedIsOpen
    BY ConstantsAssumption DEF Init, TrackedIsOpen
  <2>2. QED
    BY <2>1, Start DEF SingleInv
<1>2. SingleInv /\ [Next]_vars => SingleInv'
  BY Step, SingleStep DEF SingleInv
<1>3. SingleInv => TrackedIsOpen
  BY DEF SingleInv
<1>4. QED
  BY <1>1, <1>2, <1>3, PTL DEF Spec
=============================================================================
