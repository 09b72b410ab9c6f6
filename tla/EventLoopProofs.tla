--------------------------- MODULE EventLoopProofs ---------------------------
(***************************************************************************)
(* For any set of tasks, of posting threads and of timers: the task queue  *)
(* of an event loop is first-in first-out and loses no wakeup, and its     *)
(* periodic timers do not burst.                                           *)
(***************************************************************************)
EXTENDS EventLoop, SequenceTheorems, TLAPS

\* NoLostWakeup, strengthened: it must already hold before the loop starts, and
\* while the second batch runs, because no later step of the iteration looks at
\* the queue again.
WakeupInv ==
    pc \in {"new", "check", "wait", "run again"} /\ pending # <<>> =>
        notified \/ \E c \in Caller : caller[c] = "pushed"

\* A batch is swapped out only to be run.
BatchInv == pc \notin {"run", "run again"} => batch = <<>>

LoopInv == TypeOK /\ Fifo /\ WakeupInv /\ BatchInv

\* NoBurst, strengthened: a periodic timer that rang is set to ring after the
\* round, which is not ahead of the clock, and rings are counted by the round.
TimersInv ==
    /\ TimersOK
    /\ round <= clock
    /\ pc # "timers" => \A k \in Timer : rang[k] = 0
    /\ \A k \in Timer : Period[k] > 0 =>
          rang[k] = 0 \/ (rang[k] = 1 /\ (deadline[k] = Off \/ deadline[k] > round))

-----------------------------------------------------------------------------
\* The task queue does not touch the timers.
LEMMA SameTimersOK ==
    ASSUME TimersOK, UNCHANGED <<clock, timers>>
    PROVE  TimersOK'
BY DEF TimersOK, timers

\* Setting a timer keeps the types.
LEMMA EnterOK ==
    ASSUME TimersOK, NEW k \in Timer, NEW at \in Nat, Enter(k, at)
    PROVE  /\ deadline' \in [Timer -> Nat \cup {Off}]
           /\ older' \subseteq Timer \X Timer
BY DEF TimersOK, Enter, Armed

\* An interval after the last deadline is later than the round.
LEMMA NextDeadlineOK ==
    ASSUME TimersOK, NEW k \in Timer, Due(k), Period[k] > 0
    PROVE  NextDeadline(k) \in Nat /\ NextDeadline(k) > round
<1>1. deadline[k] \in Nat /\ Period[k] \in Nat /\ round \in Nat
  BY EventLoopAssumption DEF TimersOK, Due, Armed
<1> QED BY <1>1 DEF NextDeadline

\* So does the ringing of a timer.
LEMMA RingOK ==
    ASSUME TimersOK, NEW k \in Timer, Ring(k)
    PROVE  TimersOK'
<1>1. /\ Due(k) /\ Rearm(k) /\ rang' = [rang EXCEPT ![k] = @ + 1]
      /\ UNCHANGED <<clock, until, round>>
  BY DEF Ring, Rings
<1>2. /\ deadline' \in [Timer -> Nat \cup {Off}]
      /\ older' \subseteq Timer \X Timer
  <2>1. CASE k \in Again
    BY <1>1, <2>1, EnterOK DEF Rearm, TimersOK
  <2>2. CASE k \notin Again
    BY <1>1, <2>2, NextDeadlineOK DEF Rearm, TimersOK
  <2> QED BY <2>1, <2>2
<1>3. rang' \in [Timer -> Nat]
  <2>1. rang \in [Timer -> Nat] /\ rang[k] + 1 \in Nat
    BY DEF TimersOK
  <2> QED BY <1>1, <2>1
<1>4. clock \in Nat /\ round \in Nat /\ until \in Nat \cup {Off}
  BY DEF TimersOK
<1> QED BY <1>1, <1>2, <1>3, <1>4 DEF TimersOK

-----------------------------------------------------------------------------
\* Pushing at the end of the queue extends the history by the same task.
LEMMA PushKeepsFifo ==
    ASSUME NEW t \in Task, TypeOK, Fifo, Push(t), UNCHANGED <<ran, batch>>
    PROVE  Fifo' /\ pending' \in Seq(Task) /\ posted' \in Seq(Task)
<1>1. ran \o batch \in Seq(Task) /\ pending \in Seq(Task)
  BY ConcatProperties DEF TypeOK
<1>2. pending' = pending \o <<t>> /\ posted' = posted \o <<t>>
  BY AppendIsConcat DEF Push, TypeOK
<1>3. <<t>> \in Seq(Task)
  OBVIOUS
<1>4. (ran \o batch \o pending) \o <<t>> = ran \o batch \o (pending \o <<t>>)
  BY <1>1, <1>3, ConcatAssociative
<1>5. pending' \in Seq(Task) /\ posted' \in Seq(Task)
  BY <1>2, <1>3, ConcatProperties DEF TypeOK
<1> QED BY <1>2, <1>4, <1>5 DEF Fifo

\* Running the head of the batch moves it from one history to the other.
LEMMA RunHead ==
    ASSUME NEW b \in Seq(Task), NEW r \in Seq(Task), b # <<>>
    PROVE  /\ Head(b) \in Task /\ Tail(b) \in Seq(Task)
           /\ Append(r, Head(b)) \in Seq(Task)
           /\ Append(r, Head(b)) \o Tail(b) = r \o b
<1>1. Head(b) \in Task /\ Tail(b) \in Seq(Task) /\ b = <<Head(b)>> \o Tail(b)
  BY HeadTailProperties
<1>2. Append(r, Head(b)) = r \o <<Head(b)>> /\ <<Head(b)>> \in Seq(Task)
  BY <1>1, AppendIsConcat
<1>3. (r \o <<Head(b)>>) \o Tail(b) = r \o (<<Head(b)>> \o Tail(b))
  BY <1>1, <1>2, ConcatAssociative
<1> QED BY <1>1, <1>2, <1>3, ConcatProperties

\* A task's own QueueWork runs its child inline or pushes it and notifies.
LEMMA RunTaskKeepsInv ==
    ASSUME LoopInv, RunTask
    PROVE  LoopInv'
<1> DEFINE child == Child[Head(batch)]
<1>1. /\ batch \in Seq(Task) /\ ran \in Seq(Task) /\ pending \in Seq(Task)
      /\ posted \in Seq(Task) /\ batch # <<>>
  BY DEF LoopInv, TypeOK, RunTask
<1>2. /\ Head(batch) \in Task /\ batch' \in Seq(Task) /\ ran' \in Seq(Task)
      /\ ran' \o batch' = ran \o batch
  BY <1>1, RunHead DEF RunTask
<1>3. child \in Task \cup {NoTask}
  BY <1>2, EventLoopAssumption
<1>4. UNCHANGED <<running, woken, pc, caller, stop>> /\ TimersOK'
  BY SameTimersOK DEF RunTask, LoopInv, TypeOK
<1>5. batch' = Tail(batch) /\ pc \in {"run", "run again"} /\ pc' = pc
  BY DEF RunTask
<1>6. BatchInv'
  BY <1>5 DEF BatchInv
<1>7. CASE UNCHANGED <<pending, posted, notified>>
           /\ child \in Task /\ inlined' = inlined \cup {child}
  BY <1>1, <1>2, <1>4, <1>6, <1>7 DEF LoopInv, TypeOK, Fifo, WakeupInv
<1>8. CASE child \in Task /\ Push(child) /\ notified' = TRUE /\ UNCHANGED inlined
  <2>1. posted \o <<child>> = (ran \o batch \o pending) \o <<child>>
    BY DEF LoopInv, Fifo
  <2>2. ran \o batch \in Seq(Task) /\ <<child>> \in Seq(Task)
    BY <1>1, <1>8, ConcatProperties
  <2>3. (ran \o batch \o pending) \o <<child>> = ran \o batch \o (pending \o <<child>>)
    BY <1>1, <2>2, ConcatAssociative
  <2>4. pending' = pending \o <<child>> /\ posted' = posted \o <<child>>
    BY <1>1, <1>8, AppendIsConcat DEF Push
  <2>5. Fifo'
    BY <1>2, <2>1, <2>3, <2>4 DEF Fifo
  <2>6. pending' \in Seq(Task) /\ posted' \in Seq(Task)
    BY <1>1, <2>2, <2>4, ConcatProperties
  <2> QED BY <1>2, <1>4, <1>6, <1>8, <2>5, <2>6 DEF LoopInv, TypeOK, WakeupInv
<1>9. CASE child = NoTask \/ ~Fresh(child)
  <2>1. UNCHANGED <<pending, posted, notified>> /\ inlined' = inlined
    BY <1>9 DEF RunTask
  <2> QED BY <1>1, <1>2, <1>4, <1>6, <2>1 DEF LoopInv, TypeOK, Fifo, WakeupInv
<1>10. CASE ~(child = NoTask \/ ~Fresh(child)) /\ running
  <2>1. inlined' = inlined \cup {child} /\ UNCHANGED <<pending, posted, notified>>
    BY <1>10 DEF RunTask
  <2> QED BY <1>3, <1>7, <1>10, <2>1
<1>11. CASE ~(child = NoTask \/ ~Fresh(child)) /\ ~running
  <2>1. Push(child) /\ notified' = TRUE /\ UNCHANGED inlined
    BY <1>11 DEF RunTask
  <2> QED BY <1>3, <1>8, <1>11, <2>1
<1> QED BY <1>9, <1>10, <1>11

\* The steps of the loop thread.
LEMMA LoopStepKeepsInv ==
    ASSUME LoopInv, Loop
    PROVE  LoopInv'
<1> USE DEF LoopInv, TypeOK, Fifo, WakeupInv, BatchInv
<1>1. CASE Check
  <2>1. TimersOK'
    BY <1>1 DEF Check, WaitUntilFirst, TimersOK, Armed
  <2> QED BY <1>1, <2>1 DEF Check
<1>2. CASE Wait
  <2>1. TimersOK'
    BY <1>2 DEF Wait, NewRound, TimersOK
  <2> QED BY <1>2, <2>1 DEF Wait
<1>3. CASE WaitFails
  BY <1>3, SameTimersOK DEF WaitFails
<1>4. CASE SkipTasks
  BY <1>4, SameTimersOK DEF SkipTasks, AfterTasks, LooksEmpty
<1>5. CASE SwapTasks
  <2>1. /\ ran \o <<>> = ran /\ (ran \o pending) \o <<>> = ran \o pending
        /\ batch = <<>>
    BY <1>5, ConcatEmptySeq, ConcatProperties DEF SwapTasks
  <2> QED BY <1>5, <2>1, SameTimersOK DEF SwapTasks
<1>6. CASE RunTask
  BY <1>6, RunTaskKeepsInv
<1>7. CASE EndBatch
  BY <1>7, SameTimersOK DEF EndBatch, AfterTasks
<1>8. CASE Dispatch
  BY <1>8, SameTimersOK DEF Dispatch
<1>9. CASE EndTimers
  <2>1. TimersOK'
    BY <1>9 DEF EndTimers, TimersOK
  <2> QED BY <1>9, <2>1 DEF EndTimers
<1>10. ASSUME NEW k \in Timer, Ring(k) PROVE LoopInv'
  <2>1. TimersOK'
    BY <1>10, RingOK
  <2> QED BY <1>10, <2>1 DEF Ring, Rings
<1> QED BY <1>1, <1>2, <1>3, <1>4, <1>5, <1>6, <1>7, <1>8, <1>9, <1>10 DEF Loop, LoopRuns

\* The steps of the threads that post and of the one that stops the loop.
LEMMA CallerStepKeepsInv ==
    ASSUME LoopInv, NEW c \in Caller,
           Wakeup(c) \/ \E t \in Task : QueueWork(c, t)
    PROVE  LoopInv'
<1>1. CASE Wakeup(c)
  BY <1>1, SameTimersOK DEF Wakeup, LoopInv, TypeOK, Fifo, WakeupInv, BatchInv
<1>2. ASSUME NEW t \in Task, QueueWork(c, t) PROVE LoopInv'
  <2>1. Fifo' /\ pending' \in Seq(Task) /\ posted' \in Seq(Task)
    BY <1>2, PushKeepsFifo DEF QueueWork, LoopInv
  <2>2. /\ caller' \in [Caller -> {"idle", "pushed"}] /\ caller'[c] = "pushed"
        /\ UNCHANGED <<running, notified, batch, woken, pc, stop, ran, inlined>>
        /\ TimersOK'
    BY <1>2, SameTimersOK DEF QueueWork, LoopInv, TypeOK
  <2> QED BY <2>1, <2>2 DEF LoopInv, TypeOK, WakeupInv, BatchInv
<1> QED BY <1>1, <1>2

LEMMA StopStepKeepsInv ==
    ASSUME LoopInv, Start \/ StartFails \/ Stop \/ StopMark \/ StopWake
    PROVE  LoopInv'
BY SameTimersOK DEF Start, StartFails, Stop, StopMark, StopWake,
       LoopInv, TypeOK, Fifo, WakeupInv, BatchInv

\* Time passes and timers are set.
LEMMA ClockStepKeepsInv ==
    ASSUME LoopInv, Tick \/ \E k \in Timer : SetTimer(k)
    PROVE  LoopInv'
<1> TimersOK
  BY DEF LoopInv, TypeOK
<1>1. TimersOK'
  <2>1. CASE Tick
    <3>1. clock' \in Nat /\ UNCHANGED timers
      BY <2>1 DEF Tick, TimersOK
    <3> QED BY <3>1 DEF timers, TimersOK
  <2>2. ASSUME NEW k \in Timer, SetTimer(k) PROVE TimersOK'
    <3>1. clock \in Nat /\ Delay[k] \in Nat
      BY EventLoopAssumption DEF TimersOK
    <3>2. clock + Delay[k] \in Nat
      BY <3>1
    <3> QED BY <2>2, <3>2, EnterOK DEF SetTimer, TimersOK
  <2> QED BY <2>1, <2>2
<1> QED BY ZenonT(30), <1>1 DEF Tick, SetTimer, LoopInv, TypeOK, Fifo, WakeupInv, BatchInv

\* The inductive invariant of the queue and the wake-up (event_loop.cpp:184).
THEOREM LoopInvariant == Spec => []LoopInv
<1>1. Init => LoopInv
  <2> SUFFICES ASSUME Init PROVE LoopInv
    OBVIOUS
  <2>1. <<>> \in Seq(Task) /\ <<>> \o <<>> \o <<>> = <<>>
    OBVIOUS
  <2>2. TimersOK
    BY DEF Init, TimersOK
  <2> QED BY <2>1, <2>2 DEF Init, LoopInv, TypeOK, Fifo, WakeupInv, BatchInv
<1>2. LoopInv /\ [Next]_vars => LoopInv'
  <2> SUFFICES ASSUME LoopInv, [Next]_vars PROVE LoopInv'
    OBVIOUS
  <2>1. CASE Loop
    BY <2>1, LoopStepKeepsInv
  <2>2. CASE Start \/ StartFails \/ Stop \/ StopMark \/ StopWake
    BY <2>2, StopStepKeepsInv
  <2>3. CASE \E c \in Caller : Wakeup(c) \/ \E t \in Task : QueueWork(c, t)
    BY <2>3, CallerStepKeepsInv
  <2>4. CASE UNCHANGED vars
    BY <2>4, SameTimersOK DEF vars, LoopInv, TypeOK, Fifo, WakeupInv, BatchInv
  <2>5. CASE Tick \/ \E k \in Timer : SetTimer(k)
    BY <2>5, ClockStepKeepsInv
  <2> QED BY <2>1, <2>2, <2>3, <2>4, <2>5 DEF Next
<1> QED BY <1>1, <1>2, PTL DEF Spec

\* The variables of the loop keep their types.
THEOREM LoopTypeCorrect == Spec => []TypeOK
BY LoopInvariant, PTL DEF LoopInv

\* Posted tasks are run once each and in the order they were posted.
THEOREM LoopFifo == Spec => []Fifo
BY LoopInvariant, PTL DEF LoopInv

\* The loop never blocks on a queue that nobody will wake it for.
THEOREM LoopNoLostWakeup == Spec => []NoLostWakeup
<1>1. LoopInv => NoLostWakeup
  BY DEF LoopInv, WakeupInv, NoLostWakeup
<1> QED BY LoopInvariant, <1>1, PTL

-----------------------------------------------------------------------------
\* A step that is none of the timers' own.
LEMMA SameTimersInv ==
    ASSUME TimersInv, UNCHANGED <<clock, timers>>, pc = "timers" <=> pc' = "timers"
    PROVE  TimersInv'
BY SameTimersOK DEF TimersInv, timers

\* Ringing a periodic timer puts its deadline behind the round.
LEMMA RingKeepsTimersInv ==
    ASSUME TimersInv, NEW k \in Timer, Ring(k)
    PROVE  TimersInv'
<1>1. /\ Due(k) /\ Rearm(k) /\ rang' = [rang EXCEPT ![k] = @ + 1]
      /\ UNCHANGED <<clock, until, round, pc>> /\ pc = "timers"
  BY DEF Ring, Rings
<1>2. TimersOK'
  BY RingOK DEF TimersInv
<1>3. ASSUME NEW j \in Timer, Period[j] > 0
      PROVE  rang'[j] = 0 \/ (rang'[j] = 1 /\ (deadline'[j] = Off \/ deadline'[j] > round))
  <2>1. rang \in [Timer -> Nat] /\ deadline \in [Timer -> Nat \cup {Off}]
    BY DEF TimersInv, TimersOK
  <2>2. CASE j # k
    <3>1. rang'[j] = rang[j] /\ deadline'[j] = deadline[j]
      BY <1>1, <2>1, <2>2 DEF Rearm, Enter
    <3> QED BY <1>3, <3>1 DEF TimersInv
  <2>3. CASE j = k
    <3>1. k \notin Again
      BY <1>3, <2>3, EventLoopAssumption
    <3>2. deadline'[k] = NextDeadline(k) \/ deadline'[k] = Off
      BY <1>1, <2>1, <3>1 DEF Rearm
    <3>3. deadline'[k] = Off \/ deadline'[k] > round
      BY <1>1, <1>3, <2>3, <3>2, NextDeadlineOK DEF TimersInv
    <3>4. deadline[k] # Off /\ deadline[k] \in Nat /\ deadline[k] <= round /\ round \in Nat
      BY <1>1, <2>1 DEF Due, Armed, TimersInv, TimersOK
    <3>5. rang[k] = 0
      BY <1>3, <2>3, <3>4 DEF TimersInv
    <3> QED BY <1>1, <2>1, <2>3, <3>3, <3>5
  <2> QED BY <2>2, <2>3
<1> QED BY <1>1, <1>2, <1>3 DEF TimersInv

\* A timer is set for a time after the round, when it is periodic.
LEMMA SetTimerKeepsTimersInv ==
    ASSUME TimersInv, NEW k \in Timer, SetTimer(k)
    PROVE  TimersInv'
<1>1. /\ Enter(k, clock + Delay[k]) /\ UNCHANGED <<clock, until, round, rang, pc>>
      /\ clock + Delay[k] \in Nat
  BY EventLoopAssumption DEF SetTimer, TimersInv, TimersOK
<1>2. TimersOK'
  BY <1>1, EnterOK DEF TimersInv, TimersOK
<1>3. ASSUME NEW j \in Timer, Period[j] > 0
      PROVE  rang[j] = 0 \/ (rang[j] = 1 /\ (deadline'[j] = Off \/ deadline'[j] > round))
  <2>1. CASE j # k
    <3>1. deadline'[j] = deadline[j]
      BY <1>1, <2>1 DEF Enter, TimersInv, TimersOK
    <3> QED BY <1>3, <3>1 DEF TimersInv
  <2>2. CASE j = k
    <3>1. deadline'[k] = clock + Delay[k]
      BY <1>1 DEF Enter, TimersInv, TimersOK
    <3>2. Delay[k] = Period[k] /\ Period[k] \in Nat /\ round \in Nat /\ clock \in Nat
          /\ round <= clock
      BY <1>3, <2>2, EventLoopAssumption DEF TimersInv, TimersOK
    <3>3. deadline'[k] > round
      BY <1>3, <2>2, <3>1, <3>2
    <3> QED BY <1>3, <2>2, <3>3 DEF TimersInv
  <2> QED BY <2>1, <2>2
<1> QED BY <1>1, <1>2, <1>3 DEF TimersInv

\* The inductive invariant of the timers: one that rang in this round is next due
\* after it (event_loop.cpp:243).
THEOREM TimersInvariant == Spec => []TimersInv
<1>1. Init => TimersInv
  BY DEF Init, TimersInv, TimersOK
<1>2. TimersInv /\ [Next]_vars => TimersInv'
  <2> SUFFICES ASSUME TimersInv, [Next]_vars PROVE TimersInv'
    OBVIOUS
  <2>1. CASE Tick
    BY <2>1 DEF Tick, timers, TimersInv, TimersOK
  <2>2. CASE Check
    BY <2>2 DEF Check, WaitUntilFirst, Armed, TimersInv, TimersOK
  <2>3. CASE Wait
    BY <2>3 DEF Wait, NewRound, TimersInv, TimersOK
  <2>4. CASE EndTimers
    BY <2>4 DEF EndTimers, TimersInv, TimersOK
  <2>5. ASSUME NEW k \in Timer, Ring(k) \/ SetTimer(k) PROVE TimersInv'
    BY <2>5, RingKeepsTimersInv, SetTimerKeepsTimersInv
  <2>6. CASE \/ SkipTasks \/ SwapTasks \/ RunTask \/ EndBatch \/ Dispatch \/ WaitFails
             \/ Start \/ StartFails \/ Stop \/ StopMark \/ StopWake
    BY <2>6, SameTimersInv DEF SkipTasks, SwapTasks, RunTask, EndBatch, AfterTasks,
       Dispatch, WaitFails, Start, StartFails, Stop, StopMark, StopWake
  <2>7. ASSUME NEW c \in Caller, Wakeup(c) \/ \E t \in Task : QueueWork(c, t)
        PROVE  TimersInv'
    BY <2>7, SameTimersInv DEF Wakeup, QueueWork
  <2>8. CASE UNCHANGED vars
    BY <2>8, SameTimersInv DEF vars
  <2> QED BY <2>1, <2>2, <2>3, <2>4, <2>5, <2>6, <2>7, <2>8 DEF Next, Loop, LoopRuns
<1> QED BY <1>1, <1>2, PTL DEF Spec

\* A periodic timer rings once in a round, however many intervals it missed.
THEOREM LoopNoBurst == Spec => []NoBurst
<1>1. TimersInv => NoBurst
  BY DEF TimersInv, NoBurst
<1> QED BY TimersInvariant, <1>1, PTL
=============================================================================
