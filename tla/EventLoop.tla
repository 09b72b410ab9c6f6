------------------------------ MODULE EventLoop ------------------------------
(***************************************************************************)
(* One event loop (src/event_loop.cpp): the loop thread, the task queue    *)
(* other threads post to, the eventfd that wakes the poller, and Stop().   *)
(*                                                                         *)
(* QueueWork pushes under the mutex and notifies after releasing it; the   *)
(* loop runs the timers that are due, swaps the queue out, runs the batch, *)
(* dispatches the ready events (one of which drains the eventfd) and looks *)
(* at the queue again before it goes back to the poller.  The sockets of   *)
(* the loop are left out: they only make Wait return earlier.              *)
(***************************************************************************)
EXTENDS Integers, Sequences, SequencesExt

CONSTANTS
    Task,     \* work that other threads post
    Caller,   \* threads that call QueueWork
    Child,    \* task -> work it queues on its own loop, or NoTask
    NoTask,
    Timeouts, \* whether Wait may return without an event (50 ms at most)
    Stops,    \* whether Stop() is ever called
    Timer,    \* timers
    Delay,    \* timer -> when it first rings, after it was set
    Period,   \* timer -> the interval of RunEvery, 0 for RunAfter
    Again,    \* timers whose task sets them again, with RunAfter(0)
    PerRound, \* kMaxTimersPerRound
    MaxClock, \* bound on NowMs()
    Off

ASSUME EventLoopAssumption ==
    /\ NoTask \notin Task
    /\ Child \in [Task -> Task \cup {NoTask}]
    /\ Timeouts \in BOOLEAN /\ Stops \in BOOLEAN
    /\ Delay \in [Timer -> Nat] /\ Period \in [Timer -> Nat]
    /\ \A k \in Timer : Period[k] > 0 => Delay[k] = Period[k]
    /\ Again \subseteq {k \in Timer : Period[k] = 0}
    /\ PerRound \in Nat \ {0} /\ MaxClock \in Nat /\ Off \notin Nat

VARIABLES
    running,   \* running_
    notified,  \* the eventfd's counter is not zero
    pending,   \* pending_tasks_
    batch,     \* the tasks RunPendingTasks swapped out and has yet to run
    woken,     \* the poller reported the eventfd in this iteration
    pc,        \* where the loop thread is
    caller,    \* caller -> "idle", or "pushed": it has yet to notify
    stop,      \* the thread that calls Stop()
    posted,    \* history: every task pushed, in order
    ran,       \* history: the tasks run from the queue, in order
    inlined,   \* history: children run inside QueueWork
    clock,     \* NowMs()
    deadline,  \* timer -> its deadline in timers_, or Off
    older,     \* the order of the timers' seq, as pairs
    until,     \* when Wait gives up: the deadline it was called with, or Off
    round,     \* the time RunExpiredTimers goes by
    rang       \* timer -> how often it rang in this round

timers == <<deadline, older, until, round, rang>>
vars == <<running, notified, pending, batch, woken, pc, caller, stop,
          posted, ran, inlined, clock, timers>>

-----------------------------------------------------------------------------
(* Threads that post. *)

\* Mutant: a task is pushed in front.
PushInFront(t) ==
    /\ pending' = <<t>> \o pending
    /\ posted' = Append(posted, t)

Push(t) ==
    /\ pending' = Append(pending, t)
    /\ posted' = Append(posted, t)

\* Each task is posted once.
Fresh(t) == t \notin ToSet(posted) /\ t \notin inlined

\* The push, under task_mutex_.
QueueWork(c, t) ==
    /\ caller[c] = "idle" /\ Fresh(t)
    /\ Push(t)
    /\ caller' = [caller EXCEPT ![c] = "pushed"]
    /\ UNCHANGED <<running, notified, batch, woken, pc, stop, ran, inlined,
                   clock, timers>>

\* The Wakeup() after it.
Wakeup(c) ==
    /\ caller[c] = "pushed"
    /\ notified' = TRUE
    /\ caller' = [caller EXCEPT ![c] = "idle"]
    /\ UNCHANGED <<running, pending, batch, woken, pc, stop, posted, ran,
                   inlined, clock, timers>>

-----------------------------------------------------------------------------
(* Stop(), from any other thread. *)

Stop ==
    /\ Stops /\ stop = "idle"
    /\ stop' = IF running THEN "seen" ELSE "returned"
    /\ UNCHANGED <<running, notified, pending, batch, woken, pc, caller,
                   posted, ran, inlined, clock, timers>>

StopMark ==
    /\ stop = "seen"
    /\ running' = FALSE
    /\ stop' = "marked"
    /\ UNCHANGED <<notified, pending, batch, woken, pc, caller, posted, ran,
                   inlined, clock, timers>>

\* Mutant: Stop() forgets to wake the loop.
StopWithoutWake ==
    /\ stop = "marked"
    /\ stop' = "returned"
    /\ UNCHANGED <<running, notified, pending, batch, woken, pc, caller,
                   posted, ran, inlined, clock, timers>>

StopWake ==
    /\ stop = "marked"
    /\ notified' = TRUE
    /\ stop' = "returned"
    /\ UNCHANGED <<running, pending, batch, woken, pc, caller, posted, ran,
                   inlined, clock, timers>>

-----------------------------------------------------------------------------
(* Timers. *)

Armed == {k \in Timer : deadline[k] # Off}
Due(k) == k \in Armed /\ deadline[k] <= round

\* The heap's order: by deadline, then by seq.
Before(j, k) ==
    deadline[j] < deadline[k] \/ (deadline[j] = deadline[k] /\ <<j, k>> \in older)

\* Wait is called with the first deadline.
WaitUntilFirst ==
    \/ Armed = {} /\ until' = Off
    \/ \E k \in Armed : /\ \A j \in Armed : deadline[k] <= deadline[j]
                        /\ until' = deadline[k]

TimeIsUp == until # Off /\ until <= clock

Rung == FoldFunction(+, 0, rang)

\* A timer enters the heap with a new seq.
Enter(k, at) ==
    /\ deadline' = [deadline EXCEPT ![k] = at]
    /\ older' = {p \in older : k \notin {p[1], p[2]}} \cup ((Armed \ {k}) \X {k})

\* RunAfter or RunEvery: by the loop thread, or by the thread that sets the
\* server up while the loop is already running.  The loop is not notified.
SetTimer(k) ==
    /\ k \notin Armed
    /\ Enter(k, clock + Delay[k])
    /\ UNCHANGED <<running, notified, pending, batch, woken, pc, caller, stop, posted,
                   ran, inlined, clock, until, round, rang>>

Tick ==
    /\ clock < MaxClock
    /\ clock' = clock + 1
    /\ UNCHANGED <<running, notified, pending, batch, woken, pc, caller, stop, posted,
                   ran, inlined, timers>>

\* Mutant: a timer that fell behind makes up for the time it missed.
NextDeadlineInThePast(k) == deadline[k] + Period[k]

\* An interval after the last deadline, or after now when that has passed.
NextDeadline(k) ==
    LET next == deadline[k] + Period[k]
    IN  IF next <= round THEN round + Period[k] ELSE next

\* What becomes of a timer when its task ran: a periodic one keeps its seq.
Rearm(k) ==
    IF k \in Again THEN Enter(k, clock)
    ELSE /\ deadline' = [deadline EXCEPT ![k] =
                 IF Period[k] > 0 /\ running THEN NextDeadline(k) ELSE Off]
         /\ older' = {p \in older : k \notin {p[1], p[2]} \/ deadline'[k] # Off}

-----------------------------------------------------------------------------
(* The loop thread. *)

\* Start() sets running_ before it initialises the poller.
Start ==
    /\ pc = "new"
    /\ running' = TRUE
    /\ pc' = "check"
    /\ UNCHANGED <<notified, pending, batch, woken, caller, stop, posted, ran,
                   inlined, clock, timers>>

\* The poller or the eventfd cannot be set up.
StartFails ==
    /\ pc = "new"
    /\ running' = FALSE
    /\ pc' = "done"
    /\ UNCHANGED <<notified, pending, batch, woken, caller, stop, posted, ran,
                   inlined, clock, timers>>

\* while (running_), and the timeout of Wait.
Check ==
    /\ pc = "check"
    /\ pc' = IF running THEN "wait" ELSE "done"
    /\ WaitUntilFirst
    /\ UNCHANGED <<running, notified, pending, batch, woken, caller, stop,
                   posted, ran, inlined, clock, deadline, older, round, rang>>

\* RunExpiredTimers takes the time once.
NewRound ==
    /\ round' = clock
    /\ rang' = [k \in Timer |-> 0]
    /\ until' = Off
    /\ UNCHANGED <<deadline, older>>

Wait ==
    /\ pc = "wait"
    /\ notified \/ Timeouts \/ TimeIsUp
    /\ woken' = notified
    /\ pc' = "timers"
    /\ NewRound
    /\ UNCHANGED <<running, notified, pending, batch, caller, stop, posted,
                   ran, inlined, clock>>

\* The poller fails: the loop is over.
WaitFails ==
    /\ pc = "wait"
    /\ running' = FALSE
    /\ pc' = "done"
    /\ UNCHANGED <<notified, pending, batch, woken, caller, stop, posted, ran,
                   inlined, clock, timers>>

\* Mutant: no bound on the timers of a round.
RingsOnAndOn(k) ==
    /\ pc = "timers" /\ Due(k)
    /\ rang' = [rang EXCEPT ![k] = IF Rung + 1 < PerRound THEN @ + 1 ELSE @]
    /\ UNCHANGED <<running, notified, pending, batch, woken, pc, caller, stop,
                   posted, ran, inlined, clock, until, round>>

Rings(k) ==
    /\ pc = "timers" /\ Due(k) /\ Rung < PerRound
    /\ rang' = [rang EXCEPT ![k] = @ + 1]
    /\ UNCHANGED <<running, notified, pending, batch, woken, pc, caller, stop,
                   posted, ran, inlined, clock, until, round>>

\* Mutant: timers with equal deadlines ring in any order.
RingAnyOfEqual(k) ==
    /\ Rings(k)
    /\ \A j \in Timer : Due(j) => deadline[k] <= deadline[j]
    /\ Rearm(k)

\* RunExpiredTimers: the first timer of the heap rings.
Ring(k) ==
    /\ Rings(k)
    /\ \A j \in Timer \ {k} : Due(j) => Before(k, j)
    /\ Rearm(k)

\* No timer is due, or enough of them rang.
EndTimers ==
    /\ pc = "timers"
    /\ Rung = PerRound \/ \A k \in Timer : ~Due(k)
    /\ pc' = "tasks"
    /\ rang' = [k \in Timer |-> 0] /\ round' = 0
    /\ UNCHANGED <<running, notified, pending, batch, woken, caller, stop, posted,
                   ran, inlined, clock, deadline, older, until>>

AfterTasks == IF pc \in {"tasks", "run"} THEN "dispatch" ELSE "check"

\* RunPendingTasks looks at the queue without the mutex first: a push that has
\* not been followed by its notification may or may not be seen.
LooksEmpty == pending = <<>> \/ \E c \in Caller : caller[c] = "pushed"

SkipTasks ==
    /\ pc \in {"tasks", "tasks again"}
    /\ LooksEmpty
    /\ pc' = AfterTasks
    /\ UNCHANGED <<running, notified, pending, batch, woken, caller, stop,
                   posted, ran, inlined, clock, timers>>

SwapTasks ==
    /\ pc \in {"tasks", "tasks again"}
    /\ pending # <<>>
    /\ batch' = pending
    /\ pending' = <<>>
    /\ pc' = IF pc = "tasks" THEN "run" ELSE "run again"
    /\ UNCHANGED <<running, notified, woken, caller, stop, posted, ran,
                   inlined, clock, timers>>

\* Mutant: QueueWork without its null check.
RunTaskQueuesNull ==
    /\ pc \in {"run", "run again"} /\ batch # <<>>
    /\ ran' = Append(ran, Head(batch))
    /\ batch' = Tail(batch)
    /\ Push(Child[Head(batch)])
    /\ notified' = TRUE
    /\ UNCHANGED <<running, inlined, woken, pc, caller, stop, clock, timers>>

\* A task runs.  Work it queues on its own loop runs at once while running_ is
\* set, and is pushed otherwise.
RunTask ==
    LET child == Child[Head(batch)]
    IN  /\ pc \in {"run", "run again"} /\ batch # <<>>
        /\ ran' = Append(ran, Head(batch))
        /\ batch' = Tail(batch)
        /\ IF child = NoTask \/ ~Fresh(child)
           THEN UNCHANGED <<pending, posted, inlined, notified>>
           ELSE IF running
           THEN inlined' = inlined \cup {child}
                /\ UNCHANGED <<pending, posted, notified>>
           ELSE Push(child) /\ notified' = TRUE /\ UNCHANGED inlined
        /\ UNCHANGED <<running, woken, pc, caller, stop, clock, timers>>

EndBatch ==
    /\ pc \in {"run", "run again"} /\ batch = <<>>
    /\ pc' = AfterTasks
    /\ UNCHANGED <<running, notified, pending, batch, woken, caller, stop,
                   posted, ran, inlined, clock, timers>>

\* Mutant: no second look at the queue after the eventfd was drained.
DispatchThenPoll ==
    /\ pc = "dispatch"
    /\ notified' = (notified /\ ~woken)
    /\ woken' = FALSE
    /\ pc' = "check"
    /\ UNCHANGED <<running, pending, batch, caller, stop, posted, ran, inlined,
                   clock, timers>>

\* The ready events: the eventfd is drained if the poller reported it.
Dispatch ==
    /\ pc = "dispatch"
    /\ notified' = (notified /\ ~woken)
    /\ woken' = FALSE
    /\ pc' = "tasks again"
    /\ UNCHANGED <<running, pending, batch, caller, stop, posted, ran, inlined,
                   clock, timers>>

LoopRuns ==
    \/ Check \/ Wait \/ SkipTasks \/ SwapTasks \/ RunTask \/ EndBatch \/ Dispatch
    \/ EndTimers \/ \E k \in Timer : Ring(k)

Loop == LoopRuns \/ WaitFails

-----------------------------------------------------------------------------
Init ==
    /\ running = FALSE /\ notified = FALSE
    /\ pending = <<>> /\ batch = <<>> /\ woken = FALSE
    /\ pc = "new"
    /\ caller = [c \in Caller |-> "idle"]
    /\ stop = "idle"
    /\ posted = <<>> /\ ran = <<>> /\ inlined = {}
    /\ clock = 0 /\ deadline = [k \in Timer |-> Off] /\ older = {}
    /\ until = Off /\ round = 0 /\ rang = [k \in Timer |-> 0]

Next ==
    \/ Tick \/ \E k \in Timer : SetTimer(k)
    \/ Start \/ StartFails \/ Loop
    \/ Stop \/ StopMark \/ StopWake
    \/ \E c \in Caller : Wakeup(c) \/ \E t \in Task : QueueWork(c, t)

Spec == Init /\ [][Next]_vars

\* The loop thread is scheduled, a thread inside QueueWork or Stop finishes the
\* call; nobody has to call either.
FairSpec ==
    /\ Spec
    /\ WF_vars(Start \/ LoopRuns) /\ WF_vars(StopMark) /\ WF_vars(StopWake)
    /\ \A c \in Caller : WF_vars(Wakeup(c))

-----------------------------------------------------------------------------
TimersOK ==
    /\ clock \in Nat /\ round \in Nat /\ until \in Nat \cup {Off}
    /\ deadline \in [Timer -> Nat \cup {Off}] /\ rang \in [Timer -> Nat]
    /\ older \subseteq Timer \X Timer

TypeOK ==
    /\ running \in BOOLEAN /\ notified \in BOOLEAN /\ woken \in BOOLEAN
    /\ pending \in Seq(Task) /\ batch \in Seq(Task)
    /\ posted \in Seq(Task) /\ ran \in Seq(Task)
    /\ inlined \subseteq Task
    /\ pc \in {"new", "check", "wait", "timers", "tasks", "run", "dispatch",
               "tasks again", "run again", "done"}
    /\ caller \in [Caller -> {"idle", "pushed"}]
    /\ stop \in {"idle", "seen", "marked", "returned"}
    /\ TimersOK

\* No task is lost, run twice or overtaken: what was posted is what ran, what
\* is being run and what is queued, in that order, while the queue is pushed to
\* and swapped out concurrently.
Fifo == posted = ran \o batch \o pending

\* No wakeup is lost: when the loop is about to block with work in the queue,
\* the eventfd is set or the thread that pushed has yet to set it.  Only the
\* second RunPendingTasks makes this true of a push before the drain.
NoLostWakeup ==
    pc \in {"check", "wait"} /\ pending # <<>> =>
        notified \/ \E c \in Caller : caller[c] = "pushed"

\* A periodic timer that fell behind, however far, rings once and not once for
\* every interval it missed.
NoBurst == \A k \in Timer : Period[k] > 0 => rang[k] <= 1

\* A posted task is run, or the loop is over: without the help of the 50 ms
\* timeout of the poller, and although timers set themselves again with RunAfter(0).
PostedTasksRun ==
    \A t \in Task : t \in ToSet(posted) ~> (t \in ToSet(ran) \/ pc = "done")

\* A timer that is due rings, although others set themselves again at once, or the
\* loop is over: unless it was set while the loop slept without it.
TimersRing ==
    \A k \in Timer \ Again :
        k \in Armed /\ deadline[k] <= clock
            ~> \/ k \notin Armed \/ deadline[k] > clock \/ pc = "done"
               \/ pc = "wait" /\ (until = Off \/ until > deadline[k])

\* Stop(), once it found the loop running, terminates it.
StopReachesLoop == stop = "marked" ~> pc = "done"
=============================================================================
