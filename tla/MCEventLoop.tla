----------------------------- MODULE MCEventLoop -----------------------------
(* Instances of EventLoop for TLC. *)
EXTENDS EventLoop

CONSTANTS a, kid, c1, c2, every, again

Tasks == {a, kid}
Callers == {c1, c2}

\* a queues kid on its own loop.
AQueuesChild == [t \in Tasks |-> IF t = a THEN kid ELSE NoTask]

Timers == {every, again}
AtOnce == {again}
Delays == [k \in Timers |-> IF k = every THEN 1 ELSE 0]
==============================================================================
