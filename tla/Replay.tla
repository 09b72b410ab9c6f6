------------------------------- MODULE Replay -------------------------------
(***************************************************************************)
(* What the log means when it is replayed later: the write commands on one *)
(* key (src/command.cpp), the entry they leave in the store, the records   *)
(* they log and the entry those records give at a restart.  Deadlines are  *)
(* absolute and expiry is not logged.  Commands on other keys commute with *)
(* these; threads and the file are the business of module Aof.             *)
(***************************************************************************)
EXTENDS Integers, Sequences

CONSTANTS
    None,    \* no entry
    Value,   \* the numbers SET may store
    Ops,     \* the commands used: of "set", "keep" (SET KEEPTTL),
             \* "incr", "del", "expire"
    MaxTime, \* bound on the clock
    MaxLog   \* bound on the commands logged

ASSUME ReplayAssumption ==
    /\ Value \subseteq Nat
    /\ Ops \subseteq {"set", "keep", "incr", "del", "expire"}
    /\ MaxTime \in Nat \ {0} /\ MaxLog \in Nat
    /\ None \notin [val : Nat, at : Nat]

VARIABLES
    now,   \* NowMs()
    entry, \* the entry of the key: [val, at], at = 0 for no deadline
    log    \* the records logged so far

vars == <<now, entry, log>>

Time == 0 .. MaxTime

\* The key as a reader sees it.
Live(e, t) == IF e # None /\ e.at # 0 /\ e.at <= t THEN None ELSE e

-----------------------------------------------------------------------------
(* The commands, as functions of the entry and the time. *)

\* SET with a deadline that has passed lives for one more millisecond.
Deadline(t, at) == IF at # 0 /\ at <= t THEN t + 1 ELSE at

\* Mutant: SET leaves the old deadline in place.
StoredKeepsTtl(e, t, v, at, keep) ==
    [val |-> v,
     at |-> IF at = 0 /\ Live(e, t) # None THEN e.at ELSE Deadline(t, at)]

Stored(e, t, v, at, keep) ==
    [val |-> v,
     at |-> IF at = 0 /\ keep /\ Live(e, t) # None THEN e.at ELSE Deadline(t, at)]

\* Mutant: the sign of the increment is lost.
AddedBackwards(e, t) ==
    IF Live(e, t) = None THEN [val |-> 1, at |-> 0] ELSE [e EXCEPT !.val = @ - 1]

Added(e, t) ==
    IF Live(e, t) = None THEN [val |-> 1, at |-> 0] ELSE [e EXCEPT !.val = @ + 1]

Expiring(e, t, at) ==
    IF Live(e, t) = None \/ (at # 0 /\ at <= t) THEN None ELSE [e EXCEPT !.at = at]

-----------------------------------------------------------------------------
(* The server runs. *)

Logged(r) == Len(log) < MaxLog /\ log' = Append(log, r)

\* SET key v [NX|XX] [PX d | PXAT at] [KEEPTTL]; at is the deadline, or 0.
Set(v, at, keep, cond) ==
    LET exists == Live(entry, now) # None
    IN  /\ "set" \in Ops /\ (keep => "keep" \in Ops)
        /\ ~(cond = "nx" /\ exists) /\ ~(cond = "xx" /\ ~exists)
        /\ entry' = Stored(entry, now, v, at, keep)
        /\ Logged([op |-> "set", val |-> v, at |-> Deadline(now, at), keep |-> keep])
        /\ UNCHANGED now

Incr ==
    /\ "incr" \in Ops
    /\ entry' = Added(entry, now)
    /\ Logged([op |-> "incr", val |-> 1, at |-> 0, keep |-> FALSE])
    /\ UNCHANGED now

\* DEL logs itself when there was an entry, expired or not.
Del ==
    /\ "del" \in Ops /\ entry # None
    /\ entry' = None
    /\ Logged([op |-> "del", val |-> 0, at |-> 0, keep |-> FALSE])
    /\ UNCHANGED now

\* EXPIRE, PEXPIRE and PEXPIREAT log the absolute deadline; the first two log a
\* DEL when they deleted the key.
ExpireAt(at, relative) ==
    /\ "expire" \in Ops /\ Live(entry, now) # None
    /\ entry' = Expiring(entry, now, at)
    /\ Logged([op |-> IF relative /\ entry' = None THEN "del" ELSE "pexpireat",
               val |-> 0, at |-> at, keep |-> FALSE])
    /\ UNCHANGED now

\* The key is found expired and erased, by a command or by the active walk:
\* nothing is logged.
Expired ==
    /\ entry # None /\ Live(entry, now) = None
    /\ entry' = None
    /\ UNCHANGED <<now, log>>

Tick ==
    /\ now < MaxTime
    /\ now' = now + 1
    /\ UNCHANGED <<entry, log>>

Init == now = 1 /\ entry = None /\ log = <<>>

Next ==
    \/ \E v \in Value, at \in Time, keep \in BOOLEAN, cond \in {"", "nx", "xx"} :
          Set(v, at, keep, cond)
    \/ Incr \/ Del \/ Expired \/ Tick
    \/ \E at \in Time, relative \in BOOLEAN : ExpireAt(at, relative)

Spec == Init /\ [][Next]_vars

-----------------------------------------------------------------------------
(* The server restarts at time t and replays the log. *)

Redo(e, t, r) ==
    CASE r.op = "set" -> Stored(e, t, r.val, r.at, r.keep)
      [] r.op = "incr" -> Added(e, t)
      [] r.op = "del" -> None
      [] r.op = "pexpireat" -> Expiring(e, t, r.at)

\* The entry after the first n records, for each n.
Replayed(t, records) ==
    LET after[n \in 0 .. Len(records)] ==
            IF n = 0 THEN None ELSE Redo(after[n - 1], t, records[n])
    IN  after

Restored(t) == Replayed(t, log)[Len(log)]

TypeOK ==
    /\ now \in Time
    /\ entry \in {None} \cup [val : Nat, at : 0 .. MaxTime + 1]
    /\ log \in Seq([op : {"set", "incr", "del", "pexpireat"}, val : Nat,
                    at : 0 .. MaxTime + 1, keep : BOOLEAN])

\* A restart before any logged deadline restores the entry and its deadline.
\* While only SET without KEEPTTL and DEL were logged, a restart at any time
\* restores what a reader sees one millisecond later: a key that expired is
\* gone, a key that lives has its value and its deadline
\* (docs/TECHNICAL_REPORT.md:287).
RestoredRight ==
    LET early == \A i \in DOMAIN log : log[i].at = 0 \/ log[i].at > now
        plain == \A i \in DOMAIN log : log[i].op \in {"set", "del"} /\ ~log[i].keep
    IN  /\ early => Restored(now) = Live(entry, now)
        /\ plain => Live(Restored(now), now + 1) = Live(entry, now + 1)
=============================================================================
