------------------------------ MODULE Commands ------------------------------
(***************************************************************************)
(* The write commands of command.cpp on one keyspace and one append-only   *)
(* file, run by several loops.  SET, DEL and INCRBY change a key under the *)
(* lock of its shard; the sorted set commands fetch the set under that     *)
(* lock and change it after the lock is released.  Each command appends to *)
(* the file later still, under the lock of the file.  Time, the TTL index  *)
(* and the way of a record to the disk are in Store, Replay and Aof.       *)
(***************************************************************************)
EXTENDS Integers, Sequences, FiniteSets, SequencesExt

CONSTANTS Loop, Key, Member,
          Command,      \* the commands clients send
          MaxCommands,  \* bound: so many commands
          MinInt, MaxInt    \* INT64_MIN and INT64_MAX

\* arg is the sequence of members, val the value, increment or score, for ZADD
\* a score for each member.  INCR, DECR and DECRBY are INCRBY, by a negative
\* number if need be.
Request == [op : {"set", "del", "incrby", "zadd", "zincrby", "zrem"},
            key : Key, arg : Seq(Member), val : Seq(Int)]

\* What ParseInt64 takes.
Integer64 == MinInt .. MaxInt

\* A score of 0 stands for text that is not a number, and so does a value that is
\* no Integer64; an increment of a score is not 0, and the members of a command
\* differ.
ASSUME CommandAssumption ==
    /\ MaxCommands \in Nat /\ MinInt \in Int /\ MaxInt \in Int /\ 0 \in Integer64
    /\ IsFiniteSet(Loop)
    /\ Command \subseteq Request
    /\ \A c \in Command :
          /\ c.op \in {"set", "incrby", "zincrby"} => Len(c.val) = 1
          /\ c.op = "incrby" => c.val[1] \in Integer64
          /\ c.op \in {"zadd", "zincrby"} => c.val \in Seq(Nat)
          /\ c.op \in {"zadd", "zincrby"} => c.arg # <<>> /\ Len(c.val) = Len(c.arg)
          /\ c.op = "zincrby" => c.val[1] # 0
          /\ \A i, j \in DOMAIN c.arg : c.arg[i] = c.arg[j] => i = j

(* db maps a key to [kind, val, set]; set is the shared_ptr, a position in
   sets, whose elements map a member to its score, or 0.  run describes what
   each loop is doing. *)
VARIABLES db, sets, log, run,
          count,        \* commands so far
          crossed,      \* history: keys two conflicting commands overlapped on
          raced,        \* history: sets two loops were inside at once
          spoilt        \* history: sets created by a ZADD that then failed

history == <<crossed, raced, spoilt>>
vars == <<db, sets, log, run, count, history>>

None == [kind |-> "none", val |-> 0, set |-> 0]
Number(n) == [kind |-> "string", val |-> n, set |-> 0]
ZSetAt(i) == [kind |-> "zset", val |-> 0, set |-> i]

NoMember == [m \in Member |-> 0]
Idle == [at |-> "idle"]

Members(c) == ToSet(c.arg)
IsBad(c) == c.op = "zadd" /\ 0 \in ToSet(c.val)

\* The records of a command: ZADD has one for each pair.
Records(c) ==
    IF c.op = "zadd"
    THEN [i \in DOMAIN c.arg |-> [c EXCEPT !.arg = <<c.arg[i]>>, !.val = <<c.val[i]>>]]
    ELSE <<c>>

\* The content of a set after a change.
Changed(z, c) ==
    [m \in Member |->
        IF m \notin Members(c) THEN z[m]
        ELSE CASE c.op = "zadd" -> c.val[CHOOSE i \in DOMAIN c.arg : c.arg[i] = m]
               [] c.op = "zincrby" -> z[m] + c.val[1]
               [] c.op = "zrem" -> 0]

-----------------------------------------------------------------------------
(* History: which commands may overlap on a key. *)

\* Both leave the same keyspace and, in effect, the same log, whatever the order
\* of their steps and of their records.  Left out: SET against SET, DEL and
\* INCRBY, INCRBY against DECRBY (in the other order one may go past the limit
\* and fail), DEL against what creates, ZREM against what adds or may create in
\* its place (the set leaves the keyspace in between), two scores for one member.
Commute(c, d) ==
    LET ops == {c.op, d.op}
        apart == Members(c) \cap Members(d) = {}
    IN  \/ ops \in {{"zincrby"}, {"del"}, {"zrem"}, {"del", "zrem"}}
        \/ ops = {"incrby"} /\ (c.val[1] < 0 <=> d.val[1] < 0)
        \/ ops \in {{x, y} : x \in {"set", "incrby"}, y \in {"zadd", "zincrby"}}
        \/ ops = {"set", "zrem"}
        \/ apart /\ ops \in {{"zadd"}, {"zadd", "zincrby"}}

Running(l) == run[l].at # "idle"

\* A command begins: it overlaps with what the other loops are at.
Begun(l, c) ==
    /\ run[l] = Idle
    /\ count < MaxCommands /\ count' = count + 1
    /\ crossed' = IF \E k \in Loop : /\ Running(k) /\ run[k].cmd.key = c.key
                                     /\ ~Commute(run[k].cmd, c)
                  THEN crossed \cup {c.key} ELSE crossed

-----------------------------------------------------------------------------
(* The keyspace, one step under the lock of the shard. *)

\* The records are still to be appended.
Logging(l, c, records) ==
    run' = [run EXCEPT ![l] = [at |-> "log", cmd |-> c, todo |-> records]]

Set(l, c) ==
    /\ c.op = "set" /\ Begun(l, c)
    /\ db' = [db EXCEPT ![c.key] = Number(c.val[1])]
    /\ Logging(l, c, Records(c))
    /\ UNCHANGED <<sets, log, raced, spoilt>>

\* DEL of nothing logs nothing.
Del(l, c) ==
    /\ c.op = "del" /\ Begun(l, c)
    /\ db' = [db EXCEPT ![c.key] = None]
    /\ IF db[c.key] = None THEN UNCHANGED run ELSE Logging(l, c, Records(c))
    /\ UNCHANGED <<sets, log, raced, spoilt>>

\* Whether a value can be counted on by n: none counts from 0.
CanAdd(kind, val, n) ==
    kind # "zset" /\ val \in Integer64 /\ val + n \in Integer64

\* Mutant: INCRBY is logged as the SET of its result.
IncrByLogsValue(l, c) ==
    /\ c.op = "incrby" /\ Begun(l, c)
    /\ IF CanAdd(db[c.key].kind, db[c.key].val, c.val[1])
       THEN /\ db' = [db EXCEPT ![c.key] = Number(@.val + c.val[1])]
            /\ Logging(l, c, <<[c EXCEPT !.op = "set", !.val = <<db'[c.key].val>>]>>)
       ELSE UNCHANGED <<db, run>>
    /\ UNCHANGED <<sets, log, raced, spoilt>>

\* INCRBY answers with an error, and logs nothing, when there is a sorted set or
\* other text, or the sum is too large.
IncrBy(l, c) ==
    /\ c.op = "incrby" /\ Begun(l, c)
    /\ IF CanAdd(db[c.key].kind, db[c.key].val, c.val[1])
       THEN /\ db' = [db EXCEPT ![c.key] = Number(@.val + c.val[1])]
            /\ Logging(l, c, Records(c))
       ELSE UNCHANGED <<db, run>>
    /\ UNCHANGED <<sets, log, raced, spoilt>>

\* AcquireZSet: a reference to the set of the key, if it has one.
Holding(l, c, i) ==
    run' = [run EXCEPT ![l] = [at |-> "held", cmd |-> c, set |-> i]]

\* ZADD and ZINCRBY create the set; ZADD does so before it looks at its scores.
AcquireOrCreate(l, c) ==
    LET e == db[c.key]
        new == Len(sets) + 1
    IN  /\ c.op \in {"zadd", "zincrby"} /\ Begun(l, c)
        /\ IF e.kind = "none"
           THEN /\ sets' = Append(sets, NoMember)
                /\ db' = [db EXCEPT ![c.key] = ZSetAt(new)]
                /\ spoilt' = IF IsBad(c) THEN spoilt \cup {new} ELSE spoilt
                /\ IF IsBad(c) THEN UNCHANGED run ELSE Holding(l, c, new)
           ELSE /\ IF e.kind # "zset" \/ IsBad(c) THEN UNCHANGED run ELSE Holding(l, c, e.set)
                /\ UNCHANGED <<db, sets, spoilt>>
        /\ UNCHANGED <<log, raced>>

\* ZREM has nothing to do without a set.
Acquire(l, c) ==
    /\ c.op = "zrem" /\ Begun(l, c)
    /\ IF db[c.key].kind = "zset" THEN Holding(l, c, db[c.key].set) ELSE UNCHANGED run
    /\ UNCHANGED <<db, sets, log, raced, spoilt>>

-----------------------------------------------------------------------------
(* The set, without any lock. *)

Inside(i) == {l \in Loop : run[l].at = "inside" /\ run[l].set = i}

\* ZSet::Add, IncrBy or Remove begins.  If another loop is inside as well, the
\* behaviour is undefined.
Enter(l) ==
    /\ run[l].at = "held"
    /\ run' = [run EXCEPT ![l].at = "inside"]
    /\ raced' = IF Inside(run[l].set) # {} THEN raced \cup {run[l].set} ELSE raced
    /\ UNCHANGED <<db, sets, log, count, crossed, spoilt>>

\* ... and ends: with any content after a race.
Leave(l) ==
    LET c == run[l].cmd
        i == run[l].set
        removes == c.op # "zrem" \/ \E m \in Members(c) : sets[i][m] # 0
        records == IF removes THEN Records(c) ELSE <<>>
    IN  /\ run[l].at = "inside"
        /\ \/ sets' = [sets EXCEPT ![i] = Changed(@, c)]
           \/ i \in raced /\ sets' \in {[sets EXCEPT ![i] = sets[i]], [sets EXCEPT ![i] = NoMember]}
        /\ run' = [run EXCEPT ![l] = [at |-> IF c.op = "zrem" THEN "removed" ELSE "log",
                                      cmd |-> c, todo |-> records]]
        /\ UNCHANGED <<db, log, count, history>>

\* Mutant: ZREM logs in any case.
DoneLogging(todo, c) == [at |-> "log", cmd |-> c, todo |-> todo]

\* What is left to log, if anything.
Done(todo, c) == IF todo = <<>> THEN Idle ELSE [at |-> "log", cmd |-> c, todo |-> todo]

\* Mutant: the key stays.
RemoveIfEmptyNot(l) ==
    /\ run[l].at = "removed"
    /\ run' = [run EXCEPT ![l] = Done(run[l].todo, run[l].cmd)]
    /\ UNCHANGED <<db, sets, log, count, history>>

\* The key goes if it now holds an empty set, be it another one.
RemoveIfEmptyZSet(l) ==
    LET k == run[l].cmd.key
        empty == db[k].kind = "zset" /\ sets[db[k].set] = NoMember
    IN  /\ run[l].at = "removed"
        /\ db' = IF empty THEN [db EXCEPT ![k] = None] ELSE db
        /\ run' = [run EXCEPT ![l] = Done(run[l].todo, run[l].cmd)]
        /\ UNCHANGED <<sets, log, count, history>>

-----------------------------------------------------------------------------
\* Aof::Append, a record at a time.
Log(l) ==
    /\ run[l].at = "log"
    /\ log' = Append(log, Head(run[l].todo))
    /\ run' = [run EXCEPT ![l] = Done(Tail(@.todo), @.cmd)]
    /\ UNCHANGED <<db, sets, count, history>>

Init ==
    /\ db = [k \in Key |-> None] /\ sets = <<>> /\ log = <<>>
    /\ run = [l \in Loop |-> Idle] /\ count = 0
    /\ crossed = {} /\ raced = {} /\ spoilt = {}

\* Dispatcher::Execute looks the handler up.
Execute(l, c) ==
    \/ Set(l, c) \/ Del(l, c) \/ IncrBy(l, c)
    \/ AcquireOrCreate(l, c) \/ Acquire(l, c)

Next ==
    \E l \in Loop :
        \/ \E c \in Command : Execute(l, c)
        \/ Enter(l) \/ Leave(l) \/ RemoveIfEmptyZSet(l) \/ Log(l)

Spec == Init /\ [][Next]_vars

-----------------------------------------------------------------------------
(* What a client can see of a key, and what a restart makes of the log.  An
   empty set is as good as none. *)

Seen(kind, val, set) ==
    IF kind = "zset" /\ set = NoMember THEN <<"none", 0, NoMember>> ELSE <<kind, val, set>>

Absent == Seen("none", 0, NoMember)

Content(k) ==
    Seen(db[k].kind, db[k].val, IF db[k].kind = "zset" THEN sets[db[k].set] ELSE NoMember)

\* One record, replayed alone.
Redo(e, c) ==
    CASE c.op = "set" -> Seen("string", c.val[1], NoMember)
      [] c.op = "del" -> Absent
      [] c.op = "incrby" ->
            IF CanAdd(e[1], e[2], c.val[1]) THEN Seen("string", e[2] + c.val[1], NoMember) ELSE e
      [] c.op \in {"zadd", "zincrby", "zrem"} ->
            IF e[1] = "string" THEN e ELSE Seen("zset", 0, Changed(e[3], c))

\* Key k after each number of the records.
Executed(k, records) ==
    LET after[n \in 0 .. Len(records)] ==
            IF n = 0 THEN Absent
            ELSE IF records[n].key = k THEN Redo(after[n - 1], records[n])
            ELSE after[n - 1]
    IN  after

Replayed(k) == Executed(k, log)[Len(log)]

Quiet(k) == \A l \in Loop : Running(l) => run[l].cmd.key # k

Doing ==
    [at : {"idle"}] \cup [at : {"held", "inside"}, cmd : Command, set : DOMAIN sets]
        \cup [at : {"removed"}, cmd : Command, todo : Seq(Request)]
        \cup [at : {"log"}, cmd : Command, todo : Seq(Request) \ {<<>>}]

TypeOK ==
    /\ db \in [Key -> [kind : {"none", "string", "zset"}, val : Int, set : 0 .. Len(sets)]]
    /\ \A k \in Key : db[k].kind = "zset" <=> db[k].set # 0
    /\ sets \in Seq([Member -> Nat])
    /\ log \in Seq(Request)
    /\ run \in [Loop -> Doing]
    /\ count \in 0 .. MaxCommands
    /\ crossed \subseteq Key
    /\ raced \subseteq DOMAIN sets /\ spoilt \subseteq DOMAIN sets

\* Once its commands are answered, a key is what the log says, although two
\* loops change it and log it in steps of their own, so that an answered write
\* is neither lost at once nor at the next start, and an increment that is logged
\* is never refused when it is replayed: provided that the commands that
\* overlapped on the key commute (an INCRBY and a DECRBY do not, since either may
\* go past the limit in the other order), and that no two loops were inside its
\* set at once.
KeyLogRight ==
    \A k \in Key :
        Quiet(k) /\ k \notin crossed /\ raced = {} => Content(k) = Replayed(k)

\* No key is left with an empty set, which DBSIZE and KEYS would show
\* (command.cpp:934, store.cpp:297), however ZADD, ZREM, DEL and SET of several
\* loops overlap: except by the ZADD that created the set and then refused its
\* score, or by a race.
NoEmptySet ==
    \A k \in Key :
        Quiet(k) /\ db[k].kind = "zset" /\ sets[db[k].set] = NoMember
            => db[k].set \in raced \cup spoilt
=============================================================================
