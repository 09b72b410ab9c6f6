---------------------------------- MODULE KV ----------------------------------
(***************************************************************************)
(* What the store promises (include/rl/store.h): a map from keys to values *)
(* with an optional deadline, and operations on it that take effect at     *)
(* once.  There are no shards, no index, no mutex and no background        *)
(* thread: a key whose deadline has passed may vanish at any moment        *)
(* (Lapse), and an operation called after the deadline finds it gone.      *)
(***************************************************************************)
EXTENDS Integers

CONSTANTS Key, Thread, MaxTime, IntMin, IntMax, Deltas, Strings,
          ZSetEmpty, ZSetFull, NoEntry, Miss, Ok, Err, Removed, NoReply

VARIABLES
    map,    \* key -> entry or NoEntry
    clock,
    now,    \* thread -> the time its operation was called, or 0
    todo,   \* thread -> keys its FLUSHALL has yet to clear
    last    \* the reply of the operation the last step performed

vars == <<map, clock, now, todo, last>>

Ints == IntMin..IntMax
ZSets == {ZSetEmpty, ZSetFull}
Expired(e, at) == e # NoEntry /\ e.exp # 0 /\ e.exp <= at
Reply(op, res) == [op |-> op, res |-> res]
Silent == last' = Reply("none", NoReply)
CanRun(t) == now[t] = 0 /\ todo[t] = {}

\* A call of t finds k as it was, or gone if its deadline passed before the call.
Found(t, k) == IF Expired(map[k], now[t]) THEN NoEntry ELSE map[k]

Answer(t, k, e, op, res) ==
    /\ now[t] # 0
    /\ map' = [map EXCEPT ![k] = e]
    /\ now' = [now EXCEPT ![t] = 0]
    /\ last' = Reply(op, res)
    /\ UNCHANGED <<clock, todo>>

\* Reads return what they find and change nothing else.
Read(t, k) ==
    LET e == Found(t, k)
    IN  \/ Answer(t, k, e, "Get", IF e = NoEntry THEN Miss ELSE e.val)
        \/ Answer(t, k, e, "TtlMs", IF e = NoEntry THEN -2
                                    ELSE IF e.exp = 0 THEN -1 ELSE e.exp - now[t])
        \/ Answer(t, k, e, "GetZSet", IF e = NoEntry THEN Miss
                                      ELSE IF e.val \in ZSets THEN Ok ELSE Err)

\* SET writes unless NX finds the key or XX does not.
Write(t, k) ==
    LET e == Found(t, k)
    IN  \/ Answer(t, k, e, "Set", Miss)
        \/ \E v \in Ints \cup Strings, x \in 0..MaxTime :
              Answer(t, k, [val |-> v, exp |-> x], "Set", Ok)

\* A deadline is set, removed, or has passed already and deletes the key.
Retime(t, k) ==
    LET e == Found(t, k)
    IN  IF e = NoEntry
        THEN Answer(t, k, e, "ExpireAt", Miss)
        ELSE \/ Answer(t, k, NoEntry, "ExpireAt", Removed)
             \/ \E x \in 0..MaxTime :
                   (x = 0 \/ x > now[t])
                   /\ Answer(t, k, [e EXCEPT !.exp = x], "ExpireAt", Ok)

\* INCRBY adds exactly, keeps the deadline, and fails rather than wrap.
Add(t, k) ==
    LET e == Found(t, k)
    IN  \/ e # NoEntry /\ Answer(t, k, e, "IncrBy", Err)
        \/ \E d \in Deltas :
              LET old == IF e = NoEntry THEN [val |-> 0, exp |-> 0] ELSE e
              IN  /\ old.val \in Ints /\ old.val + d \in Ints
                  /\ Answer(t, k, [old EXCEPT !.val = @ + d], "IncrBy", old.val + d)

\* A sorted set is created when the key is absent.
MakeZSet(t, k) ==
    LET e == Found(t, k)
    IN  IF e = NoEntry
        THEN Answer(t, k, [val |-> ZSetEmpty, exp |-> 0], "GetOrCreateZSet", Ok)
        ELSE Answer(t, k, e, "GetOrCreateZSet", IF e.val \in ZSets THEN Ok ELSE Err)

\* Deletions look at the map only.
Delete(t, k) ==
    /\ CanRun(t)
    /\ \/ map[k] = NoEntry /\ map' = map /\ last' = Reply("Del", 0)
       \/ /\ map[k] # NoEntry
          /\ map' = [map EXCEPT ![k] = NoEntry]
          /\ \/ last' = Reply("Del", 1)
             \/ map[k].val = ZSetEmpty /\ last' = Reply("RemoveIfEmptyZSet", Ok)
    /\ UNCHANGED <<clock, now, todo>>

ChangeMembers(t, k) ==
    /\ CanRun(t)
    /\ map[k] # NoEntry /\ map[k].val \in ZSets
    /\ \E z \in ZSets : map' = [map EXCEPT ![k].val = z]
    /\ Silent
    /\ UNCHANGED <<clock, now, todo>>

\* FLUSHALL clears every key, some at a time.
StartFlush(t) ==
    /\ CanRun(t)
    /\ todo' = [todo EXCEPT ![t] = Key]
    /\ Silent
    /\ UNCHANGED <<map, clock, now>>

Clear(t) ==
    \E K \in SUBSET todo[t] :
        /\ map' = [k \in Key |-> IF k \in K THEN NoEntry ELSE map[k]]
        /\ todo' = [todo EXCEPT ![t] = @ \ K]
        /\ last' = Reply("FlushAll", Ok)
        /\ UNCHANGED <<clock, now>>

\* A key whose deadline has passed vanishes.
Lapse(k) ==
    /\ Expired(map[k], clock)
    /\ map' = [map EXCEPT ![k] = NoEntry]
    /\ Silent
    /\ UNCHANGED <<clock, now, todo>>

Call(t) ==
    /\ CanRun(t)
    /\ now' = [now EXCEPT ![t] = clock]
    /\ Silent
    /\ UNCHANGED <<map, clock, todo>>

Tick == clock < MaxTime /\ clock' = clock + 1 /\ Silent /\ UNCHANGED <<map, now, todo>>

\* A step of the store that changes nothing a caller can see.
Internal == Silent /\ UNCHANGED <<map, clock, now, todo>>

Init ==
    /\ map = [k \in Key |-> NoEntry]
    /\ clock = 1
    /\ now = [t \in Thread |-> 0]
    /\ todo = [t \in Thread |-> {}]
    /\ last = Reply("none", NoReply)

Next ==
    \/ Tick \/ Internal
    \/ \E t \in Thread : Call(t) \/ StartFlush(t) \/ Clear(t)
    \/ \E k \in Key : Lapse(k)
    \/ \E t \in Thread, k \in Key :
          \/ Read(t, k) \/ Write(t, k) \/ Retime(t, k) \/ Add(t, k)
          \/ MakeZSet(t, k) \/ Delete(t, k) \/ ChangeMembers(t, k)

Spec == Init /\ [][Next]_vars
===============================================================================
