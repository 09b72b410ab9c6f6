-------------------------------- MODULE Store --------------------------------
(***************************************************************************)
(* The sharded storage engine (src/store.cpp).                             *)
(*                                                                         *)
(* Every key lives in one shard; a shard is a hash map, a mutex, the       *)
(* vector ttl_keys of the keys that carry a deadline and the cursor of the *)
(* active-expiry walk over it.  A command thread first reads the monotonic *)
(* clock (Begin) and only then takes the shard's mutex: the clock may move *)
(* and other threads may run in between, so the operation works with a     *)
(* stale "now".  What is done under the mutex is one action.  The          *)
(* background thread walks the shards one by one and holds a shard's mutex *)
(* over the steps of one walk (bg.pc = "scan").                            *)
(*                                                                         *)
(* The atomics key_count and expires_count are left out: the program       *)
(* writes them and never reads them.                                       *)
(***************************************************************************)
EXTENDS Integers, Sequences, Functions, FiniteSets

CONSTANTS
    Key,          \* keys
    NumShards,    \* number of shards after Init rounds it to a power of two
    ShardOf,      \* the hash: which shard a key belongs to
    Thread,       \* event-loop threads that execute commands
    SampleBudget, \* kSamplePerCycle: index slots one walk may look at
    MaxTime,      \* bound on the clock and on deadlines
    IntMin, IntMax,  \* the range of int64_t, scaled down
    Deltas,       \* arguments of INCRBY
    Strings,      \* string values that do not parse as an integer
    ZSetEmpty, ZSetFull,  \* a sorted set without / with members
    RawSlots,     \* bound: SetRaw runs while an index has fewer slots; 0: never
    NoEntry,      \* a key that is not in the map
    Miss, Ok, Err, Removed, NoReply   \* replies

Shards == 1..NumShards
Times == 1..MaxTime
Ints == IntMin..IntMax
ZSets == {ZSetEmpty, ZSetFull}
Values == Ints \cup Strings \cup ZSets
Entries == [val: Values, exp: 0..MaxTime]
Idle == 0

ASSUME StoreAssumption ==
    /\ NumShards \in Nat \ {0}
    /\ ShardOf \in [Key -> Shards]
    /\ SampleBudget \in Nat \ {0}
    /\ MaxTime \in Nat \ {0}
    /\ IntMin \in Int /\ IntMax \in Int /\ IntMin <= 0 /\ 0 <= IntMax
    /\ Deltas \subseteq Ints
    /\ RawSlots \in Nat
    /\ NoEntry \notin Entries

VARIABLES
    map,              \* the shards' hash maps, as one function of the key
    ttl_keys,         \* shard -> vector of the keys indexed for active expiry
    ttl_scan_cursor,  \* shard -> position of the walk, counted from 0
    clock,            \* NowMs()
    now,              \* thread -> the clock it read before locking, or Idle
    flushing,         \* thread -> next shard its FlushAll clears, 0 if none
    bg,               \* the background thread
    last              \* the reply of the operation the last step performed

vars == <<map, ttl_keys, ttl_scan_cursor, clock, now, flushing, bg, last>>
index == <<ttl_keys, ttl_scan_cursor>>

Reply(op, res) == [op |-> op, res |-> res]
Silent == last' = Reply("none", NoReply)

-----------------------------------------------------------------------------
(* The TTL index. *)

HasExpire(e) == e # NoEntry /\ e.exp # 0
IsExpired(e, at) == HasExpire(e) /\ e.exp <= at

\* v[i] = move(v.back()); v.pop_back()
SwapPop(s, i) ==
    [j \in 1..(Len(s) - 1) |-> IF j = i THEN s[Len(s)] ELSE s[j]]

AddTtlKey(s, k) == Append(s, k)

FirstAt(s, k) ==
    CHOOSE i \in DOMAIN s : s[i] = k /\ \A j \in DOMAIN s : s[j] = k => i <= j

RemoveTtlKey(s, k) ==
    IF k \in Range(s) THEN SwapPop(s, FirstAt(s, k)) ELSE s

\* Mutant: the cursor steps back over the hole.
CursorStepsBack(c, s, k) == IF k \in Range(s) THEN c - 1 ELSE c

\* RemoveTtlKey resets the cursor only when it found the key.
CursorAfterRemove(c, s, k) ==
    IF k \in Range(s) /\ c >= Len(s) - 1 THEN 0 ELSE c

-----------------------------------------------------------------------------
(* Threads and the mutexes. *)

\* No operation can take a shard's mutex while the walk holds it.
Unlocked(s) == ~(bg.pc = "scan" /\ bg.shard = s)

CanRun(t) == now[t] = Idle /\ flushing[t] = 0

\* An operation has been called: it has read the clock, and waits for the mutex.
Begin(t) ==
    /\ CanRun(t)
    /\ now' = [now EXCEPT ![t] = clock]
    /\ Silent
    /\ UNCHANGED <<map, index, clock, flushing, bg>>

Tick ==
    /\ clock < MaxTime
    /\ clock' = clock + 1
    /\ Silent
    /\ UNCHANGED <<map, index, now, flushing, bg>>

\* t holds the mutex of k's shard, after its own reading of the clock.
Locked(t, k) == now[t] # Idle /\ Unlocked(ShardOf[k])

\* Mutant: lazy expiry forgotten.
FoundEvenExpired(t, k) == map[k]

\* What t finds under k: an entry that t's clock calls expired counts as absent.
Found(t, k) == IF IsExpired(map[k], now[t]) THEN NoEntry ELSE map[k]

\* Mutant: every write with a deadline is registered again.
ReindexAddsAgain(k, lapsed, e) ==
    LET s == ShardOf[k]
        dropped == lapsed \/ (HasExpire(map[k]) /\ ~HasExpire(e))
        kept == IF dropped THEN RemoveTtlKey(ttl_keys[s], k) ELSE ttl_keys[s]
    IN  /\ ttl_keys' = [ttl_keys EXCEPT ![s] =
              IF HasExpire(e) THEN AddTtlKey(kept, k) ELSE kept]
        /\ ttl_scan_cursor' = [ttl_scan_cursor EXCEPT ![s] =
              IF dropped THEN CursorAfterRemove(@, ttl_keys[s], k) ELSE @]

\* k's index entry after a write of e; lapsed when the old entry was first
\* erased because it had expired.
Reindex(k, lapsed, e) ==
    LET s == ShardOf[k]
        had == ~lapsed /\ HasExpire(map[k])
        dropped == lapsed \/ (had /\ ~HasExpire(e))
        kept == IF dropped THEN RemoveTtlKey(ttl_keys[s], k) ELSE ttl_keys[s]
    IN  /\ ttl_keys' = [ttl_keys EXCEPT ![s] =
              IF ~had /\ HasExpire(e) THEN AddTtlKey(kept, k) ELSE kept]
        /\ ttl_scan_cursor' = [ttl_scan_cursor EXCEPT ![s] =
              IF dropped THEN CursorAfterRemove(@, ttl_keys[s], k) ELSE @]

\* t's operation ends: k now holds e (NoEntry: erased).
Finish(t, k, e, reply) ==
    /\ map' = [map EXCEPT ![k] = e]
    /\ Reindex(k, IsExpired(map[k], now[t]), e)
    /\ now' = [now EXCEPT ![t] = Idle]
    /\ last' = reply
    /\ UNCHANGED <<clock, flushing, bg>>

-----------------------------------------------------------------------------
(* Operations that read the clock first. *)

Get(t, k) ==
    /\ Locked(t, k)
    /\ Finish(t, k, Found(t, k),
              Reply("Get", IF Found(t, k) = NoEntry THEN Miss ELSE map[k].val))

TtlMs(t, k) ==
    LET e == Found(t, k)
    IN  /\ Locked(t, k)
        /\ Finish(t, k, e, Reply("TtlMs",
              IF e = NoEntry THEN -2
              ELSE IF HasExpire(e) THEN e.exp - now[t] ELSE -1))

\* TypeOf's caller and GetZSet: a miss, a wrong type, or the set.
GetZSet(t, k) ==
    LET e == Found(t, k)
    IN  /\ Locked(t, k)
        /\ Finish(t, k, e, Reply("GetZSet",
              IF e = NoEntry THEN Miss ELSE IF e.val \in ZSets THEN Ok ELSE Err))

GetOrCreateZSet(t, k) ==
    LET e == Found(t, k)
        zset == IF e = NoEntry THEN [val |-> ZSetEmpty, exp |-> 0] ELSE e
    IN  /\ Locked(t, k)
        /\ Finish(t, k, zset,
                  Reply("GetOrCreateZSet", IF zset.val \in ZSets THEN Ok ELSE Err))

\* The deadline a SET leaves: the one given, the old one under KEEPTTL, or none.
NewExpiry(e, exp, keep_ttl) ==
    IF exp # 0 THEN exp ELSE IF keep_ttl /\ e # NoEntry THEN e.exp ELSE 0

Set(t, k, v, nx, xx, keep_ttl, exp) ==
    LET e == Found(t, k)
        refused == (nx /\ e # NoEntry) \/ (xx /\ e = NoEntry)
    IN  /\ Locked(t, k)
        /\ IF refused
           THEN Finish(t, k, e, Reply("Set", Miss))
           ELSE Finish(t, k, [val |-> v, exp |-> NewExpiry(e, exp, keep_ttl)],
                       Reply("Set", Ok))

\* ExpireAt(0) removes the deadline, a deadline that has passed deletes the key.
ExpireAt(t, k, exp) ==
    LET e == Found(t, k)
    IN  /\ Locked(t, k)
        /\ CASE e = NoEntry -> Finish(t, k, e, Reply("ExpireAt", Miss))
             [] e # NoEntry /\ exp # 0 /\ exp <= now[t] ->
                    Finish(t, k, NoEntry, Reply("ExpireAt", Removed))
             [] OTHER -> Finish(t, k, [e EXCEPT !.exp = exp], Reply("ExpireAt", Ok))

Overflows(cur, delta) ==
    \/ delta > 0 /\ cur > IntMax - delta
    \/ delta < 0 /\ cur < IntMin - delta

IncrBy(t, k, delta) ==
    LET e == Found(t, k)
        fails == e # NoEntry /\ (e.val \notin Ints \/ Overflows(e.val, delta))
        sum == IF e = NoEntry THEN delta ELSE e.val + delta
    IN  /\ Locked(t, k)
        /\ IF fails
           THEN Finish(t, k, e, Reply("IncrBy", Err))
           ELSE Finish(t, k,
                       [val |-> sum, exp |-> IF e = NoEntry THEN 0 ELSE e.exp],
                       Reply("IncrBy", sum))

-----------------------------------------------------------------------------
(* Operations that do not look at the clock. *)

AtOnce(t, k) == CanRun(t) /\ Unlocked(ShardOf[k])

Erase(k) == map' = [map EXCEPT ![k] = NoEntry] /\ Reindex(k, FALSE, NoEntry)

Del(t, k) ==
    /\ AtOnce(t, k)
    /\ IF map[k] = NoEntry
       THEN UNCHANGED <<map, index>> /\ last' = Reply("Del", 0)
       ELSE Erase(k) /\ last' = Reply("Del", 1)
    /\ UNCHANGED <<clock, now, flushing, bg>>

RemoveIfEmptyZSet(t, k) ==
    /\ AtOnce(t, k)
    /\ map[k] # NoEntry /\ map[k].val = ZSetEmpty
    /\ Erase(k)
    /\ last' = Reply("RemoveIfEmptyZSet", Ok)
    /\ UNCHANGED <<clock, now, flushing, bg>>

\* A command changes the set it got from the store, outside the shard's mutex.
MutateZSet(t, k) ==
    /\ CanRun(t)
    /\ map[k] # NoEntry /\ map[k].val \in ZSets
    /\ \E z \in ZSets : map' = [map EXCEPT ![k].val = z]
    /\ Silent
    /\ UNCHANGED <<index, clock, now, flushing, bg>>

\* Mutant: SetRaw takes a deadline without registering it.
SetRawUnregistered(t, k, v, exp) ==
    /\ Len(ttl_keys[ShardOf[k]]) < RawSlots
    /\ AtOnce(t, k)
    /\ map' = [map EXCEPT ![k] = [val |-> v, exp |-> exp]]
    /\ Silent
    /\ UNCHANGED <<index, clock, now, flushing, bg>>

\* SetRaw never removes a key from the index and adds it only once.
SetRaw(t, k, v, exp) ==
    LET s == ShardOf[k]
    IN  /\ Len(ttl_keys[s]) < RawSlots
        /\ AtOnce(t, k)
        /\ map' = [map EXCEPT ![k] = [val |-> v, exp |-> exp]]
        /\ ttl_keys' = [ttl_keys EXCEPT ![s] =
              IF exp # 0 /\ k \notin Range(@) THEN AddTtlKey(@, k) ELSE @]
        /\ Silent
        /\ UNCHANGED <<ttl_scan_cursor, clock, now, flushing, bg>>

FlushAll(t) ==
    /\ CanRun(t)
    /\ flushing' = [flushing EXCEPT ![t] = 1]
    /\ Silent
    /\ UNCHANGED <<map, index, clock, now, bg>>

\* Mutant: FLUSHALL stops before the last shard.
FlushShardStopsEarly(t) ==
    LET s == flushing[t]
    IN  /\ s # 0 /\ Unlocked(s)
        /\ map' = [k \in Key |-> IF ShardOf[k] = s THEN NoEntry ELSE map[k]]
        /\ ttl_keys' = [ttl_keys EXCEPT ![s] = <<>>]
        /\ ttl_scan_cursor' = [ttl_scan_cursor EXCEPT ![s] = 0]
        /\ flushing' = [flushing EXCEPT ![t] = IF s + 1 >= NumShards THEN 0 ELSE s + 1]
        /\ last' = Reply("FlushAll", Ok)
        /\ UNCHANGED <<clock, now, bg>>

\* FlushAll takes one shard's mutex at a time.
FlushShard(t) ==
    LET s == flushing[t]
    IN  /\ s # 0 /\ Unlocked(s)
        /\ map' = [k \in Key |-> IF ShardOf[k] = s THEN NoEntry ELSE map[k]]
        /\ ttl_keys' = [ttl_keys EXCEPT ![s] = <<>>]
        /\ ttl_scan_cursor' = [ttl_scan_cursor EXCEPT ![s] = 0]
        /\ flushing' = [flushing EXCEPT ![t] = IF s = NumShards THEN 0 ELSE s + 1]
        /\ last' = Reply("FlushAll", Ok)
        /\ UNCHANGED <<clock, now, bg>>

-----------------------------------------------------------------------------
(* The background thread: StartBackground's loop around ExpireCycle.       *)
(* bg.shard is the shard it is at, bg.i the iteration of the walk and      *)
(* bg.budget its bound.                                                    *)

BgState(pc, at, shard, i, budget) ==
    [pc |-> pc, now |-> at, shard |-> shard, i |-> i, budget |-> budget]

Awake ==
    /\ bg.pc = "sleep"
    /\ bg' = BgState("cycle", clock, 1, 0, 0)
    /\ Silent
    /\ UNCHANGED <<map, index, clock, now, flushing>>

EndCycle ==
    /\ bg.pc = "cycle" /\ bg.shard > NumShards
    /\ bg' = BgState("sleep", 0, 1, 0, 0)
    /\ Silent
    /\ UNCHANGED <<map, index, clock, now, flushing>>

SkipShard ==
    /\ bg.pc = "cycle" /\ bg.shard <= NumShards
    /\ ttl_keys[bg.shard] = <<>>
    /\ bg' = BgState("cycle", bg.now, bg.shard + 1, 0, 0)
    /\ Silent
    /\ UNCHANGED <<map, index, clock, now, flushing>>

LockShard ==
    /\ bg.pc = "cycle" /\ bg.shard <= NumShards
    /\ LET n == Len(ttl_keys[bg.shard])
       IN  /\ n > 0
           /\ bg' = BgState("scan", bg.now, bg.shard, 0,
                             IF n < SampleBudget THEN n ELSE SampleBudget)
    /\ Silent
    /\ UNCHANGED <<map, index, clock, now, flushing>>

\* The slot the walk looks at, counted from 0: the cursor, wrapped.
ScanSlot(s) ==
    IF ttl_scan_cursor[s] >= Len(ttl_keys[s]) THEN 0 ELSE ttl_scan_cursor[s]

Scanning ==
    /\ bg.pc = "scan" /\ bg.i < bg.budget
    /\ ttl_keys[bg.shard] # <<>>
    /\ bg' = BgState("scan", bg.now, bg.shard, bg.i + 1, bg.budget)
    /\ Silent
    /\ UNCHANGED <<clock, now, flushing>>

\* An index slot whose key is not in the map is dropped; the cursor stays.
ScanStale ==
    LET s == bg.shard
        c == ScanSlot(s)
    IN  /\ Scanning
        /\ map[ttl_keys[s][c + 1]] = NoEntry
        /\ ttl_keys' = [ttl_keys EXCEPT ![s] = SwapPop(@, c + 1)]
        /\ ttl_scan_cursor' = [ttl_scan_cursor EXCEPT ![s] = c]
        /\ UNCHANGED map

ScanExpired ==
    LET s == bg.shard
        c == ScanSlot(s)
        k == ttl_keys[s][c + 1]
    IN  /\ Scanning
        /\ IsExpired(map[k], bg.now)
        /\ map' = [map EXCEPT ![k] = NoEntry]
        /\ ttl_keys' = [ttl_keys EXCEPT ![s] = SwapPop(@, c + 1)]
        /\ ttl_scan_cursor' = [ttl_scan_cursor EXCEPT ![s] =
              IF c >= Len(ttl_keys[s]) - 1 THEN 0 ELSE c]

\* Mutant: the cursor does not move past a live key.
ScanKeepStays ==
    LET k == ttl_keys[bg.shard][ScanSlot(bg.shard) + 1]
    IN  /\ Scanning
        /\ map[k] # NoEntry /\ ~IsExpired(map[k], bg.now)
        /\ UNCHANGED <<map, index>>

ScanKeep ==
    LET s == bg.shard
        c == ScanSlot(s)
        k == ttl_keys[s][c + 1]
    IN  /\ Scanning
        /\ map[k] # NoEntry /\ ~IsExpired(map[k], bg.now)
        /\ ttl_scan_cursor' = [ttl_scan_cursor EXCEPT ![s] = c + 1]
        /\ UNCHANGED <<map, ttl_keys>>

\* Mutant: every walk starts again at the first slot.
UnlockShardRewinds ==
    /\ bg.pc = "scan"
    /\ bg.i = bg.budget \/ ttl_keys[bg.shard] = <<>>
    /\ bg' = BgState("cycle", bg.now, bg.shard + 1, 0, 0)
    /\ ttl_scan_cursor' = [ttl_scan_cursor EXCEPT ![bg.shard] = 0]
    /\ Silent
    /\ UNCHANGED <<map, ttl_keys, clock, now, flushing>>

UnlockShard ==
    /\ bg.pc = "scan"
    /\ bg.i = bg.budget \/ ttl_keys[bg.shard] = <<>>
    /\ bg' = BgState("cycle", bg.now, bg.shard + 1, 0, 0)
    /\ Silent
    /\ UNCHANGED <<map, index, clock, now, flushing>>

Background ==
    \/ Awake \/ EndCycle \/ SkipShard \/ LockShard
    \/ ScanStale \/ ScanExpired \/ ScanKeep \/ UnlockShard

-----------------------------------------------------------------------------
Init ==
    /\ map = [k \in Key |-> NoEntry]
    /\ ttl_keys = [s \in Shards |-> <<>>]
    /\ ttl_scan_cursor = [s \in Shards |-> 0]
    /\ clock = 1
    /\ now = [t \in Thread |-> Idle]
    /\ flushing = [t \in Thread |-> 0]
    /\ bg = BgState("sleep", 0, 1, 0, 0)
    /\ last = Reply("none", NoReply)

\* The commands of one key: everything but FLUSHALL.
KeyOperation(t, k) ==
    \/ Get(t, k) \/ TtlMs(t, k) \/ GetZSet(t, k) \/ GetOrCreateZSet(t, k)
    \/ Del(t, k) \/ RemoveIfEmptyZSet(t, k) \/ MutateZSet(t, k)
    \/ \E v \in Ints \cup Strings, exp \in 0..MaxTime :
          \/ SetRaw(t, k, v, exp)
          \/ \E nx, xx, keep_ttl \in BOOLEAN :
                ~(nx /\ xx) /\ Set(t, k, v, nx, xx, keep_ttl, exp)
    \/ \E exp \in 0..MaxTime : ExpireAt(t, k, exp)
    \/ \E delta \in Deltas : IncrBy(t, k, delta)

Command(t) ==
    Begin(t) \/ FlushAll(t) \/ FlushShard(t) \/ \E k \in Key : KeyOperation(t, k)

Next == Tick \/ Background \/ \E t \in Thread : Command(t)

Spec == Init /\ [][Next]_vars

\* The background thread keeps running; nothing is assumed of the commands.
FairSpec == Spec /\ WF_vars(Background)

-----------------------------------------------------------------------------
BackgroundStates ==
    [pc: {"sleep", "cycle", "scan"}, now: 0..MaxTime,
     shard: 1..(NumShards + 1), i: Nat, budget: Nat]

TypeOK ==
    /\ map \in [Key -> Entries \cup {NoEntry}]
    /\ ttl_keys \in [Shards -> Seq(Key)]
    /\ ttl_scan_cursor \in [Shards -> Nat]
    /\ clock \in Times
    /\ now \in [Thread -> Times \cup {Idle}]
    /\ flushing \in [Thread -> 0..NumShards]
    /\ bg \in BackgroundStates
    /\ bg.pc = "scan" => bg.shard \in Shards

Indexed(s) == {k \in Key : ShardOf[k] = s /\ HasExpire(map[k])}

\* Every key that carries a deadline is in its shard's index, so the active
\* walk can reach it (store.cpp:351), whatever SET, EXPIREAT, INCRBY, DEL, lazy
\* expiry, the walk and even SetRaw did to it before.
IndexCovers == \A s \in Shards : Indexed(s) \subseteq Range(ttl_keys[s])

\* Without SetRaw the index holds the keys with a deadline and no others, each
\* exactly once, so that RemoveTtlKey, which stops at the first match, leaves
\* no slot behind and INFO's count of ttl_keys is the number of such keys.
IndexExact ==
    RawSlots = 0 =>
        \A s \in Shards : Range(ttl_keys[s]) = Indexed(s) /\ IsInjective(ttl_keys[s])

\* A walk whose budget covered every slot of its shard leaves at most as many
\* expired keys as it dropped slots, and none when it dropped none.  It may leave
\* some: once the cursor has wrapped, the last slot moved into a hole is one the
\* walk has already seen, and the visit it gets is missing elsewhere.
LeftExpired(s) == {k \in Key : ShardOf[k] = s /\ IsExpired(map[k], bg.now)}
SweepMissesFew ==
    bg.pc = "scan" /\ bg.i = bg.budget /\ bg.budget < SampleBudget =>
        Cardinality(LeftExpired(bg.shard)) <= bg.budget - Len(ttl_keys[bg.shard])

\* The store implements the abstract map with deadlines: index, cursor, mutexes,
\* shards and the background walk are invisible to callers.
StillToFlush(t) ==
    {k \in Key : flushing[t] # 0 /\ flushing[t] <= ShardOf[k]}
Abstract == INSTANCE KV WITH todo <- [t \in Thread |-> StillToFlush(t)]
ImplementsKV == Abstract!Spec

\* A key that has expired is eventually removed by the background walk, even
\* when no command ever touches it again.  While commands run, a churn of DEL
\* and SET can keep the cursor from wrapping.
ExpiredKeysReclaimed ==
    \A k \in Key : IsExpired(map[k], clock) ~> ~IsExpired(map[k], clock)
CommandsStop == <>[][Background \/ Tick]_vars
ReclaimedWhenQuiet == CommandsStop => ExpiredKeysReclaimed
==============================================================================
