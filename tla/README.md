# redis-lite in TLA+

Models, model checking and proofs for redis-lite, the multi-threaded in-memory
key-value server under `redis-lite/`. Paths below are relative to that
directory; `store.cpp:313` is line 313 of `src/store.cpp`, headers are in
`include/rl/`. Run a check with `tlc -config store_all.cfg MCStore`, a proof with
`tlapm StoreProofs.tla`.

## 1. The system

```
 clients ──TCP──> Listener (main loop) ──round robin──> sub loop 1..n
                                                         │ Connection: bytes -> RespParser -> args
     main loop: accept, timers (idle check)              │ Dispatcher::Execute(args) -> reply
     control thread: Server::Run, Shutdown               ├──> Store (shards, one mutex each) ──> ZSet
     background thread "rl-bg": ExpireCycle ─────────────┤
     flusher thread "rl-aof": FlushIfNeeded ─────────────┴──> Aof (one mutex, one file)
```

| Part | State | Operations | Threads that touch it |
|---|---|---|---|
| Store (`store.cpp`) | per shard: map, `ttl_keys`, `ttl_scan_cursor`, mutex | Get, Set, Del, ExpireAt, IncrBy, GetZSet..., FlushAll, ExpireCycle | all sub loops, background |
| Sorted set (`zset.cpp`, `skip_list.cpp`) | dictionary, skip list with spans | Add, IncrBy, Remove, Clear; Rank, RangeByRank, RangeByScore | the sub loops, outside the shard lock |
| Append-only file (`aof.cpp`) | `buffer_`, `fp_`, the file | Append, FlushIfNeeded, SyncNow, Open, Close, LoadAll | sub loops, flusher, control |
| Commands (`command.cpp`) | none of their own | one handler per command: keyspace, then log, then reply | sub loops; start-up replay |
| Event loop (`event_loop.cpp`) | `running_`, `pending_tasks_`, callbacks, timers, eventfd | QueueWork, Stop, Register..., the loop | its thread; any thread posts |
| Connection (`connection.cpp`, `resp.cpp`) | parser buffer, `output_`, registered events, flags | HandleEvent, HandleRead, HandleWrite, Close | its loop; Close from anywhere |
| Connection manager (`connection_manager.cpp`) | map descriptor -> connection | CreateConnection, Remove, CheckTimeouts, CloseAll | sub loops, main loop, control |
| Server (`server.cpp`), listener | the parts and their lifetimes | Init, Start, Run, Shutdown | control |
| Poller, platform, config, log, stats, main | — | wrappers of system calls, parsing, output | — |

Interaction is by direct calls under three kinds of mutex (shard, file, manager;
never nested), by tasks posted to a loop and woken through an eventfd, by
`shared_ptr` references to connections and sorted sets, and through the file
across restarts.

What is hard here, and what would make each part right:

- **Store** — a hand-kept index of keys with deadlines, a sampling sweep that
  swaps slots under its own cursor, clocks read before the lock. Right when it
  behaves as a map with deadlines, and expired keys go eventually and never early.
- **Commands** — the keyspace changes under one lock, a sorted set under none, the
  log under a third. Right when the log replays to what the clients see, and no
  key is left with an empty set.
- **Event loop** — an unlocked look at the queue, a wake-up drained between two
  looks, timers that set themselves again. Right when no task is lost, doubled or
  overtaken, every due timer rings, and Stop gets through.
- **Aof** — batches outside the mutex, errors, crashes, FLUSHALL under the feet
  of the flusher, replay into an open file. Right when nothing logged is lost, an
  answer keeps the promise of its policy, and what is loaded is what was.
- **Connection** — edge-triggered reads in pieces, replies that do not fit,
  half-close. Right when every request gets its answer, in order.
- **Connections** — reference counts dropped in several threads, descriptors
  reused, one edge for many clients, shutdown racing everything. Right when nobody
  touches another's socket, every client is accepted, every connection is closed,
  and the process survives.
- **Sorted set** — two indexes and spans repaired by arithmetic on every level.
  Right when ranks and ranges are what the dictionary alone says.

The full list of hazards, each at its line with the properties for it, is in
`PROJECT.json`.

## 2. Modules

| Module | Models | Checked by |
|---|---|---|
| `KV` | what the store promises: a map with optional deadlines, atomic operations, keys that may vanish once expired | refined by `Store` |
| `Store` | `store.cpp` | `MCStore`: `store_all`, `store_threads`, `store_sweep`; `StoreProofs` |
| `Commands` | the write commands of `command.cpp`, step by step between three locks | `MCCommands`: `cmd_all`; `CommandsProofs` |
| `EventLoop` | the task queue, eventfd, timers and Stop of `event_loop.cpp` | `MCEventLoop`: `loop_all`; `EventLoopProofs` |
| `Aof` | `aof.cpp`, the logging side of `command.cpp`, flusher, shutdown, crash, load, replay | `MCAof`: `aof_all`, `aof_replay`; `AofProofs` |
| `Replay` | deadlines and values across a restart: `command.cpp`, `store.cpp` | `MCReplay`: `replay_all`; `ReplayProofs` |
| `Session` | one connection: `connection.cpp`, the parser of `resp.cpp`, epoll | `MCSession`: `session_all`; `SessionProofs` |
| `Connections` | accept, lifetimes, descriptors and shutdown: `listener.cpp`, `connection_manager.cpp`, `server.cpp` | `MCConnections`: `conn_all`, `conn_reuse`; `ConnectionsProofs` |
| `ZSet` | `zset.cpp`, `skip_list.cpp`, `NormalizeRange` | `MCZSet`: `zset_all`; `ZSetProofs` |

The `MC*` modules hold only the values of constants. Definitions named in the
`mutants` of `PROJECT.json` (comment "Mutant:") are plausible bugs of the
definition that follows them; no specification uses them, each is there to
show that a property notices.

### Store and KV

An operation is two steps: `Begin(t)` reads the clock, as the code does before
it takes the lock (`store.cpp:313`), and the operation itself, atomic under the
shard mutex, uses that possibly old time. FLUSHALL is one step per shard
(`FlushShard`). The background thread takes a cycle apart: it wakes and reads the
clock, enters a shard, and looks at one slot per step; the walk (`bg.pc = "scan"`)
holds the mutex, so operations on that shard wait meanwhile. `ttl_keys` is the
code's vector with swap-and-pop, `ttl_scan_cursor` counts from 0. Values are
integers in a small range with overflow checks, one string, and an empty or
non-empty sorted set. `SetRaw`, called by tests only, may leave stale slots in the
index; `RawSlots = 0` turns it off. `last` records the reply of the step, which lets
the refinement of `KV` compare replies as well as states. The two counters of the
code are omitted: nothing reads them.

`ImplementsKV` is the refinement `Store => KV` with the map of shards taken as
one map and the shards not yet flushed as the keys `KV`'s FLUSHALL still has to
clear. `KV` has no index, shard, lock or sweep, so `ImplementsKV` says these are
invisible, stale clocks included.

### Commands

What `Store` and `Aof` leave out is what happens between their locks. SET, DEL and
INCRBY are two steps: the keyspace, then a record. The sorted set commands fetch
the set under the lock of the shard (`AcquireOrCreate`, `Acquire`), change it with no
lock held (`Enter`, `Leave`), look whether it is empty (`RemoveIfEmptyZSet`, after
ZREM), and then log, ZADD one record per pair. A `shared_ptr` to a set is its
position in `sets`: a loop goes on with its set after the key has lost it.

INCR, DECR, INCRBY and DECRBY are one action, by a number of either sign; it fails on
a sorted set, on text that is no integer and past the limits, as `Store::IncrBy` does,
and logs nothing then. A value outside `MinInt .. MaxInt` stands for such text. The same
test (`CanAdd`) is what the replay of the record meets.

Three history variables mark what the code does not promise, so that the
properties can claim the rest: `crossed` — two commands that do not commute
overlapped on a key (`Commute` lists exactly which may); `raced` — two loops were
inside one set at once, after which `Leave` may leave anything; `spoilt` — a ZADD
created a set and then refused its score.

### EventLoop

One action per step of `Start` between two points where another thread can be
seen: the test of `running_`, the poller, the timers, the unlocked look at the queue,
the swap, each task, the dispatch that drains the eventfd, and the second
`RunPendingTasks`. `QueueWork` is push (under the mutex), then notify; a task's
own `QueueWork` runs its child inline while `IsRunning()`. `Timeouts = FALSE`
takes the 50 ms timeout of the poller away, so that liveness cannot hide
behind it.

Timers: `deadline` and `older` are the heap, by deadline and then by age; `Ring` takes
the first that is due at the time the round began, runs it, and sets a periodic
one again (`NextDeadline` skips the intervals missed); a timer in `Again` sets itself
with `RunAfter(0)` from its own callback. A round rings at most `PerRound` timers, 256
in the code. `SetTimer` may come at any moment, as `Server::Init` sets timers from the
control thread; it does not wake the loop.

### Aof and Replay

A write command is `Exec` (keyspace), `Log` (Append under the mutex), perhaps
`Swap`, `Write`, `Sync` (SyncNow, which releases the mutex twice), and the
answer. FLUSHALL is `CheckOpen`, `CloseFile`, `Truncate`, `Reopen`, and another loop's
FLUSHALL may come between any two of them: the second truncation then hits an open
file, whose unflushed records land behind a hole. The flusher is `FlushSwap`,
`Write`, `FlushSync`. The policy is chosen when the server starts. The file is a
sequence of records, of which the first `flushed` are with the OS and the first
`synced` on the disk; a crash keeps any prefix from `synced` on and may tear the
next record. `Load` reads up to the first tear, and `ReplayOne` logs every record
again, since the file is already open (`server.cpp:63`).

Every call on the file may fail, and the code looks at no result but fwrite's: after a
failed fwrite part of a batch stays (`WriteError`), after a failed fflush or fsync the
thread goes on as if synced (`SyncFile`), a FLUSHALL may not truncate or lose its
record (`TruncateError`), may leave the log closed (`ReopenError`), and a close may lose
or tear what was buffered (`Lose`). `Shutdown` clears the keyspace, as `Store::Shutdown`
does (`store.cpp:163`), and keeps the cleared one in `cleared` for the properties; the
loops still run, and a command after that (`ExecLate`) is logged or not and changes
nothing.

History: `failed` — the calls that failed; `dropped` — commands that found the file
closed by a FLUSHALL; `erased` — commands logged before a FLUSHALL truncated; `crossed` —
two threads held batches at once, or FLUSHALL closed the file over one (`"batches"`),
two loops executed at once (`"commands"`), or one after the keyspace was cleared
(`"late"`).

`Replay` keeps one key and a clock, and asks what the log would restore at every
later time. Commands on other keys commute with these; the file is assumed whole.

### Session and Connections

`Session` reads a stream of tokens (half a request, an inline line, an empty
array, a blank line, a malformed header) in pieces of any size. `edge` is epoll's
edge: set by arrivals, by room in the send buffer and by a `Modify`, cleared when
the loop picks it up. The client can send, read, shut down, or reset at any
time, and `Close()` may be posted at any time.

`Connections` starts where the kernel queues a client: `backlog`, and one `edge` for
however many came. The accept loop of the listener ends at EAGAIN, or early
(`starved`): when descriptors run out and one client is refused with the reserve
(`AcceptVictim`), or when accept fails otherwise, there is no reserve, or the second
accept fails, and nobody is (`AcceptFails`). `AcceptDrops` is a client whose socket
cannot be made non-blocking. From there references are counted: the map's, queued
tasks', each thread's. The thread that drops the last one runs the destructor,
which aborts the process if it is the wrong thread. `MarkClosed` is three steps
(unregister and mark, close the descriptor, tell the manager), between which the
kernel may hand the number to the next accept; `reused` records it. `env`, chosen once,
is the circumstances of a behaviour: clients, descriptors, loops, and whether
clients are slow, registration and accept may fail, the idle check runs, and how the server is
shut down. `prompt` is the hope of CloseAll's 50 ms: that they suffice.

### ZSet

A member is its own node, a number that stands for the string it is ordered
like. `Search` is the descent all operations share, `Walk` its inner loop; what they
look for is a function of a place, a node and its rank. `Inserted` and `Deleted` are
`InsertNew` and `Delete` span by span; a new node may get any height, whatever
`NextLevel` draws. `While` and `Above` are the loops of `ZSet::RangeByScore` along
level 0. Scores are integers: rounding is out of the model. `Sorted`, `Position` and
`Present` are the dictionary's view, by which the reads are judged.

## 3. Runs

Every run is exhaustive within its constants.

| Run | Instance | Shows |
|---|---|---|
| `store_all` | 2 keys in one shard, 1 thread, sweep budget 1, 2 instants, integers -1..1; 97k states | types; index exact; refinement of `KV` with all value types and the sweep interleaved; expired keys go once commands stop |
| `store_threads` | 2 threads, 2 shards; 105k states | the same refinement with stale clocks and FLUSHALL shard by shard |
| `store_sweep` | 3 keys in one shard, sweep budget 4, `SetRaw` up to 3 slots; 1.3M states | the index covers all deadlines even with `SetRaw`; a walk with budget for every slot misses at most as many expired keys as it dropped slots |
| `cmd_all` | 2 loops, 1 key, 2 members, integers of two bits (-2..1), 11 commands of which 5 run; 3.3M states | the log replays to what the key holds, increments at both limits included; no key keeps an empty set |
| `loop_all` | 2 callers, a task that posts another, a periodic timer and one that repeats at once, 2 timers a round, 2 ticks, Stop and failures, no timeout; 160k states | FIFO, no lost wake-up, no burst, posted tasks run, due timers ring, Stop terminates |
| `aof_all` | 2 loops, flusher, 3 policies, SET and overlapping FLUSHALLs, threshold 2, 3 commands, one failing call on the file of any kind, shutdown under running loops, torn crash, 1 restart; 3.0M states | buffer bound, nothing lost or doubled, answered means durable where the policy says so, what is loaded is what was, everysec gets there |
| `aof_replay` | 1 loop, INCR and DEL, 1 restart | a violation: see section 6 |
| `replay_all` | 1 key, 5 instants, logs of 3 commands; 62k states | what a replay restores, before and after deadlines |
| `session_all` | 5 pipelines of up to 6 tokens, room for 1 reply, limits 2 and 3; 30k states | order, EPOLLOUT interest, half-close, every request answered once the parser is past the blank lines in front of it |
| `conn_all` | four servers: one that runs with 2 loops (`Running`), one with 3 clients for 1 descriptor (`Crowded`), one shut down in good order (`Orderly`), one shut down at any moment with slow clients (`Hasty`), registrations and accepts failing in all; 358k states | nobody touches another's socket, the process survives, all is closed, closed connections leave the map (in all but `Hasty`), no client is forgotten in the backlog by a listener that reached EAGAIN |
| `conn_reuse` | 3 clients, 2 loops, 2 descriptors (`Lasting`) | a violation: see section 6 |
| `zset_all` | 4 members, 3 scores, 3 levels; 20k states, every list shape reachable | indexes agree, spans right, reads right at every boundary |

Why the bounds suffice: the hazards of the store need two slots in an index
(swap-and-pop, wrap, a cursor past the end) and a clock that passes a deadline
between `Begin` and the operation, hence two keys and two instants. Sweep
budget 1 with two slots makes the cursor matter between cycles, budget 4 lets a walk
see every slot. Commands cross in pairs; five of them on one key are enough for a
set to be created, emptied, removed and created again under the hands of a loop
that still holds the first one, and two members for a ZREM to empty a set or not. With
integers of two bits a key gets from a limit to overlapping increments in five. In
the loop the races are between one push and one look; two callers and a task that
posts put pushes in the same batch, in the next and inline; two timers a round with
one that is always due is the smallest case in which another could starve. In `Aof`
two loops and the flusher are all the parties that can cross, threshold 2
makes a loop flush by itself, and a call that fails once stays marked until the next
start, or for good if it was a sync, so that a second failure adds nothing the properties claim about. A connection is thrown out by the next owner of its
number: two clients and one descriptor do. Four nodes on three levels contain
every case of the span arithmetic: predecessor on the level or header, successor
or tail, level new, in use above the node, or emptied. Symmetry is used where no
liveness is checked and nothing distinguishes the values. Deadlock is checked
except where the system may stop (`CHECK_DEADLOCK FALSE`: shut down, crashed for
good, clients gone, bounded logs and commands used up).

### Fairness

- `Store!FairSpec`: weak fairness of the background thread, which runs in a loop with
  a sleep (`store.cpp:647`). Nothing is assumed of clients; `ReclaimedWhenQuiet`
  speaks of runs in which they stop, because a churn of DEL and SET can keep the
  cursor from ever wrapping.
- `EventLoop!FairSpec`: the loop thread is scheduled, which includes its timers; a
  caller that pushed goes on to notify; Stop goes on to wake. Nobody has to set
  a timer or post a task, and the clock need not move.
- `Aof!FairSpec`: the flusher and a command under way proceed. Clients need not.
- `Session!FairSpec`: the loop handles its events; the client goes on reading what
  has arrived, without which no server can answer.
- `Connections!FairSpec`: threads finish what they began (weak); a loop takes tasks
  from its queue again and again however many events it has (strong, because events
  may disable the step in between; `event_loop.cpp:94` and `:111` look at the queue in
  every iteration).

## 4. Proofs

Proved by TLAPS for every value of the constants that meets the module's named
assumption; in particular for any number of keys, threads, loops, clients,
members and commands. Every safety invariant of a passing run is proved, and so
is the refinement.

- `StoreProofs` — `StoreTypeCorrect`, `StoreIndexCovers`, `StoreIndexExact`. The inductive
  invariant is `TypeOK /\ IndexCovers /\ IndexExact`: covering alone is not kept by a
  removal, unless the index has no duplicates. `Range(ttl_keys)` is followed
  through swap-and-pop, first-match removal and append by lemmas on sequences
  (`SwapPopKeepsTheRest`, `RemoveTtlKeyRemovesOne`, `AddTtlKeyAddsOne`), then every operation
  reduces to one lemma, `WriteKeepsIndex`. `StoreSweepMissesFew` follows the walk: the
  slots it has still to see are a window of the index, and a swap takes at most one
  key out of it while the count of dropped slots grows by one.
  `StoreImplementsKV` is the refinement, for `RawSlots = 0`. One lemma per
  kind of operation says which action of `KV` it is; the walk's erasure is a `Lapse`
  because its clock reading is of the past (`WalkLate`, added to the invariant above),
  INCRBY adds exactly because the overflow test leaves no other sum in range, and a
  shard flushed pays the keys FLUSHALL owed.
- `CommandsProofs` — `CommandsTypeCorrect`, `CommandsNoEmptySet`. `NoEmptySet` is not inductive:
  `Attended` says why it holds, that an empty set in the keyspace has a loop that will
  add to it or look whether to remove it, and `Owned`, that a set belongs to one key,
  so that this loop looks at the right one. `CommandsKeyLogRight` rests on `KeyInv`, which
  says at every moment, for a key nobody crossed, by what the log is behind (`Settled`):
  a DEL or a SET still owed decides alone, INCRBY owed by several loops add up, and
  member by member a set differs by the ZADD, ZINCRBY and ZREM owed. Increments that
  overlap all go one way, so that the sum of some of them lies between the log's value
  and the keyspace's: `KeyInv` keeps every such partial sum within the limits
  (`Within`), and a logged increment is never refused when it is replayed. Only commuting
  commands are at work on one key (`Compatible`), and what a loop has left to log is the
  end of what its command logs (`Placed`). A sum over the loops is kept as the
  cardinality of a set.
- `EventLoopProofs` — `LoopTypeCorrect`, `LoopFifo`, `LoopNoLostWakeup`, `LoopNoBurst`. `NoLostWakeup`
  is strengthened to `WakeupInv`: from the second `RunPendingTasks` of an iteration to the
  poller, a non-empty queue has a wake-up set or about to be. It holds after the first
  look only because the second comes after the drain of the eventfd. `BatchInv` keeps a
  batch from being replaced before it has run. `TimersInv` says that a periodic timer
  that rang is next due after the round.
- `AofProofs` — `AofTypeCorrect`, `AofBufferBounded`, `AofAckedDurable`. The inductive
  invariant is `AofInductive`: `Numbered`, a command under way has a number of its own and
  no answer; `Phased`, what the phases imply; `Shut`, while the file is closed a FLUSHALL
  is at work on it or could not reopen it; `Marked`, only FLUSHALL writes its record;
  `Kept`, what was logged is in the file, the buffer or a batch while no write,
  truncation or reopening has failed; `HotInv`, under always, while one thread at a
  time holds a batch and every fsync succeeds: what is not written, or written and not
  synced, is not answered either, or is a FLUSHALL's record; `Fresh`, no record has the
  number of a command that is yet to log itself; and `Accounted`, every answer is
  accounted for: logged, dropped or erased. `BufferBounded` needs `Shut`, for SyncNow
  leaves the buffer alone when the file is closed. `AofLogKept` rests on `LogInv`: the
  file, the batches and the buffer count the log record for record (`Counted`), and in
  order as long as one thread at a time holds a batch (`Ordered`). `AofLogMeansDb` rests
  on `DbInv`: without crossing commands the file, the one batch and the buffer in a row
  replay to the keyspace, or to what it was when a shutdown cleared it, but for a command
  that has changed it and not yet logged itself (`Meant`); while the server loads, each
  key is as the file has it or will be once the rest is redone (`Loaded`).
- `ReplayProofs` — `ReplayTypeCorrect`, `ReplayRestoredRight`. What a restart gives is a
  recursion along the log; one more record is one more step of it. `EarlyInv`: a restart
  before the first logged deadline gives the entry as it is, and the entry's own
  deadline was logged. `PlainInv`: with plain SET and DEL a restart at any time shows what
  a reader would see a millisecond later.
- `SessionProofs` — `SessionTypeCorrect`, `SessionWriteInterest`: `WriteInv` says between which
  points the interest and the output may disagree, only inside HandleWrite.
  `SessionInOrder`: answered is what the stream owed up to the parser's cursor, and
  what is answered plus what is still owed is, for every number of tokens, what the
  stream earns (`OwedInv`). `SessionHalfClose` adds `DrainInv`: when the FIN has been seen
  and its input parsed nothing is owed, and a socket is closed with no output left.
- `ConnectionsProofs` — `ConnectionsTypeCorrect`, `ConnectionsOwnSocket`. A connection owns its
  descriptor from the accept to `CloseFd` (`Placed`); a callback is that of a live
  connection with this number and loop (`CalledBack`); a client waits once and is given
  to a loop once (`Waiting`, `Given`), so that no connection is created twice; a loop about
  to register or mark a connection holds it (`Working`), so that nobody destroys it
  between the steps. Early reuse of a descriptor is part of what is proved about: it
  misleads the map, never a callback. `ConnectionsSurvives` and `ConnectionsAllClosed`
  need more (`CloseInv`): every open connection is referred to (`Referenced`); in fair
  weather it is anchored in the map, in its own loop, or in a task posted or still to be
  posted, and another thread holds it only while such a Close is due (`Kept`), so
  that no other thread drops the last reference; a loop's Remove finds its own
  connection in the map (`Unmixed`); and the shutdown empties the map, then the
  queues, then joins (`Phases`, `Calm`).
- `ZSetProofs` — `ZSetTypeCorrect`, `ZSetIndexesAgree`, `ZSetSpansRight`, `ZSetReadsRight`. The
  invariant `ZInv`: there is a ranking of the nodes, from the header's 0 to the virtual
  tail's length + 1, that follows score and name, and with which every link leads to
  the next node of its level and every span is a difference. A search stops on every
  level around one rank (`SearchCut`); an insertion or deletion there shifts the ranks
  behind it, and the new links and spans are right for the shifted ranking
  (`InsertedSound`, `DeletedSound`). What the reads answer are segments of the order
  between two ranks, and between two ranks there are as many members as the ranks
  are apart (`Between`).

The library's induction theorems take an operator as a parameter, which the provers
cannot instantiate. Recursive functions along a log, a stream or a list are reasoned
about by a least counterexample instead: the set of naturals at which a claim fails
has a least member (`LeastNat`), and the step before it refutes it.

Only model-checked: liveness, which needs ENABLED. These are `Store!ReclaimedWhenQuiet`,
`EventLoop!PostedTasksRun`, `TimersRing` and `StopReachesLoop`, `Aof!EventuallyDurable`,
`Session!Answered`, `Connections!Welcomed` and `Forgotten`.

## 5. Not modelled

- `Server::Init` beyond the load: bind, listen, configuration; the limit on connections.
- The bytes: RESP encoding, number parsing and formatting, the format of records.
  With them go the corners of arithmetic on times and scores: `NowMs() + ttl` and
  `EXAT * 1000` (`command.cpp:311`), NaN, rounding.
- KEYS, DBSIZE, INFO, CONFIG and the command table: they change no state. Statistics
  are relaxed counters that INFO alone reads; logging and configuration are I/O.
- The Windows backend of the poller, which calls `select()`; the platform wrappers are
  modelled by how their callers use them.
- Undefined behaviour beyond interleavings of atomic steps: a timer heap torn by
  `RunEvery` from the control thread (`event_loop.cpp:213`), fields CheckTimeouts reads,
  `loop_thread_id_`, `Listener::fd_`. The races on a sorted set are in `Commands`, with "any
  content" for the outcome.
- The inside of a connection in `Connections` is one bit, output left or not; `Session`
  has the rest. `SkipList::Insert`, which only tests call, and `MemoryUsage`.

## 6. Where the code and its words part

Found violated by a run:

- `conn_reuse`: `MarkClosed` closes the descriptor (`connection.cpp:301`) before the manager
  removes the connection by that number. Another loop may have got the number in
  between; `Remove` then throws out the new connection. It no longer times out,
  CloseAll misses it, and if the map held its last reference, the destructor runs in
  the wrong thread and aborts the process. `Survives` therefore speaks of behaviours
  in which no descriptor was reused early; `OwnSocket` holds always: no callback is
  misdirected.
- `aof_replay`: `Replay` runs the handlers while the file is open, and each logs its
  command again, which `command.cpp:1035` says must not happen. The file doubles at every
  start, and INCRBY records count twice on the start after the next. `LogMeansDb`
  claims nothing for INCR after a restart; for SET, DEL and FLUSHALL doubling is harmless.

Met while modelling; the models contain the behaviour, and the properties are
worded so as not to claim what does not hold:

- Under `always`, the flusher or another loop can take a record between Append and
  SyncNow, which then finds nothing to write; the write is answered before it is on
  the disk (`aof.cpp:200`, against `aof.h:31`). `AckedDurable` is about one batch at a time.
- A tear stays in the file, records follow it, and the next load stops there
  (`aof.cpp:304`). The same with half a batch after a failed write.
- FLUSHALL while another thread holds a batch: the batch is dropped or lands behind
  the FLUSHALL record (`command.cpp:444`). A write executed after the FLUSHALL cleared the
  keyspace and logged before it has reopened the file is answered and goes nowhere
  (`aof.cpp:150`), or is erased by the truncation; two FLUSHALLs at once can leave a hole
  in the file, at which the next load stops. `AckedDurable` and `EventuallyDurable`
  except exactly such writes, by name (`dropped`, `erased`), and under `always` and
  `everysec` the FLUSHALL's own record, which nothing fsyncs.
- Nobody looks at the results of fflush and fsync (`aof.cpp:191`, `:215`, `:132`): a write
  is answered as if on the disk, against `aof.h:31`. A FLUSHALL that cannot truncate or
  reopen the file only logs an error (`command.cpp:452`, `:457`) and answers OK; after a
  failed reopening the server answers writes that are logged nowhere until it is
  restarted. The durability properties claim nothing once a call has failed.
- Shutdown destroys the keyspace (`server.cpp:169`, `store.cpp:163`) while the loops still
  execute commands, although `server.cpp:166` says the order is producers first: a
  command then reaches shards that are gone, which is undefined, and if the process
  survives it is answered and logged from an empty keyspace. `LogMeansDb` compares the
  file with the keyspace as it was.
- Two loops can log two writes of one key in the opposite order of their effects. Pairs
  that go wrong, and are therefore not in `Commute`: SET with SET, DEL or INCRBY; an
  increment with a decrement (at the limit DECR, INCR may be logged INCR, DECR, and the
  replay refuses the first); DEL with
  INCRBY, ZADD or ZINCRBY; INCRBY with ZREM; ZREM with ZADD or ZINCRBY; ZADD with ZADD
  or ZINCRBY on one member.
- A ZADD can add to a set that ZREM or DEL has just taken out of the keyspace: it is
  answered and logged, and nobody sees it before the next start.
- Sorted sets are changed outside the shard lock (`command.cpp:632`, against `store.h:44`).
- ZADD creates the set before it looks at its scores: a refused score leaves an empty
  set behind (`command.cpp:609`, against the comments at `:611` and `store.cpp:297`).
- ZREVRANGE counts positions from the lowest score (`command.cpp:805`).
- A deadline replayed late deletes the key although a later record had moved it
  (EXPIRE k 1, EXPIRE k 100, restart after 2 s), against
  `docs/TECHNICAL_REPORT.md:287`. Deadlines come from a monotonic clock, which a reboot resets.
- `Del` answers true for an expired key not yet swept (`store.cpp:406`, against `store.h:114`).
- Once its cursor has wrapped, a walk with budget for every slot can still miss an
  expired key: the slot swapped into a hole is one it has seen.
- `Stop()` before `Start()` has set `running_` is forgotten (`event_loop.cpp:119`). Tasks
  posted during the last batch of a loop never run.
- `RunEvery` and `RunAfter` from another thread do not wake the loop (`event_loop.h:10`
  against `:104`): such a timer waits for the poller's timeout.
- The listener leaves its loop at the first accept that fails, for want of descriptors
  or for another reason (`listener.cpp:128`, `:131`); with an edge per arrival, those
  still in the backlog wait for the next client (against `listener.cpp:115`). For want
  of descriptors one client is refused, but none if the reserve could not be opened
  again (`listener.cpp:181` ignores the result) or the second accept fails. `Welcomed`
  excepts the clients left behind in each of these ways (`starved`), and a server that
  is stopped.
- CloseAll's 50 ms are a hope (`connection_manager.cpp:115`): a connection with output left
  at a close keeps only its callback (`connection.cpp:282`) and loses the output at a
  shutdown. `Survives` and `AllClosed` speak of a shutdown that is `prompt` and `quiet`, `Forgotten` of
  servers that are not shut down or whose shutdown is `prompt`.
- With a slow client a queued `Close` leaves the connection open until its output is
  written (`connection.cpp:283-287`) and drops its own reference. If the map's reference
  has gone to the vector of CheckTimeouts (`connection_manager.cpp:136`) or of CloseAll
  (`:107`), that thread may drop the last one, and the destructor aborts in the wrong
  thread, against `connection_manager.cpp:101` and `connection.cpp:267`. `Survives` excepts
  slow clients together with the idle check or a shutdown.
- After a blank inline line `Next` returns false although complete requests follow
  (`resp.cpp:360`, against `resp.h:68`); they wait for more bytes, and a client that
  shuts down its side after them never gets their answers. `Answered` speaks of requests
  when the parser is past the blank lines in front of them (`PastBlanks`): those right
  behind one wait, and are answered when more comes. `HalfClose` excepts streams with a
  blank line before the last token.
- After a protocol error whose answer does not fit the socket, later input is still
  parsed (`connection.cpp:167`).

## 7. Plan

The order was: `Store` with `KV`, the loop's queue, the file, the connection, lifetimes,
the sorted set; then the composition of the write commands with their locks, timers,
the policies of the log, the accept loop; then the proofs for any number of loops
and clients, and the refinement. What would come next:

1. **Models.** Start-up: `Init`, `Start` and `Run`, with the races on `loop_thread_id_` and the
   listener. Two writers inside one skip list, step by step, in place of the "any
   content" of `Commands`. An abstract durable log for `Aof` to refine.
2. **Proofs.** The refinement of such a durable log, step by step. The steps of the
   liveness arguments that need no ENABLED: that each helpful action, once taken,
   brings the loop, the flusher or the walk nearer its goal by a measure that no
   other action raises.
