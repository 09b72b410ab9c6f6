--------------------------------- MODULE Aof ---------------------------------
(***************************************************************************)
(* The append-only file (src/aof.cpp), the write commands that log to it   *)
(* (src/command.cpp), its flusher thread and the life of the server around *)
(* it: shutdown, crash, load and replay (src/server.cpp).                  *)
(*                                                                         *)
(* A command changes the keyspace under the lock of its shard, then logs   *)
(* itself under the mutex of the file, then answers.  The buffer is        *)
(* swapped out under the mutex and written under the mutex, but the mutex  *)
(* is released in between, and another thread may write first.             *)
(*                                                                         *)
(* A file is the sequence of its records; Torn stands for a record cut     *)
(* short.  The file ends, for the OS, at flushed and, on the disk, at      *)
(* synced.  Every call on the file may fail, and the code goes on as if it *)
(* had not.  A value is a number, 0 for an absent key; expiry is the       *)
(* business of module Replay.                                              *)
(***************************************************************************)
EXTENDS Integers, Sequences, FiniteSets, SequencesExt

CONSTANTS
    Loop,        \* the sub loop threads, which execute commands
    Flusher,     \* the flusher thread
    Key,
    Command,     \* the write commands the clients send
    Policies,    \* the values of appendfsync the server may be started with
    Threshold,   \* records that make Append flush the buffer itself
    Torn,        \* a record cut short
    Tears,       \* whether a crash may cut a record short
    MaxFailures, \* bound on the kinds of calls on the file that fail
    MaxCommands, \* bound on the commands executed
    MaxRestarts  \* bound on the times the server starts again

ASSUME AofAssumption ==
    /\ Flusher \notin Loop
    /\ IsFiniteSet(Loop)
    /\ Command # {} /\ Torn \notin [id : Nat, cmd : Command]
    /\ \A c \in Command : /\ c.op \in {"set", "incr", "del", "flushall"}
                           /\ c.key \in Key /\ c.val \in Nat
    /\ Policies \subseteq {"always", "everysec", "no"}
    /\ Threshold \in Nat \ {0}
    /\ Tears \in BOOLEAN /\ MaxFailures \in Nat
    /\ MaxCommands \in Nat /\ MaxRestarts \in Nat

VARIABLES
    policy,   \* policy_, fixed when the server starts
    db,       \* the keyspace
    cleared,  \* history: the keyspace that Shutdown cleared
    buffer,   \* buffer_
    file,     \* the records given to fwrite
    flushed,  \* how many of them fflush gave to the OS
    synced,   \* how many of them fsync gave to the disk
    open,     \* fp_ is not null
    phase,    \* what the server is doing
    todo,     \* loaded records yet to be replayed
    pc,       \* thread -> where it is
    rec,      \* loop -> the record of its command
    local,    \* thread -> the buffer it swapped out
    issued,   \* commands executed so far, which number them
    acked,    \* history: the commands answered, those in the file at a load
    dropped,  \* history: commands whose record went nowhere since the load,
              \* because FLUSHALL had closed the file or could not truncate it
    erased,   \* history: commands logged before a FLUSHALL truncated the file
    logged,   \* history: the records appended since the file was loaded
    failed,   \* history: calls on the file that have failed since the load:
              \* "write", "truncate", "open"; "sync" is there for good, since a
              \* failed fsync may have dropped what a later one reports as synced
    crossed,  \* history: "batches" if two threads have held batches at the same
              \* time or FLUSHALL closed the file over one; since the load,
              \* "commands" if two loops have executed commands at the same
              \* time, "late" if one did after the keyspace had been cleared
    restarts

server == <<phase, todo, restarts>>
threads == <<pc, rec, local>>
medium == <<file, flushed, synced, open>>
history == <<acked, dropped, erased, logged, failed, crossed>>
vars == <<policy, db, cleared, buffer, medium, server, threads, issued, history>>

Thread == Loop \cup {Flusher}
Record == [id : Nat, cmd : Command]

NoRecord == [id |-> 0, cmd |-> CHOOSE c \in Command : TRUE]
Empty == [k \in Key |-> 0]

\* What a command does to the keyspace.
Apply(d, c) ==
    CASE c.op = "set" -> [d EXCEPT ![c.key] = c.val]
      [] c.op = "incr" -> [d EXCEPT ![c.key] = @ + 1]
      [] c.op = "del" -> [d EXCEPT ![c.key] = 0]
      [] c.op = "flushall" -> Empty

\* DEL logs itself only when it deleted something.
Logs(d, c) == c.op = "del" => d[c.key] # 0

\* LoadAll stops at the first record that is not whole.
Readable(f) ==
    LET torn == {i \in DOMAIN f : f[i] = Torn}
    IN  IF torn = {} THEN f
        ELSE SubSeq(f, 1, (CHOOSE i \in torn : \A j \in torn : i <= j) - 1)

\* The keyspaces as the records of s are executed, from d on.
Executed(d, s) ==
    LET after[n \in 0 .. Len(s)] ==
            IF n = 0 THEN d ELSE Apply(after[n - 1], s[n].cmd)
    IN  after

Redone(d, s) == Executed(d, s)[Len(s)]

Replayed(f) == Redone(Empty, Readable(f))

Ids(s) == {s[i].id : i \in {j \in DOMAIN s : s[j] # Torn}}
Durable == Ids(SubSeq(file, 1, synced))

-----------------------------------------------------------------------------
(* The calls on the file. *)

\* fwrite, fflush, fsync, fopen and fclose may fail.
FileErrors == Cardinality(failed) < MaxFailures

\* As s is given to the file a call fails: what fflush has not given to the OS
\* may be lost or torn, and nothing more is known to be on the disk.
Lose(s) ==
    /\ \E n \in flushed .. Len(s), tear \in {<<>>, <<Torn>>} :
          /\ tear # <<>> => n < Len(s)
          /\ file' = SubSeq(s, 1, n) \o tear
    /\ flushed' = Len(file') /\ UNCHANGED synced

\* fwrite, fflush and fsync by a thread that is alone with the file.
WriteOut(s) ==
    \/ /\ file' = s /\ flushed' = Len(s)
       /\ synced' = IF "sync" \in failed THEN synced ELSE Len(s)
       /\ UNCHANGED failed
    \/ FileErrors /\ Lose(s) /\ failed' = failed \cup {"write", "sync"}

\* fflush and fsync, whose results nobody looks at.
SyncFile ==
    \/ /\ flushed' = IF open THEN Len(file) ELSE flushed
       /\ synced' = IF open /\ "sync" \notin failed THEN Len(file) ELSE synced
       /\ UNCHANGED failed
    \/ /\ FileErrors /\ open
       /\ flushed' \in flushed .. Len(file) /\ UNCHANGED synced
       /\ failed' = failed \cup {"sync"}

-----------------------------------------------------------------------------
(* A loop thread executes a command. *)

Serving == phase \in {"up", "stopping", "draining"}

\* The command has a record to log, or it is done.
Begin(l, c, logs, how) ==
    /\ pc[l] = "idle" /\ issued < MaxCommands
    /\ issued' = issued + 1
    /\ IF logs
       THEN /\ pc' = [pc EXCEPT ![l] = "log"]
            /\ rec' = [rec EXCEPT ![l] = [id |-> issued + 1, cmd |-> c]]
       ELSE UNCHANGED <<pc, rec>>
    /\ crossed' = crossed \cup how
                   \cup IF \A m \in Loop : pc[m] = "idle" THEN {} ELSE {"commands"}
    /\ UNCHANGED <<policy, cleared, buffer, medium, server, local, acked, dropped, erased, logged,
                   failed>>

\* The keyspace changes, under the lock of the shard.
Exec(l, c) ==
    /\ phase = "up"
    /\ db' = Apply(db, c)
    /\ Begin(l, c, Logs(db, c), {})

\* Shutdown has destroyed the shards under the loops, which still run.  If the
\* process survives the access (it may Crash), a DEL finds its key or does not.
ExecLate(l, c) ==
    /\ phase \in {"stopping", "draining"}
    /\ \E logs \in {TRUE, c.op # "del"} : Begin(l, c, logs, {"late"})
    /\ UNCHANGED db

Answer(l) ==
    /\ pc' = [pc EXCEPT ![l] = "idle"]
    /\ rec' = [rec EXCEPT ![l] = NoRecord]
    /\ acked' = acked \cup {rec[l].id}

\* Mutant: under everysec and no, Append leaves the buffer to the flusher.
LogOnly(l) ==
    /\ pc[l] = "log" /\ rec[l].cmd.op # "flushall"
    /\ IF open
       THEN /\ buffer' = Append(buffer, rec[l])
            /\ logged' = Append(logged, rec[l])
            /\ IF policy = "always"
               THEN pc' = [pc EXCEPT ![l] = "swap"] /\ UNCHANGED <<rec, acked>>
               ELSE Answer(l)
            /\ UNCHANGED dropped
       ELSE Answer(l) /\ dropped' = dropped \cup {rec[l].id} /\ UNCHANGED <<buffer, logged>>
    /\ UNCHANGED <<db, cleared, medium, server, local, policy, issued, erased, failed, crossed>>

\* Append: the record goes to the buffer, or nowhere while the file is closed.
Log(l) ==
    /\ pc[l] = "log" /\ rec[l].cmd.op # "flushall"
    /\ IF open
       THEN /\ buffer' = Append(buffer, rec[l])
            /\ logged' = Append(logged, rec[l])
            /\ IF policy = "always" \/ Len(buffer) + 1 >= Threshold
               THEN pc' = [pc EXCEPT ![l] = "swap"] /\ UNCHANGED <<rec, acked>>
               ELSE Answer(l)
            /\ UNCHANGED dropped
       ELSE Answer(l) /\ dropped' = dropped \cup {rec[l].id} /\ UNCHANGED <<buffer, logged>>
    /\ UNCHANGED <<db, cleared, medium, server, local, policy, issued, erased, failed, crossed>>

\* Some thread holds a batch.
Held == \E t \in Thread : local[t] # <<>>

\* Mutant: SyncNow copies the buffer.
SwapCopies(l) ==
    /\ pc[l] = "swap"
    /\ local' = [local EXCEPT ![l] = buffer]
    /\ pc' = [pc EXCEPT ![l] = "write"]
    /\ UNCHANGED <<db, cleared, buffer, medium, server, rec, policy, issued, history>>

\* SyncNow takes the buffer away.
Swap(l) ==
    /\ pc[l] = "swap"
    /\ IF open
       THEN /\ local' = [local EXCEPT ![l] = buffer]
            /\ buffer' = <<>>
            /\ crossed' = IF Held THEN crossed \cup {"batches"} ELSE crossed
            /\ pc' = [pc EXCEPT ![l] = "write"]
            /\ UNCHANGED <<rec, acked>>
       ELSE Answer(l) /\ UNCHANGED <<buffer, local, crossed>>
    /\ UNCHANGED <<db, cleared, medium, server, policy, issued, dropped, erased, logged, failed>>

\* Mutant: SyncNow returns when it found nothing to write.
WriteOrReturn(t) ==
    /\ pc[t] = "write"
    /\ file' = IF open THEN file \o local[t] ELSE file
    /\ local' = [local EXCEPT ![t] = <<>>]
    /\ IF t # Flusher /\ local[t] = <<>>
       THEN Answer(t)
       ELSE pc' = [pc EXCEPT ![t] = "sync"] /\ UNCHANGED <<rec, acked>>
    /\ UNCHANGED <<db, cleared, buffer, flushed, synced, open, server, policy, issued, dropped,
                   erased, logged, failed, crossed>>

\* WriteToFile, of SyncNow and of FlushIfNeeded: nothing is written while the
\* file is closed, and FlushIfNeeded then gives up.
Write(t) ==
    /\ pc[t] = "write"
    /\ file' = IF open THEN file \o local[t] ELSE file
    /\ local' = [local EXCEPT ![t] = <<>>]
    /\ pc' = [pc EXCEPT ![t] = IF open \/ t # Flusher THEN "sync" ELSE "idle"]
    /\ UNCHANGED <<db, cleared, buffer, flushed, synced, open, server, rec, policy, issued, history>>

\* fwrite fails midway: what it did write stays.
WriteError(t) ==
    /\ FileErrors /\ pc[t] = "write" /\ open /\ local[t] # <<>>
    /\ \E n \in 0 .. Len(local[t]) - 1, tear \in {<<>>, <<Torn>>} :
          file' = file \o SubSeq(local[t], 1, n) \o tear
    /\ local' = [local EXCEPT ![t] = <<>>]
    /\ pc' = [pc EXCEPT ![t] = IF t = Flusher THEN "idle" ELSE "sync"]
    /\ failed' = failed \cup {"write"}
    /\ UNCHANGED <<db, cleared, buffer, flushed, synced, open, server, rec, policy, issued, acked,
                   dropped, erased, logged, crossed>>

\* SyncNow ends with an fsync, and the command is answered, synced or not.
Sync(l) ==
    /\ pc[l] = "sync"
    /\ SyncFile
    /\ Answer(l)
    /\ UNCHANGED <<db, cleared, buffer, file, open, server, local, policy, issued, dropped, erased,
                   logged, crossed>>

-----------------------------------------------------------------------------
(* FLUSHALL looks whether the file is open, closes, truncates and reopens it. *)

CheckOpen(l) ==
    /\ pc[l] = "log" /\ rec[l].cmd.op = "flushall"
    /\ IF open
       THEN pc' = [pc EXCEPT ![l] = "close"] /\ UNCHANGED <<rec, acked, dropped>>
       ELSE Answer(l) /\ dropped' = dropped \cup {rec[l].id}
    /\ UNCHANGED <<db, cleared, buffer, medium, server, local, policy, issued, erased, logged, failed,
                   crossed>>

\* Close writes the buffer out, unless another FLUSHALL has closed the file.
CloseFile(l) ==
    /\ pc[l] = "close"
    /\ IF open
       THEN /\ WriteOut(file \o buffer)
            /\ buffer' = <<>>
            /\ open' = FALSE
            /\ crossed' = IF Held THEN crossed \cup {"batches"} ELSE crossed
       ELSE UNCHANGED <<buffer, medium, failed, crossed>>
    /\ pc' = [pc EXCEPT ![l] = "truncate"]
    /\ UNCHANGED <<db, cleared, server, rec, local, policy, issued, acked, dropped, erased, logged>>

\* What fwrite has and fflush has not taken, while the file is open.
Unflushed == IF open THEN SubSeq(file, flushed + 1, Len(file)) ELSE <<>>

\* Mutant: the size of the file is not reset.
TruncateKeepsSize(l) ==
    /\ pc[l] = "truncate"
    /\ file' = <<rec[l]>>
    /\ logged' = <<rec[l]>>
    /\ erased' = erased \cup Ids(logged)
    /\ pc' = [pc EXCEPT ![l] = "open"]
    /\ UNCHANGED <<db, cleared, buffer, flushed, synced, open, server, rec, local, policy, issued,
                   acked, dropped, failed, crossed>>

\* Mutant: the old records stay in the file.
TruncateNot(l) ==
    /\ pc[l] = "truncate"
    /\ logged' = <<rec[l]>>
    /\ erased' = erased \cup Ids(logged)
    /\ pc' = [pc EXCEPT ![l] = "open"]
    /\ UNCHANGED <<db, cleared, buffer, file, flushed, synced, open, server, rec, local, policy,
                   issued, acked, dropped, failed, crossed>>

\* fopen "wb", one record, fclose.  If another FLUSHALL has reopened the file,
\* what is not flushed survives, and a record written meanwhile is overwritten.
Truncate(l) ==
    /\ pc[l] = "truncate"
    /\ \E hole \in IF open THEN {<<>>, <<Torn>>} ELSE {<<>>} :
          /\ file' = <<rec[l]>> \o hole \o Unflushed
          /\ flushed' = 1 + Len(hole)
    /\ synced' = 0
    /\ logged' = <<rec[l]>>
    /\ erased' = erased \cup Ids(logged)
    /\ pc' = [pc EXCEPT ![l] = "open"]
    /\ UNCHANGED <<db, cleared, buffer, open, server, rec, local, policy, issued, acked, dropped,
                   failed, crossed>>

\* fopen fails and the file stays as it is, or the record is not written.
TruncateError(l) ==
    /\ FileErrors /\ pc[l] = "truncate"
    /\ \/ /\ dropped' = dropped \cup {rec[l].id}
          /\ failed' = failed \cup {"truncate"}
          /\ UNCHANGED <<file, flushed, synced, logged, erased>>
       \/ /\ \E torn \in {<<>>, <<Torn>>} :
                file' = torn \o Unflushed /\ flushed' = Len(torn)
          /\ synced' = 0
          /\ logged' = <<rec[l]>>
          /\ erased' = erased \cup Ids(logged)
          /\ failed' = failed \cup {"write"}
          /\ UNCHANGED dropped
    /\ pc' = [pc EXCEPT ![l] = "open"]
    /\ UNCHANGED <<db, cleared, buffer, open, server, rec, local, policy, issued, acked, crossed>>

\* Open closes the file first if another FLUSHALL has opened it.
Reopen(l) ==
    /\ pc[l] = "open"
    /\ open' = TRUE
    /\ flushed' = Len(file)
    /\ Answer(l)
    /\ UNCHANGED <<db, cleared, buffer, file, synced, server, local, policy, issued, dropped, erased,
                   logged, failed, crossed>>

\* fopen fails, or that fclose: the command is answered all the same, and the
\* log may stay closed until the next start.
ReopenError(l) ==
    /\ FileErrors /\ pc[l] = "open"
    /\ open' \in {FALSE, open}
    /\ Lose(file)
    /\ failed' = failed \cup {"write", "sync"} \cup IF open' THEN {} ELSE {"open"}
    /\ Answer(l)
    /\ UNCHANGED <<db, cleared, buffer, server, local, policy, issued, dropped, erased, logged,
                   crossed>>

-----------------------------------------------------------------------------
(* The flusher: FlushIfNeeded every 100 ms. *)

FlushSwap ==
    /\ phase \in {"up", "stopping"} /\ pc[Flusher] = "idle"
    /\ open /\ buffer # <<>>
    /\ local' = [local EXCEPT ![Flusher] = buffer]
    /\ buffer' = <<>>
    /\ crossed' = IF Held THEN crossed \cup {"batches"} ELSE crossed
    /\ pc' = [pc EXCEPT ![Flusher] = "write"]
    /\ UNCHANGED <<db, cleared, medium, server, rec, policy, issued, acked, dropped, erased, logged,
                   failed>>

\* Mutant: the batch is written but not fsynced.
FlushSyncNever ==
    /\ pc[Flusher] = "sync"
    /\ pc' = [pc EXCEPT ![Flusher] = "idle"]
    /\ UNCHANGED <<db, cleared, buffer, medium, server, rec, local, policy, issued, history>>

\* fsync under everysec only; the other policies do not even fflush.
FlushSync ==
    /\ pc[Flusher] = "sync"
    /\ IF policy = "everysec" THEN SyncFile ELSE UNCHANGED <<flushed, synced, failed>>
    /\ pc' = [pc EXCEPT ![Flusher] = "idle"]
    /\ UNCHANGED <<db, cleared, buffer, file, open, server, rec, local, policy, issued, acked, dropped,
                   erased, logged, crossed>>

-----------------------------------------------------------------------------
(* Server::Shutdown, a crash, and Server::Init. *)

\* The store is shut down, which destroys the shards; the flusher is told to
\* stop and joined...
Shutdown ==
    /\ phase = "up"
    /\ phase' = "stopping"
    /\ cleared' = db /\ db' = Empty
    /\ UNCHANGED <<buffer, medium, todo, restarts, threads, policy, issued, history>>

FlusherJoined ==
    /\ phase = "stopping" /\ pc[Flusher] = "idle"
    /\ phase' = "draining"
    /\ UNCHANGED <<db, cleared, buffer, medium, todo, restarts, threads, policy, issued, history>>

\* SyncNow and Close, when nobody else is left.
CloseAtLast ==
    /\ phase' = "stopped"
    /\ IF open THEN WriteOut(file \o buffer) ELSE UNCHANGED <<file, flushed, synced, failed>>
    /\ buffer' = <<>>
    /\ open' = FALSE
    /\ UNCHANGED <<db, cleared, todo, restarts, threads, policy, issued, acked, dropped, erased,
                   logged, crossed>>

\* ... then the loops are, and the file is synced and closed if it is open.
LoopsJoined ==
    /\ phase = "draining"
    /\ \A l \in Loop : pc[l] = "idle"
    /\ CloseAtLast

\* The machine stops: the file keeps what is on the disk and perhaps more.
Crash ==
    /\ phase \notin {"down", "stopped"} /\ restarts < MaxRestarts
    /\ \E n \in synced .. Len(file), tear \in {<<>>, <<Torn>>} :
          /\ tear # <<>> => Tears /\ n < Len(file)
          /\ file' = SubSeq(file, 1, n) \o tear
    /\ flushed' = Len(file') /\ synced' = synced
    /\ phase' = "down" /\ open' = FALSE
    /\ db' = Empty /\ cleared' = Empty /\ buffer' = <<>> /\ todo' = <<>>
    /\ pc' = [t \in Thread |-> "idle"] /\ rec' = [l \in Loop |-> NoRecord]
    /\ local' = [t \in Thread |-> <<>>]
    /\ acked' = acked \cap Ids(file')
    /\ logged' = file'
    /\ UNCHANGED <<policy, issued, restarts, dropped, erased, failed, crossed>>

\* Init opens the file and reads it all.
Load ==
    /\ phase \in {"down", "stopped"} /\ restarts < MaxRestarts
    /\ phase' = "loading" /\ open' = TRUE
    /\ todo' = Readable(file)
    /\ db' = Empty /\ cleared' = Empty
    /\ restarts' = restarts + 1
    /\ acked' = acked \cap Ids(file) /\ dropped' = {} /\ erased' = {}
    /\ logged' = file
    /\ failed' = failed \cap {"sync"} /\ crossed' = crossed \cap {"batches"}
    /\ UNCHANGED <<buffer, file, flushed, synced, threads, policy, issued>>

\* A FLUSHALL that is replayed, and rewrites the file or fails on the way.
Rewrite(r) ==
    /\ buffer' = <<>>
    /\ \/ /\ file' = <<r>> /\ flushed' = 1 /\ synced' = 0
          /\ logged' = <<r>> /\ erased' = erased \cup Ids(logged)
          /\ UNCHANGED <<open, failed>>
       \/ /\ FileErrors
          /\ open' \in BOOLEAN
          /\ \/ Lose(file \o buffer) /\ UNCHANGED <<logged, erased>>
             \/ /\ file' \in {<<r>>, <<>>, <<Torn>>} /\ flushed' = Len(file') /\ synced' = 0
                /\ logged' = <<r>> /\ erased' = erased \cup Ids(logged)
          /\ failed' = failed \cup {"write", "sync", "truncate"} \cup IF open' THEN {} ELSE {"open"}

\* Replay executes the handler of each record, and the handler logs it again:
\* the file has been open since before the load.
ReplayOne ==
    LET r == Head(todo)
        filled == Append(buffer, r)
    IN  /\ phase = "loading" /\ todo # <<>>
        /\ db' = Apply(db, r.cmd)
        /\ todo' = Tail(todo)
        /\ IF ~open \/ ~Logs(db, r.cmd) THEN UNCHANGED <<buffer, medium, logged, erased, failed>>
           ELSE IF r.cmd.op = "flushall" THEN Rewrite(r)
           ELSE /\ logged' = Append(logged, r)
                /\ IF policy = "always" \/ Len(filled) >= Threshold
                   THEN buffer' = <<>> /\ WriteOut(file \o filled)
                   ELSE buffer' = filled /\ UNCHANGED <<file, flushed, synced, failed>>
                /\ UNCHANGED <<open, erased>>
        /\ UNCHANGED <<cleared, phase, restarts, threads, policy, issued, acked, dropped, crossed>>

LoadDone ==
    /\ phase = "loading" /\ todo = <<>>
    /\ phase' = "up"
    /\ UNCHANGED <<db, cleared, buffer, medium, todo, restarts, threads, policy, issued, history>>

-----------------------------------------------------------------------------
Init ==
    /\ policy \in Policies /\ db = Empty /\ cleared = Empty /\ buffer = <<>>
    /\ file = <<>> /\ flushed = 0 /\ synced = 0 /\ open = TRUE
    /\ phase = "up" /\ todo = <<>> /\ restarts = 0
    /\ pc = [t \in Thread |-> "idle"]
    /\ rec = [l \in Loop |-> NoRecord]
    /\ local = [t \in Thread |-> <<>>]
    /\ issued = 0 /\ acked = {} /\ dropped = {} /\ erased = {} /\ logged = <<>>
    /\ failed = {} /\ crossed = {}

Flush == FlushSwap \/ Write(Flusher) \/ WriteError(Flusher) \/ FlushSync

Answering(l) ==
    \/ Log(l) \/ Swap(l) \/ Write(l) \/ WriteError(l) \/ Sync(l)
    \/ CheckOpen(l) \/ CloseFile(l) \/ Truncate(l) \/ TruncateError(l)
    \/ Reopen(l) \/ ReopenError(l)

Next ==
    \/ \E l \in Loop : Answering(l) \/ \E c \in Command : Exec(l, c) \/ ExecLate(l, c)
    \/ Flush
    \/ Shutdown \/ FlusherJoined \/ LoopsJoined
    \/ Crash \/ Load \/ ReplayOne \/ LoadDone

Spec == Init /\ [][Next]_vars

\* The threads are scheduled and finish what they began.
FairSpec ==
    /\ Spec
    /\ WF_vars(Flush)
    /\ \A l \in Loop : WF_vars(Answering(l))

-----------------------------------------------------------------------------
TypeOK ==
    /\ policy \in Policies
    /\ db \in [Key -> Nat] /\ cleared \in [Key -> Nat]
    /\ buffer \in Seq(Record) /\ logged \in Seq(Record \cup {Torn})
    /\ file \in Seq(Record \cup {Torn})
    /\ synced \in 0 .. Len(file) /\ flushed \in synced .. Len(file)
    /\ open \in BOOLEAN
    /\ phase \in {"up", "stopping", "draining", "stopped", "down", "loading"}
    /\ todo \in Seq(Record)
    /\ pc \in [Thread -> {"idle", "log", "swap", "write", "sync", "close", "truncate", "open"}]
    /\ rec \in [Loop -> Record] /\ local \in [Thread -> Seq(Record)]
    /\ issued \in 0 .. MaxCommands /\ acked \subseteq 1 .. MaxCommands
    /\ dropped \subseteq 1 .. MaxCommands /\ erased \subseteq 1 .. MaxCommands
    /\ failed \subseteq {"write", "sync", "truncate", "open"}
    /\ crossed \subseteq {"batches", "commands", "late"}
    /\ restarts \in 0 .. MaxRestarts

\* The buffer is bounded (aof.h:12): it exceeds the threshold by no more records
\* than there are loops about to take it away, whatever the flusher, FLUSHALL
\* and the errors of the file do.  Excepted is a file that two FLUSHALLs at once
\* left closed over a buffer in use.
BufferBounded ==
    "open" \notin failed =>
        Len(buffer) < Threshold + Cardinality({l \in Loop : pc[l] = "swap"})

\* No record is known to be lost, no FLUSHALL rewrote the file and none is
\* rewriting it.
Undisturbed ==
    /\ open /\ failed \subseteq {"sync"}
    /\ \A i \in DOMAIN logged : logged[i] # Torn => logged[i].cmd.op # "flushall"

\* The records in the hands of threads, each by its holder and position.
Batched == UNION {{t} \X DOMAIN local[t] : t \in Thread}

\* No record is lost or written twice between the loops and the flusher, all of
\* which take the buffer away: those logged are written, held by one thread or
\* in the buffer.  While one thread at a time holds a batch they also reach the
\* file in the order they were logged, so that a crash loses a suffix of the log.
LogKept ==
    Undisturbed =>
        /\ Len(logged) = Len(file) + Len(buffer) + Cardinality(Batched)
        /\ Ids(logged) = Ids(file) \cup Ids(buffer) \cup UNION {Ids(local[t]) : t \in Thread}
        /\ "batches" \notin crossed =>
              /\ \A t \in Thread : local[t] # <<>> => file \o local[t] \o buffer = logged
              /\ ~Held => file \o buffer = logged

\* The FLUSHALLs in the file.  Nothing fsyncs their records.
Flushalls ==
    {file[i].id : i \in {j \in DOMAIN file : file[j] # Torn /\ file[j].cmd.op = "flushall"}}

\* An answered write is on the disk: after a clean shutdown under every policy,
\* under always at every moment.  The exceptions, each of which the code does
\* answer: a write that found the file closed by a FLUSHALL, or one that a
\* FLUSHALL erased; any write once a call on the file has failed; under always,
\* a FLUSHALL itself, and every write once two threads have held batches at the
\* same time.  (When another thread takes the record away between Append and
\* SyncNow, SyncNow finds nothing to write, and the command is answered while
\* its record is in that thread's hands.)
AckedDurable ==
    /\ phase = "stopped" /\ failed = {} => acked \subseteq Durable \cup dropped \cup erased
    /\ policy = "always" /\ failed = {} /\ "batches" \notin crossed =>
          acked \subseteq Durable \cup dropped \cup erased \cup Flushalls

\* The keyspace; once Shutdown has cleared it, what it was.
Data == IF phase \in {"stopping", "draining", "stopped"} THEN cleared ELSE db

\* What the server would load is what it holds, restarts and FLUSHALL included,
\* and after a shutdown what it held when the shutdown began: while no two
\* commands overlap and none executes after that, file, batch and buffer replay
\* to the keyspace.  A restart logs every record again, which only an increment
\* does not bear.  Excepted are a file with a tear in it and, until the next
\* start, a failed fwrite, truncation or reopening (a failed fsync is not).
LogMeansDb ==
    /\ phase \in {"up", "stopping", "draining", "stopped"}
    /\ failed \subseteq {"sync"} /\ crossed = {}
    /\ Torn \notin Range(file) /\ \A l \in Loop : pc[l] = "idle"
    /\ restarts = 0 \/ \A c \in Command : c.op # "incr"
    => Replayed(file \o local[Flusher] \o buffer) = Data

\* Under everysec everything answered gets to the disk when the clients pause (at
\* the latest with MaxCommands), but for a write that found the file closed by a
\* FLUSHALL, that a FLUSHALL erased or that is one, and unless a call on the file
\* fails, whose result nobody looks at, the file is torn, or the server is shut
\* down or crashes.
EventuallyDurable ==
    policy = "everysec" =>
        []<>(\/ acked \ dropped \subseteq Durable \cup erased \cup Flushalls
             \/ failed # {} \/ Torn \in Range(file) \/ phase # "up")

\* Replay logs nothing, or the file would hold every command twice
\* (command.cpp:1035).
ReplayLogsNothing ==
    [][phase = "loading" /\ phase' = "loading" => logged' = logged]_vars
=============================================================================
