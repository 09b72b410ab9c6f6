------------------------------ MODULE AofProofs ------------------------------
(***************************************************************************)
(* For any loops, keys, commands, policies and bounds, and whatever calls  *)
(* on the file fail: the types of Aof, the bound of the buffer, that       *)
(* answered writes are on the disk (after a clean shutdown, and under      *)
(* always at once while one thread at a time holds a batch), that the      *)
(* file, the batches and the buffer are the log, and that the file replays *)
(* to the keyspace while no two commands overlap.                          *)
(***************************************************************************)
EXTENDS Aof, SequenceTheorems, FiniteSetTheorems, WellFoundedInduction, TLAPS

Closing(l) == pc[l] \in {"close", "truncate", "open"}
NoTruncate == \A l \in Loop : pc[l] # "truncate"

\* No FLUSHALL among the records of s.
Plain(s) == \A i \in DOMAIN s : s[i] # Torn => s[i].cmd.op # "flushall"

\* A command under way has a number of its own, and is not answered.
Numbered ==
    /\ acked \subseteq 1 .. issued
    /\ \A l \in Loop : pc[l] # "idle" =>
          /\ rec[l].id \in 1 .. issued /\ rec[l].id \notin acked
          /\ \A m \in Loop : pc[m] # "idle" /\ rec[m].id = rec[l].id => m = l

\* What the phases of the server imply.
Phased ==
    /\ ~Serving => \A t \in Thread : pc[t] = "idle"
    /\ phase = "draining" => pc[Flusher] = "idle"
    /\ phase = "loading" => open \/ "open" \in failed
    /\ phase \in {"down", "stopped"} => ~open /\ buffer = <<>>
    /\ phase = "stopped" /\ failed = {} => synced = Len(file)
    /\ \A t \in Thread : pc[t] # "write" => local[t] = <<>>

\* While the file is closed a FLUSHALL is at work on it, or could not reopen it,
\* and then what is in it counts as not synced.
Shut ==
    /\ "open" \notin failed /\ ~open =>
          buffer = <<>> /\ (Serving => \E l \in Loop : pc[l] \in {"truncate", "open"})
    /\ "open" \in failed => "sync" \in failed
    /\ \A l \in Loop : Closing(l) => rec[l].cmd.op = "flushall"

\* Only FLUSHALL writes its record.
Marked ==
    /\ Plain(buffer) /\ \A t \in Thread : Plain(local[t])
    /\ Plain(logged) => Plain(file)

\* No fwrite, truncation or reopening has failed.
Calm == failed \subseteq {"sync"}

\* Under always, while one thread at a time holds a batch and every fsync succeeds.
Hot == policy = "always" /\ "batches" \notin crossed /\ "sync" \notin failed

\* Nothing logged is lost, but by an error.
Kept ==
    Calm /\ (NoTruncate \/ Hot) =>
        /\ Ids(logged) \subseteq Ids(file) \cup Ids(buffer) \cup UNION {Ids(local[t]) : t \in Thread}
        /\ ~open => Ids(logged) \subseteq Ids(file)

\* What is not yet written is not yet answered, and what is written and not yet
\* on the disk is not yet answered either, or is the record of a FLUSHALL.
Pending ==
    /\ Ids(buffer) \cap acked = {}
    /\ \A t \in Thread : Ids(local[t]) \cap acked = {}
    /\ \A l \in Loop : pc[l] \in {"write", "sync"} =>
          /\ rec[l].id \notin Ids(buffer)
          /\ \A t \in Thread : t # l => rec[l].id \notin Ids(local[t])
    /\ ~open => \A t \in Thread : local[t] = <<>>

Unsynced ==
    \A i \in synced + 1 .. Len(file) :
        file[i] # Torn /\ file[i].cmd.op # "flushall" =>
            file[i].id \notin acked /\ (Serving => open)

HotInv == Hot => Pending /\ Unsynced

TypeInv == TypeOK /\ Numbered /\ Phased /\ Shut
AofInv == TypeInv /\ Marked /\ Kept /\ HotInv

\* BufferBounded needs Shut, for SyncNow leaves the buffer alone when the file is
\* closed, and is inductive otherwise.
AllInv == AofInv /\ BufferBounded

\* The items of a sequence, and of all the sequences that hold records.
Items(s) == {s[i] : i \in DOMAIN s}
Holdings ==
    Items(file) \cup Items(todo) \cup Items(buffer) \cup Items(logged)
        \cup UNION {Items(local[t]) : t \in Thread}

\* A record anywhere has been issued, and is not that of a command which has yet
\* to log itself, unless it is a FLUSHALL.
Fresh ==
    \A x \in Holdings : x # Torn =>
        /\ x.id \in 1 .. issued
        /\ \A l \in Loop : pc[l] = "log" \/ Closing(l) => x.id # rec[l].id \/ x.cmd.op = "flushall"

\* What the log accounts for: it is there, or it was dropped or erased.
Credit == Ids(logged) \cup dropped \cup erased
Accounted ==
    /\ acked \subseteq Credit
    /\ \A l \in Loop : pc[l] \in {"swap", "write", "sync", "open"} => rec[l].id \in Credit

\* The inductive invariant.
AofInductive == AllInv /\ Fresh /\ Accounted

Rec == Record \cup {Torn}
Step == {"idle", "log", "swap", "write", "sync", "close", "truncate", "open"}
Failures == {"write", "sync", "truncate", "open"}

-----------------------------------------------------------------------------
(* Sequences of records. *)

LEMMA CommandShape ==
  /\ \A c \in Command : /\ c.op \in {"set", "incr", "del", "flushall"}
                        /\ c.key \in Key /\ c.val \in Nat
  /\ Torn \notin Record /\ Flusher \notin Loop
  /\ Threshold \in Nat \ {0} /\ MaxCommands \in Nat /\ MaxRestarts \in Nat
  BY AofAssumption DEF AofAssumption, Record

LEMMA RecordShape ==
  ASSUME NEW r \in Record
  PROVE  r # Torn /\ r \in Rec /\ r.id \in Nat /\ r.cmd \in Command
  BY CommandShape DEF Record, Rec

LEMMA NoRecordType == NoRecord \in Record
  BY AofAssumption DEF AofAssumption, NoRecord, Record

LEMMA Whole ==
  ASSUME NEW s \in Seq(Record)
  PROVE  s \in Seq(Rec)
  BY SeqMonotonic DEF Rec

LEMMA EmptyIds == Ids(<<>>) = {} /\ Plain(<<>>) /\ \A S : <<>> \in Seq(S) /\ Len(<<>>) = 0
  BY EmptySeq DEF Ids, Plain

LEMMA IdIn ==
  ASSUME NEW s, NEW x
  PROVE  x \in Ids(s) <=> \E i \in DOMAIN s : s[i] # Torn /\ s[i].id = x
  BY DEF Ids

LEMMA ConcatIds ==
  ASSUME NEW s \in Seq(Rec), NEW t \in Seq(Rec)
  PROVE  /\ s \o t \in Seq(Rec) /\ Len(s \o t) = Len(s) + Len(t)
         /\ Len(s) \in Nat /\ Len(t) \in Nat
         /\ \A i \in 1 .. Len(s) : (s \o t)[i] = s[i]
         /\ \A i \in Len(s) + 1 .. Len(s \o t) :
               i - Len(s) \in DOMAIN t /\ (s \o t)[i] = t[i - Len(s)]
         /\ Ids(s \o t) = Ids(s) \cup Ids(t)
         /\ Plain(s \o t) <=> Plain(s) /\ Plain(t)
  <1> DEFINE u == s \o t
             m == Len(s)
             n == Len(t)
  <1>1. /\ u \in Seq(Rec) /\ m \in Nat /\ n \in Nat /\ Len(u) = m + n
        /\ DOMAIN s = 1 .. m /\ DOMAIN t = 1 .. n /\ DOMAIN u = 1 .. m + n
        /\ \A i \in 1 .. m + n : u[i] = IF i <= m THEN s[i] ELSE t[i - m]
    BY ConcatProperties, LenProperties
  <1> HIDE DEF u, m, n
  <1>2. /\ \A i \in 1 .. m : i \in 1 .. m + n /\ u[i] = s[i]
        /\ \A i \in m + 1 .. m + n : i - m \in 1 .. n /\ u[i] = t[i - m]
        /\ \A i \in 1 .. n : m + i \in 1 .. m + n /\ u[m + i] = t[i]
        /\ \A i \in 1 .. m + n : i \in 1 .. m \/ i \in m + 1 .. m + n
    <2>1. \A i \in 1 .. m : i \in 1 .. m + n /\ u[i] = s[i]
      BY <1>1
    <2>2. \A i \in m + 1 .. m + n : i - m \in 1 .. n /\ u[i] = t[i - m]
      BY <1>1
    <2>3. ASSUME NEW i \in 1 .. n PROVE m + i \in 1 .. m + n /\ u[m + i] = t[i]
      <3>1. m + i \in m + 1 .. m + n /\ m + i - m = i
        BY <1>1
      <3>2. QED
        BY <1>1, <2>2, <3>1
    <2>4. \A i \in 1 .. m + n : i \in 1 .. m \/ i \in m + 1 .. m + n
      BY <1>1
    <2>5. QED
      BY <2>1, <2>2, <2>3, <2>4
  <1>3. Ids(u) = Ids(s) \cup Ids(t)
    <2>1. ASSUME NEW x \in Ids(u) PROVE x \in Ids(s) \cup Ids(t)
      <3>1. PICK i \in 1 .. m + n : u[i] # Torn /\ u[i].id = x
        BY <1>1, IdIn
      <3>2. CASE i \in 1 .. m
        BY <1>1, <1>2, <3>1, <3>2, IdIn
      <3>3. CASE i \in m + 1 .. m + n
        BY <1>1, <1>2, <3>1, <3>3, IdIn
      <3>4. QED
        BY <1>2, <3>2, <3>3
    <2>2. ASSUME NEW x \in Ids(s) PROVE x \in Ids(u)
      <3>1. PICK i \in 1 .. m : s[i] # Torn /\ s[i].id = x
        BY <1>1, IdIn
      <3>2. i \in DOMAIN u /\ u[i] = s[i]
        BY <1>1, <1>2
      <3>3. QED
        BY <3>1, <3>2, IdIn
    <2>3. ASSUME NEW x \in Ids(t) PROVE x \in Ids(u)
      <3>1. PICK i \in 1 .. n : t[i] # Torn /\ t[i].id = x
        BY <1>1, IdIn
      <3>2. m + i \in DOMAIN u /\ u[m + i] = t[i]
        BY <1>1, <1>2
      <3>3. QED
        BY <3>1, <3>2, IdIn
    <2>4. QED
      BY <2>1, <2>2, <2>3
  <1>4. Plain(u) <=> Plain(s) /\ Plain(t)
    <2>1. ASSUME Plain(u), NEW i \in 1 .. m, s[i] # Torn PROVE s[i].cmd.op # "flushall"
      BY <1>1, <1>2, <2>1 DEF Plain
    <2>2. ASSUME Plain(u), NEW i \in 1 .. n, t[i] # Torn PROVE t[i].cmd.op # "flushall"
      <3>1. m + i \in DOMAIN u /\ u[m + i] = t[i]
        BY <1>1, <1>2
      <3>2. QED
        BY <2>2, <3>1 DEF Plain
    <2>3. ASSUME Plain(s), Plain(t), NEW i \in 1 .. m + n, u[i] # Torn
          PROVE  u[i].cmd.op # "flushall"
      <3>1. CASE i \in 1 .. m
        BY <1>1, <1>2, <2>3, <3>1 DEF Plain
      <3>2. CASE i \in m + 1 .. m + n
        <4>1. i - m \in DOMAIN t /\ t[i - m] = u[i]
          BY <1>1, <1>2, <3>2
        <4>2. QED
          BY <2>3, <4>1, Zenon DEF Plain
      <3>3. QED
        BY <1>2, <3>1, <3>2
    <2>4. QED
      BY <1>1, <2>1, <2>2, <2>3 DEF Plain
  <1>5. QED
    BY <1>1, <1>2, <1>3, <1>4 DEF u, m, n

LEMMA AppendIds ==
  ASSUME NEW s \in Seq(Rec), NEW r \in Record
  PROVE  /\ Append(s, r) \in Seq(Rec) /\ Len(Append(s, r)) = Len(s) + 1 /\ Len(s) \in Nat
         /\ s \in Seq(Record) => Append(s, r) \in Seq(Record)
         /\ Ids(Append(s, r)) = Ids(s) \cup {r.id}
         /\ Plain(Append(s, r)) <=> Plain(s) /\ r.cmd.op # "flushall"
  <1> DEFINE u == Append(s, r)
             m == Len(s)
  <1>1. /\ u \in Seq(Rec) /\ m \in Nat /\ Len(u) = m + 1 /\ u[m + 1] = r
        /\ DOMAIN s = 1 .. m /\ DOMAIN u = 1 .. m + 1 /\ r # Torn
        /\ \A i \in 1 .. m : u[i] = s[i] /\ i \in 1 .. m + 1
    BY RecordShape, AppendProperties, LenProperties
  <1>2. s \in Seq(Record) => u \in Seq(Record)
    BY AppendProperties
  <1> HIDE DEF u, m
  <1>3. m + 1 \in 1 .. m + 1 /\ \A i \in 1 .. m + 1 : i \in 1 .. m \/ i = m + 1
    BY <1>1
  <1>4. Ids(u) = Ids(s) \cup {r.id}
    <2>1. Ids(u) \subseteq Ids(s) \cup {r.id}
      BY <1>1, <1>3 DEF Ids
    <2>2. Ids(s) \subseteq Ids(u) /\ r.id \in Ids(u)
      BY <1>1, <1>3 DEF Ids
    <2>3. QED
      BY <2>1, <2>2
  <1>5. Plain(u) <=> Plain(s) /\ r.cmd.op # "flushall"
    BY <1>1, <1>3 DEF Plain
  <1>6. QED
    BY <1>1, <1>2, <1>4, <1>5 DEF u, m

LEMMA SingleIds ==
  ASSUME NEW r \in Record
  PROVE  /\ <<r>> \in Seq(Rec) /\ <<r>> \in Seq(Record) /\ Len(<<r>>) = 1 /\ <<r>>[1] = r
         /\ Ids(<<r>>) = {r.id}
         /\ Plain(<<r>>) <=> r.cmd.op # "flushall"
  <1>1. DOMAIN <<r>> = 1 .. 1 /\ <<r>>[1] = r /\ Len(<<r>>) = 1 /\ r # Torn
    BY RecordShape
  <1>2. <<r>> \in Seq(Rec) /\ <<r>> \in Seq(Record)
    BY RecordShape
  <1>3. Ids(<<r>>) = {r.id}
    BY <1>1 DEF Ids
  <1>4. Plain(<<r>>) <=> r.cmd.op # "flushall"
    BY <1>1 DEF Plain
  <1>5. QED
    BY <1>1, <1>2, <1>3, <1>4

LEMMA PrefixIds ==
  ASSUME NEW s \in Seq(Rec), NEW n \in 0 .. Len(s)
  PROVE  /\ SubSeq(s, 1, n) \in Seq(Rec) /\ Len(SubSeq(s, 1, n)) = n /\ Len(s) \in Nat
         /\ s \in Seq(Record) => SubSeq(s, 1, n) \in Seq(Record)
         /\ \A i \in 1 .. n : SubSeq(s, 1, n)[i] = s[i]
         /\ DOMAIN SubSeq(s, 1, n) = 1 .. n
         /\ Ids(SubSeq(s, 1, n)) \subseteq Ids(s)
         /\ Plain(s) => Plain(SubSeq(s, 1, n))
  <1> DEFINE u == SubSeq(s, 1, n)
  <1>1. /\ Len(s) \in Nat /\ n \in Nat /\ DOMAIN s = 1 .. Len(s)
        /\ \A i \in 1 .. n : s[i] \in Rec /\ i \in 1 .. Len(s)
    BY LenProperties, ElementOfSeq
  <1>2. u \in Seq(Rec) /\ Len(u) = n /\ \A i \in 1 .. n : u[i] = s[i]
    BY <1>1, SubSeqProperties
  <1>3. s \in Seq(Record) => u \in Seq(Record)
    <2>1. ASSUME s \in Seq(Record) PROVE \A i \in 1 .. n : s[i] \in Record
      BY <1>1, <2>1, ElementOfSeq
    <2>2. QED
      BY <1>1, <2>1, SubSeqProperties
  <1>4. DOMAIN u = 1 .. n
    BY <1>2, LenProperties
  <1> HIDE DEF u
  <1>5. Ids(u) \subseteq Ids(s) /\ (Plain(s) => Plain(u))
    BY <1>1, <1>2, <1>4 DEF Ids, Plain
  <1>6. QED
    BY <1>1, <1>2, <1>3, <1>4, <1>5 DEF u

LEMMA TearIds ==
  ASSUME NEW t \in {<<>>, <<Torn>>}
  PROVE  t \in Seq(Rec) /\ Ids(t) = {} /\ Plain(t) /\ Len(t) \in {0, 1}
         /\ \A i \in DOMAIN t : t[i] = Torn
  <1>1. CASE t = <<>>
    BY <1>1, EmptyIds
  <1>2. CASE t = <<Torn>>
    <2>1. t \in Seq(Rec) /\ Len(t) = 1 /\ DOMAIN t = 1 .. 1 /\ t[1] = Torn
      BY <1>2 DEF Rec
    <2>2. QED
      BY <2>1 DEF Ids, Plain
  <1>3. QED
    BY <1>1, <1>2

LEMMA ItemIn ==
  ASSUME NEW s, NEW x
  PROVE  x \in Items(s) <=> \E i \in DOMAIN s : s[i] = x
  BY DEF Items

LEMMA ItemsOf ==
  ASSUME NEW s \in Seq(Rec), NEW t \in Seq(Rec)
  PROVE  /\ Items(<<>>) = {}
         /\ Items(s \o t) \subseteq Items(s) \cup Items(t)
         /\ \A r \in Rec : Items(<<r>>) = {r} /\ Items(Append(s, r)) \subseteq Items(s) \cup {r}
         /\ \A m \in 1 .. Len(s) + 1, n \in 0 .. Len(s) : Items(SubSeq(s, m, n)) \subseteq Items(s)
         /\ s # <<>> => Head(s) \in Items(s) /\ Items(Tail(s)) \subseteq Items(s)
  <1>1. /\ Len(s) \in Nat /\ DOMAIN s = 1 .. Len(s) /\ DOMAIN t = 1 .. Len(t)
        /\ \A i \in 1 .. Len(s) : s[i] \in Rec
    BY LenProperties, ElementOfSeq
  <1>2. Items(<<>>) = {}
    BY EmptyIds DEF Items
  <1>3. Items(s \o t) \subseteq Items(s) \cup Items(t)
    <2>1. /\ s \o t \in Seq(Rec) /\ DOMAIN (s \o t) = 1 .. Len(s \o t) /\ Len(s \o t) \in Nat
          /\ \A i \in 1 .. Len(s) : (s \o t)[i] = s[i]
          /\ \A i \in Len(s) + 1 .. Len(s \o t) :
                i - Len(s) \in DOMAIN t /\ (s \o t)[i] = t[i - Len(s)]
      BY ConcatIds, LenProperties
    <2>2. ASSUME NEW x \in Items(s \o t) PROVE x \in Items(s) \cup Items(t)
      <3>1. PICK i \in 1 .. Len(s \o t) : x = (s \o t)[i]
        BY <2>1 DEF Items
      <3>2. i \in 1 .. Len(s) \/ i \in Len(s) + 1 .. Len(s \o t)
        BY <1>1, <2>1
      <3>3. QED
        BY <1>1, <2>1, <3>1, <3>2, Zenon DEF Items
    <2>3. QED
      BY <2>2
  <1>4. ASSUME NEW r \in Rec
        PROVE  Items(<<r>>) = {r} /\ Items(Append(s, r)) \subseteq Items(s) \cup {r}
    <2>1. DOMAIN <<r>> = {1} /\ <<r>>[1] = r
      OBVIOUS
    <2>2. /\ DOMAIN Append(s, r) = 1 .. Len(s) + 1 /\ Append(s, r)[Len(s) + 1] = r
          /\ \A i \in 1 .. Len(s) : Append(s, r)[i] = s[i]
      BY AppendProperties, LenProperties
    <2>3. \A i \in 1 .. Len(s) + 1 : i \in 1 .. Len(s) \/ i = Len(s) + 1
      BY <1>1
    <2>4. QED
      BY <1>1, <2>1, <2>2, <2>3 DEF Items
  <1>5. ASSUME NEW m \in 1 .. Len(s) + 1, NEW n \in 0 .. Len(s)
        PROVE  Items(SubSeq(s, m, n)) \subseteq Items(s)
    <2>1. \A i \in m .. n : s[i] \in Rec
      BY <1>1
    <2>2. /\ DOMAIN SubSeq(s, m, n) = 1 .. IF m <= n THEN n - m + 1 ELSE 0
          /\ \A i \in 1 .. n - m + 1 : SubSeq(s, m, n)[i] = s[m + i - 1]
      BY <1>1, <2>1, SubSeqProperties, LenProperties
    <2>3. \A i \in 1 .. IF m <= n THEN n - m + 1 ELSE 0 :
             i \in 1 .. n - m + 1 /\ m + i - 1 \in 1 .. Len(s)
      BY <1>1
    <2>4. QED
      BY <1>1, <2>2, <2>3 DEF Items
  <1>6. ASSUME s # <<>> PROVE Head(s) \in Items(s) /\ Items(Tail(s)) \subseteq Items(s)
    <2>1. /\ Head(s) = s[1] /\ Tail(s) \in Seq(Rec) /\ Len(Tail(s)) = Len(s) - 1 /\ Len(s) # 0
          /\ \A i \in 1 .. Len(Tail(s)) : Tail(s)[i] = s[i + 1]
      BY <1>1, <1>6, HeadTailProperties, EmptySeq
    <2>2. DOMAIN Tail(s) = 1 .. Len(s) - 1 /\ 1 \in 1 .. Len(s)
      BY <1>1, <2>1, LenProperties
    <2>3. \A i \in 1 .. Len(s) - 1 : i + 1 \in 1 .. Len(s)
      BY <1>1
    <2>4. QED
      BY <1>1, <2>1, <2>2, <2>3 DEF Items
  <1>7. QED
    BY <1>2, <1>3, <1>4, <1>5, <1>6

LEMMA Least ==
  ASSUME NEW S \in SUBSET Nat, S # {}
  PROVE  \E x \in S : \A y \in S : x <= y
  <1> DEFINE R == OpToRel(<, Nat)
  <1>1. IsWellFoundedOn(R, Nat)
    BY NatLessThanWellFounded
  <1>2. \A x, y \in Nat : <<x, y>> \in R <=> x < y
    BY DEF OpToRel
  <1> HIDE DEF R
  <1>3. PICK x \in S : \A y \in S : ~ (<<y, x>> \in R)
    BY <1>1, WFMin
  <1>4. ASSUME NEW y \in S PROVE x <= y
    <2>1. x \in Nat /\ y \in Nat
      OBVIOUS
    <2>2. ~ (y < x)
      BY <1>2, <1>3, <2>1
    <2>3. QED
      BY <2>1, <2>2
  <1>5. QED
    BY <1>4

LEMMA ReadableType ==
  ASSUME NEW f \in Seq(Rec)
  PROVE  Readable(f) \in Seq(Record)
  <1> DEFINE torn == {i \in DOMAIN f : f[i] = Torn}
             k == CHOOSE i \in torn : \A j \in torn : i <= j
  <1>1. Len(f) \in Nat /\ DOMAIN f = 1 .. Len(f) /\ \A i \in 1 .. Len(f) : f[i] \in Rec
    BY LenProperties, ElementOfSeq
  <1>2. CASE torn = {}
    <2>1. \A i \in 1 .. Len(f) : f[i] \in Record
      BY <1>1, <1>2 DEF Rec
    <2>2. SubSeq(f, 1, Len(f)) \in Seq(Record)
      BY <1>1, <2>1, SubSeqProperties
    <2>3. SubSeq(f, 1, Len(f)) = f
      BY SubSeqFull
    <2>4. QED
      BY <1>2, <2>2, <2>3 DEF Readable
  <1>3. CASE torn # {}
    <2>1. torn \in SUBSET Nat
      BY <1>1
    <2>2. k \in torn /\ \A j \in torn : k <= j
      BY <1>3, <2>1, Least
    <2> HIDE DEF k
    <2>3. k \in 1 .. Len(f) /\ \A i \in 1 .. k - 1 : f[i] \in Record
      BY <1>1, <2>2 DEF Rec
    <2>4. SubSeq(f, 1, k - 1) \in Seq(Record)
      BY <1>1, <2>3, SubSeqProperties
    <2>5. QED
      BY <1>3, <2>4 DEF Readable, k
  <1>4. QED
    BY <1>2, <1>3

LEMMA ApplyType ==
  ASSUME NEW d \in [Key -> Nat], NEW c \in Command
  PROVE  Apply(d, c) \in [Key -> Nat]
  BY CommandShape DEF Apply, Empty

-----------------------------------------------------------------------------
(* Steps of the invariant. *)

\* The sequences and functions of the state.
LEMMA Shapes ==
  ASSUME TypeOK
  PROVE  /\ buffer \in Seq(Record) /\ buffer \in Seq(Rec)
         /\ file \in Seq(Rec) /\ logged \in Seq(Rec)
         /\ rec \in [Loop -> Record] /\ local \in [Thread -> Seq(Record)]
         /\ \A t \in Thread : local[t] \in Seq(Record) /\ local[t] \in Seq(Rec)
         /\ \A l \in Loop : l \in Thread /\ l # Flusher
         /\ Flusher \in Thread
         /\ Len(file) \in Nat /\ Len(buffer) \in Nat /\ synced \in Nat
         /\ flushed \in Nat /\ synced <= flushed /\ flushed <= Len(file)
  BY Whole, LenProperties, CommandShape DEF TypeOK, Rec, Thread

\* What failed before has failed, and batches once crossed stay so.
LEMMA Grows ==
  ASSUME policy' = policy, crossed \subseteq crossed', failed \subseteq failed'
  PROVE  /\ Hot' => Hot
         /\ Calm' => Calm
         /\ "open" \notin failed' => "open" \notin failed
  BY DEF Hot, Calm

LEMMA Frames ==
  /\ UNCHANGED <<issued, acked, pc, rec>> /\ Numbered => Numbered'
  /\ UNCHANGED <<open, buffer, pc, rec, failed, phase>> /\ Shut => Shut'
  /\ UNCHANGED <<buffer, local, logged, file>> /\ Marked => Marked'
  /\ UNCHANGED <<failed, pc, logged, file, buffer, local, open, policy, crossed>> /\ Kept => Kept'
  /\ UNCHANGED <<buffer, pc, failed>> /\ BufferBounded => BufferBounded'
  /\ UNCHANGED <<policy, crossed, failed, buffer, acked, local, pc, rec, open, file, synced, phase>>
     /\ HotInv => HotInv'
  <1>1. UNCHANGED <<issued, acked, pc, rec>> /\ Numbered => Numbered'
    BY DEF Numbered
  <1>2. UNCHANGED <<open, buffer, pc, rec, failed, phase>> /\ Shut => Shut'
    BY DEF Shut, Closing, Serving
  <1>3. UNCHANGED <<buffer, local, logged, file>> /\ Marked => Marked'
    BY DEF Marked, Plain
  <1>4. UNCHANGED <<failed, pc, logged, file, buffer, local, open, policy, crossed>> /\ Kept => Kept'
    BY DEF Kept, NoTruncate, Ids, Calm, Hot
  <1>5. UNCHANGED <<buffer, pc, failed>> /\ BufferBounded => BufferBounded'
    BY DEF BufferBounded
  <1>6. UNCHANGED <<policy, crossed, failed, buffer, acked, local, pc, rec, open, file, synced, phase>>
        /\ HotInv => HotInv'
    BY DEF HotInv, Hot, Pending, Unsynced, Ids, Serving
  <1>7. QED
    BY <1>1, <1>2, <1>3, <1>4, <1>5, <1>6

\* A buffer below the threshold, or the same buffer and the same loops about to
\* take it away.
LEMMA Bounded ==
  ASSUME \/ Len(buffer') = 0
         \/ Len(buffer') \in Nat /\ Len(buffer') < Threshold
         \/ /\ buffer' = buffer /\ BufferBounded /\ ("open" \in failed => "open" \in failed')
            /\ \A l \in Loop : pc'[l] = "swap" <=> pc[l] = "swap"
  PROVE  BufferBounded'
  <1> DEFINE next == {l \in Loop : pc'[l] = "swap"}
  <1>1. IsFiniteSet(next) /\ Cardinality(next) \in Nat
    BY AofAssumption, FS_Subset, FS_CardinalityType DEF AofAssumption
  <1>2. CASE Len(buffer') = 0 \/ (Len(buffer') \in Nat /\ Len(buffer') < Threshold)
    BY <1>1, <1>2, CommandShape DEF BufferBounded
  <1>3. CASE /\ buffer' = buffer /\ BufferBounded /\ ("open" \in failed => "open" \in failed')
             /\ \A l \in Loop : pc'[l] = "swap" <=> pc[l] = "swap"
    <2>1. next = {l \in Loop : pc[l] = "swap"}
      BY <1>3
    <2>2. QED
      BY <1>3, <2>1 DEF BufferBounded
  <1>4. QED
    BY <1>2, <1>3

\* A thread goes on to another step of what it is doing.
LEMMA Move ==
  ASSUME TypeOK, NEW t \in Thread, NEW s \in Step, pc' = [pc EXCEPT ![t] = s]
  PROVE  /\ pc' \in [Thread -> Step] /\ pc'[t] = s
         /\ \A u \in Thread : u # t => pc'[u] = pc[u]
         /\ UNCHANGED <<issued, acked, rec>> /\ Numbered /\ (t = Flusher \/ pc[t] # "idle") => Numbered'
  <1>1. /\ pc' \in [Thread -> Step] /\ pc'[t] = s
        /\ \A u \in Thread : u # t => pc'[u] = pc[u]
    BY DEF TypeOK, Step
  <1>2. ASSUME UNCHANGED <<issued, acked, rec>>, Numbered, t = Flusher \/ pc[t] # "idle"
        PROVE  Numbered'
    <2>1. \A m \in Loop : pc'[m] # "idle" => pc[m] # "idle"
      BY <1>1, <1>2, Shapes
    <2>2. QED
      BY <1>2, <2>1 DEF Numbered
  <1>3. QED
    BY <1>1, <1>2

LEMMA Answered ==
  ASSUME TypeOK, Numbered, NEW l \in Loop, pc[l] # "idle", Answer(l), issued' = issued
  PROVE  /\ pc' \in [Thread -> Step] /\ pc'[l] = "idle"
         /\ \A u \in Thread : u # l => pc'[u] = pc[u]
         /\ rec' \in [Loop -> Record] /\ \A m \in Loop : m # l => rec'[m] = rec[m]
         /\ acked' = acked \cup {rec[l].id} /\ acked' \subseteq 1 .. MaxCommands
         /\ Numbered'
  <1>1. /\ pc' = [pc EXCEPT ![l] = "idle"] /\ rec' = [rec EXCEPT ![l] = NoRecord]
        /\ acked' = acked \cup {rec[l].id}
    BY DEF Answer
  <1>2. l \in Thread /\ \A m \in Loop : m \in Thread
    BY Shapes
  <1>3. /\ pc' \in [Thread -> Step] /\ pc'[l] = "idle"
        /\ \A u \in Thread : u # l => pc'[u] = pc[u]
    BY <1>1, <1>2, Move DEF Step
  <1>4. rec' \in [Loop -> Record] /\ \A m \in Loop : m # l => rec'[m] = rec[m]
    BY <1>1, Shapes, NoRecordType
  <1>5. rec[l].id \in 1 .. issued /\ acked' \subseteq 1 .. issued
    BY <1>1 DEF Numbered
  <1>6. 1 .. issued \subseteq 1 .. MaxCommands
    BY CommandShape DEF TypeOK
  <1>7. \A m \in Loop : pc'[m] # "idle" => m # l /\ pc[m] # "idle" /\ rec[m].id # rec[l].id
    BY <1>2, <1>3 DEF Numbered
  <1>8. Numbered'
    BY <1>1, <1>4, <1>5, <1>7 DEF Numbered
  <1>9. QED
    BY <1>1, <1>3, <1>4, <1>5, <1>6, <1>8

LEMMA BeginKeeps ==
  ASSUME AllInv, NEW l \in Loop, NEW c \in Command, NEW logs, NEW how \in SUBSET {"late"},
         Serving, Begin(l, c, logs, how), db' \in [Key -> Nat]
  PROVE  AllInv'
  <1> USE DEF AllInv, AofInv, TypeInv
  <1>1. /\ pc[l] = "idle" /\ issued < MaxCommands /\ issued' = issued + 1
        /\ \/ /\ pc' = [pc EXCEPT ![l] = "log"]
              /\ rec' = [rec EXCEPT ![l] = [id |-> issued + 1, cmd |-> c]]
           \/ UNCHANGED <<pc, rec>>
        /\ UNCHANGED <<policy, cleared, buffer, file, flushed, synced, open, phase, todo, restarts,
                       local, acked, dropped, erased, logged, failed>>
    BY DEF Begin, medium, server
  <1>2. /\ crossed' \subseteq crossed \cup {"commands", "late"} /\ crossed \subseteq crossed'
        /\ (Hot' => Hot) /\ (Calm' => Calm)
    <2>1. crossed' \subseteq crossed \cup {"commands", "late"} /\ crossed \subseteq crossed'
      BY DEF Begin
    <2>2. QED
      BY <1>1, <2>1, Grows
  <1>3. issued \in Nat /\ issued' \in 0 .. MaxCommands /\ issued + 1 \notin 1 .. issued
    BY <1>1, CommandShape DEF TypeOK
  <1>4. TypeOK'
    <2>1. [id |-> issued + 1, cmd |-> c] \in Record
      BY <1>3 DEF Record
    <2>2. pc' \in [Thread -> Step] /\ rec' \in [Loop -> Record]
      BY <1>1, <2>1 DEF TypeOK, Step
    <2>3. crossed' \subseteq {"batches", "commands", "late"}
      BY <1>2 DEF TypeOK
    <2>4. QED
      BY <1>1, <1>3, <2>2, <2>3 DEF TypeOK, Step
  <1>5. /\ l \in Thread /\ l # Flusher /\ Flusher \in Thread /\ rec \in [Loop -> Record]
        /\ pc \in [Thread -> Step]
    BY CommandShape DEF TypeOK, Thread, Step
  <1>6. CASE UNCHANGED <<pc, rec>>
    <2>1. Numbered'
      <3>1. 1 .. issued \subseteq 1 .. issued'
        BY <1>1, <1>3
      <3>2. QED
        BY <1>1, <1>6, <3>1 DEF Numbered
    <2>2. Phased'
      BY <1>1, <1>6 DEF Phased, Serving
    <2>3. HotInv'
      BY <1>1, <1>2, <1>6 DEF HotInv, Pending, Unsynced, Serving, Ids
    <2>4. Kept'
      BY <1>1, <1>2, <1>6 DEF Kept, NoTruncate
    <2>5. QED
      BY <1>1, <1>4, <1>6, <2>1, <2>2, <2>3, <2>4, Frames
  <1>7. CASE /\ pc' = [pc EXCEPT ![l] = "log"]
             /\ rec' = [rec EXCEPT ![l] = [id |-> issued + 1, cmd |-> c]]
    <2>1. /\ pc'[l] = "log" /\ rec'[l].id = issued + 1
          /\ \A t \in Thread : t # l => pc'[t] = pc[t]
          /\ \A m \in Loop : m # l => rec'[m] = rec[m]
      BY <1>5, <1>7
    <2>2. Numbered'
      <3>1. /\ 1 .. issued \subseteq 1 .. issued' /\ issued + 1 \in 1 .. issued'
            /\ issued + 1 \notin acked
        BY <1>1, <1>3 DEF Numbered
      <3>2. \A m \in Loop : m # l /\ pc[m] # "idle" => rec[m].id # issued + 1 /\ rec[m].id \in 1 .. issued'
        BY <1>3, <3>1 DEF Numbered
      <3>3. QED
        BY <1>1, <1>5, <2>1, <3>1, <3>2 DEF Numbered, Thread
    <2>3. Phased'
      <3>1. Serving' /\ pc'[Flusher] = pc[Flusher]
        BY <1>1, <1>5, <2>1 DEF Serving
      <3>2. \A t \in Thread : pc'[t] # "write" => pc[t] # "write"
        BY <1>1, <2>1
      <3>3. QED
        BY <1>1, <3>1, <3>2 DEF Phased, Serving
    <2>4. Shut'
      <3>1. \A m \in Loop : m \in Thread /\ (m # l => pc'[m] = pc[m] /\ rec'[m] = rec[m])
        BY <2>1 DEF Thread
      <3>2. \A m \in Loop : pc[m] \in {"truncate", "open"} => m # l
        BY <1>1
      <3>3. QED
        BY <1>1, <2>1, <3>1, <3>2 DEF Shut, Closing, Serving
    <2>5. Marked'
      BY <1>1, Frames
    <2>6. Kept'
      <3>1. NoTruncate' => NoTruncate
        BY <1>1, <1>5, <2>1 DEF NoTruncate, Thread
      <3>2. QED
        BY <1>1, <1>2, <3>1 DEF Kept
    <2>7. BufferBounded'
      <3>1. \A m \in Loop : pc'[m] = "swap" <=> pc[m] = "swap"
        BY <1>1, <1>5, <2>1 DEF Thread
      <3>2. QED
        BY <1>1, <3>1, Bounded
    <2>8. HotInv'
      <3>1. \A m \in Loop : pc'[m] \in {"write", "sync"} =>
               m \in Thread /\ m # l /\ pc[m] \in {"write", "sync"} /\ rec'[m] = rec[m]
        BY <2>1 DEF Thread
      <3>2. QED
        BY <1>1, <1>2, <3>1 DEF HotInv, Pending, Unsynced, Serving, Ids
    <2>9. QED
      BY <1>4, <2>2, <2>3, <2>4, <2>5, <2>6, <2>7, <2>8
  <1>8. QED
    BY <1>1, <1>6, <1>7

LEMMA ExecKeeps ==
  ASSUME AllInv, NEW l \in Loop, NEW c \in Command, Exec(l, c) \/ ExecLate(l, c)
  PROVE  AllInv'
  <1>1. TypeOK
    BY DEF AllInv, AofInv, TypeInv
  <1>2. CASE Exec(l, c)
    <2>1. Serving /\ db' \in [Key -> Nat]
      BY <1>1, <1>2, ApplyType DEF Exec, Serving, TypeOK
    <2>2. Begin(l, c, Logs(db, c), {})
      BY <1>2 DEF Exec
    <2>3. QED
      BY <2>1, <2>2, BeginKeeps
  <1>3. CASE ExecLate(l, c)
    <2>1. Serving /\ db' \in [Key -> Nat]
      BY <1>1, <1>3 DEF ExecLate, Serving, TypeOK
    <2>2. PICK logs \in {TRUE, c.op # "del"} : Begin(l, c, logs, {"late"})
      BY <1>3 DEF ExecLate
    <2>3. QED
      BY <2>1, <2>2, BeginKeeps
  <1>4. QED
    BY <1>2, <1>3

\* A command answered while the file is closed.
LEMMA ClosedAnswers ==
  ASSUME AllInv, NEW l \in Loop, pc[l] \in {"log", "swap"}, ~open, Answer(l),
         dropped' \in {dropped, dropped \cup {rec[l].id}},
         UNCHANGED <<policy, db, cleared, buffer, file, flushed, synced, open, phase, todo, restarts,
                     local, issued, erased, logged, failed, crossed>>
  PROVE  AllInv'
  <1> USE DEF AllInv, AofInv, TypeInv
  <1>1. /\ pc' \in [Thread -> Step] /\ pc'[l] = "idle"
        /\ \A u \in Thread : u # l => pc'[u] = pc[u]
        /\ rec' \in [Loop -> Record] /\ \A m \in Loop : m # l => rec'[m] = rec[m]
        /\ acked' = acked \cup {rec[l].id} /\ acked' \subseteq 1 .. MaxCommands
        /\ Numbered'
    BY Answered
  <1>2. TypeOK'
    <2>1. dropped' \subseteq 1 .. MaxCommands
      BY <1>1 DEF TypeOK
    <2>2. QED
      BY <1>1, <2>1 DEF TypeOK, Step
  <1>3. /\ Serving /\ l \in Thread /\ l # Flusher /\ Flusher \in Thread
        /\ \A m \in Loop : m \in Thread
    BY Shapes DEF Phased
  <1>4. Phased'
    <2>1. /\ Serving' /\ pc'[Flusher] = pc[Flusher]
          /\ \A t \in Thread : pc'[t] # "write" => pc[t] # "write"
      BY <1>1, <1>3 DEF Serving
    <2>2. QED
      BY <2>1 DEF Phased, Serving
  <1>5. Shut'
    <2>1. \A m \in Loop : Closing(m)' => m # l /\ Closing(m)
      BY <1>1, <1>3 DEF Closing
    <2>2. \A m \in Loop : pc[m] \in {"truncate", "open"} => pc'[m] = pc[m]
      BY <1>1, <1>3
    <2>3. QED
      BY <1>1, <2>1, <2>2 DEF Shut, Serving
  <1>6. Marked'
    BY Frames
  <1>7. Kept'
    <2>1. NoTruncate' => NoTruncate
      BY <1>1, <1>3 DEF NoTruncate
    <2>2. QED
      BY <2>1 DEF Kept, Calm, Hot
  <1>8. BufferBounded'
    <2>1. CASE "open" \in failed
      BY <2>1 DEF BufferBounded
    <2>2. CASE "open" \notin failed
      <3>1. buffer' = <<>>
        BY <2>2 DEF Shut
      <3>2. QED
        BY <3>1, EmptyIds, Bounded
    <2>3. QED
      BY <2>1, <2>2
  <1>9. HotInv'
    <2> SUFFICES ASSUME Hot PROVE Pending' /\ Unsynced'
      BY DEF HotInv, Hot
    <2>1. Pending /\ Unsynced /\ buffer = <<>> /\ \A t \in Thread : local[t] = <<>>
      BY DEF HotInv, Pending, Shut, Hot
    <2>2. Pending'
      BY <2>1, EmptyIds DEF Pending
    <2>3. Unsynced'
      BY <2>1, <1>3 DEF Unsynced
    <2>4. QED
      BY <2>2, <2>3
  <1>10. QED
    BY <1>1, <1>2, <1>4, <1>5, <1>6, <1>7, <1>8, <1>9

LEMMA LogKeeps ==
  ASSUME AllInv, NEW l \in Loop, Log(l)
  PROVE  AllInv'
  <1> USE DEF AllInv, AofInv, TypeInv
  <1>1. /\ pc[l] = "log" /\ rec[l].cmd.op # "flushall"
        /\ UNCHANGED <<db, cleared, file, flushed, synced, open, phase, todo, restarts, local, policy,
                       issued, erased, failed, crossed>>
        /\ dropped' \in {dropped, dropped \cup {rec[l].id}}
    BY DEF Log, medium, server
  <1>2. CASE ~open
    <2>1. Answer(l) /\ UNCHANGED <<buffer, logged>>
      BY <1>2 DEF Log
    <2>2. QED
      BY <1>1, <1>2, <2>1, ClosedAnswers
  <1>3. CASE open
    <2> DEFINE full == policy = "always" \/ Len(buffer) + 1 >= Threshold
    <2>1. /\ buffer' = Append(buffer, rec[l]) /\ logged' = Append(logged, rec[l])
          /\ full => pc' = [pc EXCEPT ![l] = "swap"] /\ UNCHANGED <<rec, acked>>
          /\ ~full => Answer(l)
          /\ UNCHANGED dropped
      BY <1>3 DEF Log
    <2>2. /\ buffer \in Seq(Rec) /\ logged \in Seq(Rec) /\ buffer \in Seq(Record)
          /\ rec[l] \in Record /\ l \in Thread /\ l # Flusher /\ Flusher \in Thread
          /\ \A m \in Loop : m \in Thread
      BY Shapes
    <2>3. /\ buffer' \in Seq(Record) /\ logged' \in Seq(Rec)
          /\ Len(buffer') = Len(buffer) + 1 /\ Len(buffer) \in Nat
          /\ Ids(buffer') = Ids(buffer) \cup {rec[l].id}
          /\ Ids(logged') = Ids(logged) \cup {rec[l].id}
          /\ (Plain(buffer') <=> Plain(buffer)) /\ (Plain(logged') <=> Plain(logged))
      BY <1>1, <2>1, <2>2, AppendIds
    <2>4. /\ pc' \in [Thread -> Step] /\ pc'[l] = IF full THEN "swap" ELSE "idle"
          /\ \A u \in Thread : u # l => pc'[u] = pc[u]
          /\ rec' \in [Loop -> Record] /\ \A m \in Loop : m # l => rec'[m] = rec[m]
          /\ acked' \subseteq 1 .. MaxCommands
          /\ full => UNCHANGED <<rec, acked>>
          /\ Numbered'
      <3>1. CASE full
        BY <1>1, <2>1, <2>2, <3>1, Move, Shapes DEF Step, TypeOK
      <3>2. CASE ~full
        BY <1>1, <2>1, <2>2, <3>2, Answered
      <3>3. QED
        BY <3>1, <3>2
    <2>5. TypeOK'
      BY <1>1, <2>1, <2>3, <2>4 DEF TypeOK, Step, Rec
    <2>6. Phased'
      <3>1. Serving /\ Serving' /\ pc'[Flusher] = pc[Flusher]
        BY <1>1, <2>2, <2>4 DEF Serving, Phased
      <3>2. \A t \in Thread : pc'[t] # "write" => local[t] = <<>>
        BY <1>1, <2>4 DEF Phased
      <3>3. QED
        BY <1>1, <3>1, <3>2 DEF Phased, Serving
    <2>7. Shut'
      <3>1. \A m \in Loop : Closing(m)' => m # l /\ Closing(m)
        BY <1>1, <2>2, <2>4 DEF Closing
      <3>2. QED
        BY <1>1, <1>3, <2>4, <3>1 DEF Shut
    <2>8. Marked'
      BY <1>1, <2>3 DEF Marked
    <2>9. Kept'
      <3>1. NoTruncate' => NoTruncate
        BY <1>1, <2>2, <2>4 DEF NoTruncate
      <3>2. QED
        BY <1>1, <1>3, <2>3, <3>1 DEF Kept, Calm, Hot
    <2>10. BufferBounded'
      <3>1. CASE full
        <4> DEFINE now == {m \in Loop : pc[m] = "swap"}
                   next == {m \in Loop : pc'[m] = "swap"}
        <4>1. next = now \cup {l} /\ l \notin now
          BY <1>1, <2>2, <2>4, <3>1
        <4>2. IsFiniteSet(now)
          BY AofAssumption, FS_Subset DEF AofAssumption
        <4>3. Cardinality(now) \in Nat /\ Cardinality(next) = Cardinality(now) + 1
          BY <4>1, <4>2, FS_AddElement, FS_CardinalityType
        <4>4. "open" \notin failed => Len(buffer) < Threshold + Cardinality(now)
          BY DEF BufferBounded
        <4> HIDE DEF now, next
        <4>5. "open" \notin failed' => Len(buffer') < Threshold + Cardinality(next)
          BY <1>1, <2>3, <4>3, <4>4, CommandShape
        <4>6. QED
          BY <4>5 DEF BufferBounded, next
      <3>2. CASE ~full
        BY <2>3, <3>2, Bounded, CommandShape
      <3>3. QED
        BY <3>1, <3>2
    <2>11. HotInv'
      <3> SUFFICES ASSUME Hot PROVE Pending' /\ Unsynced'
        BY <1>1 DEF HotInv, Hot
      <3>1. /\ Pending /\ Unsynced /\ UNCHANGED <<rec, acked>> /\ pc'[l] = "swap"
            /\ rec[l].id \notin acked
        BY <1>1, <2>4 DEF HotInv, Hot, Numbered
      <3>2. \A m \in Loop : pc'[m] \in {"write", "sync"} =>
               m # l /\ pc[m] \in {"write", "sync"} /\ rec[m].id # rec[l].id
        BY <1>1, <2>2, <2>4, <3>1 DEF Numbered
      <3>3. Pending'
        BY <1>1, <1>3, <2>3, <3>1, <3>2 DEF Pending
      <3>4. Unsynced'
        BY <1>1, <1>3, <3>1 DEF Unsynced
      <3>5. QED
        BY <3>3, <3>4
    <2>12. QED
      BY <2>4, <2>5, <2>6, <2>7, <2>8, <2>9, <2>10, <2>11
  <1>4. QED
    BY <1>2, <1>3

\* FLUSHALL finds the file open.
LEMMA CheckOpenKeeps ==
  ASSUME AllInv, NEW l \in Loop, CheckOpen(l)
  PROVE  AllInv'
  <1> USE DEF AllInv, AofInv, TypeInv
  <1>1. /\ pc[l] = "log" /\ rec[l].cmd.op = "flushall"
        /\ UNCHANGED <<db, cleared, buffer, file, flushed, synced, open, phase, todo, restarts, local,
                       policy, issued, erased, logged, failed, crossed>>
    BY DEF CheckOpen, medium, server
  <1>2. CASE ~open
    <2>1. Answer(l) /\ dropped' = dropped \cup {rec[l].id}
      BY <1>2 DEF CheckOpen
    <2>2. QED
      BY <1>1, <1>2, <2>1, ClosedAnswers
  <1>3. CASE open
    <2>1. pc' = [pc EXCEPT ![l] = "close"] /\ UNCHANGED <<rec, acked, dropped>>
      BY <1>3 DEF CheckOpen
    <2>2. l \in Thread /\ l # Flusher /\ Flusher \in Thread /\ \A m \in Loop : m \in Thread
      BY Shapes
    <2>3. /\ pc' \in [Thread -> Step] /\ pc'[l] = "close"
          /\ \A u \in Thread : u # l => pc'[u] = pc[u]
          /\ Numbered'
      BY <1>1, <2>1, <2>2, Move DEF Step
    <2>4. TypeOK'
      BY <1>1, <2>1, <2>3 DEF TypeOK, Step
    <2>5. Phased'
      <3>1. Serving /\ Serving' /\ pc'[Flusher] = pc[Flusher]
        BY <1>1, <2>2, <2>3 DEF Serving, Phased
      <3>2. \A t \in Thread : pc'[t] # "write" => local[t] = <<>>
        BY <1>1, <2>3 DEF Phased
      <3>3. QED
        BY <1>1, <3>1, <3>2 DEF Phased, Serving
    <2>6. Shut'
      <3>1. \A m \in Loop : Closing(m)' => Closing(m) \/ m = l
        BY <2>2, <2>3 DEF Closing
      <3>2. QED
        BY <1>1, <1>3, <2>1, <3>1 DEF Shut
    <2>7. Marked'
      BY <1>1, Frames
    <2>8. Kept'
      <3>1. NoTruncate' => NoTruncate
        BY <1>1, <2>2, <2>3 DEF NoTruncate
      <3>2. QED
        BY <1>1, <3>1 DEF Kept, Calm, Hot
    <2>9. BufferBounded'
      <3>1. \A m \in Loop : pc'[m] = "swap" <=> pc[m] = "swap"
        BY <1>1, <2>2, <2>3
      <3>2. QED
        BY <1>1, <3>1, Bounded
    <2>10. HotInv'
      <3>1. \A m \in Loop : pc'[m] \in {"write", "sync"} => pc[m] \in {"write", "sync"}
        BY <2>2, <2>3
      <3>2. QED
        BY <1>1, <2>1, <3>1 DEF HotInv, Hot, Pending, Unsynced, Serving
    <2>11. QED
      BY <2>3, <2>4, <2>5, <2>6, <2>7, <2>8, <2>9, <2>10
  <1>4. QED
    BY <1>2, <1>3

\* A thread takes the buffer away.
LEMMA Taken ==
  ASSUME AllInv, NEW t \in Thread, Serving, open,
         (t = Flusher /\ phase # "draining" /\ pc[t] = "idle") \/ (t \in Loop /\ pc[t] = "swap"),
         local' = [local EXCEPT ![t] = buffer], buffer' = <<>>,
         crossed' = IF Held THEN crossed \cup {"batches"} ELSE crossed,
         pc' = [pc EXCEPT ![t] = "write"],
         UNCHANGED <<db, cleared, file, flushed, synced, open, phase, todo, restarts, rec, policy,
                     issued, acked, dropped, erased, logged, failed>>
  PROVE  AllInv'
  <1> USE DEF AllInv, AofInv, TypeInv
  <1>1. /\ pc' \in [Thread -> Step] /\ pc'[t] = "write"
        /\ \A u \in Thread : u # t => pc'[u] = pc[u]
        /\ Numbered'
    BY Move DEF Step
  <1>2. /\ buffer \in Seq(Record) /\ Flusher \in Thread /\ \A m \in Loop : m \in Thread
        /\ \A u \in Thread : local[u] \in Seq(Record)
        /\ \A m \in Loop : m # Flusher
    BY Shapes
  <1>3. /\ local' \in [Thread -> Seq(Record)] /\ local'[t] = buffer
        /\ \A u \in Thread : u # t => local'[u] = local[u]
    BY <1>2, Shapes
  <1>4. local[t] = <<>> /\ (Hot' => Hot /\ \A u \in Thread : local[u] = <<>>)
        /\ crossed' \subseteq crossed \cup {"batches"}
    BY DEF Phased, Hot, Held
  <1>5. TypeOK'
    BY <1>1, <1>3, <1>4, EmptyIds DEF TypeOK, Step
  <1>6. Phased'
    <2>1. \A u \in Thread : pc'[u] # "write" => local'[u] = <<>>
      BY <1>1, <1>3 DEF Phased
    <2>2. phase = "draining" => pc'[Flusher] = "idle"
      BY <1>1, <1>2 DEF Phased
    <2>3. QED
      BY <2>1, <2>2 DEF Phased, Serving
  <1>7. Shut'
    <2>1. \A m \in Loop : Closing(m)' => Closing(m)
      BY <1>1, <1>2 DEF Closing
    <2>2. QED
      BY <2>1 DEF Shut
  <1>8. Marked'
    BY <1>3, EmptyIds DEF Marked
  <1>9. Kept'
    <2>1. NoTruncate' => NoTruncate
      BY <1>1, <1>2 DEF NoTruncate
    <2>2. Ids(buffer) \cup UNION {Ids(local[u]) : u \in Thread} \subseteq
             UNION {Ids(local'[u]) : u \in Thread}
      BY <1>3, <1>4, EmptyIds
    <2>3. QED
      BY <1>4, <2>1, <2>2 DEF Kept, Calm
  <1>10. BufferBounded'
    BY EmptyIds, Bounded
  <1>11. HotInv'
    <2> SUFFICES ASSUME Hot' PROVE Pending' /\ Unsynced'
      BY DEF HotInv
    <2>1. Pending /\ Unsynced /\ \A u \in Thread : local[u] = <<>>
      BY <1>4 DEF HotInv
    <2>2. \A u \in Thread : Ids(local'[u]) \subseteq Ids(buffer) /\ (u # t => Ids(local'[u]) = {})
      BY <1>3, <2>1, EmptyIds
    <2>3. \A m \in Loop : pc'[m] \in {"write", "sync"} =>
             \A u \in Thread : u # m => rec[m].id \notin Ids(local'[u])
      BY <1>1, <1>2, <2>1, <2>2 DEF Pending
    <2>4. Pending'
      BY <2>1, <2>2, <2>3, EmptyIds DEF Pending
    <2>5. Unsynced'
      BY <2>1 DEF Unsynced, Serving
    <2>6. QED
      BY <2>4, <2>5
  <1>12. QED
    BY <1>1, <1>5, <1>6, <1>7, <1>8, <1>9, <1>10, <1>11

LEMMA SwapKeeps ==
  ASSUME AllInv, NEW l \in Loop, Swap(l)
  PROVE  AllInv'
  <1> USE DEF AllInv, AofInv, TypeInv
  <1>1. l \in Thread /\ pc[l] = "swap" /\ Serving
    BY Shapes DEF Swap, Phased
  <1>2. CASE open
    BY <1>1, <1>2, Taken DEF Swap, medium, server
  <1>3. CASE ~open
    BY <1>1, <1>3, ClosedAnswers DEF Swap, medium, server
  <1>4. QED
    BY <1>2, <1>3

LEMMA FlushSwapKeeps ==
  ASSUME AllInv, FlushSwap
  PROVE  AllInv'
  <1>1. Flusher \in Thread /\ Serving /\ open /\ phase # "draining" /\ pc[Flusher] = "idle"
    BY DEF FlushSwap, Serving, Thread
  <1>2. QED
    BY <1>1, Taken DEF FlushSwap, medium, server

\* What a call that fails leaves in the file.
LEMMA Lost ==
  ASSUME TypeOK, NEW s \in Seq(Rec), Len(file) <= Len(s), Lose(s)
  PROVE  /\ file' \in Seq(Rec) /\ Len(file') \in Nat /\ synced' = synced /\ flushed' = Len(file')
         /\ synced' \in 0 .. Len(file') /\ flushed' \in synced' .. Len(file')
         /\ Plain(s) => Plain(file')
         /\ Items(file') \subseteq Items(s) \cup {Torn}
  <1>1. /\ synced \in Nat /\ flushed \in Nat /\ synced <= flushed /\ flushed <= Len(file)
        /\ Len(file) \in Nat /\ Len(s) \in Nat
    BY Shapes, LenProperties
  <1>2. PICK n \in flushed .. Len(s), tear \in {<<>>, <<Torn>>} : file' = SubSeq(s, 1, n) \o tear
    BY DEF Lose
  <1>3. n \in 0 .. Len(s) /\ n \in Nat /\ synced <= n
    BY <1>1
  <1> DEFINE p == SubSeq(s, 1, n)
  <1>4. p \in Seq(Rec) /\ Len(p) = n /\ (Plain(s) => Plain(p)) /\ Items(p) \subseteq Items(s)
    <2>1. p \in Seq(Rec) /\ Len(p) = n /\ (Plain(s) => Plain(p))
      BY <1>3, PrefixIds
    <2>2. 1 \in 1 .. Len(s) + 1
      BY <1>1
    <2>3. QED
      BY <1>3, <2>1, <2>2, ItemsOf
  <1>5. tear \in Seq(Rec) /\ Plain(tear) /\ Items(tear) \subseteq {Torn}
    BY TearIds DEF Items
  <1> HIDE DEF p
  <1>6. /\ file' \in Seq(Rec) /\ Len(file') = n + Len(tear) /\ Len(tear) \in Nat
        /\ (Plain(s) => Plain(file')) /\ Items(file') \subseteq Items(s) \cup {Torn}
    <2>1. file' = p \o tear
      BY <1>2 DEF p
    <2>2. /\ p \o tear \in Seq(Rec) /\ Len(p \o tear) = Len(p) + Len(tear) /\ Len(tear) \in Nat
          /\ Plain(p \o tear) <=> Plain(p) /\ Plain(tear)
      BY <1>4, <1>5, ConcatIds
    <2>3. Items(p \o tear) \subseteq Items(p) \cup Items(tear)
      BY <1>4, <1>5, ItemsOf
    <2>4. QED
      BY <1>4, <1>5, <2>1, <2>2, <2>3
  <1>7. synced' = synced /\ flushed' = Len(file')
    BY DEF Lose
  <1>8. QED
    BY <1>1, <1>3, <1>6, <1>7

LEMMA Given ==
  ASSUME TypeOK, NEW s \in Seq(Rec), Len(file) <= Len(s), WriteOut(s)
  PROVE  /\ file' \in Seq(Rec) /\ Len(file') \in Nat
         /\ synced' \in 0 .. Len(file') /\ flushed' \in synced' .. Len(file')
         /\ Plain(s) => Plain(file')
         /\ Items(file') \subseteq Items(s) \cup {Torn}
         /\ failed \subseteq failed' /\ failed' \subseteq Failures
         /\ "open" \in failed' => "open" \in failed
         /\ \/ /\ failed' = failed /\ file' = s
               /\ "sync" \notin failed => synced' = Len(file')
            \/ "write" \in failed' /\ "sync" \in failed'
  <1>1. CASE /\ file' = s /\ flushed' = Len(s)
             /\ synced' = IF "sync" \in failed THEN synced ELSE Len(s)
             /\ UNCHANGED failed
    <2>1. Len(s) \in Nat /\ synced \in 0 .. Len(s)
      <3>1. synced \in Nat /\ Len(file) \in Nat /\ synced <= Len(file) /\ Len(s) \in Nat
        BY Shapes, LenProperties
      <3>2. QED
        BY <3>1
    <2>2. failed \subseteq Failures
      BY DEF TypeOK, Failures
    <2>3. QED
      BY <1>1, <2>1, <2>2
  <1>2. CASE Lose(s) /\ failed' = failed \cup {"write", "sync"}
    <2>1. failed \subseteq Failures /\ {"write", "sync"} \subseteq Failures
      BY DEF TypeOK, Failures
    <2>2. QED
      BY <1>2, <2>1, Lost
  <1>3. QED
    BY <1>1, <1>2 DEF WriteOut

\* fsync, with its result unseen.
LEMMA Synced ==
  ASSUME TypeOK, SyncFile, UNCHANGED <<file, open>>
  PROVE  /\ synced' \in 0 .. Len(file') /\ flushed' \in synced' .. Len(file')
         /\ synced <= synced' /\ synced \in Nat /\ synced' \in Nat /\ Len(file) \in Nat
         /\ failed' \in {failed, failed \cup {"sync"}}
         /\ "sync" \notin failed' => synced' = IF open THEN Len(file) ELSE synced
         /\ failed' # failed => synced' = synced
  <1>1. /\ synced \in Nat /\ flushed \in Nat /\ synced <= flushed /\ flushed <= Len(file)
        /\ Len(file) \in Nat
    BY Shapes
  <1>2. QED
    BY <1>1 DEF SyncFile

\* A thread writes its batch, or some of it.
LEMMA Written ==
  ASSUME AllInv, NEW t \in Thread, pc[t] = "write", NEW w \in Seq(Rec),
         Ids(w) \subseteq Ids(local[t]), Plain(w),
         \A i \in DOMAIN w : w[i] # Torn => w[i].id \in Ids(local[t]),
         \/ failed' = failed /\ (Ids(local[t]) \subseteq Ids(w) \/ ~open)
         \/ failed' = failed \cup {"write"},
         file' = IF open THEN file \o w ELSE file,
         local' = [local EXCEPT ![t] = <<>>],
         NEW s \in {"sync", "idle"}, pc' = [pc EXCEPT ![t] = s], t # Flusher => s = "sync",
         UNCHANGED <<db, cleared, buffer, flushed, synced, open, phase, todo, restarts, rec, policy,
                     issued, acked, dropped, erased, logged, crossed>>
  PROVE  AllInv'
  <1> USE DEF AllInv, AofInv, TypeInv
  <1>1. /\ pc' \in [Thread -> Step] /\ pc'[t] = s
        /\ \A u \in Thread : u # t => pc'[u] = pc[u]
        /\ Numbered'
    BY Move DEF Step
  <1>2. /\ file \in Seq(Rec) /\ Flusher \in Thread /\ \A m \in Loop : m \in Thread
        /\ Len(file) \in Nat /\ Len(w) \in Nat
        /\ \A m \in Loop : m # Flusher
    BY Shapes, LenProperties
  <1>3. /\ local' \in [Thread -> Seq(Record)] /\ local'[t] = <<>>
        /\ \A u \in Thread : u # t => local'[u] = local[u]
    BY Shapes, EmptyIds
  <1>4. /\ file \o w \in Seq(Rec) /\ Len(file \o w) = Len(file) + Len(w)
        /\ \A i \in 1 .. Len(file) : (file \o w)[i] = file[i]
        /\ \A i \in Len(file) + 1 .. Len(file \o w) :
              i - Len(file) \in DOMAIN w /\ (file \o w)[i] = w[i - Len(file)]
        /\ Ids(file \o w) = Ids(file) \cup Ids(w)
        /\ Plain(file \o w) <=> Plain(file) /\ Plain(w)
    BY <1>2, ConcatIds
  <1>5. /\ Serving /\ Serving' /\ (Hot' <=> Hot) /\ (Calm' => Calm /\ failed' = failed)
        /\ ("open" \in failed <=> "open" \in failed') /\ ("sync" \in failed => "sync" \in failed')
        /\ failed' \subseteq Failures
    BY DEF Phased, Serving, Hot, Calm, TypeOK, Failures
  <1>6. TypeOK'
    <2>1. file' \in Seq(Rec) /\ Len(file') \in Nat /\ Len(file') >= Len(file)
      BY <1>2, <1>4
    <2>2. synced' \in 0 .. Len(file') /\ flushed' \in synced' .. Len(file')
      BY <1>2, <2>1 DEF TypeOK
    <2>3. QED
      BY <1>1, <1>3, <1>5, <2>1, <2>2 DEF TypeOK, Step, Rec, Failures
  <1>7. Phased'
    <2>1. \A u \in Thread : pc'[u] # "write" => local'[u] = <<>>
      BY <1>1, <1>3 DEF Phased
    <2>2. phase = "draining" => pc'[Flusher] = "idle"
      BY <1>1, <1>2 DEF Phased
    <2>3. QED
      BY <1>5, <2>1, <2>2 DEF Phased, Serving
  <1>8. Shut'
    <2>1. \A m \in Loop : Closing(m)' => Closing(m)
      BY <1>1, <1>2 DEF Closing
    <2>2. \A m \in Loop : pc[m] \in {"truncate", "open"} => pc'[m] = pc[m]
      BY <1>1, <1>2
    <2>3. QED
      BY <1>5, <2>1, <2>2 DEF Shut
  <1>9. Marked'
    BY <1>3, <1>4, EmptyIds DEF Marked
  <1>10. Kept'
    <2> SUFFICES ASSUME Calm', NoTruncate' \/ Hot' PROVE
          /\ Ids(logged) \subseteq Ids(file') \cup Ids(buffer) \cup UNION {Ids(local'[u]) : u \in Thread}
          /\ ~open => Ids(logged) \subseteq Ids(file')
      BY DEF Kept
    <2>1. Calm /\ (NoTruncate \/ Hot) /\ failed' = failed
      BY <1>1, <1>2, <1>5 DEF NoTruncate
    <2>2. CASE ~open
      BY <2>1, <2>2 DEF Kept
    <2>3. CASE open
      <3>1. Ids(file') = Ids(file) \cup Ids(w) /\ Ids(local[t]) \subseteq Ids(w)
        BY <1>4, <2>1, <2>3 DEF Calm
      <3>2. UNION {Ids(local[u]) : u \in Thread} \subseteq
               Ids(local[t]) \cup UNION {Ids(local'[u]) : u \in Thread}
        BY <1>3
      <3>3. QED
        BY <2>1, <2>3, <3>1, <3>2 DEF Kept
    <2>4. QED
      BY <2>2, <2>3
  <1>11. BufferBounded'
    <2>1. \A m \in Loop : pc'[m] = "swap" <=> pc[m] = "swap"
      BY <1>1, <1>2
    <2>2. QED
      BY <1>5, <2>1, Bounded
  <1>12. HotInv'
    <2> SUFFICES ASSUME Hot PROVE Pending' /\ Unsynced'
      BY <1>5 DEF HotInv
    <2>1. Pending /\ Unsynced
      BY DEF HotInv
    <2>2. \A u \in Thread : Ids(local'[u]) \subseteq Ids(local[u])
      BY <1>3, EmptyIds
    <2>3. \A m \in Loop : pc'[m] \in {"write", "sync"} => pc[m] \in {"write", "sync"}
      BY <1>1, <1>2
    <2>4. Pending'
      BY <1>3, <2>1, <2>2, <2>3 DEF Pending
    <2>5. ASSUME NEW i \in synced + 1 .. Len(file'), file'[i] # Torn, file'[i].cmd.op # "flushall"
          PROVE  file'[i].id \notin acked /\ open
      <3>1. CASE ~open
        BY <1>5, <2>1, <2>5, <3>1 DEF Unsynced
      <3>2. CASE open /\ i \in synced + 1 .. Len(file)
        <4>1. i \in 1 .. Len(file)
          BY <1>2, <3>2, Shapes
        <4>2. QED
          BY <1>4, <2>1, <2>5, <3>2, <4>1 DEF Unsynced
      <3>3. CASE open /\ i \in Len(file) + 1 .. Len(file')
        <4>1. file'[i].id \in Ids(local[t])
          BY <1>4, <2>5, <3>3
        <4>2. QED
          BY <2>1, <3>3, <4>1 DEF Pending
      <3>4. open => i \in synced + 1 .. Len(file) \/ i \in Len(file) + 1 .. Len(file')
        BY <1>2, <1>4, Shapes
      <3>5. QED
        BY <3>1, <3>2, <3>3, <3>4
    <2>6. Unsynced'
      BY <1>5, <2>5 DEF Unsynced
    <2>7. QED
      BY <2>4, <2>6
  <1>13. QED
    BY <1>1, <1>6, <1>7, <1>8, <1>9, <1>10, <1>11, <1>12

LEMMA WriteKeeps ==
  ASSUME AllInv, NEW t \in Thread, Write(t)
  PROVE  AllInv'
  <1> USE DEF AllInv, AofInv, TypeInv
  <1> DEFINE s == IF open \/ t # Flusher THEN "sync" ELSE "idle"
  <1>1. local[t] \in Seq(Rec) /\ Plain(local[t]) /\ s \in {"sync", "idle"}
    BY Shapes DEF Marked
  <1>2. \A i \in DOMAIN local[t] : local[t][i] # Torn => local[t][i].id \in Ids(local[t])
    BY DEF Ids
  <1>3. failed' = failed
    BY DEF Write, history
  <1>4. QED
    BY <1>1, <1>2, <1>3, Written DEF Write, history, server

LEMMA WriteErrorKeeps ==
  ASSUME AllInv, NEW t \in Thread, WriteError(t)
  PROVE  AllInv'
  <1> USE DEF AllInv, AofInv, TypeInv
  <1> DEFINE s == IF t = Flusher THEN "idle" ELSE "sync"
  <1>1. PICK n \in 0 .. Len(local[t]) - 1, tear \in {<<>>, <<Torn>>} :
          file' = file \o SubSeq(local[t], 1, n) \o tear
    BY DEF WriteError
  <1> DEFINE p == SubSeq(local[t], 1, n)
             w == p \o tear
  <1>2. local[t] \in Seq(Rec) /\ Plain(local[t]) /\ n \in 0 .. Len(local[t])
    <2>1. local[t] \in Seq(Rec) /\ Plain(local[t])
      BY Shapes DEF Marked
    <2>2. QED
      BY <2>1, LenProperties
  <1>3. /\ p \in Seq(Rec) /\ Plain(p) /\ Ids(p) \subseteq Ids(local[t])
        /\ tear \in Seq(Rec) /\ Plain(tear) /\ Ids(tear) = {}
    BY <1>2, PrefixIds, TearIds
  <1> HIDE DEF p
  <1>4. w \in Seq(Rec) /\ Plain(w) /\ Ids(w) \subseteq Ids(local[t])
    BY <1>3, ConcatIds
  <1>5. file' = file \o w
    <2>1. file' = (file \o p) \o tear
      BY <1>1 DEF p
    <2>2. file \in Seq(Rec)
      BY Shapes
    <2>3. (file \o p) \o tear = file \o (p \o tear)
      BY <1>3, <2>2, ConcatAssociative
    <2>4. QED
      BY <2>1, <2>3
  <1> HIDE DEF w
  <1>6. \A i \in DOMAIN w : w[i] # Torn => w[i].id \in Ids(local[t])
    BY <1>4 DEF Ids
  <1>7. QED
    BY <1>4, <1>5, <1>6, Written DEF WriteError, server

LEMMA SyncKeeps ==
  ASSUME AllInv, NEW l \in Loop, Sync(l)
  PROVE  AllInv'
  <1> USE DEF AllInv, AofInv, TypeInv
  <1>1. /\ pc[l] = "sync" /\ Answer(l) /\ SyncFile
        /\ UNCHANGED <<db, cleared, buffer, file, open, phase, todo, restarts, local, policy, issued,
                       dropped, erased, logged, crossed>>
    BY DEF Sync, server
  <1>2. /\ pc' \in [Thread -> Step] /\ pc'[l] = "idle"
        /\ \A u \in Thread : u # l => pc'[u] = pc[u]
        /\ rec' \in [Loop -> Record] /\ \A m \in Loop : m # l => rec'[m] = rec[m]
        /\ acked' = acked \cup {rec[l].id} /\ acked' \subseteq 1 .. MaxCommands
        /\ Numbered'
    BY <1>1, Answered
  <1>3. /\ Serving /\ Serving' /\ l \in Thread /\ l # Flusher /\ Flusher \in Thread
        /\ \A m \in Loop : m \in Thread
    BY <1>1, Shapes DEF Phased, Serving
  <1>4. /\ synced' \in 0 .. Len(file') /\ flushed' \in synced' .. Len(file')
        /\ synced <= synced' /\ synced \in Nat /\ synced' \in Nat /\ Len(file) \in Nat
        /\ failed' \in {failed, failed \cup {"sync"}}
        /\ "sync" \notin failed' => synced' = IF open THEN Len(file) ELSE synced
    BY <1>1, Synced
  <1>5. TypeOK'
    <2>1. failed' \subseteq Failures
      BY <1>4 DEF TypeOK, Failures
    <2>2. QED
      BY <1>1, <1>2, <1>4, <2>1 DEF TypeOK, Step, Failures
  <1>6. /\ Hot' => Hot
        /\ Calm' <=> Calm
        /\ "open" \in failed' <=> "open" \in failed
    BY <1>1, <1>4 DEF Hot, Calm
  <1>7. Phased'
    <2>1. \A t \in Thread : pc'[t] # "write" => local[t] = <<>>
      BY <1>1, <1>2 DEF Phased
    <2>2. pc'[Flusher] = pc[Flusher]
      BY <1>2, <1>3
    <2>3. QED
      BY <1>1, <1>3, <2>1, <2>2 DEF Phased, Serving
  <1>8. Shut'
    <2>1. \A m \in Loop : Closing(m)' => m # l /\ Closing(m)
      BY <1>1, <1>2, <1>3 DEF Closing
    <2>2. \A m \in Loop : pc[m] \in {"truncate", "open"} => pc'[m] = pc[m]
      BY <1>1, <1>2, <1>3
    <2>3. QED
      BY <1>1, <1>2, <1>4, <1>6, <2>1, <2>2 DEF Shut, Serving
  <1>9. Marked'
    BY <1>1, Frames
  <1>10. Kept'
    <2>1. NoTruncate' => NoTruncate
      BY <1>1, <1>2, <1>3 DEF NoTruncate
    <2>2. QED
      BY <1>1, <1>6, <2>1 DEF Kept
  <1>11. BufferBounded'
    <2>1. \A m \in Loop : pc'[m] = "swap" <=> pc[m] = "swap"
      BY <1>1, <1>2, <1>3
    <2>2. QED
      BY <1>1, <1>6, <2>1, Bounded
  <1>12. HotInv'
    <2> SUFFICES ASSUME Hot' PROVE Pending' /\ Unsynced'
      BY DEF HotInv
    <2>1. Pending /\ Unsynced /\ local[l] = <<>> /\ "sync" \notin failed'
      BY <1>1, <1>3, <1>6 DEF HotInv, Phased, Hot
    <2>2. rec[l].id \notin Ids(buffer) /\ \A t \in Thread : rec[l].id \notin Ids(local[t])
      BY <1>1, <2>1, EmptyIds DEF Pending
    <2>3. \A m \in Loop : pc'[m] \in {"write", "sync"} => m # l /\ pc[m] \in {"write", "sync"}
      BY <1>1, <1>2, <1>3
    <2>4. Pending'
      BY <1>1, <1>2, <2>1, <2>2, <2>3 DEF Pending
    <2>5. Unsynced'
      <3>1. CASE open
        <4>1. Len(file) + 1 .. Len(file) = {}
          BY <1>4
        <4>2. QED
          BY <1>1, <1>4, <2>1, <3>1, <4>1 DEF Unsynced
      <3>2. CASE ~open
        BY <1>1, <1>3, <1>4, <2>1, <3>2 DEF Unsynced
      <3>3. QED
        BY <3>1, <3>2
    <2>6. QED
      BY <2>4, <2>5
  <1>13. QED
    BY <1>2, <1>5, <1>7, <1>8, <1>9, <1>10, <1>11, <1>12

LEMMA FlushSyncKeeps ==
  ASSUME AllInv, FlushSync
  PROVE  AllInv'
  <1> USE DEF AllInv, AofInv, TypeInv
  <1>1. /\ pc[Flusher] = "sync" /\ pc' = [pc EXCEPT ![Flusher] = "idle"]
        /\ UNCHANGED <<db, cleared, buffer, file, open, phase, todo, restarts, rec, local, policy,
                       issued, acked, dropped, erased, logged, crossed>>
        /\ \/ policy = "everysec" /\ SyncFile
           \/ UNCHANGED <<flushed, synced, failed>>
    BY DEF FlushSync, server
  <1>2. Flusher \in Thread /\ Len(file) \in Nat /\ \A m \in Loop : m \in Thread /\ m # Flusher
    BY Shapes
  <1>3. /\ pc' \in [Thread -> Step] /\ pc'[Flusher] = "idle"
        /\ \A u \in Thread : u # Flusher => pc'[u] = pc[u]
        /\ Numbered'
    BY <1>1, <1>2, Move DEF Step
  <1>4. /\ synced' \in 0 .. Len(file') /\ flushed' \in synced' .. Len(file')
        /\ failed' \in {failed, failed \cup {"sync"}}
        /\ policy = "everysec" \/ synced' = synced
    <2>1. CASE policy = "everysec" /\ SyncFile
      BY <1>1, <2>1, Synced
    <2>2. CASE UNCHANGED <<flushed, synced, failed>>
      BY <1>1, <2>2 DEF TypeOK
    <2>3. QED
      BY <1>1, <2>1, <2>2
  <1>5. /\ Hot' => Hot
        /\ Calm' <=> Calm
        /\ "open" \in failed' <=> "open" \in failed
        /\ "sync" \in failed => "sync" \in failed'
    BY <1>1, <1>4 DEF Hot, Calm
  <1>6. TypeOK'
    <2>1. failed' \subseteq Failures
      BY <1>4 DEF TypeOK, Failures
    <2>2. QED
      BY <1>1, <1>3, <1>4, <2>1 DEF TypeOK, Step, Failures
  <1>7. Phased'
    <2>1. \A t \in Thread : pc'[t] # "write" => local[t] = <<>>
      BY <1>1, <1>3 DEF Phased
    <2>2. Serving /\ Serving'
      BY <1>1, <1>2 DEF Phased, Serving
    <2>3. QED
      BY <1>1, <1>3, <2>1, <2>2 DEF Phased, Serving
  <1>8. Shut'
    <2>1. \A m \in Loop : pc'[m] = pc[m]
      BY <1>2, <1>3
    <2>2. QED
      BY <1>1, <1>5, <2>1 DEF Shut, Closing, Serving
  <1>9. Marked'
    BY <1>1, Frames
  <1>10. Kept'
    <2>1. NoTruncate' => NoTruncate
      BY <1>1, <1>2, <1>3 DEF NoTruncate
    <2>2. QED
      BY <1>1, <1>5, <2>1 DEF Kept
  <1>11. BufferBounded'
    <2>1. \A m \in Loop : pc'[m] = "swap" <=> pc[m] = "swap"
      BY <1>1, <1>2, <1>3
    <2>2. QED
      BY <1>1, <1>5, <2>1, Bounded
  <1>12. HotInv'
    <2> SUFFICES ASSUME Hot' PROVE Pending' /\ Unsynced'
      BY DEF HotInv
    <2>1. Pending /\ Unsynced /\ UNCHANGED synced
      BY <1>1, <1>4, <1>5 DEF HotInv, Hot
    <2>2. \A m \in Loop : pc'[m] \in {"write", "sync"} => pc[m] \in {"write", "sync"}
      BY <1>2, <1>3
    <2>3. Pending'
      BY <1>1, <2>1, <2>2 DEF Pending
    <2>4. Unsynced'
      BY <1>1, <2>1 DEF Unsynced, Serving
    <2>5. QED
      BY <2>3, <2>4
  <1>13. QED
    BY <1>3, <1>6, <1>7, <1>8, <1>9, <1>10, <1>11, <1>12

LEMMA CloseFileKeeps ==
  ASSUME AllInv, NEW l \in Loop, CloseFile(l)
  PROVE  AllInv'
  <1> USE DEF AllInv, AofInv, TypeInv
  <1>1. /\ pc[l] = "close" /\ pc' = [pc EXCEPT ![l] = "truncate"]
        /\ UNCHANGED <<db, cleared, phase, todo, restarts, rec, local, policy, issued, acked, dropped,
                       erased, logged>>
        /\ \/ /\ open /\ WriteOut(file \o buffer) /\ buffer' = <<>> /\ open' = FALSE
              /\ crossed' = IF Held THEN crossed \cup {"batches"} ELSE crossed
           \/ ~open /\ UNCHANGED <<buffer, file, flushed, synced, open, failed, crossed>>
    BY DEF CloseFile, server, medium
  <1>2. l \in Thread /\ \A m \in Loop : m \in Thread /\ m # Flusher
    BY Shapes
  <1>3. /\ pc' \in [Thread -> Step] /\ pc'[l] = "truncate"
        /\ \A u \in Thread : u # l => pc'[u] = pc[u]
        /\ Numbered'
    BY <1>1, <1>2, Move DEF Step
  <1>4. Serving /\ Serving' /\ ~NoTruncate'
    BY <1>1, <1>2, <1>3 DEF Phased, Serving, NoTruncate
  <1>5. Phased'
    <2>1. \A t \in Thread : pc'[t] # "write" => local[t] = <<>>
      BY <1>1, <1>3 DEF Phased
    <2>2. phase = "draining" => pc'[Flusher] = "idle"
      BY <1>2, <1>3, Shapes DEF Phased
    <2>3. QED
      BY <1>1, <1>4, <2>1, <2>2 DEF Phased, Serving
  <1>6. \A m \in Loop : Closing(m)' => rec'[m].cmd.op = "flushall"
    <2>1. \A m \in Loop : Closing(m)' => Closing(m)
      BY <1>1, <1>2, <1>3 DEF Closing
    <2>2. QED
      BY <1>1, <2>1 DEF Shut
  <1>7. CASE ~open /\ UNCHANGED <<buffer, file, flushed, synced, open, failed, crossed>>
    <2>1. TypeOK'
      BY <1>1, <1>3, <1>7 DEF TypeOK, Step
    <2>2. Shut'
      BY <1>1, <1>3, <1>4, <1>6, <1>7 DEF Shut
    <2>3. Marked'
      BY <1>1, <1>7, Frames
    <2>4. Kept'
      BY <1>1, <1>4, <1>7 DEF Kept, Hot, Calm
    <2>5. BufferBounded'
      <3>1. \A m \in Loop : pc'[m] = "swap" <=> pc[m] = "swap"
        BY <1>1, <1>2, <1>3
      <3>2. QED
        BY <1>7, <3>1, Bounded
    <2>6. HotInv'
      <3>1. \A m \in Loop : pc'[m] \in {"write", "sync"} => pc[m] \in {"write", "sync"}
        BY <1>1, <1>2, <1>3
      <3>2. Pending => Pending'
        BY <1>1, <1>7, <3>1 DEF Pending
      <3>3. Unsynced => Unsynced'
        BY <1>1, <1>4, <1>7 DEF Unsynced
      <3>4. QED
        BY <1>1, <1>7, <3>2, <3>3 DEF HotInv, Hot
    <2>7. QED
      BY <1>3, <1>5, <2>1, <2>2, <2>3, <2>4, <2>5, <2>6
  <1>8. CASE /\ open /\ WriteOut(file \o buffer) /\ buffer' = <<>> /\ open' = FALSE
             /\ crossed' = IF Held THEN crossed \cup {"batches"} ELSE crossed
    <2> DEFINE s == file \o buffer
    <2>1. file \in Seq(Rec) /\ buffer \in Seq(Rec) /\ Len(file) \in Nat /\ Len(buffer) \in Nat
      BY Shapes
    <2>2. /\ s \in Seq(Rec) /\ Len(file) <= Len(s) /\ Ids(s) = Ids(file) \cup Ids(buffer)
          /\ Plain(s) <=> Plain(file) /\ Plain(buffer)
      BY <2>1, ConcatIds
    <2> HIDE DEF s
    <2>3. WriteOut(s)
      BY <1>8 DEF s
    <2>4. /\ file' \in Seq(Rec) /\ Len(file') \in Nat
          /\ synced' \in 0 .. Len(file') /\ flushed' \in synced' .. Len(file')
          /\ Plain(s) => Plain(file')
          /\ failed \subseteq failed' /\ failed' \subseteq Failures
          /\ "open" \in failed' => "open" \in failed
          /\ \/ /\ failed' = failed /\ file' = s
                /\ "sync" \notin failed => synced' = Len(file')
             \/ "write" \in failed' /\ "sync" \in failed'
      BY <2>2, <2>3, Given
    <2>5. crossed \subseteq crossed' /\ crossed' \subseteq {"batches", "commands", "late"}
      BY <1>8 DEF TypeOK
    <2>6. (Hot' => Hot) /\ (Calm' => Calm)
      BY <1>1, <2>4, <2>5, Grows
    <2>7. Hot' => \A t \in Thread : local[t] = <<>>
      BY <1>8 DEF Hot, Held
    <2>8. TypeOK'
      BY <1>1, <1>3, <1>8, <2>4, <2>5, EmptyIds DEF TypeOK, Step, Rec, Failures
    <2>9. Shut'
      BY <1>3, <1>6, <1>8, <2>4 DEF Shut
    <2>10. Marked'
      BY <1>1, <1>8, <2>2, <2>4, EmptyIds DEF Marked
    <2>11. Kept'
      <3> SUFFICES ASSUME Calm', Hot' PROVE Ids(logged) \subseteq Ids(file')
        BY <1>1, <1>4 DEF Kept
      <3>1. file' = s
        BY <2>4 DEF Hot
      <3>2. UNION {Ids(local[t]) : t \in Thread} = {}
        BY <2>7, EmptyIds
      <3>3. Ids(logged) \subseteq Ids(file) \cup Ids(buffer) \cup UNION {Ids(local[t]) : t \in Thread}
        BY <2>6 DEF Kept
      <3>4. QED
        BY <2>2, <3>1, <3>2, <3>3
    <2>12. BufferBounded'
      BY <1>8, EmptyIds, Bounded
    <2>13. HotInv'
      <3> SUFFICES ASSUME Hot' PROVE Pending' /\ Unsynced'
        BY DEF HotInv
      <3>1. synced' = Len(file')
        BY <2>4, <2>6 DEF Hot
      <3>2. Len(file') + 1 .. Len(file') = {}
        BY <2>4
      <3>3. Unsynced'
        BY <3>1, <3>2 DEF Unsynced
      <3>4. Pending'
        BY <1>1, <1>8, <2>7, EmptyIds DEF Pending
      <3>5. QED
        BY <3>3, <3>4
    <2>14. QED
      BY <1>3, <1>5, <2>8, <2>9, <2>10, <2>11, <2>12, <2>13
  <1>9. QED
    BY <1>1, <1>7, <1>8

\* What a truncation cannot take away, since it is not in the file yet.
LEMMA Behind ==
  ASSUME TypeOK
  PROVE  /\ Unflushed \in Seq(Rec) /\ Items(Unflushed) \subseteq Items(file)
         /\ \A i \in DOMAIN Unflushed :
               open /\ \E j \in synced + 1 .. Len(file) : Unflushed[i] = file[j]
  <1>1. /\ file \in Seq(Rec) /\ synced \in Nat /\ flushed \in Nat /\ Len(file) \in Nat
        /\ synced <= flushed /\ flushed <= Len(file)
    BY Shapes
  <1>2. CASE ~open
    BY <1>2, EmptyIds DEF Unflushed, Items
  <1>3. CASE open
    <2> DEFINE m == flushed + 1
               u == SubSeq(file, m, Len(file))
    <2>1. m \in 1 .. Len(file) + 1 /\ Len(file) \in 0 .. Len(file)
      BY <1>1
    <2>2. \A i \in m .. Len(file) : file[i] \in Rec
      <3>1. \A i \in m .. Len(file) : i \in 1 .. Len(file)
        BY <1>1
      <3>2. QED
        BY <1>1, <3>1, ElementOfSeq
    <2>3. /\ u \in Seq(Rec)
          /\ DOMAIN u = 1 .. IF m <= Len(file) THEN Len(file) - m + 1 ELSE 0
          /\ \A i \in 1 .. Len(file) - m + 1 : u[i] = file[m + i - 1]
      BY <1>1, <2>1, <2>2, SubSeqProperties, LenProperties
    <2>4. Items(u) \subseteq Items(file)
      BY <1>1, <2>1, ItemsOf
    <2> HIDE DEF u
    <2>5. ASSUME NEW i \in DOMAIN u PROVE \E j \in synced + 1 .. Len(file) : u[i] = file[j]
      <3>1. i \in 1 .. Len(file) - m + 1 /\ m + i - 1 \in synced + 1 .. Len(file)
        BY <1>1, <2>3
      <3>2. QED
        BY <2>3, <3>1
    <2>6. Unflushed = u
      BY <1>3 DEF Unflushed, u
    <2>7. QED
      BY <1>3, <2>3, <2>4, <2>5, <2>6
  <1>4. QED
    BY <1>2, <1>3

\* A file that is written anew, of which only the head can be told.
LEMMA Anew ==
  ASSUME TypeOK, NEW head \in Seq(Rec), file' = head \o Unflushed, flushed' = Len(head), synced' = 0,
         \A i \in DOMAIN head : head[i] = Torn \/ head[i].cmd.op = "flushall"
  PROVE  /\ file' \in Seq(Rec) /\ Len(file') \in Nat
         /\ synced' \in 0 .. Len(file') /\ flushed' \in synced' .. Len(file')
         /\ Ids(head) \subseteq Ids(file')
         /\ Items(file') \subseteq Items(head) \cup Items(file)
         /\ Unsynced /\ UNCHANGED <<acked, phase, open>> => Unsynced'
  <1> DEFINE u == Unflushed
  <1>1. /\ u \in Seq(Rec) /\ Items(u) \subseteq Items(file)
        /\ \A i \in DOMAIN u : open /\ \E j \in synced + 1 .. Len(file) : u[i] = file[j]
    BY Behind
  <1> HIDE DEF u
  <1>2. file' = head \o u
    BY DEF u
  <1>3. /\ file' \in Seq(Rec) /\ Len(file') = Len(head) + Len(u)
        /\ Len(head) \in Nat /\ Len(u) \in Nat
        /\ \A i \in 1 .. Len(head) : file'[i] = head[i]
        /\ \A i \in Len(head) + 1 .. Len(file') : i - Len(head) \in DOMAIN u /\ file'[i] = u[i - Len(head)]
        /\ Ids(file') = Ids(head) \cup Ids(u)
    BY <1>1, <1>2, ConcatIds
  <1>4. Items(file') \subseteq Items(head) \cup Items(file)
    BY <1>1, <1>2, ItemsOf
  <1>5. ASSUME Unsynced, UNCHANGED <<acked, phase, open>> PROVE Unsynced'
    <2>1. ASSUME NEW i \in 0 + 1 .. Len(file'), file'[i] # Torn, file'[i].cmd.op # "flushall"
          PROVE  file'[i].id \notin acked /\ open
      <3>1. i \in 1 .. Len(head) \/ i \in Len(head) + 1 .. Len(file')
        BY <1>3
      <3>2. i \notin 1 .. Len(head)
        BY <1>3, <2>1, LenProperties
      <3>3. i - Len(head) \in DOMAIN u /\ file'[i] = u[i - Len(head)]
        BY <1>3, <3>1, <3>2
      <3>4. open /\ \E j \in synced + 1 .. Len(file) : u[i - Len(head)] = file[j]
        BY <1>1, <3>3
      <3>5. QED
        BY <1>5, <2>1, <3>3, <3>4 DEF Unsynced
    <2>2. QED
      BY <1>5, <2>1 DEF Unsynced
  <1>6. QED
    BY <1>3, <1>4, <1>5

\* The numbers of the log.
LEMMA Issued ==
  ASSUME AllInv, Fresh
  PROVE  /\ Ids(logged) \subseteq 1 .. issued /\ Ids(logged) \subseteq 1 .. MaxCommands
         /\ \A m \in Loop : pc[m] # "idle" => rec[m].id \in 1 .. MaxCommands
  <1>1. 1 .. issued \subseteq 1 .. MaxCommands
    BY CommandShape DEF AllInv, AofInv, TypeInv, TypeOK
  <1>2. Ids(logged) \subseteq 1 .. issued
    BY DEF Fresh, Holdings, Items, Ids
  <1>3. QED
    BY <1>1, <1>2 DEF AllInv, AofInv, TypeInv, Numbered

\* A FLUSHALL goes on from the truncation to the reopening.
LEMMA TruncatedOn ==
  ASSUME AllInv, NEW l \in Loop, pc[l] = "truncate", pc' = [pc EXCEPT ![l] = "open"],
         UNCHANGED <<buffer, open, phase, rec, local, policy, issued, acked, crossed>>,
         failed \subseteq failed', "open" \in failed' => "open" \in failed
  PROVE  /\ pc' \in [Thread -> Step] /\ Numbered' /\ Phased' /\ Shut' /\ BufferBounded'
         /\ Hot => (Pending => Pending')
         /\ Hot' => Hot
         /\ rec[l].cmd.op = "flushall" /\ rec[l] \in Record /\ l \in Thread
  <1> USE DEF AllInv, AofInv, TypeInv
  <1>1. l \in Thread /\ (\A m \in Loop : m \in Thread /\ m # Flusher) /\ rec[l] \in Record
    BY Shapes
  <1>2. /\ pc' \in [Thread -> Step] /\ pc'[l] = "open"
        /\ \A u \in Thread : u # l => pc'[u] = pc[u]
        /\ Numbered'
    BY <1>1, Move DEF Step
  <1>3. Serving /\ Serving'
    BY <1>1 DEF Phased, Serving
  <1>4. Phased'
    <2>1. \A t \in Thread : pc'[t] # "write" => local[t] = <<>>
      BY <1>2 DEF Phased
    <2>2. phase = "draining" => pc'[Flusher] = "idle"
      BY <1>1, <1>2, Shapes DEF Phased
    <2>3. QED
      BY <1>3, <2>1, <2>2 DEF Phased, Serving
  <1>5. Shut'
    <2>1. \A m \in Loop : Closing(m)' => Closing(m)
      BY <1>1, <1>2 DEF Closing
    <2>2. QED
      BY <1>2, <1>3, <2>1 DEF Shut
  <1>6. BufferBounded'
    <2>1. \A m \in Loop : pc'[m] = "swap" <=> pc[m] = "swap"
      BY <1>1, <1>2
    <2>2. QED
      BY <2>1, Bounded
  <1>7. Pending => Pending'
    <2>1. \A m \in Loop : pc'[m] \in {"write", "sync"} => pc[m] \in {"write", "sync"}
      BY <1>1, <1>2
    <2>2. QED
      BY <2>1 DEF Pending
  <1>8. rec[l].cmd.op = "flushall"
    BY DEF Shut, Closing
  <1>9. QED
    BY <1>1, <1>2, <1>4, <1>5, <1>6, <1>7, <1>8 DEF Hot

LEMMA TruncateKeeps ==
  ASSUME AllInv, Fresh, NEW l \in Loop, Truncate(l)
  PROVE  AllInv'
  <1> USE DEF AllInv, AofInv, TypeInv
  <1>1. PICK hole \in {<<>>, <<Torn>>} :
          file' = <<rec[l]>> \o hole \o Unflushed /\ flushed' = 1 + Len(hole)
    BY DEF Truncate
  <1>2. /\ pc[l] = "truncate" /\ pc' = [pc EXCEPT ![l] = "open"]
        /\ synced' = 0 /\ logged' = <<rec[l]>> /\ erased' = erased \cup Ids(logged)
        /\ UNCHANGED <<db, cleared, buffer, open, phase, todo, restarts, rec, local, policy, issued,
                       acked, dropped, failed, crossed>>
    BY DEF Truncate, server
  <1>3. /\ pc' \in [Thread -> Step] /\ Numbered' /\ Phased' /\ Shut' /\ BufferBounded'
        /\ Hot => (Pending => Pending')
        /\ Hot' => Hot
        /\ rec[l].cmd.op = "flushall" /\ rec[l] \in Record
    BY <1>2, TruncatedOn
  <1> DEFINE head == <<rec[l]>> \o hole
  <1>4. /\ <<rec[l]>> \in Seq(Rec) /\ Len(<<rec[l]>>) = 1 /\ <<rec[l]>>[1] = rec[l]
        /\ Ids(<<rec[l]>>) = {rec[l].id} /\ ~Plain(<<rec[l]>>)
    BY <1>3, SingleIds
  <1>5. /\ hole \in Seq(Rec) /\ \A i \in DOMAIN hole : hole[i] = Torn
    BY TearIds
  <1>6. /\ head \in Seq(Rec) /\ Len(head) = 1 + Len(hole) /\ Len(hole) \in Nat
        /\ Ids(<<rec[l]>>) \subseteq Ids(head)
        /\ \A i \in 1 .. 1 : head[i] = <<rec[l]>>[i]
        /\ \A i \in 1 + 1 .. Len(head) : i - 1 \in DOMAIN hole /\ head[i] = hole[i - 1]
    <2>1. PICK one : one = <<rec[l]>>
      OBVIOUS
    <2>2. one \in Seq(Rec) /\ Len(one) = 1 /\ head = one \o hole
      BY <1>4, <2>1
    <2> HIDE DEF head
    <2>3. /\ head \in Seq(Rec) /\ Len(head) = Len(one) + Len(hole) /\ Len(hole) \in Nat
          /\ \A i \in 1 .. Len(one) : head[i] = one[i]
          /\ \A i \in Len(one) + 1 .. Len(head) :
                i - Len(one) \in DOMAIN hole /\ head[i] = hole[i - Len(one)]
          /\ Ids(head) = Ids(one) \cup Ids(hole)
      BY <1>5, <2>2, ConcatIds
    <2>4. QED
      BY <2>1, <2>2, <2>3
  <1> HIDE DEF head
  <1>7. \A i \in DOMAIN head : head[i] = Torn \/ head[i].cmd.op = "flushall"
    <2>1. \A i \in DOMAIN head : i \in 1 .. 1 \/ i \in 1 + 1 .. Len(head)
      BY <1>6, LenProperties
    <2>2. QED
      BY <1>3, <1>4, <1>5, <1>6, <2>1
  <1>8. /\ file' \in Seq(Rec) /\ Len(file') \in Nat
        /\ synced' \in 0 .. Len(file') /\ flushed' \in synced' .. Len(file')
        /\ Ids(head) \subseteq Ids(file')
        /\ Unsynced => Unsynced'
    <2>1. file' = head \o Unflushed /\ flushed' = Len(head)
      BY <1>1, <1>6 DEF head
    <2>2. QED
      BY <1>2, <1>6, <1>7, <2>1, Anew
  <1>9. TypeOK'
    <2>1. erased' \subseteq 1 .. MaxCommands
      BY <1>2, Issued DEF TypeOK
    <2>2. QED
      BY <1>2, <1>3, <1>4, <1>8, <2>1 DEF TypeOK, Step, Rec
  <1>10. Marked'
    BY <1>2, <1>4 DEF Marked
  <1>11. Kept'
    <2>1. Ids(logged') \subseteq Ids(file')
      BY <1>2, <1>4, <1>6, <1>8
    <2>2. QED
      BY <2>1 DEF Kept
  <1>12. HotInv'
    BY <1>3, <1>8 DEF HotInv
  <1>13. QED
    BY <1>3, <1>9, <1>10, <1>11, <1>12

LEMMA TruncateErrorKeeps ==
  ASSUME AllInv, Fresh, NEW l \in Loop, TruncateError(l)
  PROVE  AllInv'
  <1> USE DEF AllInv, AofInv, TypeInv
  <1>1. /\ pc[l] = "truncate" /\ pc' = [pc EXCEPT ![l] = "open"]
        /\ UNCHANGED <<db, cleared, buffer, open, phase, todo, restarts, rec, local, policy, issued,
                       acked, crossed>>
        /\ \/ /\ dropped' = dropped \cup {rec[l].id} /\ failed' = failed \cup {"truncate"}
              /\ UNCHANGED <<file, flushed, synced, logged, erased>>
           \/ /\ \E torn \in {<<>>, <<Torn>>} : file' = torn \o Unflushed /\ flushed' = Len(torn)
              /\ synced' = 0 /\ logged' = <<rec[l]>> /\ erased' = erased \cup Ids(logged)
              /\ failed' = failed \cup {"write"} /\ dropped' = dropped
    BY DEF TruncateError, server
  <1>2. /\ pc' \in [Thread -> Step] /\ Numbered' /\ Phased' /\ Shut' /\ BufferBounded'
        /\ Hot => (Pending => Pending')
        /\ Hot' => Hot
        /\ rec[l].cmd.op = "flushall" /\ rec[l] \in Record
    <2>1. failed \subseteq failed' /\ ("open" \in failed' => "open" \in failed)
      BY <1>1
    <2>2. QED
      BY <1>1, <2>1, TruncatedOn
  <1>3. Kept' /\ failed' \subseteq Failures
    <2>0. "truncate" \in failed' \/ "write" \in failed'
      BY <1>1
    <2>1. ~Calm'
      BY <2>0 DEF Calm
    <2>2. failed \subseteq Failures
      BY DEF TypeOK, Failures
    <2>3. failed' \subseteq Failures
      BY <1>1, <2>2 DEF Failures
    <2>4. QED
      BY <2>1, <2>3 DEF Kept
  <1>4. CASE /\ dropped' = dropped \cup {rec[l].id}
             /\ UNCHANGED <<file, flushed, synced, logged, erased>>
    <2>1. TypeOK'
      <3>1. dropped' \subseteq 1 .. MaxCommands
        BY <1>1, <1>4, Issued DEF TypeOK
      <3>2. QED
        BY <1>1, <1>2, <1>3, <1>4, <3>1 DEF TypeOK, Step, Failures
    <2>2. Marked'
      BY <1>1, <1>4, Frames
    <2>3. HotInv'
      <3>1. Unsynced => Unsynced'
        BY <1>1, <1>4 DEF Unsynced, Serving
      <3>2. QED
        BY <1>2, <3>1 DEF HotInv
    <2>4. QED
      BY <1>2, <1>3, <2>1, <2>2, <2>3
  <1>5. CASE /\ \E torn \in {<<>>, <<Torn>>} : file' = torn \o Unflushed /\ flushed' = Len(torn)
             /\ synced' = 0 /\ logged' = <<rec[l]>> /\ erased' = erased \cup Ids(logged)
             /\ dropped' = dropped
    <2>1. PICK torn \in {<<>>, <<Torn>>} : file' = torn \o Unflushed /\ flushed' = Len(torn)
      BY <1>5
    <2>2. torn \in Seq(Rec) /\ \A i \in DOMAIN torn : torn[i] = Torn
      BY TearIds
    <2>3. /\ file' \in Seq(Rec) /\ Len(file') \in Nat
          /\ synced' \in 0 .. Len(file') /\ flushed' \in synced' .. Len(file')
          /\ Unsynced => Unsynced'
      BY <1>1, <1>5, <2>1, <2>2, Anew
    <2>4. <<rec[l]>> \in Seq(Rec) /\ ~Plain(<<rec[l]>>)
      BY <1>2, SingleIds
    <2>5. TypeOK'
      <3>1. erased' \subseteq 1 .. MaxCommands
        BY <1>5, Issued DEF TypeOK
      <3>2. QED
        BY <1>1, <1>2, <1>3, <1>5, <2>3, <2>4, <3>1 DEF TypeOK, Step, Rec, Failures
    <2>6. Marked'
      BY <1>1, <1>5, <2>4 DEF Marked
    <2>7. HotInv'
      BY <1>2, <2>3 DEF HotInv
    <2>8. QED
      BY <1>2, <1>3, <2>5, <2>6, <2>7
  <1>6. QED
    BY <1>1, <1>4, <1>5

LEMMA ReopenKeeps ==
  ASSUME AllInv, Fresh, NEW l \in Loop, Reopen(l)
  PROVE  AllInv'
  <1> USE DEF AllInv, AofInv, TypeInv
  <1>1. /\ pc[l] = "open" /\ open' = TRUE /\ flushed' = Len(file) /\ Answer(l)
        /\ UNCHANGED <<db, cleared, buffer, file, synced, phase, todo, restarts, local, policy, issued,
                       dropped, erased, logged, failed, crossed>>
    BY DEF Reopen, server
  <1>2. /\ pc' \in [Thread -> Step] /\ pc'[l] = "idle"
        /\ \A u \in Thread : u # l => pc'[u] = pc[u]
        /\ rec' \in [Loop -> Record] /\ \A m \in Loop : m # l => rec'[m] = rec[m]
        /\ acked' = acked \cup {rec[l].id} /\ acked' \subseteq 1 .. MaxCommands
        /\ Numbered'
    BY <1>1, Answered
  <1>3. /\ Serving /\ Serving' /\ l \in Thread /\ l # Flusher /\ Flusher \in Thread
        /\ \A m \in Loop : m \in Thread
    BY <1>1, Shapes DEF Phased, Serving
  <1>4. TypeOK'
    <2>1. synced \in 0 .. Len(file) /\ Len(file) \in synced .. Len(file)
      BY Shapes DEF TypeOK
    <2>2. QED
      BY <1>1, <1>2, <2>1 DEF TypeOK, Step
  <1>5. Phased'
    <2>1. \A t \in Thread : pc'[t] # "write" => local[t] = <<>>
      BY <1>1, <1>2 DEF Phased
    <2>2. pc'[Flusher] = pc[Flusher]
      BY <1>2, <1>3
    <2>3. QED
      BY <1>1, <1>3, <2>1, <2>2 DEF Phased, Serving
  <1>6. Shut'
    <2>1. \A m \in Loop : Closing(m)' => m # l /\ Closing(m)
      BY <1>1, <1>2, <1>3 DEF Closing
    <2>2. QED
      BY <1>1, <1>2, <2>1 DEF Shut
  <1>7. Marked'
    BY <1>1, Frames
  <1>8. Kept'
    <2>1. NoTruncate' => NoTruncate
      BY <1>1, <1>2, <1>3 DEF NoTruncate
    <2>2. QED
      BY <1>1, <2>1 DEF Kept, Hot, Calm
  <1>9. BufferBounded'
    <2>1. \A m \in Loop : pc'[m] = "swap" <=> pc[m] = "swap"
      BY <1>1, <1>2, <1>3
    <2>2. QED
      BY <1>1, <2>1, Bounded
  <1>10. HotInv'
    <2> SUFFICES ASSUME Hot PROVE Pending' /\ Unsynced'
      BY <1>1 DEF HotInv, Hot
    <2>1. Pending /\ Unsynced
      BY DEF HotInv
    <2>2. ASSUME NEW x \in Holdings, x # Torn, x.id = rec[l].id PROVE x.cmd.op = "flushall"
      BY <1>1, <2>2 DEF Fresh, Closing
    <2>3. ASSUME NEW s, Items(s) \subseteq Holdings, Plain(s) PROVE rec[l].id \notin Ids(s)
      <3>1. \A i \in DOMAIN s : s[i] \in Holdings
        BY <2>3 DEF Items
      <3>2. QED
        BY <2>2, <2>3, <3>1 DEF Ids, Plain
    <2>4. rec[l].id \notin Ids(buffer) /\ \A t \in Thread : rec[l].id \notin Ids(local[t])
      <3>1. Items(buffer) \subseteq Holdings /\ \A t \in Thread : Items(local[t]) \subseteq Holdings
        BY DEF Holdings
      <3>2. Plain(buffer) /\ \A t \in Thread : Plain(local[t])
        BY DEF Marked
      <3>3. QED
        BY <2>3, <3>1, <3>2
    <2>5. \A m \in Loop : pc'[m] \in {"write", "sync"} => m # l /\ pc[m] \in {"write", "sync"}
      BY <1>1, <1>2, <1>3
    <2>6. Pending'
      BY <1>1, <1>2, <2>1, <2>4, <2>5 DEF Pending
    <2>7. ASSUME NEW i \in synced + 1 .. Len(file), file[i] # Torn, file[i].cmd.op # "flushall"
          PROVE  file[i].id # rec[l].id
      <3>1. i \in DOMAIN file
        BY Shapes, LenProperties
      <3>2. file[i] \in Holdings
        BY <3>1 DEF Holdings, Items
      <3>3. QED
        BY <2>2, <2>7, <3>2
    <2>8. Unsynced'
      BY <1>1, <1>2, <2>1, <2>7 DEF Unsynced
    <2>9. QED
      BY <2>6, <2>8
  <1>11. QED
    BY <1>2, <1>4, <1>5, <1>6, <1>7, <1>8, <1>9, <1>10

LEMMA ReopenErrorKeeps ==
  ASSUME AllInv, NEW l \in Loop, ReopenError(l)
  PROVE  AllInv'
  <1> USE DEF AllInv, AofInv, TypeInv
  <1>1. /\ pc[l] = "open" /\ open' \in {FALSE, open} /\ Lose(file) /\ Answer(l)
        /\ failed' = failed \cup {"write", "sync"} \cup IF open' THEN {} ELSE {"open"}
        /\ UNCHANGED <<db, cleared, buffer, phase, todo, restarts, local, policy, issued, dropped,
                       erased, logged, crossed>>
    BY DEF ReopenError, server
  <1>2. /\ pc' \in [Thread -> Step] /\ pc'[l] = "idle"
        /\ \A u \in Thread : u # l => pc'[u] = pc[u]
        /\ rec' \in [Loop -> Record] /\ \A m \in Loop : m # l => rec'[m] = rec[m]
        /\ acked' = acked \cup {rec[l].id} /\ acked' \subseteq 1 .. MaxCommands
        /\ Numbered'
    BY <1>1, Answered
  <1>3. /\ Serving /\ Serving' /\ l \in Thread /\ l # Flusher /\ Flusher \in Thread
        /\ \A m \in Loop : m \in Thread
    BY <1>1, Shapes DEF Phased, Serving
  <1>4. /\ file' \in Seq(Rec) /\ Len(file') \in Nat
        /\ synced' \in 0 .. Len(file') /\ flushed' \in synced' .. Len(file')
        /\ Plain(file) => Plain(file')
    BY <1>1, Lost, Shapes
  <1>5. "write" \in failed' /\ "sync" \in failed' /\ (open' \/ "open" \in failed')
    BY <1>1
  <1>6. TypeOK'
    <2>1. failed' \subseteq Failures
      BY <1>1 DEF TypeOK, Failures
    <2>2. open' \in BOOLEAN
      BY <1>1 DEF TypeOK
    <2>3. QED
      BY <1>1, <1>2, <1>4, <2>1, <2>2 DEF TypeOK, Step, Rec, Failures
  <1>7. Phased'
    <2>1. \A t \in Thread : pc'[t] # "write" => local[t] = <<>>
      BY <1>1, <1>2 DEF Phased
    <2>2. pc'[Flusher] = pc[Flusher]
      BY <1>2, <1>3
    <2>3. QED
      BY <1>1, <1>3, <2>1, <2>2 DEF Phased, Serving
  <1>8. Shut'
    <2>1. \A m \in Loop : Closing(m)' => m # l /\ Closing(m)
      BY <1>1, <1>2, <1>3 DEF Closing
    <2>2. QED
      BY <1>2, <1>5, <2>1 DEF Shut
  <1>9. Marked'
    BY <1>1, <1>4 DEF Marked
  <1>10. Kept' /\ HotInv'
    BY <1>5 DEF Kept, Calm, HotInv, Hot
  <1>11. BufferBounded'
    <2>1. \A m \in Loop : pc'[m] = "swap" <=> pc[m] = "swap"
      BY <1>1, <1>2, <1>3
    <2>2. "open" \in failed => "open" \in failed'
      BY <1>1
    <2>3. QED
      BY <1>1, <2>1, <2>2, Bounded
  <1>12. QED
    BY <1>2, <1>6, <1>7, <1>8, <1>9, <1>10, <1>11

-----------------------------------------------------------------------------
(* The server stops, crashes and starts again. *)

ShutdownVars == <<buffer, file, flushed, synced, open, todo, restarts, pc, rec, local, policy,
                  issued, acked, dropped, erased, logged, failed, crossed>>

\* Only the phase changes, and perhaps the keyspace.
LEMMA PhaseChanges ==
  ASSUME AllInv, UNCHANGED ShutdownVars, db' \in [Key -> Nat], cleared' \in [Key -> Nat],
         phase' \in {"up", "stopping", "draining", "stopped", "down", "loading"},
         Serving', phase \in {"up", "stopping", "loading"},
         phase' = "draining" => pc[Flusher] = "idle"
  PROVE  AllInv'
  <1> USE DEF AllInv, AofInv, TypeInv, ShutdownVars
  <1>1. Numbered' /\ Marked' /\ Kept' /\ BufferBounded'
    BY Frames
  <1>0. Shut'
    <2>1. ~Serving => open \/ "open" \in failed
      BY DEF Phased, Serving
    <2>2. QED
      BY <2>1 DEF Shut, Closing
  <1>2. TypeOK'
    BY DEF TypeOK
  <1>3. Phased'
    BY DEF Phased, Serving
  <1>4. HotInv'
    <2> SUFFICES ASSUME Hot PROVE Pending' /\ Unsynced'
      BY DEF HotInv, Hot
    <2>1. Pending /\ Unsynced
      BY DEF HotInv
    <2>2. Pending'
      BY <2>1 DEF Pending, Ids
    <2>3. Serving \/ open
      BY DEF Phased, Serving, Shut, Hot
    <2>4. Unsynced'
      BY <2>1, <2>3 DEF Unsynced
    <2>5. QED
      BY <2>2, <2>4
  <1>5. QED
    BY <1>0, <1>1, <1>2, <1>3, <1>4

LEMMA ShutdownKeeps ==
  ASSUME AllInv, Shutdown \/ FlusherJoined \/ LoadDone
  PROVE  AllInv'
  <1>1. UNCHANGED ShutdownVars /\ db' \in [Key -> Nat] /\ cleared' \in [Key -> Nat]
    BY DEF Shutdown, FlusherJoined, LoadDone, ShutdownVars, medium, threads, history, AllInv, AofInv,
           TypeInv, TypeOK, Empty
  <1>2. /\ phase' \in {"up", "stopping", "draining"} /\ phase \in {"up", "stopping", "loading"}
        /\ phase' = "draining" => pc[Flusher] = "idle"
    BY DEF Shutdown, FlusherJoined, LoadDone
  <1>3. QED
    BY <1>1, <1>2, PhaseChanges DEF Serving

\* No thread is doing anything.
LEMMA AtRest ==
  ASSUME \A t \in Thread : pc'[t] = "idle",
         acked' \subseteq 1 .. issued',
         ~open' /\ "open" \notin failed' => buffer' = <<>> /\ ~Serving',
         "open" \in failed' => "sync" \in failed'
  PROVE  /\ Numbered' /\ Shut' /\ NoTruncate'
         /\ \A l \in Loop : pc'[l] = "idle"
  <1>1. \A l \in Loop : pc'[l] = "idle"
    BY DEF Thread
  <1>2. Numbered'
    BY <1>1 DEF Numbered
  <1>3. Shut' /\ NoTruncate'
    BY <1>1 DEF Shut, NoTruncate, Closing
  <1>4. QED
    BY <1>1, <1>2, <1>3

LEMMA LoopsJoinedKeeps ==
  ASSUME AllInv, LoopsJoined
  PROVE  AllInv'
  <1> USE DEF AllInv, AofInv, TypeInv
  <1>1. /\ phase = "draining" /\ \A l \in Loop : pc[l] = "idle"
        /\ phase' = "stopped" /\ open' = FALSE /\ buffer' = <<>>
        /\ UNCHANGED <<db, cleared, todo, restarts, pc, rec, local, policy, issued, acked, dropped,
                       erased, logged, crossed>>
        /\ \/ open /\ WriteOut(file \o buffer)
           \/ ~open /\ UNCHANGED <<file, flushed, synced, failed>>
    BY DEF LoopsJoined, CloseAtLast, threads
  <1>2. /\ file \in Seq(Rec) /\ buffer \in Seq(Rec) /\ acked \subseteq 1 .. issued
        /\ Len(file) \in Nat /\ Len(buffer) \in Nat
    BY Shapes DEF Numbered
  <1>3. \A t \in Thread : pc[t] = "idle" /\ local[t] = <<>>
    BY <1>1 DEF Phased, Thread
  <1>4. ~open => "open" \in failed /\ "sync" \in failed
    BY <1>1 DEF Shut, Serving
  <1> DEFINE s == file \o buffer
  <1>5. /\ s \in Seq(Rec) /\ Len(file) <= Len(s) /\ Ids(s) = Ids(file) \cup Ids(buffer)
        /\ Plain(s) <=> Plain(file) /\ Plain(buffer)
    BY <1>2, ConcatIds
  <1>6. \/ open /\ WriteOut(s)
        \/ ~open /\ UNCHANGED <<file, flushed, synced, failed>>
    BY <1>1
  <1> HIDE DEF s
  <1>7. /\ file' \in Seq(Rec) /\ Len(file') \in Nat
        /\ synced' \in 0 .. Len(file') /\ flushed' \in synced' .. Len(file')
        /\ Plain(s) => Plain(file')
        /\ failed \subseteq failed' /\ failed' \subseteq Failures
        /\ "open" \in failed' => "open" \in failed
        /\ \/ /\ failed' = failed /\ (open => file' = s)
              /\ "sync" \notin failed => synced' = Len(file')
           \/ "write" \in failed' /\ "sync" \in failed'
    <2>1. CASE open /\ WriteOut(s)
      BY <1>5, <2>1, Given
    <2>2. CASE ~open /\ UNCHANGED <<file, flushed, synced, failed>>
      BY <1>2, <1>4, <1>5, <2>2 DEF TypeOK, Failures
    <2>3. QED
      BY <1>6, <2>1, <2>2
  <1>8. (Hot' => Hot) /\ (Calm' => Calm)
    BY <1>1, <1>7, Grows
  <1>9. Numbered' /\ Shut'
    <2>1. "open" \in failed' => "sync" \in failed'
      BY <1>7 DEF Shut
    <2>2. QED
      BY <1>1, <1>2, <1>3, <2>1, AtRest DEF Serving
  <1>10. TypeOK'
    BY <1>1, <1>7, EmptyIds DEF TypeOK, Rec, Failures
  <1>11. Phased'
    BY <1>1, <1>3, <1>7 DEF Phased, Serving
  <1>12. Marked'
    BY <1>1, <1>5, <1>7, EmptyIds DEF Marked
  <1>13. Kept'
    <2> SUFFICES ASSUME Calm' PROVE Ids(logged) \subseteq Ids(file')
      BY <1>1 DEF Kept
    <2>1. NoTruncate
      BY <1>1 DEF NoTruncate
    <2>2. UNION {Ids(local[t]) : t \in Thread} = {}
      BY <1>3, EmptyIds
    <2>3. open /\ file' = s
      BY <1>4, <1>7, <1>8 DEF Calm
    <2>4. QED
      BY <1>5, <1>8, <2>1, <2>2, <2>3 DEF Kept
  <1>14. BufferBounded'
    BY <1>1, EmptyIds, Bounded
  <1>15. HotInv'
    <2> SUFFICES ASSUME Hot' PROVE Pending' /\ Unsynced'
      BY DEF HotInv
    <2>1. Pending'
      BY <1>1, <1>3, EmptyIds DEF Pending
    <2>2. synced' = Len(file') /\ Len(file') + 1 .. Len(file') = {}
      BY <1>7, <1>8 DEF Hot
    <2>3. Unsynced'
      BY <1>1, <2>2 DEF Unsynced
    <2>4. QED
      BY <2>1, <2>3
  <1>16. QED
    BY <1>9, <1>10, <1>11, <1>12, <1>13, <1>14, <1>15

LEMMA CrashKeeps ==
  ASSUME AllInv, Crash
  PROVE  AllInv'
  <1> USE DEF AllInv, AofInv, TypeInv
  <1>1. PICK n \in synced .. Len(file), tear \in {<<>>, <<Torn>>} :
           file' = SubSeq(file, 1, n) \o tear
    BY DEF Crash
  <1>2. /\ flushed' = Len(file') /\ synced' = synced /\ phase' = "down" /\ open' = FALSE
        /\ db' = Empty /\ cleared' = Empty /\ buffer' = <<>> /\ todo' = <<>>
        /\ pc' = [t \in Thread |-> "idle"] /\ rec' = [l \in Loop |-> NoRecord]
        /\ local' = [t \in Thread |-> <<>>]
        /\ acked' = acked \cap Ids(file') /\ logged' = file'
        /\ UNCHANGED <<policy, issued, restarts, dropped, erased, failed, crossed>>
    BY DEF Crash
  <1> DEFINE p == SubSeq(file, 1, n)
  <1>3. file \in Seq(Rec) /\ Len(file) \in Nat /\ synced \in 0 .. Len(file)
    BY Shapes DEF TypeOK
  <1>4. n \in 0 .. Len(file) /\ n \in Nat /\ synced <= n
    BY <1>3
  <1>5. p \in Seq(Rec) /\ Len(p) = n /\ \A i \in 1 .. n : p[i] = file[i]
    BY <1>3, <1>4, PrefixIds
  <1>6. tear \in Seq(Rec) /\ \A i \in DOMAIN tear : tear[i] = Torn
    BY TearIds
  <1> HIDE DEF p
  <1>7. file' = p \o tear
    BY <1>1 DEF p
  <1>8. /\ file' \in Seq(Rec) /\ Len(file') \in Nat /\ n <= Len(file')
        /\ \A i \in 1 .. n : file'[i] = file[i]
        /\ \A i \in n + 1 .. Len(file') : file'[i] = Torn
    <2>1. /\ p \o tear \in Seq(Rec) /\ Len(p \o tear) = Len(p) + Len(tear)
          /\ Len(tear) \in Nat
          /\ \A i \in 1 .. Len(p) : (p \o tear)[i] = p[i]
          /\ \A i \in Len(p) + 1 .. Len(p \o tear) :
                i - Len(p) \in DOMAIN tear /\ (p \o tear)[i] = tear[i - Len(p)]
      BY <1>5, <1>6, ConcatIds
    <2>2. Len(file') \in Nat /\ n <= Len(file')
      BY <1>4, <1>5, <1>7, <2>1
    <2>3. \A i \in n + 1 .. Len(file') : file'[i] = Torn
      BY <1>5, <1>6, <1>7, <2>1
    <2>4. QED
      BY <1>5, <1>7, <2>1, <2>2, <2>3
  <1>9. (\A t \in Thread : pc'[t] = "idle" /\ local'[t] = <<>>) /\ acked' \subseteq 1 .. issued'
    BY <1>2 DEF Numbered
  <1>10. Numbered' /\ Shut'
    <2>1. ~Serving' /\ ("open" \in failed' => "sync" \in failed')
      BY <1>2 DEF Serving, Shut
    <2>2. QED
      BY <1>2, <1>9, <2>1, AtRest
  <1>11. TypeOK'
    <2>1. synced' \in 0 .. Len(file') /\ flushed' \in synced' .. Len(file')
      BY <1>2, <1>3, <1>4, <1>8
    <2>2. /\ db' \in [Key -> Nat] /\ cleared' \in [Key -> Nat]
          /\ rec' \in [Loop -> Record] /\ local' \in [Thread -> Seq(Record)]
      BY <1>2, NoRecordType, EmptyIds DEF Empty
    <2>3. buffer' \in Seq(Record) /\ todo' \in Seq(Record)
      BY <1>2, EmptyIds
    <2>4. pc' \in [Thread -> Step]
      BY <1>2 DEF Step
    <2>5. QED
      BY <1>2, <1>8, <2>1, <2>2, <2>3, <2>4 DEF TypeOK, Step, Rec
  <1>12. Phased'
    BY <1>2, <1>9 DEF Phased, Serving
  <1>13. Marked'
    BY <1>2, <1>9, EmptyIds DEF Marked
  <1>14. Kept'
    BY <1>2 DEF Kept
  <1>15. BufferBounded'
    BY <1>2, EmptyIds, Bounded
  <1>16. HotInv'
    <2> SUFFICES ASSUME Hot PROVE Pending' /\ Unsynced'
      BY <1>2 DEF HotInv, Hot
    <2>1. Unsynced
      BY DEF HotInv
    <2>2. Pending'
      <3>1. \A l \in Loop : pc'[l] = "idle"
        BY <1>9 DEF Thread
      <3>2. QED
        BY <1>2, <1>9, <3>1, EmptyIds DEF Pending
    <2>3. ASSUME NEW i \in synced + 1 .. Len(file'), file'[i] # Torn, file'[i].cmd.op # "flushall"
          PROVE  file'[i].id \notin acked
      <3>1. i \in 1 .. n /\ i \in synced + 1 .. Len(file)
        BY <1>3, <1>4, <1>8, <2>3
      <3>2. file'[i] = file[i]
        BY <1>8, <3>1
      <3>3. QED
        BY <2>1, <2>3, <3>1, <3>2 DEF Unsynced
    <2>4. ~Serving'
      BY <1>2 DEF Serving
    <2>5. Unsynced'
      BY <1>2, <2>3, <2>4 DEF Unsynced
    <2>6. QED
      BY <2>2, <2>5
  <1>17. QED
    BY <1>10, <1>11, <1>12, <1>13, <1>14, <1>15, <1>16

LEMMA LoadKeeps ==
  ASSUME AllInv, Load
  PROVE  AllInv'
  <1> USE DEF AllInv, AofInv, TypeInv
  <1>1. /\ phase \in {"down", "stopped"} /\ restarts < MaxRestarts
        /\ phase' = "loading" /\ open' = TRUE /\ todo' = Readable(file)
        /\ db' = Empty /\ cleared' = Empty
        /\ restarts' = restarts + 1 /\ logged' = file /\ failed' = failed \cap {"sync"}
        /\ acked' = acked \cap Ids(file) /\ dropped' = {} /\ erased' = {}
        /\ crossed' = crossed \cap {"batches"}
        /\ UNCHANGED <<buffer, file, flushed, synced, pc, rec, local, policy, issued>>
    BY DEF Load, threads
  <1>2. /\ \A t \in Thread : pc[t] = "idle" /\ local[t] = <<>>
        /\ ~open /\ buffer = <<>> /\ acked \subseteq 1 .. issued
    BY <1>1 DEF Phased, Serving, Numbered
  <1>3. TypeOK'
    <2>1. Readable(file) \in Seq(Record) /\ db' \in [Key -> Nat] /\ cleared' \in [Key -> Nat]
      BY <1>1, ReadableType, Shapes DEF Empty
    <2>2. restarts' \in 0 .. MaxRestarts
      BY <1>1, CommandShape DEF TypeOK
    <2>3. QED
      BY <1>1, <2>1, <2>2 DEF TypeOK, Rec
  <1>4. Numbered' /\ Shut'
    <2>1. "open" \notin failed' /\ ~Serving'
      BY <1>1 DEF Serving
    <2>2. QED
      BY <1>1, <1>2, <2>1, AtRest
  <1>5. Phased'
    BY <1>1, <1>2 DEF Phased, Serving
  <1>6. Marked'
    BY <1>1 DEF Marked
  <1>7. Kept'
    BY <1>1 DEF Kept
  <1>8. BufferBounded'
    BY <1>1, <1>2, EmptyIds, Bounded
  <1>9. HotInv'
    <2> SUFFICES ASSUME Hot PROVE Pending' /\ Unsynced'
      BY <1>1 DEF HotInv, Hot
    <2>1. Pending /\ Unsynced
      BY DEF HotInv
    <2>2. Pending'
      BY <1>1, <2>1 DEF Pending
    <2>3. Unsynced'
      BY <1>1, <2>1 DEF Unsynced, Serving
    <2>4. QED
      BY <2>2, <2>3
  <1>10. QED
    BY <1>3, <1>4, <1>5, <1>6, <1>7, <1>8, <1>9

LEMMA ReplayKeeps ==
  ASSUME AllInv, Fresh, ReplayOne
  PROVE  AllInv'
  <1> USE DEF AllInv, AofInv, TypeInv
  <1> DEFINE r == Head(todo)
             filled == Append(buffer, r)
             s == file \o buffer
             u == file \o filled
  <1>1. /\ phase = "loading" /\ todo # <<>> /\ db' = Apply(db, r.cmd) /\ todo' = Tail(todo)
        /\ UNCHANGED <<cleared, phase, restarts, pc, rec, local, policy, issued, acked, dropped,
                       crossed>>
    BY DEF ReplayOne, threads
  <1>2. r \in Record /\ Tail(todo) \in Seq(Record)
    BY <1>1, HeadTailProperties DEF TypeOK
  <1>3. /\ \A t \in Thread : pc[t] = "idle" /\ local[t] = <<>>
        /\ (open \/ "open" \in failed) /\ acked \subseteq 1 .. issued
        /\ ~Serving' /\ ("open" \in failed => "sync" \in failed)
    BY <1>1 DEF Phased, Serving, Numbered, Shut
  <1>4. /\ buffer \in Seq(Record) /\ buffer \in Seq(Rec) /\ logged \in Seq(Rec) /\ file \in Seq(Rec)
        /\ Len(file) \in Nat /\ synced \in 0 .. Len(file) /\ Len(buffer) \in Nat
    BY Shapes DEF TypeOK
  <1>5. db' \in [Key -> Nat]
    BY <1>1, <1>2, ApplyType, RecordShape DEF TypeOK
  <1>6. \/ UNCHANGED <<buffer, file, flushed, synced, open, logged, erased, failed>>
        \/ /\ open /\ r.cmd.op = "flushall" /\ buffer' = <<>>
           /\ file' = <<r>> /\ flushed' = 1 /\ synced' = 0
           /\ logged' = <<r>> /\ erased' = erased \cup Ids(logged) /\ UNCHANGED <<open, failed>>
        \/ /\ open /\ r.cmd.op = "flushall" /\ buffer' = <<>> /\ open' \in BOOLEAN
           /\ \/ Lose(s) /\ UNCHANGED <<logged, erased>>
              \/ /\ file' \in {<<r>>, <<>>, <<Torn>>} /\ flushed' = Len(file') /\ synced' = 0
                 /\ logged' = <<r>> /\ erased' = erased \cup Ids(logged)
           /\ failed' = failed \cup {"write", "sync", "truncate"}
                            \cup IF open' THEN {} ELSE {"open"}
        \/ /\ open /\ r.cmd.op # "flushall" /\ logged' = Append(logged, r)
           /\ buffer' = <<>> /\ WriteOut(u) /\ UNCHANGED <<open, erased>>
        \/ /\ open /\ r.cmd.op # "flushall" /\ logged' = Append(logged, r) /\ policy # "always"
           /\ ~(Len(filled) >= Threshold)
           /\ buffer' = filled /\ UNCHANGED <<file, flushed, synced, open, erased, failed>>
    BY DEF ReplayOne, Rewrite, medium
  <1>7. /\ filled \in Seq(Record) /\ filled \in Seq(Rec) /\ Len(filled) \in Nat
        /\ Ids(filled) = Ids(buffer) \cup {r.id}
        /\ r.cmd.op # "flushall" => (Plain(filled) <=> Plain(buffer))
        /\ Append(logged, r) \in Seq(Rec) /\ Ids(Append(logged, r)) = Ids(logged) \cup {r.id}
        /\ r.cmd.op # "flushall" => (Plain(Append(logged, r)) <=> Plain(logged))
    BY <1>2, <1>4, AppendIds, LenProperties
  <1> HIDE DEF filled, r
  <1>8. /\ s \in Seq(Rec) /\ Len(file) <= Len(s) /\ (Plain(s) <=> Plain(file) /\ Plain(buffer))
        /\ u \in Seq(Rec) /\ Len(file) <= Len(u) /\ Ids(u) = Ids(file) \cup Ids(filled)
        /\ Plain(u) <=> Plain(file) /\ Plain(filled)
    <2>1. Len(s) = Len(file) + Len(buffer) /\ Len(u) = Len(file) + Len(filled)
      BY <1>4, <1>7, ConcatIds
    <2>2. Len(file) <= Len(s) /\ Len(file) <= Len(u)
      BY <1>4, <1>7, <2>1
    <2>3. QED
      BY <1>4, <1>7, <2>2, ConcatIds
  <1> HIDE DEF s, u
  <1>9. /\ <<r>> \in Seq(Rec) /\ Len(<<r>>) = 1 /\ <<r>>[1] = r /\ Ids(<<r>>) = {r.id}
        /\ Plain(<<r>>) <=> r.cmd.op # "flushall"
    BY <1>2, SingleIds
  <1>10. ASSUME file' \in Seq(Rec), logged' \in Seq(Rec), buffer' \in Seq(Record),
                synced' \in 0 .. Len(file'), flushed' \in synced' .. Len(file'),
                open' \in BOOLEAN, failed' \subseteq Failures, erased' \subseteq 1 .. MaxCommands,
                open' \/ "open" \in failed', "open" \in failed' => "sync" \in failed',
                Marked', Kept', BufferBounded', Hot' => Pending' /\ Unsynced'
         PROVE  AllInv'
    <2>1. TypeOK'
      BY <1>1, <1>2, <1>5, <1>10 DEF TypeOK, Rec, Failures
    <2>2. Phased'
      BY <1>1, <1>3, <1>10 DEF Phased, Serving
    <2>3. Numbered' /\ Shut'
      BY <1>1, <1>3, <1>10, AtRest
    <2>4. HotInv'
      BY <1>10 DEF HotInv
    <2>5. QED
      BY <1>10, <2>1, <2>2, <2>3, <2>4
  <1>11. ASSUME Ids(buffer') \cap acked = {} PROVE Pending'
    <2>1. \A l \in Loop : pc[l] = "idle"
      BY <1>3 DEF Thread
    <2>2. QED
      BY <1>1, <1>3, <1>11, <2>1, EmptyIds DEF Pending
  <1>12. /\ erased \cup Ids(logged) \subseteq 1 .. MaxCommands /\ erased \subseteq 1 .. MaxCommands
         /\ failed \subseteq Failures /\ open \in BOOLEAN
    BY Issued DEF TypeOK, Failures
  <1>13. CASE UNCHANGED <<buffer, file, flushed, synced, open, logged, erased, failed>>
    <2>1. Marked' /\ Kept' /\ BufferBounded'
      BY <1>1, <1>13, Frames
    <2>2. Hot' => Pending' /\ Unsynced'
      BY <1>1, <1>13 DEF HotInv, Hot, Pending, Unsynced, Serving, Ids
    <2>3. flushed' \in synced' .. Len(file')
      BY <1>13 DEF TypeOK
    <2>4. QED
      BY <1>3, <1>4, <1>10, <1>12, <1>13, <2>1, <2>2, <2>3
  <1>14. CASE /\ open /\ r.cmd.op = "flushall" /\ buffer' = <<>>
              /\ file' = <<r>> /\ flushed' = 1 /\ synced' = 0
              /\ logged' = <<r>> /\ erased' = erased \cup Ids(logged) /\ UNCHANGED <<open, failed>>
    <2>1. file' \in Seq(Rec) /\ Len(file') = 1 /\ file'[1] = r /\ ~Plain(logged')
      BY <1>9, <1>14
    <2>2. synced' \in 0 .. Len(file') /\ flushed' \in synced' .. Len(file')
      BY <1>14, <2>1
    <2>3. Marked'
      BY <1>1, <1>3, <1>14, <2>1, EmptyIds DEF Marked
    <2>4. Kept'
      BY <1>14 DEF Kept
    <2>5. BufferBounded'
      BY <1>14, EmptyIds, Bounded
    <2>6. \A i \in 0 + 1 .. 1 : file'[i].cmd.op = "flushall"
      BY <1>14, <2>1
    <2>7. Pending' /\ Unsynced'
      BY <1>11, <1>14, <2>1, <2>6, EmptyIds DEF Unsynced
    <2>8. QED
      BY <1>3, <1>10, <1>12, <1>14, <2>1, <2>2, <2>3, <2>4, <2>5, <2>7, EmptyIds
  <1>15. CASE /\ open /\ r.cmd.op = "flushall" /\ buffer' = <<>> /\ open' \in BOOLEAN
              /\ \/ Lose(s) /\ UNCHANGED <<logged, erased>>
                 \/ /\ file' \in {<<r>>, <<>>, <<Torn>>} /\ flushed' = Len(file') /\ synced' = 0
                    /\ logged' = <<r>> /\ erased' = erased \cup Ids(logged)
              /\ failed' = failed \cup {"write", "sync", "truncate"}
                               \cup IF open' THEN {} ELSE {"open"}
    <2>1. /\ "write" \in failed' /\ "sync" \in failed' /\ (open' \/ "open" \in failed')
          /\ failed' \subseteq Failures
      BY <1>12, <1>15 DEF Failures
    <2>2. Kept' /\ ~Hot'
      BY <2>1 DEF Kept, Calm, Hot
    <2>3. BufferBounded'
      BY <1>15, EmptyIds, Bounded
    <2>4. /\ file' \in Seq(Rec) /\ logged' \in Seq(Rec)
          /\ synced' \in 0 .. Len(file') /\ flushed' \in synced' .. Len(file')
          /\ Plain(logged') => Plain(file')
      <3>1. CASE Lose(s) /\ UNCHANGED <<logged, erased>>
        <4>1. /\ file' \in Seq(Rec) /\ synced' \in 0 .. Len(file') /\ flushed' \in synced' .. Len(file')
              /\ Plain(s) => Plain(file')
          BY <1>8, <3>1, Lost
        <4>2. QED
          BY <1>4, <1>8, <3>1, <4>1 DEF Marked
      <3>2. CASE /\ file' \in {<<r>>, <<>>, <<Torn>>} /\ flushed' = Len(file') /\ synced' = 0
                 /\ logged' = <<r>>
        <4>1. <<Torn>> \in Seq(Rec) /\ <<>> \in Seq(Rec)
          BY TearIds
        <4>2. file' \in Seq(Rec) /\ Len(file') \in Nat
          BY <1>9, <3>2, <4>1, LenProperties
        <4>3. synced' \in 0 .. Len(file') /\ flushed' \in synced' .. Len(file')
          BY <3>2, <4>2
        <4>4. QED
          BY <1>9, <1>15, <3>2, <4>2, <4>3
      <3>3. QED
        BY <1>15, <3>1, <3>2
    <2>5. Marked'
      BY <1>1, <1>3, <1>15, <2>4, EmptyIds DEF Marked
    <2>6. erased' \subseteq 1 .. MaxCommands
      BY <1>12, <1>15
    <2>7. QED
      BY <1>10, <1>15, <2>1, <2>2, <2>3, <2>4, <2>5, <2>6, EmptyIds
  <1>16. CASE /\ open /\ r.cmd.op # "flushall" /\ logged' = Append(logged, r)
              /\ buffer' = <<>> /\ WriteOut(u) /\ UNCHANGED <<open, erased>>
    <2>1. /\ file' \in Seq(Rec) /\ Len(file') \in Nat
          /\ synced' \in 0 .. Len(file') /\ flushed' \in synced' .. Len(file')
          /\ Plain(u) => Plain(file')
          /\ failed \subseteq failed' /\ failed' \subseteq Failures
          /\ "open" \in failed' => "open" \in failed
          /\ \/ /\ failed' = failed /\ file' = u
                /\ "sync" \notin failed => synced' = Len(file')
             \/ "write" \in failed' /\ "sync" \in failed'
      BY <1>8, <1>16, Given
    <2>2. Marked'
      BY <1>1, <1>3, <1>7, <1>8, <1>16, <2>1, EmptyIds DEF Marked
    <2>3. Kept'
      <3> SUFFICES ASSUME Calm' PROVE Ids(logged') \subseteq Ids(file')
        BY DEF Kept
      <3>1. NoTruncate
        BY <1>3 DEF NoTruncate, Thread
      <3>2. UNION {Ids(local[t]) : t \in Thread} = {}
        BY <1>3, EmptyIds
      <3>3. Calm /\ file' = u
        BY <2>1 DEF Calm
      <3>4. Ids(logged) \subseteq Ids(file) \cup Ids(buffer)
        BY <3>1, <3>2, <3>3 DEF Kept
      <3>5. QED
        BY <1>7, <1>8, <1>16, <3>3, <3>4
    <2>4. BufferBounded'
      BY <1>16, EmptyIds, Bounded
    <2>5. ASSUME Hot' PROVE Pending' /\ Unsynced'
      <3>1. synced' = Len(file') /\ Len(file') + 1 .. Len(file') = {}
        BY <2>1, <2>5 DEF Hot
      <3>2. QED
        BY <1>11, <1>16, <3>1, EmptyIds DEF Unsynced
    <2>6. open' \/ "open" \in failed'
      BY <1>16
    <2>7. "open" \in failed' => "sync" \in failed'
      BY <1>3, <2>1
    <2>8. QED
      BY <1>7, <1>10, <1>12, <1>16, <2>1, <2>2, <2>3, <2>4, <2>5, <2>6, <2>7, EmptyIds
  <1>17. CASE /\ open /\ r.cmd.op # "flushall" /\ logged' = Append(logged, r) /\ policy # "always"
              /\ ~(Len(filled) >= Threshold)
              /\ buffer' = filled /\ UNCHANGED <<file, flushed, synced, open, erased, failed>>
    <2>1. Marked'
      BY <1>1, <1>7, <1>17 DEF Marked
    <2>2. Kept'
      <3>1. NoTruncate
        BY <1>3 DEF NoTruncate, Thread
      <3>2. Calm => Ids(logged') \subseteq
               Ids(file) \cup Ids(buffer') \cup UNION {Ids(local[t]) : t \in Thread}
        BY <1>7, <1>17, <3>1 DEF Kept
      <3>3. QED
        BY <1>1, <1>17, <3>2 DEF Kept, Calm
    <2>3. BufferBounded'
      BY <1>7, <1>17, Bounded, CommandShape
    <2>4. flushed' \in synced' .. Len(file')
      BY <1>17 DEF TypeOK
    <2>5. ~Hot'
      BY <1>1, <1>17 DEF Hot
    <2>6. QED
      BY <1>3, <1>4, <1>7, <1>10, <1>12, <1>17, <2>1, <2>2, <2>3, <2>4, <2>5
  <1>18. QED
    BY <1>6, <1>13, <1>14, <1>15, <1>16, <1>17

-----------------------------------------------------------------------------
LEMMA InitHolds ==
  ASSUME Init
  PROVE  AllInv
  <1> USE DEF AllInv, AofInv, TypeInv, Init
  <1>1. /\ \A t \in Thread : pc[t] = "idle" /\ local[t] = <<>>
        /\ \A l \in Loop : pc[l] = "idle"
    BY DEF Thread
  <1>2. Len(file) = 0 /\ Len(buffer) = 0
    BY EmptyIds
  <1>3. TypeOK
    <2>1. 1 .. MaxCommands \subseteq Nat /\ 0 \in 0 .. MaxCommands /\ 0 \in 0 .. MaxRestarts
      BY CommandShape
    <2>2. /\ rec \in [Loop -> Record] /\ local \in [Thread -> Seq(Record)]
          /\ pc \in [Thread -> Step] /\ db \in [Key -> Nat] /\ cleared \in [Key -> Nat]
      BY NoRecordType, EmptyIds DEF Empty, Step
    <2>3. synced \in 0 .. Len(file) /\ flushed \in synced .. Len(file)
      BY <1>2
    <2>4. QED
      BY <2>1, <2>2, <2>3, EmptyIds DEF TypeOK, Step
  <1>4. Numbered /\ Shut
    BY <1>1 DEF Numbered, Shut, Closing
  <1>5. Phased
    BY <1>1 DEF Phased, Serving
  <1>6. Marked
    BY EmptyIds DEF Marked
  <1>7. Kept
    BY EmptyIds DEF Kept
  <1>8. BufferBounded
    <2> DEFINE now == {l \in Loop : pc[l] = "swap"}
    <2>1. IsFiniteSet(now) /\ Cardinality(now) \in Nat
      BY AofAssumption, FS_Subset, FS_CardinalityType DEF AofAssumption
    <2>2. QED
      BY <1>2, <2>1, CommandShape DEF BufferBounded
  <1>9. HotInv
    <2>1. Pending
      BY <1>1, EmptyIds DEF Pending
    <2>2. Unsynced
      BY DEF Unsynced
    <2>3. QED
      BY <2>1, <2>2 DEF HotInv
  <1>10. QED
    BY <1>3, <1>4, <1>5, <1>6, <1>7, <1>8, <1>9

LEMMA StepKeeps ==
  ASSUME AllInv, Fresh, [Next]_vars
  PROVE  AllInv'
  <1>1. CASE UNCHANGED vars
    <2>1. UNCHANGED <<policy, db, cleared, buffer, file, flushed, synced, open, phase, todo, restarts,
                      pc, rec, local, issued, acked, dropped, erased, logged, failed, crossed>>
      BY <1>1 DEF vars, medium, server, threads, history
    <2>2. Numbered' /\ Shut' /\ Marked' /\ Kept' /\ BufferBounded' /\ HotInv'
      BY <2>1, Frames DEF AllInv, AofInv, TypeInv
    <2>3. TypeOK' /\ Phased'
      BY <2>1 DEF AllInv, AofInv, TypeInv, TypeOK, Phased, Serving
    <2>4. QED
      BY <2>2, <2>3 DEF AllInv, AofInv, TypeInv
  <1>2. ASSUME NEW l \in Loop, Answering(l) PROVE AllInv'
    <2>1. l \in Thread
      BY DEF Thread
    <2>2. QED
      BY <1>2, <2>1, LogKeeps, SwapKeeps, WriteKeeps, WriteErrorKeeps, SyncKeeps,
         CheckOpenKeeps, CloseFileKeeps, TruncateKeeps, TruncateErrorKeeps, ReopenKeeps,
         ReopenErrorKeeps DEF Answering
  <1>3. CASE Flush
    <2>1. Flusher \in Thread
      BY DEF Thread
    <2>2. QED
      BY <1>3, <2>1, FlushSwapKeeps, WriteKeeps, WriteErrorKeeps, FlushSyncKeeps DEF Flush
  <1>4. QED
    BY <1>1, <1>2, <1>3, ExecKeeps, ShutdownKeeps, LoopsJoinedKeeps, CrashKeeps, LoadKeeps,
       ReplayKeeps DEF Next

-----------------------------------------------------------------------------
(* Where the records come from, and what the log accounts for. *)

\* Commands whose record is not in the log yet.
Busy(l) == pc[l] = "log" \/ Closing(l)

LEMMA Parts ==
  /\ Items(file) \subseteq Holdings /\ Items(todo) \subseteq Holdings
  /\ Items(buffer) \subseteq Holdings /\ Items(logged) \subseteq Holdings
  /\ \A t \in Thread : Items(local[t]) \subseteq Holdings
  BY DEF Holdings

LEMMA Whence ==
  ASSUME NEW S, Items(file') \subseteq S, Items(todo') \subseteq S, Items(buffer') \subseteq S,
         Items(logged') \subseteq S, \A t \in Thread : Items(local'[t]) \subseteq S
  PROVE  Holdings' \subseteq S
  BY DEF Holdings, Items

LEMMA StaysFresh ==
  ASSUME Fresh, NEW T, Holdings' \subseteq Holdings \cup T, issued' = issued,
         \A x \in T : x # Torn =>
            /\ x.id \in 1 .. issued
            /\ \A l \in Loop : Busy(l)' => x.id # rec'[l].id \/ x.cmd.op = "flushall",
         \A l \in Loop : Busy(l)' => Busy(l) /\ rec'[l] = rec[l]
  PROVE  Fresh'
  BY DEF Fresh, Busy

LEMMA StillBusy ==
  ASSUME TypeOK, NEW t \in Thread, NEW s \in Step, pc' = [pc EXCEPT ![t] = s],
         rec' = rec \/ (t \in Loop /\ s = "idle" /\ rec' = [rec EXCEPT ![t] = NoRecord]),
         s \notin {"log", "close", "truncate", "open"} \/ t \notin Loop \/ Busy(t)
  PROVE  \A l \in Loop : Busy(l)' => Busy(l) /\ rec'[l] = rec[l]
  <1>1. pc'[t] = s /\ \A u \in Thread : u # t => pc'[u] = pc[u]
    BY Move
  <1>2. \A l \in Loop : l \in Thread
    BY Shapes
  <1>3. ASSUME NEW l \in Loop, Busy(l)' PROVE Busy(l) /\ rec'[l] = rec[l]
    <2>1. CASE l = t
      BY <1>1, <1>3, <2>1 DEF Busy, Closing
    <2>2. CASE l # t
      <3>1. rec'[l] = rec[l]
        BY <2>2, Shapes
      <3>2. QED
        BY <1>1, <1>2, <1>3, <2>2, <3>1 DEF Busy, Closing
    <2>3. QED
      BY <2>1, <2>2
  <1>4. QED
    BY <1>3

LEMMA ExecFresh ==
  ASSUME AllInv, Fresh, NEW l \in Loop, NEW c \in Command, Exec(l, c) \/ ExecLate(l, c)
  PROVE  Fresh'
  <1>0. TypeOK
    BY DEF AllInv, AofInv, TypeInv
  <1>1. /\ issued' = issued + 1
        /\ \/ /\ pc' = [pc EXCEPT ![l] = "log"]
              /\ rec' = [rec EXCEPT ![l] = [id |-> issued + 1, cmd |-> c]]
           \/ UNCHANGED <<pc, rec>>
        /\ UNCHANGED <<buffer, file, todo, local, logged>>
    BY DEF Exec, ExecLate, Begin, medium, server
  <1>2. issued \in Nat /\ 1 .. issued \subseteq 1 .. issued' /\ issued + 1 \notin 1 .. issued
    BY <1>0, <1>1, CommandShape DEF TypeOK
  <1>3. Holdings' = Holdings
    BY <1>1 DEF Holdings, Items
  <1>4. ASSUME NEW m \in Loop, Busy(m)'
        PROVE  (Busy(m) /\ rec'[m] = rec[m]) \/ rec'[m].id = issued + 1
    <2>1. CASE UNCHANGED <<pc, rec>>
      BY <1>4, <2>1 DEF Busy, Closing
    <2>2. CASE /\ pc' = [pc EXCEPT ![l] = "log"]
               /\ rec' = [rec EXCEPT ![l] = [id |-> issued + 1, cmd |-> c]]
      <3>1. pc \in [Thread -> Step] /\ rec \in [Loop -> Record] /\ m \in Thread
        BY <1>0, Shapes DEF TypeOK, Step
      <3>2. CASE m = l
        BY <2>2, <3>1, <3>2
      <3>3. CASE m # l
        <4>1. pc'[m] = pc[m] /\ rec'[m] = rec[m]
          BY <2>2, <3>1, <3>3
        <4>2. QED
          BY <1>4, <4>1 DEF Busy, Closing
      <3>4. QED
        BY <3>2, <3>3
    <2>3. QED
      BY <1>1, <2>1, <2>2
  <1>5. QED
    BY <1>2, <1>3, <1>4 DEF Fresh, Busy

\* The steps in which a command logs its record.
LEMMA RecordFresh ==
  ASSUME AllInv, Fresh, NEW l \in Loop, Log(l) \/ Truncate(l) \/ TruncateError(l)
  PROVE  Fresh'
  <1> USE DEF AllInv, AofInv, TypeInv
  <1>1. /\ pc[l] \in {"log", "truncate"} /\ l \in Thread /\ rec[l] \in Record
        /\ UNCHANGED <<issued, todo, local>>
    BY Shapes DEF Log, Truncate, TruncateError, server
  <1>2. \A m \in Loop : Busy(m)' => Busy(m) /\ rec'[m] = rec[m] /\ (m = l => rec[l].cmd.op = "flushall")
    <2>1. /\ rec[l].cmd.op = "flushall" \/ Log(l)
          /\ Busy(l)
      BY <1>1 DEF Shut, Closing, Busy, Log, Truncate, TruncateError
    <2>2. \E s \in {"swap", "idle", "open"} :
             /\ pc' = [pc EXCEPT ![l] = s]
             /\ rec' = rec \/ (s = "idle" /\ rec' = [rec EXCEPT ![l] = NoRecord])
             /\ Log(l) => s # "open"
      <3>1. CASE Log(l)
        BY <3>1 DEF Log, Answer
      <3>2. CASE Truncate(l) \/ TruncateError(l)
        <4>1. pc' = [pc EXCEPT ![l] = "open"] /\ rec' = rec /\ ~Log(l)
          BY <3>2 DEF Log, Truncate, TruncateError
        <4>2. QED
          BY <4>1
      <3>3. QED
        BY <3>1, <3>2
    <2>3. PICK s \in {"swap", "idle", "open"} :
             /\ pc' = [pc EXCEPT ![l] = s]
             /\ rec' = rec \/ (s = "idle" /\ rec' = [rec EXCEPT ![l] = NoRecord])
             /\ Log(l) => s # "open"
      BY <2>2
    <2>4. s \in Step /\ pc'[l] = s
      BY <1>1, <2>3, Move DEF Step
    <2>5. \A m \in Loop : Busy(m)' => Busy(m) /\ rec'[m] = rec[m]
      BY <1>1, <2>1, <2>3, <2>4, StillBusy
    <2>6. Busy(l)' => ~Log(l)
      BY <2>3, <2>4 DEF Busy, Closing
    <2>7. QED
      BY <2>1, <2>5, <2>6
  <1>3. /\ rec[l].id \in 1 .. issued
        /\ \A m \in Loop : Busy(m)' => rec[l].id # rec'[m].id \/ rec[l].cmd.op = "flushall"
    <2>1. \A m \in Loop : Busy(m) => pc[m] # "idle"
      BY DEF Busy, Closing
    <2>2. QED
      BY <1>1, <1>2, <2>1 DEF Numbered
  <1>4. Holdings' \subseteq Holdings \cup {Torn, rec[l]}
    <2> DEFINE S == Holdings \cup {Torn, rec[l]}
    <2>1. /\ buffer \in Seq(Rec) /\ logged \in Seq(Rec) /\ file \in Seq(Rec) /\ rec[l] \in Rec
          /\ Items(<<rec[l]>>) = {rec[l]} /\ <<rec[l]>> \in Seq(Rec)
      <3>1. /\ buffer \in Seq(Rec) /\ logged \in Seq(Rec) /\ file \in Seq(Rec) /\ rec[l] \in Rec
            /\ <<rec[l]>> \in Seq(Rec)
        BY <1>1, Shapes, RecordShape, SingleIds
      <3>2. QED
        BY <3>1, ItemsOf
    <2>2. \A t \in Thread : Items(local'[t]) \subseteq S
      BY <1>1, Parts DEF Items
    <2>3. Items(todo') \subseteq S
      BY <1>1, Parts
    <2>4. CASE Log(l)
      <3>1. /\ buffer' \in {buffer, Append(buffer, rec[l])} /\ logged' \in {logged, Append(logged, rec[l])}
            /\ file' = file
        BY <2>4 DEF Log, medium
      <3>2. Items(buffer') \subseteq Items(buffer) \cup {rec[l]} /\ Items(logged') \subseteq Items(logged) \cup {rec[l]}
        BY <2>1, <3>1, ItemsOf
      <3>3. Items(buffer') \subseteq S /\ Items(logged') \subseteq S /\ Items(file') \subseteq S
        BY <3>1, <3>2, Parts
      <3> HIDE DEF S
      <3>4. Holdings' \subseteq S
        BY <2>2, <2>3, <3>3, Whence
      <3>5. QED
        BY <3>4 DEF S
    <2>5. CASE Truncate(l) \/ TruncateError(l)
      <3>1. /\ \/ \E hole \in {<<>>, <<Torn>>} : file' = <<rec[l]>> \o hole \o Unflushed
               \/ \E torn \in {<<>>, <<Torn>>} : file' = torn \o Unflushed
               \/ file' = file
            /\ logged' \in {logged, <<rec[l]>>} /\ buffer' = buffer
        BY <2>5 DEF Truncate, TruncateError
      <3> DEFINE u == Unflushed
      <3>2. u \in Seq(Rec) /\ Items(u) \subseteq Holdings
        BY Behind, Parts
      <3> HIDE DEF u
      <3>3. \A h \in {<<>>, <<Torn>>} : h \in Seq(Rec) /\ Items(h) \subseteq {Torn}
        BY TearIds DEF Items
      <3>6. Items(file') \subseteq S
        <4>1. CASE \E hole \in {<<>>, <<Torn>>} : file' = <<rec[l]>> \o hole \o u
          <5>1. PICK hole \in {<<>>, <<Torn>>} : file' = <<rec[l]>> \o hole \o u
            BY <4>1
          <5>2. /\ <<rec[l]>> \o hole \in Seq(Rec)
                /\ Items(<<rec[l]>> \o hole) \subseteq {rec[l], Torn}
            BY <2>1, <3>3, ConcatIds, ItemsOf
          <5>3. Items(file') \subseteq {rec[l], Torn} \cup Items(u)
            BY <3>2, <5>1, <5>2, ItemsOf
          <5>4. QED
            BY <3>2, <5>3
        <4>2. CASE \E torn \in {<<>>, <<Torn>>} : file' = torn \o u
          <5>1. PICK torn \in {<<>>, <<Torn>>} : file' = torn \o u
            BY <4>2
          <5>2. Items(file') \subseteq {Torn} \cup Items(u)
            BY <3>2, <3>3, <5>1, ItemsOf
          <5>3. QED
            BY <3>2, <5>2
        <4>3. CASE file' = file
          BY <4>3, Parts
        <4>4. QED
          BY <3>1, <4>1, <4>2, <4>3 DEF u
      <3>7. Items(buffer') \subseteq S /\ Items(logged') \subseteq S
        BY <2>1, <3>1, Parts
      <3> HIDE DEF S
      <3>8. Holdings' \subseteq S
        BY <2>2, <2>3, <3>6, <3>7, Whence
      <3>9. QED
        BY <3>8 DEF S
    <2>6. QED
      BY <2>4, <2>5
  <1>5. QED
    <2> DEFINE T == {Torn, rec[l]}
    <2>1. \A x \in T : x # Torn =>
            /\ x.id \in 1 .. issued
            /\ \A m \in Loop : Busy(m)' => x.id # rec'[m].id \/ x.cmd.op = "flushall"
      BY <1>3
    <2>2. Holdings' \subseteq Holdings \cup T
      BY <1>4
    <2> HIDE DEF T
    <2>3. QED
      BY <1>1, <1>2, <2>1, <2>2, StaysFresh

\* A file that may have been written out, or given up, holds nothing new.
LEMMA GivenFresh ==
  ASSUME TypeOK, WriteOut(file \o buffer) \/ Lose(file) \/ Lose(file \o buffer)
  PROVE  Items(file') \subseteq Holdings \cup {Torn}
  <1> DEFINE s == file \o buffer
  <1>1. /\ file \in Seq(Rec) /\ buffer \in Seq(Rec) /\ Len(file) \in Nat /\ Len(buffer) \in Nat
    BY Shapes
  <1>2. s \in Seq(Rec) /\ Len(file) <= Len(s) /\ Items(s) \subseteq Holdings
    <2>1. s \in Seq(Rec) /\ Len(s) = Len(file) + Len(buffer) /\ Items(s) \subseteq Items(file) \cup Items(buffer)
      BY <1>1, ConcatIds, ItemsOf
    <2>2. QED
      BY <1>1, <2>1, Parts
  <1>3. WriteOut(s) \/ Lose(file) \/ Lose(s)
    OBVIOUS
  <1> HIDE DEF s
  <1>4. Items(file') \subseteq Items(s) \cup Items(file) \cup {Torn}
    <2>1. CASE WriteOut(s)
      BY <1>2, <2>1, Given
    <2>2. CASE Lose(file)
      BY <1>1, <2>2, Lost
    <2>3. CASE Lose(s)
      BY <1>2, <2>3, Lost
    <2>4. QED
      BY <1>3, <2>1, <2>2, <2>3
  <1>5. QED
    BY <1>2, <1>4, Parts

\* The steps of a thread that move records about.
LEMMA MoveFresh ==
  ASSUME AllInv, Fresh, NEW t \in Thread,
         \/ t \in Loop /\ (Swap(t) \/ Sync(t) \/ CheckOpen(t) \/ CloseFile(t) \/ Reopen(t) \/ ReopenError(t))
         \/ Write(t) \/ WriteError(t)
         \/ t = Flusher /\ (FlushSwap \/ FlushSync)
  PROVE  Fresh'
  <1> USE DEF AllInv, AofInv, TypeInv
  <1>1. /\ issued' = issued /\ todo' = todo /\ logged' = logged
        /\ buffer' \in {buffer, <<>>}
        /\ local' \in {local, [local EXCEPT ![t] = buffer], [local EXCEPT ![t] = <<>>]}
    BY DEF Swap, Write, WriteError, Sync, CheckOpen, CloseFile, Reopen, ReopenError, FlushSwap,
           FlushSync, server, history
  <1>2. /\ buffer \in Seq(Rec) /\ logged \in Seq(Rec) /\ file \in Seq(Rec) /\ local \in [Thread -> Seq(Record)]
        /\ \A u \in Thread : local[u] \in Seq(Rec)
    BY Shapes
  <1> DEFINE S == Holdings \cup {Torn}
  <1>3. Items(buffer') \subseteq S /\ Items(<<>>) = {}
    BY <1>1, <1>2, ItemsOf, Parts
  <1>4. \A u \in Thread : Items(local'[u]) \subseteq S
    <2>1. ASSUME NEW u \in Thread PROVE local'[u] \in {local[u], buffer, <<>>}
      BY <1>1, <1>2
    <2>2. QED
      BY <1>3, <2>1, Parts
  <1>5. Items(file') \subseteq S
    <2>1. CASE file' = file
      BY <2>1, Parts
    <2>2. CASE WriteOut(file \o buffer) \/ Lose(file)
      BY <2>2, GivenFresh
    <2>3. CASE file' = file \o local[t]
      BY <1>2, <2>3, ItemsOf, Parts
    <2>4. CASE \E n \in 0 .. Len(local[t]) - 1, tear \in {<<>>, <<Torn>>} :
                  file' = file \o SubSeq(local[t], 1, n) \o tear
      <3>1. PICK n \in 0 .. Len(local[t]) - 1, tear \in {<<>>, <<Torn>>} :
                  file' = file \o SubSeq(local[t], 1, n) \o tear
        BY <2>4
      <3> DEFINE p == SubSeq(local[t], 1, n)
      <3>2. Len(local[t]) \in Nat
        BY <1>2, LenProperties
      <3>3. n \in 0 .. Len(local[t]) /\ 1 \in 1 .. Len(local[t]) + 1
        BY <3>2
      <3>4. p \in Seq(Rec) /\ Items(p) \subseteq Items(local[t])
        BY <1>2, <3>3, PrefixIds, ItemsOf
      <3>5. tear \in Seq(Rec) /\ Items(tear) \subseteq {Torn}
        BY TearIds DEF Items
      <3>6. file' = (file \o p) \o tear
        BY <3>1
      <3> HIDE DEF p
      <3>7. file \o p \in Seq(Rec) /\ Items(file \o p) \subseteq Items(file) \cup Items(p)
        BY <1>2, <3>4, ConcatIds, ItemsOf
      <3>8. Items(file') \subseteq Items(file \o p) \cup Items(tear)
        BY <3>5, <3>6, <3>7, ItemsOf
      <3>9. QED
        BY <3>4, <3>5, <3>7, <3>8, Parts
    <2>5. \/ file' = file \/ WriteOut(file \o buffer) \/ Lose(file) \/ file' = file \o local[t]
          \/ \E n \in 0 .. Len(local[t]) - 1, tear \in {<<>>, <<Torn>>} :
                  file' = file \o SubSeq(local[t], 1, n) \o tear
      BY DEF Swap, Write, WriteError, Sync, CheckOpen, CloseFile, Reopen, ReopenError, FlushSwap,
             FlushSync, medium
    <2>6. QED
      BY <2>1, <2>2, <2>3, <2>4, <2>5
  <1>6. Items(todo') \subseteq S /\ Items(logged') \subseteq S
    BY <1>1, Parts
  <1> HIDE DEF S
  <1>7. Holdings' \subseteq S
    BY <1>3, <1>4, <1>5, <1>6, Whence
  <1>8. \E s \in Step :
           /\ pc' = [pc EXCEPT ![t] = s]
           /\ rec' = rec \/ (t \in Loop /\ s = "idle" /\ rec' = [rec EXCEPT ![t] = NoRecord])
           /\ s \notin {"log", "close", "truncate", "open"} \/ t \notin Loop \/ Busy(t)
    <2>1. CASE t \in Loop /\ (Swap(t) \/ Sync(t) \/ Reopen(t) \/ ReopenError(t))
      <3>1. \/ pc' = [pc EXCEPT ![t] = "write"] /\ rec' = rec
            \/ pc' = [pc EXCEPT ![t] = "idle"] /\ rec' = [rec EXCEPT ![t] = NoRecord]
        BY <2>1 DEF Swap, Sync, Reopen, ReopenError, Answer
      <3>2. QED
        BY <2>1, <3>1 DEF Step
    <2>2. CASE t \in Loop /\ (CheckOpen(t) \/ CloseFile(t))
      <3>1. /\ \/ pc' = [pc EXCEPT ![t] = "close"] /\ rec' = rec
               \/ pc' = [pc EXCEPT ![t] = "truncate"] /\ rec' = rec
               \/ pc' = [pc EXCEPT ![t] = "idle"] /\ rec' = [rec EXCEPT ![t] = NoRecord]
            /\ Busy(t)
        BY <2>2 DEF CheckOpen, CloseFile, Answer, Busy, Closing
      <3>2. QED
        BY <2>2, <3>1 DEF Step
    <2>3. CASE Write(t) \/ WriteError(t)
      <3>1. (pc' = [pc EXCEPT ![t] = "sync"] \/ pc' = [pc EXCEPT ![t] = "idle"]) /\ rec' = rec
        BY <2>3 DEF Write, WriteError
      <3>2. QED
        BY <3>1 DEF Step
    <2>4. CASE t = Flusher /\ (FlushSwap \/ FlushSync)
      <3>1. (pc' = [pc EXCEPT ![t] = "write"] \/ pc' = [pc EXCEPT ![t] = "idle"]) /\ rec' = rec
        BY <2>4 DEF FlushSwap, FlushSync
      <3>2. QED
        BY <3>1 DEF Step
    <2>5. QED
      BY <2>1, <2>2, <2>3, <2>4
  <1>9. \A l \in Loop : Busy(l)' => Busy(l) /\ rec'[l] = rec[l]
    BY <1>8, StillBusy
  <1>10. QED
    <2> DEFINE T == {Torn}
    <2>1. Holdings' \subseteq Holdings \cup T /\ \A x \in T : x = Torn
      BY <1>7 DEF S
    <2> HIDE DEF T
    <2>2. QED
      BY <1>1, <1>9, <2>1, StaysFresh

LEMMA ReadableItems ==
  ASSUME NEW f \in Seq(Rec)
  PROVE  Items(Readable(f)) \subseteq Items(f)
  <1> DEFINE torn == {i \in DOMAIN f : f[i] = Torn}
             k == CHOOSE i \in torn : \A j \in torn : i <= j
  <1>1. Len(f) \in Nat /\ DOMAIN f = 1 .. Len(f)
    BY LenProperties
  <1>2. CASE torn = {}
    BY <1>2 DEF Readable
  <1>3. CASE torn # {}
    <2>1. torn \in SUBSET Nat
      BY <1>1
    <2>2. k \in torn
      BY <1>3, <2>1, Least
    <2> HIDE DEF k
    <2>3. k - 1 \in 0 .. Len(f) /\ 1 \in 1 .. Len(f) + 1
      BY <1>1, <2>2
    <2>4. Items(SubSeq(f, 1, k - 1)) \subseteq Items(f)
      BY <2>3, ItemsOf
    <2>5. QED
      BY <1>3, <2>4 DEF Readable, k
  <1>4. QED
    BY <1>2, <1>3

\* The steps of the server: no command is under way, or none of them moves.
LEMMA ServerFresh ==
  ASSUME AllInv, Fresh,
         Shutdown \/ FlusherJoined \/ LoadDone \/ LoopsJoined \/ Crash \/ Load \/ ReplayOne
  PROVE  Fresh'
  <1> USE DEF AllInv, AofInv, TypeInv
  <1>1. /\ issued' = issued
        /\ (pc' = pc /\ rec' = rec) \/ pc' = [t \in Thread |-> "idle"]
    BY DEF Shutdown, FlusherJoined, LoadDone, LoopsJoined, CloseAtLast, Crash, Load, ReplayOne, threads
  <1>2. \A l \in Loop : Busy(l)' => Busy(l) /\ rec'[l] = rec[l]
    BY <1>1 DEF Busy, Closing, Thread
  <1> DEFINE S == Holdings \cup {Torn}
  <1>3. /\ buffer \in Seq(Rec) /\ logged \in Seq(Rec) /\ file \in Seq(Rec) /\ local \in [Thread -> Seq(Record)]
        /\ Items(<<>>) = {} /\ <<>> \in Seq(Rec) /\ Torn \in Rec
        /\ Items(buffer) \subseteq S /\ Items(file) \subseteq S /\ Items(todo) \subseteq S
        /\ Items(logged) \subseteq S /\ \A t \in Thread : Items(local[t]) \subseteq S
    <2>1. /\ buffer \in Seq(Rec) /\ logged \in Seq(Rec) /\ file \in Seq(Rec)
          /\ local \in [Thread -> Seq(Record)] /\ <<>> \in Seq(Rec) /\ Torn \in Rec
      BY Shapes, EmptyIds DEF Rec
    <2>2. QED
      BY <2>1, ItemsOf, Parts
  <1>4. Holdings' \subseteq S
    <2>1. CASE Shutdown \/ FlusherJoined \/ LoadDone
      <3>1. UNCHANGED <<file, todo, buffer, logged, local>>
        BY <2>1 DEF Shutdown, FlusherJoined, LoadDone, medium, threads, history
      <3>2. QED
        BY <3>1 DEF Holdings, Items
    <2>2. CASE LoopsJoined
      <3>1. /\ UNCHANGED <<todo, logged, local>> /\ buffer' = <<>>
            /\ file' = file \/ WriteOut(file \o buffer)
        BY <2>2 DEF LoopsJoined, CloseAtLast, threads
      <3>2. Items(file') \subseteq S
        BY <1>3, <3>1, GivenFresh
      <3>3. Items(todo') \subseteq S /\ Items(logged') \subseteq S /\ Items(buffer') \subseteq S
        BY <1>3, <3>1
      <3>4. \A t \in Thread : Items(local'[t]) \subseteq S
        BY <1>3, <3>1
      <3> HIDE DEF S
      <3>5. QED
        BY <3>2, <3>3, <3>4, Whence
    <2>3. CASE Crash
      <3>1. PICK n \in synced .. Len(file), tear \in {<<>>, <<Torn>>} :
               file' = SubSeq(file, 1, n) \o tear
        BY <2>3 DEF Crash
      <3>2. /\ buffer' = <<>> /\ todo' = <<>> /\ local' = [t \in Thread |-> <<>>] /\ logged' = file'
        BY <2>3 DEF Crash
      <3> DEFINE p == SubSeq(file, 1, n)
      <3>3. n \in 0 .. Len(file) /\ 1 \in 1 .. Len(file) + 1
        BY Shapes
      <3>4. p \in Seq(Rec) /\ Items(p) \subseteq Items(file)
        BY <1>3, <3>3, PrefixIds, ItemsOf
      <3>5. tear \in Seq(Rec) /\ Items(tear) \subseteq {Torn}
        BY TearIds DEF Items
      <3> HIDE DEF p
      <3>6. Items(file') \subseteq Items(p) \cup Items(tear)
        BY <3>1, <3>4, <3>5, ItemsOf DEF p
      <3>7. Items(file') \subseteq S
        BY <1>3, <3>4, <3>5, <3>6
      <3>8. Items(buffer') \subseteq S /\ Items(todo') \subseteq S /\ Items(logged') \subseteq S
        BY <1>3, <3>2, <3>7
      <3>9. \A t \in Thread : Items(local'[t]) \subseteq S
        BY <1>3, <3>2
      <3> HIDE DEF S
      <3>10. QED
        BY <3>7, <3>8, <3>9, Whence
    <2>4. CASE Load
      <3>1. UNCHANGED <<buffer, file, local>> /\ todo' = Readable(file) /\ logged' = file
        BY <2>4 DEF Load, threads
      <3>2. Items(todo') \subseteq Items(file)
        BY <1>3, <3>1, ReadableItems
      <3>3. /\ Items(file') \subseteq S /\ Items(todo') \subseteq S /\ Items(buffer') \subseteq S
            /\ Items(logged') \subseteq S
        BY <1>3, <3>1, <3>2
      <3>4. \A t \in Thread : Items(local'[t]) \subseteq S
        BY <1>3, <3>1
      <3> HIDE DEF S
      <3>5. QED
        BY <3>3, <3>4, Whence
    <2>5. CASE ReplayOne
      <3> DEFINE r == Head(todo)
                 filled == Append(buffer, r)
                 u == file \o filled
      <3>1. /\ todo # <<>> /\ todo' = Tail(todo) /\ local' = local
            /\ buffer' \in {buffer, <<>>, filled}
            /\ logged' \in {logged, <<r>>, Append(logged, r)}
            /\ \/ file' \in {file, <<r>>, <<>>, <<Torn>>}
               \/ Lose(file \o buffer)
               \/ WriteOut(u)
        BY <2>5 DEF ReplayOne, Rewrite, threads, medium
      <3>2. todo \in Seq(Record) /\ todo \in Seq(Rec)
        BY Whole DEF TypeOK
      <3>3. r \in Items(todo) /\ Items(Tail(todo)) \subseteq Items(todo)
        BY <3>1, <3>2, ItemsOf
      <3>4. r \in Record /\ r \in S
        BY <1>3, <3>1, <3>2, <3>3, HeadTailProperties
      <3> HIDE DEF r
      <3>5. /\ Items(<<r>>) = {r} /\ Items(<<Torn>>) = {Torn}
            /\ Items(filled) \subseteq Items(buffer) \cup {r}
            /\ Items(Append(logged, r)) \subseteq Items(logged) \cup {r}
            /\ filled \in Seq(Rec) /\ Len(filled) \in Nat
        BY <1>3, <3>4, ItemsOf, RecordShape, AppendIds, LenProperties
      <3>6. Items(buffer') \subseteq S
        BY <1>3, <3>1, <3>4, <3>5
      <3>7. Items(logged') \subseteq S
        BY <1>3, <3>1, <3>4, <3>5
      <3> HIDE DEF filled
      <3>8. u \in Seq(Rec) /\ Len(file) <= Len(u) /\ Items(u) \subseteq Items(file) \cup Items(filled)
        <4>1. u \in Seq(Rec) /\ Len(u) = Len(file) + Len(filled) /\ Len(file) \in Nat
          BY <1>3, <3>5, ConcatIds
        <4>2. QED
          BY <1>3, <3>5, <4>1, ItemsOf
      <3> HIDE DEF u
      <3>9. Items(file') \subseteq S
        <4>1. CASE file' \in {file, <<r>>, <<>>, <<Torn>>}
          BY <1>3, <3>4, <3>5, <4>1
        <4>2. CASE Lose(file \o buffer)
          BY <4>2, GivenFresh
        <4>3. CASE WriteOut(u)
          <5>1. Items(file') \subseteq Items(u) \cup {Torn}
            BY <3>8, <4>3, Given
          <5>2. QED
            BY <1>3, <3>4, <3>5, <3>8, <5>1
        <4>4. QED
          BY <3>1, <4>1, <4>2, <4>3
      <3>10. Items(todo') \subseteq S
        BY <1>3, <3>1, <3>3
      <3>11. \A t \in Thread : Items(local'[t]) \subseteq S
        BY <1>3, <3>1
      <3> HIDE DEF S
      <3>12. QED
        BY <3>6, <3>7, <3>9, <3>10, <3>11, Whence
    <2>6. QED
      BY <2>1, <2>2, <2>3, <2>4, <2>5
  <1>5. QED
    <2> DEFINE T == {Torn}
    <2>1. Holdings' \subseteq Holdings \cup T /\ \A x \in T : x = Torn
      BY <1>4
    <2> HIDE DEF T
    <2>2. QED
      BY <1>1, <1>2, <2>1, StaysFresh

LEMMA StepFresh ==
  ASSUME AllInv, Fresh, [Next]_vars
  PROVE  Fresh'
  <1>1. CASE UNCHANGED vars
    <2>1. UNCHANGED <<buffer, file, todo, local, logged, issued, pc, rec>>
      BY <1>1 DEF vars, medium, server, threads, history
    <2>2. Holdings' = Holdings
      BY <2>1 DEF Holdings, Items
    <2>3. QED
      BY <2>1, <2>2 DEF Fresh, Closing
  <1>2. ASSUME NEW l \in Loop, Answering(l) PROVE Fresh'
    <2>1. l \in Thread
      BY DEF Thread
    <2>2. QED
      BY <1>2, <2>1, RecordFresh, MoveFresh DEF Answering
  <1>3. CASE Flush
    <2>1. Flusher \in Thread
      BY DEF Thread
    <2>2. QED
      BY <1>3, <2>1, MoveFresh DEF Flush
  <1>4. QED
    BY <1>1, <1>2, <1>3, ExecFresh, ServerFresh DEF Next

\* What was accounted for stays so, but at a crash and a load, which forget the
\* answers to what they lose.
LEMMA StaysAccounted ==
  ASSUME Accounted, Credit \subseteq Credit', acked' \subseteq acked \cup Credit',
         \A l \in Loop : pc'[l] \in {"swap", "write", "sync", "open"} =>
            \/ pc[l] \in {"swap", "write", "sync", "open"} /\ rec'[l] = rec[l]
            \/ rec'[l].id \in Credit'
  PROVE  Accounted'
  BY DEF Accounted

\* A thread moves on, or answers what the log accounts for.
LEMMA GoesOn ==
  ASSUME TypeOK, NEW t \in Thread, NEW s \in Step, pc' = [pc EXCEPT ![t] = s],
         rec' = rec \/ (t \in Loop /\ s = "idle" /\ rec' = [rec EXCEPT ![t] = NoRecord]),
         \/ t \notin Loop \/ s \notin {"swap", "write", "sync", "open"}
         \/ pc[t] \in {"swap", "write", "sync", "open"} \/ rec[t].id \in Credit'
  PROVE  \A l \in Loop : pc'[l] \in {"swap", "write", "sync", "open"} =>
            \/ pc[l] \in {"swap", "write", "sync", "open"} /\ rec'[l] = rec[l]
            \/ rec'[l].id \in Credit'
  <1>1. pc'[t] = s /\ \A u \in Thread : u # t => pc'[u] = pc[u]
    BY Move
  <1>2. ASSUME NEW l \in Loop, pc'[l] \in {"swap", "write", "sync", "open"}
        PROVE  \/ pc[l] \in {"swap", "write", "sync", "open"} /\ rec'[l] = rec[l]
               \/ rec'[l].id \in Credit'
    <2>1. l \in Thread
      BY Shapes
    <2>2. CASE l = t
      BY <1>1, <1>2, <2>2
    <2>3. CASE l # t
      <3>1. rec'[l] = rec[l]
        BY <2>3, Shapes
      <3>2. QED
        BY <1>1, <1>2, <2>1, <2>3, <3>1
    <2>4. QED
      BY <2>2, <2>3
  <1>3. QED
    BY <1>2

\* The steps that log nothing.
LEMMA MoveAccounted ==
  ASSUME AllInv, Accounted, NEW t \in Thread,
         \/ t \in Loop /\ (Swap(t) \/ Sync(t) \/ CloseFile(t) \/ Reopen(t) \/ ReopenError(t))
         \/ Write(t) \/ WriteError(t)
         \/ t = Flusher /\ (FlushSwap \/ FlushSync)
  PROVE  Accounted'
  <1>0. TypeOK /\ (t = Flusher => t \notin Loop)
    BY CommandShape DEF AllInv, AofInv, TypeInv
  <1>1. UNCHANGED <<logged, dropped, erased>>
    BY DEF Swap, Write, WriteError, Sync, CloseFile, Reopen, ReopenError, FlushSwap, FlushSync, history
  <1>2. Credit' = Credit
    BY <1>1 DEF Credit, Ids
  <1>3. \E s \in Step :
           /\ pc' = [pc EXCEPT ![t] = s]
           /\ rec' = rec \/ (t \in Loop /\ s = "idle" /\ rec' = [rec EXCEPT ![t] = NoRecord])
           /\ \/ t \notin Loop \/ s \notin {"swap", "write", "sync", "open"}
              \/ pc[t] \in {"swap", "write", "sync", "open"}
    <2>1. CASE t \in Loop /\ (Swap(t) \/ Sync(t) \/ CloseFile(t) \/ Reopen(t) \/ ReopenError(t))
      <3>1. \/ pc[t] = "swap" /\ pc' = [pc EXCEPT ![t] = "write"] /\ rec' = rec
            \/ pc' = [pc EXCEPT ![t] = "truncate"] /\ rec' = rec
            \/ pc' = [pc EXCEPT ![t] = "idle"] /\ rec' = [rec EXCEPT ![t] = NoRecord]
        BY <2>1 DEF Swap, Sync, CloseFile, Reopen, ReopenError, Answer
      <3>2. QED
        BY <2>1, <3>1 DEF Step
    <2>2. CASE Write(t) \/ WriteError(t)
      <3>1. /\ pc[t] = "write" /\ rec' = rec
            /\ pc' = [pc EXCEPT ![t] = "sync"] \/ pc' = [pc EXCEPT ![t] = "idle"]
        BY <2>2 DEF Write, WriteError
      <3>2. QED
        BY <3>1 DEF Step
    <2>3. CASE t = Flusher /\ (FlushSwap \/ FlushSync)
      <3>1. (pc' = [pc EXCEPT ![t] = "write"] \/ pc' = [pc EXCEPT ![t] = "idle"]) /\ rec' = rec
        BY <2>3 DEF FlushSwap, FlushSync
      <3>2. QED
        BY <1>0, <2>3, <3>1 DEF Step
    <2>4. QED
      BY <2>1, <2>2, <2>3
  <1>4. \A l \in Loop : pc'[l] \in {"swap", "write", "sync", "open"} =>
            \/ pc[l] \in {"swap", "write", "sync", "open"} /\ rec'[l] = rec[l]
            \/ rec'[l].id \in Credit'
    BY <1>0, <1>3, GoesOn
  <1>5. acked' \subseteq acked \cup Credit'
    <2>1. \/ acked' = acked
          \/ t \in Loop /\ pc[t] \in {"swap", "sync", "open"} /\ acked' = acked \cup {rec[t].id}
      BY DEF Swap, Write, WriteError, Sync, CloseFile, Reopen, ReopenError, FlushSwap, FlushSync,
             history, Answer
    <2>2. QED
      BY <1>2, <2>1 DEF Accounted
  <1>6. QED
    BY <1>2, <1>4, <1>5, StaysAccounted

\* The steps in which a command logs its record, or finds that it cannot.
LEMMA RecordAccounted ==
  ASSUME AllInv, Accounted, NEW l \in Loop,
         Log(l) \/ CheckOpen(l) \/ Truncate(l) \/ TruncateError(l)
  PROVE  Accounted'
  <1>1. TypeOK /\ l \in Thread /\ rec[l] \in Record /\ logged \in Seq(Rec)
    BY Shapes DEF AllInv, AofInv, TypeInv
  <1>2. \/ logged' = Append(logged, rec[l]) /\ UNCHANGED <<dropped, erased>>
        \/ logged' = logged /\ dropped' = dropped \cup {rec[l].id} /\ erased' = erased
        \/ logged' = <<rec[l]>> /\ erased' = erased \cup Ids(logged) /\ dropped' = dropped
        \/ UNCHANGED <<logged, dropped, erased, rec, acked>> /\ pc' = [pc EXCEPT ![l] = "close"]
    BY DEF Log, CheckOpen, Truncate, TruncateError, Answer
  <1>3. /\ Ids(Append(logged, rec[l])) = Ids(logged) \cup {rec[l].id}
        /\ Ids(<<rec[l]>>) = {rec[l].id}
    BY <1>1, AppendIds, SingleIds
  <1>4. Credit \subseteq Credit'
    BY <1>2, <1>3 DEF Credit
  <1>5. rec[l].id \in Credit' \/ (UNCHANGED <<rec, acked>> /\ pc' = [pc EXCEPT ![l] = "close"])
    BY <1>2, <1>3 DEF Credit
  <1>6. acked' \in {acked, acked \cup {rec[l].id}}
    BY DEF Log, CheckOpen, Truncate, TruncateError, Answer
  <1>7. \E s \in Step :
           /\ pc' = [pc EXCEPT ![l] = s]
           /\ rec' = rec \/ (s = "idle" /\ rec' = [rec EXCEPT ![l] = NoRecord])
    <2>1. \E s \in {"swap", "idle", "close", "open"} :
           /\ pc' = [pc EXCEPT ![l] = s]
           /\ rec' = rec \/ (s = "idle" /\ rec' = [rec EXCEPT ![l] = NoRecord])
      BY DEF Log, CheckOpen, Truncate, TruncateError, Answer
    <2>2. QED
      BY <2>1 DEF Step
  <1>8. QED
    <2>1. CASE rec[l].id \in Credit'
      <3>1. \A m \in Loop : pc'[m] \in {"swap", "write", "sync", "open"} =>
               \/ pc[m] \in {"swap", "write", "sync", "open"} /\ rec'[m] = rec[m]
               \/ rec'[m].id \in Credit'
        BY <1>1, <1>7, <2>1, GoesOn
      <3>2. QED
        BY <1>4, <1>6, <2>1, <3>1, StaysAccounted
    <2>2. CASE UNCHANGED <<rec, acked>> /\ pc' = [pc EXCEPT ![l] = "close"]
      <3>1. \A m \in Loop : pc'[m] \in {"swap", "write", "sync", "open"} =>
               pc[m] \in {"swap", "write", "sync", "open"} /\ rec'[m] = rec[m]
        <4>1. pc'[l] = "close" /\ \A u \in Thread : u # l => pc'[u] = pc[u]
          BY <1>1, <2>2, Move DEF Step
        <4>2. QED
          BY <1>1, <2>2, <4>1, Shapes
      <3>2. QED
        BY <1>4, <2>2, <3>1, StaysAccounted
    <2>3. QED
      BY <1>5, <2>1, <2>2

LEMMA ExecAccounted ==
  ASSUME AllInv, Accounted, NEW l \in Loop, NEW c \in Command, Exec(l, c) \/ ExecLate(l, c)
  PROVE  Accounted'
  <1>1. /\ \/ /\ pc' = [pc EXCEPT ![l] = "log"]
              /\ rec' = [rec EXCEPT ![l] = [id |-> issued + 1, cmd |-> c]]
           \/ UNCHANGED <<pc, rec>>
        /\ UNCHANGED <<logged, dropped, erased, acked>>
    BY DEF Exec, ExecLate, Begin
  <1>2. Credit' = Credit
    BY <1>1 DEF Credit, Ids
  <1>3. TypeOK /\ pc \in [Thread -> Step] /\ rec \in [Loop -> Record]
    BY DEF AllInv, AofInv, TypeInv, TypeOK, Step
  <1>4. \A m \in Loop : pc'[m] \in {"swap", "write", "sync", "open"} =>
           pc[m] \in {"swap", "write", "sync", "open"} /\ rec'[m] = rec[m]
    <2>1. \A m \in Loop : m \in Thread
      BY <1>3, Shapes
    <2>2. QED
      BY <1>1, <1>3, <2>1
  <1>5. QED
    BY <1>1, <1>2, <1>4, StaysAccounted

LEMMA ServerAccounted ==
  ASSUME AllInv, Accounted,
         Shutdown \/ FlusherJoined \/ LoadDone \/ LoopsJoined \/ Crash \/ Load \/ ReplayOne
  PROVE  Accounted'
  <1> USE DEF AllInv, AofInv, TypeInv
  <1>1. (pc' = pc /\ rec' = rec) \/ pc' = [t \in Thread |-> "idle"]
    BY DEF Shutdown, FlusherJoined, LoadDone, LoopsJoined, CloseAtLast, Crash, Load, ReplayOne, threads
  <1>2. \A l \in Loop : pc'[l] \in {"swap", "write", "sync", "open"} =>
           pc[l] \in {"swap", "write", "sync", "open"} /\ rec'[l] = rec[l]
    BY <1>1 DEF Thread
  <1>3. CASE Shutdown \/ FlusherJoined \/ LoadDone \/ LoopsJoined
    <2>1. UNCHANGED <<logged, dropped, erased, acked>>
      BY <1>3 DEF Shutdown, FlusherJoined, LoadDone, LoopsJoined, CloseAtLast, history
    <2>2. Credit' = Credit
      BY <2>1 DEF Credit, Ids
    <2>3. QED
      BY <1>2, <2>1, <2>2, StaysAccounted
  <1>4. CASE Crash \/ Load
    <2>1. acked' \subseteq Ids(logged')
      BY <1>4 DEF Crash, Load
    <2>2. \A l \in Loop : pc'[l] = "idle"
      BY <1>1, <1>4 DEF Crash, Load, Phased, Serving, threads, Thread
    <2>3. QED
      BY <2>1, <2>2 DEF Accounted, Credit
  <1>5. CASE ReplayOne
    <2> DEFINE r == Head(todo)
    <2>1. /\ todo # <<>> /\ UNCHANGED <<acked, dropped>>
          /\ \/ UNCHANGED <<logged, erased>>
             \/ logged' = Append(logged, r) /\ erased' = erased
             \/ erased' = erased \cup Ids(logged)
      BY <1>5 DEF ReplayOne, Rewrite
    <2>2. r \in Record /\ logged \in Seq(Rec)
      BY <2>1, HeadTailProperties, Shapes DEF TypeOK
    <2> HIDE DEF r
    <2>3. Ids(Append(logged, r)) = Ids(logged) \cup {r.id}
      BY <2>2, AppendIds
    <2>4. Credit \subseteq Credit'
      BY <2>1, <2>3 DEF Credit
    <2>5. QED
      BY <1>2, <2>1, <2>4, StaysAccounted
  <1>6. QED
    BY <1>3, <1>4, <1>5

LEMMA StepAccounted ==
  ASSUME AllInv, Accounted, [Next]_vars
  PROVE  Accounted'
  <1>1. CASE UNCHANGED vars
    <2>1. UNCHANGED <<logged, dropped, erased, acked, pc, rec>>
      BY <1>1 DEF vars, threads, history
    <2>2. QED
      BY <2>1 DEF Accounted, Credit, Ids
  <1>2. ASSUME NEW l \in Loop, Answering(l) PROVE Accounted'
    <2>1. l \in Thread
      BY DEF Thread
    <2>2. QED
      BY <1>2, <2>1, RecordAccounted, MoveAccounted DEF Answering
  <1>3. CASE Flush
    <2>1. Flusher \in Thread
      BY DEF Thread
    <2>2. QED
      BY <1>3, <2>1, MoveAccounted DEF Flush
  <1>4. QED
    BY <1>1, <1>2, <1>3, ExecAccounted, ServerAccounted DEF Next

LEMMA InitAccounted ==
  ASSUME Init
  PROVE  Fresh /\ Accounted
  <1>1. Items(<<>>) = {} /\ \A l \in Loop : pc[l] = "idle"
    BY EmptyIds DEF Items, Init, Thread
  <1>2. Holdings = {}
    BY <1>1 DEF Holdings, Init
  <1>3. QED
    BY <1>1, <1>2 DEF Fresh, Accounted, Init

-----------------------------------------------------------------------------
\* The inductive invariant of the file holds: what is under way, what is where, and
\* what is answered (aof.cpp, and FLUSHALL in command.cpp).
THEOREM AofInvariant == Spec => []AofInductive
  <1>1. Init => AofInductive
    BY InitHolds, InitAccounted DEF AofInductive
  <1>2. AofInductive /\ [Next]_vars => AofInductive'
    BY StepKeeps, StepFresh, StepAccounted DEF AofInductive
  <1>3. QED
    BY <1>1, <1>2, PTL DEF Spec

\* In every reachable state the variables have their types: fsync never gets
\* ahead of fflush nor fflush ahead of fwrite.
THEOREM AofTypeCorrect == Spec => []TypeOK
  <1>1. AofInductive => TypeOK
    BY DEF AofInductive, AllInv, AofInv, TypeInv
  <1>2. QED
    BY <1>1, AofInvariant, PTL

\* The buffer stays below the threshold but for one record of each loop that is
\* about to take it away (aof.h:12), whatever calls on the file fail, but for a
\* reopening.
THEOREM AofBufferBounded == Spec => []BufferBounded
  <1>1. AofInductive => BufferBounded
    BY DEF AofInductive, AllInv
  <1>2. QED
    BY <1>1, AofInvariant, PTL

\* An answered write is on the disk, after a clean shutdown and, under always,
\* while one thread at a time holds a batch: unless a call on the file failed, or
\* it found the file closed by a FLUSHALL, or a FLUSHALL erased it.
THEOREM AofAckedDurable == Spec => []AckedDurable
  <1>1. ASSUME AofInductive PROVE AckedDurable
    <2> USE <1>1 DEF AofInductive, AllInv, AofInv, TypeInv
    <2>1. file \in Seq(Rec) /\ Len(file) \in Nat /\ synced \in 0 .. Len(file) /\ DOMAIN file = 1 .. Len(file)
      BY Shapes, LenProperties DEF TypeOK
    <2>2. /\ DOMAIN SubSeq(file, 1, synced) = 1 .. synced
          /\ \A i \in 1 .. synced : SubSeq(file, 1, synced)[i] = file[i]
      BY <2>1, PrefixIds
    <2>3. ASSUME NEW i \in 1 .. synced, file[i] # Torn PROVE file[i].id \in Durable
      BY <2>2, <2>3, IdIn DEF Durable
    <2>4. ASSUME NEW x \in Ids(file)
          PROVE  \E i \in 1 .. Len(file) : file[i] # Torn /\ file[i].id = x
      BY <2>1, <2>4, IdIn
    <2>5. ASSUME phase = "stopped", failed = {}, NEW x \in Ids(logged) PROVE x \in Durable
      <3>1. ~open /\ synced = Len(file) /\ \A l \in Loop : pc[l] = "idle"
        BY <2>5 DEF Phased, Serving, Thread
      <3>2. x \in Ids(file)
        BY <2>5, <3>1 DEF Kept, NoTruncate, Calm
      <3>3. QED
        BY <2>3, <2>4, <3>1, <3>2
    <2>6. ASSUME policy = "always", failed = {}, "batches" \notin crossed,
                 NEW x \in acked, x \in Ids(logged)
          PROVE  x \in Durable \cup Flushalls
      <3>1. Hot /\ Calm
        BY <2>6 DEF Hot, Calm
      <3>2. /\ Pending /\ Unsynced
            /\ Ids(logged) \subseteq Ids(file) \cup Ids(buffer) \cup UNION {Ids(local[t]) : t \in Thread}
        BY <3>1 DEF HotInv, Kept
      <3>3. x \in Ids(file)
        BY <2>6, <3>2 DEF Pending
      <3>4. PICK i \in 1 .. Len(file) : file[i] # Torn /\ file[i].id = x
        BY <2>4, <3>3
      <3>5. CASE i \in 1 .. synced
        BY <2>3, <3>4, <3>5
      <3>6. CASE i \in synced + 1 .. Len(file)
        <4>1. file[i].cmd.op = "flushall"
          BY <2>6, <3>2, <3>4, <3>6 DEF Unsynced
        <4>2. QED
          BY <2>1, <3>4, <4>1 DEF Flushalls
      <3>7. QED
        BY <2>1, <3>4, <3>5, <3>6
    <2>7. acked \subseteq Ids(logged) \cup dropped \cup erased
      BY DEF Accounted, Credit
    <2>8. QED
      BY <2>5, <2>6, <2>7 DEF AckedDurable
  <1>2. QED
    BY <1>1, AofInvariant, PTL

-----------------------------------------------------------------------------
(* The log and the file. *)

\* The records in the hands of threads and their numbers.
Handed(hands) == UNION {{t} \X DOMAIN hands[t] : t \in Thread}
HandedIds(hands) == UNION {Ids(hands[t]) : t \in Thread}

\* Until two threads hold batches, one does; and none while a FLUSHALL has the file
\* closed.
Alone ==
    "batches" \notin crossed =>
        /\ \A t, u \in Thread : local[t] # <<>> /\ local[u] # <<>> => t = u
        /\ ("open" \notin failed /\ ~open => ~Held)

\* A FLUSHALL that is about to reopen the file has left its record in it.
Rewritten == Calm => \A l \in Loop : pc[l] = "open" => ~Plain(logged)

Intact == open /\ Calm /\ Plain(logged)

Counted == Intact => Len(logged) = Len(file) + Len(buffer) + Cardinality(Handed(local))
Named == Intact => Ids(logged) = Ids(file) \cup Ids(buffer) \cup HandedIds(local)
Ordered ==
    Intact /\ "batches" \notin crossed =>
        /\ \A t \in Thread : local[t] # <<>> => file \o local[t] \o buffer = logged
        /\ (~Held => file \o buffer = logged)

LogInv == Alone /\ Rewritten /\ Counted /\ Named /\ Ordered

LEMMA HandedFinite ==
  ASSUME NEW f \in [Thread -> Seq(Record)]
  PROVE  IsFiniteSet(Handed(f))
  <1> DEFINE g == [t \in Thread |-> {t} \X DOMAIN f[t]]
             S == {{t} \X DOMAIN f[t] : t \in Thread}
  <1>1. IsFiniteSet(Thread)
    BY AofAssumption, FS_AddElement DEF AofAssumption, Thread
  <1>2. g \in Surjection(Thread, S)
    BY DEF Surjection
  <1>3. IsFiniteSet(S)
    <2> HIDE DEF g, S
    <2>1. QED
      BY <1>1, <1>2, FS_Surjection
  <1>4. ASSUME NEW t \in Thread PROVE IsFiniteSet({t} \X DOMAIN f[t])
    <2>1. DOMAIN f[t] = 1 .. Len(f[t]) /\ Len(f[t]) \in Nat
      BY LenProperties
    <2>2. IsFiniteSet(DOMAIN f[t])
      BY <2>1, FS_Interval
    <2>3. IsFiniteSet({t})
      BY FS_Singleton
    <2>4. QED
      BY <2>2, <2>3, FS_Product
  <1>5. \A T \in S : IsFiniteSet(T)
    BY <1>4
  <1> HIDE DEF S
  <1>6. IsFiniteSet(UNION S)
    BY <1>3, <1>5, FS_UNION
  <1>7. QED
    BY <1>6 DEF S, Handed

\* A thread whose hands were empty holds a batch.
LEMMA HandedGrows ==
  ASSUME NEW f \in [Thread -> Seq(Record)], NEW g \in [Thread -> Seq(Record)], NEW t \in Thread,
         f[t] = <<>>, \A u \in Thread : u # t => g[u] = f[u]
  PROVE  /\ Cardinality(Handed(f)) \in Nat
         /\ Cardinality(Handed(g)) = Cardinality(Handed(f)) + Len(g[t])
         /\ HandedIds(g) = HandedIds(f) \cup Ids(g[t])
  <1> DEFINE n == Len(g[t])
             new == {t} \X (1 .. n)
  <1>1. n \in Nat /\ DOMAIN g[t] = 1 .. n /\ DOMAIN f[t] = {}
    BY LenProperties
  <1>2. /\ IsFiniteSet(Handed(f)) /\ Cardinality(Handed(f)) \in Nat
    BY HandedFinite, FS_CardinalityType
  <1> HIDE DEF n
  <1>3. Handed(g) = Handed(f) \cup new
    <2>1. ASSUME NEW x \in Handed(g) PROVE x \in Handed(f) \cup new
      <3>1. PICK u \in Thread : x \in {u} \X DOMAIN g[u]
        BY DEF Handed
      <3>2. CASE u = t
        BY <1>1, <3>1, <3>2
      <3>3. CASE u # t
        BY <3>1, <3>3 DEF Handed
      <3>4. QED
        BY <3>2, <3>3
    <2>2. ASSUME NEW x \in Handed(f) PROVE x \in Handed(g)
      <3>1. PICK u \in Thread : x \in {u} \X DOMAIN f[u]
        BY DEF Handed
      <3>2. u # t
        BY <1>1, <3>1
      <3>3. QED
        BY <3>1, <3>2 DEF Handed
    <2>3. new \subseteq Handed(g)
      BY <1>1 DEF Handed
    <2>4. QED
      BY <2>1, <2>2, <2>3
  <1>4. Handed(f) \cap new = {}
    <2>1. ASSUME NEW x \in Handed(f), x \in new PROVE FALSE
      <3>1. PICK u \in Thread : x \in {u} \X DOMAIN f[u]
        BY DEF Handed
      <3>2. u = t
        BY <2>1, <3>1
      <3>3. QED
        BY <1>1, <3>1, <3>2
    <2>2. QED
      BY <2>1
  <1>5. IsFiniteSet(new) /\ Cardinality(new) = n
    <2>1. IsFiniteSet({t}) /\ Cardinality({t}) = 1
      BY FS_Singleton
    <2>2. IsFiniteSet(1 .. n) /\ Cardinality(1 .. n) = n
      BY <1>1, FS_Interval
    <2>3. IsFiniteSet(new) /\ Cardinality(new) = Cardinality({t}) * Cardinality(1 .. n)
      BY <2>1, <2>2, FS_Product
    <2>4. QED
      BY <1>1, <2>1, <2>2, <2>3
  <1>6. Cardinality(Handed(g)) = Cardinality(Handed(f)) + n
    <2>1. Cardinality(Handed(f) \cap new) = 0
      BY <1>4, FS_EmptySet
    <2>2. Cardinality(Handed(f) \cup new)
             = Cardinality(Handed(f)) + Cardinality(new) - Cardinality(Handed(f) \cap new)
      BY <1>2, <1>5, FS_Union
    <2>3. QED
      BY <1>1, <1>2, <1>3, <1>5, <2>1, <2>2
  <1>7. HandedIds(g) = HandedIds(f) \cup Ids(g[t])
    <2>1. Ids(f[t]) = {}
      BY EmptyIds
    <2>2. \A u \in Thread : u # t => Ids(g[u]) = Ids(f[u])
      OBVIOUS
    <2>3. QED
      BY <2>1, <2>2 DEF HandedIds
  <1>8. QED
    BY <1>1, <1>2, <1>6, <1>7 DEF n

LEMMA NothingHanded ==
  ASSUME NEW f, \A t \in Thread : f[t] = <<>>
  PROVE  Handed(f) = {} /\ Cardinality(Handed(f)) = 0 /\ HandedIds(f) = {}
  <1>1. \A t \in Thread : DOMAIN f[t] = {} /\ Ids(f[t]) = {}
    BY EmptyIds
  <1>2. Handed(f) = {} /\ HandedIds(f) = {}
    BY <1>1 DEF Handed, HandedIds
  <1>3. QED
    BY <1>2, FS_EmptySet

LEMMA Associates ==
  \A s, t, u \in Seq(Rec) : (s \o t) \o u = s \o (t \o u)
  BY ConcatAssociative

LEMMA Emptied ==
  \A s \in Seq(Rec) : s \o <<>> = s /\ <<>> \o s = s
  BY ConcatEmptySeq

LEMMA AppendLast ==
  ASSUME NEW s \in Seq(Rec), NEW t \in Seq(Rec), NEW r \in Record
  PROVE  s \o Append(t, r) = Append(s \o t, r)
  <1>1. r \in Rec /\ <<r>> \in Seq(Rec) /\ s \o t \in Seq(Rec)
    BY RecordShape, SingleIds, ConcatIds
  <1>2. Append(t, r) = t \o <<r>> /\ Append(s \o t, r) = (s \o t) \o <<r>>
    BY <1>1, AppendIsConcat
  <1>3. QED
    BY <1>1, <1>2, Associates

\* The log, the file and the batches stay as they are.
LEMMA LogFrame ==
  ASSUME LogInv, UNCHANGED <<file, buffer, local, logged, open>>, failed \subseteq failed',
         "batches" \in crossed' <=> "batches" \in crossed,
         \A l \in Loop : pc'[l] = "open" => pc[l] = "open"
  PROVE  LogInv'
  <1>1. Alone'
    BY DEF LogInv, Alone, Held
  <1>2. Rewritten'
    BY DEF LogInv, Rewritten, Plain, Calm
  <1>3. Intact' => Intact
    BY DEF Intact, Plain, Calm
  <1>4. Counted' /\ Named' /\ Ordered'
    <2>1. Handed(local)' = Handed(local) /\ HandedIds(local)' = HandedIds(local)
      BY DEF Handed, HandedIds, Ids
    <2>2. Ids(file)' = Ids(file) /\ Ids(buffer)' = Ids(buffer) /\ Ids(logged)' = Ids(logged)
      BY DEF Ids
    <2>3. (Held' <=> Held) /\ (Intact' /\ "batches" \notin crossed' => Intact /\ "batches" \notin crossed)
      BY <1>3 DEF Held
    <2>4. Counted'
      BY <1>3, <2>1 DEF LogInv, Counted
    <2>5. Named'
      BY <1>3, <2>1, <2>2 DEF LogInv, Named
    <2>6. Ordered'
      BY <2>3, Zenon DEF LogInv, Ordered
    <2>7. QED
      BY <2>4, <2>5, <2>6
  <1>5. QED
    BY <1>1, <1>2, <1>4 DEF LogInv

LEMMA Disturbed ==
  ASSUME ~Intact', Alone', Rewritten'
  PROVE  LogInv'
  BY DEF LogInv, Counted, Named, Ordered

LEMMA LogLogs ==
  ASSUME AllInv, LogInv, NEW l \in Loop, Log(l)
  PROVE  LogInv'
  <1>1. /\ pc[l] = "log" /\ rec[l].cmd.op # "flushall"
        /\ UNCHANGED <<file, open, local, failed, crossed>>
    BY DEF Log, medium
  <1>2. /\ TypeOK /\ rec[l] \in Record /\ l \in Thread
        /\ buffer \in Seq(Rec) /\ logged \in Seq(Rec) /\ file \in Seq(Rec)
        /\ \A t \in Thread : local[t] \in Seq(Rec)
    BY Shapes DEF AllInv, AofInv, TypeInv
  <1>3. /\ \A m \in Loop : pc'[m] = "open" => pc[m] = "open"
        /\ (open => buffer' = Append(buffer, rec[l]) /\ logged' = Append(logged, rec[l]))
        /\ (~open => UNCHANGED <<buffer, logged>>)
    <2>1. pc' = [pc EXCEPT ![l] = "swap"] \/ pc' = [pc EXCEPT ![l] = "idle"]
      BY DEF Log, Answer
    <2>2. pc'[l] # "open" /\ \A m \in Loop : m \in Thread /\ (m # l => pc'[m] = pc[m])
      BY <1>2, <2>1, Shapes DEF TypeOK
    <2>3. /\ (open => buffer' = Append(buffer, rec[l]) /\ logged' = Append(logged, rec[l]))
          /\ (~open => UNCHANGED <<buffer, logged>>)
      BY DEF Log
    <2>4. QED
      BY <2>2, <2>3
  <1>4. CASE ~open
    BY <1>1, <1>3, <1>4, LogFrame
  <1>5. CASE open
    <2>1. /\ Len(buffer') = Len(buffer) + 1 /\ Ids(buffer') = Ids(buffer) \cup {rec[l].id}
          /\ Len(logged') = Len(logged) + 1 /\ Ids(logged') = Ids(logged) \cup {rec[l].id}
          /\ (Plain(logged') <=> Plain(logged))
          /\ Len(buffer) \in Nat /\ Len(logged) \in Nat /\ Len(file) \in Nat
      BY <1>1, <1>2, <1>3, <1>5, AppendIds, LenProperties
    <2>2. Cardinality(Handed(local)) \in Nat
      BY <1>2, HandedFinite, FS_CardinalityType DEF TypeOK
    <2>3. Intact' => Intact
      BY <1>1, <2>1 DEF Intact, Calm
    <2>4. Alone' /\ Rewritten'
      BY <1>1, <1>3, <2>1, Zenon DEF LogInv, Alone, Held, Rewritten, Calm
    <2>5. Handed(local)' = Handed(local) /\ HandedIds(local)' = HandedIds(local)
      BY <1>1 DEF Handed, HandedIds, Ids
    <2>6. Counted'
      BY <1>1, <2>1, <2>2, <2>3, <2>5 DEF LogInv, Counted
    <2>7. Ids(file') = Ids(file)
      BY <1>1
    <2>8. Named'
      BY <1>1, <2>1, <2>3, <2>5, <2>7 DEF LogInv, Named
    <2>9. Ordered'
      <3> SUFFICES ASSUME Intact, "batches" \notin crossed
                   PROVE  /\ \A t \in Thread : local[t] # <<>> => file \o local[t] \o buffer' = logged'
                          /\ (~Held => file \o buffer' = logged')
        BY <1>1, <2>3 DEF Ordered, Held
      <3>1. /\ \A t \in Thread : local[t] # <<>> => (file \o local[t]) \o buffer = logged
            /\ (~Held => file \o buffer = logged)
        BY DEF LogInv, Ordered
      <3>2. ASSUME NEW t \in Thread, local[t] # <<>> PROVE (file \o local[t]) \o buffer' = logged'
        <4>1. file \o local[t] \in Seq(Rec)
          BY <1>2, ConcatIds
        <4>2. (file \o local[t]) \o Append(buffer, rec[l]) = Append((file \o local[t]) \o buffer, rec[l])
          BY <1>2, <4>1, AppendLast
        <4>3. QED
          BY <1>3, <1>5, <3>1, <3>2, <4>2
      <3>3. ASSUME ~Held PROVE file \o buffer' = logged'
        <4>1. file \o Append(buffer, rec[l]) = Append(file \o buffer, rec[l])
          BY <1>2, AppendLast
        <4>2. QED
          BY <1>3, <1>5, <3>1, <3>3, <4>1
      <3>4. QED
        BY <3>2, <3>3
    <2>10. QED
      BY <2>4, <2>6, <2>8, <2>9 DEF LogInv
  <1>6. QED
    BY <1>4, <1>5

\* A thread takes the buffer away.
LEMMA TakenLogs ==
  ASSUME AllInv, LogInv, NEW t \in Thread, open, pc[t] # "write",
         local' = [local EXCEPT ![t] = buffer], buffer' = <<>>,
         crossed' = IF Held THEN crossed \cup {"batches"} ELSE crossed,
         \A l \in Loop : pc'[l] = "open" => pc[l] = "open",
         UNCHANGED <<file, open, logged, failed>>
  PROVE  LogInv'
  <1>1. /\ TypeOK /\ buffer \in Seq(Record) /\ local \in [Thread -> Seq(Record)]
        /\ buffer \in Seq(Rec) /\ logged \in Seq(Rec) /\ file \in Seq(Rec) /\ local[t] = <<>>
    BY Shapes DEF AllInv, AofInv, TypeInv, Phased
  <1>2. /\ local' \in [Thread -> Seq(Record)] /\ local'[t] = buffer
        /\ \A u \in Thread : u # t => local'[u] = local[u]
    BY <1>1
  <1>3. /\ Cardinality(Handed(local)) \in Nat
        /\ Cardinality(Handed(local')) = Cardinality(Handed(local)) + Len(buffer)
        /\ HandedIds(local') = HandedIds(local) \cup Ids(buffer)
    BY <1>1, <1>2, HandedGrows
  <1>4. Intact' => Intact
    BY DEF Intact, Plain, Calm
  <1>5. Alone' /\ Rewritten'
    <2>1. "batches" \notin crossed' => "batches" \notin crossed /\ \A u \in Thread : local[u] = <<>>
      BY DEF Held
    <2>2. Alone'
      BY <1>2, <2>1, Zenon DEF Alone
    <2>3. Rewritten'
      BY DEF LogInv, Rewritten, Plain, Calm
    <2>4. QED
      BY <2>2, <2>3
  <1>6. Ids(buffer') = {} /\ Len(buffer') = 0 /\ Len(buffer) \in Nat /\ Ids(file') = Ids(file)
        /\ Ids(logged') = Ids(logged) /\ Len(file) \in Nat
    BY <1>1, EmptyIds, LenProperties
  <1>7. Counted'
    BY <1>3, <1>4, <1>6 DEF LogInv, Counted
  <1>8. Named'
    BY <1>3, <1>4, <1>6 DEF LogInv, Named
  <1>9. Ordered'
    <2> SUFFICES ASSUME Intact, "batches" \notin crossed'
                 PROVE  /\ \A u \in Thread : local'[u] # <<>> => file \o local'[u] \o buffer' = logged
                        /\ (~Held' => file \o buffer' = logged)
      BY <1>4 DEF Ordered
    <2>1. "batches" \notin crossed /\ ~Held /\ \A u \in Thread : local[u] = <<>>
      BY DEF Held
    <2>2. file \o buffer = logged
      BY <2>1 DEF LogInv, Ordered
    <2>3. ASSUME NEW u \in Thread, local'[u] # <<>> PROVE (file \o local'[u]) \o buffer' = logged
      <3>1. u = t /\ local'[u] = buffer
        BY <1>2, <2>1, <2>3
      <3>2. logged \o <<>> = logged
        BY <1>1, Emptied
      <3>3. QED
        BY <2>2, <3>1, <3>2
    <2>4. ASSUME ~Held' PROVE file \o buffer' = logged
      <3>1. buffer = <<>>
        BY <1>2, <2>4 DEF Held
      <3>2. QED
        BY <2>2, <3>1
    <2>5. QED
      BY <2>3, <2>4
  <1>10. QED
    BY <1>5, <1>7, <1>8, <1>9 DEF LogInv

LEMMA SwapLogs ==
  ASSUME AllInv, LogInv, NEW l \in Loop, Swap(l)
  PROVE  LogInv'
  <1>1. TypeOK /\ l \in Thread /\ pc[l] = "swap"
    BY Shapes DEF AllInv, AofInv, TypeInv, Swap
  <1>2. \A m \in Loop : pc'[m] = "open" => pc[m] = "open"
    <2>1. pc' = [pc EXCEPT ![l] = "write"] \/ pc' = [pc EXCEPT ![l] = "idle"]
      BY DEF Swap, Answer
    <2>2. pc'[l] # "open" /\ \A m \in Loop : m \in Thread /\ (m # l => pc'[m] = pc[m])
      BY <1>1, <2>1, Shapes DEF TypeOK
    <2>3. QED
      BY <2>2
  <1>3. UNCHANGED <<file, open, logged, failed>>
    BY DEF Swap, medium
  <1>4. CASE open
    <2>1. /\ local' = [local EXCEPT ![l] = buffer] /\ buffer' = <<>>
          /\ crossed' = IF Held THEN crossed \cup {"batches"} ELSE crossed
      BY <1>4 DEF Swap
    <2>2. QED
      BY <1>1, <1>2, <1>3, <1>4, <2>1, TakenLogs
  <1>5. CASE ~open
    <2>1. UNCHANGED <<buffer, local, crossed>>
      BY <1>5 DEF Swap
    <2>2. QED
      BY <1>2, <1>3, <2>1, LogFrame
  <1>6. QED
    BY <1>4, <1>5

LEMMA FlushSwapLogs ==
  ASSUME AllInv, LogInv, FlushSwap
  PROVE  LogInv'
  <1>1. TypeOK /\ Flusher \in Thread /\ \A l \in Loop : l \in Thread /\ l # Flusher
    BY Shapes DEF AllInv, AofInv, TypeInv
  <1>2. /\ pc[Flusher] = "idle" /\ open /\ pc' = [pc EXCEPT ![Flusher] = "write"]
        /\ local' = [local EXCEPT ![Flusher] = buffer] /\ buffer' = <<>>
        /\ crossed' = IF Held THEN crossed \cup {"batches"} ELSE crossed
        /\ UNCHANGED <<file, open, logged, failed>>
    BY DEF FlushSwap, medium
  <1>3. \A l \in Loop : pc'[l] = "open" => pc[l] = "open"
    BY <1>1, <1>2, Move DEF Step
  <1>4. QED
    BY <1>1, <1>2, <1>3, TakenLogs

LEMMA WriteLogs ==
  ASSUME AllInv, LogInv, NEW t \in Thread, Write(t)
  PROVE  LogInv'
  <1>1. /\ pc[t] = "write" /\ local' = [local EXCEPT ![t] = <<>>]
        /\ file' = IF open THEN file \o local[t] ELSE file
        /\ pc' = [pc EXCEPT ![t] = IF open \/ t # Flusher THEN "sync" ELSE "idle"]
        /\ UNCHANGED <<buffer, open, logged, failed, crossed>>
    BY DEF Write, history
  <1>2. /\ TypeOK /\ local \in [Thread -> Seq(Record)]
        /\ buffer \in Seq(Rec) /\ logged \in Seq(Rec) /\ file \in Seq(Rec)
        /\ \A u \in Thread : local[u] \in Seq(Rec)
    BY Shapes DEF AllInv, AofInv, TypeInv
  <1>3. \A l \in Loop : pc'[l] = "open" => pc[l] = "open"
    <2>1. pc'[t] # "open" /\ \A u \in Thread : u # t => pc'[u] = pc[u]
      BY <1>1, <1>2 DEF TypeOK
    <2>2. QED
      BY <1>2, <2>1, Shapes
  <1>4. /\ local' \in [Thread -> Seq(Record)] /\ local'[t] = <<>>
        /\ \A u \in Thread : u # t => local'[u] = local[u]
    BY <1>1, <1>2, EmptyIds
  <1>5. Alone' /\ Rewritten'
    <2>1. \A u \in Thread : local'[u] # <<>> => local[u] # <<>>
      BY <1>4
    <2>2. Alone'
      BY <1>1, <2>1, Zenon DEF LogInv, Alone, Held
    <2>3. Rewritten'
      BY <1>1, <1>3 DEF LogInv, Rewritten, Plain, Calm
    <2>4. QED
      BY <2>2, <2>3
  <1>6. CASE ~open
    BY <1>1, <1>5, <1>6, Disturbed DEF Intact
  <1>7. CASE open
    <2>1. file' = file \o local[t]
      BY <1>1, <1>7
    <2>2. /\ Len(file') = Len(file) + Len(local[t]) /\ Len(file) \in Nat /\ Len(local[t]) \in Nat
          /\ Ids(file') = Ids(file) \cup Ids(local[t]) /\ file' \in Seq(Rec)
      BY <1>2, <2>1, ConcatIds
    <2>3. /\ Cardinality(Handed(local')) \in Nat
          /\ Cardinality(Handed(local)) = Cardinality(Handed(local')) + Len(local[t])
          /\ HandedIds(local) = HandedIds(local') \cup Ids(local[t])
      <3>1. PICK before, after : before = local /\ after = local'
        OBVIOUS
      <3>2. /\ before \in [Thread -> Seq(Record)] /\ after \in [Thread -> Seq(Record)]
            /\ after[t] = <<>> /\ \A u \in Thread : u # t => before[u] = after[u]
        BY <1>2, <1>4, <3>1
      <3>3. /\ Cardinality(Handed(after)) \in Nat
            /\ Cardinality(Handed(before)) = Cardinality(Handed(after)) + Len(before[t])
            /\ HandedIds(before) = HandedIds(after) \cup Ids(before[t])
        BY <3>2, HandedGrows
      <3>4. QED
        BY <3>1, <3>3
    <2>4. Intact' <=> Intact
      BY <1>1 DEF Intact, Plain, Calm
    <2>5. UNCHANGED <<Len(buffer), Ids(buffer), Len(logged), Ids(logged)>> /\ Len(buffer) \in Nat
      BY <1>1, <1>2, LenProperties
    <2>6. Counted'
      BY <2>2, <2>3, <2>4, <2>5 DEF LogInv, Counted
    <2>7. Named'
      BY <2>2, <2>3, <2>4, <2>5 DEF LogInv, Named
    <2>8. Ordered'
      <3> SUFFICES ASSUME Intact, "batches" \notin crossed
                   PROVE  /\ \A u \in Thread : local'[u] # <<>> => file' \o local'[u] \o buffer = logged
                          /\ (~Held' => file' \o buffer = logged)
        BY <1>1, <2>4 DEF Ordered
      <3>1. /\ \A u \in Thread : local[u] # <<>> => (file \o local[u]) \o buffer = logged
            /\ (~Held => file \o buffer = logged)
            /\ \A u, v \in Thread : local[u] # <<>> /\ local[v] # <<>> => u = v
        BY DEF LogInv, Ordered, Alone
      <3>2. CASE local[t] = <<>>
        <4>1. file' = file
          BY <1>2, <2>1, <3>2, Emptied
        <4>2. \A u \in Thread : local'[u] = local[u]
          BY <1>4, <3>2
        <4>3. QED
          BY <3>1, <4>1, <4>2 DEF Held
      <3>3. CASE local[t] # <<>>
        <4>1. \A u \in Thread : local'[u] = <<>>
          BY <1>4, <3>1, <3>3
        <4>2. QED
          BY <2>1, <3>1, <3>3, <4>1
      <3>4. QED
        BY <3>2, <3>3
    <2>9. QED
      BY <1>5, <2>6, <2>7, <2>8 DEF LogInv
  <1>8. QED
    BY <1>6, <1>7

LEMMA WriteErrorLogs ==
  ASSUME AllInv, LogInv, NEW t \in Thread, WriteError(t)
  PROVE  LogInv'
  <1>1. /\ local' = [local EXCEPT ![t] = <<>>] /\ failed' = failed \cup {"write"}
        /\ pc' = [pc EXCEPT ![t] = IF t = Flusher THEN "idle" ELSE "sync"]
        /\ UNCHANGED <<open, logged, crossed>>
    BY DEF WriteError
  <1>2. TypeOK /\ local \in [Thread -> Seq(Record)] /\ \A l \in Loop : l \in Thread
    BY Shapes DEF AllInv, AofInv, TypeInv
  <1>3. /\ pc'[t] # "open" /\ \A u \in Thread : u # t => pc'[u] = pc[u] /\ local'[u] = local[u]
        /\ local'[t] = <<>>
    BY <1>1, <1>2, EmptyIds DEF TypeOK
  <1>4. \A u \in Thread : local'[u] # <<>> => local[u] # <<>>
    BY <1>3
  <1>5. ~Calm' /\ ("open" \notin failed' => "open" \notin failed)
    BY <1>1 DEF Calm
  <1>6. Alone'
    BY <1>1, <1>4, <1>5, Zenon DEF LogInv, Alone, Held
  <1>7. QED
    BY <1>5, <1>6, Disturbed DEF Intact, Rewritten

LEMMA CloseFileLogs ==
  ASSUME AllInv, LogInv, NEW l \in Loop, CloseFile(l)
  PROVE  LogInv'
  <1>1. /\ UNCHANGED <<local, logged>> /\ failed \subseteq failed'
        /\ pc' = [pc EXCEPT ![l] = "truncate"]
    BY DEF CloseFile, WriteOut
  <1>2. TypeOK /\ \A m \in Loop : m \in Thread
    BY Shapes DEF AllInv, AofInv, TypeInv
  <1>3. \A m \in Loop : pc'[m] = "open" => pc[m] = "open"
    <2>1. pc'[l] # "open" /\ \A m \in Loop : m # l => pc'[m] = pc[m]
      BY <1>1, <1>2 DEF TypeOK
    <2>2. QED
      BY <2>1
  <1>4. CASE open
    <2>1. ~open' /\ crossed' = IF Held THEN crossed \cup {"batches"} ELSE crossed
      BY <1>4 DEF CloseFile
    <2>2. Alone'
      <3>1. "batches" \notin crossed' => ~Held
        BY <2>1
      <3>2. Held' <=> Held
        BY <1>1 DEF Held
      <3>3. QED
        BY <3>1, <3>2, Zenon DEF Alone, Held
    <2>3. Rewritten'
      BY <1>1, <1>3 DEF LogInv, Rewritten, Plain, Calm
    <2>4. QED
      BY <2>1, <2>2, <2>3, Disturbed DEF Intact
  <1>5. CASE ~open
    <2>1. UNCHANGED <<buffer, file, open, crossed>>
      BY <1>5 DEF CloseFile, medium
    <2>2. QED
      BY <1>1, <1>3, <2>1, LogFrame
  <1>6. QED
    BY <1>4, <1>5

LEMMA TruncateLogs ==
  ASSUME AllInv, LogInv, NEW l \in Loop, Truncate(l)
  PROVE  LogInv'
  <1>1. /\ pc[l] = "truncate" /\ logged' = <<rec[l]>> /\ UNCHANGED <<local, open, failed, crossed>>
    BY DEF Truncate
  <1>2. TypeOK /\ rec[l] \in Record /\ rec[l].cmd.op = "flushall"
    BY <1>1, Shapes DEF AllInv, AofInv, TypeInv, Shut, Closing
  <1>3. ~Plain(logged')
    BY <1>1, <1>2, SingleIds
  <1>4. Alone'
    BY <1>1, Zenon DEF LogInv, Alone, Held
  <1>5. Rewritten'
    BY <1>3 DEF Rewritten, Plain
  <1>6. ~Intact'
    BY <1>3, Zenon DEF Intact, Plain
  <1>7. QED
    BY <1>4, <1>5, <1>6, Disturbed

LEMMA ReopenLogs ==
  ASSUME AllInv, LogInv, NEW l \in Loop, Reopen(l)
  PROVE  LogInv'
  <1>1. /\ pc[l] = "open" /\ open' /\ UNCHANGED <<local, logged, failed, crossed>>
        /\ pc' = [pc EXCEPT ![l] = "idle"]
    BY DEF Reopen, Answer
  <1>2. TypeOK /\ \A m \in Loop : m \in Thread
    BY Shapes DEF AllInv, AofInv, TypeInv
  <1>3. Calm => ~Plain(logged)
    BY <1>1 DEF LogInv, Rewritten
  <1>4. Alone'
    BY <1>1, Zenon DEF LogInv, Alone, Held
  <1>5. Rewritten' /\ ~Intact'
    BY <1>1, <1>3 DEF Rewritten, Intact, Plain, Calm
  <1>6. QED
    BY <1>4, <1>5, Disturbed

\* A truncation or a reopening fails.
LEMMA FailedLogs ==
  ASSUME AllInv, LogInv, NEW l \in Loop, TruncateError(l) \/ ReopenError(l)
  PROVE  LogInv'
  <1>1. /\ UNCHANGED <<local, crossed>> /\ failed \subseteq failed'
        /\ "write" \in failed' \/ "truncate" \in failed'
        /\ "open" \notin failed' /\ ~open' => ~open
    <2>1. CASE TruncateError(l)
      BY <2>1 DEF TruncateError
    <2>2. CASE ReopenError(l)
      <3>1. /\ UNCHANGED <<local, crossed>>
            /\ failed' = failed \cup {"write", "sync"} \cup IF open' THEN {} ELSE {"open"}
        BY <2>2 DEF ReopenError
      <3>2. ~open' => "open" \in failed'
        BY <3>1
      <3>3. QED
        BY <3>1, <3>2
    <2>3. QED
      BY <2>1, <2>2
  <1>2. ~Calm' /\ ("open" \notin failed' /\ ~open' => "open" \notin failed /\ ~open)
    BY <1>1 DEF Calm
  <1>3. Alone'
    BY <1>1, <1>2, Zenon DEF LogInv, Alone, Held
  <1>4. QED
    BY <1>2, <1>3, Disturbed DEF Intact, Rewritten

\* Steps at which nobody holds a batch and nobody rewrites the file.
LEMMA IdleLogs ==
  ASSUME \A t \in Thread : pc'[t] = "idle" /\ local'[t] = <<>>, ~open'
  PROVE  LogInv'
  <1>1. Alone'
    BY DEF Alone, Held
  <1>2. Rewritten'
    BY DEF Rewritten, Thread
  <1>3. QED
    BY <1>1, <1>2, Disturbed DEF Intact

LEMMA LoadLogs ==
  ASSUME AllInv, LogInv, Load
  PROVE  LogInv'
  <1>1. /\ phase \in {"down", "stopped"} /\ open' /\ logged' = file
        /\ UNCHANGED <<buffer, file, pc, local>>
    BY DEF Load, threads
  <1>2. TypeOK /\ buffer = <<>> /\ file \in Seq(Rec)
    BY <1>1, Shapes DEF AllInv, AofInv, TypeInv, Phased
  <1>3. \A t \in Thread : pc[t] = "idle" /\ local[t] = <<>>
    BY <1>1 DEF AllInv, AofInv, TypeInv, Phased, Serving
  <1>4. Alone' /\ Rewritten'
    <2>1. Alone'
      BY <1>1, <1>3, Zenon DEF Alone, Held
    <2>2. Rewritten'
      BY <1>1, <1>3 DEF Rewritten, Thread
    <2>3. QED
      BY <2>1, <2>2
  <1>5. /\ Cardinality(Handed(local')) = 0 /\ HandedIds(local') = {}
        /\ Len(buffer') = 0 /\ Ids(buffer') = {}
    BY <1>1, <1>2, <1>3, NothingHanded, EmptyIds
  <1>6. Counted' /\ Named'
    <2>1. Len(file') \in Nat /\ Len(logged') = Len(file') /\ Ids(logged') = Ids(file')
      BY <1>1, <1>2, LenProperties
    <2>2. QED
      BY <1>5, <2>1 DEF Counted, Named
  <1>7. Ordered'
    <2>1. file' \o buffer' = logged' /\ \A t \in Thread : local'[t] = <<>>
      BY <1>1, <1>2, <1>3, Emptied
    <2>2. QED
      BY <2>1, Zenon DEF Ordered, Held
  <1>8. QED
    BY <1>4, <1>6, <1>7 DEF LogInv

LEMMA ReplayLogs ==
  ASSUME AllInv, LogInv, ReplayOne
  PROVE  LogInv'
  <1> DEFINE r == Head(todo)
             filled == Append(buffer, r)
  <1>1. /\ phase = "loading" /\ todo # <<>>
        /\ UNCHANGED <<pc, local, crossed>>
        /\ \/ r.cmd.op = "flushall" /\ Rewrite(r)
           \/ failed \subseteq failed' /\ "write" \in failed'
           \/ UNCHANGED <<buffer, file, logged, open, failed>>
           \/ /\ logged' = Append(logged, r) /\ r.cmd.op # "flushall" /\ UNCHANGED <<open, failed>>
              /\ \/ file' = file \o filled /\ buffer' = <<>>
                 \/ buffer' = filled /\ file' = file
    BY DEF ReplayOne, threads, medium, WriteOut
  <1>2. /\ TypeOK /\ buffer \in Seq(Rec) /\ file \in Seq(Rec) /\ logged \in Seq(Rec)
        /\ r \in Record
    BY <1>1, Shapes, HeadTailProperties DEF AllInv, AofInv, TypeInv, TypeOK
  <1>3. \A t \in Thread : pc[t] = "idle" /\ local[t] = <<>>
    BY <1>1 DEF AllInv, AofInv, TypeInv, Phased, Serving
  <1>4. Alone'
    BY <1>1, <1>3, Zenon DEF Alone, Held
  <1> HIDE DEF r
  <1>9. CASE failed \subseteq failed' /\ "write" \in failed'
    BY <1>4, <1>9, Disturbed DEF Intact, Rewritten, Calm
  <1>5. CASE r.cmd.op = "flushall" /\ logged' = <<r>>
    <2>1. logged' = <<r>>
      BY <1>5
    <2>2. ~Plain(logged')
      BY <1>2, <1>5, <2>1, SingleIds
    <2>3. Rewritten' /\ ~Intact'
      BY <1>1, <1>3, <2>2, Zenon DEF Rewritten, Intact, Plain, Thread
    <2>4. QED
      BY <1>4, <2>3, Disturbed
  <1>6. CASE UNCHANGED <<buffer, file, logged, open, failed>>
    BY <1>1, <1>6, LogFrame
  <1>7. CASE /\ logged' = Append(logged, r) /\ r.cmd.op # "flushall" /\ UNCHANGED <<open, failed>>
             /\ \/ file' = file \o filled /\ buffer' = <<>>
                \/ buffer' = filled /\ file' = file
    <2>1. /\ filled \in Seq(Rec) /\ Len(filled) = Len(buffer) + 1
          /\ Ids(filled) = Ids(buffer) \cup {r.id}
          /\ Len(logged') = Len(logged) + 1 /\ Ids(logged') = Ids(logged) \cup {r.id}
          /\ (Plain(logged') <=> Plain(logged))
          /\ Len(buffer) \in Nat /\ Len(logged) \in Nat /\ Len(file) \in Nat
      BY <1>2, <1>7, AppendIds, LenProperties
    <2>2. /\ Len(file \o filled) = Len(file) + Len(filled) /\ file \o filled \in Seq(Rec)
          /\ Ids(file \o filled) = Ids(file) \cup Ids(filled)
      BY <1>2, <2>1, ConcatIds
    <2>3. file \o filled = Append(file \o buffer, r)
      BY <1>2, AppendLast
    <2>4. /\ Cardinality(Handed(local)) = 0 /\ HandedIds(local) = {}
      BY <1>3, NothingHanded
    <2>5. Cardinality(Handed(local')) = 0 /\ HandedIds(local') = {}
      BY <1>1, <2>4
    <2>6. Intact' => Intact
      BY <1>7, <2>1 DEF Intact, Calm
    <2>7. /\ Len(file') + Len(buffer') = Len(file) + Len(buffer) + 1
          /\ Ids(file') \cup Ids(buffer') = Ids(file) \cup Ids(buffer) \cup {r.id}
          /\ file' \o buffer' = Append(file \o buffer, r)
      <3>1. CASE file' = file \o filled /\ buffer' = <<>>
        BY <2>1, <2>2, <2>3, <3>1, Emptied, EmptyIds
      <3>2. CASE buffer' = filled /\ file' = file
        BY <2>1, <2>3, <3>2
      <3>3. QED
        BY <1>7, <3>1, <3>2
    <2>8. Rewritten'
      BY <1>1, <1>3 DEF Rewritten, Thread
    <2>9. Counted'
      <3>1. Intact => Len(logged) = Len(file) + Len(buffer)
        BY <2>1, <2>4 DEF LogInv, Counted
      <3>2. Intact' => Len(logged') = Len(file') + Len(buffer')
        BY <2>1, <2>6, <2>7, <3>1
      <3>3. Len(file') \in Nat /\ Len(buffer') \in Nat
        <4>1. file' \in Seq(Rec) /\ buffer' \in Seq(Rec)
          BY <1>2, <1>7, <2>1, <2>2, EmptyIds
        <4>2. QED
          BY <4>1, LenProperties
      <3>4. QED
        BY <2>5, <3>2, <3>3 DEF Counted
    <2>10. Named'
      BY <2>1, <2>4, <2>5, <2>6, <2>7 DEF LogInv, Named
    <2>11. Ordered'
      <3>1. ~Held /\ \A t \in Thread : local'[t] = <<>>
        BY <1>1, <1>3 DEF Held
      <3>2. Intact /\ "batches" \notin crossed => file \o buffer = logged
        BY <3>1 DEF LogInv, Ordered
      <3>3. Intact' /\ "batches" \notin crossed' => file' \o buffer' = logged'
        BY <1>1, <1>7, <2>6, <2>7, <3>2
      <3>4. QED
        BY <3>1, <3>3, Zenon DEF Ordered
    <2>12. QED
      BY <1>4, <2>8, <2>9, <2>10, <2>11 DEF LogInv
  <1>8. QED
    <2>1. Rewrite(r) => logged' = <<r>> \/ (failed \subseteq failed' /\ "write" \in failed')
      BY DEF Rewrite
    <2>2. QED
      BY <1>1, <1>5, <1>6, <1>7, <1>9, <2>1

LEMMA StepLogs ==
  ASSUME AllInv, LogInv, [Next]_vars
  PROVE  LogInv'
  <1>1. TypeOK /\ Flusher \in Thread /\ \A l \in Loop : l \in Thread
    BY Shapes DEF AllInv, AofInv, TypeInv
  <1>2. CASE UNCHANGED vars
    <2>1. UNCHANGED <<pc, file, buffer, local, logged, failed, open, crossed>>
      BY <1>2 DEF vars, threads, medium, history
    <2>2. QED
      BY <2>1, LogFrame
  <1>3. ASSUME NEW l \in Loop, NEW c \in Command, Exec(l, c) \/ ExecLate(l, c) PROVE LogInv'
    <2>1. UNCHANGED <<file, buffer, local, logged, failed, open>> /\ pc[l] = "idle"
      BY <1>3 DEF Exec, ExecLate, Begin, medium
    <2>2. "batches" \in crossed' <=> "batches" \in crossed
      BY <1>3 DEF Exec, ExecLate, Begin
    <2>3. pc' = [pc EXCEPT ![l] = "log"] \/ pc' = pc
      BY <1>3 DEF Exec, ExecLate, Begin
    <2>4. pc'[l] # "open" /\ \A m \in Loop : m # l => pc'[m] = pc[m]
      BY <1>1, <2>1, <2>3 DEF TypeOK
    <2>5. \A m \in Loop : pc'[m] = "open" => pc[m] = "open"
      BY <2>4
    <2>6. QED
      BY <2>1, <2>2, <2>5, LogFrame
  <1>4. ASSUME NEW l \in Loop, Sync(l) PROVE LogInv'
    <2>1. UNCHANGED <<file, buffer, local, logged, open, crossed>> /\ failed \subseteq failed'
          /\ pc' = [pc EXCEPT ![l] = "idle"]
      BY <1>4 DEF Sync, SyncFile, Answer
    <2>2. pc'[l] # "open" /\ \A m \in Loop : m # l => pc'[m] = pc[m]
      BY <1>1, <2>1 DEF TypeOK
    <2>3. \A m \in Loop : pc'[m] = "open" => pc[m] = "open"
      BY <2>2
    <2>4. QED
      BY <2>1, <2>3, LogFrame
  <1>12. ASSUME NEW l \in Loop, CheckOpen(l) PROVE LogInv'
    <2>1. UNCHANGED <<file, buffer, local, logged, failed, open, crossed>>
          /\ (pc' = [pc EXCEPT ![l] = "idle"] \/ pc' = [pc EXCEPT ![l] = "close"])
      BY <1>12 DEF CheckOpen, Answer, medium
    <2>2. pc'[l] # "open" /\ \A m \in Loop : m # l => pc'[m] = pc[m]
      BY <1>1, <2>1 DEF TypeOK
    <2>3. \A m \in Loop : pc'[m] = "open" => pc[m] = "open"
      BY <2>2
    <2>4. QED
      BY <2>1, <2>3, LogFrame
  <1>5. ASSUME NEW l \in Loop, Answering(l) PROVE LogInv'
    BY <1>1, <1>4, <1>12, <1>5, FailedLogs, LogLogs, SwapLogs, WriteLogs, WriteErrorLogs, CloseFileLogs, TruncateLogs,
       ReopenLogs DEF Answering
  <1>6. CASE FlushSync
    <2>1. UNCHANGED <<file, buffer, local, logged, open, crossed>> /\ failed \subseteq failed'
          /\ pc' = [pc EXCEPT ![Flusher] = "idle"]
      BY <1>6 DEF FlushSync, SyncFile
    <2>2. \A m \in Loop : m # Flusher
      BY Shapes, <1>1
    <2>3. \A m \in Loop : pc'[m] = pc[m]
      BY <1>1, <2>1, <2>2 DEF TypeOK
    <2>4. QED
      BY <2>1, <2>3, LogFrame
  <1>7. CASE Flush
    BY <1>1, <1>6, <1>7, FlushSwapLogs, WriteLogs, WriteErrorLogs DEF Flush
  <1>8. CASE Shutdown \/ FlusherJoined \/ LoadDone
    <2>1. UNCHANGED <<pc, file, buffer, local, logged, failed, open, crossed>>
      BY <1>8 DEF Shutdown, FlusherJoined, LoadDone, threads, medium, history
    <2>2. QED
      BY <2>1, LogFrame
  <1>9. CASE LoopsJoined
    <2>1. /\ ~open' /\ UNCHANGED <<pc, local>> /\ phase = "draining" /\ \A l \in Loop : pc[l] = "idle"
      BY <1>9 DEF LoopsJoined, CloseAtLast, threads
    <2>2. \A t \in Thread : pc[t] = "idle" /\ local[t] = <<>>
      BY <2>1 DEF AllInv, AofInv, TypeInv, Phased, Thread
    <2>3. QED
      BY <2>1, <2>2, IdleLogs
  <1>10. CASE Crash
    <2>1. ~open' /\ pc' = [t \in Thread |-> "idle"] /\ local' = [t \in Thread |-> <<>>]
      BY <1>10 DEF Crash
    <2>2. QED
      BY <2>1, IdleLogs
  <1>11. QED
    BY <1>2, <1>3, <1>5, <1>7, <1>8, <1>9, <1>10, LoadLogs, ReplayLogs DEF Next

LEMMA InitLogs ==
  ASSUME Init
  PROVE  LogInv
  <1>1. \A t \in Thread : pc[t] = "idle" /\ local[t] = <<>>
    BY DEF Init
  <1>2. file = <<>> /\ buffer = <<>> /\ logged = <<>>
    BY DEF Init
  <1>3. Alone /\ Rewritten
    BY <1>1, Zenon DEF Alone, Held, Rewritten, Thread
  <1>4. Counted /\ Named
    BY <1>1, <1>2, NothingHanded, EmptyIds DEF Counted, Named
  <1>5. Ordered
    <2>1. <<>> \o <<>> = <<>>
      BY EmptyIds, Emptied
    <2>2. QED
      BY <1>1, <1>2, <2>1, Zenon DEF Ordered
  <1>6. QED
    BY <1>3, <1>4, <1>5 DEF LogInv

\* Between the loops and the flusher the records are counted and kept in order
\* (aof.cpp:197).
THEOREM AofLogInvariant == Spec => []LogInv
  <1>1. Init => LogInv
    BY InitLogs
  <1>2. AofInductive /\ LogInv /\ [Next]_vars => LogInv'
    BY StepLogs DEF AofInductive
  <1>3. QED
    BY <1>1, <1>2, AofInvariant, PTL DEF Spec

\* No logged record is lost or written twice between the loops and the flusher, and
\* while one thread at a time holds a batch they keep the order of the log.
THEOREM AofLogKept == Spec => []LogKept
  <1>1. LogInv => LogKept
    <2>1. Undisturbed => Intact
      BY DEF Undisturbed, Intact, Plain, Calm
    <2>2. Batched = Handed(local) /\ UNION {Ids(local[t]) : t \in Thread} = HandedIds(local)
      BY DEF Batched, Handed, HandedIds
    <2>3. QED
      BY <2>1, <2>2, Zenon DEF LogInv, LogKept, Counted, Named, Ordered
  <1>2. QED
    BY <1>1, AofLogInvariant, PTL

-----------------------------------------------------------------------------
(* The keyspace the records make. *)

\* The keyspace after n records, given the ones after fewer.
After(d, s, f, n) == IF n = 0 THEN d ELSE Apply(f[n - 1], s[n].cmd)

\* Executed(d, s) is defined: it is filled in from the first record on.
LEMMA ExecutedUnfolds ==
  ASSUME NEW d, NEW s \in Seq(Record)
  PROVE  /\ DOMAIN Executed(d, s) = 0 .. Len(s)
         /\ \A n \in 0 .. Len(s) : Executed(d, s)[n] = After(d, s, Executed(d, s), n)
  <1> DEFINE m == Len(s)
             Filled(g, k) == \A n \in 0 .. m : n <= k => g[n] = After(d, s, g, n)
             T == {j \in 0 .. m : \E g : g = [n \in 0 .. m |-> g[n]] /\ Filled(g, m - j)}
  <1>1. m \in Nat
    BY LenProperties
  <1> HIDE DEF m
  <1>2. m \in T
    <2> DEFINE g == [n \in 0 .. m |-> d]
    <2>1. g = [n \in 0 .. m |-> g[n]] /\ 0 \in 0 .. m /\ g[0] = d
      BY <1>1
    <2>2. Filled(g, m - m)
      <3> SUFFICES ASSUME NEW n \in 0 .. m, n <= m - m PROVE g[n] = After(d, s, g, n)
        OBVIOUS
      <3>1. n = 0
        BY <1>1
      <3>2. QED
        BY <2>1, <3>1 DEF After
    <2>3. QED
      BY <1>1, <2>1, <2>2
  <1>3. PICK j \in T : \A i \in T : j <= i
    <2>1. T \subseteq 0 .. m /\ T # {}
      BY <1>2, Zenon
    <2> HIDE DEF T
    <2>2. T \in SUBSET Nat
      BY <1>1, <2>1
    <2>3. QED
      BY <2>1, <2>2, Least
  <1>4. j = 0
    <2>1. SUFFICES ASSUME j # 0 PROVE FALSE
      OBVIOUS
    <2>2. PICK g : g = [n \in 0 .. m |-> g[n]] /\ Filled(g, m - j)
      BY <1>3
    <2> DEFINE k == m - j + 1
               h == [g EXCEPT ![k] = After(d, s, g, k)]
    <2>3. j \in 1 .. m /\ k \in 1 .. m
      BY <1>1, <1>3, <2>1
    <2> HIDE DEF k
    <2>4. \A n \in 0 .. m : n # k => h[n] = g[n]
      BY <2>2, <2>3
    <2>5. h[k] = After(d, s, g, k)
      BY <2>2, <2>3
    <2>6. h = [n \in 0 .. m |-> h[n]]
      BY <2>2
    <2> HIDE DEF h
    <2>7. ASSUME NEW n \in 0 .. m, n <= k PROVE h[n] = After(d, s, h, n)
      <3>1. After(d, s, h, n) = After(d, s, g, n)
        <4>1. CASE n = 0
          BY <4>1 DEF After
        <4>2. CASE n # 0
          <5>1. n - 1 \in 0 .. m /\ n - 1 # k
            BY <1>1, <2>3, <2>7, <4>2
          <5>2. QED
            BY <2>4, <5>1 DEF After
        <4>3. QED
          BY <4>1, <4>2
      <3>2. CASE n = k
        BY <2>5, <3>1, <3>2
      <3>3. CASE n # k
        <4>1. n <= m - j
          BY <1>1, <2>3, <2>7, <3>3 DEF k
        <4>2. QED
          BY <2>2, <2>4, <3>1, <3>3, <4>1
      <3>4. QED
        BY <3>2, <3>3
    <2>8. k = m - (j - 1)
      BY <1>1, <2>3 DEF k
    <2>9. j - 1 \in 0 .. m /\ Filled(h, m - (j - 1))
      BY <1>1, <2>3, <2>7, <2>8
    <2>10. j - 1 \in T
      BY <2>6, <2>9
    <2>11. QED
      BY <1>1, <1>3, <2>3, <2>10
  <1>5. PICK g : g = [n \in 0 .. m |-> g[n]] /\ Filled(g, m - 0)
    BY <1>3, <1>4
  <1>6. g = [n \in 0 .. m |-> After(d, s, g, n)]
    <2>1. \A n \in 0 .. m : g[n] = After(d, s, g, n)
      BY <1>1, <1>5
    <2>2. QED
      BY <1>5, <2>1
  <1> DEFINE r == CHOOSE f : f = [n \in 0 .. m |-> After(d, s, f, n)]
  <1>7. r = [n \in 0 .. m |-> After(d, s, r, n)]
    BY <1>6, Zenon
  <1>8. Executed(d, s) = r
    BY Zenon DEF Executed, After, m
  <1>9. QED
    BY <1>7, <1>8 DEF m

\* The records met from some point on are executed on what is there.
LEMMA ExecutedAlike ==
  ASSUME NEW d, NEW s \in Seq(Record), NEW t \in Seq(Record), NEW i \in 0 .. Len(s),
         i + Len(t) <= Len(s), \A n \in 1 .. Len(t) : s[i + n] = t[n]
  PROVE  Executed(d, s)[i + Len(t)] = Redone(Executed(d, s)[i], t)
  <1> DEFINE f == Executed(d, s)
             e == Executed(d, s)[i]
             g == Executed(e, t)
             m == Len(t)
             T == {n \in 0 .. m : f[i + n] # g[n]}
  <1>1. Len(s) \in Nat /\ Len(t) \in Nat /\ i \in Nat
    BY LenProperties
  <1>2. /\ \A n \in 0 .. Len(s) : f[n] = After(d, s, f, n)
        /\ \A n \in 0 .. m : g[n] = After(e, t, g, n)
    BY ExecutedUnfolds
  <1>3. f[i] = e /\ i + m <= Len(s) /\ \A n \in 1 .. m : s[i + n] = t[n]
    OBVIOUS
  <1> HIDE DEF f, g, e
  <1>4. ASSUME T # {} PROVE FALSE
    <2>1. PICK n \in T : \A k \in T : n <= k
      <3>1. T \in SUBSET Nat
        OBVIOUS
      <3> HIDE DEF T
      <3>2. QED
        BY <1>4, <3>1, Least
    <2>2. n \in 0 .. m /\ i + n \in 0 .. Len(s) /\ f[i + n] # g[n]
      BY <1>1, <1>3, <2>1
    <2>3. f[i + n] = After(d, s, f, i + n) /\ g[n] = After(e, t, g, n)
      BY <1>2, <2>2
    <2>4. n # 0
      <3>1. SUFFICES ASSUME n = 0 PROVE FALSE
        OBVIOUS
      <3>2. i + n = i /\ g[n] = e
        BY <1>1, <2>3, <3>1 DEF After
      <3>3. QED
        BY <1>3, <2>2, <3>2
    <2>5. n - 1 \in 0 .. m /\ n - 1 \notin T /\ s[i + n] = t[n]
      BY <1>1, <1>3, <2>1, <2>2, <2>4
    <2>6. f[i + (n - 1)] = g[n - 1] /\ i + n # 0 /\ i + n - 1 = i + (n - 1)
      BY <1>1, <2>2, <2>4, <2>5
    <2>7. QED
      BY <2>2, <2>3, <2>4, <2>5, <2>6 DEF After
  <1>5. m \notin T /\ m \in 0 .. m
    BY <1>1, <1>4
  <1>6. QED
    BY <1>5 DEF f, g, e, Redone

LEMMA RedoneEmpty ==
  ASSUME NEW d
  PROVE  Redone(d, <<>>) = d
  <1>1. <<>> \in Seq(Record) /\ Len(<<>>) = 0 /\ 0 \in 0 .. 0
    BY EmptyIds
  <1> DEFINE s == <<>>
  <1> HIDE DEF s
  <1>2. Executed(d, s)[0] = After(d, s, Executed(d, s), 0)
    BY <1>1, ExecutedUnfolds DEF s
  <1>3. QED
    BY <1>1, <1>2 DEF After, Redone, s

\* The last record is executed last.
LEMMA RedoneAppend ==
  ASSUME NEW d, NEW s \in Seq(Record), NEW r \in Record
  PROVE  Redone(d, Append(s, r)) = Apply(Redone(d, s), r.cmd)
  <1> DEFINE u == Append(s, r)
             m == Len(s)
  <1>1. /\ u \in Seq(Record) /\ Len(u) = m + 1 /\ u[m + 1] = r /\ m \in Nat
        /\ \A n \in 1 .. m : u[n] = s[n]
    BY AppendProperties, LenProperties
  <1> HIDE DEF u
  <1>2. 0 \in 0 .. Len(u) /\ m + 1 \in 0 .. Len(u) /\ m + 1 # 0 /\ m + 1 - 1 = m
    BY <1>1
  <1>3. Executed(d, u)[0] = d
    BY <1>1, <1>2, ExecutedUnfolds DEF After
  <1>4. Executed(d, u)[m] = Redone(d, s)
    <2>1. \A n \in 1 .. Len(s) : u[0 + n] = s[n]
      BY <1>1
    <2>2. 0 + Len(s) <= Len(u) /\ 0 + Len(s) = m
      BY <1>1
    <2>3. Executed(d, u)[0 + Len(s)] = Redone(Executed(d, u)[0], s)
      BY <1>1, <1>2, <2>1, <2>2, ExecutedAlike
    <2>4. QED
      BY <1>3, <2>2, <2>3
  <1>5. Executed(d, u)[m + 1] = After(d, u, Executed(d, u), m + 1)
    BY <1>1, <1>2, ExecutedUnfolds
  <1>6. QED
    BY <1>1, <1>2, <1>4, <1>5 DEF After, Redone, u

LEMMA RedoneOne ==
  ASSUME NEW d, NEW r \in Record
  PROVE  Redone(d, <<r>>) = Apply(d, r.cmd)
  <1>1. PICK s : s = <<>>
    OBVIOUS
  <1>2. s \in Seq(Record) /\ Append(s, r) = <<r>> /\ Redone(d, s) = d
    BY <1>1, EmptyIds, RedoneEmpty
  <1>3. Redone(d, Append(s, r)) = Apply(Redone(d, s), r.cmd)
    BY <1>2, RedoneAppend
  <1>4. QED
    BY <1>2, <1>3

\* The first record is executed first.
LEMMA RedoneTail ==
  ASSUME NEW d, NEW s \in Seq(Record), s # <<>>
  PROVE  Redone(d, s) = Redone(Apply(d, Head(s).cmd), Tail(s))
  <1> DEFINE t == Tail(s)
             m == Len(t)
             e == Apply(d, Head(s).cmd)
  <1>1. /\ t \in Seq(Record) /\ Len(s) \in Nat /\ m = Len(s) - 1 /\ m \in Nat
        /\ \A n \in 1 .. m : s[1 + n] = t[n]
    BY HeadTailProperties, LenProperties
  <1>2. Head(s) = s[1]
    OBVIOUS
  <1> HIDE DEF t
  <1>3. 0 \in 0 .. Len(s) /\ 1 \in 0 .. Len(s) /\ 1 + m = Len(s) /\ m <= Len(t)
    BY <1>1
  <1>4. /\ Executed(d, s)[0] = After(d, s, Executed(d, s), 0)
        /\ Executed(d, s)[1] = After(d, s, Executed(d, s), 1)
    BY <1>3, ExecutedUnfolds
  <1>5. Executed(d, s)[1] = e
    BY <1>2, <1>4 DEF After
  <1>6. Executed(d, s)[1 + Len(t)] = Redone(Executed(d, s)[1], t)
    <2>1. 1 + Len(t) <= Len(s) /\ \A n \in 1 .. Len(t) : s[1 + n] = t[n]
      BY <1>1, <1>3
    <2>2. QED
      BY <1>1, <1>3, <2>1, ExecutedAlike
  <1>7. QED
    BY <1>3, <1>5, <1>6 DEF Redone, t

LEMMA RedoneType ==
  ASSUME NEW d \in [Key -> Nat], NEW s \in Seq(Record)
  PROVE  Redone(d, s) \in [Key -> Nat]
  <1> DEFINE f == Executed(d, s)
             T == {n \in 0 .. Len(s) : f[n] \notin [Key -> Nat]}
  <1>1. Len(s) \in Nat /\ \A n \in 1 .. Len(s) : s[n] \in Record
    BY LenProperties, ElementOfSeq
  <1>2. \A n \in 0 .. Len(s) : f[n] = After(d, s, f, n)
    BY ExecutedUnfolds
  <1> HIDE DEF f
  <1>3. ASSUME T # {} PROVE FALSE
    <2>1. PICK n \in T : \A k \in T : n <= k
      <3>1. T \in SUBSET Nat
        BY <1>1
      <3> HIDE DEF T
      <3>2. QED
        BY <1>3, <3>1, Least
    <2>2. n # 0
      BY <1>2, <2>1 DEF After
    <2>3. n - 1 \in 0 .. Len(s) /\ n - 1 \notin T /\ n \in 1 .. Len(s)
      BY <1>1, <2>1, <2>2
    <2>4. f[n - 1] \in [Key -> Nat] /\ s[n].cmd \in Command
      BY <1>1, <2>3, RecordShape
    <2>5. Apply(f[n - 1], s[n].cmd) \in [Key -> Nat]
      BY <2>4, ApplyType
    <2>6. QED
      BY <1>2, <2>1, <2>2, <2>5 DEF After
  <1>4. QED
    BY <1>1, <1>3 DEF f, Redone

LEMMA EmptyType == Empty \in [Key -> Nat]
  BY DEF Empty

\* A file that is whole is read to its end.
LEMMA ReadWhole ==
  ASSUME NEW f \in Seq(Rec), Torn \notin Range(f)
  PROVE  f \in Seq(Record) /\ Readable(f) = f
  <1>1. Len(f) \in Nat /\ DOMAIN f = 1 .. Len(f) /\ \A i \in 1 .. Len(f) : f[i] \in Rec
    BY LenProperties, ElementOfSeq
  <1>2. \A i \in 1 .. Len(f) : f[i] # Torn /\ f[i] \in Record
    BY <1>1 DEF Range, Rec
  <1>3. SubSeq(f, 1, Len(f)) \in Seq(Record)
    BY <1>1, <1>2, SubSeqProperties
  <1>4. {i \in DOMAIN f : f[i] = Torn} = {}
    BY <1>1, <1>2
  <1>5. QED
    BY <1>3, <1>4, SubSeqFull DEF Readable

LEMMA RecordsWhole ==
  ASSUME NEW f \in Seq(Record)
  PROVE  Torn \notin Range(f)
  <1>1. \A i \in DOMAIN f : f[i] \in Record
    BY LenProperties, ElementOfSeq
  <1>2. QED
    BY <1>1, CommandShape DEF Range

-----------------------------------------------------------------------------
(* The file and the keyspace. *)

\* The batch somebody holds, if one thread at most holds one.
BatchOf(hands) ==
    LET some == \E u \in Thread : hands[u] # <<>>
    IN  hands[CHOOSE t \in Thread : some => hands[t] # <<>>]

Contents == file \o BatchOf(local) \o buffer

Sure ==
    /\ Calm /\ crossed = {} /\ Torn \notin Range(file)
    /\ restarts = 0 \/ \A c \in Command : c.op # "incr"

\* Until two loops execute commands at once, or one does so after the shutdown, one
\* does, which finds the keyspace as it left it; it alone closes the file.
OneLoop ==
    /\ \A l, m \in Loop : pc[l] # "idle" /\ pc[m] # "idle" => l = m
    /\ \A l \in Loop : pc[l] # "idle" /\ rec[l].cmd.op = "flushall" => Data = Empty
    /\ \A l \in Loop : pc[l] \in {"truncate", "open"} => ~open

Serial ==
    /\ crossed \cap {"commands", "late"} = {} => OneLoop
    /\ phase = "loading" => restarts # 0

\* What the records make is what the keyspace holds, but for the command that has
\* changed it and not yet logged itself.  During a load every key is as the file
\* has it already or will be so once the records left are executed.
Unlogged(l) == pc[l] \in {"log", "close"}

Meant ==
    \/ \E l \in Loop : pc[l] = "truncate"
    \/ \E l \in Loop : Unlogged(l) /\ Data = Apply(Redone(Empty, Contents), rec[l].cmd)
    \/ (\A l \in Loop : ~Unlogged(l)) /\ Data = Redone(Empty, Contents)

Loaded == \A k \in Key : Redone(Empty, Contents)[k] \in {db[k], Redone(db, todo)[k]}

MeansInv ==
    Sure =>
        /\ (Serving => Meant)
        /\ (phase = "stopped" => Data = Redone(Empty, Contents))
        /\ (phase = "loading" => Loaded)

DbInv == Serial /\ MeansInv

LEMMA TheBatch ==
  ASSUME NEW f, \A t, u \in Thread : f[t] # <<>> /\ f[u] # <<>> => t = u
  PROVE  /\ \A t \in Thread : f[t] # <<>> => BatchOf(f) = f[t]
         /\ (\A t \in Thread : f[t] = <<>>) => BatchOf(f) = <<>>
  <1> DEFINE some == \E u \in Thread : f[u] # <<>>
             h == CHOOSE t \in Thread : some => f[t] # <<>>
  <1>1. h \in Thread /\ (some => f[h] # <<>>)
    <2>1. \E t \in Thread : some => f[t] # <<>>
      BY DEF Thread
    <2>2. QED
      BY <2>1, Zenon
  <1>2. BatchOf(f) = f[h]
    BY Zenon DEF BatchOf
  <1> HIDE DEF h
  <1>3. QED
    BY <1>1, <1>2

LEMMA SerialFrame ==
  ASSUME Serial, Data' = Data, restarts' = restarts, crossed \subseteq crossed',
         phase' = "loading" => phase = "loading",
         \A l \in Loop : pc'[l] # "idle" => pc[l] # "idle" /\ rec'[l] = rec[l],
         open' => /\ open
                  /\ \A l \in Loop : pc'[l] \in {"truncate", "open"} => pc[l] \in {"truncate", "open"}
  PROVE  Serial'
  <1>1. ASSUME crossed' \cap {"commands", "late"} = {} PROVE OneLoop'
    <2>1. OneLoop
      BY <1>1 DEF Serial
    <2>2. QED
      BY <2>1 DEF OneLoop
  <1>2. QED
    BY <1>1 DEF Serial

\* A thread that has the command goes on, or answers.
LEMMA Moved ==
  ASSUME TypeOK, NEW t \in Thread, t = Flusher \/ pc[t] # "idle", NEW s \in Step,
         pc' = [pc EXCEPT ![t] = s],
         \A m \in Loop : m # t \/ s # "idle" => rec'[m] = rec[m]
  PROVE  /\ pc'[t] = s /\ \A u \in Thread : u # t => pc'[u] = pc[u]
         /\ \A l \in Loop : l \in Thread /\ (pc'[l] # "idle" => pc[l] # "idle" /\ rec'[l] = rec[l])
  <1>1. pc'[t] = s /\ \A u \in Thread : u # t => pc'[u] = pc[u]
    BY DEF TypeOK
  <1>2. \A l \in Loop : l \in Thread /\ l # Flusher
    BY Shapes
  <1>3. QED
    BY <1>1, <1>2

\* The records stay, with the loops that log them.
LEMMA MeansFrame ==
  ASSUME MeansInv, Data' = Data, Sure' => Sure /\ Contents' = Contents,
         Serving' => Serving, phase' = "stopped" => phase = "stopped",
         phase' = "loading" => phase = "loading" /\ UNCHANGED <<db, todo>>,
         \A l \in Loop : /\ pc'[l] = "truncate" <=> pc[l] = "truncate"
                         /\ Unlogged(l)' <=> Unlogged(l)
                         /\ Unlogged(l) => rec'[l] = rec[l]
  PROVE  MeansInv'
  <1> SUFFICES ASSUME Sure'
               PROVE  /\ (Serving' => Meant')
                      /\ (phase' = "stopped" => Data' = Redone(Empty, Contents'))
                      /\ (phase' = "loading" => Loaded')
    BY DEF MeansInv
  <1>1. Contents' = Contents
    OBVIOUS
  <1>2. Meant => Meant'
    <2>1. ASSUME NEW l \in Loop, pc[l] = "truncate" PROVE Meant'
      BY <2>1 DEF Meant
    <2>2. ASSUME NEW l \in Loop, Unlogged(l), Data = Apply(Redone(Empty, Contents), rec[l].cmd)
          PROVE  Meant'
      <3>1. Unlogged(l)' /\ Data' = Apply(Redone(Empty, Contents'), rec'[l].cmd)
        BY <1>1, <2>2
      <3>2. QED
        BY <3>1 DEF Meant
    <2>3. ASSUME \A l \in Loop : ~Unlogged(l), Data = Redone(Empty, Contents) PROVE Meant'
      <3>1. (\A l \in Loop : ~Unlogged(l)') /\ Data' = Redone(Empty, Contents')
        BY <1>1, <2>3
      <3>2. QED
        BY <3>1 DEF Meant
    <2>4. QED
      BY <2>1, <2>2, <2>3 DEF Meant
  <1>3. phase' = "loading" /\ Loaded => Loaded'
    BY <1>1 DEF Loaded
  <1>4. QED
    BY <1>1, <1>2, <1>3 DEF MeansInv

\* While one loop at a time executes commands, it finds the file open unless it is
\* closing it itself.
LEMMA NotClosed ==
  ASSUME AllInv, Serial, Calm, crossed \cap {"commands", "late"} = {}, NEW l \in Loop, pc[l] # "idle",
         pc[l] \notin {"truncate", "open"}
  PROVE  open
  <1>1. OneLoop
    BY DEF Serial
  <1>2. SUFFICES ASSUME ~open PROVE FALSE
    OBVIOUS
  <1>3. Serving
    BY DEF AllInv, AofInv, TypeInv, Phased, Thread
  <1>4. PICK m \in Loop : pc[m] \in {"truncate", "open"}
    BY <1>2, <1>3, Zenon DEF AllInv, AofInv, TypeInv, Shut, Calm
  <1>5. QED
    BY <1>1, <1>4 DEF OneLoop

\* The state of the records, while one thread at a time holds a batch.
LEMMA ContentsType ==
  ASSUME AllInv, LogInv, Sure
  PROVE  /\ file \in Seq(Record) /\ buffer \in Seq(Record) /\ Contents \in Seq(Record)
         /\ \A t, u \in Thread : local[t] # <<>> /\ local[u] # <<>> => t = u
         /\ BatchOf(local) \in Seq(Record)
         /\ \A t \in Thread : local[t] # <<>> => BatchOf(local) = local[t]
         /\ (\A t \in Thread : local[t] = <<>>) => BatchOf(local) = <<>>
  <1>1. /\ file \in Seq(Rec) /\ buffer \in Seq(Record) /\ local \in [Thread -> Seq(Record)]
    BY Shapes DEF AllInv, AofInv, TypeInv
  <1>2. file \in Seq(Record)
    BY <1>1, ReadWhole DEF Sure
  <1>3. \A t, u \in Thread : local[t] # <<>> /\ local[u] # <<>> => t = u
    BY DEF Sure, LogInv, Alone
  <1>4. /\ \A t \in Thread : local[t] # <<>> => BatchOf(local) = local[t]
        /\ (\A t \in Thread : local[t] = <<>>) => BatchOf(local) = <<>>
    BY <1>3, TheBatch
  <1>5. BatchOf(local) \in Seq(Record)
    BY <1>1, <1>4, EmptyIds
  <1>6. file \o BatchOf(local) \in Seq(Record)
    BY <1>2, <1>5, ConcatProperties
  <1>7. Contents \in Seq(Record)
    BY <1>1, <1>6, ConcatProperties DEF Contents
  <1>8. QED
    BY <1>1, <1>2, <1>3, <1>4, <1>5, <1>7

\* A file that was torn stays torn when records are added to it.
LEMMA StillTorn ==
  ASSUME NEW f \in Seq(Rec), NEW s \in Seq(Rec), Torn \notin Range(f \o s)
  PROVE  Torn \notin Range(f)
  <1>1. /\ DOMAIN f = 1 .. Len(f) /\ DOMAIN (f \o s) = 1 .. Len(f \o s)
        /\ Len(f \o s) = Len(f) + Len(s) /\ Len(f) \in Nat /\ Len(s) \in Nat
        /\ \A i \in 1 .. Len(f) : (f \o s)[i] = f[i]
    BY ConcatIds, LenProperties
  <1>2. \A i \in 1 .. Len(f) : i \in DOMAIN (f \o s)
    BY <1>1
  <1>3. QED
    BY <1>1, <1>2 DEF Range

LEMMA ExecMeans ==
  ASSUME AllInv, LogInv, DbInv, NEW l \in Loop, NEW c \in Command, Exec(l, c)
  PROVE  DbInv'
  <1>1. /\ phase = "up" /\ pc[l] = "idle" /\ db' = Apply(db, c)
        /\ UNCHANGED <<buffer, file, open, phase, todo, restarts, local, failed>>
        /\ IF Logs(db, c)
           THEN /\ pc' = [pc EXCEPT ![l] = "log"]
                /\ rec' = [rec EXCEPT ![l] = [id |-> issued + 1, cmd |-> c]]
           ELSE UNCHANGED <<pc, rec>>
        /\ crossed' = crossed \cup {} \cup IF \A m \in Loop : pc[m] = "idle" THEN {} ELSE {"commands"}
    BY DEF Exec, Begin, medium, server
  <1>2. /\ TypeOK /\ db \in [Key -> Nat] /\ \A m \in Loop : m \in Thread
        /\ rec \in [Loop -> Record]
    BY Shapes DEF AllInv, AofInv, TypeInv, TypeOK
  <1>3. \A m \in Loop : m # l => pc'[m] = pc[m] /\ rec'[m] = rec[m]
    BY <1>1, <1>2 DEF TypeOK
  <1>4. Logs(db, c) => pc'[l] = "log" /\ rec'[l].cmd = c
    BY <1>1, <1>2 DEF TypeOK
  <1>5. ~Logs(db, c) => db' = db
    BY <1>1, <1>2, CommandShape DEF Logs, Apply
  <1>6. ASSUME crossed' \cap {"commands", "late"} = {}
        PROVE  crossed \cap {"commands", "late"} = {} /\ crossed' = crossed /\ \A m \in Loop : pc[m] = "idle"
    BY <1>1, <1>6
  <1>7. Data = db /\ Data' = db'
    BY <1>1 DEF Data
  <1>8. Serial'
    <2>1. ASSUME crossed' \cap {"commands", "late"} = {} PROVE OneLoop'
      <3>1. \A m \in Loop : pc[m] = "idle"
        BY <1>6, <2>1
      <3>2. \A m \in Loop : m # l => pc'[m] = "idle"
        BY <1>3, <3>1
      <3>3. ASSUME NEW m \in Loop, pc'[m] # "idle" PROVE m = l /\ pc'[m] = "log" /\ Logs(db, c)
        BY <1>1, <1>4, <3>2, <3>3
      <3>4. ASSUME NEW m \in Loop, pc'[m] # "idle", rec'[m].cmd.op = "flushall" PROVE Data' = Empty
        BY <1>1, <1>4, <1>7, <3>3, <3>4, CommandShape DEF Apply
      <3>5. QED
        BY <3>2, <3>3, <3>4 DEF OneLoop
    <2>2. phase' = "loading" => restarts' # 0
      BY <1>1
    <2>3. QED
      BY <2>1, <2>2 DEF Serial
  <1>9. MeansInv'
    <2> SUFFICES ASSUME Sure' PROVE Meant'
      BY <1>1 DEF MeansInv
    <2>1. Sure /\ \A m \in Loop : pc[m] = "idle"
      BY <1>1, <1>6 DEF Sure, Calm
    <2>2. Contents' = Contents
      BY <1>1 DEF Contents
    <2>3. db = Redone(Empty, Contents)
      BY <1>1, <1>7, <2>1 DEF DbInv, MeansInv, Meant, Serving, Unlogged
    <2>4. CASE Logs(db, c)
      <3>1. Unlogged(l)' /\ Data' = Apply(Redone(Empty, Contents'), rec'[l].cmd)
        BY <1>1, <1>4, <1>7, <2>2, <2>3, <2>4 DEF Unlogged
      <3>2. QED
        BY <3>1 DEF Meant
    <2>5. CASE ~Logs(db, c)
      <3>1. (\A m \in Loop : ~Unlogged(m)') /\ Data' = Redone(Empty, Contents')
        BY <1>1, <1>5, <1>7, <2>1, <2>2, <2>3, <2>5 DEF Unlogged
      <3>2. QED
        BY <3>1 DEF Meant
    <2>6. QED
      BY <2>4, <2>5
  <1>10. QED
    BY <1>8, <1>9 DEF DbInv

\* Of a command after the shutdown nothing is claimed.
LEMMA ExecLateMeans ==
  ASSUME AllInv, LogInv, DbInv, NEW l \in Loop, NEW c \in Command, ExecLate(l, c)
  PROVE  DbInv'
  <1>1. "late" \in crossed' /\ UNCHANGED <<phase, restarts>>
    BY DEF ExecLate, Begin, server
  <1>2. QED
    BY <1>1 DEF DbInv, Serial, MeansInv, Sure

LEMMA LogMeans ==
  ASSUME AllInv, LogInv, DbInv, NEW l \in Loop, Log(l)
  PROVE  DbInv'
  <1>1. /\ pc[l] = "log"
        /\ UNCHANGED <<db, cleared, file, open, phase, todo, restarts, local, failed, crossed>>
        /\ \/ pc' = [pc EXCEPT ![l] = "swap"] /\ rec' = rec
           \/ pc' = [pc EXCEPT ![l] = "idle"] /\ rec' = [rec EXCEPT ![l] = NoRecord]
    BY DEF Log, Answer, medium, server
  <1>2. TypeOK /\ l \in Thread /\ rec[l] \in Record /\ rec \in [Loop -> Record]
    BY Shapes DEF AllInv, AofInv, TypeInv
  <1>3. /\ pc'[l] \in {"swap", "idle"} /\ \A u \in Thread : u # l => pc'[u] = pc[u]
        /\ \A m \in Loop : m \in Thread /\ (pc'[m] # "idle" => pc[m] # "idle" /\ rec'[m] = rec[m])
    <2>1. CASE pc' = [pc EXCEPT ![l] = "swap"] /\ rec' = rec
      BY <1>1, <1>2, <2>1, Moved DEF Step
    <2>2. CASE pc' = [pc EXCEPT ![l] = "idle"] /\ rec' = [rec EXCEPT ![l] = NoRecord]
      <3>1. \A m \in Loop : m # l => rec'[m] = rec[m]
        BY <1>2, <2>2
      <3>2. QED
        BY <1>1, <1>2, <2>2, <3>1, Moved DEF Step
    <2>3. QED
      BY <1>1, <2>1, <2>2
  <1>4. Data' = Data
    BY <1>1 DEF Data
  <1>5. Serial'
    <2>1. \A m \in Loop : pc'[m] \in {"truncate", "open"} => pc[m] \in {"truncate", "open"}
      BY <1>3
    <2>2. QED
      BY <1>1, <1>3, <1>4, <2>1, SerialFrame DEF DbInv
  <1>6. MeansInv'
    <2>1. Serving /\ phase # "stopped" /\ phase # "loading"
      BY <1>1, <1>2 DEF AllInv, AofInv, TypeInv, Phased, Serving
    <2> SUFFICES ASSUME Sure' PROVE Meant'
      BY <1>1, <2>1 DEF MeansInv
    <2>2. Sure /\ Calm /\ crossed \cap {"commands", "late"} = {}
      BY <1>1 DEF Sure, Calm
    <2>3. open
      BY <1>1, <2>2, NotClosed DEF DbInv
    <2>4. buffer' = Append(buffer, rec[l])
      BY <2>3 DEF Log
    <2>5. \A m \in Loop : m # l => pc[m] = "idle"
      BY <1>1, <2>2 DEF DbInv, Serial, OneLoop
    <2>6. Data = Apply(Redone(Empty, Contents), rec[l].cmd)
      BY <1>1, <2>1, <2>2, <2>5 DEF DbInv, MeansInv, Meant, Unlogged
    <2>7. /\ file \in Seq(Record) /\ buffer \in Seq(Record) /\ Contents \in Seq(Record)
          /\ BatchOf(local) \in Seq(Record)
      BY <2>2, ContentsType
    <2>8. Contents' = Append(Contents, rec[l])
      <3>1. file \o BatchOf(local) \in Seq(Rec) /\ buffer \in Seq(Rec)
        BY <2>7, ConcatProperties, Whole
      <3>2. (file \o BatchOf(local)) \o Append(buffer, rec[l])
               = Append((file \o BatchOf(local)) \o buffer, rec[l])
        BY <1>2, <3>1, AppendLast
      <3>3. QED
        BY <1>1, <2>4, <3>2 DEF Contents
    <2>9. Redone(Empty, Contents') = Data
      BY <1>2, <2>6, <2>7, <2>8, RedoneAppend
    <2>10. \A m \in Loop : ~Unlogged(m)'
      BY <1>3, <2>5 DEF Unlogged
    <2>11. QED
      BY <1>4, <2>9, <2>10 DEF Meant
  <1>7. QED
    BY <1>5, <1>6 DEF DbInv

\* FLUSHALL finds the file open, unless another one has it.
LEMMA CheckOpenMeans ==
  ASSUME AllInv, LogInv, DbInv, NEW l \in Loop, CheckOpen(l)
  PROVE  DbInv'
  <1>1. /\ pc[l] = "log"
        /\ UNCHANGED <<db, cleared, buffer, file, open, phase, todo, restarts, local, failed, crossed>>
        /\ IF open THEN pc' = [pc EXCEPT ![l] = "close"] /\ rec' = rec
           ELSE pc' = [pc EXCEPT ![l] = "idle"] /\ rec' = [rec EXCEPT ![l] = NoRecord]
    BY DEF CheckOpen, Answer, medium, server
  <1>2. TypeOK /\ l \in Thread /\ rec \in [Loop -> Record]
    BY Shapes DEF AllInv, AofInv, TypeInv
  <1>3. /\ pc'[l] = IF open THEN "close" ELSE "idle"
        /\ \A u \in Thread : u # l => pc'[u] = pc[u]
        /\ \A m \in Loop : m \in Thread /\ (pc'[m] # "idle" => pc[m] # "idle" /\ rec'[m] = rec[m])
    <2>1. CASE open
      BY <1>1, <1>2, <2>1, Moved DEF Step
    <2>2. CASE ~open
      <3>1. \A m \in Loop : m # l => rec'[m] = rec[m]
        BY <1>1, <1>2, <2>2
      <3>2. QED
        BY <1>1, <1>2, <2>2, <3>1, Moved DEF Step
    <2>3. QED
      BY <2>1, <2>2
  <1>4. Data' = Data
    BY <1>1 DEF Data
  <1>5. Serial'
    <2>1. \A m \in Loop : pc'[m] \in {"truncate", "open"} => pc[m] \in {"truncate", "open"}
      BY <1>3
    <2>2. QED
      BY <1>1, <1>3, <1>4, <2>1, SerialFrame DEF DbInv
  <1>6. CASE open
    <2>1. \A m \in Loop : /\ pc'[m] = "truncate" <=> pc[m] = "truncate"
                          /\ Unlogged(m)' <=> Unlogged(m)
                          /\ Unlogged(m) => rec'[m] = rec[m]
      BY <1>1, <1>3, <1>6 DEF Unlogged
    <2>2. Sure' => Sure /\ Contents' = Contents
      BY <1>1 DEF Sure, Contents, Calm
    <2>3. MeansInv'
      BY <1>1, <1>4, <2>1, <2>2, MeansFrame DEF DbInv, Serving
    <2>4. QED
      BY <1>5, <2>3 DEF DbInv
  <1>7. CASE ~open
    <2>1. ~Sure
      BY <1>1, <1>7, NotClosed DEF DbInv, Sure
    <2>2. ~Sure'
      BY <1>1, <2>1 DEF Sure, Calm
    <2>3. QED
      BY <1>5, <2>2 DEF DbInv, MeansInv
  <1>8. QED
    BY <1>6, <1>7

\* Records move from the buffer to a batch and on to the file, or stay.
LEMMA MoveMeans ==
  ASSUME AllInv, LogInv, DbInv, NEW t \in Thread, NEW s \in Step,
         UNCHANGED <<db, cleared, open, phase, todo, restarts>>,
         t = Flusher \/ pc[t] # "idle", pc' = [pc EXCEPT ![t] = s],
         pc[t] \notin {"log", "close", "truncate"}, s \notin {"log", "close", "truncate", "open"},
         \A m \in Loop : m # t \/ s # "idle" => rec'[m] = rec[m],
         crossed \subseteq crossed',
         Sure' => Sure /\ Contents' = Contents
  PROVE  DbInv'
  <1>1. /\ pc'[t] = s /\ \A u \in Thread : u # t => pc'[u] = pc[u]
        /\ \A l \in Loop : l \in Thread /\ (pc'[l] # "idle" => pc[l] # "idle" /\ rec'[l] = rec[l])
    BY Moved DEF AllInv, AofInv, TypeInv
  <1>2. Data' = Data
    BY DEF Data
  <1>3. Serial'
    <2>1. \A l \in Loop : pc'[l] \in {"truncate", "open"} => pc[l] \in {"truncate", "open"}
      BY <1>1
    <2>2. QED
      BY <1>1, <1>2, <2>1, SerialFrame DEF DbInv
  <1>4. MeansInv'
    <2>1. \A l \in Loop : /\ pc'[l] = "truncate" <=> pc[l] = "truncate"
                          /\ Unlogged(l)' <=> Unlogged(l)
                          /\ Unlogged(l) => rec'[l] = rec[l]
      BY <1>1 DEF Unlogged
    <2>2. QED
      BY <1>2, <2>1, MeansFrame DEF DbInv, Serving
  <1>5. QED
    BY <1>3, <1>4 DEF DbInv

\* Taking the buffer away moves it behind the file.
LEMMA TakenContents ==
  ASSUME AllInv, LogInv, Sure, NEW t \in Thread, local[t] = <<>>, ~Held,
         local' = [local EXCEPT ![t] = buffer], buffer' = <<>>, file' = file
  PROVE  Contents' = Contents
  <1>1. /\ file \in Seq(Record) /\ buffer \in Seq(Record) /\ BatchOf(local) = <<>>
    BY ContentsType DEF Held
  <1>2. file \in Seq(Rec) /\ buffer \in Seq(Rec) /\ file \o buffer \in Seq(Rec)
    BY <1>1, Whole, ConcatIds
  <1>3. local'[t] = buffer /\ \A u \in Thread : u # t => local'[u] = <<>>
    BY DEF Held, AllInv, AofInv, TypeInv, TypeOK
  <1>4. BatchOf(local') = buffer
    <2>1. \A u, v \in Thread : local'[u] # <<>> /\ local'[v] # <<>> => u = v
      BY <1>3
    <2>2. /\ \A u \in Thread : local'[u] # <<>> => BatchOf(local') = local'[u]
          /\ (\A u \in Thread : local'[u] = <<>>) => BatchOf(local') = <<>>
      BY <2>1, TheBatch
    <2>3. QED
      BY <1>3, <2>2
  <1>5. /\ file \o <<>> = file /\ (file \o buffer) \o <<>> = file \o buffer
    BY <1>2, Emptied
  <1>6. QED
    BY <1>1, <1>4, <1>5 DEF Contents

LEMMA SwapMeans ==
  ASSUME AllInv, LogInv, DbInv, NEW l \in Loop, Swap(l)
  PROVE  DbInv'
  <1>1. /\ pc[l] = "swap"
        /\ UNCHANGED <<db, cleared, file, open, phase, todo, restarts, failed>>
    BY DEF Swap, medium, server
  <1>2. TypeOK /\ l \in Thread /\ rec \in [Loop -> Record] /\ local[l] = <<>>
    BY <1>1, Shapes DEF AllInv, AofInv, TypeInv, Phased
  <1>3. CASE open
    <2>1. /\ local' = [local EXCEPT ![l] = buffer] /\ buffer' = <<>>
          /\ crossed' = IF Held THEN crossed \cup {"batches"} ELSE crossed
          /\ pc' = [pc EXCEPT ![l] = "write"] /\ rec' = rec
      BY <1>3 DEF Swap
    <2>2. ASSUME Sure' PROVE Sure /\ Contents' = Contents
      <3>1. Sure /\ ~Held
        BY <1>1, <2>1, <2>2 DEF Sure, Calm
      <3>2. QED
        BY <1>1, <1>2, <2>1, <3>1, TakenContents
    <2>3. crossed \subseteq crossed'
      BY <2>1
    <2>4. QED
      BY <1>1, <1>2, <2>1, <2>2, <2>3, MoveMeans DEF Step
  <1>4. CASE ~open
    <2>1. /\ pc' = [pc EXCEPT ![l] = "idle"] /\ rec' = [rec EXCEPT ![l] = NoRecord]
          /\ UNCHANGED <<buffer, local, crossed>>
      BY <1>4 DEF Swap, Answer
    <2>2. Sure' => Sure /\ Contents' = Contents
      BY <1>1, <2>1 DEF Sure, Contents, Calm
    <2>3. \A m \in Loop : m # l => rec'[m] = rec[m]
      BY <1>2, <2>1
    <2>4. QED
      BY <1>1, <1>2, <2>1, <2>2, <2>3, MoveMeans DEF Step
  <1>5. QED
    BY <1>3, <1>4

LEMMA FlushSwapMeans ==
  ASSUME AllInv, LogInv, DbInv, FlushSwap
  PROVE  DbInv'
  <1>1. /\ pc[Flusher] = "idle" /\ pc' = [pc EXCEPT ![Flusher] = "write"] /\ rec' = rec
        /\ local' = [local EXCEPT ![Flusher] = buffer] /\ buffer' = <<>>
        /\ crossed' = IF Held THEN crossed \cup {"batches"} ELSE crossed
        /\ UNCHANGED <<db, cleared, file, open, phase, todo, restarts, failed>>
    BY DEF FlushSwap, medium, server
  <1>2. Flusher \in Thread /\ local[Flusher] = <<>>
    BY <1>1, Shapes DEF AllInv, AofInv, TypeInv, Phased
  <1>3. ASSUME Sure' PROVE Sure /\ Contents' = Contents
    <2>1. Sure /\ ~Held
      BY <1>1, <1>3 DEF Sure, Calm
    <2>2. QED
      BY <1>1, <1>2, <2>1, TakenContents
  <1>4. crossed \subseteq crossed'
    BY <1>1
  <1>5. QED
    BY <1>1, <1>2, <1>3, <1>4, MoveMeans DEF Step

LEMMA WriteMeans ==
  ASSUME AllInv, LogInv, DbInv, NEW t \in Thread, Write(t)
  PROVE  DbInv'
  <1>1. /\ pc[t] = "write" /\ local' = [local EXCEPT ![t] = <<>>]
        /\ file' = IF open THEN file \o local[t] ELSE file
        /\ pc' = [pc EXCEPT ![t] = IF open \/ t # Flusher THEN "sync" ELSE "idle"]
        /\ UNCHANGED <<db, cleared, buffer, open, phase, todo, restarts, rec, failed, crossed>>
    BY DEF Write, history, server
  <1>2. /\ TypeOK /\ local \in [Thread -> Seq(Record)] /\ file \in Seq(Rec)
        /\ local[t] \in Seq(Rec)
    BY Shapes DEF AllInv, AofInv, TypeInv
  <1>3. local'[t] = <<>> /\ \A u \in Thread : u # t => local'[u] = local[u]
    BY <1>1, <1>2
  <1>4. ASSUME Sure' PROVE Sure /\ Contents' = Contents
    <2>1. Sure
      BY <1>1, <1>2, <1>4, StillTorn DEF Sure, Calm
    <2>2. /\ file \in Seq(Record) /\ buffer \in Seq(Record)
          /\ \A u, v \in Thread : local[u] # <<>> /\ local[v] # <<>> => u = v
          /\ BatchOf(local) \in Seq(Record)
          /\ \A u \in Thread : local[u] # <<>> => BatchOf(local) = local[u]
          /\ (\A u \in Thread : local[u] = <<>>) => BatchOf(local) = <<>>
      BY <2>1, ContentsType
    <2>3. CASE local[t] = <<>>
      <3>1. file' = file
        BY <1>1, <1>2, <2>3, Emptied
      <3>2. local' = local
        BY <1>1, <1>2, <2>3
      <3>3. QED
        BY <1>1, <2>1, <3>1, <3>2 DEF Contents
    <2>4. CASE local[t] # <<>>
      <3>1. \A u \in Thread : local'[u] = <<>>
        BY <1>3, <2>2, <2>4
      <3>2. BatchOf(local') = <<>>
        <4>1. \A u, v \in Thread : local'[u] # <<>> /\ local'[v] # <<>> => u = v
          BY <3>1
        <4>2. QED
          BY <3>1, <4>1, TheBatch
      <3>3. open
        <4>1. "open" \notin failed /\ "batches" \notin crossed
          BY <2>1 DEF Sure, Calm
        <4>2. QED
          BY <2>4, <4>1, Zenon DEF LogInv, Alone, Held
      <3>4. file' = file \o local[t] /\ BatchOf(local) = local[t]
        BY <1>1, <2>2, <2>4, <3>3
      <3>5. file' \o <<>> = file'
        <4>1. file' \in Seq(Rec)
          BY <1>2, <3>4, ConcatIds
        <4>2. QED
          BY <4>1, Emptied
      <3>6. QED
        BY <1>1, <2>1, <3>2, <3>4, <3>5 DEF Contents
    <2>5. QED
      BY <2>3, <2>4
  <1>5. QED
    <2>1. PICK s \in Step : /\ pc' = [pc EXCEPT ![t] = s]
                            /\ s \notin {"log", "close", "truncate", "open"}
      BY <1>1 DEF Step
    <2>2. QED
      BY <1>1, <1>4, <2>1, MoveMeans

LEMMA WriteErrorMeans ==
  ASSUME AllInv, LogInv, DbInv, NEW t \in Thread, WriteError(t)
  PROVE  DbInv'
  <1>1. /\ pc[t] = "write" /\ "write" \in failed'
        /\ pc' = [pc EXCEPT ![t] = IF t = Flusher THEN "idle" ELSE "sync"]
        /\ UNCHANGED <<db, cleared, open, phase, todo, restarts, rec, crossed>>
    BY DEF WriteError, server
  <1>2. ~Sure'
    BY <1>1 DEF Sure, Calm
  <1>3. PICK s \in Step : /\ pc' = [pc EXCEPT ![t] = s]
                          /\ s \notin {"log", "close", "truncate", "open"}
    BY <1>1 DEF Step
  <1>4. QED
    BY <1>1, <1>2, <1>3, MoveMeans

LEMMA SyncMeans ==
  ASSUME AllInv, LogInv, DbInv, NEW l \in Loop, Sync(l)
  PROVE  DbInv'
  <1>1. /\ pc[l] = "sync" /\ pc' = [pc EXCEPT ![l] = "idle"]
        /\ rec' = [rec EXCEPT ![l] = NoRecord] /\ failed \subseteq failed'
        /\ UNCHANGED <<db, cleared, buffer, file, open, phase, todo, restarts, local, crossed>>
    BY DEF Sync, SyncFile, Answer, server
  <1>2. l \in Thread /\ rec \in [Loop -> Record]
    BY Shapes DEF AllInv, AofInv, TypeInv
  <1>3. Sure' => Sure /\ Contents' = Contents
    BY <1>1 DEF Sure, Contents, Calm
  <1>4. \A m \in Loop : m # l => rec'[m] = rec[m]
    BY <1>1, <1>2
  <1>5. QED
    BY <1>1, <1>2, <1>3, <1>4, MoveMeans DEF Step

LEMMA FlushSyncMeans ==
  ASSUME AllInv, LogInv, DbInv, FlushSync
  PROVE  DbInv'
  <1>1. /\ pc[Flusher] = "sync" /\ pc' = [pc EXCEPT ![Flusher] = "idle"]
        /\ failed \subseteq failed'
        /\ UNCHANGED <<db, cleared, buffer, file, open, phase, todo, restarts, rec, local, crossed>>
    BY DEF FlushSync, SyncFile, server
  <1>2. Flusher \in Thread
    BY DEF Thread
  <1>3. Sure' => Sure /\ Contents' = Contents
    BY <1>1 DEF Sure, Contents, Calm
  <1>4. QED
    BY <1>1, <1>2, <1>3, MoveMeans DEF Step

LEMMA CloseFileMeans ==
  ASSUME AllInv, LogInv, DbInv, NEW l \in Loop, CloseFile(l)
  PROVE  DbInv'
  <1>1. /\ pc[l] = "close" /\ pc' = [pc EXCEPT ![l] = "truncate"] /\ ~open'
        /\ crossed \subseteq crossed' /\ crossed' \subseteq crossed \cup {"batches"}
        /\ UNCHANGED <<db, cleared, phase, todo, restarts, rec, local>>
    BY DEF CloseFile, medium, server
  <1>2. TypeOK /\ l \in Thread /\ rec \in [Loop -> Record]
    BY Shapes DEF AllInv, AofInv, TypeInv
  <1>3. Serving /\ phase # "stopped" /\ phase # "loading"
    BY <1>1, <1>2 DEF AllInv, AofInv, TypeInv, Phased, Serving
  <1>4. /\ pc'[l] = "truncate" /\ \A u \in Thread : u # l => pc'[u] = pc[u]
        /\ \A m \in Loop : m \in Thread /\ (pc'[m] # "idle" => pc[m] # "idle" /\ rec'[m] = rec[m])
    BY <1>1, <1>2, Moved DEF Step
  <1>5. Data' = Data
    BY <1>1 DEF Data
  <1>6. Serial'
    BY <1>1, <1>4, <1>5, SerialFrame DEF DbInv
  <1>7. Meant'
    BY <1>4 DEF Meant
  <1>8. MeansInv'
    BY <1>1, <1>3, <1>7 DEF MeansInv
  <1>9. QED
    BY <1>6, <1>8 DEF DbInv

\* A FLUSHALL leaves its record, whose execution leaves nothing.
LEMMA FlushedEmpty ==
  ASSUME NEW r \in Record, r.cmd.op = "flushall"
  PROVE  Redone(Empty, <<r>>) = Empty
  BY RecordShape, RedoneOne DEF Apply

LEMMA TruncateMeans ==
  ASSUME AllInv, LogInv, DbInv, NEW l \in Loop, Truncate(l)
  PROVE  DbInv'
  <1>1. /\ pc[l] = "truncate" /\ pc' = [pc EXCEPT ![l] = "open"]
        /\ \E hole \in IF open THEN {<<>>, <<Torn>>} ELSE {<<>>} : file' = <<rec[l]>> \o hole \o Unflushed
        /\ UNCHANGED <<db, cleared, buffer, open, phase, todo, restarts, rec, local, failed, crossed>>
    BY DEF Truncate, server
  <1>2. /\ TypeOK /\ l \in Thread /\ rec[l] \in Record /\ rec[l].cmd.op = "flushall"
    BY <1>1, Shapes DEF AllInv, AofInv, TypeInv, Shut, Closing
  <1>3. /\ pc'[l] = "open" /\ \A u \in Thread : u # l => pc'[u] = pc[u]
        /\ \A m \in Loop : m \in Thread /\ (pc'[m] # "idle" => pc[m] # "idle" /\ rec'[m] = rec[m])
    BY <1>1, <1>2, Moved DEF Step
  <1>4. Data' = Data
    BY <1>1 DEF Data
  <1>5. Serial'
    <2>1. \A m \in Loop : pc'[m] \in {"truncate", "open"} => pc[m] \in {"truncate", "open"}
      BY <1>1, <1>3
    <2>2. QED
      BY <1>1, <1>3, <1>4, <2>1, SerialFrame DEF DbInv
  <1>6. MeansInv'
    <2>1. Serving /\ phase # "stopped" /\ phase # "loading"
      BY <1>1, <1>2 DEF AllInv, AofInv, TypeInv, Phased, Serving
    <2> SUFFICES ASSUME Sure' PROVE Meant'
      BY <1>1, <2>1 DEF MeansInv
    <2>2. "open" \notin failed /\ crossed = {}
      BY <1>1 DEF Sure, Calm
    <2>3. OneLoop
      BY <2>2 DEF DbInv, Serial
    <2>4. Data = Empty /\ ~open /\ \A m \in Loop : m # l => pc[m] = "idle"
      BY <1>1, <1>2, <2>3 DEF OneLoop
    <2>5. buffer = <<>> /\ \A t \in Thread : local[t] = <<>>
      BY <2>2, <2>4 DEF AllInv, AofInv, TypeInv, Shut, LogInv, Alone, Held
    <2>6. BatchOf(local) = <<>>
      BY <2>5, TheBatch
    <2>7. <<rec[l]>> \in Seq(Rec) /\ (<<rec[l]>> \o <<>>) \o <<>> = <<rec[l]>>
      BY <1>2, SingleIds, Emptied
    <2>8. file' = <<rec[l]>>
      <3>1. file' = (<<rec[l]>> \o <<>>) \o <<>>
        BY <1>1, <2>4 DEF Unflushed
      <3>2. QED
        BY <2>7, <3>1
    <2>9. Contents' = <<rec[l]>>
      BY <1>1, <2>5, <2>6, <2>7, <2>8 DEF Contents
    <2>10. Data' = Redone(Empty, Contents')
      BY <1>2, <1>4, <2>4, <2>9, FlushedEmpty
    <2>11. \A m \in Loop : ~Unlogged(m)'
      BY <1>3, <2>4 DEF Unlogged
    <2>12. QED
      BY <2>10, <2>11 DEF Meant
  <1>7. QED
    BY <1>5, <1>6 DEF DbInv

\* A truncation or a reopening fails.
LEMMA FailedMeans ==
  ASSUME AllInv, LogInv, DbInv, NEW l \in Loop, TruncateError(l) \/ ReopenError(l)
  PROVE  DbInv'
  <1>1. /\ pc[l] \in {"truncate", "open"}
        /\ "write" \in failed' \/ "truncate" \in failed'
        /\ UNCHANGED <<db, cleared, phase, restarts, crossed>>
        /\ \/ pc' = [pc EXCEPT ![l] = "open"] /\ rec' = rec
           \/ pc' = [pc EXCEPT ![l] = "idle"] /\ rec' = [rec EXCEPT ![l] = NoRecord]
        /\ open' => open
    <2>1. CASE TruncateError(l)
      BY <2>1 DEF TruncateError, server
    <2>2. CASE ReopenError(l)
      <3>1. open' => open
        BY <2>2 DEF ReopenError
      <3>2. QED
        BY <2>2, <3>1 DEF ReopenError, Answer, server
    <2>3. QED
      BY <2>1, <2>2
  <1>2. TypeOK /\ l \in Thread /\ rec \in [Loop -> Record]
    BY Shapes DEF AllInv, AofInv, TypeInv
  <1>3. /\ \A u \in Thread : u # l => pc'[u] = pc[u]
        /\ \A m \in Loop : m \in Thread /\ (pc'[m] # "idle" => pc[m] # "idle" /\ rec'[m] = rec[m])
    <2>1. CASE pc' = [pc EXCEPT ![l] = "open"] /\ rec' = rec
      BY <1>1, <1>2, <2>1, Moved DEF Step
    <2>2. CASE pc' = [pc EXCEPT ![l] = "idle"] /\ rec' = [rec EXCEPT ![l] = NoRecord]
      <3>1. \A m \in Loop : m # l => rec'[m] = rec[m]
        BY <1>2, <2>2
      <3>2. QED
        BY <1>1, <1>2, <2>2, <3>1, Moved DEF Step
    <2>3. QED
      BY <1>1, <2>1, <2>2
  <1>4. Data' = Data /\ ~Sure'
    BY <1>1 DEF Data, Sure, Calm
  <1>5. \A m \in Loop : pc'[m] \in {"truncate", "open"} => pc[m] \in {"truncate", "open"}
    BY <1>1, <1>3
  <1>6. Serial'
    BY <1>1, <1>3, <1>4, <1>5, SerialFrame DEF DbInv
  <1>7. QED
    BY <1>4, <1>6 DEF DbInv, MeansInv

LEMMA ReopenMeans ==
  ASSUME AllInv, LogInv, DbInv, NEW l \in Loop, Reopen(l)
  PROVE  DbInv'
  <1>1. /\ pc[l] = "open" /\ pc' = [pc EXCEPT ![l] = "idle"]
        /\ rec' = [rec EXCEPT ![l] = NoRecord]
        /\ UNCHANGED <<db, cleared, buffer, file, phase, todo, restarts, local, failed, crossed>>
    BY DEF Reopen, Answer, server
  <1>2. TypeOK /\ l \in Thread /\ rec \in [Loop -> Record]
    BY Shapes DEF AllInv, AofInv, TypeInv
  <1>3. /\ pc'[l] = "idle" /\ \A u \in Thread : u # l => pc'[u] = pc[u]
        /\ \A m \in Loop : m \in Thread /\ (pc'[m] # "idle" => pc[m] # "idle" /\ rec'[m] = rec[m])
    <2>1. \A m \in Loop : m # l => rec'[m] = rec[m]
      BY <1>1, <1>2
    <2>2. QED
      BY <1>1, <1>2, <2>1, Moved DEF Step
  <1>4. Data' = Data
    BY <1>1 DEF Data
  <1>5. Serial'
    <2>1. ASSUME crossed' \cap {"commands", "late"} = {} PROVE OneLoop'
      <3>1. OneLoop
        BY <1>1, <2>1 DEF DbInv, Serial
      <3>2. \A m \in Loop : pc'[m] = "idle"
        BY <1>1, <1>3, <3>1 DEF OneLoop
      <3>3. QED
        BY <3>2 DEF OneLoop
    <2>2. QED
      BY <1>1, <2>1 DEF DbInv, Serial
  <1>6. MeansInv'
    <2>1. Sure' => Sure /\ Contents' = Contents
      BY <1>1 DEF Sure, Contents, Calm
    <2>2. \A m \in Loop : /\ pc'[m] = "truncate" <=> pc[m] = "truncate"
                          /\ Unlogged(m)' <=> Unlogged(m)
                          /\ Unlogged(m) => rec'[m] = rec[m]
      BY <1>1, <1>3 DEF Unlogged
    <2>3. QED
      BY <1>1, <1>4, <2>1, <2>2, MeansFrame DEF DbInv, Serving
  <1>7. QED
    BY <1>5, <1>6 DEF DbInv

\* The server goes down its path, or nothing happens.
LEMMA PhaseMeans ==
  ASSUME DbInv, Data' = Data,
         UNCHANGED <<buffer, file, open, todo, restarts, pc, rec, local, failed, crossed>>,
         Serving' => Serving, phase' = "stopped" => phase = "stopped",
         phase' = "loading" => phase = "loading" /\ db' = db
  PROVE  DbInv'
  <1>1. Serial'
    BY SerialFrame DEF DbInv
  <1>2. Sure' => Sure /\ Contents' = Contents
    BY DEF Sure, Contents, Calm
  <1>3. MeansInv'
    BY <1>2, MeansFrame DEF DbInv, Unlogged
  <1>4. QED
    BY <1>1, <1>3 DEF DbInv

LEMMA LoadDoneMeans ==
  ASSUME AllInv, LogInv, DbInv, LoadDone
  PROVE  DbInv'
  <1>1. /\ phase = "loading" /\ todo = <<>> /\ phase' = "up"
        /\ UNCHANGED <<db, buffer, file, open, todo, restarts, pc, rec, local, failed, crossed>>
    BY DEF LoadDone, medium, threads, history
  <1>2. /\ db \in [Key -> Nat] /\ \A l \in Loop : pc[l] = "idle"
    BY <1>1 DEF AllInv, AofInv, TypeInv, TypeOK, Phased, Serving, Thread
  <1>3. Data' = db
    BY <1>1 DEF Data
  <1>4. Serial'
    BY <1>1, <1>2 DEF Serial, OneLoop
  <1>5. MeansInv'
    <2> SUFFICES ASSUME Sure' PROVE Meant'
      BY <1>1 DEF MeansInv
    <2>1. Sure /\ Contents' = Contents
      BY <1>1 DEF Sure, Contents, Calm
    <2>2. Redone(db, todo) = db
      BY <1>1, RedoneEmpty
    <2>3. \A k \in Key : Redone(Empty, Contents)[k] = db[k]
      BY <1>1, <2>1, <2>2 DEF DbInv, MeansInv, Loaded
    <2>4. Redone(Empty, Contents) \in [Key -> Nat]
      BY <2>1, ContentsType, EmptyType, RedoneType
    <2>5. Redone(Empty, Contents) = db
      <3>1. \A x, y \in [Key -> Nat] : (\A k \in Key : x[k] = y[k]) => x = y
        OBVIOUS
      <3>2. QED
        BY <1>2, <2>3, <2>4, <3>1
    <2>6. QED
      BY <1>1, <1>2, <1>3, <2>1, <2>5 DEF Meant, Unlogged
  <1>6. QED
    BY <1>4, <1>5 DEF DbInv

LEMMA LoopsJoinedMeans ==
  ASSUME AllInv, LogInv, DbInv, LoopsJoined
  PROVE  DbInv'
  <1>1. /\ phase = "draining" /\ phase' = "stopped" /\ \A l \in Loop : pc[l] = "idle"
        /\ IF open THEN WriteOut(file \o buffer) ELSE UNCHANGED <<file, failed>>
        /\ buffer' = <<>>
        /\ UNCHANGED <<db, cleared, todo, restarts, pc, rec, local, crossed>>
    BY DEF LoopsJoined, CloseAtLast, threads
  <1>2. /\ TypeOK /\ Serving /\ \A t \in Thread : local[t] = <<>>
        /\ file \in Seq(Rec) /\ buffer \in Seq(Rec)
    BY <1>1, Shapes DEF AllInv, AofInv, TypeInv, Phased, Thread, Serving
  <1>3. Data' = Data
    BY <1>1 DEF Data
  <1>4. Serial'
    <2>1. OneLoop'
      BY <1>1 DEF OneLoop
    <2>2. QED
      BY <1>1, <2>1 DEF Serial
  <1>5. MeansInv'
    <2> SUFFICES ASSUME Sure' PROVE Data' = Redone(Empty, Contents')
      BY <1>1 DEF MeansInv, Serving
    <2>1. failed \subseteq failed' /\ "write" \notin failed'
      BY <1>1 DEF Sure, Calm, WriteOut
    <2>2. open
      <3>1. "open" \notin failed
        BY <2>1 DEF Sure, Calm
      <3>2. QED
        BY <1>1, <1>2, <3>1 DEF AllInv, AofInv, TypeInv, Shut
    <2>3. file' = file \o buffer
      BY <1>1, <2>1, <2>2 DEF WriteOut
    <2>4. Sure
      BY <1>1, <1>2, <2>1, <2>3, StillTorn DEF Sure, Calm
    <2>5. Data = Redone(Empty, Contents)
      BY <1>1, <1>2, <2>4 DEF DbInv, MeansInv, Meant, Unlogged
    <2>6. Contents' = Contents
      <3>1. BatchOf(local) = <<>>
        BY <1>2, TheBatch
      <3>2. file \o <<>> = file /\ ((file \o buffer) \o <<>>) \o <<>> = file \o buffer
        BY <1>2, ConcatIds, Emptied
      <3>3. QED
        BY <1>1, <2>3, <3>1, <3>2 DEF Contents
    <2>7. QED
      BY <1>3, <2>5, <2>6
  <1>6. QED
    BY <1>4, <1>5 DEF DbInv

LEMMA CrashMeans ==
  ASSUME Crash
  PROVE  DbInv'
  <1>1. phase' = "down" /\ pc' = [t \in Thread |-> "idle"]
    BY DEF Crash
  <1>2. OneLoop'
    BY <1>1 DEF OneLoop, Thread
  <1>3. QED
    BY <1>1, <1>2 DEF DbInv, Serial, MeansInv, Serving

LEMMA LoadMeans ==
  ASSUME AllInv, LogInv, DbInv, Load
  PROVE  DbInv'
  <1>1. /\ phase \in {"down", "stopped"} /\ phase' = "loading"
        /\ todo' = Readable(file) /\ db' = Empty /\ restarts' = restarts + 1
        /\ UNCHANGED <<buffer, file, pc, rec, local>>
    BY DEF Load, threads
  <1>2. /\ TypeOK /\ buffer = <<>> /\ file \in Seq(Rec) /\ restarts \in Nat
    BY <1>1, Shapes, CommandShape DEF AllInv, AofInv, TypeInv, TypeOK, Phased
  <1>3. \A t \in Thread : pc[t] = "idle" /\ local[t] = <<>>
    BY <1>1 DEF AllInv, AofInv, TypeInv, Phased, Serving
  <1>4. Serial'
    <2>1. OneLoop'
      BY <1>1, <1>3 DEF OneLoop, Thread
    <2>2. QED
      BY <1>1, <1>2, <2>1 DEF Serial
  <1>5. MeansInv'
    <2> SUFFICES ASSUME Sure' PROVE Loaded'
      BY <1>1 DEF MeansInv, Serving
    <2>1. todo' = file /\ file \in Seq(Record)
      BY <1>1, <1>2, ReadWhole DEF Sure
    <2>2. Contents' = file
      <3>1. BatchOf(local) = <<>>
        BY <1>3, TheBatch
      <3>2. (file \o <<>>) \o <<>> = file
        BY <1>2, Emptied
      <3>3. QED
        BY <1>1, <1>2, <3>1, <3>2 DEF Contents
    <2>3. Redone(Empty, Contents') = Redone(db', todo')
      BY <1>1, <2>1, <2>2
    <2>4. QED
      BY <2>3 DEF Loaded
  <1>6. QED
    BY <1>4, <1>5 DEF DbInv

\* What an increment does not do: a key is set alike whatever the keyspace was, or
\* keeps its value.
LEMMA SetAlike ==
  ASSUME NEW c \in Command, c.op # "incr", NEW d \in [Key -> Nat], NEW e \in [Key -> Nat],
         NEW f \in [Key -> Nat], \A k \in Key : d[k] \in {e[k], f[k]}, NEW k \in Key
  PROVE  Apply(d, c)[k] \in {Apply(e, c)[k], f[k]}
  BY CommandShape DEF Apply, Empty

LEMMA ReplayMeans ==
  ASSUME AllInv, LogInv, DbInv, ReplayOne
  PROVE  DbInv'
  <1> DEFINE r == Head(todo)
             filled == Append(buffer, r)
  <1>1. /\ phase = "loading" /\ todo # <<>> /\ db' = Apply(db, r.cmd) /\ todo' = Tail(todo)
        /\ UNCHANGED <<phase, restarts, pc, rec, local, crossed>>
        /\ \/ ~open /\ UNCHANGED failed
           \/ failed \subseteq failed' /\ "write" \in failed'
           \/ r.cmd.op = "flushall" /\ file' = <<r>> /\ buffer' = <<>>
           \/ ~Logs(db, r.cmd) /\ UNCHANGED <<buffer, file, failed>>
           \/ /\ r.cmd.op # "flushall" /\ UNCHANGED failed
              /\ \/ file' = file \o filled /\ buffer' = <<>>
                 \/ buffer' = filled /\ file' = file
    BY DEF ReplayOne, Rewrite, WriteOut, medium, threads
  <1>2. /\ TypeOK /\ db \in [Key -> Nat] /\ todo \in Seq(Record) /\ r \in Record
        /\ Tail(todo) \in Seq(Record) /\ r.cmd \in Command
        /\ buffer \in Seq(Rec) /\ buffer \in Seq(Record) /\ file \in Seq(Rec)
    <2>1. todo \in Seq(Record) /\ TypeOK
      BY DEF AllInv, AofInv, TypeInv, TypeOK
    <2>2. r \in Record /\ Tail(todo) \in Seq(Record)
      BY <1>1, <2>1, HeadTailProperties
    <2>3. QED
      BY <2>1, <2>2, Shapes, RecordShape DEF TypeOK
  <1>3. \A t \in Thread : pc[t] = "idle" /\ local[t] = <<>>
    BY <1>1 DEF AllInv, AofInv, TypeInv, Phased, Serving
  <1>4. BatchOf(local) = <<>> /\ file \o <<>> = file
    BY <1>2, <1>3, TheBatch, Emptied
  <1>5. Serial'
    <2>1. OneLoop'
      BY <1>1, <1>3 DEF OneLoop, Thread
    <2>2. QED
      BY <1>1, <2>1 DEF DbInv, Serial
  <1>6. Redone(db, todo) = Redone(db', todo')
    BY <1>1, <1>2, RedoneTail
  <1> HIDE DEF r
  <1>7. MeansInv'
    <2> SUFFICES ASSUME Sure' PROVE Loaded'
      BY <1>1 DEF MeansInv, Serving
    <2>5. ~(failed \subseteq failed' /\ "write" \in failed')
      BY DEF Sure, Calm
    <2>6. ~(~open /\ UNCHANGED failed)
      BY <1>1 DEF Sure, Calm, AllInv, AofInv, TypeInv, Phased
    <2>1. CASE r.cmd.op = "flushall" /\ file' = <<r>> /\ buffer' = <<>>
      <3>1. file' = <<r>> /\ buffer' = <<>>
        BY <2>1
      <3>2. Contents' = <<r>>
        <4>1. (<<r>> \o <<>>) \o <<>> = <<r>>
          BY <1>2, SingleIds, Emptied
        <4>2. QED
          BY <1>1, <1>4, <3>1, <4>1 DEF Contents
      <3>3. Redone(Empty, Contents') = Empty /\ db' = Empty
        BY <1>1, <1>2, <2>1, <3>2, FlushedEmpty DEF Apply
      <3>4. QED
        BY <3>3 DEF Loaded
    <2>2. CASE ~Logs(db, r.cmd) /\ UNCHANGED <<buffer, file, failed>>
      <3>1. Sure /\ Contents' = Contents
        BY <1>1, <2>2 DEF Sure, Contents, Calm
      <3>2. db' = db
        BY <1>1, <1>2, <2>2, CommandShape DEF Logs, Apply
      <3>3. Loaded
        BY <1>1, <3>1 DEF DbInv, MeansInv
      <3>4. QED
        BY <1>6, <3>1, <3>2, <3>3 DEF Loaded
    <2>3. CASE /\ r.cmd.op # "flushall" /\ UNCHANGED failed
               /\ \/ file' = file \o filled /\ buffer' = <<>>
                  \/ buffer' = filled /\ file' = file
      <3>1. filled \in Seq(Rec) /\ file \o filled = Append(file \o buffer, r)
        BY <1>2, AppendIds, AppendLast
      <3>2. Sure
        BY <1>1, <1>2, <2>3, <3>1, StillTorn DEF Sure, Calm
      <3>3. Contents \in Seq(Record)
        BY <3>2, ContentsType
      <3>4. Contents' = Append(Contents, r)
        <4>1. file \o filled \in Seq(Rec)
          BY <1>2, <3>1, ConcatIds
        <4>2. ((file \o filled) \o <<>>) \o <<>> = file \o filled
          BY <4>1, Emptied
        <4>3. Contents = file \o buffer
          BY <1>4 DEF Contents
        <4>4. CASE file' = file \o filled /\ buffer' = <<>>
          BY <1>1, <1>4, <3>1, <4>2, <4>3, <4>4 DEF Contents
        <4>5. CASE buffer' = filled /\ file' = file
          BY <1>1, <1>4, <3>1, <4>3, <4>5 DEF Contents
        <4>6. QED
          BY <2>3, <4>4, <4>5
      <3>5. /\ Redone(Empty, Contents) \in [Key -> Nat] /\ Redone(db, todo) \in [Key -> Nat]
        BY <1>2, <3>3, EmptyType, RedoneType
      <3>6. Redone(Empty, Contents') = Apply(Redone(Empty, Contents), r.cmd)
        BY <1>2, <3>3, <3>4, RedoneAppend
      <3>7. r.cmd.op # "incr"
        BY <1>1, <1>2, <3>2 DEF Sure, DbInv, Serial
      <3>8. \A k \in Key : Redone(Empty, Contents)[k] \in {db[k], Redone(db, todo)[k]}
        BY <1>1, <3>2 DEF DbInv, MeansInv, Loaded
      <3>9. ASSUME NEW k \in Key
            PROVE  Redone(Empty, Contents')[k] \in {db'[k], Redone(db', todo')[k]}
        <4>1. Apply(Redone(Empty, Contents), r.cmd)[k] \in {Apply(db, r.cmd)[k], Redone(db, todo)[k]}
          BY <1>2, <3>5, <3>7, <3>8, SetAlike
        <4>2. QED
          BY <1>1, <1>6, <3>6, <4>1
      <3>10. QED
        BY <3>9 DEF Loaded
    <2>4. QED
      BY <1>1, <2>1, <2>2, <2>3, <2>5, <2>6
  <1>8. QED
    BY <1>5, <1>7 DEF DbInv

LEMMA StepMeans ==
  ASSUME AllInv, LogInv, DbInv, [Next]_vars
  PROVE  DbInv'
  <1>1. Flusher \in Thread /\ \A l \in Loop : l \in Thread
    BY DEF Thread
  <1>2. CASE UNCHANGED vars
    <2>1. /\ UNCHANGED <<db, cleared, phase>>
          /\ UNCHANGED <<buffer, file, open, todo, restarts, pc, rec, local, failed, crossed>>
      BY <1>2 DEF vars, server, threads, medium, history
    <2>2. QED
      BY <2>1, PhaseMeans DEF Serving, Data
  <1>3. ASSUME NEW l \in Loop, Answering(l) PROVE DbInv'
    BY <1>1, <1>3, LogMeans, SwapMeans, WriteMeans, WriteErrorMeans, SyncMeans, CheckOpenMeans,
       CloseFileMeans, TruncateMeans, ReopenMeans, FailedMeans DEF Answering
  <1>4. CASE Flush
    BY <1>1, <1>4, FlushSwapMeans, WriteMeans, WriteErrorMeans, FlushSyncMeans DEF Flush
  <1>5. CASE Shutdown \/ FlusherJoined
    <2>1. /\ UNCHANGED <<buffer, file, open, todo, restarts, pc, rec, local, failed, crossed>>
          /\ phase \in {"up", "stopping"} /\ phase' \in {"stopping", "draining"}
          /\ IF phase = "up" THEN cleared' = db ELSE cleared' = cleared
      BY <1>5 DEF Shutdown, FlusherJoined, threads, medium, history
    <2>2. QED
      BY <2>1, PhaseMeans DEF Serving, Data
  <1>6. QED
    BY <1>2, <1>3, <1>4, <1>5, ExecMeans, ExecLateMeans, LoopsJoinedMeans, CrashMeans, LoadMeans,
       ReplayMeans, LoadDoneMeans DEF Next

LEMMA InitMeans ==
  ASSUME Init
  PROVE  DbInv
  <1>1. /\ \A t \in Thread : pc[t] = "idle" /\ local[t] = <<>>
        /\ file = <<>> /\ buffer = <<>> /\ db = Empty /\ open /\ phase = "up"
    BY DEF Init
  <1>2. Serial
    BY <1>1 DEF Serial, OneLoop, Thread
  <1>3. Contents = <<>>
    <2>1. BatchOf(local) = <<>>
      BY <1>1, TheBatch
    <2>2. <<>> \o <<>> = <<>>
      BY EmptyIds, Emptied
    <2>3. QED
      BY <1>1, <2>1, <2>2 DEF Contents
  <1>4. Redone(Empty, Contents) = Empty
    BY <1>3, RedoneEmpty
  <1>5. Meant
    BY <1>1, <1>4 DEF Meant, Thread, Unlogged, Data
  <1>6. QED
    BY <1>1, <1>2, <1>5 DEF DbInv, MeansInv

\* What the file and the records on their way to it make is what the keyspace holds,
\* but for the one command under way (command.cpp:1034).
THEOREM AofDbInvariant == Spec => []DbInv
  <1>1. Init => DbInv
    BY InitMeans
  <1>2. AofInductive /\ LogInv /\ DbInv /\ [Next]_vars => DbInv'
    BY StepMeans DEF AofInductive
  <1>3. QED
    BY <1>1, <1>2, AofInvariant, AofLogInvariant, PTL DEF Spec

\* While no two commands overlap and none executes after the shutdown, the file, the
\* batch and the buffer replay to the keyspace, or after the shutdown to what it
\* was: restarts, FLUSHALL and failed fsyncs included.
THEOREM AofLogMeansDb == Spec => []LogMeansDb
  <1>1. ASSUME AofInductive, LogInv, DbInv PROVE LogMeansDb
    <2> DEFINE s == file \o local[Flusher] \o buffer
    <2> SUFFICES ASSUME phase \in {"up", "stopping", "draining", "stopped"}, Sure,
                        \A l \in Loop : pc[l] = "idle"
                 PROVE  Replayed(s) = Data
      BY DEF LogMeansDb, Sure, Calm
    <2>1. /\ Contents \in Seq(Record)
          /\ \A t \in Thread : local[t] # <<>> => BatchOf(local) = local[t]
          /\ (\A t \in Thread : local[t] = <<>>) => BatchOf(local) = <<>>
      BY <1>1, ContentsType DEF AofInductive
    <2>2. \A l \in Loop : l \in Thread /\ local[l] = <<>>
      BY <1>1 DEF AofInductive, AllInv, AofInv, TypeInv, Phased, Thread
    <2>3. BatchOf(local) = local[Flusher]
      BY <2>1, <2>2 DEF Thread
    <2>4. s = Contents
      BY <2>3 DEF Contents
    <2> HIDE DEF s
    <2>5. Readable(s) = s
      BY <2>1, <2>4, ReadWhole, RecordsWhole, Whole
    <2>6. Data = Redone(Empty, Contents)
      <3>1. CASE phase = "stopped"
        BY <1>1, <3>1 DEF DbInv, MeansInv
      <3>2. CASE Serving
        BY <1>1, <3>2 DEF DbInv, MeansInv, Meant, Unlogged
      <3>3. QED
        BY <3>1, <3>2 DEF Serving
    <2>7. QED
      BY <2>4, <2>5, <2>6 DEF Replayed
  <1>2. QED
    BY <1>1, AofInvariant, AofLogInvariant, AofDbInvariant, PTL
=============================================================================
