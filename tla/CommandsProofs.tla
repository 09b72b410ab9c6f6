--------------------------- MODULE CommandsProofs ---------------------------
(***************************************************************************)
(* For any loops, keys, members and commands: the types of Commands, that  *)
(* no key is left with an empty set, and that a key whose commands are     *)
(* answered is what the log says.                                          *)
(***************************************************************************)
EXTENDS Commands, SequenceTheorems, FiniteSetTheorems, WellFoundedInduction, TLAPS

\* A set belongs to one key, and a loop that holds it works on that key.
Owned ==
    /\ \A k, j \in Key : db[k].kind = "zset" /\ db[j].set = db[k].set => j = k
    /\ \A l \in Loop : run[l].at \in {"held", "inside"} =>
          /\ run[l].cmd.op \in {"zadd", "zincrby", "zrem"} /\ ~IsBad(run[l].cmd)
          /\ \A k \in Key : db[k].set = run[l].set => run[l].cmd.key = k

\* A loop that will add to set i of key k, or look whether it is empty.
Attends(l, k, i) ==
    \/ run[l].at = "removed" /\ run[l].cmd.key = k
    \/ run[l].at \in {"held", "inside"} /\ run[l].set = i /\ run[l].cmd.op # "zrem"

\* Why NoEmptySet holds: an empty set has somebody to attend to it.
Attended ==
    \A k \in Key :
        db[k].kind = "zset" /\ sets[db[k].set] = NoMember
            => \/ db[k].set \in raced \cup spoilt
               \/ \E l \in Loop : run[l].cmd.key = k /\ Attends(l, k, db[k].set)

CommandsInv == TypeOK /\ Owned /\ Attended

LEMMA CommandShape ==
  ASSUME NEW c \in Command
  PROVE  /\ c \in Request
         /\ c.op \in {"set", "incrby", "zincrby"} => Len(c.val) = 1 /\ c.val[1] \in Int
         /\ c.op = "incrby" => c.val[1] \in Integer64
         /\ c.op \in {"zadd", "zincrby"} => c.val \in Seq(Nat)
         /\ c.op = "zincrby" => c.val[1] \in Nat
         /\ c.op \in {"zadd", "zincrby"} => c.arg # <<>> /\ Len(c.val) = Len(c.arg)
         /\ c.op = "zincrby" => c.val[1] # 0
         /\ \A i, j \in DOMAIN c.arg : c.arg[i] = c.arg[j] => i = j
  <1>1. c \in Request /\ c.val \in Seq(Int)
    BY CommandAssumption DEF CommandAssumption, Request
  <1>2. Len(c.val) = 1 => c.val[1] \in Int
    BY <1>1, ElementOfSeq
  <1>3. Len(c.val) = 1 /\ c.val \in Seq(Nat) => c.val[1] \in Nat
    BY ElementOfSeq
  <1>4. QED
    BY <1>1, <1>2, <1>3, CommandAssumption DEF CommandAssumption

LEMMA RecordsRight ==
  ASSUME NEW c \in Command
  PROVE  Records(c) \in Seq(Request) /\ Records(c) # <<>>
  <1> c \in Request
    BY CommandShape
  <1>1. CASE c.op # "zadd"
    BY <1>1 DEF Records
  <1>2. CASE c.op = "zadd"
    <2> DEFINE r(i) == [c EXCEPT !.arg = <<c.arg[i]>>, !.val = <<c.val[i]>>]
               n == Len(c.arg)
    <2>1. /\ n \in Nat /\ n # 0 /\ DOMAIN c.arg = 1 .. n
          /\ \A i \in 1 .. n : c.arg[i] \in Member /\ c.val[i] \in Nat
      BY <1>2, CommandShape, ElementOfSeq, EmptySeq, LenProperties DEF Request
    <2>2. ASSUME NEW i \in 1 .. n PROVE r(i) \in Request
      <3>1. c.arg[i] \in Member /\ c.val[i] \in Nat
        BY <2>1
      <3>2. <<c.arg[i]>> \in Seq(Member) /\ <<c.val[i]>> \in Seq(Int)
        BY <3>1
      <3>3. QED
        BY <3>2 DEF Request
    <2>3. Records(c) = [i \in 1 .. n |-> r(i)]
      BY <1>2, <2>1 DEF Records
    <2> HIDE DEF r, n
    <2>4. [i \in 1 .. n |-> r(i)] \in [1 .. n -> Request]
      BY <2>2
    <2>5. Records(c) \in Seq(Request)
      BY <2>1, <2>3, <2>4, IsASeq
    <2>6. Len(Records(c)) = n
      BY <2>1, <2>3, <2>4, <2>5, LenProperties
    <2>7. QED
      BY <2>1, <2>5, <2>6, EmptySeq
  <1>3. QED
    BY <1>1, <1>2

LEMMA ChangedRight ==
  ASSUME NEW c \in Command, NEW z \in [Member -> Nat],
         c.op \in {"zadd", "zincrby", "zrem"}
  PROVE  Changed(z, c) \in [Member -> Nat]
  <1> SUFFICES ASSUME NEW m \in Member PROVE Changed(z, c)[m] \in Nat
    BY DEF Changed
  <1>1. CASE m \notin Members(c)
    BY <1>1 DEF Changed
  <1>2. CASE m \in Members(c) /\ c.op = "zadd"
    <2> DEFINE i == CHOOSE i \in DOMAIN c.arg : c.arg[i] = m
    <2>1. \E j \in DOMAIN c.arg : c.arg[j] = m
      BY <1>2 DEF Members, ToSet
    <2>2. i \in DOMAIN c.arg
      BY <2>1
    <2>3. i \in 1 .. Len(c.val) /\ c.val \in Seq(Nat)
      BY <1>2, <2>2, CommandShape, LenProperties DEF Request
    <2>4. c.val[i] \in Nat
      BY <2>3, ElementOfSeq
    <2>5. QED
      BY <1>2, <2>4 DEF Changed
  <1>3. CASE m \in Members(c) /\ c.op = "zincrby"
    BY <1>3, CommandShape DEF Changed
  <1>4. CASE m \in Members(c) /\ c.op = "zrem"
    BY <1>4 DEF Changed
  <1>5. QED
    BY <1>1, <1>2, <1>3, <1>4

\* A set is not empty after ZINCRBY, or ZADD of scores that are numbers.
LEMMA ChangedFills ==
  ASSUME NEW c \in Command, NEW z \in [Member -> Nat],
         c.op \in {"zadd", "zincrby"}, ~IsBad(c)
  PROVE  Changed(z, c) # NoMember
  <1> DEFINE m == c.arg[1]
             i == CHOOSE i \in DOMAIN c.arg : c.arg[i] = m
  <1>1. 1 \in DOMAIN c.arg /\ m \in Member /\ DOMAIN c.arg = DOMAIN c.val
    BY CommandShape, ElementOfSeq, EmptySeq, LenProperties DEF Request
  <1>2. m \in Members(c)
    BY <1>1 DEF Members, ToSet
  <1>3. i \in DOMAIN c.val
    BY <1>1
  <1>4. c.op = "zadd" => c.val[i] # 0
    BY <1>3 DEF IsBad, ToSet
  <1>5. c.op = "zincrby" => z[m] + c.val[1] # 0
    BY <1>1, CommandShape
  <1>6. Changed(z, c)[m] # 0
    BY <1>1, <1>2, <1>4, <1>5 DEF Changed
  <1>7. QED
    BY <1>1, <1>6 DEF NoMember

-----------------------------------------------------------------------------
Entry(n) == [kind : {"none", "string", "zset"}, val : Int, set : 0 .. n]

\* What each place of a loop says of the rest of its record.
LEMMA DoingShape ==
  ASSUME TypeOK, NEW l \in Loop
  PROVE  /\ run[l].at \in {"idle", "held", "inside", "removed", "log"}
         /\ run[l].at = "idle" => run[l] = Idle
         /\ run[l].at # "idle" => run[l].cmd \in Command
         /\ run[l].at \in {"held", "inside"} =>
               run[l].set \in DOMAIN sets /\ run[l].set # 0
         /\ run[l].at = "removed" => run[l].todo \in Seq(Request)
         /\ run[l].at = "log" => run[l].todo \in Seq(Request) \ {<<>>}
  <1>1. run[l] \in Doing /\ DOMAIN sets = 1 .. Len(sets)
    BY LenProperties DEF TypeOK
  <1>2. QED
    BY <1>1 DEF Doing, Idle

\* A key gets something that is no set, or loses what it had.
LEMMA Overwritten ==
  ASSUME CommandsInv, NEW l \in Loop, NEW k \in Key, NEW e, NEW d,
         run[l].at = "idle", d.at = "log", e.kind # "zset", e.set = 0,
         db' = [db EXCEPT ![k] = e], run' = [run EXCEPT ![l] = d],
         UNCHANGED <<sets, raced, spoilt>>
  PROVE  Owned' /\ Attended'
  <1>1. db \in [Key -> [kind : {"none", "string", "zset"}, val : Int, set : 0 .. Len(sets)]]
    BY DEF CommandsInv, TypeOK
  <1>2. /\ DOMAIN db = Key /\ DOMAIN run = Loop
        /\ \A j \in Key : db[j].kind = "zset" <=> db[j].set # 0
    BY DEF CommandsInv, TypeOK
  <1>3. \A h \in Loop : run[h].at \in {"held", "inside"} => run[h].set # 0
    BY DoingShape DEF CommandsInv
  <1>4. \A j \in Key : db'[j] = IF j = k THEN e ELSE db[j]
    BY <1>2
  <1>5. \A h \in Loop : run'[h] = IF h = l THEN d ELSE run[h]
    BY <1>2
  <1>6. Owned'
    BY <1>2, <1>3, <1>4, <1>5 DEF CommandsInv, Owned
  <1>7. Attended'
    BY <1>4, <1>5 DEF CommandsInv, Attended, Attends
  <1>8. QED
    BY <1>6, <1>7

\* A command that changes neither keyspace nor sets and is done at once.
LEMMA Refused ==
  ASSUME CommandsInv, UNCHANGED <<db, sets, run, raced, spoilt>>
  PROVE  Owned' /\ Attended'
  BY DEF CommandsInv, Owned, Attended, Attends

LEMMA BegunTypes ==
  ASSUME TypeOK, NEW l \in Loop, NEW c \in Command, Begun(l, c)
  PROVE  /\ count' \in 0 .. MaxCommands /\ crossed' \subseteq Key
         /\ run[l].at = "idle" /\ c.key \in Key /\ c \in Request
  <1>1. c \in Request /\ c.key \in Key
    BY CommandShape DEF Request
  <1>2. count' \in 0 .. MaxCommands
    BY CommandAssumption DEF TypeOK, Begun, CommandAssumption
  <1>3. QED
    BY <1>1, <1>2 DEF TypeOK, Begun, Idle

\* The records of a command are a type of run.
LEMMA LoggingTypes ==
  ASSUME TypeOK, NEW l \in Loop, NEW c \in Command, Logging(l, c, Records(c)),
         UNCHANGED sets
  PROVE  /\ run' \in [Loop -> Doing']
         /\ run' = [run EXCEPT ![l] = [at |-> "log", cmd |-> c, todo |-> Records(c)]]
  <1>1. [at |-> "log", cmd |-> c, todo |-> Records(c)] \in Doing
    BY RecordsRight DEF Doing
  <1>2. Doing' = Doing
    BY DEF Doing
  <1>3. QED
    BY <1>1, <1>2 DEF TypeOK, Logging

LEMMA SetStep ==
  ASSUME CommandsInv, NEW l \in Loop, NEW c \in Command, Set(l, c)
  PROVE  CommandsInv'
  <1> DEFINE d == [at |-> "log", cmd |-> c, todo |-> Records(c)]
  <1>1. TypeOK /\ Begun(l, c) /\ UNCHANGED <<sets, log, raced, spoilt>>
    BY DEF CommandsInv, Set
  <1>2. run' \in [Loop -> Doing'] /\ run' = [run EXCEPT ![l] = d]
    BY <1>1, LoggingTypes DEF Set
  <1>3. Number(c.val[1]) \in [kind : {"none", "string", "zset"}, val : Int, set : 0 .. Len(sets)]
    BY <1>1, CommandShape, LenProperties DEF Set, Number, TypeOK
  <1>4. TypeOK'
    BY <1>1, <1>2, <1>3, BegunTypes DEF TypeOK, Set, Number
  <1>5. Owned' /\ Attended'
    <2>1. Number(c.val[1]).kind # "zset" /\ Number(c.val[1]).set = 0 /\ d.at = "log"
      BY DEF Number
    <2>2. db' = [db EXCEPT ![c.key] = Number(c.val[1])]
      BY DEF Set
    <2>3. QED
      BY <1>1, <1>2, <2>1, <2>2, BegunTypes, Overwritten
  <1>6. QED
    BY <1>4, <1>5 DEF CommandsInv

LEMMA DelStep ==
  ASSUME CommandsInv, NEW l \in Loop, NEW c \in Command, Del(l, c)
  PROVE  CommandsInv'
  <1> DEFINE d == [at |-> "log", cmd |-> c, todo |-> Records(c)]
  <1>1. /\ TypeOK /\ Begun(l, c) /\ UNCHANGED <<sets, log, raced, spoilt>>
        /\ db' = [db EXCEPT ![c.key] = None]
    BY DEF CommandsInv, Del
  <1>2. None \in [kind : {"none", "string", "zset"}, val : Int, set : 0 .. Len(sets)]
    BY <1>1, LenProperties DEF None, TypeOK
  <1>3. /\ db' \in [Key -> [kind : {"none", "string", "zset"}, val : Int, set : 0 .. Len(sets)]]
        /\ \A k \in Key : db'[k].kind = "zset" <=> db'[k].set # 0
    BY <1>1, <1>2 DEF TypeOK, None
  <1>4. CASE db[c.key] = None
    <2>1. UNCHANGED <<db, sets, run, raced, spoilt>>
      BY <1>1, <1>4, BegunTypes DEF Del, TypeOK
    <2>2. TypeOK'
      BY <1>1, <1>3, <2>1, BegunTypes DEF TypeOK, Doing
    <2>3. QED
      BY <2>1, <2>2, Refused DEF CommandsInv
  <1>5. CASE db[c.key] # None
    <2>1. run' \in [Loop -> Doing'] /\ run' = [run EXCEPT ![l] = d]
      BY <1>1, <1>5, LoggingTypes DEF Del
    <2>2. TypeOK'
      BY <1>1, <1>3, <2>1, BegunTypes DEF TypeOK
    <2>3. None.kind # "zset" /\ None.set = 0 /\ d.at = "log"
      BY DEF None
    <2>4. Owned' /\ Attended'
      BY <1>1, <2>1, <2>3, BegunTypes, Overwritten
    <2>5. QED
      BY <2>2, <2>4 DEF CommandsInv
  <1>6. QED
    BY <1>4, <1>5

LEMMA IncrByStep ==
  ASSUME CommandsInv, NEW l \in Loop, NEW c \in Command, IncrBy(l, c)
  PROVE  CommandsInv'
  <1> DEFINE d == [at |-> "log", cmd |-> c, todo |-> Records(c)]
             n == db[c.key].val + c.val[1]
  <1>1. TypeOK /\ Begun(l, c) /\ UNCHANGED <<sets, log, raced, spoilt>>
    BY DEF CommandsInv, IncrBy
  <1>2. CASE ~CanAdd(db[c.key].kind, db[c.key].val, c.val[1])
    <2>1. UNCHANGED <<db, sets, run, raced, spoilt>>
      BY <1>1, <1>2 DEF IncrBy
    <2>2. TypeOK'
      BY <1>1, <2>1, BegunTypes DEF TypeOK, Doing
    <2>3. QED
      BY <2>1, <2>2, Refused DEF CommandsInv
  <1>3. CASE CanAdd(db[c.key].kind, db[c.key].val, c.val[1])
    <2>1. run' \in [Loop -> Doing'] /\ run' = [run EXCEPT ![l] = d]
      BY <1>1, <1>3, LoggingTypes DEF IncrBy
    <2>2. db' = [db EXCEPT ![c.key] = Number(n)]
      BY <1>3 DEF IncrBy
    <2>3. n \in Int
      BY <1>1, BegunTypes, CommandShape DEF TypeOK, IncrBy
    <2>4. Number(n) \in [kind : {"none", "string", "zset"}, val : Int, set : 0 .. Len(sets)]
      BY <1>1, <2>3, LenProperties DEF Number, TypeOK
    <2>5. TypeOK'
      BY <1>1, <2>1, <2>2, <2>4, BegunTypes DEF TypeOK, Number
    <2>6. Number(n).kind # "zset" /\ Number(n).set = 0 /\ d.at = "log"
      BY DEF Number
    <2>7. Owned' /\ Attended'
      BY <1>1, <2>1, <2>2, <2>6, BegunTypes, Overwritten
    <2>8. QED
      BY <2>5, <2>7 DEF CommandsInv
  <1>4. QED
    BY <1>2, <1>3

-----------------------------------------------------------------------------
\* A reference to a set is a type of run.
LEMMA HoldingTypes ==
  ASSUME TypeOK, NEW l \in Loop, NEW c \in Command, NEW i \in DOMAIN sets',
         Doing \subseteq Doing', Holding(l, c, i)
  PROVE  /\ run' \in [Loop -> Doing']
         /\ run' = [run EXCEPT ![l] = [at |-> "held", cmd |-> c, set |-> i]]
  <1>1. [at |-> "held", cmd |-> c, set |-> i] \in Doing'
    BY DEF Doing
  <1>2. QED
    BY <1>1 DEF TypeOK, Holding

LEMMA Grown ==
  ASSUME TypeOK, sets' = Append(sets, NoMember)
  PROVE  /\ sets' \in Seq([Member -> Nat])
         /\ Len(sets) \in Nat /\ Len(sets') = Len(sets) + 1
         /\ DOMAIN sets = 1 .. Len(sets) /\ DOMAIN sets' = 1 .. Len(sets) + 1
         /\ \A i \in DOMAIN sets : sets'[i] = sets[i]
         /\ sets'[Len(sets) + 1] = NoMember
         /\ Doing \subseteq Doing'
  <1>1. NoMember \in [Member -> Nat] /\ sets \in Seq([Member -> Nat])
    BY DEF NoMember, TypeOK
  <1>2. /\ sets' \in Seq([Member -> Nat])
        /\ Len(sets) \in Nat /\ Len(sets') = Len(sets) + 1
        /\ DOMAIN sets = 1 .. Len(sets) /\ DOMAIN sets' = 1 .. Len(sets) + 1
        /\ \A i \in DOMAIN sets : sets'[i] = sets[i]
        /\ sets'[Len(sets) + 1] = NoMember
    BY <1>1, AppendProperties, LenProperties
  <1>3. DOMAIN sets \subseteq DOMAIN sets'
    BY <1>2
  <1>4. Doing \subseteq Doing'
    BY <1>3 DEF Doing
  <1>5. QED
    BY <1>2, <1>4

\* ZADD and ZINCRBY of a key without a set: the new one has this loop to attend
\* to it, unless it is spoilt.
LEMMA CreateStep ==
  ASSUME CommandsInv, NEW l \in Loop, NEW c \in Command, AcquireOrCreate(l, c),
         db[c.key].kind = "none"
  PROVE  CommandsInv'
  <1> DEFINE new == Len(sets) + 1
             d == [at |-> "held", cmd |-> c, set |-> new]
  <1>1. /\ TypeOK /\ Owned /\ Attended /\ Begun(l, c)
        /\ UNCHANGED <<log, raced>>
        /\ c.op \in {"zadd", "zincrby"}
        /\ sets' = Append(sets, NoMember)
        /\ db' = [db EXCEPT ![c.key] = ZSetAt(new)]
        /\ spoilt' = IF IsBad(c) THEN spoilt \cup {new} ELSE spoilt
        /\ IF IsBad(c) THEN UNCHANGED run ELSE Holding(l, c, new)
    BY DEF CommandsInv, AcquireOrCreate
  <1>2. /\ run[l].at = "idle" /\ c.key \in Key
        /\ count' \in 0 .. MaxCommands /\ crossed' \subseteq Key
    BY <1>1, BegunTypes
  <1>3. /\ sets' \in Seq([Member -> Nat])
        /\ Len(sets) \in Nat /\ Len(sets') = new
        /\ DOMAIN sets = 1 .. Len(sets) /\ DOMAIN sets' = 1 .. new
        /\ \A i \in DOMAIN sets : sets'[i] = sets[i]
        /\ sets'[new] = NoMember
        /\ Doing \subseteq Doing'
    BY <1>1, Grown
  <1>4. /\ DOMAIN db = Key
        /\ \A k \in Key :
              /\ db[k] \in Entry(Len(sets))
              /\ db[k].kind = "zset" <=> db[k].set # 0
              /\ db[k].set \in 0 .. Len(sets)
    BY <1>1 DEF TypeOK, Entry
  <1>5. db'[c.key] = ZSetAt(new) /\ \A k \in Key : k # c.key => db'[k] = db[k]
    BY <1>1, <1>2, <1>4
  <1>6. /\ ZSetAt(new) \in Entry(new)
        /\ ZSetAt(new).set = new /\ ZSetAt(new).kind = "zset"
    BY <1>3 DEF ZSetAt, Entry
  <1>i. /\ db'[c.key].kind = "zset" /\ db'[c.key].set = new
        /\ \A k \in Key : k # c.key => db'[k].kind = db[k].kind /\ db'[k].set = db[k].set
        /\ \A k \in Key : db[k].set # new
        /\ new # 0
    <2>1. db'[c.key].kind = "zset" /\ db'[c.key].set = new
      BY <1>5, <1>6
    <2>2. ASSUME NEW k \in Key, k # c.key
          PROVE  db'[k].kind = db[k].kind /\ db'[k].set = db[k].set
      BY <1>5, <2>2
    <2>3. ASSUME NEW k \in Key PROVE db[k].set # new
      <3>1. db[k].set \in 0 .. Len(sets)
        BY <1>4
      <3>2. QED
        BY <1>3, <3>1
    <2>4. new # 0
      BY <1>3
    <2>5. QED
      BY <2>1, <2>2, <2>3, <2>4
  <1>7. /\ db' \in [Key -> Entry(new)]
        /\ \A k \in Key : db'[k].kind = "zset" <=> db'[k].set # 0
    <2>1. Entry(Len(sets)) \subseteq Entry(new)
      <3>1. 0 .. Len(sets) \subseteq 0 .. new
        BY <1>3
      <3>2. QED
        BY <3>1 DEF Entry
    <2>2. ASSUME NEW k \in Key PROVE db'[k] \in Entry(new)
      <3>1. CASE k = c.key
        BY <1>5, <1>6, <3>1
      <3>2. CASE k # c.key
        <4>1. db[k] \in Entry(Len(sets))
          BY <1>4
        <4>2. QED
          BY <1>5, <2>1, <3>2, <4>1
      <3>3. QED
        BY <3>1, <3>2
    <2>3. db' = [k \in Key |-> db'[k]]
      BY <1>1, <1>4
    <2>4. db' \in [Key -> Entry(new)]
      BY <2>2, <2>3
    <2>5. ASSUME NEW k \in Key PROVE db'[k].kind = "zset" <=> db'[k].set # 0
      <3>1. db[k].kind = "zset" <=> db[k].set # 0
        BY <1>4
      <3>2. QED
        BY <1>i, <3>1
    <2>6. QED
      BY <2>4, <2>5
  <1>8. /\ run' \in [Loop -> Doing']
        /\ \A h \in Loop : h # l => run'[h] = run[h]
        /\ IsBad(c) => run'[l].at = "idle"
        /\ ~IsBad(c) => run'[l] = d
    <2>1. new \in DOMAIN sets'
      BY <1>3
    <2>t. run \in [Loop -> Doing]
      BY <1>1 DEF TypeOK
    <2>2. CASE IsBad(c)
      <3>1. run' = run
        BY <1>1, <2>2
      <3>2. run' \in [Loop -> Doing']
        BY <1>3, <2>t, <3>1
      <3>3. QED
        BY <1>2, <2>2, <3>1, <3>2
    <2>3. CASE ~IsBad(c)
      <3>1. run' \in [Loop -> Doing'] /\ run' = [run EXCEPT ![l] = d]
        BY <1>1, <1>3, <2>1, <2>3, HoldingTypes
      <3>2. QED
        BY <2>t, <2>3, <3>1
    <2>4. QED
      BY <2>2, <2>3
  <1>9. TypeOK'
    <2>1. raced' \subseteq DOMAIN sets' /\ spoilt' \subseteq DOMAIN sets'
      BY <1>1, <1>3 DEF TypeOK
    <2>2. QED
      BY <1>1, <1>2, <1>3, <1>7, <1>8, <2>1 DEF TypeOK, Entry
  <1>10. \A h \in Loop : run[h].at \in {"held", "inside"} => run[h].set \in 1 .. Len(sets)
    BY <1>1, <1>3, DoingShape
  <1>11. Owned'
    <2>1. \A k, j \in Key : db'[k].kind = "zset" /\ db'[j].set = db'[k].set => j = k
      BY <1>1, <1>i DEF Owned
    <2>2. ASSUME NEW h \in Loop, run'[h].at \in {"held", "inside"}
          PROVE  /\ run'[h].cmd.op \in {"zadd", "zincrby", "zrem"} /\ ~IsBad(run'[h].cmd)
                 /\ \A k \in Key : db'[k].set = run'[h].set => run'[h].cmd.key = k
      <3>1. CASE h = l
        <4>1. ~IsBad(c) /\ run'[h] = d
          BY <1>8, <2>2, <3>1
        <4>2. QED
          BY <1>1, <1>i, <4>1
      <3>2. CASE h # l
        <4>1. run'[h] = run[h] /\ run[h].set # new
          BY <1>3, <1>8, <1>10, <2>2, <3>2
        <4>2. QED
          BY <1>1, <1>i, <2>2, <4>1 DEF Owned
      <3>3. QED
        BY <3>1, <3>2
    <2>3. QED
      BY <2>1, <2>2 DEF Owned
  <1>12. Attended'
    <2> SUFFICES ASSUME NEW k \in Key, db'[k].kind = "zset", sets'[db'[k].set] = NoMember
                 PROVE  \/ db'[k].set \in raced' \cup spoilt'
                        \/ \E h \in Loop : run'[h].cmd.key = k /\ Attends(h, k, db[k].set)'
      BY DEF Attended, NoMember
    <2>1. CASE k = c.key /\ IsBad(c)
      BY <1>1, <1>i, <2>1
    <2>2. CASE k = c.key /\ ~IsBad(c)
      <3>1. run'[l] = d /\ db'[k].set = new /\ c.op # "zrem"
        BY <1>1, <1>i, <1>8, <2>2
      <3>2. run'[l].cmd.key = k /\ Attends(l, k, db[k].set)'
        BY <2>2, <3>1 DEF Attends
      <3>3. QED
        BY <3>2
    <2>3. CASE k # c.key
      <3>1. db'[k] = db[k] /\ db[k].set \in DOMAIN sets
        <4>1. /\ db[k].kind = "zset" <=> db[k].set # 0
              /\ db[k].set \in 0 .. Len(sets)
          BY <1>4
        <4>2. db'[k] = db[k]
          BY <1>5, <2>3
        <4>3. QED
          BY <1>3, <4>1, <4>2
      <3>e. sets[db[k].set] = NoMember
        BY <1>3, <3>1
      <3>2. CASE db[k].set \in raced \cup spoilt
        BY <1>1, <3>1, <3>2
      <3>3. CASE \E h \in Loop : run[h].cmd.key = k /\ Attends(h, k, db[k].set)
        <4>1. PICK h \in Loop : run[h].cmd.key = k /\ Attends(h, k, db[k].set)
          BY <3>3
        <4>2. h # l /\ run'[h] = run[h]
          BY <1>2, <1>8, <4>1 DEF Attends
        <4>3. QED
          BY <3>1, <4>1, <4>2 DEF Attends
      <3>4. QED
        BY <1>1, <3>1, <3>e, <3>2, <3>3 DEF Attended
    <2>4. QED
      BY <2>1, <2>2, <2>3
  <1>13. QED
    BY <1>9, <1>11, <1>12 DEF CommandsInv

\* A loop takes a reference to the set its key has.
LEMMA Held ==
  ASSUME CommandsInv, NEW l \in Loop, NEW c \in Command,
         run[l].at = "idle", c.key \in Key, c.op \in {"zadd", "zincrby", "zrem"}, ~IsBad(c),
         db[c.key].kind = "zset", Holding(l, c, db[c.key].set),
         UNCHANGED <<db, sets, raced, spoilt>>
  PROVE  run' \in [Loop -> Doing'] /\ Owned' /\ Attended'
  <1> DEFINE d == [at |-> "held", cmd |-> c, set |-> db[c.key].set]
  <1>1. TypeOK /\ Owned /\ Attended
    BY DEF CommandsInv
  <1>2. db[c.key].set \in 1 .. Len(sets) /\ DOMAIN sets = 1 .. Len(sets)
    BY <1>1, LenProperties DEF TypeOK
  <1>3. Doing' = Doing
    BY DEF Doing
  <1>4. run' \in [Loop -> Doing'] /\ run' = [run EXCEPT ![l] = d]
    BY <1>1, <1>2, <1>3, HoldingTypes
  <1>5. run'[l] = d /\ \A h \in Loop : h # l => run'[h] = run[h]
    BY <1>1, <1>4 DEF TypeOK
  <1>6. \A k \in Key : db[k].set = db[c.key].set => c.key = k
    BY <1>1 DEF Owned
  <1>7. Owned'
    BY <1>1, <1>5, <1>6 DEF Owned
  <1>8. Attended'
    <2>1. ASSUME NEW k \in Key, NEW h \in Loop, run[h].cmd.key = k, Attends(h, k, db[k].set)
          PROVE  run'[h].cmd.key = k /\ Attends(h, k, db[k].set)'
      BY <1>5, <2>1 DEF Attends
    <2>2. QED
      BY <1>1, <2>1 DEF Attended, NoMember
  <1>9. QED
    BY <1>4, <1>7, <1>8

LEMMA AcquireStep ==
  ASSUME CommandsInv, NEW l \in Loop, NEW c \in Command,
         \/ Acquire(l, c)
         \/ AcquireOrCreate(l, c) /\ db[c.key].kind # "none"
  PROVE  CommandsInv'
  <1>1. /\ TypeOK /\ Begun(l, c) /\ UNCHANGED <<db, sets, log, raced, spoilt>>
        /\ c.op \in {"zadd", "zincrby", "zrem"}
        /\ \/ UNCHANGED run
           \/ db[c.key].kind = "zset" /\ ~IsBad(c) /\ Holding(l, c, db[c.key].set)
    BY DEF CommandsInv, Acquire, AcquireOrCreate, IsBad
  <1>2. /\ run[l].at = "idle" /\ c.key \in Key
        /\ count' \in 0 .. MaxCommands /\ crossed' \subseteq Key
    BY <1>1, BegunTypes
  <1>3. run' \in [Loop -> Doing'] /\ Owned' /\ Attended'
    <2>1. CASE UNCHANGED run
      BY <1>1, <2>1, Refused DEF TypeOK, Doing
    <2>2. CASE ~UNCHANGED run
      BY <1>1, <1>2, <2>2, Held
    <2>3. QED
      BY <2>1, <2>2
  <1>4. TypeOK'
    BY <1>1, <1>2, <1>3 DEF TypeOK
  <1>5. QED
    BY <1>3, <1>4 DEF CommandsInv

-----------------------------------------------------------------------------
LEMMA EnterStep ==
  ASSUME CommandsInv, NEW l \in Loop, Enter(l)
  PROVE  CommandsInv'
  <1>1. /\ TypeOK /\ Owned /\ Attended
        /\ run[l].at = "held" /\ run' = [run EXCEPT ![l].at = "inside"]
        /\ UNCHANGED <<db, sets, log, count, crossed, spoilt>>
        /\ raced' \in {raced, raced \cup {run[l].set}}
    BY DEF CommandsInv, Enter
  <1>2. run[l] \in [at : {"held", "inside"}, cmd : Command, set : DOMAIN sets]
    BY <1>1 DEF TypeOK, Doing
  <1>3. /\ run'[l].at = "inside" /\ run'[l].cmd = run[l].cmd /\ run'[l].set = run[l].set
        /\ \A h \in Loop : h # l => run'[h] = run[h]
    BY <1>1, <1>2 DEF TypeOK
  <1>4. run'[l] \in [at : {"held", "inside"}, cmd : Command, set : DOMAIN sets]
    BY <1>1, <1>2 DEF TypeOK
  <1>5. Doing' = Doing
    BY <1>1 DEF Doing
  <1>6. run' \in [Loop -> Doing']
    <2>1. run'[l] \in Doing
      BY <1>4 DEF Doing
    <2>2. QED
      BY <1>1, <1>5, <2>1 DEF TypeOK
  <1>7. TypeOK'
    BY <1>1, <1>2, <1>6 DEF TypeOK
  <1>8. Owned'
    BY <1>1, <1>3 DEF Owned
  <1>9. Attended'
    <2>1. ASSUME NEW k \in Key, NEW h \in Loop, run[h].cmd.key = k, Attends(h, k, db[k].set)
          PROVE  run'[h].cmd.key = k /\ Attends(h, k, db[k].set)'
      BY <1>1, <1>3, <2>1 DEF Attends
    <2>2. QED
      BY <1>1, <2>1 DEF Attended, NoMember
  <1>10. QED
    BY <1>7, <1>8, <1>9 DEF CommandsInv

\* Where a loop goes when it has at most its records left to append.
LEMMA DoneTypes ==
  ASSUME NEW c \in Command, NEW todo \in Seq(Request)
  PROVE  Done(todo, c) \in Doing /\ Done(todo, c).at \in {"idle", "log"}
  BY DEF Done, Doing, Idle

\* A loop is done with a set and leaves no key it attended to.
LEMMA WentOn ==
  ASSUME CommandsInv, NEW l \in Loop, NEW d \in Doing, d.at \in {"idle", "log"},
         run' = [run EXCEPT ![l] = d],
         \A k \in Key :
             /\ db'[k] = db[k] \/ db'[k] = None
             /\ db'[k].kind = "zset" /\ sets[db'[k].set] = NoMember
                    => ~(run[l].cmd.key = k /\ Attends(l, k, db[k].set)),
         UNCHANGED <<sets, raced, spoilt>>
  PROVE  run' \in [Loop -> Doing'] /\ Owned' /\ Attended'
  <1>1. TypeOK /\ Owned /\ Attended
    BY DEF CommandsInv
  <1>2. run'[l] = d /\ \A h \in Loop : h # l => run'[h] = run[h]
    BY <1>1 DEF TypeOK
  <1>3. run' \in [Loop -> Doing']
    <2>1. Doing' = Doing
      BY DEF Doing
    <2>2. QED
      BY <1>1, <2>1 DEF TypeOK
  <1>4. /\ \A k \in Key : db[k].kind = "zset" <=> db[k].set # 0
        /\ \A h \in Loop : run[h].at \in {"held", "inside"} => run[h].set # 0
    BY <1>1, DoingShape DEF TypeOK
  <1>5. None.kind = "none" /\ None.set = 0
    BY DEF None
  <1>6. Owned'
    BY <1>1, <1>2, <1>4, <1>5 DEF Owned
  <1>7. Attended'
    <2> SUFFICES ASSUME NEW k \in Key, db'[k].kind = "zset", sets[db'[k].set] = NoMember
                 PROVE  \/ db'[k].set \in raced \cup spoilt
                        \/ \E h \in Loop : run'[h].cmd.key = k /\ Attends(h, k, db[k].set)'
      BY DEF Attended, NoMember
    <2>1. db'[k] = db[k]
      BY <1>5
    <2>2. CASE db[k].set \in raced \cup spoilt
      BY <2>1, <2>2
    <2>3. CASE \E h \in Loop : run[h].cmd.key = k /\ Attends(h, k, db[k].set)
      <3>1. PICK h \in Loop : run[h].cmd.key = k /\ Attends(h, k, db[k].set)
        BY <2>3
      <3>2. h # l
        BY <3>1
      <3>3. QED
        BY <1>2, <2>1, <3>1, <3>2 DEF Attends
    <2>4. QED
      BY <1>1, <2>1, <2>2, <2>3 DEF Attended
  <1>8. QED
    BY <1>3, <1>6, <1>7

\* The change of a set: what it becomes, and what the loop does next.
LEMMA LeaveShape ==
  ASSUME CommandsInv, NEW l \in Loop, Leave(l)
  PROVE  LET c == run[l].cmd
             i == run[l].set
         IN  /\ c \in Command /\ i \in DOMAIN sets
             /\ c.op \in {"zadd", "zincrby", "zrem"} /\ ~IsBad(c)
             /\ run[l].at = "inside"
             /\ sets' \in Seq([Member -> Nat]) /\ Len(sets') = Len(sets)
             /\ DOMAIN sets' = DOMAIN sets
             /\ \A j \in DOMAIN sets : j # i => sets'[j] = sets[j]
             /\ i \notin raced => sets'[i] = Changed(sets[i], c)
             /\ run'[l].cmd = c
             /\ run'[l].at = IF c.op = "zrem" THEN "removed" ELSE "log"
             /\ run'[l] \in Doing
             /\ \A h \in Loop : h # l => run'[h] = run[h]
  <1> DEFINE c == run[l].cmd
             i == run[l].set
             removes == c.op # "zrem" \/ \E m \in Members(c) : sets[i][m] # 0
             records == IF removes THEN Records(c) ELSE <<>>
             d == [at |-> IF c.op = "zrem" THEN "removed" ELSE "log",
                   cmd |-> c, todo |-> records]
  <1>1. TypeOK /\ Owned /\ run[l].at = "inside"
    BY DEF CommandsInv, Leave
  <1>2. c \in Command /\ i \in DOMAIN sets
    BY <1>1, DoingShape
  <1>3. c.op \in {"zadd", "zincrby", "zrem"} /\ ~IsBad(c)
    BY <1>1 DEF Owned
  <1>4. run' = [run EXCEPT ![l] = d]
    BY DEF Leave
  <1>5. \/ sets' = [sets EXCEPT ![i] = Changed(sets[i], c)]
        \/ i \in raced /\ (sets' = [sets EXCEPT ![i] = sets[i]]
                             \/ sets' = [sets EXCEPT ![i] = NoMember])
    BY DEF Leave
  <1>6. /\ sets \in Seq([Member -> Nat]) /\ sets[i] \in [Member -> Nat]
        /\ Changed(sets[i], c) \in [Member -> Nat] /\ NoMember \in [Member -> Nat]
    BY <1>1, <1>2, <1>3, ChangedRight, ElementOfSeq, LenProperties DEF TypeOK, NoMember
  <1>7. PICK z \in [Member -> Nat] : /\ sets' = [sets EXCEPT ![i] = z]
                                     /\ i \notin raced => z = Changed(sets[i], c)
    BY <1>5, <1>6
  <1>8. /\ sets' \in Seq([Member -> Nat]) /\ Len(sets') = Len(sets)
        /\ DOMAIN sets' = DOMAIN sets
        /\ \A j \in DOMAIN sets : j # i => sets'[j] = sets[j]
        /\ sets'[i] = z
    BY <1>2, <1>6, <1>7, ExceptSeq
  <1>9. d \in Doing
    <2>1. records \in Seq(Request) /\ (c.op # "zrem" => records # <<>>)
      BY <1>2, RecordsRight, EmptySeq
    <2>2. QED
      BY <1>2, <2>1 DEF Doing
  <1>10. run'[l] = d /\ \A h \in Loop : h # l => run'[h] = run[h]
    BY <1>1, <1>4 DEF TypeOK
  <1>11. QED
    BY <1>1, <1>2, <1>3, <1>7, <1>8, <1>9, <1>10

LEMMA LeaveStep ==
  ASSUME CommandsInv, NEW l \in Loop, Leave(l)
  PROVE  CommandsInv'
  <1> DEFINE c == run[l].cmd
             i == run[l].set
  <1>1. /\ TypeOK /\ Owned /\ Attended
        /\ UNCHANGED <<db, log, count, crossed, raced, spoilt>>
        /\ run' = [run EXCEPT ![l] = run'[l]]
    BY DEF CommandsInv, Leave, history, TypeOK
  <1>2. /\ c \in Command /\ i \in DOMAIN sets
        /\ c.op \in {"zadd", "zincrby", "zrem"} /\ ~IsBad(c)
        /\ run[l].at = "inside"
        /\ sets' \in Seq([Member -> Nat]) /\ Len(sets') = Len(sets)
        /\ DOMAIN sets' = DOMAIN sets
        /\ \A j \in DOMAIN sets : j # i => sets'[j] = sets[j]
        /\ i \notin raced => sets'[i] = Changed(sets[i], c)
        /\ run'[l].cmd = c
        /\ run'[l].at = IF c.op = "zrem" THEN "removed" ELSE "log"
        /\ run'[l] \in Doing
        /\ \A h \in Loop : h # l => run'[h] = run[h]
    BY LeaveShape
  <1>3. TypeOK'
    <2>1. Doing' = Doing
      BY <1>2 DEF Doing
    <2>2. run' \in [Loop -> Doing']
      BY <1>1, <1>2, <2>1 DEF TypeOK
    <2>3. QED
      BY <1>1, <1>2, <2>2 DEF TypeOK
  <1>4. Owned'
    BY <1>1, <1>2 DEF Owned
  <1>5. Attended'
    <2> SUFFICES ASSUME NEW k \in Key, db[k].kind = "zset", sets'[db[k].set] = NoMember
                 PROVE  \/ db[k].set \in raced \cup spoilt
                        \/ \E h \in Loop : run'[h].cmd.key = k /\ Attends(h, k, db[k].set)'
      BY <1>1 DEF Attended, NoMember
    <2>1. db[k].set \in DOMAIN sets
      BY <1>1, LenProperties DEF TypeOK
    <2>2. CASE db[k].set # i
      <3>1. \/ db[k].set \in raced \cup spoilt
            \/ \E h \in Loop : run[h].cmd.key = k /\ Attends(h, k, db[k].set)
        BY <1>1, <1>2, <2>1, <2>2 DEF Attended
      <3>2. ASSUME NEW h \in Loop, run[h].cmd.key = k, Attends(h, k, db[k].set)
            PROVE  run'[h].cmd.key = k /\ Attends(h, k, db[k].set)'
        <4>1. h # l
          BY <1>2, <2>2, <3>2 DEF Attends
        <4>2. QED
          BY <1>1, <1>2, <3>2, <4>1 DEF Attends
      <3>3. QED
        BY <3>1, <3>2
    <2>3. CASE db[k].set = i
      <3>1. c.key = k
        BY <1>1, <1>2, <2>3 DEF Owned
      <3>2. CASE i \in raced
        BY <2>3, <3>2
      <3>3. CASE i \notin raced
        <4>1. sets[i] \in [Member -> Nat]
          BY <1>1, <1>2, ElementOfSeq, LenProperties DEF TypeOK
        <4>2. c.op = "zrem"
          BY <1>2, <2>3, <3>3, <4>1, ChangedFills
        <4>3. run'[l].cmd.key = k /\ Attends(l, k, db[k].set)'
          BY <1>2, <3>1, <4>2 DEF Attends
        <4>4. QED
          BY <4>3
      <3>4. QED
        BY <3>2, <3>3
    <2>4. QED
      BY <2>2, <2>3
  <1>6. QED
    BY <1>3, <1>4, <1>5 DEF CommandsInv

LEMMA RemoveIfEmptyStep ==
  ASSUME CommandsInv, NEW l \in Loop, RemoveIfEmptyZSet(l)
  PROVE  CommandsInv'
  <1> DEFINE key == run[l].cmd.key
             empty == db[key].kind = "zset" /\ sets[db[key].set] = NoMember
             d == Done(run[l].todo, run[l].cmd)
  <1>1. /\ TypeOK /\ run[l].at = "removed"
        /\ db' = IF empty THEN [db EXCEPT ![key] = None] ELSE db
        /\ run' = [run EXCEPT ![l] = d]
        /\ UNCHANGED <<sets, log, count, crossed, raced, spoilt>>
    BY DEF CommandsInv, RemoveIfEmptyZSet, history
  <1>2. run[l].cmd \in Command /\ run[l].todo \in Seq(Request)
    BY <1>1, DoingShape
  <1>3. d \in Doing /\ d.at \in {"idle", "log"}
    BY <1>2, DoneTypes
  <1>4. key \in Key
    BY <1>2, CommandShape DEF Request
  <1>5. None \in Entry(Len(sets)) /\ None.kind = "none" /\ None.set = 0
    BY <1>1, LenProperties DEF None, Entry, TypeOK
  <1>6. /\ db' \in [Key -> Entry(Len(sets))]
        /\ \A k \in Key : db'[k].kind = "zset" <=> db'[k].set # 0
        /\ \A k \in Key : db'[k] = db[k] \/ db'[k] = None
    BY <1>1, <1>4, <1>5 DEF TypeOK, Entry
  <1>7. ~(db'[key].kind = "zset" /\ sets[db'[key].set] = NoMember)
    BY <1>1, <1>4, <1>5 DEF TypeOK
  <1>8. run' \in [Loop -> Doing'] /\ Owned' /\ Attended'
    <2>1. ASSUME NEW k \in Key, db'[k].kind = "zset", sets[db'[k].set] = NoMember
          PROVE  key # k
      BY <1>7, <2>1
    <2>2. QED
      BY <1>1, <1>3, <1>6, <2>1, WentOn
  <1>9. TypeOK'
    BY <1>1, <1>6, <1>8 DEF TypeOK, Entry
  <1>10. QED
    BY <1>8, <1>9 DEF CommandsInv

LEMMA LogStep ==
  ASSUME CommandsInv, NEW l \in Loop, Log(l)
  PROVE  CommandsInv'
  <1> DEFINE d == Done(Tail(run[l].todo), run[l].cmd)
  <1>1. /\ TypeOK /\ run[l].at = "log"
        /\ run' = [run EXCEPT ![l] = d]
        /\ log' = Append(log, Head(run[l].todo))
        /\ UNCHANGED <<db, sets, count, crossed, raced, spoilt>>
    BY DEF CommandsInv, Log, history
  <1>2. run[l].cmd \in Command /\ run[l].todo \in Seq(Request) /\ run[l].todo # <<>>
    BY <1>1, DoingShape
  <1>3. Head(run[l].todo) \in Request /\ Tail(run[l].todo) \in Seq(Request)
    BY <1>2, HeadTailProperties
  <1>4. d \in Doing /\ d.at \in {"idle", "log"}
    BY <1>2, <1>3, DoneTypes
  <1>5. \A k \in Key : ~Attends(l, k, db[k].set)
    BY <1>1 DEF Attends
  <1>6. run' \in [Loop -> Doing'] /\ Owned' /\ Attended'
    BY <1>1, <1>4, <1>5, WentOn
  <1>7. log' \in Seq(Request)
    BY <1>1, <1>3, AppendProperties DEF TypeOK
  <1>8. TypeOK'
    BY <1>1, <1>6, <1>7 DEF TypeOK
  <1>9. QED
    BY <1>6, <1>8 DEF CommandsInv

-----------------------------------------------------------------------------
LEMMA CommandsInit == Init => CommandsInv
  <1> SUFFICES ASSUME Init PROVE CommandsInv
    OBVIOUS
  <1>1. /\ sets = <<>> /\ sets \in Seq([Member -> Nat]) /\ log \in Seq(Request)
        /\ Len(sets) = 0
    BY EmptySeq DEF Init
  <1>2. 0 \in 0 .. MaxCommands
    BY CommandAssumption DEF CommandAssumption
  <1>3. Idle \in Doing
    BY DEF Idle, Doing
  <1>4. TypeOK
    BY <1>1, <1>2, <1>3 DEF Init, TypeOK, None
  <1>5. Owned /\ Attended
    BY DEF Init, Owned, Attended, None, Idle
  <1>6. QED
    BY <1>4, <1>5 DEF CommandsInv

LEMMA CommandsStep == CommandsInv /\ [Next]_vars => CommandsInv'
  <1> SUFFICES ASSUME CommandsInv, [Next]_vars PROVE CommandsInv'
    OBVIOUS
  <1>1. ASSUME NEW l \in Loop, NEW c \in Command, Execute(l, c) PROVE CommandsInv'
    BY <1>1, SetStep, DelStep, IncrByStep, CreateStep, AcquireStep DEF Execute
  <1>2. ASSUME NEW l \in Loop, Enter(l) \/ Leave(l) \/ RemoveIfEmptyZSet(l) \/ Log(l)
        PROVE  CommandsInv'
    BY <1>2, EnterStep, LeaveStep, RemoveIfEmptyStep, LogStep
  <1>3. CASE UNCHANGED vars
    <2>1. TypeOK'
      BY <1>3 DEF CommandsInv, TypeOK, Doing, vars, history
    <2>2. QED
      BY <1>3, <2>1, Refused DEF CommandsInv, vars, history
  <1>4. QED
    BY <1>1, <1>2, <1>3 DEF Next

\* What CommandsInv says of every reachable state.
THEOREM CommandsInvariant == Spec => []CommandsInv
  BY CommandsInit, CommandsStep, PTL DEF Spec

\* The variables keep their types, for any loops, keys, members and commands.
THEOREM CommandsTypeCorrect == Spec => []TypeOK
  <1>1. CommandsInv => TypeOK
    BY DEF CommandsInv
  <1>2. QED
    BY <1>1, CommandsInvariant, PTL

\* However commands overlap (ZADD, ZREM and DEL of command.cpp:602-941), no
\* answered command leaves a key with an empty set, but for a ZADD whose score
\* was refused and a race on the set.
THEOREM CommandsNoEmptySet == Spec => []NoEmptySet
  <1>1. CommandsInv => NoEmptySet
    <2> SUFFICES ASSUME CommandsInv, NEW k \in Key, Quiet(k), db[k].kind = "zset",
                        sets[db[k].set] = NoMember
                 PROVE  db[k].set \in raced \cup spoilt
      BY DEF NoEmptySet
    <2>1. \A l \in Loop : run[l].cmd.key = k => ~Attends(l, k, db[k].set)
      BY DEF Attends, Quiet, Running
    <2>2. QED
      BY <2>1 DEF CommandsInv, Attended
  <1>2. QED
    BY <1>1, CommandsInvariant, PTL

-----------------------------------------------------------------------------
(***************************************************************************)
(* Why KeyLogRight holds.  Between the change of a key and the record of   *)
(* it in the log, the loop owes the log that record; Settled says how the  *)
(* content of a key differs from what the log makes of it, by what is      *)
(* still owed.                                                             *)
(***************************************************************************)

Works(l, k) == Running(l) /\ run[l].cmd.key = k
Todo(l) == IF run[l].at \in {"log", "removed"} THEN run[l].todo ELSE <<>>
Owing(l, k) == Works(l, k) /\ Todo(l) # <<>>
Owes(l, k, op) == Owing(l, k) /\ run[l].cmd.op = op
Owed(k, op) == \E l \in Loop : Owes(l, k, op)

\* The sum of the values of a function of the loops.
Total(f) == Cardinality(UNION {{l} \X (1 .. f[l]) : l \in Loop})

\* What the INCRBY still owed add to the key, those that count up and those that
\* count down, and the ZINCRBY to a member.
Ups(k) == [l \in Loop |-> IF Owes(l, k, "incrby") /\ run[l].cmd.val[1] >= 0
                          THEN run[l].cmd.val[1] ELSE 0]
Downs(k) == [l \in Loop |-> IF Owes(l, k, "incrby") /\ run[l].cmd.val[1] < 0
                            THEN -run[l].cmd.val[1] ELSE 0]
Added(k) == Total(Ups(k)) - Total(Downs(k))
ZIncs(k, m) ==
    [l \in Loop |-> IF Owes(l, k, "zincrby") /\ m \in Members(run[l].cmd)
                    THEN run[l].cmd.val[1] ELSE 0]

\* A ZADD still owed gives the member score x, a ZREM removes it.
Scores(l, k, m, x) ==
    /\ Owes(l, k, "zadd")
    /\ \E i \in DOMAIN Todo(l) : Todo(l)[i].arg = <<m>> /\ Todo(l)[i].val = <<x>>
Removes(l, k, m) == Owes(l, k, "zrem") /\ m \in Members(run[l].cmd)

MemberSettled(k, m, old, new) ==
    \/ \E l \in Loop : Scores(l, k, m, new)
    \/ new = 0 /\ \E l \in Loop : Removes(l, k, m)
    \/ /\ \A l \in Loop : ~Removes(l, k, m) /\ \A x \in Nat : ~Scores(l, k, m, x)
       /\ new = old + Total(ZIncs(k, m))

OfSets == {"zadd", "zincrby", "zrem"}

\* C is the content of key k, e what the log makes of it.
Deleted(k, C) == Owed(k, "del") /\ C = Absent
Overset(k, C) == \E l \in Loop : Owes(l, k, "set") /\ C = <<"string", run[l].cmd.val[1], NoMember>>
\* Whatever the order of the INCRBY still owed, none goes past a limit.
Within(k, v) ==
    Owed(k, "incrby") => v + Total(Ups(k)) <= MaxInt /\ MinInt <= v - Total(Downs(k))
Counted(k, e, C) ==
    /\ ~Owed(k, "del") /\ ~Owed(k, "set")
    /\ C = <<"string", e[2] + Added(k), NoMember>> /\ Within(k, e[2])
    /\ \/ e[1] = "string"
       \/ e = Absent /\ Owed(k, "incrby") /\ \A l \in Loop : Works(l, k) => run[l].cmd.op \notin OfSets
Gathered(k, e, C) ==
    /\ ~Owed(k, "del") /\ ~Owed(k, "set") /\ ~Owed(k, "incrby")
    /\ C[1] # "string" /\ e[1] # "string"
    /\ \A m \in Member : MemberSettled(k, m, e[3][m], C[3][m])

Settled(k, e, C) ==
    Deleted(k, C) \/ Overset(k, C) \/ Counted(k, e, C) \/ Gathered(k, e, C)

\* Nothing overlapped on key k that does not commute.
Free(k) == k \notin crossed /\ raced = {}

Compatible ==
    \A k \in Key : Free(k) =>
        \A l, h \in Loop : l # h /\ Works(l, k) /\ Works(h, k) => Commute(run[l].cmd, run[h].cmd)

HandlingAt(k) ==
    \A l \in Loop : Works(l, k) =>
        /\ run[l].cmd.op \in {"zadd", "zincrby"} => db[k].kind # "none"
        /\ run[l].at \in {"held", "inside"} /\ db[k].kind = "zset" => db[k].set = run[l].set

MeantAt(k) == \A e, C : e = Replayed(k) /\ C = Content(k) => Settled(k, e, C)

\* What a loop has left to log is the end of what its command logs.
Ending(t, r) == Len(t) <= Len(r) /\ \A i \in DOMAIN t : t[i] = r[Len(r) - Len(t) + i]

Placed ==
    \A l \in Loop :
        /\ run[l].at \in {"log", "removed"} => Ending(run[l].todo, Records(run[l].cmd))
        /\ run[l].at = "removed" => run[l].cmd.op = "zrem"

\* A content: nothing, a number, or a set that is not empty.
Whole(e) ==
    \/ e = Absent
    \/ \E v \in Int : e = <<"string", v, NoMember>>
    \/ \E z \in [Member -> Nat] : z # NoMember /\ e = <<"zset", 0, z>>

Logged ==
    \A k \in Key :
        /\ db[k].kind # "string" => db[k].val = 0
        /\ Whole(Replayed(k))

KeyInv ==
    /\ Compatible /\ Placed /\ Logged
    /\ \A k \in Key : Free(k) => HandlingAt(k) /\ MeantAt(k)

-----------------------------------------------------------------------------
(* Sums. *)

LEMMA TotalFinite ==
  ASSUME NEW f \in [Loop -> Nat]
  PROVE  /\ IsFiniteSet(UNION {{l} \X (1 .. f[l]) : l \in Loop})
         /\ Total(f) \in Nat
  <1> DEFINE g == [l \in Loop |-> {l} \X (1 .. f[l])]
             S == {{l} \X (1 .. f[l]) : l \in Loop}
  <1>1. IsFiniteSet(Loop)
    BY CommandAssumption DEF CommandAssumption
  <1>2. g \in Surjection(Loop, S)
    BY DEF Surjection
  <1>3. IsFiniteSet(S)
    <2> HIDE DEF g, S
    <2>1. QED
      BY <1>1, <1>2, FS_Surjection
  <1>4. ASSUME NEW l \in Loop PROVE IsFiniteSet({l} \X (1 .. f[l]))
    <2>1. IsFiniteSet(1 .. f[l])
      BY FS_Interval
    <2>2. IsFiniteSet({l})
      BY FS_Singleton
    <2>3. QED
      BY <2>1, <2>2, FS_Product
  <1>5. \A T \in S : IsFiniteSet(T)
    BY <1>4
  <1> HIDE DEF S
  <1>6. IsFiniteSet(UNION S)
    BY <1>3, <1>5, FS_UNION
  <1>7. QED
    BY <1>6, FS_CardinalityType DEF S, Total

\* The values but that of one loop, and that one.
LEMMA TotalSplits ==
  ASSUME NEW f \in [Loop -> Nat], NEW l \in Loop
  PROVE  /\ Total(f) = Total([f EXCEPT ![l] = 0]) + f[l]
         /\ Total([f EXCEPT ![l] = 0]) \in Nat
  <1> DEFINE g == [f EXCEPT ![l] = 0]
             n == f[l]
             F == UNION {{h} \X (1 .. f[h]) : h \in Loop}
             G == UNION {{h} \X (1 .. g[h]) : h \in Loop}
             new == {l} \X (1 .. n)
  <1>1. g \in [Loop -> Nat] /\ n \in Nat /\ g[l] = 0 /\ \A h \in Loop : h # l => g[h] = f[h]
    OBVIOUS
  <1> HIDE DEF g
  <1>2. IsFiniteSet(G) /\ Total(g) \in Nat
    BY <1>1, TotalFinite
  <1>3. F = G \cup new
    <2>1. ASSUME NEW x \in F PROVE x \in G \cup new
      <3>1. PICK h \in Loop : x \in {h} \X (1 .. f[h])
        OBVIOUS
      <3>2. CASE h = l
        BY <3>1, <3>2
      <3>3. CASE h # l
        BY <1>1, <3>1, <3>3
      <3>4. QED
        BY <3>2, <3>3
    <2>2. ASSUME NEW x \in G PROVE x \in F
      <3>1. PICK h \in Loop : x \in {h} \X (1 .. g[h])
        OBVIOUS
      <3>2. h # l
        BY <1>1, <3>1
      <3>3. QED
        BY <1>1, <3>1, <3>2
    <2>3. new \subseteq F
      OBVIOUS
    <2>4. QED
      BY <2>1, <2>2, <2>3
  <1>4. G \cap new = {}
    <2>1. ASSUME NEW x \in G, x \in new PROVE FALSE
      <3>1. PICK h \in Loop : x \in {h} \X (1 .. g[h])
        OBVIOUS
      <3>2. h = l
        BY <2>1, <3>1
      <3>3. QED
        BY <1>1, <3>1, <3>2
    <2>2. QED
      BY <2>1
  <1> HIDE DEF F, G, n
  <1>5. IsFiniteSet(new) /\ Cardinality(new) = n
    <2>1. IsFiniteSet({l}) /\ Cardinality({l}) = 1
      BY FS_Singleton
    <2>2. IsFiniteSet(1 .. n) /\ Cardinality(1 .. n) = n
      <3>1. 1 \in Int /\ n \in Int /\ (IF 1 > n THEN 0 ELSE n - 1 + 1) = n
        BY <1>1
      <3>2. QED
        BY <3>1, FS_Interval
    <2>3. IsFiniteSet(new) /\ Cardinality(new) = Cardinality({l}) * Cardinality(1 .. n)
      BY <2>1, <2>2, FS_Product
    <2>4. QED
      BY <1>1, <2>1, <2>2, <2>3
  <1> HIDE DEF new
  <1>6. Cardinality(F) = Cardinality(G) + n
    <2>1. Cardinality(G \cap new) = 0
      BY <1>4, FS_EmptySet
    <2>2. Cardinality(G \cup new) = Cardinality(G) + Cardinality(new) - Cardinality(G \cap new)
      BY <1>2, <1>5, FS_Union
    <2>3. Cardinality(G) \in Nat
      BY <1>2 DEF Total, G
    <2>4. QED
      BY <1>1, <1>3, <1>5, <2>1, <2>2, <2>3
  <1>7. Total(f) = Cardinality(F) /\ Total(g) = Cardinality(G)
    BY DEF Total, F, G
  <1>8. QED
    BY <1>2, <1>6, <1>7 DEF n, g

\* One loop has another value.
LEMMA TotalMoves ==
  ASSUME NEW f \in [Loop -> Nat], NEW g \in [Loop -> Nat], NEW l \in Loop,
         \A h \in Loop : h # l => g[h] = f[h]
  PROVE  Total(g) + f[l] = Total(f) + g[l] /\ Total(f) \in Nat /\ Total(g) \in Nat
  <1>1. [f EXCEPT ![l] = 0] = [g EXCEPT ![l] = 0]
    OBVIOUS
  <1>2. /\ Total(f) = Total([f EXCEPT ![l] = 0]) + f[l]
        /\ Total([f EXCEPT ![l] = 0]) \in Nat
    BY TotalSplits
  <1>3. Total(g) = Total([g EXCEPT ![l] = 0]) + g[l]
    BY TotalSplits
  <1>4. f[l] \in Nat /\ g[l] \in Nat
    OBVIOUS
  <1>5. QED
    BY <1>1, <1>2, <1>3, <1>4

LEMMA TotalNone ==
  ASSUME NEW f \in [Loop -> Nat], \A l \in Loop : f[l] = 0
  PROVE  Total(f) = 0
  <1>1. UNION {{l} \X (1 .. f[l]) : l \in Loop} = {}
    <2>1. \A l \in Loop : {l} \X (1 .. f[l]) = {}
      OBVIOUS
    <2>2. QED
      BY <2>1
  <1>2. QED
    BY <1>1, FS_EmptySet DEF Total

-----------------------------------------------------------------------------
(* The recursion along the log. *)

\* A set of naturals that is not empty has a least member.
LEMMA LeastNat ==
  ASSUME NEW T \in SUBSET Nat, T # {}
  PROVE  \E x \in T : \A y \in T : x <= y
  <1> DEFINE R == OpToRel(<, Nat)
  <1>1. IsWellFoundedOn(R, Nat)
    BY NatLessThanWellFounded, Zenon
  <1>2. \A x, y : <<y, x>> \in R <=> y \in Nat /\ x \in Nat /\ y < x
    BY Zenon DEF OpToRel
  <1> HIDE DEF R
  <1>3. PICK x \in T : \A y \in T : ~(<<y, x>> \in R)
    BY <1>1, WFMin, Zenon
  <1>4. \A y \in T : ~(y < x)
    BY <1>2, <1>3
  <1>5. QED
    BY <1>4

\* Key k after n of the records s, given it after fewer.
After(k, s, f, n) ==
    IF n = 0 THEN Absent
    ELSE IF s[n].key = k THEN Redo(f[n - 1], s[n]) ELSE f[n - 1]

\* Executed(k, s) is defined: it is filled in from the first record on.
LEMMA ExecutedUnfolds ==
  ASSUME NEW k, NEW S, NEW s \in Seq(S)
  PROVE  \A n \in 0 .. Len(s) : Executed(k, s)[n] = After(k, s, Executed(k, s), n)
  <1> DEFINE m == Len(s)
             Filled(g, i) == \A n \in 0 .. m : n <= i => g[n] = After(k, s, g, n)
             T == {j \in 0 .. m : \E g : g = [n \in 0 .. m |-> g[n]] /\ Filled(g, m - j)}
  <1>1. m \in Nat
    BY LenProperties
  <1> HIDE DEF m
  <1>2. m \in T
    <2> DEFINE g == [n \in 0 .. m |-> Absent]
    <2>1. g = [n \in 0 .. m |-> g[n]] /\ 0 \in 0 .. m /\ g[0] = Absent
      BY <1>1
    <2>2. Filled(g, m - m)
      <3> SUFFICES ASSUME NEW n \in 0 .. m, n <= m - m PROVE g[n] = After(k, s, g, n)
        OBVIOUS
      <3>1. n = 0
        BY <1>1
      <3>2. QED
        BY <2>1, <3>1 DEF After
    <2>3. QED
      BY <1>1, <2>1, <2>2
  <1>3. PICK j \in T : \A i \in T : j <= i
    <2>1. T \subseteq 0 .. m /\ T # {}
      BY <1>2, Zenon
    <2> HIDE DEF T
    <2>2. QED
      BY <1>1, <2>1, LeastNat
  <1>4. j = 0
    <2>1. SUFFICES ASSUME j # 0 PROVE FALSE
      OBVIOUS
    <2>2. PICK g : g = [n \in 0 .. m |-> g[n]] /\ Filled(g, m - j)
      BY <1>3
    <2> DEFINE i == m - j + 1
               h == [g EXCEPT ![i] = After(k, s, g, i)]
    <2>3. j \in 1 .. m /\ i \in 1 .. m
      BY <1>1, <1>3, <2>1
    <2> HIDE DEF i
    <2>4. \A n \in 0 .. m : n # i => h[n] = g[n]
      BY <2>2, <2>3
    <2>5. h[i] = After(k, s, g, i)
      BY <2>2, <2>3
    <2>6. h = [n \in 0 .. m |-> h[n]]
      BY <2>2
    <2> HIDE DEF h
    <2>7. ASSUME NEW n \in 0 .. m, n <= i PROVE h[n] = After(k, s, h, n)
      <3>1. After(k, s, h, n) = After(k, s, g, n)
        <4>1. CASE n = 0
          BY <4>1 DEF After
        <4>2. CASE n # 0
          <5>1. n - 1 \in 0 .. m /\ n - 1 # i
            BY <1>1, <2>3, <2>7, <4>2
          <5>2. QED
            BY <2>4, <5>1 DEF After
        <4>3. QED
          BY <4>1, <4>2
      <3>2. CASE n = i
        BY <2>5, <3>1, <3>2
      <3>3. CASE n # i
        <4>1. n <= m - j
          BY <1>1, <2>3, <2>7, <3>3 DEF i
        <4>2. QED
          BY <2>2, <2>4, <3>1, <3>3, <4>1
      <3>4. QED
        BY <3>2, <3>3
    <2>8. i = m - (j - 1)
      BY <1>1, <2>3 DEF i
    <2>9. j - 1 \in 0 .. m /\ Filled(h, m - (j - 1))
      BY <1>1, <2>3, <2>7, <2>8
    <2>10. j - 1 \in T
      BY <2>6, <2>9
    <2> HIDE DEF T
    <2>11. j <= j - 1
      BY <1>3, <2>10
    <2>12. QED
      BY <1>1, <2>3, <2>11
  <1>5. PICK g : g = [n \in 0 .. m |-> g[n]] /\ Filled(g, m - 0)
    BY <1>3, <1>4
  <1>6. g = [n \in 0 .. m |-> After(k, s, g, n)]
    <2>1. \A n \in 0 .. m : g[n] = After(k, s, g, n)
      BY <1>1, <1>5
    <2>2. QED
      BY <1>5, <2>1
  <1> DEFINE r == CHOOSE f : f = [n \in 0 .. m |-> After(k, s, f, n)]
  <1>7. r = [n \in 0 .. m |-> After(k, s, r, n)]
    BY <1>6, Zenon
  <1>8. Executed(k, s) = r
    BY Zenon DEF Executed, After, m
  <1>9. QED
    BY <1>7, <1>8 DEF m

\* A longer log begins as the shorter one does.
LEMMA ExecutedBegins ==
  ASSUME NEW k, NEW S, NEW s \in Seq(S), NEW e \in S
  PROVE  \A n \in 0 .. Len(s) : Executed(k, Append(s, e))[n] = Executed(k, s)[n]
  <1> DEFINE u == Append(s, e)
             f == Executed(k, s)
             g == Executed(k, u)
             T == {n \in 0 .. Len(s) : g[n] # f[n]}
  <1>1. /\ u \in Seq(S) /\ Len(u) = Len(s) + 1 /\ Len(s) \in Nat
        /\ \A i \in 1 .. Len(s) : u[i] = s[i]
    BY AppendProperties, LenProperties
  <1>2. \A n \in 0 .. Len(s) : f[n] = After(k, s, f, n)
    BY ExecutedUnfolds
  <1>3. \A n \in 0 .. Len(u) : g[n] = After(k, u, g, n)
    <2> HIDE DEF u
    <2>1. QED
      BY <1>1, ExecutedUnfolds
  <1> HIDE DEF f, g, u
  <1>4. ASSUME T # {} PROVE FALSE
    <2>1. PICK n \in T : \A m \in T : n <= m
      <3>1. T \in SUBSET Nat
        BY <1>1
      <3> HIDE DEF T
      <3>2. QED
        BY <1>4, <3>1, LeastNat
    <2>2. n \in 0 .. Len(s) /\ n \in 0 .. Len(u) /\ g[n] # f[n]
      BY <1>1, <2>1
    <2>3. f[n] = After(k, s, f, n) /\ g[n] = After(k, u, g, n)
      BY <1>2, <1>3, <2>2
    <2>4. n # 0
      BY <2>2, <2>3 DEF After
    <2>5. n - 1 \in 0 .. Len(s) /\ n - 1 \notin T /\ u[n] = s[n]
      BY <1>1, <2>1, <2>2, <2>4
    <2>6. g[n - 1] = f[n - 1]
      BY <2>5
    <2>7. QED
      BY <2>2, <2>3, <2>4, <2>5, <2>6 DEF After
  <1>5. QED
    BY <1>4 DEF f, g, u

\* A record of the key is redone last, another one changes nothing.
LEMMA ReplayedAppend ==
  ASSUME log \in Seq(Request), NEW r \in Request, NEW k, log' = Append(log, r)
  PROVE  Replayed(k)' = IF r.key = k THEN Redo(Replayed(k), r) ELSE Replayed(k)
  <1> DEFINE u == Append(log, r)
  <1>1. /\ u \in Seq(Request) /\ Len(u) = Len(log) + 1 /\ u[Len(u)] = r /\ Len(log) \in Nat
    BY AppendProperties, LenProperties
  <1>2. Executed(k, u)[Len(log)] = Executed(k, log)[Len(log)]
    BY <1>1, ExecutedBegins
  <1> HIDE DEF u
  <1>3. Len(u) \in 0 .. Len(u) /\ Len(u) # 0 /\ Len(u) - 1 = Len(log)
    BY <1>1
  <1>4. Executed(k, u)[Len(u)] = After(k, u, Executed(k, u), Len(u))
    BY <1>1, <1>3, ExecutedUnfolds
  <1>5. Executed(k, u)[Len(u)] = IF r.key = k THEN Redo(Executed(k, log)[Len(log)], r)
                                 ELSE Executed(k, log)[Len(log)]
    BY <1>1, <1>2, <1>3, <1>4 DEF After
  <1>6. log' = u
    BY DEF u
  <1>7. QED
    BY <1>5, <1>6 DEF Replayed

LEMMA ReplayedNothing ==
  ASSUME log = <<>>, NEW k
  PROVE  Replayed(k) = Absent
  <1>1. log \in Seq(Request) /\ Len(log) = 0
    BY EmptySeq
  <1>2. 0 \in 0 .. Len(log)
    BY <1>1
  <1>3. Executed(k, log)[0] = After(k, log, Executed(k, log), 0)
    BY <1>1, <1>2, ExecutedUnfolds
  <1>4. QED
    BY <1>1, <1>3 DEF After, Replayed

-----------------------------------------------------------------------------
(* Contents and records. *)

LEMMA NobodyType == NoMember \in [Member -> Nat]
  BY DEF NoMember

\* A content has a value or members, never both.
LEMMA WholeParts ==
  ASSUME NEW e, Whole(e)
  PROVE  /\ e[1] \in {"none", "string", "zset"} /\ e[2] \in Int /\ e[3] \in [Member -> Nat]
         /\ e[1] = "string" => e = <<"string", e[2], NoMember>>
         /\ e[1] # "string" => e[2] = 0 /\ e = Seen("zset", 0, e[3])
         /\ e[1] = "none" <=> e = Absent
         /\ e[1] # "zset" => e[3] = NoMember
  BY NobodyType DEF Whole, Seen, Absent

LEMMA NumberWhole ==
  ASSUME NEW v \in Int
  PROVE  Whole(<<"string", v, NoMember>>)
  BY DEF Whole

LEMMA SetWhole ==
  ASSUME NEW z \in [Member -> Nat]
  PROVE  /\ Whole(Seen("zset", 0, z)) /\ Seen("zset", 0, z)[3] = z
         /\ Seen("zset", 0, z)[1] # "string"
         /\ z = NoMember => Seen("zset", 0, z) = Absent
  BY NobodyType DEF Whole, Seen, Absent

LEMMA AbsentWhole ==
  /\ Whole(Absent) /\ Absent[1] = "none" /\ Absent[2] = 0 /\ Absent[3] = NoMember
  BY DEF Whole, Absent, Seen

\* Contents that are no number agree if their members do.
LEMMA SameMembers ==
  ASSUME NEW e, NEW d, Whole(e), Whole(d), e[1] # "string", d[1] # "string",
         \A m \in Member : e[3][m] = d[3][m]
  PROVE  e = d
  <1>1. e[3] = d[3]
    BY WholeParts
  <1>2. QED
    BY <1>1, WholeParts

\* The members of a set after a command.
LEMMA ChangedMembers ==
  ASSUME NEW c \in Command, NEW z \in [Member -> Nat], NEW m \in Member
  PROVE  /\ m \notin Members(c) => Changed(z, c)[m] = z[m]
         /\ m \in Members(c) /\ c.op = "zincrby" => Changed(z, c)[m] = z[m] + c.val[1]
         /\ m \in Members(c) /\ c.op = "zrem" => Changed(z, c)[m] = 0
         /\ c.op = "zadd" => \A i \in DOMAIN c.arg : c.arg[i] = m => Changed(z, c)[m] = c.val[i]
  <1>1. c.op = "zadd" => \A i \in DOMAIN c.arg : c.arg[i] = m => Changed(z, c)[m] = c.val[i]
    <2> SUFFICES ASSUME c.op = "zadd", NEW i \in DOMAIN c.arg, c.arg[i] = m
                 PROVE  Changed(z, c)[m] = c.val[i]
      OBVIOUS
    <2> DEFINE j == CHOOSE j \in DOMAIN c.arg : c.arg[j] = m
    <2>1. j \in DOMAIN c.arg /\ c.arg[j] = m
      OBVIOUS
    <2>2. j = i
      BY <2>1, CommandShape
    <2>3. m \in Members(c)
      BY DEF Members, ToSet
    <2>4. Changed(z, c)[m] = c.val[j]
      BY <2>3 DEF Changed
    <2>5. QED
      BY <2>2, <2>4
  <1>2. QED
    BY <1>1 DEF Changed

\* What a command logs.
LEMMA RecordsShape ==
  ASSUME NEW c \in Command
  PROVE  /\ c.op # "zadd" => Records(c) = <<c>> /\ Len(Records(c)) = 1
         /\ c.op = "zadd" =>
               /\ Len(Records(c)) = Len(c.arg) /\ DOMAIN Records(c) = DOMAIN c.arg
               /\ \A i \in DOMAIN c.arg :
                     /\ Records(c)[i].arg = <<c.arg[i]>> /\ Records(c)[i].val = <<c.val[i]>>
                     /\ c.arg[i] \in Member /\ c.val[i] \in Nat
         /\ \A i \in DOMAIN Records(c) :
               /\ Records(c)[i] \in Request
               /\ Records(c)[i].key = c.key /\ Records(c)[i].op = c.op
  <1>1. c \in Request /\ Records(c) \in Seq(Request) /\ DOMAIN Records(c) = 1 .. Len(Records(c))
    BY CommandShape, RecordsRight, LenProperties
  <1>2. CASE c.op # "zadd"
    BY <1>1, <1>2 DEF Records
  <1>3. CASE c.op = "zadd"
    <2>1. /\ c.arg \in Seq(Member) /\ c.val \in Seq(Nat) /\ Len(c.val) = Len(c.arg)
          /\ DOMAIN c.arg = 1 .. Len(c.arg) /\ DOMAIN c.val = 1 .. Len(c.arg)
          /\ Len(c.arg) \in Nat
      BY <1>1, <1>3, CommandShape, LenProperties DEF Request
    <2>2. ASSUME NEW i \in DOMAIN c.arg PROVE c.arg[i] \in Member /\ c.val[i] \in Nat
      BY <2>1, ElementOfSeq
    <2>3. DOMAIN Records(c) = DOMAIN c.arg
      BY <1>3 DEF Records
    <2>4. Len(Records(c)) = Len(c.arg)
      BY <1>1, <2>1, <2>3, LenProperties
    <2>5. ASSUME NEW i \in DOMAIN c.arg
          PROVE  /\ Records(c)[i].arg = <<c.arg[i]>> /\ Records(c)[i].val = <<c.val[i]>>
                 /\ Records(c)[i].key = c.key /\ Records(c)[i].op = c.op
      <3>1. Records(c)[i] = [c EXCEPT !.arg = <<c.arg[i]>>, !.val = <<c.val[i]>>]
        BY <1>3 DEF Records
      <3>2. QED
        BY <1>1, <3>1 DEF Request
    <2>6. \A i \in DOMAIN Records(c) : Records(c)[i] \in Request
      BY <1>1, ElementOfSeq
    <2>7. QED
      BY <1>3, <2>2, <2>3, <2>4, <2>5, <2>6
  <1>4. QED
    BY <1>2, <1>3

\* A ZADD record puts one member in its place.
LEMMA ChangedOne ==
  ASSUME NEW c, NEW z \in [Member -> Nat], NEW m \in Member, NEW x \in Nat,
         c.op = "zadd", c.arg = <<m>>, c.val = <<x>>
  PROVE  /\ Changed(z, c) \in [Member -> Nat] /\ Changed(z, c)[m] = x
         /\ \A j \in Member : j # m => Changed(z, c)[j] = z[j]
  <1>1. Members(c) = {m}
    BY DEF Members, ToSet
  <1>2. DOMAIN c.arg = {1} /\ c.arg[1] = m /\ c.val[1] = x
    OBVIOUS
  <1>3. (CHOOSE i \in DOMAIN c.arg : c.arg[i] = m) = 1
    BY <1>2
  <1>4. Changed(z, c)[m] = x
    BY <1>1, <1>2, <1>3 DEF Changed
  <1>5. \A j \in Member : j # m => Changed(z, c)[j] = z[j]
    BY <1>1 DEF Changed
  <1>6. \A j \in Member : Changed(z, c)[j] \in Nat
    BY <1>4, <1>5
  <1>7. QED
    BY <1>4, <1>5, <1>6 DEF Changed

\* A record changes the members it is about.
LEMMA RecordMembers ==
  ASSUME NEW c \in Command, c.op \in OfSets, NEW i \in DOMAIN Records(c),
         NEW z \in [Member -> Nat]
  PROVE  LET r == Records(c)[i]
         IN  /\ Changed(z, r) \in [Member -> Nat]
             /\ c.op # "zadd" => r = c
             /\ c.op = "zadd" => /\ Changed(z, r)[c.arg[i]] = c.val[i]
                                 /\ \A m \in Member : m # c.arg[i] => Changed(z, r)[m] = z[m]
  <1>1. CASE c.op # "zadd"
    <2>1. Records(c)[i] = c
      BY <1>1, RecordsShape
    <2>2. QED
      BY <1>1, <2>1, ChangedRight DEF OfSets
  <1>2. CASE c.op = "zadd"
    <2>1. /\ i \in DOMAIN c.arg /\ c.arg[i] \in Member /\ c.val[i] \in Nat
          /\ Records(c)[i].arg = <<c.arg[i]>> /\ Records(c)[i].val = <<c.val[i]>>
          /\ Records(c)[i].op = "zadd"
      BY <1>2, RecordsShape
    <2>2. QED
      BY <1>2, <2>1, ChangedOne
  <1>3. QED
    BY <1>1, <1>2

\* What a record makes of a content.
LEMMA RedoRight ==
  ASSUME NEW c \in Command, NEW i \in DOMAIN Records(c), NEW e, Whole(e)
  PROVE  LET r == Records(c)[i]
         IN  /\ Whole(Redo(e, r))
             /\ c.op = "set" => Redo(e, r) = <<"string", c.val[1], NoMember>>
             /\ c.op = "del" => Redo(e, r) = Absent
             /\ c.op = "incrby" /\ CanAdd(e[1], e[2], c.val[1]) =>
                   Redo(e, r) = <<"string", e[2] + c.val[1], NoMember>>
             /\ c.op \in OfSets /\ e[1] = "string" => Redo(e, r) = e
             /\ c.op \in OfSets /\ e[1] # "string" => Redo(e, r) = Seen("zset", 0, Changed(e[3], r))
  <1> DEFINE r == Records(c)[i]
  <1>1. /\ e[1] \in {"none", "string", "zset"} /\ e[2] \in Int /\ e[3] \in [Member -> Nat]
        /\ r.op = c.op /\ (c.op # "zadd" => r = c)
        /\ c.op \in {"set", "incrby"} => c.val[1] \in Int
        /\ c.op \in {"set", "del", "incrby", "zadd", "zincrby", "zrem"}
    BY WholeParts, RecordsShape, CommandShape DEF Request
  <1> HIDE DEF r
  <1>2. CASE c.op = "set"
    BY <1>1, <1>2, NumberWhole DEF Redo, Seen, OfSets, r
  <1>3. CASE c.op = "del"
    BY <1>1, <1>3, AbsentWhole DEF Redo, OfSets, r
  <1>4. CASE c.op = "incrby"
    <2>1. Redo(e, r) = IF CanAdd(e[1], e[2], c.val[1])
                       THEN <<"string", e[2] + c.val[1], NoMember>> ELSE e
      BY <1>1, <1>4 DEF Redo, Seen
    <2>2. e[2] + c.val[1] \in Int
      BY <1>1, <1>4
    <2>3. QED
      BY <1>4, <2>1, <2>2, NumberWhole DEF OfSets, r
  <1>5. CASE c.op \in OfSets
    <2>1. Redo(e, r) = IF e[1] = "string" THEN e ELSE Seen("zset", 0, Changed(e[3], r))
      BY <1>1, <1>5 DEF Redo, OfSets
    <2>2. Changed(e[3], r) \in [Member -> Nat]
      BY <1>1, <1>5, RecordMembers DEF r
    <2>3. Whole(Redo(e, r))
      BY <2>1, <2>2, SetWhole
    <2>4. QED
      BY <1>5, <2>1, <2>3 DEF OfSets, r
  <1>6. QED
    BY <1>1, <1>2, <1>3, <1>4, <1>5 DEF OfSets

\* What a client sees of a key.
LEMMA ContentRight ==
  ASSUME TypeOK, Logged, NEW k \in Key
  PROVE  /\ Whole(Content(k))
         /\ db[k].kind \in {"none", "string", "zset"} /\ db[k].val \in Int
         /\ db[k].kind = "none" => Content(k) = Absent
         /\ db[k].kind = "string" => Content(k) = <<"string", db[k].val, NoMember>>
         /\ db[k].kind = "zset" =>
               /\ db[k].set \in DOMAIN sets /\ sets[db[k].set] \in [Member -> Nat]
               /\ Content(k) = Seen("zset", 0, sets[db[k].set])
               /\ Content(k)[3] = sets[db[k].set]
         /\ Content(k)[1] = "string" <=> db[k].kind = "string"
  <1>1. /\ db[k].kind \in {"none", "string", "zset"} /\ db[k].val \in Int
        /\ db[k].set \in 0 .. Len(sets) /\ (db[k].kind = "zset" <=> db[k].set # 0)
        /\ DOMAIN sets = 1 .. Len(sets) /\ sets \in Seq([Member -> Nat])
        /\ db[k].kind # "string" => db[k].val = 0
    BY LenProperties DEF TypeOK, Logged
  <1>2. CASE db[k].kind = "zset"
    <2>1. db[k].set \in DOMAIN sets /\ sets[db[k].set] \in [Member -> Nat]
      BY <1>1, <1>2, ElementOfSeq
    <2>2. Content(k) = Seen("zset", 0, sets[db[k].set])
      BY <1>1, <1>2 DEF Content
    <2>3. QED
      BY <1>1, <1>2, <2>1, <2>2, SetWhole
  <1>3. CASE db[k].kind = "none"
    <2>1. Content(k) = Absent
      BY <1>1, <1>3 DEF Content, Absent
    <2>2. QED
      BY <1>1, <1>3, <2>1, AbsentWhole
  <1>4. CASE db[k].kind = "string"
    <2>1. Content(k) = <<"string", db[k].val, NoMember>>
      BY <1>1, <1>4 DEF Content, Seen
    <2>2. QED
      BY <1>1, <1>4, <2>1, NumberWhole
  <1>5. QED
    BY <1>1, <1>2, <1>3, <1>4

-----------------------------------------------------------------------------
(* Steps. *)

\* A loop owes the records of key k it owed.
Alike(l, k) ==
    /\ Owing(l, k)' <=> Owing(l, k)
    /\ Owing(l, k) => run'[l].cmd = run[l].cmd /\ Todo(l)' = Todo(l)

LEMMA AlikeOwes ==
  ASSUME NEW l \in Loop, NEW k, Alike(l, k)
  PROVE  /\ \A op : Owes(l, k, op)' <=> Owes(l, k, op)
         /\ \A m, x : Scores(l, k, m, x)' <=> Scores(l, k, m, x)
         /\ \A m : Removes(l, k, m)' <=> Removes(l, k, m)
         /\ Ups(k)'[l] = Ups(k)[l] /\ Downs(k)'[l] = Downs(k)[l]
         /\ \A m : ZIncs(k, m)'[l] = ZIncs(k, m)[l]
         /\ Owing(l, k) => run'[l].cmd = run[l].cmd
  <1>1. \A op : Owes(l, k, op)' <=> Owes(l, k, op)
    BY DEF Alike, Owes
  <1>2. \A m, x : Scores(l, k, m, x)' <=> Scores(l, k, m, x)
    <2> SUFFICES ASSUME NEW m, NEW x PROVE Scores(l, k, m, x)' <=> Scores(l, k, m, x)
      OBVIOUS
    <2>1. CASE Owing(l, k)
      BY <1>1, <2>1 DEF Alike, Scores
    <2>2. CASE ~Owing(l, k)
      BY <2>2 DEF Alike, Scores, Owes
    <2>3. QED
      BY <2>1, <2>2
  <1>3. \A m : Removes(l, k, m)' <=> Removes(l, k, m)
    BY DEF Alike, Owes, Removes
  <1>4. Ups(k)'[l] = Ups(k)[l] /\ Downs(k)'[l] = Downs(k)[l]
    BY DEF Alike, Owes, Ups, Downs
  <1>5. \A m : ZIncs(k, m)'[l] = ZIncs(k, m)[l]
    BY DEF Alike, Owes, ZIncs
  <1>6. QED
    BY <1>1, <1>2, <1>3, <1>4, <1>5 DEF Alike

LEMMA MembersAlike ==
  ASSUME NEW k, NEW m, NEW old, NEW new, \A l \in Loop : Alike(l, k)
  PROVE  /\ ZIncs(k, m)' = ZIncs(k, m)
         /\ MemberSettled(k, m, old, new)' <=> MemberSettled(k, m, old, new)
  <1>1. \A l \in Loop : /\ \A x : Scores(l, k, m, x)' <=> Scores(l, k, m, x)
                        /\ Removes(l, k, m)' <=> Removes(l, k, m)
                        /\ ZIncs(k, m)'[l] = ZIncs(k, m)[l]
    BY AlikeOwes
  <1>2. ZIncs(k, m)' = ZIncs(k, m)
    BY <1>1 DEF ZIncs
  <1>3. Total(ZIncs(k, m))' = Total(ZIncs(k, m))
    BY <1>2 DEF Total
  <1>4. QED
    BY <1>1, <1>2, <1>3 DEF MemberSettled

\* A key whose content, log and debts are as before is settled as before.
LEMMA SettledFrame ==
  ASSUME NEW k, NEW e, NEW C, Settled(k, e, C), \A l \in Loop : Alike(l, k),
         C[1] = "string" =>
            \A l \in Loop : Works(l, k)' => Works(l, k) /\ run'[l].cmd.op = run[l].cmd.op
  PROVE  Settled(k, e, C)'
  <1>1. \A op : Owed(k, op)' <=> Owed(k, op)
    BY AlikeOwes DEF Owed
  <1>2. Ups(k)' = Ups(k) /\ Downs(k)' = Downs(k)
    <2>1. \A l \in Loop : Ups(k)'[l] = Ups(k)[l] /\ Downs(k)'[l] = Downs(k)[l]
      BY AlikeOwes
    <2>2. QED
      BY <2>1 DEF Ups, Downs
  <1>3. /\ Total(Ups(k))' = Total(Ups(k)) /\ Total(Downs(k))' = Total(Downs(k))
        /\ Added(k)' = Added(k)
    BY <1>2 DEF Total, Added
  <1>4. CASE Deleted(k, C)
    BY <1>1, <1>4 DEF Settled, Deleted
  <1>5. CASE Overset(k, C)
    <2>1. PICK l \in Loop : Owes(l, k, "set") /\ C = <<"string", run[l].cmd.val[1], NoMember>>
      BY <1>5 DEF Overset
    <2>2. Owes(l, k, "set")' /\ run'[l].cmd = run[l].cmd
      BY <2>1, AlikeOwes DEF Owes
    <2>3. QED
      BY <2>1, <2>2 DEF Settled, Overset, NoMember
  <1>6. CASE Counted(k, e, C)
    <2>1. PICK v : v = e[2]
      OBVIOUS
    <2>2. C = <<"string", v + Added(k), NoMember>> /\ Within(k, v)
      BY <1>6, <2>1 DEF Counted
    <2>3. C[1] = "string" /\ C = <<"string", v + Added(k)', NoMember>>
      BY <1>3, <2>2
    <2>4. Within(k, v)'
      BY <1>1, <1>3, <2>2 DEF Within
    <2>5. QED
      BY <1>1, <1>6, <2>1, <2>3, <2>4 DEF Settled, Counted, NoMember, Absent, Seen
  <1>7. CASE Gathered(k, e, C)
    <2>1. \A m \in Member : MemberSettled(k, m, e[3][m], C[3][m])'
      BY <1>7, MembersAlike DEF Gathered
    <2>2. QED
      BY <1>1, <1>7, <2>1 DEF Settled, Gathered
  <1>8. QED
    BY <1>4, <1>5, <1>6, <1>7 DEF Settled

\* A step that does not add a command to a key that counts keeps it settled.
LEMMA MeantStays ==
  ASSUME NEW k, MeantAt(k), Content(k)' = Content(k), Replayed(k)' = Replayed(k),
         \A l \in Loop : Alike(l, k),
         Content(k)[1] = "string" =>
            \A l \in Loop : Works(l, k)' => Works(l, k) /\ run'[l].cmd.op = run[l].cmd.op
  PROVE  MeantAt(k)'
  <1> SUFFICES ASSUME NEW e, NEW C, e = Replayed(k)', C = Content(k)'
               PROVE  Settled(k, e, C)'
    BY DEF MeantAt
  <1>1. Settled(k, e, C)
    BY DEF MeantAt
  <1>2. QED
    BY <1>1, SettledFrame

\* One loop moves, and touches at most one key.
Moves(l, key) ==
    /\ \A h \in Loop : h # l => run'[h] = run[h]
    /\ \A k \in Key : k # key =>
          /\ ~Works(l, k) /\ ~Works(l, k)'
          /\ db'[k] = db[k] /\ Content(k)' = Content(k) /\ Replayed(k)' = Replayed(k)

LEMMA OthersAlike ==
  ASSUME NEW h \in Loop, run'[h] = run[h], NEW k
  PROVE  Alike(h, k) /\ (Works(h, k)' <=> Works(h, k))
  BY DEF Alike, Owing, Works, Running, Todo

LEMMA Elsewhere ==
  ASSUME NEW l \in Loop, NEW key \in Key, Moves(l, key), NEW k \in Key, k # key,
         HandlingAt(k), MeantAt(k)
  PROVE  HandlingAt(k)' /\ MeantAt(k)'
  <1>1. ~Works(l, k) /\ ~Works(l, k)'
    BY DEF Moves
  <1>2. \A h \in Loop : Alike(h, k)
    <2>1. Alike(l, k)
      BY <1>1 DEF Alike, Owing
    <2>2. QED
      BY <2>1, OthersAlike DEF Moves
  <1>3. \A h \in Loop : Works(h, k)' => Works(h, k) /\ run'[h] = run[h]
    BY <1>1, OthersAlike DEF Moves
  <1>4. HandlingAt(k)'
    BY <1>3 DEF HandlingAt, Moves
  <1>5. MeantAt(k)'
    BY <1>2, <1>3, MeantStays DEF Moves
  <1>6. QED
    BY <1>4, <1>5

LEMMA KeyStep ==
  ASSUME KeyInv, NEW l \in Loop, NEW key \in Key, Moves(l, key), Compatible', Placed',
         \A k \in Key : Free(k)' => Free(k),
         db'[key].kind # "string" => db'[key].val = 0, Whole(Replayed(key)'),
         Free(key) /\ Free(key)' /\ HandlingAt(key) /\ MeantAt(key) =>
            HandlingAt(key)' /\ MeantAt(key)'
  PROVE  KeyInv'
  <1>1. Logged'
    <2> SUFFICES ASSUME NEW k \in Key
                 PROVE  (db'[k].kind # "string" => db'[k].val = 0) /\ Whole(Replayed(k))'
      BY DEF Logged
    <2>1. \A e : Whole(e)' <=> Whole(e)
      BY DEF Whole, Absent, Seen, NoMember
    <2>2. CASE k = key
      BY <2>1, <2>2 DEF Whole, Absent, Seen, NoMember
    <2>3. CASE k # key
      BY <2>1, <2>3 DEF KeyInv, Logged, Moves, Whole, Absent, Seen, NoMember
    <2>4. QED
      BY <2>2, <2>3
  <1>2. ASSUME NEW k \in Key, Free(k)' PROVE HandlingAt(k)' /\ MeantAt(k)'
    <2>1. Free(k) /\ HandlingAt(k) /\ MeantAt(k)
      BY <1>2 DEF KeyInv
    <2>2. CASE k = key
      BY <1>2, <2>1, <2>2
    <2>3. CASE k # key
      BY <2>1, <2>3, Elsewhere
    <2>4. QED
      BY <2>2, <2>3
  <1>3. QED
    BY <1>1, <1>2 DEF KeyInv

-----------------------------------------------------------------------------
(* Which commands are left to overlap. *)

\* Commute in terms of the operations, and of whether the members are apart and
\* the numbers on one side of 0.
Fits(ops, apart, beside) ==
    \/ ops \in {{"zincrby"}, {"del"}, {"zrem"}, {"del", "zrem"}}
    \/ ops = {"incrby"} /\ beside
    \/ ops \in {{x, y} : x \in {"set", "incrby"}, y \in {"zadd", "zincrby"}}
    \/ ops = {"set", "zrem"}
    \/ apart /\ ops \in {{"zadd"}, {"zadd", "zincrby"}}

LEMMA CommuteFits ==
  \A c, d : Commute(c, d) <=> Fits({c.op, d.op}, Members(c) \cap Members(d) = {},
                                   c.val[1] < 0 <=> d.val[1] < 0)
  BY DEF Commute, Fits

LEMMA CommuteSame ==
  ASSUME NEW c, NEW d, Commute(c, d)
  PROVE  Commute(d, c)
  <1>1. {c.op, d.op} = {d.op, c.op} /\ Members(c) \cap Members(d) = Members(d) \cap Members(c)
    OBVIOUS
  <1>2. (c.val[1] < 0 <=> d.val[1] < 0) = (d.val[1] < 0 <=> c.val[1] < 0)
    BY Zenon
  <1>3. Fits({c.op, d.op}, Members(c) \cap Members(d) = {}, c.val[1] < 0 <=> d.val[1] < 0)
    BY CommuteFits, Zenon
  <1>4. Fits({d.op, c.op}, Members(d) \cap Members(c) = {}, d.val[1] < 0 <=> c.val[1] < 0)
    BY <1>1, <1>2, <1>3
  <1>5. QED
    BY <1>4, CommuteFits, Zenon

LEMMA Pairs ==
  ASSUME NEW x, NEW y, NEW u, NEW v, {x, y} = {u, v}
  PROVE  (x = u /\ y = v) \/ (x = v /\ y = u)
  <1>1. x \in {u, v} /\ y \in {u, v} /\ u \in {x, y} /\ v \in {x, y}
    BY Zenon
  <1>2. (x = u \/ x = v) /\ (y = u \/ y = v) /\ (u = x \/ u = y) /\ (v = x \/ v = y)
    BY <1>1, Zenon
  <1>3. QED
    BY <1>2

LEMMA CommuteOps ==
  ASSUME NEW c, NEW d, Commute(c, d)
  PROVE  /\ c.op = "set" => d.op \in OfSets
         /\ c.op = "del" => d.op \in {"del", "zrem"}
         /\ c.op = "incrby" => /\ d.op \in {"incrby", "zadd", "zincrby"}
                               /\ d.op = "incrby" => (c.val[1] < 0 <=> d.val[1] < 0)
         /\ c.op = "zadd" => /\ d.op \in {"set", "incrby", "zadd", "zincrby"}
                             /\ d.op \in {"zadd", "zincrby"} => Members(c) \cap Members(d) = {}
         /\ c.op = "zincrby" => /\ d.op \in {"set", "incrby", "zadd", "zincrby"}
                                /\ d.op = "zadd" => Members(c) \cap Members(d) = {}
         /\ c.op = "zrem" => d.op \in {"set", "del", "zrem"}
  <1> DEFINE ops == {c.op, d.op}
             apart == Members(c) \cap Members(d) = {}
             beside == c.val[1] < 0 <=> d.val[1] < 0
  <1>1. \A x, y : ops = {x, y} => (c.op = x /\ d.op = y) \/ (c.op = y /\ d.op = x)
    BY Pairs
  <1>2. \A x : ops = {x} => c.op = x /\ d.op = x
    OBVIOUS
  <1>3. \/ \E x \in {"zincrby", "del", "zrem"} : ops = {x}
        \/ ops = {"incrby"} /\ beside
        \/ ops = {"del", "zrem"} \/ ops = {"set", "zrem"}
        \/ \E x \in {"set", "incrby"}, y \in {"zadd", "zincrby"} : ops = {x, y}
        \/ apart /\ (ops = {"zadd"} \/ ops = {"zadd", "zincrby"})
    <2>1. Fits(ops, apart, beside)
      BY CommuteFits, Zenon
    <2> HIDE DEF ops, apart, beside
    <2>2. QED
      BY <2>1 DEF Fits
  <1> HIDE DEF ops, apart, beside
  <1>0. CASE ops = {"incrby"} /\ beside
    <2>1. c.op = "incrby" /\ d.op = "incrby"
      BY <1>0, <1>2
    <2>2. QED
      BY <1>0, <2>1 DEF beside, OfSets
  <1>4. CASE \E x \in {"zincrby", "del", "zrem"} : ops = {x}
    <2>1. c.op = d.op /\ c.op \in {"zincrby", "del", "zrem"}
      BY <1>2, <1>4
    <2>2. QED
      BY <2>1 DEF OfSets
  <1>5. CASE ops = {"del", "zrem"} \/ ops = {"set", "zrem"}
    <2>1. \/ c.op = "zrem" /\ d.op \in {"del", "set"}
          \/ c.op \in {"del", "set"} /\ d.op = "zrem"
      BY <1>1, <1>5
    <2>2. QED
      BY <2>1 DEF OfSets
  <1>6. CASE \E x \in {"set", "incrby"}, y \in {"zadd", "zincrby"} : ops = {x, y}
    <2>1. \/ c.op \in {"set", "incrby"} /\ d.op \in {"zadd", "zincrby"}
          \/ d.op \in {"set", "incrby"} /\ c.op \in {"zadd", "zincrby"}
      BY <1>1, <1>6
    <2>2. QED
      BY <2>1 DEF OfSets
  <1>7. CASE apart /\ (ops = {"zadd"} \/ ops = {"zadd", "zincrby"})
    <2>1. c.op \in {"zadd", "zincrby"} /\ d.op \in {"zadd", "zincrby"}
      BY <1>1, <1>2, <1>7
    <2>2. QED
      BY <1>7, <2>1 DEF OfSets, apart
  <1>8. QED
    BY <1>0, <1>3, <1>4, <1>5, <1>6, <1>7

\* Two commands on a key that is free commute.
LEMMA Overlaps ==
  ASSUME Compatible, NEW k \in Key, Free(k), NEW l \in Loop, NEW h \in Loop, h # l,
         Works(l, k), Works(h, k)
  PROVE  Commute(run[l].cmd, run[h].cmd)
  BY DEF Compatible

\* A command begins on a key.
LEMMA BegunCompatible ==
  ASSUME CommandsInv, KeyInv, NEW l \in Loop, NEW c \in Command, Begun(l, c), raced' = raced,
         \A h \in Loop : h # l => run'[h] = run[h],
         run'[l] = run[l] \/ run'[l].cmd = c
  PROVE  /\ Compatible' /\ c.key \in Key
         /\ \A k \in Key : Free(k)' => Free(k)
         /\ Free(c.key)' => \A h \in Loop : h # l /\ Works(h, c.key) => Commute(c, run[h].cmd)
         /\ \A k : ~Works(l, k)
  <1>1. /\ ~Running(l) /\ c.key \in Key /\ crossed \subseteq crossed'
        /\ c.key \notin crossed' =>
              \A h \in Loop : Running(h) /\ run[h].cmd.key = c.key => Commute(run[h].cmd, c)
    BY CommandShape DEF Begun, Running, Idle, Request
  <1>2. \A k \in Key : Free(k)' => Free(k)
    BY <1>1 DEF Free
  <1>3. Free(c.key)' =>
           \A h \in Loop : h # l /\ Works(h, c.key) => Commute(c, run[h].cmd)
    BY <1>1, CommuteSame DEF Free, Works
  <1>4. \A h \in Loop : \A k : h # l => (Works(h, k)' <=> Works(h, k)) /\ run'[h] = run[h]
    BY DEF Works, Running
  <1>5. \A k : Works(l, k)' => k = c.key /\ run'[l].cmd = c
    BY <1>1 DEF Works, Running
  <1>6. Compatible'
    <2> SUFFICES ASSUME NEW k \in Key, Free(k)', NEW g \in Loop, NEW h \in Loop, g # h,
                        Works(g, k)', Works(h, k)'
                 PROVE  Commute(run'[g].cmd, run'[h].cmd)
      BY DEF Compatible
    <2>1. CASE g = l
      <3>1. k = c.key /\ run'[g].cmd = c /\ Works(h, k) /\ run'[h] = run[h]
        BY <1>4, <1>5, <2>1
      <3>2. QED
        BY <1>3, <2>1, <3>1
    <2>2. CASE h = l
      <3>1. k = c.key /\ run'[h].cmd = c /\ Works(g, k) /\ run'[g] = run[g]
        BY <1>4, <1>5, <2>2
      <3>2. QED
        BY <1>3, <2>2, <3>1, CommuteSame
    <2>3. CASE g # l /\ h # l
      <3>1. Works(g, k) /\ Works(h, k) /\ run'[g] = run[g] /\ run'[h] = run[h]
        BY <1>4, <2>3
      <3>2. QED
        BY <1>2, <3>1 DEF KeyInv, Compatible
    <2>4. QED
      BY <2>1, <2>2, <2>3
  <1>7. QED
    BY <1>1, <1>2, <1>3, <1>6 DEF Works

\* A command goes on, or ends.
LEMMA GoneOnCompatible ==
  ASSUME KeyInv, NEW l \in Loop, crossed' = crossed, raced \subseteq raced',
         \A h \in Loop : h # l => run'[h] = run[h],
         Running(l), ~Running(l)' \/ run'[l].cmd = run[l].cmd
  PROVE  /\ Compatible' /\ (\A k \in Key : Free(k)' => Free(k))
         /\ \A k : Works(l, k)' => Works(l, k) /\ run'[l].cmd = run[l].cmd
  <1>1. \A k \in Key : Free(k)' => Free(k)
    BY DEF Free
  <1>2. \A h \in Loop : \A k : Works(h, k)' => Works(h, k) /\ run'[h].cmd = run[h].cmd
    BY DEF Works, Running
  <1>3. Compatible'
    BY <1>1, <1>2 DEF KeyInv, Compatible
  <1>4. QED
    BY <1>1, <1>2, <1>3

LEMMA PlacedAfter ==
  ASSUME Placed, NEW l \in Loop, \A h \in Loop : h # l => run'[h] = run[h],
         run'[l].at \in {"log", "removed"} => Ending(run'[l].todo, Records(run'[l].cmd)),
         run'[l].at = "removed" => run'[l].cmd.op = "zrem"
  PROVE  Placed'
  BY DEF Placed

LEMMA EndingAll ==
  ASSUME NEW c \in Command
  PROVE  Ending(Records(c), Records(c)) /\ Ending(<<>>, Records(c))
  <1>1. /\ Records(c) \in Seq(Request) /\ DOMAIN Records(c) = 1 .. Len(Records(c))
        /\ Len(Records(c)) \in Nat
    BY RecordsRight, LenProperties
  <1>2. Ending(Records(c), Records(c))
    <2>1. \A i \in 1 .. Len(Records(c)) : Len(Records(c)) - Len(Records(c)) + i = i
      BY <1>1
    <2>2. QED
      BY <1>1, <2>1 DEF Ending
  <1>3. Ending(<<>>, Records(c))
    BY <1>1 DEF Ending
  <1>4. QED
    BY <1>2, <1>3

LEMMA ReplayedStays ==
  ASSUME log' = log, NEW k
  PROVE  Replayed(k)' = Replayed(k)
  BY DEF Replayed

\* The command of one loop, and a change that only its key sees.
LEMMA Moved ==
  ASSUME NEW l \in Loop, NEW key \in Key, \A h \in Loop : h # l => run'[h] = run[h],
         ~Running(l) \/ run[l].cmd.key = key,
         ~Running(l)' \/ run'[l].cmd.key = key,
         \A k \in Key : k # key =>
             /\ db'[k] = db[k]
             /\ db[k].kind = "zset" => sets'[db[k].set] = sets[db[k].set]
             /\ Replayed(k)' = Replayed(k)
  PROVE  Moves(l, key)
  <1> SUFFICES ASSUME NEW k \in Key, k # key
               PROVE  /\ ~Works(l, k) /\ ~Works(l, k)'
                      /\ db'[k] = db[k] /\ Content(k)' = Content(k) /\ Replayed(k)' = Replayed(k)
    BY DEF Moves
  <1>1. ~Works(l, k) /\ ~Works(l, k)'
    BY DEF Works
  <1>2. Content(k)' = Content(k)
    <2>1. CASE db[k].kind = "zset"
      BY <2>1 DEF Content, Seen, NoMember, Absent
    <2>2. CASE db[k].kind # "zset"
      BY <2>2 DEF Content, Seen, NoMember, Absent
    <2>3. QED
      BY <2>1, <2>2
  <1>3. QED
    BY <1>1, <1>2

-----------------------------------------------------------------------------
(* What a loop owes. *)

LEMMA DebtShape ==
  ASSUME CommandsInv, Placed, NEW l \in Loop, Running(l)
  PROVE  /\ run[l].cmd \in Command /\ run[l].cmd.key \in Key
         /\ Todo(l) \in Seq(Request) /\ Ending(Todo(l), Records(run[l].cmd))
         /\ Todo(l) # <<>> /\ run[l].cmd.op # "zadd" => Todo(l) = <<run[l].cmd>>
         /\ run[l].at = "log" => Todo(l) = run[l].todo /\ Todo(l) # <<>>
  <1>1. TypeOK
    BY DEF CommandsInv
  <1>2. /\ run[l].cmd \in Command
        /\ run[l].at \in {"held", "inside", "removed", "log"}
        /\ run[l].at = "removed" => run[l].todo \in Seq(Request)
        /\ run[l].at = "log" => run[l].todo \in Seq(Request) /\ run[l].todo # <<>>
    BY <1>1, DoingShape DEF Running
  <1>3. run[l].cmd.key \in Key
    BY <1>2, CommandShape DEF Request
  <1>4. Todo(l) \in Seq(Request)
    BY <1>2, EmptySeq DEF Todo
  <1>5. Ending(Todo(l), Records(run[l].cmd))
    BY <1>2, EndingAll DEF Placed, Todo
  <1>6. ASSUME Todo(l) # <<>>, run[l].cmd.op # "zadd" PROVE Todo(l) = <<run[l].cmd>>
    <2>1. Records(run[l].cmd) = <<run[l].cmd>> /\ Len(Records(run[l].cmd)) = 1
      BY <1>2, <1>6, RecordsShape
    <2>2. Len(Todo(l)) \in Nat /\ Len(Todo(l)) # 0 /\ DOMAIN Todo(l) = 1 .. Len(Todo(l))
      BY <1>4, <1>6, LenProperties, EmptySeq
    <2>3. Len(Todo(l)) = 1 /\ 1 \in DOMAIN Todo(l) /\ DOMAIN Todo(l) = 1 .. 1
      BY <1>5, <2>1, <2>2 DEF Ending
    <2>4. Todo(l)[1] = run[l].cmd
      BY <1>5, <2>1, <2>3 DEF Ending
    <2>5. QED
      BY <1>4, <2>3, <2>4
  <1>7. QED
    BY <1>2, <1>3, <1>4, <1>5, <1>6 DEF Todo

LEMMA SumTypes ==
  ASSUME CommandsInv, NEW k
  PROVE  /\ Ups(k) \in [Loop -> Nat] /\ Downs(k) \in [Loop -> Nat]
         /\ \A m : ZIncs(k, m) \in [Loop -> Nat]
  <1>1. ASSUME NEW l \in Loop, Running(l)
        PROVE  /\ run[l].cmd.op = "incrby" => run[l].cmd.val[1] \in Int
               /\ run[l].cmd.op = "zincrby" => run[l].cmd.val[1] \in Nat
    <2>1. run[l].cmd \in Command
      BY <1>1, DoingShape DEF CommandsInv, Running
    <2>2. QED
      BY <1>1, <2>1, CommandShape
  <1>2. QED
    BY <1>1 DEF Ups, Downs, ZIncs, Owes, Owing, Works

\* The sum after a step of one loop, of functions of the loops in two states.
LEMMA SumMoves ==
  ASSUME NEW l \in Loop, NEW f \in [Loop -> Nat], NEW g, DOMAIN g = Loop,
         g = [h \in Loop |-> g[h]], g[l] \in Nat, \A h \in Loop : h # l => g[h] = f[h]
  PROVE  Total(g) = Total(f) - f[l] + g[l] /\ Total(f) \in Nat /\ Total(g) \in Nat
  <1>1. g \in [Loop -> Nat] /\ f[l] \in Nat
    OBVIOUS
  <1>2. Total(g) + f[l] = Total(f) + g[l] /\ Total(f) \in Nat /\ Total(g) \in Nat
    BY <1>1, TotalMoves
  <1>3. QED
    BY <1>1, <1>2

LEMMA SumsMove ==
  ASSUME CommandsInv, NEW l \in Loop, \A h \in Loop : h # l => run'[h] = run[h], NEW k
  PROVE  /\ Total(Ups(k)) \in Nat /\ Total(Downs(k)) \in Nat
         /\ Ups(k)'[l] \in Nat => /\ Total(Ups(k))' = Total(Ups(k)) - Ups(k)[l] + Ups(k)'[l]
                                  /\ Total(Ups(k))' \in Nat
         /\ Downs(k)'[l] \in Nat =>
               /\ Total(Downs(k))' = Total(Downs(k)) - Downs(k)[l] + Downs(k)'[l]
               /\ Total(Downs(k))' \in Nat
         /\ \A m : /\ Total(ZIncs(k, m)) \in Nat
                   /\ ZIncs(k, m)'[l] \in Nat =>
                         /\ Total(ZIncs(k, m))' + ZIncs(k, m)[l] = Total(ZIncs(k, m)) + ZIncs(k, m)'[l]
                         /\ Total(ZIncs(k, m))' \in Nat
  <1>1. \A h \in Loop : h # l => /\ Ups(k)'[h] = Ups(k)[h] /\ Downs(k)'[h] = Downs(k)[h]
                                 /\ \A m : ZIncs(k, m)'[h] = ZIncs(k, m)[h]
    BY OthersAlike, AlikeOwes
  <1>2. /\ Ups(k) \in [Loop -> Nat] /\ Downs(k) \in [Loop -> Nat]
        /\ \A m : ZIncs(k, m) \in [Loop -> Nat]
    BY SumTypes
  <1>3. ASSUME NEW f \in [Loop -> Nat], NEW g, g = [h \in Loop |-> g[h]], g[l] \in Nat,
               \A h \in Loop : h # l => g[h] = f[h]
        PROVE  Total(g) = Total(f) - f[l] + g[l] /\ Total(f) \in Nat /\ Total(g) \in Nat
    <2>1. DOMAIN g = Loop
      BY <1>3
    <2>2. QED
      BY <1>3, <2>1, SumMoves
  <1>4. ASSUME Ups(k)'[l] \in Nat
        PROVE  Total(Ups(k))' = Total(Ups(k)) - Ups(k)[l] + Ups(k)'[l] /\ Total(Ups(k))' \in Nat
    <2>1. PICK f : f = Ups(k)
      OBVIOUS
    <2>2. PICK g : g = Ups(k)'
      OBVIOUS
    <2>3. g = [h \in Loop |-> g[h]]
      BY <2>2 DEF Ups
    <2>4. Total(g) = Total(f) - f[l] + g[l] /\ Total(g) \in Nat
      BY <1>1, <1>2, <1>3, <1>4, <2>1, <2>2, <2>3
    <2>5. Total(g) = Total(Ups(k))' /\ Total(f) = Total(Ups(k))
      BY <2>1, <2>2 DEF Total
    <2>6. QED
      BY <2>1, <2>2, <2>4, <2>5
  <1>5. ASSUME Downs(k)'[l] \in Nat
        PROVE  /\ Total(Downs(k))' = Total(Downs(k)) - Downs(k)[l] + Downs(k)'[l]
               /\ Total(Downs(k))' \in Nat
    <2>1. PICK f : f = Downs(k)
      OBVIOUS
    <2>2. PICK g : g = Downs(k)'
      OBVIOUS
    <2>3. g = [h \in Loop |-> g[h]]
      BY <2>2 DEF Downs
    <2>4. Total(g) = Total(f) - f[l] + g[l] /\ Total(g) \in Nat
      BY <1>1, <1>2, <1>3, <1>5, <2>1, <2>2, <2>3
    <2>5. Total(g) = Total(Downs(k))' /\ Total(f) = Total(Downs(k))
      BY <2>1, <2>2 DEF Total
    <2>6. QED
      BY <2>1, <2>2, <2>4, <2>5
  <1>6. ASSUME NEW m, ZIncs(k, m)'[l] \in Nat
        PROVE  /\ Total(ZIncs(k, m))' + ZIncs(k, m)[l] = Total(ZIncs(k, m)) + ZIncs(k, m)'[l]
               /\ Total(ZIncs(k, m))' \in Nat
    <2>1. PICK f : f = ZIncs(k, m)
      OBVIOUS
    <2>2. PICK g : g = ZIncs(k, m)'
      OBVIOUS
    <2>0. ZIncs(k, m)' \in [Loop -> Nat]
      <3>1. \A h \in Loop : ZIncs(k, m)'[h] \in Nat
        BY <1>1, <1>2, <1>6
      <3>2. QED
        BY <3>1 DEF ZIncs
    <2>3. f \in [Loop -> Nat] /\ g \in [Loop -> Nat] /\ \A h \in Loop : h # l => g[h] = f[h]
      BY <1>1, <1>2, <2>0, <2>1, <2>2
    <2>4. Total(g) + f[l] = Total(f) + g[l] /\ Total(g) \in Nat
      BY <2>3, TotalMoves
    <2>5. Total(g) = Total(ZIncs(k, m))' /\ Total(f) = Total(ZIncs(k, m))
      BY <2>1, <2>2 DEF Total
    <2>6. QED
      BY <2>1, <2>2, <2>4, <2>5
  <1>7. /\ Total(Ups(k)) \in Nat /\ Total(Downs(k)) \in Nat
        /\ \A m : Total(ZIncs(k, m)) \in Nat
    BY <1>2, TotalFinite
  <1>8. QED
    BY <1>4, <1>5, <1>6, <1>7

\* While no command on the set of a key owes anything, its members are as logged.
LEMMA NobodyOwes ==
  ASSUME CommandsInv, NEW k, NEW m, NEW old \in Nat, NEW new,
         \A l \in Loop : ~(Owing(l, k) /\ run[l].cmd.op \in OfSets),
         MemberSettled(k, m, old, new)
  PROVE  new = old
  <1>1. \A l \in Loop : /\ ~Removes(l, k, m)
                        /\ \A x : ~Scores(l, k, m, x)
                        /\ ZIncs(k, m)[l] = 0
    BY DEF Owes, Removes, Scores, ZIncs, OfSets
  <1>2. Total(ZIncs(k, m)) = 0
    BY <1>1, SumTypes, TotalNone
  <1>3. QED
    BY <1>1, <1>2 DEF MemberSettled

LEMMA NobodyCounts ==
  ASSUME CommandsInv, NEW k, ~Owed(k, "incrby")
  PROVE  Added(k) = 0 /\ Total(Ups(k)) = 0 /\ Total(Downs(k)) = 0
  <1>1. \A l \in Loop : Ups(k)[l] = 0 /\ Downs(k)[l] = 0
    BY DEF Owed, Ups, Downs
  <1>2. QED
    BY <1>1, SumTypes, TotalNone DEF Added

-----------------------------------------------------------------------------
(* SET, DEL and INCRBY. *)

\* A number of the key as a content, and the new value of the key.
LEMMA ContentNext ==
  ASSUME NEW key \in Key, NEW v \in Int, db'[key] = Number(v)
  PROVE  Content(key)' = <<"string", v, NoMember>>
  BY DEF Content, Number, Seen, NoMember

\* A command that changes a key and logs it next.
LEMMA LoggingRuns ==
  ASSUME CommandsInv, NEW l \in Loop, NEW c \in Command, Logging(l, c, Records(c))
  PROVE  /\ \A h \in Loop : h # l => run'[h] = run[h]
         /\ run'[l].cmd = c /\ run'[l].at = "log" /\ run'[l].todo = Records(c)
         /\ \A k : Works(l, k)' <=> k = c.key
         /\ Todo(l)' = Records(c) /\ Todo(l)' # <<>>
         /\ \A k, op : Owes(l, k, op)' <=> k = c.key /\ op = c.op
         /\ Ending(run'[l].todo, Records(run'[l].cmd))
  <1>1. TypeOK
    BY DEF CommandsInv
  <1>2. /\ \A h \in Loop : h # l => run'[h] = run[h]
        /\ run'[l] = [at |-> "log", cmd |-> c, todo |-> Records(c)]
    BY <1>1 DEF Logging, TypeOK
  <1>3. Records(c) # <<>> /\ Ending(Records(c), Records(c))
    BY RecordsRight, EndingAll
  <1>4. run'[l].cmd = c /\ run'[l].at = "log" /\ run'[l].todo = Records(c)
    BY <1>2
  <1>5. \A k : Works(l, k)' <=> k = c.key
    BY <1>4 DEF Works, Running
  <1>6. Todo(l)' = Records(c) /\ Todo(l)' # <<>>
    BY <1>3, <1>4 DEF Todo
  <1>7. \A k, op : Owes(l, k, op)' <=> k = c.key /\ op = c.op
    BY <1>4, <1>5, <1>6 DEF Owes, Owing
  <1>8. QED
    BY <1>2, <1>3, <1>4, <1>5, <1>6, <1>7

\* Such a command in general: what is left is its own key.
LEMMA LoggingStep ==
  ASSUME CommandsInv, KeyInv, NEW l \in Loop, NEW c \in Command, Begun(l, c),
         Logging(l, c, Records(c)), raced' = raced, sets' = sets, log' = log,
         \A k \in Key : k # c.key => db'[k] = db[k],
         db'[c.key].kind # "zset", db'[c.key].kind # "string" => db'[c.key].val = 0,
         \A h \in Loop : h # l /\ Works(h, c.key) /\ run[h].cmd.op \in {"zadd", "zincrby"}
               /\ Free(c.key)' /\ HandlingAt(c.key) => db'[c.key].kind # "none",
         c.op \notin {"zadd", "zincrby"},
         Free(c.key)' /\ MeantAt(c.key) /\ HandlingAt(c.key) => MeantAt(c.key)'
  PROVE  KeyInv'
  <1>1. /\ \A h \in Loop : h # l => run'[h] = run[h]
        /\ run'[l].cmd = c /\ run'[l].at = "log"
        /\ Ending(run'[l].todo, Records(run'[l].cmd))
    BY LoggingRuns
  <1>2. /\ Compatible' /\ c.key \in Key /\ \A k : ~Works(l, k)
        /\ \A k \in Key : Free(k)' => Free(k)
    BY <1>1, BegunCompatible
  <1>3. Placed'
    BY <1>1, PlacedAfter DEF KeyInv
  <1>4. ~Running(l)
    BY DEF Begun, Idle, Running
  <1>5. \A k : Replayed(k)' = Replayed(k)
    BY ReplayedStays
  <1>6. Moves(l, c.key)
    BY <1>1, <1>2, <1>4, <1>5, Moved
  <1>7. ASSUME Free(c.key)', HandlingAt(c.key) PROVE HandlingAt(c.key)'
    <2> SUFFICES ASSUME NEW h \in Loop, Works(h, c.key)',
                        run'[h].cmd.op \in {"zadd", "zincrby"}
                 PROVE  db'[c.key].kind # "none"
      BY DEF HandlingAt
    <2>1. h # l
      BY <1>1
    <2>2. run'[h] = run[h] /\ Works(h, c.key)
      BY <1>1, <2>1 DEF Works, Running
    <2>3. QED
      BY <1>7, <2>1, <2>2
  <1>8. Whole(Replayed(c.key)')
    BY <1>2, <1>5 DEF KeyInv, Logged
  <1>9. QED
    BY <1>2, <1>3, <1>6, <1>7, <1>8, KeyStep

LEMMA SetKeeps ==
  ASSUME CommandsInv, KeyInv, NEW l \in Loop, NEW c \in Command, Set(l, c)
  PROVE  KeyInv'
  <1>1. /\ c.op = "set" /\ Begun(l, c) /\ Logging(l, c, Records(c))
        /\ raced' = raced /\ sets' = sets /\ log' = log
        /\ db' = [db EXCEPT ![c.key] = Number(c.val[1])]
        /\ DOMAIN db = Key /\ c.key \in Key /\ c.val[1] \in Int
    BY CommandShape DEF Set, CommandsInv, TypeOK, Request
  <1>2. db'[c.key] = Number(c.val[1]) /\ db'[c.key].kind = "string"
    BY <1>1 DEF Number
  <1>3. MeantAt(c.key)'
    <2> SUFFICES ASSUME NEW e, NEW C, C = Content(c.key)' PROVE Settled(c.key, e, C)'
      BY DEF MeantAt
    <2>1. C = <<"string", c.val[1], NoMember>>
      BY <1>1, <1>2, ContentNext
    <2>2. Owes(l, c.key, "set")' /\ run'[l].cmd = c
      BY <1>1, LoggingRuns
    <2>3. QED
      BY <2>1, <2>2 DEF Settled, Overset, NoMember
  <1>4. QED
    BY <1>1, <1>2, <1>3, LoggingStep

LEMMA DelKeeps ==
  ASSUME CommandsInv, KeyInv, NEW l \in Loop, NEW c \in Command, Del(l, c), db[c.key] # None
  PROVE  KeyInv'
  <1>1. /\ c.op = "del" /\ Begun(l, c) /\ Logging(l, c, Records(c))
        /\ raced' = raced /\ sets' = sets /\ log' = log
        /\ db' = [db EXCEPT ![c.key] = None]
        /\ DOMAIN db = Key /\ c.key \in Key
    BY CommandShape DEF Del, CommandsInv, TypeOK, Request
  <1>2. db'[c.key] = None /\ db'[c.key].kind = "none" /\ db'[c.key].val = 0
    BY <1>1 DEF None
  <1>3. MeantAt(c.key)'
    <2> SUFFICES ASSUME NEW e, NEW C, C = Content(c.key)' PROVE Settled(c.key, e, C)'
      BY DEF MeantAt
    <2>1. C = Absent
      BY <1>2 DEF Content, Absent, NoMember, Seen
    <2>2. Owes(l, c.key, "del")'
      BY <1>1, LoggingRuns
    <2>3. QED
      BY <2>1, <2>2 DEF Settled, Deleted, Owed, Absent, Seen, NoMember
  <1>4. ASSUME NEW h \in Loop, h # l, Works(h, c.key), run[h].cmd.op \in {"zadd", "zincrby"},
               Free(c.key)'
        PROVE  FALSE
    <2>1. \A g \in Loop : g # l => run'[g] = run[g]
      BY <1>1, LoggingRuns
    <2>2. run'[l].cmd = c
      BY <1>1, LoggingRuns
    <2>3. Commute(c, run[h].cmd)
      BY <1>1, <1>4, <2>1, <2>2, BegunCompatible
    <2>4. QED
      BY <1>1, <1>4, <2>3, CommuteOps
  <1>5. QED
    BY <1>1, <1>2, <1>3, <1>4, LoggingStep

LEMMA IncrByKeeps ==
  ASSUME CommandsInv, KeyInv, NEW l \in Loop, NEW c \in Command, IncrBy(l, c),
         CanAdd(db[c.key].kind, db[c.key].val, c.val[1])
  PROVE  KeyInv'
  <1> DEFINE n == c.val[1]
             v == db[c.key].val + n
             k == c.key
  <1>1. /\ c.op = "incrby" /\ Begun(l, c) /\ Logging(l, c, Records(c))
        /\ raced' = raced /\ sets' = sets /\ log' = log
        /\ db' = [db EXCEPT ![c.key] = Number(v)]
        /\ DOMAIN db = Key /\ c.key \in Key /\ n \in Int /\ TypeOK /\ Logged
        /\ db[k].kind # "zset" /\ db[k].val \in Integer64 /\ v \in Integer64
        /\ MinInt \in Int /\ MaxInt \in Int
    BY CommandShape, CommandAssumption DEF CommandAssumption, CanAdd, IncrBy, CommandsInv, KeyInv, TypeOK, Request
  <1>2. /\ Whole(Content(k)) /\ db[k].val \in Int /\ db[k].kind \in {"none", "string"}
        /\ db[k].kind = "none" => Content(k) = Absent /\ db[k].val = 0
        /\ db[k].kind = "string" => Content(k) = <<"string", db[k].val, NoMember>>
        /\ Content(k)[1] = "string" <=> db[k].kind = "string"
        /\ Whole(Replayed(k))
    BY <1>1, ContentRight DEF Logged
  <1>3. db'[k] = Number(v) /\ db'[k].kind = "string" /\ v \in Int
    BY <1>1, <1>2 DEF Number
  <1>4. /\ \A h \in Loop : h # l => run'[h] = run[h]
        /\ run'[l].cmd = c
        /\ \A op : Owes(l, k, op)' <=> op = "incrby"
    BY <1>1, LoggingRuns
  <1>5. Content(k)' = <<"string", v, NoMember>> /\ Replayed(k)' = Replayed(k)
    BY <1>1, <1>3, ContentNext, ReplayedStays
  <1>6. ASSUME Free(k)', MeantAt(k), HandlingAt(k) PROVE MeantAt(k)'
    <2> SUFFICES ASSUME NEW e, NEW D, e = Replayed(k)', D = Content(k)'
                 PROVE  Settled(k, e, D)'
      BY DEF MeantAt
    <2> DEFINE C == Content(k)
    <2>1. e = Replayed(k) /\ D = <<"string", v, NoMember>> /\ Settled(k, e, C) /\ Whole(e)
      BY <1>2, <1>5, <1>6 DEF MeantAt
    <2>2. /\ \A h \in Loop : Works(h, k) =>
               /\ run[h].cmd.op \in {"incrby", "zadd", "zincrby"}
               /\ run[h].cmd.op = "incrby" => (n < 0 <=> run[h].cmd.val[1] < 0)
          /\ ~Works(l, k)
      <3>1. /\ ~Works(l, k)
            /\ \A h \in Loop : h # l /\ Works(h, k) => Commute(c, run[h].cmd)
        BY <1>1, <1>4, <1>6, BegunCompatible
      <3>2. QED
        BY <1>1, <3>1, CommuteOps
    <2>3. \A h \in Loop : h # l => /\ Works(h, k)' <=> Works(h, k)
                                   /\ \A op : Owes(h, k, op)' <=> Owes(h, k, op)
      BY <1>4, OthersAlike, AlikeOwes
    <2>4. /\ ~Owed(k, "del") /\ ~Owed(k, "set") /\ ~Owed(k, "del")' /\ ~Owed(k, "set")'
          /\ Owed(k, "incrby")'
      BY <1>4, <2>2, <2>3 DEF Owed, Owes, Owing
    <2>5. \E up, down, u, d \in Nat :
             /\ up = Total(Ups(k)) /\ down = Total(Downs(k))
             /\ u = Total(Ups(k))' /\ d = Total(Downs(k))'
             /\ n >= 0 => u = up + n /\ d = down /\ down = 0
             /\ n < 0 => u = up /\ d = down - n /\ up = 0
      <3>1. /\ Ups(k)[l] = 0 /\ Ups(k)'[l] = IF n >= 0 THEN n ELSE 0
            /\ Downs(k)[l] = 0 /\ Downs(k)'[l] = IF n < 0 THEN -n ELSE 0
        BY <1>4, <2>2 DEF Ups, Downs, Owes, Owing
      <3>2. Ups(k)'[l] \in Nat /\ Downs(k)'[l] \in Nat
        BY <1>1, <3>1
      <3>3. PICK up, down, u, d \in Nat :
               /\ up = Total(Ups(k)) /\ down = Total(Downs(k))
               /\ u = Total(Ups(k))' /\ d = Total(Downs(k))'
               /\ u = up - Ups(k)[l] + Ups(k)'[l] /\ d = down - Downs(k)[l] + Downs(k)'[l]
        BY <1>4, <3>2, SumsMove
      <3>4. n >= 0 => down = 0
        <4>1. n >= 0 => \A h \in Loop : Downs(k)[h] = 0
          BY <1>1, <2>2 DEF Downs, Owes, Owing
        <4>2. QED
          BY <3>3, <4>1, SumTypes, TotalNone
      <3>5. n < 0 => up = 0
        <4>1. n < 0 => \A h \in Loop : Ups(k)[h] = 0
          <5>1. ASSUME n < 0, NEW h \in Loop, Owes(h, k, "incrby") PROVE ~(run[h].cmd.val[1] >= 0)
            <6>1. run[h].cmd \in Command /\ run[h].cmd.op = "incrby" /\ Works(h, k)
              BY <5>1, <1>1, DoingShape DEF Owes, Owing, Works, Running
            <6>2. run[h].cmd.val[1] \in Int /\ run[h].cmd.val[1] < 0
              BY <2>2, <5>1, <6>1, CommandShape
            <6>3. QED
              BY <6>2
          <5>2. QED
            BY <5>1 DEF Ups
        <4>2. QED
          BY <3>3, <4>1, SumTypes, TotalNone
      <3>6. /\ n >= 0 => u = up + n /\ d = down
            /\ n < 0 => u = up /\ d = down - n
        BY <1>1, <3>1, <3>3
      <3>7. QED
        BY <3>3, <3>4, <3>5, <3>6
    <2>p. PICK up, down, u, d \in Nat :
             /\ up = Total(Ups(k)) /\ down = Total(Downs(k))
             /\ u = Total(Ups(k))' /\ d = Total(Downs(k))'
             /\ n >= 0 => u = up + n /\ d = down /\ down = 0
             /\ n < 0 => u = up /\ d = down - n /\ up = 0
      BY <2>5
    <2>q. ASSUME NEW w \in Int, db[k].val = w + (up - down), Within(k, w),
                 Owed(k, "incrby") \/ (up = 0 /\ down = 0)
          PROVE  v = w + Added(k)' /\ Within(k, w)'
      <3>1. v = w + (u - d)
        <4>1. v = w + (up - down) + n /\ n \in Int
          BY <1>1, <2>q
        <4> HIDE DEF v, n
        <4>2. CASE n >= 0
          BY <2>p, <2>q, <4>1, <4>2
        <4>3. CASE n < 0
          BY <2>p, <2>q, <4>1, <4>3
        <4>4. QED
          BY <4>1, <4>2, <4>3
      <3>2. MinInt <= v /\ v <= MaxInt /\ MinInt <= db[k].val /\ db[k].val <= MaxInt
        BY <1>1 DEF Integer64
      <3>3. w + u <= MaxInt /\ MinInt <= w - d
        <4>1. CASE Owed(k, "incrby")
          <5>1. w + up <= MaxInt /\ MinInt <= w - down
            BY <2>p, <2>q, <4>1 DEF Within
          <5>2. QED
            BY <1>1, <2>p, <3>1, <3>2, <5>1
        <4>2. CASE up = 0 /\ down = 0
          BY <1>1, <2>p, <2>q, <3>1, <3>2, <4>2
        <4>3. QED
          BY <2>q, <4>1, <4>2
      <3>4. Within(k, w)'
        BY <2>p, <3>3 DEF Within
      <3>5. QED
        BY <2>p, <3>1, <3>4 DEF Added
    <2>6. CASE Counted(k, e, C)
      <3>1. C = <<"string", e[2] + Added(k), NoMember>> /\ Within(k, e[2])
        BY <2>6 DEF Counted
      <3>2. C[1] = "string" /\ C[2] = e[2] + Added(k)
        BY <3>1
      <3>3. db[k].val = e[2] + (up - down) /\ e[2] \in Int
        BY <1>2, <2>1, <2>p, <3>2, WholeParts DEF Added
      <3>0. PICK w : w = e[2]
        OBVIOUS
      <3>4. v = w + Added(k)' /\ Within(k, w)'
        <4>1. Owed(k, "incrby") \/ (up = 0 /\ down = 0)
          BY <2>p, NobodyCounts
        <4>2. QED
          BY <2>q, <3>0, <3>1, <3>3, <4>1
      <3>5. \/ e[1] = "string"
            \/ e = Absent /\ \A h \in Loop : Works(h, k)' => run'[h].cmd.op \notin OfSets
        BY <1>1, <1>4, <2>3, <2>6 DEF Counted, OfSets
      <3>6. Counted(k, e, D)'
        BY <2>1, <2>4, <3>0, <3>4, <3>5 DEF Counted, NoMember, Absent, Seen
      <3>7. QED
        BY <3>6 DEF Settled
    <2>7. CASE Gathered(k, e, C)
      <3>1. /\ db[k].kind = "none" /\ C = Absent /\ db[k].val = 0 /\ e[1] # "string"
            /\ ~Owed(k, "incrby")
            /\ \A m \in Member : MemberSettled(k, m, e[3][m], C[3][m])
        BY <1>2, <2>7 DEF Gathered
      <3>2. \A h \in Loop : Works(h, k) => run[h].cmd.op \notin OfSets
        BY <1>6, <2>2, <3>1 DEF HandlingAt, OfSets
      <3>3. ASSUME NEW m \in Member PROVE e[3][m] = C[3][m]
        <4>1. e[3][m] \in Nat
          BY <2>1, WholeParts
        <4>2. QED
          BY <3>1, <3>2, <4>1, NobodyOwes DEF Owing
      <3>4. e = Absent
        BY <1>2, <2>1, <3>1, <3>3, SameMembers, AbsentWhole
      <3>0. PICK w : w = e[2]
        OBVIOUS
      <3>5. v = w + Added(k)' /\ Within(k, w)'
        <4>1. up = 0 /\ down = 0
          BY <2>p, <3>1, NobodyCounts
        <4>2. w = 0
          BY <3>0, <3>4, AbsentWhole
        <4>3. Within(k, w)
          BY <3>1 DEF Within
        <4>4. QED
          BY <2>q, <3>1, <4>1, <4>2, <4>3
      <3>6. \A h \in Loop : Works(h, k)' => run'[h].cmd.op \notin OfSets
        BY <1>1, <1>4, <2>3, <3>2 DEF OfSets
      <3>7. Counted(k, e, D)'
        BY <2>1, <2>4, <3>0, <3>4, <3>5, <3>6 DEF Counted, NoMember, Absent, Seen
      <3>8. QED
        BY <3>7 DEF Settled
    <2>8. ~Deleted(k, C) /\ ~Overset(k, C)
      BY <2>4 DEF Deleted, Overset, Owed
    <2>9. QED
      BY <2>1, <2>6, <2>7, <2>8 DEF Settled
  <1>7. QED
    BY <1>1, <1>3, <1>6, LoggingStep

-----------------------------------------------------------------------------
(* A set acquired and entered. *)

\* A loop that is at, or comes to, a place where it owes nothing yet.
LEMMA OwesNothing ==
  ASSUME NEW l \in Loop, NEW k,
         run[l].at \notin {"log", "removed"} \/ ~Works(l, k),
         run'[l].at \notin {"log", "removed"} \/ ~Works(l, k)'
  PROVE  Alike(l, k)
  BY DEF Alike, Owing, Todo

\* Commands that change no content: they are refused, or take hold of a set.
LEMMA HeldKeeps ==
  ASSUME CommandsInv, KeyInv, NEW l \in Loop, NEW c \in Command, Begun(l, c),
         raced' = raced, log' = log,
         \A h \in Loop : h # l => run'[h] = run[h],
         \/ run'[l] = run[l]
         \/ \E i : /\ run'[l] = [at |-> "held", cmd |-> c, set |-> i]
                   /\ db'[c.key].kind = "zset" /\ db'[c.key].set = i
                   /\ Content(c.key)[1] # "string" /\ c.op \in OfSets,
         \A k \in Key : k # c.key =>
             /\ db'[k] = db[k]
             /\ db[k].kind = "zset" => sets'[db[k].set] = sets[db[k].set],
         Content(c.key)' = Content(c.key),
         db'[c.key].kind # "string" => db'[c.key].val = 0,
         \/ db'[c.key] = db[c.key]
         \/ db[c.key].kind = "none" /\ db'[c.key].kind = "zset" /\ c.op \in {"zadd", "zincrby"}
  PROVE  KeyInv'
  <1> DEFINE key == c.key
  <1>1. ~Running(l) /\ run[l].at = "idle"
    BY DEF Begun, Idle, Running
  <1>2. \/ run'[l] = run[l]
        \/ run'[l].cmd = c /\ run'[l].at = "held" /\ run'[l].cmd.key = key
    <2>1. CASE run'[l] = run[l]
      BY <2>1
    <2>2. CASE run'[l] # run[l]
      <3>1. PICK i : run'[l] = [at |-> "held", cmd |-> c, set |-> i]
        BY <2>2
      <3>2. QED
        BY <3>1
    <2>3. QED
      BY <2>1, <2>2
  <1>3. /\ Compatible' /\ key \in Key /\ \A k : ~Works(l, k)
        /\ \A k \in Key : Free(k)' => Free(k)
        /\ Free(key)' => \A h \in Loop : h # l /\ Works(h, key) => Commute(c, run[h].cmd)
    BY <1>2, BegunCompatible
  <1>4. run'[l].at \in {"idle", "held"}
    BY <1>1, <1>2
  <1>5. Placed'
    BY <1>4, PlacedAfter DEF KeyInv
  <1>6. \A k : Replayed(k)' = Replayed(k)
    BY ReplayedStays
  <1>7. Moves(l, key)
    <2>1. ~Running(l)' \/ run'[l].cmd.key = key
      BY <1>1, <1>2 DEF Running
    <2>2. QED
      BY <1>1, <1>3, <1>6, <2>1, Moved
  <1>8. \A h \in Loop : h # l => Alike(h, key) /\ (Works(h, key)' <=> Works(h, key))
    BY OthersAlike
  <1>9. Alike(l, key)
    BY <1>1, <1>4, OwesNothing
  <1>10. ASSUME MeantAt(key) PROVE MeantAt(key)'
    <2>1. Content(key)[1] = "string" => ~Works(l, key)'
      BY <1>1 DEF Works, Running
    <2>2. Content(key)[1] = "string" =>
             \A h \in Loop : Works(h, key)' => Works(h, key) /\ run'[h].cmd.op = run[h].cmd.op
      BY <1>8, <2>1
    <2>3. \A h \in Loop : Alike(h, key)
      BY <1>8, <1>9
    <2>4. QED
      BY <1>6, <1>10, <2>2, <2>3, MeantStays
  <1>11. ASSUME HandlingAt(key), Free(key)' PROVE HandlingAt(key)'
    <2> SUFFICES ASSUME NEW h \in Loop, Works(h, key)'
                 PROVE  /\ run'[h].cmd.op \in {"zadd", "zincrby"} => db'[key].kind # "none"
                        /\ run'[h].at \in {"held", "inside"} /\ db'[key].kind = "zset" =>
                              db'[key].set = run'[h].set
      BY DEF HandlingAt
    <2>1. CASE h = l
      <3>1. PICK i : /\ run'[l] = [at |-> "held", cmd |-> c, set |-> i]
                     /\ db'[key].kind = "zset" /\ db'[key].set = i
        BY <1>1, <2>1 DEF Works, Running
      <3>2. QED
        BY <2>1, <3>1
    <2>2. CASE h # l
      <3>1. /\ Works(h, key) /\ run'[h] = run[h] /\ Commute(c, run[h].cmd)
            /\ run[h].cmd.op \in {"zadd", "zincrby"} => db[key].kind # "none"
            /\ run[h].at \in {"held", "inside"} /\ db[key].kind = "zset" => db[key].set = run[h].set
        BY <1>3, <1>8, <1>11, <2>2 DEF HandlingAt
      <3>2. CASE db'[key] = db[key]
        BY <3>1, <3>2
      <3>3. CASE db[key].kind = "none" /\ db'[key].kind = "zset" /\ c.op \in {"zadd", "zincrby"}
        <4>1. run[h].cmd.op \in {"set", "incrby"}
          BY <3>1, <3>3, CommuteOps
        <4>2. run[h].at \notin {"held", "inside"}
          BY <4>1 DEF CommandsInv, Owned
        <4>3. QED
          BY <3>1, <3>3, <4>1, <4>2
      <3>4. QED
        BY <3>2, <3>3
    <2>3. QED
      BY <2>1, <2>2
  <1>12. Whole(Replayed(key)')
    BY <1>3, <1>6 DEF KeyInv, Logged
  <1>13. QED
    BY <1>3, <1>5, <1>7, <1>10, <1>11, <1>12, KeyStep

\* A command that leaves all as it is.
LEMMA RefusedKeeps ==
  ASSUME CommandsInv, KeyInv, NEW l \in Loop, NEW c \in Command, Begun(l, c),
         raced' = raced, log' = log, run' = run, db' = db, sets' = sets
  PROVE  KeyInv'
  <1>1. c.key \in Key
    BY CommandShape DEF Request
  <1>2. Content(c.key)' = Content(c.key)
    BY DEF Content, Seen, NoMember
  <1>3. db'[c.key].kind # "string" => db'[c.key].val = 0
    BY <1>1 DEF KeyInv, Logged
  <1>4. QED
    BY <1>2, <1>3, HeldKeeps

LEMMA CreateKeeps ==
  ASSUME CommandsInv, KeyInv, NEW l \in Loop, NEW c \in Command, AcquireOrCreate(l, c),
         db[c.key].kind = "none"
  PROVE  KeyInv'
  <1> DEFINE key == c.key
             new == Len(sets) + 1
  <1>1. /\ TypeOK /\ Logged /\ Begun(l, c) /\ key \in Key
        /\ log' = log /\ raced' = raced /\ c.op \in {"zadd", "zincrby"}
        /\ sets' = Append(sets, NoMember)
        /\ db' = [db EXCEPT ![key] = ZSetAt(new)]
        /\ run' = run \/ run' = [run EXCEPT ![l] = [at |-> "held", cmd |-> c, set |-> new]]
    BY CommandShape DEF CommandsInv, KeyInv, AcquireOrCreate, Holding, Request
  <1>2. /\ sets'[new] = NoMember /\ \A i \in DOMAIN sets : sets'[i] = sets[i]
    BY <1>1, Grown
  <1>3. /\ Content(key) = Absent /\ Content(key)[1] # "string"
        /\ \A k \in Key : db[k].kind = "zset" => db[k].set \in DOMAIN sets
    BY <1>1, ContentRight, AbsentWhole
  <1>4. /\ db'[key].kind = "zset" /\ db'[key].set = new /\ db'[key].val = 0
        /\ \A k \in Key : k # key => db'[k] = db[k]
    BY <1>1 DEF ZSetAt, TypeOK
  <1>5. Content(key)' = Content(key)
    BY <1>2, <1>3, <1>4 DEF Content, Seen, Absent, NoMember
  <1>6. /\ \A h \in Loop : h # l => run'[h] = run[h]
        /\ \/ run'[l] = run[l]
           \/ run'[l] = [at |-> "held", cmd |-> c, set |-> new]
    BY <1>1 DEF TypeOK
  <1>7. \/ run'[l] = run[l]
        \/ \E i : /\ run'[l] = [at |-> "held", cmd |-> c, set |-> i]
                  /\ db'[key].kind = "zset" /\ db'[key].set = i
                  /\ Content(key)[1] # "string" /\ c.op \in OfSets
    BY <1>1, <1>3, <1>4, <1>6 DEF OfSets
  <1>8. \A k \in Key : k # key =>
             /\ db'[k] = db[k]
             /\ db[k].kind = "zset" => sets'[db[k].set] = sets[db[k].set]
    BY <1>2, <1>3, <1>4
  <1> HIDE DEF new
  <1>9. QED
    BY <1>1, <1>4, <1>5, <1>6, <1>7, <1>8, HeldKeeps

LEMMA AcquireKeeps ==
  ASSUME CommandsInv, KeyInv, NEW l \in Loop, NEW c \in Command,
         \/ Acquire(l, c)
         \/ AcquireOrCreate(l, c) /\ db[c.key].kind # "none"
  PROVE  KeyInv'
  <1> DEFINE key == c.key
  <1>1. /\ TypeOK /\ Logged /\ Begun(l, c) /\ key \in Key
        /\ log' = log /\ raced' = raced /\ c.op \in OfSets /\ sets' = sets /\ db' = db
        /\ \/ run' = run
           \/ /\ db[key].kind = "zset"
              /\ run' = [run EXCEPT ![l] = [at |-> "held", cmd |-> c, set |-> db[key].set]]
    BY CommandShape DEF CommandsInv, KeyInv, Acquire, AcquireOrCreate, Holding, Request, OfSets
  <1>2. Content(key)[1] = "string" <=> db[key].kind = "string"
    BY <1>1, ContentRight
  <1>3. Content(key)' = Content(key)
    BY <1>1 DEF Content, Seen, NoMember
  <1>4. /\ \A h \in Loop : h # l => run'[h] = run[h]
        /\ \/ run'[l] = run[l]
           \/ /\ db[key].kind = "zset"
              /\ run'[l] = [at |-> "held", cmd |-> c, set |-> db[key].set]
    BY <1>1 DEF TypeOK
  <1>5. \/ run'[l] = run[l]
        \/ \E i : /\ run'[l] = [at |-> "held", cmd |-> c, set |-> i]
                  /\ db'[key].kind = "zset" /\ db'[key].set = i
                  /\ Content(key)[1] # "string" /\ c.op \in OfSets
    BY <1>1, <1>2, <1>4
  <1>6. db'[key].kind # "string" => db'[key].val = 0
    BY <1>1 DEF Logged
  <1>7. db' = db /\ sets' = sets
    BY <1>1
  <1>8. QED
    BY <1>1, <1>3, <1>4, <1>5, <1>6, <1>7, HeldKeeps

-----------------------------------------------------------------------------
\* A loop goes on without a change that shows.
LEMMA GoneOnKeeps ==
  ASSUME CommandsInv, KeyInv, NEW l \in Loop, NEW key \in Key, Works(l, key),
         crossed' = crossed, raced \subseteq raced', log' = log, sets' = sets,
         \A h \in Loop : h # l => run'[h] = run[h],
         ~Running(l)' \/ run'[l].cmd = run[l].cmd,
         Alike(l, key), Content(key)' = Content(key),
         \A k \in Key : k # key => db'[k] = db[k],
         db'[key].kind # "string" => db'[key].val = 0,
         run'[l].at \in {"log", "removed"} => Ending(run'[l].todo, Records(run'[l].cmd)),
         run'[l].at = "removed" => run'[l].cmd.op = "zrem",
         Free(key) /\ HandlingAt(key) => HandlingAt(key)'
  PROVE  KeyInv'
  <1>1. /\ Compatible' /\ (\A k \in Key : Free(k)' => Free(k))
        /\ \A k : Works(l, k)' => Works(l, k) /\ run'[l].cmd = run[l].cmd
    BY GoneOnCompatible DEF Works
  <1>2. Placed'
    BY PlacedAfter DEF KeyInv
  <1>3. \A k : Replayed(k)' = Replayed(k)
    BY ReplayedStays
  <1>4. Moves(l, key)
    BY <1>3, Moved DEF Works
  <1>5. \A h \in Loop : h # l => Alike(h, key) /\ (Works(h, key)' <=> Works(h, key))
    BY OthersAlike
  <1>6. ASSUME MeantAt(key) PROVE MeantAt(key)'
    <2>1. \A h \in Loop : Works(h, key)' => Works(h, key) /\ run'[h].cmd.op = run[h].cmd.op
      BY <1>1, <1>5
    <2>2. \A h \in Loop : Alike(h, key)
      BY <1>5
    <2>3. QED
      BY <1>3, <1>6, <2>1, <2>2, MeantStays
  <1>7. Whole(Replayed(key)')
    BY <1>3 DEF KeyInv, Logged
  <1>8. QED
    BY <1>1, <1>2, <1>4, <1>6, <1>7, KeyStep

LEMMA EnterKeeps ==
  ASSUME CommandsInv, KeyInv, NEW l \in Loop, Enter(l)
  PROVE  KeyInv'
  <1>0. PICK key : key = run[l].cmd.key
    OBVIOUS
  <1>1. /\ TypeOK /\ run[l].at = "held" /\ run' = [run EXCEPT ![l].at = "inside"]
        /\ db' = db /\ sets' = sets /\ log' = log /\ crossed' = crossed
        /\ raced \subseteq raced'
    BY DEF CommandsInv, Enter
  <1>2. run[l] \in [at : {"held", "inside"}, cmd : Command, set : DOMAIN sets]
    BY <1>1 DEF TypeOK, Doing
  <1>3. /\ run'[l].at = "inside" /\ run'[l].cmd = run[l].cmd /\ run'[l].set = run[l].set
        /\ \A h \in Loop : h # l => run'[h] = run[h]
    BY <1>1, <1>2 DEF TypeOK
  <1>4. key \in Key /\ Works(l, key)
    BY <1>0, <1>1, <1>2, CommandShape DEF Request, Works, Running
  <1>5. Alike(l, key)
    BY <1>1, <1>3, OwesNothing
  <1>6. Content(key)' = Content(key)
    BY <1>1 DEF Content, Seen, NoMember
  <1>7. ASSUME HandlingAt(key) PROVE HandlingAt(key)'
    <2>1. \A h \in Loop : Works(h, key)' =>
             /\ Works(h, key) /\ run'[h].cmd = run[h].cmd
             /\ run'[h].at \in {"held", "inside"} =>
                   run[h].at \in {"held", "inside"} /\ run'[h].set = run[h].set
      BY <1>1, <1>3, <1>4 DEF Works, Running
    <2>2. QED
      BY <1>1, <1>7, <2>1 DEF HandlingAt
  <1>8. db'[key].kind # "string" => db'[key].val = 0
    BY <1>1, <1>4 DEF KeyInv, Logged
  <1>9. QED
    BY <1>1, <1>3, <1>4, <1>5, <1>6, <1>7, <1>8, GoneOnKeeps

LEMMA RemoveIfEmptyKeeps ==
  ASSUME CommandsInv, KeyInv, NEW l \in Loop, RemoveIfEmptyZSet(l)
  PROVE  KeyInv'
  <1>0. PICK key : key = run[l].cmd.key
    OBVIOUS
  <1> DEFINE empty == db[key].kind = "zset" /\ sets[db[key].set] = NoMember
             d == Done(run[l].todo, run[l].cmd)
  <1>1. /\ TypeOK /\ Logged /\ Placed /\ run[l].at = "removed"
        /\ db' = IF empty THEN [db EXCEPT ![key] = None] ELSE db
        /\ run' = [run EXCEPT ![l] = d]
        /\ sets' = sets /\ log' = log /\ crossed' = crossed /\ raced' = raced
    BY <1>0 DEF CommandsInv, KeyInv, RemoveIfEmptyZSet, history
  <1>2. /\ Running(l) /\ run[l].cmd \in Command /\ key \in Key
        /\ Todo(l) = run[l].todo /\ Ending(Todo(l), Records(run[l].cmd))
        /\ run[l].cmd.op = "zrem"
    BY <1>0, <1>1, DebtShape DEF Running, Placed, Todo
  <1>3. Works(l, key)
    BY <1>0, <1>2 DEF Works
  <1>4. run'[l] = d /\ \A h \in Loop : h # l => run'[h] = run[h]
    BY <1>1 DEF TypeOK
  <1>5. \/ Todo(l) = <<>> /\ run'[l] = Idle
        \/ Todo(l) # <<>> /\ run'[l] = [at |-> "log", cmd |-> run[l].cmd, todo |-> Todo(l)]
    BY <1>2, <1>4 DEF Done
  <1>6. /\ ~Running(l)' \/ run'[l].cmd = run[l].cmd
        /\ run'[l].at \in {"log", "removed"} => Ending(run'[l].todo, Records(run'[l].cmd))
        /\ run'[l].at \notin {"removed", "held", "inside"}
    BY <1>2, <1>5 DEF Running, Idle
  <1>7. Alike(l, key)
    <2>1. CASE Todo(l) = <<>>
      <3>1. ~Running(l)' /\ ~Owing(l, key)
        BY <1>5, <2>1 DEF Running, Idle, Owing
      <3>2. QED
        BY <3>1 DEF Alike, Owing, Works
    <2>2. CASE Todo(l) # <<>>
      <3>1. run'[l].at = "log" /\ run'[l].cmd = run[l].cmd /\ run'[l].todo = Todo(l)
        BY <1>5, <2>2
      <3>2. Todo(l)' = Todo(l)
        BY <3>1 DEF Todo
      <3>3. QED
        BY <1>3, <2>2, <3>1, <3>2 DEF Alike, Owing, Works, Running
    <2>3. QED
      BY <2>1, <2>2
  <1>8. /\ db'[key] = IF empty THEN None ELSE db[key]
        /\ \A k \in Key : k # key => db'[k] = db[k]
    BY <1>1, <1>2 DEF TypeOK
  <1>9. Content(key)' = Content(key)
    <2>1. CASE empty
      <3>1. Content(key) = Absent
        BY <1>1, <1>2, <2>1, ContentRight, SetWhole, NobodyType
      <3>2. db'[key] = None
        BY <1>8, <2>1
      <3>3. Content(key)' = Absent
        BY <3>2 DEF Content, None, Absent, Seen, NoMember
      <3>4. QED
        BY <3>1, <3>3
    <2>2. CASE ~empty
      BY <1>1, <2>2 DEF Content, Seen, NoMember
    <2>3. QED
      BY <2>1, <2>2
  <1>10. db'[key].kind # "string" => db'[key].val = 0
    BY <1>1, <1>2, <1>8 DEF Logged, None
  <1>11. ASSUME Free(key), HandlingAt(key) PROVE HandlingAt(key)'
    <2> SUFFICES ASSUME NEW h \in Loop, Works(h, key)'
                 PROVE  /\ run'[h].cmd.op \in {"zadd", "zincrby"} => db'[key].kind # "none"
                        /\ run'[h].at \in {"held", "inside"} /\ db'[key].kind = "zset" =>
                              db'[key].set = run'[h].set
      BY DEF HandlingAt
    <2>1. CASE h = l
      <3>1. run'[l].cmd = run[l].cmd /\ run'[l].at \notin {"held", "inside"}
        BY <1>6, <2>1 DEF Works
      <3>2. QED
        BY <1>2, <2>1, <3>1
    <2>2. CASE h # l
      <3>1. Works(h, key) /\ run'[h] = run[h]
        BY <1>4, <2>2, OthersAlike
      <3>2. Commute(run[l].cmd, run[h].cmd)
        BY <1>2, <1>3, <1>11, <2>2, <3>1, Overlaps DEF KeyInv
      <3>3. run[h].cmd.op \notin {"zadd", "zincrby"}
        BY <1>2, <3>2, CommuteOps
      <3>4. db'[key].kind = "zset" => db'[key] = db[key]
        BY <1>8 DEF None
      <3>5. QED
        BY <1>11, <3>1, <3>3, <3>4 DEF HandlingAt
    <2>3. QED
      BY <2>1, <2>2
  <1>12. QED
    BY <1>1, <1>2, <1>3, <1>4, <1>6, <1>7, <1>8, <1>9, <1>10, <1>11, GoneOnKeeps

-----------------------------------------------------------------------------
(* A set changed: what is owed for a member. *)

\* What is left to log is among what the command logs.
LEMMA TodoRecord ==
  ASSUME CommandsInv, Placed, NEW l \in Loop, Running(l)
  PROVE  \A i \in DOMAIN Todo(l) :
            \E j \in DOMAIN Records(run[l].cmd) : Todo(l)[i] = Records(run[l].cmd)[j]
  <1> DEFINE t == Todo(l)
             r == Records(run[l].cmd)
  <1>1. /\ t \in Seq(Request) /\ r \in Seq(Request) /\ Ending(t, r)
    BY DebtShape, RecordsRight
  <1> HIDE DEF t, r
  <1>2. /\ DOMAIN t = 1 .. Len(t) /\ DOMAIN r = 1 .. Len(r) /\ Len(t) \in Nat /\ Len(r) \in Nat
        /\ Len(t) <= Len(r) /\ \A i \in DOMAIN t : t[i] = r[Len(r) - Len(t) + i]
    BY <1>1, LenProperties DEF Ending
  <1>3. \A i \in DOMAIN t : Len(r) - Len(t) + i \in DOMAIN r
    BY <1>2
  <1>4. \A i \in DOMAIN t : \E j \in DOMAIN r : t[i] = r[j]
    BY <1>2, <1>3
  <1>5. QED
    BY <1>4 DEF t, r

LEMMA ScoresMember ==
  ASSUME CommandsInv, Placed, NEW l \in Loop, NEW k, NEW m, NEW x, Scores(l, k, m, x)
  PROVE  m \in Members(run[l].cmd)
  <1> DEFINE c == run[l].cmd
  <1>1. Running(l) /\ c.op = "zadd"
    BY DEF Scores, Owes, Owing, Works
  <1>2. PICK i \in DOMAIN Todo(l) : Todo(l)[i].arg = <<m>>
    BY DEF Scores
  <1>3. PICK j \in DOMAIN Records(c) : Todo(l)[i] = Records(c)[j]
    BY <1>1, TodoRecord
  <1>4. c \in Command
    BY <1>1, DebtShape
  <1>5. j \in DOMAIN c.arg /\ Records(c)[j].arg = <<c.arg[j]>>
    BY <1>1, <1>4, RecordsShape
  <1>6. <<m>>[1] = m /\ <<c.arg[j]>>[1] = c.arg[j]
    OBVIOUS
  <1>7. m = c.arg[j]
    BY <1>2, <1>3, <1>5, <1>6
  <1>8. QED
    BY <1>5, <1>7 DEF Members, ToSet

\* A member that the step of a loop does not concern.
LEMMA MemberSame ==
  ASSUME CommandsInv, NEW l \in Loop, \A h \in Loop : h # l => run'[h] = run[h],
         NEW k, NEW m, NEW old, NEW new, MemberSettled(k, m, old, new),
         \A x : Scores(l, k, m, x)' <=> Scores(l, k, m, x),
         Removes(l, k, m)' <=> Removes(l, k, m),
         ZIncs(k, m)'[l] = ZIncs(k, m)[l]
  PROVE  MemberSettled(k, m, old, new)'
  <1>1. \A h \in Loop : /\ \A x : Scores(h, k, m, x)' <=> Scores(h, k, m, x)
                        /\ Removes(h, k, m)' <=> Removes(h, k, m)
                        /\ ZIncs(k, m)'[h] = ZIncs(k, m)[h]
    <2> SUFFICES ASSUME NEW h \in Loop, h # l
                 PROVE  /\ \A x : Scores(h, k, m, x)' <=> Scores(h, k, m, x)
                        /\ Removes(h, k, m)' <=> Removes(h, k, m)
                        /\ ZIncs(k, m)'[h] = ZIncs(k, m)[h]
      OBVIOUS
    <2>1. Alike(h, k)
      BY OthersAlike
    <2>2. QED
      BY <2>1, AlikeOwes
  <1>2. ZIncs(k, m)' = ZIncs(k, m)
    BY <1>1 DEF ZIncs
  <1>3. Total(ZIncs(k, m))' = Total(ZIncs(k, m))
    BY <1>2 DEF Total
  <1>4. QED
    BY <1>1, <1>2, <1>3 DEF MemberSettled

\* The debts of the other loops stay.
LEMMA OwedStays ==
  ASSUME CommandsInv, NEW l \in Loop, \A h \in Loop : h # l => run'[h] = run[h], NEW k, NEW op,
         Owes(l, k, op)' <=> Owes(l, k, op)
  PROVE  Owed(k, op)' <=> Owed(k, op)
  <1>1. \A h \in Loop : h # l => (Owes(h, k, op)' <=> Owes(h, k, op))
    BY OthersAlike, AlikeOwes
  <1>2. QED
    BY <1>1 DEF Owed

LEMMA IncsStay ==
  ASSUME CommandsInv, NEW l \in Loop, \A h \in Loop : h # l => run'[h] = run[h], NEW k,
         ~Owes(l, k, "incrby"), ~Owes(l, k, "incrby")'
  PROVE  Added(k)' = Added(k) /\ \A v : Within(k, v) => Within(k, v)'
  <1>1. \A h \in Loop : h # l => Ups(k)'[h] = Ups(k)[h] /\ Downs(k)'[h] = Downs(k)[h]
    BY OthersAlike, AlikeOwes
  <1>2. Ups(k)'[l] = Ups(k)[l] /\ Downs(k)'[l] = Downs(k)[l]
    BY DEF Ups, Downs
  <1>3. Ups(k)' = Ups(k) /\ Downs(k)' = Downs(k)
    BY <1>1, <1>2 DEF Ups, Downs
  <1>4. Total(Ups(k))' = Total(Ups(k)) /\ Total(Downs(k))' = Total(Downs(k))
    BY <1>3 DEF Total
  <1>5. Owed(k, "incrby")' <=> Owed(k, "incrby")
    BY OwedStays
  <1>6. \A v : Within(k, v) => Within(k, v)'
    BY <1>4, <1>5 DEF Within
  <1>7. QED
    BY <1>4, <1>6 DEF Added

\* The loop comes to owe what it did to a member.
LEMMA MemberOwed ==
  ASSUME CommandsInv, Placed, NEW l \in Loop, \A h \in Loop : h # l => run'[h] = run[h],
         NEW k, NEW c \in Command, run[l].cmd = c, ~Owing(l, k), Owing(l, k)',
         run'[l].cmd = c, Todo(l)' = Records(c), c.op \in OfSets,
         \A h \in Loop : h # l /\ Works(h, k) => Commute(c, run[h].cmd),
         NEW m \in Member, NEW old \in Nat, NEW z \in [Member -> Nat],
         MemberSettled(k, m, old, z[m])
  PROVE  MemberSettled(k, m, old, Changed(z, c)[m])'
  <1>1. /\ \A x : ~Scores(l, k, m, x)
        /\ ~Removes(l, k, m) /\ ZIncs(k, m)[l] = 0
        /\ \A op : Owes(l, k, op)' <=> op = c.op
    BY DEF Scores, Removes, ZIncs, Owes
  <1>2. CASE m \notin Members(c)
    <2>1. ASSUME NEW x PROVE ~Scores(l, k, m, x)'
      <3>1. SUFFICES ASSUME Scores(l, k, m, x)' PROVE FALSE
        OBVIOUS
      <3>2. c.op = "zadd"
        BY <1>1, <3>1 DEF Scores
      <3>3. PICK j \in DOMAIN Records(c) : Records(c)[j].arg = <<m>>
        BY <3>1 DEF Scores
      <3>4. j \in DOMAIN c.arg /\ Records(c)[j].arg = <<c.arg[j]>>
        BY <3>2, RecordsShape
      <3>5. <<m>>[1] = m /\ <<c.arg[j]>>[1] = c.arg[j]
        OBVIOUS
      <3>6. m = c.arg[j]
        BY <3>3, <3>4, <3>5
      <3>7. QED
        BY <1>2, <3>4, <3>6 DEF Members, ToSet
    <2>2. ~Removes(l, k, m)' /\ ZIncs(k, m)'[l] = 0
      BY <1>2 DEF Removes, ZIncs
    <2>3. Changed(z, c)[m] = z[m]
      BY <1>2, ChangedMembers
    <2>4. PICK new : new = z[m]
      OBVIOUS
    <2>5. MemberSettled(k, m, old, new)'
      BY <1>1, <2>1, <2>2, <2>4, MemberSame
    <2>6. QED
      BY <2>3, <2>4, <2>5
  <1>3. CASE m \in Members(c) /\ c.op = "zrem"
    <2>1. Removes(l, k, m)'
      BY <1>1, <1>3 DEF Removes
    <2>2. Changed(z, c)[m] = 0
      BY <1>3, ChangedMembers
    <2>3. QED
      BY <2>1, <2>2 DEF MemberSettled
  <1>4. CASE m \in Members(c) /\ c.op = "zadd"
    <2>1. PICK j \in DOMAIN c.arg : c.arg[j] = m
      BY <1>4 DEF Members, ToSet
    <2>2. Changed(z, c)[m] = c.val[j]
      BY <1>4, <2>1, ChangedMembers
    <2>3. j \in DOMAIN Records(c) /\ Records(c)[j].arg = <<m>> /\ Records(c)[j].val = <<c.val[j]>>
      BY <1>4, <2>1, RecordsShape
    <2>4. Scores(l, k, m, c.val[j])'
      BY <1>1, <1>4, <2>3 DEF Scores
    <2>5. QED
      BY <2>2, <2>4 DEF MemberSettled
  <1>5. CASE m \in Members(c) /\ c.op = "zincrby"
    <2>1. ASSUME NEW h \in Loop, h # l
          PROVE  ~Removes(h, k, m) /\ \A x : ~Scores(h, k, m, x)
      <3>1. CASE Works(h, k)
        <4>1. /\ run[h].cmd.op # "zrem"
              /\ run[h].cmd.op = "zadd" => m \notin Members(run[h].cmd)
          BY <1>5, <2>1, <3>1, CommuteOps
        <4>2. \A x : ~Scores(h, k, m, x)
          BY <4>1, ScoresMember DEF Scores, Owes
        <4>3. QED
          BY <4>1, <4>2 DEF Removes, Owes
      <3>2. CASE ~Works(h, k)
        BY <3>2 DEF Removes, Scores, Owes, Owing
      <3>3. QED
        BY <3>1, <3>2
    <2>2. \A h \in Loop : ~Removes(h, k, m) /\ \A x : ~Scores(h, k, m, x)
      BY <1>1, <2>1
    <2>3. z[m] = old + Total(ZIncs(k, m))
      BY <2>2 DEF MemberSettled
    <2>4. ZIncs(k, m)'[l] = c.val[1] /\ c.val[1] \in Nat
      BY <1>1, <1>5, CommandShape DEF ZIncs
    <2>5. Total(ZIncs(k, m))' = Total(ZIncs(k, m)) + c.val[1] /\ Total(ZIncs(k, m)) \in Nat
      <3>1. ZIncs(k, m)'[l] \in Nat
        BY <2>4
      <3>2. /\ Total(ZIncs(k, m))' + ZIncs(k, m)[l] = Total(ZIncs(k, m)) + ZIncs(k, m)'[l]
            /\ Total(ZIncs(k, m)) \in Nat /\ Total(ZIncs(k, m))' \in Nat
        BY <3>1, SumsMove
      <3>3. ZIncs(k, m)[l] = 0
        BY <1>1
      <3>4. QED
        BY <2>4, <3>2, <3>3
    <2>6. Changed(z, c)[m] = z[m] + c.val[1]
      BY <1>5, ChangedMembers
    <2>7. Changed(z, c)[m] = old + Total(ZIncs(k, m))'
      BY <2>3, <2>4, <2>5, <2>6
    <2>8. \A h \in Loop : ~Removes(h, k, m)' /\ \A x : ~Scores(h, k, m, x)'
      <3>1. ~Removes(l, k, m)' /\ \A x : ~Scores(l, k, m, x)'
        BY <1>1, <1>5 DEF Removes, Scores
      <3>2. \A h \in Loop : h # l => /\ Removes(h, k, m)' <=> Removes(h, k, m)
                                     /\ \A x : Scores(h, k, m, x)' <=> Scores(h, k, m, x)
        BY OthersAlike, AlikeOwes
      <3>3. QED
        BY <2>2, <3>1, <3>2
    <2>9. QED
      BY <2>7, <2>8 DEF MemberSettled
  <1>6. QED
    BY <1>2, <1>3, <1>4, <1>5 DEF OfSets

LEMMA LeaveKeeps ==
  ASSUME CommandsInv, KeyInv, NEW l \in Loop, Leave(l)
  PROVE  KeyInv'
  <1>0. PICK key, c, i : key = run[l].cmd.key /\ c = run[l].cmd /\ i = run[l].set
    OBVIOUS
  <1> DEFINE removes == c.op # "zrem" \/ \E m \in Members(c) : sets[i][m] # 0
             records == IF removes THEN Records(c) ELSE <<>>
  <1>1. /\ TypeOK /\ Owned /\ Logged /\ Placed /\ Compatible
        /\ db' = db /\ log' = log /\ crossed' = crossed /\ raced' = raced
        /\ run' = [run EXCEPT ![l] = [at |-> IF c.op = "zrem" THEN "removed" ELSE "log",
                                      cmd |-> c, todo |-> records]]
    BY <1>0 DEF CommandsInv, KeyInv, Leave, history
  <1>2. /\ c \in Command /\ i \in DOMAIN sets
        /\ c.op \in OfSets /\ run[l].at = "inside"
        /\ \A j \in DOMAIN sets : j # i => sets'[j] = sets[j]
        /\ i \notin raced => sets'[i] = Changed(sets[i], c)
        /\ \A h \in Loop : h # l => run'[h] = run[h]
    BY <1>0, LeaveShape DEF OfSets
  <1>3. run'[l] = [at |-> IF c.op = "zrem" THEN "removed" ELSE "log", cmd |-> c, todo |-> records]
    BY <1>1 DEF TypeOK
  <1>4. /\ run'[l].cmd = c /\ run'[l].todo = records
        /\ run'[l].at \in {"removed", "log"} /\ (run'[l].at = "removed" => c.op = "zrem")
    BY <1>3
  <1>5. key \in Key /\ c.key = key /\ Works(l, key) /\ Running(l)
    BY <1>0, <1>2, CommandShape DEF Works, Running, Request
  <1>6. Ending(records, Records(c))
    BY <1>2, EndingAll
  <1>7. /\ Todo(l) = <<>> /\ ~Owing(l, key)
        /\ Todo(l)' = records /\ Works(l, key)' /\ (Owing(l, key)' <=> records # <<>>)
    BY <1>2, <1>4, <1>5 DEF Todo, Owing, Works, Running
  <1>8. /\ Compatible' /\ (\A k \in Key : Free(k)' => Free(k))
    BY <1>0, <1>1, <1>2, <1>4, <1>5, GoneOnCompatible
  <1>9. Placed'
    BY <1>1, <1>2, <1>4, <1>6, PlacedAfter
  <1>10. \A k : Replayed(k)' = Replayed(k)
    BY <1>1, ReplayedStays
  <1>11. Moves(l, key)
    <2>1. ASSUME NEW k \in Key, k # key, db[k].kind = "zset"
          PROVE  sets'[db[k].set] = sets[db[k].set]
      <3>1. db[k].set \in DOMAIN sets /\ db[k].set # i
        BY <1>0, <1>1, <1>2, <2>1, ContentRight DEF Owned
      <3>2. QED
        BY <1>2, <3>1
    <2>2. QED
      BY <1>0, <1>1, <1>2, <1>4, <1>5, <1>10, <2>1, Moved
  <1>12. ASSUME HandlingAt(key) PROVE HandlingAt(key)'
    <2>1. \A h \in Loop : Works(h, key)' =>
             /\ Works(h, key) /\ run'[h].cmd = run[h].cmd
             /\ run'[h].at \in {"held", "inside"} => run'[h] = run[h]
      BY <1>0, <1>2, <1>4, <1>5 DEF Works, Running
    <2>2. QED
      BY <1>1, <1>12, <2>1 DEF HandlingAt
  <1>13. ASSUME MeantAt(key), HandlingAt(key), Free(key) PROVE MeantAt(key)'
    <2> SUFFICES ASSUME NEW e, NEW D, e = Replayed(key)', D = Content(key)'
                 PROVE  Settled(key, e, D)'
      BY DEF MeantAt
    <2>1. PICK C : C = Content(key)
      OBVIOUS
    <2>2. e = Replayed(key) /\ Whole(e) /\ Settled(key, e, C)
      BY <1>5, <1>10, <1>13, <2>1 DEF MeantAt, KeyInv, Logged
    <2>3. sets[i] \in [Member -> Nat] /\ sets'[i] = Changed(sets[i], c)
      <3>1. sets \in Seq([Member -> Nat]) /\ raced = {}
        BY <1>1, <1>13 DEF TypeOK, Free
      <3>2. QED
        BY <1>2, <3>1, ElementOfSeq, LenProperties
    <2>4. /\ Whole(C) /\ (C[1] = "string" <=> db[key].kind = "string")
          /\ db[key].kind \in {"none", "string", "zset"}
          /\ db[key].kind = "none" => C = Absent
      BY <1>1, <1>5, <2>1, ContentRight
    <2>6. db[key].kind = "zset" =>
             /\ C[3] = sets[i] /\ D = Seen("zset", 0, Changed(C[3], c))
             /\ C = Seen("zset", 0, C[3])
      <3> SUFFICES ASSUME db[key].kind = "zset"
                   PROVE  /\ C[3] = sets[i] /\ D = Seen("zset", 0, Changed(C[3], c))
                          /\ C = Seen("zset", 0, C[3])
        OBVIOUS
      <3>1. db[key].set = i
        BY <1>0, <1>2, <1>5, <1>13 DEF HandlingAt
      <3>2. C = Seen("zset", 0, sets[i]) /\ C[3] = sets[i]
        BY <1>1, <1>5, <2>1, <3>1, ContentRight
      <3>3. db[key].val = 0
        BY <1>1, <1>5 DEF Logged
      <3>4. D = Seen("zset", 0, sets'[i])
        BY <1>1, <3>1, <3>3 DEF Content, Seen, NoMember
      <3>5. QED
        BY <2>3, <3>2, <3>4
    <2>7. db[key].kind # "zset" => D = C
      BY <1>1, <2>1 DEF Content, Seen, NoMember
    <2>8. \A h \in Loop : h # l /\ Works(h, key) => Commute(c, run[h].cmd)
      BY <1>0, <1>1, <1>5, <1>13, Overlaps
    <2>9. \A op : op \notin OfSets => ~Owes(l, key, op) /\ ~Owes(l, key, op)'
      BY <1>2, <1>4, <1>7 DEF Owes
    <2>10. /\ \A op : op \notin OfSets => (Owed(key, op)' <=> Owed(key, op))
           /\ Added(key)' = Added(key) /\ \A v : Within(key, v) => Within(key, v)'
      <3>1. \A op : op \notin OfSets => (Owed(key, op)' <=> Owed(key, op))
        BY <1>2, <2>9, OwedStays
      <3>2. "incrby" \notin OfSets
        BY DEF OfSets
      <3>3. QED
        BY <1>2, <2>9, <3>1, <3>2, IncsStay
    <2>11. "del" \notin OfSets /\ "set" \notin OfSets /\ "incrby" \notin OfSets
      BY DEF OfSets
    <2>12. CASE Deleted(key, C)
      <3>1. C = Absent /\ Owed(key, "del")
        BY <2>12 DEF Deleted
      <3>2. PICK h \in Loop : Owes(h, key, "del")
        BY <3>1 DEF Owed
      <3>3. c.op = "zrem"
        <4>1. h # l /\ Works(h, key) /\ run[h].cmd.op = "del"
          BY <2>9, <2>11, <3>2 DEF Owes, Owing
        <4>2. Commute(run[h].cmd, c)
          BY <2>8, <4>1, CommuteSame
        <4>3. QED
          BY <1>2, <4>1, <4>2, CommuteOps DEF OfSets
      <3>4. D = Absent
        <4>1. CASE db[key].kind = "zset"
          <5>1. C[3] = NoMember
            BY <3>1, AbsentWhole
          <5>2. Changed(C[3], c) = NoMember
            BY <3>3, <5>1 DEF Changed, NoMember
          <5>3. QED
            BY <2>6, <4>1, <5>2, SetWhole, NobodyType
        <4>2. CASE db[key].kind # "zset"
          BY <2>7, <3>1, <4>2
        <4>3. QED
          BY <4>1, <4>2
      <3>5. Owed(key, "del")'
        BY <2>10, <2>11, <3>1
      <3>6. QED
        BY <3>4, <3>5 DEF Settled, Deleted, Absent, Seen, NoMember
    <2>13. CASE Overset(key, C)
      <3>1. PICK h \in Loop : Owes(h, key, "set") /\ C = <<"string", run[h].cmd.val[1], NoMember>>
        BY <2>13 DEF Overset
      <3>2. C[1] = "string" /\ D = C
        BY <2>4, <2>7, <3>1
      <3>3. h # l
        BY <2>9, <2>11, <3>1
      <3>4. Owes(h, key, "set")' /\ run'[h].cmd = run[h].cmd
        BY <1>2, <3>1, <3>3, OthersAlike, AlikeOwes
      <3>5. QED
        BY <3>1, <3>2, <3>4 DEF Settled, Overset, NoMember
    <2>14. CASE Counted(key, e, C)
      <3>0. PICK v : v = e[2]
        OBVIOUS
      <3>1. C = <<"string", v + Added(key), NoMember>> /\ e[1] = "string" /\ Within(key, v)
        BY <1>0, <1>2, <1>5, <2>14, <3>0 DEF Counted
      <3>2. D = <<"string", v + Added(key)', NoMember>> /\ Within(key, v)'
        BY <2>4, <2>7, <2>10, <3>1
      <3>3. Counted(key, e, D)'
        BY <2>10, <2>11, <2>14, <3>0, <3>1, <3>2 DEF Counted, NoMember
      <3>4. QED
        BY <3>3 DEF Settled
    <2>15. CASE Gathered(key, e, C)
      <3>1. /\ C[1] # "string" /\ e[1] # "string" /\ C[3] \in [Member -> Nat]
            /\ \A m \in Member : e[3][m] \in Nat /\ MemberSettled(key, m, e[3][m], C[3][m])
        BY <2>2, <2>4, <2>15, WholeParts DEF Gathered
      <3>2. D[1] # "string" /\ D[3] = Changed(C[3], c)
        <4>1. Changed(C[3], c) \in [Member -> Nat]
          BY <1>2, <3>1, ChangedRight DEF OfSets
        <4>2. CASE db[key].kind = "zset"
          BY <2>6, <4>1, <4>2, SetWhole
        <4>3. CASE db[key].kind # "zset"
          <5>1. db[key].kind = "none" /\ C = Absent /\ D = C
            BY <2>4, <2>7, <3>1, <4>3
          <5>2. c.op = "zrem"
            BY <1>0, <1>2, <1>5, <1>13, <5>1 DEF HandlingAt, OfSets
          <5>3. Changed(NoMember, c) = NoMember
            BY <5>2 DEF Changed, NoMember
          <5>4. QED
            BY <5>1, <5>3, AbsentWhole
        <4>4. QED
          BY <4>2, <4>3
      <3>3. \A m \in Member : MemberSettled(key, m, e[3][m], D[3][m])'
        <4> SUFFICES ASSUME NEW m \in Member PROVE MemberSettled(key, m, e[3][m], D[3][m])'
          OBVIOUS
        <4>1. PICK old \in Nat, z \in [Member -> Nat] : old = e[3][m] /\ z = C[3]
          BY <3>1
        <4>2. MemberSettled(key, m, old, z[m]) /\ D[3][m] = Changed(z, c)[m]
          BY <3>1, <3>2, <4>1
        <4>3. CASE records # <<>>
          <5>1. Todo(l)' = Records(c) /\ Owing(l, key)'
            BY <1>7, <4>3
          <5>2. MemberSettled(key, m, old, Changed(z, c)[m])'
            <6> HIDE DEF records
            <6>1. QED
              BY <1>0, <1>1, <1>2, <1>4, <1>7, <2>8, <4>2, <5>1, MemberOwed
          <5>3. QED
            BY <4>1, <4>2, <5>2
        <4>4. CASE records = <<>>
          <5>1. c.op = "zrem" /\ \A j \in Members(c) : sets[i][j] = 0
            BY <1>2, <4>4, RecordsRight
          <5>2. Changed(z, c)[m] = z[m]
            <6>1. CASE m \notin Members(c)
              BY <1>2, <6>1, ChangedMembers
            <6>2. CASE m \in Members(c)
              <7>1. Changed(z, c)[m] = 0
                BY <1>2, <5>1, <6>2, ChangedMembers
              <7>2. z[m] = 0
                <8>1. CASE db[key].kind = "zset"
                  BY <2>6, <4>1, <5>1, <6>2, <8>1
                <8>2. CASE db[key].kind # "zset"
                  <9>1. z = NoMember
                    BY <2>4, <3>1, <4>1, <8>2, AbsentWhole
                  <9>2. QED
                    BY <9>1 DEF NoMember
                <8>3. QED
                  BY <8>1, <8>2
              <7>3. QED
                BY <7>1, <7>2
            <6>3. QED
              BY <6>1, <6>2
          <5>3. Alike(l, key)
            BY <1>7, <4>4 DEF Alike
          <5>4. \A h \in Loop : Alike(h, key)
            BY <1>2, <5>3, OthersAlike
          <5>5. PICK new : new = z[m]
            OBVIOUS
          <5>6. MemberSettled(key, m, old, new)'
            BY <4>2, <5>4, <5>5, MembersAlike
          <5>7. QED
            BY <4>1, <4>2, <5>2, <5>5, <5>6
        <4>5. QED
          BY <4>3, <4>4
      <3>4. Gathered(key, e, D)'
        BY <2>10, <2>11, <2>15, <3>1, <3>2, <3>3 DEF Gathered
      <3>5. QED
        BY <3>4 DEF Settled
    <2>16. QED
      BY <2>2, <2>12, <2>13, <2>14, <2>15 DEF Settled
  <1>14. db'[key].kind # "string" => db'[key].val = 0
    BY <1>1, <1>5 DEF Logged
  <1>15. Whole(Replayed(key)')
    BY <1>1, <1>5, <1>10 DEF Logged
  <1>16. QED
    BY <1>5, <1>8, <1>9, <1>11, <1>12, <1>13, <1>14, <1>15, KeyStep

-----------------------------------------------------------------------------
(* A record appended: what is no longer owed. *)

LEMMA NobodyCountsNext ==
  ASSUME NEW k, \A l \in Loop : ~Owes(l, k, "incrby")'
  PROVE  Added(k)' = 0 /\ \A v : Within(k, v)'
  <1>1. PICK f : f = Ups(k)'
    OBVIOUS
  <1>2. PICK g : g = Downs(k)'
    OBVIOUS
  <1>3. /\ f \in [Loop -> Nat] /\ \A l \in Loop : f[l] = 0
        /\ g \in [Loop -> Nat] /\ \A l \in Loop : g[l] = 0
    BY <1>1, <1>2 DEF Ups, Downs
  <1>4. Total(f) = 0 /\ Total(g) = 0
    BY <1>3, TotalNone
  <1>5. Total(Ups(k))' = 0 /\ Total(Downs(k))' = 0
    BY <1>1, <1>2, <1>4 DEF Total
  <1>6. QED
    BY <1>5 DEF Added, Within, Owed

LEMMA NobodyAddsNext ==
  ASSUME NEW k, NEW m, \A l \in Loop : Owes(l, k, "zincrby")' => m \notin Members(run'[l].cmd)
  PROVE  Total(ZIncs(k, m))' = 0
  <1>1. PICK g : g = ZIncs(k, m)'
    OBVIOUS
  <1>2. g \in [Loop -> Nat] /\ \A l \in Loop : g[l] = 0
    BY <1>1 DEF ZIncs
  <1>3. Total(g) = 0
    BY <1>2, TotalNone
  <1>4. QED
    BY <1>1, <1>3 DEF Total

\* A loop appends the first of the records of command c it owes for key k.
Pays(l, k, c, t) ==
    /\ \A h \in Loop : h # l => run'[h] = run[h]
    /\ run[l].cmd = c /\ Works(l, k) /\ t = Todo(l) /\ t # <<>> /\ t \in Seq(Request)
    /\ Ending(t, Records(c))
    /\ c.op # "zadd" => t = <<c>>
    /\ Owing(l, k)' <=> Tail(t) # <<>>
    /\ Owing(l, k)' => run'[l].cmd = c /\ Todo(l)' = Tail(t)
    /\ \A h \in Loop : h # l /\ Works(h, k) => Commute(c, run[h].cmd)

\* The other loops, before and after.
LEMMA PaysOthers ==
  ASSUME NEW l \in Loop, NEW k, NEW c \in Command, NEW t, Pays(l, k, c, t)
  PROVE  /\ \A h \in Loop : h # l =>
               /\ \A op : Owes(h, k, op)' <=> Owes(h, k, op)
               /\ \A m, x : Scores(h, k, m, x)' <=> Scores(h, k, m, x)
               /\ \A m : Removes(h, k, m)' <=> Removes(h, k, m)
               /\ Owing(h, k) => Works(h, k) /\ Commute(c, run[h].cmd) /\ run'[h] = run[h]
         /\ \A op : Owes(l, k, op) <=> op = c.op
         /\ \A op : Owes(l, k, op)' => op = c.op
         /\ c.op # "zadd" => ~Owing(l, k)' /\ \A op : ~Owes(l, k, op)'
  <1>1. \A h \in Loop : h # l =>
               /\ \A op : Owes(h, k, op)' <=> Owes(h, k, op)
               /\ \A m, x : Scores(h, k, m, x)' <=> Scores(h, k, m, x)
               /\ \A m : Removes(h, k, m)' <=> Removes(h, k, m)
    BY OthersAlike, AlikeOwes DEF Pays
  <1>2. \A h \in Loop : h # l /\ Owing(h, k) =>
               Works(h, k) /\ Commute(c, run[h].cmd) /\ run'[h] = run[h]
    BY DEF Pays, Owing
  <1>3. /\ \A op : Owes(l, k, op) <=> op = c.op
        /\ \A op : Owes(l, k, op)' => op = c.op
    BY DEF Pays, Owes, Owing
  <1>4. c.op # "zadd" => Tail(t) = <<>>
    <2>1. Tail(<<c>>) = <<>>
      OBVIOUS
    <2>2. QED
      BY <2>1 DEF Pays
  <1>5. c.op # "zadd" => ~Owing(l, k)' /\ \A op : ~Owes(l, k, op)'
    BY <1>4 DEF Pays, Owes
  <1>6. QED
    BY <1>1, <1>2, <1>3, <1>5

\* The record appended is for member j of a ZADD; it leaves the other scores owed.
PaysScore(l, k, c, t, j) ==
    /\ j \in DOMAIN Records(c) /\ Head(t) = Records(c)[j]
    /\ c.arg[j] \in Member /\ c.val[j] \in Nat
    /\ Scores(l, k, c.arg[j], c.val[j])
    /\ \A x : Scores(l, k, c.arg[j], x) => x = c.val[j]
    /\ \A x : ~Scores(l, k, c.arg[j], x)'
    /\ \A m, x : m # c.arg[j] => (Scores(l, k, m, x)' <=> Scores(l, k, m, x))

LEMMA ScoresPaid ==
  ASSUME NEW l \in Loop, NEW k, NEW c \in Command, NEW t, Pays(l, k, c, t), c.op = "zadd"
  PROVE  \E j \in DOMAIN c.arg : PaysScore(l, k, c, t, j)
  <1> DEFINE R == Records(c)
             n == Len(t)
             j == Len(R) - n + 1
  <1>1. /\ t \in Seq(Request) /\ R \in Seq(Request) /\ n \in Nat /\ Len(R) \in Nat
        /\ DOMAIN t = 1 .. n /\ DOMAIN R = 1 .. Len(R) /\ n # 0 /\ n <= Len(R)
        /\ \A i \in 1 .. n : t[i] = R[Len(R) - n + i]
    BY RecordsRight, LenProperties, EmptySeq DEF Pays, Ending
  <1>2. /\ Tail(t) \in Seq(Request) /\ Len(Tail(t)) = n - 1 /\ Head(t) = t[1]
        /\ \A i \in 1 .. n - 1 : Tail(t)[i] = t[i + 1]
        /\ DOMAIN Tail(t) = 1 .. n - 1
    BY <1>1, HeadTailProperties, LenProperties DEF Pays
  <1>3. /\ DOMAIN R = DOMAIN c.arg
        /\ \A i \in DOMAIN c.arg :
              /\ R[i].arg = <<c.arg[i]>> /\ R[i].val = <<c.val[i]>>
              /\ c.arg[i] \in Member /\ c.val[i] \in Nat
        /\ \A i, g \in DOMAIN c.arg : c.arg[i] = c.arg[g] => i = g
    BY RecordsShape, CommandShape
  <1>4. PICK d : d = Len(R) - n
    OBVIOUS
  <1> HIDE DEF R, n
  <1>5. /\ j = d + 1 /\ j \in DOMAIN R /\ d \in Nat
        /\ \A i \in 1 .. n : t[i] = R[d + i] /\ d + i \in DOMAIN R
    BY <1>1, <1>4
  <1> HIDE DEF j
  <1>6. /\ j \in DOMAIN c.arg /\ Head(t) = R[j] /\ 1 \in DOMAIN t /\ t[1] = R[j]
    BY <1>1, <1>2, <1>3, <1>5
  <1>7. \A x, y : <<x>> = <<y>> => x = y
    <2> SUFFICES ASSUME NEW x, NEW y, <<x>> = <<y>> PROVE x = y
      OBVIOUS
    <2>1. <<x>>[1] = x /\ <<y>>[1] = y
      OBVIOUS
    <2>2. QED
      BY <2>1
  <1>8. \A m, x : Scores(l, k, m, x) <=> \E i \in 1 .. n : m = c.arg[d + i] /\ x = c.val[d + i]
    <2>1. Owes(l, k, "zadd")
      BY PaysOthers
    <2>2. \A m, x : Scores(l, k, m, x) <=> \E i \in DOMAIN t : t[i].arg = <<m>> /\ t[i].val = <<x>>
      BY <2>1 DEF Scores, Pays
    <2>3. \A i \in 1 .. n : t[i].arg = <<c.arg[d + i]>> /\ t[i].val = <<c.val[d + i]>>
      BY <1>3, <1>5
    <2>4. ASSUME NEW m, NEW x, NEW i \in 1 .. n
          PROVE  t[i].arg = <<m>> /\ t[i].val = <<x>> <=> m = c.arg[d + i] /\ x = c.val[d + i]
      BY <1>7, <2>3
    <2>5. SUFFICES ASSUME NEW m, NEW x
                   PROVE  Scores(l, k, m, x) <=>
                             \E i \in 1 .. n : m = c.arg[d + i] /\ x = c.val[d + i]
      OBVIOUS
    <2>6. ASSUME Scores(l, k, m, x)
          PROVE  \E i \in 1 .. n : m = c.arg[d + i] /\ x = c.val[d + i]
      <3>0. \E i \in DOMAIN t : t[i].arg = <<m>> /\ t[i].val = <<x>>
        BY <2>2, <2>6, Zenon
      <3>1. PICK i \in 1 .. n : t[i].arg = <<m>> /\ t[i].val = <<x>>
        <4>1. PICK i \in DOMAIN t : t[i].arg = <<m>> /\ t[i].val = <<x>>
          BY <3>0
        <4>2. i \in 1 .. n
          BY <1>1
        <4>3. QED
          BY <4>1, <4>2
      <3>2. QED
        BY <2>4, <3>1
    <2>7. ASSUME NEW i \in 1 .. n, m = c.arg[d + i], x = c.val[d + i]
          PROVE  Scores(l, k, m, x)
      <3>1. i \in DOMAIN t /\ t[i].arg = <<m>> /\ t[i].val = <<x>>
        BY <1>1, <2>3, <2>7
      <3>2. QED
        BY <2>2, <3>1
    <2>8. QED
      BY <2>6, <2>7
  <1>9. \A m, x : Scores(l, k, m, x)' <=>
                    \E i \in 1 .. n - 1 : m = c.arg[d + (i + 1)] /\ x = c.val[d + (i + 1)]
    <2>1. \A i \in 1 .. n - 1 : /\ Tail(t)[i].arg = <<c.arg[d + (i + 1)]>>
                                /\ Tail(t)[i].val = <<c.val[d + (i + 1)]>>
      <3> SUFFICES ASSUME NEW i \in 1 .. n - 1
                   PROVE  /\ Tail(t)[i].arg = <<c.arg[d + (i + 1)]>>
                          /\ Tail(t)[i].val = <<c.val[d + (i + 1)]>>
        OBVIOUS
      <3>1. i + 1 \in 1 .. n
        BY <1>1
      <3>2. Tail(t)[i] = R[d + (i + 1)] /\ d + (i + 1) \in DOMAIN R
        BY <1>2, <1>5, <3>1
      <3>3. QED
        BY <1>3, <3>2
    <2>2. CASE Owing(l, k)'
      <3>1. Owes(l, k, "zadd")' /\ Todo(l)' = Tail(t)
        BY <2>2 DEF Pays, Owes
      <3>2. \A m, x : Scores(l, k, m, x)' <=>
               \E i \in DOMAIN Tail(t) : Tail(t)[i].arg = <<m>> /\ Tail(t)[i].val = <<x>>
        BY <3>1 DEF Scores
      <3>3. ASSUME NEW m, NEW x, NEW i \in 1 .. n - 1
            PROVE  Tail(t)[i].arg = <<m>> /\ Tail(t)[i].val = <<x>>
                      <=> m = c.arg[d + (i + 1)] /\ x = c.val[d + (i + 1)]
        BY <1>7, <2>1
      <3>4. SUFFICES ASSUME NEW m, NEW x
                     PROVE  Scores(l, k, m, x)' <=>
                               \E i \in 1 .. n - 1 : m = c.arg[d + (i + 1)] /\ x = c.val[d + (i + 1)]
        OBVIOUS
      <3>5. ASSUME Scores(l, k, m, x)'
            PROVE  \E i \in 1 .. n - 1 : m = c.arg[d + (i + 1)] /\ x = c.val[d + (i + 1)]
        <4>0. \E i \in DOMAIN Tail(t) : Tail(t)[i].arg = <<m>> /\ Tail(t)[i].val = <<x>>
          BY <3>2, <3>5, Zenon
        <4>1. PICK i \in 1 .. n - 1 : Tail(t)[i].arg = <<m>> /\ Tail(t)[i].val = <<x>>
          <5>1. PICK i \in DOMAIN Tail(t) : Tail(t)[i].arg = <<m>> /\ Tail(t)[i].val = <<x>>
            BY <4>0
          <5>2. i \in 1 .. n - 1
            BY <1>2
          <5>3. QED
            BY <5>1, <5>2
        <4>2. QED
          BY <3>3, <4>1
      <3>6. ASSUME NEW i \in 1 .. n - 1, m = c.arg[d + (i + 1)], x = c.val[d + (i + 1)]
            PROVE  Scores(l, k, m, x)'
        <4>1. i \in DOMAIN Tail(t) /\ Tail(t)[i].arg = <<m>> /\ Tail(t)[i].val = <<x>>
          BY <1>2, <2>1, <3>6
        <4>2. QED
          BY <3>2, <4>1
      <3>7. QED
        BY <3>5, <3>6
    <2>3. CASE ~Owing(l, k)'
      <3>1. Tail(t) = <<>>
        BY <2>3 DEF Pays
      <3>0. n - 1 = 0
        BY <1>2, <3>1
      <3>2. \A i \in 1 .. n - 1 : FALSE
        BY <1>1, <3>0
      <3>3. \A m, x : ~Scores(l, k, m, x)'
        BY <2>3 DEF Scores, Owes
      <3>4. QED
        BY <3>2, <3>3
    <2>4. QED
      BY <2>2, <2>3
  <1>10. \A i \in 1 .. n - 1 : i + 1 \in 1 .. n /\ d + (i + 1) \in DOMAIN c.arg /\ d + (i + 1) # j
    BY <1>1, <1>3, <1>5
  <1>11. \A i \in 1 .. n : i = 1 \/ (i - 1 \in 1 .. n - 1 /\ i - 1 + 1 = i)
    BY <1>1
  <1>12. 1 \in 1 .. n
    BY <1>1
  <1>13. \A i \in 1 .. n : d + i \in DOMAIN c.arg
    BY <1>3, <1>5
  <1>14. Scores(l, k, c.arg[j], c.val[j])
    BY <1>5, <1>8, <1>12
  <1>15. \A x : Scores(l, k, c.arg[j], x) => x = c.val[j]
    <2> SUFFICES ASSUME NEW x, Scores(l, k, c.arg[j], x) PROVE x = c.val[j]
      OBVIOUS
    <2>1. PICK i \in 1 .. n : c.arg[j] = c.arg[d + i] /\ x = c.val[d + i]
      BY <1>8
    <2>2. d + i = j
      BY <1>3, <1>6, <1>13, <2>1
    <2>3. QED
      BY <2>1, <2>2
  <1>16. \A x : ~Scores(l, k, c.arg[j], x)'
    <2> SUFFICES ASSUME NEW x, Scores(l, k, c.arg[j], x)' PROVE FALSE
      OBVIOUS
    <2>1. PICK i \in 1 .. n - 1 : c.arg[j] = c.arg[d + (i + 1)]
      BY <1>9
    <2>2. QED
      BY <1>3, <1>6, <1>10, <2>1
  <1>17. ASSUME NEW m, NEW x, m # c.arg[j] PROVE Scores(l, k, m, x)' <=> Scores(l, k, m, x)
    <2>1. ASSUME Scores(l, k, m, x)' PROVE Scores(l, k, m, x)
      <3>1. PICK i \in 1 .. n - 1 : m = c.arg[d + (i + 1)] /\ x = c.val[d + (i + 1)]
        BY <1>9, <2>1
      <3>2. i + 1 \in 1 .. n
        BY <1>10
      <3>3. QED
        BY <1>8, <3>1, <3>2
    <2>2. ASSUME Scores(l, k, m, x) PROVE Scores(l, k, m, x)'
      <3>1. PICK i \in 1 .. n : m = c.arg[d + i] /\ x = c.val[d + i]
        BY <1>8, <2>2
      <3>2. i # 1
        BY <1>5, <1>17, <3>1
      <3>3. i - 1 \in 1 .. n - 1 /\ i - 1 + 1 = i
        BY <1>11, <3>2
      <3>4. QED
        BY <1>9, <3>1, <3>3
    <2>3. QED
      BY <2>1, <2>2
  <1>18. QED
    BY <1>3, <1>5, <1>6, <1>14, <1>15, <1>16, <1>17 DEF R, PaysScore

\* A member as the record about it leaves it.
LEMMA MemberPaid ==
  ASSUME CommandsInv, Placed, NEW l \in Loop, NEW k, NEW c \in Command, NEW t, Pays(l, k, c, t),
         c.op \in OfSets, NEW m \in Member, NEW z \in [Member -> Nat], NEW new \in Nat,
         MemberSettled(k, m, z[m], new)
  PROVE  MemberSettled(k, m, Changed(z, Head(t))[m], new)'
  <1>1. \A h \in Loop : h # l => run'[h] = run[h]
    BY DEF Pays
  <1>2. PICK old : old = z[m]
    OBVIOUS
  <1>3. /\ ~Removes(l, k, m)' \/ c.op = "zrem"
        /\ c.op # "zadd" => /\ \A x : ~Scores(l, k, m, x) /\ ~Scores(l, k, m, x)'
                            /\ ~Removes(l, k, m)' /\ ZIncs(k, m)'[l] = 0
        /\ c.op # "zrem" => ~Removes(l, k, m) /\ ~Removes(l, k, m)'
        /\ c.op # "zincrby" => ZIncs(k, m)[l] = 0 /\ ZIncs(k, m)'[l] = 0
    <2>1. /\ \A op : op # c.op => ~Owes(l, k, op) /\ ~Owes(l, k, op)'
          /\ c.op # "zadd" => \A op : ~Owes(l, k, op)'
      BY PaysOthers
    <2>2. c.op # "zadd" => /\ \A x : ~Scores(l, k, m, x) /\ ~Scores(l, k, m, x)'
                           /\ ~Removes(l, k, m)' /\ ZIncs(k, m)'[l] = 0
      BY <2>1 DEF Removes, Scores, ZIncs
    <2>3. c.op # "zrem" => ~Removes(l, k, m) /\ ~Removes(l, k, m)'
      BY <2>1 DEF Removes
    <2>4. c.op # "zincrby" => ZIncs(k, m)[l] = 0 /\ ZIncs(k, m)'[l] = 0
      BY <2>1 DEF ZIncs
    <2>5. QED
      BY <2>2, <2>3, <2>4
  <1>a. \A h \in Loop : h # l =>
            /\ \A op : Owes(h, k, op)' <=> Owes(h, k, op)
            /\ \A x : Scores(h, k, m, x)' <=> Scores(h, k, m, x)
            /\ Removes(h, k, m)' <=> Removes(h, k, m)
    BY PaysOthers
  <1>b. \A op : op # c.op => ~Owes(l, k, op)'
    BY PaysOthers
  <1>4. ASSUME c.op # "zadd", m \notin Members(c)
        PROVE  MemberSettled(k, m, Changed(z, Head(t))[m], new)'
    <2>1. Head(t) = c
      BY <1>4 DEF Pays
    <2>2. Changed(z, c)[m] = old
      BY <1>2, <1>4, ChangedMembers
    <2>3. ~Removes(l, k, m) /\ ZIncs(k, m)[l] = 0
      BY <1>4 DEF Removes, ZIncs, Pays
    <2>4. MemberSettled(k, m, old, new)'
      BY <1>1, <1>2, <1>3, <1>4, <2>3, MemberSame
    <2>5. QED
      BY <2>1, <2>2, <2>4
  <1>5. CASE c.op = "zadd"
    <2>0. PICK j \in DOMAIN c.arg : PaysScore(l, k, c, t, j)
      BY <1>5, ScoresPaid
    <2>1. /\ j \in DOMAIN Records(c) /\ Head(t) = Records(c)[j]
          /\ c.arg[j] \in Member /\ c.val[j] \in Nat
          /\ Scores(l, k, c.arg[j], c.val[j])
          /\ \A x : Scores(l, k, c.arg[j], x) => x = c.val[j]
          /\ \A x : ~Scores(l, k, c.arg[j], x)'
          /\ m # c.arg[j] => \A x : Scores(l, k, m, x)' <=> Scores(l, k, m, x)
      BY <2>0 DEF PaysScore
    <2>2. /\ m = c.arg[j] => Changed(z, Head(t))[m] = c.val[j]
          /\ m # c.arg[j] => Changed(z, Head(t))[m] = old
      BY <1>2, <1>5, <2>1, RecordMembers
    <2>3. CASE m # c.arg[j]
      <3>1. MemberSettled(k, m, old, new)'
        BY <1>1, <1>2, <1>3, <1>5, <2>1, <2>3, MemberSame
      <3>2. QED
        BY <2>2, <2>3, <3>1
    <2>4. CASE m = c.arg[j]
      <3>1. m \in Members(c)
        BY <2>4 DEF Members, ToSet
      <3>2. ASSUME NEW h \in Loop, h # l
            PROVE  /\ ~Removes(h, k, m) /\ \A x : ~Scores(h, k, m, x)
                   /\ Owes(h, k, "zincrby") => m \notin Members(run[h].cmd)
        <4>1. CASE Owing(h, k)
          <5>1. Commute(c, run[h].cmd)
            BY <3>2, <4>1, PaysOthers
          <5>2. /\ run[h].cmd.op # "zrem"
                /\ run[h].cmd.op \in {"zadd", "zincrby"} => m \notin Members(run[h].cmd)
            BY <1>5, <3>1, <5>1, CommuteOps
          <5>3. \A x : ~Scores(h, k, m, x)
            BY <5>2, ScoresMember DEF Scores, Owes
          <5>4. QED
            BY <5>2, <5>3 DEF Removes, Owes
        <4>2. CASE ~Owing(h, k)
          BY <4>2 DEF Removes, Scores, Owes
        <4>3. QED
          BY <4>1, <4>2
      <3>3. new = c.val[j]
        <4>1. \A h \in Loop : ~Removes(h, k, m)
          BY <1>3, <1>5, <3>2
        <4>2. Scores(l, k, m, c.val[j])
          BY <2>1, <2>4
        <4>3. PICK h \in Loop : Scores(h, k, m, new)
          BY <2>1, <4>1, <4>2 DEF MemberSettled
        <4>4. h = l
          BY <3>2, <4>3
        <4>5. QED
          BY <2>1, <2>4, <4>3, <4>4
      <3>4. \A h \in Loop : ~Removes(h, k, m)' /\ \A x : ~Scores(h, k, m, x)'
        <4>1. ~Removes(l, k, m)' /\ \A x : ~Scores(l, k, m, x)'
          BY <1>3, <1>5, <2>1, <2>4
        <4>2. \A h \in Loop : h # l => ~Removes(h, k, m)' /\ \A x : ~Scores(h, k, m, x)'
          BY <1>a, <3>2
        <4>3. QED
          BY <4>1, <4>2
      <3>5. Total(ZIncs(k, m))' = 0
        <4>1. ~Owes(l, k, "zincrby")'
          BY <1>5, <1>b
        <4>2. \A h \in Loop : Owes(h, k, "zincrby")' => m \notin Members(run'[h].cmd)
          BY <1>1, <1>a, <3>2, <4>1
        <4>3. QED
          BY <4>2, NobodyAddsNext
      <3>6. new = Changed(z, Head(t))[m] + Total(ZIncs(k, m))'
        BY <2>2, <2>4, <3>3, <3>5
      <3>7. QED
        BY <3>4, <3>6 DEF MemberSettled
    <2>5. QED
      BY <2>3, <2>4
  <1>6. CASE c.op = "zincrby" /\ m \in Members(c)
    <2>1. Head(t) = c
      BY <1>6 DEF Pays
    <2>2. ASSUME NEW h \in Loop, h # l
          PROVE  ~Removes(h, k, m) /\ \A x : ~Scores(h, k, m, x)
      <3>1. CASE Owing(h, k)
        <4>1. Commute(c, run[h].cmd)
          BY <2>2, <3>1, PaysOthers
        <4>2. /\ run[h].cmd.op # "zrem"
              /\ run[h].cmd.op = "zadd" => m \notin Members(run[h].cmd)
          BY <1>6, <4>1, CommuteOps
        <4>3. \A x : ~Scores(h, k, m, x)
          BY <4>2, ScoresMember DEF Scores, Owes
        <4>4. QED
          BY <4>2, <4>3 DEF Removes, Owes
      <3>2. CASE ~Owing(h, k)
        BY <3>2 DEF Removes, Scores, Owes
      <3>3. QED
        BY <3>1, <3>2
    <2>3. \A h \in Loop : ~Removes(h, k, m) /\ \A x : ~Scores(h, k, m, x)
      BY <1>3, <1>6, <2>2
    <2>4. new = z[m] + Total(ZIncs(k, m))
      BY <2>3 DEF MemberSettled
    <2>5. ZIncs(k, m)[l] = c.val[1] /\ c.val[1] \in Nat /\ ZIncs(k, m)'[l] = 0
      <3>1. Owes(l, k, "zincrby") /\ run[l].cmd = c
        BY <1>6, PaysOthers DEF Pays
      <3>2. QED
        BY <1>3, <1>6, <3>1, CommandShape DEF ZIncs
    <2>6. /\ Total(ZIncs(k, m))' + c.val[1] = Total(ZIncs(k, m))
          /\ Total(ZIncs(k, m)) \in Nat /\ Total(ZIncs(k, m))' \in Nat
      <3>1. ZIncs(k, m)'[l] \in Nat
        BY <2>5
      <3>2. /\ Total(ZIncs(k, m))' + ZIncs(k, m)[l] = Total(ZIncs(k, m)) + ZIncs(k, m)'[l]
            /\ Total(ZIncs(k, m)) \in Nat /\ Total(ZIncs(k, m))' \in Nat
        BY <1>1, <3>1, SumsMove
      <3>3. QED
        BY <2>5, <3>2
    <2>7. Changed(z, c)[m] = z[m] + c.val[1]
      BY <1>6, ChangedMembers
    <2>8. new = Changed(z, c)[m] + Total(ZIncs(k, m))'
      BY <2>4, <2>5, <2>6, <2>7
    <2>9. \A h \in Loop : ~Removes(h, k, m)' /\ \A x : ~Scores(h, k, m, x)'
      <3>1. ~Removes(l, k, m)' /\ \A x : ~Scores(l, k, m, x)'
        BY <1>3, <1>6
      <3>2. \A h \in Loop : h # l => ~Removes(h, k, m)' /\ \A x : ~Scores(h, k, m, x)'
        BY <1>a, <2>2
      <3>3. QED
        BY <3>1, <3>2
    <2>10. QED
      BY <2>1, <2>8, <2>9 DEF MemberSettled
  <1>7. CASE c.op = "zrem" /\ m \in Members(c)
    <2>1. Head(t) = c
      BY <1>7 DEF Pays
    <2>2. ASSUME NEW h \in Loop, h # l
          PROVE  ~Owes(h, k, "zadd") /\ ~Owes(h, k, "zincrby")
      <3>1. CASE Owing(h, k)
        <4>1. Commute(c, run[h].cmd)
          BY <2>2, <3>1, PaysOthers
        <4>2. QED
          BY <1>7, <4>1, CommuteOps DEF Owes
      <3>2. CASE ~Owing(h, k)
        BY <3>2 DEF Owes
      <3>3. QED
        BY <3>1, <3>2
    <2>3. \A h \in Loop : \A x : ~Scores(h, k, m, x)
      BY <1>3, <1>7, <2>2 DEF Scores
    <2>4. Removes(l, k, m)
      <3>1. Owes(l, k, "zrem") /\ run[l].cmd = c
        BY <1>7, PaysOthers DEF Pays
      <3>2. QED
        BY <1>7, <3>1 DEF Removes
    <2>5. new = 0
      BY <2>3, <2>4 DEF MemberSettled
    <2>6. Changed(z, c)[m] = 0
      BY <1>7, ChangedMembers
    <2>7. \A h \in Loop : \A x : ~Scores(h, k, m, x)'
      <3>1. \A x : ~Scores(l, k, m, x)'
        BY <1>3, <1>7
      <3>2. \A h \in Loop : h # l => \A x : ~Scores(h, k, m, x)'
        BY <1>a, <2>3
      <3>3. QED
        BY <3>1, <3>2
    <2>8. Total(ZIncs(k, m))' = 0
      <3>1. \A h \in Loop : ~Owes(h, k, "zincrby")'
        BY <1>7, <1>a, <1>b, <2>2
      <3>2. QED
        BY <3>1, NobodyAddsNext
    <2>9. CASE \E h \in Loop : Removes(h, k, m)'
      BY <2>1, <2>5, <2>6, <2>9 DEF MemberSettled
    <2>10. CASE \A h \in Loop : ~Removes(h, k, m)'
      <3>1. new = Changed(z, c)[m] + Total(ZIncs(k, m))'
        BY <2>5, <2>6, <2>8
      <3>2. QED
        BY <2>1, <2>7, <2>10, <3>1 DEF MemberSettled
    <2>11. QED
      BY <2>9, <2>10
  <1>8. QED
    BY <1>4, <1>5, <1>6, <1>7 DEF OfSets

LEMMA EndingTail ==
  ASSUME NEW t \in Seq(Request), NEW r \in Seq(Request), t # <<>>, Ending(t, r)
  PROVE  /\ Ending(Tail(t), r) /\ Tail(t) \in Seq(Request)
         /\ Head(t) \in Request /\ \E j \in DOMAIN r : Head(t) = r[j]
  <1> DEFINE n == Len(t)
  <1>1. /\ n \in Nat /\ Len(r) \in Nat /\ n # 0 /\ n <= Len(r)
        /\ DOMAIN t = 1 .. n /\ DOMAIN r = 1 .. Len(r)
        /\ \A i \in 1 .. n : t[i] = r[Len(r) - n + i]
    BY LenProperties, EmptySeq DEF Ending
  <1>2. /\ Tail(t) \in Seq(Request) /\ Len(Tail(t)) = n - 1 /\ Head(t) = t[1] /\ Head(t) \in Request
        /\ \A i \in 1 .. n - 1 : Tail(t)[i] = t[i + 1]
        /\ DOMAIN Tail(t) = 1 .. n - 1
    BY <1>1, HeadTailProperties, LenProperties
  <1> HIDE DEF n
  <1>3. Head(t) = r[Len(r) - n + 1] /\ Len(r) - n + 1 \in DOMAIN r
    BY <1>1, <1>2
  <1>4. \A i \in 1 .. n - 1 : /\ i + 1 \in 1 .. n
                              /\ Len(r) - (n - 1) + i = Len(r) - n + (i + 1)
    BY <1>1
  <1>5. Len(Tail(t)) <= Len(r)
    BY <1>1, <1>2
  <1>6. \A i \in DOMAIN Tail(t) : Tail(t)[i] = r[Len(r) - Len(Tail(t)) + i]
    <2> SUFFICES ASSUME NEW i \in 1 .. n - 1 PROVE Tail(t)[i] = r[Len(r) - (n - 1) + i]
      BY <1>2
    <2>1. Tail(t)[i] = t[i + 1] /\ i + 1 \in 1 .. n
      BY <1>2, <1>4
    <2>2. t[i + 1] = r[Len(r) - n + (i + 1)]
      BY <1>1, <2>1
    <2>3. QED
      BY <1>4, <2>1, <2>2
  <1>7. QED
    BY <1>2, <1>3, <1>5, <1>6 DEF Ending

\* A loop of command c, with t left to log, appends a record.
Appends(l, c, t) ==
    /\ c \in Command /\ c.key \in Key /\ run[l].cmd = c /\ Works(l, c.key)
    /\ t = Todo(l) /\ t # <<>> /\ t \in Seq(Request) /\ Ending(t, Records(c))
    /\ c.op # "zadd" => t = <<c>>
    /\ db' = db /\ sets' = sets /\ crossed' = crossed /\ raced' = raced
    /\ log' = Append(log, Head(t))
    /\ \A h \in Loop : h # l => run'[h] = run[h]
    /\ Tail(t) = <<>> => run'[l] = Idle
    /\ Tail(t) # <<>> => run'[l] = [at |-> "log", cmd |-> c, todo |-> Tail(t)]

LEMMA LogShape ==
  ASSUME CommandsInv, KeyInv, NEW l \in Loop, Log(l)
  PROVE  \E c, t : Appends(l, c, t)
  <1>1. TypeOK /\ Placed /\ run[l].at = "log"
    BY DEF CommandsInv, KeyInv, Log
  <1>2. PICK c : c = run[l].cmd
    OBVIOUS
  <1>3. PICK t : t = run[l].todo
    OBVIOUS
  <1>4. Running(l)
    BY <1>1 DEF Running
  <1>5. /\ c \in Command /\ c.key \in Key /\ t = Todo(l) /\ t # <<>> /\ t \in Seq(Request)
        /\ Ending(t, Records(c)) /\ (c.op # "zadd" => t = <<c>>)
    BY <1>1, <1>2, <1>3, <1>4, DebtShape
  <1>6. Works(l, c.key)
    BY <1>2, <1>4 DEF Works
  <1>7. run' = [run EXCEPT ![l] = Done(Tail(t), c)]
    BY <1>2, <1>3 DEF Log
  <1>8. (\A h \in Loop : h # l => run'[h] = run[h]) /\ run'[l] = Done(Tail(t), c)
    BY <1>1, <1>7 DEF TypeOK
  <1>9. Appends(l, c, t)
    BY <1>2, <1>3, <1>5, <1>6, <1>8 DEF Appends, Log, Done, history
  <1>10. QED
    BY <1>9

LEMMA AppendsAfter ==
  ASSUME NEW l \in Loop, NEW c, NEW t, Appends(l, c, t)
  PROVE  /\ Owing(l, c.key)' <=> Tail(t) # <<>>
         /\ Owing(l, c.key)' => run'[l].cmd = c /\ Todo(l)' = Tail(t)
         /\ ~Running(l)' \/ run'[l].cmd = c
         /\ run'[l].at \in {"idle", "log"}
         /\ run'[l].at = "log" => Ending(run'[l].todo, Records(run'[l].cmd))
         /\ \E j \in DOMAIN Records(c) : Head(t) = Records(c)[j]
         /\ Head(t) \in Request
  <1>1. /\ Ending(Tail(t), Records(c)) /\ Head(t) \in Request
        /\ \E j \in DOMAIN Records(c) : Head(t) = Records(c)[j]
    BY EndingTail, RecordsRight DEF Appends
  <1>2. CASE Tail(t) = <<>>
    <2>1. run'[l].at = "idle"
      BY <1>2 DEF Appends, Idle
    <2>2. QED
      BY <1>1, <1>2, <2>1 DEF Owing, Works, Running
  <1>3. CASE Tail(t) # <<>>
    <2>1. run'[l].at = "log" /\ run'[l].cmd = c /\ run'[l].todo = Tail(t)
      BY <1>3 DEF Appends
    <2>2. Works(l, c.key)' /\ Todo(l)' = Tail(t)
      BY <2>1 DEF Works, Running, Todo
    <2>3. QED
      BY <1>1, <1>3, <2>1, <2>2 DEF Owing
  <1>4. QED
    BY <1>2, <1>3

\* What the log makes of the key, before and after the record.
LEMMA SettledPaid ==
  ASSUME CommandsInv, Placed, NEW l \in Loop, NEW k, NEW c \in Command, NEW t, Pays(l, k, c, t),
         NEW j \in DOMAIN Records(c), Head(t) = Records(c)[j],
         NEW e, Whole(e), NEW C, Whole(C), Settled(k, e, C)
  PROVE  Settled(k, Redo(e, Head(t)), C)'
  <1>0. PICK f : f = Redo(e, Head(t))
    OBVIOUS
  <1>e. Redo(e, Head(t))' = f
    BY <1>0 DEF Redo, Changed, Absent, Seen, NoMember
  <1>1. /\ Whole(f)
        /\ c.op = "set" => f = <<"string", c.val[1], NoMember>>
        /\ c.op = "del" => f = Absent
        /\ c.op = "incrby" /\ CanAdd(e[1], e[2], c.val[1]) =>
              f = <<"string", e[2] + c.val[1], NoMember>>
        /\ c.op \in OfSets /\ e[1] = "string" => f = e
        /\ c.op \in OfSets /\ e[1] # "string" => f = Seen("zset", 0, Changed(e[3], Head(t)))
    BY <1>0, RedoRight
  <1>2. /\ e[1] \in {"none", "string", "zset"} /\ e[2] \in Int /\ e[3] \in [Member -> Nat]
        /\ C[1] \in {"none", "string", "zset"} /\ C[2] \in Int /\ C[3] \in [Member -> Nat]
        /\ C[1] = "none" <=> C = Absent
        /\ C[1] # "zset" => C[3] = NoMember
        /\ e[1] = "none" <=> e = Absent
    BY WholeParts
  <1>3. /\ \A h \in Loop : h # l => run'[h] = run[h]
        /\ run[l].cmd = c /\ Works(l, k)
        /\ c.op # "zadd" => Head(t) = c
    BY DEF Pays
  <1>4. /\ \A h \in Loop : h # l =>
               /\ \A op : Owes(h, k, op)' <=> Owes(h, k, op)
               /\ \A m, x : Scores(h, k, m, x)' <=> Scores(h, k, m, x)
               /\ \A m : Removes(h, k, m)' <=> Removes(h, k, m)
               /\ Owing(h, k) => Works(h, k) /\ Commute(c, run[h].cmd) /\ run'[h] = run[h]
    BY PaysOthers
  <1>5. /\ \A op : Owes(l, k, op) <=> op = c.op
        /\ \A op : Owes(l, k, op)' => op = c.op
        /\ c.op # "zadd" => ~Owing(l, k)' /\ \A op : ~Owes(l, k, op)'
    BY PaysOthers
  <1>6. c \in Request /\ c.op \in {"set", "del", "incrby", "zadd", "zincrby", "zrem"}
    BY CommandShape DEF Request
  <1>7. ASSUME NEW h \in Loop, h # l, NEW op, Owes(h, k, op)
        PROVE  /\ c.op = "set" => op \in OfSets
               /\ c.op = "del" => op \in {"del", "zrem"}
               /\ c.op = "incrby" => op \in {"incrby", "zadd", "zincrby"}
               /\ c.op = "zadd" => op \in {"set", "incrby", "zadd", "zincrby"}
               /\ c.op = "zincrby" => op \in {"set", "incrby", "zadd", "zincrby"}
               /\ c.op = "zrem" => op \in {"set", "del", "zrem"}
    <2>1. Owing(h, k) /\ run[h].cmd.op = op
      BY <1>7 DEF Owes
    <2>2. Commute(c, run[h].cmd)
      BY <1>4, <1>7, <2>1
    <2>3. QED
      BY <2>1, <2>2, CommuteOps
  <1>8. CASE c.op = "set"
    <2>1. \A h \in Loop : h # l => ~Owes(h, k, "set") /\ ~Owes(h, k, "del") /\ ~Owes(h, k, "incrby")
      BY <1>7, <1>8 DEF OfSets
    <2>2. \A h \in Loop : ~Owes(h, k, "set")' /\ ~Owes(h, k, "del")' /\ ~Owes(h, k, "incrby")'
      BY <1>4, <1>5, <1>8, <2>1
    <2>3. Owed(k, "set") /\ ~Owed(k, "del")
      BY <1>5, <1>8, <2>1 DEF Owed
    <2>4. C = f
      <3>1. Overset(k, C)
        <4>1. ~Deleted(k, C)
          BY <2>3 DEF Deleted
        <4>2. ~Counted(k, e, C) /\ ~Gathered(k, e, C)
          BY <2>3 DEF Counted, Gathered
        <4>3. QED
          BY <4>1, <4>2 DEF Settled
      <3>2. PICK h \in Loop : Owes(h, k, "set") /\ C = <<"string", run[h].cmd.val[1], NoMember>>
        BY <3>1 DEF Overset
      <3>3. h = l
        BY <2>1, <3>2
      <3>4. QED
        BY <1>1, <1>3, <1>8, <3>2, <3>3
    <2>5. Added(k)' = 0 /\ \A v : Within(k, v)'
      BY <2>2, NobodyCountsNext
    <2>6. f = <<"string", c.val[1], NoMember>> /\ f[2] = c.val[1] /\ c.val[1] \in Int /\ f[1] = "string"
      BY <1>1, <1>8, CommandShape
    <2>0. PICK v : v = f[2]
      OBVIOUS
    <2>7. C = <<"string", v + Added(k)', NoMember>> /\ Within(k, v)'
      BY <2>0, <2>4, <2>5, <2>6
    <2>8. ~Owed(k, "del")' /\ ~Owed(k, "set")'
      BY <2>2 DEF Owed
    <2>9. Counted(k, f, C)'
      BY <2>0, <2>6, <2>7, <2>8 DEF Counted, NoMember
    <2>10. QED
      BY <1>e, <2>9 DEF Settled
  <1>9. CASE c.op = "del"
    <2>1. \A h \in Loop : h # l => ~Owes(h, k, "set") /\ ~Owes(h, k, "incrby")
                                   /\ ~Owes(h, k, "zadd") /\ ~Owes(h, k, "zincrby")
      BY <1>7, <1>9
    <2>2. \A h \in Loop : ~Owes(h, k, "set")' /\ ~Owes(h, k, "incrby")'
                          /\ ~Owes(h, k, "zadd")' /\ ~Owes(h, k, "zincrby")'
      BY <1>4, <1>5, <1>9, <2>1
    <2>3. Owed(k, "del") /\ ~Owed(k, "set")
      BY <1>5, <1>9, <2>1 DEF Owed
    <2>4. C = Absent
      <3>1. ~Overset(k, C)
        BY <2>3 DEF Overset, Owed
      <3>2. ~Counted(k, e, C) /\ ~Gathered(k, e, C)
        BY <2>3 DEF Counted, Gathered
      <3>3. QED
        BY <3>1, <3>2 DEF Settled, Deleted
    <2>5. f = Absent
      BY <1>1, <1>9
    <2>6. CASE Owed(k, "del")'
      BY <1>e, <2>4, <2>6 DEF Settled, Deleted, Absent, Seen, NoMember
    <2>7. CASE ~Owed(k, "del")'
      <3>1. ~Owed(k, "set")' /\ ~Owed(k, "incrby")'
        BY <2>2 DEF Owed
      <3>2. ASSUME NEW m \in Member PROVE MemberSettled(k, m, f[3][m], C[3][m])'
        <4>1. f[3][m] = 0 /\ C[3][m] = 0
          BY <2>4, <2>5, AbsentWhole DEF NoMember
        <4>2. \A h \in Loop : \A x : ~Scores(h, k, m, x)'
          BY <2>2 DEF Scores
        <4>3. Total(ZIncs(k, m))' = 0
          BY <2>2, NobodyAddsNext
        <4>4. PICK z : z = 0
          OBVIOUS
        <4>5. MemberSettled(k, m, z, z)'
          BY <4>2, <4>3, <4>4 DEF MemberSettled
        <4>6. QED
          BY <4>1, <4>4, <4>5
      <3>3. C[1] # "string" /\ f[1] # "string"
        BY <2>4, <2>5, AbsentWhole
      <3>4. Gathered(k, f, C)'
        BY <2>7, <3>1, <3>2, <3>3 DEF Gathered
      <3>5. QED
        BY <1>e, <3>4 DEF Settled
    <2>8. QED
      BY <2>6, <2>7
  <1>10. CASE c.op = "incrby"
    <2>1. \A h \in Loop : h # l => ~Owes(h, k, "set") /\ ~Owes(h, k, "del")
      BY <1>7, <1>10
    <2>2. /\ ~Owed(k, "set") /\ ~Owed(k, "del") /\ Owed(k, "incrby")
          /\ ~Owed(k, "set")' /\ ~Owed(k, "del")'
      BY <1>4, <1>5, <1>10, <2>1 DEF Owed
    <2>3. Counted(k, e, C)
      BY <2>2 DEF Settled, Deleted, Overset, Owed, Gathered
    <2>4. e[1] # "zset"
      BY <2>3, AbsentWhole DEF Counted
    <2>0. PICK v \in Int : v = e[2]
      BY <1>2
    <2>a. PICK n \in Int : n = c.val[1]
      BY <1>10, CommandShape
    <2>b. /\ C = <<"string", v + Added(k), NoMember>>
          /\ v + Total(Ups(k)) <= MaxInt /\ MinInt <= v - Total(Downs(k))
      BY <2>0, <2>2, <2>3 DEF Counted, Within
    <2>5. \E up, down, u, d \in Nat :
             /\ up = Total(Ups(k)) /\ down = Total(Downs(k))
             /\ u = Total(Ups(k))' /\ d = Total(Downs(k))'
             /\ n >= 0 => u = up - n /\ d = down
             /\ n < 0 => u = up /\ d = down + n
      <3>1. Owes(l, k, "incrby") /\ ~Owes(l, k, "incrby")'
        BY <1>5, <1>10
      <3>2. /\ Ups(k)'[l] = 0 /\ Ups(k)[l] = IF n >= 0 THEN n ELSE 0
            /\ Downs(k)'[l] = 0 /\ Downs(k)[l] = IF n < 0 THEN -n ELSE 0
        BY <1>3, <2>a, <3>1 DEF Ups, Downs
      <3>3. PICK up, down, u, d \in Nat :
               /\ up = Total(Ups(k)) /\ down = Total(Downs(k))
               /\ u = Total(Ups(k))' /\ d = Total(Downs(k))'
               /\ u = up - Ups(k)[l] + Ups(k)'[l] /\ d = down - Downs(k)[l] + Downs(k)'[l]
        BY <1>3, <3>2, SumsMove
      <3>4. /\ n >= 0 => u = up - n /\ d = down
            /\ n < 0 => u = up /\ d = down + n
        BY <3>2, <3>3
      <3>5. QED
        BY <3>3, <3>4
    <2>p. PICK up, down, u, d \in Nat :
             /\ up = Total(Ups(k)) /\ down = Total(Downs(k))
             /\ u = Total(Ups(k))' /\ d = Total(Downs(k))'
             /\ n >= 0 => u = up - n /\ d = down
             /\ n < 0 => u = up /\ d = down + n
      BY <2>5
    <2>m. MinInt \in Int /\ MaxInt \in Int
      BY CommandAssumption DEF CommandAssumption
    <2>6. CanAdd(e[1], e[2], c.val[1])
      <3>1. v + up <= MaxInt /\ MinInt <= v - down
        BY <2>b, <2>p
      <3>2. v \in Integer64 /\ v + n \in Integer64
        BY <2>m, <2>p, <3>1 DEF Integer64
      <3>3. QED
        BY <2>0, <2>4, <2>a, <3>2 DEF CanAdd
    <2>7. f = <<"string", v + n, NoMember>> /\ f[1] = "string" /\ f[2] = v + n
      BY <1>1, <1>10, <2>0, <2>6, <2>a
    <2>8. C = <<"string", v + n + Added(k)', NoMember>> /\ Within(k, v + n)'
      <3>1. v + n + (u - d) = v + (up - down)
        BY <2>p
      <3>2. v + n + u <= MaxInt /\ MinInt <= v + n - d
        <4>1. v + up <= MaxInt /\ MinInt <= v - down
          BY <2>b, <2>p
        <4>2. QED
          BY <2>m, <2>p, <4>1
      <3>3. QED
        BY <2>b, <2>p, <3>1, <3>2 DEF Added, Within
    <2>c. PICK w : w = v + n
      OBVIOUS
    <2>9. Counted(k, f, C)'
      <3>1. C = <<"string", w + Added(k)', NoMember>> /\ Within(k, w)' /\ f[2] = w
        BY <2>7, <2>8, <2>c
      <3>2. QED
        BY <2>2, <2>7, <3>1 DEF Counted, NoMember
    <2>10. QED
      BY <1>e, <2>9 DEF Settled
  <1>11. CASE c.op \in OfSets
    <2>1. \A op : op \notin OfSets => (Owed(k, op)' <=> Owed(k, op))
      <3>1. \A op : op \notin OfSets => ~Owes(l, k, op) /\ ~Owes(l, k, op)'
        BY <1>5, <1>11
      <3>2. QED
        BY <1>3, <3>1, OwedStays
    <2>2. "del" \notin OfSets /\ "set" \notin OfSets /\ "incrby" \notin OfSets
      BY DEF OfSets
    <2>3. CASE Deleted(k, C)
      BY <1>e, <2>1, <2>2, <2>3 DEF Settled, Deleted, Absent, Seen, NoMember
    <2>4. CASE Overset(k, C)
      <3>1. PICK h \in Loop : Owes(h, k, "set") /\ C = <<"string", run[h].cmd.val[1], NoMember>>
        BY <2>4 DEF Overset
      <3>2. h # l
        BY <1>5, <1>11, <2>2, <3>1
      <3>3. Owes(h, k, "set")' /\ run'[h].cmd = run[h].cmd
        BY <1>3, <1>4, <3>1, <3>2
      <3>4. QED
        BY <1>e, <3>1, <3>3 DEF Settled, Overset, NoMember
    <2>5. CASE Counted(k, e, C)
      <3>0. PICK v : v = e[2]
        OBVIOUS
      <3>1. C = <<"string", v + Added(k), NoMember>> /\ e[1] = "string" /\ Within(k, v)
        BY <1>3, <1>11, <2>5, <3>0 DEF Counted
      <3>2. f = e
        BY <1>1, <1>11, <3>1
      <3>3. Added(k)' = Added(k) /\ Within(k, v)'
        <4>1. ~Owes(l, k, "incrby") /\ ~Owes(l, k, "incrby")'
          BY <1>5, <1>11, <2>2
        <4>2. QED
          BY <1>3, <3>1, <4>1, IncsStay
      <3>4. C = <<"string", v + Added(k)', NoMember>> /\ f[1] = "string" /\ f[2] = v
        BY <3>0, <3>1, <3>2, <3>3
      <3>5. ~Owed(k, "del")' /\ ~Owed(k, "set")'
        BY <2>1, <2>2, <2>5 DEF Counted
      <3>6. Counted(k, f, C)'
        BY <3>3, <3>4, <3>5 DEF Counted, NoMember
      <3>7. QED
        BY <1>e, <3>6 DEF Settled
    <2>6. CASE Gathered(k, e, C)
      <3>1. /\ C[1] # "string" /\ e[1] # "string"
            /\ \A m \in Member : MemberSettled(k, m, e[3][m], C[3][m])
        BY <2>6 DEF Gathered
      <3>2. PICK z \in [Member -> Nat] : z = e[3]
        BY <1>2
      <3>3. Changed(z, Head(t)) \in [Member -> Nat]
        BY <1>11, RecordMembers
      <3>4. f[1] # "string" /\ f[3] = Changed(z, Head(t))
        <4>1. f = Seen("zset", 0, Changed(z, Head(t)))
          BY <1>1, <1>11, <3>1, <3>2
        <4>2. QED
          BY <3>3, <4>1, SetWhole
      <3>5. ASSUME NEW m \in Member PROVE MemberSettled(k, m, f[3][m], C[3][m])'
        <4>1. PICK new \in Nat : new = C[3][m]
          BY <1>2
        <4>2. MemberSettled(k, m, z[m], new)
          BY <3>1, <3>2, <4>1
        <4>3. MemberSettled(k, m, Changed(z, Head(t))[m], new)'
          BY <1>11, <4>2, MemberPaid
        <4>4. PICK old : old = Changed(z, Head(t))[m]
          OBVIOUS
        <4>5. Changed(z, Head(t))'[m] = old
          BY <4>4 DEF Changed
        <4>6. MemberSettled(k, m, old, new)'
          BY <4>3, <4>5
        <4>7. QED
          BY <3>4, <4>1, <4>4, <4>6
      <3>6. ~Owed(k, "del")' /\ ~Owed(k, "set")' /\ ~Owed(k, "incrby")'
        BY <2>1, <2>2, <2>6 DEF Gathered
      <3>7. Gathered(k, f, C)'
        BY <3>1, <3>4, <3>5, <3>6 DEF Gathered
      <3>8. QED
        BY <1>e, <3>7 DEF Settled
    <2>7. QED
      BY <2>3, <2>4, <2>5, <2>6 DEF Settled
  <1>12. QED
    BY <1>6, <1>8, <1>9, <1>10, <1>11 DEF OfSets

LEMMA LogKeeps ==
  ASSUME CommandsInv, KeyInv, NEW l \in Loop, Log(l)
  PROVE  KeyInv'
  <1>1. PICK c, t : Appends(l, c, t)
    BY LogShape
  <1>2. PICK key : key = c.key
    OBVIOUS
  <1>3. /\ c \in Command /\ key \in Key /\ run[l].cmd = c /\ Works(l, key)
        /\ db' = db /\ sets' = sets /\ crossed' = crossed /\ raced' = raced
        /\ log' = Append(log, Head(t))
        /\ \A h \in Loop : h # l => run'[h] = run[h]
    BY <1>1, <1>2 DEF Appends
  <1>4. /\ Owing(l, key)' <=> Tail(t) # <<>>
        /\ Owing(l, key)' => run'[l].cmd = c /\ Todo(l)' = Tail(t)
        /\ ~Running(l)' \/ run'[l].cmd = c
        /\ run'[l].at \in {"idle", "log"}
        /\ run'[l].at = "log" => Ending(run'[l].todo, Records(run'[l].cmd))
        /\ \E j \in DOMAIN Records(c) : Head(t) = Records(c)[j]
        /\ Head(t) \in Request
    BY <1>1, <1>2, AppendsAfter
  <1>5. PICK j \in DOMAIN Records(c) : Head(t) = Records(c)[j]
    BY <1>4
  <1>6. Head(t).key = key
    BY <1>2, <1>3, <1>5, RecordsShape
  <1>7. TypeOK /\ Placed /\ Logged /\ log \in Seq(Request)
    BY DEF CommandsInv, KeyInv, TypeOK
  <1>8. \A k \in Key : Replayed(k)' = IF k = key THEN Redo(Replayed(k), Head(t)) ELSE Replayed(k)
    BY <1>3, <1>4, <1>6, <1>7, ReplayedAppend
  <1>9. Running(l) /\ run[l].cmd.key = key
    BY <1>3 DEF Works
  <1>10. /\ Compatible' /\ (\A k \in Key : Free(k)' => Free(k))
         /\ \A k : Works(l, k)' => Works(l, k) /\ run'[l].cmd = run[l].cmd
    <2>1. raced \subseteq raced' /\ (~Running(l)' \/ run'[l].cmd = run[l].cmd)
      BY <1>3, <1>4
    <2>2. QED
      BY <1>3, <1>9, <2>1, GoneOnCompatible
  <1>11. Placed'
    <2>1. /\ run'[l].at \in {"log", "removed"} => Ending(run'[l].todo, Records(run'[l].cmd))
          /\ run'[l].at = "removed" => run'[l].cmd.op = "zrem"
      BY <1>4
    <2>2. QED
      BY <1>3, <1>7, <2>1, PlacedAfter
  <1>12. Moves(l, key)
    <2>1. ~Running(l)' \/ run'[l].cmd.key = key
      BY <1>2, <1>4
    <2>2. \A k \in Key : k # key =>
             /\ db'[k] = db[k]
             /\ db[k].kind = "zset" => sets'[db[k].set] = sets[db[k].set]
             /\ Replayed(k)' = Replayed(k)
      BY <1>3, <1>8
    <2>3. QED
      BY <1>3, <1>9, <2>1, <2>2, Moved
  <1>13. Content(key)' = Content(key)
    BY <1>3 DEF Content, Seen, NoMember
  <1>14. ASSUME HandlingAt(key) PROVE HandlingAt(key)'
    <2> SUFFICES ASSUME NEW h \in Loop, Works(h, key)'
                 PROVE  /\ run'[h].cmd.op \in {"zadd", "zincrby"} => db'[key].kind # "none"
                        /\ run'[h].at \in {"held", "inside"} /\ db'[key].kind = "zset" =>
                              db'[key].set = run'[h].set
      BY DEF HandlingAt
    <2>1. CASE h = l
      BY <1>3, <1>4, <1>10, <1>14, <2>1 DEF HandlingAt
    <2>2. CASE h # l
      <3>1. Works(h, key) /\ run'[h] = run[h]
        BY <1>3, <2>2, OthersAlike
      <3>2. QED
        BY <1>3, <1>14, <3>1 DEF HandlingAt
    <2>3. QED
      BY <2>1, <2>2
  <1>15. ASSUME MeantAt(key), Free(key) PROVE MeantAt(key)'
    <2>1. PICK e, C : e = Replayed(key) /\ C = Content(key)
      OBVIOUS
    <2>2. Settled(key, e, C) /\ Whole(e) /\ Whole(C)
      BY <1>3, <1>7, <1>15, <2>1, ContentRight DEF MeantAt, Logged
    <2>3. \A h \in Loop : h # l /\ Works(h, key) => Commute(c, run[h].cmd)
      BY <1>3, <1>15, Overlaps DEF KeyInv
    <2>4. Pays(l, key, c, t)
      <3>1. t = Todo(l) /\ t # <<>> /\ t \in Seq(Request) /\ Ending(t, Records(c))
            /\ (c.op # "zadd" => t = <<c>>)
        BY <1>1 DEF Appends
      <3>2. QED
        BY <1>3, <1>4, <2>3, <3>1 DEF Pays
    <2>5. Settled(key, Redo(e, Head(t)), C)'
      BY <1>3, <1>5, <1>7, <2>2, <2>4, SettledPaid
    <2>6. PICK f : f = Redo(e, Head(t))
      OBVIOUS
    <2>7. Redo(e, Head(t))' = f
      BY <2>6 DEF Redo, Changed, Absent, Seen, NoMember
    <2>8. Settled(key, f, C)'
      BY <2>5, <2>7
    <2>9. Replayed(key)' = f /\ Content(key)' = C
      BY <1>3, <1>8, <1>13, <2>1, <2>6
    <2>10. QED
      BY <2>8, <2>9 DEF MeantAt
  <1>16. db'[key].kind # "string" => db'[key].val = 0
    BY <1>3, <1>7 DEF Logged
  <1>17. Whole(Replayed(key)')
    <2>1. Whole(Replayed(key))
      BY <1>3, <1>7 DEF Logged
    <2>2. Whole(Redo(Replayed(key), Head(t)))
      BY <1>3, <1>5, <2>1, RedoRight
    <2>3. QED
      BY <1>3, <1>8, <2>2
  <1>18. QED
    BY <1>3, <1>10, <1>11, <1>12, <1>14, <1>15, <1>16, <1>17, KeyStep

-----------------------------------------------------------------------------
(* The whole of it. *)

LEMMA KeyInit == Init => KeyInv
  <1> SUFFICES ASSUME Init PROVE KeyInv
    OBVIOUS
  <1>0. CommandsInv
    BY CommandsInit
  <1>1. /\ \A l \in Loop : run[l].at = "idle"
        /\ \A k \in Key : db[k] = None
        /\ log = <<>>
    BY DEF Init, Idle
  <1>2. \A l \in Loop : \A k : ~Works(l, k) /\ ~Owing(l, k)
    BY <1>1 DEF Works, Running, Owing
  <1>3. Compatible /\ Placed
    BY <1>1, <1>2 DEF Compatible, Placed
  <1>4. \A k : Replayed(k) = Absent
    BY <1>1, ReplayedNothing
  <1>5. \A k \in Key : Content(k) = Absent /\ (db[k].kind # "string" => db[k].val = 0)
    BY <1>1 DEF Content, None, Absent
  <1>6. Logged
    BY <1>4, <1>5, AbsentWhole DEF Logged
  <1>7. \A k \in Key : HandlingAt(k)
    BY <1>2 DEF HandlingAt
  <1>8. ASSUME NEW k \in Key PROVE MeantAt(k)
    <2>1. \A op : ~Owed(k, op)
      BY <1>2 DEF Owed, Owes
    <2>2. ASSUME NEW m \in Member PROVE MemberSettled(k, m, Absent[3][m], Absent[3][m])
      <3>1. \A l \in Loop : ~Removes(l, k, m) /\ \A x : ~Scores(l, k, m, x)
        BY <1>2 DEF Removes, Scores, Owes
      <3>2. ZIncs(k, m) \in [Loop -> Nat] /\ \A l \in Loop : ZIncs(k, m)[l] = 0
        BY <1>2 DEF ZIncs, Owes
      <3>3. Total(ZIncs(k, m)) = 0
        BY <3>2, TotalNone
      <3>4. Absent[3][m] = 0
        BY AbsentWhole DEF NoMember
      <3>5. QED
        BY <3>1, <3>3, <3>4 DEF MemberSettled
    <2>3. Gathered(k, Absent, Absent)
      BY <2>1, <2>2, AbsentWhole DEF Gathered
    <2>4. QED
      BY <1>4, <1>5, <2>3 DEF MeantAt, Settled
  <1>9. QED
    BY <1>3, <1>6, <1>7, <1>8 DEF KeyInv

LEMMA KeyLogStep == CommandsInv /\ KeyInv /\ [Next]_vars => KeyInv'
  <1> SUFFICES ASSUME CommandsInv, KeyInv, [Next]_vars PROVE KeyInv'
    OBVIOUS
  <1>1. ASSUME NEW l \in Loop, NEW c \in Command, Execute(l, c) PROVE KeyInv'
    <2>1. CASE Set(l, c)
      BY <2>1, SetKeeps
    <2>2. CASE Del(l, c)
      <3>1. CASE db[c.key] # None
        BY <2>2, <3>1, DelKeeps
      <3>2. CASE db[c.key] = None
        <4>1. db' = db
          BY <2>2, <3>2 DEF Del, CommandsInv, TypeOK
        <4>2. QED
          BY <2>2, <3>2, <4>1, RefusedKeeps DEF Del
      <3>3. QED
        BY <3>1, <3>2
    <2>3. CASE IncrBy(l, c)
      <3>1. CASE CanAdd(db[c.key].kind, db[c.key].val, c.val[1])
        BY <2>3, <3>1, IncrByKeeps
      <3>2. CASE ~CanAdd(db[c.key].kind, db[c.key].val, c.val[1])
        BY <2>3, <3>2, RefusedKeeps DEF IncrBy
      <3>3. QED
        BY <3>1, <3>2
    <2>4. CASE AcquireOrCreate(l, c)
      BY <2>4, CreateKeeps, AcquireKeeps
    <2>5. CASE Acquire(l, c)
      BY <2>5, AcquireKeeps
    <2>6. QED
      BY <1>1, <2>1, <2>2, <2>3, <2>4, <2>5 DEF Execute
  <1>2. ASSUME NEW l \in Loop, Enter(l) \/ Leave(l) \/ RemoveIfEmptyZSet(l) \/ Log(l)
        PROVE  KeyInv'
    BY <1>2, EnterKeeps, LeaveKeeps, RemoveIfEmptyKeeps, LogKeeps
  <1>3. CASE UNCHANGED vars
    <2>1. /\ db' = db /\ sets' = sets /\ log' = log /\ run' = run
          /\ crossed' = crossed /\ raced' = raced
      BY <1>3 DEF vars, history
    <2>2. Compatible' /\ Placed'
      BY <2>1 DEF KeyInv, Compatible, Placed, Free, Works, Running
    <2>3. \A k : Content(k)' = Content(k) /\ Replayed(k)' = Replayed(k)
      BY <2>1 DEF Content, Replayed, Seen, NoMember
    <2>4. Logged'
      BY <2>1, <2>3 DEF KeyInv, Logged, Whole, Absent, Seen, NoMember
    <2>5. \A l \in Loop : \A k : Alike(l, k) /\ (Works(l, k)' <=> Works(l, k))
      BY <2>1, OthersAlike
    <2>6. ASSUME NEW k \in Key, Free(k)' PROVE HandlingAt(k)' /\ MeantAt(k)'
      <3>1. HandlingAt(k) /\ MeantAt(k)
        BY <2>1, <2>6 DEF KeyInv, Free
      <3>2. HandlingAt(k)'
        BY <2>1, <2>5, <3>1 DEF HandlingAt
      <3>3. \A l \in Loop : Works(l, k)' => Works(l, k) /\ run'[l].cmd.op = run[l].cmd.op
        BY <2>1, <2>5
      <3>4. MeantAt(k)'
        BY <2>3, <2>5, <3>1, <3>3, MeantStays
      <3>5. QED
        BY <3>2, <3>4
    <2>7. QED
      BY <2>2, <2>4, <2>6 DEF KeyInv
  <1>4. QED
    BY <1>1, <1>2, <1>3 DEF Next

\* What KeyInv says of every reachable state: between the change of a key and
\* its record (command.cpp:602-941), what the keyspace holds and what the log
\* says differ by exactly what is still owed to the log.
THEOREM CommandsKeyInvariant == Spec => []KeyInv
  BY CommandsInit, CommandsStep, KeyInit, KeyLogStep, PTL DEF Spec

\* A key whose commands are answered is what the log says (command.cpp:602-941),
\* for any loops, keys, members and commands, if the commands that overlapped on
\* it commute and no two loops were inside a set at once.
THEOREM CommandsKeyLogRight == Spec => []KeyLogRight
  <1>1. CommandsInv /\ KeyInv => KeyLogRight
    <2> SUFFICES ASSUME CommandsInv, KeyInv, NEW k \in Key,
                        Quiet(k), k \notin crossed, raced = {}
                 PROVE  Content(k) = Replayed(k)
      BY DEF KeyLogRight
    <2>1. PICK e, C : e = Replayed(k) /\ C = Content(k)
      OBVIOUS
    <2>2. Settled(k, e, C) /\ Whole(e) /\ Whole(C)
      BY <2>1, ContentRight DEF KeyInv, MeantAt, Free, Logged, CommandsInv
    <2>3. \A l \in Loop : ~Works(l, k) /\ ~Owing(l, k)
      BY DEF Quiet, Works, Owing
    <2>4. \A op : ~Owed(k, op)
      BY <2>3 DEF Owed, Owes
    <2>5. CASE Counted(k, e, C)
      <3>1. e[1] = "string" /\ C = <<"string", e[2] + Added(k), NoMember>>
        BY <2>4, <2>5 DEF Counted
      <3>2. Added(k) = 0
        BY <2>4, NobodyCounts
      <3>3. e[2] \in Int /\ e = <<"string", e[2], NoMember>>
        BY <2>2, <3>1, WholeParts
      <3>4. QED
        BY <2>1, <3>1, <3>2, <3>3
    <2>6. CASE Gathered(k, e, C)
      <3>1. /\ C[1] # "string" /\ e[1] # "string" /\ e[3] \in [Member -> Nat]
            /\ \A m \in Member : MemberSettled(k, m, e[3][m], C[3][m])
        BY <2>2, <2>6, WholeParts DEF Gathered
      <3>2. ASSUME NEW m \in Member PROVE C[3][m] = e[3][m]
        <4>1. PICK old \in Nat : old = e[3][m]
          BY <3>1
        <4>0. PICK new : new = C[3][m]
          OBVIOUS
        <4>2. new = old
          BY <2>3, <3>1, <4>0, <4>1, NobodyOwes
        <4>3. QED
          BY <4>0, <4>1, <4>2
      <3>3. QED
        BY <2>1, <2>2, <3>1, <3>2, SameMembers
    <2>7. ~Deleted(k, C) /\ ~Overset(k, C)
      BY <2>3, <2>4 DEF Deleted, Overset, Owes
    <2>8. QED
      BY <2>2, <2>5, <2>6, <2>7 DEF Settled
  <1>2. QED
    BY <1>1, CommandsInvariant, CommandsKeyInvariant, PTL
=============================================================================
