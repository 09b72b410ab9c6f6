---------------------------- MODULE ReplayProofs ----------------------------
(***************************************************************************)
(* For any values, commands, times and length of the log: the entry a      *)
(* restart gives.  Redoing a record is one step of a recursion along the   *)
(* log, so the entry restored grows with the log as the entry in the       *)
(* store does; the invariants say for which restarts the two agree.        *)
(***************************************************************************)
EXTENDS Replay, WellFoundedInduction, SequenceTheorems, TLAPS

Entry == [val : Nat, at : 0 .. MaxTime + 1]

Record == [op : {"set", "incr", "del", "pexpireat"}, val : Nat,
           at : 0 .. MaxTime + 1, keep : BOOLEAN]

\* A restart at t finds no logged deadline in the past.
Early(t) == \A i \in DOMAIN log : log[i].at = 0 \/ log[i].at > t

Plain == \A i \in DOMAIN log : log[i].op \in {"set", "del"} /\ ~log[i].keep

\* The deadline of the entry was logged, so no restart that is early finds it past;
\* and an early restart from now on gives the entry as it is.
EarlyInv ==
    \A t \in Nat :
        t >= now /\ Early(t) =>
            /\ Restored(t) = entry
            /\ entry # None => entry.at = 0 \/ entry.at > t

\* With plain commands only, any restart from now on shows what a reader would
\* see one millisecond later.
PlainInv ==
    Plain => \A t \in Nat : t >= now => Live(Restored(t), t + 1) = Live(entry, t + 1)

ReplayInv == TypeOK /\ EarlyInv /\ PlainInv

-----------------------------------------------------------------------------
(* The recursion along the log. *)

\* A set of naturals that is not empty has a least member.
LEMMA LeastNat ==
  ASSUME NEW T \in SUBSET Nat, T # {}
  PROVE  \E x \in T : \A y \in T : x <= y
  <1> DEFINE R == OpToRel(<, Nat)
  <1>1. IsWellFoundedOn(R, Nat)
    BY NatLessThanWellFounded, Zenon
  <1>2. \A x, y : <<y, x>> \in R <=> y \in Nat /\ x \in Nat /\ y < x
    BY Zenon DEF OpToRel
  <1> HIDE DEF R
  <1>3. PICK x \in T : \A y \in T : ~(<<y, x>> \in R)
    BY <1>1, WFMin, Zenon
  <1>4. \A y \in T : ~(y < x)
    BY <1>2, <1>3
  <1>5. QED
    BY <1>4

\* What the first n records make, given what fewer make.
Step(t, s, f, n) == IF n = 0 THEN None ELSE Redo(f[n - 1], t, s[n])

\* Replayed(t, s) is defined: it is filled in from the first record on.
LEMMA ReplayedUnfolds ==
  ASSUME NEW t, NEW S, NEW s \in Seq(S)
  PROVE  /\ DOMAIN Replayed(t, s) = 0 .. Len(s)
         /\ \A n \in 0 .. Len(s) : Replayed(t, s)[n] = Step(t, s, Replayed(t, s), n)
  <1> DEFINE m == Len(s)
             Filled(g, k) == \A n \in 0 .. m : n <= k => g[n] = Step(t, s, g, n)
             T == {j \in 0 .. m : \E g : g = [n \in 0 .. m |-> g[n]] /\ Filled(g, m - j)}
  <1>1. m \in Nat
    BY LenProperties
  <1> HIDE DEF m
  <1>2. m \in T
    <2> DEFINE g == [n \in 0 .. m |-> None]
    <2>1. g = [n \in 0 .. m |-> g[n]] /\ 0 \in 0 .. m /\ g[0] = None
      BY <1>1
    <2>2. Filled(g, m - m)
      <3> SUFFICES ASSUME NEW n \in 0 .. m, n <= m - m PROVE g[n] = Step(t, s, g, n)
        OBVIOUS
      <3>1. n = 0
        BY <1>1
      <3>2. QED
        BY <2>1, <3>1 DEF Step
    <2>3. QED
      BY <1>1, <2>1, <2>2
  <1>3. PICK j \in T : \A i \in T : j <= i
    <2>1. T \subseteq 0 .. m /\ T # {}
      BY <1>2, Zenon
    <2> HIDE DEF T
    <2>2. QED
      BY <1>1, <2>1, LeastNat
  <1>4. j = 0
    <2>1. SUFFICES ASSUME j # 0 PROVE FALSE
      OBVIOUS
    <2>2. PICK g : g = [n \in 0 .. m |-> g[n]] /\ Filled(g, m - j)
      BY <1>3
    <2> DEFINE k == m - j + 1
               h == [g EXCEPT ![k] = Step(t, s, g, k)]
    <2>3. j \in 1 .. m /\ k \in 1 .. m
      BY <1>1, <1>3, <2>1
    <2> HIDE DEF k
    <2>4. \A n \in 0 .. m : n # k => h[n] = g[n]
      BY <2>2, <2>3
    <2>5. h[k] = Step(t, s, g, k)
      BY <2>2, <2>3
    <2>6. h = [n \in 0 .. m |-> h[n]]
      BY <2>2
    <2> HIDE DEF h
    <2>7. ASSUME NEW n \in 0 .. m, n <= k PROVE h[n] = Step(t, s, h, n)
      <3>1. Step(t, s, h, n) = Step(t, s, g, n)
        <4>1. CASE n = 0
          BY <4>1 DEF Step
        <4>2. CASE n # 0
          <5>1. n - 1 \in 0 .. m /\ n - 1 # k
            BY <1>1, <2>3, <2>7, <4>2
          <5>2. QED
            BY <2>4, <5>1 DEF Step
        <4>3. QED
          BY <4>1, <4>2
      <3>2. CASE n = k
        BY <2>5, <3>1, <3>2
      <3>3. CASE n # k
        <4>1. n <= m - j
          BY <1>1, <2>3, <2>7, <3>3 DEF k
        <4>2. QED
          BY <2>2, <2>4, <3>1, <3>3, <4>1
      <3>4. QED
        BY <3>2, <3>3
    <2>8. k = m - (j - 1)
      BY <1>1, <2>3 DEF k
    <2>9. j - 1 \in 0 .. m /\ Filled(h, m - (j - 1))
      BY <1>1, <2>3, <2>7, <2>8
    <2>10. j - 1 \in T
      BY <2>6, <2>9
    <2>11. QED
      BY <1>1, <1>3, <2>3, <2>10
  <1>5. PICK g : g = [n \in 0 .. m |-> g[n]] /\ Filled(g, m - 0)
    BY <1>3, <1>4
  <1>6. g = [n \in 0 .. m |-> Step(t, s, g, n)]
    <2>1. \A n \in 0 .. m : g[n] = Step(t, s, g, n)
      BY <1>1, <1>5
    <2>2. QED
      BY <1>5, <2>1
  <1> DEFINE r == CHOOSE f : f = [n \in 0 .. m |-> Step(t, s, f, n)]
  <1>7. r = [n \in 0 .. m |-> Step(t, s, r, n)]
    BY <1>6, Zenon
  <1>8. Replayed(t, s) = r
    BY Zenon DEF Replayed, Step, m
  <1>9. QED
    BY <1>7, <1>8 DEF m

\* A longer log begins as the shorter one does.
LEMMA ReplayedBegins ==
  ASSUME NEW t, NEW S, NEW s \in Seq(S), NEW e \in S
  PROVE  \A n \in 0 .. Len(s) : Replayed(t, Append(s, e))[n] = Replayed(t, s)[n]
  <1> DEFINE u == Append(s, e)
             f == Replayed(t, s)
             g == Replayed(t, u)
             T == {n \in 0 .. Len(s) : g[n] # f[n]}
  <1>1. /\ u \in Seq(S) /\ Len(u) = Len(s) + 1 /\ Len(s) \in Nat
        /\ \A i \in 1 .. Len(s) : u[i] = s[i]
    BY AppendProperties, LenProperties
  <1>2. \A n \in 0 .. Len(s) : f[n] = Step(t, s, f, n)
    BY ReplayedUnfolds
  <1>3. \A n \in 0 .. Len(u) : g[n] = Step(t, u, g, n)
    <2> HIDE DEF u
    <2>1. QED
      BY <1>1, ReplayedUnfolds
  <1> HIDE DEF f, g, u
  <1>4. ASSUME T # {} PROVE FALSE
    <2>1. PICK n \in T : \A m \in T : n <= m
      <3>1. T \in SUBSET Nat
        BY <1>1
      <3> HIDE DEF T
      <3>2. QED
        BY <1>4, <3>1, LeastNat
    <2>2. n \in 0 .. Len(s) /\ n \in 0 .. Len(u) /\ g[n] # f[n]
      BY <1>1, <2>1
    <2>3. f[n] = Step(t, s, f, n) /\ g[n] = Step(t, u, g, n)
      BY <1>2, <1>3, <2>2
    <2>4. n # 0
      BY <2>2, <2>3 DEF Step
    <2>5. n - 1 \in 0 .. Len(s) /\ n - 1 \notin T /\ u[n] = s[n]
      BY <1>1, <2>1, <2>2, <2>4
    <2>6. g[n - 1] = f[n - 1]
      BY <2>5
    <2>7. QED
      BY <2>2, <2>3, <2>4, <2>5, <2>6 DEF Step
  <1>5. QED
    BY <1>4 DEF f, g, u

\* The last record is redone last.
LEMMA RestoredRedoes ==
  ASSUME TypeOK, NEW r \in Record, NEW t, log' = Append(log, r)
  PROVE  Restored(t)' = Redo(Restored(t), t, r)
  <1>1. log \in Seq(Record)
    BY DEF TypeOK, Record
  <1> DEFINE u == Append(log, r)
  <1>2. u \in Seq(Record) /\ Len(u) = Len(log) + 1 /\ u[Len(u)] = r /\ Len(log) \in Nat
    BY <1>1, AppendProperties, LenProperties
  <1>3. Replayed(t, u)[Len(log)] = Replayed(t, log)[Len(log)]
    BY <1>1, <1>2, ReplayedBegins
  <1> HIDE DEF u
  <1>4. Len(u) \in 0 .. Len(u) /\ Len(u) # 0 /\ Len(u) - 1 = Len(log)
    BY <1>2
  <1>5. Replayed(t, u)[Len(u)] = Step(t, u, Replayed(t, u), Len(u))
    BY <1>2, <1>4, ReplayedUnfolds
  <1>6. Replayed(t, u)[Len(u)] = Redo(Replayed(t, log)[Len(log)], t, r)
    BY <1>2, <1>3, <1>4, <1>5 DEF Step
  <1>7. log' = u
    BY DEF u
  <1>8. QED
    BY <1>6, <1>7 DEF Restored

LEMMA RestoredStays ==
  ASSUME log' = log, NEW t
  PROVE  Restored(t)' = Restored(t)
  BY DEF Restored

-----------------------------------------------------------------------------
(* Types. *)

LEMMA TypeStep ==
  ASSUME TypeOK, Next
  PROVE  TypeOK'
  <1> /\ now \in Time /\ MaxTime \in Nat \ {0} /\ Value \subseteq Nat
      /\ entry \in {None} \cup Entry /\ log \in Seq(Record)
    BY ReplayAssumption DEF TypeOK, ReplayAssumption, Entry, Record
  <1> Time = 0 .. MaxTime
    BY DEF Time
  <1> SUFFICES now' \in Time /\ entry' \in {None} \cup Entry /\ log' \in Seq(Record)
    BY DEF TypeOK, Entry, Record
  <1>1. \A r \in Record : Append(log, r) \in Seq(Record)
    BY AppendProperties
  <1>2. ASSUME NEW v \in Value, NEW at \in Time, NEW keep \in BOOLEAN, NEW cond,
               Set(v, at, keep, cond)
        PROVE  now' \in Time /\ entry' \in {None} \cup Entry /\ log' \in Seq(Record)
    <2>0. now \in 0 .. MaxTime /\ at \in 0 .. MaxTime /\ v \in Nat
      OBVIOUS
    <2>1. Deadline(now, at) \in 0 .. MaxTime + 1
      BY <2>0 DEF Deadline
    <2>2. [op |-> "set", val |-> v, at |-> Deadline(now, at), keep |-> keep] \in Record
      BY <2>1 DEF Record
    <2>3. entry' \in Entry
      BY <1>2, <2>1 DEF Set, Stored, Live, Entry
    <2>4. QED
      BY <1>1, <1>2, <2>2, <2>3 DEF Set, Logged
  <1>3. CASE Incr
    <2>1. [op |-> "incr", val |-> 1, at |-> 0, keep |-> FALSE] \in Record
      BY DEF Record
    <2>2. entry' \in Entry
      BY <1>3 DEF Incr, Added, Live, Entry
    <2>3. QED
      BY <1>1, <1>3, <2>1, <2>2 DEF Incr, Logged
  <1>4. CASE Del
    <2>1. [op |-> "del", val |-> 0, at |-> 0, keep |-> FALSE] \in Record
      BY DEF Record
    <2>2. QED
      BY <1>1, <1>4, <2>1 DEF Del, Logged
  <1>5. ASSUME NEW at \in Time, NEW relative \in BOOLEAN, ExpireAt(at, relative)
        PROVE  now' \in Time /\ entry' \in {None} \cup Entry /\ log' \in Seq(Record)
    <2> DEFINE op == IF relative /\ entry' = None THEN "del" ELSE "pexpireat"
    <2>1. [op |-> op, val |-> 0, at |-> at, keep |-> FALSE] \in Record
      BY DEF Record
    <2>2. entry' \in {None} \cup Entry
      BY <1>5 DEF ExpireAt, Expiring, Live, Entry
    <2>3. QED
      BY <1>1, <1>5, <2>1, <2>2 DEF ExpireAt, Logged
  <1>6. CASE Expired
    BY <1>6 DEF Expired
  <1>7. CASE Tick
    BY <1>7 DEF Tick
  <1>8. QED
    BY <1>2, <1>3, <1>4, <1>5, <1>6, <1>7 DEF Next

-----------------------------------------------------------------------------
(* One record more. *)

\* What was early, or plain, with a further record was so without it.
LEMMA LogGrows ==
  ASSUME TypeOK, NEW r \in Record, log' = Append(log, r)
  PROVE  /\ \A t : Early(t)' <=> Early(t) /\ (r.at = 0 \/ r.at > t)
         /\ Plain' <=> Plain /\ r.op \in {"set", "del"} /\ ~r.keep
  <1>1. log \in Seq(Record)
    BY DEF TypeOK, Record
  <1>2. /\ DOMAIN log = 1 .. Len(log) /\ DOMAIN log' = 1 .. Len(log) + 1 /\ Len(log) \in Nat
        /\ \A i \in 1 .. Len(log) : log'[i] = log[i]
        /\ log'[Len(log) + 1] = r
    BY <1>1, AppendProperties, LenProperties
  <1>3. \A i \in DOMAIN log' : i \in DOMAIN log \/ i = Len(log) + 1
    BY <1>2
  <1>4. ASSUME NEW t PROVE Early(t)' <=> Early(t) /\ (r.at = 0 \/ r.at > t)
    BY <1>2, <1>3 DEF Early
  <1>5. Plain' <=> Plain /\ r.op \in {"set", "del"} /\ ~r.keep
    BY <1>2, <1>3 DEF Plain
  <1>6. QED
    BY <1>4, <1>5

\* A command that logs what it does keeps both invariants: redone early its record
\* does the same to the entry, redone at any time a plain one shows the same.
LEMMA CommandKeeps ==
  ASSUME ReplayInv, NEW r \in Record, log' = Append(log, r), now' = now,
         \A t \in Nat :
            t >= now /\ (r.at = 0 \/ r.at > t) /\ (entry # None => entry.at = 0 \/ entry.at > t) =>
                /\ Redo(entry, t, r) = entry'
                /\ entry' # None => entry'.at = 0 \/ entry'.at > t,
         r.op \in {"set", "del"} /\ ~r.keep =>
            \A t \in Nat : \A e :
                t >= now => Live(Redo(e, t, r), t + 1) = Live(entry', t + 1)
  PROVE  EarlyInv' /\ PlainInv'
  <1>1. EarlyInv'
    <2> SUFFICES ASSUME NEW t \in Nat, t >= now, Early(t)'
                 PROVE  /\ Restored(t)' = entry'
                        /\ entry' # None => entry'.at = 0 \/ entry'.at > t
      BY DEF EarlyInv
    <2>1. Early(t) /\ (r.at = 0 \/ r.at > t)
      BY LogGrows DEF ReplayInv
    <2>2. Restored(t) = entry /\ (entry # None => entry.at = 0 \/ entry.at > t)
      BY <2>1 DEF ReplayInv, EarlyInv
    <2>3. Restored(t)' = Redo(Restored(t), t, r)
      BY RestoredRedoes DEF ReplayInv
    <2>4. QED
      BY <2>1, <2>2, <2>3
  <1>2. PlainInv'
    <2> SUFFICES ASSUME Plain', NEW t \in Nat, t >= now
                 PROVE  Live(Restored(t)', t + 1) = Live(entry', t + 1)
      BY DEF PlainInv
    <2>1. r.op \in {"set", "del"} /\ ~r.keep
      BY LogGrows DEF ReplayInv
    <2>2. Restored(t)' = Redo(Restored(t), t, r)
      BY RestoredRedoes DEF ReplayInv
    <2>3. QED
      BY <2>1, <2>2
  <1>3. QED
    BY <1>1, <1>2

LEMMA SetKeeps ==
  ASSUME ReplayInv, NEW v \in Value, NEW at \in Time, NEW keep \in BOOLEAN,
         NEW cond, Set(v, at, keep, cond)
  PROVE  EarlyInv' /\ PlainInv'
  <1> DEFINE d == Deadline(now, at)
             r == [op |-> "set", val |-> v, at |-> d, keep |-> keep]
  <1>0. now \in Nat /\ now <= MaxTime /\ at \in 0 .. MaxTime /\ MaxTime \in Nat /\ v \in Nat
        /\ entry \in {None} \cup Entry
    <2>1. MaxTime \in Nat /\ Value \subseteq Nat
      BY ReplayAssumption DEF ReplayAssumption
    <2>2. now \in 0 .. MaxTime /\ at \in 0 .. MaxTime /\ entry \in {None} \cup Entry
      BY DEF ReplayInv, TypeOK, Time, Entry
    <2>3. QED
      BY <2>1, <2>2
  <1>1. d \in 0 .. MaxTime + 1 /\ (d = 0 \/ d > now) /\ (d = 0 <=> at = 0)
    BY <1>0 DEF Deadline
  <1>2. r \in Record
    BY <1>0, <1>1 DEF Record
  <1>3. log' = Append(log, r) /\ now' = now /\ entry' = Stored(entry, now, v, at, keep)
    BY DEF Set, Logged
  <1> HIDE DEF d
  <1>4. r.op = "set" /\ r.val = v /\ r.at = d /\ r.keep = keep
    OBVIOUS
  <1>5. \A t, e : Redo(e, t, r) = Stored(e, t, v, d, keep)
    BY <1>4 DEF Redo
  <1>6. ASSUME NEW t \in Nat, t >= now, d = 0 \/ d > t, entry # None => entry.at = 0 \/ entry.at > t
        PROVE  /\ Redo(entry, t, r) = entry'
               /\ entry' # None => entry'.at = 0 \/ entry'.at > t
    <2>1. Live(entry, t) = entry /\ Live(entry, now) = entry
      BY <1>0, <1>6 DEF Live, Entry
    <2>2. Deadline(t, d) = d /\ Deadline(now, at) = d
      BY <1>6, <1>0 DEF Deadline, d
    <2>3. Stored(entry, t, v, d, keep) = Stored(entry, now, v, at, keep)
      BY <1>1, <2>1, <2>2 DEF Stored
    <2>4. entry'.at = 0 \/ entry'.at > t
      BY <1>3, <1>6, <2>1, <2>2 DEF Stored
    <2>5. QED
      BY <1>3, <1>5, <2>3, <2>4
  <1>7. ASSUME ~keep, NEW t \in Nat, NEW e, t >= now
        PROVE  Live(Redo(e, t, r), t + 1) = Live(entry', t + 1)
    <2>1. /\ entry' = [val |-> v, at |-> d]
          /\ Redo(e, t, r) = [val |-> v, at |-> Deadline(t, d)]
      BY <1>3, <1>5, <1>7 DEF Stored, d
    <2>2. CASE d = 0 \/ d > t
      <3>1. Deadline(t, d) = d
        BY <1>0, <1>1, <2>2 DEF Deadline
      <3>2. QED
        BY <2>1, <3>1
    <2>3. CASE d # 0 /\ d <= t
      <3>1. Deadline(t, d) = t + 1
        BY <2>3 DEF Deadline
      <3>2. Live(Redo(e, t, r), t + 1) = None /\ Live(entry', t + 1) = None
        BY <1>1, <2>1, <2>3, <3>1 DEF Live
      <3>3. QED
        BY <3>2
    <2>4. QED
      BY <1>1, <2>2, <2>3
  <1> HIDE DEF r
  <1>8. QED
    BY <1>2, <1>3, <1>4, <1>6, <1>7, CommandKeeps

LEMMA IncrKeeps ==
  ASSUME ReplayInv, Incr
  PROVE  EarlyInv' /\ PlainInv'
  <1> DEFINE r == [op |-> "incr", val |-> 1, at |-> 0, keep |-> FALSE]
  <1>0. now \in Nat /\ entry \in {None} \cup Entry /\ MaxTime \in Nat
    BY ReplayAssumption DEF ReplayInv, TypeOK, Time, ReplayAssumption, Entry
  <1>1. r \in Record
    BY <1>0 DEF Record
  <1>2. log' = Append(log, r) /\ now' = now /\ entry' = Added(entry, now)
    BY DEF Incr, Logged
  <1>3. r.op = "incr" /\ \A t, e : Redo(e, t, r) = Added(e, t)
    BY DEF Redo
  <1> HIDE DEF r
  <1>4. ASSUME NEW t \in Nat, t >= now, entry # None => entry.at = 0 \/ entry.at > t
        PROVE  /\ Redo(entry, t, r) = entry'
               /\ entry' # None => entry'.at = 0 \/ entry'.at > t
    <2>1. Live(entry, t) = entry /\ Live(entry, now) = entry
      BY <1>0, <1>4 DEF Live, Entry
    <2>2. Added(entry, t) = Added(entry, now)
      BY <2>1 DEF Added
    <2>3. CASE entry = None
      BY <1>2, <1>3, <2>1, <2>2, <2>3 DEF Added
    <2>4. CASE entry # None
      BY <1>0, <1>2, <1>3, <1>4, <2>1, <2>2, <2>4 DEF Added, Entry
    <2>5. QED
      BY <2>3, <2>4
  <1>5. QED
    BY <1>1, <1>2, <1>3, <1>4, CommandKeeps

LEMMA DelKeeps ==
  ASSUME ReplayInv, Del
  PROVE  EarlyInv' /\ PlainInv'
  <1> DEFINE r == [op |-> "del", val |-> 0, at |-> 0, keep |-> FALSE]
  <1>1. r \in Record
    BY ReplayAssumption DEF Record, ReplayAssumption
  <1>2. log' = Append(log, r) /\ now' = now /\ entry' = None
    BY DEF Del, Logged
  <1>3. \A t, e : Redo(e, t, r) = None
    BY DEF Redo
  <1> HIDE DEF r
  <1>4. QED
    BY <1>1, <1>2, <1>3, CommandKeeps

LEMMA ExpireAtKeeps ==
  ASSUME ReplayInv, NEW at \in Time, NEW relative \in BOOLEAN, ExpireAt(at, relative)
  PROVE  EarlyInv' /\ PlainInv'
  <1> DEFINE op == IF relative /\ entry' = None THEN "del" ELSE "pexpireat"
             r == [op |-> op, val |-> 0, at |-> at, keep |-> FALSE]
  <1>0. now \in Nat /\ entry \in {None} \cup Entry /\ MaxTime \in Nat /\ at \in 0 .. MaxTime
    BY ReplayAssumption DEF ReplayInv, TypeOK, Time, ReplayAssumption, Entry
  <1>1. r \in Record
    BY <1>0 DEF Record
  <1>2. /\ log' = Append(log, r) /\ now' = now /\ entry' = Expiring(entry, now, at)
        /\ Live(entry, now) # None
    BY DEF ExpireAt, Logged
  <1>3. /\ r.at = at /\ r.op \in {"del", "pexpireat"}
        /\ r.op = "del" => entry' = None
        /\ \A t, e : Redo(e, t, r) = IF r.op = "del" THEN None ELSE Expiring(e, t, at)
    BY DEF Redo
  <1> HIDE DEF r
  <1>4. ASSUME NEW t \in Nat, t >= now, at = 0 \/ at > t, entry # None => entry.at = 0 \/ entry.at > t
        PROVE  /\ Redo(entry, t, r) = entry'
               /\ entry' # None => entry'.at = 0 \/ entry'.at > t
    <2>1. Live(entry, t) = entry /\ Live(entry, now) = entry /\ entry # None
      BY <1>0, <1>2, <1>4 DEF Live, Entry
    <2>2. Expiring(entry, t, at) = [entry EXCEPT !.at = at] /\ entry' = [entry EXCEPT !.at = at]
      BY <1>0, <1>2, <1>4, <2>1 DEF Expiring
    <2>3. entry' # None /\ entry'.at = at
      BY <1>0, <2>1, <2>2, ReplayAssumption DEF Entry, ReplayAssumption
    <2>4. QED
      BY <1>3, <1>4, <2>2, <2>3
  <1>5. r.op \in {"set", "del"} => \A t, e : Redo(e, t, r) = None /\ entry' = None
    BY <1>3
  <1>6. QED
    BY <1>1, <1>2, <1>3, <1>4, <1>5, CommandKeeps

-----------------------------------------------------------------------------
(* The invariants. *)

LEMMA ReplayInit == Init => ReplayInv
  <1> SUFFICES ASSUME Init PROVE ReplayInv
    OBVIOUS
  <1>1. now = 1 /\ entry = None /\ log = <<>> /\ MaxTime \in Nat \ {0}
    BY ReplayAssumption DEF Init, ReplayAssumption
  <1>2. TypeOK
    BY <1>1 DEF TypeOK, Time
  <1>3. \A t : Restored(t) = None
    <2> TAKE t
    <2>1. log \in Seq({}) /\ Len(log) = 0
      BY <1>1
    <2>2. Replayed(t, log)[0] = Step(t, log, Replayed(t, log), 0)
      <3>1. 0 \in 0 .. Len(log)
        BY <2>1
      <3>2. QED
        BY <2>1, <3>1, ReplayedUnfolds
    <2>3. QED
      BY <2>1, <2>2 DEF Restored, Step
  <1>4. QED
    BY <1>1, <1>2, <1>3 DEF ReplayInv, EarlyInv, PlainInv

LEMMA ReplayStep ==
  ASSUME ReplayInv, [Next]_vars
  PROVE  ReplayInv'
  <1>1. TypeOK'
    <2>1. CASE Next
      BY <2>1, TypeStep DEF ReplayInv
    <2>2. CASE UNCHANGED vars
      BY <2>2 DEF vars, ReplayInv, TypeOK
    <2>3. QED
      BY <2>1, <2>2
  <1>2. ASSUME log' = log PROVE \A t : Restored(t)' = Restored(t) /\ (Early(t)' <=> Early(t))
    BY <1>2 DEF Restored, Early
  <1>3. ASSUME log' = log PROVE Plain' <=> Plain
    BY <1>3 DEF Plain
  <1>4. CASE Expired
    <2>1. /\ now' = now /\ log' = log /\ entry' = None /\ now \in Nat /\ entry \in Entry
          /\ entry.at # 0 /\ entry.at <= now /\ MaxTime \in Nat
      BY <1>4, ReplayAssumption DEF Expired, Live, ReplayInv, TypeOK, Entry, Time, ReplayAssumption
    <2>2. EarlyInv'
      <3>1. entry # None
        BY <1>4 DEF Expired
      <3>2. \A t \in Nat : t >= now => ~Early(t)
        BY <2>1, <3>1 DEF ReplayInv, EarlyInv, Entry
      <3>3. QED
        BY <1>2, <2>1, <3>2 DEF EarlyInv
    <2>3. PlainInv'
      <3>1. \A t \in Nat : t >= now => Live(entry, t + 1) = None /\ Live(None, t + 1) = None
        BY <2>1 DEF Live, Entry
      <3>2. QED
        BY <1>2, <1>3, <2>1, <3>1 DEF ReplayInv, PlainInv
    <2>4. QED
      BY <1>1, <2>2, <2>3 DEF ReplayInv
  <1>5. CASE Tick \/ UNCHANGED vars
    <2>1. log' = log /\ entry' = entry /\ now' >= now
      BY <1>5 DEF Tick, vars, ReplayInv, TypeOK, Time
    <2>2. now \in Nat /\ now' \in Nat
      BY <1>1, ReplayAssumption DEF ReplayInv, TypeOK, Time, ReplayAssumption
    <2>3. \A t \in Nat : t >= now' => t >= now
      BY <2>1, <2>2
    <2>4. EarlyInv'
      BY <1>2, <2>1, <2>3 DEF ReplayInv, EarlyInv
    <2>5. PlainInv'
      BY <1>2, <1>3, <2>1, <2>3 DEF ReplayInv, PlainInv
    <2>6. QED
      BY <1>1, <2>4, <2>5 DEF ReplayInv
  <1>6. QED
    BY <1>1, <1>4, <1>5, SetKeeps, IncrKeeps, DelKeeps, ExpireAtKeeps DEF Next, ReplayInv

\* Whatever the commands, an early restart gives the entry as it is; while they
\* are plain, any restart shows what a reader would see.
THEOREM ReplayInvariant == Spec => []ReplayInv
  BY ReplayInit, ReplayStep, PTL DEF Spec

\* The entry and the log of a key keep their types: no command leaves a record
\* that is not the write it stands for.
THEOREM ReplayTypeCorrect == Spec => []TypeOK
  <1>1. ReplayInv => TypeOK
    BY DEF ReplayInv
  <1>2. QED
    BY <1>1, ReplayInvariant, PTL

\* Replay (command.cpp:1034-1041) before any logged deadline restores value and
\* deadline; with plain SET and DEL only it restores at any time what is visible.
THEOREM ReplayRestoredRight == Spec => []RestoredRight
  <1>1. ReplayInv => RestoredRight
    <2> SUFFICES ASSUME ReplayInv PROVE RestoredRight
      OBVIOUS
    <2>1. now \in Nat /\ now >= now
      BY ReplayAssumption DEF ReplayInv, TypeOK, Time, ReplayAssumption
    <2>2. Early(now) => Restored(now) = Live(entry, now)
      BY <2>1, ReplayAssumption DEF ReplayInv, EarlyInv, Live, TypeOK, ReplayAssumption
    <2>3. Plain => Live(Restored(now), now + 1) = Live(entry, now + 1)
      BY <2>1 DEF ReplayInv, PlainInv
    <2>4. QED
      BY <2>2, <2>3 DEF RestoredRight, Early, Plain
  <1>2. QED
    BY <1>1, ReplayInvariant, PTL
=============================================================================
