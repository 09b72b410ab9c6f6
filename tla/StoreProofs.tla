----------------------------- MODULE StoreProofs -----------------------------
(***************************************************************************)
(* For every set of keys and threads, every number of shards, budget, time *)
(* bound and integer range, the TTL index of Store stays in step with the  *)
(* map, and Store implements KV.  TypeOK, IndexCovers and IndexExact       *)
(* together are inductive: IndexExact needs the absence of duplicates,     *)
(* which is what makes the first match of RemoveTtlKey the only one.       *)
(***************************************************************************)
EXTENDS Store, TLAPS, WellFoundedInduction, FiniteSetTheorems

IInv == TypeOK /\ IndexCovers /\ IndexExact

-----------------------------------------------------------------------------
(* Sequences. *)

\* Every non-empty set of naturals has a least element.
LEMMA LeastNat ==
    ASSUME NEW T \in SUBSET Nat, T # {}
    PROVE  \E x \in T : \A y \in T : x <= y
<1> DEFINE R == OpToRel(<, Nat)
<1>1. IsWellFoundedOn(R, Nat)
  BY NatLessThanWellFounded, Zenon
<1>2. \A x, y : <<y, x>> \in R <=> y \in Nat /\ x \in Nat /\ y < x
  BY Zenon DEF OpToRel
<1> HIDE DEF R
<1>3. PICK x \in T : \A y \in T : ~(<<y, x>> \in R)
  BY <1>1, WFMin, Zenon
<1>4. \A y \in T : ~(y < x)
  BY <1>2, <1>3
<1> QED BY <1>4

\* The first occurrence that RemoveTtlKey looks for exists.
LEMMA FirstAtIsAPosition ==
    ASSUME NEW S, NEW s \in Seq(S), NEW k \in Range(s)
    PROVE  FirstAt(s, k) \in 1..Len(s) /\ s[FirstAt(s, k)] = k
<1> DEFINE T == {i \in 1..Len(s) : s[i] = k}
<1>1. DOMAIN s = 1..Len(s)
  OBVIOUS
<1>2. T \in SUBSET Nat /\ T # {}
  BY <1>1 DEF Range
<1>3. PICK i \in T : \A j \in T : i <= j
  BY <1>2, LeastNat
<1>4. \E n \in DOMAIN s : s[n] = k /\ \A j \in DOMAIN s : s[j] = k => n <= j
  BY <1>1, <1>3
<1> QED BY <1>1, <1>4 DEF FirstAt

\* Swapping the last slot into a hole loses at most the value of the hole,
\* and exactly that value when the slots are distinct.
LEMMA SwapPopKeepsTheRest ==
    ASSUME NEW S, NEW s \in Seq(S), NEW i \in 1..Len(s)
    PROVE  /\ SwapPop(s, i) \in Seq(S)
           /\ Range(s) \ {s[i]} \subseteq Range(SwapPop(s, i))
           /\ Range(SwapPop(s, i)) \subseteq Range(s)
           /\ IsInjective(s) =>
                 s[i] \notin Range(SwapPop(s, i)) /\ IsInjective(SwapPop(s, i))
<1> DEFINE n == Len(s)
           p == SwapPop(s, i)
<1>1. n \in Nat \ {0} /\ DOMAIN s = 1..n /\ \A j \in 1..n : s[j] \in S
  OBVIOUS
<1>2. p = [j \in 1..(n - 1) |-> IF j = i THEN s[n] ELSE s[j]]
  BY DEF SwapPop
<1>3. n - 1 \in Nat /\ p \in [1..(n - 1) -> S]
  BY <1>1, <1>2
<1>4. p \in Seq(S)
  BY <1>3
<1>5. DOMAIN p = 1..(n - 1)
  BY <1>2
<1>6. ASSUME NEW k \in Range(s), k # s[i] PROVE k \in Range(p)
  <2>1. PICK j \in 1..n : s[j] = k
    BY <1>1 DEF Range
  <2>2. CASE j = n
    <3>1. i \in 1..(n - 1) /\ p[i] = k
      BY <1>1, <1>2, <1>6, <2>1, <2>2
    <3> QED BY <1>5, <3>1 DEF Range
  <2>3. CASE j # n
    <3>1. j \in 1..(n - 1)
      <4> HIDE DEF n
      <4> QED BY <1>1, <2>3
    <3>2. j # i
      BY <1>6, <2>1
    <3>3. p[j] = k
      BY <1>2, <2>1, <3>1, <3>2
    <3> QED BY <1>5, <3>1, <3>3 DEF Range
  <2> QED BY <2>2, <2>3
<1>7. Range(p) \subseteq Range(s)
  BY <1>1, <1>2, <1>5 DEF Range
<1>8. ASSUME IsInjective(s) PROVE s[i] \notin Range(p) /\ IsInjective(p)
  <2>1. \A a, b \in 1..n : s[a] = s[b] => a = b
    BY <1>1, <1>8 DEF IsInjective
  <2>2. \A a \in 1..(n - 1) : p[a] # s[i]
    BY <1>1, <1>2, <2>1
  <2>3. \A a, b \in 1..(n - 1) : p[a] = p[b] => a = b
    BY <1>1, <1>2, <2>1
  <2> QED BY <1>5, <2>2, <2>3 DEF Range, IsInjective
<1> QED BY <1>4, <1>6, <1>7, <1>8

\* RemoveTtlKey touches no key but its argument.
LEMMA RemoveTtlKeyRemovesOne ==
    ASSUME NEW S, NEW s \in Seq(S), NEW k
    PROVE  /\ RemoveTtlKey(s, k) \in Seq(S)
           /\ Range(s) \ {k} \subseteq Range(RemoveTtlKey(s, k))
           /\ Range(RemoveTtlKey(s, k)) \subseteq Range(s)
           /\ IsInjective(s) => /\ k \notin Range(RemoveTtlKey(s, k))
                                /\ IsInjective(RemoveTtlKey(s, k))
<1>1. CASE k \in Range(s)
  <2>1. FirstAt(s, k) \in 1..Len(s) /\ s[FirstAt(s, k)] = k
    BY <1>1, FirstAtIsAPosition
  <2>2. RemoveTtlKey(s, k) = SwapPop(s, FirstAt(s, k))
    BY <1>1 DEF RemoveTtlKey
  <2> QED BY <2>1, <2>2, SwapPopKeepsTheRest
<1>2. CASE k \notin Range(s)
  BY <1>2 DEF RemoveTtlKey
<1> QED BY <1>1, <1>2

\* AddTtlKey adds its argument, and keeps the slots distinct if it was absent.
LEMMA AddTtlKeyAddsOne ==
    ASSUME NEW S, NEW s \in Seq(S), NEW k \in S
    PROVE  /\ AddTtlKey(s, k) \in Seq(S)
           /\ Range(AddTtlKey(s, k)) = Range(s) \cup {k}
           /\ IsInjective(s) /\ k \notin Range(s) => IsInjective(AddTtlKey(s, k))
<1> DEFINE n == Len(s)
           a == AddTtlKey(s, k)
<1>1. n \in Nat /\ DOMAIN s = 1..n
  OBVIOUS
<1>2. /\ a \in Seq(S) /\ DOMAIN a = 1..(n + 1)
      /\ a[n + 1] = k /\ \A j \in 1..n : a[j] = s[j]
  BY <1>1 DEF AddTtlKey
<1>3. Range(a) = Range(s) \cup {k}
  <2>1. \A x \in Range(s) \cup {k} : \E j \in 1..(n + 1) : a[j] = x
    BY <1>1, <1>2 DEF Range
  <2>2. \A j \in 1..(n + 1) : j \in 1..n \/ j = n + 1
    BY <1>1
  <2>3. \A j \in 1..(n + 1) : a[j] \in Range(s) \cup {k}
    BY <1>1, <1>2, <2>2 DEF Range
  <2> QED BY <1>2, <2>1, <2>3 DEF Range
<1>4. ASSUME IsInjective(s), k \notin Range(s) PROVE IsInjective(a)
  <2>1. \A i, j \in 1..n : s[i] = s[j] => i = j
    BY <1>1, <1>4 DEF IsInjective
  <2>2. \A i \in 1..n : s[i] # k
    BY <1>1, <1>4 DEF Range
  <2>3. \A i \in 1..(n + 1) : i \in 1..n \/ i = n + 1
    BY <1>1
  <2>4. \A i, j \in 1..(n + 1) : a[i] = a[j] => i = j
    BY <1>2, <2>1, <2>2, <2>3
  <2> QED BY <1>2, <2>4 DEF IsInjective
<1> QED BY <1>2, <1>3, <1>4

-----------------------------------------------------------------------------
(* One write to the map and its index. *)

\* IInv survives an operation that leaves entry e under k and reindexes k.
\* A lapsed entry carried a deadline, so it was in the index.
LEMMA WriteKeepsIndex ==
    ASSUME IInv,
           NEW k \in Key, NEW e \in Entries \cup {NoEntry}, NEW lapsed \in BOOLEAN,
           lapsed => HasExpire(map[k]),
           map' = [map EXCEPT ![k] = e],
           Reindex(k, lapsed, e)
    PROVE  /\ map' \in [Key -> Entries \cup {NoEntry}]
           /\ ttl_keys' \in [Shards -> Seq(Key)]
           /\ ttl_scan_cursor' \in [Shards -> Nat]
           /\ IndexCovers' /\ IndexExact'
<1> DEFINE s == ShardOf[k]
           old == ttl_keys[s]
           had == ~lapsed /\ HasExpire(map[k])
           dropped == lapsed \/ (had /\ ~HasExpire(e))
           kept == IF dropped THEN RemoveTtlKey(old, k) ELSE old
           new == IF ~had /\ HasExpire(e) THEN AddTtlKey(kept, k) ELSE kept
<1>1. /\ s \in Shards /\ old \in Seq(Key)
      /\ map \in [Key -> Entries \cup {NoEntry}]
      /\ ttl_keys \in [Shards -> Seq(Key)]
      /\ ttl_scan_cursor \in [Shards -> Nat]
  BY StoreAssumption DEF IInv, TypeOK
<1>2. /\ ttl_keys' = [ttl_keys EXCEPT ![s] = new]
      /\ ttl_scan_cursor' = [ttl_scan_cursor EXCEPT ![s] =
            IF dropped THEN CursorAfterRemove(@, old, k) ELSE @]
  BY DEF Reindex
<1>3. kept \in Seq(Key) /\ new \in Seq(Key)
  BY <1>1, RemoveTtlKeyRemovesOne, AddTtlKeyAddsOne
<1>4. map' \in [Key -> Entries \cup {NoEntry}]
  BY <1>1
<1>5. ttl_keys' \in [Shards -> Seq(Key)] /\ ttl_scan_cursor' \in [Shards -> Nat]
  BY <1>1, <1>2, <1>3 DEF CursorAfterRemove
<1>6. \A r \in Shards : r # s => ttl_keys'[r] = ttl_keys[r] /\ Indexed(r)' = Indexed(r)
  BY <1>1, <1>2 DEF Indexed
<1>7. /\ ttl_keys'[s] = new
      /\ HasExpire(e) => Indexed(s)' = Indexed(s) \cup {k}
      /\ ~HasExpire(e) => Indexed(s)' = Indexed(s) \ {k}
      /\ k \in Indexed(s) <=> HasExpire(map[k])
  BY <1>1, <1>2 DEF Indexed
<1>8. Indexed(s)' \subseteq Range(new)
  <2>1. Indexed(s) \subseteq Range(old)
    BY <1>1 DEF IInv, IndexCovers
  <2>2. Range(old) \ {k} \subseteq Range(kept)
    BY <1>1, RemoveTtlKeyRemovesOne
  <2>3. ~dropped => kept = old
    OBVIOUS
  <2>4. CASE HasExpire(e)
    <3>1. CASE had
      BY <1>7, <2>1, <2>3, <2>4, <3>1
    <3>2. CASE ~had
      <4>1. Range(new) = Range(kept) \cup {k}
        BY <1>3, <2>4, <3>2, AddTtlKeyAddsOne
      <4> HIDE DEF new, kept
      <4> QED BY <1>7, <2>1, <2>2, <2>4, <4>1
    <3> QED BY <3>1, <3>2
  <2>5. CASE ~HasExpire(e)
    <3>1. new = kept
      BY <2>5
    <3> HIDE DEF new, kept
    <3> QED BY <1>7, <2>1, <2>2, <2>5, <3>1
  <2> QED BY <2>4, <2>5
<1>9. ASSUME RawSlots = 0
      PROVE  Range(new) = Indexed(s)' /\ IsInjective(new)
  <2>1. Range(old) = Indexed(s) /\ IsInjective(old)
    BY <1>1, <1>9 DEF IInv, IndexExact
  <2>2. dropped => Range(kept) = Range(old) \ {k} /\ IsInjective(kept)
    BY <1>1, <2>1, RemoveTtlKeyRemovesOne
  <2>3. ~dropped => kept = old
    OBVIOUS
  <2>4. CASE had /\ HasExpire(e)
    BY <1>7, <2>1, <2>3, <2>4
  <2>5. CASE ~had /\ HasExpire(e)
    <3>1. k \notin Range(kept)
      <4>1. CASE lapsed
        <5>1. dropped
          BY <4>1
        <5> HIDE DEF kept, dropped
        <5> QED BY <2>2, <5>1
      <4>2. CASE ~lapsed
        <5>1. ~HasExpire(map[k]) /\ ~dropped
          BY <2>5, <4>2
        <5> HIDE DEF kept, dropped
        <5> QED BY <1>7, <2>1, <2>3, <5>1
      <4> QED BY <4>1, <4>2
    <3>2. IsInjective(kept) /\ Range(kept) \ {k} = Range(old) \ {k}
      <4> HIDE DEF kept, dropped
      <4> QED BY <2>1, <2>2, <2>3
    <3>3. Range(new) = Range(kept) \cup {k} /\ IsInjective(new)
      BY <1>3, <2>5, <3>1, <3>2, AddTtlKeyAddsOne
    <3>4. HasExpire(e)
      BY <2>5
    <3> HIDE DEF new, kept, old, had
    <3> QED BY <1>7, <2>1, <3>2, <3>3, <3>4
  <2>6. CASE ~HasExpire(e)
    <3>1. new = kept
      BY <2>6
    <3>2. CASE dropped
      <4> HIDE DEF new, kept, dropped, old
      <4> QED BY <1>7, <2>1, <2>2, <2>6, <3>1, <3>2
    <3>3. CASE ~dropped
      <4>1. ~HasExpire(map[k])
        BY <2>6, <3>3
      <4> HIDE DEF new, kept, dropped, old
      <4> QED BY <1>7, <2>1, <2>3, <2>6, <3>1, <3>3, <4>1
    <3> QED BY <3>2, <3>3
  <2> QED BY <2>4, <2>5, <2>6
<1>10. IndexCovers'
  <2> HIDE DEF new, s
  <2> QED BY <1>6, <1>7, <1>8 DEF IInv, IndexCovers
<1>11. IndexExact'
  <2> HIDE DEF new, s
  <2> QED BY <1>6, <1>7, <1>9 DEF IInv, IndexExact
<1> QED BY <1>4, <1>5, <1>10, <1>11
-----------------------------------------------------------------------------
(* The actions. *)

\* Nothing of the map, the index or the background thread changes.
LEMMA StutterKeepsIndex ==
    ASSUME IInv, UNCHANGED <<map, index>>
    PROVE  IndexCovers' /\ IndexExact'
BY DEF IInv, index, IndexCovers, IndexExact, Indexed

\* What an operation finds is an entry or nothing.
LEMMA FoundType ==
    ASSUME IInv, NEW t \in Thread, NEW k \in Key
    PROVE  Found(t, k) \in Entries \cup {NoEntry}
BY DEF IInv, TypeOK, Found

\* The end of an operation that read the clock keeps the invariant.
LEMMA FinishKeepsIInv ==
    ASSUME IInv, NEW t \in Thread, NEW k \in Key,
           NEW e \in Entries \cup {NoEntry}, NEW r, Finish(t, k, e, r)
    PROVE  IInv'
<1> DEFINE lapsed == IsExpired(map[k], now[t])
<1>1. lapsed \in BOOLEAN /\ (lapsed => HasExpire(map[k]))
  BY DEF IsExpired
<1>2. /\ map' \in [Key -> Entries \cup {NoEntry}]
      /\ ttl_keys' \in [Shards -> Seq(Key)]
      /\ ttl_scan_cursor' \in [Shards -> Nat]
      /\ IndexCovers' /\ IndexExact'
  <2> HIDE DEF lapsed
  <2>1. map' = [map EXCEPT ![k] = e] /\ Reindex(k, lapsed, e)
    BY DEF Finish, lapsed
  <2> QED BY <1>1, <2>1, WriteKeepsIndex
<1>3. /\ clock' \in Times /\ now' \in [Thread -> Times \cup {Idle}]
      /\ UNCHANGED <<flushing, bg>>
  BY DEF Finish, IInv, TypeOK
<1> QED BY <1>2, <1>3 DEF IInv, TypeOK

\* Erasing a key without looking at its deadline keeps the invariant.
LEMMA EraseKeepsIInv ==
    ASSUME IInv, NEW k \in Key, Erase(k), UNCHANGED <<clock, now, flushing, bg>>
    PROVE  IInv'
<1>1. FALSE \in BOOLEAN /\ NoEntry \in Entries \cup {NoEntry}
  OBVIOUS
<1>2. map' = [map EXCEPT ![k] = NoEntry] /\ Reindex(k, FALSE, NoEntry)
  BY DEF Erase
<1>3. /\ map' \in [Key -> Entries \cup {NoEntry}]
      /\ ttl_keys' \in [Shards -> Seq(Key)]
      /\ ttl_scan_cursor' \in [Shards -> Nat]
      /\ IndexCovers' /\ IndexExact'
  BY <1>1, <1>2, WriteKeepsIndex
<1> QED BY <1>3 DEF IInv, TypeOK

\* Every command of one key keeps the invariant.
LEMMA KeyOperationKeepsIInv ==
    ASSUME IInv, NEW t \in Thread, NEW k \in Key, KeyOperation(t, k)
    PROVE  IInv'
<1> DEFINE f == Found(t, k)
<1>0. f \in Entries \cup {NoEntry} /\ NoEntry \in Entries \cup {NoEntry}
  BY FoundType
<1>1. CASE Get(t, k)
  BY <1>0, <1>1, FinishKeepsIInv DEF Get
<1>2. CASE TtlMs(t, k)
  BY <1>0, <1>2, FinishKeepsIInv DEF TtlMs
<1>3. CASE GetZSet(t, k)
  BY <1>0, <1>3, FinishKeepsIInv DEF GetZSet
<1>4. CASE GetOrCreateZSet(t, k)
  <2>1. [val |-> ZSetEmpty, exp |-> 0] \in Entries
    BY StoreAssumption DEF Entries, Values, ZSets
  <2> QED BY <1>0, <1>4, <2>1, FinishKeepsIInv DEF GetOrCreateZSet
<1>5. CASE Del(t, k)
  <2>1. CASE map[k] = NoEntry
    <3>1. UNCHANGED <<map, ttl_keys, ttl_scan_cursor, clock, now, flushing, bg>>
      BY <1>5, <2>1 DEF Del, index
    <3> QED BY <3>1, StutterKeepsIndex DEF IInv, TypeOK, index
  <2>2. CASE map[k] # NoEntry
    BY <1>5, <2>2, EraseKeepsIInv DEF Del
  <2> QED BY <2>1, <2>2
<1>6. CASE RemoveIfEmptyZSet(t, k)
  BY <1>6, EraseKeepsIInv DEF RemoveIfEmptyZSet
<1>7. CASE MutateZSet(t, k)
  <2>1. PICK z \in ZSets : map' = [map EXCEPT ![k].val = z]
    BY <1>7 DEF MutateZSet
  <2>2. map[k] \in Entries /\ map \in [Key -> Entries \cup {NoEntry}]
    BY <1>7 DEF MutateZSet, IInv, TypeOK
  <2>3. map'[k] \in Entries /\ map'[k].exp = map[k].exp
    BY <2>1, <2>2 DEF Entries, Values
  <2>4. map' \in [Key -> Entries \cup {NoEntry}]
    BY <2>1, <2>2, <2>3
  <2>5. \A j \in Key : HasExpire(map'[j]) <=> HasExpire(map[j])
    <3>1. map'[k] # NoEntry /\ map[k] # NoEntry
      BY <2>2, <2>3, StoreAssumption
    <3>2. \A j \in Key : j # k => map'[j] = map[j]
      BY <2>1, <2>2
    <3> QED BY <2>3, <3>1, <3>2 DEF HasExpire
  <2>6. \A r \in Shards : Indexed(r)' = Indexed(r)
    BY <2>5 DEF Indexed
  <2>7. UNCHANGED <<ttl_keys, ttl_scan_cursor, clock, now, flushing, bg>>
    BY <1>7 DEF MutateZSet, index
  <2>8. IndexCovers' /\ IndexExact'
    BY <2>6, <2>7 DEF IInv, IndexCovers, IndexExact
  <2> QED BY <2>4, <2>7, <2>8 DEF IInv, TypeOK
<1>8. ASSUME NEW v \in Ints \cup Strings, NEW exp \in 0..MaxTime,
             SetRaw(t, k, v, exp)
      PROVE  IInv'
  <2> DEFINE s == ShardOf[k]
             e == [val |-> v, exp |-> exp]
             new == IF exp # 0 /\ k \notin Range(ttl_keys[s])
                    THEN AddTtlKey(ttl_keys[s], k) ELSE ttl_keys[s]
  <2>1. /\ s \in Shards /\ ttl_keys \in [Shards -> Seq(Key)]
        /\ map \in [Key -> Entries \cup {NoEntry}]
        /\ ttl_keys[s] \in Seq(Key)
    BY StoreAssumption DEF IInv, TypeOK
  <2>2. /\ map' = [map EXCEPT ![k] = e]
        /\ ttl_keys' = [ttl_keys EXCEPT ![s] = new]
        /\ Len(ttl_keys[s]) < RawSlots
        /\ UNCHANGED <<ttl_scan_cursor, clock, now, flushing, bg>>
    BY <1>8 DEF SetRaw
  <2>3. RawSlots # 0
    BY <2>1, <2>2, StoreAssumption
  <2>4. e \in Entries
    BY DEF Entries, Values
  <2>5. new \in Seq(Key) /\ Range(ttl_keys[s]) \subseteq Range(new)
        /\ (exp # 0 => k \in Range(new))
    BY <2>1, AddTtlKeyAddsOne
  <2>6. IndexCovers'
    <3>1. \A r \in Shards : r # s => ttl_keys'[r] = ttl_keys[r]
                                      /\ Indexed(r)' = Indexed(r)
      BY <2>1, <2>2 DEF Indexed
    <3>2. HasExpire(e) => exp # 0
      BY DEF HasExpire
    <3>3. Indexed(s)' \subseteq Range(ttl_keys[s]) \cup (IF exp # 0 THEN {k} ELSE {})
      <4> HIDE DEF e
      <4> QED BY <2>1, <2>2, <3>2 DEF Indexed, IInv, IndexCovers
    <3>4. ttl_keys'[s] = new
      BY <2>1, <2>2
    <3> HIDE DEF new, s
    <3> QED BY <2>5, <3>1, <3>3, <3>4 DEF IInv, IndexCovers
  <2>7. IndexExact'
    BY <2>3 DEF IndexExact
  <2>8. map' \in [Key -> Entries \cup {NoEntry}] /\ ttl_keys' \in [Shards -> Seq(Key)]
    <3> HIDE DEF new, e
    <3> QED BY <2>1, <2>2, <2>4, <2>5
  <2> QED BY <2>2, <2>6, <2>7, <2>8 DEF IInv, TypeOK
<1>9. ASSUME NEW v \in Ints \cup Strings, NEW exp \in 0..MaxTime,
             NEW nx \in BOOLEAN, NEW xx \in BOOLEAN, NEW keep_ttl \in BOOLEAN,
             Set(t, k, v, nx, xx, keep_ttl, exp)
      PROVE  IInv'
  <2> DEFINE e == [val |-> v, exp |-> NewExpiry(f, exp, keep_ttl)]
  <2>1. e \in Entries
    <3>1. NewExpiry(f, exp, keep_ttl) \in 0..MaxTime
      BY <1>0, StoreAssumption DEF NewExpiry, Entries
    <3> QED BY <3>1 DEF Entries, Values
  <2>2. \/ Finish(t, k, f, Reply("Set", Miss))
        \/ Finish(t, k, e, Reply("Set", Ok))
    BY <1>9 DEF Set
  <2> HIDE DEF e, f
  <2> QED BY <1>0, <2>1, <2>2, FinishKeepsIInv
<1>10. ASSUME NEW exp \in 0..MaxTime, ExpireAt(t, k, exp)
       PROVE  IInv'
  <2>1. CASE f = NoEntry
    BY <1>0, <1>10, <2>1, FinishKeepsIInv DEF ExpireAt
  <2>2. CASE f # NoEntry /\ exp # 0 /\ exp <= now[t]
    BY <1>0, <1>10, <2>2, FinishKeepsIInv DEF ExpireAt
  <2>3. CASE f # NoEntry /\ ~(exp # 0 /\ exp <= now[t])
    <3>1. [f EXCEPT !.exp = exp] \in Entries
      BY <1>0, <2>3 DEF Entries
    <3>2. Finish(t, k, [f EXCEPT !.exp = exp], Reply("ExpireAt", Ok))
      BY <1>10, <2>3 DEF ExpireAt
    <3> HIDE DEF f
    <3> QED BY <3>1, <3>2, FinishKeepsIInv
  <2> QED BY <2>1, <2>2, <2>3
<1>11. ASSUME NEW delta \in Deltas, IncrBy(t, k, delta)
       PROVE  IInv'
  <2> DEFINE fails == f # NoEntry /\ (f.val \notin Ints \/ Overflows(f.val, delta))
             sum == IF f = NoEntry THEN delta ELSE f.val + delta
             e == [val |-> sum, exp |-> IF f = NoEntry THEN 0 ELSE f.exp]
  <2>1. CASE fails
    BY <1>0, <1>11, <2>1, FinishKeepsIInv DEF IncrBy
  <2>2. CASE ~fails
    <3>1. sum \in Ints
      BY <2>2, StoreAssumption DEF Ints, Overflows
    <3>2. e \in Entries
      BY <1>0, <3>1, StoreAssumption DEF Entries, Values
    <3>3. Finish(t, k, e, Reply("IncrBy", sum))
      BY <1>11, <2>2 DEF IncrBy
    <3> HIDE DEF e, f, sum
    <3> QED BY <3>2, <3>3, FinishKeepsIInv
  <2> QED BY <2>1, <2>2
<1> QED BY <1>1, <1>2, <1>3, <1>4, <1>5, <1>6, <1>7, <1>8, <1>9, <1>10, <1>11
        DEF KeyOperation
\* The walk drops one slot, whose key is gone or has just expired.
LEMMA BackgroundKeepsIInv ==
    ASSUME IInv, Background
    PROVE  IInv'
<1> DEFINE s == bg.shard
           c == ScanSlot(s)
           k == ttl_keys[s][c + 1]
<1>1. CASE Awake \/ EndCycle \/ SkipShard \/ LockShard \/ UnlockShard
  <2>1. UNCHANGED <<map, ttl_keys, ttl_scan_cursor, clock, now, flushing>>
    BY <1>1 DEF Awake, EndCycle, SkipShard, LockShard, UnlockShard, index
  <2>2. bg' \in BackgroundStates /\ (bg'.pc = "scan" => bg'.shard \in Shards)
    <3>1. bg \in BackgroundStates /\ (bg.pc = "scan" => bg.shard \in 1..NumShards)
      BY DEF IInv, TypeOK, Shards
    <3>2. clock \in 0..MaxTime /\ NumShards \in Nat \ {0} /\ MaxTime \in Nat
      BY StoreAssumption DEF IInv, TypeOK, Times
    <3>3. CASE Awake
      BY <3>1, <3>2, <3>3 DEF Awake, BgState, BackgroundStates
    <3>4. CASE EndCycle
      BY <3>1, <3>2, <3>4 DEF EndCycle, BgState, BackgroundStates
    <3>5. CASE SkipShard
      BY <3>1, <3>2, <3>5 DEF SkipShard, BgState, BackgroundStates
    <3>6. CASE LockShard
      <4>1. bg.shard \in 1..NumShards
        BY <3>1, <3>2, <3>6 DEF LockShard, BackgroundStates
      <4>2. ttl_keys[bg.shard] \in Seq(Key)
        BY <4>1 DEF IInv, TypeOK, Shards
      <4>3. PICK n \in Nat : bg' = BgState("scan", bg.now, bg.shard, 0, n)
        BY <3>6, <4>2, StoreAssumption DEF LockShard
      <4> QED BY <3>1, <4>1, <4>3 DEF BgState, BackgroundStates, Shards
    <3>7. CASE UnlockShard
      BY <3>1, <3>2, <3>7 DEF UnlockShard, BgState, BackgroundStates
    <3> QED BY <1>1, <3>3, <3>4, <3>5, <3>6, <3>7
  <2>3. IndexCovers' /\ IndexExact'
    BY <2>1, StutterKeepsIndex DEF index
  <2> QED BY <2>1, <2>2, <2>3 DEF IInv, TypeOK
<1>2. ASSUME Scanning
      PROVE  /\ s \in Shards /\ ttl_keys[s] \in Seq(Key)
             /\ c \in Nat /\ c + 1 \in 1..Len(ttl_keys[s])
             /\ k \in Key /\ k \in Range(ttl_keys[s])
             /\ map \in [Key -> Entries \cup {NoEntry}]
             /\ ttl_keys \in [Shards -> Seq(Key)]
             /\ ttl_scan_cursor \in [Shards -> Nat]
             /\ UNCHANGED <<clock, now, flushing>>
             /\ bg' \in BackgroundStates
             /\ bg'.pc = "scan" => bg'.shard \in Shards
  <2>1. s \in Shards /\ ttl_keys[s] \in Seq(Key) /\ ttl_keys[s] # <<>>
    BY <1>2 DEF Scanning, IInv, TypeOK
  <2>2. ttl_scan_cursor[s] \in Nat
    BY <2>1 DEF IInv, TypeOK
  <2>3. c \in Nat /\ c + 1 \in 1..Len(ttl_keys[s])
    <3> HIDE DEF s
    <3> QED BY <2>1, <2>2 DEF ScanSlot
  <2>4. k \in Key /\ k \in Range(ttl_keys[s])
    <3> HIDE DEF s, c
    <3> QED BY <2>1, <2>3 DEF Range
  <2>5. bg \in BackgroundStates /\ bg' = BgState("scan", bg.now, bg.shard, bg.i + 1, bg.budget)
        /\ (bg.pc = "scan" => bg.shard \in Shards) /\ bg.pc = "scan"
    BY <1>2 DEF Scanning, IInv, TypeOK
  <2>6. bg' \in BackgroundStates /\ bg'.shard = bg.shard
    BY <2>5 DEF BgState, BackgroundStates
  <2>7. UNCHANGED <<clock, now, flushing>>
    BY <1>2 DEF Scanning
  <2>8. /\ map \in [Key -> Entries \cup {NoEntry}]
        /\ ttl_keys \in [Shards -> Seq(Key)]
        /\ ttl_scan_cursor \in [Shards -> Nat]
    BY DEF IInv, TypeOK
  <2> QED BY <2>1, <2>3, <2>4, <2>6, <2>7, <2>8
<1>3. ASSUME Scanning, \/ map' = map /\ map[k] = NoEntry
                       \/ map' = [map EXCEPT ![k] = NoEntry] /\ HasExpire(map[k]),
             ttl_keys' = [ttl_keys EXCEPT ![s] = SwapPop(@, c + 1)],
             ttl_scan_cursor' \in [Shards -> Nat]
      PROVE  IInv'
  <2> DEFINE new == SwapPop(ttl_keys[s], c + 1)
  <2>1. /\ new \in Seq(Key)
        /\ Range(ttl_keys[s]) \ {k} \subseteq Range(new)
        /\ Range(new) \subseteq Range(ttl_keys[s])
        /\ IsInjective(ttl_keys[s]) => k \notin Range(new) /\ IsInjective(new)
    BY <1>2, <1>3, SwapPopKeepsTheRest
  <2>2. /\ ttl_keys'[s] = new
        /\ \A r \in Shards : r # s => ttl_keys'[r] = ttl_keys[r]
        /\ ttl_keys' \in [Shards -> Seq(Key)]
        /\ map' \in [Key -> Entries \cup {NoEntry}]
    <3> HIDE DEF c
    <3> QED BY <1>2, <1>3, <2>1
  <2>3. \A r \in Shards : Indexed(r)' = Indexed(r) \ {k}
    <3>1. ~HasExpire(map'[k]) /\ \A j \in Key : j # k => map'[j] = map[j]
      BY <1>2, <1>3 DEF HasExpire
    <3>2. map' = map => ~HasExpire(map[k])
      BY <3>1
    <3> HIDE DEF k
    <3> QED BY <3>1 DEF Indexed
  <2>4. IndexCovers'
    <3> HIDE DEF new, k, s
    <3> QED BY <2>1, <2>2, <2>3 DEF IInv, IndexCovers
  <2>5. IndexExact'
    <3>1. SUFFICES ASSUME RawSlots = 0, NEW r \in Shards
                   PROVE  Range(ttl_keys'[r]) = Indexed(r)' /\ IsInjective(ttl_keys'[r])
      BY DEF IndexExact
    <3>2. /\ Range(ttl_keys[r]) = Indexed(r) /\ IsInjective(ttl_keys[r])
          /\ Range(ttl_keys[s]) = Indexed(s) /\ IsInjective(ttl_keys[s])
      BY <1>2, <1>3, <3>1 DEF IInv, IndexExact
    <3>3. CASE r = s
      <4>1. Range(new) = Range(ttl_keys[r]) \ {k} /\ IsInjective(new)
        <5> HIDE DEF new, k, s
        <5> QED BY <2>1, <3>2, <3>3
      <4>2. ttl_keys'[r] = new
        BY <2>2, <3>3
      <4> HIDE DEF new, k, s
      <4> QED BY <2>3, <3>2, <4>1, <4>2
    <3>4. CASE r # s
      <4>1. ShardOf[k] = s
        BY <1>2, <1>3, <3>2 DEF Indexed
      <4>2. k \notin Indexed(r)
        <5> HIDE DEF k, s
        <5> QED BY <3>4, <4>1 DEF Indexed
      <4> HIDE DEF new, k, s
      <4> QED BY <2>2, <2>3, <3>2, <3>4, <4>2
    <3> QED BY <3>3, <3>4
  <2> QED BY <1>2, <1>3, <2>2, <2>4, <2>5 DEF IInv, TypeOK
<1>4. CASE ScanStale
  <2>1. Scanning /\ map[k] = NoEntry /\ UNCHANGED map
        /\ ttl_keys' = [ttl_keys EXCEPT ![s] = SwapPop(@, c + 1)]
        /\ ttl_scan_cursor' = [ttl_scan_cursor EXCEPT ![s] = c]
    BY <1>4 DEF ScanStale
  <2>2. ttl_scan_cursor' \in [Shards -> Nat]
    BY <1>2, <2>1
  <2> QED BY <1>3, <2>1, <2>2
<1>5. CASE ScanExpired
  <2>1. Scanning /\ IsExpired(map[k], bg.now) /\ map' = [map EXCEPT ![k] = NoEntry]
        /\ ttl_keys' = [ttl_keys EXCEPT ![s] = SwapPop(@, c + 1)]
        /\ ttl_scan_cursor' = [ttl_scan_cursor EXCEPT ![s] =
              IF c >= Len(ttl_keys[s]) - 1 THEN 0 ELSE c]
    BY <1>5 DEF ScanExpired
  <2>2. ttl_scan_cursor' \in [Shards -> Nat]
    BY <1>2, <2>1
  <2>3. HasExpire(map[k])
    BY <2>1 DEF IsExpired
  <2> QED BY <1>3, <2>1, <2>2, <2>3
<1>6. CASE ScanKeep
  <2>1. Scanning /\ UNCHANGED <<map, ttl_keys>>
        /\ ttl_scan_cursor' = [ttl_scan_cursor EXCEPT ![s] = c + 1]
    BY <1>6 DEF ScanKeep
  <2>2. ttl_scan_cursor' \in [Shards -> Nat]
    BY <1>2, <2>1
  <2>3. IndexCovers' /\ IndexExact'
    BY <2>1 DEF IInv, IndexCovers, IndexExact, Indexed
  <2> QED BY <1>2, <2>1, <2>2, <2>3 DEF IInv, TypeOK
<1> QED BY <1>1, <1>4, <1>5, <1>6 DEF Background

\* FLUSHALL empties a shard's map and its index together.
LEMMA FlushShardKeepsIInv ==
    ASSUME IInv, NEW t \in Thread, FlushShard(t)
    PROVE  IInv'
<1> DEFINE s == flushing[t]
<1>1. s \in Shards /\ flushing \in [Thread -> 0..NumShards]
  BY DEF FlushShard, IInv, TypeOK, Shards
<1>2. /\ map' = [j \in Key |-> IF ShardOf[j] = s THEN NoEntry ELSE map[j]]
      /\ ttl_keys' = [ttl_keys EXCEPT ![s] = <<>>]
      /\ ttl_scan_cursor' = [ttl_scan_cursor EXCEPT ![s] = 0]
      /\ flushing' = [flushing EXCEPT ![t] = IF s = NumShards THEN 0 ELSE s + 1]
      /\ UNCHANGED <<clock, now, bg>>
  BY DEF FlushShard
<1>3. TypeOK'
  <2>1. (IF s = NumShards THEN 0 ELSE s + 1) \in 0..NumShards
    BY <1>1, StoreAssumption DEF Shards
  <2>2. flushing' \in [Thread -> 0..NumShards]
    <3> HIDE DEF s
    <3> QED BY <1>1, <1>2, <2>1
  <2>3. map' \in [Key -> Entries \cup {NoEntry}]
    BY <1>2 DEF IInv, TypeOK
  <2>4. ttl_keys' \in [Shards -> Seq(Key)] /\ ttl_scan_cursor' \in [Shards -> Nat]
    BY <1>1, <1>2 DEF IInv, TypeOK
  <2> QED BY <1>2, <2>2, <2>3, <2>4 DEF IInv, TypeOK
<1>4. \A r \in Shards : /\ r = s => Indexed(r)' = {} /\ ttl_keys'[r] = <<>>
                        /\ r # s => /\ Indexed(r)' = Indexed(r)
                                    /\ ttl_keys'[r] = ttl_keys[r]
  BY <1>1, <1>2 DEF Indexed, HasExpire, IInv, TypeOK
<1>5. Range(<<>>) = {} /\ IsInjective(<<>>)
  BY DEF Range, IsInjective
<1>6. IndexCovers' /\ IndexExact'
  <2> HIDE DEF s
  <2> QED BY <1>4, <1>5 DEF IInv, IndexCovers, IndexExact
<1> QED BY <1>3, <1>6 DEF IInv

\* Every step keeps the invariant.
LEMMA NextKeepsIInv == IInv /\ [Next]_vars => IInv'
<1> SUFFICES ASSUME IInv, [Next]_vars PROVE IInv'
  OBVIOUS
<1>1. CASE Tick
  <2>1. clock' \in Times /\ UNCHANGED <<map, ttl_keys, ttl_scan_cursor, now, flushing, bg>>
    <3>1. clock \in 1..MaxTime /\ MaxTime \in Nat
      BY StoreAssumption DEF IInv, TypeOK, Times
    <3> QED BY <1>1, <3>1 DEF Tick, Times, index
  <2> QED BY <2>1, StutterKeepsIndex DEF IInv, TypeOK, index
<1>2. CASE Background
  BY <1>2, BackgroundKeepsIInv
<1>3. ASSUME NEW t \in Thread, Command(t) PROVE IInv'
  <2>1. CASE Begin(t)
    <3>1. /\ now' \in [Thread -> Times \cup {Idle}]
          /\ UNCHANGED <<map, ttl_keys, ttl_scan_cursor, clock, flushing, bg>>
      BY <2>1 DEF Begin, IInv, TypeOK, index
    <3> QED BY <3>1, StutterKeepsIndex DEF IInv, TypeOK, index
  <2>2. CASE FlushAll(t)
    <3>1. /\ flushing' \in [Thread -> 0..NumShards]
          /\ UNCHANGED <<map, ttl_keys, ttl_scan_cursor, clock, now, bg>>
      BY <2>2, StoreAssumption DEF FlushAll, IInv, TypeOK, index
    <3> QED BY <3>1, StutterKeepsIndex DEF IInv, TypeOK, index
  <2>3. CASE FlushShard(t)
    BY <2>3, FlushShardKeepsIInv
  <2>4. CASE \E k \in Key : KeyOperation(t, k)
    BY <2>4, KeyOperationKeepsIInv
  <2> QED BY <1>3, <2>1, <2>2, <2>3, <2>4 DEF Command
<1>4. CASE UNCHANGED vars
  BY <1>4, StutterKeepsIndex DEF vars, index, IInv, TypeOK
<1> QED BY <1>1, <1>2, <1>3, <1>4 DEF Next

LEMMA InitIInv == Init => IInv
<1> SUFFICES ASSUME Init PROVE IInv
  OBVIOUS
<1>1. TypeOK
  BY StoreAssumption DEF Init, TypeOK, Shards, Times, BgState, BackgroundStates, Idle
<1>2. \A s \in Shards : Indexed(s) = {} /\ ttl_keys[s] = <<>>
  BY DEF Init, Indexed, HasExpire
<1>3. Range(<<>>) = {} /\ IsInjective(<<>>)
  BY DEF Range, IsInjective
<1> QED BY <1>1, <1>2, <1>3 DEF IInv, IndexCovers, IndexExact

-----------------------------------------------------------------------------
(* What one walk leaves behind.  The slots it will still look at are the     *)
(* window that starts at the cursor and is as long as the budget left; an    *)
(* expired key that no slot of the window holds will be left.  Walk bounds   *)
(* their number by the number of slots dropped, and is inductive together    *)
(* with IInv.                                                                *)

\* The slots, counted from 1, of an index of length n that r more iterations
\* look at from slot c on, counted from 0, as long as none is dropped.
Window(n, c, r) == {j \in 1..n : (c < j /\ j <= c + r) \/ j <= c + r - n}

\* The expired keys that the walk will not meet.
PassedBy ==
    {k \in LeftExpired(bg.shard) :
        \A j \in Window(Len(ttl_keys[bg.shard]), ScanSlot(bg.shard), bg.budget - bg.i) :
            ttl_keys[bg.shard][j] # k}

Walk ==
    bg.pc = "scan" /\ bg.budget < SampleBudget =>
        /\ bg.i <= bg.budget
        /\ bg.budget - bg.i <= Len(ttl_keys[bg.shard])
        /\ Len(ttl_keys[bg.shard]) <= bg.budget
        /\ IsFiniteSet(PassedBy)
        /\ Cardinality(PassedBy) <= bg.budget - Len(ttl_keys[bg.shard])

\* The first slot of a window leaves it when the cursor moves on.
LEMMA WindowMovesOn ==
    ASSUME NEW n \in Nat, NEW c \in 0..(n - 1), NEW r \in 1..n
    PROVE  Window(n, c, r) \subseteq
              Window(n, IF c + 1 >= n THEN 0 ELSE c + 1, r - 1) \cup {c + 1}
<1> DEFINE d == IF c + 1 >= n THEN 0 ELSE c + 1
<1>1. SUFFICES ASSUME NEW j \in 1..n, (c < j /\ j <= c + r) \/ j <= c + r - n, j # c + 1
               PROVE  (d < j /\ j <= d + (r - 1)) \/ j <= d + (r - 1) - n
  BY DEF Window
<1>2. CASE c + 1 >= n
  <2>1. c = n - 1 /\ d = 0 /\ j <= r - 1
    BY <1>1, <1>2
  <2> QED BY <1>1, <2>1
<1>3. CASE c + 1 < n
  <2>1. d = c + 1
    BY <1>3
  <2> QED BY <1>1, <2>1
<1> QED BY <1>2, <1>3

\* When the slot is dropped and the last one moves into it, the window still
\* holds all it held but one key: its last, unless it reached the end.
LEMMA WindowAfterDrop ==
    ASSUME NEW S, NEW s \in Seq(S), NEW c \in 0..(Len(s) - 1), NEW r \in 1..Len(s)
    PROVE  \E x : \A j \in Window(Len(s), c, r) :
              \/ j = c + 1 \/ s[j] = x
              \/ \E i \in Window(Len(s) - 1, IF c >= Len(s) - 1 THEN 0 ELSE c, r - 1) :
                    SwapPop(s, c + 1)[i] = s[j]
<1> DEFINE n == Len(s)
           p == SwapPop(s, c + 1)
           d == IF c >= n - 1 THEN 0 ELSE c
<1>1. n \in Nat \ {0} /\ c \in 0..(n - 1) /\ r \in 1..n
  OBVIOUS
<1>2. /\ p = [j \in 1..(n - 1) |-> IF j = c + 1 THEN s[n] ELSE s[j]]
      /\ p \in Seq(S) /\ Len(p) = n - 1
  <2>1. c + 1 \in 1..n
    BY <1>1
  <2>2. p = [j \in 1..(n - 1) |-> IF j = c + 1 THEN s[n] ELSE s[j]]
    BY DEF SwapPop
  <2>3. p \in Seq(S)
    BY <2>1, SwapPopKeepsTheRest
  <2>4. DOMAIN p = 1..(n - 1) /\ DOMAIN p = 1..Len(p) /\ Len(p) \in Nat
    BY <2>2, <2>3
  <2>5. Len(p) = n - 1
    <3> HIDE DEF p, n
    <3> QED BY <1>1, <2>4
  <2> QED BY <2>2, <2>3, <2>5
<1>3. SUFFICES ASSUME NEW j \in Window(n, c, r), j # c + 1, j # c + r
               PROVE  \E i \in Window(n - 1, d, r - 1) : p[i] = s[j]
  <2>1. \A j \in Window(n, c, r) :
            \/ j = c + 1 \/ j = c + r
            \/ \E i \in Window(n - 1, d, r - 1) : p[i] = s[j]
    BY <1>3
  <2>2. \A j \in Window(n, c, r) :
            \/ j = c + 1 \/ s[j] = s[c + r]
            \/ \E i \in Window(n - 1, d, r - 1) : p[i] = s[j]
    BY <2>1
  <2> HIDE DEF p, d, n
  <2> QED BY <2>2 DEF p, d, n
<1>4. j \in 1..n /\ ((c < j /\ j <= c + r) \/ j <= c + r - n)
  BY DEF Window
<1> HIDE DEF n, p
<1>5. CASE j = n
  <2>1. c + 1 <= n - 1 /\ d = c /\ r - 1 >= 1
    BY <1>1, <1>3, <1>4, <1>5
  <2>2. c + 1 \in Window(n - 1, d, r - 1) /\ p[c + 1] = s[n]
    BY <1>1, <1>2, <2>1 DEF Window
  <2> QED BY <1>5, <2>2
<1>6. CASE j # n
  <2>1. j \in 1..(n - 1) /\ p[j] = s[j]
    BY <1>1, <1>2, <1>3, <1>4, <1>6
  <2>2. (d < j /\ j <= d + (r - 1)) \/ j <= d + (r - 1) - (n - 1)
    <3>1. CASE c >= n - 1
      BY <1>1, <1>3, <1>4, <2>1, <3>1
    <3>2. CASE c < n - 1
      BY <1>1, <1>3, <1>4, <2>1, <3>2
    <3> QED BY <1>1, <3>1, <3>2
  <2>3. j \in Window(n - 1, d, r - 1)
    BY <2>1, <2>2 DEF Window
  <2> QED BY <2>1, <2>3
<1> QED BY <1>5, <1>6

\* A set with at most one more element than a finite one.
LEMMA OneMore ==
    ASSUME NEW S, IsFiniteSet(S), NEW x, NEW T \in SUBSET (S \cup {x})
    PROVE  IsFiniteSet(T) /\ Cardinality(T) <= Cardinality(S) + 1
<1>1. /\ IsFiniteSet(S \cup {x}) /\ Cardinality(S) \in Nat
      /\ Cardinality(S \cup {x}) <= Cardinality(S) + 1
  <2>1. Cardinality(S) \in Nat
    BY FS_CardinalityType
  <2>2. /\ IsFiniteSet(S \cup {x})
        /\ Cardinality(S \cup {x}) = IF x \in S THEN Cardinality(S) ELSE Cardinality(S) + 1
    BY FS_AddElement
  <2> QED BY <2>1, <2>2
<1>2. /\ IsFiniteSet(T) /\ Cardinality(T) <= Cardinality(S \cup {x})
      /\ Cardinality(T) \in Nat
  BY <1>1, FS_Subset, FS_CardinalityType
<1>3. Cardinality(S \cup {x}) \in Nat
  BY <1>1, FS_CardinalityType
<1> QED BY <1>1, <1>2, <1>3

\* Nobody but the background thread touches the shard it walks over: an
\* operation on it would need the mutex, and the command that changes a sorted
\* set outside the mutex leaves the deadline alone.
LEMMA WalkUndisturbed ==
    ASSUME IInv, [Next]_vars, ~Background, bg.pc = "scan"
    PROVE  /\ bg' = bg
           /\ ttl_keys'[bg.shard] = ttl_keys[bg.shard]
           /\ ttl_scan_cursor'[bg.shard] = ttl_scan_cursor[bg.shard]
           /\ LeftExpired(bg.shard)' = LeftExpired(bg.shard)
<1> DEFINE s == bg.shard
           Same == /\ ttl_keys'[s] = ttl_keys[s]
                   /\ ttl_scan_cursor'[s] = ttl_scan_cursor[s]
                   /\ \A k \in Key : ShardOf[k] = s =>
                         (IsExpired(map'[k], bg.now) <=> IsExpired(map[k], bg.now))
<1>0. /\ s \in Shards /\ ttl_keys \in [Shards -> Seq(Key)]
      /\ ttl_scan_cursor \in [Shards -> Nat]
      /\ map \in [Key -> Entries \cup {NoEntry}]
  BY DEF IInv, TypeOK
<1>1. SUFFICES bg' = bg /\ Same
  BY DEF LeftExpired
<1>2. CASE UNCHANGED <<map, index, bg>>
  BY <1>2 DEF index
\* The end of an operation on a key of another shard.
<1>3. ASSUME NEW k \in Key, ShardOf[k] # s, NEW e,
             map' = [map EXCEPT ![k] = e], bg' = bg,
             NEW ks, ttl_keys' = [ttl_keys EXCEPT ![ShardOf[k]] = ks],
             NEW cu, ttl_scan_cursor' = [ttl_scan_cursor EXCEPT ![ShardOf[k]] = cu]
      PROVE  bg' = bg /\ Same
  BY <1>0, <1>3
<1>4. ASSUME NEW k \in Key, ShardOf[k] # s, NEW lapsed, NEW e,
             map' = [map EXCEPT ![k] = e], Reindex(k, lapsed, e), bg' = bg
      PROVE  bg' = bg /\ Same
  <2>1. PICK ks : ttl_keys' = [ttl_keys EXCEPT ![ShardOf[k]] = ks]
    BY <1>4 DEF Reindex
  <2>2. PICK cu : ttl_scan_cursor' = [ttl_scan_cursor EXCEPT ![ShardOf[k]] = cu]
    BY <1>4 DEF Reindex
  <2> HIDE DEF Same
  <2> QED BY <1>3, <1>4, <2>1, <2>2
<1>5. ASSUME NEW t \in Thread, NEW k \in Key, Unlocked(ShardOf[k]), NEW e, NEW r,
             Finish(t, k, e, r)
      PROVE  bg' = bg /\ Same
  <2>1. ShardOf[k] # s
    BY <1>5 DEF Unlocked
  <2>2. /\ map' = [map EXCEPT ![k] = e] /\ bg' = bg
        /\ Reindex(k, IsExpired(map[k], now[t]), e)
    BY <1>5 DEF Finish
  <2> HIDE DEF Same
  <2> QED BY <1>4, <2>1, <2>2
<1> HIDE DEF Same
<1>6. ASSUME NEW t \in Thread, NEW k \in Key, KeyOperation(t, k)
      PROVE  bg' = bg /\ Same
  <2> DEFINE f == Found(t, k)
  <2>1. CASE \/ Get(t, k) \/ TtlMs(t, k) \/ GetZSet(t, k) \/ GetOrCreateZSet(t, k)
             \/ \E v \in Ints \cup Strings, exp \in 0..MaxTime :
                   \E nx, xx, keep_ttl \in BOOLEAN : Set(t, k, v, nx, xx, keep_ttl, exp)
             \/ \E exp \in 0..MaxTime : ExpireAt(t, k, exp)
             \/ \E delta \in Deltas : IncrBy(t, k, delta)
    <3>1. Unlocked(ShardOf[k])
      BY <2>1 DEF Get, TtlMs, GetZSet, GetOrCreateZSet, Set, ExpireAt, IncrBy, Locked
    <3>2. CASE Get(t, k) \/ TtlMs(t, k) \/ GetZSet(t, k)
      BY <1>5, <3>1, <3>2 DEF Get, TtlMs, GetZSet
    <3>3. CASE GetOrCreateZSet(t, k)
      BY <1>5, <3>1, <3>3 DEF GetOrCreateZSet
    <3>4. ASSUME NEW v, NEW exp, NEW nx, NEW xx, NEW keep_ttl,
                 Set(t, k, v, nx, xx, keep_ttl, exp)
          PROVE  bg' = bg /\ Same
      <4>1. \/ Finish(t, k, f, Reply("Set", Miss))
            \/ Finish(t, k, [val |-> v, exp |-> NewExpiry(f, exp, keep_ttl)],
                      Reply("Set", Ok))
        BY <3>4 DEF Set
      <4> QED BY <1>5, <3>1, <4>1
    <3>5. ASSUME NEW exp, ExpireAt(t, k, exp)
          PROVE  bg' = bg /\ Same
      <4>1. CASE f = NoEntry
        BY <1>5, <3>1, <3>5, <4>1 DEF ExpireAt
      <4>2. CASE f # NoEntry /\ exp # 0 /\ exp <= now[t]
        BY <1>5, <3>1, <3>5, <4>2 DEF ExpireAt
      <4>3. CASE f # NoEntry /\ ~(exp # 0 /\ exp <= now[t])
        BY <1>5, <3>1, <3>5, <4>3 DEF ExpireAt
      <4> QED BY <4>1, <4>2, <4>3
    <3>6. ASSUME NEW delta, IncrBy(t, k, delta)
          PROVE  bg' = bg /\ Same
      <4>1. \E e, r : Finish(t, k, e, r)
        BY <3>6 DEF IncrBy
      <4> QED BY <1>5, <3>1, <4>1
    <3> QED BY <2>1, <3>2, <3>3, <3>4, <3>5, <3>6
  <2>2. CASE Del(t, k)
    <3>1. CASE map[k] = NoEntry
      BY <1>2, <2>2, <3>1 DEF Del
    <3>2. CASE map[k] # NoEntry
      <4>1. ShardOf[k] # s /\ bg' = bg /\ Erase(k)
        BY <2>2, <3>2 DEF Del, AtOnce, Unlocked
      <4> QED BY <1>4, <4>1 DEF Erase
    <3> QED BY <3>1, <3>2
  <2>3. CASE RemoveIfEmptyZSet(t, k)
    <3>1. ShardOf[k] # s /\ bg' = bg /\ Erase(k)
      BY <2>3 DEF RemoveIfEmptyZSet, AtOnce, Unlocked
    <3> QED BY <1>4, <3>1 DEF Erase
  <2>4. CASE MutateZSet(t, k)
    <3>1. PICK z \in ZSets : map' = [map EXCEPT ![k].val = z]
      BY <2>4 DEF MutateZSet
    <3>2. map[k] \in Entries /\ bg' = bg /\ UNCHANGED index
      BY <2>4 DEF MutateZSet, IInv, TypeOK
    <3>3. /\ map'[k] \in Entries /\ map'[k].exp = map[k].exp
          /\ \A j \in Key : j # k => map'[j] = map[j]
      BY <1>0, <3>1, <3>2 DEF Entries, Values
    <3>4. \A j \in Key : IsExpired(map'[j], bg.now) <=> IsExpired(map[j], bg.now)
      BY <3>2, <3>3, StoreAssumption DEF IsExpired, HasExpire
    <3> QED BY <3>2, <3>4 DEF Same, index
  <2>5. ASSUME NEW v, NEW exp, SetRaw(t, k, v, exp)
        PROVE  bg' = bg /\ Same
    <3>1. ShardOf[k] # s /\ bg' = bg /\ UNCHANGED ttl_scan_cursor
          /\ map' = [map EXCEPT ![k] = [val |-> v, exp |-> exp]]
      BY <2>5 DEF SetRaw, AtOnce, Unlocked
    <3>2. PICK ks : ttl_keys' = [ttl_keys EXCEPT ![ShardOf[k]] = ks]
      BY <2>5 DEF SetRaw
    <3> QED BY <1>0, <3>1, <3>2 DEF Same
  <2> QED BY <1>6, <2>1, <2>2, <2>3, <2>4, <2>5 DEF KeyOperation
<1>7. CASE \E t \in Thread : FlushShard(t)
  <2>1. PICK t \in Thread : FlushShard(t)
    BY <1>7
  <2>2. /\ flushing[t] # s /\ bg' = bg
        /\ map' = [k \in Key |-> IF ShardOf[k] = flushing[t] THEN NoEntry ELSE map[k]]
        /\ ttl_keys' = [ttl_keys EXCEPT ![flushing[t]] = <<>>]
        /\ ttl_scan_cursor' = [ttl_scan_cursor EXCEPT ![flushing[t]] = 0]
    BY <2>1 DEF FlushShard, Unlocked
  <2>3. \A k \in Key : ShardOf[k] = s => map'[k] = map[k]
    BY <2>2
  <2> QED BY <1>0, <2>2, <2>3 DEF Same
<1>8. CASE \/ Tick \/ UNCHANGED vars
           \/ \E t \in Thread : Begin(t) \/ FlushAll(t)
  BY <1>2, <1>8 DEF Tick, vars, Begin, FlushAll, index
<1> QED BY <1>6, <1>7, <1>8 DEF Next, Command

\* A walk begins with a window of all slots, and passes nothing by.
LEMMA LockShardOpensWindow ==
    ASSUME IInv, LockShard
    PROVE  Walk'
<1>0. PICK s : s = bg.shard
  OBVIOUS
<1> DEFINE n == Len(ttl_keys[s])
<1>1. SUFFICES ASSUME bg'.budget < SampleBudget PROVE Walk'
  BY DEF Walk
<1>2. /\ s \in Shards /\ ttl_keys[s] \in Seq(Key) /\ n \in Nat \ {0}
      /\ ttl_scan_cursor[s] \in Nat
  <2>1. s \in Shards
    BY <1>0 DEF LockShard, IInv, TypeOK, BackgroundStates, Shards
  <2>2. ttl_keys[s] \in Seq(Key) /\ ttl_scan_cursor[s] \in Nat
    BY <2>1 DEF IInv, TypeOK
  <2>3. n > 0
    BY <1>0 DEF LockShard
  <2> QED BY <2>1, <2>2, <2>3
<1>3. UNCHANGED <<map, ttl_keys, ttl_scan_cursor>>
  BY DEF LockShard, index
<1>4. /\ bg' = [pc |-> "scan", now |-> bg.now, shard |-> s, i |-> 0, budget |-> n]
  BY <1>0, <1>1, StoreAssumption DEF LockShard, BgState
<1>5. LeftExpired(s)' \subseteq Range(ttl_keys[s])
  <2>1. Indexed(s) \subseteq Range(ttl_keys[s])
    BY <1>2 DEF IInv, IndexCovers
  <2> QED BY <1>3, <1>4, <2>1 DEF LeftExpired, IsExpired, Indexed
<1>6. PassedBy' = {}
  <2>1. SUFFICES ASSUME NEW k \in LeftExpired(s)'
                 PROVE  \E j \in Window(n, ScanSlot(s), n) : ttl_keys[s][j] = k
    <3>1. /\ bg'.shard = s /\ bg'.budget - bg'.i = n /\ ttl_keys' = ttl_keys
          /\ ScanSlot(s)' = ScanSlot(s)
      BY <1>2, <1>3, <1>4 DEF ScanSlot
    <3> QED BY <2>1, <3>1 DEF PassedBy
  <2>2. DOMAIN ttl_keys[s] = 1..n
    BY <1>2
  <2>3. PICK j \in 1..n : ttl_keys[s][j] = k
    BY <1>5, <2>1, <2>2 DEF Range
  <2>4. ScanSlot(s) \in 0..(n - 1)
    <3> QED BY <1>2 DEF ScanSlot
  <2>5. j \in Window(n, ScanSlot(s), n)
    <3> HIDE DEF n
    <3> QED BY <1>2, <2>4 DEF Window
  <2> QED BY <2>3, <2>5
<1>7. /\ bg'.i <= bg'.budget /\ bg'.budget - bg'.i <= Len(ttl_keys'[bg'.shard])
      /\ Len(ttl_keys'[bg'.shard]) <= bg'.budget
      /\ bg'.budget - Len(ttl_keys'[bg'.shard]) = 0
  <2> QED BY <1>2, <1>3, <1>4
<1> QED BY <1>6, <1>7, FS_EmptySet DEF Walk

\* A slot that is kept holds no expired key; a slot that is dropped costs the
\* walk at most one other key.
LEMMA ScanKeepsWindow ==
    ASSUME IInv, Walk, ScanStale \/ ScanExpired \/ ScanKeep
    PROVE  Walk'
<1>0. PICK s : s = bg.shard
  OBVIOUS
<1> DEFINE c == ScanSlot(s)
           old == ttl_keys[s]
           n == Len(old)
           r == bg.budget - bg.i
           k == old[c + 1]
<1>1. SUFFICES ASSUME bg.budget < SampleBudget PROVE Walk'
  <2>1. bg'.budget = bg.budget
    BY DEF ScanStale, ScanExpired, ScanKeep, Scanning, BgState
  <2> QED BY <1>1, <2>1 DEF Walk
<1>2. /\ s \in Shards /\ old \in Seq(Key) /\ n \in Nat \ {0}
      /\ ttl_keys \in [Shards -> Seq(Key)]
      /\ ttl_scan_cursor \in [Shards -> Nat]
      /\ map \in [Key -> Entries \cup {NoEntry}]
      /\ c \in 0..(n - 1)
  <2>1. s \in Shards /\ old # <<>>
    BY <1>0 DEF ScanStale, ScanExpired, ScanKeep, Scanning, IInv, TypeOK
  <2>2. /\ ttl_keys \in [Shards -> Seq(Key)] /\ ttl_scan_cursor \in [Shards -> Nat]
        /\ map \in [Key -> Entries \cup {NoEntry}]
    BY DEF IInv, TypeOK
  <2>3. old \in Seq(Key) /\ ttl_scan_cursor[s] \in Nat
    BY <2>1, <2>2
  <2>4. n \in Nat \ {0}
    <3> QED BY <2>1, <2>3
  <2>5. c \in 0..(n - 1)
    <3> QED BY <2>3, <2>4 DEF ScanSlot
  <2> QED BY <2>1, <2>2, <2>3, <2>4, <2>5
<1>3. /\ bg.pc = "scan" /\ bg.i \in Nat /\ bg.budget \in Nat /\ bg.i < bg.budget
      /\ bg' = [pc |-> "scan", now |-> bg.now, shard |-> s, i |-> bg.i + 1,
                budget |-> bg.budget]
  BY <1>0 DEF ScanStale, ScanExpired, ScanKeep, Scanning, BgState, IInv, TypeOK, BackgroundStates
<1>4. /\ r <= n /\ n <= bg.budget /\ IsFiniteSet(PassedBy)
      /\ Cardinality(PassedBy) \in Nat /\ Cardinality(PassedBy) <= bg.budget - n
  BY <1>0, <1>1, <1>3, FS_CardinalityType DEF Walk
<1>5. r \in 1..n
  BY <1>2, <1>3, <1>4
<1>6. PassedBy = {j \in LeftExpired(s) : \A i \in Window(n, c, r) : old[i] # j}
  BY <1>0 DEF PassedBy
<1>7. bg'.budget - bg'.i = r - 1 /\ bg'.shard = s
  BY <1>3
<1>8. CASE ScanKeep
  <2>1. /\ map' = map /\ ttl_keys' = ttl_keys
        /\ ttl_scan_cursor'[s] = c + 1 /\ ~IsExpired(map[k], bg.now)
    BY <1>0, <1>2, <1>8 DEF ScanKeep
  <2> DEFINE d == IF c + 1 >= n THEN 0 ELSE c + 1
  <2>2. ScanSlot(s)' = d
    BY <1>3, <2>1 DEF ScanSlot
  <2>3. LeftExpired(s)' = LeftExpired(s)
    BY <1>3, <2>1 DEF LeftExpired
  <2>4. PassedBy' = {j \in LeftExpired(s) : \A i \in Window(n, d, r - 1) : old[i] # j}
    <3> HIDE DEF d, r
    <3> QED BY <1>7, <2>1, <2>2, <2>3 DEF PassedBy
  <2>5. k \notin LeftExpired(s)
    BY <2>1 DEF LeftExpired
  <2>6. Window(n, c, r) \subseteq Window(n, d, r - 1) \cup {c + 1}
    <3> HIDE DEF n, c, r
    <3> QED BY <1>2, <1>5, WindowMovesOn
  <2>7. PassedBy' \in SUBSET PassedBy
    <3> HIDE DEF n, c, r, d, old
    <3> QED BY <1>6, <2>4, <2>5, <2>6
  <2>8. IsFiniteSet(PassedBy') /\ Cardinality(PassedBy') <= Cardinality(PassedBy)
    BY <1>4, <2>7, FS_Subset
  <2>9. Cardinality(PassedBy') \in Nat
    BY <2>8, FS_CardinalityType
  <2>10. Len(ttl_keys'[s]) = n
    BY <2>1
  <2>11. /\ bg'.i <= bg'.budget /\ bg'.budget - bg'.i <= n /\ n <= bg'.budget
         /\ Cardinality(PassedBy') <= bg'.budget - n
    <3> HIDE DEF n
    <3> QED BY <1>2, <1>3, <1>4, <2>8, <2>9
  <2> HIDE DEF n
  <2> QED BY <1>7, <2>8, <2>10, <2>11 DEF Walk
<1>9. CASE ScanStale \/ ScanExpired
  <2> DEFINE p == SwapPop(old, c + 1)
             d == IF c >= n - 1 THEN 0 ELSE c
  <2>1. /\ ttl_keys'[s] = p
        /\ \/ map' = map /\ map[k] = NoEntry
           \/ map' = [map EXCEPT ![k] = NoEntry]
        /\ \/ ttl_scan_cursor'[s] = c
           \/ ttl_scan_cursor'[s] = IF c >= n - 1 THEN 0 ELSE c
    BY <1>0, <1>2, <1>9 DEF ScanStale, ScanExpired
  <2>2. p \in Seq(Key) /\ Len(p) = n - 1 /\ k \in Key
    <3>1. c + 1 \in 1..n
      <4> HIDE DEF c, n
      <4> QED BY <1>2
    <3>2. p \in Seq(Key) /\ k \in Key
      BY <1>2, <3>1, SwapPopKeepsTheRest
    <3>3. DOMAIN p = 1..(n - 1)
      BY DEF SwapPop
    <3>4. DOMAIN p = 1..Len(p) /\ Len(p) \in Nat
      <4> HIDE DEF p
      <4> QED BY <3>2
    <3> HIDE DEF p, n
    <3> QED BY <1>2, <3>2, <3>3, <3>4
  <2>3. ScanSlot(s)' = d
    <3>1. ScanSlot(s)' = IF ttl_scan_cursor'[s] >= Len(p) THEN 0 ELSE ttl_scan_cursor'[s]
      BY <1>3, <2>1 DEF ScanSlot
    <3> HIDE DEF c, p, n
    <3> QED BY <1>2, <2>1, <2>2, <3>1
  <2>4. LeftExpired(s)' \subseteq LeftExpired(s) \ {k}
    <3>1. map'[k] = NoEntry /\ \A j \in Key : j # k => map'[j] = map[j]
      <4> HIDE DEF k
      <4> QED BY <1>2, <2>1, <2>2
    <3>2. bg'.now = bg.now
      BY <1>3
    <3> HIDE DEF k
    <3> QED BY <3>1, <3>2 DEF LeftExpired, IsExpired, HasExpire
  <2>5. PassedBy' = {j \in LeftExpired(s)' : \A i \in Window(n - 1, d, r - 1) : p[i] # j}
    <3> HIDE DEF p, d, r, n
    <3> QED BY <1>7, <2>1, <2>2, <2>3 DEF PassedBy
  <2>6. PICK x : \A j \in Window(n, c, r) :
                   \/ j = c + 1 \/ old[j] = x
                   \/ \E i \in Window(n - 1, d, r - 1) : p[i] = old[j]
    <3> HIDE DEF r, c
    <3> QED BY <1>2, <1>5, WindowAfterDrop
  <2>7. PassedBy' \in SUBSET (PassedBy \cup {x})
    <3>1. SUFFICES ASSUME NEW j \in PassedBy', j # x PROVE j \in PassedBy
      OBVIOUS
    <3>2. /\ j \in LeftExpired(s) /\ j # k
          /\ \A i \in Window(n - 1, d, r - 1) : p[i] # j
      <4> HIDE DEF p, d, r, k
      <4> QED BY <2>4, <2>5, <3>1
    <3>3. \A i \in Window(n, c, r) : old[i] # j
      <4> HIDE DEF p, d, r, n, c
      <4> QED BY <2>6, <3>1, <3>2
    <3> HIDE DEF p, d, r, n, c, old
    <3> QED BY <1>6, <3>2, <3>3
  <2>8. IsFiniteSet(PassedBy') /\ Cardinality(PassedBy') <= Cardinality(PassedBy) + 1
    BY <1>4, <2>7, OneMore
  <2>9. Cardinality(PassedBy') \in Nat
    BY <2>8, FS_CardinalityType
  <2>10. Len(ttl_keys'[bg'.shard]) = n - 1
    <3> HIDE DEF p, n
    <3> QED BY <1>7, <2>1, <2>2
  <2>11. /\ bg'.i <= bg'.budget /\ bg'.budget - bg'.i <= n - 1 /\ n - 1 <= bg'.budget
         /\ Cardinality(PassedBy') <= bg'.budget - (n - 1)
    <3>1. bg'.i = bg.i + 1 /\ bg'.budget = bg.budget
      BY <1>3
    <3> HIDE DEF n
    <3> QED BY <1>2, <1>3, <1>4, <2>8, <2>9, <3>1, SMTT(30)
  <2> HIDE DEF n
  <2> QED BY <1>7, <2>8, <2>10, <2>11 DEF Walk
<1> QED BY <1>8, <1>9

\* Every step keeps the bound.
LEMMA NextKeepsWindow == IInv /\ Walk /\ [Next]_vars => Walk'
<1> SUFFICES ASSUME IInv, Walk, [Next]_vars PROVE Walk'
  OBVIOUS
<1>1. CASE ScanStale \/ ScanExpired \/ ScanKeep
  BY <1>1, ScanKeepsWindow
<1>2. CASE LockShard
  BY <1>2, LockShardOpensWindow
<1>3. CASE Awake \/ EndCycle \/ SkipShard \/ UnlockShard
  <2>1. bg'.pc # "scan"
    BY <1>3 DEF Awake, EndCycle, SkipShard, UnlockShard, BgState
  <2> QED BY <2>1 DEF Walk
<1>4. CASE ~Background
  <2>1. bg'.pc = "scan" => bg.pc = "scan"
    <3>1. bg' = bg
      <4>1. CASE Tick \/ UNCHANGED vars
        BY <4>1 DEF Tick, vars
      <4>2. ASSUME NEW t \in Thread, Command(t) PROVE bg' = bg
        <5>1. CASE Begin(t) \/ FlushAll(t) \/ FlushShard(t)
          BY <5>1 DEF Begin, FlushAll, FlushShard
        <5>2. ASSUME NEW k \in Key, KeyOperation(t, k) PROVE bg' = bg
          BY <5>2 DEF KeyOperation, Get, TtlMs, GetZSet, GetOrCreateZSet, Set, ExpireAt,
               IncrBy, Del, RemoveIfEmptyZSet, MutateZSet, SetRaw, Finish
        <5> QED BY <4>2, <5>1, <5>2 DEF Command
      <4> QED BY <1>4, <4>1, <4>2 DEF Next
    <3> QED BY <3>1
  <2>2. CASE bg.pc = "scan"
    <3>0. PICK s : s = bg.shard
      OBVIOUS
    <3>1. /\ bg' = bg /\ ttl_keys'[s] = ttl_keys[s]
          /\ ttl_scan_cursor'[s] = ttl_scan_cursor[s]
          /\ LeftExpired(s)' = LeftExpired(s)
      BY <1>4, <2>2, <3>0, WalkUndisturbed
    <3>2. ScanSlot(s)' = ScanSlot(s)
      BY <3>1 DEF ScanSlot
    <3>3. PassedBy' = PassedBy
      BY <3>0, <3>1, <3>2 DEF PassedBy
    <3> QED BY <3>0, <3>1, <3>3 DEF Walk
  <2> QED BY <2>1, <2>2 DEF Walk
<1> QED BY <1>1, <1>2, <1>3, <1>4 DEF Background

-----------------------------------------------------------------------------
\* The invariant holds in every reachable state.
THEOREM StoreInvariant == Spec => []IInv
<1>1. Init => IInv
  BY InitIInv
<1>2. IInv /\ [Next]_vars => IInv'
  BY NextKeepsIInv
<1> QED BY <1>1, <1>2, PTL DEF Spec

\* The variables of the store always have their types.
THEOREM StoreTypeCorrect == Spec => []TypeOK
<1>1. IInv => TypeOK
  BY DEF IInv
<1> QED BY <1>1, StoreInvariant, PTL

\* No key that carries a deadline is ever missing from the index, so the active
\* walk can reach it: even when SetRaw is called.
THEOREM StoreIndexCovers == Spec => []IndexCovers
<1>1. IInv => IndexCovers
  BY DEF IInv
<1> QED BY <1>1, StoreInvariant, PTL

\* Without SetRaw the index is exactly the set of keys with a deadline, each once.
THEOREM StoreIndexExact == Spec => []IndexExact
<1>1. IInv => IndexExact
  BY DEF IInv
<1> QED BY <1>1, StoreInvariant, PTL

\* A walk whose budget covers its shard leaves at most one expired key for each
\* slot it dropped, whatever the commands on other shards do meanwhile.
THEOREM StoreSweepMissesFew == Spec => []SweepMissesFew
<1>1. Init => Walk
  BY DEF Init, Walk, BgState
<1>2. Spec => []Walk
  <2>1. IInv /\ Walk /\ [Next]_vars => Walk'
    BY NextKeepsWindow
  <2> QED BY <1>1, <2>1, StoreInvariant, PTL DEF Spec
<1>3. IInv /\ Walk => SweepMissesFew
  <2>1. SUFFICES ASSUME IInv, Walk, bg.pc = "scan", bg.i = bg.budget,
                        bg.budget < SampleBudget
                 PROVE  Cardinality(LeftExpired(bg.shard))
                           <= bg.budget - Len(ttl_keys[bg.shard])
    BY DEF SweepMissesFew
  <2> DEFINE n == Len(ttl_keys[bg.shard])
             c == ScanSlot(bg.shard)
  <2>2. bg.budget \in Nat /\ ttl_keys[bg.shard] \in Seq(Key)
        /\ ttl_scan_cursor[bg.shard] \in Nat
    BY <2>1 DEF IInv, TypeOK, BackgroundStates
  <2>3. n \in Nat /\ (n # 0 => c \in 0..(n - 1))
    <3>1. n \in Nat
      BY <2>2
    <3> HIDE DEF n
    <3>2. c = IF ttl_scan_cursor[bg.shard] >= n THEN 0 ELSE ttl_scan_cursor[bg.shard]
      BY DEF ScanSlot, n
    <3> HIDE DEF c
    <3> QED BY <2>2, <3>1, <3>2
  <2>4. Window(n, c, bg.budget - bg.i) = {}
    <3> HIDE DEF n, c
    <3> QED BY <2>1, <2>2, <2>3 DEF Window
  <2>5. PassedBy = LeftExpired(bg.shard)
    BY <2>4 DEF PassedBy
  <2> QED BY <2>1, <2>5 DEF Walk
<1> QED BY <1>2, <1>3, StoreInvariant, PTL

-----------------------------------------------------------------------------
(* Store implements KV.  Beside the types this needs that the walk goes by   *)
(* a clock reading of the past, so that what it erases has expired.  SetRaw, *)
(* which only tests call, has no abstract counterpart and is excluded.       *)

\* The walk is never ahead of the clock.
WalkLate == bg.now <= clock

RefinementInv == IInv /\ WalkLate

\* The keys t's FLUSHALL has yet to clear, as KV sees them.
todo == [t \in Thread |-> StillToFlush(t)]

\* Only the background thread and the passing of time change these.
LEMMA KeyOperationFrame ==
  ASSUME NEW t \in Thread, NEW k \in Key, KeyOperation(t, k)
  PROVE  UNCHANGED <<clock, bg>>
  <1>1. CASE Get(t, k) \/ TtlMs(t, k) \/ GetZSet(t, k) \/ GetOrCreateZSet(t, k)
    BY <1>1 DEF Get, TtlMs, GetZSet, GetOrCreateZSet, Finish
  <1>2. CASE Del(t, k) \/ RemoveIfEmptyZSet(t, k) \/ MutateZSet(t, k)
    BY <1>2 DEF Del, RemoveIfEmptyZSet, MutateZSet
  <1>3. ASSUME NEW v, NEW exp, SetRaw(t, k, v, exp) PROVE UNCHANGED <<clock, bg>>
    BY <1>3 DEF SetRaw
  <1>4. ASSUME NEW v, NEW nx, NEW xx, NEW keep_ttl, NEW exp, Set(t, k, v, nx, xx, keep_ttl, exp)
        PROVE  UNCHANGED <<clock, bg>>
    BY <1>4 DEF Set, Finish
  <1>5. ASSUME NEW exp, ExpireAt(t, k, exp) PROVE UNCHANGED <<clock, bg>>
    BY <1>5 DEF ExpireAt, Finish
  <1>6. ASSUME NEW delta, IncrBy(t, k, delta) PROVE UNCHANGED <<clock, bg>>
    BY <1>6 DEF IncrBy, Finish
  <1>7. QED
    BY <1>1, <1>2, <1>3, <1>4, <1>5, <1>6 DEF KeyOperation

LEMMA InitKeepsWalk == Init => RefinementInv
  <1>1. Init => WalkLate
    BY DEF Init, WalkLate, BgState
  <1>2. QED
    BY <1>1, InitIInv DEF RefinementInv

LEMMA NextKeepsWalk == RefinementInv /\ [Next]_vars => RefinementInv'
  <1> SUFFICES ASSUME RefinementInv, [Next]_vars PROVE RefinementInv'
    OBVIOUS
  <1> USE DEF RefinementInv
  <1>1. clock \in Nat /\ bg.now <= clock /\ bg \in BackgroundStates
    BY StoreAssumption DEF IInv, TypeOK, Times, WalkLate
  <1>2. IInv'
    BY NextKeepsIInv
  <1>3. WalkLate'
    <2>1. CASE Tick
      BY <1>1, <2>1 DEF Tick, WalkLate, BackgroundStates
    <2>2. CASE Background
      BY <1>1, <2>2 DEF Background, Awake, EndCycle, SkipShard, LockShard, ScanStale,
         ScanExpired, ScanKeep, UnlockShard, Scanning, BgState, WalkLate
    <2>3. ASSUME UNCHANGED <<clock, bg>> PROVE WalkLate'
      BY <1>1, <2>3 DEF WalkLate
    <2>4. ASSUME NEW t \in Thread, Command(t) PROVE UNCHANGED <<clock, bg>>
      <3>1. ASSUME NEW k \in Key, KeyOperation(t, k) PROVE UNCHANGED <<clock, bg>>
        BY <3>1, KeyOperationFrame
      <3>2. QED
        BY <2>4, <3>1 DEF Command, Begin, FlushAll, FlushShard
    <2>5. CASE UNCHANGED vars
      BY <2>3, <2>5 DEF vars
    <2>6. QED
      BY <2>1, <2>2, <2>3, <2>4, <2>5 DEF Next
  <1>4. QED
    BY <1>2, <1>3

-----------------------------------------------------------------------------
(* Each step of Store is a step of KV. *)

LEMMA SameTerms ==
  /\ \A e, at : IsExpired(e, at) <=> Abstract!Expired(e, at)
  /\ \A t, k : Found(t, k) = Abstract!Found(t, k)
  /\ \A op, res : Reply(op, res) = Abstract!Reply(op, res)
  /\ Silent <=> Abstract!Silent
  /\ ZSets = Abstract!ZSets /\ Ints = Abstract!Ints
  BY DEF IsExpired, HasExpire, Abstract!Expired, Found, Abstract!Found, Reply, Abstract!Reply,
     Silent, Abstract!Silent, ZSets, Abstract!ZSets, Ints, Abstract!Ints

LEMMA TodoStays ==
  ASSUME UNCHANGED flushing
  PROVE  todo' = todo
  BY DEF todo, StillToFlush

LEMMA CanRunThere ==
  ASSUME NEW t \in Thread, CanRun(t)
  PROVE  Abstract!CanRun(t)
  BY DEF CanRun, Abstract!CanRun, StillToFlush, Idle

\* An operation ends.
LEMMA Answers ==
  ASSUME NEW t \in Thread, NEW k \in Key, NEW e, NEW op, NEW res,
         now[t] # Idle, Finish(t, k, e, Reply(op, res))
  PROVE  Abstract!Answer(t, k, e, op, res)
  <1>1. [u \in Thread |-> StillToFlush(u)]' = [u \in Thread |-> StillToFlush(u)]
    BY DEF Finish, StillToFlush
  <1>2. QED
    BY <1>1, SameTerms DEF Finish, Abstract!Answer, Idle

LEMMA ReadsRefine ==
  ASSUME NEW t \in Thread, NEW k \in Key, Get(t, k) \/ TtlMs(t, k) \/ GetZSet(t, k)
  PROVE  Abstract!Read(t, k)
  <1> DEFINE e == Found(t, k)
  <1>1. CASE Get(t, k)
    <2> DEFINE res == IF e = NoEntry THEN Miss ELSE e.val
    <2>1. res = IF e = NoEntry THEN Miss ELSE map[k].val
      BY DEF Found
    <2>2. now[t] # Idle /\ Finish(t, k, e, Reply("Get", res))
      BY <1>1, <2>1, Zenon DEF Get, Locked
    <2>3. Abstract!Answer(t, k, e, "Get", res)
      BY <2>2, Answers
    <2>4. QED
      BY <2>3, SameTerms, Zenon DEF Abstract!Read
  <1>2. CASE TtlMs(t, k)
    <2> DEFINE res == IF e = NoEntry THEN -2 ELSE IF e.exp = 0 THEN -1 ELSE e.exp - now[t]
    <2>1. res = IF e = NoEntry THEN -2 ELSE IF HasExpire(e) THEN e.exp - now[t] ELSE -1
      BY DEF HasExpire
    <2>2. now[t] # Idle /\ Finish(t, k, e, Reply("TtlMs", res))
      BY <1>2, <2>1, Zenon DEF TtlMs, Locked
    <2>3. Abstract!Answer(t, k, e, "TtlMs", res)
      BY <2>2, Answers
    <2>4. QED
      BY <2>3, SameTerms, Zenon DEF Abstract!Read
  <1>3. CASE GetZSet(t, k)
    <2> DEFINE res == IF e = NoEntry THEN Miss ELSE IF e.val \in ZSets THEN Ok ELSE Err
    <2>1. now[t] # Idle /\ Finish(t, k, e, Reply("GetZSet", res))
      BY <1>3, Zenon DEF GetZSet, Locked
    <2>2. Abstract!Answer(t, k, e, "GetZSet", res)
      BY <2>1, Answers
    <2>3. QED
      BY <2>2, SameTerms, Zenon DEF Abstract!Read
  <1>4. QED
    BY <1>1, <1>2, <1>3

LEMMA MakeZSetRefines ==
  ASSUME NEW t \in Thread, NEW k \in Key, GetOrCreateZSet(t, k)
  PROVE  Abstract!MakeZSet(t, k)
  <1> DEFINE e == Found(t, k)
  <1>1. now[t] # Idle
    BY DEF GetOrCreateZSet, Locked
  <1>2. CASE e = NoEntry
    <2> DEFINE new == [val |-> ZSetEmpty, exp |-> 0]
    <2>1. new.val \in ZSets
      BY DEF ZSets
    <2>2. Finish(t, k, new, Reply("GetOrCreateZSet", Ok))
      BY <1>2, <2>1, Zenon DEF GetOrCreateZSet
    <2>3. Abstract!Answer(t, k, new, "GetOrCreateZSet", Ok)
      BY <1>1, <2>2, Answers
    <2>4. QED
      BY <1>2, <2>3, SameTerms, Zenon DEF Abstract!MakeZSet
  <1>3. CASE e # NoEntry
    <2> DEFINE res == IF e.val \in ZSets THEN Ok ELSE Err
    <2>1. Finish(t, k, e, Reply("GetOrCreateZSet", res))
      BY <1>3, Zenon DEF GetOrCreateZSet
    <2>2. Abstract!Answer(t, k, e, "GetOrCreateZSet", res)
      BY <1>1, <2>1, Answers
    <2>3. QED
      BY <1>3, <2>2, SameTerms, Zenon DEF Abstract!MakeZSet
  <1>4. QED
    BY <1>2, <1>3

LEMMA SetRefines ==
  ASSUME IInv, NEW t \in Thread, NEW k \in Key,
         NEW v \in Ints \cup Strings, NEW exp \in 0..MaxTime, NEW nx, NEW xx, NEW keep_ttl,
         Set(t, k, v, nx, xx, keep_ttl, exp)
  PROVE  Abstract!Write(t, k)
  <1> DEFINE e == Found(t, k)
             refused == (nx /\ e # NoEntry) \/ (xx /\ e = NoEntry)
             x == NewExpiry(e, exp, keep_ttl)
             written == [val |-> v, exp |-> x]
  <1>1. now[t] # Idle
    BY DEF Set, Locked
  <1>2. e \in Entries \cup {NoEntry}
    BY FoundType
  <1>3. x \in 0..MaxTime
    BY <1>2, StoreAssumption DEF NewExpiry, Entries
  <1>4. CASE refused
    <2>1. Finish(t, k, e, Reply("Set", Miss))
      BY <1>4, Zenon DEF Set
    <2>2. Abstract!Answer(t, k, e, "Set", Miss)
      BY <1>1, <2>1, Answers
    <2>3. QED
      BY <2>2, SameTerms, Zenon DEF Abstract!Write
  <1>5. CASE ~refused
    <2>1. Finish(t, k, written, Reply("Set", Ok))
      BY <1>5, Zenon DEF Set
    <2>2. Abstract!Answer(t, k, written, "Set", Ok)
      BY <1>1, <2>1, Answers
    <2>3. QED
      BY <1>3, <2>2, SameTerms, Zenon DEF Abstract!Write
  <1>6. QED
    BY <1>4, <1>5

LEMMA ExpireAtRefines ==
  ASSUME IInv, NEW t \in Thread, NEW k \in Key, NEW exp \in 0..MaxTime, ExpireAt(t, k, exp)
  PROVE  Abstract!Retime(t, k)
  <1> DEFINE e == Found(t, k)
  <1>1. now[t] # Idle
    BY DEF ExpireAt, Locked
  <1>2. CASE e = NoEntry
    <2>1. Finish(t, k, e, Reply("ExpireAt", Miss))
      BY <1>2 DEF ExpireAt
    <2>2. Abstract!Answer(t, k, e, "ExpireAt", Miss)
      BY <1>1, <2>1, Answers
    <2>3. QED
      BY <1>2, <2>2, SameTerms, Zenon DEF Abstract!Retime
  <1>3. CASE e # NoEntry /\ exp # 0 /\ exp <= now[t]
    <2>1. Finish(t, k, NoEntry, Reply("ExpireAt", Removed))
      BY <1>3 DEF ExpireAt
    <2>2. Abstract!Answer(t, k, NoEntry, "ExpireAt", Removed)
      BY <1>1, <2>1, Answers
    <2>3. QED
      BY <1>3, <2>2, SameTerms, Zenon DEF Abstract!Retime
  <1>4. CASE e # NoEntry /\ ~(exp # 0 /\ exp <= now[t])
    <2> DEFINE timed == [e EXCEPT !.exp = exp]
    <2>1. Finish(t, k, timed, Reply("ExpireAt", Ok))
      BY <1>4 DEF ExpireAt
    <2>2. Abstract!Answer(t, k, timed, "ExpireAt", Ok)
      BY <1>1, <2>1, Answers
    <2>3. exp = 0 \/ exp > now[t]
      <3>1. now[t] \in Nat
        BY StoreAssumption DEF IInv, TypeOK, Times, Idle
      <3>2. QED
        BY <1>4, <3>1, StoreAssumption
    <2>4. QED
      BY <1>4, <2>2, <2>3, SameTerms, Zenon DEF Abstract!Retime
  <1>5. QED
    BY <1>2, <1>3, <1>4

LEMMA IncrByRefines ==
  ASSUME IInv, NEW t \in Thread, NEW k \in Key, NEW delta \in Deltas, IncrBy(t, k, delta)
  PROVE  Abstract!Add(t, k)
  <1> DEFINE e == Found(t, k)
             fails == e # NoEntry /\ (e.val \notin Ints \/ Overflows(e.val, delta))
             old == IF e = NoEntry THEN [val |-> 0, exp |-> 0] ELSE e
             sum == old.val + delta
             added == [old EXCEPT !.val = @ + delta]
  <1>1. now[t] # Idle
    BY DEF IncrBy, Locked
  <1>2. CASE fails
    <2>1. Finish(t, k, e, Reply("IncrBy", Err))
      BY <1>2, Zenon DEF IncrBy
    <2>2. Abstract!Answer(t, k, e, "IncrBy", Err)
      BY <1>1, <2>1, Answers
    <2>3. QED
      BY <1>2, <2>2, SameTerms, Zenon DEF Abstract!Add
  <1>3. CASE ~fails
    <2>1. e \in Entries \cup {NoEntry}
      BY FoundType
    <2>2. delta \in Int /\ IntMin \in Int /\ IntMax \in Int /\ 0 \in Ints /\ delta \in Ints
      BY StoreAssumption DEF Ints
    <2>3. old.val \in Ints
      BY <1>3, <2>2
    <2>4. sum \in Ints
      <3>1. CASE e = NoEntry
        BY <2>2, <3>1 DEF Ints
      <3>2. CASE e # NoEntry
        BY <1>3, <2>2, <2>3, <3>2 DEF Ints, Overflows
      <3>3. QED
        BY <3>1, <3>2
    <2>5. Finish(t, k, added, Reply("IncrBy", sum))
      <3>1. CASE e = NoEntry
        <4>1. sum = delta /\ added = [val |-> delta, exp |-> 0]
          BY <2>2, <3>1
        <4>2. Finish(t, k, [val |-> delta, exp |-> 0], Reply("IncrBy", delta))
          BY <3>1, Zenon DEF IncrBy
        <4>3. QED
          BY <4>1, <4>2, Zenon
      <3>2. CASE e # NoEntry
        <4>1. sum = e.val + delta /\ added = [val |-> e.val + delta, exp |-> e.exp]
          BY <2>1, <3>2 DEF Entries
        <4>2. Finish(t, k, [val |-> e.val + delta, exp |-> e.exp],
                     Reply("IncrBy", e.val + delta))
          BY <1>3, <3>2, Zenon DEF IncrBy
        <4>3. QED
          BY <4>1, <4>2, Zenon
      <3>3. QED
        BY <3>1, <3>2
    <2>6. Abstract!Answer(t, k, added, "IncrBy", sum)
      BY <1>1, <2>5, Answers
    <2>7. QED
      BY <2>3, <2>4, <2>6, SameTerms, Zenon DEF Abstract!Add
  <1>4. QED
    BY <1>2, <1>3

LEMMA DeletionsRefine ==
  ASSUME IInv, NEW t \in Thread, NEW k \in Key,
         Del(t, k) \/ RemoveIfEmptyZSet(t, k) \/ MutateZSet(t, k)
  PROVE  Abstract!Delete(t, k) \/ Abstract!ChangeMembers(t, k)
  <1> USE CanRunThere, TodoStays, SameTerms
  <1>1. UNCHANGED <<clock, now, flushing>> /\ todo' = todo /\ CanRun(t)
    BY DEF Del, RemoveIfEmptyZSet, MutateZSet, AtOnce
  <1>2. CASE Del(t, k)
    <2>1. CASE map[k] = NoEntry
      BY <1>1, <1>2, <2>1 DEF Del, Abstract!Delete, todo
    <2>2. CASE map[k] # NoEntry
      BY <1>1, <1>2, <2>2 DEF Del, Erase, Abstract!Delete, todo
    <2>3. QED
      BY <2>1, <2>2
  <1>3. CASE RemoveIfEmptyZSet(t, k)
    BY <1>1, <1>3 DEF RemoveIfEmptyZSet, Erase, Abstract!Delete, todo
  <1>4. CASE MutateZSet(t, k)
    BY <1>1, <1>4, Zenon DEF MutateZSet, Abstract!ChangeMembers, todo
  <1>5. QED
    BY <1>2, <1>3, <1>4

LEMMA KeyOperationRefines ==
  ASSUME IInv, RawSlots = 0, NEW t \in Thread, NEW k \in Key, KeyOperation(t, k)
  PROVE  Abstract!Next
  <1>1. CASE Get(t, k) \/ TtlMs(t, k) \/ GetZSet(t, k)
    BY <1>1, ReadsRefine DEF Abstract!Next
  <1>2. CASE GetOrCreateZSet(t, k)
    BY <1>2, MakeZSetRefines DEF Abstract!Next
  <1>3. CASE Del(t, k) \/ RemoveIfEmptyZSet(t, k) \/ MutateZSet(t, k)
    BY <1>3, DeletionsRefine DEF Abstract!Next
  <1>4. ASSUME NEW v, NEW exp, SetRaw(t, k, v, exp) PROVE FALSE
    <2>1. ttl_keys[ShardOf[k]] \in Seq(Key)
      BY StoreAssumption DEF IInv, TypeOK
    <2>2. QED
      BY <1>4, <2>1 DEF SetRaw
  <1>5. ASSUME NEW v \in Ints \cup Strings, NEW exp \in 0..MaxTime,
               NEW nx, NEW xx, NEW keep_ttl, Set(t, k, v, nx, xx, keep_ttl, exp)
        PROVE  Abstract!Next
    BY <1>5, SetRefines DEF Abstract!Next
  <1>6. ASSUME NEW exp \in 0..MaxTime, ExpireAt(t, k, exp) PROVE Abstract!Next
    BY <1>6, ExpireAtRefines DEF Abstract!Next
  <1>7. ASSUME NEW delta \in Deltas, IncrBy(t, k, delta) PROVE Abstract!Next
    BY <1>7, IncrByRefines DEF Abstract!Next
  <1>8. QED
    BY <1>1, <1>2, <1>3, <1>4, <1>5, <1>6, <1>7 DEF KeyOperation

\* FLUSHALL owes every key to begin with, and each shard pays its own.
LEMMA FlushRefines ==
  ASSUME IInv, NEW t \in Thread, FlushAll(t) \/ FlushShard(t)
  PROVE  Abstract!StartFlush(t) \/ Abstract!Clear(t)
  <1> USE SameTerms
  <1>1. \A k \in Key : ShardOf[k] \in 1..NumShards
    BY StoreAssumption DEF Shards
  <1>2. NumShards \in Nat \ {0} /\ flushing \in [Thread -> 0..NumShards]
    BY StoreAssumption DEF IInv, TypeOK
  <1>3. CASE FlushAll(t)
    <2>1. flushing' = [flushing EXCEPT ![t] = 1]
      BY <1>3 DEF FlushAll
    <2>2. todo' = [todo EXCEPT ![t] = Key]
      <3>1. ASSUME NEW u \in Thread PROVE StillToFlush(u)' = IF u = t THEN Key ELSE StillToFlush(u)
        <4>1. CASE u = t
          <5>1. flushing'[u] = 1
            BY <1>2, <2>1, <4>1
          <5>2. QED
            BY <1>1, <4>1, <5>1 DEF StillToFlush
        <4>2. CASE u # t
          BY <1>2, <2>1, <4>2 DEF StillToFlush
        <4>3. QED
          BY <4>1, <4>2
      <3>2. QED
        BY <3>1 DEF todo
    <2>3. CanRun(t) /\ Silent /\ UNCHANGED <<map, clock, now>>
      BY <1>3 DEF FlushAll
    <2>4. QED
      BY <2>2, <2>3, CanRunThere DEF Abstract!StartFlush, todo
  <1>4. CASE FlushShard(t)
    <2> DEFINE s == flushing[t]
               K == {k \in Key : ShardOf[k] = s}
    <2>1. s \in 1..NumShards
      BY <1>2, <1>4 DEF FlushShard
    <2>2. flushing' = [flushing EXCEPT ![t] = IF s = NumShards THEN 0 ELSE s + 1]
      BY <1>4 DEF FlushShard
    <2>3. K \in SUBSET StillToFlush(t)
      BY <1>1, <2>1 DEF StillToFlush
    <2>4. todo' = [todo EXCEPT ![t] = @ \ K]
      <3>1. ASSUME NEW u \in Thread
            PROVE  StillToFlush(u)' = IF u = t THEN StillToFlush(t) \ K ELSE StillToFlush(u)
        <4>1. CASE u = t
          <5>1. flushing'[u] = IF s = NumShards THEN 0 ELSE s + 1
            BY <1>2, <2>2, <4>1
          <5>2. QED
            BY <1>1, <1>2, <2>1, <4>1, <5>1 DEF StillToFlush
        <4>2. CASE u # t
          BY <1>2, <2>2, <4>2 DEF StillToFlush
        <4>3. QED
          BY <4>1, <4>2
      <3>2. QED
        BY <3>1 DEF todo
    <2>5. map' = [k \in Key |-> IF k \in K THEN NoEntry ELSE map[k]]
      BY <1>4 DEF FlushShard
    <2>6. last' = Reply("FlushAll", Ok) /\ UNCHANGED <<clock, now>>
      BY <1>4 DEF FlushShard
    <2>7. todo[t] = StillToFlush(t)
      BY DEF todo
    <2> HIDE DEF K
    <2>8. QED
      BY <2>3, <2>4, <2>5, <2>6, <2>7, Zenon DEF Abstract!Clear, todo
  <1>5. QED
    BY <1>3, <1>4

\* The walk erases expired keys and does nothing else that shows.
LEMMA BackgroundRefines ==
  ASSUME RefinementInv, Background
  PROVE  Abstract!Next
  <1> USE SameTerms
  <1>1. UNCHANGED <<clock, now, flushing>> /\ Silent /\ todo' = todo
    <2>1. UNCHANGED <<clock, now, flushing>> /\ Silent
      BY DEF Background, Awake, EndCycle, SkipShard, LockShard, ScanStale, ScanExpired,
         ScanKeep, UnlockShard, Scanning
    <2>2. QED
      BY <2>1, TodoStays
  <1>2. CASE ScanExpired
    <2> DEFINE s == bg.shard
               k == ttl_keys[s][ScanSlot(s) + 1]
    <2>1. s \in Shards /\ ttl_keys[s] \in Seq(Key) /\ ttl_keys[s] # <<>>
          /\ ttl_scan_cursor[s] \in Nat
      BY <1>2 DEF ScanExpired, Scanning, RefinementInv, IInv, TypeOK
    <2>2. k \in Key
      BY <2>1 DEF ScanSlot
    <2>3. IsExpired(map[k], bg.now) /\ map' = [map EXCEPT ![k] = NoEntry]
      BY <1>2 DEF ScanExpired
    <2>4. bg.now \in Nat /\ clock \in Nat /\ bg.now <= clock
          /\ map[k] \in Entries \cup {NoEntry} /\ MaxTime \in Nat
      BY <2>2, StoreAssumption DEF RefinementInv, IInv, TypeOK, WalkLate, BackgroundStates, Times
    <2> HIDE DEF k
    <2>5. IsExpired(map[k], clock)
      BY <2>3, <2>4 DEF IsExpired, HasExpire, Entries
    <2>6. Abstract!Lapse(k)
      BY <1>1, <2>3, <2>5 DEF Abstract!Lapse, todo
    <2>7. QED
      BY <2>2, <2>6 DEF Abstract!Next
  <1>3. CASE ~ScanExpired
    <2>1. UNCHANGED map
      BY <1>3 DEF Background, Awake, EndCycle, SkipShard, LockShard, ScanStale, ScanKeep,
         UnlockShard
    <2>2. Abstract!Internal
      BY <1>1, <2>1 DEF Abstract!Internal, todo
    <2>3. QED
      BY <2>2 DEF Abstract!Next
  <1>4. QED
    BY <1>2, <1>3

LEMMA NextRefines ==
  ASSUME RefinementInv, RawSlots = 0, [Next]_vars
  PROVE  [Abstract!Next]_(Abstract!vars)
  <1>1. IInv
    BY DEF RefinementInv
  <1>2. CASE Tick
    <2>1. Abstract!Tick
      BY <1>2, TodoStays, SameTerms DEF Tick, Abstract!Tick, todo
    <2>2. QED
      BY <2>1 DEF Abstract!Next
  <1>3. CASE Background
    BY <1>3, BackgroundRefines
  <1>4. ASSUME NEW t \in Thread, Command(t) PROVE Abstract!Next
    <2>1. CASE Begin(t)
      <3>1. Abstract!Call(t)
        BY <2>1, CanRunThere, TodoStays, SameTerms DEF Begin, Abstract!Call, todo
      <3>2. QED
        BY <3>1 DEF Abstract!Next
    <2>2. CASE FlushAll(t) \/ FlushShard(t)
      BY <1>1, <2>2, FlushRefines DEF Abstract!Next
    <2>3. ASSUME NEW k \in Key, KeyOperation(t, k) PROVE Abstract!Next
      BY <1>1, <2>3, KeyOperationRefines
    <2>4. QED
      BY <1>4, <2>1, <2>2, <2>3 DEF Command
  <1>5. CASE UNCHANGED vars
    BY <1>5, TodoStays DEF vars, Abstract!vars, todo
  <1>6. QED
    BY <1>2, <1>3, <1>4, <1>5 DEF Next

LEMMA InitRefines == Init => Abstract!Init
  <1> SUFFICES ASSUME Init PROVE Abstract!Init
    OBVIOUS
  <1>1. [t \in Thread |-> StillToFlush(t)] = [t \in Thread |-> {}]
    BY DEF Init, StillToFlush
  <1>2. QED
    BY <1>1 DEF Init, Abstract!Init, Idle, Reply, Abstract!Reply

\* As long as only commands touch it, the store is the abstract map: whatever
\* the threads, the background walk and the clock do between an operation's
\* reading of the clock and its turn at the mutex, every caller gets the reply,
\* and leaves the keys, that one indivisible operation on the map would give.
THEOREM StoreImplementsKV ==
  ASSUME RawSlots = 0
  PROVE  Spec => ImplementsKV
  <1>1. RefinementInv /\ [Next]_vars => [Abstract!Next]_(Abstract!vars)
    BY NextRefines
  <1>2. QED
    BY <1>1, InitKeepsWalk, NextKeepsWalk, InitRefines, PTL
       DEF Spec, ImplementsKV, Abstract!Spec

==============================================================================
