-------------------------------- MODULE ZSet --------------------------------
(***************************************************************************)
(* A sorted set (src/zset.cpp): a dictionary of scores and a skip list     *)
(* with spans (src/skip_list.cpp) that must describe the same members, and *)
(* what ZRANK, ZRANGE and ZRANGEBYSCORE (src/command.cpp) read off them.   *)
(*                                                                         *)
(* A member stands for its node.  Members are numbers, ordered like the    *)
(* strings they stand for, and scores are integers: rounding is left out.  *)
(* Levels count from 1, the code counts them from 0.                       *)
(***************************************************************************)
EXTENDS Integers, Sequences, FiniteSets, FiniteSetsExt

Lists == INSTANCE SequencesExt

CONSTANTS
    N,        \* bound on the members
    MaxLevel, \* kMaxSkipLevel
    Scores,   \* scores and increments
    Absent    \* the score of a member the dictionary does not have

ASSUME ZSetAssumption ==
    /\ N \in Nat /\ MaxLevel \in Nat \ {0}
    /\ Scores \subseteq Int /\ Absent \notin Int

VARIABLES
    index, \* index_: member -> score
    zsl    \* the skip list

vars == <<index, zsl>>

Member == 1 .. N
Header == 0
End == N + 1  \* the null pointer
Node == {Header} \cup Member
Levels == 1 .. MaxLevel

\* A node's own fields, its links and their spans, level by level; a member that
\* is not in the list has height 0.
EmptyList ==
    [score |-> [m \in Member |-> 0], height |-> [m \in Member |-> 0],
     forward |-> [i \in Levels |-> [x \in Node |-> End]],
     span |-> [i \in Levels |-> [x \in Node |-> IF x = Header THEN 1 ELSE 0]],
     level |-> 1, length |-> 0]

-----------------------------------------------------------------------------
(* The search every operation begins with. *)

\* The node of a pair comes before (score, member).
Less(l, x, score, m) ==
    l.score[x] < score \/ (l.score[x] = score /\ x < m)

Place == [at : Node, rank : Int]

\* Along level i while goes says so of the next node and its rank.
Walk(l, i, goes) ==
    LET walk[p \in Place] ==
            LET next == [at |-> l.forward[i][p.at], rank |-> p.rank + l.span[i][p.at]]
            IN  IF next.at # End /\ goes[next] THEN walk[next] ELSE p
    IN  walk

\* From the top level down: the place where each level was left.
Search(l, goes) ==
    LET path[i \in 1 .. l.level] ==
            Walk(l, i, goes)[IF i = l.level THEN [at |-> Header, rank |-> 0] ELSE path[i + 1]]
    IN  path

Find(l, score, m) == Search(l, [p \in Place |-> Less(l, p.at, score, m)])

-----------------------------------------------------------------------------
(* SkipList::InsertNew and Delete, as functions of the list. *)

\* Mutant: the rank of the successor is the one before the insertion.
InsertedWithoutShift(l, score, m, height) ==
    LET path == Find(l, score, m)
        at(i) == IF i <= l.level THEN path[i].at ELSE Header
        rank(i) == IF i <= l.level THEN path[i].rank ELSE 0
        span(i) == IF i <= l.level THEN l.span[i][at(i)] ELSE l.length + 1
        new == rank(1) + 1
    IN  [score |-> [l.score EXCEPT ![m] = score],
         height |-> [l.height EXCEPT ![m] = height],
         forward |-> [i \in Levels |->
             IF i > height THEN l.forward[i]
             ELSE [l.forward[i] EXCEPT ![m] = l.forward[i][at(i)], ![at(i)] = m]],
         span |-> [i \in Levels |->
             IF i <= height
             THEN [l.span[i] EXCEPT ![m] = rank(i) + span(i) - new,
                                    ![at(i)] = new - rank(i)]
             ELSE IF i <= l.level THEN [l.span[i] EXCEPT ![at(i)] = @ + 1]
             ELSE l.span[i]],
         level |-> IF height > l.level THEN height ELSE l.level,
         length |-> l.length + 1]

\* On a level the list did not have yet the header leads to the virtual tail.
Inserted(l, score, m, height) ==
    LET path == Find(l, score, m)
        at(i) == IF i <= l.level THEN path[i].at ELSE Header
        rank(i) == IF i <= l.level THEN path[i].rank ELSE 0
        span(i) == IF i <= l.level THEN l.span[i][at(i)] ELSE l.length + 1
        new == rank(1) + 1
    IN  [score |-> [l.score EXCEPT ![m] = score],
         height |-> [l.height EXCEPT ![m] = height],
         forward |-> [i \in Levels |->
             IF i > height THEN l.forward[i]
             ELSE [l.forward[i] EXCEPT ![m] = l.forward[i][at(i)], ![at(i)] = m]],
         span |-> [i \in Levels |->
             IF i <= height
             THEN [l.span[i] EXCEPT ![m] = rank(i) + span(i) + 1 - new,
                                    ![at(i)] = new - rank(i)]
             ELSE IF i <= l.level THEN [l.span[i] EXCEPT ![at(i)] = @ + 1]
             ELSE l.span[i]],
         level |-> IF height > l.level THEN height ELSE l.level,
         length |-> l.length + 1]

\* Mutant: levels above the node keep their spans.
DeletedKeepsSpans(l, score, m) ==
    LET path == Find(l, score, m)
        found == l.forward[1][path[1].at] = m /\ l.score[m] = score
        through(i) == l.forward[i][path[i].at] = m
        forward == [i \in Levels |->
            IF i <= l.level /\ through(i)
            THEN [l.forward[i] EXCEPT ![path[i].at] = l.forward[i][m], ![m] = End]
            ELSE l.forward[i]]
    IN  IF ~found THEN l ELSE
        [score |-> [l.score EXCEPT ![m] = 0],
         height |-> [l.height EXCEPT ![m] = 0],
         forward |-> forward,
         span |-> [i \in Levels |->
             IF i <= l.level /\ through(i)
             THEN [l.span[i] EXCEPT ![path[i].at] = @ + l.span[i][m] - 1, ![m] = 0]
             ELSE l.span[i]],
         level |-> Max({1} \cup {i \in 1 .. l.level : forward[i][Header] # End}),
         length |-> l.length - 1]

\* Delete does nothing unless it finds the very pair; empty top levels go.
Deleted(l, score, m) ==
    LET path == Find(l, score, m)
        found == l.forward[1][path[1].at] = m /\ l.score[m] = score
        through(i) == l.forward[i][path[i].at] = m
        forward == [i \in Levels |->
            IF i <= l.level /\ through(i)
            THEN [l.forward[i] EXCEPT ![path[i].at] = l.forward[i][m], ![m] = End]
            ELSE l.forward[i]]
    IN  IF ~found THEN l ELSE
        [score |-> [l.score EXCEPT ![m] = 0],
         height |-> [l.height EXCEPT ![m] = 0],
         forward |-> forward,
         span |-> [i \in Levels |->
             IF i > l.level THEN l.span[i]
             ELSE IF through(i)
             THEN [l.span[i] EXCEPT ![path[i].at] = @ + l.span[i][m] - 1, ![m] = 0]
             ELSE [l.span[i] EXCEPT ![path[i].at] = @ - 1]],
         level |-> Max({1} \cup {i \in 1 .. l.level : forward[i][Header] # End}),
         length |-> l.length - 1]

-----------------------------------------------------------------------------
(* ZSet's writes.  NextLevel may choose any height. *)

\* Mutant: a new score goes to the dictionary only.
SetScoreInIndex(m, score) ==
    /\ index' = [index EXCEPT ![m] = score]
    /\ IF index[m] = Absent
       THEN \E height \in Levels : zsl' = Inserted(zsl, score, m, height)
       ELSE UNCHANGED zsl

\* m, present or not, gets a score: a new place in the list.
SetScore(m, score) ==
    LET old == IF index[m] = Absent THEN zsl ELSE Deleted(zsl, index[m], m)
    IN  /\ index' = [index EXCEPT ![m] = score]
        /\ \E height \in Levels : zsl' = Inserted(old, score, m, height)

Add(m, score) ==
    IF index[m] = score THEN UNCHANGED vars ELSE SetScore(m, score)

\* IncrBy; the model stays within Scores.
IncrBy(m, delta) ==
    LET score == IF index[m] = Absent THEN delta ELSE index[m] + delta
    IN  /\ score \in Scores
        /\ IF index[m] # Absent /\ score = index[m] THEN UNCHANGED vars
           ELSE SetScore(m, score)

Remove(m) ==
    /\ index[m] # Absent
    /\ index' = [index EXCEPT ![m] = Absent]
    /\ zsl' = Deleted(zsl, index[m], m)

Clear ==
    /\ index' = [m \in Member |-> Absent]
    /\ zsl' = EmptyList

Init == index = [m \in Member |-> Absent] /\ zsl = EmptyList

Next ==
    \/ \E m \in Member, s \in Scores : Add(m, s) \/ IncrBy(m, s)
    \/ \E m \in Member : Remove(m)
    \/ Clear

Spec == Init /\ [][Next]_vars

-----------------------------------------------------------------------------
(* The reads. *)

\* The nodes from x on, along level 1, as long as goes says so.
While(x, goes) ==
    LET nodes[y \in Member \cup {End}] ==
            IF y # End /\ goes[y] THEN <<y>> \o nodes[zsl.forward[1][y]] ELSE <<>>
    IN  nodes[x]

From(x) == While(x, [y \in Member |-> TRUE])

\* ZRANK of a member, from 0; -1 when the list does not have its pair.
Rank(m) ==
    LET before == Find(zsl, index[m], m)[1]
        x == zsl.forward[1][before.at]
    IN  IF x = m /\ zsl.score[x] = index[m] THEN before.rank ELSE -1

\* ZREVRANK: counted from the other end.
RevRank(m) == zsl.length - 1 - Rank(m)

\* Mutant: one node too far.
RangeByRankBeyond(start, stop) ==
    LET before == Search(zsl, [p \in Place |-> p.rank <= start])[1].at
        nodes == From(zsl.forward[1][before])
    IN  SubSeq(nodes, 1, Min({stop - start + 1, Len(nodes)}))

\* Start and stop count from 1.
RangeByRank(start, stop) ==
    LET before == Search(zsl, [p \in Place |-> p.rank < start])[1].at
        nodes == From(zsl.forward[1][before])
    IN  SubSeq(nodes, 1, Min({stop - start + 1, Len(nodes)}))

\* ZRANGE: NormalizeRange makes bounds from the end, or beyond it, proper ones.
ZRange(start, stop) ==
    LET n == zsl.length
        first == Max({0, IF start < 0 THEN start + n ELSE start})
        last == Min({n - 1, IF stop < 0 THEN stop + n ELSE stop})
    IN  IF n = 0 \/ first > last THEN <<>> ELSE RangeByRank(first + 1, last + 1)

\* ZREVRANGE: the same members the other way round.
ZRevRange(start, stop) == Lists!Reverse(ZRange(start, stop))

\* From x on, the first node with a score above lo.
Above(x, lo) ==
    LET first[y \in Member \cup {End}] ==
            IF y # End /\ zsl.score[y] <= lo THEN first[zsl.forward[1][y]] ELSE y
    IN  first[x]

\* ZRANGEBYSCORE: from the first node with a score of at least lo, and on until
\* one is too high.
RangeByScore(lo, hi, lo_exclusive, hi_exclusive) ==
    LET before == Search(zsl, [p \in Place |-> zsl.score[p.at] < lo])[1].at
        x == zsl.forward[1][before]
    IN  While(IF lo_exclusive THEN Above(x, lo) ELSE x,
              [y \in Member |-> IF hi_exclusive THEN zsl.score[y] < hi ELSE zsl.score[y] <= hi])

ZCount(lo, hi, lo_exclusive, hi_exclusive) ==
    Len(RangeByScore(lo, hi, lo_exclusive, hi_exclusive))

-----------------------------------------------------------------------------
(* What they should be. *)

Present == {m \in Member : index[m] # Absent}

Precedes(a, b) == index[a] < index[b] \/ (index[a] = index[b] /\ a < b)

\* Where a node stands on level 1; the header is at 0, the virtual tail last.
Position(x) ==
    IF x = Header THEN 0
    ELSE IF x = End THEN Cardinality(Present) + 1
    ELSE Cardinality({m \in Present : Precedes(m, x)}) + 1

\* The members in order, by the dictionary alone.
Sorted == [k \in 1 .. Cardinality(Present) |-> CHOOSE m \in Present : Position(m) = k]

On(i) == {Header} \cup {m \in Present : zsl.height[m] >= i}

\* Types, and no span is ever 0 (SkipList::Validate).
TypeOK ==
    /\ index \in [Member -> Scores \cup {Absent}]
    /\ zsl.score \in [Member -> Scores \cup {0}]
    /\ zsl.height \in [Member -> 0 .. MaxLevel]
    /\ zsl.forward \in [Levels -> [Node -> Member \cup {End}]]
    /\ zsl.span \in [Levels -> [Node -> 0 .. N + 1]]
    /\ \A i \in 1 .. zsl.level : \A x \in On(i) : zsl.span[i][x] > 0
    /\ zsl.level \in Levels /\ zsl.length \in 0 .. N

\* The dictionary and the list describe the same members with the same scores,
\* on every level in the order of score and name, and the top level is not
\* empty: whatever insertions at random heights, moves to another score and
\* deletions came before.
IndexesAgree ==
    /\ \A m \in Member : index[m] = Absent <=> zsl.height[m] = 0
    /\ \A m \in Present : zsl.score[m] = index[m]
    /\ zsl.length = Cardinality(Present)
    /\ From(zsl.forward[1][Header]) = Sorted
    /\ \A i \in 1 .. zsl.level : \A x \in On(i) :
          LET later == {y \in On(i) : Position(y) > Position(x)}
          IN  IF later = {} THEN zsl.forward[i][x] = End
              ELSE zsl.forward[i][x] \in later
                   /\ \A y \in later : Position(zsl.forward[i][x]) <= Position(y)
    /\ zsl.level = Max({1} \cup {zsl.height[m] : m \in Present})

\* The span of a link is the difference of the ranks of its ends, the virtual
\* tail standing in for a missing end (skip_list.h:20), on every level in use:
\* a wrong span breaks nothing at once, ranks merely drift.
SpansRight ==
    \A i \in 1 .. zsl.level : \A x \in On(i) :
        zsl.span[i][x] = Position(zsl.forward[i][x]) - Position(x)

\* The reads answer what the dictionary alone says: ZRANK, summed from the spans,
\* the number of members in front, ZREVRANK the number behind; ZRANGE the members
\* between two positions, counted from either end and cut off at both;
\* ZRANGEBYSCORE those with a score in the interval, open or closed at either
\* end, in order and each once, ZCOUNT how many.  ZREVRANGE counts from the
\* highest score as long as the two positions are equally far from the ends.
ReadsRight ==
    LET n == Cardinality(Present)
        at(k) == IF k < 0 THEN k + n ELSE k
        first(k) == Max({0, at(k)}) + 1
        last(k) == Min({n - 1, at(k)}) + 1
        within(m, lo, hi, lo_open, hi_open) ==
            /\ index[m] >= lo /\ (lo_open => index[m] # lo)
            /\ index[m] <= hi /\ (hi_open => index[m] # hi)
    IN  /\ \A m \in Present :
              /\ Rank(m) = Position(m) - 1
              /\ RevRank(m) = Cardinality({x \in Present : Precedes(m, x)})
        /\ \A start, stop \in -(N + 1) .. N + 1 :
              ZRange(start, stop) = SubSeq(Sorted, first(start), last(stop))
        /\ \A start \in -(N + 1) .. N + 1 :
              ZRevRange(start, -1 - start) =
                  SubSeq(Lists!Reverse(Sorted), first(start), last(-1 - start))
        /\ \A lo, hi \in Scores, lo_open, hi_open \in BOOLEAN :
              LET nodes == RangeByScore(lo, hi, lo_open, hi_open)
                  right == {m \in Present : within(m, lo, hi, lo_open, hi_open)}
              IN  /\ {nodes[k] : k \in 1 .. Len(nodes)} = right
                  /\ \A j, k \in 1 .. Len(nodes) : j < k => Precedes(nodes[j], nodes[k])
                  /\ ZCount(lo, hi, lo_open, hi_open) = Cardinality(right)
=============================================================================
