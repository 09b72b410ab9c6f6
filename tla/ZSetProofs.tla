----------------------------- MODULE ZSetProofs -----------------------------
(***************************************************************************)
(* For every number of members and levels and all integer scores: the skip *)
(* list of ZSet stays in step with the dictionary, its spans with the      *)
(* ranks, and every read answers what the dictionary alone says.           *)
(*                                                                         *)
(* The invariant says that some ranking p of the nodes agrees with every   *)
(* link and every span; insertion and deletion shift the ranks behind the  *)
(* place the search found.  The recursive functions of the model are       *)
(* reasoned about by a least counterexample.                               *)
(***************************************************************************)
EXTENDS ZSet, FiniteSetTheorems, SequenceTheorems, WellFoundedInduction, TLAPS

\* The members of list l, those on its level i, and their order.
In(l) == {m \in Member : l.height[m] > 0}
Level(l, i) == {Header} \cup {m \in Member : l.height[m] >= i}
Before(l, a, b) == Less(l, a, l.score[b], b)

ListType(l) ==
    /\ l.score \in [Member -> Int]
    /\ l.height \in [Member -> 0 .. MaxLevel]
    /\ l.forward \in [Levels -> [Node -> Member \cup {End}]]
    /\ l.span \in [Levels -> [Node -> Int]]
    /\ l.level \in Levels /\ l.length \in Nat

\* p gives the header rank 0, the members of the list 1 up to its length in their
\* order, and the virtual tail the next.
Ranked(l, p) ==
    /\ p \in [Node \cup {End} -> Nat]
    /\ p[Header] = 0 /\ p[End] = l.length + 1
    /\ \A m \in In(l) : p[m] \in 1 .. l.length
    /\ \A r \in 1 .. l.length : \E m \in In(l) : p[m] = r
    /\ \A a, b \in In(l) : Before(l, a, b) <=> p[a] < p[b]

\* y is next to x on level i.
Follows(l, p, i, x, y) ==
    /\ y \in Level(l, i) \cup {End} /\ p[x] < p[y]
    /\ \A z \in Level(l, i) : p[z] <= p[x] \/ p[y] <= p[z]

Linked(l, p) ==
    \A i \in Levels :
        /\ \A x \in Level(l, i) : Follows(l, p, i, x, l.forward[i][x])
        /\ \A x \in Node \ Level(l, i) : l.forward[i][x] = End

Spanned(l, p) ==
    \A i \in 1 .. l.level : \A x \in Level(l, i) :
        l.span[i][x] = p[l.forward[i][x]] - p[x]

Topped(l) ==
    /\ \A m \in Member : l.height[m] <= l.level
    /\ l.level = 1 \/ \E m \in Member : l.height[m] = l.level

Bounded(l) == \A i \in Levels : \A x \in Node : l.span[i][x] \in 0 .. N + 1

Sound(l, p) ==
    /\ ListType(l) /\ Ranked(l, p) /\ Linked(l, p)
    /\ Spanned(l, p) /\ Topped(l) /\ Bounded(l)

-----------------------------------------------------------------------------
(* Recursion: a function that goes on to a place nearer the end is defined. *)

\* A set of naturals that is not empty has a least member.
LEMMA LeastNat ==
  ASSUME NEW T \in SUBSET Nat, T # {}
  PROVE  \E x \in T : \A y \in T : x <= y
  <1> DEFINE R == OpToRel(<, Nat)
  <1>1. IsWellFoundedOn(R, Nat)
    BY NatLessThanWellFounded, Zenon
  <1>2. \A x, y : <<y, x>> \in R <=> y \in Nat /\ x \in Nat /\ y < x
    BY Zenon DEF OpToRel
  <1> HIDE DEF R
  <1>3. PICK x \in T : \A y \in T : ~(<<y, x>> \in R)
    BY <1>1, WFMin, Zenon
  <1>4. \A y \in T : ~(y < x)
    BY <1>2, <1>3
  <1>5. QED
    BY <1>4

TailRecursive(g, S, stop, out, next) ==
    g = [s \in S |-> IF stop[s] THEN out[s] ELSE g[next[s]]]

\* A function that goes on to a place nearer the end until it may stop is defined.
LEMMA TailRecursion ==
  ASSUME NEW S, NEW K \in Nat, NEW far \in [S -> 0 .. K], NEW stop, NEW out, NEW next,
         \A s \in S : stop[s] \/ (next[s] \in S /\ far[next[s]] < far[s])
  PROVE  \E g : TailRecursive(g, S, stop, out, next)
  <1> DEFINE After(g) == [s \in S |-> IF stop[s] THEN out[s] ELSE g[next[s]]]
             Filled(g, j) == \A s \in S : far[s] <= j => g[s] = After(g)[s]
             T == {j \in Nat : ~\E g : Filled(g, j)}
  <1>1. ASSUME T # {} PROVE FALSE
    <2>1. PICK j \in T : \A i \in T : j <= i
      <3>1. T \in SUBSET Nat
        OBVIOUS
      <3> HIDE DEF T
      <3>2. QED
        BY <1>1, <3>1, LeastNat
    <2>2. CASE j = 0
      <3>1. PICK g : g = [s \in S |-> out[s]]
        OBVIOUS
      <3>2. ASSUME NEW s \in S, far[s] <= 0 PROVE stop[s]
        <4>1. ASSUME ~stop[s] PROVE FALSE
          <5>1. next[s] \in S /\ far[next[s]] < far[s] /\ far[next[s]] \in 0 .. K /\ far[s] \in 0 .. K
            BY <4>1
          <5>2. QED
            BY <3>2, <5>1
        <4>2. QED
          BY <4>1
      <3>3. Filled(g, 0)
        BY <3>1, <3>2
      <3>4. QED
        BY <2>1, <2>2, <3>3
    <2>3. CASE j # 0
      <3>1. j - 1 \in Nat /\ j - 1 < j /\ j \in Nat
        BY <2>1, <2>3
      <3>2. j - 1 \notin T
        BY <2>1, <3>1
      <3>3. PICK g : Filled(g, j - 1)
        BY <3>1, <3>2
      <3>4. PICK h : h = After(g)
        OBVIOUS
      <3>5. ASSUME NEW s \in S, far[s] <= j PROVE h[s] = After(h)[s]
        <4>1. CASE stop[s]
          BY <3>4, <4>1
        <4>2. CASE ~stop[s]
          <5>1. next[s] \in S /\ far[next[s]] < far[s] /\ far[next[s]] \in 0 .. K /\ far[s] \in 0 .. K
            BY <4>2
          <5>2. far[next[s]] <= j - 1
            BY <3>1, <3>5, <5>1
          <5>3. g[next[s]] = h[next[s]]
            BY <3>3, <3>4, <5>1, <5>2
          <5>4. QED
            BY <3>4, <4>2, <5>3
        <4>3. QED
          BY <4>1, <4>2
      <3>6. Filled(h, j)
        BY <3>5
      <3>7. QED
        BY <2>1, <3>6
    <2>4. QED
      BY <2>2, <2>3
  <1>2. PICK g : Filled(g, K)
    BY <1>1
  <1>3. PICK h : h = After(g)
    OBVIOUS
  <1>4. \A s \in S : far[s] <= K
    OBVIOUS
  <1>5. ASSUME NEW s \in S PROVE h[s] = After(h)[s]
    <2>1. CASE stop[s]
      BY <1>3, <2>1
    <2>2. CASE ~stop[s]
      <3>1. g[next[s]] = h[next[s]]
        BY <1>2, <1>3, <1>4, <2>2
      <3>2. QED
        BY <1>3, <2>2, <3>1
    <2>3. QED
      BY <2>1, <2>2
  <1>6. h = After(h)
    BY <1>3, <1>5
  <1>7. QED
    BY <1>6 DEF TailRecursive

-----------------------------------------------------------------------------
(* The order of a list. *)

\* What the names of the nodes stand for.
LEMMA Nodes ==
  /\ N \in Nat /\ MaxLevel \in Nat /\ MaxLevel # 0
  /\ Header \notin Member /\ End \notin Member /\ Header # End /\ End \notin Node
  /\ Node = {Header} \cup Member /\ Member \subseteq Nat \ {0}
  /\ 1 \in Levels /\ Levels \subseteq Nat \ {0}
  BY ZSetAssumption DEF ZSetAssumption, Header, End, Member, Node, Levels

\* The levels a list uses are levels.
LEMMA LevelsInUse ==
  ASSUME NEW l, ListType(l)
  PROVE  /\ l.level \in Nat /\ l.level \in Levels /\ 1 .. l.level \subseteq Levels
         /\ \A i \in Levels : i \in Nat /\ i # 0 /\ (i <= l.level => i \in 1 .. l.level)
         /\ \A i \in 1 .. l.level : i \in Levels
  <1>1. l.level \in 1 .. MaxLevel /\ MaxLevel \in Nat
    BY Nodes DEF ListType, Levels
  <1>2. QED
    BY <1>1 DEF Levels

\* A level is made of nodes; level 1 has them all.
LEMMA LevelsRight ==
  ASSUME NEW l, ListType(l), NEW i \in Levels
  PROVE  /\ Level(l, i) = {Header} \cup {m \in In(l) : l.height[m] >= i}
         /\ Level(l, i) \subseteq Node /\ Header \in Level(l, i) /\ End \notin Level(l, i)
         /\ Level(l, 1) = {Header} \cup In(l) /\ In(l) \subseteq Member
  <1>1. \A m \in Member : l.height[m] \in Nat
    BY Nodes DEF ListType
  <1>2. i \in Nat /\ i > 0
    BY Nodes
  <1>3. ASSUME NEW m \in Member PROVE /\ (l.height[m] >= i => l.height[m] > 0)
                                    /\ (l.height[m] >= 1 <=> l.height[m] > 0)
    BY <1>1, <1>2
  <1>30. \A m : m \in In(l) <=> (m \in Member /\ l.height[m] > 0)
    BY DEF In
  <1>4. {m \in Member : l.height[m] >= i} = {m \in In(l) : l.height[m] >= i}
    <2>1. ASSUME NEW m PROVE (m \in Member /\ l.height[m] >= i) <=> (m \in In(l) /\ l.height[m] >= i)
      BY <1>3, <1>30
    <2>2. QED
      BY <2>1
  <1>5. {m \in Member : l.height[m] >= 1} = In(l)
    <2>1. ASSUME NEW m PROVE (m \in Member /\ l.height[m] >= 1) <=> m \in In(l)
      BY <1>3, <1>30
    <2>2. QED
      BY <2>1
  <1>6. In(l) \subseteq Member
    BY DEF In
  <1>7. Level(l, i) = {Header} \cup {m \in Member : l.height[m] >= i}
    BY DEF Level
  <1>8. Level(l, 1) = {Header} \cup {m \in Member : l.height[m] >= 1}
    BY DEF Level
  <1>9. QED
    BY <1>4, <1>5, <1>6, <1>7, <1>8, Nodes

\* Score and name put any two members in order.
LEMMA BeforeTotal ==
  ASSUME NEW l, ListType(l), NEW a \in Member, NEW b \in Member, a # b
  PROVE  Before(l, a, b) \/ Before(l, b, a)
  <1>1. l.score[a] \in Int /\ l.score[b] \in Int /\ a \in Nat /\ b \in Nat
    BY Nodes DEF ListType
  <1>2. QED
    BY <1>1 DEF Before, Less

\* Ranks of nodes on a level.
LEMMA RanksRight ==
  ASSUME NEW l, NEW p, ListType(l), Ranked(l, p)
  PROVE  /\ \A x \in In(l) : p[x] \in 1 .. l.length
         /\ \A x \in In(l) \cup {Header} : p[x] \in 0 .. l.length /\ p[x] < p[End]
         /\ \A x, y \in In(l) \cup {Header, End} : p[x] = p[y] => x = y
         /\ \A x \in In(l) \cup {Header, End} : p[x] \in Nat
         /\ p[Header] = 0 /\ p[End] = l.length + 1 /\ l.length \in Nat
  <1>1. /\ \A x \in In(l) : p[x] \in 1 .. l.length
        /\ p[Header] = 0 /\ p[End] = l.length + 1 /\ l.length \in Nat
    BY DEF Ranked, ListType
  <1>2. ASSUME NEW x \in In(l), NEW y \in In(l), p[x] = p[y] PROVE x = y
    <2>1. x \in Member /\ y \in Member
      BY DEF In
    <2>2. ~Before(l, x, y) /\ ~Before(l, y, x)
      BY <1>1, <1>2 DEF Ranked
    <2>3. QED
      BY <2>1, <2>2, BeforeTotal
  <1>3. QED
    BY <1>1, <1>2

-----------------------------------------------------------------------------
(* The search. *)

\* goes says so of the first nodes only.
Prefix(l, p, goes) ==
    \A a, b \in In(l) :
        p[a] < p[b] /\ goes[[at |-> b, rank |-> p[b]]] => goes[[at |-> a, rank |-> p[a]]]

Gone(p, goes, x) == x = Header \/ goes[[at |-> x, rank |-> p[x]]]

\* q is the last place of level i that the search gets to.
Stops(l, p, goes, i, q) ==
    LET y == l.forward[i][q.at]
    IN  /\ q = [at |-> q.at, rank |-> p[q.at]] /\ q.at \in Level(l, i)
        /\ Gone(p, goes, q.at)
        /\ y = End \/ ~goes[[at |-> y, rank |-> p[y]]]

Onward(l, i, q) == [at |-> l.forward[i][q.at], rank |-> q.rank + l.span[i][q.at]]

\* The recursion of a walk along one level.
LEMMA WalkUnfolds ==
  ASSUME NEW l, NEW p, Sound(l, p), NEW i \in 1 .. l.level, NEW goes
  PROVE  \A q \in Place :
            Walk(l, i, goes)[q] =
                IF Onward(l, i, q).at # End /\ goes[Onward(l, i, q)]
                THEN Walk(l, i, goes)[Onward(l, i, q)] ELSE q
  <1>1. ListType(l) /\ Ranked(l, p) /\ Linked(l, p) /\ i \in Levels
    BY LevelsInUse DEF Sound
  <1>2. /\ l.forward[i] \in [Node -> Member \cup {End}] /\ l.span[i] \in [Node -> Int]
        /\ \A q \in Place : q.at \in Node /\ q.rank \in Int
    BY <1>1 DEF ListType, Place
  <1>3. \A q \in Place : Onward(l, i, q).at # End => Onward(l, i, q) \in Place
    BY <1>2, Nodes DEF Onward, Place
  <1> DEFINE K == l.length + 1
             far == [q \in Place |-> IF q.at \in Level(l, i) THEN K - p[q.at] ELSE 0]
             next == [q \in Place |-> Onward(l, i, q)]
             stop == [q \in Place |-> ~(next[q].at # End /\ goes[next[q]])]
             out == [q \in Place |-> q]
  <1>4. /\ Level(l, i) \subseteq {Header} \cup In(l)
        /\ \A x \in Level(l, i) : p[x] \in 0 .. l.length
        /\ l.length \in Nat
    BY <1>1, LevelsRight, RanksRight
  <1>5. K \in Nat /\ far \in [Place -> 0 .. K]
    BY <1>4
  <1>6. ASSUME NEW q \in Place, ~stop[q]
        PROVE  next[q] \in Place /\ far[next[q]] < far[q]
    <2>1. next[q] = Onward(l, i, q) /\ next[q].at = l.forward[i][q.at] /\ next[q].at # End
      BY <1>6 DEF Onward
    <2>2. next[q] \in Place
      BY <1>3, <2>1
    <2>3. q.at \in Level(l, i)
      BY <1>1, <1>2, <2>1 DEF Linked
    <2>4. next[q].at \in Level(l, i) /\ p[q.at] < p[next[q].at]
      BY <1>1, <2>1, <2>3 DEF Linked, Follows
    <2>5. far[q] = K - p[q.at] /\ far[next[q]] = K - p[next[q].at]
      BY <2>2, <2>3, <2>4
    <2>6. p[q.at] \in 0 .. l.length /\ p[next[q].at] \in 0 .. l.length
      BY <1>4, <2>3, <2>4
    <2>7. K - p[next[q].at] < K - p[q.at]
      BY <1>4, <2>4, <2>6
    <2>8. QED
      BY <2>2, <2>5, <2>7
  <1>7. \E g : g = [q \in Place |-> IF stop[q] THEN out[q] ELSE g[next[q]]]
    <2> HIDE DEF K, far, next, stop, out
    <2>1. \A q \in Place : stop[q] \/ (next[q] \in Place /\ far[next[q]] < far[q])
      BY <1>6
    <2>2. \E g : TailRecursive(g, Place, stop, out, next)
      BY <1>5, <2>1, TailRecursion
    <2>3. QED
      BY <2>2 DEF TailRecursive
  <1>8. \E g : g = [q \in Place |-> IF Onward(l, i, q).at # End /\ goes[Onward(l, i, q)]
                                    THEN g[Onward(l, i, q)] ELSE q]
    <2>1. PICK g : g = [q \in Place |-> IF stop[q] THEN out[q] ELSE g[next[q]]]
      BY <1>7
    <2>2. ASSUME NEW q \in Place
          PROVE  g[q] = IF Onward(l, i, q).at # End /\ goes[Onward(l, i, q)]
                        THEN g[Onward(l, i, q)] ELSE q
      BY <2>1
    <2>3. g = [q \in Place |-> g[q]]
      BY <2>1
    <2> HIDE DEF next, stop, out
    <2>4. QED
      BY <2>2, <2>3
  <1> DEFINE W == CHOOSE g : g = [q \in Place |-> IF Onward(l, i, q).at # End /\ goes[Onward(l, i, q)]
                                    THEN g[Onward(l, i, q)] ELSE q]
  <1>9. W = [q \in Place |-> IF Onward(l, i, q).at # End /\ goes[Onward(l, i, q)]
                             THEN W[Onward(l, i, q)] ELSE q]
    BY <1>8, Zenon
  <1>10. Walk(l, i, goes) = W
    BY Zenon DEF Walk, Onward
  <1> HIDE DEF W
  <1>11. QED
    BY <1>9, <1>10

\* A walk stops at a node whose next one it may not pass, with that node's rank.
LEMMA WalkRight ==
  ASSUME NEW l, NEW p, Sound(l, p), NEW i \in 1 .. l.level, NEW goes,
         NEW x \in Level(l, i), Gone(p, goes, x)
  PROVE  Stops(l, p, goes, i, Walk(l, i, goes)[[at |-> x, rank |-> p[x]]])
  <1>1. /\ ListType(l) /\ Ranked(l, p) /\ Linked(l, p) /\ Spanned(l, p) /\ i \in Levels
    BY LevelsInUse DEF Sound
  <1>2. /\ \A z \in Level(l, i) : z \in Node /\ p[z] \in 0 .. l.length
        /\ l.length \in Nat /\ p[End] = l.length + 1
    BY <1>1, LevelsRight, RanksRight
  <1> DEFINE at(z) == [at |-> z, rank |-> p[z]]
             W == Walk(l, i, goes)
             Wrong(z) == Gone(p, goes, z) /\ ~Stops(l, p, goes, i, W[at(z)])
             T == {n \in Nat : \E z \in Level(l, i) : Wrong(z) /\ n = l.length - p[z]}
  <1>3. SUFFICES ASSUME T # {} PROVE FALSE
    <2>1. l.length - p[x] \in Nat
      BY <1>2
    <2>2. ~Stops(l, p, goes, i, W[at(x)]) => l.length - p[x] \in T
      <3> HIDE DEF W
      <3>1. QED
        BY <2>1
    <2> HIDE DEF T
    <2>3. Stops(l, p, goes, i, W[at(x)])
      BY <1>3, <2>2
    <2>4. QED
      BY <2>3
  <1>4. PICK n \in T : \A k \in T : n <= k
    <2>1. T \in SUBSET Nat
      OBVIOUS
    <2> HIDE DEF T
    <2>2. QED
      BY <1>3, <2>1, LeastNat
  <1>5. PICK z \in Level(l, i) : Gone(p, goes, z) /\ ~Stops(l, p, goes, i, W[at(z)]) /\ n = l.length - p[z]
    BY <1>4
  <1>6. PICK y : y = l.forward[i][z]
    OBVIOUS
  <1>7. /\ y \in Level(l, i) \cup {End} /\ p[z] < p[y] /\ l.span[i][z] = p[y] - p[z]
        /\ p[z] \in 0 .. l.length /\ p[y] \in Nat
    <2>1. y \in Level(l, i) \cup {End} /\ p[z] < p[y]
      BY <1>1, <1>6 DEF Linked, Follows
    <2>2. l.span[i][z] = p[y] - p[z]
      BY <1>1, <1>6 DEF Spanned
    <2>3. QED
      BY <1>2, <2>1, <2>2
  <1>8. at(z) \in Place /\ Onward(l, i, at(z)) = at(y)
    BY <1>2, <1>6, <1>7 DEF Onward, Place
  <1>9. W[at(z)] = IF y # End /\ goes[at(y)] THEN W[at(y)] ELSE at(z)
    <2>1. W[at(z)] = IF Onward(l, i, at(z)).at # End /\ goes[Onward(l, i, at(z))]
                     THEN W[Onward(l, i, at(z))] ELSE at(z)
      BY <1>8, WalkUnfolds
    <2> HIDE DEF W
    <2>2. QED
      BY <1>8, <2>1
  <1> HIDE DEF W
  <1>10. CASE y # End /\ goes[at(y)]
    <2>1. y \in Level(l, i) /\ Gone(p, goes, y) /\ W[at(z)] = W[at(y)]
      BY <1>7, <1>9, <1>10 DEF Gone
    <2>2. ~Stops(l, p, goes, i, W[at(y)])
      BY <1>5, <2>1
    <2>3. p[y] \in 0 .. l.length
      BY <1>2, <2>1
    <2>4. l.length - p[y] \in T
      BY <1>2, <2>1, <2>2, <2>3
    <2>5. n <= l.length - p[y]
      BY <1>4, <2>4
    <2>6. QED
      BY <1>2, <1>5, <1>7, <2>3, <2>5
  <1>11. CASE ~(y # End /\ goes[at(y)])
    <2>1. W[at(z)] = at(z)
      BY <1>9, <1>11
    <2>2. Stops(l, p, goes, i, at(z))
      BY <1>5, <1>6, <1>11 DEF Stops
    <2>3. QED
      BY <1>5, <2>1, <2>2
  <1>12. QED
    BY <1>10, <1>11

\* When goes holds of a prefix of the order there is one place to stop.
LEMMA StopsOnce ==
  ASSUME NEW l, NEW p, Sound(l, p), NEW i \in Levels, NEW goes, Prefix(l, p, goes),
         NEW u, NEW v, Stops(l, p, goes, i, u), Stops(l, p, goes, i, v)
  PROVE  u = v
  <1>1. ListType(l) /\ Ranked(l, p) /\ Linked(l, p)
    BY DEF Sound
  <1>2. /\ Level(l, i) \subseteq {Header} \cup In(l) /\ l.length \in Nat /\ p[Header] = 0
        /\ \A z \in Level(l, i) : p[z] \in 0 .. l.length /\ p[z] < p[End]
        /\ \A z, y \in Level(l, i) : p[z] = p[y] => z = y
    BY <1>1, LevelsRight, RanksRight
  <1>3. ASSUME NEW a, NEW b, Stops(l, p, goes, i, a), Stops(l, p, goes, i, b)
        PROVE  ~(p[a.at] < p[b.at])
    <2>1. SUFFICES ASSUME p[a.at] < p[b.at] PROVE FALSE
      OBVIOUS
    <2>2. PICK y : y = l.forward[i][a.at]
      OBVIOUS
    <2>3. /\ a.at \in Level(l, i) /\ b.at \in Level(l, i) /\ Gone(p, goes, b.at)
          /\ y = End \/ ~goes[[at |-> y, rank |-> p[y]]]
      BY <1>3, <2>2 DEF Stops
    <2>4. b.at # Header /\ goes[[at |-> b.at, rank |-> p[b.at]]]
      BY <1>2, <2>1, <2>3 DEF Gone
    <2>5. /\ y \in Level(l, i) \cup {End} /\ p[a.at] < p[y]
          /\ p[b.at] <= p[a.at] \/ p[y] <= p[b.at]
      BY <1>1, <2>2, <2>3 DEF Linked, Follows
    <2>6. p[a.at] \in Nat /\ p[b.at] \in Nat /\ p[b.at] < p[End]
      BY <1>2, <2>3
    <2>60. ~(p[b.at] <= p[a.at])
      BY <2>1, <2>6
    <2>61. p[y] <= p[b.at]
      BY <2>5, <2>60
    <2>62. p[End] \in Nat
      BY <1>1, RanksRight
    <2>63. y # End
      BY <2>6, <2>61, <2>62
    <2>7. y # Header /\ y \in In(l) /\ b.at \in In(l)
      BY <1>2, <2>3, <2>4, <2>5, <2>6, <2>63
    <2>8. p[y] < p[b.at] \/ y = b.at
      BY <1>2, <2>3, <2>5, <2>6, <2>61, <2>63
    <2>9. goes[[at |-> y, rank |-> p[y]]]
      BY <2>4, <2>7, <2>8 DEF Prefix
    <2>10. QED
      BY <2>3, <2>63, <2>9
  <1>4. u.at \in Level(l, i) /\ v.at \in Level(l, i)
    BY DEF Stops
  <1>5. p[u.at] = p[v.at]
    BY <1>2, <1>3, <1>4
  <1>6. u.at = v.at
    BY <1>2, <1>4, <1>5
  <1>7. QED
    BY <1>6 DEF Stops

\* On every level the search (skip_list.cpp:295-337) stops where it should.
LEMMA SearchRight ==
  ASSUME NEW l, NEW p, Sound(l, p), NEW goes, Prefix(l, p, goes)
  PROVE  \A i \in 1 .. l.level : Stops(l, p, goes, i, Search(l, goes)[i])
  <1>1. ListType(l) /\ l.level \in Levels /\ 1 .. l.level \subseteq Levels /\ l.level \in Nat /\ p[Header] = 0
    BY LevelsInUse DEF Sound, Ranked
  <1> DEFINE start == [at |-> Header, rank |-> 0]
             From0(f, i) == IF i = l.level THEN start ELSE f[i + 1]
             P == [i \in 1 .. l.level |-> Walk(l, i, goes)[start]]
             F == CHOOSE f : f = [i \in 1 .. l.level |-> Walk(l, i, goes)[From0(f, i)]]
  <1>2. ASSUME NEW i \in 1 .. l.level PROVE Stops(l, p, goes, i, Walk(l, i, goes)[start])
    <2>1. Header \in Level(l, i) /\ Gone(p, goes, Header) /\ start = [at |-> Header, rank |-> p[Header]]
      BY <1>1, LevelsRight DEF Gone
    <2> HIDE DEF start
    <2>2. QED
      BY <2>1, WalkRight
  \* Going on from where the level above was left is as good as from the header.
  <1>3. ASSUME NEW i \in 1 .. l.level, i # l.level, NEW q, Stops(l, p, goes, i + 1, q)
        PROVE  Stops(l, p, goes, i, Walk(l, i, goes)[q])
    <2>1. i + 1 \in Levels /\ i \in Levels /\ i + 1 >= i
      BY <1>1, <1>3 DEF Levels
    <2>2. q = [at |-> q.at, rank |-> p[q.at]] /\ q.at \in Level(l, i + 1) /\ Gone(p, goes, q.at)
      BY <1>3 DEF Stops
    <2>3. \A m \in Member : l.height[m] \in Nat
      BY <1>1 DEF ListType
    <2>4. q.at \in Level(l, i)
      BY <1>1, <2>1, <2>2, <2>3, Nodes DEF Level
    <2>5. PICK x : x = q.at
      OBVIOUS
    <2>6. Stops(l, p, goes, i, Walk(l, i, goes)[[at |-> x, rank |-> p[x]]])
      BY <2>2, <2>4, <2>5, WalkRight
    <2>7. QED
      BY <2>2, <2>5, <2>6
  <1> HIDE DEF start
  <1>4. P = [i \in 1 .. l.level |-> Walk(l, i, goes)[From0(P, i)]]
    <2>1. ASSUME NEW i \in 1 .. l.level PROVE P[i] = Walk(l, i, goes)[From0(P, i)]
      <3>1. CASE i = l.level
        BY <3>1
      <3>2. CASE i # l.level
        <4>1. i + 1 \in 1 .. l.level /\ i \in Levels
          BY <1>1, <3>2
        <4>2. Stops(l, p, goes, i, Walk(l, i, goes)[P[i + 1]])
          BY <1>2, <1>3, <3>2, <4>1
        <4>3. Stops(l, p, goes, i, P[i])
          BY <1>2
        <4>4. P[i] = Walk(l, i, goes)[P[i + 1]]
          <5> HIDE DEF P
          <5>1. QED
            BY <4>1, <4>2, <4>3, StopsOnce
        <4>5. QED
          BY <3>2, <4>4
      <3>3. QED
        BY <3>1, <3>2
    <2>2. QED
      BY <2>1
  <1>5. F = [i \in 1 .. l.level |-> Walk(l, i, goes)[From0(F, i)]]
    <2> HIDE DEF P
    <2>1. \E f : f = [i \in 1 .. l.level |-> Walk(l, i, goes)[From0(f, i)]]
      BY <1>4
    <2>2. QED
      BY <2>1, Zenon
  <1>6. Search(l, goes) = F
    BY Zenon DEF Search, start
  <1> HIDE DEF F
  <1> DEFINE T == {n \in Nat : \E i \in 1 .. l.level : ~Stops(l, p, goes, i, F[i]) /\ n = l.level - i}
  <1>7. ASSUME T # {} PROVE FALSE
    <2>1. PICK n \in T : \A k \in T : n <= k
      <3>1. T \in SUBSET Nat
        OBVIOUS
      <3> HIDE DEF T
      <3>2. QED
        BY <1>7, <3>1, LeastNat
    <2>2. PICK i \in 1 .. l.level : ~Stops(l, p, goes, i, F[i]) /\ n = l.level - i
      BY <2>1
    <2>3. F[i] = Walk(l, i, goes)[From0(F, i)]
      BY <1>5
    <2>4. i # l.level
      BY <1>2, <2>2, <2>3
    <2>5. i + 1 \in 1 .. l.level /\ l.level - (i + 1) \in Nat /\ l.level - (i + 1) < n
      BY <1>1, <2>2, <2>4
    <2>6. l.level - (i + 1) \notin T
      BY <2>1, <2>5
    <2>7. Stops(l, p, goes, i + 1, F[i + 1])
      BY <2>5, <2>6
    <2>8. QED
      BY <1>3, <2>2, <2>3, <2>4, <2>7
  <1>8. ASSUME NEW i \in 1 .. l.level PROVE Stops(l, p, goes, i, F[i])
    <2>1. l.level - i \in Nat
      BY <1>1
    <2>2. QED
      BY <1>7, <2>1
  <1>9. QED
    BY <1>6, <1>8

\* On level i, rank r falls between u and the next.
Cut(l, p, r, i, u) ==
    /\ u \in Level(l, i) /\ p[u] <= r /\ r < p[l.forward[i][u]]

\* All levels stop around one rank: the number of members the search passed.
LEMMA SearchCut ==
  ASSUME NEW l, NEW p, Sound(l, p), NEW goes, Prefix(l, p, goes)
  PROVE  /\ Search(l, goes)[1].rank \in 0 .. l.length
         /\ \A x \in In(l) :
               goes[[at |-> x, rank |-> p[x]]] <=> p[x] <= Search(l, goes)[1].rank
         /\ \A i \in 1 .. l.level :
               /\ Search(l, goes)[i].rank = p[Search(l, goes)[i].at]
               /\ Cut(l, p, Search(l, goes)[1].rank, i, Search(l, goes)[i].at)
  <1>1. ListType(l) /\ Ranked(l, p) /\ Linked(l, p)
    BY DEF Sound
  <1>2. PICK path : path = Search(l, goes)
    OBVIOUS
  <1>3. \A i \in 1 .. l.level : Stops(l, p, goes, i, path[i])
    BY <1>2, SearchRight
  <1>4. PICK u : u = path[1].at
    OBVIOUS
  <1>5. PICK y : y = l.forward[1][u]
    OBVIOUS
  <1>6. 1 \in Levels /\ 1 \in 1 .. l.level
    BY <1>1, LevelsInUse, Nodes
  <1>7. Stops(l, p, goes, 1, path[1])
    BY <1>3, <1>6
  <1>8. /\ path[1].rank = p[u] /\ u \in Level(l, 1) /\ Gone(p, goes, u)
        /\ y = End \/ ~goes[[at |-> y, rank |-> p[y]]]
    BY <1>4, <1>5, <1>7 DEF Stops
  <1>9. /\ y \in Level(l, 1) \cup {End} /\ p[u] < p[y]
        /\ \A z \in Level(l, 1) : p[z] <= p[u] \/ p[y] <= p[z]
    BY <1>1, <1>5, <1>6, <1>8 DEF Linked, Follows
  <1>10. /\ Level(l, 1) = {Header} \cup In(l) /\ Header \notin In(l)
         /\ \A x \in In(l) : p[x] \in 1 .. l.length
         /\ \A x \in In(l) \cup {Header} : p[x] \in 0 .. l.length /\ p[x] < p[End]
         /\ \A x, z \in In(l) \cup {Header, End} : p[x] = p[z] => x = z
         /\ p[Header] = 0 /\ p[End] \in Nat /\ l.length \in Nat
    BY <1>1, <1>6, LevelsRight, RanksRight, Nodes
  <1>11. ASSUME NEW x \in In(l), p[x] <= p[u] PROVE goes[[at |-> x, rank |-> p[x]]]
    <2>1. u # Header
      <3>1. p[x] \in 1 .. l.length
        BY <1>10
      <3>2. QED
        BY <1>10, <1>11, <3>1
    <2>2. u \in In(l) /\ goes[[at |-> u, rank |-> p[u]]]
      BY <1>8, <1>10, <2>1 DEF Gone
    <2>3. p[x] < p[u] \/ x = u
      <3>1. p[x] \in Nat /\ p[u] \in Nat
        BY <1>10, <2>2
      <3>2. QED
        BY <1>10, <1>11, <2>2, <3>1
    <2>4. QED
      BY <2>2, <2>3 DEF Prefix
  <1>12. ASSUME NEW x \in In(l), goes[[at |-> x, rank |-> p[x]]], ~(p[x] <= p[u]) PROVE FALSE
    <2>1. p[y] <= p[x] /\ p[x] \in Nat /\ p[x] < p[End]
      BY <1>9, <1>10, <1>12
    <2>2. y # End
      BY <1>10, <2>1
    <2>3. y # Header /\ y \in In(l)
      <3>1. p[u] \in Nat /\ p[y] > 0
        <4>1. p[u] \in Nat /\ p[y] \in Nat
          BY <1>8, <1>9, <1>10
        <4>2. QED
          BY <1>9, <4>1
      <3>2. QED
        BY <1>9, <1>10, <2>2, <3>1
    <2>4. p[y] < p[x] \/ y = x
      <3>1. p[y] \in Nat
        BY <1>10, <2>3
      <3>2. QED
        BY <1>10, <2>1, <2>3, <3>1
    <2>5. goes[[at |-> y, rank |-> p[y]]]
      BY <1>12, <2>3, <2>4 DEF Prefix
    <2>6. QED
      BY <1>8, <2>2, <2>5
  <1>13. ASSUME NEW i \in 1 .. l.level
         PROVE  path[i].rank = p[path[i].at] /\ Cut(l, p, p[u], i, path[i].at)
    <2>1. PICK v : v = path[i].at
      OBVIOUS
    <2>2. PICK z : z = l.forward[i][v]
      OBVIOUS
    <2>3. i \in Levels
      BY <1>1, LevelsInUse
    <2>4. Stops(l, p, goes, i, path[i])
      BY <1>3
    <2>5. /\ path[i].rank = p[v] /\ v \in Level(l, i) /\ Gone(p, goes, v)
          /\ z = End \/ ~goes[[at |-> z, rank |-> p[z]]]
      BY <2>1, <2>2, <2>4 DEF Stops
    <2>6. z \in Level(l, i) \cup {End} /\ p[v] < p[z] /\ Level(l, i) \subseteq {Header} \cup In(l)
      BY <1>1, <2>2, <2>3, <2>5, LevelsRight DEF Linked, Follows
    <2>7. p[u] \in 0 .. l.length /\ p[v] \in Nat /\ p[z] \in Nat
      BY <1>8, <1>10, <2>5, <2>6
    <2>8. p[v] <= p[u]
      <3>1. CASE v = Header
        BY <1>10, <2>7, <3>1
      <3>2. CASE v # Header
        BY <1>12, <2>5, <2>6, <3>2 DEF Gone
      <3>3. QED
        BY <3>1, <3>2
    <2>9. p[u] < p[z]
      <3>1. CASE z = End
        BY <1>8, <1>10, <3>1
      <3>2. CASE z # End
        <4>1. z # Header
          BY <1>10, <2>6, <2>7
        <4>2. z \in In(l)
          BY <2>6, <3>2, <4>1
        <4>3. ~(p[z] <= p[u])
          BY <1>11, <2>5, <3>2, <4>2
        <4>4. QED
          BY <2>7, <4>3
      <3>3. QED
        BY <3>1, <3>2
    <2>10. QED
      BY <2>1, <2>2, <2>5, <2>8, <2>9 DEF Cut
  <1>14. p[u] \in 0 .. l.length
    BY <1>8, <1>10
  <1>15. /\ path[1].rank \in 0 .. l.length
         /\ \A x \in In(l) : goes[[at |-> x, rank |-> p[x]]] <=> p[x] <= path[1].rank
         /\ \A i \in 1 .. l.level :
               path[i].rank = p[path[i].at] /\ Cut(l, p, path[1].rank, i, path[i].at)
    BY <1>8, <1>11, <1>12, <1>13, <1>14
  <1>16. QED
    BY <1>2, <1>15

-----------------------------------------------------------------------------
(* The place of a pair. *)

\* Where the search for a pair leaves level i, and the first level's rank.
At(l, score, m, i) == IF i <= l.level THEN Find(l, score, m)[i].at ELSE Header
Rest(l, score, m) == Find(l, score, m)[1].rank

\* The search for a pair passes the members that come before it.
LEMMA FindRight ==
  ASSUME NEW l, NEW p, Sound(l, p), NEW score \in Int, NEW m \in Member
  PROVE  /\ Rest(l, score, m) \in 0 .. l.length
         /\ \A x \in In(l) : Less(l, x, score, m) <=> p[x] <= Rest(l, score, m)
         /\ \A i \in 1 .. l.level : Find(l, score, m)[i].rank = p[Find(l, score, m)[i].at]
         /\ \A i \in Levels : Cut(l, p, Rest(l, score, m), i, At(l, score, m, i))
  <1>1. ListType(l) /\ Ranked(l, p) /\ Linked(l, p) /\ Topped(l)
    BY DEF Sound
  <1>2. PICK goes : goes = [q \in Place |-> Less(l, q.at, score, m)]
    OBVIOUS
  <1>3. In(l) \subseteq Member /\ \A x \in In(l) : p[x] \in Nat
    BY <1>1, RanksRight DEF In
  <1>4. ASSUME NEW x \in In(l) PROVE goes[[at |-> x, rank |-> p[x]]] <=> Less(l, x, score, m)
    <2>1. [at |-> x, rank |-> p[x]] \in Place
      BY <1>3, Nodes DEF Place
    <2>2. QED
      BY <1>2, <2>1
  <1>5. ASSUME NEW a \in In(l), NEW b \in In(l), p[a] < p[b], Less(l, b, score, m)
        PROVE  Less(l, a, score, m)
    <2>1. Before(l, a, b)
      BY <1>1, <1>5 DEF Ranked
    <2>2. l.score[a] \in Int /\ l.score[b] \in Int /\ a \in Nat /\ b \in Nat /\ m \in Nat
      BY <1>1, <1>3, Nodes DEF ListType
    <2>3. QED
      BY <1>5, <2>1, <2>2 DEF Before, Less
  <1>6. Prefix(l, p, goes)
    BY <1>4, <1>5 DEF Prefix
  <1>7. Find(l, score, m) = Search(l, goes)
    BY <1>2 DEF Find
  <1>8. PICK path : path = Search(l, goes)
    OBVIOUS
  <1>9. /\ path[1].rank \in 0 .. l.length
        /\ \A x \in In(l) : goes[[at |-> x, rank |-> p[x]]] <=> p[x] <= path[1].rank
        /\ \A i \in 1 .. l.level :
              path[i].rank = p[path[i].at] /\ Cut(l, p, path[1].rank, i, path[i].at)
    BY <1>6, <1>8, SearchCut
  <1>10. ASSUME NEW i \in Levels PROVE Cut(l, p, path[1].rank, i, At(l, score, m, i))
    <2>1. CASE i <= l.level
      <3>1. i \in 1 .. l.level
        BY <1>1, <2>1, LevelsInUse
      <3>2. At(l, score, m, i) = path[i].at
        BY <1>7, <1>8, <2>1 DEF At
      <3>3. QED
        BY <1>9, <3>1, <3>2
    <2>2. CASE ~(i <= l.level)
      <3>1. At(l, score, m, i) = Header /\ i \in Nat /\ l.level \in Nat
        BY <1>1, <2>2, LevelsInUse DEF At
      <3>2. \A x \in Member : ~(l.height[x] >= i)
        <4>1. \A x \in Member : l.height[x] \in Nat /\ l.height[x] <= l.level
          BY <1>1, Nodes DEF ListType, Topped
        <4>2. QED
          BY <2>2, <3>1, <4>1
      <3>3. Level(l, i) = {Header}
        BY <3>2 DEF Level
      <3>4. Follows(l, p, i, Header, l.forward[i][Header])
        BY <1>1, <3>3 DEF Linked
      <3>5. l.forward[i][Header] = End
        <4>1. p[Header] = 0
          BY <1>1 DEF Ranked
        <4>2. QED
          BY <3>3, <3>4, <4>1 DEF Follows
      <3>6. p[Header] = 0 /\ p[End] = l.length + 1 /\ path[1].rank \in 0 .. l.length
        BY <1>1, <1>9 DEF Ranked
      <3>7. l.length \in Nat
        BY <1>1 DEF ListType
      <3>8. QED
        BY <3>1, <3>3, <3>5, <3>6, <3>7 DEF Cut
    <2>3. QED
      BY <2>1, <2>2
  <1>11. Rest(l, score, m) = path[1].rank
    BY <1>7, <1>8 DEF Rest
  <1>12. QED
    BY <1>4, <1>7, <1>8, <1>9, <1>10, <1>11

\* No other link passes over the place.
LEMMA CutOnce ==
  ASSUME NEW l, NEW p, Sound(l, p), NEW i \in Levels, NEW r \in Nat, NEW u, Cut(l, p, r, i, u),
         NEW x \in Level(l, i), x # u
  PROVE  p[x] <= r <=> p[l.forward[i][x]] <= r
  <1>1. ListType(l) /\ Ranked(l, p) /\ Linked(l, p)
    BY DEF Sound
  <1>2. PICK y : y = l.forward[i][x]
    OBVIOUS
  <1>3. PICK v : v = l.forward[i][u]
    OBVIOUS
  <1>4. u \in Level(l, i) /\ p[u] <= r /\ r < p[v]
    BY <1>3 DEF Cut
  <1>5. /\ Follows(l, p, i, x, y) /\ Follows(l, p, i, u, v)
    BY <1>1, <1>2, <1>3, <1>4 DEF Linked
  <1>6. /\ Level(l, i) \cup {End} \subseteq In(l) \cup {Header, End}
        /\ \A z, w \in In(l) \cup {Header, End} : p[z] = p[w] => z = w
        /\ \A z \in In(l) \cup {Header, End} : p[z] \in Nat
    BY <1>1, LevelsRight, RanksRight
  <1>7. y \in Level(l, i) \cup {End} /\ v \in Level(l, i) \cup {End} /\ p[x] < p[y]
    BY <1>5 DEF Follows
  <1>8. p[u] \in Nat /\ p[v] \in Nat /\ p[x] \in Nat /\ p[y] \in Nat /\ p[x] # p[u]
    BY <1>4, <1>6, <1>7
  <1>9. (p[u] <= p[x] \/ p[y] <= p[u]) /\ (p[x] <= p[u] \/ p[v] <= p[x])
    BY <1>4, <1>5 DEF Follows
  <1>10. QED
    BY <1>2, <1>4, <1>7, <1>8, <1>9

-----------------------------------------------------------------------------
(* The number of members. *)

\* The length counts the members.
LEMMA LengthRight ==
  ASSUME NEW l, NEW p, ListType(l), Ranked(l, p)
  PROVE  /\ IsFiniteSet(In(l)) /\ Cardinality(In(l)) = l.length
         /\ l.length <= N
  <1>1. /\ \A x \in In(l) : p[x] \in 1 .. l.length
        /\ \A x, y \in In(l) : p[x] = p[y] => x = y
        /\ \A r \in 1 .. l.length : \E m \in In(l) : p[m] = r
        /\ l.length \in Nat
    BY RanksRight DEF Ranked
  <1>2. PICK f : f = [x \in In(l) |-> p[x]]
    OBVIOUS
  <1>3. f \in Bijection(In(l), 1 .. l.length)
    BY <1>1, <1>2 DEF Bijection, Injection, Surjection, IsInjective
  <1>4. IsFiniteSet(Member) /\ Cardinality(Member) = N
    BY Nodes, FS_Interval DEF Member
  <1>5. In(l) \subseteq Member
    BY DEF In
  <1>6. IsFiniteSet(In(l)) /\ Cardinality(In(l)) <= N
    BY <1>4, <1>5, FS_Subset
  <1>7. IsFiniteSet(1 .. l.length) /\ Cardinality(1 .. l.length) = l.length
    BY <1>1, FS_Interval
  <1>8. ExistsBijection(In(l), 1 .. l.length)
    BY <1>3 DEF ExistsBijection
  <1>9. Cardinality(In(l)) = Cardinality(1 .. l.length)
    BY <1>6, <1>7, <1>8, FS_Bijection
  <1>10. QED
    BY <1>6, <1>7, <1>9

-----------------------------------------------------------------------------
(* Insertion. *)

\* Ranks with m right behind rank r.
RankedIn(p, m, r) ==
    [x \in Node \cup {End} |-> IF x = m THEN r + 1 ELSE IF p[x] <= r THEN p[x] ELSE p[x] + 1]

\* k is l with m inserted at height h: u[i] is the node in front of m on level i, q
\* the new ranks.
InsertedAs(l, k, q, r, score, m, h, u) ==
    /\ k.score = [l.score EXCEPT ![m] = score]
    /\ k.height = [l.height EXCEPT ![m] = h]
    /\ k.level = (IF h > l.level THEN h ELSE l.level)
    /\ k.length = l.length + 1
    /\ k.forward \in [Levels -> [Node -> Member \cup {End}]]
    /\ k.span \in [Levels -> [Node -> Int]]
    /\ \A i \in Levels : \A x \in Node :
          /\ k.forward[i][x] =
                IF i > h THEN l.forward[i][x]
                ELSE IF x = u[i] THEN m
                ELSE IF x = m THEN l.forward[i][u[i]] ELSE l.forward[i][x]
          /\ (x = u[i] /\ i <= h) => k.span[i][x] = q[m] - q[x]
          /\ (x = m /\ i <= h) => k.span[i][x] = q[l.forward[i][u[i]]] - q[m]
          /\ (x # u[i] /\ (x = m => i > h)) => k.span[i][x] = l.span[i][x]
          /\ (x = u[i] /\ i > h /\ i <= l.level) => k.span[i][x] = l.span[i][x] + 1
          /\ (i > h /\ i > l.level) => k.span[i][x] = l.span[i][x]

\* What InsertNew writes, with the places the search found given as u.
LEMMA InsertedRight ==
  ASSUME NEW l, NEW p, Sound(l, p), NEW score \in Int, NEW m \in Member \ In(l), NEW h \in Levels
  PROVE  \E u, r, q :
            /\ r \in 0 .. l.length /\ q = RankedIn(p, m, r)
            /\ \A x \in In(l) : Less(l, x, score, m) <=> p[x] <= r
            /\ \A i \in Levels : Cut(l, p, r, i, u[i]) /\ u[i] \in Node /\ u[i] # m
            /\ InsertedAs(l, Inserted(l, score, m, h), q, r, score, m, h, u)
  <1>1. ListType(l) /\ Ranked(l, p) /\ Linked(l, p) /\ Spanned(l, p)
    BY DEF Sound
  <1>2. PICK k : k = Inserted(l, score, m, h)
    OBVIOUS
  <1>3. PICK u : u = [i \in Levels |-> At(l, score, m, i)]
    OBVIOUS
  <1>4. PICK r : r = Rest(l, score, m)
    OBVIOUS
  <1>5. PICK q : q = RankedIn(p, m, r)
    OBVIOUS
  <1>6. PICK path : path = Find(l, score, m)
    OBVIOUS
  <1>7. m \in Member /\ m \notin In(l) /\ m # Header /\ m # End /\ m \in Node
    BY Nodes
  <1>8. /\ r \in 0 .. l.length
        /\ \A x \in In(l) : Less(l, x, score, m) <=> p[x] <= r
        /\ \A i \in 1 .. l.level : path[i].rank = p[path[i].at]
        /\ \A i \in Levels : Cut(l, p, r, i, At(l, score, m, i))
    BY <1>4, <1>6, <1>7, FindRight
  <1>9. ASSUME NEW i \in Levels
        PROVE  Cut(l, p, r, i, u[i]) /\ u[i] \in Node /\ u[i] # m /\ u[i] \in Level(l, i)
    <2>1. Cut(l, p, r, i, u[i])
      BY <1>3, <1>8
    <2>2. u[i] \in Level(l, i)
      BY <2>1 DEF Cut
    <2>3. u[i] \in Node /\ u[i] \in {Header} \cup In(l)
      BY <1>1, <2>2, LevelsRight
    <2>4. QED
      BY <1>7, <2>1, <2>2, <2>3
  <1>10. DEFINE at(i) == IF i <= l.level THEN path[i].at ELSE Header
                rank(i) == IF i <= l.level THEN path[i].rank ELSE 0
                span(i) == IF i <= l.level THEN l.span[i][at(i)] ELSE l.length + 1
                new == rank(1) + 1
  <1>11. k = [score |-> [l.score EXCEPT ![m] = score],
         height |-> [l.height EXCEPT ![m] = h],
         forward |-> [i \in Levels |->
             IF i > h THEN l.forward[i]
             ELSE [l.forward[i] EXCEPT ![m] = l.forward[i][at(i)], ![at(i)] = m]],
         span |-> [i \in Levels |->
             IF i <= h
             THEN [l.span[i] EXCEPT ![m] = rank(i) + span(i) + 1 - new,
                                    ![at(i)] = new - rank(i)]
             ELSE IF i <= l.level THEN [l.span[i] EXCEPT ![at(i)] = @ + 1]
             ELSE l.span[i]],
         level |-> IF h > l.level THEN h ELSE l.level,
         length |-> l.length + 1]
    BY <1>2, <1>6, Zenon DEF Inserted
  <1>12. 1 <= l.level /\ 1 \in 1 .. l.level /\ new = r + 1
    <2>1. 1 \in 1 .. l.level /\ 1 <= l.level
      BY <1>1, LevelsInUse, Nodes
    <2>2. rank(1) = r
      BY <1>4, <1>6, <2>1 DEF Rest
    <2>3. QED
      BY <2>1, <2>2
  <1>13. ASSUME NEW i \in Levels
         PROVE  /\ at(i) = u[i] /\ rank(i) = p[u[i]]
                /\ rank(i) + span(i) = p[l.forward[i][u[i]]]
    <2>1. u[i] \in Level(l, i)
      BY <1>9
    <2>2. at(i) = u[i]
      BY <1>3, <1>6 DEF At
    <2>3. CASE i <= l.level
      <3>1. i \in 1 .. l.level
        BY <1>1, <2>3, LevelsInUse
      <3>2. rank(i) = p[u[i]]
        BY <1>8, <2>2, <2>3, <3>1
      <3>3. span(i) = p[l.forward[i][u[i]]] - p[u[i]]
        BY <1>1, <2>1, <2>2, <2>3, <3>1 DEF Spanned
      <3>4. Follows(l, p, i, u[i], l.forward[i][u[i]])
        BY <1>1, <2>1 DEF Linked
      <3>5. p[u[i]] \in Nat /\ p[l.forward[i][u[i]]] \in Nat
        <4>1. Level(l, i) \cup {End} \subseteq In(l) \cup {Header, End}
          BY <1>1, LevelsRight
        <4>2. QED
          BY <1>1, <2>1, <3>4, <4>1, RanksRight DEF Follows
      <3> HIDE DEF rank, span
      <3>6. QED
        BY <2>2, <3>2, <3>3, <3>5
    <2>4. CASE ~(i <= l.level)
      <3>1. rank(i) = 0 /\ span(i) = l.length + 1 /\ u[i] = Header
        BY <2>2, <2>4
      <3>2. Cut(l, p, r, i, Header) /\ l.forward[i][Header] = End
        <4>1. Cut(l, p, r, i, Header)
          BY <1>9, <3>1
        <4>2. i \in Nat /\ l.level \in Nat /\ \A x \in Member : l.height[x] \in Nat /\ l.height[x] <= l.level
          BY <1>1, LevelsInUse, Nodes DEF ListType, Sound, Topped
        <4>3. \A x \in Member : ~(l.height[x] >= i)
          BY <2>4, <4>2
        <4>4. Level(l, i) = {Header}
          BY <4>3 DEF Level
        <4>5. Follows(l, p, i, Header, l.forward[i][Header])
          BY <1>1, <4>4 DEF Linked
        <4>6. p[Header] = 0
          BY <1>1 DEF Ranked
        <4>7. QED
          BY <4>1, <4>4, <4>5, <4>6 DEF Follows
      <3>3. p[Header] = 0 /\ p[End] = l.length + 1 /\ l.length \in Nat
        BY <1>1 DEF Ranked, ListType
      <3> HIDE DEF rank, span
      <3>4. QED
        BY <2>2, <3>1, <3>2, <3>3
    <2>5. QED
      BY <2>3, <2>4
  <1> HIDE DEF at, rank, span, new
  <1>14. /\ k.score = [l.score EXCEPT ![m] = score] /\ k.height = [l.height EXCEPT ![m] = h]
         /\ k.level = (IF h > l.level THEN h ELSE l.level) /\ k.length = l.length + 1
    BY <1>11
  <1>15. ASSUME NEW i \in Levels
         PROVE  /\ k.forward[i] = IF i > h THEN l.forward[i]
                     ELSE [l.forward[i] EXCEPT ![m] = l.forward[i][at(i)], ![at(i)] = m]
                /\ k.span[i] = IF i <= h
                     THEN [l.span[i] EXCEPT ![m] = rank(i) + span(i) + 1 - new, ![at(i)] = new - rank(i)]
                     ELSE IF i <= l.level THEN [l.span[i] EXCEPT ![at(i)] = @ + 1]
                     ELSE l.span[i]
    BY <1>11
  <1>16. ASSUME NEW i \in Levels
         PROVE  /\ k.forward[i] \in [Node -> Member \cup {End}]
                /\ k.span[i] \in [Node -> Int]
                /\ \A x \in Node : k.forward[i][x] =
                      IF i > h THEN l.forward[i][x]
                      ELSE IF x = u[i] THEN m
                      ELSE IF x = m THEN l.forward[i][u[i]] ELSE l.forward[i][x]
                /\ \A x \in Node : k.span[i][x] =
                      IF i <= h
                      THEN IF x = u[i] THEN r + 1 - p[u[i]]
                           ELSE IF x = m THEN p[l.forward[i][u[i]]] + 1 - (r + 1)
                           ELSE l.span[i][x]
                      ELSE IF i <= l.level /\ x = u[i] THEN l.span[i][x] + 1
                      ELSE l.span[i][x]
    <2>1. /\ l.forward[i] \in [Node -> Member \cup {End}] /\ l.span[i] \in [Node -> Int]
          /\ u[i] \in Node /\ u[i] # m /\ m \in Node /\ m \in Member
      BY <1>1, <1>7, <1>9 DEF ListType
    <2>3. p[u[i]] \in Int /\ p[l.forward[i][u[i]]] \in Int /\ r \in Int
      <3>1. u[i] \in Node \cup {End} /\ l.forward[i][u[i]] \in Node \cup {End}
        BY <2>1, Nodes
      <3>2. p \in [Node \cup {End} -> Nat]
        BY <1>1 DEF Ranked
      <3>3. QED
        BY <1>8, <3>1, <3>2
    <2>4. PICK a, b, c : a = rank(i) + span(i) + 1 - new /\ b = new - rank(i) /\ c = at(i)
      OBVIOUS
    <2>41. a = p[l.forward[i][u[i]]] + 1 - (r + 1) /\ b = r + 1 - p[u[i]] /\ c = u[i]
      <3>1. PICK d, e, f : d = rank(i) + span(i) /\ e = new /\ f = rank(i)
        OBVIOUS
      <3>2. d = p[l.forward[i][u[i]]] /\ e = r + 1 /\ f = p[u[i]] /\ c = u[i]
        BY <1>12, <1>13, <2>4, <3>1
      <3>3. a = d + 1 - e /\ b = e - f
        BY <2>4, <3>1
      <3>4. QED
        BY <2>3, <3>2, <3>3
    <2>5. a \in Int /\ b \in Int
      BY <2>3, <2>41
    <2>6. PICK v : v = l.forward[i][c]
      OBVIOUS
    <2>7. /\ k.forward[i] = IF i > h THEN l.forward[i] ELSE [l.forward[i] EXCEPT ![m] = v, ![c] = m]
          /\ k.span[i] = IF i <= h THEN [l.span[i] EXCEPT ![m] = a, ![c] = b]
                     ELSE IF i <= l.level THEN [l.span[i] EXCEPT ![c] = @ + 1]
                     ELSE l.span[i]
      BY <1>15, <2>4, <2>6
    <2>8. c \in Node /\ c # m /\ v \in Member \cup {End}
      BY <2>1, <2>41, <2>6
    <2>9. /\ k.forward[i] \in [Node -> Member \cup {End}]
          /\ \A x \in Node : k.forward[i][x] =
                      IF i > h THEN l.forward[i][x]
                      ELSE IF x = c THEN m
                      ELSE IF x = m THEN v ELSE l.forward[i][x]
      BY <2>1, <2>7, <2>8
    <2>10. /\ k.span[i] \in [Node -> Int]
           /\ \A x \in Node : k.span[i][x] =
                      IF i <= h
                      THEN IF x = c THEN b ELSE IF x = m THEN a ELSE l.span[i][x]
                      ELSE IF i <= l.level /\ x = c THEN l.span[i][x] + 1
                      ELSE l.span[i][x]
      BY <2>1, <2>5, <2>7, <2>8
    <2>11. QED
      BY <2>41, <2>6, <2>9, <2>10
  <1>17. k.forward \in [Levels -> [Node -> Member \cup {End}]] /\ k.span \in [Levels -> [Node -> Int]]
    <2>1. k.forward = [i \in Levels |-> k.forward[i]] /\ k.span = [i \in Levels |-> k.span[i]]
      BY <1>11
    <2>2. QED
      BY <1>16, <2>1
  <1>18. ASSUME NEW i \in Levels
         PROVE  q[m] = r + 1 /\ q[u[i]] = p[u[i]] /\ q[l.forward[i][u[i]]] = p[l.forward[i][u[i]]] + 1
    <2>1. p[u[i]] <= r /\ r < p[l.forward[i][u[i]]]
      BY <1>9 DEF Cut
    <2>2. u[i] \in Node \cup {End} /\ l.forward[i][u[i]] \in Node \cup {End} /\ m \in Node \cup {End}
      <3>1. u[i] \in Node /\ l.forward[i] \in [Node -> Member \cup {End}]
        BY <1>1, <1>9 DEF ListType
      <3>2. QED
        BY <1>7, <3>1, Nodes
    <2>3. l.forward[i][u[i]] # m
      <3>1. Follows(l, p, i, u[i], l.forward[i][u[i]])
        BY <1>1, <1>9 DEF Linked
      <3>2. Level(l, i) \subseteq {Header} \cup In(l)
        BY <1>1, LevelsRight
      <3>3. QED
        BY <1>7, <3>1, <3>2 DEF Follows
    <2>4. p[l.forward[i][u[i]]] \in Nat /\ r \in Nat
      BY <1>1, <1>8, <2>2 DEF Ranked, ListType
    <2>5. ~(p[l.forward[i][u[i]]] <= r)
      BY <2>1, <2>4
    <2>6. QED
      BY <1>5, <1>9, <2>1, <2>2, <2>3, <2>5 DEF RankedIn
  <1>20. ASSUME NEW i \in Levels, NEW x \in Node
         PROVE  /\ (x = u[i] /\ i <= h) => k.span[i][x] = q[m] - q[x]
                /\ (x = m /\ i <= h) => k.span[i][x] = q[l.forward[i][u[i]]] - q[m]
                /\ (x # u[i] /\ (x = m => i > h)) => k.span[i][x] = l.span[i][x]
                /\ (x = u[i] /\ i > h /\ i <= l.level) => k.span[i][x] = l.span[i][x] + 1
                /\ (i > h /\ i > l.level) => k.span[i][x] = l.span[i][x]
    <2>1. i \in Nat /\ h \in Nat /\ l.level \in Nat
      BY <1>1, Nodes, LevelsInUse
    <2>2. u[i] # m /\ q[m] = r + 1 /\ q[u[i]] = p[u[i]]
          /\ q[l.forward[i][u[i]]] = p[l.forward[i][u[i]]] + 1
      BY <1>9, <1>18
    <2>3. k.span[i][x] =
                      IF i <= h
                      THEN IF x = u[i] THEN r + 1 - p[u[i]]
                           ELSE IF x = m THEN p[l.forward[i][u[i]]] + 1 - (r + 1)
                           ELSE l.span[i][x]
                      ELSE IF i <= l.level /\ x = u[i] THEN l.span[i][x] + 1
                      ELSE l.span[i][x]
      BY <1>16
    <2>30. p[u[i]] \in Int /\ p[l.forward[i][u[i]]] \in Int /\ r \in Int
      <3>1. u[i] \in Node \cup {End} /\ l.forward[i][u[i]] \in Node \cup {End}
        <4>1. u[i] \in Node /\ l.forward[i] \in [Node -> Member \cup {End}]
          BY <1>1, <1>9 DEF ListType
        <4>2. QED
          BY <4>1, Nodes
      <3>2. p \in [Node \cup {End} -> Nat]
        BY <1>1 DEF Ranked
      <3>3. QED
        BY <1>8, <3>1, <3>2
    <2>4. CASE i <= h
      <3>1. ~(i > h)
        BY <2>1, <2>4
      <3>2. CASE x = u[i]
        <4>1. k.span[i][x] = r + 1 - p[u[i]] /\ x # m
          BY <2>2, <2>3, <2>4, <3>2
        <4>2. k.span[i][x] = q[m] - q[x]
          BY <2>2, <2>30, <3>2, <4>1
        <4>3. QED
          BY <3>1, <3>2, <4>1, <4>2
      <3>3. CASE x = m
        <4>1. k.span[i][x] = p[l.forward[i][u[i]]] + 1 - (r + 1) /\ x # u[i]
          BY <2>2, <2>3, <2>4, <3>3
        <4>2. k.span[i][x] = q[l.forward[i][u[i]]] - q[m]
          BY <2>2, <2>30, <4>1
        <4>3. QED
          BY <2>4, <3>1, <3>3, <4>1, <4>2
      <3>4. CASE x # u[i] /\ x # m
        BY <2>2, <2>3, <2>4, <3>1, <3>4
      <3>5. QED
        BY <3>2, <3>3, <3>4
    <2>5. CASE ~(i <= h)
      <3>1. i > h
        BY <2>1, <2>5
      <3>2. CASE x = u[i]
        BY <2>1, <2>2, <2>3, <2>5, <3>1, <3>2
      <3>3. CASE x # u[i]
        BY <2>2, <2>3, <2>5, <3>1, <3>3
      <3>4. QED
        BY <3>2, <3>3
    <2>6. QED
      BY <2>4, <2>5
  <1>21. InsertedAs(l, k, q, r, score, m, h, u)
    <2>1. ASSUME NEW i \in Levels, NEW x \in Node
          PROVE  k.forward[i][x] =
                IF i > h THEN l.forward[i][x]
                ELSE IF x = u[i] THEN m
                ELSE IF x = m THEN l.forward[i][u[i]] ELSE l.forward[i][x]
      BY <1>16
    <2>2. /\ k.score = [l.score EXCEPT ![m] = score]
          /\ k.height = [l.height EXCEPT ![m] = h]
          /\ k.level = (IF h > l.level THEN h ELSE l.level)
          /\ k.length = l.length + 1
          /\ k.forward \in [Levels -> [Node -> Member \cup {End}]]
          /\ k.span \in [Levels -> [Node -> Int]]
      BY <1>14, <1>17, Zenon
    <2>3. QED
      BY <1>20, <2>1, <2>2 DEF InsertedAs
  <1>22. QED
    BY <1>2, <1>5, <1>8, <1>9, <1>21

Insertion(l, p, k, q, r, score, m, h, u) ==
    /\ Sound(l, p) /\ score \in Int /\ m \in Member \ In(l) /\ h \in Levels
    /\ r \in 0 .. l.length /\ q = RankedIn(p, m, r)
    /\ \A x \in In(l) : Less(l, x, score, m) <=> p[x] <= r
    /\ \A i \in Levels : Cut(l, p, r, i, u[i]) /\ u[i] \in Node /\ u[i] # m
    /\ InsertedAs(l, k, q, r, score, m, h, u)

\* Insertion adds the member, on the levels up to its height.
LEMMA InsertedMembers ==
  ASSUME NEW l, NEW p, NEW k, NEW q, NEW r, NEW score, NEW m, NEW h, NEW u,
         Insertion(l, p, k, q, r, score, m, h, u)
  PROVE  /\ ListType(k)
         /\ In(k) = In(l) \cup {m}
         /\ \A i \in Levels : Level(k, i) = Level(l, i) \cup {x \in {m} : i <= h}
         /\ \A x \in In(l) : k.score[x] = l.score[x] /\ x # m
         /\ k.score[m] = score /\ k.length = l.length + 1
  <1>1. ListType(l) /\ score \in Int /\ m \in Member /\ m \notin In(l) /\ h \in Levels
    BY DEF Insertion, Sound
  <1>2. /\ k.score = [l.score EXCEPT ![m] = score]
        /\ k.height = [l.height EXCEPT ![m] = h]
        /\ k.level = (IF h > l.level THEN h ELSE l.level)
        /\ k.length = l.length + 1
        /\ k.forward \in [Levels -> [Node -> Member \cup {End}]]
        /\ k.span \in [Levels -> [Node -> Int]]
    BY DEF Insertion, InsertedAs
  <1>3. /\ l.score \in [Member -> Int] /\ l.height \in [Member -> 0 .. MaxLevel]
        /\ l.level \in Levels /\ l.length \in Nat
    BY <1>1 DEF ListType
  <1>4. h \in 0 .. MaxLevel /\ h > 0 /\ h \in Nat
    BY <1>1, Nodes DEF Levels
  <1>5. ListType(k)
    <2>1. k.score \in [Member -> Int] /\ k.height \in [Member -> 0 .. MaxLevel]
      BY <1>1, <1>2, <1>3, <1>4
    <2>2. k.level \in Levels /\ k.length \in Nat
      BY <1>1, <1>2, <1>3
    <2>3. QED
      BY <1>2, <2>1, <2>2 DEF ListType
  <1>6. \A x \in Member : k.height[x] = IF x = m THEN h ELSE l.height[x]
    BY <1>1, <1>2, <1>3
  <1>7. In(k) = In(l) \cup {m}
    <2>1. ASSUME NEW x PROVE x \in In(k) <=> x \in In(l) \cup {m}
      BY <1>1, <1>4, <1>6 DEF In
    <2>2. QED
      BY <2>1
  <1>8. ASSUME NEW i \in Levels PROVE Level(k, i) = Level(l, i) \cup {x \in {m} : i <= h}
    <2>0. l.height[m] = 0
      <3>1. l.height[m] \in Nat /\ ~(l.height[m] > 0)
        BY <1>1, <1>3, Nodes DEF In
      <3>2. QED
        BY <3>1
    <2>1. i \in Nat /\ i > 0
      BY Nodes
    <2>2. ~(l.height[m] >= i) /\ (h >= i <=> i <= h)
      BY <1>4, <2>0, <2>1
    <2>3. \A x : x \in Level(l, i) <=> x = Header \/ (x \in Member /\ l.height[x] >= i)
      BY DEF Level
    <2>4. \A x : x \in Level(k, i) <=> x = Header \/ (x \in Member /\ k.height[x] >= i)
      BY DEF Level
    <2>5. ASSUME NEW x PROVE x \in Level(k, i) <=> x \in Level(l, i) \/ (x = m /\ i <= h)
      BY <1>1, <1>6, <2>2, <2>3, <2>4
    <2>6. QED
      BY <2>5
  <1>9. \A x \in In(l) : k.score[x] = l.score[x] /\ x # m
    <2>1. In(l) \subseteq Member
      BY DEF In
    <2>2. QED
      BY <1>1, <1>2, <1>3, <2>1
  <1>10. QED
    BY <1>1, <1>2, <1>3, <1>5, <1>7, <1>8, <1>9

\* The new ranks: those behind the place move up by one.
LEMMA InsertedRanks ==
  ASSUME NEW l, NEW p, NEW k, NEW q, NEW r, NEW score, NEW m, NEW h, NEW u,
         Insertion(l, p, k, q, r, score, m, h, u)
  PROVE  /\ q \in [Node \cup {End} -> Nat]
         /\ q[m] = r + 1 /\ r \in 0 .. l.length
         /\ \A x \in In(l) \cup {Header, End} :
               /\ x # m /\ p[x] \in Nat /\ q[x] \in Nat
               /\ q[x] = IF p[x] <= r THEN p[x] ELSE p[x] + 1
  <1>1. /\ ListType(l) /\ Ranked(l, p) /\ m \in Member /\ m \notin In(l) /\ r \in 0 .. l.length
        /\ q = [x \in Node \cup {End} |-> IF x = m THEN r + 1 ELSE IF p[x] <= r THEN p[x] ELSE p[x] + 1]
    BY DEF Insertion, Sound, RankedIn
  <1>2. m # Header /\ m # End /\ m \in Node \cup {End} /\ In(l) \cup {Header, End} \subseteq Node \cup {End}
    BY <1>1, Nodes DEF In
  <1>3. p \in [Node \cup {End} -> Nat] /\ r \in Nat
    BY <1>1 DEF Ranked, ListType
  <1>4. q \in [Node \cup {End} -> Nat]
    BY <1>1, <1>3
  <1>5. QED
    BY <1>1, <1>2, <1>3, <1>4

\* The new ranks are ranks of the new list.
LEMMA InsertedRanked ==
  ASSUME NEW l, NEW p, NEW k, NEW q, NEW r, NEW score, NEW m, NEW h, NEW u,
         Insertion(l, p, k, q, r, score, m, h, u)
  PROVE  Ranked(k, q)
  <1>1. /\ ListType(l) /\ Ranked(l, p) /\ score \in Int /\ m \in Member /\ m \notin In(l)
        /\ \A x \in In(l) : Less(l, x, score, m) <=> p[x] <= r
    BY DEF Insertion, Sound
  <1>2. /\ In(k) = In(l) \cup {m} /\ k.length = l.length + 1 /\ k.score[m] = score
        /\ \A x \in In(l) : k.score[x] = l.score[x] /\ x # m
    BY InsertedMembers
  <1>3. /\ q \in [Node \cup {End} -> Nat]
        /\ q[m] = r + 1 /\ r \in 0 .. l.length
        /\ \A x \in In(l) \cup {Header, End} :
              /\ x # m /\ p[x] \in Nat /\ q[x] \in Nat
              /\ q[x] = IF p[x] <= r THEN p[x] ELSE p[x] + 1
    <2>1. q \in [Node \cup {End} -> Nat] /\ q[m] = r + 1 /\ r \in 0 .. l.length
      BY InsertedRanks
    <2>2. \A x \in In(l) \cup {Header, End} :
              /\ x # m /\ p[x] \in Nat /\ q[x] \in Nat
              /\ q[x] = IF p[x] <= r THEN p[x] ELSE p[x] + 1
      BY InsertedRanks
    <2>3. QED
      BY <2>1, <2>2, Zenon
  <1>4. /\ p[Header] = 0 /\ p[End] = l.length + 1 /\ l.length \in Nat
        /\ \A x \in In(l) : p[x] \in 1 .. l.length
        /\ \A n \in 1 .. l.length : \E x \in In(l) : p[x] = n
        /\ \A a, b \in In(l) : Before(l, a, b) <=> p[a] < p[b]
    BY <1>1 DEF Ranked, ListType
  <1>5. q[Header] = 0 /\ q[End] = k.length + 1
    BY <1>2, <1>3, <1>4
  <1>6. ASSUME NEW x \in In(k) PROVE q[x] \in 1 .. k.length
    <2>1. CASE x = m
      BY <1>2, <1>3, <1>4, <2>1
    <2>2. CASE x \in In(l)
      <3>1. p[x] \in 1 .. l.length /\ q[x] = IF p[x] <= r THEN p[x] ELSE p[x] + 1
        BY <1>3, <1>4, <2>2
      <3>2. QED
        BY <1>2, <1>4, <3>1
    <2>3. QED
      BY <1>2, <2>1, <2>2
  <1>7. ASSUME NEW n \in 1 .. k.length PROVE \E x \in In(k) : q[x] = n
    <2>1. CASE n = r + 1
      BY <1>2, <1>3, <2>1
    <2>2. CASE n <= r
      <3>1. PICK x \in In(l) : p[x] = n
        BY <1>2, <1>3, <1>4, <2>2
      <3>2. QED
        BY <1>2, <1>3, <2>2, <3>1
    <2>3. CASE n > r + 1
      <3>1. n - 1 \in 1 .. l.length
        BY <1>2, <1>3, <1>4, <2>3
      <3>2. PICK x \in In(l) : p[x] = n - 1
        BY <1>4, <3>1
      <3>3. q[x] = n
        BY <1>3, <1>4, <2>3, <3>1, <3>2
      <3>4. QED
        BY <1>2, <3>3
    <2>4. QED
      BY <1>2, <1>3, <1>4, <2>1, <2>2, <2>3
  <1>8. ASSUME NEW a \in In(k), NEW b \in In(k) PROVE Before(k, a, b) <=> q[a] < q[b]
    <2>1. CASE a \in In(l) /\ b \in In(l)
      <3>1. Before(k, a, b) <=> Before(l, a, b)
        BY <1>2, <2>1 DEF Before, Less
      <3>2. Before(l, a, b) <=> p[a] < p[b]
        BY <1>4, <2>1
      <3>3. /\ p[a] \in Nat /\ p[b] \in Nat
            /\ q[a] = IF p[a] <= r THEN p[a] ELSE p[a] + 1
            /\ q[b] = IF p[b] <= r THEN p[b] ELSE p[b] + 1
        BY <1>3, <2>1
      <3>4. r \in Nat
        BY <1>3, <1>4
      <3>5. QED
        BY <3>1, <3>2, <3>3, <3>4
    <2>2. CASE a \in In(l) /\ b = m
      <3>1. Before(k, a, b) <=> Less(l, a, score, m)
        BY <1>2, <2>2 DEF Before, Less
      <3>2. Less(l, a, score, m) <=> p[a] <= r
        BY <1>1, <2>2
      <3>3. p[a] \in Nat /\ q[a] = (IF p[a] <= r THEN p[a] ELSE p[a] + 1) /\ r \in Nat
        BY <1>3, <1>4, <2>2
      <3>4. QED
        BY <1>3, <2>2, <3>1, <3>2, <3>3
    <2>3. CASE a = m /\ b \in In(l)
      <3>1. b # m /\ b \in Member /\ b \in Nat /\ m \in Nat /\ l.score[b] \in Int
        BY <1>1, <1>2, <2>3, Nodes DEF In, ListType
      <3>2. Before(k, a, b) <=> ~Less(l, b, score, m)
        BY <1>1, <1>2, <2>3, <3>1 DEF Before, Less
      <3>3. Less(l, b, score, m) <=> p[b] <= r
        BY <1>1, <2>3
      <3>4. p[b] \in Nat /\ q[b] = (IF p[b] <= r THEN p[b] ELSE p[b] + 1) /\ r \in Nat
        BY <1>3, <1>4, <2>3
      <3>5. QED
        BY <1>3, <2>3, <3>2, <3>3, <3>4
    <2>4. CASE a = m /\ b = m
      <3>1. m \in Nat
        BY <1>1, Nodes
      <3>2. ~Before(k, a, b)
        BY <1>1, <1>2, <2>4, <3>1 DEF Before, Less
      <3>3. ~(q[a] < q[b])
        BY <1>3, <1>4, <2>4
      <3>4. QED
        BY <3>2, <3>3
    <2>5. QED
      BY <1>2, <2>1, <2>2, <2>3, <2>4
  <1>9. QED
    BY <1>3, <1>5, <1>6, <1>7, <1>8 DEF Ranked

\* A link that does not pass over the new member.
LEMMA InsertedLink ==
  ASSUME NEW l, NEW p, NEW k, NEW q, NEW r, NEW score, NEW m, NEW h, NEW u,
         Insertion(l, p, k, q, r, score, m, h, u), NEW i \in Levels
  PROVE  /\ Level(l, i) \cup {End} \subseteq In(l) \cup {Header, End} /\ m \notin Level(l, i)
         /\ \A x \in Level(l, i) : Follows(l, p, i, x, l.forward[i][x])
         /\ u[i] \in Level(l, i) /\ p[u[i]] <= r /\ r < p[l.forward[i][u[i]]]
         /\ \A x \in Level(l, i) : x # u[i] => (p[x] <= r <=> p[l.forward[i][x]] <= r)
         /\ m \in Node /\ m \in Member /\ r \in Nat /\ i \in Nat /\ h \in Nat
  <1>1. /\ Sound(l, p) /\ ListType(l) /\ Linked(l, p) /\ Cut(l, p, r, i, u[i]) /\ m \in Member \ In(l)
        /\ r \in 0 .. l.length /\ h \in Levels
    BY DEF Insertion, Sound
  <1>2. r \in Nat
    BY <1>1 DEF ListType
  <1>3. Level(l, i) \subseteq {Header} \cup In(l)
    BY <1>1, LevelsRight
  <1>4. m \in Node /\ m # Header /\ m # End /\ i \in Nat /\ h \in Nat
    BY <1>1, Nodes
  <1>5. \A x \in Level(l, i) : x # u[i] => (p[x] <= r <=> p[l.forward[i][x]] <= r)
    BY <1>1, <1>2, CutOnce
  <1>6. QED
    BY <1>1, <1>2, <1>3, <1>4, <1>5 DEF Cut, Linked

\* On every level the links of the new list lead to the next node.
LEMMA InsertedLinked ==
  ASSUME NEW l, NEW p, NEW k, NEW q, NEW r, NEW score, NEW m, NEW h, NEW u,
         Insertion(l, p, k, q, r, score, m, h, u)
  PROVE  Linked(k, q)
  <1>1. ASSUME NEW i \in Levels
        PROVE  /\ \A x \in Level(k, i) : Follows(k, q, i, x, k.forward[i][x])
               /\ \A x \in Node \ Level(k, i) : k.forward[i][x] = End
    <2>1. /\ Level(l, i) \cup {End} \subseteq In(l) \cup {Header, End} /\ m \notin Level(l, i)
          /\ \A x \in Level(l, i) : Follows(l, p, i, x, l.forward[i][x])
          /\ u[i] \in Level(l, i) /\ p[u[i]] <= r /\ r < p[l.forward[i][u[i]]]
          /\ \A x \in Level(l, i) : x # u[i] => (p[x] <= r <=> p[l.forward[i][x]] <= r)
          /\ m \in Node /\ m \in Member /\ r \in Nat /\ i \in Nat /\ h \in Nat
      BY InsertedLink
    <2>2. Level(k, i) = Level(l, i) \cup {x \in {m} : i <= h}
      BY InsertedMembers
    <2>3. /\ q[m] = r + 1
          /\ \A x \in In(l) \cup {Header, End} :
                /\ x # m /\ p[x] \in Nat /\ q[x] \in Nat
                /\ q[x] = IF p[x] <= r THEN p[x] ELSE p[x] + 1
      BY InsertedRanks
    <2>4. \A x \in Node : k.forward[i][x] =
                IF i > h THEN l.forward[i][x]
                ELSE IF x = u[i] THEN m
                ELSE IF x = m THEN l.forward[i][u[i]] ELSE l.forward[i][x]
      BY DEF Insertion, InsertedAs
    <2>5. ListType(l) /\ \A x \in Node \ Level(l, i) : l.forward[i][x] = End
      BY DEF Insertion, Sound, Linked
    <2>6. Level(l, i) \subseteq Node
      BY <2>5, LevelsRight
    <2>7. PICK v : v = l.forward[i][u[i]]
      OBVIOUS
    <2>8. v \in Level(l, i) \cup {End} /\ \A z \in Level(l, i) : p[z] <= p[u[i]] \/ p[v] <= p[z]
      BY <2>1, <2>7 DEF Follows
    <2>9. ASSUME NEW x \in Level(l, i), NEW y, y = l.forward[i][x], i > h \/ x # u[i]
          PROVE  Follows(k, q, i, x, y) /\ k.forward[i][x] = y
      <3>1. y \in Level(l, i) \cup {End} /\ p[x] < p[y] /\ \A z \in Level(l, i) : p[z] <= p[x] \/ p[y] <= p[z]
        BY <2>1, <2>9 DEF Follows
      <3>2. k.forward[i][x] = y /\ y \in Level(k, i) \cup {End}
        BY <2>1, <2>2, <2>4, <2>6, <2>9, <3>1
      <3>3. ASSUME NEW a \in Level(l, i) \cup {End}, NEW b \in Level(l, i) \cup {End}
            PROVE  (p[a] <= p[b] => q[a] <= q[b]) /\ (p[a] < p[b] => q[a] < q[b])
        <4>1. /\ p[a] \in Nat /\ p[b] \in Nat
              /\ q[a] = IF p[a] <= r THEN p[a] ELSE p[a] + 1
              /\ q[b] = IF p[b] <= r THEN p[b] ELSE p[b] + 1
          BY <2>1, <2>3
        <4>2. QED
          BY <2>1, <4>1
      <3>4. q[x] < q[y]
        BY <3>1, <3>3
      <3>5. ASSUME NEW z \in Level(k, i) PROVE q[z] <= q[x] \/ q[y] <= q[z]
        <4>1. CASE z \in Level(l, i)
          BY <3>1, <3>3, <4>1
        <4>2. CASE z = m /\ i <= h
          <5>1. x # u[i]
            BY <2>1, <2>9, <4>2
          <5>2. p[x] <= r <=> p[y] <= r
            BY <2>1, <2>9, <5>1
          <5>3. /\ p[x] \in Nat /\ p[y] \in Nat
                /\ q[x] = IF p[x] <= r THEN p[x] ELSE p[x] + 1
                /\ q[y] = IF p[y] <= r THEN p[y] ELSE p[y] + 1
            BY <2>1, <2>3, <3>1
          <5>4. QED
            BY <2>1, <2>3, <4>2, <5>2, <5>3
        <4>3. QED
          BY <2>2, <4>1, <4>2
      <3>6. QED
        BY <3>2, <3>4, <3>5 DEF Follows
    <2>10. /\ p[u[i]] \in Nat /\ p[v] \in Nat /\ q[u[i]] = p[u[i]] /\ q[v] = p[v] + 1 /\ r < p[v]
      <3>1. /\ p[u[i]] \in Nat /\ p[v] \in Nat /\ r < p[v] /\ p[u[i]] <= r
            /\ q[u[i]] = IF p[u[i]] <= r THEN p[u[i]] ELSE p[u[i]] + 1
            /\ q[v] = IF p[v] <= r THEN p[v] ELSE p[v] + 1
        BY <2>1, <2>3, <2>7, <2>8
      <3>2. QED
        BY <2>1, <3>1
    <2>11. ASSUME i <= h, NEW z \in Level(k, i)
           PROVE  (q[z] <= q[u[i]] \/ q[m] <= q[z]) /\ (q[z] <= q[m] \/ q[v] <= q[z])
      <3>1. CASE z = m
        BY <2>1, <2>3, <3>1
      <3>2. CASE z # m
        <4>1. z \in Level(l, i) /\ (p[z] <= p[u[i]] \/ p[v] <= p[z])
          BY <2>2, <2>8, <3>2
        <4>2. p[z] \in Nat /\ q[z] = (IF p[z] <= r THEN p[z] ELSE p[z] + 1)
          BY <2>1, <2>3, <4>1
        <4>3. QED
          BY <2>1, <2>3, <2>10, <4>1, <4>2
      <3>3. QED
        BY <3>1, <3>2
    <2>12. ASSUME i <= h PROVE Follows(k, q, i, u[i], m) /\ Follows(k, q, i, m, v)
      <3>1. m \in Level(k, i) /\ v \in Level(k, i) \cup {End}
        BY <2>2, <2>8, <2>12
      <3>2. q[u[i]] < q[m] /\ q[m] < q[v]
        BY <2>1, <2>3, <2>10
      <3>3. QED
        BY <2>11, <2>12, <3>1, <3>2 DEF Follows
    <2>13. ASSUME NEW x \in Level(k, i) PROVE Follows(k, q, i, x, k.forward[i][x])
      <3>1. CASE x \in Level(l, i) /\ (i > h \/ x # u[i])
        BY <2>9, <3>1
      <3>2. CASE x = u[i] /\ ~(i > h)
        <4>1. k.forward[i][x] = m /\ i <= h
          BY <2>1, <2>4, <2>6, <3>2
        <4>2. QED
          BY <2>12, <3>2, <4>1
      <3>3. CASE x = m /\ i <= h
        <4>1. k.forward[i][x] = v
          BY <2>1, <2>4, <2>7, <3>3
        <4>2. QED
          BY <2>12, <3>3, <4>1
      <3>4. QED
        BY <2>1, <2>2, <3>1, <3>2, <3>3
    <2>14. ASSUME NEW x \in Node \ Level(k, i) PROVE k.forward[i][x] = End
      <3>1. x \notin Level(l, i) /\ x # u[i] /\ (x = m => i > h) /\ x \in Node
        BY <2>1, <2>2, <2>14
      <3>2. QED
        BY <2>4, <2>5, <3>1
    <2>15. QED
      BY <2>13, <2>14
  <1>2. QED
    BY <1>1 DEF Linked

\* The spans of the new list are differences of the new ranks.
LEMMA InsertedSpanned ==
  ASSUME NEW l, NEW p, NEW k, NEW q, NEW r, NEW score, NEW m, NEW h, NEW u,
         Insertion(l, p, k, q, r, score, m, h, u)
  PROVE  Spanned(k, q)
  <1>1. ASSUME NEW i \in 1 .. k.level, NEW x \in Level(k, i)
        PROVE  k.span[i][x] = q[k.forward[i][x]] - q[x]
    <2>0. ListType(k) /\ ListType(l) /\ Spanned(l, p) /\ Topped(l) /\ h \in Levels
      BY InsertedMembers DEF Insertion, Sound
    <2>1. i \in Levels /\ i \in Nat /\ l.level \in Nat /\ h \in Nat
      BY <2>0, LevelsInUse, Nodes
    <2>2. /\ Level(l, i) \cup {End} \subseteq In(l) \cup {Header, End} /\ m \notin Level(l, i)
          /\ \A z \in Level(l, i) : Follows(l, p, i, z, l.forward[i][z])
          /\ u[i] \in Level(l, i) /\ p[u[i]] <= r /\ r < p[l.forward[i][u[i]]]
          /\ \A z \in Level(l, i) : z # u[i] => (p[z] <= r <=> p[l.forward[i][z]] <= r)
          /\ m \in Node /\ m \in Member /\ r \in Nat /\ i \in Nat /\ h \in Nat
      BY <2>1, InsertedLink
    <2>3. Level(k, i) = Level(l, i) \cup {z \in {m} : i <= h}
      BY <2>1, InsertedMembers
    <2>4. /\ q[m] = r + 1
          /\ \A z \in In(l) \cup {Header, End} :
                /\ z # m /\ p[z] \in Nat /\ q[z] \in Nat
                /\ q[z] = IF p[z] <= r THEN p[z] ELSE p[z] + 1
      BY InsertedRanks
    <2>5. /\ k.level = (IF h > l.level THEN h ELSE l.level)
          /\ \A z \in Node :
                /\ k.forward[i][z] =
                      IF i > h THEN l.forward[i][z]
                      ELSE IF z = u[i] THEN m
                      ELSE IF z = m THEN l.forward[i][u[i]] ELSE l.forward[i][z]
                /\ (z = u[i] /\ i <= h) => k.span[i][z] = q[m] - q[z]
                /\ (z = m /\ i <= h) => k.span[i][z] = q[l.forward[i][u[i]]] - q[m]
                /\ (z # u[i] /\ (z = m => i > h)) => k.span[i][z] = l.span[i][z]
                /\ (z = u[i] /\ i > h /\ i <= l.level) => k.span[i][z] = l.span[i][z] + 1
      BY <2>1 DEF Insertion, InsertedAs
    <2>6. x \in Node
      BY <2>0, <2>1, <2>2, <2>3, LevelsRight
    <2>7. i <= l.level \/ i <= h
      BY <2>1, <2>5
    <2>8. i <= l.level => i \in 1 .. l.level
      BY <2>0, <2>1, LevelsInUse
    <2>9. CASE x = m /\ i <= h
      BY <2>2, <2>5, <2>6, <2>9
    <2>10. CASE x = u[i] /\ i <= h
      <3>1. k.span[i][x] = q[m] - q[x]
        BY <2>5, <2>6, <2>10
      <3>2. k.forward[i][x] = m
        BY <2>1, <2>5, <2>6, <2>10
      <3>3. QED
        BY <3>1, <3>2
    <2>11. CASE x \in Level(l, i) /\ ~(x = u[i] /\ i <= h)
      <3>1. PICK y : y = l.forward[i][x]
        OBVIOUS
      <3>2. /\ p[x] \in Nat /\ p[y] \in Nat
            /\ q[x] = IF p[x] <= r THEN p[x] ELSE p[x] + 1
            /\ q[y] = IF p[y] <= r THEN p[y] ELSE p[y] + 1
        <4>1. y \in Level(l, i) \cup {End}
          BY <2>2, <2>11, <3>1 DEF Follows
        <4>2. QED
          BY <2>2, <2>4, <2>11, <4>1
      <3>3. k.forward[i][x] = y
        BY <2>1, <2>2, <2>5, <2>6, <2>11, <3>1
      <3>4. i <= l.level
        <4>1. CASE x = u[i]
          BY <2>1, <2>7, <2>11, <4>1
        <4>2. CASE x # u[i] /\ ~(i <= l.level)
          <5>1. \A z \in Member : l.height[z] \in Nat /\ l.height[z] <= l.level
            BY <2>0, Nodes DEF ListType, Topped
          <5>2. \A z \in Member : ~(l.height[z] >= i)
            BY <2>1, <4>2, <5>1
          <5>3. Level(l, i) = {Header}
            BY <5>2 DEF Level
          <5>4. QED
            BY <2>2, <2>11, <4>2, <5>3
        <4>3. QED
          BY <4>1, <4>2
      <3>5. l.span[i][x] = p[y] - p[x]
        BY <2>8, <2>11, <3>1, <3>4, <2>0 DEF Spanned
      <3>6. CASE x = u[i]
        <4>1. i > h /\ ~(i <= h)
          BY <2>1, <2>11, <3>6
        <4>2. k.span[i][x] = l.span[i][x] + 1
          BY <2>5, <2>6, <3>4, <3>6, <4>1
        <4>3. q[x] = p[x] /\ q[y] = p[y] + 1
          BY <2>2, <3>1, <3>2, <3>6
        <4>4. QED
          BY <3>2, <3>3, <3>5, <4>2, <4>3
      <3>7. CASE x # u[i]
        <4>1. k.span[i][x] = l.span[i][x]
          BY <2>2, <2>5, <2>6, <2>11, <3>7
        <4>2. p[x] <= r <=> p[y] <= r
          BY <2>2, <2>11, <3>1, <3>7
        <4>3. q[y] - q[x] = p[y] - p[x]
          BY <3>2, <4>2
        <4>4. QED
          BY <3>3, <3>5, <4>1, <4>3
      <3>8. QED
        BY <3>6, <3>7
    <2>12. QED
      BY <2>2, <2>3, <2>9, <2>10, <2>11
  <1>2. QED
    BY <1>1 DEF Spanned

\* The level of the new list is its highest.
LEMMA InsertedTopped ==
  ASSUME NEW l, NEW p, NEW k, NEW q, NEW r, NEW score, NEW m, NEW h, NEW u,
         Insertion(l, p, k, q, r, score, m, h, u)
  PROVE  Topped(k)
  <1>1. ListType(l) /\ Topped(l) /\ m \in Member /\ m \notin In(l) /\ h \in Levels
    BY DEF Insertion, Sound
  <1>2. k.height = [l.height EXCEPT ![m] = h] /\ k.level = IF h > l.level THEN h ELSE l.level
    BY DEF Insertion, InsertedAs
  <1>3. /\ l.height \in [Member -> 0 .. MaxLevel] /\ l.level \in Nat /\ h \in Nat /\ h # 0
        /\ \A x \in Member : l.height[x] <= l.level /\ l.height[x] \in Nat
    BY <1>1, LevelsInUse, Nodes DEF ListType, Topped
  <1>4. \A x \in Member : k.height[x] = IF x = m THEN h ELSE l.height[x]
    BY <1>1, <1>2, <1>3
  <1>5. \A x \in Member : k.height[x] <= k.level
    BY <1>2, <1>3, <1>4
  <1>6. k.level = 1 \/ \E x \in Member : k.height[x] = k.level
    <2>1. CASE h > l.level
      BY <1>1, <1>2, <1>4, <2>1
    <2>2. CASE ~(h > l.level) /\ l.level = 1
      BY <1>2, <2>2
    <2>3. CASE ~(h > l.level) /\ l.level # 1
      <3>1. PICK x \in Member : l.height[x] = l.level
        BY <1>1, <2>3 DEF Topped
      <3>2. x # m
        <4>1. l.height[m] = 0
          BY <1>1, <1>3 DEF In
        <4>2. l.level # 0
          BY <1>1, Nodes DEF ListType
        <4>3. QED
          BY <3>1, <4>1, <4>2
      <3>3. QED
        BY <1>2, <1>4, <2>3, <3>1, <3>2
    <2>4. QED
      BY <2>1, <2>2, <2>3
  <1>7. QED
    BY <1>5, <1>6 DEF Topped

\* Spans are differences of ranks, and ranks go up to N + 1.
LEMMA SpansBounded ==
  ASSUME NEW k, NEW q, ListType(k), Ranked(k, q), Linked(k, q),
         NEW i \in Levels, NEW x \in Level(k, i)
  PROVE  q[k.forward[i][x]] - q[x] \in 0 .. N + 1
  <1>1. PICK y : y = k.forward[i][x]
    OBVIOUS
  <1>2. Level(k, i) \subseteq {Header} \cup In(k)
    BY LevelsRight
  <1>3. y \in Level(k, i) \cup {End} /\ q[x] < q[y]
    BY <1>1 DEF Linked, Follows
  <1>4. /\ \A z \in In(k) \cup {Header} : q[z] \in 0 .. k.length
        /\ q[End] = k.length + 1 /\ k.length \in Nat
    BY RanksRight
  <1>5. k.length <= N /\ N \in Nat
    BY LengthRight, Nodes
  <1>6. q[x] \in 0 .. k.length /\ q[y] \in 0 .. k.length + 1
    BY <1>2, <1>3, <1>4
  <1>7. QED
    BY <1>1, <1>3, <1>4, <1>5, <1>6

\* No span of the new list exceeds N + 1.
LEMMA InsertedBounded ==
  ASSUME NEW l, NEW p, NEW k, NEW q, NEW r, NEW score, NEW m, NEW h, NEW u,
         Insertion(l, p, k, q, r, score, m, h, u)
  PROVE  Bounded(k)
  <1>1. ListType(k) /\ Ranked(k, q) /\ Linked(k, q) /\ Spanned(k, q)
    BY InsertedMembers, InsertedRanked, InsertedLinked, InsertedSpanned
  <1>2. ASSUME NEW i \in Levels, NEW x \in Node PROVE k.span[i][x] \in 0 .. N + 1
    <2>1. CASE i <= k.level /\ x \in Level(k, i)
      <3>1. i \in 1 .. k.level
        BY <1>1, <2>1, LevelsInUse
      <3>2. k.span[i][x] = q[k.forward[i][x]] - q[x]
        BY <1>1, <2>1, <3>1 DEF Spanned
      <3>3. QED
        BY <1>1, <2>1, <3>2, SpansBounded
    <2>2. CASE ~(i <= k.level /\ x \in Level(k, i))
      <3>1. /\ k.level = (IF h > l.level THEN h ELSE l.level)
            /\ (x # u[i] /\ (x = m => i > h)) => k.span[i][x] = l.span[i][x]
            /\ (i > h /\ i > l.level) => k.span[i][x] = l.span[i][x]
        BY DEF Insertion, InsertedAs
      <3>2. ListType(l) /\ h \in Levels /\ Cut(l, p, r, i, u[i]) /\ Bounded(l)
        BY DEF Insertion, Sound
      <3>3. i \in Nat /\ h \in Nat /\ l.level \in Nat
        BY <3>2, LevelsInUse, Nodes
      <3>4. Level(k, i) = Level(l, i) \cup {z \in {m} : i <= h}
        BY InsertedMembers
      <3>5. u[i] \in Level(k, i)
        BY <3>2, <3>4 DEF Cut
      <3>6. k.span[i][x] = l.span[i][x]
        <4>1. CASE ~(i <= k.level)
          <5>1. i > h /\ i > l.level
            BY <3>1, <3>3, <4>1
          <5>2. QED
            BY <3>1, <5>1
        <4>2. CASE x \notin Level(k, i)
          <5>1. x # u[i] /\ (x = m => i > h)
            BY <3>3, <3>4, <3>5, <4>2
          <5>2. QED
            BY <3>1, <5>1
        <4>3. QED
          BY <2>2, <4>1, <4>2
      <3>7. QED
        BY <3>2, <3>6 DEF Bounded
    <2>3. QED
      BY <2>1, <2>2
  <1>3. QED
    BY <1>2 DEF Bounded

\* A new member takes its place.
LEMMA InsertedSound ==
  ASSUME NEW l, NEW p, Sound(l, p), NEW score \in Int, NEW m \in Member \ In(l), NEW h \in Levels
  PROVE  LET k == Inserted(l, score, m, h)
         IN  /\ \E q : Sound(k, q)
             /\ In(k) = In(l) \cup {m}
             /\ k.score = [l.score EXCEPT ![m] = score]
  <1>1. PICK k : k = Inserted(l, score, m, h)
    OBVIOUS
  <1>2. PICK u, r, q :
            /\ r \in 0 .. l.length /\ q = RankedIn(p, m, r)
            /\ \A x \in In(l) : Less(l, x, score, m) <=> p[x] <= r
            /\ \A i \in Levels : Cut(l, p, r, i, u[i]) /\ u[i] \in Node /\ u[i] # m
            /\ InsertedAs(l, k, q, r, score, m, h, u)
    BY <1>1, InsertedRight
  <1>3. Insertion(l, p, k, q, r, score, m, h, u)
    BY <1>2 DEF Insertion
  <1>4. /\ ListType(k) /\ Ranked(k, q) /\ Linked(k, q) /\ Spanned(k, q) /\ Topped(k) /\ Bounded(k)
        /\ In(k) = In(l) \cup {m}
    BY <1>3, InsertedMembers, InsertedRanked, InsertedLinked, InsertedSpanned, InsertedTopped, InsertedBounded
  <1>5. k.score = [l.score EXCEPT ![m] = score]
    BY <1>3 DEF Insertion, InsertedAs
  <1>6. QED
    BY <1>1, <1>4, <1>5 DEF Sound

-----------------------------------------------------------------------------
(* Deletion. *)

\* Ranks without m.
RankedOut(p, m) ==
    [x \in Node \cup {End} |-> IF p[x] > p[m] THEN p[x] - 1 ELSE p[x]]

\* k is l without m: u[i] is the node in front of m's place on level i.
DeletedAs(l, k, m, u) ==
    /\ k.score = [l.score EXCEPT ![m] = 0]
    /\ k.height = [l.height EXCEPT ![m] = 0]
    /\ k.length = l.length - 1
    /\ k.forward \in [Levels -> [Node -> Member \cup {End}]]
    /\ k.span \in [Levels -> [Node -> Int]]
    /\ k.level = Max({1} \cup {i \in 1 .. l.level : k.forward[i][Header] # End})
    /\ \A i \in Levels : \A x \in Node :
          /\ k.forward[i][x] =
                IF m \notin Level(l, i) THEN l.forward[i][x]
                ELSE IF x = u[i] THEN l.forward[i][m]
                ELSE IF x = m THEN End ELSE l.forward[i][x]
          /\ (m \in Level(l, i) /\ x = u[i]) => k.span[i][x] = l.span[i][x] + l.span[i][m] - 1
          /\ (m \in Level(l, i) /\ x = m) => k.span[i][x] = 0
          /\ (m \notin Level(l, i) /\ x = u[i] /\ i <= l.level) => k.span[i][x] = l.span[i][x] - 1
          /\ (x # u[i] /\ (x = m => m \notin Level(l, i))) => k.span[i][x] = l.span[i][x]
          /\ (i > l.level) => k.span[i][x] = l.span[i][x]

\* No level above the list's has a member.
LEMMA LevelsAbove ==
  ASSUME NEW l, ListType(l), Topped(l), NEW i \in Levels, ~(i <= l.level)
  PROVE  Level(l, i) = {Header}
  <1>1. \A x \in Member : l.height[x] \in Nat /\ l.height[x] <= l.level
    BY Nodes DEF ListType, Topped
  <1>2. i \in Nat /\ l.level \in Nat
    BY LevelsInUse, Nodes
  <1>3. \A x \in Member : ~(l.height[x] >= i)
    BY <1>1, <1>2
  <1>4. QED
    BY <1>3 DEF Level

\* Below a member's rank the search for it stops right in front of it.
LEMMA RestOfMember ==
  ASSUME NEW l, NEW p, Sound(l, p), NEW m \in In(l)
  PROVE  /\ Rest(l, l.score[m], m) = p[m] - 1
         /\ p[m] \in 1 .. l.length
         /\ \A i \in Levels : Cut(l, p, p[m] - 1, i, At(l, l.score[m], m, i))
  <1>1. ListType(l) /\ Ranked(l, p) /\ m \in Member
    BY DEF Sound, In
  <1>2. PICK score : score = l.score[m]
    OBVIOUS
  <1>3. score \in Int
    BY <1>1, <1>2 DEF ListType
  <1>4. PICK r : r = Rest(l, score, m)
    OBVIOUS
  <1>5. /\ r \in 0 .. l.length
        /\ \A x \in In(l) : Less(l, x, score, m) <=> p[x] <= r
        /\ \A i \in Levels : Cut(l, p, r, i, At(l, score, m, i))
    BY <1>1, <1>3, <1>4, FindRight
  <1>6. /\ p[m] \in 1 .. l.length /\ l.length \in Nat
        /\ \A n \in 1 .. l.length : \E x \in In(l) : p[x] = n
        /\ \A x \in In(l) : Less(l, x, score, m) <=> p[x] < p[m]
    BY <1>1, <1>2 DEF Ranked, ListType, Before
  <1>7. ~(p[m] <= r)
    <2>1. ~(p[m] < p[m])
      BY <1>6
    <2>2. QED
      BY <1>5, <1>6, <2>1
  <1>8. ~(r + 1 < p[m])
    <2>1. SUFFICES ASSUME r + 1 < p[m] PROVE FALSE
      OBVIOUS
    <2>2. r + 1 \in 1 .. l.length
      BY <1>5, <1>6, <2>1
    <2>3. PICK x \in In(l) : p[x] = r + 1
      BY <1>6, <2>2
    <2>4. p[x] <= r
      BY <1>5, <1>6, <2>1, <2>3
    <2>5. QED
      BY <1>5, <1>6, <2>3, <2>4
  <1>9. r = p[m] - 1
    BY <1>5, <1>6, <1>7, <1>8
  <1>10. QED
    BY <1>2, <1>4, <1>5, <1>6, <1>9

\* A level on which the search stops in front of the member is one that has it.
LEMMA DeletedLink ==
  ASSUME NEW l, NEW p, Sound(l, p), NEW m \in In(l), NEW i \in Levels, NEW u,
         Cut(l, p, p[m] - 1, i, u)
  PROVE  /\ Level(l, i) \cup {End} \subseteq In(l) \cup {Header, End}
         /\ \A x \in In(l) \cup {Header, End} : p[x] \in Nat /\ (p[x] = p[m] => x = m)
         /\ \A x \in Level(l, i) : Follows(l, p, i, x, l.forward[i][x])
         /\ u \in Level(l, i) /\ p[u] < p[m] /\ u # m
         /\ m \in Level(l, i) <=> l.forward[i][u] = m
         /\ m \notin Level(l, i) => p[l.forward[i][u]] > p[m]
         /\ \A x \in Level(l, i) \ {u, m} :
               /\ l.forward[i][x] # m
               /\ p[x] < p[m] <=> p[l.forward[i][x]] < p[m]
         /\ m \in Member /\ m \in Node /\ m # Header /\ m # End /\ p[m] \in Nat /\ p[m] > 0
  <1>1. ListType(l) /\ Ranked(l, p) /\ Linked(l, p) /\ m \in Member
    BY DEF Sound, In
  <1>2. /\ Level(l, i) \cup {End} \subseteq In(l) \cup {Header, End}
        /\ \A x \in In(l) \cup {Header, End} : p[x] \in Nat
        /\ \A x, y \in In(l) \cup {Header, End} : p[x] = p[y] => x = y
        /\ p[m] \in 1 .. l.length /\ l.length \in Nat
    BY <1>1, LevelsRight, RanksRight
  <1>3. p[m] \in Nat /\ p[m] > 0 /\ p[m] - 1 \in Nat
    BY <1>2
  <1>4. PICK y : y = l.forward[i][u]
    OBVIOUS
  <1>5. u \in Level(l, i) /\ p[u] <= p[m] - 1 /\ p[m] - 1 < p[y]
    BY <1>4 DEF Cut
  <1>6. \A x \in Level(l, i) : Follows(l, p, i, x, l.forward[i][x])
    BY <1>1 DEF Linked
  <1>7. /\ y \in Level(l, i) \cup {End} /\ p[u] \in Nat /\ p[y] \in Nat
        /\ m \in Level(l, i) => (p[m] <= p[u] \/ p[y] <= p[m])
    BY <1>2, <1>4, <1>5, <1>6 DEF Follows
  <1>8. p[u] < p[m] /\ u # m /\ p[m] <= p[y]
    BY <1>3, <1>5, <1>7
  <1>9. m \in Level(l, i) => y = m
    <2>1. SUFFICES ASSUME m \in Level(l, i) PROVE y = m
      OBVIOUS
    <2>2. p[y] = p[m]
      BY <1>3, <1>7, <1>8, <2>1
    <2>3. QED
      BY <1>2, <1>7, <2>2
  <1>10. y = m => m \in Level(l, i)
    BY <1>1, <1>7, Nodes
  <1>11. m \notin Level(l, i) => p[y] > p[m]
    <2>1. SUFFICES ASSUME m \notin Level(l, i) PROVE p[y] > p[m]
      OBVIOUS
    <2>2. p[y] # p[m]
      BY <1>2, <1>7, <1>10, <2>1
    <2>3. QED
      BY <1>3, <1>7, <1>8, <2>2
  <1>12. ASSUME NEW x \in Level(l, i) \ {u, m}
         PROVE  l.forward[i][x] # m /\ (p[x] < p[m] <=> p[l.forward[i][x]] < p[m])
    <2>1. PICK z : z = l.forward[i][x]
      OBVIOUS
    <2>2. z \in Level(l, i) \cup {End} /\ p[x] < p[z]
      BY <1>6, <1>12, <2>1 DEF Follows
    <2>3. p[x] \in Nat /\ p[z] \in Nat
      BY <1>2, <1>12, <2>2
    <2>4. p[x] <= p[m] - 1 <=> p[z] <= p[m] - 1
      BY <1>3, <1>12, <2>1, CutOnce
    <2>5. p[x] # p[m]
      BY <1>2, <1>12
    <2>6. z # m
      BY <1>3, <2>2, <2>3, <2>4, <2>5
    <2>7. QED
      BY <1>3, <2>1, <2>3, <2>4, <2>6
  <1>13. m \in Node /\ m # Header /\ m # End
    BY <1>1, Nodes
  <1>14. QED
    BY <1>1, <1>2, <1>3, <1>4, <1>5, <1>6, <1>8, <1>9, <1>10, <1>11, <1>12, <1>13

\* What Delete writes, with the places the search found given as u.
LEMMA DeletedRight ==
  ASSUME NEW l, NEW p, Sound(l, p), NEW m \in In(l)
  PROVE  \E u : /\ \A i \in Levels : Cut(l, p, p[m] - 1, i, u[i]) /\ u[i] \in Node
                /\ DeletedAs(l, Deleted(l, l.score[m], m), m, u)
  <1>1. ListType(l) /\ Ranked(l, p) /\ Linked(l, p) /\ Spanned(l, p) /\ Topped(l)
    BY DEF Sound
  <1>2. PICK k : k = Deleted(l, l.score[m], m)
    OBVIOUS
  <1>3. PICK u : u = [i \in Levels |-> At(l, l.score[m], m, i)]
    OBVIOUS
  <1>4. PICK path : path = Find(l, l.score[m], m)
    OBVIOUS
  <1>5. ASSUME NEW i \in Levels PROVE Cut(l, p, p[m] - 1, i, u[i]) /\ u[i] \in Level(l, i) /\ u[i] \in Node
    <2>1. Cut(l, p, p[m] - 1, i, u[i])
      BY <1>3, RestOfMember
    <2>2. QED
      BY <1>1, <2>1, LevelsRight DEF Cut
  <1>6. ASSUME NEW i \in Levels, i <= l.level PROVE u[i] = path[i].at /\ i \in 1 .. l.level
    BY <1>1, <1>3, <1>4, <1>6, LevelsInUse DEF At
  <1>7. 1 \in Levels /\ 1 <= l.level
    BY <1>1, LevelsInUse, Nodes
  <1>8. ASSUME NEW i \in Levels
        PROVE  /\ m \in Level(l, i) <=> l.forward[i][u[i]] = m
               /\ u[i] # m /\ m \in Node /\ m \in Member
    BY <1>5, DeletedLink
  <1>9. m \in Level(l, 1)
    BY <1>1, <1>7, LevelsRight
  <1> DEFINE found == l.forward[1][path[1].at] = m /\ l.score[m] = l.score[m]
             through(i) == l.forward[i][path[i].at] = m
             forward == [i \in Levels |->
               IF i <= l.level /\ through(i)
               THEN [l.forward[i] EXCEPT ![path[i].at] = l.forward[i][m], ![m] = End]
               ELSE l.forward[i]]
             Del == [score |-> [l.score EXCEPT ![m] = 0],
              height |-> [l.height EXCEPT ![m] = 0],
              forward |-> forward,
              span |-> [i \in Levels |->
                 IF i > l.level THEN l.span[i]
                 ELSE IF through(i)
                 THEN [l.span[i] EXCEPT ![path[i].at] = @ + l.span[i][m] - 1, ![m] = 0]
                 ELSE [l.span[i] EXCEPT ![path[i].at] = @ - 1]],
              level |-> Max({1} \cup {i \in 1 .. l.level : forward[i][Header] # End}),
              length |-> l.length - 1]
  <1>10. k = IF ~found THEN l ELSE Del
    BY <1>2, <1>4, Zenon DEF Deleted
  <1>11. found
    BY <1>6, <1>7, <1>8, <1>9
  <1>12. k = Del
    BY <1>10, <1>11
  <1>13. /\ k.score = [l.score EXCEPT ![m] = 0] /\ k.height = [l.height EXCEPT ![m] = 0]
         /\ k.length = l.length - 1 /\ k.forward = forward
         /\ k.level = Max({1} \cup {i \in 1 .. l.level : forward[i][Header] # End})
         /\ k.span = [i \in Levels |->
                 IF i > l.level THEN l.span[i]
                 ELSE IF through(i)
                 THEN [l.span[i] EXCEPT ![path[i].at] = @ + l.span[i][m] - 1, ![m] = 0]
                 ELSE [l.span[i] EXCEPT ![path[i].at] = @ - 1]]
    <2> HIDE DEF forward, through, found
    <2>1. QED
      BY <1>12
  <1>14. k.level = Max({1} \cup {i \in 1 .. l.level : k.forward[i][Header] # End})
    <2> HIDE DEF forward
    <2>1. QED
      BY <1>13
  <1>15. ASSUME NEW i \in Levels
         PROVE  /\ k.forward[i] = IF m \in Level(l, i)
                     THEN [l.forward[i] EXCEPT ![u[i]] = l.forward[i][m], ![m] = End]
                     ELSE l.forward[i]
                /\ k.span[i] = IF i > l.level THEN l.span[i]
                     ELSE IF m \in Level(l, i)
                     THEN [l.span[i] EXCEPT ![u[i]] = @ + l.span[i][m] - 1, ![m] = 0]
                     ELSE [l.span[i] EXCEPT ![u[i]] = @ - 1]
    <2>0. i \in Nat /\ l.level \in Nat
      BY <1>1, LevelsInUse, Nodes
    <2>1. CASE i <= l.level
      <3>1. path[i].at = u[i] /\ (through(i) <=> m \in Level(l, i)) /\ ~(i > l.level)
        BY <1>6, <1>8, <2>0, <2>1
      <3>2. k.forward[i] = IF through(i)
                     THEN [l.forward[i] EXCEPT ![path[i].at] = l.forward[i][m], ![m] = End]
                     ELSE l.forward[i]
        BY <1>13, <2>1
      <3>3. k.span[i] = IF through(i)
                     THEN [l.span[i] EXCEPT ![path[i].at] = @ + l.span[i][m] - 1, ![m] = 0]
                     ELSE [l.span[i] EXCEPT ![path[i].at] = @ - 1]
        <4> HIDE DEF through
        <4>1. QED
          BY <1>13, <3>1
      <3> HIDE DEF through
      <3>4. PICK c : c = path[i].at
        OBVIOUS
      <3>5. QED
        BY <3>1, <3>2, <3>3, Zenon
    <2>2. CASE ~(i <= l.level)
      <3>1. m \notin Level(l, i)
        BY <1>1, <1>8, <2>2, LevelsAbove, Nodes
      <3>2. i > l.level
        BY <2>0, <2>2
      <3>3. k.forward[i] = l.forward[i] /\ k.span[i] = l.span[i]
        <4> HIDE DEF through
        <4>1. QED
          BY <1>13, <2>2, <3>2
      <3>4. QED
        BY <3>1, <3>2, <3>3
    <2>3. QED
      BY <2>1, <2>2
  <1>16. ASSUME NEW i \in Levels
         PROVE  /\ k.forward[i] \in [Node -> Member \cup {End}]
                /\ k.span[i] \in [Node -> Int]
                /\ \A x \in Node : k.forward[i][x] =
                      IF m \notin Level(l, i) THEN l.forward[i][x]
                      ELSE IF x = u[i] THEN l.forward[i][m]
                      ELSE IF x = m THEN End ELSE l.forward[i][x]
                /\ \A x \in Node : k.span[i][x] =
                      IF i > l.level THEN l.span[i][x]
                      ELSE IF m \in Level(l, i)
                      THEN IF x = u[i] THEN l.span[i][x] + l.span[i][m] - 1
                           ELSE IF x = m THEN 0 ELSE l.span[i][x]
                      ELSE IF x = u[i] THEN l.span[i][x] - 1 ELSE l.span[i][x]
    <2>1. /\ l.forward[i] \in [Node -> Member \cup {End}] /\ l.span[i] \in [Node -> Int]
          /\ u[i] \in Node /\ u[i] # m /\ m \in Node /\ m \in Member
      BY <1>1, <1>5, <1>8 DEF ListType
    <2>2. PICK c, v, a : c = u[i] /\ v = l.forward[i][m] /\ a = l.span[i][m]
      OBVIOUS
    <2>3. c \in Node /\ c # m /\ v \in Member \cup {End} /\ a \in Int
      BY <2>1, <2>2
    <2>4. /\ k.forward[i] = IF m \in Level(l, i)
                     THEN [l.forward[i] EXCEPT ![c] = v, ![m] = End]
                     ELSE l.forward[i]
          /\ k.span[i] = IF i > l.level THEN l.span[i]
                     ELSE IF m \in Level(l, i)
                     THEN [l.span[i] EXCEPT ![c] = @ + a - 1, ![m] = 0]
                     ELSE [l.span[i] EXCEPT ![c] = @ - 1]
      BY <1>15, <2>2
    <2>5. /\ k.forward[i] \in [Node -> Member \cup {End}]
          /\ \A x \in Node : k.forward[i][x] =
                      IF m \notin Level(l, i) THEN l.forward[i][x]
                      ELSE IF x = c THEN v
                      ELSE IF x = m THEN End ELSE l.forward[i][x]
      BY <2>1, <2>3, <2>4
    <2>6. /\ k.span[i] \in [Node -> Int]
          /\ \A x \in Node : k.span[i][x] =
                      IF i > l.level THEN l.span[i][x]
                      ELSE IF m \in Level(l, i)
                      THEN IF x = c THEN l.span[i][x] + a - 1
                           ELSE IF x = m THEN 0 ELSE l.span[i][x]
                      ELSE IF x = c THEN l.span[i][x] - 1 ELSE l.span[i][x]
      BY <2>1, <2>3, <2>4
    <2>7. QED
      BY <2>2, <2>5, <2>6
  <1>17. k.forward \in [Levels -> [Node -> Member \cup {End}]] /\ k.span \in [Levels -> [Node -> Int]]
    <2>1. k.forward = [i \in Levels |-> k.forward[i]] /\ k.span = [i \in Levels |-> k.span[i]]
      BY <1>13
    <2>2. QED
      BY <1>16, <2>1
  <1>18. ASSUME NEW i \in Levels, NEW x \in Node
         PROVE  /\ k.forward[i][x] =
                      IF m \notin Level(l, i) THEN l.forward[i][x]
                      ELSE IF x = u[i] THEN l.forward[i][m]
                      ELSE IF x = m THEN End ELSE l.forward[i][x]
                /\ (m \in Level(l, i) /\ x = u[i]) => k.span[i][x] = l.span[i][x] + l.span[i][m] - 1
                /\ (m \in Level(l, i) /\ x = m) => k.span[i][x] = 0
                /\ (m \notin Level(l, i) /\ x = u[i] /\ i <= l.level) => k.span[i][x] = l.span[i][x] - 1
                /\ (x # u[i] /\ (x = m => m \notin Level(l, i))) => k.span[i][x] = l.span[i][x]
                /\ (i > l.level) => k.span[i][x] = l.span[i][x]
    <2>1. i \in Nat /\ l.level \in Nat /\ u[i] # m
      BY <1>1, <1>8, LevelsInUse, Nodes
    <2>2. m \in Level(l, i) => ~(i > l.level)
      <3>1. SUFFICES ASSUME ~(i <= l.level) PROVE m \notin Level(l, i)
        BY <2>1
      <3>2. QED
        BY <1>1, <1>8, <3>1, LevelsAbove, Nodes
    <2>3. i <= l.level => ~(i > l.level)
      BY <2>1
    <2>4. QED
      BY <1>16, <2>1, <2>2, <2>3
  <1>19. DeletedAs(l, k, m, u)
    BY <1>13, <1>14, <1>17, <1>18 DEF DeletedAs
  <1>20. QED
    BY <1>2, <1>5, <1>19

Deletion(l, p, k, q, m, u) ==
    /\ Sound(l, p) /\ m \in In(l) /\ q = RankedOut(p, m)
    /\ \A i \in Levels : Cut(l, p, p[m] - 1, i, u[i]) /\ u[i] \in Node
    /\ DeletedAs(l, k, m, u)

\* Max picks the greatest of a set of naturals with a bound.
LEMMA MaxRight ==
  ASSUME NEW n \in Nat, NEW T \in SUBSET (1 .. n), T # {}
  PROVE  Max(T) \in T /\ \A x \in T : x <= Max(T)
  <1>1. PICK U : U = {n - x : x \in T}
    OBVIOUS
  <1>2. \A x \in T : x \in 1 .. n
    OBVIOUS
  <1>3. U \in SUBSET Nat /\ U # {}
    <2>1. \A x \in T : n - x \in Nat
      BY <1>2
    <2>2. PICK x : x \in T
      OBVIOUS
    <2>3. n - x \in U
      BY <1>1, <2>2
    <2>4. \A y \in U : y \in Nat
      BY <1>1, <2>1
    <2>5. QED
      BY <2>3, <2>4
  <1>4. PICK y \in U : \A z \in U : y <= z
    BY <1>3, LeastNat
  <1>5. PICK x \in T : y = n - x
    BY <1>1, <1>4
  <1>6. ASSUME NEW z \in T PROVE x >= z
    <2>1. n - z \in U
      BY <1>1
    <2>2. n - x <= n - z /\ x \in 1 .. n /\ z \in 1 .. n
      BY <1>2, <1>4, <1>5, <2>1
    <2>3. QED
      BY <2>2
  <1>7. Max(T) \in T /\ \A z \in T : Max(T) >= z
    BY <1>6 DEF Max
  <1>8. \A z \in T : z \in Int
    BY <1>2
  <1>9. QED
    BY <1>7, <1>8

\* The level a deletion leaves is the highest with a node.
LEMMA DeletedLevel ==
  ASSUME NEW l, NEW p, NEW k, NEW q, NEW m, NEW u, Deletion(l, p, k, q, m, u)
  PROVE  /\ k.level \in 1 .. l.level /\ k.level \in Levels
         /\ k.level = 1 \/ k.forward[k.level][Header] # End
         /\ \A i \in 1 .. l.level : k.forward[i][Header] # End => i <= k.level
  <1>1. ListType(l) /\ k.level = Max({1} \cup {i \in 1 .. l.level : k.forward[i][Header] # End})
    BY DEF Deletion, DeletedAs, Sound
  <1>2. PICK T : T = {1} \cup {i \in 1 .. l.level : k.forward[i][Header] # End}
    OBVIOUS
  <1>3. l.level \in Nat /\ 1 \in 1 .. l.level /\ 1 .. l.level \subseteq Levels
    BY <1>1, LevelsInUse, Nodes
  <1>4. T \in SUBSET (1 .. l.level) /\ T # {}
    BY <1>2, <1>3
  <1>5. Max(T) \in T /\ \A x \in T : x <= Max(T)
    BY <1>3, <1>4, MaxRight
  <1>6. k.level \in T /\ \A x \in T : x <= k.level
    BY <1>1, <1>2, <1>5
  <1>7. QED
    BY <1>2, <1>3, <1>4, <1>6

\* Deletion takes the member from every level.
LEMMA DeletedMembers ==
  ASSUME NEW l, NEW p, NEW k, NEW q, NEW m, NEW u, Deletion(l, p, k, q, m, u)
  PROVE  /\ ListType(k)
         /\ In(k) = In(l) \ {m}
         /\ \A i \in Levels : Level(k, i) = Level(l, i) \ {m}
         /\ \A x \in In(k) : k.score[x] = l.score[x]
         /\ k.length = l.length - 1 /\ p[m] \in 1 .. l.length
  <1>1. ListType(l) /\ Ranked(l, p) /\ m \in Member /\ m \in In(l)
    BY DEF Deletion, Sound, In
  <1>2. /\ k.score = [l.score EXCEPT ![m] = 0] /\ k.height = [l.height EXCEPT ![m] = 0]
        /\ k.length = l.length - 1
        /\ k.forward \in [Levels -> [Node -> Member \cup {End}]]
        /\ k.span \in [Levels -> [Node -> Int]]
    BY DEF Deletion, DeletedAs
  <1>3. /\ l.score \in [Member -> Int] /\ l.height \in [Member -> 0 .. MaxLevel] /\ l.length \in Nat
    BY <1>1 DEF ListType
  <1>4. p[m] \in 1 .. l.length
    BY <1>1 DEF Ranked
  <1>5. ListType(k)
    <2>1. k.score \in [Member -> Int] /\ k.height \in [Member -> 0 .. MaxLevel]
      BY <1>1, <1>2, <1>3, Nodes
    <2>2. k.length \in Nat
      BY <1>2, <1>3, <1>4
    <2>3. k.level \in Levels
      BY DeletedLevel
    <2>4. QED
      BY <1>2, <2>1, <2>2, <2>3 DEF ListType
  <1>6. \A x \in Member : k.height[x] = (IF x = m THEN 0 ELSE l.height[x])
    BY <1>1, <1>2, <1>3
  <1>7. In(k) = In(l) \ {m}
    <2>1. ASSUME NEW x PROVE x \in In(k) <=> x \in In(l) \ {m}
      BY <1>1, <1>6 DEF In
    <2>2. QED
      BY <2>1
  <1>8. ASSUME NEW i \in Levels PROVE Level(k, i) = Level(l, i) \ {m}
    <2>1. i \in Nat /\ i > 0 /\ ~(0 >= i) /\ m # Header
      BY <1>1, Nodes
    <2>2. \A x : x \in Level(l, i) <=> x = Header \/ (x \in Member /\ l.height[x] >= i)
      BY DEF Level
    <2>3. \A x : x \in Level(k, i) <=> x = Header \/ (x \in Member /\ k.height[x] >= i)
      BY DEF Level
    <2>4. ASSUME NEW x PROVE x \in Level(k, i) <=> x \in Level(l, i) /\ x # m
      BY <1>1, <1>6, <2>1, <2>2, <2>3
    <2>5. QED
      BY <2>4
  <1>9. \A x \in In(k) : k.score[x] = l.score[x]
    BY <1>1, <1>2, <1>3, <1>7 DEF In
  <1>10. QED
    BY <1>2, <1>4, <1>5, <1>7, <1>8, <1>9

\* The new ranks: those behind the member move down by one.
LEMMA DeletedRanks ==
  ASSUME NEW l, NEW p, NEW k, NEW q, NEW m, NEW u, Deletion(l, p, k, q, m, u)
  PROVE  /\ q \in [Node \cup {End} -> Nat]
         /\ \A x \in In(l) \cup {Header, End} :
               q[x] = IF p[x] > p[m] THEN p[x] - 1 ELSE p[x]
  <1>1. /\ ListType(l) /\ Ranked(l, p) /\ m \in In(l)
        /\ q = [x \in Node \cup {End} |-> IF p[x] > p[m] THEN p[x] - 1 ELSE p[x]]
    BY DEF Deletion, Sound, RankedOut
  <1>2. p \in [Node \cup {End} -> Nat] /\ p[m] \in Nat
    BY <1>1, RanksRight DEF Ranked
  <1>3. \A x \in Node \cup {End} : p[x] > p[m] => p[x] - 1 \in Nat
    BY <1>2
  <1>4. In(l) \cup {Header, End} \subseteq Node \cup {End}
    BY <1>1, Nodes DEF In
  <1>5. q \in [Node \cup {End} -> Nat]
    BY <1>1, <1>2, <1>3
  <1>6. QED
    BY <1>1, <1>4, <1>5

\* The new ranks are ranks of the list without the member.
LEMMA DeletedRanked ==
  ASSUME NEW l, NEW p, NEW k, NEW q, NEW m, NEW u, Deletion(l, p, k, q, m, u)
  PROVE  Ranked(k, q)
  <1>1. ListType(l) /\ Ranked(l, p) /\ m \in In(l)
    BY DEF Deletion, Sound
  <1>2. /\ In(k) = In(l) \ {m} /\ k.length = l.length - 1 /\ p[m] \in 1 .. l.length
        /\ \A x \in In(k) : k.score[x] = l.score[x]
    BY DeletedMembers
  <1>3. /\ q \in [Node \cup {End} -> Nat]
        /\ \A x \in In(l) \cup {Header, End} :
              q[x] = IF p[x] > p[m] THEN p[x] - 1 ELSE p[x]
    BY DeletedRanks
  <1>4. /\ p[Header] = 0 /\ p[End] = l.length + 1 /\ l.length \in Nat
        /\ \A x \in In(l) : p[x] \in 1 .. l.length
        /\ \A n \in 1 .. l.length : \E x \in In(l) : p[x] = n
        /\ \A a, b \in In(l) : Before(l, a, b) <=> p[a] < p[b]
        /\ \A x \in In(l) : p[x] = p[m] => x = m
    BY <1>1, RanksRight DEF Ranked
  <1>5. q[Header] = 0 /\ q[End] = k.length + 1
    BY <1>2, <1>3, <1>4
  <1>6. ASSUME NEW x \in In(k) PROVE q[x] \in 1 .. k.length
    <2>1. /\ p[x] \in 1 .. l.length /\ p[x] # p[m]
          /\ q[x] = IF p[x] > p[m] THEN p[x] - 1 ELSE p[x]
      BY <1>2, <1>3, <1>4
    <2>2. QED
      BY <1>2, <1>4, <2>1
  <1>7. ASSUME NEW n \in 1 .. k.length PROVE \E x \in In(k) : q[x] = n
    <2>1. CASE n < p[m]
      <3>1. PICK x \in In(l) : p[x] = n
        BY <1>2, <1>4, <2>1
      <3>2. x # m /\ q[x] = n
        BY <1>2, <1>3, <1>4, <2>1, <3>1
      <3>3. QED
        BY <1>2, <3>2
    <2>2. CASE ~(n < p[m])
      <3>1. n + 1 \in 1 .. l.length
        BY <1>2, <1>4
      <3>2. PICK x \in In(l) : p[x] = n + 1
        BY <1>4, <3>1
      <3>3. x # m /\ q[x] = n
        BY <1>2, <1>3, <1>4, <2>2, <3>2
      <3>4. QED
        BY <1>2, <3>3
    <2>3. QED
      BY <2>1, <2>2
  <1>8. ASSUME NEW a \in In(k), NEW b \in In(k) PROVE Before(k, a, b) <=> q[a] < q[b]
    <2>1. Before(k, a, b) <=> Before(l, a, b)
      BY <1>2 DEF Before, Less
    <2>2. Before(l, a, b) <=> p[a] < p[b]
      BY <1>2, <1>4
    <2>3. /\ p[a] \in Nat /\ p[b] \in Nat /\ p[m] \in Nat /\ p[a] # p[m] /\ p[b] # p[m]
          /\ q[a] = IF p[a] > p[m] THEN p[a] - 1 ELSE p[a]
          /\ q[b] = IF p[b] > p[m] THEN p[b] - 1 ELSE p[b]
      BY <1>2, <1>3, <1>4
    <2>4. QED
      BY <2>1, <2>2, <2>3
  <1>9. QED
    BY <1>3, <1>5, <1>6, <1>7, <1>8 DEF Ranked

\* On every level the links around the member are joined.
LEMMA DeletedLinked ==
  ASSUME NEW l, NEW p, NEW k, NEW q, NEW m, NEW u, Deletion(l, p, k, q, m, u)
  PROVE  Linked(k, q)
  <1>1. ASSUME NEW i \in Levels
        PROVE  /\ \A x \in Level(k, i) : Follows(k, q, i, x, k.forward[i][x])
               /\ \A x \in Node \ Level(k, i) : k.forward[i][x] = End
    <2>0. /\ Sound(l, p) /\ ListType(l) /\ m \in In(l) /\ Cut(l, p, p[m] - 1, i, u[i])
          /\ \A x \in Node \ Level(l, i) : l.forward[i][x] = End
      BY DEF Deletion, Sound, Linked
    <2>1. /\ Level(l, i) \cup {End} \subseteq In(l) \cup {Header, End}
          /\ \A x \in In(l) \cup {Header, End} : p[x] \in Nat /\ (p[x] = p[m] => x = m)
          /\ \A x \in Level(l, i) : Follows(l, p, i, x, l.forward[i][x])
          /\ u[i] \in Level(l, i) /\ p[u[i]] < p[m] /\ u[i] # m
          /\ m \in Level(l, i) <=> l.forward[i][u[i]] = m
          /\ m \notin Level(l, i) => p[l.forward[i][u[i]]] > p[m]
          /\ \A x \in Level(l, i) \ {u[i], m} :
               /\ l.forward[i][x] # m
               /\ p[x] < p[m] <=> p[l.forward[i][x]] < p[m]
          /\ m \in Member /\ m \in Node /\ m # Header /\ m # End /\ p[m] \in Nat /\ p[m] > 0
      BY <2>0, DeletedLink
    <2>2. Level(k, i) = Level(l, i) \ {m}
      BY DeletedMembers
    <2>3. \A x \in In(l) \cup {Header, End} :
               q[x] = IF p[x] > p[m] THEN p[x] - 1 ELSE p[x]
      BY DeletedRanks
    <2>4. \A x \in Node : k.forward[i][x] =
                IF m \notin Level(l, i) THEN l.forward[i][x]
                ELSE IF x = u[i] THEN l.forward[i][m]
                ELSE IF x = m THEN End ELSE l.forward[i][x]
      BY DEF Deletion, DeletedAs
    <2>5. Level(l, i) \subseteq Node
      BY <2>0, LevelsRight
    <2>6. ASSUME NEW a \in Level(l, i) \cup {End}, NEW b \in Level(l, i) \cup {End}
          PROVE  (p[a] <= p[b] => q[a] <= q[b]) /\ ((p[a] < p[b] /\ a # m /\ b # m) => q[a] < q[b])
      <3>1. /\ p[a] \in Nat /\ p[b] \in Nat /\ (a # m => p[a] # p[m]) /\ (b # m => p[b] # p[m])
            /\ q[a] = IF p[a] > p[m] THEN p[a] - 1 ELSE p[a]
            /\ q[b] = IF p[b] > p[m] THEN p[b] - 1 ELSE p[b]
        BY <2>1, <2>3
      <3>2. QED
        BY <2>1, <3>1
    <2>7. ASSUME NEW x \in Level(l, i) \ {m}, NEW y \in Level(l, i) \cup {End}, y # m, p[x] < p[y],
                 \A z \in Level(l, i) \ {m} : p[z] <= p[x] \/ p[y] <= p[z]
          PROVE  Follows(k, q, i, x, y)
      <3>1. q[x] < q[y]
        BY <2>6, <2>7
      <3>2. ASSUME NEW z \in Level(k, i) PROVE q[z] <= q[x] \/ q[y] <= q[z]
        BY <2>2, <2>6, <2>7
      <3>3. y \in Level(k, i) \cup {End}
        BY <2>2, <2>7
      <3>4. QED
        BY <3>1, <3>2, <3>3 DEF Follows
    <2>8. ASSUME NEW x \in Level(k, i) PROVE Follows(k, q, i, x, k.forward[i][x])
      <3>1. x \in Level(l, i) \ {m} /\ x \in Node
        BY <2>2, <2>5
      <3>2. CASE m \in Level(l, i) /\ x = u[i]
        <4>1. PICK y : y = l.forward[i][m]
          OBVIOUS
        <4>2. k.forward[i][x] = y
          BY <2>4, <3>1, <3>2, <4>1
        <4>3. /\ y \in Level(l, i) \cup {End} /\ p[m] < p[y]
              /\ \A z \in Level(l, i) : p[z] <= p[m] \/ p[y] <= p[z]
          BY <2>1, <3>2, <4>1 DEF Follows
        <4>4. l.forward[i][x] = m
          BY <2>1, <3>2
        <4>5. Follows(l, p, i, x, m)
          BY <2>1, <3>1, <4>4
        <4>6. p[x] < p[m] /\ \A z \in Level(l, i) : p[z] <= p[x] \/ p[m] <= p[z]
          BY <4>5 DEF Follows
        <4>7. p[x] \in Nat /\ p[y] \in Nat /\ p[m] \in Nat
          BY <2>1, <3>1, <4>3
        <4>8. y # m /\ p[x] < p[y]
          BY <4>3, <4>6, <4>7
        <4>9. ASSUME NEW z \in Level(l, i) \ {m} PROVE p[z] <= p[x] \/ p[y] <= p[z]
          <5>1. p[z] \in Nat /\ p[z] # p[m]
            BY <2>1
          <5>2. p[z] <= p[x] \/ p[m] <= p[z]
            BY <4>6
          <5>3. p[z] <= p[m] \/ p[y] <= p[z]
            BY <4>3
          <5>4. QED
            BY <4>7, <5>1, <5>2, <5>3
        <4>10. QED
          BY <2>7, <3>1, <4>2, <4>3, <4>8, <4>9
      <3>3. CASE ~(m \in Level(l, i) /\ x = u[i])
        <4>1. PICK y : y = l.forward[i][x]
          OBVIOUS
        <4>2. k.forward[i][x] = y
          BY <2>4, <3>1, <3>3, <4>1
        <4>3. /\ y \in Level(l, i) \cup {End} /\ p[x] < p[y]
              /\ \A z \in Level(l, i) : p[z] <= p[x] \/ p[y] <= p[z]
          BY <2>1, <3>1, <4>1 DEF Follows
        <4>4. y # m
          <5>1. CASE x = u[i]
            BY <2>1, <3>3, <4>1, <5>1
          <5>2. CASE x # u[i]
            BY <2>1, <3>1, <4>1, <5>2
          <5>3. QED
            BY <5>1, <5>2
        <4>5. QED
          BY <2>7, <3>1, <4>2, <4>3, <4>4
      <3>4. QED
        BY <3>2, <3>3
    <2>9. ASSUME NEW x \in Node \ Level(k, i) PROVE k.forward[i][x] = End
      <3>1. x \in Node /\ (x \notin Level(l, i) \/ (x = m /\ m \in Level(l, i)))
        BY <2>2
      <3>2. QED
        BY <2>0, <2>1, <2>4, <3>1
    <2>10. QED
      BY <2>8, <2>9
  <1>2. QED
    BY <1>1 DEF Linked

\* The spans of the list without the member are differences of the new ranks.
LEMMA DeletedSpans ==
  ASSUME NEW l, NEW p, NEW k, NEW q, NEW m, NEW u, Deletion(l, p, k, q, m, u),
         NEW i \in 1 .. l.level, NEW x \in Level(k, i)
  PROVE  k.span[i][x] = q[k.forward[i][x]] - q[x]
  <1>1. /\ Sound(l, p) /\ ListType(l) /\ Spanned(l, p) /\ m \in In(l) /\ i \in Levels
        /\ Cut(l, p, p[m] - 1, i, u[i])
    BY LevelsInUse DEF Deletion, Sound
  <1>2. /\ Level(l, i) \cup {End} \subseteq In(l) \cup {Header, End}
        /\ \A z \in In(l) \cup {Header, End} : p[z] \in Nat /\ (p[z] = p[m] => z = m)
        /\ \A z \in Level(l, i) : Follows(l, p, i, z, l.forward[i][z])
        /\ u[i] \in Level(l, i) /\ p[u[i]] < p[m] /\ u[i] # m
        /\ m \in Level(l, i) <=> l.forward[i][u[i]] = m
        /\ m \notin Level(l, i) => p[l.forward[i][u[i]]] > p[m]
        /\ \A z \in Level(l, i) \ {u[i], m} :
              /\ l.forward[i][z] # m
              /\ p[z] < p[m] <=> p[l.forward[i][z]] < p[m]
        /\ m \in Member /\ m \in Node /\ m # Header /\ m # End /\ p[m] \in Nat /\ p[m] > 0
    BY <1>1, DeletedLink
  <1>3. x \in Level(l, i) /\ x # m /\ x \in Node
    BY <1>1, DeletedMembers, LevelsRight
  <1>4. \A z \in In(l) \cup {Header, End} : q[z] = IF p[z] > p[m] THEN p[z] - 1 ELSE p[z]
    BY DeletedRanks
  <1>5. \A z \in Level(l, i) : l.span[i][z] = p[l.forward[i][z]] - p[z]
    BY <1>1 DEF Spanned
  <1>6. i <= l.level
    BY <1>1, LevelsInUse
  <1>7. /\ k.forward[i][x] =
              IF m \notin Level(l, i) THEN l.forward[i][x]
              ELSE IF x = u[i] THEN l.forward[i][m] ELSE l.forward[i][x]
        /\ (m \in Level(l, i) /\ x = u[i]) => k.span[i][x] = l.span[i][x] + l.span[i][m] - 1
        /\ (m \notin Level(l, i) /\ x = u[i]) => k.span[i][x] = l.span[i][x] - 1
        /\ x # u[i] => k.span[i][x] = l.span[i][x]
    <2>1. \A z \in Node :
          /\ k.forward[i][z] =
                IF m \notin Level(l, i) THEN l.forward[i][z]
                ELSE IF z = u[i] THEN l.forward[i][m]
                ELSE IF z = m THEN End ELSE l.forward[i][z]
          /\ (m \in Level(l, i) /\ z = u[i]) => k.span[i][z] = l.span[i][z] + l.span[i][m] - 1
          /\ (m \notin Level(l, i) /\ z = u[i] /\ i <= l.level) => k.span[i][z] = l.span[i][z] - 1
          /\ (z # u[i] /\ (z = m => m \notin Level(l, i))) => k.span[i][z] = l.span[i][z]
      BY <1>1 DEF Deletion, DeletedAs
    <2>2. QED
      BY <1>3, <1>6, <2>1
  <1>8. PICK y : y = l.forward[i][x]
    OBVIOUS
  <1>9. y \in Level(l, i) \cup {End} /\ p[x] \in Nat /\ p[y] \in Nat /\ p[x] < p[y]
    BY <1>2, <1>3, <1>8 DEF Follows
  <1>10. /\ q[x] = IF p[x] > p[m] THEN p[x] - 1 ELSE p[x]
         /\ q[y] = IF p[y] > p[m] THEN p[y] - 1 ELSE p[y]
    BY <1>2, <1>3, <1>4, <1>9
  <1>11. l.span[i][x] = p[y] - p[x]
    BY <1>3, <1>5, <1>8
  <1>12. CASE m \in Level(l, i) /\ x = u[i]
    <2>1. PICK v : v = l.forward[i][m]
      OBVIOUS
    <2>2. v \in Level(l, i) \cup {End} /\ p[m] < p[v] /\ p[v] \in Nat
      BY <1>2, <1>12, <2>1 DEF Follows
    <2>3. y = m /\ l.span[i][m] = p[v] - p[m] /\ k.forward[i][x] = v
      BY <1>2, <1>5, <1>7, <1>8, <1>12, <2>1
    <2>4. q[v] = p[v] - 1
      BY <1>2, <1>4, <2>2
    <2>5. q[x] = p[x]
      BY <1>2, <1>9, <1>10, <1>12
    <2>6. k.span[i][x] = l.span[i][x] + l.span[i][m] - 1
      BY <1>7, <1>12
    <2>7. QED
      BY <1>2, <1>9, <1>11, <2>2, <2>3, <2>4, <2>5, <2>6
  <1>13. CASE m \notin Level(l, i) /\ x = u[i]
    <2>1. k.forward[i][x] = y /\ k.span[i][x] = l.span[i][x] - 1
      BY <1>7, <1>8, <1>13
    <2>2. p[x] < p[m] /\ p[y] > p[m]
      BY <1>2, <1>8, <1>13
    <2>3. QED
      BY <1>2, <1>9, <1>10, <1>11, <2>1, <2>2
  <1>14. CASE x # u[i]
    <2>1. k.forward[i][x] = y /\ k.span[i][x] = l.span[i][x]
      BY <1>7, <1>8, <1>14
    <2>2. y # m /\ (p[x] < p[m] <=> p[y] < p[m])
      BY <1>2, <1>3, <1>8, <1>14
    <2>3. p[y] # p[m] /\ p[x] # p[m]
      BY <1>2, <1>3, <1>9, <2>2
    <2>4. QED
      BY <1>2, <1>9, <1>10, <1>11, <2>1, <2>2, <2>3
  <1>15. QED
    BY <1>12, <1>13, <1>14

\* The level of the list without the member is its highest.
LEMMA DeletedTopped ==
  ASSUME NEW l, NEW p, NEW k, NEW q, NEW m, NEW u, Deletion(l, p, k, q, m, u)
  PROVE  Topped(k)
  <1>1. ListType(l) /\ Topped(l) /\ m \in Member
    BY DEF Deletion, Sound, In
  <1>2. ListType(k) /\ Ranked(k, q) /\ Linked(k, q)
    BY DeletedMembers, DeletedRanked, DeletedLinked
  <1>3. /\ k.level \in 1 .. l.level /\ k.level \in Levels
        /\ k.level = 1 \/ k.forward[k.level][Header] # End
        /\ \A i \in 1 .. l.level : k.forward[i][Header] # End => i <= k.level
    BY DeletedLevel
  <1>4. /\ k.height = [l.height EXCEPT ![m] = 0] /\ l.height \in [Member -> 0 .. MaxLevel]
        /\ l.level \in Nat /\ k.level \in Nat
    BY <1>1, <1>3, LevelsInUse DEF Deletion, DeletedAs, ListType
  <1>5. \A x \in Member : k.height[x] \in 0 .. MaxLevel /\ k.height[x] <= l.level
    <2>1. \A x \in Member : l.height[x] <= l.level
      BY <1>1 DEF Topped
    <2>2. \A x \in Member : k.height[x] = IF x = m THEN 0 ELSE l.height[x]
      BY <1>1, <1>4
    <2>3. 0 \in 0 .. MaxLevel /\ 0 <= l.level
      BY <1>4, Nodes
    <2>4. QED
      BY <1>4, <2>1, <2>2, <2>3
  <1>6. ASSUME NEW i \in Levels, NEW x \in Level(k, i), x # Header PROVE k.forward[i][Header] # End
    <2>1. SUFFICES ASSUME k.forward[i][Header] = End PROVE FALSE
      OBVIOUS
    <2>2. Header \in Level(k, i) /\ x \in In(k)
      BY <1>2, <1>6, LevelsRight
    <2>3. Follows(k, q, i, Header, End)
      BY <1>2, <2>1, <2>2 DEF Linked
    <2>4. q[x] <= q[Header] \/ q[End] <= q[x]
      BY <1>6, <2>3 DEF Follows
    <2>5. q[Header] = 0 /\ q[x] \in 1 .. k.length /\ q[x] < q[End] /\ q[End] \in Nat
      BY <1>2, <2>2, RanksRight
    <2>6. QED
      BY <2>4, <2>5
  <1>7. ASSUME NEW x \in Member PROVE k.height[x] <= k.level
    <2>1. CASE k.height[x] = 0
      BY <1>4, <2>1
    <2>2. CASE k.height[x] # 0
      <3>1. PICK i : i = k.height[x]
        OBVIOUS
      <3>2. i \in Levels /\ i \in 1 .. l.level
        BY <1>4, <1>5, <2>2, <3>1, Nodes DEF Levels
      <3>3. x \in Level(k, i) /\ x # Header
        BY <3>1, <3>2, Nodes DEF Level
      <3>4. QED
        BY <1>3, <1>6, <3>1, <3>2, <3>3
    <2>3. QED
      BY <2>1, <2>2
  <1>8. ASSUME k.level # 1 PROVE \E x \in Member : k.height[x] = k.level
    <2>1. PICK y : y = k.forward[k.level][Header]
      OBVIOUS
    <2>2. Header \in Level(k, k.level)
      BY <1>2, <1>3, LevelsRight
    <2>3. Follows(k, q, k.level, Header, y) /\ y # End
      BY <1>2, <1>3, <1>8, <2>1, <2>2 DEF Linked
    <2>4. y # Header
      <3>1. q[Header] < q[y] /\ q[Header] = 0
        BY <1>2, <2>3 DEF Follows, Ranked
      <3>2. QED
        BY <3>1
    <2>5. y \in Member /\ k.height[y] >= k.level
      BY <2>3, <2>4 DEF Follows, Level
    <2>6. k.height[y] = k.level
      BY <1>4, <1>5, <1>7, <2>5, Nodes
    <2>7. QED
      BY <2>5, <2>6
  <1>9. QED
    BY <1>7, <1>8 DEF Topped

\* No span of the list without the member exceeds N + 1.
LEMMA DeletedBounded ==
  ASSUME NEW l, NEW p, NEW k, NEW q, NEW m, NEW u, Deletion(l, p, k, q, m, u)
  PROVE  Bounded(k)
  <1>1. ListType(l) /\ Topped(l) /\ Bounded(l) /\ m \in Member
    BY DEF Deletion, Sound, In
  <1>2. ListType(k) /\ Ranked(k, q) /\ Linked(k, q)
    BY DeletedMembers, DeletedRanked, DeletedLinked
  <1>3. ASSUME NEW i \in Levels, NEW x \in Node PROVE k.span[i][x] \in 0 .. N + 1
    <2>1. CASE i <= l.level /\ x \in Level(k, i)
      <3>1. i \in 1 .. l.level
        BY <1>1, <2>1, LevelsInUse
      <3>2. k.span[i][x] = q[k.forward[i][x]] - q[x]
        BY <2>1, <3>1, DeletedSpans
      <3>3. QED
        BY <1>2, <2>1, <3>2, SpansBounded
    <2>2. CASE ~(i <= l.level /\ x \in Level(k, i))
      <3>1. /\ (m \in Level(l, i) /\ x = m) => k.span[i][x] = 0
            /\ (x # u[i] /\ (x = m => m \notin Level(l, i))) => k.span[i][x] = l.span[i][x]
            /\ (i > l.level) => k.span[i][x] = l.span[i][x]
        BY DEF Deletion, DeletedAs
      <3>2. Level(k, i) = Level(l, i) \ {m}
        BY DeletedMembers
      <3>3. /\ u[i] \in Level(l, i) /\ u[i] # m
        <4>1. Sound(l, p) /\ m \in In(l) /\ Cut(l, p, p[m] - 1, i, u[i])
          BY DEF Deletion
        <4>2. QED
          BY <4>1, DeletedLink
      <3>4. i \in Nat /\ l.level \in Nat /\ 0 \in 0 .. N + 1
        BY <1>1, LevelsInUse, Nodes
      <3>5. k.span[i][x] = l.span[i][x] \/ k.span[i][x] = 0
        BY <2>2, <3>1, <3>2, <3>3, <3>4
      <3>6. QED
        BY <1>1, <3>4, <3>5 DEF Bounded
    <2>3. QED
      BY <2>1, <2>2
  <1>4. QED
    BY <1>3 DEF Bounded

\* A member leaves, the rest stays in place.
LEMMA DeletedSound ==
  ASSUME NEW l, NEW p, Sound(l, p), NEW m \in In(l)
  PROVE  LET k == Deleted(l, l.score[m], m)
         IN  /\ \E q : Sound(k, q)
             /\ In(k) = In(l) \ {m}
             /\ k.score = [l.score EXCEPT ![m] = 0]
  <1>1. PICK k : k = Deleted(l, l.score[m], m)
    OBVIOUS
  <1>2. PICK u : /\ \A i \in Levels : Cut(l, p, p[m] - 1, i, u[i]) /\ u[i] \in Node
                 /\ DeletedAs(l, k, m, u)
    BY <1>1, DeletedRight
  <1>3. PICK q : q = RankedOut(p, m)
    OBVIOUS
  <1>4. Deletion(l, p, k, q, m, u)
    BY <1>2, <1>3 DEF Deletion
  <1>5. Spanned(k, q)
    <2>1. ListType(l) /\ k.level \in 1 .. l.level
      BY <1>4, DeletedLevel DEF Deletion, Sound
    <2>2. 1 .. k.level \subseteq 1 .. l.level
      BY <2>1, LevelsInUse
    <2>3. QED
      BY <1>4, <2>2, DeletedSpans DEF Spanned
  <1>6. /\ ListType(k) /\ Ranked(k, q) /\ Linked(k, q) /\ Topped(k) /\ Bounded(k)
        /\ In(k) = In(l) \ {m}
    BY <1>4, DeletedMembers, DeletedRanked, DeletedLinked, DeletedTopped, DeletedBounded
  <1>7. k.score = [l.score EXCEPT ![m] = 0]
    BY <1>4 DEF Deletion, DeletedAs
  <1>8. QED
    BY <1>1, <1>5, <1>6, <1>7 DEF Sound

-----------------------------------------------------------------------------
(* The invariant. *)

\* The list has an order of ranks, and the dictionary's members with its scores.
ZInv ==
    /\ index \in [Member -> Scores \cup {Absent}]
    /\ \E p : Sound(zsl, p)
    /\ \A m \in Member : index[m] # Absent <=> m \in In(zsl)
    /\ \A m \in Member : zsl.score[m] = IF index[m] = Absent THEN 0 ELSE index[m]

\* The list a sorted set begins with is sound.
LEMMA EmptySound == \E p : Sound(EmptyList, p)
  <1>1. PICK l : l = EmptyList
    OBVIOUS
  <1>2. PICK p : p = [x \in Node \cup {End} |-> IF x = End THEN 1 ELSE 0]
    OBVIOUS
  <1>3. /\ l.score = [m \in Member |-> 0] /\ l.height = [m \in Member |-> 0]
        /\ l.forward = [i \in Levels |-> [x \in Node |-> End]]
        /\ l.span = [i \in Levels |-> [x \in Node |-> IF x = Header THEN 1 ELSE 0]]
        /\ l.level = 1 /\ l.length = 0
    BY <1>1 DEF EmptyList
  <1>4. ListType(l)
    BY <1>3, Nodes DEF ListType
  <1>5. In(l) = {}
    BY <1>3 DEF In
  <1>6. \A i \in Levels : Level(l, i) = {Header}
    <2>1. \A i \in Levels : ~(0 >= i)
      BY Nodes
    <2>2. \A m \in Member : l.height[m] = 0
      BY <1>3
    <2>3. QED
      BY <2>1, <2>2 DEF Level
  <1>7. p[Header] = 0 /\ p[End] = 1 /\ p \in [Node \cup {End} -> Nat]
    BY <1>2, Nodes
  <1>8. Ranked(l, p)
    BY <1>3, <1>5, <1>7 DEF Ranked
  <1>9. \A i \in Levels : \A x \in Node : l.forward[i][x] = End
    BY <1>3
  <1>10. Linked(l, p)
    BY <1>6, <1>7, <1>9, Nodes DEF Linked, Follows
  <1>11. Spanned(l, p)
    <2>1. \A i \in Levels : l.span[i][Header] = 1
      BY <1>3, Nodes
    <2>2. QED
      BY <1>4, <1>6, <1>7, <1>9, <2>1, LevelsInUse, Nodes DEF Spanned
  <1>12. Topped(l)
    BY <1>3 DEF Topped
  <1>13. Bounded(l)
    BY <1>3, Nodes DEF Bounded
  <1>14. QED
    BY <1>1, <1>4, <1>8, <1>10, <1>11, <1>12, <1>13 DEF Sound

\* The invariant holds at first.
LEMMA ZInit == Init => ZInv
  <1>1. SUFFICES ASSUME Init PROVE ZInv
    OBVIOUS
  <1>2. index = [m \in Member |-> Absent] /\ zsl = EmptyList
    BY <1>1 DEF Init
  <1>3. \E p : Sound(zsl, p)
    BY <1>2, EmptySound
  <1>4. In(zsl) = {} /\ \A m \in Member : zsl.score[m] = 0
    BY <1>2 DEF In, EmptyList
  <1>5. QED
    BY <1>2, <1>3, <1>4 DEF ZInv

\* A member's new score, by deletion and insertion, keeps the invariant.
LEMMA ZSetScore ==
  ASSUME ZInv, NEW m \in Member, NEW score \in Scores, SetScore(m, score)
  PROVE  ZInv'
  <1>1. /\ index \in [Member -> Scores \cup {Absent}]
        /\ \A x \in Member : index[x] # Absent <=> x \in In(zsl)
        /\ \A x \in Member : zsl.score[x] = IF index[x] = Absent THEN 0 ELSE index[x]
    BY DEF ZInv
  <1>2. PICK p : Sound(zsl, p)
    BY DEF ZInv
  <1>3. Scores \subseteq Int /\ Absent \notin Int
    BY ZSetAssumption DEF ZSetAssumption
  <1>4. PICK old : old = IF index[m] = Absent THEN zsl ELSE Deleted(zsl, index[m], m)
    OBVIOUS
  <1>5. /\ index' = [index EXCEPT ![m] = score]
        /\ \E h \in Levels : zsl' = Inserted(old, score, m, h)
    BY <1>4 DEF SetScore
  <1>6. PICK h \in Levels : zsl' = Inserted(old, score, m, h)
    BY <1>5
  <1>7. /\ \E q : Sound(old, q)
        /\ In(old) = In(zsl) \ {m}
        /\ \A x \in Member \ {m} : old.score[x] = zsl.score[x]
    <2>1. CASE index[m] = Absent
      <3>1. old = zsl /\ m \notin In(zsl)
        BY <1>1, <1>4, <2>1
      <3>2. QED
        BY <1>2, <3>1
    <2>2. CASE index[m] # Absent
      <3>1. m \in In(zsl) /\ zsl.score[m] = index[m]
        BY <1>1, <2>2
      <3>2. old = Deleted(zsl, zsl.score[m], m)
        BY <1>4, <2>2, <3>1
      <3>3. /\ \E q : Sound(old, q)
            /\ In(old) = In(zsl) \ {m}
            /\ old.score = [zsl.score EXCEPT ![m] = 0]
        BY <1>2, <3>1, <3>2, DeletedSound
      <3>4. zsl.score \in [Member -> Int]
        BY <1>2 DEF Sound, ListType
      <3>5. QED
        BY <3>3, <3>4
    <2>3. QED
      BY <2>1, <2>2
  <1>8. PICK q : Sound(old, q)
    BY <1>7
  <1>9. m \in Member \ In(old) /\ score \in Int
    BY <1>3, <1>7
  <1>10. PICK k : k = Inserted(old, score, m, h)
    OBVIOUS
  <1>11. /\ \E r : Sound(k, r)
         /\ In(k) = In(old) \cup {m}
         /\ k.score = [old.score EXCEPT ![m] = score]
    BY <1>8, <1>9, <1>10, InsertedSound
  <1>12. zsl' = k
    BY <1>6, <1>10
  <1>13. old.score \in [Member -> Int]
    BY <1>8 DEF Sound, ListType
  <1>14. /\ index' \in [Member -> Scores \cup {Absent}]
         /\ \A x \in Member : index'[x] = IF x = m THEN score ELSE index[x]
    BY <1>1, <1>5
  <1>15. \A x \in Member : zsl'.score[x] = IF x = m THEN score ELSE zsl.score[x]
    BY <1>7, <1>11, <1>12, <1>13
  <1>16. \E r : Sound(zsl', r)
    BY <1>11, <1>12
  <1>17. In(zsl') = In(zsl) \cup {m}
    BY <1>7, <1>11, <1>12
  <1>18. \A x \in Member : index'[x] # Absent <=> x \in In(zsl')
    BY <1>1, <1>3, <1>9, <1>14, <1>17
  <1>19. \A x \in Member : zsl'.score[x] = IF index'[x] = Absent THEN 0 ELSE index'[x]
    BY <1>1, <1>3, <1>9, <1>14, <1>15
  <1>20. In(zsl)' = In(zsl') /\ (\E r : Sound(zsl, r))' = (\E r : Sound(zsl', r))
    BY DEF In, Sound, ListType, Ranked, Linked, Spanned, Topped, Bounded, Follows, Level, Before, Less
  <1>21. QED
    BY <1>14, <1>16, <1>18, <1>19, <1>20 DEF ZInv

\* Removing a member keeps the invariant.
LEMMA ZRemove ==
  ASSUME ZInv, NEW m \in Member, Remove(m)
  PROVE  ZInv'
  <1>1. /\ index \in [Member -> Scores \cup {Absent}]
        /\ \A x \in Member : index[x] # Absent <=> x \in In(zsl)
        /\ \A x \in Member : zsl.score[x] = IF index[x] = Absent THEN 0 ELSE index[x]
    BY DEF ZInv
  <1>2. PICK p : Sound(zsl, p)
    BY DEF ZInv
  <1>3. index[m] # Absent /\ index' = [index EXCEPT ![m] = Absent] /\ zsl' = Deleted(zsl, index[m], m)
    BY DEF Remove
  <1>4. m \in In(zsl) /\ zsl.score[m] = index[m]
    BY <1>1, <1>3
  <1>5. PICK k : k = Deleted(zsl, zsl.score[m], m)
    OBVIOUS
  <1>6. /\ \E q : Sound(k, q)
        /\ In(k) = In(zsl) \ {m}
        /\ k.score = [zsl.score EXCEPT ![m] = 0]
    BY <1>2, <1>4, <1>5, DeletedSound
  <1>7. zsl' = k
    BY <1>3, <1>4, <1>5
  <1>8. zsl.score \in [Member -> Int]
    BY <1>2 DEF Sound, ListType
  <1>9. /\ index' \in [Member -> Scores \cup {Absent}]
        /\ \A x \in Member : index'[x] = IF x = m THEN Absent ELSE index[x]
    BY <1>1, <1>3
  <1>10. \A x \in Member : zsl'.score[x] = IF x = m THEN 0 ELSE zsl.score[x]
    BY <1>6, <1>7, <1>8
  <1>11. \A x \in Member : index'[x] # Absent <=> x \in In(zsl')
    BY <1>1, <1>6, <1>7, <1>9
  <1>12. \A x \in Member : zsl'.score[x] = IF index'[x] = Absent THEN 0 ELSE index'[x]
    BY <1>1, <1>9, <1>10
  <1>13. \E q : Sound(zsl', q)
    BY <1>6, <1>7
  <1>14. In(zsl)' = In(zsl') /\ (\E r : Sound(zsl, r))' = (\E r : Sound(zsl', r))
    BY DEF In, Sound, ListType, Ranked, Linked, Spanned, Topped, Bounded, Follows, Level, Before, Less
  <1>15. QED
    BY <1>9, <1>11, <1>12, <1>13, <1>14 DEF ZInv

\* Clear keeps the invariant.
LEMMA ZClear ==
  ASSUME Clear
  PROVE  ZInv'
  <1>1. index' = [m \in Member |-> Absent] /\ zsl' = EmptyList
    BY DEF Clear
  <1>2. \E p : Sound(zsl', p)
    BY <1>1, EmptySound
  <1>3. In(zsl') = {} /\ \A m \in Member : zsl'.score[m] = 0
    BY <1>1 DEF In, EmptyList
  <1>4. In(zsl)' = In(zsl') /\ (\E r : Sound(zsl, r))' = (\E r : Sound(zsl', r))
    BY DEF In, Sound, ListType, Ranked, Linked, Spanned, Topped, Bounded, Follows, Level, Before, Less
  <1>5. QED
    BY <1>1, <1>2, <1>3, <1>4 DEF ZInv

\* Every step keeps the invariant.
LEMMA ZStep == ZInv /\ [Next]_vars => ZInv'
  <1>1. SUFFICES ASSUME ZInv, [Next]_vars PROVE ZInv'
    OBVIOUS
  <1>2. CASE UNCHANGED vars
    <2>1. index' = index /\ zsl' = zsl
      BY <1>2 DEF vars
    <2>2. In(zsl)' = In(zsl') /\ (\E r : Sound(zsl, r))' = (\E r : Sound(zsl', r))
      BY DEF In, Sound, ListType, Ranked, Linked, Spanned, Topped, Bounded, Follows, Level, Before, Less
    <2>3. In(zsl)' = In(zsl) /\ (\E r : Sound(zsl, r))' = (\E r : Sound(zsl, r))
      BY <2>1, <2>2
    <2>4. QED
      BY <1>1, <2>1, <2>3 DEF ZInv
  <1>3. ASSUME NEW m \in Member, NEW s \in Scores, Add(m, s) PROVE ZInv'
    <2>1. CASE index[m] = s
      BY <1>2, <1>3, <2>1 DEF Add
    <2>2. CASE index[m] # s
      BY <1>1, <1>3, <2>2, ZSetScore DEF Add
    <2>3. QED
      BY <2>1, <2>2
  <1>4. ASSUME NEW m \in Member, NEW s \in Scores, IncrBy(m, s) PROVE ZInv'
    <2>1. PICK score : score = IF index[m] = Absent THEN s ELSE index[m] + s
      OBVIOUS
    <2>2. score \in Scores /\ (UNCHANGED vars \/ SetScore(m, score))
      BY <1>4, <2>1 DEF IncrBy
    <2>3. QED
      BY <1>1, <1>2, <2>2, ZSetScore
  <1>5. ASSUME NEW m \in Member, Remove(m) PROVE ZInv'
    BY <1>1, <1>5, ZRemove
  <1>6. CASE Clear
    BY <1>6, ZClear
  <1>7. QED
    BY <1>1, <1>2, <1>3, <1>4, <1>5, <1>6 DEF Next

\* For every bound on members and levels and all scores: the skip list always has
\* a ranking with which its links and spans agree, and its nodes are the
\* dictionary's members with the dictionary's scores.
THEOREM ZSetInvariant == Spec => []ZInv
  BY ZInit, ZStep, PTL DEF Spec

-----------------------------------------------------------------------------
(* What the invariant says of the dictionary's order. *)

\* What the invariant says of the dictionary and its order.
LEMMA Dictionary ==
  ASSUME ZInv
  PROVE  /\ Present = In(zsl)
         /\ \A m \in In(zsl) : zsl.score[m] = index[m] /\ index[m] \in Scores /\ m \in Member
         /\ \A i \in Levels : On(i) = Level(zsl, i)
         /\ \A a, b \in In(zsl) : Precedes(a, b) <=> Before(zsl, a, b)
  <1>1. Present = In(zsl)
    BY DEF ZInv, Present, In
  <1>2. \A m \in In(zsl) : zsl.score[m] = index[m] /\ index[m] \in Scores /\ m \in Member
    BY DEF ZInv, In
  <1>3. ListType(zsl)
    BY DEF ZInv, Sound
  <1>4. \A i \in Levels : On(i) = Level(zsl, i)
    BY <1>1, <1>3, LevelsRight DEF On
  <1>5. \A a, b \in In(zsl) : Precedes(a, b) <=> Before(zsl, a, b)
    BY <1>2 DEF Precedes, Before, Less
  <1>6. QED
    BY <1>1, <1>2, <1>4, <1>5

\* There are as many members between two ranks as the ranks are apart.
LEMMA Between ==
  ASSUME NEW l, NEW p, ListType(l), Ranked(l, p),
         NEW a \in 1 .. l.length + 1, NEW b \in a .. l.length + 1
  PROVE  /\ Cardinality({m \in In(l) : a <= p[m] /\ p[m] < b}) = b - a
         /\ IsFiniteSet({m \in In(l) : a <= p[m] /\ p[m] < b})
  <1>1. /\ \A x \in In(l) : p[x] \in 1 .. l.length
        /\ \A x, y \in In(l) : p[x] = p[y] => x = y
        /\ \A r \in 1 .. l.length : \E m \in In(l) : p[m] = r
        /\ l.length \in Nat
    <2>1. l.length \in Nat
      BY RanksRight
    <2>2. \A x \in In(l) : p[x] \in 1 .. l.length
      BY RanksRight
    <2>3. \A x, y \in In(l) \cup {Header, End} : p[x] = p[y] => x = y
      BY RanksRight
    <2>4. \A r \in 1 .. l.length : \E m \in In(l) : p[m] = r
      BY DEF Ranked
    <2>5. QED
      BY <2>1, <2>2, <2>3, <2>4
  <1>2. PICK A : A = {m \in In(l) : a <= p[m] /\ p[m] < b}
    OBVIOUS
  <1>3. PICK f : f = [x \in A |-> p[x]]
    OBVIOUS
  <1>4. \A x \in A : x \in In(l) /\ p[x] \in a .. b - 1
    BY <1>1, <1>2
  <1>5. \A r \in a .. b - 1 : \E x \in A : p[x] = r
    <2>1. ASSUME NEW r \in a .. b - 1 PROVE \E x \in A : p[x] = r
      <3>1. r \in 1 .. l.length /\ a <= r /\ r < b
        BY <1>1
      <3>2. PICK x \in In(l) : p[x] = r
        BY <1>1, <3>1
      <3>3. QED
        BY <1>2, <3>1, <3>2
    <2>2. QED
      BY <2>1
  <1>6. f \in Bijection(A, a .. b - 1)
    BY <1>1, <1>3, <1>4, <1>5 DEF Bijection, Injection, Surjection, IsInjective
  <1>7. A \subseteq In(l) /\ IsFiniteSet(In(l))
    BY <1>2, LengthRight
  <1>8. IsFiniteSet(A)
    BY <1>7, FS_Subset
  <1>9. IsFiniteSet(a .. b - 1) /\ Cardinality(a .. b - 1) = b - a
    <2>1. a \in Int /\ b - 1 \in Int /\ a <= b
      OBVIOUS
    <2>2. Cardinality(a .. b - 1) = IF a > b - 1 THEN 0 ELSE b - 1 - a + 1
      BY <2>1, FS_Interval
    <2>3. QED
      BY <2>1, <2>2, FS_Interval
  <1>10. ExistsBijection(A, a .. b - 1)
    BY <1>6 DEF ExistsBijection
  <1>11. Cardinality(A) = Cardinality(a .. b - 1)
    BY <1>8, <1>10, FS_Bijection
  <1>12. QED
    BY <1>2, <1>8, <1>9, <1>11

\* A node's position by the dictionary is its rank.
LEMMA PositionRight ==
  ASSUME ZInv, NEW p, Sound(zsl, p)
  PROVE  /\ \A x \in In(zsl) \cup {Header, End} : Position(x) = p[x]
         /\ Cardinality(Present) = zsl.length
  <1>1. ListType(zsl) /\ Ranked(zsl, p)
    BY DEF Sound
  <1>2. Present = In(zsl) /\ \A a, b \in In(zsl) : Precedes(a, b) <=> p[a] < p[b]
    BY <1>1, Dictionary DEF Ranked
  <1>3. Cardinality(Present) = zsl.length
    BY <1>1, <1>2, LengthRight
  <1>4. /\ \A x \in In(zsl) : p[x] \in 1 .. zsl.length
        /\ p[Header] = 0 /\ p[End] = zsl.length + 1 /\ zsl.length \in Nat
    BY <1>1, RanksRight
  <1>5. Position(Header) = p[Header]
    BY <1>4 DEF Position
  <1>6. Position(End) = p[End]
    BY <1>3, <1>4, Nodes DEF Position
  <1>7. ASSUME NEW x \in In(zsl) PROVE Position(x) = p[x]
    <2>1. x # Header /\ x # End
      BY Nodes DEF In
    <2>2. p[x] \in 1 .. zsl.length /\ 1 \in 1 .. zsl.length + 1 /\ p[x] \in 1 .. zsl.length + 1
      BY <1>4
    <2>3. {m \in Present : Precedes(m, x)} = {m \in In(zsl) : 1 <= p[m] /\ p[m] < p[x]}
      <3>1. ASSUME NEW m \in In(zsl) PROVE Precedes(m, x) <=> 1 <= p[m] /\ p[m] < p[x]
        <4>1. p[m] \in 1 .. zsl.length
          BY <1>4
        <4>2. QED
          BY <1>2, <1>4, <2>2, <4>1
      <3>2. QED
        BY <1>2, <3>1
    <2>4. Cardinality({m \in Present : Precedes(m, x)}) = p[x] - 1
      BY <1>1, <2>2, <2>3, Between
    <2>5. QED
      BY <2>1, <2>2, <2>4 DEF Position
  <1>8. QED
    BY <1>3, <1>5, <1>6, <1>7

\* The invariant gives the types.
LEMMA ZType == ZInv => TypeOK
  <1>1. SUFFICES ASSUME ZInv PROVE TypeOK
    OBVIOUS
  <1>2. PICK p : Sound(zsl, p)
    BY <1>1 DEF ZInv
  <1>3. ListType(zsl) /\ Ranked(zsl, p) /\ Linked(zsl, p) /\ Spanned(zsl, p) /\ Bounded(zsl)
    BY <1>2 DEF Sound
  <1>4. index \in [Member -> Scores \cup {Absent}]
    BY <1>1 DEF ZInv
  <1>5. zsl.score \in [Member -> Scores \cup {0}]
    <2>1. zsl.score \in [Member -> Int]
      BY <1>3 DEF ListType
    <2>2. \A m \in Member : zsl.score[m] \in Scores \cup {0}
      BY <1>1, <1>4 DEF ZInv
    <2>3. QED
      BY <2>1, <2>2
  <1>6. zsl.span \in [Levels -> [Node -> 0 .. N + 1]]
    <2>1. zsl.span \in [Levels -> [Node -> Int]]
      BY <1>3 DEF ListType
    <2>2. \A i \in Levels : \A x \in Node : zsl.span[i][x] \in 0 .. N + 1
      BY <1>3 DEF Bounded
    <2>3. ASSUME NEW i \in Levels PROVE zsl.span[i] \in [Node -> 0 .. N + 1]
      <3>1. zsl.span[i] \in [Node -> Int]
        BY <2>1
      <3>2. QED
        BY <2>2, <3>1
    <2>4. QED
      BY <2>1, <2>3
  <1>7. ASSUME NEW i \in 1 .. zsl.level, NEW x \in On(i) PROVE zsl.span[i][x] > 0
    <2>1. i \in Levels
      BY <1>3, LevelsInUse
    <2>2. x \in Level(zsl, i)
      BY <1>1, <1>7, <2>1, Dictionary
    <2>3. PICK y : y = zsl.forward[i][x]
      OBVIOUS
    <2>4. Follows(zsl, p, i, x, y) /\ zsl.span[i][x] = p[y] - p[x]
      BY <1>3, <2>1, <2>2, <2>3 DEF Linked, Spanned
    <2>5. Level(zsl, i) \cup {End} \subseteq In(zsl) \cup {Header, End}
      BY <1>3, <2>1, LevelsRight
    <2>6. p[x] \in Nat /\ p[y] \in Nat /\ p[x] < p[y]
      BY <1>3, <2>2, <2>4, <2>5, RanksRight DEF Follows
    <2>7. QED
      BY <2>4, <2>6
  <1>8. zsl.length \in 0 .. N
    <2>1. zsl.length \in Nat /\ zsl.length <= N /\ N \in Nat
      BY <1>3, LengthRight, Nodes DEF ListType
    <2>2. QED
      BY <2>1
  <1>9. /\ zsl.height \in [Member -> 0 .. MaxLevel]
        /\ zsl.forward \in [Levels -> [Node -> Member \cup {End}]]
        /\ zsl.level \in Levels
    BY <1>3 DEF ListType
  <1>10. QED
    BY <1>4, <1>5, <1>6, <1>7, <1>8, <1>9 DEF TypeOK

\* The invariant gives the spans.
LEMMA ZSpans == ZInv => SpansRight
  <1>1. SUFFICES ASSUME ZInv, NEW i \in 1 .. zsl.level, NEW x \in On(i)
                 PROVE  zsl.span[i][x] = Position(zsl.forward[i][x]) - Position(x)
    BY DEF SpansRight
  <1>2. PICK p : Sound(zsl, p)
    BY <1>1 DEF ZInv
  <1>3. ListType(zsl) /\ Ranked(zsl, p) /\ Linked(zsl, p) /\ Spanned(zsl, p)
    BY <1>2 DEF Sound
  <1>4. i \in Levels /\ x \in Level(zsl, i)
    BY <1>1, <1>3, LevelsInUse, Dictionary
  <1>5. PICK y : y = zsl.forward[i][x]
    OBVIOUS
  <1>6. y \in Level(zsl, i) \cup {End} /\ zsl.span[i][x] = p[y] - p[x]
    BY <1>3, <1>4, <1>5 DEF Linked, Follows, Spanned
  <1>7. Level(zsl, i) \cup {End} \subseteq In(zsl) \cup {Header, End}
    BY <1>3, <1>4, LevelsRight
  <1>8. Position(x) = p[x] /\ Position(y) = p[y]
    BY <1>1, <1>2, <1>4, <1>6, <1>7, PositionRight
  <1>9. QED
    BY <1>5, <1>6, <1>8

\* The span of every link is the difference of the ranks of its ends.
THEOREM ZSetSpansRight == Spec => []SpansRight
  BY ZSetInvariant, ZSpans, PTL

\* Every variable has its type, spans of used links are never 0.
THEOREM ZSetTypeCorrect == Spec => []TypeOK
  BY ZSetInvariant, ZType, PTL

-----------------------------------------------------------------------------
(* The sequence of nodes along level 1. *)

\* A sequence put in front of another, element by element.
LEMMA ConsRight ==
  ASSUME NEW S, NEW y \in S, NEW s \in Seq(S), NEW t \in Seq(S), Len(t) = Len(s) + 1,
         t[1] = y, \A j \in 1 .. Len(s) : t[j + 1] = s[j]
  PROVE  <<y>> \o s = t
  <1>1. PICK h : h = <<y>>
    OBVIOUS
  <1>2. h \in Seq(S) /\ Len(h) = 1 /\ h[1] = y
    BY <1>1
  <1>3. Len(s) \in Nat /\ Len(t) \in Nat
    BY LenProperties
  <1>4. PICK c : c = h \o s
    OBVIOUS
  <1>5. /\ c \in Seq(S) /\ Len(c) = Len(h) + Len(s)
        /\ \A i \in 1 .. Len(h) + Len(s) : c[i] = IF i <= Len(h) THEN h[i] ELSE s[i - Len(h)]
    BY <1>2, <1>4, ConcatProperties
  <1>6. Len(c) = Len(t)
    BY <1>2, <1>3, <1>5
  <1>7. ASSUME NEW i \in 1 .. Len(c) PROVE c[i] = t[i]
    <2>1. c[i] = IF i <= 1 THEN h[i] ELSE s[i - 1]
      BY <1>2, <1>5, <1>7
    <2>2. CASE i = 1
      BY <1>2, <2>1, <2>2
    <2>3. CASE i # 1
      <3>1. i - 1 \in 1 .. Len(s) /\ (i - 1) + 1 = i
        BY <1>2, <1>3, <1>5, <1>7, <2>3
      <3>2. t[(i - 1) + 1] = s[i - 1]
        BY <3>1
      <3>3. t[i] = s[i - 1]
        BY <3>1, <3>2
      <3>4. QED
        BY <1>2, <1>3, <1>5, <1>7, <2>1, <2>3, <3>3
    <2>4. QED
      BY <2>2, <2>3
  <1>8. c = t
    BY <1>5, <1>6, <1>7, SeqEqual
  <1>9. QED
    BY <1>1, <1>4, <1>8

\* The order by the dictionary lists the members by rank.
LEMMA SortedRight ==
  ASSUME ZInv, NEW p, Sound(zsl, p)
  PROVE  /\ Sorted \in Seq(Member) /\ Len(Sorted) = zsl.length
         /\ \A k \in 1 .. zsl.length : Sorted[k] \in In(zsl) /\ p[Sorted[k]] = k
         /\ \A x \in In(zsl) : p[x] \in 1 .. zsl.length /\ Sorted[p[x]] = x
  <1>1. ListType(zsl) /\ Ranked(zsl, p)
    BY DEF Sound
  <1>2. /\ Cardinality(Present) = zsl.length /\ Present = In(zsl)
        /\ \A x \in In(zsl) : Position(x) = p[x]
    BY PositionRight, Dictionary
  <1>3. /\ \A x \in In(zsl) : p[x] \in 1 .. zsl.length
        /\ \A x, y \in In(zsl) : p[x] = p[y] => x = y
        /\ \A k \in 1 .. zsl.length : \E x \in In(zsl) : p[x] = k
        /\ zsl.length \in Nat /\ In(zsl) \subseteq Member
    <2>1. /\ \A x \in In(zsl) : p[x] \in 1 .. zsl.length
          /\ \A x, y \in In(zsl) : p[x] = p[y] => x = y
          /\ zsl.length \in Nat
      BY <1>1, RanksRight
    <2>2. \A k \in 1 .. zsl.length : \E x \in In(zsl) : p[x] = k
      BY <1>1 DEF Ranked
    <2>3. In(zsl) \subseteq Member
      BY DEF In
    <2>4. QED
      BY <2>1, <2>2, <2>3
  <1>4. Sorted = [k \in 1 .. zsl.length |-> CHOOSE x \in Present : Position(x) = k]
    BY <1>2 DEF Sorted
  <1>5. ASSUME NEW k \in 1 .. zsl.length PROVE Sorted[k] \in In(zsl) /\ p[Sorted[k]] = k
    <2>1. \E x \in Present : Position(x) = k
      BY <1>2, <1>3
    <2>2. Sorted[k] \in Present /\ Position(Sorted[k]) = k
      BY <1>4, <2>1
    <2>3. QED
      BY <1>2, <2>2
  <1>6. Sorted \in [1 .. zsl.length -> Member]
    BY <1>3, <1>4, <1>5
  <1>7. Sorted \in Seq(Member) /\ Len(Sorted) = zsl.length
    BY <1>3, <1>6
  <1>8. \A x \in In(zsl) : Sorted[p[x]] = x
    BY <1>3, <1>5
  <1>9. QED
    BY <1>3, <1>5, <1>7, <1>8

\* The sorted members from rank a on, up to rank b.
Segment(a, b) == [j \in 1 .. b - a |-> Sorted[a + j - 1]]

\* A segment has the members between two ranks.
LEMMA SegmentRight ==
  ASSUME ZInv, NEW a \in 1 .. zsl.length + 1, NEW b \in a .. zsl.length + 1
  PROVE  /\ Segment(a, b) \in Seq(Member) /\ Len(Segment(a, b)) = b - a
         /\ \A j \in 1 .. b - a : Segment(a, b)[j] = Sorted[a + j - 1]
         /\ zsl.length \in Nat
  <1>1. PICK p : Sound(zsl, p)
    BY DEF ZInv
  <1>2. zsl.length \in Nat /\ Sorted \in Seq(Member) /\ Len(Sorted) = zsl.length
    BY <1>1, SortedRight DEF Sound, ListType
  <1>3. \A k \in 1 .. zsl.length : Sorted[k] \in Member
    BY <1>2
  <1>4. PICK d : d = b - a
    OBVIOUS
  <1>5. d \in Nat /\ \A j \in 1 .. d : a + j - 1 \in 1 .. zsl.length
    BY <1>2, <1>4
  <1>6. PICK s : s = [j \in 1 .. d |-> Sorted[a + j - 1]]
    OBVIOUS
  <1>7. s \in [1 .. d -> Member]
    BY <1>3, <1>5, <1>6
  <1>8. s \in Seq(Member) /\ Len(s) = d
    BY <1>5, <1>7
  <1>9. s = Segment(a, b)
    BY <1>4, <1>6 DEF Segment
  <1>10. QED
    BY <1>2, <1>4, <1>6, <1>8, <1>9

\* Between a rank and itself there is nothing.
LEMMA SegmentEmpty ==
  ASSUME ZInv, NEW a \in 1 .. zsl.length + 1
  PROVE  Segment(a, a) = <<>>
  <1>1. PICK s : s = Segment(a, a)
    OBVIOUS
  <1>2. a \in a .. zsl.length + 1 /\ a - a = 0
    <2>1. PICK p : Sound(zsl, p)
      BY DEF ZInv
    <2>2. zsl.length \in Nat
      BY <2>1 DEF Sound, ListType
    <2>3. QED
      BY <2>2
  <1>3. s \in Seq(Member) /\ Len(s) = 0
    BY <1>1, <1>2, SegmentRight
  <1>4. QED
    BY <1>1, <1>3, EmptySeq

\* A segment is its first member and the rest.
LEMMA SegmentUnfolds ==
  ASSUME ZInv, NEW a \in 1 .. zsl.length, NEW b \in a + 1 .. zsl.length + 1
  PROVE  <<Sorted[a]>> \o Segment(a + 1, b) = Segment(a, b)
  <1>0. PICK p : Sound(zsl, p)
    BY DEF ZInv
  <1>1. zsl.length \in Nat /\ Sorted[a] \in Member
    BY <1>0, SortedRight DEF Sound, ListType, In
  <1>2. PICK y : y = Sorted[a]
    OBVIOUS
  <1>3. PICK s : s = Segment(a + 1, b)
    OBVIOUS
  <1>4. PICK t : t = Segment(a, b)
    OBVIOUS
  <1>5. /\ a + 1 \in 1 .. zsl.length + 1 /\ a \in 1 .. zsl.length + 1 /\ b \in a .. zsl.length + 1
    BY <1>1
  <1>6. /\ s \in Seq(Member) /\ Len(s) = b - (a + 1)
        /\ \A j \in 1 .. b - (a + 1) : s[j] = Sorted[(a + 1) + j - 1]
    BY <1>3, <1>5, SegmentRight
  <1>7. /\ t \in Seq(Member) /\ Len(t) = b - a
        /\ \A j \in 1 .. b - a : t[j] = Sorted[a + j - 1]
    BY <1>4, <1>5, SegmentRight
  <1>8. Len(t) = Len(s) + 1
    BY <1>1, <1>6, <1>7
  <1>9. t[1] = y
    <2>1. 1 \in 1 .. b - a /\ a + 1 - 1 = a
      BY <1>1
    <2>2. t[1] = Sorted[a + 1 - 1]
      BY <1>7, <2>1
    <2>3. QED
      BY <1>2, <2>1, <2>2
  <1>10. ASSUME NEW j \in 1 .. Len(s) PROVE t[j + 1] = s[j]
    <2>1. j \in 1 .. b - (a + 1) /\ j + 1 \in 1 .. b - a
      BY <1>1, <1>6
    <2>2. s[j] = Sorted[(a + 1) + j - 1] /\ t[j + 1] = Sorted[a + (j + 1) - 1]
      BY <1>6, <1>7, <2>1
    <2>3. (a + 1) + j - 1 = a + (j + 1) - 1
      BY <1>1, <2>1
    <2>4. QED
      BY <2>2, <2>3
  <1>11. <<y>> \o s = t
    BY <1>1, <1>2, <1>6, <1>7, <1>8, <1>9, <1>10, ConsRight
  <1>12. QED
    BY <1>2, <1>3, <1>4, <1>11

\* On level 1 a link leads to the next rank.
LEMMA NextRank ==
  ASSUME NEW l, NEW p, Sound(l, p), NEW x \in In(l) \cup {Header}
  PROVE  l.forward[1][x] \in In(l) \cup {End} /\ p[l.forward[1][x]] = p[x] + 1
  <1>1. ListType(l) /\ Ranked(l, p) /\ Linked(l, p)
    BY DEF Sound
  <1>2. Level(l, 1) = {Header} \cup In(l) /\ 1 \in Levels
    BY <1>1, LevelsRight, Nodes
  <1>3. /\ \A z \in In(l) : p[z] \in 1 .. l.length
        /\ p[Header] = 0 /\ p[End] = l.length + 1 /\ l.length \in Nat
        /\ \A r \in 1 .. l.length : \E m \in In(l) : p[m] = r
    BY <1>1, RanksRight DEF Ranked
  <1>4. PICK y : y = l.forward[1][x]
    OBVIOUS
  <1>5. /\ y \in {Header} \cup In(l) \cup {End} /\ p[x] < p[y]
        /\ \A z \in {Header} \cup In(l) : p[z] <= p[x] \/ p[y] <= p[z]
    BY <1>1, <1>2, <1>4 DEF Linked, Follows
  <1>6. p[x] \in 0 .. l.length /\ p[y] \in Nat /\ y # Header
    BY <1>3, <1>5
  <1>7. p[y] <= p[x] + 1
    <2>1. CASE p[x] = l.length
      BY <1>3, <1>5, <1>6, <2>1
    <2>2. CASE p[x] # l.length
      <3>1. PICK z \in In(l) : p[z] = p[x] + 1
        BY <1>3, <1>6, <2>2
      <3>2. p[z] <= p[x] \/ p[y] <= p[z]
        BY <1>5
      <3>3. QED
        BY <1>6, <3>1, <3>2
    <2>3. QED
      BY <2>1, <2>2
  <1>8. QED
    BY <1>4, <1>5, <1>6, <1>7

\* From rank a on, b is the first rank that goes says no of, or the one behind the last.
StopsAt(goes, a, b) ==
    /\ b \in a .. zsl.length + 1
    /\ \A k \in a .. b - 1 : goes[Sorted[k]]
    /\ b = zsl.length + 1 \/ ~goes[Sorted[b]]

Stop(goes, a) == CHOOSE b : StopsAt(goes, a, b)

\* There is one first rank at which to stop, and one finds it step by step.
LEMMA StopRight ==
  ASSUME zsl.length \in Nat, NEW goes, NEW a \in 1 .. zsl.length + 1
  PROVE  /\ StopsAt(goes, a, Stop(goes, a))
         /\ (a = zsl.length + 1 \/ ~goes[Sorted[a]]) => Stop(goes, a) = a
         /\ (a # zsl.length + 1 /\ goes[Sorted[a]]) =>
               /\ Stop(goes, a) = Stop(goes, a + 1)
               /\ a + 1 \in 1 .. zsl.length + 1 /\ Stop(goes, a) \in a + 1 .. zsl.length + 1
  <1>1. ASSUME NEW c \in 1 .. zsl.length + 1 PROVE \E b : StopsAt(goes, c, b)
    <2>1. PICK T : T = {b \in c .. zsl.length + 1 : b = zsl.length + 1 \/ ~goes[Sorted[b]]}
      OBVIOUS
    <2>2. zsl.length + 1 \in T /\ T \in SUBSET Nat
      BY <2>1
    <2>3. PICK b \in T : \A d \in T : b <= d
      BY <2>2, LeastNat
    <2>4. b \in c .. zsl.length + 1 /\ (b = zsl.length + 1 \/ ~goes[Sorted[b]])
      BY <2>1, <2>3
    <2>5. ASSUME NEW k \in c .. b - 1 PROVE goes[Sorted[k]]
      <3>1. k \in c .. zsl.length + 1 /\ ~(b <= k) /\ k # zsl.length + 1
        BY <2>4
      <3>2. k \notin T
        BY <2>3, <3>1
      <3>3. QED
        BY <2>1, <3>1, <3>2
    <2>6. QED
      BY <2>4, <2>5 DEF StopsAt
  <1>2. ASSUME NEW c \in 1 .. zsl.length + 1, NEW b, NEW d, StopsAt(goes, c, b), StopsAt(goes, c, d)
        PROVE  ~(b < d)
    <2>1. SUFFICES ASSUME b < d PROVE FALSE
      OBVIOUS
    <2>2. b \in c .. zsl.length + 1 /\ d \in c .. zsl.length + 1 /\ (b = zsl.length + 1 \/ ~goes[Sorted[b]])
      BY <1>2 DEF StopsAt
    <2>3. b \in c .. d - 1 /\ b # zsl.length + 1
      BY <2>1, <2>2
    <2>4. goes[Sorted[b]]
      BY <1>2, <2>3 DEF StopsAt
    <2>5. QED
      BY <2>2, <2>3, <2>4
  <1>3. ASSUME NEW c \in 1 .. zsl.length + 1 PROVE StopsAt(goes, c, Stop(goes, c))
    BY <1>1 DEF Stop
  <1>4. ASSUME NEW c \in 1 .. zsl.length + 1, NEW b, StopsAt(goes, c, b) PROVE Stop(goes, c) = b
    <2>1. StopsAt(goes, c, Stop(goes, c))
      BY <1>3
    <2>2. ~(b < Stop(goes, c)) /\ ~(Stop(goes, c) < b)
      BY <1>2, <1>4, <2>1
    <2>3. b \in c .. zsl.length + 1 /\ Stop(goes, c) \in c .. zsl.length + 1
      BY <1>4, <2>1 DEF StopsAt
    <2>4. QED
      BY <2>2, <2>3
  <1>5. ASSUME a = zsl.length + 1 \/ ~goes[Sorted[a]] PROVE Stop(goes, a) = a
    <2>1. StopsAt(goes, a, a)
      BY <1>5 DEF StopsAt
    <2>2. QED
      BY <1>4, <2>1
  <1>6. ASSUME a # zsl.length + 1, goes[Sorted[a]]
        PROVE  /\ Stop(goes, a) = Stop(goes, a + 1)
               /\ a + 1 \in 1 .. zsl.length + 1 /\ Stop(goes, a) \in a + 1 .. zsl.length + 1
    <2>1. a + 1 \in 1 .. zsl.length + 1
      BY <1>6
    <2>2. PICK b : b = Stop(goes, a + 1)
      OBVIOUS
    <2>3. StopsAt(goes, a + 1, b)
      BY <1>3, <2>1, <2>2
    <2>4. b \in a .. zsl.length + 1 /\ b \in a + 1 .. zsl.length + 1
      BY <2>3 DEF StopsAt
    <2>5. \A k \in a .. b - 1 : k = a \/ k \in a + 1 .. b - 1
      BY <2>4
    <2>6. StopsAt(goes, a, b)
      BY <1>6, <2>3, <2>4, <2>5 DEF StopsAt
    <2>7. Stop(goes, a) = b
      BY <1>4, <2>6
    <2>8. QED
      BY <2>1, <2>2, <2>4, <2>7
  <1>7. QED
    BY <1>3, <1>5, <1>6

\* nodes is the function While takes its values from.
NodesOf(nodes, goes) ==
    nodes = [y \in Member \cup {End} |->
                IF y # End /\ goes[y] THEN <<y>> \o nodes[zsl.forward[1][y]] ELSE <<>>]

\* The recursion along level 1 is defined.
LEMMA NodesExist ==
  ASSUME ZInv, NEW goes
  PROVE  \E nodes : NodesOf(nodes, goes)
  <1>1. PICK p : Sound(zsl, p)
    BY DEF ZInv
  <1>2. ListType(zsl) /\ Ranked(zsl, p) /\ Linked(zsl, p)
    BY <1>1 DEF Sound
  <1>3. /\ \A x \in In(zsl) : p[x] \in 1 .. zsl.length
        /\ p[End] = zsl.length + 1 /\ zsl.length \in Nat
        /\ In(zsl) \subseteq Member /\ 1 \in Levels /\ Level(zsl, 1) = {Header} \cup In(zsl)
    BY <1>2, RanksRight, LevelsRight, Nodes DEF In
  <1>4. PICK g : g = [y \in Member \cup {End} |->
                         IF y \in In(zsl) \cup {End} THEN Segment(p[y], Stop(goes, p[y]))
                         ELSE IF goes[y] THEN <<y>> \o Segment(zsl.length + 1, zsl.length + 1)
                         ELSE Segment(zsl.length + 1, zsl.length + 1)]
    OBVIOUS
  <1>5. PICK nothing : nothing = <<>>
    OBVIOUS
  <1>6. \A n \in 1 .. zsl.length + 1 : Segment(n, n) = nothing
    BY <1>5, SegmentEmpty
  <1>7. \A y \in In(zsl) \cup {End} : g[y] = Segment(p[y], Stop(goes, p[y])) /\ p[y] \in 1 .. zsl.length + 1
    BY <1>3, <1>4, Nodes
  <1>8. ASSUME NEW y \in Member \cup {End}
        PROVE  g[y] = IF y # End /\ goes[y] THEN <<y>> \o g[zsl.forward[1][y]] ELSE nothing
    <2>1. CASE y = End
      <3>1. Stop(goes, zsl.length + 1) = zsl.length + 1 /\ zsl.length + 1 \in 1 .. zsl.length + 1
        BY <1>3, StopRight
      <3>2. QED
        BY <1>3, <1>6, <1>7, <2>1, <3>1
    <2>2. CASE y \in In(zsl)
      <3>1. PICK z : z = zsl.forward[1][y]
        OBVIOUS
      <3>2. z \in In(zsl) \cup {End} /\ p[z] = p[y] + 1
        BY <1>1, <2>2, <3>1, NextRank
      <3>3. Sorted[p[y]] = y /\ p[y] \in 1 .. zsl.length /\ p[y] \in 1 .. zsl.length + 1 /\ p[y] # zsl.length + 1
        BY <1>1, <1>3, <2>2, SortedRight
      <3>4. y # End
        BY <1>3, <2>2, Nodes
      <3>5. CASE goes[y]
        <4>1. Stop(goes, p[y]) = Stop(goes, p[y] + 1) /\ Stop(goes, p[y]) \in p[y] + 1 .. zsl.length + 1
          BY <1>3, <3>3, <3>5, StopRight
        <4>2. PICK b : b = Stop(goes, p[y])
          OBVIOUS
        <4>3. g[z] = Segment(p[y] + 1, b) /\ g[y] = Segment(p[y], b)
          BY <1>7, <2>2, <3>2, <4>1, <4>2
        <4>4. PICK n : n = p[y]
          OBVIOUS
        <4>5. <<Sorted[n]>> \o Segment(n + 1, b) = Segment(n, b)
          BY <3>3, <4>1, <4>2, <4>4, SegmentUnfolds
        <4>6. QED
          BY <3>1, <3>3, <3>4, <3>5, <4>3, <4>4, <4>5
      <3>6. CASE ~goes[y]
        <4>1. Stop(goes, p[y]) = p[y]
          BY <1>3, <3>3, <3>6, StopRight
        <4>2. QED
          BY <1>6, <1>7, <2>2, <3>3, <3>6, <4>1
      <3>7. QED
        BY <3>5, <3>6
    <2>3. CASE y \notin In(zsl) \cup {End}
      <3>1. y \in Node \ Level(zsl, 1)
        BY <1>3, <2>3, Nodes
      <3>2. zsl.forward[1][y] = End
        BY <1>2, <1>3, <3>1 DEF Linked
      <3>3. zsl.length + 1 \in 1 .. zsl.length + 1
        BY <1>3
      <3>4. Stop(goes, zsl.length + 1) = zsl.length + 1
        BY <1>3, <3>3, StopRight
      <3>5. g[End] = nothing
        BY <1>3, <1>6, <1>7, <3>3, <3>4
      <3>6. g[y] = IF goes[y] THEN <<y>> \o nothing ELSE nothing
        BY <1>4, <1>6, <2>3, <3>3
      <3>7. QED
        BY <2>3, <3>2, <3>5, <3>6
    <2>4. QED
      BY <2>1, <2>2, <2>3
  <1>9. g = [y \in Member \cup {End} |-> IF y # End /\ goes[y] THEN <<y>> \o g[zsl.forward[1][y]] ELSE nothing]
    BY <1>4, <1>8
  <1>10. QED
    BY <1>5, <1>9 DEF NodesOf

\* While answers the members from a node on up to the first that may not be passed.
LEMMA WhileRight ==
  ASSUME ZInv, NEW p, Sound(zsl, p), NEW goes
  PROVE  \A y \in In(zsl) \cup {End} :
            /\ p[y] \in 1 .. zsl.length + 1
            /\ StopsAt(goes, p[y], Stop(goes, p[y]))
            /\ While(y, goes) = Segment(p[y], Stop(goes, p[y]))
  <1> DEFINE nodes == CHOOSE f : f = [y \in Member \cup {End} |->
                IF y # End /\ goes[y] THEN <<y>> \o f[zsl.forward[1][y]] ELSE <<>>]
  <1>1. nodes = [y \in Member \cup {End} |->
                IF y # End /\ goes[y] THEN <<y>> \o nodes[zsl.forward[1][y]] ELSE <<>>]
    <2>1. \E f : f = [y \in Member \cup {End} |->
                IF y # End /\ goes[y] THEN <<y>> \o f[zsl.forward[1][y]] ELSE <<>>]
      BY NodesExist, Zenon DEF NodesOf
    <2>2. QED
      BY <2>1, Zenon
  <1>2. \A y : While(y, goes) = nodes[y]
    BY Zenon DEF While
  <1> HIDE DEF nodes
  <1>3. ListType(zsl) /\ Ranked(zsl, p)
    BY DEF Sound
  <1>4. /\ \A x \in In(zsl) : p[x] \in 1 .. zsl.length
        /\ p[End] = zsl.length + 1 /\ zsl.length \in Nat /\ In(zsl) \subseteq Member
        /\ End \notin In(zsl)
    BY <1>3, RanksRight, Nodes DEF In
  <1>5. PICK nothing : nothing = <<>>
    OBVIOUS
  <1>6. /\ nodes[End] = nothing
        /\ \A y \in In(zsl) : nodes[y] = IF goes[y] THEN <<y>> \o nodes[zsl.forward[1][y]] ELSE nothing
    <2>1. \A y \in Member \cup {End} :
             nodes[y] = IF y # End /\ goes[y] THEN <<y>> \o nodes[zsl.forward[1][y]] ELSE nothing
      BY <1>1, <1>5
    <2>2. QED
      BY <1>4, <2>1
  <1>7. /\ \A n \in 1 .. zsl.length + 1 : Segment(n, n) = nothing
        /\ \A y \in In(zsl) \cup {End} : p[y] \in 1 .. zsl.length + 1
    BY <1>4, <1>5, SegmentEmpty
  <1>8. \A y \in In(zsl) \cup {End} : StopsAt(goes, p[y], Stop(goes, p[y]))
    BY <1>4, <1>7, StopRight
  <1> DEFINE Right(y) == nodes[y] = Segment(p[y], Stop(goes, p[y]))
             T == {n \in Nat : \E y \in In(zsl) \cup {End} : ~Right(y) /\ n = zsl.length + 1 - p[y]}
  <1>9. ASSUME T # {} PROVE FALSE
    <2>1. PICK n \in T : \A k \in T : n <= k
      <3>1. T \in SUBSET Nat
        OBVIOUS
      <3> HIDE DEF T
      <3>2. QED
        BY <1>9, <3>1, LeastNat
    <2>2. PICK y \in In(zsl) \cup {End} : ~Right(y) /\ n = zsl.length + 1 - p[y]
      BY <2>1
    <2>3. y \in In(zsl)
      <3>1. zsl.length + 1 \in 1 .. zsl.length + 1
        BY <1>4
      <3>2. Stop(goes, zsl.length + 1) = zsl.length + 1
        BY <1>4, <3>1, StopRight
      <3>3. Right(End)
        BY <1>4, <1>6, <1>7, <3>1, <3>2
      <3>4. QED
        BY <2>2, <3>3
    <2>4. PICK z : z = zsl.forward[1][y]
      OBVIOUS
    <2>5. z \in In(zsl) \cup {End} /\ p[z] = p[y] + 1
      BY <2>3, <2>4, NextRank
    <2>6. Sorted[p[y]] = y /\ p[y] \in 1 .. zsl.length /\ p[y] # zsl.length + 1
      BY <1>4, <2>3, SortedRight
    <2>7. CASE goes[y]
      <3>1. zsl.length + 1 - p[z] \in Nat /\ zsl.length + 1 - p[z] < n
        BY <1>4, <2>2, <2>5, <2>6
      <3>2. zsl.length + 1 - p[z] \notin T
        BY <2>1, <3>1
      <3>3. nodes[z] = Segment(p[z], Stop(goes, p[z]))
        BY <2>5, <3>1, <3>2
      <3>4. PICK b, m : b = Stop(goes, p[y]) /\ m = p[y]
        OBVIOUS
      <3>5. b = Stop(goes, m + 1) /\ b \in m + 1 .. zsl.length + 1
        BY <1>4, <1>7, <2>3, <2>6, <2>7, <3>4, StopRight
      <3>6. <<Sorted[m]>> \o Segment(m + 1, b) = Segment(m, b)
        BY <2>6, <3>4, <3>5, SegmentUnfolds
      <3>7. nodes[y] = <<y>> \o nodes[z]
        BY <1>6, <2>3, <2>4, <2>7
      <3>8. nodes[y] = Segment(m, b)
        BY <2>5, <2>6, <3>3, <3>4, <3>5, <3>6, <3>7
      <3>9. QED
        BY <2>2, <3>4, <3>8
    <2>8. CASE ~goes[y]
      <3>1. Stop(goes, p[y]) = p[y]
        BY <1>4, <1>7, <2>3, <2>6, <2>8, StopRight
      <3>2. nodes[y] = nothing
        BY <1>6, <2>3, <2>8
      <3>3. Segment(p[y], p[y]) = nothing
        BY <1>7, <2>3
      <3>4. QED
        BY <2>2, <3>1, <3>2, <3>3
    <2>9. QED
      BY <2>7, <2>8
  <1>10. ASSUME NEW y \in In(zsl) \cup {End} PROVE nodes[y] = Segment(p[y], Stop(goes, p[y]))
    <2>1. zsl.length + 1 - p[y] \in Nat
      BY <1>4, <1>7
    <2>2. QED
      BY <1>9, <2>1
  <1>11. QED
    BY <1>2, <1>7, <1>8, <1>10

\* From answers the rest of the order.
LEMMA FromRight ==
  ASSUME ZInv, NEW p, Sound(zsl, p)
  PROVE  \A y \in In(zsl) \cup {End} :
            p[y] \in 1 .. zsl.length + 1 /\ From(y) = Segment(p[y], zsl.length + 1)
  <1>1. PICK goes : goes = [y \in Member |-> TRUE]
    OBVIOUS
  <1>2. zsl.length \in Nat /\ \A k \in 1 .. zsl.length : Sorted[k] \in Member
    BY SortedRight DEF Sound, ListType, In
  <1>3. ASSUME NEW y \in In(zsl) \cup {End}
        PROVE  p[y] \in 1 .. zsl.length + 1 /\ From(y) = Segment(p[y], zsl.length + 1)
    <2>1. PICK b : b = Stop(goes, p[y])
      OBVIOUS
    <2>2. p[y] \in 1 .. zsl.length + 1 /\ StopsAt(goes, p[y], b) /\ While(y, goes) = Segment(p[y], b)
      BY <2>1, WhileRight
    <2>3. b \in p[y] .. zsl.length + 1 /\ (b = zsl.length + 1 \/ ~goes[Sorted[b]])
      BY <2>2 DEF StopsAt
    <2>4. b = zsl.length + 1
      <3>1. SUFFICES ASSUME b # zsl.length + 1 PROVE FALSE
        OBVIOUS
      <3>2. b \in 1 .. zsl.length
        BY <1>2, <2>2, <2>3, <3>1
      <3>3. goes[Sorted[b]]
        BY <1>1, <1>2, <3>2
      <3>4. QED
        BY <2>3, <3>1, <3>3
    <2>5. From(y) = While(y, goes)
      BY <1>1 DEF From
    <2>6. QED
      BY <2>2, <2>4, <2>5
  <1>4. QED
    BY <1>3

\* The invariant gives the agreement of dictionary and list.
LEMMA ZIndexes == ZInv => IndexesAgree
  <1>1. SUFFICES ASSUME ZInv PROVE IndexesAgree
    OBVIOUS
  <1>2. PICK p : Sound(zsl, p)
    BY <1>1 DEF ZInv
  <1>3. ListType(zsl) /\ Ranked(zsl, p) /\ Linked(zsl, p) /\ Topped(zsl)
    BY <1>2 DEF Sound
  <1>4. /\ Cardinality(Present) = zsl.length /\ Present = In(zsl)
        /\ \A x \in In(zsl) \cup {Header, End} : Position(x) = p[x]
        /\ \A i \in Levels : On(i) = Level(zsl, i)
        /\ \A m \in In(zsl) : zsl.score[m] = index[m]
    BY <1>1, <1>2, PositionRight, Dictionary
  <1>5. \A m \in Member : zsl.height[m] \in 0 .. MaxLevel
    BY <1>3 DEF ListType
  <1>6. \A m \in Member : index[m] = Absent <=> zsl.height[m] = 0
    <2>1. \A m \in Member : zsl.height[m] = 0 <=> m \notin In(zsl)
      BY <1>5, Nodes DEF In
    <2>2. QED
      BY <1>1, <2>1 DEF ZInv
  <1>7. /\ \A x \in In(zsl) \cup {Header, End} : p[x] \in Nat
        /\ \A x \in In(zsl) \cup {Header} : p[x] < p[End]
        /\ p[Header] = 0 /\ zsl.length \in Nat
    BY <1>3, RanksRight
  <1>8. From(zsl.forward[1][Header]) = Sorted
    <2>1. PICK y : y = zsl.forward[1][Header]
      OBVIOUS
    <2>2. y \in In(zsl) \cup {End} /\ p[y] = 1
      BY <1>2, <1>7, <2>1, NextRank
    <2>3. From(y) = Segment(1, zsl.length + 1)
      BY <1>1, <1>2, <2>2, FromRight
    <2>4. PICK s : s = Segment(1, zsl.length + 1)
      OBVIOUS
    <2>5. /\ s \in Seq(Member) /\ Len(s) = zsl.length + 1 - 1
          /\ \A j \in 1 .. zsl.length + 1 - 1 : s[j] = Sorted[1 + j - 1]
      <3>1. PICK a, c : a = 1 /\ c = zsl.length + 1
        OBVIOUS
      <3>2. a \in 1 .. zsl.length + 1 /\ c \in a .. zsl.length + 1
        BY <1>7, <3>1
      <3>3. /\ Segment(a, c) \in Seq(Member) /\ Len(Segment(a, c)) = c - a
            /\ \A j \in 1 .. c - a : Segment(a, c)[j] = Sorted[a + j - 1]
        BY <1>1, <3>2, SegmentRight
      <3>4. s = Segment(a, c)
        BY <2>4, <3>1
      <3>5. s \in Seq(Member) /\ Len(s) = c - a /\ \A j \in 1 .. c - a : s[j] = Sorted[a + j - 1]
        BY <3>3, <3>4
      <3>6. c - a = zsl.length + 1 - 1
        BY <1>7, <3>1
      <3>7. s \in Seq(Member) /\ Len(s) = zsl.length + 1 - 1
        BY <3>5, <3>6
      <3>8. \A j \in 1 .. zsl.length + 1 - 1 : s[j] = Sorted[1 + j - 1]
        BY <1>7, <3>1, <3>5
      <3>9. QED
        BY <3>7, <3>8
    <2>6. Len(s) = zsl.length /\ \A j \in 1 .. Len(s) : s[j] = Sorted[j]
      <3>1. zsl.length + 1 - 1 = zsl.length
        BY <1>7
      <3>2. \A j \in 1 .. zsl.length : 1 + j - 1 = j
        OBVIOUS
      <3>3. QED
        BY <2>5, <3>1, <3>2
    <2>7. Sorted \in Seq(Member) /\ Len(Sorted) = zsl.length
      BY <1>1, <1>2, SortedRight
    <2>8. s = Sorted
      BY <2>5, <2>6, <2>7, SeqEqual
    <2>9. QED
      BY <2>1, <2>3, <2>4, <2>8
  <1>9. ASSUME NEW i \in 1 .. zsl.level, NEW x \in On(i)
        PROVE  LET later == {y \in On(i) : Position(y) > Position(x)}
               IN  IF later = {} THEN zsl.forward[i][x] = End
                   ELSE zsl.forward[i][x] \in later
                        /\ \A y \in later : Position(zsl.forward[i][x]) <= Position(y)
    <2>1. i \in Levels /\ On(i) = Level(zsl, i)
      BY <1>3, <1>4, LevelsInUse
    <2>2. PICK v : v = zsl.forward[i][x]
      OBVIOUS
    <2>3. /\ v \in Level(zsl, i) \cup {End} /\ p[x] < p[v]
          /\ \A z \in Level(zsl, i) : p[z] <= p[x] \/ p[v] <= p[z]
      BY <1>3, <1>9, <2>1, <2>2 DEF Linked, Follows
    <2>4. Level(zsl, i) \cup {End} \subseteq In(zsl) \cup {Header, End} /\ End \notin Level(zsl, i)
          /\ Level(zsl, i) \subseteq In(zsl) \cup {Header}
      BY <1>3, <2>1, LevelsRight
    <2>5. /\ \A z \in Level(zsl, i) : p[z] \in Nat /\ Position(z) = p[z] /\ p[z] < p[End]
          /\ p[v] \in Nat /\ Position(v) = p[v] /\ p[End] \in Nat
      BY <1>4, <1>7, <2>3, <2>4
    <2>6. PICK later : later = {y \in On(i) : Position(y) > Position(x)}
      OBVIOUS
    <2>7. x \in Level(zsl, i)
      BY <1>9, <2>1
    <2>8. \A y : y \in later <=> y \in Level(zsl, i) /\ p[x] < p[y]
      <3>1. ASSUME NEW y \in Level(zsl, i) PROVE Position(y) > Position(x) <=> p[x] < p[y]
        BY <2>5, <2>7
      <3>2. QED
        BY <2>1, <2>6, <3>1
    <2>9. later = {} => v = End
      BY <2>3, <2>8
    <2>10. ASSUME later # {} PROVE v \in later /\ \A y \in later : Position(v) <= Position(y)
      <3>1. ASSUME NEW y \in later PROVE p[v] <= p[y]
        <4>1. y \in Level(zsl, i) /\ p[x] < p[y] /\ (p[y] <= p[x] \/ p[v] <= p[y])
          BY <2>3, <2>8
        <4>2. p[x] \in Nat /\ p[y] \in Nat
          BY <2>5, <2>7, <4>1
        <4>3. QED
          BY <4>1, <4>2
      <3>2. v # End
        <4>1. PICK y : y \in later
          BY <2>10
        <4>2. p[v] <= p[y] /\ y \in Level(zsl, i)
          BY <2>8, <3>1, <4>1
        <4>3. p[y] \in Nat /\ p[y] < p[End]
          BY <2>5, <4>2
        <4>4. QED
          BY <2>5, <4>2, <4>3
      <3>3. v \in later
        BY <2>3, <2>8, <3>2
      <3>4. \A y \in later : Position(v) <= Position(y)
        BY <2>5, <2>8, <3>1
      <3>5. QED
        BY <3>3, <3>4
    <2>11. QED
      BY <2>2, <2>6, <2>9, <2>10
  <1>10. zsl.level = Max({1} \cup {zsl.height[m] : m \in Present})
    <2>1. PICK T : T = {1} \cup {zsl.height[m] : m \in Present}
      OBVIOUS
    <2>2. zsl.level \in Nat /\ 1 \in 1 .. zsl.level /\ zsl.level \in 1 .. zsl.level
      BY <1>3, LevelsInUse, Nodes
    <2>3. \A m \in Present : zsl.height[m] \in 1 .. zsl.level
      <3>1. \A m \in Member : zsl.height[m] \in Nat /\ zsl.height[m] <= zsl.level
        BY <1>3, <1>5, Nodes DEF Topped
      <3>2. \A m \in Present : m \in Member /\ zsl.height[m] > 0
        BY <1>4 DEF In
      <3>3. QED
        BY <2>2, <3>1, <3>2
    <2>4. T \in SUBSET (1 .. zsl.level) /\ T # {}
      BY <2>1, <2>2, <2>3
    <2>5. Max(T) \in T /\ \A x \in T : x <= Max(T)
      BY <2>2, <2>4, MaxRight
    <2>6. zsl.level \in T
      <3>1. CASE zsl.level = 1
        BY <2>1, <3>1
      <3>2. CASE zsl.level # 1
        <4>1. PICK m \in Member : zsl.height[m] = zsl.level
          BY <1>3, <3>2 DEF Topped
        <4>2. m \in Present
          BY <1>4, <2>2, <4>1 DEF In
        <4>3. QED
          BY <2>1, <4>1, <4>2
      <3>3. QED
        BY <3>1, <3>2
    <2>7. Max(T) \in 1 .. zsl.level /\ zsl.level <= Max(T)
      BY <2>4, <2>5, <2>6
    <2>8. Max(T) = zsl.level
      BY <2>2, <2>7
    <2>9. QED
      BY <2>1, <2>8
  <1>11. \A m \in Present : zsl.score[m] = index[m]
    BY <1>4
  <1>12. zsl.length = Cardinality(Present)
    BY <1>4
  <1>13. QED
    BY <1>6, <1>8, <1>9, <1>10, <1>11, <1>12, Zenon DEF IndexesAgree

\* The dictionary and the list describe the same members in the same order.
THEOREM ZSetIndexesAgree == Spec => []IndexesAgree
  BY ZSetInvariant, ZIndexes, PTL

-----------------------------------------------------------------------------
(* The reads. *)

\* The order of the dictionary is the order of the ranks.
LEMMA OrderRight ==
  ASSUME ZInv, NEW p, Sound(zsl, p)
  PROVE  /\ zsl.length \in Nat /\ Present = In(zsl) /\ Cardinality(Present) = zsl.length
         /\ In(zsl) \subseteq Member /\ End \notin In(zsl) /\ Header \notin In(zsl)
         /\ \A m \in In(zsl) : p[m] \in 1 .. zsl.length /\ Position(m) = p[m]
         /\ \A m \in In(zsl) : zsl.score[m] = index[m] /\ index[m] \in Int
         /\ \A a, b \in In(zsl) : Precedes(a, b) <=> p[a] < p[b]
         /\ \A a, b \in In(zsl) : p[a] <= p[b] => index[a] <= index[b]
         /\ p[End] = zsl.length + 1 /\ p[Header] = 0
  <1>1. ListType(zsl) /\ Ranked(zsl, p)
    BY DEF Sound
  <1>2. /\ Present = In(zsl)
        /\ \A m \in In(zsl) : zsl.score[m] = index[m] /\ index[m] \in Scores /\ m \in Member
    BY Dictionary
  <1>3. \A a, b \in In(zsl) : Precedes(a, b) <=> p[a] < p[b]
    BY <1>1, Dictionary DEF Ranked
  <1>4. /\ \A m \in In(zsl) : p[m] \in 1 .. zsl.length
        /\ zsl.length \in Nat /\ p[End] = zsl.length + 1 /\ p[Header] = 0
    BY <1>1, RanksRight
  <1>5. \A x, y \in In(zsl) \cup {Header, End} : p[x] = p[y] => x = y
    BY <1>1, RanksRight
  <1>6. End \notin In(zsl) /\ Header \notin In(zsl) /\ In(zsl) \subseteq Member
    BY Nodes DEF In
  <1>7. \A m \in In(zsl) : index[m] \in Int
    BY <1>2, ZSetAssumption DEF ZSetAssumption
  <1>8. ASSUME NEW a \in In(zsl), NEW b \in In(zsl), p[a] <= p[b] PROVE index[a] <= index[b]
    <2>1. CASE p[a] = p[b]
      <3>1. a = b
        BY <1>5, <2>1
      <3>2. QED
        BY <1>7, <3>1
    <2>2. CASE p[a] # p[b]
      <3>1. p[a] \in Nat /\ p[b] \in Nat
        BY <1>4
      <3>2. p[a] < p[b]
        BY <1>8, <2>2, <3>1
      <3>3. Precedes(a, b)
        BY <1>3, <3>2
      <3>4. QED
        BY <1>7, <3>3 DEF Precedes
    <2>3. QED
      BY <2>1, <2>2
  <1>9. Cardinality(Present) = zsl.length /\ \A m \in In(zsl) : Position(m) = p[m]
    BY PositionRight
  <1>10. QED
    BY <1>2, <1>3, <1>4, <1>6, <1>7, <1>8, <1>9

\* Behind the place where a search stops comes the first node it may not pass.
LEMMA FirstNode ==
  ASSUME ZInv, NEW p, Sound(zsl, p), NEW goes, Prefix(zsl, p, goes)
  PROVE  /\ Search(zsl, goes)[1].rank \in 0 .. zsl.length
         /\ zsl.forward[1][Search(zsl, goes)[1].at] \in In(zsl) \cup {End}
         /\ p[zsl.forward[1][Search(zsl, goes)[1].at]] = Search(zsl, goes)[1].rank + 1
         /\ \A x \in In(zsl) :
               goes[[at |-> x, rank |-> p[x]]] <=> p[x] <= Search(zsl, goes)[1].rank
  <1>1. PICK q : q = Search(zsl, goes)[1]
    OBVIOUS
  <1>2. ListType(zsl) /\ Ranked(zsl, p)
    BY DEF Sound
  <1>3. 1 \in 1 .. zsl.level /\ 1 \in Levels
    BY <1>2, LevelsInUse, Nodes
  <1>4. /\ q.rank \in 0 .. zsl.length
        /\ \A x \in In(zsl) : goes[[at |-> x, rank |-> p[x]]] <=> p[x] <= q.rank
        /\ q.rank = p[q.at] /\ Cut(zsl, p, q.rank, 1, q.at)
    BY <1>1, <1>3, SearchCut
  <1>5. q.at \in In(zsl) \cup {Header}
    BY <1>2, <1>3, <1>4, LevelsRight DEF Cut
  <1>6. zsl.forward[1][q.at] \in In(zsl) \cup {End} /\ p[zsl.forward[1][q.at]] = p[q.at] + 1
    BY <1>5, NextRank
  <1>7. QED
    BY <1>1, <1>4, <1>6

\* ZRANK and ZREVRANK (zset.cpp:92-108): the members in front and behind.
LEMMA RankRight ==
  ASSUME ZInv, NEW m \in Present
  PROVE  /\ Rank(m) = Position(m) - 1
         /\ RevRank(m) = Cardinality({x \in Present : Precedes(m, x)})
  <1>1. PICK p : Sound(zsl, p)
    BY DEF ZInv
  <1>2. /\ zsl.length \in Nat /\ Present = In(zsl) /\ m \in In(zsl)
        /\ \A x \in In(zsl) : p[x] \in 1 .. zsl.length
        /\ Position(m) = p[m] /\ zsl.score[m] = index[m]
        /\ \A a, b \in In(zsl) : Precedes(a, b) <=> p[a] < p[b]
    BY <1>1, OrderRight
  <1>3. PICK q : q = Find(zsl, index[m], m)[1]
    OBVIOUS
  <1>4. ListType(zsl) /\ Ranked(zsl, p)
    BY <1>1 DEF Sound
  <1>5. 1 \in 1 .. zsl.level /\ 1 \in Levels /\ 1 <= zsl.level
    BY <1>4, LevelsInUse, Nodes
  <1>6. q.rank = p[m] - 1 /\ Cut(zsl, p, p[m] - 1, 1, q.at)
    <2>1. Rest(zsl, index[m], m) = p[m] - 1 /\ Cut(zsl, p, p[m] - 1, 1, At(zsl, index[m], m, 1))
      BY <1>1, <1>2, <1>5, RestOfMember
    <2>2. Rest(zsl, index[m], m) = q.rank /\ At(zsl, index[m], m, 1) = q.at
      BY <1>3, <1>5 DEF Rest, At
    <2>3. QED
      BY <2>1, <2>2
  <1>7. zsl.forward[1][q.at] = m
    <2>1. m \in Level(zsl, 1)
      BY <1>2, <1>4, <1>5, LevelsRight
    <2>2. QED
      BY <1>1, <1>2, <1>5, <1>6, <2>1, DeletedLink
  <1>8. Rank(m) = p[m] - 1
    BY <1>2, <1>3, <1>6, <1>7 DEF Rank
  <1>9. Cardinality({x \in Present : Precedes(m, x)}) = zsl.length - p[m]
    <2>1. PICK a, b : a = p[m] + 1 /\ b = zsl.length + 1
      OBVIOUS
    <2>2. a \in 1 .. zsl.length + 1 /\ b \in a .. zsl.length + 1 /\ p[m] \in Nat
      BY <1>2, <2>1
    <2>3. ASSUME NEW x \in In(zsl) PROVE Precedes(m, x) <=> a <= p[x] /\ p[x] < b
      <3>1. p[x] \in 1 .. zsl.length
        BY <1>2
      <3>2. Precedes(m, x) <=> p[m] < p[x]
        BY <1>2
      <3>3. QED
        BY <1>2, <2>1, <2>2, <3>1, <3>2
    <2>4. {x \in Present : Precedes(m, x)} = {x \in In(zsl) : a <= p[x] /\ p[x] < b}
      BY <1>2, <2>3
    <2>5. Cardinality({x \in Present : Precedes(m, x)}) = b - a
      BY <1>4, <2>2, <2>4, Between
    <2>6. b - a = zsl.length - p[m]
      BY <1>2, <2>1, <2>2
    <2>7. QED
      BY <2>5, <2>6
  <1>10. p[m] \in Nat
    BY <1>2
  <1>11. RevRank(m) = zsl.length - p[m]
    BY <1>2, <1>8, <1>10 DEF RevRank
  <1>12. QED
    BY <1>2, <1>8, <1>9, <1>11

\* Max and Min of two integers.
LEMMA MaxMin ==
  ASSUME NEW a \in Int, NEW b \in Int
  PROVE  /\ Max({a, b}) = (IF a >= b THEN a ELSE b)
         /\ Min({a, b}) = (IF a <= b THEN a ELSE b)
  <1>1. PICK c \in {a, b} : \A y \in {a, b} : c >= y
    <2>1. CASE a >= b
      BY <2>1
    <2>2. CASE ~(a >= b)
      BY <2>2
    <2>3. QED
      BY <2>1, <2>2
  <1>2. Max({a, b}) \in {a, b} /\ \A y \in {a, b} : Max({a, b}) >= y
    BY <1>1 DEF Max
  <1>3. PICK d \in {a, b} : \A y \in {a, b} : d <= y
    <2>1. CASE a <= b
      BY <2>1
    <2>2. CASE ~(a <= b)
      BY <2>2
    <2>3. QED
      BY <2>1, <2>2
  <1>4. Min({a, b}) \in {a, b} /\ \A y \in {a, b} : Min({a, b}) <= y
    BY <1>3 DEF Min
  <1>5. QED
    BY <1>2, <1>4

\* SkipList::RangeByRank (skip_list.cpp:316-346) answers the members between two ranks.
LEMMA RangeByRankRight ==
  ASSUME ZInv, NEW start \in 1 .. zsl.length, NEW stop \in start .. zsl.length
  PROVE  RangeByRank(start, stop) = SubSeq(Sorted, start, stop)
  <1>1. PICK p : Sound(zsl, p)
    BY DEF ZInv
  <1>2. /\ zsl.length \in Nat /\ In(zsl) \subseteq Member
        /\ \A x \in In(zsl) : p[x] \in 1 .. zsl.length
        /\ p[End] = zsl.length + 1
    BY <1>1, OrderRight
  <1>3. PICK goes : goes = [q \in Place |-> q.rank < start]
    OBVIOUS
  <1>4. ASSUME NEW x \in In(zsl) PROVE goes[[at |-> x, rank |-> p[x]]] <=> p[x] < start
    <2>1. [at |-> x, rank |-> p[x]] \in Place
      BY <1>2 DEF Place, Node
    <2>2. QED
      BY <1>3, <2>1
  <1>5. Prefix(zsl, p, goes)
    BY <1>2, <1>4 DEF Prefix
  <1>6. PICK q, y : q = Search(zsl, goes)[1] /\ y = zsl.forward[1][q.at]
    OBVIOUS
  <1>7. /\ q.rank \in 0 .. zsl.length /\ y \in In(zsl) \cup {End} /\ p[y] = q.rank + 1
        /\ \A x \in In(zsl) : p[x] < start <=> p[x] <= q.rank
    BY <1>1, <1>4, <1>5, <1>6, FirstNode
  <1>8. /\ Sorted \in Seq(Member) /\ Len(Sorted) = zsl.length
        /\ \A k \in 1 .. zsl.length : Sorted[k] \in In(zsl) /\ p[Sorted[k]] = k
    BY <1>1, SortedRight
  <1>9. p[y] = start
    <2>1. start \in 1 .. zsl.length /\ start \in Nat
      BY <1>2
    <2>2. ~(start <= q.rank)
      BY <1>7, <1>8, <2>1
    <2>3. ASSUME q.rank + 1 < start PROVE FALSE
      <3>1. q.rank + 1 \in 1 .. zsl.length
        BY <1>2, <1>7, <2>1, <2>3
      <3>2. q.rank + 1 <= q.rank
        BY <1>7, <1>8, <2>3, <3>1
      <3>3. QED
        BY <1>7, <3>2
    <2>4. QED
      BY <1>7, <2>1, <2>2, <2>3
  <1>10. PICK a, b : a = start /\ b = zsl.length + 1
    OBVIOUS
  <1>11. a \in 1 .. zsl.length + 1 /\ b \in a .. zsl.length + 1 /\ a \in Nat /\ stop \in a .. zsl.length
    BY <1>2, <1>10
  <1>12. PICK nodes : nodes = From(y)
    OBVIOUS
  <1>13. nodes = Segment(a, b)
    BY <1>1, <1>7, <1>9, <1>10, <1>12, FromRight
  <1>14. /\ nodes \in Seq(Member) /\ Len(nodes) = b - a
         /\ \A j \in 1 .. b - a : nodes[j] = Sorted[a + j - 1]
    BY <1>11, <1>13, SegmentRight
  <1>15. Min({stop - start + 1, Len(nodes)}) = stop - a + 1
    <2>1. stop - start + 1 \in Int /\ b - a \in Int /\ stop - start + 1 <= b - a
      BY <1>2, <1>10, <1>11
    <2>2. QED
      BY <1>10, <1>14, <2>1, MaxMin
  <1>16. PICK c : c = stop - a + 1
    OBVIOUS
  <1>17. RangeByRank(start, stop) = SubSeq(nodes, 1, c)
    BY <1>3, <1>6, <1>12, <1>15, <1>16 DEF RangeByRank
  <1>18. c \in Nat /\ c <= b - a /\ c \in Int /\ c >= 1
    BY <1>2, <1>10, <1>11, <1>16
  <1>19. PICK s : s = SubSeq(nodes, 1, c)
    OBVIOUS
  <1>20. s \in Seq(Member) /\ Len(s) = c /\ \A i \in 1 .. c : s[i] = nodes[i]
    <2>1. \A i \in 1 .. c : nodes[i] \in Member
      BY <1>14, <1>18
    <2>2. /\ s \in Seq(Member) /\ Len(s) = (IF 1 <= c THEN c - 1 + 1 ELSE 0)
          /\ \A i \in 1 .. c - 1 + 1 : s[i] = nodes[1 + i - 1]
      BY <1>18, <1>19, <2>1, SubSeqProperties
    <2>3. c - 1 + 1 = c /\ \A i \in 1 .. c : 1 + i - 1 = i
      BY <1>18
    <2>4. QED
      BY <1>18, <2>2, <2>3
  <1>21. PICK t : t = SubSeq(Sorted, a, stop)
    OBVIOUS
  <1>22. t \in Seq(Member) /\ Len(t) = c /\ \A i \in 1 .. c : t[i] = Sorted[a + i - 1]
    <2>1. \A i \in a .. stop : Sorted[i] \in Member
      <3>1. ASSUME NEW i \in a .. stop PROVE i \in 1 .. zsl.length
        BY <1>2, <1>11
      <3>2. QED
        BY <1>2, <1>8, <3>1
    <2>2. a \in Int /\ stop \in Int /\ a <= stop
      BY <1>2, <1>11
    <2>3. /\ t \in Seq(Member) /\ Len(t) = (IF a <= stop THEN stop - a + 1 ELSE 0)
          /\ \A i \in 1 .. stop - a + 1 : t[i] = Sorted[a + i - 1]
      BY <1>21, <2>1, <2>2, SubSeqProperties
    <2>4. QED
      BY <1>16, <2>2, <2>3
  <1>23. \A i \in 1 .. Len(s) : s[i] = t[i]
    <2>1. ASSUME NEW i \in 1 .. c PROVE s[i] = t[i]
      <3>1. i \in 1 .. b - a
        BY <1>2, <1>10, <1>11, <1>18
      <3>2. QED
        BY <1>14, <1>20, <1>22, <3>1
    <2>2. QED
      BY <1>20, <2>1
  <1>24. s = t
    BY <1>20, <1>22, <1>23, SeqEqual
  <1>25. QED
    BY <1>10, <1>17, <1>19, <1>21, <1>24

\* ZRANGE (command.cpp:736-796) cuts its bounds off at both ends.
LEMMA ZRangeRight ==
  ASSUME ZInv, NEW start \in Int, NEW stop \in Int, NEW n, n = Cardinality(Present)
  PROVE  ZRange(start, stop) =
            SubSeq(Sorted, Max({0, IF start < 0 THEN start + n ELSE start}) + 1,
                           Min({n - 1, IF stop < 0 THEN stop + n ELSE stop}) + 1)
  <1>1. PICK p : Sound(zsl, p)
    BY DEF ZInv
  <1>2. n \in Nat /\ zsl.length = n
    BY <1>1, OrderRight
  <1>3. PICK c, d : /\ c = (IF start < 0 THEN start + n ELSE start)
                    /\ d = (IF stop < 0 THEN stop + n ELSE stop)
    OBVIOUS
  <1>4. c \in Int /\ d \in Int /\ n - 1 \in Int /\ 0 \in Int
    BY <1>2, <1>3
  <1>5. PICK f, g : f = Max({0, c}) /\ g = Min({n - 1, d})
    OBVIOUS
  <1>6. f = (IF 0 >= c THEN 0 ELSE c) /\ g = (IF n - 1 <= d THEN n - 1 ELSE d)
    BY <1>4, <1>5, MaxMin
  <1>7. f \in Nat /\ g \in Int /\ g <= n - 1
    BY <1>2, <1>4, <1>6
  <1>8. ZRange(start, stop) = IF n = 0 \/ f > g THEN <<>> ELSE RangeByRank(f + 1, g + 1)
    BY <1>2, <1>3, <1>5, Zenon DEF ZRange
  <1>9. CASE n = 0 \/ f > g
    <2>1. g + 1 < f + 1 /\ f + 1 \in Int /\ g + 1 \in Int
      BY <1>2, <1>7, <1>9
    <2>2. SubSeq(Sorted, f + 1, g + 1) = <<>>
      BY <2>1, SubSeqEmpty
    <2>3. ZRange(start, stop) = <<>>
      BY <1>8, <1>9, Zenon
    <2>4. ZRange(start, stop) = SubSeq(Sorted, f + 1, g + 1)
      BY <2>2, <2>3, Zenon
    <2>5. QED
      BY <1>3, <1>5, <2>4, Zenon
  <1>10. CASE ~(n = 0 \/ f > g)
    <2>1. PICK a, b : a = f + 1 /\ b = g + 1
      OBVIOUS
    <2>2. a \in 1 .. zsl.length /\ b \in a .. zsl.length
      BY <1>2, <1>7, <1>10, <2>1
    <2>3. RangeByRank(a, b) = SubSeq(Sorted, a, b)
      BY <2>2, RangeByRankRight
    <2>4. ZRange(start, stop) = SubSeq(Sorted, f + 1, g + 1)
      BY <1>8, <1>10, <2>1, <2>3, Zenon
    <2>5. QED
      BY <1>3, <1>5, <2>4, Zenon
  <1>11. QED
    BY <1>9, <1>10

\* A part of a sequence, reversed, is the part of the reversed sequence at the
\* same distances from the ends.
LEMMA ReversedPart ==
  ASSUME NEW S, NEW s \in Seq(S), NEW f \in Nat \ {0}, NEW l \in Int, l = Len(s) + 1 - f
  PROVE  Lists!Reverse(SubSeq(s, f, l)) = SubSeq(Lists!Reverse(s), f, l)
  <1>1. PICK n : n = Len(s)
    OBVIOUS
  <1>2. n \in Nat /\ \A i \in 1 .. n : s[i] \in S
    BY <1>1
  <1>3. PICK r : r = Lists!Reverse(s)
    OBVIOUS
  <1>4. r = [i \in 1 .. n |-> s[(n - i) + 1]]
    BY <1>1, <1>3 DEF Lists!Reverse
  <1>5. \A i \in 1 .. n : (n - i) + 1 \in 1 .. n
    BY <1>2
  <1>6. r \in Seq(S) /\ Len(r) = n
    <2>1. r \in [1 .. n -> S]
      BY <1>2, <1>4, <1>5
    <2>2. QED
      BY <1>2, <2>1
  <1>7. CASE l < f
    <2>1. SubSeq(s, f, l) = <<>> /\ SubSeq(r, f, l) = <<>>
      BY <1>7, SubSeqEmpty
    <2>2. PICK e : e = <<>>
      OBVIOUS
    <2>3. Len(e) = 0 /\ e \in Seq(S)
      BY <2>2
    <2>4. PICK z : z = Lists!Reverse(e)
      OBVIOUS
    <2>5. z = [i \in 1 .. 0 |-> e[(0 - i) + 1]]
      BY <2>3, <2>4 DEF Lists!Reverse
    <2>6. z \in [1 .. 0 -> S]
      BY <2>5
    <2>7. z \in Seq(S) /\ Len(z) = 0
      BY <2>6
    <2>8. z = e
      BY <2>3, <2>7, SeqEqual
    <2>9. QED
      BY <1>3, <2>1, <2>2, <2>4, <2>8, Zenon
  <1>8. CASE ~(l < f)
    <2>1. PICK c : c = l - f + 1
      OBVIOUS
    <2>2. c \in Nat /\ c >= 1 /\ f \in Nat /\ f >= 1 /\ l \in 1 .. n
      BY <1>1, <1>2, <1>8, <2>1
    <2>3. PICK t, u : t = SubSeq(s, f, l) /\ u = SubSeq(r, f, l)
      OBVIOUS
    <2>4. \A i \in f .. l : i \in 1 .. n
      BY <1>2, <2>2
    <2>5. \A i \in f .. l : s[i] \in S /\ r[i] \in S
      BY <1>2, <1>6, <2>4
    <2>6. f \in Int /\ l \in Int /\ f <= l
      BY <1>8
    <2>7. /\ t \in Seq(S) /\ Len(t) = (IF f <= l THEN l - f + 1 ELSE 0)
          /\ \A i \in 1 .. l - f + 1 : t[i] = s[f + i - 1]
      <3>1. \A i \in f .. l : s[i] \in S
        BY <2>5
      <3>2. QED
        BY <2>3, <2>6, <3>1, SubSeqProperties
    <2>8. /\ u \in Seq(S) /\ Len(u) = (IF f <= l THEN l - f + 1 ELSE 0)
          /\ \A i \in 1 .. l - f + 1 : u[i] = r[f + i - 1]
      <3>1. \A i \in f .. l : r[i] \in S
        BY <2>5
      <3>2. QED
        BY <2>3, <2>6, <3>1, SubSeqProperties
    <2>9. Len(t) = c /\ Len(u) = c
      BY <2>1, <2>6, <2>7, <2>8
    <2>10. PICK v : v = Lists!Reverse(t)
      OBVIOUS
    <2>11. v = [i \in 1 .. c |-> t[(c - i) + 1]]
      BY <2>9, <2>10 DEF Lists!Reverse
    <2>12. \A i \in 1 .. c : (c - i) + 1 \in 1 .. c /\ t[(c - i) + 1] \in S
      <3>1. \A i \in 1 .. c : (c - i) + 1 \in 1 .. c
        BY <2>2
      <3>2. QED
        BY <2>7, <2>9, <3>1
    <2>13. v \in Seq(S) /\ Len(v) = c
      <3>1. v \in [1 .. c -> S]
        BY <2>11, <2>12
      <3>2. QED
        BY <2>2, <3>1
    <2>14. ASSUME NEW i \in 1 .. c PROVE v[i] = u[i]
      <3>1. PICK j, k : j = (c - i) + 1 /\ k = f + i - 1
        OBVIOUS
      <3>2. j \in 1 .. c /\ k \in 1 .. n /\ f + j - 1 = (n - k) + 1
        BY <1>1, <1>2, <2>1, <2>2, <3>1
      <3>3. v[i] = t[j] /\ t[j] = s[f + j - 1]
        BY <2>1, <2>7, <2>11, <3>1, <3>2
      <3>4. u[i] = r[k] /\ r[k] = s[(n - k) + 1]
        BY <1>4, <2>1, <2>8, <3>1, <3>2
      <3>5. QED
        BY <3>2, <3>3, <3>4
    <2>15. v = u
      BY <2>8, <2>9, <2>13, <2>14, SeqEqual
    <2>16. QED
      BY <1>3, <2>3, <2>10, <2>15, Zenon
  <1>9. QED
    BY <1>7, <1>8

\* ZREVRANGE (command.cpp:762-818) of bounds equally far from the ends.
LEMMA ZRevRangeRight ==
  ASSUME ZInv, NEW start \in Int, NEW n, n = Cardinality(Present)
  PROVE  ZRevRange(start, -1 - start) =
            SubSeq(Lists!Reverse(Sorted),
                   Max({0, IF start < 0 THEN start + n ELSE start}) + 1,
                   Min({n - 1, IF -1 - start < 0 THEN -1 - start + n ELSE -1 - start}) + 1)
  <1>1. PICK p : Sound(zsl, p)
    BY DEF ZInv
  <1>2. n \in Nat /\ zsl.length = n
    BY <1>1, OrderRight
  <1>3. Sorted \in Seq(Member) /\ Len(Sorted) = n
    BY <1>1, <1>2, SortedRight
  <1>4. PICK stop : stop = -1 - start
    OBVIOUS
  <1>5. stop \in Int
    BY <1>4
  <1>6. PICK c, d : /\ c = (IF start < 0 THEN start + n ELSE start)
                    /\ d = (IF stop < 0 THEN stop + n ELSE stop)
    OBVIOUS
  <1>7. c \in Int /\ d \in Int /\ n - 1 \in Int /\ 0 \in Int /\ d = n - 1 - c
    BY <1>2, <1>4, <1>6
  <1>8. PICK f, l : f = Max({0, c}) + 1 /\ l = Min({n - 1, d}) + 1
    OBVIOUS
  <1>9. Max({0, c}) = (IF 0 >= c THEN 0 ELSE c) /\ Min({n - 1, d}) = (IF n - 1 <= d THEN n - 1 ELSE d)
    BY <1>7, MaxMin
  <1>10. f \in Nat \ {0} /\ l \in Int /\ l = n + 1 - f
    BY <1>2, <1>7, <1>8, <1>9
  <1>11. ZRange(start, stop) = SubSeq(Sorted, f, l)
    BY <1>5, <1>6, <1>8, ZRangeRight
  <1>12. Lists!Reverse(SubSeq(Sorted, f, l)) = SubSeq(Lists!Reverse(Sorted), f, l)
    <2>1. l = Len(Sorted) + 1 - f
      BY <1>3, <1>10
    <2>2. QED
      BY <1>3, <1>10, <2>1, ReversedPart
  <1>13. ZRevRange(start, stop) = SubSeq(Lists!Reverse(Sorted), f, l)
    BY <1>11, <1>12, Zenon DEF ZRevRange
  <1>14. QED
    BY <1>4, <1>6, <1>8, <1>13, Zenon

AboveOf(first, lo) ==
    first = [y \in Member \cup {End} |->
                IF y # End /\ zsl.score[y] <= lo THEN first[zsl.forward[1][y]] ELSE y]

\* The recursion that skips the nodes up to a score is defined.
LEMMA AboveExists ==
  ASSUME ZInv, NEW lo
  PROVE  \E first : AboveOf(first, lo)
  <1>1. PICK p : Sound(zsl, p)
    BY DEF ZInv
  <1>2. ListType(zsl) /\ Ranked(zsl, p) /\ Linked(zsl, p)
    BY <1>1 DEF Sound
  <1>3. /\ zsl.length \in Nat /\ In(zsl) \subseteq Member /\ End \notin In(zsl)
        /\ \A x \in In(zsl) : p[x] \in 1 .. zsl.length
        /\ p[End] = zsl.length + 1 /\ Header \notin In(zsl)
    BY <1>1, OrderRight
  <1>4. 1 \in Levels /\ Level(zsl, 1) = {Header} \cup In(zsl) /\ Header \notin Member
    BY <1>2, Nodes, LevelsRight
  <1> DEFINE S == Member \cup {End}
             K == zsl.length + 1
             far == [y \in S |-> IF y \in In(zsl) THEN K - p[y] ELSE IF y = End THEN 0 ELSE 1]
             stop == [y \in S |-> ~(y # End /\ zsl.score[y] <= lo)]
             out == [y \in S |-> y]
             next == [y \in S |-> zsl.forward[1][y]]
  <1>5. K \in Nat /\ far \in [S -> 0 .. K]
    BY <1>3
  <1>6. ASSUME NEW y \in S, ~stop[y] PROVE next[y] \in S /\ far[next[y]] < far[y]
    <2>1. y \in Member /\ y # End
      BY <1>6, Nodes
    <2>2. next[y] = zsl.forward[1][y]
      OBVIOUS
    <2>3. CASE y \in In(zsl)
      <3>1. next[y] \in In(zsl) \cup {End} /\ p[next[y]] = p[y] + 1
        BY <1>1, <2>2, <2>3, NextRank
      <3>2. far[y] = K - p[y] /\ p[y] \in 1 .. zsl.length
        BY <1>3, <2>3
      <3>3. CASE next[y] = End
        <4>1. far[next[y]] = 0
          BY <1>3, <3>3
        <4>2. QED
          BY <1>3, <3>1, <3>2, <4>1
      <3>4. CASE next[y] \in In(zsl)
        <4>1. far[next[y]] = K - p[next[y]]
          BY <1>3, <3>4
        <4>2. QED
          BY <1>3, <3>1, <3>2, <3>4, <4>1
      <3>5. QED
        BY <3>1, <3>3, <3>4
    <2>4. CASE y \notin In(zsl)
      <3>1. y \in Node \ Level(zsl, 1)
        BY <1>4, <2>1, <2>4 DEF Node
      <3>2. next[y] = End
        BY <1>2, <1>4, <2>2, <3>1 DEF Linked
      <3>3. far[y] = 1 /\ far[next[y]] = 0
        BY <1>3, <2>1, <2>4, <3>2
      <3>4. QED
        BY <3>2, <3>3
    <2>5. QED
      BY <2>3, <2>4
  <1>7. \E g : g = [y \in S |-> IF stop[y] THEN out[y] ELSE g[next[y]]]
    <2> HIDE DEF K, S, far, next, stop, out
    <2>1. \A y \in S : stop[y] \/ (next[y] \in S /\ far[next[y]] < far[y])
      BY <1>6
    <2>2. \E g : TailRecursive(g, S, stop, out, next)
      BY <1>5, <2>1, TailRecursion
    <2>3. QED
      BY <2>2 DEF TailRecursive
  <1>8. PICK g : g = [y \in S |-> IF stop[y] THEN out[y] ELSE g[next[y]]]
    BY <1>7
  <1>9. ASSUME NEW y \in S
        PROVE  g[y] = IF y # End /\ zsl.score[y] <= lo THEN g[zsl.forward[1][y]] ELSE y
    BY <1>8
  <1>10. g = [y \in S |-> g[y]]
    BY <1>8
  <1>11. g = [y \in Member \cup {End} |->
                IF y # End /\ zsl.score[y] <= lo THEN g[zsl.forward[1][y]] ELSE y]
    <2> HIDE DEF K, far, next, stop, out
    <2>1. QED
      BY <1>9, <1>10
  <1>12. QED
    BY <1>11, Zenon DEF AboveOf

\* z is the first node from y on with a score above lo.
FirstAbove(p, lo, y, z) ==
    /\ z \in In(zsl) \cup {End} /\ p[y] <= p[z]
    /\ z = End \/ zsl.score[z] > lo
    /\ \A x \in In(zsl) : p[y] <= p[x] /\ p[x] < p[z] => zsl.score[x] <= lo

\* The loop that skips them (zset.cpp:129-132) stops at the first node above.
LEMMA AboveRight ==
  ASSUME ZInv, NEW p, Sound(zsl, p), NEW lo \in Int
  PROVE  \A y \in In(zsl) \cup {End} : FirstAbove(p, lo, y, Above(y, lo))
  <1> DEFINE first == CHOOSE f : f = [y \in Member \cup {End} |->
                IF y # End /\ zsl.score[y] <= lo THEN f[zsl.forward[1][y]] ELSE y]
  <1>1. first = [y \in Member \cup {End} |->
                IF y # End /\ zsl.score[y] <= lo THEN first[zsl.forward[1][y]] ELSE y]
    <2>1. \E f : f = [y \in Member \cup {End} |->
                IF y # End /\ zsl.score[y] <= lo THEN f[zsl.forward[1][y]] ELSE y]
      BY AboveExists, Zenon DEF AboveOf
    <2>2. QED
      BY <2>1, Zenon
  <1>2. \A y : Above(y, lo) = first[y]
    BY Zenon DEF Above
  <1> HIDE DEF first
  <1>3. /\ zsl.length \in Nat /\ In(zsl) \subseteq Member /\ End \notin In(zsl)
        /\ \A x \in In(zsl) : p[x] \in 1 .. zsl.length
        /\ p[End] = zsl.length + 1
        /\ \A x \in In(zsl) : zsl.score[x] \in Int
    BY OrderRight
  <1>4. /\ first[End] = End
        /\ \A y \in In(zsl) :
              first[y] = IF zsl.score[y] <= lo THEN first[zsl.forward[1][y]] ELSE y
    <2>1. \A y \in Member \cup {End} :
             first[y] = IF y # End /\ zsl.score[y] <= lo THEN first[zsl.forward[1][y]] ELSE y
      BY <1>1
    <2>2. QED
      BY <1>3, <2>1
  <1>5. \A y \in In(zsl) \cup {End} : p[y] \in 1 .. zsl.length + 1
    BY <1>3
  <1> DEFINE Right(y) == FirstAbove(p, lo, y, first[y])
             T == {n \in Nat : \E y \in In(zsl) \cup {End} : ~Right(y) /\ n = zsl.length + 1 - p[y]}
  <1>6. ASSUME T # {} PROVE FALSE
    <2>1. PICK n \in T : \A k \in T : n <= k
      <3>1. T \in SUBSET Nat
        OBVIOUS
      <3> HIDE DEF T
      <3>2. QED
        BY <1>6, <3>1, LeastNat
    <2>2. PICK y \in In(zsl) \cup {End} : ~Right(y) /\ n = zsl.length + 1 - p[y]
      BY <2>1
    <2>3. y \in In(zsl) /\ zsl.score[y] <= lo
      <3>1. Right(End)
        BY <1>3, <1>4 DEF FirstAbove
      <3>2. ASSUME y \in In(zsl), ~(zsl.score[y] <= lo) PROVE Right(y)
        <4>1. first[y] = y /\ zsl.score[y] > lo
          BY <1>3, <1>4, <3>2
        <4>2. \A x \in In(zsl) : ~(p[y] <= p[x] /\ p[x] < p[y])
          BY <1>5
        <4>3. QED
          BY <1>5, <4>1, <4>2 DEF FirstAbove
      <3>3. QED
        BY <2>2, <3>1, <3>2
    <2>4. PICK z : z = zsl.forward[1][y]
      OBVIOUS
    <2>5. z \in In(zsl) \cup {End} /\ p[z] = p[y] + 1
      BY <2>3, <2>4, NextRank
    <2>6. zsl.length + 1 - p[z] \in Nat /\ zsl.length + 1 - p[z] < n
      BY <1>3, <1>5, <2>2, <2>5
    <2>7. Right(z)
      <3>1. zsl.length + 1 - p[z] \notin T
        BY <2>1, <2>6
      <3>2. QED
        BY <2>5, <2>6, <3>1
    <2>8. first[y] = first[z]
      BY <1>4, <2>3, <2>4
    <2>9. PICK w : w = first[z]
      OBVIOUS
    <2>10. /\ w \in In(zsl) \cup {End} /\ p[z] <= p[w] /\ (w = End \/ zsl.score[w] > lo)
           /\ \A x \in In(zsl) : p[z] <= p[x] /\ p[x] < p[w] => zsl.score[x] <= lo
      BY <2>7, <2>9 DEF FirstAbove
    <2>11. p[y] <= p[w]
      BY <1>5, <2>5, <2>10
    <2>12. ASSUME NEW x \in In(zsl), p[y] <= p[x], p[x] < p[w] PROVE zsl.score[x] <= lo
      <3>1. CASE p[x] = p[y]
        <4>1. ListType(zsl) /\ Ranked(zsl, p)
          BY DEF Sound
        <4>2. \A a, b \in In(zsl) \cup {Header, End} : p[a] = p[b] => a = b
          BY <4>1, RanksRight
        <4>3. x = y
          BY <2>3, <3>1, <4>2
        <4>4. QED
          BY <2>3, <4>3
      <3>2. CASE p[x] # p[y]
        <4>1. p[z] <= p[x]
          BY <1>5, <2>5, <2>12, <3>2
        <4>2. QED
          BY <2>10, <2>12, <4>1
      <3>3. QED
        BY <3>1, <3>2
    <2>13. Right(y)
      BY <2>8, <2>9, <2>10, <2>11, <2>12 DEF FirstAbove
    <2>14. QED
      BY <2>2, <2>13
  <1>7. ASSUME NEW y \in In(zsl) \cup {End} PROVE FirstAbove(p, lo, y, first[y])
    <2>1. zsl.length + 1 - p[y] \in Nat
      BY <1>3, <1>5
    <2>2. QED
      BY <1>6, <2>1
  <1>8. QED
    BY <1>2, <1>7

Within(m, lo, hi, lo_open, hi_open) ==
    /\ index[m] >= lo /\ (lo_open => index[m] # lo)
    /\ index[m] <= hi /\ (hi_open => index[m] # hi)

Scored(lo, hi, lo_open, hi_open) == {m \in Present : Within(m, lo, hi, lo_open, hi_open)}

\* The first node ZRANGEBYSCORE answers (zset.cpp:128-132).
Lowest(lo, lo_open) ==
    LET x == zsl.forward[1][Search(zsl, [q \in Place |-> zsl.score[q.at] < lo])[1].at]
    IN  IF lo_open THEN Above(x, lo) ELSE x

\* The members from that node on are those whose score is high enough.
LEMMA LowestRight ==
  ASSUME ZInv, NEW p, Sound(zsl, p), NEW lo \in Int, NEW lo_open \in BOOLEAN
  PROVE  /\ Lowest(lo, lo_open) \in In(zsl) \cup {End}
         /\ \A m \in In(zsl) : p[Lowest(lo, lo_open)] <= p[m] <=>
                               index[m] >= lo /\ (lo_open => index[m] # lo)
  <1>1. /\ zsl.length \in Nat /\ In(zsl) \subseteq Member
        /\ \A x \in In(zsl) : p[x] \in 1 .. zsl.length
        /\ p[End] = zsl.length + 1
        /\ \A m \in In(zsl) : zsl.score[m] = index[m] /\ index[m] \in Int
        /\ \A a, b \in In(zsl) : p[a] <= p[b] => index[a] <= index[b]
    BY OrderRight
  <1>2. PICK goes : goes = [q \in Place |-> zsl.score[q.at] < lo]
    OBVIOUS
  <1>3. ASSUME NEW x \in In(zsl) PROVE goes[[at |-> x, rank |-> p[x]]] <=> index[x] < lo
    <2>1. [at |-> x, rank |-> p[x]] \in Place
      BY <1>1 DEF Place, Node
    <2>2. QED
      BY <1>1, <1>2, <2>1
  <1>4. Prefix(zsl, p, goes)
    <2>1. ASSUME NEW a \in In(zsl), NEW b \in In(zsl), p[a] < p[b],
                 goes[[at |-> b, rank |-> p[b]]]
          PROVE  goes[[at |-> a, rank |-> p[a]]]
      <3>1. index[b] < lo
        BY <1>3, <2>1
      <3>2. p[a] \in Nat /\ p[b] \in Nat
        BY <1>1
      <3>3. p[a] <= p[b]
        BY <2>1, <3>2
      <3>4. index[a] <= index[b] /\ index[a] \in Int /\ index[b] \in Int
        BY <1>1, <3>3
      <3>5. index[a] < lo
        BY <3>1, <3>4
      <3>6. QED
        BY <1>3, <3>5
    <2>2. QED
      BY <2>1 DEF Prefix
  <1>5. PICK q, x : q = Search(zsl, goes)[1] /\ x = zsl.forward[1][q.at]
    OBVIOUS
  <1>6. /\ q.rank \in 0 .. zsl.length /\ x \in In(zsl) \cup {End} /\ p[x] = q.rank + 1
        /\ \A m \in In(zsl) : goes[[at |-> m, rank |-> p[m]]] <=> p[m] <= q.rank
    BY <1>4, <1>5, FirstNode
  <1>7. ASSUME NEW m \in In(zsl) PROVE p[x] <= p[m] <=> index[m] >= lo
    <2>1. index[m] < lo <=> p[m] <= q.rank
      BY <1>3, <1>6
    <2>2. p[m] \in Nat /\ index[m] \in Int /\ q.rank \in Nat
      BY <1>1, <1>6
    <2>3. QED
      BY <1>6, <2>1, <2>2
  <1>8. Lowest(lo, lo_open) = IF lo_open THEN Above(x, lo) ELSE x
    BY <1>2, <1>5 DEF Lowest
  <1>9. CASE ~lo_open
    BY <1>6, <1>7, <1>8, <1>9
  <1>10. CASE lo_open
    <2>1. PICK z : z = Above(x, lo)
      OBVIOUS
    <2>2. FirstAbove(p, lo, x, z)
      BY <1>6, <2>1, AboveRight
    <2>3. /\ z \in In(zsl) \cup {End} /\ p[x] <= p[z]
          /\ z = End \/ zsl.score[z] > lo
          /\ \A m \in In(zsl) : p[x] <= p[m] /\ p[m] < p[z] => zsl.score[m] <= lo
      BY <2>2 DEF FirstAbove
    <2>4. p[x] \in Nat /\ p[z] \in Nat
      BY <1>1, <1>6, <2>3
    <2>5. ASSUME NEW m \in In(zsl) PROVE p[z] <= p[m] <=> index[m] >= lo /\ index[m] # lo
      <3>1. p[m] \in 1 .. zsl.length /\ index[m] \in Int /\ zsl.score[m] = index[m]
        BY <1>1
      <3>2. ASSUME p[z] <= p[m] PROVE index[m] > lo
        <4>1. z # End
          BY <1>1, <3>1, <3>2
        <4>2. z \in In(zsl) /\ zsl.score[z] > lo
          BY <2>3, <4>1
        <4>3. index[z] <= index[m] /\ index[z] \in Int /\ index[z] > lo
          BY <1>1, <3>2, <4>2
        <4>4. QED
          BY <3>1, <4>3
      <3>3. ASSUME index[m] > lo PROVE p[z] <= p[m]
        <4>1. p[x] <= p[m]
          BY <1>7, <3>1, <3>3
        <4>2. ~(p[m] < p[z])
          BY <2>3, <3>1, <3>3, <4>1
        <4>3. QED
          BY <2>4, <3>1, <4>2
      <3>4. QED
        BY <3>1, <3>2, <3>3
    <2>6. Lowest(lo, lo_open) = z
      BY <1>8, <1>10, <2>1
    <2>7. QED
      BY <1>10, <2>3, <2>5, <2>6
  <1>11. QED
    BY <1>9, <1>10

\* nodes answers the members right, in order and each once.
Answers(nodes, right) ==
    /\ {nodes[k] : k \in 1 .. Len(nodes)} = right
    /\ \A j, k \in 1 .. Len(nodes) : j < k => Precedes(nodes[j], nodes[k])
    /\ Len(nodes) = Cardinality(right)

\* ZRANGEBYSCORE (zset.cpp:119-139) answers the members with a score in the interval,
\* in order.
LEMMA RangeByScoreRight ==
  ASSUME ZInv, NEW lo \in Int, NEW hi \in Int, NEW lo_open \in BOOLEAN, NEW hi_open \in BOOLEAN,
         NEW nodes, nodes = RangeByScore(lo, hi, lo_open, hi_open),
         NEW right, right = Scored(lo, hi, lo_open, hi_open)
  PROVE  Answers(nodes, right)
  <1>1. PICK p : Sound(zsl, p)
    BY DEF ZInv
  <1>2. /\ zsl.length \in Nat /\ Present = In(zsl) /\ In(zsl) \subseteq Member
        /\ \A x \in In(zsl) : p[x] \in 1 .. zsl.length
        /\ \A m \in In(zsl) : zsl.score[m] = index[m] /\ index[m] \in Int
        /\ \A a, b \in In(zsl) : Precedes(a, b) <=> p[a] < p[b]
        /\ \A a, b \in In(zsl) : p[a] <= p[b] => index[a] <= index[b]
        /\ p[End] = zsl.length + 1
    BY <1>1, OrderRight
  <1>3. PICK x : x = Lowest(lo, lo_open)
    OBVIOUS
  <1>4. /\ x \in In(zsl) \cup {End}
        /\ \A m \in In(zsl) : p[x] <= p[m] <=> index[m] >= lo /\ (lo_open => index[m] # lo)
    BY <1>1, <1>3, LowestRight
  <1>5. PICK goes : goes = [y \in Member |-> IF hi_open THEN zsl.score[y] < hi ELSE zsl.score[y] <= hi]
    OBVIOUS
  <1>6. ASSUME NEW m \in In(zsl) PROVE goes[m] <=> index[m] <= hi /\ (hi_open => index[m] # hi)
    <2>1. zsl.score[m] = index[m] /\ index[m] \in Int /\ m \in Member
      BY <1>2
    <2>2. CASE hi_open
      <3>1. goes[m] <=> zsl.score[m] < hi
        BY <1>5, <2>1, <2>2
      <3>2. index[m] < hi <=> index[m] <= hi /\ index[m] # hi
        BY <2>1
      <3>3. QED
        BY <2>1, <2>2, <3>1, <3>2
    <2>3. CASE ~hi_open
      BY <1>5, <2>1, <2>3
    <2>4. QED
      BY <2>2, <2>3
  <1>7. nodes = While(x, goes)
    BY <1>3, <1>5 DEF RangeByScore, Lowest
  <1>8. PICK a, b : a = p[x] /\ b = Stop(goes, p[x])
    OBVIOUS
  <1>9. a \in 1 .. zsl.length + 1 /\ StopsAt(goes, a, b) /\ nodes = Segment(a, b)
    BY <1>1, <1>4, <1>7, <1>8, WhileRight
  <1>10. /\ b \in a .. zsl.length + 1
         /\ \A k \in a .. b - 1 : goes[Sorted[k]]
         /\ b = zsl.length + 1 \/ ~goes[Sorted[b]]
    BY <1>9 DEF StopsAt
  <1>11. /\ Len(nodes) = b - a
         /\ \A j \in 1 .. b - a : nodes[j] = Sorted[a + j - 1]
    <2>1. /\ Len(Segment(a, b)) = b - a
          /\ \A j \in 1 .. b - a : Segment(a, b)[j] = Sorted[a + j - 1]
      BY <1>9, <1>10, SegmentRight
    <2>2. QED
      BY <1>9, <2>1, Zenon
  <1>12. /\ \A k \in 1 .. zsl.length : Sorted[k] \in In(zsl) /\ p[Sorted[k]] = k
         /\ \A m \in In(zsl) : Sorted[p[m]] = m
    BY <1>1, SortedRight
  <1>13. a \in Nat /\ b \in Nat /\ a <= b /\ a >= 1 /\ b <= zsl.length + 1
    BY <1>2, <1>9, <1>10
  <1>14. ASSUME NEW m \in In(zsl), a <= p[m] PROVE p[m] < b <=> goes[m]
    <2>1. p[m] \in 1 .. zsl.length /\ Sorted[p[m]] = m
      BY <1>2, <1>12
    <2>2. ASSUME p[m] < b PROVE goes[m]
      <3>1. p[m] \in a .. b - 1
        BY <1>13, <1>14, <2>1, <2>2
      <3>2. QED
        BY <1>10, <2>1, <3>1
    <2>3. ASSUME ~(p[m] < b) PROVE ~goes[m]
      <3>1. b <= p[m] /\ b # zsl.length + 1 /\ b \in 1 .. zsl.length
        BY <1>2, <1>13, <2>1, <2>3
      <3>2. PICK y : y = Sorted[b]
        OBVIOUS
      <3>3. y \in In(zsl) /\ p[y] = b /\ ~goes[y]
        BY <1>10, <1>12, <3>1, <3>2
      <3>4. index[y] <= index[m] /\ index[y] \in Int /\ index[m] \in Int
        BY <1>2, <3>1, <3>3
      <3>5. ~(index[y] <= hi /\ (hi_open => index[y] # hi))
        BY <1>6, <3>3
      <3>6. ~(index[m] <= hi /\ (hi_open => index[m] # hi))
        BY <3>4, <3>5
      <3>7. QED
        BY <1>6, <3>6
    <2>4. QED
      BY <2>2, <2>3
  <1>15. right = {m \in In(zsl) : a <= p[m] /\ p[m] < b}
    <2>1. ASSUME NEW m \in In(zsl)
          PROVE  Within(m, lo, hi, lo_open, hi_open) <=> a <= p[m] /\ p[m] < b
      <3>1. a <= p[m] <=> index[m] >= lo /\ (lo_open => index[m] # lo)
        BY <1>4, <1>8
      <3>2. a <= p[m] => (p[m] < b <=> index[m] <= hi /\ (hi_open => index[m] # hi))
        BY <1>6, <1>14
      <3>3. QED
        BY <3>1, <3>2 DEF Within
    <2>2. QED
      BY <1>2, <2>1 DEF Scored
  <1>16. Len(nodes) = Cardinality(right)
    <2>1. ListType(zsl) /\ Ranked(zsl, p)
      BY <1>1 DEF Sound
    <2>2. Cardinality(right) = b - a
      BY <1>9, <1>10, <1>15, <2>1, Between
    <2>3. QED
      BY <1>11, <2>2
  <1>17. ASSUME NEW j \in 1 .. b - a
         PROVE  nodes[j] \in In(zsl) /\ p[nodes[j]] = a + j - 1 /\ a + j - 1 \in a .. b - 1
    <2>1. a + j - 1 \in 1 .. zsl.length /\ a + j - 1 \in a .. b - 1
      BY <1>2, <1>13
    <2>2. QED
      BY <1>11, <1>12, <2>1
  <1>18. {nodes[k] : k \in 1 .. Len(nodes)} = right
    <2>1. ASSUME NEW j \in 1 .. b - a PROVE nodes[j] \in right
      <3>1. nodes[j] \in In(zsl) /\ a <= p[nodes[j]] /\ p[nodes[j]] < b
        BY <1>13, <1>17
      <3>2. QED
        BY <1>15, <3>1
    <2>2. ASSUME NEW m \in right PROVE \E j \in 1 .. b - a : nodes[j] = m
      <3>1. m \in In(zsl) /\ a <= p[m] /\ p[m] < b
        BY <1>15
      <3>2. p[m] \in Nat /\ Sorted[p[m]] = m
        BY <1>2, <1>12, <3>1
      <3>3. PICK j : j = p[m] - a + 1
        OBVIOUS
      <3>4. j \in 1 .. b - a /\ a + j - 1 = p[m]
        BY <1>13, <3>1, <3>2, <3>3
      <3>5. nodes[j] = m
        BY <1>11, <3>2, <3>4
      <3>6. QED
        BY <3>4, <3>5
    <2>3. QED
      BY <1>11, <2>1, <2>2
  <1>19. ASSUME NEW j \in 1 .. Len(nodes), NEW k \in 1 .. Len(nodes), j < k
         PROVE  Precedes(nodes[j], nodes[k])
    <2>1. j \in 1 .. b - a /\ k \in 1 .. b - a
      BY <1>11
    <2>2. /\ nodes[j] \in In(zsl) /\ p[nodes[j]] = a + j - 1
          /\ nodes[k] \in In(zsl) /\ p[nodes[k]] = a + k - 1
      BY <1>17, <2>1
    <2>3. a + j - 1 < a + k - 1
      BY <1>13, <1>19, <2>1
    <2>4. QED
      BY <1>2, <2>2, <2>3
  <1>20. QED
    BY <1>16, <1>18, <1>19 DEF Answers

\* The invariant makes the reads right.
LEMMA ZReads == ZInv => ReadsRight
  <1>1. SUFFICES ASSUME ZInv PROVE ReadsRight
    OBVIOUS
  <1>2. Scores \subseteq Int /\ N \in Nat
    BY ZSetAssumption DEF ZSetAssumption
  <1>3. \A m \in Present :
           /\ Rank(m) = Position(m) - 1
           /\ RevRank(m) = Cardinality({x \in Present : Precedes(m, x)})
    BY <1>1, RankRight
  <1>4. PICK n : n = Cardinality(Present)
    OBVIOUS
  <1>5. \A i \in -(N + 1) .. N + 1 : i \in Int
    BY <1>2
  <1>6. \A start, stop \in -(N + 1) .. N + 1 :
           ZRange(start, stop) =
              SubSeq(Sorted, Max({0, IF start < 0 THEN start + n ELSE start}) + 1,
                             Min({n - 1, IF stop < 0 THEN stop + n ELSE stop}) + 1)
    BY <1>1, <1>4, <1>5, ZRangeRight
  <1>7. \A start \in -(N + 1) .. N + 1 :
           ZRevRange(start, -1 - start) =
              SubSeq(Lists!Reverse(Sorted),
                     Max({0, IF start < 0 THEN start + n ELSE start}) + 1,
                     Min({n - 1, IF -1 - start < 0 THEN -1 - start + n ELSE -1 - start}) + 1)
    BY <1>1, <1>4, <1>5, ZRevRangeRight
  <1>8. ASSUME NEW lo \in Scores, NEW hi \in Scores, NEW lo_open \in BOOLEAN, NEW hi_open \in BOOLEAN
        PROVE  LET nodes == RangeByScore(lo, hi, lo_open, hi_open)
                   right == {m \in Present : /\ index[m] >= lo /\ (lo_open => index[m] # lo)
                                             /\ index[m] <= hi /\ (hi_open => index[m] # hi)}
               IN  /\ {nodes[k] : k \in 1 .. Len(nodes)} = right
                   /\ \A j, k \in 1 .. Len(nodes) : j < k => Precedes(nodes[j], nodes[k])
                   /\ ZCount(lo, hi, lo_open, hi_open) = Cardinality(right)
    <2>1. PICK nodes, right : /\ nodes = RangeByScore(lo, hi, lo_open, hi_open)
                              /\ right = Scored(lo, hi, lo_open, hi_open)
      OBVIOUS
    <2>2. lo \in Int /\ hi \in Int
      BY <1>2
    <2>3. Answers(nodes, right)
      BY <1>1, <2>1, <2>2, RangeByScoreRight
    <2>4. right = {m \in Present : /\ index[m] >= lo /\ (lo_open => index[m] # lo)
                                   /\ index[m] <= hi /\ (hi_open => index[m] # hi)}
      BY <2>1 DEF Scored, Within
    <2>5. ZCount(lo, hi, lo_open, hi_open) = Len(nodes)
      BY <2>1 DEF ZCount
    <2>6. QED
      BY <2>1, <2>3, <2>4, <2>5, Zenon DEF Answers
  <1>9. QED
    BY <1>3, <1>4, <1>6, <1>7, <1>8, Zenon DEF ReadsRight

\* The reads answer what the dictionary alone says, for every number of members
\* and levels, at every boundary and in every interval.
THEOREM ZSetReadsRight == Spec => []ReadsRight
  BY ZSetInvariant, ZReads, PTL
=============================================================================
