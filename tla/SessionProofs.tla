--------------------------- MODULE SessionProofs ---------------------------
(***************************************************************************)
(* For any stream of tokens and any limits: the types of a session, and    *)
(* that EPOLLOUT is registered exactly while there is output left.         *)
(***************************************************************************)
EXTENDS Session, SequenceTheorems, WellFoundedInduction, TLAPS

\* Why WriteInterest holds: it may fail only while HandleWrite runs, and what
\* precedes HandleWrite only adds output.
WriteInv ==
    /\ pc = "enable" => output # <<>>
    /\ pc \in {"wait", "after"} /\ ~closed /\ output # <<>> => writable
    /\ pc # "write" /\ ~closed /\ writable => output # <<>>

SessionInv == TypeOK /\ WriteInv

LEMMA Lengths == stream \in Streams => stream \in Seq(Token) /\ Len(stream) \in Nat
  BY SessionAssumption DEF SessionAssumption

\* A reply is queued.
LEMMA Queued ==
  ASSUME output \in Seq(Reply), NEW e \in Reply
  PROVE  Append(output, e) \in Seq(Reply) /\ Append(output, e) # <<>>
  BY AppendProperties

LEMMA SessionInit == Init => SessionInv
  <1> SUFFICES ASSUME Init PROVE SessionInv
    OBVIOUS
  <1>1. Len(stream) \in Nat
    BY Lengths DEF Init
  <1>2. <<>> \in Seq(Reply) /\ Len(<<>>) <= Room
    BY SessionAssumption, EmptySeq DEF SessionAssumption
  <1>3. TypeOK
    <2>1. 0 \in 0 .. Len(stream) /\ 0 \in 0 .. 0
      BY <1>1
    <2>2. QED
      BY <1>2, <2>1 DEF Init, TypeOK
  <1>4. QED
    BY <1>3 DEF Init, SessionInv, WriteInv

LEMMA SessionStep == SessionInv /\ [Next]_vars => SessionInv'
  <1> SUFFICES ASSUME SessionInv, [Next]_vars PROVE SessionInv'
    OBVIOUS
  <1> USE DEF SessionInv, TypeOK, WriteInv, client, parser, flow
  <1>0. /\ stream \in Seq(Token) /\ Len(stream) \in Nat
        /\ Reply = 0 .. Len(stream) /\ 0 \in Reply
    BY Lengths DEF Reply
  <1>r. stream' = stream => Reply' = Reply
    BY DEF Reply
  <1> USE <1>r
  <1>1. CASE Send
    BY <1>0, <1>1 DEF Send
  <1>2. CASE Finish
    BY <1>2 DEF Finish
  <1>3. CASE Reset
    BY <1>3 DEF Reset
  <1>4. CASE Receive
    <2>1. /\ Head(kernel) \in Reply /\ Tail(kernel) \in Seq(Reply)
          /\ Len(Tail(kernel)) <= Room
      BY <1>4, HeadTailProperties, SessionAssumption DEF Receive, SessionAssumption
    <2>2. Append(received, Head(kernel)) \in Seq(Reply)
      BY <2>1, AppendProperties
    <2>3. QED
      BY <1>0, <1>4, <2>1, <2>2 DEF Receive
  <1>5. CASE HandleEvent
    BY <1>5 DEF HandleEvent, Ready
  <1>6. CASE Recv
    BY <1>0, <1>6 DEF Recv
  <1>7. CASE RecvFails
    BY <1>7 DEF RecvFails, MarkClosed
  <1>8. CASE RecvEnds
    <2>1. Append(output, 0) \in Seq(Reply) /\ Append(output, 0) # <<>>
      BY <1>0, Queued
    <2>2. QED
      BY <1>0, <1>8, <2>1 DEF RecvEnds
  <1>9. CASE ParseIncomplete
    BY <1>9 DEF ParseIncomplete
  <1>10. CASE ParseBlank
    BY <1>0, <1>10 DEF ParseBlank, At
  <1>11. CASE ParseEmpty
    BY <1>0, <1>11 DEF ParseEmpty, At
  <1>12. CASE ParseMalformed
    <2>1. pos < read
      BY <1>12 DEF ParseMalformed, Malformed, At
    <2>2. pos' \in 0 .. read
      BY <1>0, <1>12, <2>1 DEF ParseMalformed
    <2>3. Append(output, 0) \in Seq(Reply) /\ Append(output, 0) # <<>>
      BY <1>0, Queued
    <2>4. QED
      BY <1>0, <1>12, <2>2, <2>3 DEF ParseMalformed
  <1>13. CASE Execute
    <2>1. pos < read /\ (At(pos) = "head" => pos + 1 < read)
      BY <1>13 DEF Execute, Complete, Incomplete, At
    <2>2. pos' \in 0 .. read /\ pos + 1 \in Reply
      BY <1>0, <1>13, <2>1 DEF Execute
    <2>3. Append(output, pos + 1) \in Seq(Reply) /\ Append(output, pos + 1) # <<>>
      BY <2>2, Queued
    <2>4. QED
      BY <1>0, <1>13, <2>2, <2>3 DEF Execute
  <1>14. CASE Parsed
    BY <1>14 DEF Parsed, MarkClosed
  <1>15. CASE After
    BY <1>15 DEF After, MarkClosed
  <1>16. CASE Write
    <2>1. Head(output) \in Reply /\ Tail(output) \in Seq(Reply)
      BY <1>16, HeadTailProperties DEF Write
    <2>2. /\ Append(kernel, Head(output)) \in Seq(Reply)
          /\ Len(Append(kernel, Head(output))) <= Room
      BY <1>16, <2>1, AppendProperties, SessionAssumption DEF Write, SessionAssumption
    <2>3. QED
      BY <1>0, <1>16, <2>1, <2>2 DEF Write
  <1>17. CASE WriteBlocked
    BY <1>17 DEF WriteBlocked
  <1>18. CASE Enable
    BY <1>18 DEF Enable, Modify
  <1>19. CASE WriteFails
    BY <1>19 DEF WriteFails, MarkClosed
  <1>20. CASE Written
    BY <1>20 DEF Written, Modify, MarkClosed
  <1>21. CASE Close
    BY <1>21 DEF Close, MarkClosed
  <1>22. CASE UNCHANGED vars
    BY <1>22 DEF vars
  <1>23. QED
    BY <1>1, <1>2, <1>3, <1>4, <1>5, <1>6, <1>7, <1>8, <1>9, <1>10, <1>11, <1>12,
       <1>13, <1>14, <1>15, <1>16, <1>17, <1>18, <1>19, <1>20, <1>21, <1>22
       DEF Next, LoopStep

\* The invariant holds in every behavior.
THEOREM SessionInvariant == Spec => []SessionInv
  BY SessionInit, SessionStep, PTL DEF Spec

\* A session's variables keep their types: the parser never runs ahead of what
\* was received, nor the reader ahead of the client.
THEOREM SessionTypeCorrect == Spec => []TypeOK
  BY SessionInvariant, PTL DEF SessionInv

\* Whenever the loop waits for an open connection, it asked for EPOLLOUT if and
\* only if there is output left.
THEOREM SessionWriteInterest == Spec => []WriteInterest
  <1>1. SessionInv => WriteInterest
    BY DEF SessionInv, TypeOK, WriteInv, WriteInterest
  <1>2. QED
    BY <1>1, SessionInvariant, PTL
-----------------------------------------------------------------------------
(* What the client is owed, token by token: Owed(n) unfolded. *)

\* What is owed from token p on, given what is owed from the later ones on.
Due(n, f, p) ==
    IF p = n THEN <<>>
    ELSE CASE stream[p + 1] \in {"line", "arg"} -> <<p + 1>> \o f[p + 1]
           [] stream[p + 1] \in {"empty", "blank"} -> f[p + 1]
           [] stream[p + 1] = "badhead" -> <<0>>
           [] stream[p + 1] = "head" ->
                IF p + 1 = n THEN <<>>
                ELSE IF stream[p + 2] = "arg" THEN <<p + 1>> \o f[p + 2]
                ELSE <<0>>

\* A set of naturals that is not empty has a least member.
LEMMA LeastNat ==
  ASSUME NEW T \in SUBSET Nat, T # {}
  PROVE  \E x \in T : \A y \in T : x <= y
  <1> DEFINE R == OpToRel(<, Nat)
  <1>1. IsWellFoundedOn(R, Nat)
    BY NatLessThanWellFounded, Zenon
  <1>2. \A x, y : <<y, x>> \in R <=> y \in Nat /\ x \in Nat /\ y < x
    BY Zenon DEF OpToRel
  <1> HIDE DEF R
  <1>3. PICK x \in T : \A y \in T : ~(<<y, x>> \in R)
    BY <1>1, WFMin, Zenon
  <1>4. \A y \in T : ~(y < x)
    BY <1>2, <1>3
  <1>5. QED
    BY <1>4

\* Two functions that agree above p make the same of token p.
LEMMA DueLooksAhead ==
  ASSUME NEW n \in Nat, NEW p \in 0 .. n, NEW f, NEW g,
         \A q \in p + 1 .. n : f[q] = g[q], n <= Len(stream), stream \in Seq(Token)
  PROVE  Due(n, f, p) = Due(n, g, p)
  <1>1. CASE p = n
    BY <1>1 DEF Due
  <1>2. CASE p # n
    <2>1. f[p + 1] = g[p + 1] /\ (p + 1 # n => f[p + 2] = g[p + 2])
      BY <1>2
    <2>2. stream[p + 1] \in Token
      BY <1>2
    <2>3. QED
      BY <1>2, <2>1, <2>2 DEF Due, Token
  <1>3. QED
    BY <1>1, <1>2

\* Owed(n) is defined: it is filled in from the last token backwards.
LEMMA OwedUnfolds ==
  ASSUME NEW n \in Nat, n <= Len(stream), stream \in Seq(Token)
  PROVE  /\ DOMAIN Owed(n) = 0 .. n
         /\ \A p \in 0 .. n : Owed(n)[p] = Due(n, Owed(n), p)
  <1> DEFINE Filled(g, k) == DOMAIN g = 0 .. n /\ \A p \in k .. n : g[p] = Due(n, g, p)
             T == {k \in 0 .. n : \E g : g = [p \in 0 .. n |-> g[p]] /\ Filled(g, k)}
  <1>1. n \in T
    <2> DEFINE g == [p \in 0 .. n |-> <<>>]
    <2>1. Filled(g, n)
      BY DEF Due
    <2>2. g = [p \in 0 .. n |-> g[p]]
      OBVIOUS
    <2>3. QED
      BY <2>1, <2>2
  <1>2. PICK k \in T : \A j \in T : k <= j
    <2>1. T \in SUBSET Nat /\ T # {}
      BY <1>1
    <2> HIDE DEF T
    <2>2. QED
      BY <2>1, LeastNat
  <1>3. k = 0
    <2>1. SUFFICES ASSUME k # 0 PROVE FALSE
      OBVIOUS
    <2>2. PICK g : g = [p \in 0 .. n |-> g[p]] /\ Filled(g, k)
      BY <1>2
    <2> DEFINE h == [g EXCEPT ![k - 1] = Due(n, g, k - 1)]
    <2>3. k - 1 \in 0 .. n /\ k \in 1 .. n
      BY <1>2, <2>1
    <2>4. \A p \in k .. n : h[p] = g[p]
      BY <2>2, <2>3
    <2>5. h[k - 1] = Due(n, g, k - 1) /\ DOMAIN h = 0 .. n
      BY <2>2, <2>3
    <2>6. h = [p \in 0 .. n |-> h[p]]
      BY <2>2
    <2> HIDE DEF h
    <2>7. ASSUME NEW p \in k - 1 .. n PROVE h[p] = Due(n, h, p)
      <3>1. p \in 0 .. n /\ \A q \in p + 1 .. n : h[q] = g[q]
        BY <2>3, <2>4, <2>7
      <3>2. Due(n, h, p) = Due(n, g, p)
        BY <3>1, DueLooksAhead
      <3>3. CASE p = k - 1
        BY <2>5, <3>2, <3>3
      <3>4. CASE p \in k .. n
        BY <2>2, <2>4, <3>2, <3>4
      <3>5. QED
        BY <2>3, <2>7, <3>3, <3>4
    <2>8. Filled(h, k - 1)
      BY <2>5, <2>7
    <2>9. k - 1 \in T
      BY <2>3, <2>6, <2>8
    <2>10. QED
      BY <1>2, <2>3, <2>9
  <1>4. PICK g : g = [p \in 0 .. n |-> g[p]] /\ Filled(g, 0)
    BY <1>2, <1>3
  <1>5. g = [p \in 0 .. n |-> Due(n, g, p)]
    BY <1>4
  <1> DEFINE o == CHOOSE f : f = [p \in 0 .. n |-> Due(n, f, p)]
  <1>6. o = [p \in 0 .. n |-> Due(n, o, p)]
    BY <1>5, Zenon
  <1>7. Owed(n) = o
    BY Zenon DEF Owed, Due
  <1>8. QED
    BY <1>6, <1>7

\* What is owed is made of positions and errors.
LEMMA OwedTyped ==
  ASSUME NEW n \in Nat, n <= Len(stream), stream \in Seq(Token)
  PROVE  \A p \in 0 .. n : Owed(n)[p] \in Seq(Reply)
  <1> DEFINE o == Owed(n)
             R == Seq(Reply)
             T == {k \in 0 .. n : \A p \in k .. n : o[p] \in R}
  <1>1. \A p \in 0 .. n : o[p] = Due(n, o, p)
    BY OwedUnfolds
  <1>2. Len(stream) \in Nat
    OBVIOUS
  <1> HIDE DEF o, R
  <1>3. n \in T
    <2>1. n \in 0 .. n /\ \A p \in n .. n : p = n
      OBVIOUS
    <2>2. o[n] = <<>>
      BY <1>1, <2>1 DEF Due
    <2>3. <<>> \in R
      BY DEF R
    <2>4. QED
      BY <2>1, <2>2, <2>3
  <1>4. PICK k \in T : \A j \in T : k <= j
    <2>1. T \subseteq 0 .. n /\ T # {}
      BY <1>3, Zenon
    <2> HIDE DEF T
    <2>2. QED
      BY <2>1, LeastNat
  <1>5. k = 0
    <2>1. SUFFICES ASSUME k # 0 PROVE FALSE
      OBVIOUS
    <2>2. k - 1 \in 0 .. n - 1 /\ k - 1 # n
      BY <1>4, <2>1
    <2>3. o[k] \in R /\ (k # n => o[k + 1] \in R)
      BY <1>4, <2>2
    <2>4. stream[k] \in Token
      BY <2>2
    <2>5. /\ <<0>> \in R /\ <<>> \in R /\ <<k>> \in R
      BY <1>2, <2>2 DEF Reply, R
    <2>6. \A s \in R : <<k>> \o s \in R
      BY <2>5, ConcatProperties DEF R
    <2>7. o[k - 1] \in R
      <3>1. o[k - 1] = Due(n, o, k - 1)
        BY <1>1, <2>2
      <3>2. k - 1 + 1 = k /\ k - 1 + 2 = k + 1
        BY <2>2
      <3>3. QED
        BY <2>2, <2>3, <2>4, <2>5, <2>6, <3>1, <3>2 DEF Due, Token
    <2>8. k - 1 \in T
      BY <1>4, <2>2, <2>7
    <2>9. QED
      BY <1>4, <2>2, <2>8
  <1>6. QED
    BY <1>4, <1>5 DEF o, R

-----------------------------------------------------------------------------
(* The answers before the first error. *)

SoundOf(s) ==
    LET errors == {i \in DOMAIN s : s[i] = 0}
    IN  IF errors = {} THEN s
        ELSE SubSeq(s, 1, (CHOOSE i \in errors : \A j \in errors : i <= j) - 1)

\* Without an error they are all the answers.
LEMMA SoundAll ==
  ASSUME NEW s \in Seq(Nat), 0 \notin Range(s)
  PROVE  SoundOf(s) = s
  BY DEF SoundOf, Range

\* A further answer adds nothing to them once there is an error, nor if it is one.
LEMMA SoundEnds ==
  ASSUME NEW s \in Seq(Nat), NEW e \in Nat, 0 \in Range(s) \/ e = 0
  PROVE  SoundOf(Append(s, e)) = SoundOf(s)
  <1> DEFINE t == Append(s, e)
             E(u) == {i \in DOMAIN u : u[i] = 0}
             First(u, i) == i \in E(u) /\ \A j \in E(u) : i <= j
  <1>1. /\ t \in Seq(Nat) /\ Len(t) = Len(s) + 1 /\ t[Len(s) + 1] = e
        /\ \A i \in 1 .. Len(s) : t[i] = s[i]
        /\ DOMAIN s = 1 .. Len(s) /\ DOMAIN t = 1 .. Len(s) + 1 /\ Len(s) \in Nat
    BY AppendProperties
  <1> HIDE DEF t
  <1>2. E(t) \in SUBSET Nat /\ E(t) # {}
    BY <1>1 DEF Range
  <1>3. PICK i \in E(t) : \A j \in E(t) : i <= j
    <2> HIDE DEF E
    <2>1. QED
      BY <1>2, LeastNat
  <1>4. (CHOOSE m \in E(t) : \A j \in E(t) : m <= j) = i
    BY <1>1, <1>3
  <1>5. SoundOf(t) = SubSeq(t, 1, i - 1)
    BY <1>2, <1>4, Zenon DEF SoundOf
  <1>6. i \in 1 .. Len(s) + 1 /\ SubSeq(t, 1, i - 1) = SubSeq(s, 1, i - 1)
    BY <1>1, <1>3
  <1>7. CASE E(s) = {}
    <2>1. i = Len(s) + 1
      <3>1. i \in 1 .. Len(s) + 1 /\ t[i] = 0
        BY <1>1, <1>3
      <3>2. ASSUME i \in 1 .. Len(s) PROVE FALSE
        BY <1>1, <1>7, <3>1, <3>2
      <3>3. QED
        BY <1>1, <3>1, <3>2
    <2>2. SoundOf(s) = s
      BY <1>7, Zenon DEF SoundOf
    <2>3. SubSeq(s, 1, Len(s)) = s
      OBVIOUS
    <2>4. QED
      BY <1>1, <1>5, <1>6, <2>1, <2>2, <2>3 DEF t
  <1>8. CASE E(s) # {}
    <2>1. PICK m \in E(s) : TRUE
      BY <1>8
    <2>2. m \in E(t) /\ m \in 1 .. Len(s)
      BY <1>1, <2>1
    <2>3. i \in 1 .. Len(s)
      BY <1>1, <1>3, <2>2
    <2>4. i \in E(s) /\ \A j \in E(s) : i <= j
      BY <1>1, <1>3, <2>3
    <2>5. (CHOOSE x \in E(s) : \A j \in E(s) : x <= j) = i
      BY <1>1, <2>4
    <2>6. SoundOf(s) = SubSeq(s, 1, i - 1)
      BY <1>8, <2>5, Zenon DEF SoundOf
    <2>7. QED
      BY <1>5, <1>6, <2>6 DEF t
  <1>9. QED
    BY <1>7, <1>8

-----------------------------------------------------------------------------
(* Why InOrder and HalfClose hold. *)

Erred == 0 \in Range(Answers)

\* Whatever else arrives: answered is what was owed up to the cursor, and owed is
\* what follows from there; after an error the answers before it stay right.
OwedInv ==
    /\ ~Erred => \A n \in pos .. Len(stream) : Replies(n) = Answers \o Owed(n)[pos]
    /\ \A n \in read .. Len(stream) : IsPrefix(SoundOf(Answers), Replies(n))

LEMMA AnswersTyped ==
  ASSUME TypeOK
  PROVE  Answers \in Seq(Reply) /\ Reply \subseteq Nat /\ Answers \in Seq(Nat)
  <1>1. received \in Seq(Reply) /\ kernel \in Seq(Reply) /\ output \in Seq(Reply)
    BY DEF TypeOK
  <1>2. Answers \in Seq(Reply)
    BY <1>1, ConcatProperties DEF Answers
  <1>3. Reply \subseteq Nat
    BY Lengths DEF TypeOK, Reply
  <1>4. QED
    BY <1>2, <1>3, SeqMonotonic

LEMMA Associates ==
  \A s, t, u \in Seq(Reply) : (s \o t) \o u = s \o (t \o u)
  <1> SUFFICES ASSUME NEW s \in Seq(Reply), NEW t \in Seq(Reply), NEW u \in Seq(Reply)
               PROVE  (s \o t) \o u = s \o (t \o u)
    OBVIOUS
  <1>1. QED
    BY ConcatAssociative

LEMMA StartsWithIt ==
  ASSUME NEW S, NEW s \in Seq(S), NEW t \in Seq(S)
  PROVE  IsPrefix(s, s \o t)
  <1>1. /\ Len(s) <= Len(s \o t) /\ s \o t \in Seq(S)
        /\ \A i \in 1 .. Len(s) : (s \o t)[i] = s[i]
    BY ConcatProperties, LenProperties
  <1> DEFINE u == s \o t
  <1> HIDE DEF u
  <1>2. SubSeq(s, 1, Len(s)) = SubSeq(u, 1, Len(s))
    BY <1>1 DEF u
  <1>3. QED
    BY <1>1, <1>2 DEF IsPrefix, u

\* A blank line with something behind it.
Hidden == \E i \in 1 .. sent - 1 : stream[i] = "blank"

\* When the FIN has been seen and its input parsed, nothing is owed any more; and
\* an open socket is closed with nothing left to write.
DrainInv ==
    /\ closed => pc = "wait" /\ (gone \/ output = <<>>)
    /\ eof => fin /\ read = sent
    /\ pc = "read" => ~eof
    /\ eof /\ pc # "parse" =>
          Erred \/ Hidden \/ Len(Answers) > OutLimit \/ Owed(read)[pos] = <<>>

\* Only the stream decides what is owed.
LEMMA StreamDecides ==
  ASSUME stream' = stream
  PROVE  /\ \A n : Owed(n)' = Owed(n) /\ Replies(n)' = Replies(n)
         /\ Reply' = Reply
  BY DEF Owed, Replies, Reply

LEMMA ErredByAnswers ==
  ASSUME Answers' = Answers
  PROVE  Erred' = Erred
  BY DEF Erred

\* Once there is an error there always is.
LEMMA ErredGrows ==
  ASSUME TypeOK, NEW e \in Reply, Answers' = Append(Answers, e)
  PROVE  /\ Erred' <=> Erred \/ e = 0
         /\ Len(Answers') = Len(Answers) + 1
  <1> DEFINE s == Answers
             t == Append(s, e)
  <1>1. s \in Seq(Reply)
    BY AnswersTyped
  <1> HIDE DEF s
  <1>2. /\ Len(t) = Len(s) + 1 /\ t[Len(s) + 1] = e /\ Len(s) \in Nat
        /\ \A i \in 1 .. Len(s) : t[i] = s[i]
        /\ DOMAIN s = 1 .. Len(s) /\ DOMAIN t = 1 .. Len(s) + 1
    BY <1>1, AppendProperties
  <1> HIDE DEF t
  <1>3. 0 \in Range(t) <=> 0 \in Range(s) \/ e = 0
    BY <1>2 DEF Range
  <1>4. Answers' = t /\ Answers = s
    BY DEF s, t
  <1>5. QED
    BY <1>2, <1>3, <1>4 DEF Erred

\* Nothing is parsed or answered: more input may arrive, and replies move on.
LEMMA OwedStays ==
  ASSUME TypeOK, OwedInv, stream' = stream, pos' = pos, Answers' = Answers,
         read' >= read, read' \in Nat
  PROVE  OwedInv'
  <1>1. \A n : Owed(n)' = Owed(n) /\ Replies(n)' = Replies(n)
    BY StreamDecides
  <1>2. Erred' = Erred
    BY ErredByAnswers
  <1>3. \A n \in read' .. Len(stream) : n \in read .. Len(stream)
    BY Lengths DEF TypeOK
  <1>4. QED
    BY <1>1, <1>2, <1>3 DEF OwedInv

\* A token is passed over for which nothing is owed.
LEMMA OwedPasses ==
  ASSUME TypeOK, OwedInv, stream' = stream, read' = read, Answers' = Answers,
         pos' = pos + 1, pos < read, stream[pos + 1] \in {"blank", "empty"}
  PROVE  OwedInv'
  <1>1. \A n : Owed(n)' = Owed(n) /\ Replies(n)' = Replies(n)
    BY StreamDecides
  <1>2. Erred' = Erred
    BY ErredByAnswers
  <1>3. stream \in Seq(Token) /\ Len(stream) \in Nat /\ pos \in Nat
    BY Lengths DEF TypeOK
  <1>4. ASSUME NEW n \in pos + 1 .. Len(stream)
        PROVE  n \in pos .. Len(stream) /\ Owed(n)[pos] = Owed(n)[pos + 1]
    <2>1. n \in Nat /\ n <= Len(stream) /\ pos \in 0 .. n /\ pos # n /\ n \in pos .. Len(stream)
      BY <1>3, <1>4
    <2>2. Owed(n)[pos] = Due(n, Owed(n), pos)
      BY <1>3, <2>1, OwedUnfolds
    <2>3. QED
      BY <2>1, <2>2 DEF Due
  <1>5. QED
    BY <1>1, <1>2, <1>4 DEF OwedInv

\* An error is answered.
LEMMA OwedFails ==
  ASSUME TypeOK, OwedInv, stream' = stream, read' = read, Answers' = Append(Answers, 0)
  PROVE  OwedInv'
  <1>1. \A n : Owed(n)' = Owed(n) /\ Replies(n)' = Replies(n)
    BY StreamDecides
  <1>2. 0 \in Reply /\ Answers \in Seq(Nat)
    BY AnswersTyped, Lengths DEF TypeOK, Reply
  <1>3. Erred'
    BY <1>2, ErredGrows
  <1>4. SoundOf(Answers') = SoundOf(Answers)
    BY <1>2, SoundEnds
  <1>5. QED
    BY <1>1, <1>3, <1>4 DEF OwedInv

\* A request is answered: its reply was owed next.
LEMMA OwedAnswers ==
  ASSUME TypeOK, OwedInv, stream' = stream, read' = read,
         Answers' = Append(Answers, pos + 1), pos < read,
         \/ stream[pos + 1] \in {"line", "arg"} /\ pos' = pos + 1
         \/ stream[pos + 1] = "head" /\ stream[pos + 2] = "arg" /\ pos' = pos + 2 /\ pos + 1 < read
  PROVE  OwedInv'
  <1>1. \A n : Owed(n)' = Owed(n) /\ Replies(n)' = Replies(n)
    BY StreamDecides
  <1>2. stream \in Seq(Token) /\ Len(stream) \in Nat /\ pos \in Nat /\ read \in Nat /\ read <= Len(stream)
    BY Lengths DEF TypeOK
  <1>3. Answers \in Seq(Reply) /\ Answers \in Seq(Nat) /\ Reply \subseteq Nat
    BY AnswersTyped
  <1>4. pos + 1 \in Reply /\ pos + 1 # 0
    BY <1>2 DEF Reply
  <1>5. Erred' <=> Erred
    BY <1>3, <1>4, ErredGrows, Zenon
  <1>6. pos' \in Nat /\ pos' <= read /\ pos' > pos
    BY <1>2
  <1>7. ASSUME NEW n \in pos' .. Len(stream)
        PROVE  /\ n \in pos .. Len(stream) /\ Owed(n)[pos'] \in Seq(Reply)
               /\ Owed(n)[pos] = <<pos + 1>> \o Owed(n)[pos']
    <2>1. n \in Nat /\ n <= Len(stream) /\ pos \in 0 .. n /\ pos # n /\ n \in pos .. Len(stream)
          /\ pos' \in 0 .. n
      BY <1>2, <1>6, <1>7
    <2>2. Owed(n)[pos] = Due(n, Owed(n), pos)
      BY <1>2, <2>1, OwedUnfolds
    <2>3. CASE stream[pos + 1] \in {"line", "arg"} /\ pos' = pos + 1
      BY <1>2, <2>1, <2>2, <2>3, OwedTyped DEF Due
    <2>4. CASE stream[pos + 1] = "head" /\ stream[pos + 2] = "arg" /\ pos' = pos + 2
      <3>1. pos + 1 # n
        BY <1>2, <2>1, <2>4
      <3>2. QED
        BY <1>2, <2>1, <2>2, <2>4, <3>1, OwedTyped DEF Due
    <2>5. QED
      BY <2>3, <2>4
  <1>8. ASSUME NEW n \in pos' .. Len(stream), ~Erred
        PROVE  Replies(n) = Answers' \o Owed(n)[pos']
    <2>1. Replies(n) = Answers \o (<<pos + 1>> \o Owed(n)[pos'])
      BY <1>7, <1>8 DEF OwedInv
    <2>2. <<pos + 1>> \in Seq(Reply)
      BY <1>4
    <2>3. Answers \o (<<pos + 1>> \o Owed(n)[pos']) = (Answers \o <<pos + 1>>) \o Owed(n)[pos']
      BY <1>3, <1>7, <2>2, Associates
    <2>4. Append(Answers, pos + 1) = Answers \o <<pos + 1>>
      BY <1>3, <1>4, AppendIsConcat
    <2>5. QED
      BY <2>1, <2>3, <2>4
  <1>9. ASSUME NEW n \in read .. Len(stream)
        PROVE  IsPrefix(SoundOf(Answers'), Replies(n))
    <2>1. CASE Erred
      <3>1. SoundOf(Answers') = SoundOf(Answers)
        BY <1>3, <1>4, <2>1, SoundEnds DEF Erred
      <3>2. QED
        BY <1>9, <3>1 DEF OwedInv
    <2>2. CASE ~Erred
      <3>1. Answers' \in Seq(Reply) /\ Answers' \in Seq(Nat)
        BY <1>3, <1>4, AppendProperties
      <3>2. SoundOf(Answers') = Answers'
        BY <1>5, <2>2, <3>1, SoundAll DEF Erred
      <3>3. n \in pos' .. Len(stream)
        BY <1>2, <1>6, <1>9
      <3>4. Replies(n) = Answers' \o Owed(n)[pos'] /\ Owed(n)[pos'] \in Seq(Reply)
        BY <1>7, <1>8, <2>2, <3>3
      <3>5. QED
        BY <3>1, <3>2, <3>4, StartsWithIt
    <2>3. QED
      BY <2>1, <2>2
  <1>10. QED
    BY <1>1, <1>5, <1>8, <1>9 DEF OwedInv

\* Replies only move from the output to the socket and to the client.
LEMMA WriteMoves ==
  ASSUME TypeOK, Write
  PROVE  Answers' = Answers
  <1>1. /\ received \in Seq(Reply) /\ kernel \in Seq(Reply) /\ output \in Seq(Reply)
        /\ output # <<>>
    BY DEF TypeOK, Write
  <1>2. Answers' = received \o Append(kernel, Head(output)) \o Tail(output)
    BY DEF Write, Answers, client
  <1> DEFINE h == Head(output)
             t == Tail(output)
  <1>3. h \in Reply /\ t \in Seq(Reply) /\ output = <<h>> \o t
    BY <1>1, HeadTailProperties
  <1> HIDE DEF h, t
  <1>4. <<h>> \in Seq(Reply) /\ kernel \o <<h>> \in Seq(Reply) /\ <<h>> \o t \in Seq(Reply)
    BY <1>1, <1>3, ConcatProperties
  <1>5. Append(kernel, h) = kernel \o <<h>>
    BY <1>1, <1>3, AppendIsConcat
  <1>6. (received \o (kernel \o <<h>>)) \o t = received \o ((kernel \o <<h>>) \o t)
    BY <1>1, <1>3, <1>4, Associates
  <1>7. (kernel \o <<h>>) \o t = kernel \o (<<h>> \o t)
    BY <1>1, <1>3, <1>4, Associates
  <1>8. received \o (kernel \o (<<h>> \o t)) = (received \o kernel) \o (<<h>> \o t)
    BY <1>1, <1>3, <1>4, Associates
  <1>9. Answers' = (received \o (kernel \o <<h>>)) \o t
    BY <1>2, <1>5 DEF h, t
  <1>10. Answers = (received \o kernel) \o (<<h>> \o t)
    BY <1>3 DEF Answers
  <1>11. QED
    BY <1>6, <1>7, <1>8, <1>9, <1>10

LEMMA ReceiveMoves ==
  ASSUME TypeOK, Receive
  PROVE  Answers' = Answers
  <1>1. /\ received \in Seq(Reply) /\ kernel \in Seq(Reply) /\ output \in Seq(Reply)
        /\ kernel # <<>>
    BY DEF TypeOK, Receive
  <1>2. Answers' = Append(received, Head(kernel)) \o Tail(kernel) \o output
    BY DEF Receive, Answers
  <1> DEFINE h == Head(kernel)
             t == Tail(kernel)
  <1>3. h \in Reply /\ t \in Seq(Reply) /\ kernel = <<h>> \o t
    BY <1>1, HeadTailProperties
  <1> HIDE DEF h, t
  <1>4. <<h>> \in Seq(Reply)
    BY <1>3
  <1>5. Append(received, h) = received \o <<h>>
    BY <1>1, <1>3, AppendIsConcat
  <1>6. (received \o <<h>>) \o t = received \o (<<h>> \o t)
    BY <1>1, <1>3, <1>4, Associates
  <1>7. Answers' = ((received \o <<h>>) \o t) \o output
    BY <1>2, <1>5 DEF h, t
  <1>8. Answers = (received \o (<<h>> \o t)) \o output
    BY <1>3 DEF Answers
  <1>9. QED
    BY <1>6, <1>7, <1>8

\* A reply added to the output is the next answer.
LEMMA OutputAppends ==
  ASSUME TypeOK, NEW e \in Reply, output' = Append(output, e),
         received' = received, kernel' = kernel
  PROVE  Answers' = Append(Answers, e)
  <1> DEFINE s == received \o kernel
  <1>1. s \in Seq(Reply) /\ output \in Seq(Reply) /\ <<e>> \in Seq(Reply) /\ s \o output \in Seq(Reply)
    BY ConcatProperties DEF TypeOK
  <1> HIDE DEF s
  <1>2. s \o (output \o <<e>>) = (s \o output) \o <<e>>
    BY <1>1, Associates
  <1>3. Append(output, e) = output \o <<e>> /\ Append(s \o output, e) = (s \o output) \o <<e>>
    BY <1>1, AppendIsConcat, Zenon
  <1>4. Answers' = s \o Append(output, e) /\ Answers = s \o output
    BY DEF Answers, s
  <1>5. QED
    BY <1>2, <1>3, <1>4

\* What the parser sees of a token it has.
LEMMA Tokens ==
  ASSUME TypeOK
  PROVE  /\ Complete => \/ pos < read /\ stream[pos + 1] \in {"line", "arg"}
                        \/ /\ pos + 1 < read /\ stream[pos + 1] = "head"
                           /\ stream[pos + 2] = "arg"
         /\ \A x \in {"blank", "empty"} :
               At(pos) = x => pos < read /\ stream[pos + 1] = x
  <1>1. stream \in Seq(Token) /\ pos \in Nat /\ read \in Nat /\ read <= Len(stream)
        /\ Len(stream) \in Nat
    BY Lengths DEF TypeOK
  <1>2. ASSUME pos < read PROVE At(pos) = stream[pos + 1] /\ At(pos) \in Token
    BY <1>1, <1>2 DEF At
  <1>3. ASSUME pos + 1 < read PROVE At(pos + 1) = stream[pos + 2]
    <2>1. pos + 1 + 1 = pos + 2
      BY <1>1
    <2>2. QED
      BY <1>3, <2>1 DEF At
  <1>4. ~(pos < read) => At(pos) = "none"
    BY DEF At
  <1>5. ~(pos + 1 < read) => At(pos + 1) = "none"
    BY DEF At
  <1>6. QED
    BY <1>1, <1>2, <1>3, <1>4, <1>5 DEF Complete, Incomplete, Malformed, Token

LEMMA OwedInit == Init => OwedInv
  <1> SUFFICES ASSUME Init PROVE OwedInv
    OBVIOUS
  <1>1. stream \in Seq(Token) /\ Len(stream) \in Nat
    BY Lengths DEF Init
  <1>2. Answers = <<>> /\ pos = 0 /\ read = 0
    BY DEF Init, Answers
  <1>3. ASSUME NEW n \in 0 .. Len(stream)
        PROVE  Replies(n) \in Seq(Reply)
    <2>1. n \in Nat /\ n <= Len(stream) /\ 0 \in 0 .. n
      BY <1>1, <1>3
    <2>2. QED
      BY <1>1, <2>1, OwedTyped DEF Replies
  <1>4. SoundOf(Answers) = Answers
    <2>1. {i \in DOMAIN Answers : Answers[i] = 0} = {}
      BY <1>2
    <2>2. QED
      BY <2>1, Zenon DEF SoundOf
  <1>5. ASSUME NEW n \in 0 .. Len(stream)
        PROVE  Replies(n) = Answers \o Owed(n)[0] /\ IsPrefix(Answers, Replies(n))
    <2>1. Replies(n) = Answers \o Owed(n)[0]
      BY <1>2, <1>3, ConcatEmptySeq DEF Replies
    <2>2. Owed(n)[0] \in Seq(Reply) /\ Answers \in Seq(Reply)
      BY <1>2, <1>3 DEF Replies
    <2>3. QED
      BY <2>1, <2>2, StartsWithIt
  <1>6. QED
    BY <1>2, <1>4, <1>5 DEF OwedInv

LEMMA OwedStep ==
  ASSUME SessionInv, OwedInv, [Next]_vars
  PROVE  OwedInv'
  <1>0. TypeOK /\ TypeOK'
    BY SessionStep DEF SessionInv
  <1>t. /\ read \in Nat /\ read' \in Nat /\ pos \in Nat /\ sent \in Nat /\ sent' \in Nat
        /\ stream \in Seq(Token) /\ Len(stream) \in Nat /\ 0 \in Reply
    <2>1. stream \in Seq(Token) /\ Len(stream) \in Nat /\ stream' \in Seq(Token) /\ Len(stream') \in Nat
      BY <1>0, Lengths, SessionAssumption DEF TypeOK, SessionAssumption
    <2>2. QED
      BY <1>0, <2>1 DEF TypeOK, Reply
  <1> USE DEF client, parser, flow
  <1>1. CASE \/ Send \/ Finish \/ Reset \/ HandleEvent \/ RecvFails \/ ParseIncomplete
             \/ Parsed \/ After \/ WriteBlocked \/ Enable \/ WriteFails \/ Written \/ Close
             \/ UNCHANGED vars
    <2>1. UNCHANGED <<stream, received, kernel, output, read, pos>>
      BY <1>1 DEF Send, Finish, Reset, HandleEvent, RecvFails, ParseIncomplete, Parsed, After,
                  WriteBlocked, Enable, WriteFails, Written, Close, vars
    <2>2. Answers' = Answers
      BY <2>1 DEF Answers
    <2>3. QED
      BY <1>0, <1>t, <2>1, <2>2, OwedStays
  <1>2. CASE Receive
    BY <1>0, <1>2, <1>t, ReceiveMoves, OwedStays DEF Receive
  <1>3. CASE Write
    BY <1>0, <1>3, <1>t, WriteMoves, OwedStays DEF Write
  <1>4. CASE Recv
    <2>1. UNCHANGED <<stream, received, kernel, output, pos>> /\ read' >= read
      BY <1>4, <1>t DEF Recv
    <2>2. Answers' = Answers
      BY <2>1 DEF Answers
    <2>3. QED
      BY <1>0, <1>t, <2>1, <2>2, OwedStays
  <1>5. CASE RecvEnds
    <2>1. UNCHANGED <<stream, received, kernel, read, pos>>
          /\ (output' = output \/ output' = Append(output, 0))
      BY <1>5 DEF RecvEnds
    <2>2. CASE output' = output
      <3>1. Answers' = Answers
        BY <2>1, <2>2 DEF Answers
      <3>2. QED
        BY <1>0, <1>t, <2>1, <3>1, OwedStays
    <2>3. CASE output' = Append(output, 0)
      <3>1. Answers' = Append(Answers, 0)
        BY <1>0, <1>t, <2>1, <2>3, OutputAppends
      <3>2. QED
        BY <1>0, <2>1, <3>1, OwedFails
    <2>4. QED
      BY <2>1, <2>2, <2>3
  <1>6. CASE ParseMalformed
    <2>1. UNCHANGED <<stream, received, kernel, read>> /\ output' = Append(output, 0)
      BY <1>6 DEF ParseMalformed
    <2>2. Answers' = Append(Answers, 0)
      BY <1>0, <1>t, <2>1, OutputAppends
    <2>3. QED
      BY <1>0, <2>1, <2>2, OwedFails
  <1>7. CASE ParseBlank \/ ParseEmpty
    <2>1. UNCHANGED <<stream, received, kernel, output, read>> /\ pos' = pos + 1
          /\ At(pos) \in {"blank", "empty"}
      BY <1>7 DEF ParseBlank, ParseEmpty
    <2>2. pos < read /\ stream[pos + 1] \in {"blank", "empty"}
      BY <1>0, <2>1, Tokens
    <2>3. Answers' = Answers
      BY <2>1 DEF Answers
    <2>4. QED
      BY <1>0, <2>1, <2>2, <2>3, OwedPasses
  <1>8. CASE Execute
    <2>1. UNCHANGED <<stream, received, kernel, read>> /\ output' = Append(output, pos + 1)
          /\ Complete /\ pos' = IF At(pos) = "head" THEN pos + 2 ELSE pos + 1
      BY <1>8 DEF Execute
    <2>2. \/ /\ pos < read /\ stream[pos + 1] \in {"line", "arg"} /\ pos' = pos + 1
          \/ /\ pos + 1 < read /\ stream[pos + 1] = "head" /\ stream[pos + 2] = "arg"
             /\ pos' = pos + 2
      <3>1. \/ pos < read /\ stream[pos + 1] \in {"line", "arg"}
            \/ pos + 1 < read /\ stream[pos + 1] = "head" /\ stream[pos + 2] = "arg"
        BY <1>0, <2>1, Tokens
      <3>2. pos < read /\ At(pos) = stream[pos + 1]
        BY <1>t, <3>1 DEF At
      <3>3. QED
        BY <2>1, <3>1, <3>2
    <2>3. pos < read /\ pos + 1 \in Reply
      <3>1. pos < read /\ read <= Len(stream)
        BY <1>0, <1>t, <2>2 DEF TypeOK
      <3>2. QED
        BY <1>t, <3>1 DEF Reply
    <2>4. Answers' = Append(Answers, pos + 1)
      BY <1>0, <2>1, <2>3, OutputAppends
    <2>5. QED
      BY <1>0, <2>1, <2>2, <2>3, <2>4, OwedAnswers
  <1>9. QED
    BY <1>1, <1>2, <1>3, <1>4, <1>5, <1>6, <1>7, <1>8 DEF Next, LoopStep

\* Nothing is owed for what the parser finds incomplete.
LEMMA NothingOwed ==
  ASSUME TypeOK, Incomplete \/ pos = read
  PROVE  Owed(read)[pos] = <<>>
  <1>1. stream \in Seq(Token) /\ read \in Nat /\ read <= Len(stream) /\ pos \in 0 .. read
    BY Lengths DEF TypeOK
  <1>2. Owed(read)[pos] = Due(read, Owed(read), pos)
    BY <1>1, OwedUnfolds
  <1>3. CASE pos = read
    BY <1>2, <1>3 DEF Due
  <1>4. CASE pos # read
    <2>1. At(pos) = stream[pos + 1] /\ stream[pos + 1] \in Token
      BY <1>1, <1>4 DEF At
    <2>2. stream[pos + 1] = "head" /\ At(pos + 1) = "none"
      BY <1>4, <2>1 DEF Incomplete, Token
    <2>3. pos + 1 = read
      <3>1. SUFFICES ASSUME pos + 1 < read PROVE FALSE
        BY <1>1, <1>4
      <3>2. At(pos + 1) = stream[pos + 2] /\ stream[pos + 2] \in Token
        BY <1>1, <3>1 DEF At
      <3>3. QED
        BY <2>2, <3>2 DEF Token
    <2>4. QED
      BY <1>2, <1>4, <2>2, <2>3 DEF Due
  <1>5. QED
    BY <1>3, <1>4

\* The client and the parser stand still, and answers only move.
LEMMA DrainStays ==
  ASSUME DrainInv, UNCHANGED <<stream, sent, read, pos>>, Answers' = Answers,
         eof' => eof, eof' /\ pc' # "parse" => pc # "parse"
  PROVE  (eof /\ pc # "parse" =>
            Erred \/ Hidden \/ Len(Answers) > OutLimit \/ Owed(read)[pos] = <<>>)'
  <1>1. (Owed(read)[pos])' = Owed(read)[pos]
    BY DEF Owed
  <1>2. (Hidden' <=> Hidden) /\ (Erred' <=> Erred)
    BY ErredByAnswers DEF Hidden
  <1>3. QED
    BY <1>1, <1>2 DEF DrainInv

LEMMA DrainStep ==
  ASSUME SessionInv, DrainInv, [Next]_vars
  PROVE  DrainInv'
  <1>0. TypeOK /\ TypeOK'
    BY SessionStep DEF SessionInv
  <1>t. /\ read \in Nat /\ pos \in Nat /\ sent \in Nat /\ OutLimit \in Nat
        /\ stream \in Seq(Token) /\ Len(stream) \in Nat /\ 0 \in Reply
        /\ pos <= read /\ read <= Len(stream)
    BY <1>0, Lengths, SessionAssumption DEF TypeOK, Reply, SessionAssumption
  <1>a. Len(Answers) \in Nat
    BY <1>0, AnswersTyped
  <1> USE DEF client, parser, flow
  <1>1. CASE \/ Finish \/ Reset \/ HandleEvent \/ RecvFails
             \/ Parsed \/ After \/ WriteBlocked \/ Enable \/ WriteFails \/ Written \/ Close
             \/ UNCHANGED vars
    <2>1. /\ UNCHANGED <<stream, sent, received, kernel, output, read, pos>>
          /\ (eof' => eof)
          /\ (eof' /\ pc' # "parse" => pc # "parse")
      <3>1. UNCHANGED <<stream, sent, received, kernel, output, read, pos>>
        BY <1>1 DEF Finish, Reset, HandleEvent, RecvFails, Parsed, After,
                    WriteBlocked, Enable, WriteFails, Written, Close, vars
      <3>2. eof' = FALSE \/ (eof' = eof /\ (pc' = pc \/ pc # "parse"))
        BY <1>1 DEF Finish, Reset, HandleEvent, RecvFails, Parsed, After,
                    WriteBlocked, Enable, WriteFails, Written, Close, vars
      <3>3. QED
        BY <3>1, <3>2
    <2>2. Answers' = Answers
      BY <2>1 DEF Answers
    <2>3. (eof /\ pc # "parse" =>
             Erred \/ Hidden \/ Len(Answers) > OutLimit \/ Owed(read)[pos] = <<>>)'
      BY <2>1, <2>2, DrainStays
    <2>4. closed' => pc' = "wait" /\ (gone' \/ output' = <<>>)
      BY <1>0, <1>1 DEF DrainInv, MarkClosed, Finish, Reset, HandleEvent, RecvFails, Parsed, After,
                  WriteBlocked, Enable, WriteFails, Written, Close, vars, TypeOK
    <2>5. /\ eof' => fin' /\ read' = sent'
          /\ pc' = "read" => ~eof'
      BY <1>0, <1>1 DEF DrainInv, MarkClosed, Finish, Reset, HandleEvent, RecvFails, Parsed, After,
                  WriteBlocked, Enable, WriteFails, Written, Close, vars, TypeOK
    <2>6. QED
      BY <2>3, <2>4, <2>5 DEF DrainInv
  <1>2. CASE Send \/ Recv
    <2>1. ~eof' /\ (closed' => pc' = "wait" /\ (gone' \/ output' = <<>>))
      BY <1>2 DEF DrainInv, Send, Recv
    <2>2. QED
      BY <2>1 DEF DrainInv
  <1>3. CASE Receive \/ Write \/ ParseEmpty
    <2>1. Answers' = Answers
      BY <1>0, <1>3, ReceiveMoves, WriteMoves DEF ParseEmpty, Answers
    <2>2. /\ UNCHANGED <<stream, sent, read, gone, fin, pc, eof, closed>>
          /\ output' = output \/ ~closed
          /\ pos' = pos \/ pc = "parse"
      BY <1>3 DEF DrainInv, Receive, Write, ParseEmpty
    <2>3. (eof /\ pc # "parse" =>
             Erred \/ Hidden \/ Len(Answers) > OutLimit \/ Owed(read)[pos] = <<>>)'
      <3>1. CASE pos' = pos
        BY <2>1, <2>2, <3>1, DrainStays
      <3>2. CASE pc = "parse"
        BY <2>2, <3>2
      <3>3. QED
        BY <2>2, <3>1, <3>2
    <2>4. QED
      BY <2>2, <2>3 DEF DrainInv
  <1>4. CASE RecvEnds
    <2>1. /\ UNCHANGED <<closed, gone, fin, sent, read>> /\ eof' = fin /\ sent = read
          /\ pc = "read" /\ pc' \in {"write", "parse"} /\ (fin => pc' = "parse")
      BY <1>4 DEF RecvEnds
    <2>2. QED
      BY <2>1 DEF DrainInv
  <1>5. CASE ParseIncomplete
    <2>1. /\ Incomplete /\ pc = "parse" /\ pc' = "parsed"
          /\ UNCHANGED <<stream, sent, read, pos, closed, gone, fin, eof>>
      BY <1>5 DEF ParseIncomplete
    <2>2. (Owed(read)[pos])' = Owed(read)[pos]
      BY <2>1 DEF Owed
    <2>3. (Owed(read)[pos] = <<>>)'
      BY <1>0, <2>1, <2>2, NothingOwed
    <2>4. QED
      BY <2>1, <2>3 DEF DrainInv
  <1>6. CASE ParseBlank
    <2>1. /\ At(pos) = "blank" /\ pc = "parse" /\ pc' = "parsed" /\ pos' = pos + 1
          /\ UNCHANGED <<stream, sent, read, closed, gone, fin, eof>>
      BY <1>6 DEF ParseBlank
    <2>2. pos < read /\ stream[pos + 1] = "blank"
      BY <1>0, <2>1, Tokens
    <2>3. ASSUME eof', pos + 1 # sent PROVE Hidden'
      <3>1. read = sent
        BY <2>1, <2>3 DEF DrainInv
      <3>2. pos + 1 \in 1 .. sent - 1
        BY <1>t, <2>2, <2>3, <3>1
      <3>3. QED
        BY <2>1, <2>2, <3>2 DEF Hidden
    <2>4. ASSUME eof', pos + 1 = sent PROVE (Owed(read)[pos] = <<>>)'
      <3>1. (pos = read)'
        BY <2>1, <2>4 DEF DrainInv
      <3>2. (TypeOK /\ (Incomplete \/ pos = read) => Owed(read)[pos] = <<>>)'
        BY NothingOwed, PTL
      <3>3. QED
        BY <1>0, <3>1, <3>2
    <2>5. QED
      BY <2>1, <2>3, <2>4 DEF DrainInv
  <1>7. CASE ParseMalformed
    <2>1. /\ UNCHANGED <<received, kernel, closed, gone, fin, sent, read, eof>>
          /\ output' = Append(output, 0) /\ pc = "parse" /\ pc' = "parsed"
      BY <1>7 DEF ParseMalformed
    <2>2. Answers' = Append(Answers, 0)
      BY <1>0, <1>t, <2>1, OutputAppends
    <2>3. Erred'
      BY <1>0, <1>t, <2>2, ErredGrows
    <2>4. QED
      BY <2>1, <2>3 DEF DrainInv
  <1>8. CASE Execute
    <2>1. /\ UNCHANGED <<received, kernel, closed, gone, fin, sent, read, eof>>
          /\ pc = "parse" /\ pc' \in {"parse", "parsed"}
          /\ pc' = "parsed" => Len(output') > OutLimit
      BY <1>8 DEF Execute
    <2>2. Len(Answers') >= Len(output') /\ Len(Answers') \in Nat /\ Len(output') \in Nat
      <3>1. /\ received' \in Seq(Reply') /\ kernel' \in Seq(Reply') /\ output' \in Seq(Reply')
        BY <1>0 DEF TypeOK
      <3>2. Answers' = (received' \o kernel') \o output'
        BY DEF Answers
      <3>3. received' \o kernel' \in Seq(Reply') /\ Len(received' \o kernel') \in Nat
        BY <3>1, ConcatProperties
      <3>4. QED
        BY <3>1, <3>2, <3>3, ConcatProperties
    <2>3. pc' = "parsed" => Len(Answers') > OutLimit
      BY <1>t, <2>1, <2>2
    <2>4. QED
      BY <2>1, <2>3 DEF DrainInv
  <1>9. QED
    BY <1>1, <1>2, <1>3, <1>4, <1>5, <1>6, <1>7, <1>8 DEF Next, LoopStep

\* What is answered and what is still owed make up what the stream earns, and a
\* drained connection owes nothing.
THEOREM SessionAnswersInvariant == Spec => [](OwedInv /\ DrainInv)
  <1>1. Init => DrainInv
    BY DEF Init, DrainInv
  <1>2. SessionInv /\ (OwedInv /\ DrainInv) /\ [Next]_vars => (OwedInv /\ DrainInv)'
    BY OwedStep, DrainStep
  <1>3. QED
    BY <1>1, <1>2, OwedInit, SessionInvariant, PTL DEF Spec

\* Pipelined requests are answered one for one and in order up to the first error,
\* whatever the pieces in which bytes arrive and replies leave.
THEOREM SessionInOrder == Spec => []InOrder
  <1>1. SessionInv /\ OwedInv => InOrder
    <2> SUFFICES ASSUME SessionInv, OwedInv PROVE InOrder
      OBVIOUS
    <2>1. read \in read .. Len(stream)
      BY Lengths DEF SessionInv, TypeOK
    <2>2. Sound = SoundOf(Answers)
      BY Zenon DEF Sound, SoundOf
    <2>3. QED
      BY <2>1, <2>2 DEF OwedInv, InOrder
  <1>2. QED
    BY <1>1, SessionInvariant, SessionAnswersInvariant, PTL

\* A client that shuts down its side after well-formed requests gets every answer
\* before the connection is closed.
THEOREM SessionHalfClose == Spec => []HalfClose
  <1>1. SessionInv /\ OwedInv /\ DrainInv => HalfClose
    <2> SUFFICES ASSUME SessionInv, OwedInv, DrainInv,
                        closed, eof, ~gone, 0 \notin Range(Answers),
                        \A i \in 1 .. sent - 1 : stream[i] # "blank",
                        Len(Replies(sent)) <= OutLimit
                 PROVE  Answers = Replies(sent) /\ output = <<>>
      BY DEF HalfClose
    <2>1. TypeOK /\ Answers \in Seq(Reply) /\ Len(Answers) \in Nat /\ OutLimit \in Nat
      BY AnswersTyped, SessionAssumption DEF SessionInv, SessionAssumption
    <2>2. stream \in Seq(Token) /\ read \in Nat /\ pos \in 0 .. read /\ read <= Len(stream)
          /\ Len(stream) \in Nat
      BY <2>1, Lengths DEF TypeOK
    <2>3. output = <<>> /\ read = sent /\ pc # "parse" /\ ~Erred /\ ~Hidden
      BY DEF DrainInv, Erred, Hidden
    <2>4. Replies(read) = Answers \o Owed(read)[pos]
      BY <2>2, <2>3 DEF OwedInv
    <2>5. Owed(read)[pos] \in Seq(Reply)
      BY <2>2, OwedTyped
    <2>6. Len(Replies(read)) >= Len(Answers) /\ Len(Replies(read)) \in Nat
      BY <2>1, <2>4, <2>5, ConcatProperties
    <2>7. Owed(read)[pos] = <<>>
      BY <2>1, <2>3, <2>6 DEF DrainInv
    <2>8. QED
      BY <2>1, <2>3, <2>4, <2>7, ConcatEmptySeq
  <1>2. QED
    BY <1>1, SessionInvariant, SessionAnswersInvariant, PTL
=============================================================================
