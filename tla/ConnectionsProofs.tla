------------------------- MODULE ConnectionsProofs -------------------------
(***************************************************************************)
(* For any clients, descriptors, loops and circumstances: the types of     *)
(* Connections, that no connection ever touches the socket of another,     *)
(* that in fair weather the process never dies of a connection, and that a *)
(* clean shutdown closes all of them.                                      *)
(***************************************************************************)
EXTENDS Connections, SequenceTheorems, FiniteSetTheorems, TLAPS

\* It was in the map once.
Created(c) ==
    conn[c].st \in {"live", "closed"} /\ conn[c].fd \in Fd /\ conn[c].loop \in Loop

\* From the accept to CloseFd a connection owns its descriptor.
Owns(c) == conn[c].fd \in Fd /\ conn[c].loop \in Loop /\ owner[conn[c].fd] = c

Placed == \A c \in Conn : conn[c].st \in {"posted", "live"} => Owns(c)

CalledBack ==
    \A l \in Loop, fd \in Fd :
        callbacks[l][fd] # None =>
            LET c == callbacks[l][fd] IN Live(c) /\ conn[c].fd = fd /\ conn[c].loop = l

\* A client waits once.
Waiting ==
    \A i, j \in DOMAIN backlog :
        /\ conn[backlog[i]].st = "backlog"
        /\ backlog[i] = backlog[j] => i = j

\* A loop is given its own connections, and creates each of them once.
Given ==
    \A l \in Loop : \A i, j \in DOMAIN queue[l] :
        /\ conn[queue[l][i].c].loop = l
        /\ queue[l][i].k = "close" => Created(queue[l][i].c)
        /\ queue[l][i].k = "create" =>
              /\ conn[queue[l][i].c].st = "posted"
              /\ queue[l][i] = queue[l][j] => i = j

Listed ==
    /\ \A fd \in Fd : connections[fd] # None => Created(connections[fd])
    /\ \A t \in Thread : \A c \in todo[t] : Created(c)
    /\ \A t \in Thread : pc[t] # "post" => todo[t] = {}

\* A loop that is to register or to mark a connection holds it, so that nobody
\* destroys it meanwhile; one that is to close a descriptor owns it.
Working ==
    \A l \in Loop :
        /\ pc[l] \in {"register", "mark"} =>
              /\ cur[l] \in Conn /\ Live(cur[l]) /\ conn[cur[l]].loop = l /\ cur[l] \in held[l]
        /\ pc[l] = "closefd" =>
              /\ cur[l] \in Conn /\ conn[cur[l]].st = "closed" /\ conn[cur[l]].loop = l
              /\ Owns(cur[l])
        /\ pc[l] = "remove" => cur[l] \in Conn /\ Created(cur[l])

ConnectionsInv == TypeOK /\ Placed /\ CalledBack /\ Waiting /\ Given /\ Listed /\ Working

LEMMA AppendRight ==
  ASSUME NEW S, NEW s \in Seq(S), NEW e \in S
  PROVE  /\ Append(s, e) \in Seq(S) /\ DOMAIN Append(s, e) = 1 .. Len(s) + 1
         /\ DOMAIN s = 1 .. Len(s) /\ Len(s) \in Nat
         /\ \A i \in 1 .. Len(s) : Append(s, e)[i] = s[i]
         /\ Append(s, e)[Len(s) + 1] = e
  BY AppendProperties, LenProperties

LEMMA TailRight ==
  ASSUME NEW S, NEW s \in Seq(S), s # <<>>
  PROVE  /\ Tail(s) \in Seq(S) /\ DOMAIN Tail(s) = 1 .. Len(s) - 1
         /\ DOMAIN s = 1 .. Len(s) /\ Len(s) \in Nat \ {0}
         /\ \A i \in 1 .. Len(s) - 1 : Tail(s)[i] = s[i + 1]
         /\ Head(s) = s[1] /\ Head(s) \in S
  BY HeadTailProperties, LenProperties, EmptySeq, ElementOfSeq

LEMMA Constants ==
  /\ Fd \subseteq Nat /\ None \notin Conn /\ Config \subseteq Configs
  /\ Main \notin Loop /\ Control \notin Loop /\ Main # Control
  /\ Cardinality(Loop) \in Nat /\ Loop = 0 .. Cardinality(Loop) - 1
  BY ConnectionsAssumption, FS_CardinalityType DEF ConnectionsAssumption

\* No connection loses what it was given, or becomes another one.
Firm ==
    \A d \in Conn :
        /\ conn[d].st \notin {"new", "backlog"} =>
              conn'[d].fd = conn[d].fd /\ conn'[d].loop = conn[d].loop
        /\ Created(d) => Created(d)'
        /\ conn[d].st = "posted" => conn'[d].st = "posted"

LEMMA Frames ==
  /\ UNCHANGED <<owner, conn>> /\ Placed => Placed'
  /\ UNCHANGED <<callbacks, conn>> /\ CalledBack => CalledBack'
  /\ UNCHANGED <<backlog, conn>> /\ Waiting => Waiting'
  /\ UNCHANGED <<queue, conn>> /\ Given => Given'
  /\ UNCHANGED <<connections, todo, pc, conn>> /\ Listed => Listed'
  /\ UNCHANGED <<pc, cur, held, conn, owner>> /\ Working => Working'
  <1>1. UNCHANGED <<owner, conn>> /\ Placed => Placed'
    BY DEF Placed, Owns
  <1>2. UNCHANGED <<callbacks, conn>> /\ CalledBack => CalledBack'
    BY DEF CalledBack, Live
  <1>3. UNCHANGED <<backlog, conn>> /\ Waiting => Waiting'
    BY DEF Waiting
  <1>4. UNCHANGED <<queue, conn>> /\ Given => Given'
    BY DEF Given, Created
  <1>5. UNCHANGED <<connections, todo, pc, conn>> /\ Listed => Listed'
    BY DEF Listed, Created
  <1>6. UNCHANGED <<pc, cur, held, conn, owner>> /\ Working => Working'
    BY DEF Working, Created, Owns, Live
  <1>7. QED
    BY <1>1, <1>2, <1>3, <1>4, <1>5, <1>6

LEMMA FirmFrames ==
  ASSUME TypeOK, Firm
  PROVE  /\ UNCHANGED queue /\ Given => Given'
         /\ UNCHANGED <<connections, todo, pc>> /\ Listed => Listed'
  <1>1. ASSUME UNCHANGED queue, Given PROVE Given'
    <2> SUFFICES ASSUME NEW l \in Loop, NEW i \in DOMAIN queue[l], NEW j \in DOMAIN queue[l]
                 PROVE  /\ conn'[queue[l][i].c].loop = l
                        /\ queue[l][i].k = "close" => Created(queue[l][i].c)'
                        /\ queue[l][i].k = "create" =>
                              /\ conn'[queue[l][i].c].st = "posted"
                              /\ queue[l][i] = queue[l][j] => i = j
      BY <1>1 DEF Given, Created
    <2> queue[l] \in Seq(Task)
      BY DEF TypeOK
    <2>1. queue[l][i] \in Task
      BY ElementOfSeq
    <2>2. queue[l][i].c \in Conn /\ queue[l][i].k \in {"create", "close"}
      BY <2>1 DEF Task
    <2>3. QED
      BY <1>1, <2>2 DEF Given, Firm, Created
  <1>2. ASSUME UNCHANGED <<connections, todo, pc>>, Listed PROVE Listed'
    BY <1>2 DEF Listed, Firm, TypeOK, Thread
  <1>3. QED
    BY <1>1, <1>2

\* A change of the state of one connection.
LEMMA Becomes ==
  ASSUME conn \in [Conn -> Peer], NEW c \in Conn,
         NEW s \in {"new", "backlog", "posted", "live", "closed"},
         conn' = [conn EXCEPT ![c].st = s]
  PROVE  /\ conn' \in [Conn -> Peer]
         /\ \A d \in Conn : /\ conn'[d].fd = conn[d].fd /\ conn'[d].loop = conn[d].loop
                            /\ conn'[d].st = IF d = c THEN s ELSE conn[d].st
  BY DEF Peer

LEMMA CallbackSet ==
  ASSUME callbacks \in [Loop -> [Fd -> Conn \cup {None}]],
         NEW l \in Loop, NEW fd \in Fd, NEW x \in Conn \cup {None},
         callbacks' = [callbacks EXCEPT ![l][fd] = x]
  PROVE  /\ callbacks' \in [Loop -> [Fd -> Conn \cup {None}]]
         /\ \A k \in Loop, f \in Fd :
               callbacks'[k][f] = IF k = l /\ f = fd THEN x ELSE callbacks[k][f]
  OBVIOUS

LEMMA CallbackType ==
  ASSUME TypeOK
  PROVE  \A l \in Loop, fd \in Fd : callbacks[l][fd] \in Conn \cup {None}
  <1>1. callbacks \in [Loop -> [Fd -> Conn \cup {None}]]
    BY DEF TypeOK
  <1>2. QED
    BY <1>1

LEMMA TailWaits ==
  ASSUME backlog \in Seq(Conn), backlog # <<>>, Waiting
  PROVE  /\ Head(backlog) \in Conn /\ conn[Head(backlog)].st = "backlog"
         /\ Tail(backlog) \in Seq(Conn)
         /\ \A i, j \in DOMAIN Tail(backlog) :
               /\ Tail(backlog)[i] \in Conn /\ Tail(backlog)[i] # Head(backlog)
               /\ conn[Tail(backlog)[i]].st = "backlog"
               /\ Tail(backlog)[i] = Tail(backlog)[j] => i = j
  <1> DEFINE n == Len(backlog)
  <1>1. /\ Tail(backlog) \in Seq(Conn) /\ DOMAIN Tail(backlog) = 1 .. n - 1
        /\ DOMAIN backlog = 1 .. n /\ n \in Nat \ {0}
        /\ \A i \in 1 .. n - 1 : Tail(backlog)[i] = backlog[i + 1]
        /\ Head(backlog) = backlog[1] /\ Head(backlog) \in Conn
    BY TailRight
  <1> HIDE DEF n
  <1>2. \A i \in 1 .. n - 1 : i + 1 \in 1 .. n /\ i + 1 # 1 /\ 1 \in 1 .. n
    BY <1>1
  <1>3. \A i \in 1 .. n : backlog[i] \in Conn
    BY <1>1, ElementOfSeq DEF n
  <1>4. SUFFICES ASSUME NEW i \in 1 .. n - 1, NEW j \in 1 .. n - 1
                 PROVE  /\ Tail(backlog)[i] \in Conn /\ Tail(backlog)[i] # Head(backlog)
                        /\ conn[Tail(backlog)[i]].st = "backlog"
                        /\ Tail(backlog)[i] = Tail(backlog)[j] => i = j
    BY <1>1, <1>2 DEF Waiting
  <1>5. Tail(backlog)[i] = backlog[i + 1] /\ Tail(backlog)[j] = backlog[j + 1]
    BY <1>1
  <1>6. backlog[i + 1] # backlog[1] /\ conn[backlog[i + 1]].st = "backlog"
    BY <1>1, <1>2 DEF Waiting
  <1>7. backlog[i + 1] = backlog[j + 1] => i + 1 = j + 1
    BY <1>1, <1>2 DEF Waiting
  <1>8. QED
    BY <1>1, <1>2, <1>3, <1>5, <1>6, <1>7

\* One task more in a queue.
LEMMA TaskGiven ==
  ASSUME queue \in [Loop -> Seq(Task)], Given,
         NEW l \in Loop, NEW c \in Conn, NEW k \in {"create", "close"},
         queue' = [queue EXCEPT ![l] = Append(@, [k |-> k, c |-> c])],
         \A d \in Conn \ {c} : conn'[d] = conn[d],
         \/ k = "close" /\ conn'[c] = conn[c] /\ Created(c) /\ conn[c].loop = l
         \/ k = "create" /\ conn[c].st = "backlog" /\ conn'[c].st = "posted" /\ conn'[c].loop = l
  PROVE  queue' \in [Loop -> Seq(Task)] /\ Given'
  <1> DEFINE task == [k |-> k, c |-> c]
             n == Len(queue[l])
  <1>1. task \in Task /\ task.c = c /\ task.k = k
    BY DEF Task
  <1> HIDE DEF task
  <1>2. /\ queue[l] \in Seq(Task) /\ queue'[l] = Append(queue[l], task)
        /\ \A m \in Loop : m # l => queue'[m] = queue[m]
    BY DEF task
  <1>3. /\ queue'[l] \in Seq(Task) /\ DOMAIN queue'[l] = 1 .. n + 1
        /\ DOMAIN queue[l] = 1 .. n /\ n \in Nat /\ queue'[l][n + 1] = task
        /\ \A i \in 1 .. n : queue'[l][i] = queue[l][i]
    BY <1>1, <1>2, AppendRight
  <1> HIDE DEF n
  <1>4. queue' \in [Loop -> Seq(Task)]
    BY <1>2, <1>3
  <1>5. ASSUME NEW m \in Loop, NEW i \in DOMAIN queue[m]
        PROVE  /\ conn'[queue[m][i].c] = conn[queue[m][i].c] /\ queue[m][i].c \in Conn
               /\ k = "create" => queue[m][i].c # c
    <2>1. queue[m][i] \in Task
      BY ElementOfSeq
    <2>2. queue[m][i].c \in Conn /\ queue[m][i].k \in {"create", "close"}
      BY <2>1 DEF Task
    <2>3. QED
      BY <2>2 DEF Given, Created
  <1>6. ASSUME NEW m \in Loop, NEW i \in DOMAIN queue'[m]
        PROVE  /\ conn'[queue'[m][i].c].loop = m
               /\ queue'[m][i].k = "close" => Created(queue[m][i].c)'
               /\ queue'[m][i].k = "create" => conn'[queue'[m][i].c].st = "posted"
    <2>1. CASE i \in DOMAIN queue[m] /\ queue'[m][i] = queue[m][i]
      <3>1. /\ conn[queue[m][i].c].loop = m
            /\ queue[m][i].k = "close" => Created(queue[m][i].c)
            /\ queue[m][i].k = "create" => conn[queue[m][i].c].st = "posted"
        BY <2>1 DEF Given
      <3>2. conn'[queue[m][i].c] = conn[queue[m][i].c]
        BY <1>5, <2>1
      <3>3. QED
        BY <2>1, <3>1, <3>2 DEF Created
    <2>2. CASE m = l /\ queue'[m][i] = task
      <3>1. queue'[m][i].c = c /\ queue'[m][i].k = k
        BY <1>1, <2>2
      <3>2. conn'[c].loop = m /\ (k = "close" => Created(c)') /\ (k = "create" => conn'[c].st = "posted")
        BY <2>2 DEF Created
      <3>3. QED
        BY <3>1, <3>2
    <2>3. QED
      BY <1>2, <1>3, <2>1, <2>2
  <1>7. ASSUME NEW m \in Loop, NEW i \in DOMAIN queue'[m], NEW j \in DOMAIN queue'[m],
               queue'[m][i].k = "create", queue'[m][i] = queue'[m][j]
        PROVE  i = j
    <2>1. CASE m # l
      BY <1>2, <1>7, <2>1 DEF Given
    <2>2. CASE m = l /\ i \in 1 .. n /\ j \in 1 .. n
      BY <1>3, <1>7, <2>2 DEF Given
    <2>3. CASE m = l /\ (i = n + 1 \/ j = n + 1)
      BY <1>1, <1>3, <1>5, <1>7, <2>3
    <2>4. QED
      BY <1>3, <2>1, <2>2, <2>3
  <1>8. QED
    <2>1. Given'
      <3> SUFFICES ASSUME NEW m \in Loop, NEW i \in DOMAIN queue'[m], NEW j \in DOMAIN queue'[m]
                   PROVE  /\ conn'[queue'[m][i].c].loop = m
                          /\ queue'[m][i].k = "close" => Created(queue[m][i].c)'
                          /\ queue'[m][i].k = "create" =>
                                /\ conn'[queue'[m][i].c].st = "posted"
                                /\ queue'[m][i] = queue'[m][j] => i = j
        BY DEF Given
      <3>1. QED
        BY <1>6, <1>7
    <2>2. QED
      BY <1>4, <2>1

LEMMA TaskSame ==
  ASSUME NEW a \in Task, NEW b \in Task, a.k = b.k, a.c = b.c
  PROVE  a = b
  BY DEF Task

\* One task less in a queue.
LEMMA TaskTaken ==
  ASSUME TypeOK, Given, NEW l \in Loop, NEW k \in {"create", "close"}, Take(l, k)
  PROVE  LET c == Head(queue[l]).c
         IN  /\ pc[l] = "idle" /\ c \in Conn /\ conn[c].loop = l
             /\ k = "close" => Created(c)
             /\ k = "create" => conn[c].st = "posted"
             /\ queue' \in [Loop -> Seq(Task)]
             /\ UNCHANGED conn => Given'
             /\ k = "create" /\ conn[c].fd \in Fd /\ conn' \in [Conn -> Peer]
                /\ (\A d \in Conn : /\ conn'[d].fd = conn[d].fd /\ conn'[d].loop = conn[d].loop
                                    /\ conn'[d].st = IF d = c THEN "live" ELSE conn[d].st)
                => Given'
  <1> DEFINE n == Len(queue[l])
             c == Head(queue[l]).c
  <1> queue \in [Loop -> Seq(Task)] /\ conn \in [Conn -> Peer]
    BY DEF TypeOK
  <1>1. /\ pc[l] = "idle" /\ queue[l] \in Seq(Task) /\ queue[l] # <<>> /\ Head(queue[l]).k = k
        /\ queue' = [queue EXCEPT ![l] = Tail(@)]
    BY DEF Take
  <1>2. /\ queue'[l] = Tail(queue[l])
        /\ \A m \in Loop : m # l => queue'[m] = queue[m]
    BY <1>1
  <1>3. /\ queue'[l] \in Seq(Task) /\ DOMAIN queue'[l] = 1 .. n - 1
        /\ DOMAIN queue[l] = 1 .. n /\ n \in Nat \ {0}
        /\ \A i \in 1 .. n - 1 : queue'[l][i] = queue[l][i + 1]
        /\ Head(queue[l]) = queue[l][1] /\ Head(queue[l]) \in Task
    BY <1>1, <1>2, TailRight
  <1> HIDE DEF n
  <1>4. \A i \in 1 .. n - 1 : i + 1 \in 1 .. n /\ i + 1 # 1 /\ 1 \in 1 .. n
    BY <1>3
  <1>5. queue' \in [Loop -> Seq(Task)]
    BY <1>1, <1>2, <1>3
  <1>6. c \in Conn /\ c = queue[l][1].c /\ k = queue[l][1].k
    BY <1>1, <1>3 DEF Task
  <1>7. /\ conn[c].loop = l /\ (k = "close" => Created(c))
        /\ k = "create" => conn[c].st = "posted"
    BY <1>1, <1>3, <1>4, <1>6 DEF Given
  \* Each task left is one of before, and not the one taken.
  <1>8. ASSUME NEW m \in Loop, NEW i \in DOMAIN queue'[m], NEW j \in DOMAIN queue'[m]
        PROVE  /\ queue'[m][i].c \in Conn
               /\ conn[queue'[m][i].c].loop = m
               /\ queue'[m][i].k = "close" => Created(queue'[m][i].c)
               /\ queue'[m][i].k = "create" =>
                     /\ conn[queue'[m][i].c].st = "posted"
                     /\ queue'[m][i] = queue'[m][j] => i = j
               /\ k = "create" /\ queue'[m][i].k = "create" => queue'[m][i].c # c
    <2>1. CASE m = l
      <3>0. i \in 1 .. n - 1 /\ j \in 1 .. n - 1
        BY <1>3, <2>1
      <3>1. /\ queue'[m][i] = queue[l][i + 1] /\ queue'[m][j] = queue[l][j + 1]
            /\ {i + 1, j + 1, 1} \subseteq DOMAIN queue[l] /\ i \in Nat \ {0} /\ j \in Nat
        BY <1>3, <1>4, <2>1, <3>0
      <3>2. queue[l][i + 1] \in Task /\ queue[l][1] \in Task
        BY <1>1, <3>1, ElementOfSeq
      <3>3. /\ conn[queue[l][i + 1].c].loop = l
            /\ queue[l][i + 1].k = "close" => Created(queue[l][i + 1].c)
            /\ queue[l][i + 1].k = "create" =>
                  /\ conn[queue[l][i + 1].c].st = "posted"
                  /\ queue[l][i + 1] = queue[l][j + 1] => i + 1 = j + 1
                  /\ queue[l][i + 1] = queue[l][1] => i + 1 = 1
        BY <3>1 DEF Given
      <3>4. k = "create" /\ queue[l][i + 1].k = "create" => queue[l][i + 1].c # c
        <4>1. ASSUME k = "create", queue[l][i + 1].k = "create", queue[l][i + 1].c = c
              PROVE  queue[l][i + 1] = queue[l][1]
          BY <4>1, <1>6, <3>2, TaskSame
        <4>2. QED
          BY <3>1, <3>3, <4>1
      <3>5. queue[l][i + 1].c \in Conn
        BY <3>2 DEF Task
      <3>6. QED
        BY <2>1, <3>1, <3>3, <3>4, <3>5
    <2>2. CASE m # l
      <3>1. queue[m] \in Seq(Task) /\ queue'[m] = queue[m]
        BY <1>2, <2>2
      <3>2. queue[m][i] \in Task
        BY <3>1, ElementOfSeq
      <3>3. queue[m][i].c \in Conn
        BY <3>2 DEF Task
      <3>4. QED
        BY <1>7, <2>2, <3>1, <3>3 DEF Given
    <2>3. QED
      BY <2>1, <2>2
  <1>9. UNCHANGED conn => Given'
    BY <1>8 DEF Given, Created
  <1>10. ASSUME k = "create", conn[c].fd \in Fd, conn' \in [Conn -> Peer],
                \A d \in Conn : /\ conn'[d].fd = conn[d].fd /\ conn'[d].loop = conn[d].loop
                                /\ conn'[d].st = IF d = c THEN "live" ELSE conn[d].st
         PROVE  Given'
    <2> SUFFICES ASSUME NEW m \in Loop, NEW i \in DOMAIN queue'[m], NEW j \in DOMAIN queue'[m]
                 PROVE  /\ conn'[queue'[m][i].c].loop = m
                        /\ queue'[m][i].k = "close" => Created(queue[m][i].c)'
                        /\ queue'[m][i].k = "create" =>
                              /\ conn'[queue'[m][i].c].st = "posted"
                              /\ queue'[m][i] = queue'[m][j] => i = j
      BY DEF Given
    <2> DEFINE d == queue'[m][i].c
    <2>1. /\ d \in Conn /\ conn[d].loop = m
          /\ queue'[m][i].k = "close" => Created(queue'[m][i].c)
          /\ queue'[m][i].k = "create" =>
                /\ conn[d].st = "posted" /\ d # c
                /\ queue'[m][i] = queue'[m][j] => i = j
      BY <1>8, <1>10
    <2>2. /\ conn'[d].fd = conn[d].fd /\ conn'[d].loop = conn[d].loop
          /\ conn'[d].st = IF d = c THEN "live" ELSE conn[d].st
      BY <1>10, <2>1
    <2>3. QED
      BY <2>1, <2>2 DEF Created
  <1>11. QED
    BY <1>1, <1>5, <1>6, <1>7, <1>9, <1>10

LEMMA Closes ==
  ASSUME conn \in [Conn -> Peer], NEW c \in Conn, conn[c].st = "live",
         conn' \in [Conn -> Peer], \A d \in Conn :
            /\ conn'[d].fd = conn[d].fd /\ conn'[d].loop = conn[d].loop
            /\ conn'[d].st = IF d = c THEN "closed" ELSE conn[d].st
  PROVE  Firm /\ (Waiting /\ UNCHANGED backlog /\ backlog \in Seq(Conn) => Waiting')
  <1>1. Firm
    BY DEF Firm, Created
  <1>2. ASSUME Waiting, UNCHANGED backlog, backlog \in Seq(Conn) PROVE Waiting'
    BY <1>2, ElementOfSeq DEF Waiting
  <1>3. QED
    BY <1>1, <1>2

LEMMA ReleaseKeeps ==
  ASSUME ConnectionsInv, NEW t \in Thread, NEW c \in Conn, Release(t, c)
  PROVE  ConnectionsInv'
  <1> USE DEF ConnectionsInv
  <1> DEFINE dies == Live(c) /\ ~Shared(t, c) /\ t = conn[c].loop
  <1>1. /\ pc[t] = "release" /\ held' = [held EXCEPT ![t] = @ \ {c}]
        /\ UNCHANGED <<connections, queue, pc, cur, todo, backlog, accepted, edge, starved,
                       reused, env, told, over>>
    BY DEF Release, listener
  <1>2. todo[t] = {}
    BY <1>1 DEF Listed
  <1>3. \A l \in Loop : pc[l] # "release" => held'[l] = held[l]
    BY <1>1 DEF TypeOK, Thread
  <1>4. CASE dies
    <2>1. /\ callbacks' = [callbacks EXCEPT ![t][conn[c].fd] = None]
          /\ owner' = [owner EXCEPT ![conn[c].fd] = None]
          /\ conn' = [conn EXCEPT ![c].st = "closed"]
          /\ UNCHANGED fatal
      BY <1>4 DEF Release
    <2>2. conn[c].st = "live" /\ Owns(c) /\ t \in Loop
      BY <1>4 DEF Placed, Live, Owns
    <2> conn \in [Conn -> Peer] /\ backlog \in Seq(Conn)
      BY DEF TypeOK
    <2>3. /\ conn' \in [Conn -> Peer]
          /\ \A d \in Conn : /\ conn'[d].fd = conn[d].fd /\ conn'[d].loop = conn[d].loop
                             /\ conn'[d].st = IF d = c THEN "closed" ELSE conn[d].st
      BY <2>1, Becomes
    <2>4. \A d \in Conn \ {c} : Owns(d) => Owns(d)'
      BY ZenonT(30), <2>1, <2>2, <2>3 DEF Owns, TypeOK
    <2>5. TypeOK'
      <3>1. owner' \in [Fd -> Conn \cup {None}] /\ callbacks' \in [Loop -> [Fd -> Conn \cup {None}]]
        BY <2>1 DEF TypeOK
      <3>2. QED
        BY ZenonT(30), <1>1, <1>2, <2>1, <2>3, <3>1 DEF TypeOK
    <2>6. Placed'
      BY <2>3, <2>4 DEF Placed
    <2>7. CalledBack'
      <3>1. \A l \in Loop, fd \in Fd :
               callbacks'[l][fd] = IF l = t /\ fd = conn[c].fd THEN None ELSE callbacks[l][fd]
        BY ZenonT(30), <2>1, <2>2, CallbackSet DEF TypeOK, Owns
      <3>2. QED
        BY <1>4, <2>3, <3>1, CallbackType DEF CalledBack, Live
    <2>8. Firm /\ Waiting'
      BY <1>1, <2>2, <2>3, Closes
    <2>9. Given' /\ Listed'
      BY <1>1, <2>8, FirmFrames
    <2>10. Working'
      BY <1>1, <1>3, <1>4, <2>2, <2>3, <2>4 DEF Working, Live, Created
    <2>11. QED
      BY <2>5, <2>6, <2>7, <2>8, <2>9, <2>10
  <1>5. CASE ~dies
    <2>1. /\ fatal' \in {fatal, "wrong thread"}
          /\ UNCHANGED <<owner, callbacks, conn>>
      BY <1>5 DEF Release
    <2>2. TypeOK'
      BY <1>1, <1>2, <2>1 DEF TypeOK
    <2>3. Working'
      BY <1>1, <1>3, <2>1 DEF Working, Live, Created, Owns
    <2>4. QED
      BY <1>1, <2>1, <2>2, <2>3, Frames
  <1>6. QED
    BY <1>4, <1>5


LEMMA ReleasedKeeps ==
  ASSUME ConnectionsInv, NEW t \in Thread, Released(t)
  PROVE  ConnectionsInv'
  <1> USE DEF ConnectionsInv
  <1>1. /\ pc[t] = "release" /\ pc' = [pc EXCEPT ![t] = AfterRelease(t)]
        /\ AfterRelease(t) \in {"idle", "reset", "sleep"}
        /\ UNCHANGED <<owner, connections, callbacks, queue, conn, cur, held, todo, told, over,
                       accepted, backlog, edge, starved, reused, env, fatal>>
    BY DEF Released, AfterRelease, listener
  <1>2. TypeOK'
    BY <1>1 DEF TypeOK
  <1>3. Listed'
    BY <1>1 DEF Listed, Created, TypeOK
  <1>4. Working'
    BY <1>1, Constants DEF Working, Live, Created, Owns, TypeOK, Thread
  <1>5. QED
    BY <1>1, <1>2, <1>3, <1>4, Frames

LEMMA ConnectKeeps ==
  ASSUME ConnectionsInv, NEW c \in Conn, Connect(c)
  PROVE  ConnectionsInv'
  <1> USE DEF ConnectionsInv
  <1> conn \in [Conn -> Peer] /\ backlog \in Seq(Conn)
    BY DEF TypeOK
  <1>1. /\ conn[c].st = "new"
        /\ conn' = [conn EXCEPT ![c].st = "backlog"]
        /\ backlog' = Append(backlog, c) /\ edge' = TRUE
        /\ UNCHANGED <<owner, connections, callbacks, queue, pc, cur, held, todo, told, over,
                       accepted, starved, reused, env, fatal>>
    BY DEF Connect
  <1>2. /\ conn' \in [Conn -> Peer]
        /\ \A d \in Conn : /\ conn'[d].fd = conn[d].fd /\ conn'[d].loop = conn[d].loop
                           /\ conn'[d].st = IF d = c THEN "backlog" ELSE conn[d].st
    BY <1>1, Becomes
  <1>3. backlog' \in Seq(Conn)
    BY <1>1, AppendRight
  <1>4. TypeOK'
    BY <1>1, <1>2, <1>3 DEF TypeOK
  <1>5. Placed'
    BY <1>1, <1>2 DEF Placed, Owns
  <1>6. CalledBack'
    BY <1>1, <1>2, CallbackType DEF CalledBack, Live
  <1>7. Waiting'
    <2>1. \A i \in DOMAIN backlog : backlog[i] \in Conn /\ backlog[i] # c
      BY <1>1, ElementOfSeq DEF Waiting
    <2>2. /\ DOMAIN backlog' = 1 .. Len(backlog) + 1 /\ DOMAIN backlog = 1 .. Len(backlog)
          /\ Len(backlog) \in Nat /\ backlog'[Len(backlog) + 1] = c
          /\ \A i \in 1 .. Len(backlog) : backlog'[i] = backlog[i]
      BY <1>1, AppendRight
    <2>3. QED
      BY <1>2, <2>1, <2>2 DEF Waiting
  <1>8. Firm
    BY <1>1, <1>2 DEF Firm, Created
  <1>9. Working'
    BY <1>1, <1>2 DEF Working, Live, Created, Owns
  <1>10. QED
    BY <1>1, <1>4, <1>5, <1>6, <1>7, <1>8, <1>9, FirmFrames

\* Actions that leave the connections alone and only move one thread on.
LEMMA StepKeeps ==
  ASSUME ConnectionsInv, NEW t \in Thread,
         NEW s \in {"idle", "accept", "release", "join", "closeall", "done"},
         pc' = [pc EXCEPT ![t] = s], pc[t] # "post" \/ todo[t] = {},
         UNCHANGED <<owner, callbacks, queue, conn, cur, held, todo, backlog>>
  PROVE  Placed' /\ CalledBack' /\ Waiting' /\ Given' /\ Working'
  <1> USE DEF ConnectionsInv
  <1>1. Working'
    BY DEF Working, Live, Created, Owns, TypeOK, Thread
  <1>2. QED
    BY <1>1, Frames

LEMMA MovesKeep ==
  ASSUME ConnectionsInv,
         \/ OnReadable \/ AcceptNoMore \/ AcceptFails \/ Shutdown \/ StopPool \/ Reset
         \/ \E t \in {Main, Control} : Posted(t)
  PROVE  ConnectionsInv'
  <1> USE DEF ConnectionsInv
  <1>1. CASE OnReadable
    <2>1. /\ pc[Main] = "idle" /\ pc' = [pc EXCEPT ![Main] = "accept"]
          /\ edge' = FALSE /\ starved' = FALSE
          /\ UNCHANGED <<owner, connections, callbacks, queue, conn, cur, held, todo, told, over,
                         accepted, backlog, reused, env, fatal>>
      BY <1>1 DEF OnReadable, MainIdle
    <2>2. TypeOK' /\ Listed'
      BY <2>1 DEF TypeOK, Listed, Created
    <2>3. QED
      BY <2>1, <2>2, StepKeeps DEF Thread
  <1>2. CASE AcceptNoMore
    <2>1. /\ pc[Main] = "accept" /\ pc' = [pc EXCEPT ![Main] = "idle"]
          /\ UNCHANGED <<owner, connections, callbacks, queue, conn, cur, held, todo, told, over,
                         accepted, backlog, edge, starved, reused, env, fatal>>
      BY <1>2 DEF AcceptNoMore, listener
    <2>2. TypeOK' /\ Listed'
      BY <2>1 DEF TypeOK, Listed, Created
    <2>3. QED
      BY <2>1, <2>2, StepKeeps DEF Thread
  <1>3. CASE Shutdown
    <2>1. /\ pc[Control] = "idle" /\ pc' = [pc EXCEPT ![Control] = "closeall"]
          /\ told' = told \cup {Main}
          /\ UNCHANGED <<owner, connections, callbacks, queue, conn, cur, held, todo, over,
                         accepted, backlog, edge, starved, reused, env, fatal>>
      BY <1>3 DEF Shutdown, listener
    <2>2. TypeOK' /\ Listed'
      BY <2>1 DEF TypeOK, Listed, Created
    <2>3. QED
      BY <2>1, <2>2, StepKeeps DEF Thread
  <1>4. CASE StopPool
    <2>1. /\ pc[Control] = "sleep" /\ pc' = [pc EXCEPT ![Control] = "join"]
          /\ told' = Loop \cup {Main}
          /\ UNCHANGED <<owner, connections, callbacks, queue, conn, cur, held, todo, over,
                         accepted, backlog, edge, starved, reused, env, fatal>>
      BY <1>4 DEF StopPool, listener
    <2>2. TypeOK' /\ Listed'
      BY <2>1 DEF TypeOK, Listed, Created
    <2>3. QED
      BY <2>1, <2>2, StepKeeps DEF Thread
  <1>5. CASE Reset
    <2>1. /\ pc[Control] = "reset" /\ pc' = [pc EXCEPT ![Control] = "done"]
          /\ connections' = [fd \in Fd |-> None]
          /\ fatal' \in {fatal, "dangling loop"}
          /\ UNCHANGED <<owner, callbacks, queue, conn, cur, held, todo, told, over,
                         accepted, backlog, edge, starved, reused, env>>
      BY <1>5 DEF Reset, listener
    <2>2. TypeOK' /\ Listed'
      BY <2>1 DEF TypeOK, Listed, Created
    <2>3. QED
      BY <2>1, <2>2, StepKeeps DEF Thread
  <1>6. ASSUME NEW t \in {Main, Control}, Posted(t) PROVE ConnectionsInv'
    <2>1. /\ todo[t] = {} /\ pc' = [pc EXCEPT ![t] = "release"]
          /\ UNCHANGED <<owner, connections, callbacks, queue, conn, cur, held, todo, told, over,
                         accepted, backlog, edge, starved, reused, env, fatal>>
      BY <1>6 DEF Posted, listener
    <2>2. TypeOK' /\ Listed'
      BY <2>1 DEF TypeOK, Listed, Created
    <2>3. QED
      BY <2>1, <2>2, StepKeeps DEF Thread
  <1>7. CASE AcceptFails
    <2>1. /\ pc[Main] = "accept" /\ pc' = [pc EXCEPT ![Main] = "idle"]
          /\ starved' = TRUE
          /\ UNCHANGED <<owner, connections, callbacks, queue, conn, cur, held, todo, told, over,
                         accepted, backlog, edge, reused, env, fatal>>
      BY <1>7 DEF AcceptFails
    <2>2. TypeOK' /\ Listed'
      BY <2>1 DEF TypeOK, Listed, Created
    <2>3. QED
      BY <2>1, <2>2, StepKeeps DEF Thread
  <1>8. QED
    BY <1>1, <1>2, <1>3, <1>4, <1>5, <1>6, <1>7


LEMMA AcceptKeeps ==
  ASSUME ConnectionsInv, Accept
  PROVE  ConnectionsInv'
  <1> USE DEF ConnectionsInv
  <1> conn \in [Conn -> Peer] /\ backlog \in Seq(Conn) /\ owner \in [Fd -> Conn \cup {None}]
      /\ queue \in [Loop -> Seq(Task)]
    BY DEF TypeOK
  <1> DEFINE c == Head(backlog)
             l == accepted % env.loops
             task == [k |-> "create", c |-> c]
  <1>1. PICK fd \in Free :
          /\ owner' = [owner EXCEPT ![fd] = c]
          /\ reused' = (reused \/ Unreported(fd))
          /\ conn' = [conn EXCEPT ![c] = [@ EXCEPT !.st = "posted", !.fd = fd, !.loop = l]]
    BY DEF Accept
  <1>2. /\ pc[Main] = "accept" /\ backlog # <<>> /\ backlog' = Tail(backlog)
        /\ accepted' = accepted + 1 /\ queue' = [queue EXCEPT ![l] = Append(@, task)]
        /\ UNCHANGED <<connections, callbacks, pc, cur, held, todo, told, over, edge, starved,
                       env, fatal>>
    BY DEF Accept
  <1>3. l \in Loop
    <2>1. env \in Configs /\ accepted \in Nat
      BY Constants DEF TypeOK
    <2>2. env.loops \in 1 .. Cardinality(Loop)
      BY <2>1 DEF Configs
    <2>3. accepted % env.loops \in 0 .. env.loops - 1
      BY <2>1, <2>2, Constants
    <2>4. QED
      BY <2>2, <2>3, Constants
  <1>4. c \in Conn /\ c # None /\ conn[c].st = "backlog" /\ task \in Task
    BY <1>2, TailWaits, Constants DEF Task
  <1>5. fd \in Fd /\ owner[fd] = None
    <2>1. env \in Configs
      BY Constants DEF TypeOK
    <2>2. env.fds \subseteq Fd
      BY <2>1 DEF Configs
    <2>3. QED
      BY <2>2 DEF Free
  <1> HIDE DEF c, l
  <1>6. /\ conn' \in [Conn -> Peer]
        /\ \A d \in Conn \ {c} : conn'[d] = conn[d]
        /\ conn'[c].st = "posted" /\ conn'[c].fd = fd /\ conn'[c].loop = l
    BY <1>1, <1>3, <1>4, <1>5 DEF Peer
  <1>7. /\ owner' \in [Fd -> Conn \cup {None}] /\ owner'[fd] = c
        /\ \A f \in Fd \ {fd} : owner'[f] = owner[f]
    BY <1>1, <1>4, <1>5
  <1>8. \A d \in Conn \ {c} : Owns(d) => Owns(d)'
    BY ZenonT(30), <1>5, <1>6, <1>7, Constants DEF Owns
  <1>9. queue' \in [Loop -> Seq(Task)] /\ Given'
    BY <1>2, <1>3, <1>4, <1>6, TaskGiven
  <1>10. backlog' \in Seq(Conn)
    BY <1>2, TailWaits
  <1>11. TypeOK'
    <2>1. accepted \in Nat /\ edge \in BOOLEAN /\ starved \in BOOLEAN
      BY DEF TypeOK
    <2>2. accepted' \in Nat
      BY <1>2, <2>1
    <2>3. reused' \in BOOLEAN
      BY <1>1
    <2>4. QED
      BY <1>2, <1>6, <1>7, <1>9, <1>10, <2>1, <2>2, <2>3 DEF TypeOK
  <1>12. Placed'
    BY <1>3, <1>5, <1>6, <1>7, <1>8 DEF Placed, Owns
  <1>13. CalledBack'
    <2>1. \A m \in Loop, f \in Fd :
             callbacks[m][f] # None => callbacks[m][f] \in Conn \ {c}
      BY <1>4, CallbackType DEF CalledBack, Live
    <2>2. QED
      BY <1>2, <1>6, <2>1 DEF CalledBack, Live
  <1>14. Waiting'
    BY <1>2, <1>6, TailWaits DEF Waiting, c
  <1>16. Listed'
    BY <1>2, <1>4, <1>6 DEF Listed, Created, TypeOK
  <1>17. Working'
    BY ZenonT(30), <1>2, <1>4, <1>6, <1>8 DEF Working, Live, Created
  <1>18. QED
    BY <1>9, <1>11, <1>12, <1>13, <1>14, <1>16, <1>17

LEMMA AcceptVictimKeeps ==
  ASSUME ConnectionsInv, AcceptVictim \/ AcceptDrops
  PROVE  ConnectionsInv'
  <1> USE DEF ConnectionsInv
  <1> conn \in [Conn -> Peer] /\ backlog \in Seq(Conn)
    BY DEF TypeOK
  <1> DEFINE c == Head(backlog)
  <1>0. PICK p \in {"accept", "idle"} :
          /\ starved' \in BOOLEAN /\ pc' = [pc EXCEPT ![Main] = p] /\ TurnAway
    <2>1. CASE AcceptVictim
      BY <2>1 DEF AcceptVictim
    <2>2. CASE AcceptDrops
      <3>1. TurnAway /\ starved' = starved /\ pc' = pc
        BY <2>2 DEF AcceptDrops
      <3>2. pc' = [pc EXCEPT ![Main] = "accept"]
        BY <3>1 DEF TypeOK, TurnAway, Thread
      <3>3. starved' \in BOOLEAN
        BY <3>1 DEF TypeOK
      <3>4. QED
        BY <3>1, <3>2, <3>3
    <2>3. QED
      BY <2>1, <2>2
  <1>1. /\ pc[Main] = "accept" /\ backlog # <<>> /\ backlog' = Tail(backlog)
        /\ conn' = [conn EXCEPT ![c].st = "closed"]
        /\ starved' \in BOOLEAN /\ pc' = [pc EXCEPT ![Main] = p]
        /\ UNCHANGED <<owner, connections, callbacks, queue, cur, held, todo, told, over,
                       accepted, edge, reused, env, fatal>>
    BY <1>0 DEF TurnAway
  <1>2. c \in Conn /\ conn[c].st = "backlog"
    BY <1>1, TailWaits
  <1>3. backlog' \in Seq(Conn)
    BY <1>1, TailWaits
  <1> HIDE DEF c
  <1>4. /\ conn' \in [Conn -> Peer]
        /\ \A d \in Conn : /\ conn'[d].fd = conn[d].fd /\ conn'[d].loop = conn[d].loop
                           /\ conn'[d].st = IF d = c THEN "closed" ELSE conn[d].st
    BY <1>1, <1>2, Becomes
  <1>5. Firm
    BY <1>2, <1>4 DEF Firm, Created
  <1>6. TypeOK'
    BY <1>1, <1>3, <1>4 DEF TypeOK
  <1>7. Placed'
    BY <1>1, <1>4 DEF Placed, Owns
  <1>8. CalledBack'
    BY <1>1, <1>2, <1>4, CallbackType DEF CalledBack, Live
  <1>9. Waiting'
    BY <1>1, <1>4, TailWaits DEF Waiting, c
  <1>10. Given'
    BY <1>1, <1>5, FirmFrames
  <1>11. Listed'
    <2>1. \A d \in Conn : Created(d) => Created(d)'
      BY <1>5 DEF Firm
    <2>2. \A t \in Thread : todo[t] \subseteq Conn
      BY DEF TypeOK
    <2>3. \A fd \in Fd : connections[fd] \in Conn \cup {None}
      BY DEF TypeOK
    <2>4. \A t \in Thread : pc'[t] = IF t = Main THEN p ELSE pc[t]
      BY <1>1 DEF TypeOK
    <2>5. QED
      BY <1>1, <2>1, <2>2, <2>3, <2>4 DEF Listed
  <1>12. Working'
    BY ZenonT(30), <1>1, <1>2, <1>4, Constants DEF Working, Live, Created, Owns, TypeOK, Thread
  <1>13. QED
    BY <1>6, <1>7, <1>8, <1>9, <1>10, <1>11, <1>12

LEMMA ListsKeep ==
  ASSUME ConnectionsInv,
         \/ CheckTimeouts \/ CloseAll
         \/ \E t \in {Main, Control}, c \in Conn : PostClose(t, c)
         \/ \E t \in Loop \cup {Main} : End(t)
         \/ Join
  PROVE  ConnectionsInv'
  <1> USE DEF ConnectionsInv
  <1> queue \in [Loop -> Seq(Task)]
    BY DEF TypeOK
  <1>1. CASE CheckTimeouts
    <2>1. /\ pc[Main] = "idle"
          /\ UNCHANGED <<owner, callbacks, queue, conn, cur, told, over,
                         accepted, backlog, edge, starved, reused, env, fatal>>
      BY <1>1 DEF CheckTimeouts, MainIdle, listener
    <2>2. PICK idle \in SUBSET Evicted :
            /\ connections' = [fd \in Fd |->
                   IF connections[fd] # None
                      /\ (~Live(connections[fd]) \/ connections[fd] \in idle)
                   THEN None ELSE connections[fd]]
            /\ held' = [held EXCEPT ![Main] = idle]
            /\ todo' = [todo EXCEPT ![Main] = idle]
            /\ pc' = [pc EXCEPT ![Main] = IF idle = {} THEN "idle" ELSE "post"]
      BY <1>1 DEF CheckTimeouts
    <2>3. idle \subseteq Conn /\ \A c \in idle : Created(c)
      BY DEF Evicted, Created, Placed, Owns, Live
    <2>4. connections' \in [Fd -> Conn \cup {None}]
          /\ \A fd \in Fd : connections'[fd] \in {connections[fd], None}
      BY <2>2 DEF TypeOK
    <2>5. TypeOK'
      BY <2>1, <2>2, <2>3, <2>4, Constants DEF TypeOK, Thread
    <2>6. Listed'
      BY <2>1, <2>2, <2>3, <2>4 DEF Listed, Created, TypeOK, Thread
    <2>7. Working'
      BY <2>1, <2>2, Constants DEF Working, Live, Created, Owns, TypeOK, Thread
    <2>8. QED
      BY <2>1, <2>5, <2>6, <2>7, Frames
  <1>2. CASE CloseAll
    <2> DEFINE all == {connections[fd] : fd \in Fd} \ {None}
    <2>1. /\ pc[Control] = "closeall" /\ connections' = [fd \in Fd |-> None]
          /\ held' = [held EXCEPT ![Control] = all] /\ todo' = [todo EXCEPT ![Control] = all]
          /\ pc' = [pc EXCEPT ![Control] = "post"]
          /\ UNCHANGED <<owner, callbacks, queue, conn, cur, told, over,
                         accepted, backlog, edge, starved, reused, env, fatal>>
      BY <1>2 DEF CloseAll, listener
    <2>2. all \subseteq Conn /\ \A c \in all : Created(c)
      <3>1. connections \in [Fd -> Conn \cup {None}]
        BY DEF TypeOK
      <3>2. \A fd \in Fd : connections[fd] # None => Created(connections[fd])
        BY DEF Listed
      <3>3. QED
        BY <3>1, <3>2
    <2> HIDE DEF all
    <2>3. TypeOK'
      BY <2>1, <2>2, Constants DEF TypeOK, Thread
    <2>4. Listed'
      BY <2>1, <2>2 DEF Listed, Created, TypeOK, Thread
    <2>5. Working'
      BY <2>1, Constants DEF Working, Live, Created, Owns, TypeOK, Thread
    <2>6. QED
      BY <2>1, <2>3, <2>4, <2>5, Frames
  <1>3. ASSUME NEW t \in {Main, Control}, NEW c \in Conn, PostClose(t, c) PROVE ConnectionsInv'
    <2> DEFINE l == conn[c].loop
    <2>1. /\ pc[t] = "post" /\ c \in todo[t] /\ todo' = [todo EXCEPT ![t] = @ \ {c}]
          /\ UNCHANGED <<owner, connections, callbacks, conn, pc, cur, held, told, over,
                         accepted, backlog, edge, starved, reused, env, fatal>>
          /\ queue' = [queue EXCEPT ![l] = Append(@, [k |-> "close", c |-> c])] \/ queue' = queue
      BY <1>3 DEF PostClose, listener
    <2>2. Created(c) /\ l \in Loop
      BY <2>1 DEF Listed, Created, Thread
    <2>4. queue' \in [Loop -> Seq(Task)] /\ Given'
      <3>1. CASE queue' = queue
        BY <2>1, <3>1, Frames
      <3>2. CASE queue' = [queue EXCEPT ![l] = Append(@, [k |-> "close", c |-> c])]
        BY <2>1, <2>2, <3>2, TaskGiven
      <3>3. QED
        BY <2>1, <3>1, <3>2
    <2>5. TypeOK'
      BY <2>1, <2>4 DEF TypeOK, Thread
    <2>6. Listed'
      BY <2>1 DEF Listed, Created, TypeOK, Thread
    <2>7. QED
      BY <2>1, <2>4, <2>5, <2>6, Frames
  <1>4. ASSUME NEW t \in Loop \cup {Main}, End(t) PROVE ConnectionsInv'
    <2>1. /\ t \in told /\ over' = over \cup {t}
          /\ UNCHANGED <<owner, connections, callbacks, queue, conn, pc, cur, held, todo, told,
                         accepted, backlog, edge, starved, reused, env, fatal>>
      BY <1>4 DEF End, listener
    <2>2. TypeOK'
      BY <2>1 DEF TypeOK
    <2>3. QED
      BY <2>1, <2>2, Frames
  <1>5. CASE Join
    <2>1. /\ pc[Control] = "join" /\ pc' = [pc EXCEPT ![Control] = "release"]
          /\ held' = [held EXCEPT ![Control] = {c \in Conn : Queued(c)}]
          /\ queue' = [l \in Loop |-> <<>>]
          /\ UNCHANGED <<owner, connections, callbacks, conn, cur, todo, told, over,
                         accepted, backlog, edge, starved, reused, env, fatal>>
      BY <1>5 DEF Join, listener
    <2>2. TypeOK'
      BY <2>1, Constants, EmptySeq DEF TypeOK, Thread, Listed
    <2>3. Given'
      BY <2>1 DEF Given
    <2>4. Listed'
      BY <2>1 DEF Listed, Created, TypeOK, Thread
    <2>5. Working'
      BY <2>1, Constants DEF Working, Live, Created, Owns, TypeOK, Thread
    <2>6. QED
      BY <2>1, <2>2, <2>3, <2>4, <2>5, Frames
  <1>6. QED
    BY <1>1, <1>2, <1>3, <1>4, <1>5


LEMMA CreateKeeps ==
  ASSUME ConnectionsInv, NEW l \in Loop, Create(l)
  PROVE  ConnectionsInv'
  <1> USE DEF ConnectionsInv
  <1> conn \in [Conn -> Peer] /\ backlog \in Seq(Conn)
    BY DEF TypeOK
  <1> DEFINE c == Head(queue[l]).c
  <1>1. /\ Take(l, "create")
        /\ conn' = [conn EXCEPT ![c].st = "live"]
        /\ connections' = [connections EXCEPT ![conn[c].fd] = c]
        /\ held' = [held EXCEPT ![l] = {c}]
        /\ cur' = [cur EXCEPT ![l] = c]
        /\ pc' = [pc EXCEPT ![l] = "register"]
        /\ UNCHANGED <<owner, callbacks, todo, told, over, accepted, backlog, edge, starved,
                       reused, env, fatal>>
    BY DEF Create, listener
  <1>2. /\ pc[l] = "idle" /\ c \in Conn /\ conn[c].loop = l /\ conn[c].st = "posted"
        /\ queue' \in [Loop -> Seq(Task)]
    BY <1>1, TaskTaken
  <1>3. Owns(c)
    BY <1>2 DEF Placed
  <1>4. /\ conn' \in [Conn -> Peer]
        /\ \A d \in Conn : /\ conn'[d].fd = conn[d].fd /\ conn'[d].loop = conn[d].loop
                           /\ conn'[d].st = IF d = c THEN "live" ELSE conn[d].st
    <2> HIDE DEF c
    <2>1. QED
      BY <1>1, <1>2, Becomes
  <1>5. Given'
    BY <1>1, <1>2, <1>3, <1>4, TaskTaken DEF Owns
  <1> HIDE DEF c
  <1>6. todo[l] = {}
    BY <1>2 DEF Listed, Thread
  <1>7. TypeOK'
    <2>1. /\ connections' \in [Fd -> Conn \cup {None}] /\ held' \in [Thread -> SUBSET Conn]
          /\ cur' \in [Loop -> Conn \cup {None}]
      BY <1>1, <1>2 DEF TypeOK
    <2>2. \A t \in Thread : todo'[t] \subseteq held'[t]
      BY <1>1, <1>6 DEF TypeOK, Thread
    <2>3. QED
      BY <1>1, <1>2, <1>4, <2>1, <2>2 DEF TypeOK
  <1>8. Placed'
    BY <1>1, <1>3, <1>4 DEF Placed, Owns
  <1>9. CalledBack'
    BY <1>1, <1>2, <1>4, CallbackType DEF CalledBack, Live
  <1>10. Waiting'
    BY <1>1, <1>2, <1>4, ElementOfSeq DEF Waiting
  <1>11. Listed'
    <2>1. \A d \in Conn : Created(d) => Created(d)'
      BY <1>4 DEF Created
    <2>2. \A d \in Conn : d = c => Created(d)'
      BY <1>2, <1>3, <1>4 DEF Created, Owns
    <2>3. /\ \A fd \in Fd : connections'[fd] \in {connections[fd], c}
          /\ \A fd \in Fd : connections[fd] \in Conn \cup {None}
          /\ \A t \in Thread : todo[t] \subseteq Conn
      BY <1>1 DEF TypeOK
    <2>4. \A t \in Thread : pc'[t] = IF t = l THEN "register" ELSE pc[t]
      BY <1>1 DEF TypeOK
    <2>5. \A fd \in Fd : connections'[fd] # None => connections'[fd] \in Conn /\ Created(connections[fd])'
      BY <1>2, <2>1, <2>2, <2>3 DEF Listed
    <2>6. QED
      BY <1>1, <1>6, <2>1, <2>3, <2>4, <2>5 DEF Listed
  <1>12. Working'
    <2>1. /\ \A m \in Loop \ {l} : pc'[m] = pc[m] /\ cur'[m] = cur[m] /\ held'[m] = held[m]
          /\ pc'[l] = "register" /\ cur'[l] = c /\ held'[l] = {c}
      BY <1>1 DEF TypeOK, Thread
    <2>2. \A m \in Loop \ {l} : cur[m] \in Conn /\ conn[cur[m]].loop = m => cur[m] # c
      BY <1>2
    <2>3. QED
      BY <1>1, <1>2, <1>4, <2>1, <2>2 DEF Working, Live, Created, Owns
  <1>13. QED
    BY <1>5, <1>7, <1>8, <1>9, <1>10, <1>11, <1>12

LEMMA RegisterKeeps ==
  ASSUME ConnectionsInv, NEW l \in Loop, Register(l)
  PROVE  ConnectionsInv'
  <1> USE DEF ConnectionsInv
  <1> DEFINE c == cur[l]
  <1>1. /\ pc[l] = "register" /\ callbacks' = [callbacks EXCEPT ![l][conn[c].fd] = c]
        /\ pc' = [pc EXCEPT ![l] = "release"]
        /\ UNCHANGED <<owner, connections, queue, conn, cur, held, todo, told, over, accepted,
                       backlog, edge, starved, reused, env, fatal>>
    BY DEF Register, listener
  <1>2. c \in Conn /\ Live(c) /\ conn[c].loop = l /\ Owns(c)
    BY <1>1 DEF Working, Live, Placed
  <1> HIDE DEF c
  <1> callbacks \in [Loop -> [Fd -> Conn \cup {None}]] /\ conn[c].fd \in Fd
    BY <1>2 DEF TypeOK, Owns
  <1>3. /\ callbacks' \in [Loop -> [Fd -> Conn \cup {None}]]
        /\ \A k \in Loop, f \in Fd :
              callbacks'[k][f] = IF k = l /\ f = conn[c].fd THEN c ELSE callbacks[k][f]
    BY <1>1, <1>2, CallbackSet
  <1>4. TypeOK'
    BY <1>1, <1>3 DEF TypeOK
  <1>5. CalledBack'
    BY <1>1, <1>2, <1>3, CallbackType DEF CalledBack, Live
  <1>6. Listed'
    BY <1>1 DEF Listed, Created, TypeOK
  <1>7. Working'
    BY <1>1 DEF Working, Live, Created, Owns, TypeOK, Thread
  <1>8. QED
    BY <1>1, <1>4, <1>5, <1>6, <1>7, Frames

LEMMA RegisterFailsKeeps ==
  ASSUME ConnectionsInv, NEW l \in Loop, RegisterFails(l) \/ Remove(l)
  PROVE  ConnectionsInv'
  <1> USE DEF ConnectionsInv
  <1> DEFINE fd == conn[cur[l]].fd
             s == IF pc[l] = "register" THEN "mark" ELSE "release"
  <1>1. /\ pc[l] \in {"register", "remove"} /\ pc' = [pc EXCEPT ![l] = s]
        /\ connections' = [connections EXCEPT ![fd] = None]
        /\ held' = [held EXCEPT ![l] = @ \cup ({connections[fd]} \ {None})]
        /\ UNCHANGED <<owner, callbacks, queue, conn, cur, todo, told, over, accepted,
                       backlog, edge, starved, reused, env, fatal>>
    BY DEF RegisterFails, Remove, Forget, listener
  <1>2. fd \in Fd
    BY <1>1 DEF Working, Placed, Live, Owns, Created
  <1>3. todo[l] = {}
    BY <1>1 DEF Listed, Thread
  <1>4. s \in {"mark", "release"} /\ (s = "mark" => pc[l] = "register")
    OBVIOUS
  <1> HIDE DEF fd, s
  <1>5. TypeOK'
    <2>1. connections' \in [Fd -> Conn \cup {None}]
      BY <1>1 DEF TypeOK
    <2>2. held' \in [Thread -> SUBSET Conn] /\ \A t \in Thread : todo'[t] \subseteq held'[t]
      BY <1>1, <1>2 DEF TypeOK
    <2>3. pc' \in [Thread -> {"idle", "accept", "post", "release", "register", "mark", "closefd",
                              "remove", "closeall", "sleep", "join", "reset", "done"}]
      BY <1>1, <1>4 DEF TypeOK
    <2>4. QED
      BY <1>1, <2>1, <2>2, <2>3 DEF TypeOK
  <1>6. Listed'
    BY <1>1, <1>2, <1>3, <1>4 DEF Listed, Created, TypeOK
  <1>7. Working'
    <2>1. \A m \in Loop : held[m] \subseteq held'[m] /\ (m # l => pc'[m] = pc[m])
      BY <1>1 DEF TypeOK, Thread
    <2>2. pc'[l] = s
      BY <1>1 DEF TypeOK, Thread
    <2>3. QED
      BY <1>1, <1>4, <2>1, <2>2 DEF Working, Live, Created, Owns
  <1>8. QED
    BY <1>1, <1>5, <1>6, <1>7, Frames

LEMMA EventKeeps ==
  ASSUME ConnectionsInv, NEW l \in Loop, NEW c \in Conn, Event(l, c)
  PROVE  ConnectionsInv'
  <1> USE DEF ConnectionsInv
  <1> conn \in [Conn -> Peer] /\ backlog \in Seq(Conn)
    BY DEF TypeOK
  <1>1. /\ pc[l] = "idle" /\ Live(c) /\ callbacks[l][conn[c].fd] = c
        /\ held' = [held EXCEPT ![l] = {c}] /\ cur' = [cur EXCEPT ![l] = c]
        /\ UNCHANGED <<owner, connections, callbacks, queue, todo, told, over, accepted,
                       backlog, edge, starved, reused, env, fatal>>
    BY DEF Event, listener
  <1>2. PICK s \in {"release", "mark"} : pc' = [pc EXCEPT ![l] = s]
    BY DEF Event
  <1>3. /\ conn' \in [Conn -> Peer]
        /\ \A d \in Conn : /\ conn'[d].fd = conn[d].fd /\ conn'[d].loop = conn[d].loop
                           /\ conn'[d].st = conn[d].st
    <2>1. CASE conn' = conn
      BY <2>1
    <2>2. CASE \E out \in {FALSE, env.slow} :
                  conn' = [conn EXCEPT ![c] = [@ EXCEPT !.used = TRUE, !.out = out]]
      <3>1. env \in Configs
        BY Constants DEF TypeOK
      <3>2. env.slow \in BOOLEAN
        BY <3>1 DEF Configs
      <3>3. PICK out \in BOOLEAN : conn' = [conn EXCEPT ![c] = [@ EXCEPT !.used = TRUE, !.out = out]]
        BY <2>2, <3>2
      <3>4. QED
        BY ZenonT(30), <3>3 DEF Peer
    <2>3. QED
      BY <2>1, <2>2 DEF Event
  <1>4. Owns(c) /\ conn[c].loop = l
    <2>1. Owns(c) /\ c # None
      BY <1>1, Constants DEF Placed, Live
    <2>2. QED
      BY <1>1, <2>1 DEF CalledBack, Owns
  <1>5. todo[l] = {}
    BY <1>1 DEF Listed, Thread
  <1>6. Firm
    BY <1>3 DEF Firm, Created
  <1>7. TypeOK'
    <2>1. /\ held' \in [Thread -> SUBSET Conn] /\ cur' \in [Loop -> Conn \cup {None}]
          /\ \A t \in Thread : todo'[t] \subseteq held'[t]
      BY <1>1, <1>5 DEF TypeOK
    <2>2. QED
      BY <1>1, <1>2, <1>3, <2>1 DEF TypeOK
  <1>8. Placed'
    BY <1>1, <1>3 DEF Placed, Owns
  <1>9. CalledBack'
    BY <1>1, <1>3, CallbackType DEF CalledBack, Live
  <1>10. Waiting'
    BY <1>1, <1>3, ElementOfSeq DEF Waiting
  <1>11. Given'
    BY <1>1, <1>6, FirmFrames
  <1>12. Listed'
    BY <1>1, <1>2, <1>5, <1>6 DEF Listed, Firm, TypeOK
  <1>13. Working'
    <2>1. /\ \A m \in Loop \ {l} : pc'[m] = pc[m] /\ cur'[m] = cur[m] /\ held'[m] = held[m]
          /\ pc'[l] = s /\ cur'[l] = c /\ held'[l] = {c}
      BY <1>1, <1>2 DEF TypeOK, Thread
    <2>2. QED
      BY <1>1, <1>3, <1>4, <2>1 DEF Working, Live, Created, Owns
  <1>14. QED
    BY <1>7, <1>8, <1>9, <1>10, <1>11, <1>12, <1>13

LEMMA CloseTaskKeeps ==
  ASSUME ConnectionsInv, NEW l \in Loop, CloseTask(l)
  PROVE  ConnectionsInv'
  <1> USE DEF ConnectionsInv
  <1> DEFINE c == Head(queue[l]).c
  <1>1. /\ Take(l, "close")
        /\ held' = [held EXCEPT ![l] = {c}] /\ cur' = [cur EXCEPT ![l] = c]
        /\ UNCHANGED <<owner, connections, callbacks, conn, todo, told, over, accepted,
                       backlog, edge, starved, reused, env, fatal>>
    BY DEF CloseTask, listener
  <1>2. /\ pc[l] = "idle" /\ c \in Conn /\ conn[c].loop = l
        /\ queue' \in [Loop -> Seq(Task)] /\ Given'
    BY <1>1, TaskTaken
  <1>3. PICK s \in {"release", "mark"} : pc' = [pc EXCEPT ![l] = s] /\ (s = "mark" => Live(c))
    BY DEF CloseTask
  <1> HIDE DEF c
  <1>4. todo[l] = {}
    BY <1>2 DEF Listed, Thread
  <1>5. TypeOK'
    <2>1. /\ held' \in [Thread -> SUBSET Conn] /\ cur' \in [Loop -> Conn \cup {None}]
          /\ \A t \in Thread : todo'[t] \subseteq held'[t]
      BY <1>1, <1>2, <1>4 DEF TypeOK
    <2>2. QED
      BY <1>1, <1>2, <1>3, <2>1 DEF TypeOK
  <1>6. Listed'
    BY <1>1, <1>3, <1>4 DEF Listed, Created, TypeOK
  <1>7. Working'
    <2>1. /\ \A m \in Loop \ {l} : pc'[m] = pc[m] /\ cur'[m] = cur[m] /\ held'[m] = held[m]
          /\ pc'[l] = s /\ cur'[l] = c /\ held'[l] = {c}
      BY <1>1, <1>3 DEF TypeOK, Thread
    <2>2. QED
      BY <1>1, <1>2, <1>3, <2>1 DEF Working, Live, Created, Owns
  <1>8. QED
    BY <1>1, <1>2, <1>5, <1>6, <1>7, Frames

LEMMA MarkKeeps ==
  ASSUME ConnectionsInv, NEW l \in Loop, Mark(l)
  PROVE  ConnectionsInv'
  <1> USE DEF ConnectionsInv
  <1> conn \in [Conn -> Peer] /\ backlog \in Seq(Conn)
    BY DEF TypeOK
  <1> DEFINE c == cur[l]
  <1>1. /\ pc[l] = "mark" /\ conn' = [conn EXCEPT ![c] = [@ EXCEPT !.st = "closed", !.out = FALSE]]
        /\ callbacks' = [callbacks EXCEPT ![l][conn[c].fd] = None]
        /\ pc' = [pc EXCEPT ![l] = "closefd"]
        /\ UNCHANGED <<owner, connections, queue, cur, held, todo, told, over, accepted,
                       backlog, edge, starved, reused, env, fatal>>
    BY DEF Mark, listener
  <1>2. c \in Conn /\ conn[c].st = "live" /\ conn[c].loop = l /\ Owns(c)
    BY <1>1 DEF Working, Live, Placed
  <1>3. todo[l] = {}
    BY <1>1 DEF Listed, Thread
  <1> HIDE DEF c
  <1>4. /\ conn' \in [Conn -> Peer]
        /\ \A d \in Conn : /\ conn'[d].fd = conn[d].fd /\ conn'[d].loop = conn[d].loop
                           /\ conn'[d].st = IF d = c THEN "closed" ELSE conn[d].st
    BY <1>1, <1>2 DEF Peer
  <1>5. Firm /\ Waiting'
    BY <1>1, <1>2, <1>4, Closes
  <1> callbacks \in [Loop -> [Fd -> Conn \cup {None}]] /\ conn[c].fd \in Fd
    BY <1>2 DEF TypeOK, Owns
  <1>6. /\ callbacks' \in [Loop -> [Fd -> Conn \cup {None}]]
        /\ \A k \in Loop, f \in Fd :
              callbacks'[k][f] = IF k = l /\ f = conn[c].fd THEN None ELSE callbacks[k][f]
    BY <1>1, CallbackSet
  <1>7. TypeOK'
    BY <1>1, <1>4, <1>6 DEF TypeOK
  <1>8. Placed'
    BY <1>1, <1>4 DEF Placed, Owns
  <1>9. CalledBack'
    BY SMTT(30), <1>2, <1>4, <1>6, CallbackType DEF CalledBack, Live
  <1>10. Given'
    BY <1>1, <1>5, FirmFrames
  <1>11. Listed'
    <2>1. \A d \in Conn : Created(d) => Created(d)'
      BY <1>5 DEF Firm
    <2>2. /\ \A fd \in Fd : connections[fd] \in Conn \cup {None}
          /\ \A t \in Thread : todo[t] \subseteq Conn
          /\ \A t \in Thread : pc'[t] = IF t = l THEN "closefd" ELSE pc[t]
      BY <1>1 DEF TypeOK
    <2>3. QED
      BY <1>1, <1>3, <2>1, <2>2 DEF Listed
  <1>12. Working'
    <2>1. /\ \A m \in Loop \ {l} : pc'[m] = pc[m]
          /\ pc'[l] = "closefd" /\ cur'[l] = c
      BY <1>1 DEF TypeOK, Thread, c
    <2>2. \A m \in Loop \ {l} : cur[m] \in Conn /\ conn[cur[m]].loop = m => cur[m] # c
      BY <1>2
    <2>3. QED
      BY <1>1, <1>2, <1>4, <2>1, <2>2 DEF Working, Live, Created, Owns
  <1>13. QED
    BY <1>5, <1>7, <1>8, <1>9, <1>10, <1>11, <1>12

LEMMA CloseFdKeeps ==
  ASSUME ConnectionsInv, NEW l \in Loop, CloseFd(l)
  PROVE  ConnectionsInv'
  <1> USE DEF ConnectionsInv
  <1> DEFINE c == cur[l]
  <1>1. /\ pc[l] = "closefd" /\ owner' = [owner EXCEPT ![conn[c].fd] = None]
        /\ pc' = [pc EXCEPT ![l] = "remove"]
        /\ UNCHANGED <<connections, callbacks, queue, conn, cur, held, todo, told, over, accepted,
                       backlog, edge, starved, reused, env, fatal>>
    BY DEF CloseFd, listener
  <1>2. c \in Conn /\ conn[c].st = "closed" /\ conn[c].loop = l /\ Owns(c)
    BY <1>1 DEF Working
  <1>3. todo[l] = {}
    BY <1>1 DEF Listed, Thread
  <1>4. TypeOK'
    BY <1>1 DEF TypeOK
  <1>5. \A d \in Conn \ {c} : Owns(d) => Owns(d)'
    BY <1>1, <1>2 DEF Owns, TypeOK
  <1> HIDE DEF c
  <1>6. Placed'
    BY <1>1, <1>2, <1>5 DEF Placed
  <1>7. Listed'
    BY <1>1, <1>3 DEF Listed, Created, TypeOK
  <1>8. Working'
    <2>1. /\ \A m \in Loop \ {l} : pc'[m] = pc[m]
          /\ pc'[l] = "remove" /\ cur'[l] = c
      BY <1>1 DEF TypeOK, Thread, c
    <2>2. \A m \in Loop \ {l} : cur[m] \in Conn /\ conn[cur[m]].loop = m => cur[m] # c
      BY <1>2
    <2>3. QED
      BY <1>1, <1>2, <1>5, <2>1, <2>2 DEF Working, Live, Created, Owns
  <1>9. QED
    BY <1>1, <1>4, <1>6, <1>7, <1>8, Frames

LEMMA InvInit ==
  Init => ConnectionsInv
  <1> SUFFICES ASSUME Init PROVE ConnectionsInv
    OBVIOUS
  <1>1. TypeOK
    <2>1. backlog \in Seq(Conn) /\ queue \in [Loop -> Seq(Task)]
      BY EmptySeq DEF Init
    <2>2. conn \in [Conn -> Peer]
      BY DEF Init, Peer
    <2>3. QED
      BY <2>1, <2>2 DEF Init, TypeOK, Thread
  <1>2. \A c \in Conn : conn[c].st = "new"
    BY DEF Init
  <1>3. Placed
    BY <1>2 DEF Placed
  <1>4. CalledBack /\ Listed /\ Working
    BY DEF Init, CalledBack, Listed, Working, Thread
  <1> DOMAIN <<>> = 1 .. 0
    OBVIOUS
  <1>5. Waiting
    <2>1. backlog = <<>>
      BY DEF Init
    <2>2. QED
      BY <2>1 DEF Waiting
  <1>6. Given
    <2>1. \A l \in Loop : queue[l] = <<>>
      BY DEF Init
    <2>2. QED
      BY <2>1 DEF Given
  <1>7. QED
    BY <1>1, <1>3, <1>4, <1>5, <1>6 DEF ConnectionsInv

\* A connection that is in use owns its socket, and is called back for no other
\* (Connection::MarkClosed, EventLoop::Unregister).
THEOREM ConnectionsInvariant == Spec => []ConnectionsInv
  <1>1. ASSUME ConnectionsInv, [Next]_vars PROVE ConnectionsInv'
    <2>1. CASE UNCHANGED vars
      <3>1. UNCHANGED <<owner, connections, callbacks, queue, conn, pc, cur, held, todo, told,
                        over, accepted, backlog, edge, starved, reused, env, fatal>>
        BY <2>1 DEF vars, listener
      <3>2. TypeOK'
        BY <1>1, <3>1 DEF ConnectionsInv, TypeOK
      <3>3. QED
        BY <1>1, <3>1, <3>2, Frames DEF ConnectionsInv
    <2>2. ASSUME NEW l \in Loop, LoopStep(l) PROVE ConnectionsInv'
      BY <1>1, <2>2, CreateKeeps, RegisterKeeps, RegisterFailsKeeps, CloseTaskKeeps, MarkKeeps,
         CloseFdKeeps, ReleasedKeeps, ReleaseKeeps DEF LoopStep, Thread
    <2>3. ASSUME NEW t \in {Main, Control}, Post(t) PROVE ConnectionsInv'
      BY <1>1, <2>3, MovesKeep, ReleasedKeeps, ListsKeep, ReleaseKeeps DEF Post, Thread
    <2>4. ASSUME NEW l \in Loop, NEW c \in Conn, Event(l, c) PROVE ConnectionsInv'
      BY <1>1, <2>4, EventKeeps
    <2>5. ASSUME NEW c \in Conn, Connect(c) PROVE ConnectionsInv'
      BY <1>1, <2>5, ConnectKeeps
    <2>6. CASE ListenerStep
      BY <1>1, <2>6, MovesKeep, AcceptKeeps, AcceptVictimKeeps DEF ListenerStep
    <2>7. CASE CheckTimeouts \/ Shutdown
      BY <1>1, <2>7, ListsKeep, MovesKeep
    <2>8. CASE ShutdownStep
      BY <1>1, <2>8, <2>3, ListsKeep, MovesKeep DEF ShutdownStep
    <2>9. ASSUME NEW t \in Loop \cup {Main}, End(t) PROVE ConnectionsInv'
      BY <1>1, <2>9, ListsKeep
    <2>10. QED
      BY <1>1, <2>1, <2>2, <2>3, <2>4, <2>5, <2>6, <2>7, <2>8, <2>9 DEF Next
  <1>2. QED
    BY <1>1, InvInit, PTL DEF Spec

\* The variables of Connections keep their types for any clients, descriptors,
\* loops and circumstances.
THEOREM ConnectionsTypeCorrect == Spec => []TypeOK
  <1>1. ConnectionsInv => TypeOK
    BY DEF ConnectionsInv
  <1>2. QED
    BY <1>1, ConnectionsInvariant, PTL

\* However fast descriptors are reused and whoever drops the last reference, a
\* callback is registered for the socket of its own connection only, and a live
\* connection owns its socket.
THEOREM ConnectionsOwnSocket == Spec => []OwnSocket
  <1>1. ConnectionsInv => OwnSocket
    <2> SUFFICES ASSUME ConnectionsInv PROVE OwnSocket
      OBVIOUS
    <2>1. \A c \in Conn : Live(c) => Owns(c)
      BY DEF ConnectionsInv, Placed, Live
    <2>2. QED
      BY <2>1, CallbackType DEF ConnectionsInv, CalledBack, Owns, OwnSocket
  <1>2. QED
    BY <1>1, ConnectionsInvariant, PTL

-----------------------------------------------------------------------------
(* Who still refers to an open connection. *)

InMap(c) == \E fd \in Fd : connections[fd] = c

Empty == \A l \in Loop : queue[l] = <<>>

\* A thread holds references only while it works.
Holding ==
    \A t \in Thread :
        held[t] # {} =>
            pc[t] \in {"post", "release", "register", "mark", "closefd", "remove"}

\* The second time Control releases, after Join, and later.
Joined == pc[Control] \in {"reset", "done"} \/ (pc[Control] = "release" /\ Loop \subseteq told)

\* The order of the shutdown: the loops are told to stop only by StopPool, and
\* nothing runs and nothing is queued once they are joined.
Phases ==
    /\ \A t \in over : pc[t] = "idle"
    /\ pc[Control] # "idle" => env.stops /\ Main \in told
    /\ told \cap Loop = {} \/ Loop \subseteq told
    /\ pc[Control] \in {"idle", "closeall", "post", "sleep"} => told \cap Loop = {}
    /\ pc[Control] \in {"join", "reset", "done"} => Loop \subseteq told
    /\ Joined => Loop \cup {Main} \subseteq over /\ Empty
    /\ env.prompt /\ pc[Control] = "join" => Main \in over /\ Empty

\* A shutdown that begins quietly stays quiet: nothing new comes up, and the map
\* stays empty after CloseAll.
Calm ==
    env.quiet /\ pc[Control] # "idle" =>
        /\ pc[Main] # "accept" /\ \A c \in Conn : conn[c].st # "posted"
        /\ pc[Control] # "closeall" => \A fd \in Fd : connections[fd] = None
        /\ pc[Control] = "done" => fatal = ""

\* A descriptor that is in use belongs to a connection that will close it.
Owned ==
    \A fd \in Fd : owner[fd] # None =>
        /\ conn[owner[fd]].fd = fd
        /\ \/ conn[owner[fd]].st \in {"posted", "live"}
           \/ \E l \in Loop : pc[l] = "closefd" /\ cur[l] = owner[fd]

\* The map holds a connection under its own descriptor.
Mapped == \A fd \in Fd : connections[fd] # None => conn[connections[fd]].fd = fd

Referred(c) == InMap(c) \/ Queued(c) \/ \E t \in Thread : c \in held[t]

\* While the process lives, so does some reference to every open connection.
Referenced == fatal = "" => \A c \in Conn : Live(c) => Referred(c)

\* As long as no descriptor was reused too early, Remove finds in the map the
\* connection it is called for, and a loop holds its own connections only.
Unmixed ==
    ~reused =>
        /\ \A l \in Loop : \A c \in held[l] : Created(c) /\ conn[c].loop = l
        /\ \A fd \in Fd : connections[fd] # None =>
              \/ owner[fd] = connections[fd]
              \/ \E l \in Loop : pc[l] = "remove" /\ cur[l] = connections[fd]
        /\ \A l \in Loop : pc[l] = "remove" =>
              conn[cur[l]].loop = l /\ owner[conn[cur[l]].fd] = None
        /\ \A l, m \in Loop :
              pc[l] = "remove" /\ pc[m] = "remove" /\ conn[cur[l]].fd = conn[cur[m]].fd
              => l = m

FairWeather ==
    /\ ~reused
    /\ env.slow => ~env.stops /\ ~env.idles
    /\ env.stops => env.prompt /\ env.quiet

\* A Close of c is due: yet to be posted, posted, or begun.
Due(c) ==
    \/ c \in todo[Main] \/ c \in todo[Control] \/ Queued(c)
    \/ \E l \in Loop : pc[l] = "mark" /\ cur[l] = c

\* References that will be dropped in the connection's own loop, or lead to one.
Anchored(c) ==
    \/ InMap(c) \/ Queued(c) \/ c \in held[conn[c].loop]
    \/ c \in todo[Main] \/ c \in todo[Control]

\* Output is left, and other threads hold connections, only in the circumstances
\* that allow it.
Excluded ==
    /\ ~env.slow => \A c \in Conn : ~conn[c].out
    /\ ~env.idles => held[Main] = {}
    /\ ~env.stops => held[Control] = {}
    /\ \A t \in {Main, Control} : \A c \in held[t] : Created(c)

\* Another thread holds an open connection only while a Close of it is due.
Kept ==
    FairWeather =>
        /\ fatal = ""
        /\ \A c \in Conn : Live(c) => Anchored(c)
        /\ \A t \in {Main, Control} : \A c \in held[t] : Live(c) => Due(c)

CloseInv == ConnectionsInv /\ Holding /\ Phases /\ Calm /\ Owned /\ Mapped /\ Referenced /\ Unmixed
            /\ Excluded /\ Kept

-----------------------------------------------------------------------------
LEMMA Domains ==
  ASSUME TypeOK
  PROVE  /\ DOMAIN pc = Thread /\ DOMAIN held = Thread /\ DOMAIN todo = Thread
         /\ DOMAIN queue = Loop /\ DOMAIN cur = Loop /\ DOMAIN conn = Conn
         /\ DOMAIN owner = Fd /\ DOMAIN connections = Fd
         /\ Loop \subseteq Thread /\ Main \in Thread /\ Control \in Thread
  BY DEF TypeOK, Thread

\* The steps of a loop, of the threads that post, and the others.
LEMMA StepOf ==
  ASSUME Next
  PROVE  \/ \E l \in Loop : \/ Create(l) \/ Register(l) \/ RegisterFails(l) \/ CloseTask(l)
                            \/ Mark(l) \/ CloseFd(l) \/ Remove(l)
                            \/ \E c \in Conn : Event(l, c)
         \/ \E t \in Thread : Released(t) \/ \E c \in Conn : Release(t, c)
         \/ \E t \in {Main, Control} : Posted(t) \/ \E c \in Conn : PostClose(t, c)
         \/ \E c \in Conn : Connect(c)
         \/ OnReadable \/ Accept \/ AcceptNoMore \/ AcceptFails \/ AcceptVictim \/ AcceptDrops
         \/ CheckTimeouts \/ Shutdown \/ CloseAll \/ StopPool \/ Join \/ Reset
         \/ \E t \in Loop \cup {Main} : End(t)
  BY DEF Next, LoopStep, Post, ListenerStep, ShutdownStep, Thread

\* Nobody holds anything while it is idle.
LEMMA KeepsHolding ==
  ASSUME ConnectionsInv, Holding, Next
  PROVE  Holding'
  <1> TypeOK
    BY DEF ConnectionsInv
  <1>1. ASSUME NEW l \in Loop,
               \/ Create(l) \/ Register(l) \/ RegisterFails(l) \/ CloseTask(l)
               \/ Mark(l) \/ CloseFd(l) \/ Remove(l) \/ \E c \in Conn : Event(l, c)
        PROVE  Holding'
    <2>1. /\ \A t \in Thread \ {l} : held'[t] = held[t] /\ pc'[t] = pc[t]
          /\ pc'[l] \in {"register", "release", "mark", "closefd", "remove"}
      <3>1. CASE Create(l) \/ Register(l) \/ RegisterFails(l)
        BY <3>1, Domains DEF Create, Register, RegisterFails, Forget
      <3>2. CASE CloseTask(l) \/ Mark(l) \/ CloseFd(l) \/ Remove(l)
        BY <3>2, Domains DEF CloseTask, Mark, CloseFd, Remove, Forget
      <3>3. CASE \E c \in Conn : Event(l, c)
        BY <3>3, Domains DEF Event
      <3>4. QED
        BY <1>1, <3>1, <3>2, <3>3
    <2>2. QED
      BY <2>1 DEF Holding
  <1>2. ASSUME NEW t \in Thread, Released(t) \/ \E c \in Conn : Release(t, c)
        PROVE  Holding'
    BY <1>2, Domains DEF Holding, Released, Release
  <1>3. ASSUME NEW t \in {Main, Control}, Posted(t) \/ \E c \in Conn : PostClose(t, c)
        PROVE  Holding'
    BY <1>3, Domains DEF Holding, Posted, PostClose
  <1>4. CASE \/ \E c \in Conn : Connect(c)
             \/ OnReadable \/ Accept \/ AcceptNoMore \/ AcceptFails \/ AcceptVictim \/ AcceptDrops
    BY <1>4, Domains DEF Holding, Connect, OnReadable, Accept, AcceptNoMore, AcceptFails,
       AcceptVictim, AcceptDrops, TurnAway, MainIdle
  <1>5. CASE CheckTimeouts
    BY <1>5, Domains DEF Holding, CheckTimeouts, MainIdle
  <1>6. CASE Shutdown \/ CloseAll \/ StopPool \/ Join \/ Reset
    BY <1>6, Domains DEF Holding, Shutdown, CloseAll, StopPool, Join, Reset
  <1>7. CASE \E t \in Loop \cup {Main} : End(t)
    BY <1>7 DEF Holding, End
  <1>8. QED
    BY <1>1, <1>2, <1>3, <1>4, <1>5, <1>6, <1>7, StepOf

\* What happens once the loops are told to stop.
LEMMA KeepsPhases ==
  ASSUME ConnectionsInv, Phases, Next
  PROVE  Phases'
  <1> TypeOK
    BY DEF ConnectionsInv
  <1> Loop # {} /\ Main \notin Loop /\ Control \notin Loop /\ Main # Control
    BY ConnectionsAssumption
  \* Steps of threads that are not over, when nothing was joined yet.
  <1>1. ASSUME NEW t \in Thread, t \notin over, t # Control,
               \A u \in Thread \ {t} : pc'[u] = pc[u],
               UNCHANGED <<env, told, over>>,
               t = Main \/ \A l \in Loop \ {t} : queue'[l] = queue[l],
               t \in Loop => queue'[t] = queue[t] \/ queue[t] # <<>>
        PROVE  Phases'
    <2>1. ~Joined /\ (env.prompt /\ pc[Control] = "join" => t # Main)
      BY <1>1, Domains DEF Phases, Thread
    <2>2. env.prompt /\ pc[Control] = "join" => Empty'
      BY <1>1, <2>1 DEF Phases, Empty
    <2>3. pc'[Control] = pc[Control]
      BY <1>1, Domains
    <2>4. ~Joined'
      BY <1>1, <2>1, <2>3 DEF Joined
    <2>5. \A u \in over : pc'[u] = "idle"
      BY <1>1 DEF Phases, TypeOK, Thread
    <2>6. QED
      BY <1>1, <2>1, <2>2, <2>3, <2>4, <2>5 DEF Phases
  <1>2. ASSUME NEW l \in Loop,
               \/ Create(l) \/ Register(l) \/ RegisterFails(l) \/ CloseTask(l)
               \/ Mark(l) \/ CloseFd(l) \/ Remove(l) \/ \E c \in Conn : Event(l, c)
        PROVE  Phases'
    <2>1. l \notin over
      BY <1>2 DEF Create, Register, RegisterFails, CloseTask, Mark, CloseFd, Remove, Event, Take,
         Phases
    <2>2. /\ \A u \in Thread \ {l} : pc'[u] = pc[u]
          /\ UNCHANGED <<env, told, over>>
          /\ \A m \in Loop \ {l} : queue'[m] = queue[m]
          /\ queue'[l] = queue[l] \/ queue[l] # <<>>
      <3>1. CASE Create(l) \/ Register(l) \/ RegisterFails(l)
        BY <3>1, Domains DEF Create, Register, RegisterFails, Forget, Take, listener
      <3>2. CASE CloseTask(l) \/ Mark(l) \/ CloseFd(l) \/ Remove(l)
        BY <3>2, Domains DEF CloseTask, Mark, CloseFd, Remove, Forget, Take, listener
      <3>3. CASE \E c \in Conn : Event(l, c)
        BY <3>3, Domains DEF Event, listener
      <3>4. QED
        BY <1>2, <3>1, <3>2, <3>3
    <2>3. QED
      BY <1>1, <2>1, <2>2, Domains
  <1>3. ASSUME NEW t \in Thread, Released(t) PROVE Phases'
    BY <1>3, Domains DEF Phases, Released, AfterRelease, Joined, Empty, listener
  <1>4. ASSUME NEW t \in Thread, NEW c \in Conn, Release(t, c) PROVE Phases'
    BY <1>4 DEF Phases, Release, Joined, Empty, listener
  <1>5. ASSUME NEW t \in {Main, Control}, NEW c \in Conn, PostClose(t, c) PROVE Phases'
    <2>1. CASE t = Main
      <3>1. t \notin over
        BY <1>5 DEF PostClose, Phases
      <3>2. UNCHANGED <<pc, env, told, over>>
        BY <1>5 DEF PostClose, listener
      <3>3. QED
        BY <1>1, <2>1, <3>1, <3>2, Domains
    <2>2. CASE t = Control
      BY <1>5, <2>2 DEF PostClose, Phases, Joined, listener
    <2>3. QED
      BY <2>1, <2>2
  <1>6. ASSUME NEW t \in {Main, Control}, Posted(t) PROVE Phases'
    <2>1. CASE t = Main
      <3>1. t \notin over
        BY <1>6 DEF Posted, Phases
      <3>2. /\ \A u \in Thread \ {t} : pc'[u] = pc[u]
            /\ UNCHANGED <<env, told, over, queue>>
        BY <1>6, Domains DEF Posted, listener
      <3>3. QED
        BY <1>1, <2>1, <3>1, <3>2, Domains
    <2>2. CASE t = Control
      <3>1. told \cap Loop = {} /\ pc[Control] = "post"
        BY <1>6, <2>2 DEF Posted, Phases
      <3>2. /\ pc' = [pc EXCEPT ![Control] = "release"] /\ UNCHANGED <<env, told, over, queue>>
        BY <1>6, <2>2 DEF Posted, listener
      <3>3. QED
        BY <3>1, <3>2, Domains DEF Phases, Joined, Empty
    <2>3. QED
      BY <2>1, <2>2
  <1>7. CASE \E c \in Conn : Connect(c)
    BY <1>7 DEF Connect, Phases, Joined, Empty
  <1>8. CASE \/ OnReadable \/ Accept \/ AcceptNoMore \/ AcceptFails \/ AcceptVictim \/ AcceptDrops
             \/ CheckTimeouts
    <2>1. Main \notin over
      BY <1>8 DEF OnReadable, Accept, AcceptNoMore, AcceptFails, AcceptVictim, AcceptDrops,
         TurnAway, CheckTimeouts, MainIdle, Phases
    <2>2. /\ \A u \in Thread \ {Main} : pc'[u] = pc[u]
          /\ UNCHANGED <<env, told, over>>
      BY <1>8, Domains DEF OnReadable, Accept, AcceptNoMore, AcceptFails, AcceptVictim,
         AcceptDrops, TurnAway, CheckTimeouts, listener
    <2>3. QED
      BY <1>1, <2>1, <2>2, Domains
  <1>9. CASE Shutdown
    <2>1. /\ pc[Control] = "idle" /\ pc' = [pc EXCEPT ![Control] = "closeall"]
          /\ told' = told \cup {Main} /\ env.stops
          /\ UNCHANGED <<queue, over, env>>
      BY <1>9 DEF Shutdown, listener
    <2>2. told \cap Loop = {} /\ told' \cap Loop = {}
      BY <2>1 DEF Phases
    <2>3. \A t \in over : pc'[t] = "idle"
      <3>1. \A t \in over : t \in Thread /\ t # Control
        BY DEF TypeOK, Thread
      <3>2. QED
        BY <2>1, <3>1, Domains DEF Phases
    <2>4. pc'[Control] = "closeall" /\ ~Joined'
      BY <2>1, Domains DEF Joined
    <2>5. QED
      BY <2>1, <2>2, <2>3, <2>4 DEF Phases
  <1>10. CASE CloseAll
    BY <1>10, Domains DEF CloseAll, Phases, Joined, Empty, listener
  <1>11. CASE StopPool
    BY <1>11, Domains DEF StopPool, Phases, Joined, Empty, listener
  <1>12. CASE Join
    BY <1>12, Domains DEF Join, Phases, Joined, Empty, listener
  <1>13. CASE Reset
    <2>1. /\ pc[Control] = "reset" /\ pc' = [pc EXCEPT ![Control] = "done"]
          /\ UNCHANGED <<queue, told, over, env>>
      BY <1>13 DEF Reset, listener
    <2>2. Joined /\ pc'[Control] = "done" /\ Loop \subseteq told
      BY <2>1, Domains DEF Joined, Phases
    <2>3. \A t \in over : pc'[t] = "idle"
      <3>1. \A t \in over : t \in Thread /\ t # Control
        BY DEF TypeOK, Thread
      <3>2. QED
        BY <2>1, <3>1, Domains DEF Phases
    <2>4. told \cap Loop # {}
      BY <2>2
    <2>5. QED
      BY <2>1, <2>2, <2>3, <2>4 DEF Phases, Empty
  <1>14. ASSUME NEW t \in Loop \cup {Main}, End(t) PROVE Phases'
    BY <1>14, Domains DEF End, Phases, Joined, Empty, listener
  <1>15. QED
    BY <1>2, <1>3, <1>4, <1>5, <1>6, <1>7, <1>8, <1>9, <1>10, <1>11, <1>12, <1>13, <1>14, StepOf

-----------------------------------------------------------------------------
(* What the actions do to connections. *)

LEMMA ConnectDoes ==
  ASSUME TypeOK, NEW c \in Conn, Connect(c)
  PROVE  /\ conn[c].st = "new"
         /\ \A d \in Conn : /\ conn'[d].fd = conn[d].fd /\ conn'[d].loop = conn[d].loop
                            /\ conn'[d].out = conn[d].out
                            /\ conn'[d].st = IF d = c THEN "backlog" ELSE conn[d].st
         /\ UNCHANGED <<owner, connections, callbacks, queue, pc, cur, held, todo, told, over,
                        reused, env, fatal>>
  BY DEF Connect, TypeOK, Peer

AcceptEffect(c, fd, l) ==
    /\ pc[Main] = "accept" /\ conn[c].st = "backlog" /\ owner[fd] = None
    /\ reused' = (reused \/ Unreported(fd))
    /\ \A d \in Conn :
          /\ conn'[d].out = conn[d].out
          /\ conn'[d].st = IF d = c THEN "posted" ELSE conn[d].st
          /\ conn'[d].fd = IF d = c THEN fd ELSE conn[d].fd
          /\ conn'[d].loop = IF d = c THEN l ELSE conn[d].loop
    /\ \A f \in Fd : owner'[f] = IF f = fd THEN c ELSE owner[f]
    /\ queue' = [queue EXCEPT ![l] = Append(@, [k |-> "create", c |-> c])]
    /\ UNCHANGED <<connections, callbacks, pc, cur, held, todo, told, over, env, fatal>>

LEMMA AcceptDoes ==
  ASSUME ConnectionsInv, Accept
  PROVE  \E c \in Conn, fd \in Fd, l \in Loop : AcceptEffect(c, fd, l)
  <1> conn \in [Conn -> Peer] /\ backlog \in Seq(Conn) /\ owner \in [Fd -> Conn \cup {None}]
    BY DEF ConnectionsInv, TypeOK
  <1> DEFINE c == Head(backlog)
             l == accepted % env.loops
  <1>1. PICK fd \in Free :
          /\ owner' = [owner EXCEPT ![fd] = c]
          /\ reused' = (reused \/ Unreported(fd))
          /\ conn' = [conn EXCEPT ![c] = [@ EXCEPT !.st = "posted", !.fd = fd, !.loop = l]]
    BY DEF Accept
  <1>2. c \in Conn /\ conn[c].st = "backlog"
    BY TailWaits DEF Accept, ConnectionsInv
  <1>3. l \in Loop
    <2>1. env \in Configs
      BY Constants DEF ConnectionsInv, TypeOK
    <2>2. env.loops \in 1 .. Cardinality(Loop) /\ accepted \in Nat
      BY <2>1 DEF Configs, ConnectionsInv, TypeOK
    <2>3. l \in 0 .. Cardinality(Loop) - 1
      BY <2>2, Constants
    <2>4. QED
      BY <2>3, Constants
  <1>4. fd \in Fd /\ owner[fd] = None
    <2>1. env \in Configs
      BY Constants DEF ConnectionsInv, TypeOK
    <2>2. QED
      BY <2>1 DEF Free, Configs
  <1>5. \A d \in Conn :
            /\ conn'[d].out = conn[d].out
            /\ conn'[d].st = IF d = c THEN "posted" ELSE conn[d].st
            /\ conn'[d].fd = IF d = c THEN fd ELSE conn[d].fd
            /\ conn'[d].loop = IF d = c THEN l ELSE conn[d].loop
    <2> HIDE DEF c, l
    <2>1. QED
      BY <1>1, <1>2 DEF Peer
  <1>6. \A f \in Fd : owner'[f] = IF f = fd THEN c ELSE owner[f]
    <2> HIDE DEF c
    <2>1. QED
      BY <1>1, <1>4
  <1>7. /\ pc[Main] = "accept"
        /\ queue' = [queue EXCEPT ![l] = Append(@, [k |-> "create", c |-> c])]
        /\ UNCHANGED <<connections, callbacks, pc, cur, held, todo, told, over, env, fatal>>
    BY DEF Accept
  <1> HIDE DEF c, l
  <1>8. c \in Conn /\ fd \in Fd /\ l \in Loop
    BY <1>2, <1>3, <1>4
  <1>9. /\ pc[Main] = "accept" /\ conn[c].st = "backlog" /\ owner[fd] = None
        /\ reused' = (reused \/ Unreported(fd))
        /\ \A d \in Conn :
              /\ conn'[d].out = conn[d].out
              /\ conn'[d].st = IF d = c THEN "posted" ELSE conn[d].st
              /\ conn'[d].fd = IF d = c THEN fd ELSE conn[d].fd
              /\ conn'[d].loop = IF d = c THEN l ELSE conn[d].loop
        /\ \A f \in Fd : owner'[f] = IF f = fd THEN c ELSE owner[f]
        /\ queue' = [queue EXCEPT ![l] = Append(@, [k |-> "create", c |-> c])]
        /\ UNCHANGED <<connections, callbacks, pc, cur, held, todo, told, over, env, fatal>>
    BY <1>1, <1>2, <1>4, <1>5, <1>6, <1>7, Zenon
  <1>10. AcceptEffect(c, fd, l)
    BY <1>9, Zenon DEF AcceptEffect
  <1>11. QED
    BY <1>8, <1>10, Zenon

\* The main loop leaves its loop or stays in it; nobody else moves.
Turned ==
    /\ pc'[Main] \in {"accept", "idle"}
    /\ \A t \in Thread \ {Main} : pc'[t] = pc[t]

LEMMA AcceptVictimDoes ==
  ASSUME ConnectionsInv, AcceptVictim \/ AcceptDrops
  PROVE  \E c \in Conn :
            /\ conn[c].st = "backlog"
            /\ \A d \in Conn : /\ conn'[d].fd = conn[d].fd /\ conn'[d].loop = conn[d].loop
                               /\ conn'[d].out = conn[d].out
                               /\ conn'[d].st = IF d = c THEN "closed" ELSE conn[d].st
            /\ pc[Main] = "accept" /\ Turned
            /\ UNCHANGED <<owner, connections, callbacks, queue, cur, held, todo, told, over,
                           reused, env, fatal>>
  <1> DEFINE c == Head(backlog)
  <1>0. TurnAway /\ pc[Main] = "accept"
    BY DEF AcceptVictim, AcceptDrops, TurnAway
  <1>1. c \in Conn /\ conn[c].st = "backlog"
    BY <1>0, TailWaits DEF TurnAway, ConnectionsInv, TypeOK
  <1>2. conn' = [conn EXCEPT ![c].st = "closed"]
    BY <1>0 DEF TurnAway
  <1> HIDE DEF c
  <1>3. \A d \in Conn : /\ conn'[d].fd = conn[d].fd /\ conn'[d].loop = conn[d].loop
                        /\ conn'[d].out = conn[d].out
                        /\ conn'[d].st = IF d = c THEN "closed" ELSE conn[d].st
    BY <1>1, <1>2 DEF ConnectionsInv, TypeOK, Peer
  <1>4. Turned
    <2>1. pc \in [Thread -> {"idle", "accept", "post", "release", "register", "mark", "closefd",
                             "remove", "closeall", "sleep", "join", "reset", "done"}]
      BY DEF ConnectionsInv, TypeOK
    <2>2. CASE AcceptVictim
      BY <2>1, <2>2 DEF AcceptVictim, Turned, Thread
    <2>3. CASE AcceptDrops
      BY <1>0, <2>3 DEF AcceptDrops, Turned
    <2>4. QED
      BY <2>2, <2>3
  <1>5. QED
    BY <1>0, <1>1, <1>3, <1>4 DEF TurnAway

CreateEffect(l, c) ==
    /\ conn[c].st = "posted" /\ conn[c].fd \in Fd /\ conn[c].loop = l
    /\ owner[conn[c].fd] = c /\ pc[l] = "idle" /\ Take(l, "create")
    /\ \A d \in Conn : /\ conn'[d].fd = conn[d].fd /\ conn'[d].loop = conn[d].loop
                       /\ conn'[d].out = conn[d].out
                       /\ conn'[d].st = IF d = c THEN "live" ELSE conn[d].st
    /\ \A fd \in Fd : connections'[fd] = IF fd = conn[c].fd THEN c ELSE connections[fd]
    /\ held' = [held EXCEPT ![l] = {c}] /\ cur' = [cur EXCEPT ![l] = c]
    /\ pc' = [pc EXCEPT ![l] = "register"]
    /\ UNCHANGED <<owner, todo, told, over, reused, env, fatal>>

LEMMA CreateDoes ==
  ASSUME ConnectionsInv, NEW l \in Loop, Create(l)
  PROVE  \E c \in Conn : CreateEffect(l, c)
  <1> DEFINE c == Head(queue[l]).c
  <1>1. /\ Take(l, "create") /\ conn' = [conn EXCEPT ![c].st = "live"]
        /\ connections' = [connections EXCEPT ![conn[c].fd] = c]
        /\ held' = [held EXCEPT ![l] = {c}] /\ cur' = [cur EXCEPT ![l] = c]
        /\ pc' = [pc EXCEPT ![l] = "register"]
        /\ UNCHANGED <<owner, todo, told, over, reused, env, fatal>>
    BY DEF Create, listener
  <1>2. pc[l] = "idle" /\ c \in Conn /\ conn[c].loop = l /\ conn[c].st = "posted"
    BY <1>1, TaskTaken DEF ConnectionsInv
  <1>3. conn[c].fd \in Fd /\ owner[conn[c].fd] = c
    BY <1>2 DEF ConnectionsInv, Placed, Owns
  <1> HIDE DEF c
  <1>4. \A d \in Conn : /\ conn'[d].fd = conn[d].fd /\ conn'[d].loop = conn[d].loop
                        /\ conn'[d].out = conn[d].out
                        /\ conn'[d].st = IF d = c THEN "live" ELSE conn[d].st
    BY <1>1, <1>2 DEF ConnectionsInv, TypeOK, Peer
  <1>5. \A fd \in Fd : connections'[fd] = IF fd = conn[c].fd THEN c ELSE connections[fd]
    BY <1>1, <1>3 DEF ConnectionsInv, TypeOK
  <1>6. CreateEffect(l, c)
    BY <1>1, <1>2, <1>3, <1>4, <1>5, Zenon DEF CreateEffect
  <1>7. QED
    BY <1>2, <1>6, Zenon

LEMMA EventDoes ==
  ASSUME ConnectionsInv, NEW l \in Loop, NEW c \in Conn, Event(l, c)
  PROVE  /\ pc[l] = "idle" /\ Live(c) /\ conn[c].loop = l
         /\ held' = [held EXCEPT ![l] = {c}] /\ cur' = [cur EXCEPT ![l] = c]
         /\ \/ pc' = [pc EXCEPT ![l] = "release"]
            \/ pc' = [pc EXCEPT ![l] = "mark"]
         /\ \A d \in Conn : /\ conn'[d].fd = conn[d].fd /\ conn'[d].loop = conn[d].loop
                            /\ conn'[d].st = conn[d].st
                            /\ ~conn[d].out /\ ~env.slow => ~conn'[d].out
         /\ UNCHANGED <<owner, connections, queue, todo, told, over, reused, env, fatal>>
  <1> conn \in [Conn -> Peer]
    BY DEF ConnectionsInv, TypeOK
  <1>1. /\ pc[l] = "idle" /\ Live(c) /\ callbacks[l][conn[c].fd] = c
        /\ held' = [held EXCEPT ![l] = {c}] /\ cur' = [cur EXCEPT ![l] = c]
        /\ \/ pc' = [pc EXCEPT ![l] = "release"]
           \/ pc' = [pc EXCEPT ![l] = "mark"]
        /\ UNCHANGED <<owner, connections, queue, todo, told, over, reused, env, fatal>>
    BY DEF Event, listener
  <1>2. conn[c].loop = l
    <2>1. conn[c].fd \in Fd
      BY <1>1 DEF ConnectionsInv, Placed, Live, Owns
    <2>2. callbacks[l][conn[c].fd] # None
      BY <1>1, Constants
    <2>3. conn[callbacks[l][conn[c].fd]].loop = l
      BY <2>1, <2>2 DEF ConnectionsInv, CalledBack
    <2>4. QED
      BY <1>1, <2>3
  <1>3. \/ conn' = conn
        \/ \E out \in {FALSE, env.slow} :
              conn' = [conn EXCEPT ![c] = [@ EXCEPT !.used = TRUE, !.out = out]]
    BY DEF Event
  <1>4. \A d \in Conn : /\ conn'[d].fd = conn[d].fd /\ conn'[d].loop = conn[d].loop
                        /\ conn'[d].st = conn[d].st
                        /\ ~conn[d].out /\ ~env.slow => ~conn'[d].out
    <2>1. CASE conn' = conn
      BY <2>1
    <2>2. ASSUME NEW out \in {FALSE, env.slow},
                 conn' = [conn EXCEPT ![c] = [@ EXCEPT !.used = TRUE, !.out = out]]
          PROVE  \A d \in Conn : /\ conn'[d].fd = conn[d].fd /\ conn'[d].loop = conn[d].loop
                                 /\ conn'[d].st = conn[d].st
                                 /\ ~conn[d].out /\ ~env.slow => ~conn'[d].out
      BY <2>2 DEF Peer
    <2>3. QED
      BY <1>3, <2>1, <2>2
  <1>5. QED
    BY <1>1, <1>2, <1>4

MarkEffect(l, c) ==
    /\ c = cur[l] /\ Live(c) /\ conn[c].loop = l /\ c \in held[l] /\ pc[l] = "mark"
    /\ \A d \in Conn : /\ conn'[d].fd = conn[d].fd /\ conn'[d].loop = conn[d].loop
                       /\ conn'[d].st = IF d = c THEN "closed" ELSE conn[d].st
                       /\ conn'[d].out = IF d = c THEN FALSE ELSE conn[d].out
    /\ pc' = [pc EXCEPT ![l] = "closefd"]
    /\ UNCHANGED <<owner, connections, queue, cur, held, todo, told, over, reused,
                   env, fatal>>

LEMMA MarkDoes ==
  ASSUME ConnectionsInv, NEW l \in Loop, Mark(l)
  PROVE  \E c \in Conn : MarkEffect(l, c)
  <1> DEFINE c == cur[l]
  <1>1. c \in Conn /\ Live(c) /\ conn[c].loop = l /\ c \in held[l] /\ pc[l] = "mark"
    BY DEF Mark, ConnectionsInv, Working
  <1>2. conn' = [conn EXCEPT ![c] = [@ EXCEPT !.st = "closed", !.out = FALSE]]
    BY DEF Mark
  <1> HIDE DEF c
  <1>3. \A d \in Conn : /\ conn'[d].fd = conn[d].fd /\ conn'[d].loop = conn[d].loop
                        /\ conn'[d].st = IF d = c THEN "closed" ELSE conn[d].st
                        /\ conn'[d].out = IF d = c THEN FALSE ELSE conn[d].out
    <2>1. conn \in [Conn -> Peer]
      BY DEF ConnectionsInv, TypeOK
    <2>2. QED
      BY <1>1, <1>2, <2>1 DEF Peer
  <1>4. c = cur[l]
    BY DEF c
  <1>5. /\ pc' = [pc EXCEPT ![l] = "closefd"]
        /\ UNCHANGED <<owner, connections, queue, cur, held, todo, told, over, reused, env, fatal>>
    BY DEF Mark, listener
  <1>6. MarkEffect(l, c)
    BY <1>1, <1>3, <1>4, <1>5, Zenon DEF MarkEffect
  <1>7. QED
    BY <1>1, <1>6, Zenon

\* The last reference dropped by the thread of the connection's loop, or another.
LEMMA ReleaseDoes ==
  ASSUME ConnectionsInv, NEW t \in Thread, NEW c \in Conn, Release(t, c)
  PROVE  /\ pc[t] = "release" /\ c \in held[t] /\ held' = [held EXCEPT ![t] = @ \ {c}]
         /\ UNCHANGED <<connections, queue, pc, cur, todo, told, over, reused, env>>
         /\ \A d \in Conn : /\ conn'[d].fd = conn[d].fd /\ conn'[d].loop = conn[d].loop
                            /\ conn'[d].out = conn[d].out
         /\ Live(c) /\ ~Shared(t, c) /\ t = conn[c].loop =>
               /\ fatal' = fatal /\ conn[c].fd \in Fd /\ owner[conn[c].fd] = c
               /\ owner' = [owner EXCEPT ![conn[c].fd] = None]
               /\ conn' = [conn EXCEPT ![c].st = "closed"]
         /\ Live(c) /\ ~Shared(t, c) /\ t # conn[c].loop =>
               fatal' = "wrong thread" /\ owner' = owner /\ conn' = conn
         /\ ~Live(c) \/ Shared(t, c) => owner' = owner /\ conn' = conn /\ fatal' = fatal
  <1>1. /\ pc[t] = "release" /\ c \in held[t] /\ held' = [held EXCEPT ![t] = @ \ {c}]
        /\ UNCHANGED <<connections, queue, pc, cur, todo, told, over, reused, env>>
    BY DEF Release, listener
  <1>2. ASSUME Live(c), ~Shared(t, c), t = conn[c].loop
        PROVE  /\ fatal' = fatal /\ conn[c].fd \in Fd /\ owner[conn[c].fd] = c
               /\ owner' = [owner EXCEPT ![conn[c].fd] = None]
               /\ conn' = [conn EXCEPT ![c].st = "closed"]
    <2>1. /\ fatal' = fatal /\ owner' = [owner EXCEPT ![conn[c].fd] = None]
          /\ conn' = [conn EXCEPT ![c].st = "closed"]
      BY <1>2 DEF Release
    <2>2. conn[c].fd \in Fd /\ owner[conn[c].fd] = c
      BY <1>2 DEF ConnectionsInv, Placed, Live, Owns
    <2>3. QED
      BY <2>1, <2>2
  <1>3. ASSUME Live(c), ~Shared(t, c), t # conn[c].loop
        PROVE  fatal' = "wrong thread" /\ owner' = owner /\ conn' = conn
    BY <1>3 DEF Release
  <1>4. ASSUME ~Live(c) \/ Shared(t, c)
        PROVE  owner' = owner /\ conn' = conn /\ fatal' = fatal
    BY <1>4 DEF Release
  <1>5. \A d \in Conn : /\ conn'[d].fd = conn[d].fd /\ conn'[d].loop = conn[d].loop
                        /\ conn'[d].out = conn[d].out
    <2>1. conn \in [Conn -> Peer]
      BY DEF ConnectionsInv, TypeOK
    <2>2. conn' = [conn EXCEPT ![c].st = "closed"] \/ conn' = conn
      BY <1>2, <1>3, <1>4, Zenon
    <2>3. CASE conn' = [conn EXCEPT ![c].st = "closed"]
      BY <2>1, <2>3 DEF Peer
    <2>4. QED
      BY <2>2, <2>3
  <1>6. QED
    BY <1>1, <1>2, <1>3, <1>4, <1>5, Zenon

LEMMA CloseTaskDoes ==
  ASSUME ConnectionsInv, NEW l \in Loop, CloseTask(l)
  PROVE  \E c \in Conn :
            /\ Created(c) /\ conn[c].loop = l /\ pc[l] = "idle"
            /\ Take(l, "close") /\ c = Head(queue[l]).c
            /\ held' = [held EXCEPT ![l] = {c}] /\ cur' = [cur EXCEPT ![l] = c]
            /\ \/ Live(c) /\ pc' = [pc EXCEPT ![l] = "mark"]
               \/ (~Live(c) \/ conn[c].out) /\ pc' = [pc EXCEPT ![l] = "release"]
            /\ UNCHANGED <<owner, connections, conn, todo, told, over, reused, env, fatal>>
  <1>1. Take(l, "close")
    BY DEF CloseTask
  <1>2. /\ Head(queue[l]).c \in Conn /\ conn[Head(queue[l]).c].loop = l
        /\ Created(Head(queue[l]).c) /\ pc[l] = "idle"
    BY <1>1, TaskTaken DEF ConnectionsInv
  <1>3. QED
    BY <1>1, <1>2 DEF CloseTask, listener

\* Queued after a post, and after the first task is taken.
LEMMA QueuedAppend ==
  ASSUME queue \in [Loop -> Seq(Task)], NEW l \in Loop, NEW task \in Task,
         queue' = [queue EXCEPT ![l] = Append(@, task)], NEW c \in Conn
  PROVE  Queued(c)' <=> Queued(c) \/ task = [k |-> "close", c |-> c]
  <1> DEFINE x == [k |-> "close", c |-> c]
             n == Len(queue[l])
  <1>1. /\ queue[l] \in Seq(Task) /\ queue'[l] = Append(queue[l], task)
        /\ \A m \in Loop : m # l => queue'[m] = queue[m]
    OBVIOUS
  <1>2. /\ DOMAIN queue'[l] = 1 .. n + 1 /\ DOMAIN queue[l] = 1 .. n /\ n \in Nat
        /\ queue'[l][n + 1] = task /\ \A i \in 1 .. n : queue'[l][i] = queue[l][i]
    BY <1>1, AppendRight
  <1> HIDE DEF x, n
  <1>3. ASSUME NEW m \in Loop, NEW i \in DOMAIN queue'[m], queue'[m][i] = x
        PROVE  task = x \/ \E k \in Loop : \E j \in DOMAIN queue[k] : queue[k][j] = x
    BY <1>1, <1>2, <1>3
  <1>4. ASSUME NEW m \in Loop, NEW i \in DOMAIN queue[m], queue[m][i] = x
        PROVE  \E k \in Loop : \E j \in DOMAIN queue'[k] : queue'[k][j] = x
    <2>1. i \in DOMAIN queue'[m] /\ queue'[m][i] = x
      BY <1>1, <1>2, <1>4
    <2>2. QED
      BY <2>1
  <1>5. task = x => \E k \in Loop : \E j \in DOMAIN queue'[k] : queue'[k][j] = x
    <2>1. n + 1 \in DOMAIN queue'[l]
      BY <1>2
    <2>2. QED
      BY <1>2, <2>1
  <1>6. QED
    BY <1>3, <1>4, <1>5 DEF Queued, x

LEMMA QueuedTake ==
  ASSUME queue \in [Loop -> Seq(Task)], NEW l \in Loop, NEW k, Take(l, k), NEW c \in Conn, Queued(c)
  PROVE  Queued(c)' \/ (k = "close" /\ Head(queue[l]).c = c)
  <1> DEFINE x == [k |-> "close", c |-> c]
             n == Len(queue[l])
  <1>1. /\ queue[l] \in Seq(Task) /\ queue[l] # <<>> /\ queue'[l] = Tail(queue[l])
        /\ \A m \in Loop : m # l => queue'[m] = queue[m]
        /\ Head(queue[l]).k = k
    BY DEF Take
  <1>2. /\ DOMAIN queue'[l] = 1 .. n - 1 /\ DOMAIN queue[l] = 1 .. n /\ n \in Nat \ {0}
        /\ \A i \in 1 .. n - 1 : queue'[l][i] = queue[l][i + 1]
        /\ Head(queue[l]) = queue[l][1]
    BY <1>1, TailRight
  <1>3. x.k = "close" /\ x.c = c
    OBVIOUS
  <1>4. PICK m \in Loop : \E i \in DOMAIN queue[m] : queue[m][i] = x
    BY DEF Queued
  <1>5. PICK i \in DOMAIN queue[m] : queue[m][i] = x
    BY <1>4
  <1> HIDE DEF x, n
  <1>6. CASE m # l
    BY <1>1, <1>5, <1>6 DEF Queued, x
  <1>7. CASE m = l /\ i = 1
    BY <1>1, <1>2, <1>3, <1>5, <1>7
  <1>8. CASE m = l /\ i # 1
    <2>1. i \in 1 .. n
      BY <1>2, <1>5, <1>8
    <2>2. i - 1 \in 1 .. n - 1 /\ (i - 1) + 1 = i
      BY <1>2, <1>8, <2>1
    <2>3. queue'[l][i - 1] = x /\ i - 1 \in DOMAIN queue'[l]
      BY <1>2, <1>5, <1>8, <2>2
    <2>4. QED
      BY <2>3 DEF Queued, x
  <1>9. QED
    BY <1>6, <1>7, <1>8

-----------------------------------------------------------------------------
\* A quiet shutdown stays quiet: there is nothing to create any more.
LEMMA KeepsCalm ==
  ASSUME ConnectionsInv, Phases, Calm, Next
  PROVE  Calm'
  <1> /\ TypeOK /\ fatal = "" /\ Main # Control /\ Control \notin Loop
      /\ \A t \in Thread : t \notin Loop => t = Main \/ t = Control
    BY ConnectionsAssumption DEF ConnectionsInv, Next, Thread
  <1>1. ASSUME NEW l \in Loop, Create(l) PROVE Calm'
    <2>1. \E c \in Conn : conn[c].st = "posted"
      <3>1. PICK c \in Conn : CreateEffect(l, c)
        BY <1>1, CreateDoes
      <3>2. QED
        BY <3>1, Zenon DEF CreateEffect
    <2>2. env' = env /\ pc'[Control] = pc[Control]
      BY <1>1, Domains DEF Create, listener
    <2>3. QED
      BY <2>1, <2>2 DEF Calm
  <1>2. ASSUME NEW l \in Loop,
               Register(l) \/ RegisterFails(l) \/ CloseTask(l) \/ CloseFd(l) \/ Remove(l)
        PROVE  Calm'
    <2>1. /\ pc'[Main] = pc[Main] /\ pc'[Control] = pc[Control]
          /\ UNCHANGED <<conn, env, fatal>>
      BY <1>2, Domains, Constants
         DEF Register, RegisterFails, CloseTask, CloseFd, Remove, Forget, listener
    <2>2. \A fd \in Fd : connections[fd] = None => connections'[fd] = None
      BY <1>2, Domains DEF Register, RegisterFails, CloseTask, CloseFd, Remove, Forget
    <2>3. QED
      BY <2>1, <2>2 DEF Calm
  <1>3. ASSUME NEW l \in Loop, Mark(l) PROVE Calm'
    <2>0. PICK c \in Conn : MarkEffect(l, c)
      BY <1>3, MarkDoes
    <2> pc' = [pc EXCEPT ![l] = "closefd"] /\ UNCHANGED <<connections, env, fatal>>
      BY <2>0 DEF MarkEffect
    <2>1. pc'[Main] = pc[Main] /\ pc'[Control] = pc[Control]
      BY Domains, Constants
    <2>2. \A d \in Conn : conn'[d].st = "posted" => conn[d].st = "posted"
      BY <2>0 DEF MarkEffect
    <2>3. QED
      BY <2>1, <2>2 DEF Calm
  <1>4. ASSUME NEW l \in Loop, NEW c \in Conn, Event(l, c) PROVE Calm'
    <2> /\ pc' = [pc EXCEPT ![l] = "release"] \/ pc' = [pc EXCEPT ![l] = "mark"]
        /\ UNCHANGED <<connections, env, fatal>>
      BY <1>4, EventDoes
    <2>1. pc'[Main] = pc[Main] /\ pc'[Control] = pc[Control]
      BY Domains, Constants
    <2>2. \A d \in Conn : conn'[d].st = conn[d].st
      BY <1>4, EventDoes
    <2>3. QED
      BY <2>1, <2>2 DEF Calm
  <1>5. ASSUME NEW t \in Thread, Released(t) PROVE Calm'
    BY <1>5, Domains DEF Calm, Released, AfterRelease, listener
  <1>6. ASSUME NEW t \in Thread, NEW c \in Conn, Release(t, c) PROVE Calm'
    <2>1. pc[t] = "release" /\ UNCHANGED <<connections, pc, env>>
      BY <1>6, ReleaseDoes
    <2>2. \A d \in Conn : conn'[d].st = "posted" => conn[d].st = "posted"
      <3>1. conn' = [conn EXCEPT ![c].st = "closed"] \/ conn' = conn
        BY <1>6, ReleaseDoes, Zenon
      <3>2. conn \in [Conn -> Peer]
        BY DEF TypeOK
      <3>3. QED
        BY <3>1, <3>2 DEF Peer
    <2>3. pc[Control] # "done"
      <3>1. CASE t = Control
        BY <2>1, <3>1
      <3>2. CASE t # Control
        <4>1. t \in Loop \cup {Main} /\ t \notin over
          BY <2>1, <3>2 DEF Phases, Thread
        <4>2. QED
          BY <4>1 DEF Phases, Joined
      <3>3. QED
        BY <3>1, <3>2
    <2>4. QED
      BY <2>1, <2>2, <2>3 DEF Calm
  <1>7. ASSUME NEW t \in {Main, Control}, Posted(t) PROVE Calm'
    BY <1>7, Domains DEF Calm, Posted, listener
  <1>8. ASSUME NEW t \in {Main, Control}, NEW c \in Conn, PostClose(t, c) PROVE Calm'
    BY <1>8 DEF Calm, PostClose, listener
  <1>9. ASSUME NEW c \in Conn, Connect(c) PROVE Calm'
    <2>1. UNCHANGED <<pc, connections, env, fatal>>
      BY <1>9, ConnectDoes
    <2>2. \A d \in Conn : conn'[d].st = "posted" => conn[d].st = "posted"
      BY <1>9, ConnectDoes
    <2>3. QED
      BY <2>1, <2>2 DEF Calm
  <1>10. CASE OnReadable
    BY <1>10, Domains DEF Calm, OnReadable, Phases
  <1>11. CASE Accept
    BY <1>11 DEF Calm, Accept
  <1>12. CASE AcceptNoMore \/ AcceptFails
    <2>1. pc[Main] = "accept" /\ UNCHANGED env /\ pc'[Control] = pc[Control]
      BY <1>12, Domains DEF AcceptNoMore, AcceptFails, listener
    <2>2. QED
      BY <2>1 DEF Calm
  <1>13. CASE AcceptVictim \/ AcceptDrops
    <2>1. pc[Main] = "accept" /\ UNCHANGED env /\ pc'[Control] = pc[Control]
      BY <1>13, Constants, AcceptVictimDoes DEF Turned, Thread
    <2>2. QED
      BY <2>1 DEF Calm
  <1>14. CASE CheckTimeouts
    <2>1. /\ pc'[Main] # "accept" /\ pc'[Control] = pc[Control]
          /\ UNCHANGED <<conn, env, fatal>>
      BY <1>14, Domains DEF CheckTimeouts, listener
    <2>2. \A fd \in Fd : connections[fd] = None => connections'[fd] = None
      BY <1>14 DEF CheckTimeouts
    <2>3. QED
      BY <2>1, <2>2 DEF Calm
  <1>15. CASE Shutdown
    BY <1>15, Domains DEF Calm, Shutdown, listener
  <1>16. CASE CloseAll
    BY <1>16, Domains DEF Calm, CloseAll, listener
  <1>17. CASE StopPool \/ Join
    BY <1>17, Domains DEF Calm, StopPool, Join, listener
  <1>18. CASE Reset
    BY <1>18, Domains DEF Calm, Reset, listener
  <1>19. ASSUME NEW t \in Loop \cup {Main}, End(t) PROVE Calm'
    BY <1>19 DEF Calm, End, listener
  <1>20. QED
    BY <1>1, <1>2, <1>3, <1>4, <1>5, <1>6, <1>7, <1>8, <1>9, <1>10, <1>11, <1>12, <1>13,
       <1>14, <1>15, <1>16, <1>17, <1>18, <1>19, StepOf

\* No descriptor is leaked: its owner is still to close it.
LEMMA KeepsOwned ==
  ASSUME ConnectionsInv, Owned, Next
  PROVE  Owned'
  <1> /\ TypeOK /\ owner \in [Fd -> Conn \cup {None}] /\ None \notin Conn
    BY ConnectionsAssumption DEF ConnectionsInv, TypeOK
  <1> DEFINE Closing(c) == \E l \in Loop : pc[l] = "closefd" /\ cur[l] = c
  <1>1. ASSUME UNCHANGED <<owner, conn>>,
               \A l \in Loop : pc[l] = "closefd" => pc'[l] = "closefd" /\ cur'[l] = cur[l]
        PROVE  Owned'
    BY <1>1 DEF Owned
  \* One connection changes its state, but not to closed.
  <1>2. ASSUME UNCHANGED owner, NEW c \in Conn,
               conn[c].st \in {"new", "backlog"} \/ conn'[c].st = "live",
               \A d \in Conn : conn'[d].fd = conn[d].fd /\ (d # c => conn'[d].st = conn[d].st),
               \A l \in Loop : pc[l] = "closefd" => pc'[l] = "closefd" /\ cur'[l] = cur[l]
        PROVE  Owned'
    <2>1. SUFFICES ASSUME NEW fd \in Fd, owner[fd] # None
                   PROVE  /\ conn'[owner[fd]].fd = fd
                          /\ \/ conn'[owner[fd]].st \in {"posted", "live"}
                             \/ Closing(owner[fd])'
      BY <1>2 DEF Owned
    <2>2. owner[fd] \in Conn /\ conn[owner[fd]].fd = fd
          /\ (conn[owner[fd]].st \in {"posted", "live"} \/ Closing(owner[fd]))
      BY <2>1 DEF Owned
    <2>3. Closing(owner[fd]) => Closing(owner[fd])'
      BY <1>2
    <2>4. Closing(owner[fd]) => conn[owner[fd]].st = "closed"
      BY DEF ConnectionsInv, Working
    <2> HIDE DEF Closing
    <2>5. QED
      BY <1>2, <2>2, <2>3, <2>4
  <1>3. ASSUME NEW l \in Loop, Register(l) \/ RegisterFails(l) \/ CloseTask(l) \/ Remove(l)
        PROVE  Owned'
    <2>1. UNCHANGED <<owner, conn>>
      BY <1>3 DEF Register, RegisterFails, CloseTask, Remove
    <2>2. pc[l] # "closefd" /\ \A m \in Loop \ {l} : pc'[m] = pc[m] /\ cur'[m] = cur[m]
      BY <1>3, Domains DEF Register, RegisterFails, CloseTask, Remove, Take
    <2>3. QED
      BY <1>1, <2>1, <2>2
  <1>4. ASSUME NEW l \in Loop, Create(l) PROVE Owned'
    <2>0. PICK c \in Conn : CreateEffect(l, c)
      BY <1>4, CreateDoes
    <2>1. /\ UNCHANGED owner /\ conn'[c].st = "live"
          /\ \A d \in Conn : conn'[d].fd = conn[d].fd /\ (d # c => conn'[d].st = conn[d].st)
          /\ pc[l] = "idle" /\ pc' = [pc EXCEPT ![l] = "register"]
          /\ cur' = [cur EXCEPT ![l] = c]
      BY <2>0 DEF CreateEffect
    <2>2. \A m \in Loop : pc[m] = "closefd" => pc'[m] = "closefd" /\ cur'[m] = cur[m]
      BY <2>1, Domains
    <2>3. QED
      BY <1>2, <2>1, <2>2
  <1>5. ASSUME NEW l \in Loop, NEW c \in Conn, Event(l, c) PROVE Owned'
    <2>1. /\ UNCHANGED owner /\ conn'[c].st = "live"
          /\ \A d \in Conn : conn'[d].fd = conn[d].fd /\ conn'[d].st = conn[d].st
      BY <1>5, EventDoes DEF Live
    <2>2. \A m \in Loop : pc[m] = "closefd" => pc'[m] = "closefd" /\ cur'[m] = cur[m]
      BY <1>5, EventDoes, Domains
    <2>3. QED
      BY <1>2, <2>1, <2>2
  <1>6. ASSUME NEW l \in Loop, Mark(l) PROVE Owned'
    <2>0. PICK c \in Conn : MarkEffect(l, c)
      BY <1>6, MarkDoes
    <2>1. /\ c = cur[l] /\ Live(c) /\ conn[c].loop = l /\ c \in held[l] /\ pc[l] = "mark"
          /\ \A d \in Conn : /\ conn'[d].fd = conn[d].fd /\ conn'[d].loop = conn[d].loop
                             /\ conn'[d].st = IF d = c THEN "closed" ELSE conn[d].st
                             /\ conn'[d].out = IF d = c THEN FALSE ELSE conn[d].out
          /\ pc' = [pc EXCEPT ![l] = "closefd"]
          /\ UNCHANGED <<owner, connections, queue, cur, held, todo, told, over, reused,
                         env, fatal>>
      BY <2>0 DEF MarkEffect
    <2>2. /\ pc'[l] = "closefd" /\ cur'[l] = c /\ owner' = owner
          /\ \A m \in Loop : pc[m] = "closefd" => pc'[m] = "closefd" /\ cur'[m] = cur[m]
          /\ \A d \in Conn : conn'[d].fd = conn[d].fd /\ (d # c => conn'[d].st = conn[d].st)
      BY <2>1, Domains
    <2>3. \A d \in Conn : Closing(d) => Closing(d)'
      BY <2>2
    <2>4. Closing(c)'
      BY <2>2
    <2>5. SUFFICES ASSUME NEW fd \in Fd, owner[fd] # None
                   PROVE  /\ conn'[owner[fd]].fd = fd
                          /\ \/ conn'[owner[fd]].st \in {"posted", "live"}
                             \/ Closing(owner[fd])'
      BY <2>2 DEF Owned
    <2>6. /\ owner[fd] \in Conn /\ conn[owner[fd]].fd = fd
          /\ conn[owner[fd]].st \in {"posted", "live"} \/ Closing(owner[fd])
      BY <2>5 DEF Owned
    <2>7. owner[fd] = c => Closing(owner[fd])'
      BY <2>2
    <2>8. Closing(owner[fd]) => Closing(owner[fd])'
      BY <2>2, <2>6
    <2> HIDE DEF Closing
    <2>9. QED
      BY <2>2, <2>6, <2>7, <2>8
  <1>7. ASSUME NEW l \in Loop, CloseFd(l) PROVE Owned'
    <2> DEFINE c == cur[l]
    <2>1. /\ c \in Conn /\ conn[c].fd \in Fd /\ owner[conn[c].fd] = c
          /\ UNCHANGED <<conn, cur>>
          /\ owner' = [owner EXCEPT ![conn[c].fd] = None]
          /\ pc' = [pc EXCEPT ![l] = "remove"]
      BY <1>7 DEF CloseFd, ConnectionsInv, Working, Owns
    <2>2. \A fd \in Fd : owner'[fd] = IF fd = conn[c].fd THEN None ELSE owner[fd]
      BY <2>1
    <2>3. \A m \in Loop \ {l} : pc'[m] = pc[m] /\ cur'[m] = cur[m]
      BY <2>1, Domains
    <2>4. SUFFICES ASSUME NEW fd \in Fd, owner'[fd] # None
                   PROVE  /\ conn[owner[fd]].fd = fd /\ owner'[fd] = owner[fd]
                          /\ \/ conn[owner[fd]].st \in {"posted", "live"}
                             \/ Closing(owner[fd])'
      BY <2>1 DEF Owned
    <2>5. owner[fd] # c /\ owner'[fd] = owner[fd] /\ owner[fd] # None
      BY <2>1, <2>2, <2>4 DEF Owned
    <2>6. Closing(owner[fd]) => Closing(owner[fd])'
      BY <2>3, <2>5
    <2> HIDE DEF c
    <2>7. QED
      BY <2>5, <2>6 DEF Owned
  <1>8. ASSUME NEW t \in Thread, NEW c \in Conn, Release(t, c) PROVE Owned'
    <2>1. UNCHANGED <<pc, cur>>
      BY <1>8, ReleaseDoes
    <2>2. CASE ~Live(c) \/ Shared(t, c) \/ t # conn[c].loop
      <3>1. owner' = owner /\ conn' = conn
        BY <1>8, <2>2, ReleaseDoes, Zenon
      <3>2. QED
        BY <1>1, <2>1, <3>1
    <2>3. CASE Live(c) /\ ~Shared(t, c) /\ t = conn[c].loop
      <3>01. /\ conn[c].fd \in Fd /\ owner[conn[c].fd] = c
             /\ owner' = [owner EXCEPT ![conn[c].fd] = None]
             /\ conn' = [conn EXCEPT ![c].st = "closed"]
        BY <1>8, <2>3, ReleaseDoes, Zenon
      <3>0. /\ conn[c].fd \in Fd /\ owner[conn[c].fd] = c
            /\ \A fd \in Fd : owner'[fd] = IF fd = conn[c].fd THEN None ELSE owner[fd]
            /\ \A d \in Conn : conn'[d].st = IF d = c THEN "closed" ELSE conn[d].st
        <4>1. conn \in [Conn -> Peer]
          BY DEF TypeOK
        <4>2. \A d \in Conn : conn'[d].st = IF d = c THEN "closed" ELSE conn[d].st
          BY <3>01, <4>1, Becomes
        <4>3. \A fd \in Fd : owner'[fd] = IF fd = conn[c].fd THEN None ELSE owner[fd]
          BY <3>01
        <4>4. QED
          BY <3>01, <4>2, <4>3
      <3>1. \A d \in Conn : conn'[d].fd = conn[d].fd
        BY <1>8, ReleaseDoes
      <3>2. SUFFICES ASSUME NEW fd \in Fd, owner'[fd] # None
                     PROVE  /\ conn'[owner[fd]].fd = fd /\ owner'[fd] = owner[fd]
                            /\ \/ conn'[owner[fd]].st \in {"posted", "live"}
                               \/ Closing(owner[fd])'
        BY <3>0 DEF Owned
      <3>3. owner[fd] # c /\ owner'[fd] = owner[fd] /\ owner[fd] \in Conn
        BY <3>0, <3>2 DEF Owned
      <3>4. Closing(owner[fd]) <=> Closing(owner[fd])'
        BY <2>1, <3>3
      <3> HIDE DEF Closing
      <3>5. conn[owner[fd]].fd = fd
            /\ (conn[owner[fd]].st \in {"posted", "live"} \/ Closing(owner[fd]))
        BY <3>3 DEF Owned, Closing
      <3>6. QED
        BY <3>0, <3>1, <3>3, <3>4, <3>5
    <2>4. QED
      BY <2>2, <2>3
  <1>9. ASSUME NEW t \in Thread, Released(t) PROVE Owned'
    <2>1. \A l \in Loop : pc[l] = "closefd" => pc'[l] = "closefd" /\ cur'[l] = cur[l]
      BY <1>9, Domains DEF Released
    <2>2. QED
      BY <1>1, <1>9, <2>1 DEF Released
  <1>10. ASSUME NEW c \in Conn, Connect(c) PROVE Owned'
    <2>1. /\ UNCHANGED <<owner, pc, cur>> /\ conn[c].st = "new"
          /\ \A d \in Conn : conn'[d].fd = conn[d].fd /\ (d # c => conn'[d].st = conn[d].st)
      BY <1>10, ConnectDoes
    <2>2. QED
      BY <1>2, <2>1
  <1>11. CASE AcceptVictim \/ AcceptDrops
    <2>1. PICK c \in Conn :
            /\ UNCHANGED <<owner, cur>> /\ conn[c].st = "backlog"
            /\ \A d \in Conn : conn'[d].fd = conn[d].fd /\ (d # c => conn'[d].st = conn[d].st)
            /\ Turned
      BY <1>11, AcceptVictimDoes
    <2>2. \A m \in Loop : pc'[m] = pc[m]
      BY <2>1, Constants DEF Turned, Thread
    <2>3. QED
      BY <1>2, <2>1, <2>2
  <1>12. CASE Accept
    <2>0. PICK c \in Conn, new \in Fd, l \in Loop : AcceptEffect(c, new, l)
      BY <1>12, AcceptDoes
    <2>1. /\ conn[c].st = "backlog" /\ owner[new] = None
          /\ \A d \in Conn : /\ conn'[d].st = IF d = c THEN "posted" ELSE conn[d].st
                             /\ conn'[d].fd = IF d = c THEN new ELSE conn[d].fd
          /\ \A f \in Fd : owner'[f] = IF f = new THEN c ELSE owner[f]
          /\ UNCHANGED <<pc, cur>>
      BY <2>0 DEF AcceptEffect
    <2>2. SUFFICES ASSUME NEW fd \in Fd, owner'[fd] # None
                   PROVE  /\ conn'[owner'[fd]].fd = fd
                          /\ \/ conn'[owner'[fd]].st \in {"posted", "live"}
                             \/ Closing(owner[fd])'
      BY DEF Owned
    <2>3. CASE fd = new
      BY <2>1, <2>3
    <2>4. CASE fd # new
      <3>1. owner'[fd] = owner[fd] /\ owner[fd] \in Conn
        BY <2>1, <2>2, <2>4
      <3>2. Closing(owner[fd]) <=> Closing(owner[fd])'
        BY <2>1, <3>1
      <3>3. Closing(owner[fd]) => conn[owner[fd]].st = "closed"
        BY DEF ConnectionsInv, Working
      <3> HIDE DEF Closing
      <3>4. conn[owner[fd]].fd = fd
            /\ (conn[owner[fd]].st \in {"posted", "live"} \/ Closing(owner[fd]))
        BY <2>2, <3>1 DEF Owned, Closing
      <3>5. owner[fd] # c
        BY <2>1, <3>3, <3>4
      <3>6. QED
        BY <2>1, <3>1, <3>2, <3>4, <3>5
    <2>5. QED
      BY <2>3, <2>4
  <1>13. ASSUME \/ OnReadable \/ AcceptNoMore \/ AcceptFails \/ CheckTimeouts
                \/ Shutdown \/ CloseAll \/ StopPool \/ Join \/ Reset
                \/ \E t \in Loop \cup {Main} : End(t)
                \/ \E t \in {Main, Control} : Posted(t) \/ \E c \in Conn : PostClose(t, c)
         PROVE  Owned'
    <2>1. UNCHANGED <<owner, conn, cur>>
      BY <1>13 DEF OnReadable, AcceptNoMore, AcceptFails, CheckTimeouts, Shutdown, CloseAll,
         StopPool, Join,
                   Reset, End, Posted, PostClose
    <2>2. \A l \in Loop : pc'[l] = pc[l]
      BY <1>13, Domains, Constants DEF OnReadable, AcceptNoMore, AcceptFails, CheckTimeouts,
         Shutdown,
         CloseAll, StopPool, Join, Reset, End, Posted, PostClose
    <2>3. QED
      BY <1>1, <2>1, <2>2
  <1>14. QED
    BY <1>3, <1>4, <1>5, <1>6, <1>7, <1>8, <1>9, <1>10, <1>11, <1>12, <1>13, StepOf

-----------------------------------------------------------------------------
\* A descriptor once given stays, so the map stays in order.
LEMMA KeepsMapped ==
  ASSUME ConnectionsInv, Mapped, Next
  PROVE  Mapped'
  <1> /\ TypeOK /\ None \notin Conn /\ connections \in [Fd -> Conn \cup {None}]
      /\ \A fd \in Fd : connections[fd] # None => Created(connections[fd])
    BY Constants DEF ConnectionsInv, Listed, TypeOK
  <1>1. ASSUME \A d \in Conn : Created(d) => conn'[d].fd = conn[d].fd,
               \A fd \in Fd : connections'[fd] \in {connections[fd], None}
        PROVE  Mapped'
    BY <1>1 DEF Mapped
  <1>2. ASSUME NEW l \in Loop, Create(l) PROVE Mapped'
    <2>0. PICK c \in Conn : CreateEffect(l, c)
      BY <1>2, CreateDoes
    <2>1. /\ \A d \in Conn : conn'[d].fd = conn[d].fd
          /\ \A fd \in Fd : connections'[fd] = IF fd = conn[c].fd THEN c ELSE connections[fd]
      BY <2>0 DEF CreateEffect
    <2>2. QED
      BY <2>1 DEF Mapped
  <1>3. ASSUME NEW l \in Loop,
               Register(l) \/ RegisterFails(l) \/ CloseTask(l) \/ CloseFd(l) \/ Remove(l)
        PROVE  Mapped'
    <2>1. conn' = conn
      BY <1>3 DEF Register, RegisterFails, CloseTask, CloseFd, Remove
    <2>2. \A fd \in Fd : connections'[fd] \in {connections[fd], None}
      BY <1>3 DEF Register, RegisterFails, CloseTask, CloseFd, Remove, Forget
    <2>3. QED
      BY <1>1, <2>1, <2>2
  <1>4. ASSUME NEW l \in Loop, Mark(l) PROVE Mapped'
    <2>0. PICK c \in Conn : MarkEffect(l, c)
      BY <1>4, MarkDoes
    <2>1. connections' = connections /\ \A d \in Conn : conn'[d].fd = conn[d].fd
      BY <2>0 DEF MarkEffect
    <2>2. QED
      BY <1>1, <2>1
  <1>5. ASSUME NEW l \in Loop, NEW c \in Conn, Event(l, c) PROVE Mapped'
    <2>1. connections' = connections /\ \A d \in Conn : conn'[d].fd = conn[d].fd
      BY <1>5, EventDoes
    <2>2. QED
      BY <1>1, <2>1
  <1>6. ASSUME NEW t \in Thread, NEW c \in Conn, Release(t, c) PROVE Mapped'
    <2>1. connections' = connections /\ \A d \in Conn : conn'[d].fd = conn[d].fd
      BY <1>6, ReleaseDoes
    <2>2. QED
      BY <1>1, <2>1
  <1>7. ASSUME NEW c \in Conn, Connect(c) PROVE Mapped'
    <2>1. connections' = connections /\ \A d \in Conn : conn'[d].fd = conn[d].fd
      BY <1>7, ConnectDoes
    <2>2. QED
      BY <1>1, <2>1
  <1>8. CASE AcceptVictim \/ AcceptDrops
    <2>1. connections' = connections /\ \A d \in Conn : conn'[d].fd = conn[d].fd
      BY <1>8, AcceptVictimDoes
    <2>2. QED
      BY <1>1, <2>1
  <1>9. CASE Accept
    <2>0. PICK c \in Conn, fd \in Fd, l \in Loop : AcceptEffect(c, fd, l)
      BY <1>9, AcceptDoes
    <2>1. /\ conn[c].st = "backlog" /\ connections' = connections
          /\ \A d \in Conn : conn'[d].fd = IF d = c THEN fd ELSE conn[d].fd
      BY <2>0 DEF AcceptEffect
    <2>2. QED
      BY <1>1, <2>1 DEF Created
  <1>10. ASSUME \/ OnReadable \/ AcceptNoMore \/ AcceptFails \/ CheckTimeouts
                \/ Shutdown \/ CloseAll \/ StopPool \/ Join \/ Reset
                \/ \E t \in Loop \cup {Main} : End(t)
                \/ \E t \in Thread : Released(t)
                \/ \E t \in {Main, Control} : Posted(t) \/ \E c \in Conn : PostClose(t, c)
         PROVE  Mapped'
    <2>1. conn' = conn
      BY <1>10 DEF OnReadable, AcceptNoMore, AcceptFails, CheckTimeouts, Shutdown, CloseAll,
         StopPool, Join,
                   Reset, End, Released, Posted, PostClose
    <2>2. \A fd \in Fd : connections'[fd] \in {connections[fd], None}
      BY <1>10 DEF OnReadable, AcceptNoMore, AcceptFails, CheckTimeouts, Shutdown, CloseAll,
         StopPool, Join,
                   Reset, End, Released, Posted, PostClose
    <2>3. QED
      BY <1>1, <2>1, <2>2
  <1>11. QED
    BY <1>2, <1>3, <1>4, <1>5, <1>6, <1>7, <1>8, <1>9, <1>10, StepOf

\* The steps that leave every reference where it is.
LEMMA RefersAlike ==
  ASSUME \A fd \in Fd : connections'[fd] = connections[fd],
         \A d \in Conn : Queued(d) => Queued(d)',
         \A d \in Conn : \A t \in Thread : d \in held[t] => d \in held'[t],
         NEW c \in Conn, Referred(c)
  PROVE  Referred(c)'
  <1>1. CASE InMap(c)
    BY <1>1 DEF InMap, Referred
  <1>2. CASE Queued(c)
    BY <1>2, Zenon DEF Referred
  <1>3. CASE \E t \in Thread : c \in held[t]
    BY <1>3 DEF Referred
  <1>4. QED
    BY <1>1, <1>2, <1>3 DEF Referred

LEMMA SameQueue ==
  ASSUME UNCHANGED queue, NEW c \in Conn
  PROVE  Queued(c)' <=> Queued(c)
  BY DEF Queued

LEMMA PostQueues ==
  ASSUME ConnectionsInv, NEW t \in {Main, Control}, NEW c \in Conn, PostClose(t, c)
  PROVE  /\ pc[t] = "post" /\ c \in todo[t] /\ todo' = [todo EXCEPT ![t] = @ \ {c}]
         /\ \A d \in Conn : Queued(d) => Queued(d)'
         /\ t = Main \/ Live(c) => Queued(c)'
         /\ UNCHANGED <<owner, connections, callbacks, conn, pc, cur, held, told, over,
                        reused, env, fatal>>
  <1> DEFINE l == conn[c].loop
             task == [k |-> "close", c |-> c]
  <1>1. pc[t] = "post" /\ c \in todo[t] /\ todo' = [todo EXCEPT ![t] = @ \ {c}]
        /\ UNCHANGED <<owner, connections, callbacks, conn, pc, cur, held, told, over,
                       reused, env, fatal>>
    BY DEF PostClose, listener
  <1>2. l \in Loop /\ task \in Task /\ queue \in [Loop -> Seq(Task)]
    BY <1>1, Domains DEF ConnectionsInv, Listed, Created, TypeOK, Task
  <1>3. CASE t = Main \/ Live(c)
    <2>1. queue' = [queue EXCEPT ![l] = Append(@, task)]
      BY <1>3 DEF PostClose
    <2> HIDE DEF l
    <2>2. \A d \in Conn : Queued(d)' <=> Queued(d) \/ task = [k |-> "close", c |-> d]
      BY <1>2, <2>1, QueuedAppend, Zenon
    <2>3. QED
      BY <1>1, <2>2, Zenon DEF task
  <1>4. CASE ~(t = Main \/ Live(c))
    <2>1. UNCHANGED queue
      BY <1>4 DEF PostClose
    <2>2. \A d \in Conn : Queued(d) => Queued(d)'
      BY <2>1, SameQueue, Zenon
    <2>3. QED
      BY <1>1, <1>4, <2>2, Zenon
  <1>5. QED
    BY <1>3, <1>4, Zenon

LEMMA AcceptQueues ==
  ASSUME ConnectionsInv, Accept, NEW d \in Conn
  PROVE  Queued(d)' <=> Queued(d)
  <1>0. PICK c \in Conn, fd \in Fd, l \in Loop : AcceptEffect(c, fd, l)
    BY AcceptDoes
  <1>1. queue' = [queue EXCEPT ![l] = Append(@, [k |-> "create", c |-> c])]
    BY <1>0 DEF AcceptEffect
  <1> DEFINE task == [k |-> "create", c |-> c]
  <1>2. task \in Task /\ task # [k |-> "close", c |-> d] /\ queue \in [Loop -> Seq(Task)]
    BY DEF Task, ConnectionsInv, TypeOK
  <1> HIDE DEF task
  <1>3. queue' = [queue EXCEPT ![l] = Append(@, task)]
    BY <1>1 DEF task
  <1>4. QED
    BY <1>2, <1>3, QueuedAppend, Zenon

\* References move from the map and the queues to a thread, and back.
LEMMA KeepsReferenced ==
  ASSUME ConnectionsInv, Holding, Mapped, Referenced, Next
  PROVE  Referenced'
  <1> /\ TypeOK /\ held \in [Thread -> SUBSET Conn] /\ queue \in [Loop -> Seq(Task)]
      /\ connections \in [Fd -> Conn \cup {None}] /\ None \notin Conn
      /\ Loop \subseteq Thread /\ Main \in Thread /\ Control \in Thread
    BY Constants DEF ConnectionsInv, TypeOK, Thread
  <1>0. \A d \in Conn : conn[d].st = "live" => Referred(d)
    BY DEF Referenced, Next, Live
  <1> DEFINE Held(d) == \E t \in Thread : d \in held[t]
  \* It is enough to follow the references to those that stay open.
  <1>1. ASSUME \A d \in Conn : conn'[d].st = "live" => Referred(d)'
        PROVE  Referenced'
    BY <1>1 DEF Referenced, Live
  <1>2. ASSUME \A d \in Conn : conn'[d].st = "live" => conn[d].st = "live",
               \A fd \in Fd : connections'[fd] = connections[fd],
               \A d \in Conn : Queued(d) => Queued(d)',
               \A d \in Conn : \A t \in Thread : d \in held[t] => d \in held'[t]
        PROVE  Referenced'
    <2>1. ASSUME NEW d \in Conn, conn'[d].st = "live" PROVE Referred(d)'
      BY <1>0, <1>2, <2>1, RefersAlike
    <2>2. QED
      BY <1>1, <2>1
  <1>3. ASSUME NEW l \in Loop, Create(l) PROVE Referenced'
    <2>0. PICK c \in Conn : CreateEffect(l, c)
      BY <1>3, CreateDoes
    <2>1. /\ conn[c].st = "posted" /\ conn[c].fd \in Fd /\ conn[c].loop = l
          /\ owner[conn[c].fd] = c /\ pc[l] = "idle" /\ Take(l, "create")
          /\ \A d \in Conn : /\ conn'[d].fd = conn[d].fd /\ conn'[d].loop = conn[d].loop
                             /\ conn'[d].out = conn[d].out
                             /\ conn'[d].st = IF d = c THEN "live" ELSE conn[d].st
          /\ \A fd \in Fd : connections'[fd] = IF fd = conn[c].fd THEN c ELSE connections[fd]
          /\ held' = [held EXCEPT ![l] = {c}] /\ cur' = [cur EXCEPT ![l] = c]
          /\ pc' = [pc EXCEPT ![l] = "register"]
          /\ UNCHANGED <<owner, todo, told, over, reused, env, fatal>>
      BY <2>0 DEF CreateEffect
    <2>2. held[l] = {}
      BY <2>1 DEF Holding
    <2>3. SUFFICES ASSUME NEW d \in Conn, conn'[d].st = "live" PROVE Referred(d)'
      BY <1>1
    <2>4. CASE d = c
      BY <2>1, <2>4 DEF Referred
    <2>5. CASE d # c
      <3>1. conn[d].st = "live" /\ Referred(d)
        BY <1>0, <2>1, <2>3, <2>5
      <3>2. owner[conn[d].fd] = d
        BY <3>1 DEF ConnectionsInv, Placed, Owns
      <3>3. CASE InMap(d)
        <4>1. PICK fd \in Fd : connections[fd] = d
          BY <3>3 DEF InMap
        <4>2. conn[d].fd = fd
          BY <4>1 DEF Mapped
        <4>3. connections'[fd] = d
          BY <2>1, <2>5, <3>2, <4>1, <4>2
        <4>4. QED
          BY <4>3 DEF Referred, InMap
      <3>4. CASE Queued(d)
        <4>1. Queued(d)'
          BY <2>1, <3>4, QueuedTake
        <4>2. QED
          BY <4>1, Zenon DEF Referred
      <3>5. CASE \E t \in Thread : d \in held[t]
        <4>1. PICK t \in Thread : d \in held[t]
          BY <3>5
        <4>2. d \in held'[t]
          BY <2>1, <2>2, <4>1
        <4>3. QED
          BY <4>2 DEF Referred
      <3>6. QED
        BY <3>1, <3>3, <3>4, <3>5 DEF Referred
    <2>6. QED
      BY <2>4, <2>5
  <1>4. ASSUME NEW l \in Loop, RegisterFails(l) \/ Remove(l) PROVE Referenced'
    <2>1. PICK fd : Forget(l, fd)
      BY <1>4 DEF RegisterFails, Remove
    <2>2. UNCHANGED <<conn, queue>>
      BY <1>4 DEF RegisterFails, Remove
    <2>3. \A u \in Thread : held[u] \subseteq held'[u]
      BY <2>1 DEF Forget
    <2>4. \A other \in Fd : connections'[other] = connections[other] \/ connections[other] \in held'[l]
                            \/ connections[other] = None
      BY <2>1 DEF Forget
    <2>5. SUFFICES ASSUME NEW d \in Conn, conn'[d].st = "live" PROVE Referred(d)'
      BY <1>1
    <2>6. Referred(d)
      BY <1>0, <2>2, <2>5
    <2>7. CASE InMap(d)
      BY <2>4, <2>7 DEF Referred, InMap
    <2>8. CASE Queued(d)
      BY <2>2, <2>8, SameQueue, Zenon DEF Referred
    <2>9. CASE \E t \in Thread : d \in held[t]
      BY <2>3, <2>9 DEF Referred
    <2>10. QED
      BY <2>6, <2>7, <2>8, <2>9 DEF Referred
  <1>5. ASSUME NEW l \in Loop, CloseTask(l) PROVE Referenced'
    <2>1. PICK c \in Conn :
            /\ pc[l] = "idle" /\ Take(l, "close") /\ c = Head(queue[l]).c
            /\ held' = [held EXCEPT ![l] = {c}] /\ UNCHANGED <<connections, conn>>
      BY <1>5, CloseTaskDoes
    <2>2. held[l] = {}
      BY <2>1 DEF Holding
    <2>3. SUFFICES ASSUME NEW d \in Conn, conn'[d].st = "live" PROVE Referred(d)'
      BY <1>1
    <2>4. Referred(d)
      BY <1>0, <2>1, <2>3
    <2>5. CASE InMap(d)
      BY <2>1, <2>5 DEF Referred, InMap
    <2>6. CASE Queued(d)
      <3>1. Queued(d)' \/ d = c
        BY <2>1, <2>6, QueuedTake
      <3>2. d = c => d \in held'[l]
        BY <2>1
      <3>3. QED
        BY <3>1, <3>2, Zenon DEF Referred
    <2>7. CASE \E t \in Thread : d \in held[t]
      BY <2>1, <2>2, <2>7 DEF Referred
    <2>8. QED
      BY <2>4, <2>5, <2>6, <2>7 DEF Referred
  <1>6. ASSUME NEW l \in Loop, NEW c \in Conn, Event(l, c) PROVE Referenced'
    <2>1. /\ pc[l] = "idle" /\ held' = [held EXCEPT ![l] = {c}]
          /\ UNCHANGED <<connections, queue>> /\ \A d \in Conn : conn'[d].st = conn[d].st
      BY <1>6, EventDoes
    <2>2. held[l] = {}
      BY <2>1 DEF Holding
    <2>3. \A d \in Conn : \A t \in Thread : d \in held[t] => d \in held'[t]
      BY <2>1, <2>2
    <2>4. \A d \in Conn : Queued(d) => Queued(d)'
      BY <2>1, SameQueue, Zenon
    <2>5. QED
      BY <1>2, <2>1, <2>3, <2>4
  <1>7. ASSUME NEW l \in Loop, Mark(l) PROVE Referenced'
    <2>0. PICK c \in Conn : MarkEffect(l, c)
      BY <1>7, MarkDoes
    <2>1. /\ c = cur[l] /\ Live(c) /\ conn[c].loop = l /\ c \in held[l] /\ pc[l] = "mark"
          /\ \A d \in Conn : /\ conn'[d].fd = conn[d].fd /\ conn'[d].loop = conn[d].loop
                             /\ conn'[d].st = IF d = c THEN "closed" ELSE conn[d].st
                             /\ conn'[d].out = IF d = c THEN FALSE ELSE conn[d].out
          /\ pc' = [pc EXCEPT ![l] = "closefd"]
          /\ UNCHANGED <<owner, connections, queue, cur, held, todo, told, over, reused,
                         env, fatal>>
      BY <2>0 DEF MarkEffect
    <2>2. \A d \in Conn : Queued(d) => Queued(d)'
      BY <2>1, SameQueue, Zenon
    <2>3. QED
      BY <1>2, <2>1, <2>2
  <1>8. ASSUME NEW t \in Thread, NEW c \in Conn, Release(t, c) PROVE Referenced'
    <2>1. held' = [held EXCEPT ![t] = @ \ {c}] /\ UNCHANGED <<connections, queue>>
      BY <1>8, ReleaseDoes
    <2>2. \A d \in Conn : conn'[d].st = "live" => conn[d].st = "live"
      <3>1. conn' = [conn EXCEPT ![c].st = "closed"] \/ conn' = conn
        BY <1>8, ReleaseDoes, Zenon
      <3>2. conn \in [Conn -> Peer]
        BY DEF TypeOK
      <3>3. QED
        BY <3>1, <3>2 DEF Peer
    <2>3. SUFFICES ASSUME NEW d \in Conn, conn'[d].st = "live", fatal' = "" PROVE Referred(d)'
      BY DEF Referenced, Live
    <2>4. Referred(d)
      BY <1>0, <2>2, <2>3
    <2>5. CASE InMap(d) \/ Queued(d)
      <3>1. InMap(d) => InMap(d)'
        BY <2>1 DEF InMap
      <3>2. QED
        BY <2>1, <2>5, <3>1, SameQueue, Zenon DEF Referred
    <2>6. CASE d # c /\ \E u \in Thread : d \in held[u]
      BY <2>1, <2>6 DEF Referred
    <2>7. CASE d = c /\ ~InMap(c) /\ ~Queued(c)
      <3>1. Live(c)
        BY <2>2, <2>3, <2>7 DEF Live
      <3>2. Shared(t, c)
        <4>1. SUFFICES ASSUME ~Shared(t, c) PROVE FALSE
          OBVIOUS
        <4>2. CASE t = conn[c].loop
          <5>1. conn' = [conn EXCEPT ![c].st = "closed"] /\ conn \in [Conn -> Peer]
            BY <1>8, <3>1, <4>1, <4>2, ReleaseDoes, Zenon DEF TypeOK
          <5>2. conn'[c].st = "closed"
            BY <5>1, Becomes
          <5>3. QED
            BY <2>3, <2>7, <5>2
        <4>3. CASE t # conn[c].loop
          <5>1. fatal' = "wrong thread"
            BY <1>8, <3>1, <4>1, <4>3, ReleaseDoes, Zenon
          <5>2. QED
            BY <2>3, <5>1
        <4>4. QED
          BY <4>2, <4>3
      <3>3. PICK u \in Thread \ {t} : c \in held[u]
        BY <2>7, <3>2 DEF Shared, InMap
      <3>4. c \in held'[u]
        BY <2>1, <3>3
      <3>5. QED
        BY <2>7, <3>4 DEF Referred
    <2>8. QED
      BY <2>4, <2>5, <2>6, <2>7 DEF Referred
  <1>9. ASSUME NEW t \in {Main, Control}, NEW c \in Conn, PostClose(t, c) PROVE Referenced'
    <2>1. /\ UNCHANGED <<connections, conn, held>>
          /\ \A d \in Conn : Queued(d) => Queued(d)'
      BY <1>9, PostQueues
    <2>2. QED
      BY <1>2, <2>1
  <1>10. ASSUME NEW c \in Conn, Connect(c) PROVE Referenced'
    <2>1. /\ UNCHANGED <<connections, queue, held>>
          /\ \A d \in Conn : conn'[d].st = IF d = c THEN "backlog" ELSE conn[d].st
      BY <1>10, ConnectDoes
    <2>2. \A d \in Conn : Queued(d) => Queued(d)'
      BY <2>1, SameQueue, Zenon
    <2>3. QED
      BY <1>2, <2>1, <2>2
  <1>11. CASE Accept
    <2>0. PICK c \in Conn, fd \in Fd, l \in Loop : AcceptEffect(c, fd, l)
      BY <1>11, AcceptDoes
    <2>1. /\ UNCHANGED <<connections, held>>
          /\ \A d \in Conn : conn'[d].st = IF d = c THEN "posted" ELSE conn[d].st
      BY <2>0 DEF AcceptEffect
    <2>2. \A d \in Conn : Queued(d) => Queued(d)'
      BY <1>11, AcceptQueues, Zenon
    <2>3. QED
      BY <1>2, <2>1, <2>2
  <1>12. CASE AcceptVictim \/ AcceptDrops
    <2>1. PICK c \in Conn :
            /\ UNCHANGED <<connections, queue, held>>
            /\ \A d \in Conn : conn'[d].st = IF d = c THEN "closed" ELSE conn[d].st
      BY <1>12, AcceptVictimDoes
    <2>2. \A d \in Conn : Queued(d) => Queued(d)'
      BY <2>1, SameQueue, Zenon
    <2>3. QED
      BY <1>2, <2>1, <2>2
  <1>13. CASE CheckTimeouts
    <2>1. PICK idle \in SUBSET Conn :
            /\ connections' = [fd \in Fd |->
                   IF connections[fd] # None
                      /\ (~Live(connections[fd]) \/ connections[fd] \in idle)
                   THEN None ELSE connections[fd]]
            /\ held' = [held EXCEPT ![Main] = idle]
      BY <1>13 DEF CheckTimeouts, Evicted
    <2>2. pc[Main] = "idle" /\ UNCHANGED <<conn, queue>>
      BY <1>13 DEF CheckTimeouts, MainIdle
    <2>3. held[Main] = {}
      BY <2>2 DEF Holding
    <2>4. \A u \in Thread : held[u] \subseteq held'[u]
      BY <2>1, <2>3
    <2>5. SUFFICES ASSUME NEW d \in Conn, conn'[d].st = "live" PROVE Referred(d)'
      BY <1>1
    <2>6. Referred(d) /\ Live(d)
      BY <1>0, <2>2, <2>5 DEF Live
    <2>7. CASE InMap(d)
      <3>1. PICK fd \in Fd : connections[fd] = d
        BY <2>7 DEF InMap
      <3>2. connections'[fd] = d \/ d \in held'[Main]
        BY <2>1, <2>6, <3>1 DEF Live
      <3>3. QED
        BY <3>2 DEF Referred, InMap
    <2>8. CASE Queued(d)
      BY <2>2, <2>8, SameQueue, Zenon DEF Referred
    <2>9. CASE \E t \in Thread : d \in held[t]
      BY <2>4, <2>9 DEF Referred
    <2>10. QED
      BY <2>6, <2>7, <2>8, <2>9 DEF Referred
  <1>14. CASE CloseAll
    <2>1. /\ pc[Control] = "closeall" /\ UNCHANGED <<conn, queue>>
          /\ held' = [held EXCEPT ![Control] = {connections[fd] : fd \in Fd} \ {None}]
      BY <1>14 DEF CloseAll
    <2>2. held[Control] = {}
      BY <2>1 DEF Holding
    <2>3. \A u \in Thread : held[u] \subseteq held'[u]
      BY <2>1, <2>2
    <2>4. SUFFICES ASSUME NEW d \in Conn, conn'[d].st = "live" PROVE Referred(d)'
      BY <1>1
    <2>5. Referred(d)
      BY <1>0, <2>1, <2>4
    <2>6. CASE InMap(d)
      <3>1. d \in held'[Control]
        BY <2>1, <2>6 DEF InMap
      <3>2. QED
        BY <3>1 DEF Referred
    <2>7. CASE Queued(d)
      BY <2>1, <2>7, SameQueue, Zenon DEF Referred
    <2>8. CASE \E t \in Thread : d \in held[t]
      BY <2>3, <2>8 DEF Referred
    <2>9. QED
      BY <2>5, <2>6, <2>7, <2>8 DEF Referred
  <1>15. CASE Join
    <2>1. /\ pc[Control] = "join" /\ UNCHANGED <<conn, connections>>
          /\ held' = [held EXCEPT ![Control] = {c \in Conn : Queued(c)}]
      BY <1>15 DEF Join
    <2>2. held[Control] = {}
      BY <2>1 DEF Holding
    <2>3. \A u \in Thread : held[u] \subseteq held'[u]
      BY <2>1, <2>2
    <2>4. SUFFICES ASSUME NEW d \in Conn, conn'[d].st = "live" PROVE Referred(d)'
      BY <1>1
    <2>5. Referred(d)
      BY <1>0, <2>1, <2>4
    <2>6. CASE InMap(d)
      BY <2>1, <2>6 DEF Referred, InMap
    <2>7. CASE Queued(d)
      <3>1. d \in held'[Control]
        BY <2>1, <2>7
      <3>2. QED
        BY <3>1 DEF Referred
    <2>8. CASE \E t \in Thread : d \in held[t]
      BY <2>3, <2>8 DEF Referred
    <2>9. QED
      BY <2>5, <2>6, <2>7, <2>8 DEF Referred
  <1>16. CASE Reset
    <2>1. UNCHANGED <<conn, queue, held>>
      BY <1>16 DEF Reset
    <2>2. SUFFICES ASSUME NEW d \in Conn, conn'[d].st = "live", fatal' = "" PROVE Referred(d)'
      BY DEF Referenced, Live
    <2>3. Referred(d)
      BY <1>0, <2>1, <2>2
    <2>4. ~InMap(d)
      <3>1. SUFFICES ASSUME NEW fd \in Fd, connections[fd] = d PROVE FALSE
        BY DEF InMap
      <3>2. fatal' = "dangling loop"
        BY <1>16, <2>1, <2>2, <3>1 DEF Reset, Live
      <3>3. QED
        BY <2>2, <3>2
    <2>5. CASE Queued(d)
      BY <2>1, <2>5, SameQueue, Zenon DEF Referred
    <2>6. CASE \E t \in Thread : d \in held[t]
      BY <2>1, <2>6 DEF Referred
    <2>7. QED
      BY <2>3, <2>4, <2>5, <2>6 DEF Referred
  <1>17. ASSUME \/ \E l \in Loop : Register(l) \/ CloseFd(l)
                \/ OnReadable \/ AcceptNoMore \/ AcceptFails \/ Shutdown \/ StopPool
                \/ \E t \in Loop \cup {Main} : End(t)
                \/ \E t \in Thread : Released(t)
                \/ \E t \in {Main, Control} : Posted(t)
         PROVE  Referenced'
    <2>1. UNCHANGED <<conn, connections, queue, held>>
      BY <1>17 DEF Register, CloseFd, OnReadable, AcceptNoMore, AcceptFails, Shutdown, StopPool,
         End, Released, Posted
    <2>2. \A d \in Conn : Queued(d) => Queued(d)'
      BY <2>1, SameQueue, Zenon
    <2>3. QED
      BY <1>2, <2>1, <2>2
  <1>18. QED
    BY <1>3, <1>4, <1>5, <1>6, <1>7, <1>8, <1>9, <1>10, <1>11, <1>12, <1>13, <1>14, <1>15,
       <1>16, <1>17, StepOf

\* Remove finds its own connection in the map, or nothing.
LEMMA KeepsUnmixed ==
  ASSUME ConnectionsInv, Mapped, Unmixed, Next
  PROVE  Unmixed'
  <1> /\ TypeOK /\ None \notin Conn /\ connections \in [Fd -> Conn \cup {None}]
      /\ held \in [Thread -> SUBSET Conn] /\ conn \in [Conn -> Peer]
      /\ \A l \in Loop : l # Main /\ l # Control
      /\ Loop \subseteq Thread
    BY Constants DEF ConnectionsInv, TypeOK, Thread
  <1> DEFINE Firmly == \A d \in Conn : Created(d) =>
                          /\ conn'[d].st \in {"live", "closed"}
                          /\ conn'[d].fd = conn[d].fd /\ conn'[d].loop = conn[d].loop
             Fewer == \A fd \in Fd : connections'[fd] \in {connections[fd], None}
             Still == \A l \in Loop :
                          /\ pc'[l] = "remove" <=> pc[l] = "remove"
                          /\ pc[l] = "remove" => cur'[l] = cur[l]
  \* Nothing is closed, and what a loop comes to hold is its own.
  <1>1. ASSUME ~reused' => ~reused, UNCHANGED owner, Firmly, Fewer, Still,
               ~reused => \A l \in Loop : \A d \in held'[l] :
                   /\ conn'[d].st \in {"live", "closed"} /\ conn'[d].fd \in Fd
                   /\ conn'[d].loop = l
        PROVE  Unmixed'
    <2> SUFFICES ASSUME ~reused' PROVE Unmixed'
      BY DEF Unmixed
    <2>1. \A l \in Loop : \A d \in held'[l] : Created(d)' /\ conn'[d].loop = l
      BY <1>1 DEF Created
    <2>2. ASSUME NEW fd \in Fd, connections'[fd] # None
          PROVE  \/ owner'[fd] = connections'[fd]
                 \/ \E l \in Loop : pc'[l] = "remove" /\ cur'[l] = connections'[fd]
      BY <1>1, <2>2 DEF Unmixed
    <2>3. \A l \in Loop : pc[l] = "remove" => cur[l] \in Conn /\ Created(cur[l])
      BY DEF ConnectionsInv, Working
    <2>4. ASSUME NEW l \in Loop, pc'[l] = "remove"
          PROVE  conn'[cur'[l]].loop = l /\ owner'[conn'[cur'[l]].fd] = None
      BY <1>1, <2>3, <2>4 DEF Unmixed
    <2>5. ASSUME NEW l \in Loop, NEW m \in Loop, pc'[l] = "remove", pc'[m] = "remove",
                 conn'[cur'[l]].fd = conn'[cur'[m]].fd
          PROVE  l = m
      BY <1>1, <2>3, <2>5 DEF Unmixed
    <2>6. QED
      BY <2>1, <2>2, <2>4, <2>5 DEF Unmixed
  <1>2. ASSUME ~reused' => ~reused, UNCHANGED owner, Firmly, Fewer, Still,
               \A l \in Loop : held'[l] = held[l]
        PROVE  Unmixed'
    <2>1. ~reused => \A l \in Loop : \A d \in held'[l] :
             /\ conn'[d].st \in {"live", "closed"} /\ conn'[d].fd \in Fd
             /\ conn'[d].loop = l
      BY <1>2 DEF Unmixed, Created
    <2>2. QED
      BY <1>1, <1>2, <2>1
  <1>3. ASSUME NEW l \in Loop, Create(l) PROVE Unmixed'
    <2>0. PICK c \in Conn : CreateEffect(l, c)
      BY <1>3, CreateDoes
    <2>1. /\ conn[c].st = "posted" /\ conn[c].fd \in Fd /\ conn[c].loop = l
          /\ owner[conn[c].fd] = c /\ pc[l] = "idle" /\ Take(l, "create")
          /\ \A d \in Conn : /\ conn'[d].fd = conn[d].fd /\ conn'[d].loop = conn[d].loop
                             /\ conn'[d].out = conn[d].out
                             /\ conn'[d].st = IF d = c THEN "live" ELSE conn[d].st
          /\ \A fd \in Fd : connections'[fd] = IF fd = conn[c].fd THEN c ELSE connections[fd]
          /\ held' = [held EXCEPT ![l] = {c}] /\ cur' = [cur EXCEPT ![l] = c]
          /\ pc' = [pc EXCEPT ![l] = "register"]
          /\ UNCHANGED <<owner, todo, told, over, reused, env, fatal>>
      BY <2>0 DEF CreateEffect
    <2>2. SUFFICES ASSUME ~reused PROVE Unmixed'
      BY <2>1 DEF Unmixed
    <2>3. Firmly
      BY <2>1 DEF Created
    <2>4. \A m \in Loop : /\ pc'[m] = "remove" <=> pc[m] = "remove"
                          /\ pc[m] = "remove" => cur'[m] = cur[m]
      BY <2>1, Domains
    <2>5. \A m \in Loop : \A d \in held'[m] : Created(d)' /\ conn'[d].loop = m
      BY <2>1, <2>2, <2>3 DEF Unmixed, Created
    <2>6. ASSUME NEW fd \in Fd, connections'[fd] # None
          PROVE  \/ owner'[fd] = connections'[fd]
                 \/ \E m \in Loop : pc'[m] = "remove" /\ cur'[m] = connections'[fd]
      BY <2>1, <2>2, <2>4, <2>6 DEF Unmixed
    <2>7. \A m \in Loop : pc[m] = "remove" => cur[m] \in Conn
      BY DEF ConnectionsInv, Working
    <2>8. QED
      BY <2>1, <2>2, <2>4, <2>5, <2>6, <2>7 DEF Unmixed
  <1>4. ASSUME NEW l \in Loop, CloseFd(l) PROVE Unmixed'
    <2> SUFFICES ASSUME ~reused PROVE Unmixed'
      BY <1>4 DEF Unmixed, CloseFd, listener
    <2>0. PICK c \in Conn : c = cur[l] /\ conn[c].loop = l /\ conn[c].fd \in Fd /\ owner[conn[c].fd] = c
      BY <1>4 DEF CloseFd, ConnectionsInv, Working, Owns
    <2>1. /\ pc[l] = "closefd" /\ owner' = [owner EXCEPT ![conn[c].fd] = None]
          /\ pc' = [pc EXCEPT ![l] = "remove"]
          /\ UNCHANGED <<connections, conn, cur, held, reused>>
      BY <1>4, <2>0 DEF CloseFd, listener
    <2>2. \A fd \in Fd : owner'[fd] = IF fd = conn[c].fd THEN None ELSE owner[fd]
      BY <2>1 DEF TypeOK
    <2>3. \A m \in Loop : pc'[m] = "remove" <=> m = l \/ pc[m] = "remove"
      BY <2>1, Domains
    <2>4. \A m \in Loop : pc[m] = "remove" => cur[m] \in Conn /\ conn[cur[m]].fd \in Fd
      BY DEF ConnectionsInv, Working, Created
    <2>5. \A m \in Loop : \A d \in held'[m] : Created(d)' /\ conn'[d].loop = m
      BY <2>1 DEF Unmixed, Created
    <2>6. ASSUME NEW fd \in Fd, connections'[fd] # None
          PROVE  \/ owner'[fd] = connections'[fd]
                 \/ \E m \in Loop : pc'[m] = "remove" /\ cur'[m] = connections'[fd]
      BY <2>0, <2>1, <2>2, <2>3, <2>6 DEF Unmixed
    <2>7. ASSUME NEW m \in Loop, pc'[m] = "remove"
          PROVE  conn'[cur'[m]].loop = m /\ owner'[conn'[cur'[m]].fd] = None
      BY <2>0, <2>1, <2>2, <2>3, <2>4, <2>7 DEF Unmixed
    <2>8. ASSUME NEW m \in Loop, pc[m] = "remove" PROVE conn[cur[m]].fd # conn[c].fd
      BY <2>0, <2>8, <2>4 DEF Unmixed
    <2>9. ASSUME NEW m \in Loop, NEW n \in Loop, pc'[m] = "remove", pc'[n] = "remove",
                 conn'[cur'[m]].fd = conn'[cur'[n]].fd
          PROVE  m = n
      BY <2>0, <2>1, <2>3, <2>8, <2>9 DEF Unmixed
    <2>10. QED
      BY <2>5, <2>6, <2>7, <2>9 DEF Unmixed
  <1>5. ASSUME NEW l \in Loop, Remove(l) PROVE Unmixed'
    <2> SUFFICES ASSUME ~reused PROVE Unmixed'
      BY <1>5 DEF Unmixed, Remove, listener
    <2>0. PICK c \in Conn : c = cur[l] /\ Created(c) /\ conn[c].loop = l /\ owner[conn[c].fd] = None
      BY <1>5 DEF Remove, ConnectionsInv, Working, Unmixed
    <2>1. PICK fd \in Fd : fd = conn[c].fd
      BY <2>0 DEF Created
    <2>2. /\ pc[l] = "remove" /\ pc' = [pc EXCEPT ![l] = "release"]
          /\ connections' = [connections EXCEPT ![fd] = None]
          /\ held' = [held EXCEPT ![l] = @ \cup ({connections[fd]} \ {None})]
          /\ UNCHANGED <<owner, conn, cur, reused>>
      BY <1>5, <2>0, <2>1 DEF Remove, Forget, listener
    <2>3. connections[fd] # None => connections[fd] = c
      <3>1. SUFFICES ASSUME connections[fd] # None PROVE connections[fd] = c
        OBVIOUS
      <3>2. PICK m \in Loop : pc[m] = "remove" /\ cur[m] = connections[fd]
        BY <2>0, <2>1, <3>1 DEF Unmixed
      <3>3. conn[cur[m]].fd = fd
        BY <3>1, <3>2 DEF Mapped
      <3>4. m = l
        BY <2>0, <2>1, <2>2, <3>2, <3>3 DEF Unmixed
      <3>5. QED
        BY <2>0, <3>2, <3>4
    <2>4. \A m \in Loop : pc'[m] = "remove" <=> m # l /\ pc[m] = "remove"
      BY <2>2, Domains
    <2>5. \A m \in Loop : \A d \in held'[m] : Created(d)' /\ conn'[d].loop = m
      <3>1. \A m \in Loop : \A d \in held'[m] : d \in held[m] \/ (m = l /\ d = c)
        BY <2>2, <2>3
      <3>2. QED
        BY <2>0, <2>2, <3>1 DEF Unmixed, Created
    <2>6. ASSUME NEW f \in Fd, connections'[f] # None
          PROVE  \/ owner'[f] = connections'[f]
                 \/ \E m \in Loop : pc'[m] = "remove" /\ cur'[m] = connections'[f]
      <3>1. f # fd /\ connections'[f] = connections[f] /\ connections[f] # None
        BY <2>2, <2>6
      <3>2. CASE owner[f] = connections[f]
        BY <2>2, <3>1, <3>2
      <3>3. CASE \E m \in Loop : pc[m] = "remove" /\ cur[m] = connections[f]
        <4>1. PICK m \in Loop : pc[m] = "remove" /\ cur[m] = connections[f]
          BY <3>3
        <4>2. conn[connections[f]].fd = f
          BY <3>1 DEF Mapped
        <4>3. m # l
          BY <2>0, <2>1, <3>1, <4>1, <4>2
        <4>4. QED
          BY <2>2, <2>4, <3>1, <4>1, <4>3
      <3>4. QED
        BY <3>1, <3>2, <3>3 DEF Unmixed
    <2>7. QED
      BY <2>2, <2>4, <2>5, <2>6 DEF Unmixed
  <1>6. ASSUME NEW l \in Loop, RegisterFails(l) PROVE Unmixed'
    <2>0. PICK c \in Conn : /\ c = cur[l] /\ conn[c].st = "live" /\ conn[c].loop = l
                            /\ conn[c].fd \in Fd /\ owner[conn[c].fd] = c
      BY <1>6 DEF RegisterFails, ConnectionsInv, Working, Placed, Owns, Live
    <2>1. PICK fd \in Fd : fd = conn[c].fd
      BY <2>0
    <2>2. /\ pc[l] = "register" /\ pc' = [pc EXCEPT ![l] = "mark"]
          /\ connections' = [connections EXCEPT ![fd] = None]
          /\ held' = [held EXCEPT ![l] = @ \cup ({connections[fd]} \ {None})]
          /\ UNCHANGED <<owner, conn, cur, reused>>
      BY <1>6, <2>0, <2>1 DEF RegisterFails, Forget, listener
    <2>3. ~reused /\ connections[fd] # None => connections[fd] = c
      <3>1. SUFFICES ASSUME ~reused, connections[fd] # None, connections[fd] # c PROVE FALSE
        OBVIOUS
      <3>2. PICK m \in Loop : pc[m] = "remove" /\ cur[m] = connections[fd]
        BY <2>0, <2>1, <3>1 DEF Unmixed
      <3>3. conn[cur[m]].fd = fd
        BY <3>1, <3>2 DEF Mapped
      <3>4. owner[fd] = None
        BY <3>1, <3>2, <3>3 DEF Unmixed
      <3>5. QED
        BY <2>0, <2>1, <3>4
    <2>4. Still
      BY <2>2, Domains
    <2>5. Fewer /\ Firmly
      BY <2>2 DEF Created
    <2>6. ~reused => \A m \in Loop : \A d \in held'[m] :
             /\ conn'[d].st \in {"live", "closed"} /\ conn'[d].fd \in Fd
             /\ conn'[d].loop = m
      <3>1. ~reused => \A m \in Loop : \A d \in held'[m] : d \in held[m] \/ (m = l /\ d = c)
        BY <2>2, <2>3
      <3>2. QED
        BY <2>0, <2>2, <3>1 DEF Unmixed, Created
    <2> HIDE DEF Still, Fewer, Firmly
    <2>7. QED
      BY <1>1, <2>2, <2>4, <2>5, <2>6
  <1>7. ASSUME NEW l \in Loop, NEW c \in Conn, pc[l] = "idle", Created(c), conn[c].loop = l,
               held' = [held EXCEPT ![l] = {c}], cur' = [cur EXCEPT ![l] = c],
               NEW s \in {"mark", "release"}, pc' = [pc EXCEPT ![l] = s],
               \A d \in Conn : /\ conn'[d].fd = conn[d].fd /\ conn'[d].loop = conn[d].loop
                               /\ conn'[d].st = conn[d].st,
               UNCHANGED <<owner, connections, reused>>
        PROVE  Unmixed'
    <2>1. Still
      BY <1>7, Domains
    <2>2. Fewer /\ Firmly
      BY <1>7 DEF Created
    <2>3. ~reused => \A m \in Loop : \A d \in held'[m] :
             /\ conn'[d].st \in {"live", "closed"} /\ conn'[d].fd \in Fd
             /\ conn'[d].loop = m
      <3>1. \A m \in Loop : \A d \in held'[m] : d \in held[m] \/ (m = l /\ d = c)
        BY <1>7
      <3>2. QED
        BY <1>7, <3>1 DEF Unmixed, Created
    <2> HIDE DEF Still, Fewer, Firmly
    <2>4. QED
      BY <1>1, <1>7, <2>1, <2>2, <2>3
  <1>8. ASSUME NEW l \in Loop, CloseTask(l) PROVE Unmixed'
    <2>1. PICK c \in Conn :
            /\ Created(c) /\ conn[c].loop = l /\ pc[l] = "idle"
            /\ held' = [held EXCEPT ![l] = {c}] /\ cur' = [cur EXCEPT ![l] = c]
            /\ pc' = [pc EXCEPT ![l] = "mark"] \/ pc' = [pc EXCEPT ![l] = "release"]
            /\ UNCHANGED <<owner, connections, conn, reused>>
      BY <1>8, CloseTaskDoes
    <2>2. QED
      BY <1>7, <2>1
  <1>9. ASSUME NEW l \in Loop, NEW c \in Conn, Event(l, c) PROVE Unmixed'
    <2>1. /\ pc[l] = "idle" /\ Live(c) /\ conn[c].loop = l
          /\ held' = [held EXCEPT ![l] = {c}] /\ cur' = [cur EXCEPT ![l] = c]
          /\ pc' = [pc EXCEPT ![l] = "release"] \/ pc' = [pc EXCEPT ![l] = "mark"]
          /\ \A d \in Conn : /\ conn'[d].fd = conn[d].fd /\ conn'[d].loop = conn[d].loop
                             /\ conn'[d].st = conn[d].st
          /\ UNCHANGED <<owner, connections, reused>>
      BY <1>9, EventDoes
    <2>2. Created(c)
      BY <2>1 DEF Created, ConnectionsInv, Placed, Owns, Live
    <2>3. QED
      BY <1>7, <2>1, <2>2
  <1>10. ASSUME NEW l \in Loop, Mark(l) PROVE Unmixed'
    <2>0. PICK c \in Conn : MarkEffect(l, c)
      BY <1>10, MarkDoes
    <2>1. /\ c = cur[l] /\ Live(c) /\ conn[c].loop = l /\ c \in held[l] /\ pc[l] = "mark"
          /\ \A d \in Conn : /\ conn'[d].fd = conn[d].fd /\ conn'[d].loop = conn[d].loop
                             /\ conn'[d].st = IF d = c THEN "closed" ELSE conn[d].st
                             /\ conn'[d].out = IF d = c THEN FALSE ELSE conn[d].out
          /\ pc' = [pc EXCEPT ![l] = "closefd"]
          /\ UNCHANGED <<owner, connections, queue, cur, held, todo, told, over, reused,
                         env, fatal>>
      BY <2>0 DEF MarkEffect
    <2>2. Still
      BY <2>1, Domains
    <2>3. Fewer /\ Firmly
      BY <2>1 DEF Created
    <2>4. UNCHANGED <<owner, held, reused>>
      BY <2>1
    <2> HIDE DEF Still, Fewer, Firmly
    <2>5. QED
      BY <1>2, <2>2, <2>3, <2>4
  <1>11. ASSUME NEW t \in Thread, NEW c \in Conn, Release(t, c) PROVE Unmixed'
    <2> SUFFICES ASSUME ~reused PROVE Unmixed'
      BY <1>11, ReleaseDoes DEF Unmixed
    <2>1. /\ held' = [held EXCEPT ![t] = @ \ {c}]
          /\ UNCHANGED <<connections, pc, cur, reused>>
          /\ \A d \in Conn : conn'[d].fd = conn[d].fd /\ conn'[d].loop = conn[d].loop
      BY <1>11, ReleaseDoes
    <2>2. CASE ~Live(c) \/ Shared(t, c) \/ t # conn[c].loop
      <3>1. owner' = owner /\ conn' = conn
        BY <1>11, <2>2, ReleaseDoes, Zenon
      <3>2. Still /\ Fewer /\ Firmly
        BY <2>1, <3>1 DEF Created
      <3>3. ~reused => \A m \in Loop : \A d \in held'[m] :
               /\ conn'[d].st \in {"live", "closed"} /\ conn'[d].fd \in Fd
               /\ conn'[d].loop = m
        BY <2>1, <3>1 DEF Unmixed, Created
      <3> HIDE DEF Still, Fewer, Firmly
      <3>4. QED
        BY <1>1, <2>1, <3>1, <3>2, <3>3
    <2>3. CASE Live(c) /\ ~Shared(t, c) /\ t = conn[c].loop
      <3>1. /\ conn[c].fd \in Fd /\ owner[conn[c].fd] = c
            /\ owner' = [owner EXCEPT ![conn[c].fd] = None]
            /\ conn' = [conn EXCEPT ![c].st = "closed"]
        BY <1>11, <2>3, ReleaseDoes, Zenon
      <3>2. \A d \in Conn : conn'[d].st = IF d = c THEN "closed" ELSE conn[d].st
        BY <3>1, Becomes
      <3>3. \A fd \in Fd : owner'[fd] = IF fd = conn[c].fd THEN None ELSE owner[fd]
        BY <3>1 DEF TypeOK
      <3>4. \A fd \in Fd : connections[fd] # c
        BY <2>3 DEF Shared
      <3>5. \A m \in Loop : \A d \in held'[m] : Created(d)' /\ conn'[d].loop = m
        BY <2>1, <3>2 DEF Unmixed, Created
      <3>6. ASSUME NEW fd \in Fd, connections'[fd] # None
            PROVE  \/ owner'[fd] = connections'[fd]
                   \/ \E m \in Loop : pc'[m] = "remove" /\ cur'[m] = connections'[fd]
        BY <2>1, <3>1, <3>3, <3>4, <3>6 DEF Unmixed
      <3>7. \A m \in Loop : pc[m] = "remove" => cur[m] \in Conn /\ conn[cur[m]].fd \in Fd
        BY DEF ConnectionsInv, Working, Created
      <3>8. ASSUME NEW m \in Loop, pc'[m] = "remove"
            PROVE  conn'[cur'[m]].loop = m /\ owner'[conn'[cur'[m]].fd] = None
        BY <2>1, <3>3, <3>7, <3>8 DEF Unmixed
      <3>9. ASSUME NEW m \in Loop, NEW n \in Loop, pc'[m] = "remove", pc'[n] = "remove",
                   conn'[cur'[m]].fd = conn'[cur'[n]].fd
            PROVE  m = n
        BY <2>1, <3>7, <3>9 DEF Unmixed
      <3>10. QED
        BY <3>5, <3>6, <3>8, <3>9 DEF Unmixed
    <2>4. QED
      BY <2>2, <2>3
  <1>12. CASE Accept
    <2>0. PICK c \in Conn, fd \in Fd, l \in Loop : AcceptEffect(c, fd, l)
      BY <1>12, AcceptDoes
    <2>1. /\ pc[Main] = "accept" /\ conn[c].st = "backlog" /\ owner[fd] = None
          /\ reused' = (reused \/ Unreported(fd))
          /\ \A d \in Conn :
                /\ conn'[d].out = conn[d].out
                /\ conn'[d].st = IF d = c THEN "posted" ELSE conn[d].st
                /\ conn'[d].fd = IF d = c THEN fd ELSE conn[d].fd
                /\ conn'[d].loop = IF d = c THEN l ELSE conn[d].loop
          /\ \A f \in Fd : owner'[f] = IF f = fd THEN c ELSE owner[f]
          /\ queue' = [queue EXCEPT ![l] = Append(@, [k |-> "create", c |-> c])]
          /\ UNCHANGED <<connections, callbacks, pc, cur, held, todo, told, over, env, fatal>>
      BY <2>0 DEF AcceptEffect
    <2>2. SUFFICES ASSUME ~reused, \A m \in Loop : pc[m] = "remove" => conn[cur[m]].fd # fd
                   PROVE  Unmixed'
      BY <2>1 DEF Unmixed, Unreported
    <2>3. Firmly
      BY <2>1 DEF Created
    <2>4. \A m \in Loop : pc[m] = "remove" => cur[m] \in Conn /\ Created(cur[m])
      BY DEF ConnectionsInv, Working
    <2>5. \A m \in Loop : \A d \in held'[m] : Created(d)' /\ conn'[d].loop = m
      BY <2>1, <2>2, <2>3 DEF Unmixed, Created
    <2>6. ASSUME NEW f \in Fd, connections'[f] # None
          PROVE  \/ owner'[f] = connections'[f]
                 \/ \E m \in Loop : pc'[m] = "remove" /\ cur'[m] = connections'[f]
      <3>1. connections[f] # None /\ connections[f] # owner[fd] /\ conn[connections[f]].fd = f
        BY <2>1, <2>6 DEF Mapped
      <3>2. CASE f = fd
        BY <2>1, <2>2, <3>1, <3>2 DEF Unmixed
      <3>3. CASE f # fd
        BY <2>1, <2>2, <3>1, <3>3 DEF Unmixed
      <3>4. QED
        BY <3>2, <3>3
    <2>7. ASSUME NEW m \in Loop, pc'[m] = "remove"
          PROVE  conn'[cur'[m]].loop = m /\ owner'[conn'[cur'[m]].fd] = None
      BY <2>1, <2>2, <2>3, <2>4, <2>7 DEF Unmixed, Created
    <2>8. ASSUME NEW m \in Loop, NEW n \in Loop, pc'[m] = "remove", pc'[n] = "remove",
                 conn'[cur'[m]].fd = conn'[cur'[n]].fd
          PROVE  m = n
      BY <2>1, <2>2, <2>3, <2>4, <2>8 DEF Unmixed
    <2>9. QED
      BY <2>5, <2>6, <2>7, <2>8 DEF Unmixed
  <1>13. CASE AcceptVictim \/ AcceptDrops
    <2>1. PICK c \in Conn :
            /\ conn[c].st = "backlog"
            /\ \A d \in Conn : /\ conn'[d].fd = conn[d].fd /\ conn'[d].loop = conn[d].loop
                               /\ conn'[d].out = conn[d].out
                               /\ conn'[d].st = IF d = c THEN "closed" ELSE conn[d].st
            /\ pc[Main] = "accept" /\ Turned
            /\ UNCHANGED <<owner, connections, callbacks, queue, cur, held, todo, told, over,
                           reused, env, fatal>>
      BY <1>13, AcceptVictimDoes
    <2>2. Still /\ Fewer /\ Firmly
      BY <2>1, Constants DEF Created, Turned, Thread
    <2>3. UNCHANGED <<owner, held, reused>>
      BY <2>1
    <2> HIDE DEF Still, Fewer, Firmly
    <2>4. QED
      BY <1>2, <2>2, <2>3
  <1>14. ASSUME NEW c \in Conn, Connect(c) PROVE Unmixed'
    <2>1. /\ conn[c].st = "new"
          /\ \A d \in Conn : /\ conn'[d].fd = conn[d].fd /\ conn'[d].loop = conn[d].loop
                             /\ conn'[d].out = conn[d].out
                             /\ conn'[d].st = IF d = c THEN "backlog" ELSE conn[d].st
          /\ UNCHANGED <<owner, connections, pc, cur, held, reused>>
      BY <1>14, ConnectDoes
    <2>2. Still /\ Fewer /\ Firmly
      BY <2>1 DEF Created
    <2> HIDE DEF Still, Fewer, Firmly
    <2>3. QED
      BY <1>2, <2>1, <2>2
  <1>15. ASSUME \/ \E l \in Loop : Register(l)
                \/ OnReadable \/ AcceptNoMore \/ AcceptFails \/ CheckTimeouts
                \/ Shutdown \/ CloseAll \/ StopPool \/ Join \/ Reset
                \/ \E t \in Loop \cup {Main} : End(t)
                \/ \E t \in Thread : Released(t)
                \/ \E t \in {Main, Control} : Posted(t) \/ \E c \in Conn : PostClose(t, c)
         PROVE  Unmixed'
    <2>1. UNCHANGED <<conn, owner, cur, reused>>
      BY <1>15 DEF Register, OnReadable, AcceptNoMore, AcceptFails, CheckTimeouts, Shutdown,
         CloseAll, StopPool,
         Join, Reset, End, Released, Posted, PostClose, listener
    <2>2. \A fd \in Fd : connections'[fd] \in {connections[fd], None}
      BY <1>15 DEF Register, OnReadable, AcceptNoMore, AcceptFails, CheckTimeouts, Shutdown,
         CloseAll, StopPool,
         Join, Reset, End, Released, Posted, PostClose
    <2>3. \A l \in Loop : held'[l] = held[l]
      BY <1>15, Domains DEF Register, OnReadable, AcceptNoMore, AcceptFails, CheckTimeouts,
         Shutdown, CloseAll,
         StopPool, Join, Reset, End, Released, Posted, PostClose
    <2>4. \A l \in Loop : pc'[l] = "remove" <=> pc[l] = "remove"
      BY <1>15, Domains DEF Register, OnReadable, AcceptNoMore, AcceptFails, CheckTimeouts,
         Shutdown, CloseAll,
         StopPool, Join, Reset, End, Released, AfterRelease, Posted, PostClose
    <2>5. Still /\ Fewer /\ Firmly
      BY <2>1, <2>2, <2>4 DEF Created
    <2> HIDE DEF Still, Fewer, Firmly
    <2>6. QED
      BY <1>2, <2>1, <2>3, <2>5
  <1>16. QED
    BY <1>3, <1>4, <1>5, <1>6, <1>8, <1>9, <1>10, <1>11, <1>12, <1>13, <1>14, <1>15, StepOf

LEMMA Surroundings ==
  ASSUME Next
  PROVE  env' = env /\ (~reused' => ~reused)
  <1>1. CASE \E l \in Loop : LoopStep(l) \/ \E c \in Conn : Event(l, c)
    <2>1. UNCHANGED <<env, reused>>
      BY <1>1 DEF LoopStep, Create, Register, RegisterFails, CloseTask, Mark, CloseFd, Remove,
                  Released, Release, Event, listener
    <2>2. QED
      BY <2>1
  <1>2. CASE \/ OnReadable \/ AcceptNoMore \/ AcceptFails \/ AcceptVictim \/ AcceptDrops
             \/ \E c \in Conn : Connect(c)
    <2>1. UNCHANGED <<env, reused>>
      BY <1>2 DEF OnReadable, AcceptNoMore, AcceptFails, AcceptVictim, AcceptDrops, TurnAway,
         Connect, listener
    <2>2. QED
      BY <2>1
  <1>3. CASE Accept
    <2>1. env' = env /\ \E fd \in Free : reused' = (reused \/ Unreported(fd))
      BY <1>3 DEF Accept
    <2>2. QED
      BY <2>1
  <1>4. CASE CheckTimeouts \/ Post(Main) \/ Post(Control)
    <2>1. UNCHANGED <<env, reused>>
      BY <1>4 DEF CheckTimeouts, Post, Posted, Released, PostClose, Release, listener
    <2>2. QED
      BY <2>1
  <1>5. CASE Shutdown \/ CloseAll \/ StopPool \/ Join \/ Reset \/ \E t \in Loop \cup {Main} : End(t)
    <2>1. UNCHANGED <<env, reused>>
      BY <1>5 DEF Shutdown, CloseAll, StopPool, Join, Reset, End, listener
    <2>2. QED
      BY <2>1
  <1>6. QED
    BY <1>1, <1>2, <1>3, <1>4, <1>5 DEF Next, ListenerStep, ShutdownStep

LEMMA KeepsExcluded ==
  ASSUME ConnectionsInv, Phases, Excluded, Next
  PROVE  Excluded'
  <1> /\ TypeOK /\ Main # Control /\ \A l \in Loop : l # Main /\ l # Control
      /\ held \in [Thread -> SUBSET Conn] /\ conn \in [Conn -> Peer] /\ env' = env
      /\ Main \in Thread /\ Control \in Thread
    BY Surroundings, Constants DEF ConnectionsInv, TypeOK, Thread
  <1> DEFINE Firmly == \A d \in Conn :
                          /\ Created(d) => /\ conn'[d].st \in {"live", "closed"}
                                           /\ conn'[d].fd = conn[d].fd /\ conn'[d].loop = conn[d].loop
                          /\ ~conn[d].out /\ ~env.slow => ~conn'[d].out
  <1>1. ASSUME Firmly, \A t \in {Main, Control} : held'[t] \subseteq held[t]
        PROVE  Excluded'
    BY <1>1 DEF Excluded, Created
  \* One of the two takes connections that were created.
  <1>2. ASSUME conn' = conn, NEW t \in {Main, Control}, NEW new \in SUBSET Conn,
               held' = [held EXCEPT ![t] = new], \A c \in new : Created(c),
               t = Main => env.idles, t = Control => env.stops
        PROVE  Excluded'
    BY <1>2 DEF Excluded, Created
  <1>3. ASSUME NEW l \in Loop, Create(l) PROVE Excluded'
    <2>0. PICK c \in Conn : CreateEffect(l, c)
      BY <1>3, CreateDoes
    <2>1. /\ conn[c].st = "posted" /\ conn[c].fd \in Fd /\ conn[c].loop = l
          /\ owner[conn[c].fd] = c /\ pc[l] = "idle" /\ Take(l, "create")
          /\ \A d \in Conn : /\ conn'[d].fd = conn[d].fd /\ conn'[d].loop = conn[d].loop
                             /\ conn'[d].out = conn[d].out
                             /\ conn'[d].st = IF d = c THEN "live" ELSE conn[d].st
          /\ \A fd \in Fd : connections'[fd] = IF fd = conn[c].fd THEN c ELSE connections[fd]
          /\ held' = [held EXCEPT ![l] = {c}] /\ cur' = [cur EXCEPT ![l] = c]
          /\ pc' = [pc EXCEPT ![l] = "register"]
          /\ UNCHANGED <<owner, todo, told, over, reused, env, fatal>>
      BY <2>0 DEF CreateEffect
    <2>2. Firmly
      BY <2>1 DEF Created
    <2>3. \A t \in {Main, Control} : held'[t] \subseteq held[t]
      BY <2>1
    <2> HIDE DEF Firmly
    <2>4. QED
      BY <1>1, <2>2, <2>3
  <1>4. ASSUME NEW l \in Loop,
               Register(l) \/ RegisterFails(l) \/ CloseTask(l) \/ CloseFd(l) \/ Remove(l)
        PROVE  Excluded'
    <2>1. conn' = conn
      BY <1>4 DEF Register, RegisterFails, CloseTask, CloseFd, Remove
    <2>2. \A t \in {Main, Control} : held'[t] \subseteq held[t]
      BY <1>4 DEF Register, RegisterFails, CloseTask, CloseFd, Remove, Forget
    <2>3. Firmly
      BY <2>1 DEF Created
    <2> HIDE DEF Firmly
    <2>4. QED
      BY <1>1, <2>2, <2>3
  <1>5. ASSUME NEW l \in Loop, NEW c \in Conn, Event(l, c) PROVE Excluded'
    <2>1. /\ held' = [held EXCEPT ![l] = {c}]
          /\ \A d \in Conn : /\ conn'[d].fd = conn[d].fd /\ conn'[d].loop = conn[d].loop
                             /\ conn'[d].st = conn[d].st
                             /\ ~conn[d].out /\ ~env.slow => ~conn'[d].out
      BY <1>5, EventDoes
    <2>2. Firmly
      BY <2>1 DEF Created
    <2>3. \A t \in {Main, Control} : held'[t] \subseteq held[t]
      BY <2>1
    <2> HIDE DEF Firmly
    <2>4. QED
      BY <1>1, <2>2, <2>3
  <1>6. ASSUME NEW l \in Loop, Mark(l) PROVE Excluded'
    <2>0. PICK c \in Conn : MarkEffect(l, c)
      BY <1>6, MarkDoes
    <2>1. /\ c = cur[l] /\ Live(c) /\ conn[c].loop = l /\ c \in held[l] /\ pc[l] = "mark"
          /\ \A d \in Conn : /\ conn'[d].fd = conn[d].fd /\ conn'[d].loop = conn[d].loop
                             /\ conn'[d].st = IF d = c THEN "closed" ELSE conn[d].st
                             /\ conn'[d].out = IF d = c THEN FALSE ELSE conn[d].out
          /\ pc' = [pc EXCEPT ![l] = "closefd"]
          /\ UNCHANGED <<owner, connections, queue, cur, held, todo, told, over, reused,
                         env, fatal>>
      BY <2>0 DEF MarkEffect
    <2>2. Firmly
      BY <2>1 DEF Created
    <2>3. \A t \in {Main, Control} : held'[t] \subseteq held[t]
      BY <2>1
    <2> HIDE DEF Firmly
    <2>4. QED
      BY <1>1, <2>2, <2>3
  <1>7. ASSUME NEW t \in Thread, NEW c \in Conn, Release(t, c) PROVE Excluded'
    <2>1. /\ held' = [held EXCEPT ![t] = @ \ {c}]
          /\ \A d \in Conn : /\ conn'[d].fd = conn[d].fd /\ conn'[d].loop = conn[d].loop
                             /\ conn'[d].out = conn[d].out
      BY <1>7, ReleaseDoes
    <2>2. conn' = [conn EXCEPT ![c].st = "closed"] \/ conn' = conn
      BY <1>7, ReleaseDoes, Zenon
    <2>3. \A d \in Conn : conn'[d].st \in {conn[d].st, "closed"}
      BY <2>2 DEF Peer
    <2>4. Firmly
      BY <2>1, <2>3 DEF Created
    <2>5. \A u \in {Main, Control} : held'[u] \subseteq held[u]
      BY <2>1
    <2> HIDE DEF Firmly
    <2>6. QED
      BY <1>1, <2>4, <2>5
  <1>8. ASSUME NEW c \in Conn, Connect(c) PROVE Excluded'
    <2>1. /\ conn[c].st = "new"
          /\ \A d \in Conn : /\ conn'[d].fd = conn[d].fd /\ conn'[d].loop = conn[d].loop
                             /\ conn'[d].out = conn[d].out
                             /\ conn'[d].st = IF d = c THEN "backlog" ELSE conn[d].st
          /\ held' = held
      BY <1>8, ConnectDoes
    <2>2. Firmly
      BY <2>1 DEF Created
    <2>3. \A t \in {Main, Control} : held'[t] \subseteq held[t]
      BY <2>1
    <2> HIDE DEF Firmly
    <2>4. QED
      BY <1>1, <2>2, <2>3
  <1>9. CASE Accept
    <2>0. PICK c \in Conn, fd \in Fd, l \in Loop : AcceptEffect(c, fd, l)
      BY <1>9, AcceptDoes
    <2>1. /\ pc[Main] = "accept" /\ conn[c].st = "backlog" /\ owner[fd] = None
          /\ reused' = (reused \/ Unreported(fd))
          /\ \A d \in Conn :
                /\ conn'[d].out = conn[d].out
                /\ conn'[d].st = IF d = c THEN "posted" ELSE conn[d].st
                /\ conn'[d].fd = IF d = c THEN fd ELSE conn[d].fd
                /\ conn'[d].loop = IF d = c THEN l ELSE conn[d].loop
          /\ \A f \in Fd : owner'[f] = IF f = fd THEN c ELSE owner[f]
          /\ queue' = [queue EXCEPT ![l] = Append(@, [k |-> "create", c |-> c])]
          /\ UNCHANGED <<connections, callbacks, pc, cur, held, todo, told, over, env, fatal>>
      BY <2>0 DEF AcceptEffect
    <2>2. Firmly
      BY <2>1 DEF Created
    <2>3. \A t \in {Main, Control} : held'[t] \subseteq held[t]
      BY <2>1
    <2> HIDE DEF Firmly
    <2>4. QED
      BY <1>1, <2>2, <2>3
  <1>10. CASE AcceptVictim \/ AcceptDrops
    <2>1. PICK c \in Conn :
            /\ conn[c].st = "backlog"
            /\ \A d \in Conn : /\ conn'[d].fd = conn[d].fd /\ conn'[d].loop = conn[d].loop
                               /\ conn'[d].out = conn[d].out
                               /\ conn'[d].st = IF d = c THEN "closed" ELSE conn[d].st
            /\ pc[Main] = "accept" /\ Turned
            /\ UNCHANGED <<owner, connections, callbacks, queue, cur, held, todo, told, over,
                           reused, env, fatal>>
      BY <1>10, AcceptVictimDoes
    <2>2. Firmly
      BY <2>1 DEF Created
    <2>3. \A t \in {Main, Control} : held'[t] \subseteq held[t]
      BY <2>1
    <2> HIDE DEF Firmly
    <2>4. QED
      BY <1>1, <2>2, <2>3
  <1>11. CASE CheckTimeouts
    <2>1. PICK idle \in SUBSET Evicted : held' = [held EXCEPT ![Main] = idle]
      BY <1>11 DEF CheckTimeouts
    <2>2. env.idles /\ conn' = conn
      BY <1>11 DEF CheckTimeouts
    <2>3. \A c \in idle : c \in Conn /\ Created(c)
      BY DEF Evicted, Live, ConnectionsInv, Placed, Owns, Created
    <2>4. QED
      BY <1>2, <2>1, <2>2, <2>3
  <1>12. CASE CloseAll
    <2>1. /\ held' = [held EXCEPT ![Control] = {connections[fd] : fd \in Fd} \ {None}]
          /\ conn' = conn /\ pc[Control] # "idle"
      BY <1>12 DEF CloseAll
    <2>2. \A c \in {connections[fd] : fd \in Fd} \ {None} : c \in Conn /\ Created(c)
      <3>1. \A fd \in Fd : connections[fd] # None => connections[fd] \in Conn /\ Created(connections[fd])
        BY DEF ConnectionsInv, Listed, TypeOK
      <3>2. QED
        BY <3>1
    <2>3. env.stops
      BY <2>1 DEF Phases
    <2>4. QED
      BY <1>2, <2>1, <2>2, <2>3
  <1>13. CASE Join
    <2>1. /\ held' = [held EXCEPT ![Control] = {c \in Conn : Queued(c)}]
          /\ conn' = conn /\ pc[Control] # "idle"
      BY <1>13 DEF Join
    <2>2. \A c \in Conn : Queued(c) => Created(c)
      BY DEF Queued, ConnectionsInv, Given
    <2>3. \A c \in {c \in Conn : Queued(c)} : Created(c)
      BY <2>2, Zenon
    <2>4. env.stops
      BY <2>1 DEF Phases
    <2>5. QED
      BY <1>2, <2>1, <2>3, <2>4
  <1>14. ASSUME \/ OnReadable \/ AcceptNoMore \/ AcceptFails \/ Shutdown \/ StopPool \/ Reset
                \/ \E t \in Loop \cup {Main} : End(t)
                \/ \E t \in Thread : Released(t)
                \/ \E t \in {Main, Control} : Posted(t) \/ \E c \in Conn : PostClose(t, c)
         PROVE  Excluded'
    <2>1. UNCHANGED <<conn, held>>
      BY <1>14 DEF OnReadable, AcceptNoMore, AcceptFails, Shutdown, StopPool, Reset, End, Released,
         Posted,
                   PostClose
    <2>2. Firmly
      BY <2>1 DEF Created
    <2>3. \A t \in {Main, Control} : held'[t] \subseteq held[t]
      BY <2>1
    <2> HIDE DEF Firmly
    <2>4. QED
      BY <1>1, <2>2, <2>3
  <1>15. QED
    BY <1>3, <1>4, <1>5, <1>6, <1>7, <1>8, <1>9, <1>10, <1>11, <1>12, <1>13, <1>14, StepOf

\* What a step is to show, and what most steps leave alone: nobody is opened or
\* moved to another loop, and a Close that was begun goes on.
Secured ==
    /\ fatal' = ""
    /\ \A c \in Conn : conn'[c].st = "live" => Anchored(c)'
    /\ \A t \in {Main, Control} : \A c \in held'[t] : conn'[c].st = "live" => Due(c)'

Same ==
    \A d \in Conn : conn'[d].st = "live" =>
        conn[d].st = "live" /\ conn'[d].loop = conn[d].loop

Marking ==
    \A l \in Loop : pc[l] = "mark" /\ conn'[cur[l]].st = "live" =>
        pc'[l] = "mark" /\ cur'[l] = cur[l]

\* An open connection is let go by its own loop, or by a thread that has seen to
\* it that its loop closes it.
LEMMA KeepsKept ==
  ASSUME ConnectionsInv, Holding, Phases, Calm, Mapped, Unmixed, Excluded, Kept, Next
  PROVE  Kept'
  <1> SUFFICES ASSUME FairWeather' PROVE Secured
    BY DEF Kept, Live, Secured
  <1> FairWeather
    BY Surroundings DEF FairWeather
  <1> /\ TypeOK /\ Main # Control /\ \A l \in Loop : l # Main /\ l # Control
      /\ held \in [Thread -> SUBSET Conn] /\ conn \in [Conn -> Peer]
      /\ queue \in [Loop -> Seq(Task)] /\ todo \in [Thread -> SUBSET Conn]
      /\ connections \in [Fd -> Conn \cup {None}] /\ None \notin Conn
      /\ Main \in Thread /\ Control \in Thread /\ Loop \subseteq Thread
    BY Constants DEF ConnectionsInv, TypeOK, Thread, FairWeather
  <1>0. /\ fatal = ""
        /\ \A c \in Conn : conn[c].st = "live" => Anchored(c) /\ conn[c].loop \in Loop
        /\ \A t \in {Main, Control} : \A c \in held[t] : conn[c].st = "live" => Due(c)
    <2>1. \A c \in Conn : conn[c].st = "live" => conn[c].loop \in Loop
      BY DEF ConnectionsInv, Placed, Owns
    <2>2. QED
      BY <2>1 DEF Kept, Live
  \* The map is as it was, and nobody but a loop takes anything.
  <1>1. ASSUME fatal' = fatal, Same, Marking, UNCHANGED todo,
               \A fd \in Fd : connections'[fd] = connections[fd],
               \A d \in Conn : Queued(d) => Queued(d)',
               \A l \in Loop : \A d \in held[l] : d \in held'[l],
               held'[Main] \subseteq held[Main], held'[Control] \subseteq held[Control]
        PROVE  Secured
    <2>1. ASSUME NEW c \in Conn, conn'[c].st = "live" PROVE Anchored(c)'
      <3>1. conn[c].st = "live" /\ conn[c].loop \in Loop /\ conn'[c].loop = conn[c].loop
        BY <1>0, <1>1, <2>1 DEF Same
      <3>2. InMap(c) => InMap(c)'
        BY <1>1 DEF InMap
      <3>3. c \in held[conn[c].loop] => c \in held'[conn'[c].loop]
        BY <1>1, <3>1
      <3>4. c \in todo[Main] \/ c \in todo[Control] => c \in todo'[Main] \/ c \in todo'[Control]
        BY <1>1
      <3>5. Queued(c) => Queued(c)'
        BY <1>1
      <3>6. Anchored(c)
        BY <1>0, <3>1
      <3>7. QED
        BY <3>2, <3>3, <3>4, <3>5, <3>6, Zenon DEF Anchored
    <2>2. ASSUME NEW t \in {Main, Control}, NEW c \in held'[t], conn'[c].st = "live"
          PROVE  Due(c)'
      <3>1. c \in Conn /\ c \in held[t]
        BY <1>1
      <3>2. Due(c)
        BY <1>0, <1>1, <2>2, <3>1 DEF Same
      <3>3. c \in todo[Main] \/ c \in todo[Control] => c \in todo'[Main] \/ c \in todo'[Control]
        BY <1>1
      <3>4. Queued(c) => Queued(c)'
        BY <1>1, <3>1
      <3>5. ASSUME NEW l \in Loop, pc[l] = "mark", cur[l] = c PROVE pc'[l] = "mark" /\ cur'[l] = c
        BY <1>1, <2>2, <3>5 DEF Marking
      <3>6. QED
        BY <3>2, <3>3, <3>4, <3>5, Zenon DEF Due
    <2>3. QED
      BY <1>0, <1>1, <2>1, <2>2 DEF Secured
  <1>2. ASSUME fatal' = fatal, conn' = conn, UNCHANGED <<connections, held, todo, queue>>, Marking
        PROVE  Secured
    <2>1. \A d \in Conn : Queued(d) => Queued(d)'
      BY <1>2, SameQueue, Zenon
    <2>2. QED
      BY <1>1, <1>2, <2>1 DEF Same
  <1>3. ASSUME NEW l \in Loop, Create(l) PROVE Secured
    <2>0. PICK c \in Conn : CreateEffect(l, c)
      BY <1>3, CreateDoes
    <2>1. /\ conn[c].st = "posted" /\ conn[c].fd \in Fd /\ conn[c].loop = l
          /\ owner[conn[c].fd] = c /\ pc[l] = "idle" /\ Take(l, "create")
          /\ \A d \in Conn : /\ conn'[d].fd = conn[d].fd /\ conn'[d].loop = conn[d].loop
                             /\ conn'[d].out = conn[d].out
                             /\ conn'[d].st = IF d = c THEN "live" ELSE conn[d].st
          /\ \A fd \in Fd : connections'[fd] = IF fd = conn[c].fd THEN c ELSE connections[fd]
          /\ held' = [held EXCEPT ![l] = {c}] /\ cur' = [cur EXCEPT ![l] = c]
          /\ pc' = [pc EXCEPT ![l] = "register"]
          /\ UNCHANGED <<owner, todo, fatal>>
      BY <2>0 DEF CreateEffect
    <2>2. held[l] = {}
      BY <2>1 DEF Holding
    <2>3. ASSUME NEW d \in Conn, Queued(d) PROVE Queued(d)'
      BY <2>1, <2>3, QueuedTake
    <2>4. ASSUME NEW d \in Conn, conn'[d].st = "live" PROVE Anchored(d)'
      <3>1. CASE d = c
        BY <2>1, <3>1 DEF Anchored, InMap
      <3>2. CASE d # c
        <4>1. conn[d].st = "live" /\ conn'[d].loop = conn[d].loop
          BY <2>1, <2>4, <3>2
        <4>2. InMap(d) => InMap(d)'
          <5>1. SUFFICES ASSUME NEW fd \in Fd, connections[fd] = d PROVE InMap(d)'
            BY DEF InMap
          <5>2. conn[d].fd = fd /\ owner[conn[d].fd] = d
            BY <4>1, <5>1 DEF Mapped, ConnectionsInv, Placed, Owns
          <5>3. connections'[fd] = d
            BY <2>1, <3>2, <5>1, <5>2
          <5>4. QED
            BY <5>3 DEF InMap
        <4>3. d \in held[conn[d].loop] => d \in held'[conn'[d].loop]
          BY <1>0, <2>1, <2>2, <4>1
        <4>4. d \in todo[Main] \/ d \in todo[Control] => d \in todo'[Main] \/ d \in todo'[Control]
          BY <2>1
        <4>5. Anchored(d)
          BY <1>0, <4>1
        <4>6. QED
          BY <2>3, <4>2, <4>3, <4>4, <4>5, Zenon DEF Anchored
      <3>3. QED
        BY <3>1, <3>2
    <2>5. ASSUME NEW t \in {Main, Control}, NEW d \in held'[t], conn'[d].st = "live"
          PROVE  Due(d)'
      <3>1. d \in Conn /\ d \in held[t] /\ Created(d)
        BY <2>1 DEF Excluded
      <3>2. d # c /\ conn[d].st = "live"
        BY <2>1, <2>5, <3>1 DEF Created
      <3>3. Due(d)
        BY <1>0, <3>1, <3>2
      <3>4. d \in todo[Main] \/ d \in todo[Control] => d \in todo'[Main] \/ d \in todo'[Control]
        BY <2>1
      <3>5. ASSUME NEW m \in Loop, pc[m] = "mark", cur[m] = d PROVE pc'[m] = "mark" /\ cur'[m] = d
        BY <2>1, <3>5, Domains
      <3>6. QED
        BY <2>3, <3>1, <3>3, <3>4, <3>5, Zenon DEF Due
    <2>6. fatal' = ""
      BY <1>0, <2>1
    <2>7. QED
      BY <2>4, <2>5, <2>6 DEF Secured
  \* A loop moves its own connection from the map to its hands.
  <1>4. ASSUME NEW l \in Loop, RegisterFails(l) \/ Remove(l) PROVE Secured
    <2>0. PICK c \in Conn : c = cur[l] /\ conn[c].fd \in Fd /\ conn[c].loop = l
      <3>1. cur[l] \in Conn /\ conn[cur[l]].fd \in Fd /\ conn[cur[l]].loop = l
        BY <1>4 DEF RegisterFails, Remove, ConnectionsInv, Working, Placed, Owns, Live, Created,
           Unmixed, FairWeather
      <3>2. QED
        BY <3>1
    <2>1. PICK fd \in Fd : fd = conn[c].fd
      BY <2>0
    <2>2. /\ connections' = [connections EXCEPT ![fd] = None]
          /\ held' = [held EXCEPT ![l] = @ \cup ({connections[fd]} \ {None})]
          /\ UNCHANGED <<conn, queue, todo, cur, fatal>>
      BY <1>4, <2>0, <2>1 DEF RegisterFails, Remove, Forget
    <2>3. connections[fd] # None => connections[fd] = c
      <3>1. SUFFICES ASSUME connections[fd] # None, connections[fd] # c PROVE FALSE
        OBVIOUS
      <3>2. owner[fd] = c \/ (owner[fd] = None /\ pc[l] = "remove")
        BY <1>4, <2>0, <2>1
           DEF RegisterFails, Remove, ConnectionsInv, Working, Placed, Owns, Live, Unmixed,
              FairWeather
      <3>3. PICK m \in Loop : pc[m] = "remove" /\ cur[m] = connections[fd]
        BY <3>1, <3>2 DEF Unmixed, FairWeather
      <3>4. conn[cur[m]].fd = fd
        BY <3>1, <3>3 DEF Mapped
      <3>5. owner[fd] = None
        BY <3>3, <3>4 DEF Unmixed, FairWeather
      <3>6. pc[l] = "remove"
        BY <2>0, <3>2, <3>5
      <3>7. m = l
        BY <2>0, <2>1, <3>3, <3>4, <3>6 DEF Unmixed, FairWeather
      <3>8. QED
        BY <2>0, <3>1, <3>3, <3>7
    <2>4. Marking
      <3>1. \A m \in Loop : pc[m] = "mark" => pc'[m] = "mark"
        BY <1>4, Domains DEF RegisterFails, Remove
      <3>2. QED
        BY <2>2, <3>1 DEF Marking
    <2>5. \A d \in Conn : Queued(d) => Queued(d)'
      BY <2>2, SameQueue, Zenon
    <2>6. ASSUME NEW d \in Conn, conn'[d].st = "live" PROVE Anchored(d)'
      <3>1. conn[d].st = "live" /\ conn'[d].loop = conn[d].loop
        BY <2>2, <2>6
      <3>2. InMap(d) => InMap(d)' \/ d \in held'[conn'[d].loop]
        <4>1. SUFFICES ASSUME NEW f \in Fd, connections[f] = d
                       PROVE  InMap(d)' \/ d \in held'[conn'[d].loop]
          BY DEF InMap
        <4>2. CASE f # fd
          BY <2>2, <4>1, <4>2 DEF InMap
        <4>3. CASE f = fd
          BY <2>0, <2>2, <2>3, <4>1, <4>3
        <4>4. QED
          BY <4>2, <4>3
      <3>3. d \in held[conn[d].loop] => d \in held'[conn'[d].loop]
        BY <1>0, <2>2, <3>1
      <3>4. d \in todo[Main] \/ d \in todo[Control] => d \in todo'[Main] \/ d \in todo'[Control]
        BY <2>2
      <3>5. Anchored(d)
        BY <1>0, <3>1
      <3>6. QED
        BY <2>5, <3>2, <3>3, <3>4, <3>5, Zenon DEF Anchored
    <2>7. ASSUME NEW t \in {Main, Control}, NEW d \in held'[t], conn'[d].st = "live"
          PROVE  Due(d)'
      <3>1. d \in Conn /\ d \in held[t]
        BY <2>2
      <3>2. Due(d)
        BY <1>0, <2>2, <2>7, <3>1
      <3>3. d \in todo[Main] \/ d \in todo[Control] => d \in todo'[Main] \/ d \in todo'[Control]
        BY <2>2
      <3>4. ASSUME NEW m \in Loop, pc[m] = "mark", cur[m] = d PROVE pc'[m] = "mark" /\ cur'[m] = d
        BY <2>4, <2>7, <3>4 DEF Marking
      <3>5. QED
        BY <2>5, <3>1, <3>2, <3>3, <3>4, Zenon DEF Due
    <2>8. fatal' = ""
      BY <1>0, <2>2
    <2>9. QED
      BY <2>6, <2>7, <2>8 DEF Secured
  \* A posted Close is begun, or finds output left.
  <1>5. ASSUME NEW l \in Loop, CloseTask(l) PROVE Secured
    <2>1. PICK c \in Conn :
            /\ Created(c) /\ conn[c].loop = l /\ pc[l] = "idle"
            /\ Take(l, "close") /\ c = Head(queue[l]).c
            /\ held' = [held EXCEPT ![l] = {c}] /\ cur' = [cur EXCEPT ![l] = c]
            /\ \/ Live(c) /\ pc' = [pc EXCEPT ![l] = "mark"]
               \/ (~Live(c) \/ conn[c].out) /\ pc' = [pc EXCEPT ![l] = "release"]
            /\ UNCHANGED <<owner, connections, conn, todo, told, over, reused, env, fatal>>
      BY <1>5, CloseTaskDoes
    <2>2. held[l] = {}
      BY <2>1 DEF Holding
    <2>3. ASSUME NEW d \in Conn, Queued(d) PROVE Queued(d)' \/ d = c
      BY <2>1, <2>3, QueuedTake
    <2>4. ASSUME NEW d \in Conn, conn'[d].st = "live" PROVE Anchored(d)'
      <3>1. conn[d].st = "live" /\ conn'[d].loop = conn[d].loop
        BY <2>1, <2>4
      <3>2. InMap(d) => InMap(d)'
        BY <2>1 DEF InMap
      <3>3. d \in held[conn[d].loop] \/ d = c => d \in held'[conn'[d].loop]
        BY <1>0, <2>1, <2>2, <3>1
      <3>4. d \in todo[Main] \/ d \in todo[Control] => d \in todo'[Main] \/ d \in todo'[Control]
        BY <2>1
      <3>5. Anchored(d)
        BY <1>0, <3>1
      <3>6. QED
        BY <2>3, <3>2, <3>3, <3>4, <3>5, Zenon DEF Anchored
    <2>5. ASSUME NEW t \in {Main, Control}, NEW d \in held'[t], conn'[d].st = "live"
          PROVE  Due(d)'
      <3>1. d \in Conn /\ d \in held[t] /\ conn[d].st = "live"
        BY <2>1, <2>5
      <3>2. Due(d)
        BY <1>0, <3>1
      <3>3. d \in todo[Main] \/ d \in todo[Control] => d \in todo'[Main] \/ d \in todo'[Control]
        BY <2>1
      <3>4. d = c => pc'[l] = "mark" /\ cur'[l] = d
        <4>1. SUFFICES ASSUME d = c PROVE pc'[l] = "mark" /\ cur'[l] = c
          OBVIOUS
        <4>2. ~env.slow
          BY <3>1 DEF Excluded, FairWeather
        <4>3. ~conn[c].out
          BY <4>2 DEF Excluded
        <4>4. Live(c)
          BY <3>1, <4>1 DEF Live
        <4>5. pc' = [pc EXCEPT ![l] = "mark"]
          BY <2>1, <4>3, <4>4, Zenon
        <4>6. QED
          BY <2>1, <4>5, Domains
      <3>5. ASSUME NEW m \in Loop, pc[m] = "mark", cur[m] = d PROVE pc'[m] = "mark" /\ cur'[m] = d
        BY <2>1, <3>5, Domains
      <3>6. QED
        BY <2>3, <3>1, <3>2, <3>3, <3>4, <3>5, Zenon DEF Due
    <2>6. fatal' = ""
      BY <1>0, <2>1
    <2>7. QED
      BY <2>4, <2>5, <2>6 DEF Secured
  <1>6. ASSUME NEW l \in Loop, NEW c \in Conn, Event(l, c) PROVE Secured
    <2>1. /\ pc[l] = "idle" /\ held' = [held EXCEPT ![l] = {c}] /\ cur' = [cur EXCEPT ![l] = c]
          /\ pc' = [pc EXCEPT ![l] = "release"] \/ pc' = [pc EXCEPT ![l] = "mark"]
          /\ \A d \in Conn : /\ conn'[d].fd = conn[d].fd /\ conn'[d].loop = conn[d].loop
                             /\ conn'[d].st = conn[d].st
          /\ UNCHANGED <<connections, queue, todo, fatal>>
      BY <1>6, EventDoes
    <2>2. held[l] = {}
      BY <2>1 DEF Holding
    <2>3. Marking
      BY <2>1, Domains DEF Marking
    <2>4. /\ \A m \in Loop : \A d \in held[m] : d \in held'[m]
          /\ held'[Main] \subseteq held[Main] /\ held'[Control] \subseteq held[Control]
      BY <2>1, <2>2
    <2>5. \A d \in Conn : Queued(d) => Queued(d)'
      BY <2>1, SameQueue, Zenon
    <2>6. Same
      BY <2>1 DEF Same
    <2>7. QED
      BY <1>1, <2>1, <2>3, <2>4, <2>5, <2>6
  <1>7. ASSUME NEW l \in Loop, Mark(l) PROVE Secured
    <2>0. PICK c \in Conn : MarkEffect(l, c)
      BY <1>7, MarkDoes
    <2>1. /\ c = cur[l] /\ Live(c) /\ conn[c].loop = l /\ c \in held[l] /\ pc[l] = "mark"
          /\ \A d \in Conn : /\ conn'[d].fd = conn[d].fd /\ conn'[d].loop = conn[d].loop
                             /\ conn'[d].st = IF d = c THEN "closed" ELSE conn[d].st
                             /\ conn'[d].out = IF d = c THEN FALSE ELSE conn[d].out
          /\ pc' = [pc EXCEPT ![l] = "closefd"]
          /\ UNCHANGED <<owner, connections, queue, cur, held, todo, told, over, reused,
                         env, fatal>>
      BY <2>0 DEF MarkEffect
    <2>2. Same
      BY <2>1 DEF Same
    <2>3. Marking
      BY <2>1, Domains DEF Marking
    <2>4. \A d \in Conn : Queued(d) => Queued(d)'
      BY <2>1, SameQueue, Zenon
    <2>5. UNCHANGED <<connections, held, todo, fatal>>
      BY <2>1
    <2>6. QED
      BY <1>1, <2>2, <2>3, <2>4, <2>5
  <1>8. ASSUME NEW t \in Thread, NEW c \in Conn, Release(t, c) PROVE Secured
    <2>1. /\ pc[t] = "release" /\ c \in held[t] /\ held' = [held EXCEPT ![t] = @ \ {c}]
          /\ UNCHANGED <<connections, queue, pc, cur, todo>>
          /\ \A d \in Conn : conn'[d].fd = conn[d].fd /\ conn'[d].loop = conn[d].loop
      BY <1>8, ReleaseDoes
    <2>2. conn' = [conn EXCEPT ![c].st = "closed"] \/ conn' = conn
      BY <1>8, ReleaseDoes, Zenon
    <2>3. \A d \in Conn : conn'[d].st \in {conn[d].st, "closed"}
      BY <2>2 DEF Peer
    <2>4. todo[t] = {}
      BY <2>1 DEF ConnectionsInv, Listed
    <2>5. t = Main \/ t = Control \/ t \in Loop
      BY DEF Thread
    \* Another thread never drops the last reference to an open connection.
    <2>6. Live(c) /\ t # conn[c].loop => Shared(t, c)
      <3>1. SUFFICES ASSUME Live(c), t # conn[c].loop PROVE Shared(t, c)
        OBVIOUS
      <3>2. t \in {Main, Control}
        BY <2>1, <2>5, <3>1 DEF Unmixed, FairWeather
      <3>3. Anchored(c) /\ conn[c].loop \in Loop
        BY <1>0, <3>1 DEF Live
      <3>4. InMap(c) => Shared(t, c)
        BY DEF InMap, Shared
      <3>5. Queued(c) => Shared(t, c)
        BY Zenon DEF Shared
      <3>6. c \in held[conn[c].loop] => Shared(t, c)
        BY <3>1, <3>3 DEF Shared
      <3>7. ASSUME NEW u \in {Main, Control}, c \in todo[u] PROVE Shared(t, c)
        <4>1. u # t /\ c \in held[u]
          BY <2>4, <3>7 DEF TypeOK
        <4>2. QED
          BY <4>1 DEF Shared
      <3>8. QED
        BY <3>3, <3>4, <3>5, <3>6, <3>7, Zenon DEF Anchored
    <2>7. fatal' = ""
      <3>1. CASE ~Live(c) \/ Shared(t, c)
        BY <1>0, <1>8, <3>1, ReleaseDoes, Zenon
      <3>2. CASE Live(c) /\ ~Shared(t, c)
        <4>1. t = conn[c].loop
          BY <2>6, <3>2, Zenon
        <4>2. fatal' = fatal
          BY <1>8, <3>2, <4>1, ReleaseDoes, Zenon
        <4>3. QED
          BY <1>0, <4>2
      <3>3. QED
        BY <3>1, <3>2
    <2>8. \A d \in Conn : Queued(d) => Queued(d)'
      BY <2>1, SameQueue, Zenon
    <2>9. ASSUME NEW d \in Conn, conn'[d].st = "live" PROVE Anchored(d)'
      <3>1. conn[d].st = "live" /\ conn'[d].loop = conn[d].loop /\ conn[d].loop \in Loop
        BY <1>0, <2>1, <2>3, <2>9
      <3>2. InMap(d) => InMap(d)'
        BY <2>1 DEF InMap
      <3>3. d \in todo[Main] \/ d \in todo[Control] => d \in todo'[Main] \/ d \in todo'[Control]
        BY <2>1
      <3>4. Anchored(d)
        BY <1>0, <3>1
      <3>5. CASE ~(d = c /\ t = conn[c].loop)
        <4>1. d \in held[conn[d].loop] => d \in held'[conn'[d].loop]
          BY <2>1, <3>1, <3>5
        <4>2. QED
          BY <2>8, <3>2, <3>3, <3>4, <4>1, Zenon DEF Anchored
      <3>6. CASE d = c /\ t = conn[c].loop
        <4>1. Shared(t, c)
          <5>1. SUFFICES ASSUME ~Shared(t, c) PROVE FALSE
            OBVIOUS
          <5>2. Live(c) /\ t = conn[c].loop
            BY <3>1, <3>6 DEF Live
          <5>3. conn' = [conn EXCEPT ![c].st = "closed"]
            BY <1>8, <5>1, <5>2, ReleaseDoes, Zenon
          <5>4. conn'[c].st = "closed"
            BY <5>3, Becomes
          <5>5. QED
            BY <2>9, <3>6, <5>4
        <4>2. CASE InMap(c) \/ Queued(c)
          BY <2>8, <3>2, <3>6, <4>2, Zenon DEF Anchored
        <4>3. CASE \E u \in Thread \ {t} : c \in held[u]
          <5>1. PICK u \in Thread \ {t} : c \in held[u]
            BY <4>3
          <5>2. u \in {Main, Control}
            BY <3>6, <5>1 DEF Unmixed, FairWeather, Thread
          <5>3. Due(c)
            BY <1>0, <3>1, <3>6, <5>1, <5>2
          <5>4. \A m \in Loop : ~(pc[m] = "mark" /\ cur[m] = c)
            BY <2>1, <3>6 DEF ConnectionsInv, Working
          <5>5. c \in todo[Main] \/ c \in todo[Control] \/ Queued(c)
            BY <5>3, <5>4, Zenon DEF Due
          <5>6. QED
            BY <2>8, <3>3, <3>6, <5>5, Zenon DEF Anchored
        <4>4. QED
          BY <4>1, <4>2, <4>3, Zenon DEF Shared, InMap
      <3>7. QED
        BY <3>5, <3>6
    <2>10. ASSUME NEW u \in {Main, Control}, NEW d \in held'[u], conn'[d].st = "live"
           PROVE  Due(d)'
      <3>1. d \in Conn /\ d \in held[u]
        BY <2>1
      <3>2. conn[d].st = "live"
        BY <2>3, <2>10, <3>1
      <3>3. Due(d)
        BY <1>0, <3>1, <3>2
      <3>4. d \in todo[Main] \/ d \in todo[Control] => d \in todo'[Main] \/ d \in todo'[Control]
        BY <2>1
      <3>5. ASSUME NEW m \in Loop, pc[m] = "mark", cur[m] = d PROVE pc'[m] = "mark" /\ cur'[m] = d
        BY <2>1, <3>5
      <3>6. QED
        BY <2>8, <3>1, <3>3, <3>4, <3>5, Zenon DEF Due
    <2>11. QED
      BY <2>7, <2>9, <2>10 DEF Secured
  <1>9. ASSUME NEW t \in {Main, Control}, NEW c \in Conn, PostClose(t, c) PROVE Secured
    <2>1. /\ pc[t] = "post" /\ c \in todo[t] /\ todo' = [todo EXCEPT ![t] = @ \ {c}]
          /\ \A d \in Conn : Queued(d) => Queued(d)'
          /\ t = Main \/ Live(c) => Queued(c)'
          /\ UNCHANGED <<owner, connections, callbacks, conn, pc, cur, held, told, over,
                         reused, env, fatal>>
      BY <1>9, PostQueues
    <2>2. ASSUME NEW d \in Conn, conn[d].st = "live", NEW u \in {Main, Control}, d \in todo[u]
          PROVE  d \in todo'[u] \/ Queued(d)'
      <3>1. CASE d = c
        BY <2>1, <2>2, <3>1, Zenon DEF Live
      <3>2. CASE d # c
        BY <2>1, <2>2, <3>2
      <3>3. QED
        BY <3>1, <3>2
    <2>3. ASSUME NEW d \in Conn, conn'[d].st = "live" PROVE Anchored(d)'
      <3>1. conn[d].st = "live" /\ conn'[d].loop = conn[d].loop /\ held' = held
        BY <2>1, <2>3
      <3>2. InMap(d) => InMap(d)'
        BY <2>1 DEF InMap
      <3>3. Anchored(d)
        BY <1>0, <3>1
      <3>4. d \in held[conn[d].loop] => d \in held'[conn'[d].loop]
        BY <3>1
      <3>5. Queued(d) => Queued(d)'
        BY <2>1
      <3>6. QED
        BY <2>2, <3>1, <3>2, <3>3, <3>4, <3>5, Zenon DEF Anchored
    <2>4. ASSUME NEW u \in {Main, Control}, NEW d \in held'[u], conn'[d].st = "live"
          PROVE  Due(d)'
      <3>1. d \in Conn /\ d \in held[u] /\ conn[d].st = "live"
        BY <2>1, <2>4
      <3>2. Due(d)
        BY <1>0, <3>1
      <3>3. ASSUME NEW m \in Loop, pc[m] = "mark", cur[m] = d PROVE pc'[m] = "mark" /\ cur'[m] = d
        BY <2>1, <3>3
      <3>4. Queued(d) => Queued(d)'
        BY <2>1, <3>1
      <3>5. QED
        BY <2>2, <3>1, <3>2, <3>3, <3>4, Zenon DEF Due
    <2>5. fatal' = ""
      BY <1>0, <2>1
    <2>6. QED
      BY <2>3, <2>4, <2>5 DEF Secured
  <1>10. ASSUME NEW c \in Conn, Connect(c) PROVE Secured
    <2>1. /\ conn[c].st = "new"
          /\ \A d \in Conn : /\ conn'[d].fd = conn[d].fd /\ conn'[d].loop = conn[d].loop
                             /\ conn'[d].out = conn[d].out
                             /\ conn'[d].st = IF d = c THEN "backlog" ELSE conn[d].st
          /\ UNCHANGED <<connections, queue, pc, cur, held, todo, fatal>>
      BY <1>10, ConnectDoes
    <2>2. Same /\ Marking
      BY <2>1 DEF Same, Marking
    <2>3. \A d \in Conn : Queued(d) => Queued(d)'
      BY <2>1, SameQueue, Zenon
    <2>4. QED
      BY <1>1, <2>1, <2>2, <2>3
  <1>11. CASE Accept
    <2>0. PICK c \in Conn, fd \in Fd, l \in Loop : AcceptEffect(c, fd, l)
      BY <1>11, AcceptDoes
    <2>1. /\ pc[Main] = "accept" /\ conn[c].st = "backlog" /\ owner[fd] = None
          /\ reused' = (reused \/ Unreported(fd))
          /\ \A d \in Conn :
                /\ conn'[d].out = conn[d].out
                /\ conn'[d].st = IF d = c THEN "posted" ELSE conn[d].st
                /\ conn'[d].fd = IF d = c THEN fd ELSE conn[d].fd
                /\ conn'[d].loop = IF d = c THEN l ELSE conn[d].loop
          /\ \A f \in Fd : owner'[f] = IF f = fd THEN c ELSE owner[f]
          /\ queue' = [queue EXCEPT ![l] = Append(@, [k |-> "create", c |-> c])]
          /\ UNCHANGED <<connections, callbacks, pc, cur, held, todo, told, over, env, fatal>>
      BY <2>0 DEF AcceptEffect
    <2>2. Same /\ Marking
      BY <2>1 DEF Same, Marking
    <2>3. \A d \in Conn : Queued(d) => Queued(d)'
      BY <1>11, AcceptQueues, Zenon
    <2>4. UNCHANGED <<connections, held, todo, fatal>>
      BY <2>1
    <2>5. QED
      BY <1>1, <2>2, <2>3, <2>4
  <1>12. CASE AcceptVictim \/ AcceptDrops
    <2>1. PICK c \in Conn :
            /\ conn[c].st = "backlog"
            /\ \A d \in Conn : /\ conn'[d].fd = conn[d].fd /\ conn'[d].loop = conn[d].loop
                               /\ conn'[d].out = conn[d].out
                               /\ conn'[d].st = IF d = c THEN "closed" ELSE conn[d].st
            /\ pc[Main] = "accept" /\ Turned
            /\ UNCHANGED <<owner, connections, callbacks, queue, cur, held, todo, told, over,
                           reused, env, fatal>>
      BY <1>12, AcceptVictimDoes
    <2>2. Same /\ Marking
      BY <2>1, Constants DEF Same, Marking, Turned, Thread
    <2>3. \A d \in Conn : Queued(d) => Queued(d)'
      BY <2>1, SameQueue, Zenon
    <2>4. UNCHANGED <<connections, held, todo, fatal>>
      BY <2>1
    <2>5. QED
      BY <1>1, <2>2, <2>3, <2>4
  \* What the two others take they are to post a Close for.
  <1>13. ASSUME NEW t \in {Main, Control}, NEW new \in SUBSET Conn,
                held' = [held EXCEPT ![t] = new], todo' = [todo EXCEPT ![t] = new],
                UNCHANGED <<conn, queue, fatal>>, todo[t] = {}, held[t] = {}, Marking,
                \A fd \in Fd : connections[fd] \in Conn /\ conn[connections[fd]].st = "live" =>
                    connections'[fd] = connections[fd] \/ connections[fd] \in new
         PROVE  Secured
    <2>1. ASSUME NEW d \in Conn, conn'[d].st = "live" PROVE Anchored(d)'
      <3>1. /\ conn[d].st = "live" /\ conn'[d].loop = conn[d].loop /\ conn[d].loop \in Loop
            /\ Anchored(d)
        BY <1>0, <1>13, <2>1
      <3>2. InMap(d) => InMap(d)' \/ d \in todo'[Main] \/ d \in todo'[Control]
        BY <1>13, <3>1 DEF InMap
      <3>3. d \in held[conn[d].loop] => d \in held'[conn'[d].loop]
        BY <1>13, <3>1
      <3>4. d \in todo[Main] \/ d \in todo[Control] => d \in todo'[Main] \/ d \in todo'[Control]
        BY <1>13
      <3>5. Queued(d) => Queued(d)'
        BY <1>13, SameQueue
      <3>6. QED
        BY <3>1, <3>2, <3>3, <3>4, <3>5, Zenon DEF Anchored
    <2>2. ASSUME NEW u \in {Main, Control}, NEW d \in held'[u], conn'[d].st = "live"
          PROVE  Due(d)'
      <3>1. CASE u = t
        <4>1. d \in todo'[u]
          BY <1>13, <2>2, <3>1
        <4>2. QED
          BY <4>1, Zenon DEF Due
      <3>2. CASE u # t
        <4>1. d \in Conn /\ d \in held[u] /\ conn[d].st = "live"
          BY <1>13, <2>2, <3>2
        <4>2. Due(d)
          BY <1>0, <4>1
        <4>3. d \in todo[Main] \/ d \in todo[Control] => d \in todo'[Main] \/ d \in todo'[Control]
          BY <1>13
        <4>4. Queued(d) => Queued(d)'
          BY <1>13, <4>1, SameQueue
        <4>5. ASSUME NEW m \in Loop, pc[m] = "mark", cur[m] = d PROVE pc'[m] = "mark" /\ cur'[m] = d
          BY <1>13, <2>2, <4>5 DEF Marking
        <4>6. QED
          BY <4>2, <4>3, <4>4, <4>5, Zenon DEF Due
      <3>3. QED
        BY <3>1, <3>2
    <2>3. QED
      BY <1>0, <1>13, <2>1, <2>2 DEF Secured
  <1>14. CASE CheckTimeouts
    <2>1. PICK idle \in SUBSET Evicted :
            /\ connections' = [fd \in Fd |->
                   IF connections[fd] # None
                      /\ (~Live(connections[fd]) \/ connections[fd] \in idle)
                   THEN None ELSE connections[fd]]
            /\ held' = [held EXCEPT ![Main] = idle]
            /\ todo' = [todo EXCEPT ![Main] = idle]
            /\ pc' = [pc EXCEPT ![Main] = IF idle = {} THEN "idle" ELSE "post"]
      BY <1>14 DEF CheckTimeouts
    <2>2. pc[Main] = "idle" /\ UNCHANGED <<conn, queue, cur, fatal>>
      BY <1>14 DEF CheckTimeouts, MainIdle
    <2>3. held[Main] = {} /\ todo[Main] = {}
      BY <2>2 DEF Holding, ConnectionsInv, Listed
    <2>4. Marking
      BY <2>1, <2>2, Domains DEF Marking
    <2>5. \A fd \in Fd : connections[fd] \in Conn /\ conn[connections[fd]].st = "live" =>
              connections'[fd] = connections[fd] \/ connections[fd] \in idle
      BY <2>1 DEF Live
    <2>6. idle \in SUBSET Conn
      BY DEF Evicted
    <2>7. QED
      BY <1>13, <2>1, <2>2, <2>3, <2>4, <2>5, <2>6
  <1>15. CASE CloseAll
    <2> DEFINE all == {connections[fd] : fd \in Fd} \ {None}
    <2>1. /\ pc[Control] = "closeall" /\ held' = [held EXCEPT ![Control] = all]
          /\ todo' = [todo EXCEPT ![Control] = all]
          /\ pc' = [pc EXCEPT ![Control] = "post"] /\ UNCHANGED <<conn, queue, cur, fatal>>
      BY <1>15 DEF CloseAll
    <2>2. held[Control] = {} /\ todo[Control] = {}
      BY <2>1 DEF Holding, ConnectionsInv, Listed
    <2>3. Marking
      BY <2>1, Domains DEF Marking
    <2>4. all \in SUBSET Conn /\ \A fd \in Fd : connections[fd] \in Conn => connections[fd] \in all
      OBVIOUS
    <2> HIDE DEF all
    <2>5. QED
      BY <1>13, <2>1, <2>2, <2>3, <2>4
  <1>16. CASE Join
    <2>1. /\ pc[Control] = "join" /\ held' = [held EXCEPT ![Control] = {c \in Conn : Queued(c)}]
          /\ pc' = [pc EXCEPT ![Control] = "release"]
          /\ UNCHANGED <<connections, conn, cur, todo, fatal>>
      BY <1>16 DEF Join
    <2>2. env.stops /\ env.prompt
      BY <2>1 DEF Phases, FairWeather
    <2>3. \A d \in Conn : ~Queued(d)
      BY <2>1, <2>2 DEF Phases, Empty, Queued
    <2>4. {c \in Conn : Queued(c)} = {}
      BY <2>3
    <2>5. held'[Control] = {} /\ \A u \in Thread \ {Control} : held'[u] = held[u]
      BY <2>1, <2>4
    <2>6. Marking
      BY <2>1, Domains DEF Marking
    <2>7. \A d \in Conn : Queued(d) => Queued(d)'
      BY <2>3, Zenon
    <2>8. Same
      BY <2>1 DEF Same
    <2>9. QED
      BY <1>1, <2>1, <2>5, <2>6, <2>7, <2>8
  <1>17. CASE Reset
    <2>1. /\ pc[Control] = "reset" /\ pc' = [pc EXCEPT ![Control] = "done"]
          /\ connections' = [fd \in Fd |-> None] /\ UNCHANGED <<conn, cur, todo, held, queue>>
      BY <1>17 DEF Reset
    <2>2. \A fd \in Fd : connections[fd] = None
      BY <2>1 DEF Phases, Calm, FairWeather
    <2>3. fatal' = fatal /\ connections' = connections
      BY <1>17, <2>1, <2>2 DEF Reset
    <2>4. Marking
      BY <2>1, Domains DEF Marking
    <2>5. QED
      BY <1>2, <2>1, <2>3, <2>4
  <1>18. ASSUME \/ \E l \in Loop : Register(l) \/ CloseFd(l)
                \/ OnReadable \/ AcceptNoMore \/ AcceptFails \/ Shutdown \/ StopPool
                \/ \E t \in Loop \cup {Main} : End(t)
                \/ \E t \in Thread : Released(t)
                \/ \E t \in {Main, Control} : Posted(t)
         PROVE  Secured
    <2>1. UNCHANGED <<conn, connections, held, todo, queue, fatal, cur>>
      BY <1>18 DEF Register, CloseFd, OnReadable, AcceptNoMore, AcceptFails, Shutdown, StopPool,
         End, Released, Posted
    <2>2. \A l \in Loop : pc[l] = "mark" => pc'[l] = "mark"
      BY <1>18, Domains DEF Register, CloseFd, OnReadable, AcceptNoMore, AcceptFails, Shutdown,
         StopPool, End,
                            Released, Posted
    <2>3. Marking
      BY <2>1, <2>2 DEF Marking
    <2>4. QED
      BY <1>2, <2>1, <2>3
  <1>19. QED
    BY <1>3, <1>4, <1>5, <1>6, <1>7, <1>8, <1>9, <1>10, <1>11, <1>12, <1>14, <1>15, <1>16,
       <1>17, <1>18, StepOf

-----------------------------------------------------------------------------
LEMMA CloseInit ==
  ASSUME Init
  PROVE  Holding /\ Phases /\ Calm /\ Owned /\ Mapped /\ Referenced /\ Unmixed /\ Excluded /\ Kept
  <1> /\ \A t \in Thread : pc[t] = "idle" /\ held[t] = {} /\ todo[t] = {}
      /\ \A fd \in Fd : owner[fd] = None /\ connections[fd] = None
      /\ \A c \in Conn : conn[c].st = "new" /\ ~conn[c].out
      /\ told = {} /\ over = {} /\ fatal = ""
      /\ Main \in Thread /\ Control \in Thread /\ Loop \subseteq Thread
    BY DEF Init, Thread
  <1>1. Loop # {}
    BY ConnectionsAssumption
  <1>2. Holding /\ Owned /\ Mapped /\ Unmixed /\ Excluded
    BY DEF Holding, Owned, Mapped, Unmixed, Excluded
  <1>3. Phases /\ Calm
    BY <1>1 DEF Phases, Calm, Joined
  <1>4. Referenced /\ Kept
    BY DEF Referenced, Kept, Live
  <1>5. QED
    BY <1>2, <1>3, <1>4

\* CloseInv is an inductive invariant of Connections.
THEOREM ConnectionsCloseInvariant == Spec => []CloseInv
  <1>1. Init => CloseInv
    BY InvInit, CloseInit DEF CloseInv
  <1>2. CloseInv /\ [Next]_vars => Holding' /\ Phases' /\ Calm' /\ Owned' /\ Mapped' /\ Referenced'
                                   /\ Unmixed' /\ Excluded' /\ Kept'
    <2>1. SUFFICES ASSUME CloseInv, [Next]_vars
                   PROVE  Holding' /\ Phases' /\ Calm' /\ Owned' /\ Mapped' /\ Referenced'
                          /\ Unmixed' /\ Excluded' /\ Kept'
      OBVIOUS
    <2>2. CASE Next
      BY <2>1, <2>2, KeepsHolding, KeepsPhases, KeepsCalm, KeepsOwned, KeepsMapped, KeepsReferenced,
         KeepsUnmixed, KeepsExcluded, KeepsKept DEF CloseInv
    <2>3. CASE UNCHANGED vars
      <3> UNCHANGED <<owner, connections, queue, conn, pc, cur, held, todo, told, over, reused,
                      env, fatal>>
        BY <2>3 DEF vars, listener
      <3>1. Holding' /\ Phases' /\ Calm'
        BY <2>1 DEF CloseInv, Holding, Phases, Joined, Empty, Calm
      <3>2. Owned' /\ Mapped' /\ Unmixed' /\ Excluded'
        BY <2>1 DEF CloseInv, Owned, Mapped, Unmixed, Excluded, Created
      <3>3. \A c \in Conn : Queued(c)' <=> Queued(c)
        BY SameQueue
      <3>4. Referenced'
        <4>1. \A c \in Conn : Referred(c) => Referred(c)'
          BY RefersAlike, <3>3
        <4>2. QED
          BY <2>1, <4>1 DEF CloseInv, Referenced, Live
      <3>5. Kept'
        <4>1. \A c \in Conn : InMap(c)' <=> InMap(c)
          BY DEF InMap
        <4>2. \A c \in Conn : Anchored(c) => Anchored(c)'
          BY <3>3, <4>1 DEF Anchored
        <4>3. \A c \in Conn : Due(c) => Due(c)'
          BY <3>3 DEF Due
        <4>4. \A t \in {Main, Control} : held[t] \subseteq Conn
          BY <2>1 DEF CloseInv, ConnectionsInv, TypeOK, Thread
        <4>5. QED
          BY <2>1, <4>2, <4>3, <4>4 DEF CloseInv, Kept, FairWeather, Live
      <3>6. QED
        BY <3>1, <3>2, <3>4, <3>5
    <2>4. QED
      BY <2>1, <2>2, <2>3
  <1>3. QED
    BY <1>1, <1>2, ConnectionsInvariant, PTL DEF Spec, CloseInv

\* In fair weather no thread but its own ever destroys an open connection, so the
\* destructor never aborts the process (connection.cpp:42-55, 300-312).
THEOREM ConnectionsSurvives == Spec => []Survives
  <1>1. CloseInv => Survives
    BY DEF CloseInv, Kept, FairWeather, Survives
  <1>2. QED
    BY <1>1, ConnectionsCloseInvariant, PTL

\* After a prompt and quiet shutdown every connection is closed and every
\* descriptor given back, slow clients and reused descriptors included.
THEOREM ConnectionsAllClosed == Spec => []AllClosed
  <1>1. CloseInv => AllClosed
    <2>1. SUFFICES ASSUME CloseInv, env.quiet, pc[Control] = "done", NEW fd \in Fd PROVE owner[fd] = None
      BY DEF AllClosed
    <2>2. Empty /\ \A t \in Thread : pc[t] \in {"idle", "done"}
      BY <2>1 DEF CloseInv, Phases, Joined, Thread
    <2>3. \A t \in Thread : held[t] = {}
      BY <2>1, <2>2 DEF CloseInv, Holding
    <2>4. /\ fatal = "" /\ \A c \in Conn : conn[c].st # "posted" /\ ~InMap(c)
      BY <2>1, Constants DEF CloseInv, Calm, InMap
    <2>5. \A c \in Conn : ~Queued(c)
      BY <2>2 DEF Empty, Queued
    <2>6. \A c \in Conn : conn[c].st # "live"
      BY <2>1, <2>3, <2>4, <2>5, Zenon DEF CloseInv, Referenced, Referred, Live
    <2>7. Loop \subseteq Thread /\ owner[fd] \in Conn \cup {None}
      BY <2>1 DEF Thread, CloseInv, ConnectionsInv, TypeOK
    <2>8. QED
      BY <2>1, <2>2, <2>4, <2>6, <2>7 DEF CloseInv, Owned
  <1>2. QED
    BY <1>1, ConnectionsCloseInvariant, PTL
=============================================================================
