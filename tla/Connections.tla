---------------------------- MODULE Connections ----------------------------
(***************************************************************************)
(* The life of connections: accept (src/listener.cpp), creation, removal,  *)
(* the idle check and CloseAll (src/connection_manager.cpp), MarkClosed    *)
(* and the destructor (src/connection.cpp), and the shutdown of the server *)
(* around them (src/server.cpp, EventLoopPool::Stop).                      *)
(*                                                                         *)
(* A connection is a shared object.  The manager's map holds one           *)
(* reference, a queued Close task another, and every thread that works on  *)
(* it one more.  The thread that drops the last reference runs the         *)
(* destructor, which for a connection not yet closed calls its loop and    *)
(* aborts the process when the thread is another one.  The kernel reuses   *)
(* the lowest free descriptor as soon as it is closed.                     *)
(***************************************************************************)
EXTENDS Integers, Sequences, FiniteSets

CONSTANTS
    Conn,    \* connections clients open
    Fd,      \* descriptors, numbers
    Loop,    \* sub loops, numbered from 0
    Main,    \* the main loop
    Control, \* the thread that shuts the server down
    None,
    Config   \* the circumstances a behaviour may have

\* clients, fds and loops: those there are; slow: whether a client may leave output
\* unsent; fails: whether Register, accept and SetNonBlocking may fail; idles: whether
\* the idle check runs; stops: whether the server is shut down; prompt: whether the
\* 50 ms of CloseAll suffice for what it posted and for the main loop to end; quiet:
\* whether the shutdown begins while no connection is being accepted.
Configs ==
    [clients : SUBSET Conn, fds : SUBSET Fd, loops : 1 .. Cardinality(Loop),
     slow : BOOLEAN, fails : BOOLEAN, idles : BOOLEAN,
     stops : BOOLEAN, prompt : BOOLEAN, quiet : BOOLEAN]

ASSUME ConnectionsAssumption ==
    /\ Fd \subseteq Nat /\ IsFiniteSet(Fd)
    /\ IsFiniteSet(Loop) /\ Loop = 0 .. Cardinality(Loop) - 1 /\ Loop # {}
    /\ Main \notin Loop /\ Control \notin Loop /\ Main # Control
    /\ None \notin Conn
    /\ Config \subseteq Configs

VARIABLES
    env,         \* the circumstances, chosen once
    backlog,     \* clients the kernel has connected and the listener not yet accepted
    edge,        \* the poller of the main loop has an event for the listener
    starved,     \* an error ended the last OnReadable before EAGAIN, clients waiting
    reused,      \* history: a descriptor got a new connection before the manager
                 \* was told of the end of the old one
    owner,       \* descriptor -> the connection whose socket it is
    connections, \* connections_: descriptor -> connection
    callbacks,   \* loop -> descriptor -> connection
    queue,       \* loop -> its posted tasks
    conn,        \* connection -> [st, fd, loop, used, out]
    pc,          \* thread -> where it is
    cur,         \* loop -> the connection it creates or closes
    held,        \* thread -> the references it holds
    todo,        \* thread -> connections it has yet to post a Close for
    told,        \* the loops whose Stop() was called
    over,        \* the loops whose thread ended
    accepted,    \* accept count, for the round robin
    fatal        \* how the process died, or ""

listener == <<accepted, backlog, edge, starved, reused, env>>
vars == <<owner, connections, callbacks, queue, conn, pc, cur, held, todo,
          told, over, listener, fatal>>

Thread == Loop \cup {Main, Control}
Task == [k : {"create", "close"}, c : Conn]
Peer == [st : {"new", "backlog", "posted", "live", "closed"},
         fd : Fd \cup {-1}, loop : Loop \cup {-1}, used : BOOLEAN, out : BOOLEAN]

Live(c) == conn[c].st = "live"

Queued(c) == \E l \in Loop : \E i \in DOMAIN queue[l] : queue[l][i] = [k |-> "close", c |-> c]

\* References to c but those of thread t.
Shared(t, c) ==
    \/ \E fd \in Fd : connections[fd] = c
    \/ Queued(c)
    \/ \E u \in Thread \ {t} : c \in held[u]

-----------------------------------------------------------------------------
(* References. *)

\* A thread drops a reference; the last one destroys the connection.
Release(t, c) ==
    LET fd == conn[c].fd
        last == Live(c) /\ ~Shared(t, c)
    IN  /\ pc[t] = "release" /\ c \in held[t]
        /\ held' = [held EXCEPT ![t] = @ \ {c}]
        /\ IF last /\ t = conn[c].loop
           THEN /\ callbacks' = [callbacks EXCEPT ![t][fd] = None]
                /\ owner' = [owner EXCEPT ![fd] = None]
                /\ conn' = [conn EXCEPT ![c].st = "closed"]
                /\ UNCHANGED fatal
           ELSE /\ fatal' = IF last THEN "wrong thread" ELSE fatal
                /\ UNCHANGED <<owner, callbacks, conn>>
        /\ UNCHANGED <<connections, queue, pc, cur, todo, told, over, listener>>

\* What each thread goes on with afterwards.
AfterRelease(t) == IF t # Control THEN "idle" ELSE IF Loop \subseteq told THEN "reset" ELSE "sleep"

Released(t) ==
    /\ pc[t] = "release" /\ held[t] = {}
    /\ pc' = [pc EXCEPT ![t] = AfterRelease(t)]
    /\ UNCHANGED <<owner, connections, callbacks, queue, conn, cur, held, todo,
                   told, over, listener, fatal>>

-----------------------------------------------------------------------------
(* The main loop. *)

MainIdle == pc[Main] = "idle" /\ Main \notin over

\* A client connects: the kernel queues it and reports a new edge.
Connect(c) ==
    /\ c \in env.clients /\ conn[c].st = "new" /\ Main \notin told
    /\ conn' = [conn EXCEPT ![c].st = "backlog"]
    /\ backlog' = Append(backlog, c)
    /\ edge' = TRUE
    /\ UNCHANGED <<owner, connections, callbacks, queue, pc, cur, held, todo, told,
                   over, accepted, starved, reused, env, fatal>>

\* OnReadable, called for the edge: accept until the backlog is empty.
OnReadable ==
    /\ MainIdle /\ edge
    /\ env.quiet => Main \notin told
    /\ edge' = FALSE /\ starved' = FALSE
    /\ pc' = [pc EXCEPT ![Main] = "accept"]
    /\ UNCHANGED <<owner, connections, callbacks, queue, conn, cur, held, todo, told,
                   over, accepted, backlog, reused, env, fatal>>

Free == {fd \in env.fds : owner[fd] = None}

\* fd was closed by a connection the manager still has to be told about.
Unreported(fd) == \E l \in Loop : pc[l] = "remove" /\ conn[cur[l]].fd = fd

\* One client gets the lowest descriptor, and the next sub loop is to create its
\* connection.
Accept ==
    LET c == Head(backlog)
        l == accepted % env.loops
    IN  /\ pc[Main] = "accept" /\ backlog # <<>>
        /\ backlog' = Tail(backlog)
        /\ accepted' = accepted + 1
        /\ \E fd \in Free :
              /\ \A other \in Free : fd <= other
              /\ owner' = [owner EXCEPT ![fd] = c]
              /\ reused' = (reused \/ Unreported(fd))
              /\ conn' = [conn EXCEPT ![c] =
                             [@ EXCEPT !.st = "posted", !.fd = fd, !.loop = l]]
        /\ queue' = [queue EXCEPT ![l] = Append(@, [k |-> "create", c |-> c])]
        /\ UNCHANGED <<connections, callbacks, pc, cur, held, todo, told, over,
                       edge, starved, env, fatal>>

\* Mutant: one accept for each event.
AcceptOnce ==
    /\ pc[Main] = "accept" /\ (backlog = <<>> \/ accepted > 0)
    /\ pc' = [pc EXCEPT ![Main] = "idle"]
    /\ UNCHANGED <<owner, connections, callbacks, queue, conn, cur, held, todo, told,
                   over, listener, fatal>>

\* EAGAIN ends the loop.
AcceptNoMore ==
    /\ pc[Main] = "accept" /\ backlog = <<>>
    /\ pc' = [pc EXCEPT ![Main] = "idle"]
    /\ UNCHANGED <<owner, connections, callbacks, queue, conn, cur, held, todo, told,
                   over, listener, fatal>>

\* Another error ends it as well, and so does the want of a descriptor when there is
\* no reserve to close or the second accept fails: the clients wait on.
AcceptFails ==
    /\ pc[Main] = "accept" /\ backlog # <<>> /\ env.fails
    /\ starved' = TRUE
    /\ pc' = [pc EXCEPT ![Main] = "idle"]
    /\ UNCHANGED <<owner, connections, callbacks, queue, conn, cur, held, todo, told,
                   over, accepted, backlog, edge, reused, env, fatal>>

\* The first client is taken from the backlog and closed.
TurnAway ==
    /\ pc[Main] = "accept" /\ backlog # <<>>
    /\ backlog' = Tail(backlog)
    /\ conn' = [conn EXCEPT ![Head(backlog)].st = "closed"]
    /\ UNCHANGED <<owner, connections, callbacks, queue, cur, held, todo, told, over,
                   accepted, edge, reused, env, fatal>>

\* HandleAcceptError: no descriptor is left, in the process or in the system.  The
\* reserve is closed, the first client accepted with it and closed, the reserve
\* opened again, and the loop left, whoever else is waiting.  The same comes of an
\* accept that fails because its client is gone.
AcceptVictim ==
    /\ TurnAway /\ (Free = {} \/ env.fails)
    /\ starved' = (Tail(backlog) # <<>>)
    /\ pc' = [pc EXCEPT ![Main] = "idle"]

\* SetNonBlocking fails: the client is closed, and the loop goes on.
AcceptDrops ==
    /\ TurnAway /\ Free # {} /\ env.fails
    /\ UNCHANGED <<starved, pc>>

Evicted == {c \in Conn : Live(c) /\ ~conn[c].used /\ ~conn[c].out
                         /\ connections[conn[c].fd] = c}

\* Mutant: idle connections are dropped, not closed by their loops.
CheckTimeoutsDrops ==
    /\ env.idles /\ MainIdle
    /\ \E idle \in SUBSET Evicted :
          /\ idle # {}
          /\ connections' = [fd \in Fd |->
                 IF connections[fd] \in idle THEN None ELSE connections[fd]]
          /\ held' = [held EXCEPT ![Main] = idle]
    /\ pc' = [pc EXCEPT ![Main] = "release"]
    /\ UNCHANGED <<owner, callbacks, queue, conn, cur, todo, told, over, listener,
                   fatal>>

\* CheckTimeouts, under the mutex: closed connections are forgotten, idle ones
\* are taken out to be closed.
CheckTimeouts ==
    /\ env.idles /\ MainIdle
    /\ \E idle \in SUBSET Evicted :
          /\ connections' = [fd \in Fd |->
                 IF connections[fd] # None
                    /\ (~Live(connections[fd]) \/ connections[fd] \in idle)
                 THEN None ELSE connections[fd]]
          /\ connections' # connections
          /\ held' = [held EXCEPT ![Main] = idle]
          /\ todo' = [todo EXCEPT ![Main] = idle]
          /\ pc' = [pc EXCEPT ![Main] = IF idle = {} THEN "idle" ELSE "post"]
    /\ UNCHANGED <<owner, callbacks, queue, conn, cur, told, over, listener,
                   fatal>>

\* A Close task is posted to the loop of a connection taken out of the map,
\* by the idle check or by CloseAll.
PostClose(t, c) ==
    LET l == conn[c].loop
    IN  /\ pc[t] = "post" /\ c \in todo[t]
        /\ queue' = IF t = Main \/ Live(c)
                    THEN [queue EXCEPT ![l] = Append(@, [k |-> "close", c |-> c])]
                    ELSE queue
        /\ todo' = [todo EXCEPT ![t] = @ \ {c}]
        /\ UNCHANGED <<owner, connections, callbacks, conn, pc, cur, held, told,
                       over, listener, fatal>>

Posted(t) ==
    /\ pc[t] = "post" /\ todo[t] = {}
    /\ pc' = [pc EXCEPT ![t] = "release"]
    /\ UNCHANGED <<owner, connections, callbacks, queue, conn, cur, held, todo,
                   told, over, listener, fatal>>

-----------------------------------------------------------------------------
(* A sub loop. *)

Take(l, k) ==
    /\ pc[l] = "idle" /\ l \notin over /\ queue[l] # <<>> /\ Head(queue[l]).k = k
    /\ queue' = [queue EXCEPT ![l] = Tail(@)]

\* CreateConnection: the connection enters the map...
Create(l) ==
    LET c == Head(queue[l]).c
    IN  /\ Take(l, "create")
        /\ conn' = [conn EXCEPT ![c].st = "live"]
        /\ connections' = [connections EXCEPT ![conn[c].fd] = c]
        /\ held' = [held EXCEPT ![l] = {c}]
        /\ cur' = [cur EXCEPT ![l] = c]
        /\ pc' = [pc EXCEPT ![l] = "register"]
        /\ UNCHANGED <<owner, callbacks, todo, told, over, listener, fatal>>

\* ... and registers its callback,
Register(l) ==
    /\ pc[l] = "register"
    /\ callbacks' = [callbacks EXCEPT ![l][conn[cur[l]].fd] = cur[l]]
    /\ pc' = [pc EXCEPT ![l] = "release"]
    /\ UNCHANGED <<owner, connections, queue, conn, cur, held, todo, told, over,
                   listener, fatal>>

\* Remove(fd): whatever the map holds under fd is taken out, and dropped.
Forget(l, fd) ==
    /\ connections' = [connections EXCEPT ![fd] = None]
    /\ held' = [held EXCEPT ![l] = @ \cup ({connections[fd]} \ {None})]

\* ... or fails to, and is removed and closed.
RegisterFails(l) ==
    /\ env.fails /\ pc[l] = "register"
    /\ Forget(l, conn[cur[l]].fd)
    /\ pc' = [pc EXCEPT ![l] = "mark"]
    /\ UNCHANGED <<owner, callbacks, queue, conn, cur, todo, told, over,
                   listener, fatal>>

\* A ready event: the connection lives on, with or without output left, or
\* closes.
Event(l, c) ==
    /\ pc[l] = "idle" /\ l \notin over
    /\ Live(c) /\ callbacks[l][conn[c].fd] = c
    /\ held' = [held EXCEPT ![l] = {c}]
    /\ cur' = [cur EXCEPT ![l] = c]
    /\ \/ /\ \E out \in {FALSE, env.slow} :
                conn' = [conn EXCEPT ![c] = [@ EXCEPT !.used = TRUE, !.out = out]]
          /\ pc' = [pc EXCEPT ![l] = "release"]
       \/ /\ pc' = [pc EXCEPT ![l] = "mark"]
          /\ UNCHANGED conn
    /\ UNCHANGED <<owner, connections, callbacks, queue, todo, told, over,
                   listener, fatal>>

\* A posted Close: nothing when closed already; otherwise the output left is
\* sent first, and stays when the client is slow.
CloseTask(l) ==
    LET c == Head(queue[l]).c
    IN  /\ Take(l, "close")
        /\ held' = [held EXCEPT ![l] = {c}]
        /\ cur' = [cur EXCEPT ![l] = c]
        /\ \/ Live(c) /\ pc' = [pc EXCEPT ![l] = "mark"]
           \/ (~Live(c) \/ conn[c].out) /\ pc' = [pc EXCEPT ![l] = "release"]
        /\ UNCHANGED <<owner, connections, callbacks, conn, todo, told, over,
                       listener, fatal>>

\* Mutant: the callback stays registered.
MarkKeepsCallback(l) ==
    /\ pc[l] = "mark"
    /\ conn' = [conn EXCEPT ![cur[l]] = [@ EXCEPT !.st = "closed", !.out = FALSE]]
    /\ pc' = [pc EXCEPT ![l] = "closefd"]
    /\ UNCHANGED <<owner, connections, callbacks, queue, cur, held, todo, told,
                   over, listener, fatal>>

\* MarkClosed, in three steps: the callback goes,
Mark(l) ==
    /\ pc[l] = "mark"
    /\ conn' = [conn EXCEPT ![cur[l]] = [@ EXCEPT !.st = "closed", !.out = FALSE]]
    /\ callbacks' = [callbacks EXCEPT ![l][conn[cur[l]].fd] = None]
    /\ pc' = [pc EXCEPT ![l] = "closefd"]
    /\ UNCHANGED <<owner, connections, queue, cur, held, todo, told, over,
                   listener, fatal>>

\* Mutant: the descriptor is not closed.
CloseFdLeaks(l) ==
    /\ pc[l] = "closefd"
    /\ pc' = [pc EXCEPT ![l] = "remove"]
    /\ UNCHANGED <<owner, connections, callbacks, queue, conn, cur, held, todo,
                   told, over, listener, fatal>>

\* the descriptor is closed, and free from here on,
CloseFd(l) ==
    /\ pc[l] = "closefd"
    /\ owner' = [owner EXCEPT ![conn[cur[l]].fd] = None]
    /\ pc' = [pc EXCEPT ![l] = "remove"]
    /\ UNCHANGED <<connections, callbacks, queue, conn, cur, held, todo, told,
                   over, listener, fatal>>

\* and the manager is told.
Remove(l) ==
    /\ pc[l] = "remove"
    /\ Forget(l, conn[cur[l]].fd)
    /\ pc' = [pc EXCEPT ![l] = "release"]
    /\ UNCHANGED <<owner, callbacks, queue, conn, cur, todo, told, over,
                   listener, fatal>>

-----------------------------------------------------------------------------
(* The shutdown. *)

\* Run() stops the main loop and Shutdown begins.
Shutdown ==
    /\ env.stops /\ pc[Control] = "idle"
    /\ env.quiet => pc[Main] # "accept" /\ \A c \in Conn : conn[c].st # "posted"
    /\ told' = told \cup {Main}
    /\ pc' = [pc EXCEPT ![Control] = "closeall"]
    /\ UNCHANGED <<owner, connections, callbacks, queue, conn, cur, held, todo,
                   over, listener, fatal>>

\* Mutant: the connections are used after the mutex without a reference.
CloseAllKeepsNone ==
    /\ pc[Control] = "closeall"
    /\ connections' = [fd \in Fd |-> None]
    /\ todo' = [todo EXCEPT ![Control] = {connections[fd] : fd \in Fd} \ {None}]
    /\ pc' = [pc EXCEPT ![Control] = "post"]
    /\ UNCHANGED <<owner, callbacks, queue, conn, cur, held, told, over, listener,
                   fatal>>

\* CloseAll takes every connection out of the map.
CloseAll ==
    LET all == {connections[fd] : fd \in Fd} \ {None}
    IN  /\ pc[Control] = "closeall"
        /\ connections' = [fd \in Fd |-> None]
        /\ held' = [held EXCEPT ![Control] = all]
        /\ todo' = [todo EXCEPT ![Control] = all]
        /\ pc' = [pc EXCEPT ![Control] = "post"]
        /\ UNCHANGED <<owner, callbacks, queue, conn, cur, told, over, listener,
                       fatal>>

\* The 50 ms are over, and EventLoopPool::Stop stops every loop.
StopPool ==
    /\ pc[Control] = "sleep"
    /\ env.prompt =>
          Main \in over /\ \A l \in Loop : queue[l] = <<>> /\ pc[l] = "idle"
    /\ told' = Loop \cup {Main}
    /\ pc' = [pc EXCEPT ![Control] = "join"]
    /\ UNCHANGED <<owner, connections, callbacks, queue, conn, cur, held, todo,
                   over, listener, fatal>>

\* A loop ends after the iteration it is in; tasks posted during its last
\* batch stay in the queue.
End(t) ==
    /\ t \in told \ over /\ pc[t] = "idle"
    /\ over' = over \cup {t}
    /\ UNCHANGED <<owner, connections, callbacks, queue, conn, pc, cur, held,
                   todo, told, listener, fatal>>

\* Joined loops are destroyed, their queues with them.
Join ==
    /\ pc[Control] = "join" /\ Loop \cup {Main} \subseteq over
    /\ held' = [held EXCEPT ![Control] = {c \in Conn : Queued(c)}]
    /\ queue' = [l \in Loop |-> <<>>]
    /\ pc' = [pc EXCEPT ![Control] = "release"]
    /\ UNCHANGED <<owner, connections, callbacks, conn, cur, todo, told, over,
                   listener, fatal>>

\* ~ConnectionManager closes what is in the map, through loops that are gone.
Reset ==
    /\ pc[Control] = "reset"
    /\ fatal' = IF \E fd \in Fd : connections[fd] # None /\ Live(connections[fd])
                THEN "dangling loop" ELSE fatal
    /\ connections' = [fd \in Fd |-> None]
    /\ pc' = [pc EXCEPT ![Control] = "done"]
    /\ UNCHANGED <<owner, callbacks, queue, conn, cur, held, todo, told, over,
                   listener>>

-----------------------------------------------------------------------------
Init ==
    /\ env \in Config
    /\ backlog = <<>> /\ edge = FALSE /\ starved = FALSE /\ reused = FALSE
    /\ owner = [fd \in Fd |-> None] /\ connections = [fd \in Fd |-> None]
    /\ callbacks = [l \in Loop |-> [fd \in Fd |-> None]]
    /\ queue = [l \in Loop |-> <<>>]
    /\ conn = [c \in Conn |-> [st |-> "new", fd |-> -1, loop |-> -1,
                               used |-> FALSE, out |-> FALSE]]
    /\ pc = [t \in Thread |-> "idle"] /\ cur = [l \in Loop |-> None]
    /\ held = [t \in Thread |-> {}] /\ todo = [t \in Thread |-> {}]
    /\ told = {} /\ over = {} /\ accepted = 0 /\ fatal = ""

LoopStep(l) ==
    \/ Create(l) \/ Register(l) \/ RegisterFails(l) \/ CloseTask(l)
    \/ Mark(l) \/ CloseFd(l) \/ Remove(l) \/ Released(l)
    \/ \E c \in Conn : Release(l, c)

Post(t) == Posted(t) \/ Released(t) \/ \E c \in Conn : PostClose(t, c) \/ Release(t, c)

ListenerStep ==
    OnReadable \/ Accept \/ AcceptNoMore \/ AcceptFails \/ AcceptVictim \/ AcceptDrops

ShutdownStep == CloseAll \/ Post(Control) \/ StopPool \/ Join \/ Reset

Next ==
    /\ fatal = ""
    /\ \/ \E l \in Loop : LoopStep(l) \/ \E c \in Conn : Event(l, c)
       \/ \E c \in Conn : Connect(c)
       \/ ListenerStep
       \/ CheckTimeouts \/ Post(Main)
       \/ Shutdown \/ ShutdownStep
       \/ \E t \in Loop \cup {Main} : End(t)

Spec == Init /\ [][Next]_vars

\* A thread finishes what it has begun.  A loop looks at its queue in every
\* iteration, however many events keep it busy in between.
FairSpec ==
    /\ Spec
    /\ \A l \in Loop :
          /\ WF_vars(fatal = "" /\ LoopStep(l))
          /\ SF_vars(fatal = "" /\ (Create(l) \/ CloseTask(l)))
    /\ WF_vars(fatal = "" /\ Post(Main))
    /\ WF_vars(fatal = "" /\ ListenerStep)
    /\ WF_vars(fatal = "" /\ ShutdownStep)
    /\ \A t \in Loop \cup {Main} : WF_vars(fatal = "" /\ End(t))

-----------------------------------------------------------------------------
TypeOK ==
    /\ env \in Config /\ backlog \in Seq(Conn)
    /\ {edge, starved, reused} \subseteq BOOLEAN /\ accepted \in Nat
    /\ owner \in [Fd -> Conn \cup {None}] /\ connections \in [Fd -> Conn \cup {None}]
    /\ callbacks \in [Loop -> [Fd -> Conn \cup {None}]]
    /\ queue \in [Loop -> Seq(Task)]
    /\ pc \in [Thread -> {"idle", "accept", "post", "release", "register", "mark", "closefd",
                          "remove", "closeall", "sleep", "join", "reset", "done"}]
    /\ conn \in [Conn -> Peer]
    /\ held \in [Thread -> SUBSET Conn] /\ todo \in [Thread -> SUBSET Conn]
    /\ cur \in [Loop -> Conn \cup {None}]
    /\ told \subseteq Loop \cup {Main} /\ over \subseteq told
    /\ fatal \in {"", "wrong thread", "dangling loop"}
    /\ \A t \in Thread : todo[t] \subseteq held[t]

\* A callback is called for a descriptor of its own connection only, and a live
\* connection owns its socket: no connection reads, writes or closes the
\* socket of another, however fast descriptors are reused.
OwnSocket ==
    /\ \A l \in Loop, fd \in Fd :
          callbacks[l][fd] # None => owner[fd] = callbacks[l][fd]
    /\ \A c \in Conn : Live(c) => owner[conn[c].fd] = c

\* The process does not die: the last reference to an open connection is
\* dropped by the thread of its loop, and no loop is used after its end.  Needs
\* that no descriptor was reused too early, a prompt and quiet shutdown, and,
\* wherever other threads close connections, clients that read what is sent.
Survives ==
    /\ ~reused
    /\ env.slow => ~env.stops /\ ~env.idles
    /\ env.stops => env.prompt /\ env.quiet
    => fatal = ""

\* Connection::Close and the destructor keep every loop's connections to that
\* loop, so the process never aborts (connection.cpp:310).
NeverDies == fatal = ""

\* A clean shutdown leaves no connection open and no descriptor behind.
AllClosed ==
    env.prompt /\ env.quiet /\ pc[Control] = "done" => \A fd \in Fd : owner[fd] = None

\* A closed connection leaves the map, and one taken out of the map is closed: in a
\* server that runs, registrations and accepts failing or not, and in a shutdown that
\* leaves the loops the time they need.  A descriptor reused before its removal is
\* excepted, and a shutdown cut short after 50 ms.
Forgotten ==
    \A c \in Conn :
        (conn[c].st = "closed" \/ (Live(c) /\ connections[conn[c].fd] # c))
            ~> \/ conn[c].st = "closed" /\ \A fd \in Fd : connections[fd] # c
               \/ reused \/ (env.stops /\ ~env.prompt)

\* Every client that waits is accepted or closed, although the poller reports an edge
\* once: unless the listener left its loop before EAGAIN, for want of a descriptor or
\* because accept failed in another way, when those that still wait do so until the
\* next client comes, or the server is stopped or dies.
Welcomed ==
    backlog # <<>> ~> backlog = <<>> \/ starved \/ Main \in told \/ fatal # ""
=============================================================================
