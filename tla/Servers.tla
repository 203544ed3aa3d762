------------------------------- MODULE Servers -------------------------------
(***************************************************************************)
(* TcpServer and UdpServer with their sessions and connections, spread     *)
(* over the threads of EventThreadPool: accept, close, the map             *)
(* _conn_session, the threads' maps of events, and descriptors, which the  *)
(* kernel gives out again as soon as they are closed.                      *)
(*                                                                         *)
(* A handler goes step by step where other threads may see it half done:   *)
(* Connection::close, its callback and the end of it; the lines of         *)
(* UdpServer::onEvent; Server::destroy.  A call of _conn_session, which    *)
(* has no lock, and the test and the setting of _closing are one step each *)
(* here.  The server is started by any thread, once, and destroyed on its  *)
(* own.  An entry of the map of events whose connection is closed is not   *)
(* called into: in the code that connection is gone.                       *)
(***************************************************************************)
EXTENDS Integers, Sequences, FiniteSets, FiniteSetsExt, Functions, SequencesExt

CONSTANTS
    Pool,              \* the threads, in the order of _threads
    Main,              \* the server's _thread
    Fds,               \* descriptors, but for the listening socket's
    ListenFd,          \* the listening socket's
    Peers,             \* addresses of clients
    MaxConns,          \* bound on the connections ever made
    MaxArrivals,       \* bound on what clients do
    IdleDestroys       \* onManager destroys its session, as the demo's does after 10 seconds

PoolThreads == {Pool[i] : i \in DOMAIN Pool}

ASSUME ServerAssumption ==
    /\ Pool \in Seq(PoolThreads) /\ Main \in PoolThreads
    /\ Fds \subseteq Nat /\ IsFiniteSet(Fds) /\ ListenFd \notin Fds
    /\ {MaxConns, MaxArrivals} \subseteq Nat /\ IdleDestroys \in BOOLEAN

VARIABLES
    kind,              \* "tcp" or "udp"
    srv,               \* all of the program's state
    kernel             \* what is ready on each descriptor, and for whom

serverVars == <<kind, srv, kernel>>

-----------------------------------------------------------------------------
(* EventThread's map of events, and the pool.  `on' is the thread that     *)
(* runs; operators return the program's state.                             *)

Task(name, fd, c) == [task |-> name, fd |-> fd, conn |-> c]
Dispatched(s, t, task) == [s EXCEPT !.tasks[t] = Append(@, task)]
DispatchedFirst(s, t, task) == [s EXCEPT !.tasks[t] = <<task>> \o @]

\* emplace: an entry that is there stays
Emplaced(map, key, value) ==
    [k \in DOMAIN map \cup {key} |-> IF k \in DOMAIN map THEN map[k] ELSE value]
Erased(map, keys) == Restrict(map, DOMAIN map \ keys)

AddEvent(s, t, fd, c, on) ==
    IF on = t THEN [s EXCEPT !.events[t] = Emplaced(@, fd, c),
                               !.polled[t] = @ \cup ({fd} \cap DOMAIN s.owner)]
    ELSE Dispatched(s, t, Task("add", fd, c))

RemoveEvents(s, t, fd, on) ==
    IF on = t THEN [s EXCEPT !.events[t] = Erased(@, {fd}), !.polled[t] = @ \ {fd}]
    ELSE Dispatched(s, t, Task("remove", fd, 0))

\* the first thread with the fewest events
GetIdlestThread(s) ==
    LET count(i) == Cardinality(DOMAIN s.events[Pool[i]])
        least == Min({count(i) : i \in DOMAIN Pool})
    IN  Pool[Min({i \in DOMAIN Pool : count(i) = least})]

-----------------------------------------------------------------------------
(* Connections and the server.  What a handler does in several steps, with *)
(* those of other threads in between, goes by s.doing of its thread.       *)

Doing(step, c) == [at |-> step, conn |-> c]
Resting == Doing("nothing", 0)

\* Session::onConnectionChange(Closed)
Tell(s, c) == [s EXCEPT !.told = @ \cup {c}, !.twice = @ \/ c \in s.told]

\* Server::onConnectionChange on Closed, its first line: the session is looked up
\* without a test, and calling the null one of a connection that is not in the map
\* ends the program.
LookUpAndTell(s, t, c) ==
    IF c \notin s.map THEN [s EXCEPT !.null = TRUE]
    ELSE [Tell(s, c) EXCEPT !.doing[t] = Doing("erase", c)]

\* mutant of EraseSession: the session stays in the map
EraseSessionKeeps(s, t, c) == [s EXCEPT !.doing[t] = Doing("shut", c)]

\* its second line
EraseSession(s, t, c) == [s EXCEPT !.map = @ \ {c}, !.doing[t] = Doing("shut", c)]

\* closing a descriptor takes it out of every epoll
FreeFd(s, fd) ==
    [s EXCEPT !.owner = Erased(@, {fd}), !.polled = [t \in PoolThreads |-> s.polled[t] \ {fd}]]

\* the end of Connection::close
Shut(s, t, c) == [FreeFd(s, s.conns[c].fd) EXCEPT !.doing[t] = Resting]

\* A connection that is closed before the server is done with it, or before its
\* descriptor's addition has run: `early' remembers those.
IsEarly(s, t, c) ==
    \/ s.conns[c].setUp # "taken"
    \/ Task("add", s.conns[c].fd, c) \in Range(s.running[t]) \cup Range(s.tasks[t])

Marked(s, t, c) ==
    [s EXCEPT !.conns[c].closing = TRUE,
              !.early = IF IsEarly(s, t, c) THEN @ \cup {c} ELSE @,
              !.doing[t] = Doing(IF s.conns[c].setUp = "made" THEN "shut" ELSE "tell", c)]

\* mutant of CloseConn: the events of the descriptor are not removed
CloseConnKeepsEvents(s, t, c) == IF s.conns[c].closing THEN s ELSE Marked(s, t, c)

\* Connection::close on the connection's thread, to the callback, if there is one
CloseConn(s, t, c) ==
    IF s.conns[c].closing THEN s ELSE RemoveEvents(Marked(s, t, c), t, s.conns[c].fd, t)

\* Connection::close without notice, on whatever thread: the descriptor's events are
\* removed by its own thread, later if need be.
CloseUntold(s, c, on) ==
    LET conn == s.conns[c]
    IN  IF conn.closing THEN s
        ELSE FreeFd(RemoveEvents([s EXCEPT !.conns[c].closing = TRUE], conn.thread, conn.fd, on), conn.fd)

\* accept, or socket: a connection on the lowest number that is free
NewConn(s, peer, setUp) ==
    LET fd == Min({f \in Fds : f \notin DOMAIN s.owner})
        c == Len(s.conns) + 1
    IN  [s EXCEPT !.conns = Append(@, [thread |-> GetIdlestThread(s), fd |-> fd, peer |-> peer,
                                       closing |-> FALSE, setUp |-> setUp]),
                  !.owner = Emplaced(@, fd, c)]

\* Connection::attach
Attach(s, c) == AddEvent(s, s.conns[c].thread, s.conns[c].fd, c, Main)

\* TcpServer::onEvent: nobody knows of the connection before it is attached, in the end
NewSession(s, peer) ==
    LET c == Len(s.conns) + 1
    IN  Attach([NewConn(s, peer, "taken") EXCEPT !.map = @ \cup {c}], c)

\* ~Connection of those on this thread, in closures the shared pointers' deleters dispatch
Released(s, cs) ==
    [s EXCEPT !.tasks[Main] = @ \o SetToSeq({Task("delete", 0, c) : c \in cs})]

\* the listening socket, if there is one, is closed
Silenced(s) ==
    [(IF ListenFd \in DOMAIN s.owner THEN FreeFd(RemoveEvents(s, Main, ListenFd, Main), ListenFd)
      ELSE s) EXCEPT !.state = "destroyed"]

\* Server::destroy: sessions of other threads are destroyed one after another, at once
Destroy(s) ==
    [Silenced(s) EXCEPT !.doomed = {c \in s.map : s.conns[c].thread # Main},
                        !.doing[Main] = Doing("destroy", 0)]

\* and those of this thread go with the map.
DestroyNext(s) ==
    IF s.doomed = {}
    THEN Released([s EXCEPT !.map = {}, !.doing[Main] = Resting], {c \in s.map : s.conns[c].thread = Main})
    ELSE LET c == Min(s.doomed) IN CloseUntold([s EXCEPT !.doomed = @ \ {c}], c, Main)

\* Session::onManager of a connection, on whatever thread
Manage(s, c, on) == IF IdleDestroys THEN CloseUntold(s, c, on) ELSE s

\* Server::onManager, in the timer of thread t: sessions of other threads are
\* managed on the server's thread (one such closure at a time for each, a bound)
OnManager(s, t) ==
    LET mine == {c \in s.map : s.conns[c].thread = t \/ t = Main}
        asked == {Task("manage", 0, c) : c \in s.map \ mine} \ Range(s.tasks[Main])
        managed == IF IdleDestroys THEN FoldSet(LAMBDA c, r : CloseUntold(r, c, t), s, mine) ELSE s
    IN  [managed EXCEPT !.tasks[Main] = @ \o SetToSeq(asked)]

-----------------------------------------------------------------------------
(* UdpServer::onEvent: one datagram, in the order of its lines.            *)

ExistingConn(s, peer) == {c \in s.map : s.conns[c].peer = peer}

\* The socket is attached, and heard, before anything else knows of the connection.
OnDatagram(s, peer) ==
    LET known == ExistingConn(s, peer)
        c == Len(s.conns) + 1
    IN  IF known # {} THEN [s EXCEPT !.doing[Main] = Doing("hand", Min(known))]
        ELSE [Attach(NewConn(s, peer, "made"), c) EXCEPT !.doing[Main] = Doing("callback", c)]

SetCallback(s, c) ==
    [s EXCEPT !.conns[c].setUp = "called", !.doing[Main] = Doing("insert", c)]
Insert(s, c) == [s EXCEPT !.map = @ \cup {c}, !.doing[Main] = Doing("takeover", c)]

\* Session::takeoverConn of a connection that is attached
TakeOver(s, c) == [s EXCEPT !.conns[c].setUp = "taken", !.doing[Main] = Doing("hand", c)]

\* handleReceivedData, of a closed connection as well: the session may close, and a
\* connection without a session is closed.
Received(s, t, c, closes) ==
    IF closes \/ s.conns[c].setUp # "taken" THEN CloseConn(s, t, c) ELSE s

\* The data goes to the front of the queue of another thread.
Hand(s, c, closes) ==
    LET rested == [s EXCEPT !.doing[Main] = Resting]
        t == s.conns[c].thread
    IN  IF t = Main THEN Received(rested, Main, c, closes)
        ELSE DispatchedFirst(rested, t, Task("received", 0, c))

\* the next step of what thread t does
Continued(s, t, closes) ==
    LET c == s.doing[t].conn IN
    CASE s.doing[t].at = "tell"     -> LookUpAndTell(s, t, c)
      [] s.doing[t].at = "erase"    -> EraseSession(s, t, c)
      [] s.doing[t].at = "shut"     -> Shut(s, t, c)
      [] s.doing[t].at = "destroy"  -> DestroyNext(s)
      [] s.doing[t].at = "callback" -> SetCallback(s, c)
      [] s.doing[t].at = "insert"   -> Insert(s, c)
      [] s.doing[t].at = "takeover" -> TakeOver(s, c)
      [] s.doing[t].at = "hand"     -> Hand(s, c, closes)

RunTask(s, t, task, closes) ==
    CASE task.task = "add"      -> AddEvent(s, t, task.fd, task.conn, t)
      [] task.task = "remove"   -> RemoveEvents(s, t, task.fd, t)
      [] task.task = "delete"   -> CloseUntold(s, task.conn, t)
      [] task.task = "manage"   -> Manage(s, task.conn, t)
      [] task.task = "received" -> Received(s, t, task.conn, closes)

-----------------------------------------------------------------------------
(* The loops.                                                              *)

Nothing == [t \in PoolThreads |-> {}]
Up == srv.state = "up"
AtRest(t) == srv.doing[t].at = "nothing"
Idle(t) == AtRest(t) /\ srv.running[t] = <<>>
ConnFds == DOMAIN srv.owner \ {ListenFd}

ServersInit ==
    /\ kind \in {"tcp", "udp"}
    /\ srv = [state |-> "new", map |-> {}, conns |-> <<>>, told |-> {}, twice |-> FALSE, null |-> FALSE,
              early |-> {}, doomed |-> {}, doing |-> [t \in PoolThreads |-> Resting], owner |-> <<>>, tasks |-> [t \in PoolThreads |-> <<>>],
              running |-> [t \in PoolThreads |-> <<>>],
              events |-> [t \in PoolThreads |-> <<>>], polled |-> Nothing, batch |-> Nothing]
    /\ kernel = [listening |-> <<>>, ready |-> {}, arrivals |-> 0]

\* start, by the loop or by a thread of the user's.  A socket that cannot be bound, or
\* on which listen fails, stays the server's, and open.
Started(on, fails) ==
    LET opened == [srv EXCEPT !.owner = Emplaced(@, ListenFd, 0)]
    IN  CASE fails = "socket" -> [srv EXCEPT !.state = "failed"]
          [] fails \in {"bind", "listen"} -> [opened EXCEPT !.state = "failed"]
          [] fails = "nothing" -> AddEvent([opened EXCEPT !.state = "up"], Main, ListenFd, 0, on)

StartTcp(on, fails) ==
    /\ kind = "tcp" /\ srv.state = "new"
    /\ srv' = Started(on, fails)
    /\ UNCHANGED <<kind, kernel>>

StartUdp(on, fails) ==
    /\ kind = "udp" /\ srv.state = "new" /\ fails # "listen"
    /\ srv' = Started(on, fails)
    /\ UNCHANGED <<kind, kernel>>

\* A client connects, or a datagram comes that no connected socket is for.
ClientComes(peer) ==
    /\ kernel.arrivals < MaxArrivals /\ Up
    /\ kind = "udp" => ~\E fd \in ConnFds : srv.conns[srv.owner[fd]].peer = peer
    /\ kernel' = [kernel EXCEPT !.listening = Append(@, peer), !.arrivals = @ + 1]
    /\ UNCHANGED <<kind, srv>>

\* A connection's peer sends something, or ends.
PeerActs(fd, what) ==
    /\ kernel.arrivals < MaxArrivals
    /\ kind = "udp" => what = "data"
    /\ kernel' = [kernel EXCEPT !.ready = @ \cup {<<srv.owner[fd], what>>}, !.arrivals = @ + 1]
    /\ UNCHANGED <<kind, srv>>

\* epoll_wait: what is ready on the descriptors watched, tagged with the connection
\* that has the descriptor.  The pipe is ready when there are tasks.
Ready(t) ==
    {[fd |-> fd, of |-> srv.owner[fd], what |-> "event"] :
        fd \in {f \in srv.polled[t] \ {ListenFd} : \E r \in kernel.ready : r[1] = srv.owner[f]}}
    \cup (IF ListenFd \in srv.polled[t] /\ kernel.listening # <<>>
          THEN {[fd |-> ListenFd, of |-> 0, what |-> "event"]} ELSE {})
    \cup (IF srv.tasks[t] # <<>> THEN {[fd |-> ListenFd, of |-> 0, what |-> "tasks"]} ELSE {})

EpollWait(t) ==
    /\ Idle(t) /\ srv.batch[t] = {} /\ Ready(t) # {}
    /\ srv' = [srv EXCEPT !.batch[t] = Ready(t)]
    /\ UNCHANGED <<kind, kernel>>

\* The timers run before epoll_wait.
ManagerTimer(t) ==
    /\ Idle(t) /\ srv.batch[t] = {} /\ Up
    /\ srv' = OnManager(srv, t)
    /\ UNCHANGED <<kind, kernel>>

\* onPipeEvent takes the whole queue, and runs its closures one after another.
OnPipeEvent(t) ==
    \E e \in srv.batch[t] :
        /\ Idle(t) /\ e.what = "tasks"
        /\ srv' = [srv EXCEPT !.batch[t] = @ \ {e}, !.tasks[t] = <<>>, !.running[t] = srv.tasks[t]]
        /\ UNCHANGED <<kind, kernel>>

RunNext(t) ==
    /\ AtRest(t) /\ srv.running[t] # <<>>
    /\ \E closes \in BOOLEAN :
          srv' = RunTask([srv EXCEPT !.running[t] = Tail(@)], t, Head(srv.running[t]), closes)
    /\ UNCHANGED <<kind, kernel>>

Continue(t) ==
    /\ ~AtRest(t)
    /\ \E closes \in BOOLEAN : srv' = Continued(srv, t, closes)
    /\ UNCHANGED <<kind, kernel>>

\* accept, or recvfrom
OnListenEvent ==
    \E e \in srv.batch[Main] :
        LET s == [srv EXCEPT !.batch[Main] = @ \ {e}]
            peer == Head(kernel.listening)
        IN  /\ Idle(Main) /\ e.what = "event" /\ e.of = 0
            /\ Len(srv.conns) < MaxConns /\ Cardinality(ConnFds) < Cardinality(Fds)
            /\ srv' = IF ListenFd \notin DOMAIN srv.events[Main] \/ kernel.listening = <<>> THEN s
                      ELSE IF kind = "tcp" THEN NewSession(s, peer) ELSE OnDatagram(s, peer)
            /\ kernel' = [kernel EXCEPT !.listening = IF @ = <<>> THEN @ ELSE Tail(@)]
            /\ UNCHANGED kind

\* The callback of the entry is called, whatever connection the event was of: it
\* reads its own socket; the session may close, and the end of the peer does.
OnConnEvent(t, closes) ==
    \E e \in srv.batch[t] :
        LET s == [srv EXCEPT !.batch[t] = @ \ {e}]
            c == s.events[t][e.fd]
            ended == <<c, "fin">> \in kernel.ready
        IN  /\ Idle(t) /\ e.what = "event" /\ e.of # 0
            /\ IF e.fd \notin DOMAIN s.events[t] \/ s.conns[c].closing THEN srv' = s /\ UNCHANGED kernel
               ELSE /\ srv' = Received(s, t, c, ended \/ closes)
                    /\ kernel' = [kernel EXCEPT !.ready = {r \in @ : r[1] # c}]
            /\ UNCHANGED kind

\* The server is destroyed on its thread, in a timer, a task or a callback of the user's.
DestroyServer ==
    /\ srv.state \in {"up", "failed"} /\ AtRest(Main)
    /\ srv' = Destroy(srv)
    /\ UNCHANGED <<kind, kernel>>

\* The program goes on until a null session is called.
ServersNext ==
    /\ ~srv.null
    /\ \/ \E on \in {Main, "user"}, fails \in {"socket", "bind", "listen", "nothing"} :
             StartTcp(on, fails) \/ StartUdp(on, fails)
       \/ \E p \in Peers : ClientComes(p)
       \/ \E fd \in ConnFds, what \in {"data", "fin"} : PeerActs(fd, what)
       \/ \E t \in PoolThreads : EpollWait(t) \/ ManagerTimer(t) \/ OnPipeEvent(t) \/ RunNext(t) \/ Continue(t)
       \/ OnListenEvent
       \/ \E t \in PoolThreads, closes \in BOOLEAN : OnConnEvent(t, closes)
       \/ DestroyServer

ServersSpec == ServersInit /\ [][ServersNext]_serverVars

-----------------------------------------------------------------------------
(* Properties.                                                             *)

\* An open descriptor of a connection or of a started server is watched by its thread
\* as itself, or its addition or the end of Connection::close is on its way, or the
\* entry of a connection that was closed early is in its place: UdpServer hands the
\* data over before the addition has run.
OpenIsWatched ==
    \A fd \in DOMAIN srv.owner :
        LET c == srv.owner[fd]  t == IF c = 0 THEN Main ELSE srv.conns[c].thread IN
        \/ c = 0 /\ srv.state = "failed"
        \/ /\ fd \in DOMAIN srv.events[t]
           /\ srv.events[t][fd] \in srv.early \/ (srv.events[t][fd] = c /\ fd \in srv.polled[t])
        \/ Task("add", fd, c) \in Range(srv.running[t]) \cup Range(srv.tasks[t])
        \/ c # 0 /\ srv.conns[c].closing /\ srv.doing[t].conn = c

\* What a destroyed server had is closed when all closures have run, also when it
\* was never quite started, or destroyed while other threads closed.
DestroyReleases ==
    /\ srv.state = "destroyed"
    /\ \A t \in PoolThreads : srv.tasks[t] = <<>> /\ Idle(t)
    => srv.owner = <<>>

\* The map holds open connections, one that its thread is about to take out, or one
\* that was closed early: that one stays, and its peer is never served again.
MapHoldsOpen ==
    srv.state # "destroyed" =>
        \A c \in srv.map \ srv.early :
            srv.conns[c].closing =>
                LET now == srv.doing[srv.conns[c].thread] IN now.conn = c /\ now.at \in {"tell", "erase"}

\* A session is told of its end once, and is found in the map when it is, but in a
\* server that is being destroyed, or by a connection that is closed early.
ToldOnce == ~srv.twice /\ (srv.null => srv.state = "destroyed" \/ srv.early # {})

\* Only connections of a UdpServer with other threads than its own are closed early.
EarlyIsUdp == \A c \in srv.early : kind = "udp" /\ srv.conns[c].thread # Main

\* A peer has one session at a time.
OneSessionPerPeer ==
    kind = "udp" => \A c, d \in srv.map : srv.conns[c].peer = srv.conns[d].peer => c = d

\* The map of sessions is what it is taken for, whatever threads meet inside a close
\* and inside a datagram's handler: the sessions of open connections, one for each
\* peer, each told of its end once; all but for the connections closed early.
SessionsSound == MapHoldsOpen /\ OneSessionPerPeer /\ ToldOnce /\ EarlyIsUdp

\* A descriptor of a server's is watched while it is open, and closed in the end.
DescriptorsSound == OpenIsWatched /\ DestroyReleases

=============================================================================
