------------------------------ MODULE TcpClient ------------------------------
(***************************************************************************)
(* TcpClient: the connect of a non-blocking socket, its outcome, the       *)
(* TcpConnection made of it, and reconnects.  startConnect may come at any *)
(* time and from any thread (addEvent then travels as a task); close comes *)
(* from the loop's, as in the destructor of a client that lives on its     *)
(* loop.  Either may be called inside a callback: that is as good as after *)
(* it, but for the error callback of a connection to itself.               *)
(* Each attempt's descriptor has the attempt's number: that the number of  *)
(* a closed descriptor is used again is left to Servers.                   *)
(***************************************************************************)
EXTENDS Integers, Sequences, FiniteSets

CONSTANT MaxAttempts   \* bound on calls of startConnect

ASSUME AttemptsAssumption == MaxAttempts \in Nat \ {0}

VARIABLES
    cli,               \* TcpClient's fields, and whether it has callbacks
    net,               \* for each attempt, what the kernel has of its descriptor
    loop,              \* the thread: descriptors watched, tasks under way
    heard              \* what the callbacks told, in order

tcpClientVars == <<cli, net, loop, heard>>

Attempts == DOMAIN net
NoDescriptor == 0

\* `conn' is the attempt whose descriptor _conn has; `conns' are the connections
\* that exist, with _closing.  `astray' is a history: the attempts whose descriptor
\* _sock no longer tells of, or still does where it is closed or a connection's to close.
ClientInit ==
    /\ cli = [state |-> "disconnected", sock |-> NoDescriptor, conn |-> NoDescriptor, callbacks |-> TRUE,
              conns |-> {}, astray |-> {}]
    /\ net = <<>>
    /\ loop = [watched |-> {}, adding |-> {}, deleting |-> {}]
    /\ heard = <<>>

TellUser(to, event, attempt) ==
    heard' = IF to THEN Append(heard, <<event, attempt>>) ELSE heard

-----------------------------------------------------------------------------
(* What a call makes of s, the fields, descriptors and thread.             *)

Now == [cli |-> cli, net |-> net, loop |-> loop]
Become(s) == cli' = s.cli /\ net' = s.net /\ loop' = s.loop

\* s with other fields
WithCli(s, fields) == [cli |-> fields, net |-> s.net, loop |-> s.loop]

IsOpen(s, n) == s.net[n] \notin {"closed", "twice"}

\* myclose; of a number that is closed already it closes whatever has got that since
CloseSocket(s, n) ==
    [cli |-> s.cli,
     net |-> [s.net EXCEPT ![n] = IF IsOpen(s, n) THEN "closed" ELSE "twice"],
     loop |-> [s.loop EXCEPT !.watched = @ \ {n}]]

\* what is forgotten when _sock changes: a socket that is not a connection's
OnlyInSock(s) == {n \in {s.cli.sock} \ ({NoDescriptor} \cup s.cli.conns) : IsOpen(s, n)}

NetOf == [unbound |-> "closed", fails |-> "idle", connecting |-> "connecting"]

\* startConnect, by a user who has set callbacks: the local address cannot be bound,
\* and _sock keeps the number of what is closed; connect fails at once, and _sock keeps
\* the socket; or it is under way.
AfterStart(s, onLoop, result) ==
    LET n == Len(s.net) + 1
        added == IF result = "connecting" THEN {n} ELSE {}
        stale == IF result = "unbound" THEN {n} ELSE {}
    IN  [cli |-> [s.cli EXCEPT !.sock = n, !.callbacks = TRUE,
                               !.state = IF result = "connecting" THEN "connecting" ELSE @,
                               !.astray = @ \cup OnlyInSock(s) \cup stale],
         net |-> Append(s.net, NetOf[result]),
         loop |-> [s.loop EXCEPT !.watched = IF onLoop THEN @ \cup added ELSE @,
                                 !.adding = IF onLoop THEN @ ELSE @ \cup added]]

\* Connection::close
AfterConnClose(s, c) ==
    IF c \in s.cli.conns THEN CloseSocket(WithCli(s, [s.cli EXCEPT !.conns = @ \ {c}]), c) ELSE s

\* close: a client that has, or has had, a connection closes that one, and not the
\* socket of a reconnect
AfterClose(s) ==
    LET sock == s.cli.sock
        silent(fields) == WithCli(s, [fields EXCEPT !.callbacks = FALSE])
    IN  IF s.cli.conn # NoDescriptor
        THEN AfterConnClose(silent([s.cli EXCEPT !.astray = @ \cup OnlyInSock(s)]), s.cli.conn)
        ELSE IF sock = NoDescriptor THEN silent(s.cli)
        ELSE CloseSocket(silent([s.cli EXCEPT !.sock = NoDescriptor,
                                              !.astray = @ \cup ({sock} \cap s.cli.conns)]), sock)

\* _sock = -1
SockForgotten(s, n) ==
    WithCli(s, [s.cli EXCEPT !.sock = NoDescriptor, !.astray = @ \cup (OnlyInSock(s) \ {n})])

-----------------------------------------------------------------------------
StartConnect(onLoop, result) ==
    /\ Len(net) < MaxAttempts
    /\ Become(AfterStart(Now, onLoop, result))
    /\ UNCHANGED heard

\* The task that addEvent dispatched; epoll refuses a descriptor that is closed.
AddEventTask(n) ==
    /\ n \in loop.adding
    /\ loop' = [loop EXCEPT !.adding = @ \ {n}, !.watched = IF IsOpen(Now, n) THEN @ \cup {n} ELSE @]
    /\ UNCHANGED <<cli, net, heard>>

\* The handshake ends.
Answered(n, how) ==
    /\ net[n] = "connecting"
    /\ net' = [net EXCEPT ![n] = how]
    /\ UNCHANGED <<cli, loop, heard>>

\* The connection _conn had is let go of, and deleted later, on the loop.
LetGo(l, c) == [l EXCEPT !.deleting = @ \cup ({c} \ {NoDescriptor})]

\* onEvent with Write: handleWrite, which does nothing (or asserts) in another state;
\* the connection tells nothing of itself, the client tells Established.
HandleWrite(n) ==
    /\ n \in loop.watched /\ n \notin cli.conns /\ net[n] = "up"
    /\ cli.state = "connecting"
    /\ cli' = [cli EXCEPT !.conn = n, !.conns = @ \cup {n}, !.state = "connected"]
    /\ loop' = LetGo(loop, cli.conn)
    /\ TellUser(cli.callbacks, "established", n)
    /\ UNCHANGED net

\* A connection to itself is let go of at once.
LetGoSelf(n) ==
    [cli |-> [cli EXCEPT !.conn = NoDescriptor, !.conns = @ \cup {n}, !.state = "disconnected"],
     net |-> net,
     loop |-> LetGo(LetGo(loop, cli.conn), n)]

\* What the user does inside the error callback: nothing, another attempt, or close
InErrorCallback(s) ==
    {s} \cup (IF s.cli.callbacks THEN {AfterClose(s)} ELSE {})
        \cup (IF s.cli.callbacks /\ Len(s.net) < MaxAttempts
              THEN {AfterStart(s, TRUE, result) : result \in DOMAIN NetOf} ELSE {})

\* handleWrite of a connection to itself: _sock is forgotten after the callback
HandleWriteSelf(n) ==
    /\ n \in loop.watched /\ n \notin cli.conns /\ net[n] = "self"
    /\ cli.state = "connecting"
    /\ \E s \in InErrorCallback(LetGoSelf(n)) : Become(SockForgotten(s, n))
    /\ TellUser(cli.callbacks, "error", n)

Disconnected(s) == WithCli(s, [s.cli EXCEPT !.state = "disconnected"])

Dropped(n) == Become(CloseSocket(Disconnected(SockForgotten(Now, n)), n))

\* mutant of HandleHangup: the descriptor is not closed
HandleHangupLeaks(n) ==
    /\ n \in loop.watched /\ n \notin cli.conns /\ net[n] = "refused"
    /\ LET s == Disconnected(SockForgotten(Now, n))
       IN  cli' = s.cli /\ net' = s.net /\ loop' = [s.loop EXCEPT !.watched = @ \ {n}]
    /\ TellUser(cli.callbacks, "closed", n)

\* A refused connect is ready with EPOLLHUP and EPOLLERR: the hangup comes first.
HandleHangup(n) ==
    /\ n \in loop.watched /\ n \notin cli.conns /\ net[n] = "refused"
    /\ Dropped(n)
    /\ TellUser(cli.callbacks, "closed", n)

HandleError(n) ==
    /\ n \in loop.watched /\ n \notin cli.conns /\ net[n] = "failed"
    /\ Dropped(n)
    /\ TellUser(cli.callbacks, "error", n)

\* The peer of an established connection ends: Connection::close tells the client,
\* whose _state stays.
PeerEnds(c) ==
    /\ c \in cli.conns /\ c = cli.conn
    /\ Become(AfterConnClose(Now, c))
    /\ TellUser(cli.callbacks, "closed", c)

\* ~Connection, which closes and tells nobody: the closure of the shared pointer's deleter
DeleteTask(c) ==
    /\ c \in loop.deleting
    /\ LET s == AfterConnClose(Now, c)
       IN  cli' = s.cli /\ net' = s.net /\ loop' = [s.loop EXCEPT !.deleting = @ \ {c}]
    /\ UNCHANGED heard

\* The callbacks are gone before the connection closes: it tells nobody.
CloseClient ==
    /\ cli.callbacks
    /\ Become(AfterClose(Now))
    /\ UNCHANGED heard

ClientNext ==
    \/ \E onLoop \in BOOLEAN, result \in DOMAIN NetOf : StartConnect(onLoop, result)
    \/ \E n \in Attempts : \E how \in {"up", "self", "refused", "failed"} : Answered(n, how)
    \/ \E n \in Attempts :
          \/ AddEventTask(n)
          \/ HandleWrite(n)
          \/ HandleWriteSelf(n)
          \/ HandleHangup(n)
          \/ HandleError(n)
          \/ PeerEnds(n)
          \/ DeleteTask(n)
    \/ CloseClient

ClientSpec == ClientInit /\ [][ClientNext]_tcpClientVars

-----------------------------------------------------------------------------
(* Properties.                                                             *)

OpenNow == {n \in Attempts : IsOpen(Now, n)}

\* Every open descriptor is the client's current one, or of a connection that is
\* the client's or on its way to being deleted, unless its number was lost by an
\* attempt beside it, by a close beside a reconnect (which closes the former connection
\* only), or by an attempt made inside the error callback of a connection to itself.
NoSocketLeaks ==
    \A n \in OpenNow : n = cli.sock \/ n = cli.conn \/ n \in loop.deleting \/ n \in cli.astray

\* Every open descriptor is watched, or about to be, also one whose number was lost: its
\* end still comes to the client; but not one whose connect failed at once.
StillHeard ==
    \A n \in OpenNow : n \in loop.watched \cup loop.adding \/ net[n] = "idle"

\* A closed client has nothing open but what is on its way to being deleted, and what
\* it had lost the number of.
ClosedForGood == ~cli.callbacks => OpenNow \subseteq loop.deleting \cup cli.astray

\* A descriptor is closed once, unless its local address could not be bound or close was
\* called inside the error callback of a connection to itself.
ClosedOnce == \A n \in Attempts : net[n] = "twice" => n \in cli.astray

\* An attempt is told of as established once, and as ended, by whichever
\* callback, once and last.
OneEnd ==
    \A i, j \in DOMAIN heard :
        i < j /\ heard[i][2] = heard[j][2] => heard[i][1] = "established" /\ heard[j][1] # "established"

\* However attempts and close meet, sockets and what the user is told come to an end.
AttemptsEnd == NoSocketLeaks /\ StillHeard /\ ClosedForGood /\ ClosedOnce /\ OneEnd

=============================================================================
