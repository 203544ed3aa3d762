----------------------------- MODULE Connection -----------------------------
(***************************************************************************)
(* One TCP Connection, plain (no TLS): its write buffer, its interest in   *)
(* events and its life, between the loop of its EventThread and the        *)
(* threads that write to it.                                               *)
(*                                                                         *)
(* Only the loop closes a connection here; any thread writes.  The loop's  *)
(* closures are TaskService's: first come, first served.  A Buffer is the  *)
(* bytes of one message, so that _writeBuf is the concatenation of what    *)
(* its Buffers still hold: the boundary is where the message changes.      *)
(*                                                                         *)
(* _eventType is read and written by all threads without a lock.  Whoever  *)
(* updates it and then passes it to modifyEvent may pass the value it      *)
(* stored or read the member again: both are what the code compiles to.    *)
(* That the update itself can be torn adds nothing, as writers only ever   *)
(* set the one bit that the loop clears.                                   *)
(***************************************************************************)
EXTENDS Integers, Sequences, FiniteSets

CONSTANTS
    Msgs,            \* what is written, each once
    MsgLen,          \* bytes in each
    Room,            \* bytes the socket's send buffer takes
    MaxIn,           \* bound on the messages the peer sends
    Callers,         \* threads other than the loop's that write
    ClientMode,      \* made by createClient (else by a TcpServer)
    Calls,           \* <<where, what>>: user code on the loop, and what it calls
    Nobody           \* value of `by' while the connection is open

Ops == {"write", "close", "afterWrite", "reset"}

\* Where user code runs on the loop: outside of this connection's events, and in
\* the callbacks.
UserPcs == {"idle", "polled", "established", "written", "message"}

\* What closes a connection.
Closers == {"user", "afterWrite", "send", "read", "hangup"}

ASSUME SizeAssumption == MsgLen \in Nat \ {0} /\ Room \in Nat \ {0} /\ MaxIn \in Nat
ASSUME ModeAssumption == ClientMode \in BOOLEAN
ASSUME CallsAssumption == Calls \subseteq UserPcs \X Ops
ASSUME NobodyAssumption == Nobody \notin Closers

VARIABLES
    writeBuf,        \* _writeBuf
    tmp,             \* realSend's writeBufTmp
    eventType,       \* _eventType, as the set of its bits
    interest,        \* what epoll watches the socket for
    inMap,           \* the socket is in _event_map and in epoll
    closing,         \* _closing
    flag,            \* _closeAfterWrite
    connected,       \* _clientModeConnected
    tasks,           \* closures dispatched to the loop
    pc,              \* where the loop is
    reg,             \* what the loop last stored in _eventType
    ev,              \* the events onEvent still has to handle
    cpc,             \* where each caller is
    cmsg,            \* what each caller is writing
    creg,            \* what each caller read from or stored in _eventType
    start,           \* how far startConnect, or the server's attach, has come
    link,            \* "none", "connecting", "up", "fin", "gone": the TCP connection
    room,            \* free bytes in the socket's send buffer
    inbox,           \* unread messages
    heard,           \* messages the peer has sent
    accepted,        \* history: bytes put in _writeBuf, in order
    sent,            \* history: bytes the kernel took
    told,            \* history: what _connectionCb was called with
    asked,           \* history: the user asked for the end
    by,              \* history: what closed the connection
    owed             \* history: bytes accepted when closeAfterWrite was called

bufVars == <<writeBuf, tmp, accepted>>
typeVars == <<eventType, interest>>
endVars == <<inMap, closing, told, by>>
loopVars == <<pc, reg, ev>>
callerVars == <<cpc, cmsg, creg>>
netVars == <<link, room, inbox, heard>>
askVars == <<flag, asked, owed>>
restVars == <<callerVars, netVars, askVars, connected, tasks, start>>

vars == <<bufVars, typeVars, endVars, loopVars, callerVars, netVars, askVars,
          connected, tasks, start, sent>>

Data(m) == [i \in 1..MsgLen |-> <<m, i>>]

Byte == Msgs \X (1..MsgLen)

Bits == {"Read", "Write"}
Events == Bits \cup {"Hangup", "Error"}

TypeOK ==
    /\ writeBuf \in Seq(Byte) /\ tmp \in Seq(Byte)
    /\ accepted \in Seq(Byte) /\ sent \in Seq(Byte)
    /\ eventType \in SUBSET Bits /\ interest \in SUBSET Bits
    /\ {inMap, closing, flag, connected, asked} \subseteq BOOLEAN
    /\ tasks \in Seq({"add", "modify"} \X SUBSET Bits)
    /\ pc \in UserPcs \cup {"onEvent", "tell", "swap", "send", "rollback", "drained", "unset"}
    /\ reg \in SUBSET Bits
    /\ ev \in SUBSET Events
    /\ cpc \in [Callers -> {"idle", "push", "set", "modify"}]
    /\ cmsg \in [Callers -> Msgs] /\ creg \in [Callers -> SUBSET Bits]
    /\ start \in {"new", "attached", "connected", "set", "done"}
    /\ link \in {"none", "connecting", "up", "fin", "gone"}
    /\ room \in 0..Room /\ inbox \in 0..MaxIn /\ heard \in 0..MaxIn
    /\ told \in Seq({"Established", "Closed"})
    /\ by \in Closers \cup {Nobody}
    /\ owed \in Nat

Init ==
    /\ writeBuf = <<>> /\ tmp = <<>> /\ accepted = <<>> /\ sent = <<>>
    /\ eventType = {"Read"} /\ interest = {} /\ inMap = FALSE
    /\ closing = FALSE /\ flag = FALSE /\ connected = FALSE
    /\ tasks = <<>>
    /\ pc = "idle" /\ reg = {} /\ ev = {}
    /\ cpc = [c \in Callers |-> "idle"]
    /\ cmsg \in [Callers -> Msgs]
    /\ creg = [c \in Callers |-> {}]
    /\ start = "new"
    /\ link = (IF ClientMode THEN "none" ELSE "up")
    /\ room = Room /\ inbox = 0 /\ heard = 0
    /\ told = <<>> /\ asked = FALSE /\ by = Nobody /\ owed = 0

-----------------------------------------------------------------------------
(* EventThread: addEvent, modifyEvent, removeEvents.                       *)

\* on the loop's thread, at once; for a socket it does not know, nothing
Modify(type) == interest' = IF inMap THEN type ELSE interest

\* on another thread
Dispatch(what, type) == tasks' = Append(tasks, <<what, type>>)

\* the value passed to modifyEvent: what was stored, or what is there now
Passed(stored) == {stored, eventType}

RunTask ==
    /\ pc = "idle"
    /\ tasks # <<>>
    /\ tasks' = Tail(tasks)
    /\ LET what == Head(tasks)[1]
           type == Head(tasks)[2]
       IN  \/ what = "add" /\ inMap' = TRUE /\ interest' = type
           \/ what = "modify" /\ Modify(type) /\ UNCHANGED inMap
    /\ UNCHANGED <<bufVars, eventType, closing, told, by, loopVars, callerVars,
                   netVars, askVars, connected, start, sent>>

-----------------------------------------------------------------------------
(* attach and startConnect, on any thread: a server attaches from its      *)
(* listener's, which may be another one than the connection's.             *)

Attached == start = "new" /\ start' = (IF ClientMode THEN "attached" ELSE "done")

AttachOnLoop ==
    /\ Attached
    /\ pc = "idle"
    /\ inMap' = TRUE
    /\ interest' = eventType
    /\ UNCHANGED <<bufVars, eventType, closing, told, by, loopVars, callerVars,
                   netVars, askVars, connected, tasks, sent>>

Attach ==
    /\ Attached
    /\ Dispatch("add", eventType)
    /\ UNCHANGED <<bufVars, typeVars, endVars, loopVars, callerVars, netVars,
                   askVars, connected, sent>>

\* connect(): under way, or refused at once
Connect ==
    /\ start = "attached"
    /\ \/ start' = "connected" /\ link' = "connecting"
       \/ start' = "done" /\ UNCHANGED link
    /\ UNCHANGED <<bufVars, typeVars, endVars, loopVars, callerVars, room, inbox,
                   heard, askVars, connected, tasks, sent>>

WatchConnect ==
    /\ start = "connected"
    /\ start' = "set"
    /\ eventType' = {"Write"}
    /\ UNCHANGED <<bufVars, interest, endVars, loopVars, callerVars, netVars,
                   askVars, connected, tasks, sent>>

ConnectWatched ==
    /\ start = "set"
    /\ start' = "done"
    /\ \E type \in Passed({"Write"}) : Dispatch("modify", type)
    /\ UNCHANGED <<bufVars, typeVars, endVars, loopVars, callerVars, netVars,
                   askVars, connected, sent>>

-----------------------------------------------------------------------------
(* write, on a thread that is not the loop's.                              *)

\* m has not been written, and no other thread is about to
Fresh(m) ==
    /\ \A i \in DOMAIN accepted : accepted[i][1] # m
    /\ \A c \in Callers : cpc[c] = "push" => cmsg[c] # m

CallerWrites(c, m) ==
    /\ cpc[c] = "idle"
    /\ ~closing
    /\ Fresh(m)
    /\ cpc' = [cpc EXCEPT ![c] = "push"]
    /\ cmsg' = [cmsg EXCEPT ![c] = m]
    /\ UNCHANGED <<bufVars, typeVars, endVars, loopVars, creg, netVars, askVars,
                   connected, tasks, start, sent>>

CallerPushes(c) ==
    /\ cpc[c] = "push"
    /\ cpc' = [cpc EXCEPT ![c] = "set"]
    /\ writeBuf' = writeBuf \o Data(cmsg[c])
    /\ accepted' = accepted \o Data(cmsg[c])
    /\ creg' = [creg EXCEPT ![c] = eventType]
    /\ UNCHANGED <<tmp, typeVars, endVars, loopVars, cmsg, netVars, askVars,
                   connected, tasks, start, sent>>

\* No lock is held: what others store in _eventType after this thread read it may
\* be lost.
CallerSets(c) ==
    /\ cpc[c] = "set"
    /\ cpc' = [cpc EXCEPT ![c] = "modify"]
    /\ \E read \in Passed(creg[c]) : eventType' = read \cup {"Write"}
    /\ creg' = [creg EXCEPT ![c] = eventType']
    /\ UNCHANGED <<bufVars, interest, endVars, loopVars, cmsg, netVars, askVars,
                   connected, tasks, start, sent>>

CallerModifies(c) ==
    /\ cpc[c] = "modify"
    /\ cpc' = [cpc EXCEPT ![c] = "idle"]
    /\ creg' = [creg EXCEPT ![c] = {}]
    /\ \E type \in Passed(creg[c]) : Dispatch("modify", type)
    /\ UNCHANGED <<bufVars, typeVars, endVars, loopVars, cmsg, netVars, askVars,
                   connected, start, sent>>

-----------------------------------------------------------------------------
(* What user code on the loop does: in tasks, in other sockets' handlers,  *)
(* and in this connection's callbacks.                                     *)

\* mutant of CloseBy: _closing is not looked at
CloseAgain(why) ==
    /\ closing' = TRUE
    /\ inMap' = FALSE
    /\ interest' = {}
    /\ told' = Append(told, "Closed")
    /\ by' = why

\* close and reset: the socket is forgotten, _connectionCb called, the socket
\* closed.  All that the callback can do to this connection is nothing.
CloseBy(why) ==
    IF closing THEN UNCHANGED <<endVars, interest>>
    ELSE /\ closing' = TRUE
         /\ inMap' = FALSE
         /\ interest' = {}
         /\ told' = Append(told, "Closed")
         /\ by' = why

\* mutant of UserWrites: modifyEvent is not called
WritesUnwatched(m) ==
    /\ <<pc, "write">> \in Calls
    /\ ~closing
    /\ Fresh(m)
    /\ writeBuf' = writeBuf \o Data(m)
    /\ accepted' = accepted \o Data(m)
    /\ eventType' = eventType \cup {"Write"}
    /\ UNCHANGED <<tmp, interest, endVars, loopVars, restVars, sent>>

UserWrites(m) ==
    /\ <<pc, "write">> \in Calls
    /\ ~closing
    /\ Fresh(m)
    /\ writeBuf' = writeBuf \o Data(m)
    /\ accepted' = accepted \o Data(m)
    /\ eventType' = eventType \cup {"Write"}
    /\ Modify(eventType')
    /\ UNCHANGED <<tmp, endVars, loopVars, restVars, sent>>

UserCloses ==
    /\ \E op \in {"close", "reset"} : <<pc, op>> \in Calls
    /\ ~closing
    /\ CloseBy("user")
    /\ asked' = TRUE
    /\ UNCHANGED <<bufVars, eventType, loopVars, callerVars, netVars, flag, owed,
                   connected, tasks, start, sent>>

\* mutant of CloseAfterWrite: close at once
CloseAtOnce ==
    /\ CloseBy("afterWrite")
    /\ UNCHANGED flag

CloseAfterWrite ==
    IF writeBuf = <<>> THEN CloseBy("afterWrite") /\ UNCHANGED flag
    ELSE flag' = TRUE /\ UNCHANGED <<endVars, interest>>

UserClosesAfterWrite ==
    /\ <<pc, "afterWrite">> \in Calls
    /\ ~closing /\ ~flag
    /\ CloseAfterWrite
    /\ asked' = TRUE
    /\ owed' = Len(accepted)
    /\ UNCHANGED <<bufVars, eventType, loopVars, callerVars, netVars, connected,
                   tasks, start, sent>>

-----------------------------------------------------------------------------
(* The loop: epoll, onEvent and its handlers.                              *)

\* what epoll reports: a socket that is not connected, or no more, is writable
\* and hung up
Ready == {e \in Events :
    \/ /\ e = "Write" /\ e \in interest
       /\ link \in {"none", "gone"} \/ (link \in {"up", "fin"} /\ room > 0)
    \/ e = "Read" /\ e \in interest /\ (inbox > 0 \/ link \in {"fin", "gone"})
    \/ e = "Hangup" /\ link \in {"none", "gone"}
    \/ e = "Error" /\ link = "gone"}

\* epoll_wait; handlers of other sockets run before this one's
Poll ==
    /\ pc = "idle"
    /\ inMap /\ ~closing
    /\ Ready # {}
    /\ ev' = Ready
    /\ pc' = "polled"
    /\ UNCHANGED <<bufVars, typeVars, endVars, reg, restVars, sent>>

\* the map is looked up again for each event
CallOnEvent ==
    /\ pc = "polled"
    /\ IF inMap THEN pc' = "onEvent" /\ UNCHANGED ev ELSE pc' = "idle" /\ ev' = {}
    /\ UNCHANGED <<bufVars, typeVars, endVars, reg, restVars, sent>>

\* the rest of onEvent is skipped
Return == pc' = "idle" /\ ev' = {} /\ UNCHANGED reg

HandleWrite ==
    /\ pc = "onEvent"
    /\ "Write" \in ev
    /\ ~ClientMode \/ connected \/ closing
    /\ IF closing THEN Return
       ELSE pc' = "swap" /\ ev' = ev \ {"Write"} /\ UNCHANGED reg
    /\ UNCHANGED <<bufVars, typeVars, endVars, restVars, sent>>

\* a client's first event of this kind means that it is connected
HandleConnect ==
    /\ pc = "onEvent"
    /\ "Write" \in ev
    /\ ClientMode /\ ~connected /\ ~closing
    /\ connected' = TRUE
    /\ eventType' = {"Read"}
    /\ reg' = {"Read"}
    /\ pc' = "tell"
    /\ ev' = ev \ {"Write"}
    /\ UNCHANGED <<bufVars, interest, endVars, callerVars, netVars, askVars, tasks,
                   start, sent>>

TellConnected ==
    /\ pc = "tell"
    /\ pc' = "established"
    /\ \E type \in Passed(reg) : Modify(type)
    /\ told' = Append(told, "Established")
    /\ UNCHANGED <<bufVars, eventType, inMap, closing, by, reg, ev, restVars, sent>>

\* realSend follows the callback whatever that did
ToldConnected ==
    /\ pc = "established"
    /\ pc' = "swap"
    /\ UNCHANGED <<bufVars, typeVars, endVars, reg, ev, restVars, sent>>

Swap ==
    /\ pc = "swap"
    /\ tmp' = writeBuf
    /\ writeBuf' = <<>>
    /\ pc' = IF writeBuf = <<>> THEN "drained" ELSE "send"
    /\ UNCHANGED <<accepted, typeVars, endVars, reg, ev, restVars, sent>>

\* how many bytes the front Buffer holds
FrontLen == Cardinality({i \in DOMAIN tmp : tmp[i][1] = tmp[1][1]})

Shorter(m, n) == IF m < n THEN m ELSE n

\* send of the front Buffer takes what fits, if anything does
Send ==
    /\ pc = "send"
    /\ link \in {"up", "fin"} /\ room > 0
    /\ LET n == Shorter(FrontLen, room)
       IN  /\ sent' = sent \o SubSeq(tmp, 1, n)
           /\ tmp' = SubSeq(tmp, n + 1, Len(tmp))
           /\ room' = room - n
           /\ pc' = IF n < FrontLen THEN "rollback"
                    ELSE IF n = Len(tmp) THEN "drained" ELSE "send"
    /\ UNCHANGED <<writeBuf, accepted, typeVars, endVars, reg, ev, callerVars, link,
                   inbox, heard, askVars, connected, tasks, start>>

\* send returns -1, because the connection is gone or because nothing fits: both
\* close, and what writeBufTmp holds goes with it
SendFails ==
    /\ pc = "send"
    /\ link \notin {"up", "fin"} \/ room = 0
    /\ CloseBy("send")
    /\ tmp' = <<>>
    /\ Return
    /\ UNCHANGED <<writeBuf, accepted, eventType, restVars, sent>>

\* mutant of Rollback: what was written meanwhile goes first
RollbackBehind ==
    /\ pc = "rollback"
    /\ pc' = "onEvent"
    /\ writeBuf' = writeBuf \o tmp
    /\ tmp' = <<>>
    /\ UNCHANGED <<accepted, typeVars, endVars, reg, ev, restVars, sent>>

\* what is left goes back before what was written meanwhile
Rollback ==
    /\ pc = "rollback"
    /\ pc' = "onEvent"
    /\ writeBuf' = tmp \o writeBuf
    /\ tmp' = <<>>
    /\ UNCHANGED <<accepted, typeVars, endVars, reg, ev, restVars, sent>>

Drained ==
    /\ pc = "drained"
    /\ pc' = "unset"
    /\ eventType' = eventType \ {"Write"}
    /\ reg' = eventType'
    /\ UNCHANGED <<bufVars, interest, endVars, ev, restVars, sent>>

Unset ==
    /\ pc = "unset"
    /\ pc' = "written"
    /\ \E type \in Passed(reg) : Modify(type)
    /\ UNCHANGED <<bufVars, eventType, endVars, reg, ev, restVars, sent>>

\* mutant of Written: _closeAfterWrite is not looked at
WrittenStays ==
    /\ pc = "written"
    /\ pc' = "onEvent"
    /\ UNCHANGED <<bufVars, typeVars, endVars, reg, ev, restVars, sent>>

\* after _writedcb
Written ==
    /\ pc = "written"
    /\ IF flag THEN CloseBy("afterWrite") /\ Return
       ELSE pc' = "onEvent" /\ UNCHANGED <<reg, ev, endVars, interest>>
    /\ UNCHANGED <<bufVars, eventType, restVars, sent>>

Reading == pc = "onEvent" /\ "Write" \notin ev /\ "Read" \in ev

\* mutant of HandleRead: a connection its own callback has closed is read from
HandleReadClosed ==
    /\ Reading
    /\ IF inbox > 0
       THEN /\ inbox' = inbox - 1
            /\ pc' = "message"
            /\ ev' = ev \ {"Read"}
            /\ UNCHANGED <<endVars, interest, reg>>
       ELSE CloseBy("read") /\ Return /\ UNCHANGED inbox
    /\ UNCHANGED <<bufVars, eventType, callerVars, link, room, heard, askVars,
                   connected, tasks, start, sent>>

\* a message, the end of the stream, or an error
HandleRead ==
    /\ Reading
    /\ IF closing THEN Return /\ UNCHANGED <<endVars, interest, inbox>>
       ELSE IF inbox > 0
       THEN /\ inbox' = inbox - 1
            /\ pc' = "message"
            /\ ev' = ev \ {"Read"}
            /\ UNCHANGED <<endVars, interest, reg>>
       ELSE CloseBy("read") /\ Return /\ UNCHANGED inbox
    /\ UNCHANGED <<bufVars, eventType, callerVars, link, room, heard, askVars,
                   connected, tasks, start, sent>>

\* _messageCb returned true, or false
MessageDone ==
    /\ pc = "message"
    /\ \/ pc' = "onEvent" /\ UNCHANGED <<reg, ev>>
       \/ Return
    /\ UNCHANGED <<bufVars, typeVars, endVars, restVars, sent>>

\* handleHangup, handleError
HandleHangup ==
    /\ pc = "onEvent"
    /\ ev # {} /\ ev \cap Bits = {}
    /\ CloseBy("hangup")
    /\ Return
    /\ UNCHANGED <<bufVars, eventType, restVars, sent>>

EventDone ==
    /\ pc = "onEvent"
    /\ ev = {}
    /\ Return
    /\ UNCHANGED <<bufVars, typeVars, endVars, restVars, sent>>

-----------------------------------------------------------------------------
(* The peer and the network.                                               *)

NetUnchanged ==
    UNCHANGED <<bufVars, typeVars, endVars, loopVars, callerVars, askVars, connected,
                tasks, start, sent>>

Links(from, to) ==
    ~closing /\ link \in from /\ link' = to /\ UNCHANGED <<room, inbox, heard>>

PeerReads ==
    /\ ~closing
    /\ room < Room
    /\ room' = room + 1
    /\ UNCHANGED <<link, inbox, heard>>
    /\ NetUnchanged

PeerSends ==
    /\ ~closing
    /\ link = "up"
    /\ heard < MaxIn
    /\ heard' = heard + 1
    /\ inbox' = inbox + 1
    /\ UNCHANGED <<link, room>>
    /\ NetUnchanged

ConnectSucceeds == Links({"connecting"}, "up") /\ NetUnchanged

PeerEnds == Links({"up"}, "fin") /\ NetUnchanged

PeerResets == Links({"connecting", "up", "fin"}, "gone") /\ NetUnchanged

-----------------------------------------------------------------------------

Starting == AttachOnLoop \/ Attach \/ Connect \/ WatchConnect \/ ConnectWatched

Calling == \E c \in Callers : CallerPushes(c) \/ CallerSets(c) \/ CallerModifies(c)

Looping ==
    \/ RunTask \/ Poll \/ CallOnEvent
    \/ HandleWrite \/ HandleConnect \/ TellConnected \/ ToldConnected
    \/ Swap \/ Send \/ SendFails \/ Rollback \/ Drained \/ Unset \/ Written
    \/ HandleRead \/ MessageDone \/ HandleHangup \/ EventDone

User ==
    \/ \E m \in Msgs : UserWrites(m)
    \/ UserCloses
    \/ UserClosesAfterWrite

Peer == PeerReads \/ PeerSends \/ ConnectSucceeds \/ PeerEnds \/ PeerResets

Next ==
    \/ Starting
    \/ Calling
    \/ \E c \in Callers, m \in Msgs : CallerWrites(c, m)
    \/ Looping
    \/ User
    \/ Peer

Spec == Init /\ [][Next]_vars

\* The loop keeps running and returns from the user's callbacks; a thread that
\* has begun a call finishes it; a peer that is there reads.
Fairness ==
    /\ WF_vars(Looping)
    /\ WF_vars(Calling)
    /\ WF_vars(Starting)
    /\ WF_vars(PeerReads)

FairSpec == Spec /\ Fairness

-----------------------------------------------------------------------------
(* Properties.                                                             *)

\* Whatever threads write while the loop has taken the buffer away, is sending
\* from it without the lock and puts the rest back: until the end every byte is
\* in one place and they are sent in the order they were written; what was sent
\* by the end is the beginning of that.
BytesInOrder ==
    \/ ~closing /\ accepted = sent \o tmp \o writeBuf
    \/ closing /\ sent = SubSeq(accepted, 1, Len(sent)) /\ Len(sent) <= Len(accepted)

\* The loop never sends to or reads from a socket that a callback has closed: the
\* number may already be another one's.
UsesOpenSocket == [][closing => pc # "send" /\ inbox' = inbox]_vars

\* The owner hears of the end once, and of nothing else afterwards, however many
\* of the callbacks and handlers of one event want to close.
OneGoodbye ==
    /\ closing => told # <<>> /\ told[Len(told)] = "Closed"
    /\ \A i \in 1..(Len(told) - 1) : told[i] = "Established"

\* A client keeps what a server does, before it is connected and after: bytes in order
\* and one goodbye.
ClientSound == TypeOK /\ BytesInOrder /\ OneGoodbye

\* closeAfterWrite closes only after what had been written when it was called.
AfterWriteSends == by = "afterWrite" => Len(sent) >= owed

\* What the comment over realSend's last part says: what has not been sent is
\* rolled back.  So a connection that nobody closed and whose peer is there
\* loses nothing.
KeepsUnsent ==
    closing /\ ~asked /\ link = "up" => sent = accepted

\* Everything written is sent in the end, or the connection is closed: one that has
\* something to send is never left without being watched for room to send it.
EverythingSent == accepted # sent ~> (accepted = sent \/ closing)

\* A connection that is to be closed after writing is closed.
ClosedInTheEnd == asked ~> closing

=============================================================================
