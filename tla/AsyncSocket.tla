---------------------------- MODULE AsyncSocket ----------------------------
(***************************************************************************)
(* AsyncSocket: a socket whose non-blocking sends, by any thread, go       *)
(* through a ring buffer that the loop flushes when the socket is          *)
(* writable.  A mutex guards the ring buffer; _eventType, which all        *)
(* threads read and write back in enable...Notify, has none.  The ring     *)
(* buffer is what RingBuffer implements: BoundedFifo.                      *)
(*                                                                         *)
(* The socket lives throughout: its destruction is not modelled, nor is    *)
(* the blocking send, which goes past the ring buffer.                     *)
(***************************************************************************)
EXTENDS Naturals, Sequences

CONSTANTS
    Msgs,            \* what is sent, each once
    MsgLen,          \* bytes in each
    Capacity,        \* bytes the ring buffer takes
    Room,            \* bytes the socket's send buffer takes
    Loop,            \* the event thread
    Others,          \* other threads that use the socket
    Free,            \* value of `lock' when no thread holds _bufMutex
    Refused,         \* what RingBuffer::write returns when there is no room
    Calls,           \* <<where, what>>: user code, and what it calls
    MaxTasks         \* bound: other threads call nothing when this much waits

Threads == Others \cup {Loop}

\* Where user code runs: on another thread, or on the loop, in tasks and other
\* sockets' handlers ("idle") and in this socket's callbacks.
Places == {"other", "idle", "read", "writeCb"}

ASSUME SizeAssumption == {MsgLen, Capacity, Room, MaxTasks} \subseteq Nat \ {0}
ASSUME ThreadAssumption == Loop \notin Others /\ Free \notin Threads
ASSUME CallsAssumption == Calls \subseteq Places \X {"send", "enableRead", "flush"}

VARIABLES
    ring,            \* _ringSendBuf, oldest byte first
    segment,         \* what firstSegment pointed at
    lock,            \* the holder of _bufMutex
    eventType,       \* _eventType, as the set of its bits
    interest,        \* what epoll watches the socket for
    inMap,           \* the socket is in _event_map and in epoll
    tasks,           \* closures dispatched to the loop
    pc,              \* where each thread is in a method of the socket
    val,             \* what each thread is to store, or has stored, in _eventType
    at,              \* where the loop is in onEvent
    ev,              \* the events of this onEvent
    room,            \* free bytes in the socket's send buffer
    inbox,           \* there is something to read
    broken,          \* the connection is gone: send fails
    accepted,        \* history: bytes that send took, in order
    sent             \* history: bytes the kernel took

bufVars == <<ring, segment, accepted>>
typeVars == <<eventType, interest>>
loopVars == <<inMap, at, ev>>
callVars == <<pc, val>>
netVars == <<room, inbox, broken, sent>>

vars == <<bufVars, lock, typeVars, tasks, loopVars, callVars, netVars>>

Byte == Msgs \X (1..MsgLen)
Bits == {"Read", "Write"}

Data(m) == [i \in 1..MsgLen |-> <<m, i>>]

Ring == INSTANCE BoundedFifo WITH
    Bytes <- Byte, MaxLen <- MsgLen, content <- ring, result <- segment

TypeOK ==
    /\ {ring, segment, accepted, sent} \subseteq Seq(Byte)
    /\ Len(ring) <= Capacity
    /\ lock \in Threads \cup {Free}
    /\ eventType \in SUBSET Bits /\ interest \in SUBSET Bits
    /\ tasks \in Seq({"add", "modify"} \X SUBSET Bits)
    /\ pc \in [Threads -> {"user", "store", "modify", "flush", "segment"}]
    /\ val \in [Threads -> SUBSET Bits]
    /\ at \in {"idle", "read", "write", "writeCb"}
    /\ ev \in SUBSET Bits
    /\ room \in 0..Room
    /\ {inMap, inbox, broken} \subseteq BOOLEAN

\* Made by the loop, or by another thread, which dispatches addEvent; its maker
\* turns reading on before others see the socket.
Init ==
    /\ ring = <<>> /\ segment = <<>> /\ accepted = <<>> /\ sent = <<>>
    /\ lock = Free
    /\ eventType = {"Read"}
    /\ \/ inMap = TRUE /\ interest = {"Read"} /\ tasks = <<>>
       \/ /\ inMap = FALSE /\ interest = {} /\ Others # {}
          /\ tasks = <<<<"add", {}>>, <<"modify", {"Read"}>>>>
    /\ pc = [t \in Threads |-> "user"]
    /\ val = [t \in Threads |-> {}]
    /\ at = "idle" /\ ev = {}
    /\ room = Room /\ inbox = FALSE /\ broken = FALSE

-----------------------------------------------------------------------------
(* enableReadNotify, enableWriteNotify: read _eventType, store it with a   *)
(* bit changed, and pass what is there to modifyEvent.                     *)

Enable(t, type) ==
    /\ pc' = [pc EXCEPT ![t] = "store"]
    /\ val' = [val EXCEPT ![t] = type]

Store(t) ==
    /\ pc[t] = "store"
    /\ pc' = [pc EXCEPT ![t] = "modify"]
    /\ eventType' = val[t]
    /\ UNCHANGED <<bufVars, lock, interest, tasks, loopVars, val, netVars>>

\* leave the method, and the mutex if it was taken
Leave(t) ==
    /\ pc' = [pc EXCEPT ![t] = "user"]
    /\ lock' = IF lock = t THEN Free ELSE lock
    /\ at' = IF t = Loop /\ at = "write" THEN "writeCb" ELSE at

\* On the loop at once, for a socket it knows; from other threads as a task.
ModifyEvent(t) ==
    /\ pc[t] = "modify"
    /\ Leave(t)
    /\ val' = [val EXCEPT ![t] = {}]
    /\ \E type \in {val[t], eventType} :
          IF t = Loop
          THEN /\ interest' = IF inMap THEN type ELSE interest
               /\ UNCHANGED tasks
          ELSE /\ tasks' = Append(tasks, <<"modify", type>>)
               /\ UNCHANGED interest
    /\ UNCHANGED <<bufVars, eventType, inMap, ev, netVars>>

-----------------------------------------------------------------------------
(* What user code calls.                                                   *)

May(t, what) ==
    /\ pc[t] = "user"
    /\ <<IF t = Loop THEN at ELSE "other", what>> \in Calls
    /\ t # Loop => Len(tasks) < MaxTasks

Fresh(m) == \A i \in DOMAIN accepted : accepted[i][1] # m

Fits == Len(ring) + MsgLen <= Capacity

\* When there is no room send returns -99 and leaves everything as it is.
Send(t, m) ==
    /\ May(t, "send")
    /\ Fresh(m)
    /\ lock = Free
    /\ Fits
    /\ ring' = ring \o Data(m) /\ UNCHANGED segment
    /\ accepted' = accepted \o Data(m)
    /\ lock' = t
    /\ Enable(t, eventType \cup {"Write"})
    /\ UNCHANGED <<typeVars, tasks, loopVars, netVars>>

EnableRead(t, enable) ==
    /\ May(t, "enableRead")
    /\ Enable(t, IF enable THEN eventType \cup {"Read"} ELSE eventType \ {"Read"})
    /\ UNCHANGED <<bufVars, lock, typeVars, tasks, loopVars, netVars>>

-----------------------------------------------------------------------------
(* flushBuf, by onWritable on the loop, or by anyone.                      *)

\* mutant of FlushLocks: the mutex is not taken
FlushUnlocked(t) ==
    /\ \/ t = Loop /\ at = "write" /\ pc[t] = "user"
       \/ May(t, "flush")
    /\ pc' = [pc EXCEPT ![t] = "flush"]
    /\ UNCHANGED <<bufVars, lock, typeVars, tasks, loopVars, val, netVars>>

FlushLocks(t) ==
    /\ \/ t = Loop /\ at = "write" /\ pc[t] = "user"
       \/ May(t, "flush")
    /\ lock = Free
    /\ lock' = t
    /\ pc' = [pc EXCEPT ![t] = "flush"]
    /\ UNCHANGED <<bufVars, typeVars, tasks, loopVars, val, netVars>>

\* mutant of FlushNext: without looking at dataSize
FlushNextBlind(t) ==
    /\ pc[t] = "flush"
    /\ Ring!Front
    /\ pc' = [pc EXCEPT ![t] = "segment"]
    /\ UNCHANGED <<accepted, lock, typeVars, tasks, loopVars, val, netVars>>

FlushNext(t) ==
    /\ pc[t] = "flush"
    /\ ring # <<>>
    /\ Ring!Front
    /\ pc' = [pc EXCEPT ![t] = "segment"]
    /\ UNCHANGED <<accepted, lock, typeVars, tasks, loopVars, val, netVars>>

\* mutant of SendSegment: one segment per flush, and no more interest
SendOneSegment(t) ==
    /\ pc[t] = "segment"
    /\ ~broken
    /\ room > 0
    /\ LET n == Ring!Shorter(Len(segment), room)
       IN  /\ Ring!Drop(n)
           /\ sent' = sent \o SubSeq(segment, 1, n)
           /\ room' = room - n
    /\ Enable(t, eventType \ {"Write"})
    /\ UNCHANGED <<accepted, lock, typeVars, tasks, loopVars, inbox, broken>>

SendSegment(t) ==
    /\ pc[t] = "segment"
    /\ ~broken
    /\ room > 0
    /\ LET n == Ring!Shorter(Len(segment), room)
       IN  /\ Ring!Drop(n)
           /\ sent' = sent \o SubSeq(segment, 1, n)
           /\ room' = room - n
    /\ pc' = [pc EXCEPT ![t] = "flush"]
    /\ UNCHANGED <<accepted, lock, typeVars, tasks, loopVars, val, inbox, broken>>

\* EAGAIN: later
SegmentAgain(t) ==
    /\ pc[t] = "segment"
    /\ ~broken
    /\ room = 0
    /\ Enable(t, eventType \cup {"Write"})
    /\ UNCHANGED <<bufVars, lock, typeVars, tasks, loopVars, netVars>>

\* any other error
SegmentFails(t) ==
    /\ pc[t] = "segment"
    /\ broken
    /\ Leave(t)
    /\ UNCHANGED <<bufVars, typeVars, tasks, inMap, ev, val, netVars>>

FlushEmpty(t) ==
    /\ pc[t] = "flush"
    /\ ring = <<>>
    /\ Enable(t, eventType \ {"Write"})
    /\ UNCHANGED <<bufVars, lock, typeVars, tasks, loopVars, netVars>>

-----------------------------------------------------------------------------
(* The loop.                                                               *)

RunTask ==
    /\ at = "idle" /\ pc[Loop] = "user"
    /\ tasks # <<>>
    /\ tasks' = Tail(tasks)
    /\ LET type == Head(tasks)[2]
       IN  IF Head(tasks)[1] = "add"
           THEN inMap' = TRUE /\ interest' = type
           ELSE interest' = (IF inMap THEN type ELSE interest) /\ UNCHANGED inMap
    /\ UNCHANGED <<bufVars, lock, eventType, at, ev, callVars, netVars>>

Ready == {e \in interest : IF e = "Write" THEN room > 0 \/ broken ELSE inbox \/ broken}

Poll ==
    /\ at = "idle" /\ pc[Loop] = "user"
    /\ Ready # {}
    /\ ev' = Ready
    /\ at' = IF "Read" \in Ready THEN "read" ELSE "write"
    /\ UNCHANGED <<bufVars, lock, typeVars, tasks, inMap, callVars, netVars>>

\* _readCallback reads what there is, and returns
ReadDone ==
    /\ at = "read" /\ pc[Loop] = "user"
    /\ inbox' = FALSE
    /\ at' = IF "Write" \in ev THEN "write" ELSE "idle"
    /\ UNCHANGED <<bufVars, lock, typeVars, tasks, inMap, ev, callVars, room, broken, sent>>

WriteDone ==
    /\ at = "writeCb" /\ pc[Loop] = "user"
    /\ at' = "idle"
    /\ UNCHANGED <<bufVars, lock, typeVars, tasks, inMap, ev, callVars, netVars>>

-----------------------------------------------------------------------------
(* The peer.                                                               *)

PeerReads ==
    /\ room < Room
    /\ room' = room + 1
    /\ UNCHANGED <<bufVars, lock, typeVars, tasks, loopVars, callVars, inbox, broken, sent>>

PeerSends ==
    /\ ~inbox /\ ~broken
    /\ inbox' = TRUE
    /\ UNCHANGED <<bufVars, lock, typeVars, tasks, loopVars, callVars, room, broken, sent>>

PeerResets ==
    /\ ~broken
    /\ broken' = TRUE
    /\ UNCHANGED <<bufVars, lock, typeVars, tasks, loopVars, callVars, room, inbox, sent>>

-----------------------------------------------------------------------------

Enabling(t) == Store(t) \/ ModifyEvent(t)

Flushing(t) ==
    FlushNext(t) \/ SendSegment(t) \/ SegmentAgain(t) \/ SegmentFails(t) \/ FlushEmpty(t)

Method(t) == FlushLocks(t) \/ Flushing(t) \/ Enabling(t)

Next ==
    \/ \E t \in Threads, m \in Msgs : Send(t, m)
    \/ \E t \in Threads, enable \in BOOLEAN : EnableRead(t, enable)
    \/ \E t \in Threads : Method(t)
    \/ RunTask \/ Poll \/ ReadDone \/ WriteDone
    \/ PeerReads \/ PeerSends \/ PeerResets

Spec == Init /\ [][Next]_vars

\* Threads go on in the methods they are in, callbacks return, and a peer that
\* does not go away reads.  A pass of the loop takes both the events and the
\* tasks that there are, so neither can keep it from the other.
FairSpec ==
    /\ Spec
    /\ \A t \in Threads : WF_vars(Flushing(t) \/ Enabling(t))
    /\ WF_vars(FlushLocks(Loop))
    /\ SF_vars(RunTask) /\ SF_vars(Poll) /\ SF_vars(ReadDone) /\ SF_vars(WriteDone)
    /\ WF_vars(PeerReads)

-----------------------------------------------------------------------------
(* Properties.                                                             *)

\* However senders, the loop's flush and flushes by others interleave: the
\* kernel gets the bytes of the accepted messages in the order in which send
\* took them, each once, and the rest is in the ring buffer.
BytesInOrder == accepted = sent \o ring

\* flushBuf's assertion: firstSegment never answers with an empty segment.
SegmentHasBytes == \A t \in Threads : pc[t] = "segment" => segment # <<>>

\* With the types: what the methods leave between their steps is as it should be.
SendersSafe == TypeOK /\ SegmentHasBytes

\* What send took reaches the kernel, unless the connection breaks: bytes in the ring
\* buffer are never left there with the socket no more watched for writing.  The mutex
\* gives this as long as only send and the loop's flush change _eventType: turning
\* reading on and off beside another thread's send, or a flush by another thread,
\* breaks it.
EverythingSent ==
    \A n \in 1..(2 * MsgLen) : (Len(accepted) >= n) ~> (Len(sent) >= n \/ broken)

=============================================================================
