-------------------------- MODULE ConnectionProofs --------------------------
(***************************************************************************)
(* Proofs about Connection, for any messages, callers, socket buffer and   *)
(* user code, of a server or of a client.                                  *)
(***************************************************************************)
EXTENDS Connection, SequenceTheorems, FiniteSetTheorems, TLAPS

-----------------------------------------------------------------------------
(* Sequences.                                                              *)

IsBeginning(s, t) == s = SubSeq(t, 1, Len(s)) /\ Len(s) <= Len(t)

\* Beginnings in terms of their elements.
LEMMA BeginningElements ==
  ASSUME NEW S, NEW s \in Seq(S), NEW t \in Seq(S), Len(s) <= Len(t)
  PROVE  IsBeginning(s, t) <=> \A i \in 1..Len(s) : s[i] = t[i]
<1>1. Len(s) \in Nat /\ Len(t) \in Nat
  BY LenProperties
<1>2. \A i \in 1..Len(s) : t[i] \in S
  BY <1>1, ElementOfSeq
<1>3. /\ SubSeq(t, 1, Len(s)) \in Seq(S) /\ Len(SubSeq(t, 1, Len(s))) = Len(s)
      /\ \A i \in 1..Len(s) : SubSeq(t, 1, Len(s))[i] = t[i]
  BY <1>1, <1>2, SubSeqProperties
<1>4. ASSUME \A i \in 1..Len(s) : s[i] = t[i] PROVE s = SubSeq(t, 1, Len(s))
  BY <1>3, <1>4, SeqEqual
<1> QED
  BY <1>3, <1>4 DEF IsBeginning

\* What a concatenation begins with is a beginning of it.
LEMMA ConcatBegins ==
  ASSUME NEW S, NEW s \in Seq(S), NEW r \in Seq(S)
  PROVE  IsBeginning(s, s \o r)
<1>1. /\ s \o r \in Seq(S) /\ Len(s) <= Len(s \o r)
      /\ \A i \in 1..Len(s) : (s \o r)[i] = s[i]
  BY ConcatProperties, LenProperties
<1> QED
  BY <1>1, BeginningElements

\* A beginning stays one when the sequence grows.
LEMMA BeginningGrows ==
  ASSUME NEW S, NEW s \in Seq(S), NEW t \in Seq(S), NEW r \in Seq(S), IsBeginning(s, t)
  PROVE  IsBeginning(s, t \o r)
<1>1. Len(s) \in Nat /\ Len(t) \in Nat /\ Len(s) <= Len(t)
  BY LenProperties DEF IsBeginning
<1>2. \A i \in 1..Len(s) : s[i] = t[i]
  BY <1>1, BeginningElements
<1>3. /\ t \o r \in Seq(S) /\ Len(t) <= Len(t \o r)
      /\ \A i \in 1..Len(t) : (t \o r)[i] = t[i]
  BY ConcatProperties, LenProperties
<1>4. Len(s) <= Len(t \o r) /\ \A i \in 1..Len(s) : s[i] = (t \o r)[i]
  BY <1>1, <1>2, <1>3, LenProperties
<1> QED
  BY <1>3, <1>4, BeginningElements

\* The bytes of a message.
LEMMA DataIsSeq == \A m \in Msgs : Data(m) \in Seq(Byte)
BY SizeAssumption DEF Data, Byte

\* The front Buffer is part of what is being sent.
LEMMA FrontLenBound ==
  ASSUME tmp \in Seq(Byte)
  PROVE  FrontLen \in 0..Len(tmp)
<1> DEFINE front == {i \in DOMAIN tmp : tmp[i][1] = tmp[1][1]}
<1>1. Len(tmp) \in Nat /\ DOMAIN tmp = 1..Len(tmp)
  BY LenProperties
<1>2. IsFiniteSet(1..Len(tmp)) /\ Cardinality(1..Len(tmp)) = Len(tmp)
  BY <1>1, FS_Interval, SMTT(20)
<1>3. front \in SUBSET (1..Len(tmp))
  BY <1>1
<1> HIDE DEF front
<1>4. IsFiniteSet(front) /\ Cardinality(front) <= Len(tmp)
  BY <1>2, <1>3, FS_Subset
<1>5. Cardinality(front) \in Nat
  BY <1>4, FS_CardinalityType
<1> QED
  BY <1>1, <1>4, <1>5 DEF FrontLen, front

LEMMA Associative == \A p, q, r \in Seq(Byte) : (p \o q) \o r = p \o (q \o r)
BY ConcatAssociative, SMTT(20)

LEMMA ConcatOfBytes == \A p, q \in Seq(Byte) : p \o q \in Seq(Byte)
BY ConcatProperties

-----------------------------------------------------------------------------
(* The invariant.  Every byte is in one place until realSend drops what a  *)
(* failed send has left; from then on the connection is closed, and the    *)
(* loop does not come back to it.                                          *)

SeqTypes ==
    /\ writeBuf \in Seq(Byte) /\ tmp \in Seq(Byte)
    /\ accepted \in Seq(Byte) /\ sent \in Seq(Byte)
    /\ cmsg \in [Callers -> Msgs]

AllThere == accepted = sent \o (tmp \o writeBuf)

Dropped == closing /\ pc = "idle" /\ IsBeginning(sent, accepted)

SendInv ==
    /\ SeqTypes
    /\ pc \notin {"send", "rollback"} => tmp = <<>>
    /\ AllThere \/ Dropped

LEMMA InitSendInv == Init => SendInv
<1> SUFFICES ASSUME Init PROVE SendInv
  OBVIOUS
<1>1. <<>> \in Seq(Byte) /\ <<>> = <<>> \o (<<>> \o <<>>)
  BY EmptySeq, ConcatEmptySeq
<1> QED
  BY <1>1 DEF Init, SendInv, SeqTypes, AllThere

\* write, on the loop or off it, appends to the buffer wherever the rest is.
LEMMA WriteKeepsAll ==
  ASSUME SendInv, NEW m \in Msgs,
         writeBuf' = writeBuf \o Data(m), accepted' = accepted \o Data(m),
         UNCHANGED <<tmp, sent, cmsg, pc, closing>>
  PROVE  SendInv'
<1>1. Data(m) \in Seq(Byte)
  BY DataIsSeq
<1>2. SeqTypes'
  BY <1>1, ConcatProperties DEF SendInv, SeqTypes
<1>3. CASE AllThere
  <2>1. Data(m) \in Seq(Byte) /\ sent \in Seq(Byte) /\ tmp \in Seq(Byte) /\ writeBuf \in Seq(Byte)
    BY <1>1 DEF SendInv, SeqTypes
  <2>2. (sent \o (tmp \o writeBuf)) \o Data(m) = sent \o (tmp \o (writeBuf \o Data(m)))
    <3>1. tmp \o writeBuf \in Seq(Byte)
      BY <2>1, ConcatOfBytes, Zenon
    <3>2. (tmp \o writeBuf) \o Data(m) = tmp \o (writeBuf \o Data(m))
      BY <2>1, Associative, Zenon
    <3>3. (sent \o (tmp \o writeBuf)) \o Data(m) = sent \o ((tmp \o writeBuf) \o Data(m))
      BY <2>1, <3>1, Associative, ZenonT(40)
    <3> QED
      BY <3>2, <3>3, Zenon
  <2> QED
    BY <1>2, <1>3, <2>2 DEF SendInv, AllThere
<1>4. CASE Dropped
  BY <1>1, <1>2, <1>4, BeginningGrows DEF SendInv, SeqTypes, Dropped
<1> QED
  BY <1>3, <1>4 DEF SendInv

\* Steps that leave the bytes where they are, and do not go back to a
\* connection that is closed.
LEMMA QuietStep ==
  ASSUME SendInv, UNCHANGED <<bufVars, sent, cmsg>>,
         pc' \notin {"send", "rollback"}, pc \notin {"send", "rollback"},
         Dropped => closing' /\ pc' = "idle"
  PROVE  SendInv'
BY DEF SendInv, SeqTypes, AllThere, Dropped, bufVars

LEMMA SwapKeepsAll ==
  ASSUME SendInv, Swap
  PROVE  SendInv'
<1>1. AllThere /\ tmp = <<>>
  BY DEF SendInv, Dropped, Swap
<1>2. tmp \o writeBuf = writeBuf /\ writeBuf \o <<>> = writeBuf
  BY <1>1, ConcatEmptySeq DEF SendInv, SeqTypes
<1>3. tmp' = writeBuf /\ writeBuf' = <<>> /\ accepted' = accepted /\ sent' = sent /\ cmsg' = cmsg
      /\ pc' = IF writeBuf = <<>> THEN "drained" ELSE "send"
  BY DEF Swap, restVars, callerVars
<1>4. AllThere'
  BY <1>1, <1>2, <1>3 DEF AllThere
<1>5. SeqTypes'
  BY <1>3, EmptySeq DEF SendInv, SeqTypes
<1> QED
  BY <1>3, <1>4, <1>5 DEF SendInv

LEMMA SendKeepsAll ==
  ASSUME SendInv, Send, room \in Nat
  PROVE  SendInv'
<1> DEFINE n == Shorter(FrontLen, room)
<1>1. AllThere /\ tmp \in Seq(Byte) /\ Len(tmp) \in Nat
  BY LenProperties DEF SendInv, SeqTypes, Dropped, Send
<1>2. n \in 0..Len(tmp)
  BY <1>1, FrontLenBound DEF Shorter
<1>3. /\ sent' = sent \o SubSeq(tmp, 1, n)
      /\ tmp' = SubSeq(tmp, n + 1, Len(tmp))
      /\ writeBuf' = writeBuf /\ accepted' = accepted /\ cmsg' = cmsg
      /\ pc' \in {"rollback", "drained", "send"}
      /\ pc' = "drained" => n = Len(tmp)
  <2>1. pc' = IF n < FrontLen THEN "rollback" ELSE IF n = Len(tmp) THEN "drained" ELSE "send"
    BY DEF Send
  <2> QED
    BY <2>1 DEF Send, restVars, callerVars
<1> HIDE DEF n
<1>4. /\ SubSeq(tmp, 1, n) \in Seq(Byte) /\ SubSeq(tmp, n + 1, Len(tmp)) \in Seq(Byte)
      /\ SubSeq(tmp, 1, n) \o SubSeq(tmp, n + 1, Len(tmp)) = tmp
  <2>1. \A i \in 1..Len(tmp) : tmp[i] \in Byte
    BY <1>1, ElementOfSeq
  <2>2. SubSeq(tmp, 1, n) \in Seq(Byte) /\ SubSeq(tmp, n + 1, Len(tmp)) \in Seq(Byte)
    BY <1>1, <1>2, <2>1, SubSeqProperties
  <2>3. SubSeq(tmp, 1, n) \o SubSeq(tmp, n + 1, Len(tmp)) = SubSeq(tmp, 1, Len(tmp))
    <3>1. 1 \in 1..(Len(tmp) + 1) /\ n \in (1 - 1)..Len(tmp) /\ Len(tmp) \in n..Len(tmp)
      BY <1>1, <1>2
    <3> QED
      BY <1>1, <3>1, ConcatAdjacentSubSeq
  <2> QED
    BY <1>1, <2>2, <2>3, SubSeqFull
<1> DEFINE a == SubSeq(tmp, 1, n)
           b == SubSeq(tmp, n + 1, Len(tmp))
<1>5. a \in Seq(Byte) /\ b \in Seq(Byte) /\ a \o b = tmp /\ sent' = sent \o a /\ tmp' = b
  BY <1>3, <1>4
<1>6. pc' = "drained" => tmp' = <<>>
  BY <1>1, <1>3, SubSeqEmpty
<1> HIDE DEF a, b
<1>7. /\ sent \in Seq(Byte) /\ writeBuf \in Seq(Byte) /\ a \in Seq(Byte) /\ b \in Seq(Byte)
      /\ sent \o a \in Seq(Byte) /\ b \o writeBuf \in Seq(Byte)
  BY <1>5, ConcatProperties DEF SendInv, SeqTypes
<1>8. SeqTypes'
  BY <1>3, <1>5, <1>7 DEF SendInv, SeqTypes
<1>9. AllThere'
  <2>1. sent \o ((a \o b) \o writeBuf) = (sent \o a) \o (b \o writeBuf)
    <3>1. (a \o b) \o writeBuf = a \o (b \o writeBuf)
      BY <1>7, Associative, ZenonT(40)
    <3>2. (sent \o a) \o (b \o writeBuf) = sent \o (a \o (b \o writeBuf))
      <4>1. sent \in Seq(Byte) /\ a \in Seq(Byte) /\ b \o writeBuf \in Seq(Byte)
        BY <1>7
      <4> QED
        BY <4>1, Associative, Zenon
    <3> QED
      BY <3>1, <3>2, Zenon
  <2> QED
    BY <1>1, <1>3, <1>5, <2>1 DEF AllThere
<1> QED
  BY <1>3, <1>6, <1>8, <1>9 DEF SendInv

LEMMA SendFailsDrops ==
  ASSUME SendInv, SendFails
  PROVE  SendInv'
<1>1. AllThere
  BY DEF SendInv, Dropped, SendFails
<1>2. closing' /\ pc' = "idle" /\ tmp' = <<>> /\ UNCHANGED <<writeBuf, accepted, sent, cmsg>>
  BY DEF SendFails, CloseBy, Return, restVars, callerVars, endVars
<1>3. IsBeginning(sent, accepted)
  <2>1. tmp \o writeBuf \in Seq(Byte) /\ sent \in Seq(Byte)
    BY ConcatProperties DEF SendInv, SeqTypes
  <2> QED
    BY <1>1, <2>1, ConcatBegins DEF AllThere
<1>4. Dropped'
  BY <1>2, <1>3 DEF Dropped, IsBeginning
<1> QED
  BY <1>2, <1>4, EmptySeq DEF SendInv, SeqTypes

LEMMA RollbackKeepsAll ==
  ASSUME SendInv, Rollback
  PROVE  SendInv'
<1>1. AllThere
  BY DEF SendInv, Dropped, Rollback
<1>2. /\ pc' = "onEvent" /\ tmp' = <<>> /\ writeBuf' = tmp \o writeBuf
      /\ UNCHANGED <<accepted, sent, cmsg>>
  BY DEF Rollback, restVars, callerVars
<1>3. tmp \o writeBuf \in Seq(Byte)
  BY ConcatProperties DEF SendInv, SeqTypes
<1>4. <<>> \o (tmp \o writeBuf) = tmp \o writeBuf
  BY <1>3, ConcatEmptySeq
<1>5. AllThere'
  BY <1>1, <1>2, <1>4 DEF AllThere
<1> QED
  BY <1>2, <1>3, <1>5, EmptySeq DEF SendInv, SeqTypes

-----------------------------------------------------------------------------

LEMMA StepKeepsSendInv ==
  ASSUME SendInv, room \in Nat, [Next]_vars
  PROVE  SendInv'
<1>1. ASSUME UNCHANGED vars PROVE SendInv'
  BY <1>1 DEF vars, bufVars, loopVars, endVars, restVars, callerVars, SendInv, SeqTypes,
              AllThere, Dropped
<1>2. ASSUME Starting PROVE SendInv'
  BY <1>2 DEF Starting, AttachOnLoop, Attached, Attach, Connect, WatchConnect, ConnectWatched,
              bufVars, loopVars, endVars, callerVars, SendInv, SeqTypes, AllThere, Dropped
<1>3. ASSUME Peer PROVE SendInv'
  BY <1>3 DEF Peer, PeerReads, PeerSends, ConnectSucceeds, PeerEnds, PeerResets, Links,
              NetUnchanged, bufVars, loopVars, endVars, callerVars, SendInv, SeqTypes, AllThere,
              Dropped
<1>4. ASSUME NEW c \in Callers, NEW m \in Msgs, CallerWrites(c, m) PROVE SendInv'
  BY <1>4 DEF CallerWrites, bufVars, loopVars, endVars, SendInv, SeqTypes, AllThere, Dropped
<1>5. ASSUME NEW c \in Callers, CallerPushes(c) \/ CallerSets(c) \/ CallerModifies(c)
      PROVE  SendInv'
  <2>1. CASE CallerPushes(c)
    <3>1. cmsg[c] \in Msgs
      BY DEF SendInv, SeqTypes
    <3> QED
      BY <2>1, <3>1, WriteKeepsAll DEF CallerPushes, loopVars, endVars
  <2>2. CASE CallerSets(c) \/ CallerModifies(c)
    BY <2>2 DEF CallerSets, CallerModifies, bufVars, loopVars, endVars, SendInv, SeqTypes,
                AllThere, Dropped
  <2> QED
    BY <1>5, <2>1, <2>2
<1>6. ASSUME User PROVE SendInv'
  <2>1. ASSUME NEW m \in Msgs, UserWrites(m) PROVE SendInv'
    BY <2>1, WriteKeepsAll DEF UserWrites, loopVars, endVars, restVars, callerVars
  <2>2. CASE UserCloses \/ UserClosesAfterWrite
    <3>1. UNCHANGED <<writeBuf, tmp, accepted, sent, cmsg, pc>> /\ ~closing
      BY <2>2 DEF UserCloses, UserClosesAfterWrite, bufVars, loopVars, restVars, callerVars
    <3>2. AllThere
      BY <3>1 DEF SendInv, Dropped
    <3> QED
      BY <3>1, <3>2 DEF SendInv, SeqTypes, AllThere
  <2> QED
    BY <1>6, <2>1, <2>2 DEF User
<1>7. ASSUME Looping PROVE SendInv'
  <2>1. CASE RunTask \/ Poll \/ CallOnEvent
    BY <2>1 DEF RunTask, Poll, CallOnEvent, bufVars, loopVars, callerVars, restVars, endVars,
                SendInv, SeqTypes, AllThere, Dropped
  <2>2. CASE HandleWrite \/ HandleConnect \/ TellConnected \/ ToldConnected
    BY <2>2 DEF HandleWrite, HandleConnect, TellConnected, ToldConnected, Return, bufVars,
                callerVars, restVars, endVars, SendInv, SeqTypes, AllThere, Dropped
  <2>3. CASE Drained \/ Unset \/ Written
    BY <2>3 DEF Drained, Unset, Written, CloseBy, Return, bufVars, callerVars, restVars,
                endVars, SendInv, SeqTypes, AllThere, Dropped
  <2>4. CASE HandleRead \/ MessageDone \/ HandleHangup \/ EventDone
    BY <2>4 DEF HandleRead, Reading, MessageDone, HandleHangup, EventDone, CloseBy, Return,
                bufVars, callerVars, restVars, endVars, SendInv, SeqTypes, AllThere, Dropped
  <2> QED
    BY <1>7, <2>1, <2>2, <2>3, <2>4, SwapKeepsAll, SendKeepsAll, SendFailsDrops,
       RollbackKeepsAll DEF Looping
<1> QED
  BY <1>1, <1>2, <1>3, <1>4, <1>5, <1>6, <1>7 DEF Next, Calling

\* The room in the socket's buffer is a natural number.
LEMMA RoomStep ==
  ASSUME SendInv, room \in 0..Room, [Next]_vars
  PROVE  room' \in 0..Room
<1>1. CASE Send
  <2>1. room' = room - Shorter(FrontLen, room) /\ FrontLen \in Nat /\ room \in Nat
    BY <1>1, FrontLenBound, LenProperties, SizeAssumption DEF Send, SendInv, SeqTypes
  <2>2. room - Shorter(FrontLen, room) \in 0..Room
    BY <2>1, SizeAssumption DEF Shorter
  <2> QED
    BY <2>1, <2>2
<1>2. CASE PeerReads
  <2>1. room' = room + 1 /\ room + 1 \in 0..Room
    BY <1>2, SizeAssumption DEF PeerReads
  <2> QED
    BY <2>1
<1>3. CASE UNCHANGED room
  BY <1>3
<1>4. Send \/ PeerReads \/ UNCHANGED room
  <2>1. CASE UNCHANGED vars \/ Starting \/ Calling \/ (\E c \in Callers, m \in Msgs : CallerWrites(c, m))
    BY <2>1 DEF vars, netVars, Starting, AttachOnLoop, Attach, Connect, WatchConnect,
       ConnectWatched, Calling, CallerPushes, CallerSets, CallerModifies, CallerWrites
  <2>2. CASE User \/ Peer
    BY <2>2 DEF netVars, restVars, User, UserWrites, UserCloses, UserClosesAfterWrite, Peer, PeerSends,
       ConnectSucceeds, PeerEnds, PeerResets, Links
  <2>3. CASE Looping
    BY <2>3 DEF netVars, restVars, Looping, RunTask, Poll, CallOnEvent, HandleWrite,
       HandleConnect, TellConnected, ToldConnected, Swap, SendFails, Rollback, Drained, Unset,
       Written, HandleRead, MessageDone, HandleHangup, EventDone
  <2> QED
    BY <2>1, <2>2, <2>3 DEF Next
<1> QED
  BY <1>1, <1>2, <1>3, <1>4

LEMMA SendInvIsEnough ==
  ASSUME SendInv
  PROVE  BytesInOrder
<1>1. CASE AllThere
  <2>0. tmp \in Seq(Byte) /\ writeBuf \in Seq(Byte) /\ sent \in Seq(Byte)
    BY DEF SendInv, SeqTypes
  <2>1. tmp \o writeBuf \in Seq(Byte) /\ sent \o (tmp \o writeBuf) = (sent \o tmp) \o writeBuf
    <3>1. tmp \o writeBuf \in Seq(Byte)
      BY <2>0, ConcatOfBytes, Zenon
    <3>2. sent \o (tmp \o writeBuf) = (sent \o tmp) \o writeBuf
      BY <2>0, Associative, Zenon
    <3> QED
      BY <3>1, <3>2
  <2>2. IsBeginning(sent, accepted)
    BY <1>1, <2>1, ConcatBegins DEF SendInv, SeqTypes, AllThere
  <2>3. closing \/ ~closing
    OBVIOUS
  <2> QED
    BY <1>1, <2>1, <2>2, <2>3 DEF AllThere, BytesInOrder, IsBeginning
<1>2. CASE Dropped
  BY <1>2 DEF Dropped, IsBeginning, BytesInOrder
<1> QED
  BY <1>1, <1>2 DEF SendInv

\* Bytes are sent in the order they were written, and none is lost or repeated
\* while the connection is open, for any threads that write and whatever user code
\* does on the loop.
THEOREM BytesStayInOrder == Spec => []BytesInOrder
<1> DEFINE Inv == SendInv /\ room \in 0..Room
<1>1. Init => Inv
  BY InitSendInv, SizeAssumption DEF Init
<1>2. Inv /\ [Next]_vars => Inv'
  BY StepKeepsSendInv, RoomStep, SizeAssumption
<1>3. Inv => BytesInOrder
  BY SendInvIsEnough
<1> HIDE DEF Inv
<1> QED
  BY <1>1, <1>2, <1>3, PTL DEF Spec

-----------------------------------------------------------------------------
(* What the owner hears.  Nothing follows the goodbye, because the only    *)
(* other thing that is told follows a look at _closing (HandleConnect)     *)
(* with no user code in between.                                           *)

Notices == {"Established", "Closed"}

GoodbyeInv ==
    /\ told \in Seq(Notices)
    /\ closing => told # <<>> /\ told[Len(told)] = "Closed"
    /\ \A i \in 1..Len(told) : told[i] = "Closed" => closing /\ i = Len(told)
    /\ pc = "tell" => ~closing

\* One more notice.
LEMMA TellOne ==
  ASSUME GoodbyeInv, NEW notice \in Notices, told' = Append(told, notice), ~closing
  PROVE  /\ told' \in Seq(Notices) /\ told' # <<>> /\ told'[Len(told')] = notice
         /\ \A i \in 1..Len(told') : told'[i] = "Closed" => notice = "Closed" /\ i = Len(told')
<1>1. /\ told \in Seq(Notices) /\ Len(told) \in Nat
      /\ \A i \in 1..Len(told) : told[i] # "Closed"
  BY LenProperties DEF GoodbyeInv
<1>2. /\ told' \in Seq(Notices) /\ Len(told') = Len(told) + 1 /\ told' # <<>>
      /\ told'[Len(told) + 1] = notice
      /\ \A i \in 1..Len(told) : told'[i] = told[i]
  BY <1>1, AppendProperties
<1> QED
  BY <1>1, <1>2

LEMMA CloseKeepsGoodbye ==
  ASSUME GoodbyeInv, NEW why, CloseBy(why), pc' # "tell"
  PROVE  GoodbyeInv'
<1>1. CASE closing
  BY <1>1 DEF CloseBy, endVars, GoodbyeInv
<1>2. CASE ~closing
  <2>1. closing' = TRUE /\ told' = Append(told, "Closed") /\ "Closed" \in Notices
    BY <1>2 DEF CloseBy, Notices
  <2> QED
    BY <1>2, <2>1, TellOne DEF GoodbyeInv
<1> QED
  BY <1>1, <1>2

LEMMA TellConnectedKeepsGoodbye ==
  ASSUME GoodbyeInv, TellConnected
  PROVE  GoodbyeInv'
<1>1. /\ ~closing /\ closing' = closing /\ told' = Append(told, "Established")
      /\ "Established" \in Notices /\ pc' = "established"
  BY DEF TellConnected, GoodbyeInv, Notices
<1> QED
  BY <1>1, TellOne DEF GoodbyeInv

\* Steps that neither close nor tell.
LEMMA SilentStep ==
  ASSUME GoodbyeInv, UNCHANGED <<told, closing>>, pc' = "tell" => pc = "tell" \/ ~closing
  PROVE  GoodbyeInv'
BY DEF GoodbyeInv

LEMMA StepKeepsGoodbye ==
  ASSUME GoodbyeInv, [Next]_vars
  PROVE  GoodbyeInv'
<1>1. ASSUME UNCHANGED vars PROVE GoodbyeInv'
  BY <1>1, SilentStep DEF vars, endVars, loopVars
<1>2. ASSUME Starting \/ Calling \/ (\E c \in Callers, m \in Msgs : CallerWrites(c, m)) \/ Peer
      PROVE  GoodbyeInv'
  <2>1. UNCHANGED <<told, closing, pc>>
    BY <1>2 DEF Starting, AttachOnLoop, Attach, Connect, WatchConnect, ConnectWatched, Calling,
                CallerPushes, CallerSets, CallerModifies, CallerWrites, Peer, PeerReads, PeerSends,
                ConnectSucceeds, PeerEnds, PeerResets, NetUnchanged, endVars, loopVars
  <2> QED
    BY <2>1, SilentStep
<1>3. ASSUME User PROVE GoodbyeInv'
  <2>1. ASSUME NEW m \in Msgs, UserWrites(m) PROVE GoodbyeInv'
    BY <2>1, SilentStep DEF UserWrites, endVars, loopVars
  <2>2. CASE UserCloses \/ UserClosesAfterWrite
    <3>1. pc' = pc /\ pc # "tell"
      BY <2>2, CallsAssumption DEF UserCloses, UserClosesAfterWrite, loopVars, UserPcs
    <3>2. (\E why \in {"user", "afterWrite"} : CloseBy(why)) \/ UNCHANGED <<told, closing>>
      BY <2>2 DEF UserCloses, UserClosesAfterWrite, CloseAfterWrite, endVars
    <3> QED
      BY <3>1, <3>2, CloseKeepsGoodbye, SilentStep
  <2> QED
    BY <1>3, <2>1, <2>2 DEF User
<1>4. ASSUME Looping PROVE GoodbyeInv'
  <2>1. CASE RunTask \/ Poll \/ CallOnEvent \/ HandleWrite \/ HandleConnect \/ ToldConnected
    BY <2>1, SilentStep DEF RunTask, Poll, CallOnEvent, HandleWrite, HandleConnect, ToldConnected,
                            Return, endVars, loopVars
  <2>2. CASE Swap \/ Send \/ Rollback \/ Drained \/ Unset \/ MessageDone \/ EventDone
    BY <2>2, SilentStep DEF Swap, Send, Rollback, Drained, Unset, MessageDone, EventDone, Return,
                            endVars
  <2>3. CASE SendFails \/ Written \/ HandleRead \/ HandleHangup
    <3>1. pc' # "tell"
      BY <2>3 DEF SendFails, Written, HandleRead, HandleHangup, Return
    <3>2. \/ \E why \in {"send", "afterWrite", "read", "hangup"} : CloseBy(why)
          \/ UNCHANGED <<told, closing>>
      BY <2>3 DEF SendFails, Written, HandleRead, HandleHangup, endVars
    <3> QED
      BY <3>1, <3>2, CloseKeepsGoodbye, SilentStep
  <2> QED
    BY <1>4, <2>1, <2>2, <2>3, TellConnectedKeepsGoodbye DEF Looping
<1> QED
  BY <1>1, <1>2, <1>3, <1>4 DEF Next

\* The owner is told of the end once, and of nothing afterwards, whatever user code
\* does on the loop and whichever handlers want to close.
THEOREM OwnerHearsOneGoodbye == Spec => []OneGoodbye
<1>1. Init => GoodbyeInv
  BY EmptySeq DEF Init, GoodbyeInv
<1>2. GoodbyeInv /\ [Next]_vars => GoodbyeInv'
  BY StepKeepsGoodbye
<1>3. GoodbyeInv => OneGoodbye
  <2> SUFFICES ASSUME GoodbyeInv PROVE OneGoodbye
    OBVIOUS
  <2>1. told \in Seq(Notices) /\ Len(told) \in Nat
    BY LenProperties DEF GoodbyeInv
  <2>2. ASSUME NEW i \in 1..(Len(told) - 1) PROVE told[i] = "Established"
    <3>1. i \in 1..Len(told) /\ i # Len(told)
      BY <2>1
    <3>2. told[i] \in Notices
      BY <2>1, <3>1, ElementOfSeq
    <3> QED
      BY <3>1, <3>2 DEF GoodbyeInv, Notices
  <2> QED
    BY <2>2 DEF GoodbyeInv, OneGoodbye
<1> QED
  BY <1>1, <1>2, <1>3, PTL DEF Spec

-----------------------------------------------------------------------------
(* Types, but for those that SendInv, GoodbyeInv and RoomStep give.        *)

Pcs == UserPcs \cup {"onEvent", "tell", "swap", "send", "rollback", "drained", "unset"}

LoopTypes ==
    /\ eventType \in SUBSET Bits /\ interest \in SUBSET Bits
    /\ inMap \in BOOLEAN /\ closing \in BOOLEAN /\ connected \in BOOLEAN
    /\ pc \in Pcs
    /\ reg \in SUBSET Bits
    /\ ev \in SUBSET Events
    /\ by \in Closers \cup {Nobody}

CallTypes ==
    /\ tasks \in Seq({"add", "modify"} \X SUBSET Bits)
    /\ cpc \in [Callers -> {"idle", "push", "set", "modify"}]
    /\ cmsg \in [Callers -> Msgs] /\ creg \in [Callers -> SUBSET Bits]
    /\ start \in {"new", "attached", "connected", "set", "done"}

NetTypes ==
    /\ link \in {"none", "connecting", "up", "fin", "gone"}
    /\ heard \in 0..MaxIn /\ inbox \in 0..heard

AskTypes == flag \in BOOLEAN /\ asked \in BOOLEAN /\ owed \in Nat

RestTypes == LoopTypes /\ CallTypes /\ NetTypes /\ AskTypes

LEMMA InitRestTypes == Init => RestTypes
<1> SUFFICES ASSUME Init PROVE RestTypes
  OBVIOUS
<1>1. LoopTypes
  BY DEF Init, LoopTypes, Bits, Events, Pcs, UserPcs
<1>2. CallTypes
  <2>1. <<>> \in Seq({"add", "modify"} \X SUBSET Bits)
    BY EmptySeq
  <2> QED
    BY <2>1 DEF Init, CallTypes
<1>3. NetTypes
  <2>1. link \in {"none", "connecting", "up", "fin", "gone"}
    BY DEF Init
  <2>2. heard \in 0..MaxIn /\ inbox \in 0..heard
    BY SizeAssumption DEF Init
  <2> QED
    BY <2>1, <2>2 DEF NetTypes
<1>4. AskTypes
  BY DEF Init, AskTypes
<1> QED
  BY <1>1, <1>2, <1>3, <1>4 DEF RestTypes

\* modifyEvent keeps the types.
LEMMA ModifyKeepsTypes ==
  ASSUME RestTypes, NEW type \in SUBSET Bits
  PROVE  /\ Modify(type) => interest' \in SUBSET Bits
         /\ \A what \in {"add", "modify"} :
               Dispatch(what, type) => tasks' \in Seq({"add", "modify"} \X SUBSET Bits)
<1>1. ASSUME NEW what \in {"add", "modify"}, Dispatch(what, type)
      PROVE  tasks' \in Seq({"add", "modify"} \X SUBSET Bits)
  <2>1. <<what, type>> \in {"add", "modify"} \X SUBSET Bits
    OBVIOUS
  <2>2. tasks' = Append(tasks, <<what, type>>)
    BY <1>1 DEF Dispatch
  <2> QED
    BY <2>1, <2>2, AppendProperties DEF RestTypes, CallTypes
<1> QED
  BY <1>1 DEF Modify, RestTypes, LoopTypes

LEMMA StartingKeepsTypes ==
  ASSUME RestTypes, Starting
  PROVE  RestTypes'
<1> USE DEF RestTypes, LoopTypes, CallTypes, NetTypes, AskTypes, bufVars, typeVars, endVars,
            loopVars, callerVars, netVars, askVars
<1>1. CASE AttachOnLoop
  BY <1>1 DEF AttachOnLoop, Attached
<1>2. CASE Attach
  BY <1>2, ModifyKeepsTypes DEF Attach, Attached
<1>3. CASE Connect
  BY <1>3 DEF Connect
<1>4. CASE WatchConnect
  BY <1>4 DEF WatchConnect, Bits
<1>5. CASE ConnectWatched
  <2>1. PICK type \in Passed({"Write"}) : Dispatch("modify", type)
    BY <1>5 DEF ConnectWatched
  <2>2. type \in SUBSET Bits
    BY <2>1 DEF Passed, Bits
  <2> QED
    BY <1>5, <2>1, <2>2, ModifyKeepsTypes DEF ConnectWatched
<1> QED
  BY <1>1, <1>2, <1>3, <1>4, <1>5 DEF Starting

LEMMA CallingKeepsTypes ==
  ASSUME RestTypes, NEW c \in Callers, NEW m \in Msgs,
         CallerWrites(c, m) \/ CallerPushes(c) \/ CallerSets(c) \/ CallerModifies(c)
  PROVE  RestTypes'
<1> USE DEF RestTypes, LoopTypes, CallTypes, NetTypes, AskTypes, bufVars, typeVars, endVars,
            loopVars, callerVars, netVars, askVars
<1>1. CASE CallerWrites(c, m)
  BY <1>1 DEF CallerWrites
<1>2. CASE CallerPushes(c)
  BY <1>2 DEF CallerPushes
<1>3. CASE CallerSets(c)
  <2>1. eventType' \in SUBSET Bits
    BY <1>3 DEF CallerSets, Passed, Bits
  <2> QED
    BY <1>3, <2>1 DEF CallerSets
<1>4. CASE CallerModifies(c)
  <2>1. PICK type \in Passed(creg[c]) : Dispatch("modify", type)
    BY <1>4 DEF CallerModifies
  <2>2. type \in SUBSET Bits
    BY <2>1 DEF Passed
  <2> QED
    BY <1>4, <2>1, <2>2, ModifyKeepsTypes DEF CallerModifies
<1> QED
  BY <1>1, <1>2, <1>3, <1>4

\* Closing keeps what of the types it changes.
LEMMA CloseKeepsTypes ==
  ASSUME RestTypes, NEW why \in Closers, CloseBy(why)
  PROVE  /\ interest' \in SUBSET Bits /\ inMap' \in BOOLEAN /\ closing' \in BOOLEAN
         /\ by' \in Closers \cup {Nobody}
BY DEF CloseBy, endVars, RestTypes, LoopTypes

LEMMA UserKeepsTypes ==
  ASSUME RestTypes, SeqTypes, User
  PROVE  RestTypes'
<1> USE DEF RestTypes, LoopTypes, CallTypes, NetTypes, AskTypes, bufVars, typeVars, endVars,
            loopVars, callerVars, netVars, askVars, restVars
<1>1. ASSUME NEW m \in Msgs, UserWrites(m) PROVE RestTypes'
  <2>1. eventType' \in SUBSET Bits
    BY <1>1 DEF UserWrites, Bits
  <2>2. interest' \in SUBSET Bits
    BY <1>1, <2>1 DEF UserWrites, Modify
  <2> QED
    BY <1>1, <2>1, <2>2 DEF UserWrites
<1>2. CASE UserCloses
  <2>1. CloseBy("user") /\ "user" \in Closers
    BY <1>2 DEF UserCloses, Closers
  <2>2. /\ interest' \in SUBSET Bits /\ inMap' \in BOOLEAN /\ closing' \in BOOLEAN
        /\ by' \in Closers \cup {Nobody}
    BY <2>1, CloseKeepsTypes
  <2> QED
    BY <1>2, <2>2 DEF UserCloses
<1>3. CASE UserClosesAfterWrite
  <2>1. owed' \in Nat
    BY <1>3, LenProperties DEF UserClosesAfterWrite, SeqTypes
  <2>2. CASE writeBuf = <<>>
    <3>1. CloseBy("afterWrite") /\ "afterWrite" \in Closers /\ UNCHANGED flag
      BY <1>3, <2>2 DEF UserClosesAfterWrite, CloseAfterWrite, Closers
    <3>2. /\ interest' \in SUBSET Bits /\ inMap' \in BOOLEAN /\ closing' \in BOOLEAN
          /\ by' \in Closers \cup {Nobody}
      BY <3>1, CloseKeepsTypes
    <3> QED
      BY <1>3, <2>1, <3>1, <3>2 DEF UserClosesAfterWrite
  <2>3. CASE writeBuf # <<>>
    BY <1>3, <2>1, <2>3 DEF UserClosesAfterWrite, CloseAfterWrite
  <2> QED
    BY <2>2, <2>3
<1> QED
  BY <1>1, <1>2, <1>3 DEF User

LEMMA PeerKeepsTypes ==
  ASSUME RestTypes, Peer
  PROVE  RestTypes'
<1> USE SizeAssumption
    DEF RestTypes, LoopTypes, CallTypes, NetTypes, AskTypes, bufVars, typeVars, endVars,
        loopVars, callerVars, netVars, askVars, NetUnchanged
<1>1. CASE PeerSends
  BY <1>1 DEF PeerSends
<1>2. CASE PeerReads
  BY <1>2 DEF PeerReads
<1>3. CASE ConnectSucceeds \/ PeerEnds \/ PeerResets
  BY <1>3 DEF ConnectSucceeds, PeerEnds, PeerResets, Links
<1> QED
  BY <1>1, <1>2, <1>3 DEF Peer

LEMMA LoopingKeepsTypes ==
  ASSUME RestTypes, Looping
  PROVE  RestTypes'
<1> USE DEF RestTypes, LoopTypes, CallTypes, NetTypes, AskTypes, bufVars, typeVars, endVars,
            loopVars, callerVars, netVars, askVars, restVars, Pcs, UserPcs
<1>1. CASE RunTask
  <2>1. Head(tasks) \in {"add", "modify"} \X SUBSET Bits
        /\ Tail(tasks) \in Seq({"add", "modify"} \X SUBSET Bits)
    BY <1>1, HeadTailProperties DEF RunTask
  <2>2. Head(tasks)[2] \in SUBSET Bits
    BY <2>1
  <2>3. interest' \in SUBSET Bits /\ inMap' \in BOOLEAN
    BY <1>1, <2>2 DEF RunTask, Modify
  <2> QED
    BY <1>1, <2>1, <2>3 DEF RunTask
<1>2. CASE Poll \/ CallOnEvent
  BY <1>2 DEF Poll, CallOnEvent, Ready
<1>3. CASE HandleWrite \/ HandleConnect \/ ToldConnected
  <2>1. CASE HandleWrite
    BY <2>1 DEF HandleWrite, Return
  <2>2. CASE HandleConnect
    BY <2>2 DEF HandleConnect, Bits
  <2>3. CASE ToldConnected
    BY <2>3 DEF ToldConnected
  <2> QED
    BY <1>3, <2>1, <2>2, <2>3
<1>4. CASE TellConnected \/ Unset
  <2>1. PICK type \in Passed(reg) : Modify(type)
    BY <1>4 DEF TellConnected, Unset
  <2>2. interest' \in SUBSET Bits
    BY <2>1 DEF Passed, Modify
  <2> QED
    BY <1>4, <2>2 DEF TellConnected, Unset
<1>5. CASE Swap \/ Send \/ Rollback \/ Drained
  <2>1. pc' \in Pcs
    BY <1>5 DEF Swap, Send, Rollback, Drained
  <2> QED
    BY <1>5, <2>1, SMTT(20) DEF Swap, Send, Rollback, Drained
<1>6. CASE SendFails \/ Written \/ HandleRead \/ HandleHangup
  <2>1. pc' \in Pcs /\ ev' \in SUBSET Events /\ reg' \in SUBSET Bits
    BY <1>6 DEF SendFails, Written, HandleRead, Reading, HandleHangup, Return
  <2>2. /\ interest' \in SUBSET Bits /\ inMap' \in BOOLEAN /\ closing' \in BOOLEAN
        /\ by' \in Closers \cup {Nobody}
    <3>1. \/ \E why \in Closers : CloseBy(why)
          \/ UNCHANGED <<endVars, interest>>
      BY <1>6 DEF SendFails, Written, HandleRead, HandleHangup, Closers
    <3> QED
      BY <3>1, CloseKeepsTypes
  <2>3. UNCHANGED <<eventType, connected, callerVars, tasks, start, link, heard, askVars>>
        /\ inbox' \in 0..heard
    BY <1>6 DEF SendFails, Written, HandleRead, HandleHangup
  <2> QED
    BY <2>1, <2>2, <2>3
<1>7. CASE MessageDone \/ EventDone
  BY <1>7 DEF MessageDone, EventDone, Return
<1> QED
  BY <1>1, <1>2, <1>3, <1>4, <1>5, <1>6, <1>7 DEF Looping

LEMMA StepKeepsTypes ==
  ASSUME RestTypes, SeqTypes, [Next]_vars
  PROVE  RestTypes'
<1>1. ASSUME UNCHANGED vars PROVE RestTypes'
  BY <1>1 DEF RestTypes, LoopTypes, CallTypes, NetTypes, AskTypes, vars, bufVars, typeVars,
              endVars, loopVars, callerVars, netVars, askVars
<1>2. ASSUME Calling PROVE RestTypes'
  BY <1>2, CallingKeepsTypes DEF Calling, RestTypes, CallTypes
<1>3. ASSUME NEW c \in Callers, NEW m \in Msgs, CallerWrites(c, m) PROVE RestTypes'
  BY <1>3, CallingKeepsTypes
<1> QED
  BY <1>1, <1>2, <1>3, StartingKeepsTypes, UserKeepsTypes, PeerKeepsTypes, LoopingKeepsTypes
     DEF Next

LEMMA TypesTogether ==
  ASSUME SendInv, GoodbyeInv, room \in 0..Room, RestTypes
  PROVE  TypeOK
<1>1. {inMap, closing, flag, connected, asked} \subseteq BOOLEAN
  BY DEF RestTypes, LoopTypes, AskTypes
<1>2. /\ pc \in UserPcs \cup {"onEvent", "tell", "swap", "send", "rollback", "drained", "unset"}
      /\ inbox \in 0..MaxIn
  BY SizeAssumption DEF RestTypes, LoopTypes, NetTypes, Pcs
<1> QED
  BY <1>1, <1>2 DEF TypeOK, SendInv, SeqTypes, GoodbyeInv, Notices, RestTypes, LoopTypes,
                    CallTypes, NetTypes, AskTypes

\* A connection keeps its types, its bytes and its one goodbye, on the side of a server
\* and on that of a client, which also connects.
THEOREM ConnectionStaysSound == Spec => []ClientSound
<1> DEFINE Inv == SendInv /\ GoodbyeInv /\ room \in 0..Room /\ RestTypes
<1>1. Init => Inv
  BY InitSendInv, InitRestTypes, SizeAssumption, EmptySeq DEF Init, GoodbyeInv
<1>2. Inv /\ [Next]_vars => Inv'
  BY StepKeepsSendInv, StepKeepsGoodbye, RoomStep, StepKeepsTypes, SizeAssumption DEF SendInv
<1>3. Inv => TypeOK /\ BytesInOrder
  BY TypesTogether, SendInvIsEnough
<1>4. Spec => []OneGoodbye
  BY OwnerHearsOneGoodbye
<1> HIDE DEF Inv
<1> QED
  BY <1>1, <1>2, <1>3, <1>4, PTL DEF Spec, ClientSound

-----------------------------------------------------------------------------
(* closeAfterWrite.  What it waits for is in writeBuf when it is called,   *)
(* so that the next realSend takes it; it is all sent when that reaches    *)
(* its end.  A call from _writedcb itself comes after the swap: the flag   *)
(* is then looked at too early (see README).                               *)

Owes == flag /\ ~closing

OwedInv ==
    /\ owed <= Len(accepted)
    /\ Owes /\ pc = "send" => owed <= Len(sent) + Len(tmp)
    /\ Owes /\ pc \in {"drained", "unset", "written"} => owed <= Len(sent)
    /\ by = "afterWrite" => closing /\ owed <= Len(sent)

Lengths ==
    /\ Len(writeBuf) \in Nat /\ Len(tmp) \in Nat /\ Len(accepted) \in Nat /\ Len(sent) \in Nat
    /\ owed \in Nat

LEMMA LengthsAreNats ==
  ASSUME SeqTypes, AskTypes
  PROVE  Lengths
BY LenProperties DEF SeqTypes, AskTypes, Lengths

\* How much is where, while all is there.
LEMMA LengthsAddUp ==
  ASSUME SeqTypes, AllThere
  PROVE  Len(accepted) = Len(sent) + (Len(tmp) + Len(writeBuf))
<1>1. tmp \o writeBuf \in Seq(Byte) /\ Len(tmp \o writeBuf) = Len(tmp) + Len(writeBuf)
  BY ConcatProperties DEF SeqTypes
<1>2. Len(sent \o (tmp \o writeBuf)) = Len(sent) + Len(tmp \o writeBuf)
  BY <1>1, ConcatProperties DEF SeqTypes
<1> QED
  BY <1>1, <1>2 DEF AllThere

\* Steps that do not send, ask or close, and do not come nearer to the look at the flag.
LEMMA OwedQuietStep ==
  ASSUME OwedInv, Lengths, Lengths', Len(accepted) <= Len(accepted'),
         UNCHANGED <<tmp, sent, flag, closing, owed, by>>,
         pc' = "send" => pc = "send",
         pc' \in {"drained", "unset", "written"} => pc \in {"drained", "unset", "written"}
  PROVE  OwedInv'
BY DEF OwedInv, Owes, Lengths

\* Whoever closes, but for closeAfterWrite.
LEMMA OwedCloseStep ==
  ASSUME OwedInv, NEW why \in Closers \ {"afterWrite"}, CloseBy(why),
         UNCHANGED <<accepted, sent, owed>>
  PROVE  OwedInv'
<1>1. CASE closing
  BY <1>1 DEF CloseBy, endVars, OwedInv, Owes
<1>2. CASE ~closing
  BY <1>2 DEF CloseBy, OwedInv, Owes
<1> QED
  BY <1>1, <1>2

LEMMA SwapKeepsOwed ==
  ASSUME OwedInv, SendInv, Lengths, Swap
  PROVE  OwedInv'
<1>1. AllThere /\ tmp = <<>> /\ Len(<<>>) = 0
  BY DEF SendInv, Dropped, Swap
<1>2. Len(accepted) = Len(sent) + Len(writeBuf)
  BY <1>1, LengthsAddUp DEF SendInv, Lengths
<1>3. /\ tmp' = writeBuf /\ UNCHANGED <<accepted, sent, flag, closing, owed, by>>
      /\ pc' = IF writeBuf = <<>> THEN "drained" ELSE "send"
  BY DEF Swap, endVars, restVars, askVars
<1> QED
  BY <1>1, <1>2, <1>3 DEF OwedInv, Owes, Lengths

LEMMA SendKeepsOwed ==
  ASSUME OwedInv, SendInv, Lengths, Send, room \in Nat
  PROVE  OwedInv'
<1> DEFINE n == Shorter(FrontLen, room)
<1>1. tmp \in Seq(Byte) /\ sent \in Seq(Byte) /\ Len(tmp) \in Nat /\ Len(sent) \in Nat
  BY DEF SendInv, SeqTypes, Lengths
<1>2. n \in 0..Len(tmp)
  BY <1>1, FrontLenBound DEF Shorter
<1>3. /\ sent' = sent \o SubSeq(tmp, 1, n) /\ tmp' = SubSeq(tmp, n + 1, Len(tmp))
      /\ UNCHANGED <<accepted, flag, closing, owed, by>>
      /\ pc = "send" /\ pc' \in {"rollback", "drained", "send"}
      /\ pc' = "drained" => n = Len(tmp)
  <2>1. pc' = IF n < FrontLen THEN "rollback" ELSE IF n = Len(tmp) THEN "drained" ELSE "send"
    BY DEF Send
  <2> QED
    BY <2>1 DEF Send, endVars, askVars
<1> HIDE DEF n
<1>4. \A i \in 1..Len(tmp) : tmp[i] \in Byte
  BY <1>1, ElementOfSeq
<1>5. /\ SubSeq(tmp, 1, n) \in Seq(Byte) /\ Len(SubSeq(tmp, 1, n)) = n
      /\ Len(SubSeq(tmp, n + 1, Len(tmp))) = Len(tmp) - n
  BY <1>1, <1>2, <1>4, SubSeqProperties
<1>6. Len(sent') = Len(sent) + n /\ Len(tmp') = Len(tmp) - n
  BY <1>1, <1>3, <1>5, ConcatProperties
<1>7. /\ owed \in Nat /\ owed <= Len(accepted)
      /\ flag /\ ~closing => owed <= Len(sent) + Len(tmp)
      /\ by = "afterWrite" => closing /\ owed <= Len(sent)
  BY <1>3 DEF OwedInv, Owes, Lengths
<1>8. n \in Nat /\ Len(sent') \in Nat /\ Len(tmp') \in Nat
      /\ Len(sent') + Len(tmp') = Len(sent) + Len(tmp) /\ Len(sent) <= Len(sent')
  BY <1>1, <1>2, <1>6
<1>9. owed' = owed /\ (Owes' <=> (flag /\ ~closing))
  BY <1>3 DEF Owes
<1>10. by' = "afterWrite" => closing' /\ owed' <= Len(sent')
  BY <1>1, <1>3, <1>7, <1>8
<1>11. Owes' /\ pc' = "drained" => owed' <= Len(sent')
  BY <1>1, <1>3, <1>6, <1>7, <1>9
<1> QED
  BY <1>1, <1>3, <1>7, <1>8, <1>9, <1>10, <1>11 DEF OwedInv

LEMMA WrittenKeepsOwed ==
  ASSUME OwedInv, Written
  PROVE  OwedInv'
<1>1. UNCHANGED <<accepted, sent, flag, owed>> /\ pc = "written" /\ pc' \in {"idle", "onEvent"}
  BY DEF Written, Return, bufVars, restVars, askVars
<1>2. CASE flag /\ ~closing
  <2>1. owed <= Len(sent) /\ closing' = TRUE
    BY <1>1, <1>2 DEF OwedInv, Owes, Written, CloseBy
  <2> QED
    BY <1>1, <2>1 DEF OwedInv, Owes
<1>3. CASE ~(flag /\ ~closing)
  <2>1. UNCHANGED <<closing, by>>
    BY <1>3 DEF Written, CloseBy, endVars
  <2> QED
    BY <1>1, <2>1 DEF OwedInv, Owes
<1> QED
  BY <1>2, <1>3

LEMMA AskKeepsOwed ==
  ASSUME OwedInv, SendInv, Lengths, UserClosesAfterWrite, <<"written", "afterWrite">> \notin Calls
  PROVE  OwedInv'
<1>1. /\ pc \in UserPcs \ {"written"} /\ ~closing /\ pc' = pc
      /\ owed' = Len(accepted) /\ UNCHANGED <<accepted, sent>>
  BY CallsAssumption DEF UserClosesAfterWrite, bufVars, loopVars
<1>2. AllThere /\ tmp = <<>> /\ Len(<<>>) = 0
  BY <1>1 DEF SendInv, Dropped, UserPcs
<1>3. Len(accepted) = Len(sent) + Len(writeBuf)
  BY <1>2, LengthsAddUp DEF SendInv, Lengths
<1>4. CASE writeBuf = <<>>
  <2>1. closing' = TRUE
    BY <1>1, <1>4 DEF UserClosesAfterWrite, CloseAfterWrite, CloseBy
  <2> QED
    BY <1>1, <1>2, <1>3, <1>4, <2>1 DEF OwedInv, Owes, Lengths
<1>5. CASE writeBuf # <<>>
  <2>1. UNCHANGED <<closing, by>>
    BY <1>5 DEF UserClosesAfterWrite, CloseAfterWrite, endVars
  <2> QED
    BY <1>1, <2>1 DEF OwedInv, Owes, Lengths, UserPcs
<1> QED
  BY <1>4, <1>5

LEMMA StepKeepsOwed ==
  ASSUME OwedInv, SendInv, SendInv', RestTypes, RestTypes', room \in Nat, [Next]_vars,
         <<"written", "afterWrite">> \notin Calls
  PROVE  OwedInv'
<1>0. Lengths /\ Lengths'
  <2>1. Lengths
    BY LengthsAreNats DEF SendInv, RestTypes
  <2>2. Lengths'
    BY LenProperties DEF SendInv, SeqTypes, RestTypes, AskTypes, Lengths
  <2> QED
    BY <2>1, <2>2
<1>1. ASSUME UNCHANGED <<accepted, tmp, sent, flag, closing, owed, by, pc>> PROVE OwedInv'
  BY <1>1 DEF OwedInv, Owes
<1>2. CASE UNCHANGED vars \/ Starting \/ Peer \/ \E c \in Callers, m \in Msgs : CallerWrites(c, m)
  <2>1. UNCHANGED <<accepted, tmp, sent, flag, closing, owed, by, pc>>
    BY <1>2 DEF vars, Starting, AttachOnLoop, Attach, Connect, WatchConnect, ConnectWatched,
                CallerWrites, Peer, PeerReads, PeerSends, ConnectSucceeds, PeerEnds, PeerResets,
                NetUnchanged, bufVars, endVars, loopVars, askVars
  <2> QED
    BY <1>1, <2>1
<1>3. ASSUME NEW m \in Msgs, accepted' = accepted \o Data(m)
      PROVE  Len(accepted) <= Len(accepted')
  <2>1. Data(m) \in Seq(Byte) /\ accepted \in Seq(Byte)
    BY DataIsSeq DEF SendInv, SeqTypes
  <2> QED
    BY <1>3, <2>1, ConcatProperties, LenProperties
<1>4. ASSUME NEW c \in Callers, CallerPushes(c) \/ CallerSets(c) \/ CallerModifies(c)
      PROVE  OwedInv'
  <2>1. CASE CallerPushes(c)
    <3>1. cmsg[c] \in Msgs /\ accepted' = accepted \o Data(cmsg[c])
      BY <2>1 DEF CallerPushes, SendInv, SeqTypes
    <3>2. Len(accepted) <= Len(accepted')
      BY <1>3, <3>1
    <3> QED
      BY <1>0, <2>1, <3>2, OwedQuietStep DEF CallerPushes, endVars, loopVars, askVars
  <2>2. CASE CallerSets(c) \/ CallerModifies(c)
    BY <1>1, <2>2 DEF CallerSets, CallerModifies, bufVars, endVars, loopVars, askVars
  <2> QED
    BY <1>4, <2>1, <2>2
<1>5. ASSUME User PROVE OwedInv'
  <2>1. ASSUME NEW m \in Msgs, UserWrites(m) PROVE OwedInv'
    <3>1. Len(accepted) <= Len(accepted')
      BY <1>3, <2>1 DEF UserWrites
    <3> QED
      BY <1>0, <2>1, <3>1, OwedQuietStep DEF UserWrites, endVars, loopVars, restVars, askVars
  <2>2. CASE UserCloses
    BY <2>2, OwedCloseStep DEF UserCloses, bufVars, Closers
  <2> QED
    BY <1>0, <1>5, <2>1, <2>2, AskKeepsOwed DEF User
<1>6. ASSUME Looping PROVE OwedInv'
  <2>1. CASE RunTask \/ Poll \/ CallOnEvent \/ HandleWrite \/ HandleConnect
    <3>1. /\ UNCHANGED <<accepted, tmp, sent, flag, closing, owed, by>>
          /\ pc' \in {pc, "polled", "onEvent", "idle", "swap", "tell"}
      BY <2>1 DEF RunTask, Poll, CallOnEvent, HandleWrite, HandleConnect, Return, bufVars,
                  endVars, loopVars, restVars, askVars
    <3> QED
      BY <1>0, <3>1, OwedQuietStep DEF Lengths
  <2>2. CASE TellConnected \/ ToldConnected \/ Drained \/ Unset \/ MessageDone \/ EventDone
    <3>1. /\ UNCHANGED <<accepted, tmp, sent, flag, closing, owed, by>>
          /\ \/ pc' \in {"established", "swap", "onEvent", "idle"}
             \/ pc = "drained" /\ pc' = "unset"
             \/ pc = "unset" /\ pc' = "written"
      BY <2>2 DEF TellConnected, ToldConnected, Drained, Unset, MessageDone, EventDone, Return,
                  bufVars, endVars, loopVars, restVars, askVars
    <3> QED
      BY <1>0, <3>1, OwedQuietStep DEF Lengths
  <2>3. CASE Rollback
    <3>1. UNCHANGED <<accepted, sent, flag, closing, owed, by>> /\ pc' = "onEvent"
      BY <2>3 DEF Rollback, endVars, restVars, askVars
    <3> QED
      BY <3>1 DEF OwedInv, Owes
  <2>4. CASE SendFails \/ HandleRead \/ HandleHangup
    <3>1. UNCHANGED <<accepted, sent, flag, owed>> /\ pc' \in {"idle", "message"}
      BY <2>4 DEF SendFails, HandleRead, HandleHangup, Return, bufVars, restVars, askVars
    <3>2. (\E why \in Closers \ {"afterWrite"} : CloseBy(why)) \/ UNCHANGED <<closing, by>>
      BY <2>4 DEF SendFails, HandleRead, HandleHangup, Closers, endVars
    <3>3. CASE UNCHANGED <<closing, by>>
      BY <3>1, <3>3 DEF OwedInv, Owes
    <3> QED
      BY <3>1, <3>2, <3>3, OwedCloseStep
  <2> QED
    BY <1>0, <1>6, <2>1, <2>2, <2>3, <2>4, SwapKeepsOwed, SendKeepsOwed, WrittenKeepsOwed
       DEF Looping
<1> QED
  BY <1>2, <1>4, <1>5, <1>6 DEF Next, Calling

\* Unless it is called in onWriteDone, closeAfterWrite closes only after all that had
\* been written before it was called has been sent, whoever writes beside it.
THEOREM AfterWriteWaits ==
  ASSUME <<"written", "afterWrite">> \notin Calls
  PROVE  Spec => []AfterWriteSends
<1> DEFINE Inv == SendInv /\ GoodbyeInv /\ room \in 0..Room /\ RestTypes /\ OwedInv
<1>1. Init => Inv
  <2>1. Init => OwedInv
    BY NobodyAssumption DEF Init, OwedInv, Owes, Closers
  <2> QED
    BY <2>1, InitSendInv, InitRestTypes, SizeAssumption, EmptySeq DEF Init, GoodbyeInv
<1>2. Inv /\ [Next]_vars => Inv'
  <2> SUFFICES ASSUME Inv, [Next]_vars PROVE Inv'
    OBVIOUS
  <2>1. room \in Nat
    BY SizeAssumption
  <2>2. SendInv' /\ GoodbyeInv' /\ room' \in 0..Room
    BY <2>1, StepKeepsSendInv, StepKeepsGoodbye, RoomStep
  <2>3. RestTypes'
    BY StepKeepsTypes DEF SendInv
  <2> QED
    BY <2>1, <2>2, <2>3, StepKeepsOwed
<1>3. Inv => AfterWriteSends
  <2> SUFFICES ASSUME Inv PROVE AfterWriteSends
    OBVIOUS
  <2>1. Lengths
    BY LengthsAreNats DEF SendInv, RestTypes
  <2> QED
    BY <2>1 DEF OwedInv, AfterWriteSends, Lengths
<1> HIDE DEF Inv
<1> QED
  BY <1>1, <1>2, <1>3, PTL DEF Spec

-----------------------------------------------------------------------------
(* The socket of a closed connection.                                      *)

\* No user code runs between a look at _closing and the swap, the sends or what follows
\* them, but for the callback that tells a client that it is connected.
OpenInv == closing => pc \in {"idle", "polled", "onEvent", "written", "message"}

LEMMA StepKeepsOpen ==
  ASSUME OpenInv, [Next]_vars,
         \A op \in {"close", "reset", "afterWrite"} : <<"established", op>> \notin Calls
  PROVE  OpenInv'
<1>1. ASSUME UNCHANGED <<closing, pc>> PROVE OpenInv'
  BY <1>1 DEF OpenInv
<1>2. CASE UNCHANGED vars \/ Starting \/ Calling \/ Peer \/ \E c \in Callers, m \in Msgs : CallerWrites(c, m)
  <2>1. UNCHANGED <<closing, pc>>
    BY <1>2 DEF vars, Starting, AttachOnLoop, Attach, Connect, WatchConnect, ConnectWatched,
                Calling, CallerPushes, CallerSets, CallerModifies, CallerWrites, Peer, PeerReads,
                PeerSends, ConnectSucceeds, PeerEnds, PeerResets, NetUnchanged, endVars, loopVars
  <2> QED
    BY <1>1, <2>1
<1>3. ASSUME User PROVE OpenInv'
  <2>1. ASSUME NEW m \in Msgs, UserWrites(m) PROVE OpenInv'
    BY <1>1, <2>1 DEF UserWrites, endVars, loopVars
  <2>2. CASE UserCloses \/ UserClosesAfterWrite
    <3>1. pc' = pc /\ pc \in UserPcs \ {"established"}
      BY <2>2, CallsAssumption DEF UserCloses, UserClosesAfterWrite, loopVars
    <3> QED
      BY <3>1 DEF OpenInv, UserPcs
  <2> QED
    BY <1>3, <2>1, <2>2 DEF User
<1>4. ASSUME Looping PROVE OpenInv'
  <2>1. CASE RunTask \/ Poll \/ CallOnEvent \/ HandleWrite \/ HandleConnect \/ MessageDone \/ EventDone
    BY <2>1 DEF RunTask, Poll, CallOnEvent, HandleWrite, HandleConnect, MessageDone, EventDone,
                Return, endVars, loopVars, OpenInv
  <2>2. CASE TellConnected \/ ToldConnected \/ Swap \/ Send \/ Rollback \/ Drained \/ Unset
    BY <2>2 DEF TellConnected, ToldConnected, Swap, Send, Rollback, Drained, Unset, endVars, OpenInv
  <2>3. CASE SendFails \/ Written \/ HandleRead \/ HandleHangup
    BY <2>3 DEF SendFails, Written, HandleRead, HandleHangup, Return, OpenInv
  <2> QED
    BY <1>4, <2>1, <2>2, <2>3 DEF Looping
<1> QED
  BY <1>2, <1>3, <1>4 DEF Next

LEMMA OpenStepUsesOpen ==
  ASSUME OpenInv, [Next]_vars, closing
  PROVE  pc # "send" /\ inbox' = inbox
<1>1. pc # "send"
  BY DEF OpenInv
<1>2. CASE UNCHANGED vars \/ Starting \/ Calling \/ \E c \in Callers, m \in Msgs : CallerWrites(c, m)
  BY <1>1, <1>2 DEF vars, Starting, AttachOnLoop, Attach, Connect, WatchConnect, ConnectWatched,
                    Calling, CallerPushes, CallerSets, CallerModifies, CallerWrites, netVars
<1>3. CASE User \/ Peer
  BY <1>1, <1>3 DEF User, UserWrites, UserCloses, UserClosesAfterWrite, Peer, PeerReads, PeerSends,
                    ConnectSucceeds, PeerEnds, PeerResets, Links, netVars, restVars
<1>4. CASE Looping
  BY <1>1, <1>4 DEF Looping, RunTask, Poll, CallOnEvent, HandleWrite, HandleConnect, TellConnected,
                    ToldConnected, Swap, Send, SendFails, Rollback, Drained, Unset, Written,
                    HandleRead, MessageDone, HandleHangup, EventDone, netVars, restVars
<1> QED
  BY <1>2, <1>3, <1>4 DEF Next

\* Unless the callback that tells of the connect closes, the loop neither sends to nor
\* reads from a socket after it was closed, whatever the other callbacks do.
THEOREM ClosedSocketLeftAlone ==
  ASSUME \A op \in {"close", "reset", "afterWrite"} : <<"established", op>> \notin Calls
  PROVE  Spec => UsesOpenSocket
<1>1. Init => OpenInv
  BY DEF Init, OpenInv
<1>2. OpenInv /\ [Next]_vars => OpenInv'
  BY StepKeepsOpen
<1>3. OpenInv /\ [Next]_vars => [closing => pc # "send" /\ inbox' = inbox]_vars
  BY OpenStepUsesOpen
<1> QED
  BY <1>1, <1>2, <1>3, PTL DEF Spec, UsesOpenSocket

=============================================================================
