------------------------- MODULE AsyncSocketProofs --------------------------
(***************************************************************************)
(* Proofs about AsyncSocket, for any threads, messages, sizes and user     *)
(* code: the bytes are sent in order, and a segment of the ring buffer is  *)
(* what it was until its sender has consumed it.                           *)
(***************************************************************************)
EXTENDS AsyncSocket, SequenceTheorems, TLAPS

-----------------------------------------------------------------------------
(* Sequences of bytes.                                                     *)

LEMMA DataIsSeq == \A m \in Msgs : Data(m) \in Seq(Byte) /\ Len(Data(m)) = MsgLen
BY SizeAssumption DEF Data, Byte

LEMMA Associative == \A p, q, r \in Seq(Byte) : (p \o q) \o r = p \o (q \o r)
BY ConcatAssociative, SMTT(20)

\* What a piece of the front is.
LEMMA FrontPiece ==
  ASSUME NEW s \in Seq(Byte), NEW n \in 0..Len(s)
  PROVE  /\ SubSeq(s, 1, n) \in Seq(Byte) /\ Len(SubSeq(s, 1, n)) = n
         /\ \A i \in 1..n : SubSeq(s, 1, n)[i] = s[i]
<1>1. Len(s) \in Nat /\ \A i \in 1..n : s[i] \in Byte
  BY LenProperties, ElementOfSeq
<1> QED
  BY <1>1, SubSeqProperties

\* A sequence is its front and the rest.
LEMMA FrontAndRest ==
  ASSUME NEW s \in Seq(Byte), NEW n \in 0..Len(s)
  PROVE  /\ SubSeq(s, n + 1, Len(s)) \in Seq(Byte)
         /\ Len(SubSeq(s, n + 1, Len(s))) = Len(s) - n
         /\ SubSeq(s, 1, n) \o SubSeq(s, n + 1, Len(s)) = s
<1> DEFINE front == SubSeq(s, 1, n)  rest == SubSeq(s, n + 1, Len(s))
<1>1. Len(s) \in Nat /\ \A i \in 1..Len(s) : s[i] \in Byte
  BY LenProperties, ElementOfSeq
<1>2. /\ rest \in Seq(Byte) /\ Len(rest) = Len(s) - n
      /\ \A i \in 1..(Len(s) - n) : rest[i] = s[n + i]
  <2>1. \A i \in (n + 1)..Len(s) : s[i] \in Byte
    BY <1>1
  <2>2. (n + 1) \in Nat /\ Len(s) - n = IF n + 1 <= Len(s) THEN Len(s) - (n + 1) + 1 ELSE 0
    BY <1>1
  <2> QED
    BY <1>1, <2>1, <2>2, SubSeqProperties
<1>3. front \in Seq(Byte) /\ Len(front) = n /\ \A i \in 1..n : front[i] = s[i]
  BY FrontPiece
<1> HIDE DEF front, rest
<1>4. /\ front \o rest \in Seq(Byte) /\ Len(front \o rest) = Len(s)
      /\ \A i \in 1..Len(s) : (front \o rest)[i] = s[i]
  <2>1. /\ front \o rest \in Seq(Byte)
        /\ Len(front \o rest) = Len(front) + Len(rest)
        /\ \A i \in 1..(Len(front) + Len(rest)) :
              (front \o rest)[i] = IF i <= Len(front) THEN front[i] ELSE rest[i - Len(front)]
    BY <1>2, <1>3, ConcatProperties
  <2>2. ASSUME NEW i \in 1..Len(s) PROVE (front \o rest)[i] = s[i]
    <3>1. i \in 1..(Len(front) + Len(rest))
      BY <1>1, <1>2, <1>3
    <3>2. CASE i <= n
      BY <1>3, <2>1, <3>1, <3>2
    <3>3. CASE ~(i <= n)
      <4>1. i - n \in 1..(Len(s) - n) /\ n + (i - n) = i
        BY <1>1, <3>3
      <4>2. (front \o rest)[i] = rest[i - n]
        BY <1>3, <2>1, <3>1, <3>3
      <4> QED
        BY <1>2, <4>1, <4>2
    <3> QED
      BY <3>2, <3>3
  <2> QED
    BY <1>1, <1>2, <1>3, <2>1, <2>2
<1>5. front \o rest = s
  BY <1>4, SeqEqual
<1> QED
  BY <1>2, <1>5 DEF front, rest

-----------------------------------------------------------------------------
(* The invariant.  A thread in flushBuf holds the mutex, and so nobody     *)
(* changes the ring buffer between firstSegment and consume.               *)

Held == \A t \in Threads : pc[t] \in {"flush", "segment"} => lock = t

Pointed ==
    \A t \in Threads : pc[t] = "segment" =>
        /\ ring # <<>> /\ segment # <<>>
        /\ Len(segment) <= Len(ring) /\ segment = SubSeq(ring, 1, Len(segment))

IInv == TypeOK /\ Held /\ Pointed /\ BytesInOrder

LEMMA InitIInv == Init => IInv
<1> SUFFICES ASSUME Init PROVE IInv
  OBVIOUS
<1>1. <<>> \in Seq(Byte) /\ Len(<<>>) = 0 /\ <<>> = <<>> \o <<>>
  BY EmptySeq, ConcatEmptySeq
<1>2. tasks \in Seq({"add", "modify"} \X SUBSET Bits)
  <2> DEFINE Closures == {"add", "modify"} \X SUBSET Bits
  <2>1. <<"add", {}>> \in Closures /\ <<"modify", {"Read"}>> \in Closures
    BY DEF Bits
  <2> HIDE DEF Closures
  <2>2. <<>> \in Seq(Closures) /\ <<<<"add", {}>>, <<"modify", {"Read"}>>>> \in Seq(Closures)
    BY <2>1, EmptySeq
  <2>3. tasks \in Seq(Closures)
    BY <2>2 DEF Init
  <2> QED
    BY <2>3 DEF Closures
<1>3. TypeOK
  <2>1. /\ {ring, segment, accepted, sent} \subseteq Seq(Byte) /\ Len(ring) <= Capacity
        /\ room \in 0..Room
    BY <1>1, SizeAssumption DEF Init
  <2>2. /\ pc \in [Threads -> {"user", "store", "modify", "flush", "segment"}]
        /\ val \in [Threads -> SUBSET Bits]
    BY DEF Init
  <2>3. /\ eventType \in SUBSET Bits /\ interest \in SUBSET Bits /\ ev \in SUBSET Bits
        /\ at \in {"idle", "read", "write", "writeCb"} /\ lock \in Threads \cup {Free}
        /\ {inMap, inbox, broken} \subseteq BOOLEAN
    BY DEF Init, Bits
  <2> QED
    BY <1>2, <2>1, <2>2, <2>3 DEF TypeOK
<1> QED
  BY <1>1, <1>3 DEF Init, IInv, Held, Pointed, BytesInOrder

\* send, with the mutex: no segment is out.
LEMMA SendKeeps ==
  ASSUME IInv, NEW t \in Threads, NEW m \in Msgs, Send(t, m)
  PROVE  IInv'
<1>1. Data(m) \in Seq(Byte) /\ Len(Data(m)) = MsgLen
  BY DataIsSeq
<1>2. ring \in Seq(Byte) /\ accepted \in Seq(Byte) /\ sent \in Seq(Byte)
  BY DEF IInv, TypeOK
<1>3. /\ ring' = ring \o Data(m) /\ accepted' = accepted \o Data(m)
      /\ ring' \in Seq(Byte) /\ accepted' \in Seq(Byte) /\ Len(ring') <= Capacity
  BY <1>1, <1>2, ConcatProperties DEF Send, Fits
<1>4. TypeOK'
  BY <1>3 DEF Send, Enable, typeVars, loopVars, netVars, IInv, TypeOK, Bits
<1>5. \A u \in Threads : pc'[u] \notin {"flush", "segment"}
  BY ThreadAssumption DEF Send, Enable, IInv, TypeOK, Held
<1>6. accepted' = sent \o ring'
  BY <1>1, <1>2, <1>3, Associative, SMTT(20) DEF IInv, BytesInOrder
<1> QED
  BY <1>4, <1>5, <1>6 DEF IInv, Held, Pointed, BytesInOrder, Send, netVars

\* flushBuf's look at the next segment
LEMMA FlushNextKeeps ==
  ASSUME IInv, NEW t \in Threads, FlushNext(t)
  PROVE  IInv'
<1>1. ring \in Seq(Byte) /\ Len(ring) \in Nat /\ ring # <<>>
  BY LenProperties DEF IInv, TypeOK, FlushNext
<1>2. PICK n \in 0..Len(ring) : n # 0 /\ segment' = SubSeq(ring, 1, n)
  <2>1. PICK n \in 0..Len(ring) : n # 0 /\ segment' = Ring!Prefix(ring, n)
    BY <1>1 DEF FlushNext, Ring!Front
  <2>2. Ring!Shorter(n, Len(ring)) = n
    BY <1>1 DEF Ring!Shorter
  <2> QED
    BY <2>1, <2>2 DEF Ring!Prefix
<1>3. segment' \in Seq(Byte) /\ Len(segment') = n
  BY <1>1, <1>2, FrontPiece
<1>4. segment' # <<>>
  BY <1>2, <1>3, EmptySeq
<1>5. UNCHANGED <<ring, accepted, lock, typeVars, tasks, loopVars, val, netVars>>
      /\ pc' = [pc EXCEPT ![t] = "segment"] /\ pc[t] = "flush"
  BY DEF FlushNext, Ring!Front
<1>6. TypeOK'
  BY <1>3, <1>5 DEF typeVars, loopVars, netVars, IInv, TypeOK
<1>7. Held'
  BY <1>5 DEF IInv, TypeOK, Held
<1>8. Pointed'
  BY <1>1, <1>2, <1>3, <1>4, <1>5 DEF Pointed
<1> QED
  BY <1>5, <1>6, <1>7, <1>8 DEF IInv, BytesInOrder, netVars

\* a send of some of the segment, and consume
LEMMA SendSegmentKeeps ==
  ASSUME IInv, NEW t \in Threads, SendSegment(t)
  PROVE  IInv'
<1> DEFINE n == Ring!Shorter(Len(segment), room)
<1>1. /\ ring \in Seq(Byte) /\ segment \in Seq(Byte) /\ sent \in Seq(Byte)
      /\ Len(ring) \in Nat /\ Len(segment) \in Nat /\ room \in 0..Room /\ Room \in Nat
  BY LenProperties, SizeAssumption DEF IInv, TypeOK
<1>2. Len(segment) <= Len(ring) /\ segment = SubSeq(ring, 1, Len(segment))
  BY DEF SendSegment, IInv, Pointed
<1>3. n \in 0..Len(segment) /\ n \in 0..Len(ring) /\ n <= room
  BY <1>1, <1>2 DEF Ring!Shorter
<1>4. /\ ring' = SubSeq(ring, n + 1, Len(ring)) /\ sent' = sent \o SubSeq(segment, 1, n)
      /\ room' = room - n /\ pc' = [pc EXCEPT ![t] = "flush"] /\ pc[t] = "segment"
      /\ UNCHANGED <<segment, accepted, lock, typeVars, tasks, loopVars, val, inbox, broken>>
  <2>1. Ring!Shorter(n, Len(ring)) = n
    BY <1>1, <1>3 DEF Ring!Shorter
  <2> QED
    BY <2>1 DEF SendSegment, Ring!Drop, Ring!Rest
<1> HIDE DEF n
<1>5. SubSeq(segment, 1, n) = SubSeq(ring, 1, n)
  <2>1. /\ SubSeq(segment, 1, n) \in Seq(Byte) /\ Len(SubSeq(segment, 1, n)) = n
        /\ \A i \in 1..n : SubSeq(segment, 1, n)[i] = segment[i]
    BY <1>1, <1>3, FrontPiece
  <2>2. /\ SubSeq(ring, 1, n) \in Seq(Byte) /\ Len(SubSeq(ring, 1, n)) = n
        /\ \A i \in 1..n : SubSeq(ring, 1, n)[i] = ring[i]
    BY <1>1, <1>3, FrontPiece
  <2>3. \A i \in 1..Len(segment) : segment[i] = ring[i]
    <3>1. Len(segment) \in 0..Len(ring)
      BY <1>1, <1>2
    <3>2. \A i \in 1..Len(segment) : SubSeq(ring, 1, Len(segment))[i] = ring[i]
      BY <1>1, <3>1, FrontPiece
    <3> QED
      BY <1>2, <3>2
  <2>4. \A i \in 1..n : SubSeq(segment, 1, n)[i] = SubSeq(ring, 1, n)[i]
    BY <1>1, <1>3, <2>1, <2>2, <2>3
  <2> QED
    BY <2>1, <2>2, <2>4, SeqEqual
<1>6. /\ SubSeq(ring, 1, n) \in Seq(Byte) /\ ring' \in Seq(Byte)
      /\ Len(ring') = Len(ring) - n /\ SubSeq(ring, 1, n) \o ring' = ring
  BY <1>1, <1>3, <1>4, FrontPiece, FrontAndRest
<1>7. sent' \in Seq(Byte) /\ sent' \o ring' = sent \o ring
  <2> DEFINE front == SubSeq(ring, 1, n)
  <2>1. sent' = sent \o front /\ front \in Seq(Byte) /\ front \o ring' = ring
    BY <1>4, <1>5, <1>6
  <2> HIDE DEF front
  <2>2. sent' \in Seq(Byte)
    BY <1>1, <2>1, ConcatProperties
  <2>3. (sent \o front) \o ring' = sent \o (front \o ring')
    <3>1. sent \in Seq(Byte) /\ front \in Seq(Byte) /\ ring' \in Seq(Byte)
      BY <1>1, <1>6, <2>1
    <3> QED
      BY ONLY <3>1, Associative, ZenonT(30)
  <2> QED
    BY <2>1, <2>2, <2>3
<1>8. TypeOK'
  <2>1. Len(ring') <= Capacity /\ room' \in 0..Room
    BY <1>1, <1>3, <1>4, <1>6, SizeAssumption DEF IInv, TypeOK
  <2> QED
    BY <1>4, <1>6, <1>7, <2>1 DEF typeVars, loopVars, IInv, TypeOK
<1>9. Held'
  BY <1>4 DEF IInv, TypeOK, Held
<1>10. Pointed'
  <2>1. \A u \in Threads : pc'[u] # "segment"
    BY <1>4 DEF IInv, TypeOK, Held
  <2> QED
    BY <2>1 DEF Pointed
<1> QED
  BY <1>4, <1>7, <1>8, <1>9, <1>10 DEF IInv, BytesInOrder

\* A flush begins: it takes the mutex, so no segment is out.
LEMMA FlushLocksKeeps ==
  ASSUME IInv, NEW t \in Threads, FlushLocks(t)
  PROVE  IInv'
<1>1. /\ UNCHANGED <<bufVars, typeVars, tasks, loopVars, val, netVars>>
      /\ lock = Free /\ lock' = t /\ pc' = [pc EXCEPT ![t] = "flush"]
  BY DEF FlushLocks
<1>2. \A u \in Threads : pc[u] \notin {"flush", "segment"}
  BY <1>1, ThreadAssumption DEF IInv, Held
<1>3. pc' \in [Threads -> {"user", "store", "modify", "flush", "segment"}]
      /\ \A u \in Threads : pc'[u] # "segment" /\ (pc'[u] = "flush" => u = t)
  BY <1>1, <1>2 DEF IInv, TypeOK
<1>4. TypeOK'
  BY <1>1, <1>3 DEF bufVars, typeVars, loopVars, netVars, IInv, TypeOK
<1> QED
  BY <1>1, <1>3, <1>4 DEF bufVars, netVars, IInv, Held, Pointed, BytesInOrder

\* Steps that leave the bytes alone, take no mutex from another thread, and put no
\* thread into flushBuf.
Aside ==
    /\ UNCHANGED <<bufVars, sent>>
    /\ pc' \in [Threads -> {"user", "store", "modify", "flush", "segment"}]
    /\ \A u \in Threads : pc'[u] \in {"flush", "segment"} => pc'[u] = pc[u] /\ lock' = lock

LEMMA AsideKeeps ==
  ASSUME IInv, Aside, TypeOK'
  PROVE  IInv'
<1>1. Held'
  BY DEF Aside, IInv, Held
<1>2. Pointed'
  BY DEF Aside, bufVars, IInv, Pointed
<1> QED
  BY <1>1, <1>2 DEF Aside, bufVars, IInv, BytesInOrder

\* The steps of a thread to and in enableReadNotify and enableWriteNotify.
LEMMA EnableKeeps ==
  ASSUME IInv, NEW t \in Threads, NEW type \in SUBSET Bits, Enable(t, type),
         UNCHANGED <<bufVars, lock, typeVars, tasks, loopVars, netVars>>
  PROVE  IInv'
<1>1. /\ pc' \in [Threads -> {"user", "store", "modify", "flush", "segment"}]
      /\ val' \in [Threads -> SUBSET Bits]
      /\ \A u \in Threads : pc'[u] \in {"flush", "segment"} => pc'[u] = pc[u]
  BY DEF Enable, IInv, TypeOK
<1>2. TypeOK'
  BY <1>1 DEF bufVars, typeVars, loopVars, netVars, IInv, TypeOK
<1>3. Aside
  BY <1>1 DEF Aside, netVars
<1> QED
  BY <1>2, <1>3, AsideKeeps

LEMMA StoreKeeps ==
  ASSUME IInv, NEW t \in Threads, Store(t)
  PROVE  IInv'
<1>1. /\ pc' \in [Threads -> {"user", "store", "modify", "flush", "segment"}]
      /\ eventType' \in SUBSET Bits
      /\ \A u \in Threads : pc'[u] \in {"flush", "segment"} => pc'[u] = pc[u]
  BY DEF Store, IInv, TypeOK
<1>2. TypeOK'
  BY <1>1 DEF Store, bufVars, loopVars, netVars, IInv, TypeOK
<1>3. Aside
  BY <1>1 DEF Store, Aside, netVars
<1> QED
  BY <1>2, <1>3, AsideKeeps

\* Only its holder gives the mutex back, and then it is in no flush.
LEMMA LeaveKeeps ==
  ASSUME IInv, NEW t \in Threads, Leave(t)
  PROVE  /\ pc' \in [Threads -> {"user", "store", "modify", "flush", "segment"}]
         /\ lock' \in Threads \cup {Free} /\ at' \in {"idle", "read", "write", "writeCb"}
         /\ \A u \in Threads : pc'[u] \in {"flush", "segment"} => pc'[u] = pc[u] /\ lock' = lock
<1>1. /\ pc' \in [Threads -> {"user", "store", "modify", "flush", "segment"}]
      /\ lock' \in Threads \cup {Free} /\ at' \in {"idle", "read", "write", "writeCb"}
  BY DEF Leave, IInv, TypeOK
<1>2. ASSUME NEW u \in Threads, pc'[u] \in {"flush", "segment"}
      PROVE  pc'[u] = pc[u] /\ lock' = lock
  <2>1. u # t /\ pc'[u] = pc[u]
    BY <1>2 DEF Leave, IInv, TypeOK
  <2>2. lock = u
    BY <1>2, <2>1 DEF IInv, Held
  <2> QED
    BY <2>1, <2>2 DEF Leave
<1> QED
  BY <1>1, <1>2

LEMMA SegmentFailsKeeps ==
  ASSUME IInv, NEW t \in Threads, SegmentFails(t)
  PROVE  IInv'
<1>1. Leave(t) /\ UNCHANGED <<bufVars, typeVars, tasks, inMap, ev, val, netVars>>
  BY DEF SegmentFails
<1>2. TypeOK'
  BY <1>1, LeaveKeeps DEF bufVars, typeVars, netVars, IInv, TypeOK
<1>3. Aside
  BY <1>1, LeaveKeeps DEF Aside, netVars
<1> QED
  BY <1>2, <1>3, AsideKeeps

LEMMA ModifyEventKeeps ==
  ASSUME IInv, NEW t \in Threads, ModifyEvent(t)
  PROVE  IInv'
<1> DEFINE Closures == {"add", "modify"} \X SUBSET Bits
<1>1. Leave(t) /\ UNCHANGED <<bufVars, eventType, inMap, ev, netVars>>
  BY DEF ModifyEvent
<1>2. val' \in [Threads -> SUBSET Bits]
  BY DEF ModifyEvent, IInv, TypeOK, Bits
<1>3. interest' \in SUBSET Bits /\ tasks' \in Seq(Closures)
  <2>1. PICK type \in {val[t], eventType} :
           IF t = Loop
           THEN /\ interest' = IF inMap THEN type ELSE interest
                /\ UNCHANGED tasks
           ELSE /\ tasks' = Append(tasks, <<"modify", type>>)
                /\ UNCHANGED interest
    BY DEF ModifyEvent
  <2>2. type \in SUBSET Bits /\ interest \in SUBSET Bits /\ tasks \in Seq(Closures)
    BY <2>1 DEF IInv, TypeOK
  <2>3. <<"modify", type>> \in Closures
    BY <2>2
  <2> HIDE DEF Closures
  <2>4. Append(tasks, <<"modify", type>>) \in Seq(Closures)
    BY <2>2, <2>3, AppendProperties
  <2> QED
    BY <2>1, <2>2, <2>4
<1>4. TypeOK'
  BY <1>1, <1>2, <1>3, LeaveKeeps DEF bufVars, netVars, IInv, TypeOK
<1>5. Aside
  BY <1>1, LeaveKeeps DEF Aside, netVars
<1> QED
  BY <1>4, <1>5, AsideKeeps

LEMMA RunTaskKeeps ==
  ASSUME IInv, RunTask
  PROVE  IInv'
<1> DEFINE Closures == {"add", "modify"} \X SUBSET Bits
<1>1. tasks \in Seq(Closures) /\ tasks # <<>> /\ tasks' = Tail(tasks)
  BY DEF RunTask, IInv, TypeOK
<1>2. tasks' \in Seq(Closures) /\ Head(tasks) \in Closures
  <2> HIDE DEF Closures
  <2> QED
    BY <1>1, HeadTailProperties
<1>3. inMap' \in BOOLEAN /\ interest' \in SUBSET Bits
  <2>1. Head(tasks)[2] \in SUBSET Bits /\ inMap \in BOOLEAN /\ interest \in SUBSET Bits
    BY <1>2 DEF IInv, TypeOK
  <2> QED
    BY <2>1 DEF RunTask
<1>4. TypeOK'
  BY <1>2, <1>3 DEF RunTask, bufVars, callVars, netVars, IInv, TypeOK
<1>5. Aside
  BY DEF RunTask, Aside, callVars, netVars, IInv, TypeOK
<1> QED
  BY <1>4, <1>5, AsideKeeps

\* Where the loop is in onEvent, and what the peer does, is nothing to the bytes.
LEMMA OthersKeep ==
  ASSUME IInv, Poll \/ ReadDone \/ WriteDone \/ PeerReads \/ PeerSends \/ PeerResets
               \/ UNCHANGED vars
  PROVE  IInv'
<1>1. CASE Poll
  <2>1. ev' \in SUBSET Bits /\ at' \in {"idle", "read", "write", "writeCb"}
    BY <1>1 DEF Poll, Ready, IInv, TypeOK
  <2>2. TypeOK'
    BY <1>1, <2>1 DEF Poll, bufVars, typeVars, callVars, netVars, IInv, TypeOK
  <2>3. Aside
    BY <1>1 DEF Poll, Aside, callVars, netVars, IInv, TypeOK
  <2> QED
    BY <2>2, <2>3, AsideKeeps
<1>2. CASE ReadDone \/ WriteDone
  <2>1. TypeOK'
    BY <1>2 DEF ReadDone, WriteDone, bufVars, typeVars, callVars, netVars, IInv, TypeOK
  <2>2. Aside
    BY <1>2 DEF ReadDone, WriteDone, Aside, callVars, netVars, IInv, TypeOK
  <2> QED
    BY <2>1, <2>2, AsideKeeps
<1>3. CASE PeerReads \/ PeerSends \/ PeerResets
  <2>1. room' \in 0..Room
    BY <1>3, SizeAssumption DEF PeerReads, PeerSends, PeerResets, IInv, TypeOK
  <2>2. TypeOK'
    BY <1>3, <2>1 DEF PeerReads, PeerSends, PeerResets, bufVars, typeVars, loopVars, callVars,
                      IInv, TypeOK
  <2>3. Aside
    BY <1>3 DEF PeerReads, PeerSends, PeerResets, Aside, callVars, IInv, TypeOK
  <2> QED
    BY <2>2, <2>3, AsideKeeps
<1>4. CASE UNCHANGED vars
  <2>1. UNCHANGED <<bufVars, lock, typeVars, tasks, loopVars, callVars, netVars>>
    BY <1>4 DEF vars
  <2>2. TypeOK'
    BY <2>1 DEF bufVars, typeVars, loopVars, callVars, netVars, IInv, TypeOK
  <2>3. Aside
    BY <2>1 DEF Aside, callVars, netVars, IInv, TypeOK
  <2> QED
    BY <2>2, <2>3, AsideKeeps
<1> QED
  BY <1>1, <1>2, <1>3, <1>4

LEMMA StepKeepsIInv == IInv /\ [Next]_vars => IInv'
<1> SUFFICES ASSUME IInv, [Next]_vars PROVE IInv'
  OBVIOUS
<1>1. ASSUME NEW t \in Threads, NEW m \in Msgs, Send(t, m) PROVE IInv'
  BY <1>1, SendKeeps
<1>2. ASSUME NEW t \in Threads, NEW enable \in BOOLEAN, EnableRead(t, enable) PROVE IInv'
  <2>1. PICK type \in SUBSET Bits : Enable(t, type)
    BY <1>2 DEF EnableRead, IInv, TypeOK, Bits
  <2> QED
    BY <1>2, <2>1, EnableKeeps DEF EnableRead
<1>3. ASSUME NEW t \in Threads, Method(t) PROVE IInv'
  <2>1. CASE SegmentAgain(t) \/ FlushEmpty(t)
    <3>1. PICK type \in SUBSET Bits : Enable(t, type)
      BY <2>1 DEF SegmentAgain, FlushEmpty, IInv, TypeOK, Bits
    <3> QED
      BY <2>1, <3>1, EnableKeeps DEF SegmentAgain, FlushEmpty
  <2> QED
    BY <1>3, <2>1, FlushLocksKeeps, FlushNextKeeps, SendSegmentKeeps, SegmentFailsKeeps,
       StoreKeeps, ModifyEventKeeps DEF Method, Flushing, Enabling
<1> QED
  BY <1>1, <1>2, <1>3, RunTaskKeeps, OthersKeep DEF Next

-----------------------------------------------------------------------------
(* The theorems.                                                           *)

LEMMA IInvHolds == Spec => []IInv
<1>1. Init => IInv
  BY InitIInv
<1>2. IInv /\ [Next]_vars => IInv'
  BY StepKeepsIInv
<1> QED
  BY <1>1, <1>2, PTL DEF Spec

\* However threads send and flush, the kernel has the bytes of the accepted
\* messages in the order send took them, and the ring buffer has the rest.
THEOREM SenderBytesInOrder == Spec => []BytesInOrder
<1>1. IInv => BytesInOrder
  BY DEF IInv
<1> QED
  BY <1>1, IInvHolds, PTL

\* The types hold, and flushBuf's assertion that a segment has bytes never fails.
THEOREM SendersStaySafe == Spec => []SendersSafe
<1>1. IInv => SendersSafe
  BY DEF IInv, Pointed, SendersSafe, SegmentHasBytes
<1> QED
  BY <1>1, IInvHolds, PTL

=============================================================================
