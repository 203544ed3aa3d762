----------------------------- MODULE RingBuffer -----------------------------
(***************************************************************************)
(* RingBuffer: bytes in a fixed array between two pointers that wrap.      *)
(* Pointers are offsets from _pHead, so _pHead is 0 and _pTail Capacity.   *)
(* _pValidTail may stand at Capacity itself; _pValid never does.           *)
(***************************************************************************)
EXTENDS Integers, Sequences

CONSTANTS
    Bytes,           \* what a cell can hold
    Capacity,        \* _capacity
    MaxCall,          \* bound on the length of one call
    Refused          \* the -1 of a write that does not fit

ASSUME CapacityAssumption == Capacity \in Nat \ {0}
ASSUME MaxCallAssumption == MaxCall \in Nat
ASSUME BytesAssumption == Bytes # {}

VARIABLES
    mem,             \* the array
    valid,           \* _pValid: the oldest byte
    validTail,       \* _pValidTail: one past the newest byte
    validLen,        \* _validLen
    result           \* what the last call copied out or returned

ringVars == <<mem, valid, validTail, validLen, result>>

Cells == 0..(Capacity - 1)

RingTypeOK ==
    /\ mem \in [Cells -> Bytes]
    /\ valid \in Cells
    /\ validTail \in 0..Capacity
    /\ validLen \in 0..Capacity
    /\ result \in Seq(Bytes) \cup {Refused}

RingInit ==
    /\ mem \in [Cells -> Bytes]
    /\ valid = 0
    /\ validTail = 0
    /\ validLen = 0
    /\ result = <<>>

-----------------------------------------------------------------------------

\* memcpy of data[from + 1 .. from + n] to the cells from `at' on
CopyIn(m, at, data, from, n) ==
    [c \in Cells |-> IF c >= at /\ c < at + n THEN data[c - at + from + 1] ELSE m[c]]

\* memcpy of n cells from `at' on
CopyOut(m, at, n) == [i \in 1..n |-> m[at + i - 1]]

\* mutant of Write: the second part is copied from the start of the data again
WriteRepeats(data) ==
    LET addLen == Len(data)
        len1 == Capacity - validTail
        len2 == addLen - len1
    IN  IF addLen > Capacity - validLen
        THEN result' = Refused /\ UNCHANGED <<mem, valid, validTail, validLen>>
        ELSE /\ IF validTail + addLen > Capacity
                THEN /\ mem' = CopyIn(CopyIn(mem, validTail, data, 0, len1), 0, data, 0, len2)
                     /\ validTail' = len2
                ELSE /\ mem' = CopyIn(mem, validTail, data, 0, addLen)
                     /\ validTail' = validTail + addLen
             /\ validLen' = validLen + addLen
             /\ result' = data
             /\ UNCHANGED valid

\* write: what passes the end of the array continues at its head
Write(data) ==
    LET addLen == Len(data)
        len1 == Capacity - validTail
        len2 == addLen - len1
    IN  IF addLen > Capacity - validLen
        THEN result' = Refused /\ UNCHANGED <<mem, valid, validTail, validLen>>
        ELSE /\ IF validTail + addLen > Capacity
                THEN /\ mem' = CopyIn(CopyIn(mem, validTail, data, 0, len1), 0, data, len1, len2)
                     /\ validTail' = len2
                ELSE /\ mem' = CopyIn(mem, validTail, data, 0, addLen)
                     /\ validTail' = validTail + addLen
             /\ validLen' = validLen + addLen
             /\ result' = data
             /\ UNCHANGED valid

Clamp(len) == IF len > validLen THEN validLen ELSE len

\* the first len bytes, in one piece or two
FirstBytes(len) ==
    LET len1 == Capacity - valid
    IN  IF valid + len > Capacity
        THEN CopyOut(mem, valid, len1) \o CopyOut(mem, 0, len - len1)
        ELSE CopyOut(mem, valid, len)

\* where _pValid goes when len bytes are used up
Advance(len) ==
    IF valid + len > Capacity THEN len - (Capacity - valid)
    ELSE IF valid + len = Capacity THEN 0 ELSE valid + len

Read(len) ==
    LET n == Clamp(len)
    IN  /\ result' = FirstBytes(n)
        /\ valid' = Advance(n)
        /\ validLen' = validLen - n
        /\ UNCHANGED <<mem, validTail>>

Peek(len) ==
    /\ result' = FirstBytes(Clamp(len))
    /\ UNCHANGED <<mem, valid, validTail, validLen>>

Consume(len) ==
    LET n == Clamp(len)
    IN  /\ valid' = Advance(n)
        /\ validLen' = validLen - n
        /\ UNCHANGED <<mem, validTail, result>>

\* the bytes that lie in one piece from _pValid on
SegmentSize ==
    IF validLen = 0 THEN 0
    ELSE IF validTail <= valid THEN Capacity - valid ELSE validLen

FirstSegment ==
    /\ result' = CopyOut(mem, valid, SegmentSize)
    /\ UNCHANGED <<mem, valid, validTail, validLen>>

RingNext ==
    \/ \E n \in 0..MaxCall : \E data \in [1..n -> Bytes] : Write(data)
    \/ \E len \in 0..MaxCall : Read(len) \/ Peek(len) \/ Consume(len)
    \/ FirstSegment

RingSpec == RingInit /\ [][RingNext]_ringVars

-----------------------------------------------------------------------------
(* Properties.                                                             *)

\* The pointers and the length, which the code keeps apart, never disagree: the
\* tail is _validLen past the head, around the array, also when it stands at the
\* array's end over a buffer that has been emptied.
PointersAgree ==
    \E lap \in {-Capacity, 0, Capacity} : validTail = valid + validLen + lap

\* The cell that holds the i-th byte, and what the buffer holds.
CellOf(i) == IF valid + i - 1 < Capacity THEN valid + i - 1 ELSE valid + i - 1 - Capacity

Stored == [i \in 1..validLen |-> mem[CellOf(i)]]

Fifo == INSTANCE BoundedFifo WITH content <- Stored, MaxLen <- MaxCall

\* Whatever the lengths of the calls, and wherever the pointers stand when they
\* wrap, bytes come out once, in order and unchanged, and a write that does not
\* fit changes nothing.
ImplementsFifo == Fifo!FifoInit /\ [][Fifo!FifoNext]_(Fifo!fifoVars)

=============================================================================
