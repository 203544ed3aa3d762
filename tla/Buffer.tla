------------------------------- MODULE Buffer -------------------------------
(***************************************************************************)
(* Buffer: bytes between two indexes into a vector that keeps a reserve in *)
(* front, moves its content down or grows when there is no room behind.    *)
(*                                                                         *)
(* A Buffer is a record, so that append, shrink and readFd can be put      *)
(* together from ensureWritableBytes and makeSpace as the code does.       *)
(***************************************************************************)
EXTENDS Integers, Sequences

CONSTANTS
    Byte,            \* what a cell can hold
    Zero,            \* what resize fills with
    CheapPrepend,    \* kCheapPrepend
    InitialSize,     \* kInitialSize
    ExtraSize,       \* what readFd reads at most beyond the vector
    MaxLen,          \* bound on the length given in one call
    MaxSize          \* bound on the vector

ASSUME ByteAssumption == Zero \in Byte
ASSUME SizesAssumption == {CheapPrepend, InitialSize, ExtraSize} \subseteq Nat
ASSUME BoundsAssumption == {MaxLen, MaxSize} \subseteq Nat

VARIABLES
    buf,             \* buffer_, readerIndex_, writerIndex_
    given,           \* history: what the last call put, <<>> when it was refused
    taken,           \* what the last retrieveAsString returned
    promised         \* history: what may be written without asking again

bufferVars == <<buf, given, taken, promised>>

ReadableBytes(b) == b.writer - b.reader
WritableBytes(b) == Len(b.cells) - b.writer

\* toStringPiece
Piece(b) == [i \in 1..ReadableBytes(b) |-> b.cells[b.reader + i]]

Content == Piece(buf)

\* std::copy of data to the cells after the first `at'
Overwrite(cells, at, data) ==
    [i \in 1..Len(cells) |-> IF i > at /\ i <= at + Len(data) THEN data[i - at] ELSE cells[i]]

\* resize, to no less than it was
Resize(cells, n) == [i \in 1..n |-> IF i <= Len(cells) THEN cells[i] ELSE Zero]

New ==
    [cells |-> [i \in 1..(CheapPrepend + InitialSize) |-> Zero],
     reader |-> CheapPrepend, writer |-> CheapPrepend]

BufferTypeOK ==
    /\ buf.cells \in Seq(Byte)
    /\ buf.reader \in Nat /\ buf.writer \in Nat
    /\ given \in Seq(Byte) /\ taken \in Seq(Byte)
    /\ promised \in Nat

BufferInit == buf = New /\ given = <<>> /\ taken = <<>> /\ promised = 0

-----------------------------------------------------------------------------
(* Room.                                                                   *)

\* mutant of MakeSpace: the reserve is not counted
MakeSpaceUnreserved(b, len) ==
    IF WritableBytes(b) + b.reader < len
    THEN [b EXCEPT !.cells = Resize(b.cells, b.writer + len)]
    ELSE IF CheapPrepend >= b.reader
    THEN b
    ELSE [cells |-> Overwrite(b.cells, CheapPrepend, Piece(b)),
          reader |-> CheapPrepend,
          writer |-> CheapPrepend + ReadableBytes(b)]

\* Grow, or move the content down to the reserve.
MakeSpace(b, len) ==
    IF WritableBytes(b) + b.reader < len + CheapPrepend
    THEN [b EXCEPT !.cells = Resize(b.cells, b.writer + len)]
    ELSE IF CheapPrepend >= b.reader
    THEN b
    ELSE [cells |-> Overwrite(b.cells, CheapPrepend, Piece(b)),
          reader |-> CheapPrepend,
          writer |-> CheapPrepend + ReadableBytes(b)]

EnsureWritable(b, len) == IF WritableBytes(b) < len THEN MakeSpace(b, len) ELSE b

\* data copied to beginWrite(), and hasWritten
Written(b, data) ==
    [b EXCEPT !.cells = Overwrite(@, b.writer, data), !.writer = @ + Len(data)]

Appended(b, data) == Written(EnsureWritable(b, Len(data)), data)

-----------------------------------------------------------------------------
(* The calls.                                                              *)

Fits(b) == Len(b.cells) <= MaxSize

EnsureWritableBytes(len) ==
    /\ buf' = EnsureWritable(buf, len)
    /\ Fits(buf')
    /\ promised' = len
    /\ UNCHANGED <<given, taken>>

AppendBytes(data) ==
    /\ buf' = Appended(buf, data)
    /\ Fits(buf')
    /\ promised' = 0 /\ given' = data
    /\ UNCHANGED taken

\* The user has written to beginWrite(), what it had room for, and says so.
HasWritten(data) ==
    /\ IF Len(data) > WritableBytes(buf)
       THEN UNCHANGED buf /\ given' = <<>>
       ELSE /\ buf' = Written(buf, data)
            /\ given' = data
    /\ promised' = 0
    /\ UNCHANGED taken

\* what is left when n bytes are gone; when all are, it starts anew
Retrieved(n) ==
    IF n > ReadableBytes(buf) THEN buf
    ELSE IF n < ReadableBytes(buf) THEN [buf EXCEPT !.reader = @ + n]
    ELSE [buf EXCEPT !.reader = CheapPrepend, !.writer = CheapPrepend]

Retrieve(n) ==
    /\ buf' = Retrieved(n)
    /\ promised' = 0
    /\ UNCHANGED <<given, taken>>

RetrieveAsString(n) ==
    /\ taken' = IF n > ReadableBytes(buf) THEN <<>> ELSE SubSeq(Content, 1, n)
    /\ buf' = Retrieved(n)
    /\ promised' = 0
    /\ UNCHANGED given

Unwrite(n) ==
    /\ buf' = IF n > ReadableBytes(buf) THEN buf ELSE [buf EXCEPT !.writer = @ - n]
    /\ promised' = 0
    /\ UNCHANGED <<given, taken>>

Prepend(data) ==
    /\ IF Len(data) > buf.reader
       THEN UNCHANGED buf /\ given' = <<>>
       ELSE /\ buf' = [buf EXCEPT !.reader = @ - Len(data),
                                  !.cells = Overwrite(@, buf.reader - Len(data), data)]
            /\ given' = data
    /\ promised' = 0
    /\ UNCHANGED taken

Shrink(reserve) ==
    /\ buf' = Appended(EnsureWritable(New, ReadableBytes(buf) + reserve), Content)
    /\ Fits(buf')
    /\ promised' = reserve
    /\ UNCHANGED <<given, taken>>

\* mutant of ReadFd: what went past the vector is counted from the start
ReadFdWhole(data) ==
    LET writable == WritableBytes(buf)
        full == Written(buf, SubSeq(data, 1, writable))
    IN  /\ Len(data) <= writable + (IF writable < ExtraSize THEN ExtraSize ELSE 0)
        /\ buf' = IF Len(data) <= writable
                  THEN Written(buf, data)
                  ELSE Appended(full, SubSeq(data, 1, Len(data) - writable))
        /\ Fits(buf')
        /\ promised' = 0 /\ given' = data
        /\ UNCHANGED taken

\* readv has put what fits in the vector and the rest in extrabuf.
ReadFd(data) ==
    LET writable == WritableBytes(buf)
        full == Written(buf, SubSeq(data, 1, writable))
    IN  /\ Len(data) <= writable + (IF writable < ExtraSize THEN ExtraSize ELSE 0)
        /\ buf' = IF Len(data) <= writable
                  THEN Written(buf, data)
                  ELSE Appended(full, SubSeq(data, writable + 1, Len(data)))
        /\ Fits(buf')
        /\ promised' = 0 /\ given' = data
        /\ UNCHANGED taken

BufferNext ==
    \E n \in 0..MaxLen :
        \/ EnsureWritableBytes(n) \/ Retrieve(n) \/ RetrieveAsString(n) \/ Unwrite(n) \/ Shrink(n)
        \/ \E data \in [1..n -> Byte] :
              AppendBytes(data) \/ HasWritten(data) \/ Prepend(data) \/ ReadFd(data)

BufferSpec == BufferInit /\ [][BufferNext]_bufferVars

-----------------------------------------------------------------------------
(* Properties.                                                             *)

\* The picture over class Buffer: 0 <= readerIndex <= writerIndex <= size, after
\* any mix of calls, legal or too long, on which every copy's bounds depend.
IndexesInOrder == 0 <= buf.reader /\ buf.reader <= buf.writer /\ buf.writer <= Len(buf.cells)

\* After ensureWritableBytes(len), len bytes can be written at beginWrite(), and
\* after shrink(reserve) as many as reserve: makeSpace's estimate, which takes
\* the reserve into account, never leaves too little.
RoomAsPromised == promised <= WritableBytes(buf)

Queue == INSTANCE ByteQueue WITH content <- Content

\* Growing, moving down, reading past the end and starting anew never lose,
\* repeat or reorder a byte.
ImplementsByteQueue == Queue!QueueInit /\ [][Queue!QueueNext]_(Queue!queueVars)

=============================================================================
