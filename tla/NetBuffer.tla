------------------------------ MODULE NetBuffer ------------------------------
(***************************************************************************)
(* The typed calls of Buffer.h: integers in network order, and searches    *)
(* for the end of a line.  A writer puts the fields of a message behind    *)
(* each other and their length in front of them; the network carries the   *)
(* octets in pieces; a reader takes the fields from a Buffer of its own.   *)
(*                                                                         *)
(* An integer is its octets as the host, a little-endian one, keeps them.  *)
(***************************************************************************)
EXTENDS Integers, Sequences, FiniteSetsExt, SequencesExt

CONSTANTS
    MessageLists,      \* messages, each a sequence of fields
    NetPieces,         \* how many octets the network carries at once
    FirstSize,         \* kInitialSize
    MaxVector          \* bound on the vectors

Octet == 0..255

\* An integer, or a line, in which no line ends
Fields ==
    {f \in [type : {"int", "line"}, value : Seq(Octet)] :
        f.type = "line" => \A i \in DOMAIN f.value : f.value[i] # 10}

ASSUME MessagesAssumption == \A list \in MessageLists : list \in Seq(Seq(Fields))
ASSUME NetBounds == NetPieces \subseteq Nat /\ {FirstSize, MaxVector} \subseteq Nat

VARIABLES
    out,               \* the writer's Buffer
    in,                \* the reader's
    put,               \* what the writer's last call put
    moved,             \* what the network last carried
    messages,          \* what is still to be written; the head is in work
    framed,            \* the length has been put in front of it
    expected,          \* history: the fields written
    fields,            \* the fields read
    scanned            \* octets of the reader's in which no line ends

netBufferVars == <<out, in, put, moved, messages, framed, expected, fields, scanned>>

\* as built: kCheapPrepend is 16
Made(b) ==
    INSTANCE Buffer WITH Byte <- Octet, Zero <- 0, CheapPrepend <- 16, InitialSize <- FirstSize,
        ExtraSize <- 0, MaxLen <- 0, MaxSize <- MaxVector, buf <- b, given <- put, taken <- moved,
        promised <- 0

Integer(octets) == [type |-> "int", value |-> octets]
Line(octets) == [type |-> "line", value |-> octets]

CRLF == <<13, 10>>
MinusOne(width) == [i \in 1..width |-> 255]

\* hostToNetwork16, 32, 64 and networkToHost16, 32, 64
SwapOctets(octets) == Reverse(octets)

-----------------------------------------------------------------------------
(* Searches.  A position is an index into the vector; Null is a null       *)
(* pointer.                                                                *)

Null == -1

\* std::search and memchr up to beginWrite()
Search(b, start, target) ==
    LET found == {i \in start..(b.writer - Len(target)) :
                    SubSeq(b.cells, i + 1, i + Len(target)) = target}
    IN  IF found = {} THEN Null ELSE Min(found)

FindString(b, target) == Search(b, b.reader, target)
FindCRLF(b) == FindString(b, CRLF)
FindEOL(b) == FindString(b, <<10>>)

InReadable(b, at) == b.reader <= at /\ at <= b.writer

FindCRLFFrom(b, start) == IF InReadable(b, start) THEN Search(b, start, CRLF) ELSE Null
FindEOLFrom(b, start) == IF InReadable(b, start) THEN Search(b, start, <<10>>) ELSE Null

\* where the line ends, and what follows starts, by one of the searches
LineEnds(b, start) ==
    LET crlf(at) == IF at = Null THEN {} ELSE {[line |-> at, next |-> at + 2]}
        eol(at) == IF at = Null THEN {} ELSE {[line |-> at - 1, next |-> at + 1]}
    IN  [findString |-> crlf(FindString(b, CRLF)), findCRLF |-> crlf(FindCRLF(b)),
         findCRLFFrom |-> crlf(FindCRLFFrom(b, start)),
         findEOL |-> eol(FindEOL(b)), findEOLFrom |-> eol(FindEOLFrom(b, start))]

-----------------------------------------------------------------------------
(* The writer and the network.                                             *)

\* appendInt8, 16, 32, 64, and append of a line
AppendField(field) ==
    Made(out)!AppendBytes(IF field.type = "int" THEN SwapOctets(field.value)
                          ELSE field.value \o CRLF)

PutField ==
    /\ messages # <<>> /\ ~framed
    /\ Len(Head(messages).todo) > 0
    /\ AppendField(Head(Head(messages).todo))
    /\ messages' = [messages EXCEPT ![1].todo = Tail(@)]
    /\ UNCHANGED <<in, framed, expected, fields, scanned>>

\* prependInt16 of readableBytes()
PutLength ==
    /\ messages # <<>> /\ ~framed /\ Head(messages).todo = <<>>
    /\ LET n == Made(out)!ReadableBytes(out)
           length == <<n % 256, (n \div 256) % 256>>
       IN  /\ Made(out)!Prepend(SwapOctets(length))
           /\ expected' = expected \o <<Integer(length)>> \o Head(messages).fields
    /\ framed' = TRUE
    /\ UNCHANGED <<in, messages, fields, scanned>>

Carry(n) ==
    /\ framed /\ n <= Made(out)!ReadableBytes(out)
    /\ Made(out)!RetrieveAsString(n)
    /\ in' = Made(in)!Appended(in, moved')
    /\ IF Made(out)!ReadableBytes(out) = n
       THEN framed' = FALSE /\ messages' = Tail(messages)
       ELSE UNCHANGED <<framed, messages>>
    /\ UNCHANGED <<put, expected, fields, scanned>>

-----------------------------------------------------------------------------
(* The reader.                                                             *)

\* peekInt8, 16, 32, 64
PeekInt(b, width) ==
    IF Made(b)!ReadableBytes(b) < width THEN MinusOne(width)
    ELSE SwapOctets(SubSeq(b.cells, b.reader + 1, b.reader + width))

\* mutant of RetrieveInt: what there is of it is taken
RetrieveIntPart(b, width) == Made(b)!Retrieved(Min({width, Made(b)!ReadableBytes(b)}))

\* retrieveInt8, 16, 32, 64, of which retrieve refuses what is not there
RetrieveInt(b, width) == Made(b)!Retrieved(width)

RetrieveUntil(b, end) == IF InReadable(b, end) THEN Made(b)!Retrieved(end - b.reader) ELSE b

Wanted == expected[Len(fields) + 1]

\* readInt8, 16, 32, 64.  -1 may be the value or mean that not all of it is there,
\* which the reader tells by readableBytes().
ReadInt ==
    /\ Len(fields) < Len(expected) /\ Wanted.type = "int"
    /\ LET width == Len(Wanted.value)
       IN  /\ fields' = IF Made(in)!ReadableBytes(in) < width THEN fields
                        ELSE Append(fields, Integer(PeekInt(in, width)))
           /\ in' = RetrieveInt(in, width)
    /\ UNCHANGED <<out, put, moved, messages, framed, expected, scanned>>

\* a line, by any of the searches; when there is none, what was searched, but for
\* its last octet, need not be searched again
ReadLine(how) ==
    /\ Len(fields) < Len(expected) /\ Wanted.type = "line"
    /\ LET ends == LineEnds(in, in.reader + scanned)[how]
       IN  IF ends = {}
           THEN /\ scanned' = Max({0, Made(in)!ReadableBytes(in) - 1})
                /\ UNCHANGED <<in, fields>>
           ELSE \E end \in ends :
                /\ fields' = Append(fields, Line(SubSeq(in.cells, in.reader + 1, end.line)))
                /\ in' = RetrieveUntil(in, end.next)
                /\ scanned' = 0
    /\ UNCHANGED <<out, put, moved, messages, framed, expected>>

-----------------------------------------------------------------------------
Searches == {"findString", "findCRLF", "findCRLFFrom", "findEOL", "findEOLFrom"}

NetBufferInit ==
    /\ out = Made([cells |-> <<>>, reader |-> 0, writer |-> 0])!New /\ in = out
    /\ put = <<>> /\ moved = <<>>
    /\ \E list \in MessageLists :
          messages = [i \in 1..Len(list) |-> [fields |-> list[i], todo |-> list[i]]]
    /\ framed = FALSE /\ expected = <<>> /\ fields = <<>> /\ scanned = 0

NetBufferNext ==
    \/ PutField \/ PutLength \/ (\E n \in NetPieces : Carry(n))
    \/ ReadInt \/ (\E how \in Searches : ReadLine(how))

NetBufferSpec == NetBufferInit /\ [][NetBufferNext]_netBufferVars

\* What the reader has read is what was written, field by field, although it reads
\* also when not all of a field has come, and although the end of a line is cut in
\* two; and when all octets have come, the next field is there.
FieldsReadBack ==
    /\ IsPrefix(fields, expected)
    /\ Len(fields) < Len(expected) /\ Made(out)!ReadableBytes(out) = 0 =>
         IF Wanted.type = "int" THEN Made(in)!ReadableBytes(in) >= Len(Wanted.value)
         ELSE \A how \in Searches : LineEnds(in, in.reader + scanned)[how] # {}

=============================================================================
