---------------------------- MODULE BufferProofs ----------------------------
(***************************************************************************)
(* Proofs about Buffer, for any bytes, reserve, initial size and lengths.  *)
(***************************************************************************)
EXTENDS Buffer, SequenceTheorems, TLAPS

\* A Buffer whose indexes are in order, and which has cells for the reserve:
\* retrieveAll puts both indexes behind it without looking.
Sound(b) ==
    /\ b \in [cells : Seq(Byte), reader : Nat, writer : Nat]
    /\ b.reader <= b.writer /\ b.writer <= Len(b.cells)
    /\ CheapPrepend <= Len(b.cells)

-----------------------------------------------------------------------------
(* Sequences.                                                              *)

\* A function on 1..n is a sequence of length n.
LEMMA FunctionIsSeq ==
  ASSUME NEW S, NEW n \in Nat, NEW f, f \in [1..n -> S]
  PROVE  f \in Seq(S) /\ Len(f) = n
<1>1. f \in Seq(S)
  OBVIOUS
<1>2. DOMAIN f = 1..Len(f) /\ DOMAIN f = 1..n /\ Len(f) \in Nat
  BY <1>1
<1> QED
  BY <1>1, <1>2

\* What is after the first k.
LEMMA AfterIs ==
  ASSUME NEW s \in Seq(Byte), NEW k \in 0..Len(s)
  PROVE  /\ SubSeq(s, k + 1, Len(s)) \in Seq(Byte)
         /\ Len(SubSeq(s, k + 1, Len(s))) = Len(s) - k
         /\ \A i \in 1..(Len(s) - k) : SubSeq(s, k + 1, Len(s))[i] = s[k + i]
<1> DEFINE m == k + 1
           n == Len(s)
<1>1. n \in Nat /\ k \in Nat /\ k <= n /\ m \in Int
  BY LenProperties
<1>2. \A i \in m..n : s[i] \in Byte
  BY <1>1, ElementOfSeq
<1>3. /\ SubSeq(s, m, n) \in Seq(Byte) /\ Len(SubSeq(s, m, n)) = n - k
      /\ \A i \in 1..(n - k) : SubSeq(s, m, n)[i] = s[m + i - 1]
  BY <1>1, <1>2, SubSeqProperties
<1>4. \A i \in 1..(n - k) : m + i - 1 = k + i
  BY <1>1
<1> QED
  BY <1>3, <1>4

\* The first k.
LEMMA FirstIs ==
  ASSUME NEW s \in Seq(Byte), NEW k \in 0..Len(s)
  PROVE  /\ SubSeq(s, 1, k) \in Seq(Byte)
         /\ Len(SubSeq(s, 1, k)) = k
         /\ \A i \in 1..k : SubSeq(s, 1, k)[i] = s[i]
<1>1. Len(s) \in Nat /\ k \in Nat /\ k <= Len(s)
  BY LenProperties
<1>2. \A i \in 1..k : s[i] \in Byte
  BY <1>1, ElementOfSeq
<1> QED
  BY <1>1, <1>2, SubSeqProperties

LEMMA LenIsNat == ASSUME NEW s \in Seq(Byte) PROVE Len(s) \in Nat
OBVIOUS

\* toStringPiece is the readable bytes, as many as there are.
LEMMA PieceIsSeq ==
  ASSUME NEW b, Sound(b)
  PROVE  /\ Piece(b) \in Seq(Byte)
         /\ Len(Piece(b)) = b.writer - b.reader
         /\ \A i \in 1..(b.writer - b.reader) : Piece(b)[i] = b.cells[b.reader + i]
<1>1. /\ b.cells \in Seq(Byte) /\ b.reader \in Nat /\ b.writer \in Nat
      /\ b.reader <= b.writer /\ b.writer <= Len(b.cells) /\ Len(b.cells) \in Nat
  BY LenIsNat DEF Sound
<1>2. b.writer - b.reader \in Nat
  BY <1>1
<1>3. \A i \in 1..(b.writer - b.reader) : b.cells[b.reader + i] \in Byte
  BY <1>1
<1>4. Piece(b) \in [1..(b.writer - b.reader) -> Byte]
  BY <1>3 DEF Piece, ReadableBytes
<1>5. \A i \in 1..(b.writer - b.reader) : Piece(b)[i] = b.cells[b.reader + i]
  BY DEF Piece, ReadableBytes
<1> HIDE DEF Piece
<1> QED
  BY <1>2, <1>4, <1>5, FunctionIsSeq

\* std::copy changes the cells it copies to, and no others.
LEMMA OverwriteIsSeq ==
  ASSUME NEW cells \in Seq(Byte), NEW data \in Seq(Byte), NEW at \in Nat
  PROVE  /\ Overwrite(cells, at, data) \in Seq(Byte)
         /\ Len(Overwrite(cells, at, data)) = Len(cells)
         /\ \A i \in 1..Len(cells) : Overwrite(cells, at, data)[i] =
               IF i > at /\ i <= at + Len(data) THEN data[i - at] ELSE cells[i]
<1>1. Len(cells) \in Nat /\ Len(data) \in Nat
  BY LenIsNat
<1>2. \A i \in 1..Len(cells) :
         (IF i > at /\ i <= at + Len(data) THEN data[i - at] ELSE cells[i]) \in Byte
  <2> TAKE i \in 1..Len(cells)
  <2>1. CASE i > at /\ i <= at + Len(data)
    <3>1. i - at \in 1..Len(data)
      BY <1>1, <2>1
    <3> QED
      BY <2>1, <3>1
  <2>2. CASE ~(i > at /\ i <= at + Len(data))
    BY <2>2
  <2> QED
    BY <2>1, <2>2
<1>3. Overwrite(cells, at, data) \in [1..Len(cells) -> Byte]
  BY <1>2 DEF Overwrite
<1>4. \A i \in 1..Len(cells) : Overwrite(cells, at, data)[i] =
         IF i > at /\ i <= at + Len(data) THEN data[i - at] ELSE cells[i]
  BY DEF Overwrite
<1> HIDE DEF Overwrite
<1> QED
  BY <1>1, <1>3, <1>4, FunctionIsSeq

\* A vector that is resized keeps its cells.
LEMMA ResizeIsSeq ==
  ASSUME NEW cells \in Seq(Byte), NEW n \in Nat
  PROVE  /\ Resize(cells, n) \in Seq(Byte)
         /\ Len(Resize(cells, n)) = n
         /\ \A i \in 1..n : i <= Len(cells) => Resize(cells, n)[i] = cells[i]
<1>1. Len(cells) \in Nat
  BY LenIsNat
<1>2. \A i \in 1..n : (IF i <= Len(cells) THEN cells[i] ELSE Zero) \in Byte
  BY <1>1, ByteAssumption
<1>3. Resize(cells, n) \in [1..n -> Byte]
  BY <1>2 DEF Resize
<1>4. \A i \in 1..n : i <= Len(cells) => Resize(cells, n)[i] = cells[i]
  BY DEF Resize
<1> HIDE DEF Resize
<1> QED
  BY <1>3, <1>4, FunctionIsSeq

\* Two Buffers with the same readable bytes, one by one, have the same piece.
LEMMA SamePiece ==
  ASSUME NEW b, NEW c, Sound(b), Sound(c),
         c.writer - c.reader = b.writer - b.reader,
         \A i \in 1..(b.writer - b.reader) : c.cells[c.reader + i] = b.cells[b.reader + i]
  PROVE  Piece(c) = Piece(b)
BY DEF Piece, ReadableBytes

-----------------------------------------------------------------------------
(* The steps that append, readFd and shrink are made of.                   *)

\* ensureWritableBytes(len) leaves room for len bytes, and the content as it was.
\* When the content is not moved down although the estimate says that there is
\* room, there was enough behind it, and makeSpace would not have been called.
LEMMA EnsureMakesRoom ==
  ASSUME NEW b, Sound(b), NEW len \in Nat
  PROVE  /\ Sound(EnsureWritable(b, len))
         /\ Piece(EnsureWritable(b, len)) = Piece(b)
         /\ len <= WritableBytes(EnsureWritable(b, len))
<1> DEFINE e == EnsureWritable(b, len)
<1>1. /\ b.cells \in Seq(Byte) /\ b.reader \in Nat /\ b.writer \in Nat
      /\ b.reader <= b.writer /\ b.writer <= Len(b.cells) /\ Len(b.cells) \in Nat
      /\ b \in [cells : Seq(Byte), reader : Nat, writer : Nat] /\ CheapPrepend <= Len(b.cells)
  BY LenIsNat DEF Sound
<1>2. CASE ~(WritableBytes(b) < len)
  <2>1. e = b
    BY <1>2 DEF EnsureWritable
  <2> QED
    BY <1>1, <1>2, <2>1 DEF WritableBytes
<1>3. CASE WritableBytes(b) < len /\ WritableBytes(b) + b.reader < len + CheapPrepend
  <2>1. e = [b EXCEPT !.cells = Resize(b.cells, b.writer + len)]
    BY <1>3 DEF EnsureWritable, MakeSpace
  <2>2. b.writer + len \in Nat
    BY <1>1
  <2>3. /\ Resize(b.cells, b.writer + len) \in Seq(Byte)
        /\ Len(Resize(b.cells, b.writer + len)) = b.writer + len
        /\ \A i \in 1..(b.writer + len) :
              i <= Len(b.cells) => Resize(b.cells, b.writer + len)[i] = b.cells[i]
    BY <1>1, <2>2, ResizeIsSeq
  <2> HIDE DEF e, Resize
  <2>4. /\ e.cells = Resize(b.cells, b.writer + len) /\ e.reader = b.reader
        /\ e.writer = b.writer /\ e \in [cells : Seq(Byte), reader : Nat, writer : Nat]
    BY <1>1, <2>1, <2>3
  <2>5. Sound(e) /\ WritableBytes(e) = len
    BY <1>1, <1>3, <2>2, <2>3, <2>4, SizesAssumption, SMTT(20) DEF Sound, WritableBytes
  <2>6. \A i \in 1..(b.writer - b.reader) : e.cells[e.reader + i] = b.cells[b.reader + i]
    <3> TAKE i \in 1..(b.writer - b.reader)
    <3>1. b.reader + i \in 1..(b.writer + len) /\ b.reader + i <= Len(b.cells)
      BY <1>1
    <3> QED
      BY <2>3, <2>4, <3>1, SMTT(20)
  <2>7. Piece(e) = Piece(b)
    BY <2>4, <2>5, <2>6, SamePiece
  <2> QED
    BY <2>5, <2>7 DEF e
<1>4. CASE WritableBytes(b) < len /\ ~(WritableBytes(b) + b.reader < len + CheapPrepend)
  <2>1. CheapPrepend \in Nat /\ CheapPrepend < b.reader
    BY <1>1, <1>4, SizesAssumption DEF WritableBytes
  <2>2. e = [cells |-> Overwrite(b.cells, CheapPrepend, Piece(b)), reader |-> CheapPrepend,
             writer |-> CheapPrepend + ReadableBytes(b)]
    BY <1>1, <1>4, <2>1 DEF EnsureWritable, MakeSpace
  <2>3. /\ Piece(b) \in Seq(Byte) /\ Len(Piece(b)) = b.writer - b.reader
        /\ \A i \in 1..(b.writer - b.reader) : Piece(b)[i] = b.cells[b.reader + i]
    BY PieceIsSeq
  <2>4. /\ e.cells = Overwrite(b.cells, CheapPrepend, Piece(b)) /\ e.reader = CheapPrepend
        /\ e.writer = CheapPrepend + (b.writer - b.reader)
    BY <2>2 DEF ReadableBytes
  <2>5. /\ e.cells \in Seq(Byte) /\ Len(e.cells) = Len(b.cells)
        /\ \A i \in 1..Len(b.cells) : e.cells[i] =
              IF i > CheapPrepend /\ i <= CheapPrepend + (b.writer - b.reader)
              THEN Piece(b)[i - CheapPrepend] ELSE b.cells[i]
    BY <1>1, <2>1, <2>3, <2>4, OverwriteIsSeq, SMTT(20)
  <2>6. e \in [cells : Seq(Byte), reader : Nat, writer : Nat]
    BY <1>1, <2>1, <2>2, <2>4, <2>5
  <2> HIDE DEF e
  <2>7. Sound(e) /\ len <= WritableBytes(e)
    BY <1>1, <1>4, <2>1, <2>4, <2>5, <2>6 DEF Sound, WritableBytes
  <2>8. \A i \in 1..(b.writer - b.reader) : e.cells[e.reader + i] = b.cells[b.reader + i]
    <3> TAKE i \in 1..(b.writer - b.reader)
    <3>1. PICK j \in 1..Len(b.cells) : j = CheapPrepend + i
      BY <1>1, <2>1
    <3>2. j > CheapPrepend /\ j <= CheapPrepend + (b.writer - b.reader) /\ j - CheapPrepend = i
      BY <1>1, <2>1, <3>1
    <3>3. e.cells[j] = Piece(b)[j - CheapPrepend]
      BY <2>5, <3>2
    <3> QED
      BY <2>3, <2>4, <3>1, <3>2, <3>3
  <2>9. e.writer - e.reader = b.writer - b.reader
    BY <1>1, <2>1, <2>4
  <2>10. Piece(e) = Piece(b)
    BY <2>7, <2>8, <2>9, SamePiece
  <2> QED
    BY <2>7, <2>10 DEF e
<1> HIDE DEF e
<1>5. \/ ~(WritableBytes(b) < len)
      \/ WritableBytes(b) < len /\ WritableBytes(b) + b.reader < len + CheapPrepend
      \/ WritableBytes(b) < len /\ ~(WritableBytes(b) + b.reader < len + CheapPrepend)
  OBVIOUS
<1> QED
  BY <1>2, <1>3, <1>4, <1>5 DEF e

\* A Buffer's piece is the sequence its cells spell.
LEMMA PieceIs ==
  ASSUME NEW c, Sound(c), NEW s \in Seq(Byte), Len(s) = c.writer - c.reader,
         \A i \in 1..Len(s) : c.cells[c.reader + i] = s[i]
  PROVE  Piece(c) = s
<1> HIDE DEF Piece
<1>1. /\ Piece(c) \in Seq(Byte) /\ Len(Piece(c)) = Len(s)
      /\ \A i \in 1..Len(s) : Piece(c)[i] = c.cells[c.reader + i]
  BY PieceIsSeq
<1>2. \A i \in 1..Len(Piece(c)) : Piece(c)[i] = s[i]
  BY <1>1
<1> QED
  BY <1>1, <1>2, SeqEqual

\* The copy to beginWrite(), when there is room, puts the data after the content.
LEMMA WrittenAppends ==
  ASSUME NEW b, Sound(b), NEW data \in Seq(Byte), Len(data) <= WritableBytes(b)
  PROVE  /\ Sound(Written(b, data))
         /\ Piece(Written(b, data)) = Piece(b) \o data
         /\ WritableBytes(Written(b, data)) = WritableBytes(b) - Len(data)
<1> DEFINE w == Written(b, data)
           n == b.writer - b.reader
<1>1. /\ b.cells \in Seq(Byte) /\ b.reader \in Nat /\ b.writer \in Nat
      /\ b.reader <= b.writer /\ b.writer <= Len(b.cells) /\ Len(b.cells) \in Nat
      /\ b \in [cells : Seq(Byte), reader : Nat, writer : Nat] /\ CheapPrepend <= Len(b.cells)
      /\ Len(data) \in Nat /\ b.writer + Len(data) <= Len(b.cells)
  BY LenIsNat DEF Sound, WritableBytes
<1>2. /\ Overwrite(b.cells, b.writer, data) \in Seq(Byte)
      /\ Len(Overwrite(b.cells, b.writer, data)) = Len(b.cells)
      /\ \A i \in 1..Len(b.cells) : Overwrite(b.cells, b.writer, data)[i] =
            IF i > b.writer /\ i <= b.writer + Len(data) THEN data[i - b.writer] ELSE b.cells[i]
  BY <1>1, OverwriteIsSeq
<1> HIDE DEF Overwrite
<1>3. /\ w.cells = Overwrite(b.cells, b.writer, data) /\ w.reader = b.reader
      /\ w.writer = b.writer + Len(data)
      /\ w \in [cells : Seq(Byte), reader : Nat, writer : Nat]
  <2>1. w = [b EXCEPT !.cells = Overwrite(b.cells, b.writer, data),
                      !.writer = b.writer + Len(data)]
    BY DEF Written
  <2>2. b.writer + Len(data) \in Nat
    BY <1>1
  <2> HIDE DEF w
  <2> QED
    BY <1>1, <1>2, <2>1, <2>2
<1> HIDE DEF w
<1>4. Sound(w) /\ WritableBytes(w) = WritableBytes(b) - Len(data)
  BY <1>1, <1>2, <1>3 DEF Sound, WritableBytes
<1>5. /\ Piece(b) \in Seq(Byte) /\ Len(Piece(b)) = n
      /\ \A i \in 1..n : Piece(b)[i] = b.cells[b.reader + i]
  BY PieceIsSeq
<1> HIDE DEF Piece
<1>6. /\ Piece(b) \o data \in Seq(Byte) /\ Len(Piece(b) \o data) = n + Len(data)
      /\ \A i \in 1..(n + Len(data)) :
            (Piece(b) \o data)[i] = IF i <= n THEN Piece(b)[i] ELSE data[i - n]
  <2>1. /\ Piece(b) \o data \in Seq(Byte)
        /\ Len(Piece(b) \o data) = Len(Piece(b)) + Len(data)
        /\ \A i \in 1..Len(Piece(b)) + Len(data) : (Piece(b) \o data)[i] =
              IF i <= Len(Piece(b)) THEN Piece(b)[i] ELSE data[i - Len(Piece(b))]
    BY <1>5, ConcatProperties
  <2> QED
    BY <1>5, <2>1
<1>7. \A i \in 1..(n + Len(data)) : w.cells[w.reader + i] = (Piece(b) \o data)[i]
  <2> TAKE i \in 1..(n + Len(data))
  <2>1. PICK j \in 1..Len(b.cells) : j = b.reader + i
    BY <1>1
  <2>2. w.cells[w.reader + i] =
           IF j > b.writer /\ j <= b.writer + Len(data) THEN data[j - b.writer] ELSE b.cells[j]
    BY <1>2, <1>3, <2>1
  <2>3. CASE i <= n
    <3>1. ~(j > b.writer) /\ i \in 1..n
      BY <1>1, <2>1, <2>3
    <3> QED
      BY <1>5, <1>6, <2>1, <2>2, <2>3, <3>1
  <2>4. CASE ~(i <= n)
    <3>1. j > b.writer /\ j <= b.writer + Len(data) /\ j - b.writer = i - n
      BY <1>1, <2>1, <2>4
    <3> QED
      BY <1>6, <2>2, <2>4, <3>1
  <2> QED
    BY <2>3, <2>4
<1>8. Piece(w) = Piece(b) \o data
  <2>1. Len(Piece(b) \o data) = w.writer - w.reader
    BY <1>1, <1>3, <1>6
  <2> QED
    BY <1>4, <1>6, <1>7, <2>1, PieceIs
<1> QED
  BY <1>4, <1>8 DEF w

\* append puts the data after the content, whatever the room.
LEMMA AppendedAppends ==
  ASSUME NEW b, Sound(b), NEW data \in Seq(Byte)
  PROVE  Sound(Appended(b, data)) /\ Piece(Appended(b, data)) = Piece(b) \o data
<1>1. Len(data) \in Nat
  BY LenIsNat
<1>2. /\ Sound(EnsureWritable(b, Len(data))) /\ Piece(EnsureWritable(b, Len(data))) = Piece(b)
      /\ Len(data) <= WritableBytes(EnsureWritable(b, Len(data)))
  BY <1>1, EnsureMakesRoom
<1> HIDE DEF EnsureWritable, Piece
<1> QED
  BY <1>2, WrittenAppends DEF Appended

\* A new Buffer is empty.
LEMMA NewIsEmpty == Sound(New) /\ Piece(New) = <<>> /\ WritableBytes(New) = InitialSize
<1> DEFINE cells == [i \in 1..(CheapPrepend + InitialSize) |-> Zero]
<1>1. CheapPrepend \in Nat /\ InitialSize \in Nat /\ CheapPrepend + InitialSize \in Nat
  BY SizesAssumption
<1>2. cells \in [1..(CheapPrepend + InitialSize) -> Byte]
  BY ByteAssumption
<1>3. New = [cells |-> cells, reader |-> CheapPrepend, writer |-> CheapPrepend]
  BY DEF New
<1> HIDE DEF cells
<1>4. cells \in Seq(Byte) /\ Len(cells) = CheapPrepend + InitialSize
  BY <1>1, <1>2, FunctionIsSeq
<1>5. Sound(New) /\ WritableBytes(New) = InitialSize /\ New.writer - New.reader = 0
  BY <1>1, <1>3, <1>4 DEF Sound, WritableBytes
<1>6. Piece(New) = <<>>
  <2>1. Piece(New) \in Seq(Byte) /\ Len(Piece(New)) = New.writer - New.reader
    BY <1>5, PieceIsSeq
  <2> HIDE DEF Piece, New
  <2> QED
    BY <1>5, <2>1, EmptySeq
<1> QED
  BY <1>5, <1>6

-----------------------------------------------------------------------------
(* What each call does to the content.                                     *)

\* A request for more than there is does nothing, as a request for nothing.
Granted(n) == IF n > ReadableBytes(buf) THEN 0 ELSE n

LEMMA BufIs ==
  ASSUME Sound(buf)
  PROVE  /\ buf.cells \in Seq(Byte) /\ buf.reader \in Nat /\ buf.writer \in Nat
         /\ buf.reader <= buf.writer /\ buf.writer <= Len(buf.cells) /\ Len(buf.cells) \in Nat
         /\ buf \in [cells : Seq(Byte), reader : Nat, writer : Nat]
         /\ Content \in Seq(Byte) /\ Len(Content) = buf.writer - buf.reader
         /\ Len(Content) \in Nat /\ ReadableBytes(buf) = Len(Content)
         /\ \A i \in 1..Len(Content) : Content[i] = buf.cells[buf.reader + i]
         /\ CheapPrepend <= Len(buf.cells)
<1>1. /\ buf.cells \in Seq(Byte) /\ buf.reader \in Nat /\ buf.writer \in Nat
      /\ buf.reader <= buf.writer /\ buf.writer <= Len(buf.cells) /\ Len(buf.cells) \in Nat
      /\ buf \in [cells : Seq(Byte), reader : Nat, writer : Nat]
      /\ CheapPrepend <= Len(buf.cells)
  BY LenIsNat DEF Sound
<1>2. /\ Content \in Seq(Byte) /\ Len(Content) = buf.writer - buf.reader
      /\ \A i \in 1..(buf.writer - buf.reader) : Content[i] = buf.cells[buf.reader + i]
  BY PieceIsSeq DEF Content
<1> HIDE DEF Content
<1> QED
  BY <1>1, <1>2 DEF ReadableBytes

\* retrieve drops the front, also when it starts anew.
LEMMA RetrievedDropsFront ==
  ASSUME Sound(buf), NEW n \in Nat
  PROVE  /\ Granted(n) \in 0..Len(Content)
         /\ Sound(Retrieved(n))
         /\ Piece(Retrieved(n)) = SubSeq(Content, Granted(n) + 1, Len(Content))
<1> DEFINE r == Retrieved(n)
           rest == SubSeq(Content, Granted(n) + 1, Len(Content))
<1> HIDE DEF Content
<1>1. Granted(n) \in 0..Len(Content)
  BY BufIs DEF Granted
<1>2. /\ rest \in Seq(Byte) /\ Len(rest) = Len(Content) - Granted(n)
      /\ \A i \in 1..(Len(Content) - Granted(n)) : rest[i] = Content[Granted(n) + i]
  BY <1>1, BufIs, AfterIs
<1> HIDE DEF rest
<1>3. CASE n > ReadableBytes(buf)
  <2>1. r = buf /\ Granted(n) = 0
    BY <1>3 DEF Retrieved, Granted
  <2>2. \A i \in 1..Len(rest) : buf.cells[buf.reader + i] = rest[i]
    BY <1>2, <2>1, BufIs
  <2>3. Piece(buf) = rest
    <3>1. Len(rest) = buf.writer - buf.reader /\ rest \in Seq(Byte)
      BY <1>2, <2>1, BufIs
    <3> QED
      BY <2>2, <3>1, PieceIs
  <2> QED
    BY <1>1, <2>1, <2>3 DEF rest
<1>4. CASE n < ReadableBytes(buf)
  <2>1. r = [buf EXCEPT !.reader = buf.reader + n] /\ Granted(n) = n
    BY <1>4, BufIs DEF Retrieved, Granted
  <2>2. buf.reader + n \in Nat /\ buf.reader + n <= buf.writer
    BY <1>4, BufIs
  <2> HIDE DEF r
  <2>3. /\ r.cells = buf.cells /\ r.reader = buf.reader + n /\ r.writer = buf.writer
        /\ r \in [cells : Seq(Byte), reader : Nat, writer : Nat]
    BY <2>1, <2>2, BufIs
  <2>4. Sound(r)
    BY <2>2, <2>3, BufIs DEF Sound
  <2>5. \A i \in 1..Len(rest) : r.cells[r.reader + i] = rest[i]
    <3> TAKE i \in 1..Len(rest)
    <3>1. Len(rest) = Len(Content) - n /\ n \in 0..Len(Content) /\ rest[i] = Content[n + i]
      BY <1>1, <1>2, <2>1
    <3>2. n + i \in 1..Len(Content)
      BY <3>1, BufIs
    <3>3. r.reader + i = buf.reader + (n + i)
      BY <2>3, <3>1, BufIs
    <3> QED
      BY <2>3, <3>1, <3>2, <3>3, BufIs
  <2>6. Len(rest) = r.writer - r.reader
    BY <1>2, <2>1, <2>3, BufIs, SMTT(20)
  <2>7. Piece(r) = rest
    BY <1>2, <2>4, <2>5, <2>6, PieceIs
  <2> QED
    BY <1>1, <2>4, <2>7 DEF r, rest
<1>5. CASE n = ReadableBytes(buf)
  <2>1. /\ r = [buf EXCEPT !.reader = CheapPrepend, !.writer = CheapPrepend]
        /\ Granted(n) = Len(Content)
    BY <1>5, BufIs DEF Retrieved, Granted
  <2>2. CheapPrepend \in Nat
    BY SizesAssumption
  <2> HIDE DEF r
  <2>3. /\ r.cells = buf.cells /\ r.reader = CheapPrepend /\ r.writer = CheapPrepend
        /\ r \in [cells : Seq(Byte), reader : Nat, writer : Nat]
    BY <2>1, <2>2, BufIs
  <2>4. Sound(r) /\ r.writer - r.reader = 0
    BY <2>2, <2>3, BufIs DEF Sound
  <2>5. Len(rest) = 0
    BY <1>2, <2>1, BufIs
  <2>6. \A i \in 1..Len(rest) : r.cells[r.reader + i] = rest[i]
    BY <2>5
  <2>7. Piece(r) = rest
    BY <1>2, <2>4, <2>5, <2>6, PieceIs
  <2> QED
    BY <1>1, <2>4, <2>7 DEF r, rest
<1> QED
  BY <1>3, <1>4, <1>5, BufIs

\* unwrite drops the end.
LEMMA UnwriteDropsEnd ==
  ASSUME Sound(buf), NEW n \in Nat
  PROVE  LET u == IF n > ReadableBytes(buf) THEN buf ELSE [buf EXCEPT !.writer = @ - n]
         IN  /\ Sound(u)
             /\ Len(Content) - Granted(n) \in 0..Len(Content)
             /\ Piece(u) = SubSeq(Content, 1, Len(Content) - Granted(n))
<1> DEFINE u == IF n > ReadableBytes(buf) THEN buf ELSE [buf EXCEPT !.writer = @ - n]
           k == Len(Content) - Granted(n)
           front == SubSeq(Content, 1, k)
<1>1. k \in 0..Len(Content) /\ Granted(n) \in 0..Len(Content)
  BY BufIs DEF Granted
<1>2. u = [buf EXCEPT !.writer = buf.writer - Granted(n)]
  <2>1. buf \in [cells : Seq(Byte), reader : Nat, writer : Nat] /\ buf.writer - 0 = buf.writer
    BY BufIs
  <2>2. CASE n > ReadableBytes(buf)
    <3>1. u = buf /\ Granted(n) = 0
      BY <2>2 DEF Granted
    <3>2. buf = [buf EXCEPT !.writer = buf.writer]
      BY <2>1
    <3> HIDE DEF u
    <3> QED
      BY <2>1, <3>1, <3>2
  <2>3. CASE ~(n > ReadableBytes(buf))
    BY <2>3 DEF Granted
  <2> QED
    BY <2>2, <2>3
<1>3. buf.writer - Granted(n) \in Nat /\ buf.reader <= buf.writer - Granted(n)
  BY <1>1, BufIs
<1> HIDE DEF u
<1>4. /\ u.cells = buf.cells /\ u.reader = buf.reader /\ u.writer = buf.writer - Granted(n)
      /\ u \in [cells : Seq(Byte), reader : Nat, writer : Nat]
  BY <1>2, <1>3, BufIs
<1>5. Sound(u) /\ u.writer - u.reader = k
  BY <1>1, <1>3, <1>4, BufIs, SMTT(20) DEF Sound
<1> HIDE DEF k
<1>6. /\ front \in Seq(Byte) /\ Len(front) = k
      /\ \A i \in 1..k : front[i] = Content[i]
  BY <1>1, BufIs, FirstIs
<1> HIDE DEF front
<1>7. \A i \in 1..Len(front) : u.cells[u.reader + i] = front[i]
  <2> TAKE i \in 1..Len(front)
  <2>1. i \in 1..Len(Content) /\ i \in 1..k
    BY <1>1, <1>6, BufIs
  <2> QED
    BY <1>4, <1>6, <2>1, BufIs
<1>8. Piece(u) = front
  BY <1>5, <1>6, <1>7, PieceIs
<1> QED
  BY <1>1, <1>5, <1>8 DEF u, k, front

\* prepend, when there is room, puts the data before the content.
LEMMA PrependPuts ==
  ASSUME Sound(buf), NEW data \in Seq(Byte), Len(data) <= buf.reader
  PROVE  LET p == [buf EXCEPT !.reader = @ - Len(data),
                              !.cells = Overwrite(@, buf.reader - Len(data), data)]
         IN  Sound(p) /\ Piece(p) = data \o Content
<1> DEFINE p == [buf EXCEPT !.reader = @ - Len(data),
                            !.cells = Overwrite(@, buf.reader - Len(data), data)]
           at == buf.reader - Len(data)
           cells == Overwrite(buf.cells, at, data)
<1>1. p = [buf EXCEPT !.reader = at, !.cells = cells]
  OBVIOUS
<1>2. Len(data) \in Nat /\ at \in Nat /\ at + Len(data) = buf.reader
  BY BufIs, LenIsNat
<1> HIDE DEF p, at
<1>3. /\ cells \in Seq(Byte) /\ Len(cells) = Len(buf.cells)
      /\ \A i \in 1..Len(buf.cells) : cells[i] =
            IF i > at /\ i <= at + Len(data) THEN data[i - at] ELSE buf.cells[i]
  BY <1>2, BufIs, OverwriteIsSeq
<1> HIDE DEF cells
<1>4. /\ p.cells = cells /\ p.reader = at /\ p.writer = buf.writer
      /\ p \in [cells : Seq(Byte), reader : Nat, writer : Nat]
  BY <1>1, <1>2, <1>3, BufIs
<1>5. Sound(p)
  BY <1>2, <1>3, <1>4, BufIs DEF Sound
<1>6. /\ data \o Content \in Seq(Byte) /\ Len(data \o Content) = Len(data) + Len(Content)
      /\ \A i \in 1..(Len(data) + Len(Content)) :
            (data \o Content)[i] = IF i <= Len(data) THEN data[i] ELSE Content[i - Len(data)]
  BY BufIs, ConcatProperties
<1>7. \A i \in 1..(Len(data) + Len(Content)) : p.cells[p.reader + i] = (data \o Content)[i]
  <2> TAKE i \in 1..(Len(data) + Len(Content))
  <2>1. PICK j \in 1..Len(buf.cells) : j = at + i
    BY <1>2, BufIs, SMTT(20)
  <2>2. p.cells[p.reader + i] =
           IF j > at /\ j <= at + Len(data) THEN data[j - at] ELSE buf.cells[j]
    BY <1>3, <1>4, <2>1
  <2>3. CASE i <= Len(data)
    <3>1. j > at /\ j <= at + Len(data) /\ j - at = i
      BY <1>2, <2>1, <2>3
    <3> QED
      BY <1>6, <2>2, <2>3, <3>1
  <2>4. CASE ~(i <= Len(data))
    <3>1. ~(j <= at + Len(data)) /\ i - Len(data) \in 1..Len(Content)
      BY <1>2, <2>1, <2>4, BufIs
    <3>2. j = buf.reader + (i - Len(data))
      BY <1>2, <2>1, BufIs
    <3> QED
      BY <1>6, <2>2, <2>4, <3>1, <3>2, BufIs
  <2> QED
    BY <2>3, <2>4
<1>8. Len(data \o Content) = p.writer - p.reader
  <2>1. /\ Len(Content) = buf.writer - buf.reader
        /\ buf.writer \in Nat /\ buf.reader \in Nat
    BY BufIs
  <2>2. Len(data \o Content) = Len(data) + (buf.writer - buf.reader)
    BY <1>6, <2>1
  <2> QED
    BY <1>2, <1>4, <2>1, <2>2
<1>9. Piece(p) = data \o Content
  BY <1>5, <1>6, <1>7, <1>8, PieceIs
<1> QED
  BY <1>5, <1>9 DEF p

\* readFd puts what was read after the content, in one part or in two.
LEMMA ReadFdAppends ==
  ASSUME Sound(buf), NEW data \in Seq(Byte), ReadFd(data)
  PROVE  Sound(buf') /\ Content' = Content \o data
<1> DEFINE n == WritableBytes(buf)
           prefix == SubSeq(data, 1, n)
           rest == SubSeq(data, n + 1, Len(data))
           full == Written(buf, prefix)
<1>1. Len(data) \in Nat /\ n \in Nat
  BY BufIs, LenIsNat DEF WritableBytes
<1>2. CASE Len(data) <= n
  <2>1. buf' = Written(buf, data)
    BY <1>2 DEF ReadFd
  <2> QED
    BY <1>2, <2>1, WrittenAppends DEF Content
<1>3. CASE ~(Len(data) <= n)
  <2>1. buf' = Appended(full, rest)
    BY <1>3 DEF ReadFd
  <2>2. n \in 0..Len(data)
    BY <1>1, <1>3
  <2>3. prefix \in Seq(Byte) /\ Len(prefix) = n /\ rest \in Seq(Byte)
    BY <2>2, FirstIs, AfterIs
  <2>4. prefix \o rest = data
    <3>1. 1 \in 1..(Len(data) + 1) /\ n \in (1 - 1)..Len(data) /\ Len(data) \in n..Len(data)
      BY <1>1, <2>2
    <3>2. prefix \o rest = SubSeq(data, 1, Len(data))
      BY <3>1, ConcatAdjacentSubSeq
    <3> QED
      BY <3>2, SubSeqFull
  <2> HIDE DEF prefix, rest
  <2>5. Sound(full) /\ Piece(full) = Content \o prefix
    BY <1>1, <2>3, WrittenAppends DEF Content
  <2> HIDE DEF full
  <2>6. Sound(buf') /\ Piece(buf') = (Content \o prefix) \o rest
    BY <2>1, <2>3, <2>5, AppendedAppends
  <2>7. (Content \o prefix) \o rest = Content \o (prefix \o rest)
    <3>1. Content \in Seq(Byte)
      BY BufIs
    <3> QED
      BY <2>3, <3>1, ConcatAssociative, SMTT(20)
  <2> QED
    BY <2>4, <2>6, <2>7 DEF Content
<1> QED
  BY <1>2, <1>3

\* shrink copies the content to a new vector that has room for it and the reserve.
LEMMA ShrinkKeeps ==
  ASSUME Sound(buf), NEW reserve \in Nat, Shrink(reserve)
  PROVE  Sound(buf') /\ Content' = Content /\ reserve <= WritableBytes(buf')
<1> DEFINE e == EnsureWritable(New, ReadableBytes(buf) + reserve)
<1>1. ReadableBytes(buf) + reserve \in Nat /\ ReadableBytes(buf) = Len(Content)
      /\ Len(Content) \in Nat /\ Content \in Seq(Byte)
  BY BufIs
<1>2. Sound(e) /\ Piece(e) = <<>> /\ ReadableBytes(buf) + reserve <= WritableBytes(e)
  BY <1>1, NewIsEmpty, EnsureMakesRoom
<1>3. buf' = Appended(e, Content)
  BY DEF Shrink
<1> HIDE DEF e
<1>4. WritableBytes(e) \in Int
  BY <1>2, LenIsNat DEF Sound, WritableBytes
<1>5. Len(Content) <= WritableBytes(e)
  BY <1>1, <1>2, <1>4
<1>6. buf' = Written(e, Content)
  BY <1>1, <1>3, <1>4, <1>5 DEF Appended, EnsureWritable
<1>7. /\ Sound(buf') /\ Piece(buf') = <<>> \o Content
      /\ WritableBytes(buf') = WritableBytes(e) - Len(Content)
  BY <1>1, <1>2, <1>5, <1>6, WrittenAppends
<1>8. <<>> \o Content = Content
  BY <1>1, ConcatEmptySeq
<1>9. reserve <= WritableBytes(buf')
  BY <1>1, <1>2, <1>4, <1>7
<1> QED
  BY <1>7, <1>8, <1>9 DEF Content

-----------------------------------------------------------------------------
(* The theorems.                                                           *)

\* What holds between two calls.
Shape ==
    /\ Sound(buf)
    /\ given \in Seq(Byte) /\ taken \in Seq(Byte)
    /\ promised \in Nat /\ RoomAsPromised

LEMMA InitShape == BufferInit => Shape /\ Content = <<>>
<1> SUFFICES ASSUME BufferInit PROVE Shape /\ Content = <<>>
  OBVIOUS
<1>1. buf = New /\ given = <<>> /\ taken = <<>> /\ promised = 0
  BY DEF BufferInit
<1>2. Sound(buf) /\ Content = <<>> /\ WritableBytes(buf) = InitialSize
  BY <1>1, NewIsEmpty DEF Content
<1>3. promised <= WritableBytes(buf)
  BY <1>1, <1>2, SizesAssumption
<1> QED
  BY <1>1, <1>2, <1>3, EmptySeq DEF Shape, RoomAsPromised

\* Nothing is promised after any other call.
LEMMA NothingPromised ==
  ASSUME Sound(buf'), promised' = 0
  PROVE  promised' \in Nat /\ RoomAsPromised'
BY LenIsNat DEF Sound, WritableBytes, RoomAsPromised

\* A call that leaves the Buffer as it was leaves its content.
LEMMA SameContent ==
  ASSUME UNCHANGED buf
  PROVE  Content' = Content
BY DEF Content

\* Every call is a call on a queue of bytes, or changes nothing that it shows.
LEMMA StepIsQueueStep ==
  ASSUME Shape, BufferNext
  PROVE  Shape' /\ [Queue!QueueNext]_(Queue!queueVars)
<1>1. PICK n \in 0..MaxLen :
         \/ EnsureWritableBytes(n) \/ Retrieve(n) \/ RetrieveAsString(n) \/ Unwrite(n) \/ Shrink(n)
         \/ \E data \in [1..n -> Byte] :
               AppendBytes(data) \/ HasWritten(data) \/ Prepend(data) \/ ReadFd(data)
  BY DEF BufferNext
<1>2. n \in Nat /\ Sound(buf) /\ given \in Seq(Byte) /\ taken \in Seq(Byte)
  BY BoundsAssumption DEF Shape
<1>3. Content \in Seq(Byte) /\ Granted(n) \in 0..Len(Content)
  BY <1>2, BufIs, RetrievedDropsFront
<1>4. CASE EnsureWritableBytes(n)
  <2>1. buf' = EnsureWritable(buf, n) /\ promised' = n /\ UNCHANGED <<given, taken>>
    BY <1>4 DEF EnsureWritableBytes
  <2>2. Sound(buf') /\ Content' = Content /\ n <= WritableBytes(buf')
    BY <1>2, <2>1, EnsureMakesRoom DEF Content
  <2> QED
    BY <1>2, <2>1, <2>2 DEF Shape, RoomAsPromised, Queue!queueVars
<1>5. CASE Retrieve(n)
  <2>1. buf' = Retrieved(n) /\ promised' = 0 /\ UNCHANGED <<given, taken>>
    BY <1>5 DEF Retrieve
  <2>2. Sound(buf') /\ Content' = SubSeq(Content, Granted(n) + 1, Len(Content))
    BY <1>2, <2>1, RetrievedDropsFront DEF Content
  <2>3. Queue!Discard(Granted(n))
    BY <2>1, <2>2 DEF Queue!Discard, Queue!After
  <2> QED
    BY <1>2, <1>3, <2>1, <2>2, <2>3, NothingPromised DEF Shape, Queue!QueueNext
<1>6. CASE RetrieveAsString(n)
  <2>1. /\ buf' = Retrieved(n) /\ promised' = 0 /\ UNCHANGED given
        /\ taken' = IF n > ReadableBytes(buf) THEN <<>> ELSE SubSeq(Content, 1, n)
    BY <1>6 DEF RetrieveAsString
  <2>2. Sound(buf') /\ Content' = SubSeq(Content, Granted(n) + 1, Len(Content))
    BY <1>2, <2>1, RetrievedDropsFront DEF Content
  <2>3. SubSeq(Content, 1, 0) = <<>>
    BY SubSeqEmpty
  <2>4. taken' = SubSeq(Content, 1, Granted(n))
    BY <2>1, <2>3 DEF Granted
  <2>5. taken' \in Seq(Byte)
    BY <1>3, <2>4, FirstIs
  <2>6. Queue!Take(Granted(n))
    BY <2>1, <2>2, <2>4 DEF Queue!Take, Queue!After, Queue!First
  <2> QED
    BY <1>2, <1>3, <2>1, <2>2, <2>5, <2>6, NothingPromised DEF Shape, Queue!QueueNext
<1>7. CASE Unwrite(n)
  <2>1. /\ buf' = IF n > ReadableBytes(buf) THEN buf ELSE [buf EXCEPT !.writer = @ - n]
        /\ promised' = 0 /\ UNCHANGED <<given, taken>>
    BY <1>7 DEF Unwrite
  <2>2. /\ Sound(buf') /\ Len(Content) - Granted(n) \in 0..Len(Content)
        /\ Content' = SubSeq(Content, 1, Len(Content) - Granted(n))
    BY <1>2, <2>1, UnwriteDropsEnd DEF Content
  <2>3. Queue!Withdraw(Len(Content) - Granted(n))
    BY <2>1, <2>2 DEF Queue!Withdraw, Queue!First
  <2> QED
    BY <1>2, <2>1, <2>2, <2>3, NothingPromised DEF Shape, Queue!QueueNext
<1>8. CASE Shrink(n)
  <2>1. promised' = n /\ UNCHANGED <<given, taken>>
    BY <1>8 DEF Shrink
  <2>2. Sound(buf') /\ Content' = Content /\ n <= WritableBytes(buf')
    BY <1>2, <1>8, ShrinkKeeps
  <2> QED
    BY <1>2, <2>1, <2>2 DEF Shape, RoomAsPromised, Queue!queueVars
<1>9. ASSUME NEW data \in [1..n -> Byte], AppendBytes(data) \/ HasWritten(data) \/ ReadFd(data)
      PROVE  Shape' /\ Queue!Enqueue
  <2>1. data \in Seq(Byte) /\ promised' = 0 /\ UNCHANGED taken
    BY <1>2, <1>9, FunctionIsSeq DEF AppendBytes, HasWritten, ReadFd
  <2>2. CASE AppendBytes(data)
    <3>1. buf' = Appended(buf, data) /\ given' = data
      BY <2>2 DEF AppendBytes
    <3>2. Sound(buf') /\ Content' = Content \o given'
      BY <1>2, <2>1, <3>1, AppendedAppends DEF Content
    <3> QED
      BY <1>2, <2>1, <3>1, <3>2, NothingPromised DEF Shape, Queue!Enqueue
  <2>3. CASE HasWritten(data) /\ Len(data) > WritableBytes(buf)
    <3>1. UNCHANGED buf /\ given' = <<>>
      BY <2>3 DEF HasWritten
    <3>2. Sound(buf') /\ Content' = Content \o given' /\ given' \in Seq(Byte)
      BY <1>2, <1>3, <3>1, SameContent, ConcatEmptySeq, EmptySeq
    <3> QED
      BY <1>2, <2>1, <3>2, NothingPromised DEF Shape, Queue!Enqueue
  <2>4. CASE HasWritten(data) /\ ~(Len(data) > WritableBytes(buf))
    <3>1. buf' = Written(buf, data) /\ given' = data
      BY <2>4 DEF HasWritten
    <3>2. Len(data) \in Int /\ WritableBytes(buf) \in Int
      BY <1>2, <2>1, LenIsNat, BufIs DEF WritableBytes
    <3>3. Sound(buf') /\ Content' = Content \o given'
      BY <1>2, <2>1, <2>4, <3>1, <3>2, WrittenAppends, SMTT(20) DEF Content
    <3> QED
      BY <1>2, <2>1, <3>1, <3>3, NothingPromised DEF Shape, Queue!Enqueue
  <2>5. CASE ReadFd(data)
    <3>1. given' = data
      BY <2>5 DEF ReadFd
    <3>2. Sound(buf') /\ Content' = Content \o given'
      BY <1>2, <2>1, <2>5, <3>1, ReadFdAppends
    <3> QED
      BY <1>2, <2>1, <3>1, <3>2, NothingPromised DEF Shape, Queue!Enqueue
  <2> QED
    BY <1>9, <2>2, <2>3, <2>4, <2>5
<1>10. ASSUME NEW data \in [1..n -> Byte], Prepend(data)
       PROVE  Shape' /\ Queue!Push
  <2>1. data \in Seq(Byte) /\ promised' = 0 /\ UNCHANGED taken /\ Len(data) \in Nat
    BY <1>2, <1>10, FunctionIsSeq DEF Prepend
  <2>2. CASE Len(data) > buf.reader
    <3>1. UNCHANGED buf /\ given' = <<>>
      BY <1>10, <2>2 DEF Prepend
    <3>2. Sound(buf') /\ Content' = given' \o Content /\ given' \in Seq(Byte)
      BY <1>2, <1>3, <3>1, SameContent, ConcatEmptySeq, EmptySeq
    <3> QED
      BY <1>2, <2>1, <3>2, NothingPromised DEF Shape, Queue!Push
  <2>3. CASE ~(Len(data) > buf.reader)
    <3>1. /\ given' = data
          /\ buf' = [buf EXCEPT !.reader = @ - Len(data),
                                !.cells = Overwrite(@, buf.reader - Len(data), data)]
      BY <1>10, <2>3 DEF Prepend
    <3>2. Len(data) <= buf.reader
      BY <1>2, <2>1, <2>3, BufIs
    <3>3. Sound(buf') /\ Content' = given' \o Content
      BY <1>2, <2>1, <3>1, <3>2, PrependPuts DEF Content
    <3> QED
      BY <1>2, <2>1, <3>1, <3>3, NothingPromised DEF Shape, Queue!Push
  <2> QED
    BY <2>2, <2>3
<1> QED
  BY <1>1, <1>4, <1>5, <1>6, <1>7, <1>8, <1>9, <1>10 DEF Queue!QueueNext

\* Any mix of calls, legal or too long, keeps the indexes in order, and after
\* ensureWritableBytes(len) and shrink(len) len bytes can be written.
THEOREM RoomIsKept == BufferSpec => [](BufferTypeOK /\ IndexesInOrder /\ RoomAsPromised)
<1>1. BufferInit => Shape
  BY InitShape
<1>2. Shape /\ [BufferNext]_bufferVars => Shape'
  <2> SUFFICES ASSUME Shape, [BufferNext]_bufferVars PROVE Shape'
    OBVIOUS
  <2>1. CASE BufferNext
    BY <2>1, StepIsQueueStep
  <2>2. CASE UNCHANGED bufferVars
    BY <2>2 DEF bufferVars, Shape, Sound, RoomAsPromised, WritableBytes
  <2> QED
    BY <2>1, <2>2
<1>3. Shape => BufferTypeOK /\ IndexesInOrder /\ RoomAsPromised
  BY DEF Shape, Sound, BufferTypeOK, IndexesInOrder
<1> QED
  BY <1>1, <1>2, <1>3, PTL DEF BufferSpec

\* The Buffer is a queue of bytes: growing, moving down, reading past the vector's
\* end and starting anew never lose, repeat or reorder one.
THEOREM BufferIsByteQueue == BufferSpec => ImplementsByteQueue
<1>1. BufferInit => Shape /\ Queue!QueueInit
  BY InitShape DEF BufferInit, Queue!QueueInit
<1>2. Shape /\ [BufferNext]_bufferVars => Shape' /\ [Queue!QueueNext]_(Queue!queueVars)
  <2> SUFFICES ASSUME Shape, [BufferNext]_bufferVars
               PROVE  Shape' /\ [Queue!QueueNext]_(Queue!queueVars)
    OBVIOUS
  <2>1. CASE BufferNext
    BY <2>1, StepIsQueueStep
  <2>2. CASE UNCHANGED bufferVars
    <3>1. Shape'
      BY <2>2 DEF bufferVars, Shape, Sound, RoomAsPromised, WritableBytes
    <3>2. Content' = Content /\ given' = given /\ taken' = taken
      BY <2>2, SameContent DEF bufferVars
    <3> QED
      BY <3>1, <3>2 DEF Queue!queueVars
  <2> QED
    BY <2>1, <2>2
<1> QED
  BY <1>1, <1>2, PTL DEF BufferSpec, ImplementsByteQueue

=============================================================================
