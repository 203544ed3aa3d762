---------------------------- MODULE HPackHuffman ----------------------------
(***************************************************************************)
(* The Huffman code of header strings.  The source holds two generated     *)
(* tables: huff_sym_table, the code word of each symbol, and               *)
(* huff_decode_table, an automaton that reads four bits at a time and      *)
(* whose states are the inner nodes of the code's tree.  Here the code is  *)
(* given by the lengths of its words, of which it is the canonical code,   *)
(* and a state of the automaton by the bits that lead to its node.         *)
(***************************************************************************)
EXTENDS Integers, Sequences, FiniteSets, SequencesExt, FiniteSetsExt

HuffBit(n, i) == (n \div 2^i) % 2

\* The `width' low bits of a number, the highest first, and back.
BitsOf(n, width) == [i \in 1..width |-> HuffBit(n, width - i)]
NumberOf(bits) == FoldLeft(LAMBDA n, b : 2 * n + b, 0, bits)

OctetsToBits(octets) == FlattenSeq([i \in 1..Len(octets) |-> BitsOf(octets[i], 8)])
BitsToOctets(bits) ==
    [i \in 1..(Len(bits) \div 8) |-> NumberOf(SubSeq(bits, 8 * i - 7, 8 * i))]

-----------------------------------------------------------------------------
(* huff_sym_table: nbits of the ASCII symbols, of the others and of the    *)
(* end of string, and the code words.                                      *)

AsciiLengths ==
    <<
      13, 23, 28, 28, 28, 28, 28, 28, 28, 24, 30, 28, 28, 30, 28, 28, 28, 28, 28, 28, 28, 28, 30, 28, 28, 28, 28, 28, 28, 28, 28, 28,
      6, 10, 10, 12, 13, 6, 8, 11, 10, 10, 8, 11, 8, 6, 6, 6, 5, 5, 5, 6, 6, 6, 6, 6, 6, 6, 7, 8, 15, 6, 12, 10,
      13, 6, 7, 7, 7, 7, 7, 7, 7, 7, 7, 7, 7, 7, 7, 7, 7, 7, 7, 7, 7, 7, 7, 7, 8, 7, 8, 13, 19, 13, 14, 6,
      15, 5, 6, 5, 6, 5, 6, 6, 6, 5, 7, 7, 6, 6, 6, 5, 6, 7, 6, 5, 5, 6, 7, 7, 7, 7, 7, 15, 11, 14, 13, 28
    >>

OctetLengths ==
    <<
      20, 22, 20, 20, 22, 22, 22, 23, 22, 23, 23, 23, 23, 23, 24, 23, 24, 24, 22, 23, 24, 23, 23, 23, 23, 21, 22, 23, 22, 23, 23, 24,
      22, 21, 20, 22, 22, 23, 23, 21, 23, 22, 22, 24, 21, 22, 23, 23, 21, 21, 22, 21, 23, 22, 23, 23, 20, 22, 22, 22, 23, 22, 22, 23,
      26, 26, 20, 19, 22, 23, 22, 25, 26, 26, 26, 27, 27, 26, 24, 25, 19, 21, 26, 27, 27, 26, 27, 24, 21, 21, 26, 26, 28, 27, 27, 27,
      20, 24, 20, 21, 22, 21, 21, 23, 22, 22, 25, 25, 24, 24, 26, 23, 26, 27, 26, 26, 27, 27, 27, 27, 27, 28, 27, 27, 27, 27, 27, 26,
      30
    >>

EOS == 256
HuffLength == [s \in 0..EOS |-> IF s < 128 THEN AsciiLengths[s + 1] ELSE OctetLengths[s - 127]]

\* Shorter words come first, and equally long ones in the symbols' order.
HuffBefore(s, length) == {t \in 0..EOS : HuffLength[t] = length /\ (length < HuffLength[s] \/ t < s)}

\* The canonical code: a word is the one before it plus one, made longer by zeros.
HuffCode ==
    [s \in 0..EOS |->
        BitsOf(MapThenSumSet(
                 LAMBDA n : Cardinality(HuffBefore(s, n)) * 2^(HuffLength[s] - n),
                 5..HuffLength[s]),
               HuffLength[s])]

-----------------------------------------------------------------------------
(* huffEncode and huffEncodeLength.                                        *)

HuffCodeBits(text) == FlattenSeq([i \in 1..Len(text) |-> HuffCode[text[i]]])

HuffEncodeLength(text) ==
    (FoldLeft(LAMBDA n, s : n + HuffLength[s], 0, text) + 7) \div 8

\* The last octet is filled up with ones, the first bits of EOS.
HuffEncode(text) ==
    LET bits == HuffCodeBits(text)
        missing == (8 - (Len(bits) % 8)) % 8
    IN  BitsToOctets(bits \o [i \in 1..missing |-> 1])

-----------------------------------------------------------------------------
(* huff_decode_table, huffDecodeBits and huffDecode.                       *)

\* NGHTTP2_HUFF_SYM: the bits that lead past a leaf have emitted its symbol.
Emitted(bits) == {s \in 0..EOS : IsPrefix(HuffCode[s], bits)}

\* NGHTTP2_HUFF_ACCEPTED: the node may be the last, what is left is padding.
Accepted(node) == Len(node) < 8 /\ \A i \in 1..Len(node) : node[i] = 1

HuffStart == [node |-> <<>>, text |-> <<>>, failed |-> FALSE, ending |-> FALSE]

At(d, node) == [d EXCEPT !.node = node, !.ending = Accepted(node)]

Emit(d, bits, s) ==
    [At(d, SubSeq(bits, Len(HuffCode[s]) + 1, Len(bits))) EXCEPT !.text = Append(@, s)]

HuffDecodeTo(d, bits, syms) ==
    IF d.failed \/ EOS \in syms THEN [d EXCEPT !.failed = TRUE]
    ELSE IF syms = {} THEN At(d, bits)
    ELSE Emit(d, bits, CHOOSE s \in syms : TRUE)

\* No word is shorter than five bits: four bits emit at most one symbol.
HuffDecodeBits(d, nibble) == HuffDecodeTo(d, d.node \o nibble, Emitted(d.node \o nibble))

Nibbles(bits) == [i \in 1..(Len(bits) \div 4) |-> SubSeq(bits, 4 * i - 3, 4 * i)]
HuffDecoded(d) == [ok |-> ~d.failed /\ d.ending, text |-> d.text]

\* [ok, text]; what has no bit at all is refused, `ending' being FALSE.
HuffDecode(octets) ==
    HuffDecoded(FoldLeft(HuffDecodeBits, HuffStart, Nibbles(OctetsToBits(octets))))

=============================================================================
