------------------------------- MODULE Codecs -------------------------------
(***************************************************************************)
(* The encodings of src/util on sequences of octets: base64 (two encoders, *)
(* one decoder), the URL codec, and hexadecimal; and StringUtil.           *)
(***************************************************************************)
EXTENDS Ascii, FiniteSetsExt

Upper == Octets("ABCDEFGHIJKLMNOPQRSTUVWXYZ")
Lower == Octets("abcdefghijklmnopqrstuvwxyz")
Digits == Octets("0123456789")

-----------------------------------------------------------------------------
(* base64.cpp                                                              *)

base64_chars == Upper \o Lower \o Digits \o Octets("+/")
PAD == 61

\* three octets as four indexes
Sextets(a, b, c) ==
    <<a \div 4, 16 * (a % 4) + (b \div 16), 4 * (b % 16) + (c \div 64), c % 64>>

\* four indexes as three octets, each of them one octet wide
Triplet(q) ==
    <<(4 * q[1] + (q[2] \div 16)) % 256, (16 * (q[2] % 16) + ((q[3] \div 4) % 16)) % 256,
      (64 * (q[3] % 4) + q[4]) % 256>>

CharsOf(sextets) == [i \in DOMAIN sextets |-> base64_chars[sextets[i] + 1]]

\* Groups of n; the last one may be shorter.
GroupsOf(s, n) ==
    [g \in 1..((Len(s) + n - 1) \div n) |-> SubSeq(s, n * (g - 1) + 1, Min({n * g, Len(s)}))]

Filled(group, n, with) == [i \in 1..n |-> IF i <= Len(group) THEN group[i] ELSE with]

\* base64_encode of a string: a short group is filled with zeros, and gives one
\* character more than it has octets
Base64Encode(bytes) ==
    FlattenSeq([g \in DOMAIN GroupsOf(bytes, 3) |->
        LET group == GroupsOf(bytes, 3)[g]
            three == Filled(group, 3, 0)
        IN  SubSeq(CharsOf(Sextets(three[1], three[2], three[3])), 1, Len(group) + 1)
            \o [i \in 1..(3 - Len(group)) |-> PAD]])

\* base64_encode_table, into a buffer: whole groups, then the last by its size
Base64EncodeTable(bytes) ==
    LET n == Len(bytes) \div 3
        whole == FlattenSeq([g \in 1..n |->
            CharsOf(Sextets(bytes[3 * g - 2], bytes[3 * g - 1], bytes[3 * g]))])
        last == SubSeq(bytes, 3 * n + 1, Len(bytes))
    IN  whole \o CASE Len(last) = 0 -> <<>>
                   [] Len(last) = 1 -> CharsOf(<<last[1] \div 4, 16 * (last[1] % 4)>>) \o <<PAD, PAD>>
                   [] Len(last) = 2 ->
                        CharsOf(<<last[1] \div 4, 16 * (last[1] % 4) + (last[2] \div 16), 4 * (last[2] % 16)>>)
                        \o <<PAD>>

IsBase64(c) == Contains(base64_chars, c)

\* base64_decode: up to the first character of another kind; what fills a short
\* group is not among the characters, and its index is 255
Base64Decode(text) ==
    LET stop == SelectInSeq(text, LAMBDA c : ~IsBase64(c))
        taken == IF stop = 0 THEN text ELSE SubSeq(text, 1, stop - 1)
        index(c) == IF IsBase64(c) THEN SelectInSeq(base64_chars, LAMBDA d : d = c) - 1 ELSE 255
        groups == GroupsOf(taken, 4)
    IN  FlattenSeq([g \in DOMAIN groups |->
            LET four == Filled(groups[g], 4, 0)
            IN  SubSeq(Triplet([i \in 1..4 |-> index(four[i])]), 1, Len(groups[g]) - 1)])

-----------------------------------------------------------------------------
(* urlcodec.cpp.  The result is the returned code and the target's text;   *)
(* the source is not longer than its zero.                                 *)

HexDigits == Octets("0123456789ABCDEF")
HexOf(octet) == <<HexDigits[(octet \div 16) + 1], HexDigits[(octet % 16) + 1]>>
IsHex(c) == Contains(HexDigits \o Octets("abcdef"), c)
HexValue(c) == IF c <= 57 THEN c - 48 ELSE (IF c >= 97 THEN c - 97 ELSE c - 65) + 10

Unreserved(c) == Contains(Upper \o Lower \o Digits \o Octets("-_.~"), c)
SPACE == 32
PLUS == 43
PERCENT == 37

UrlEncode(source, tgtBytes) ==
    FoldLeft(LAMBDA r, c :
        IF r.code # 0 \/ Len(r.text) >= tgtBytes THEN r
        ELSE IF Unreserved(c) THEN [r EXCEPT !.text = Append(@, c)]
        ELSE IF c = SPACE THEN [r EXCEPT !.text = Append(@, PLUS)]
        ELSE IF Len(r.text) + 2 >= tgtBytes THEN [r EXCEPT !.code = -1]
        ELSE [r EXCEPT !.text = @ \o <<PERCENT>> \o HexOf(c)],
        [code |-> 0, text |-> <<>>], source)

\* `at' is the position of c, `skip' the characters of an escape still to pass
UrlDecode(source, tgtBytes) ==
    FoldLeft(LAMBDA r, c :
        IF r.code # 0 \/ Len(r.text) >= tgtBytes THEN r
        ELSE IF r.skip > 0 THEN [r EXCEPT !.skip = @ - 1, !.at = @ + 1]
        ELSE IF c # PERCENT
        THEN [r EXCEPT !.text = Append(@, IF c = PLUS THEN SPACE ELSE c), !.at = @ + 1]
        ELSE IF r.at + 2 > Len(source) THEN [r EXCEPT !.code = -1]
        ELSE IF ~IsHex(source[r.at + 1]) \/ ~IsHex(source[r.at + 2]) THEN [r EXCEPT !.code = -1]
        ELSE [r EXCEPT !.text = Append(@, 16 * HexValue(source[r.at + 1]) + HexValue(source[r.at + 2])),
                       !.skip = 2, !.at = @ + 1],
        [code |-> 0, text |-> <<>>, at |-> 1, skip |-> 0], source)

-----------------------------------------------------------------------------
(* StringUtil.cpp                                                          *)

BinToHex(bytes) == FlattenSeq([i \in DOMAIN bytes |-> HexOf(bytes[i])])

\* empty for an odd size or another character
HexToBin(hex) ==
    IF Len(hex) % 2 # 0 \/ \E i \in DOMAIN hex : ~IsHex(hex[i]) THEN <<>>
    ELSE [i \in 1..(Len(hex) \div 2) |-> 16 * HexValue(hex[2 * i - 1]) + HexValue(hex[2 * i])]

\* std::string::find from a position; 0 for npos
Find(s, part, from) ==
    LET at == {i \in from..(Len(s) - Len(part) + 1) : SubSeq(s, i, i + Len(part) - 1) = part}
    IN  IF at = {} THEN 0 ELSE Min(at)

\* split, of a string that is not empty: the pieces between delimiters, the empty
\* ones too
SplitAt[s \in Seq(Nat), delimiter \in Seq(Nat)] ==
    LET at == Find(s, delimiter, 1)
    IN  IF at = 0 THEN <<s>>
        ELSE <<SubSeq(s, 1, at - 1)>> \o SplitAt[SubSeq(s, at + Len(delimiter), Len(s)), delimiter]

\* mutant of SplitText: empty pieces are left out, as in cut
SplitTextTight(s, delimiter) ==
    IF s = <<>> THEN <<>> ELSE SelectSeq(SplitAt[s, delimiter], LAMBDA p : p # <<>>)

SplitText(s, delimiter) == IF s = <<>> THEN <<>> ELSE SplitAt[s, delimiter]

\* cut: before and after the first delimiter, unless empty
CutText(s, delimiter) ==
    LET at == Find(s, delimiter, 1)
    IN  IF at = 0 THEN <<>>
        ELSE SelectSeq(<<SubSeq(s, 1, at - 1), SubSeq(s, at + Len(delimiter), Len(s))>>, LAMBDA p : p # <<>>)

\* replace: the search goes on after what was put in
ReplaceFrom[s \in Seq(Nat), old \in Seq(Nat), new \in Seq(Nat), from \in Nat] ==
    LET at == Find(s, old, from)
        put == SubSeq(s, 1, at - 1) \o new \o SubSeq(s, at + Len(old), Len(s))
    IN  IF at = 0 THEN s ELSE ReplaceFrom[put, old, new, at + Len(new)]

ReplaceText(s, old, new) == IF old = <<>> \/ new = <<>> THEN s ELSE ReplaceFrom[s, old, new, 1]

\* trim: a string of nothing else stays as it is on the left; on the right the code
\* would then read before its beginning, and nothing is said
TrimLeft(s, c) ==
    LET kept == {i \in DOMAIN s : s[i] # c} IN IF kept = {} THEN s ELSE SubSeq(s, Min(kept), Len(s))
TrimRight(s, c) == SubSeq(s, 1, Max({i \in DOMAIN s : s[i] # c}))
Trim(s, c) == TrimRight(TrimLeft(s, c), c)

IsEndWith(s, ending) ==
    Len(s) >= Len(ending) /\ SubSeq(s, Len(s) - Len(ending) + 1, Len(s)) = ending

-----------------------------------------------------------------------------
(* The environment: any text of some octets.                               *)

CONSTANTS
    Alphabet,          \* octets of texts
    MaxText            \* bound on their length

VARIABLE text

CodecsInit == text = <<>>
CodecsNext == \E c \in Alphabet : Len(text) < MaxText /\ text' = Append(text, c)
CodecsSpec == CodecsInit /\ [][CodecsNext]_text

\* The two base64 encoders agree, and what they give decodes to what they got, with
\* anything after it that is not of base64.
Base64Inverse ==
    /\ Base64EncodeTable(text) = Base64Encode(text)
    /\ Base64Decode(Base64Encode(text)) = text
    /\ Base64Decode(Base64Encode(text) \o <<SPACE, 65>>) = text

\* A text that fits when encoded decodes to itself; one that does not is refused
\* or cut, and what there is of it decodes to a beginning of the text.
UrlInverse ==
    \A room \in 0..(3 * Len(text) + 1) :
        LET encoded == UrlEncode(text, room)
            decoded == UrlDecode(encoded.text, Len(text) + 1)
        IN  /\ decoded.code = 0 /\ IsPrefix(decoded.text, text)
            /\ Len(encoded.text) <= room
            /\ room > 3 * Len(text) => encoded.code = 0 /\ decoded.text = text

\* Hexadecimal texts decode to what was encoded, and only whole ones decode.
HexInverse ==
    /\ HexToBin(BinToHex(text)) = text
    /\ text # <<>> => HexToBin(Front(BinToHex(text))) = <<>>

\* Splitting keeps the whole text: the pieces, with the delimiter between them, are
\* it, and none of them contains the delimiter; replacing the delimiter does what
\* joining the pieces by another does; cutting is the first split.
SplitKeeps ==
    \A delimiter \in {<<PLUS>>, <<PLUS, PLUS>>} :
        LET pieces == SplitText(text, delimiter)
            joined(by) == FoldLeft(LAMBDA s, p : s \o by \o p, <<>>, pieces)
            other == <<PERCENT, PLUS>>
        IN  text # <<>> =>
            /\ delimiter \o text = joined(delimiter)
            /\ \A i \in DOMAIN pieces : Find(pieces[i], delimiter, 1) = 0
            /\ other \o ReplaceText(text, delimiter, other) = joined(other)
            /\ Len(pieces) = 2 => CutText(text, delimiter) = SelectSeq(pieces, LAMBDA p : p # <<>>)
            /\ (\E i \in DOMAIN text : text[i] # PLUS) =>
                  ~IsEndWith(Trim(text, PLUS), <<PLUS>>)

=============================================================================
