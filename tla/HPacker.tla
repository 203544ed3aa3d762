------------------------------ MODULE HPacker -------------------------------
(***************************************************************************)
(* HPacker: header lists to octets and back, and the tables that the two   *)
(* ends of a connection keep in step by it.                                *)
(*                                                                         *)
(* Two ends send header blocks to each other, and tell each other how      *)
(* large a table may be.  Each has a table for what it encodes and one for *)
(* what it decodes.  MyHttp2Session has one HPacker for both: the headers  *)
(* of its responses are none that getIndexingType puts in a table, so what *)
(* it encodes adds nothing to what it decodes with; a limit that its peer  *)
(* sets for one direction limits both, which is left out here.  Room for a *)
(* block is taken to suffice.                                              *)
(***************************************************************************)
EXTENDS HPackTable, HPackHuffman, Ascii

CONSTANTS
    HeaderLists,       \* what is sent: sequences of <<name, value>>
    IndexedNames,      \* the names that getIndexingType puts in the table
    TableSizes,        \* the values of the setting HEADER_TABLE_SIZE
    MaxBlocks          \* bound on the blocks an end sends, [Ends -> Nat]

Ends == {"client", "server"}
Other(end) == CHOOSE e \in Ends : e # end

-----------------------------------------------------------------------------
(* Integers with a prefix of n bits, below the flags of the first octet.   *)

\* mutant of EncodeInteger: the prefix that is all ones means itself
EncodeIntegerOff(n, flags, number) ==
    IF number <= 2^n - 1
    THEN <<flags + number>>
    ELSE LET rest[r \in Nat] == IF r < 128 THEN <<r>> ELSE <<128 + (r % 128)>> \o rest[r \div 128]
         IN  <<flags + 2^n - 1>> \o rest[number - (2^n - 1)]

EncodeInteger(n, flags, number) ==
    IF number < 2^n - 1
    THEN <<flags + number>>
    ELSE LET rest[r \in Nat] == IF r < 128 THEN <<r>> ELSE <<128 + (r % 128)>> \o rest[r \div 128]
         IN  <<flags + 2^n - 1>> \o rest[number - (2^n - 1)]

Failed == [ok |-> FALSE]

\* What is decoded, and how many octets it took; it fails when they run out.
DecodeInteger(n, octets) ==
    LET prefix == octets[1] % 2^n
        last == {i \in 2..Len(octets) : octets[i] < 128}
        end == Min(last)
    IN  IF octets = <<>> THEN Failed
        ELSE IF prefix < 2^n - 1 THEN [ok |-> TRUE, value |-> prefix, took |-> 1]
        ELSE IF last = {} THEN Failed
        ELSE [ok |-> TRUE, took |-> end,
              value |-> prefix + FoldLeft(LAMBDA sum, i : sum + (octets[i] % 128) * 2^(7 * (i - 2)),
                                          0, [i \in 1..(end - 1) |-> i + 1])]

-----------------------------------------------------------------------------
(* Strings: Huffman's code is used when it is shorter.                     *)

EncodeString(s) ==
    LET text == Octets(s)
        length == HuffEncodeLength(text)
    IN  IF length < Len(text)
        THEN EncodeInteger(7, 128, length) \o HuffEncode(text)
        ELSE EncodeInteger(7, 0, Len(text)) \o text

DecodeBody(length, plain) ==
    IF plain.ok
    THEN [ok |-> TRUE, took |-> length.took + length.value, value |-> Text(plain.text)]
    ELSE Failed

DecodeOfLength(length, octets) ==
    LET body == SubSeq(octets, length.took + 1, length.took + length.value)
    IN  IF ~length.ok \/ length.value > Len(octets) - length.took THEN Failed
        ELSE DecodeBody(length, IF octets[1] >= 128 THEN HuffDecode(body)
                                ELSE [ok |-> TRUE, text |-> body])

DecodeString(octets) == DecodeOfLength(DecodeInteger(7, octets), octets)

-----------------------------------------------------------------------------
(* A packer is its table and updateTableSize_.                             *)

NewPacker == [table |-> NewTable, announce |-> TRUE]

\* the index that was found or 0, then the strings that have none
EncodeLiteral(e, index, adds) ==
    (IF adds THEN EncodeInteger(6, 64, index) ELSE EncodeInteger(4, 16, index))
    \o (IF index = 0 THEN EncodeString(e[1]) ELSE <<>>)
    \o EncodeString(e[2])

EncodeFound(out, e, found) ==
    IF found.valueIndexed
    THEN [out EXCEPT !.block = @ \o EncodeInteger(7, 128, found.index)]
    ELSE IF e[1] \in IndexedNames
    THEN [table |-> AddHeader(out.table, e), block |-> out.block \o EncodeLiteral(e, found.index, TRUE)]
    ELSE [out EXCEPT !.block = @ \o EncodeLiteral(e, found.index, FALSE)]

\* encodeHeader: [table, block], the header's octets at the end of block
EncodeHeader(out, e) == EncodeFound(out, e, GetIndex(out.table, e))

\* encode: [packer, block].  The first block tells the limit; no later one does.
Encode(packer, headers) ==
    LET start == [table |-> [packer.table EXCEPT !.encoder = TRUE],
                  block |-> IF packer.announce
                            THEN EncodeInteger(5, 32, packer.table.limit) ELSE <<>>]
        end == FoldLeft(EncodeHeader, start, headers)
    IN  [packer |-> [table |-> end.table, announce |-> FALSE], block |-> end.block]

\* decodePrefix, by the highest bits of the first octet
Prefix(octet) ==
    IF octet >= 128 THEN [type |-> "INDEXED_HEADER", bits |-> 7]
    ELSE IF octet >= 64 THEN [type |-> "LITERAL_HEADER_WITH_INDEXING", bits |-> 6]
    ELSE IF octet >= 32 THEN [type |-> "TABLE_SIZE_UPDATE", bits |-> 5]
    ELSE [type |-> "LITERAL_HEADER_WITHOUT_INDEXING", bits |-> 4]

\* the name of a literal field: an entry's, or one that follows
FieldName(table, index, octets) ==
    IF index = 0 THEN DecodeString(octets)
    ELSE IF HasIndex(table, index)
    THEN [ok |-> TRUE, took |-> 0, value |-> Indexed(table, index)[1]]
    ELSE Failed

DecodeLiteral(table, adds, name, value) ==
    LET e == <<name.value, value.value>>
    IN  IF ~name.ok \/ ~value.ok THEN Failed
        ELSE [ok |-> TRUE, headers |-> <<e>>, took |-> name.took + value.took,
              table |-> IF adds THEN AddHeader(table, e) ELSE table]

\* a field by its type, and the number and octets after its first bits
FieldOf(table, type, number, name, octets) ==
    CASE type = "INDEXED_HEADER" ->
            IF ~HasIndex(table, number) THEN Failed
            ELSE [ok |-> TRUE, table |-> table, headers |-> <<Indexed(table, number)>>, took |-> 0]
      [] type = "TABLE_SIZE_UPDATE" ->
            IF number > table.max THEN Failed
            ELSE [ok |-> TRUE, table |-> UpdateLimitSize(table, number), headers |-> <<>>, took |-> 0]
      [] OTHER ->
            DecodeLiteral(table, type = "LITERAL_HEADER_WITH_INDEXING", name,
                          DecodeString(SubSeq(octets, name.took + 1, Len(octets))))

TookMore(field, n) == IF field.ok THEN [field EXCEPT !.took = @ + n] ELSE field

FieldAfter(table, type, number, octets) ==
    LET rest == SubSeq(octets, number.took + 1, Len(octets))
    IN  IF ~number.ok THEN Failed
        ELSE TookMore(FieldOf(table, type, number.value, FieldName(table, number.value, rest), rest),
                      number.took)

\* One field of a block: [ok, table, headers, took].
DecodeField(table, octets) ==
    LET prefix == Prefix(octets[1])
    IN  FieldAfter(table, prefix.type, DecodeInteger(prefix.bits, octets), octets)

RECURSIVE DecodeFields(_, _, _)

DecodeRest(table, headers, octets, field) ==
    IF ~field.ok THEN [ok |-> FALSE, table |-> table, headers |-> headers]
    ELSE DecodeFields(field.table, headers \o field.headers,
                      SubSeq(octets, field.took + 1, Len(octets)))

DecodeFields(table, headers, octets) ==
    IF octets = <<>> THEN [ok |-> TRUE, table |-> table, headers |-> headers]
    ELSE DecodeRest(table, headers, octets, DecodeField(table, octets))

DecodedBlock(packer, end) ==
    [ok |-> end.ok, headers |-> end.headers, packer |-> [packer EXCEPT !.table = end.table]]

\* decode: [ok, packer, headers].  A field that fails ends it; what the fields
\* before it did to the table stays done.
Decode(packer, block) ==
    DecodedBlock(packer, DecodeFields([packer.table EXCEPT !.encoder = FALSE], <<>>, block))

-----------------------------------------------------------------------------
(* Two ends.                                                               *)

VARIABLES
    packers,           \* what an end encodes with, and what it decodes with
    blocks,            \* history: what each end has sent, blocks with their headers
    unread,            \* how many of them the other end has yet to read
    arrived            \* history: the headers sent and those decoded, of the last block

hpackVars == <<packers, blocks, unread, arrived>>

Encoder(end) == packers[<<end, "encode">>]
Decoder(end) == packers[<<end, "decode">>]

HpackInit ==
    /\ packers = [r \in Ends \X {"encode", "decode"} |-> NewPacker]
    /\ blocks = [end \in Ends |-> <<>>]
    /\ unread = [end \in Ends |-> 0]
    /\ arrived = [sent |-> <<>>, got |-> <<>>]

\* sendHeadersFrame
SendBlock(end, headers) ==
    LET out == Encode(Encoder(end), headers)
    IN  /\ Len(blocks[end]) < MaxBlocks[end]
        /\ packers' = [packers EXCEPT ![<<end, "encode">>] = out.packer]
        /\ blocks' = [blocks EXCEPT ![end] = Append(@, [block |-> out.block, headers |-> headers])]
        /\ unread' = [unread EXCEPT ![end] = @ + 1]
        /\ UNCHANGED arrived

\* parseHeaders, which does not look at what decode returns
ReceiveBlock(end) ==
    LET from == Other(end)
        next == blocks[from][Len(blocks[from]) - unread[from] + 1]
        in == Decode(Decoder(end), next.block)
    IN  /\ unread[from] > 0
        /\ packers' = [packers EXCEPT ![<<end, "decode">>] = in.packer]
        /\ unread' = [unread EXCEPT ![from] = @ - 1]
        /\ arrived' = [sent |-> next.headers, got |-> in.headers]
        /\ UNCHANGED blocks

\* applySettings on HEADER_TABLE_SIZE
LimitTable(end, size) ==
    /\ Len(blocks[end]) < MaxBlocks[end]
    /\ packers' = [packers EXCEPT ![<<end, "encode">>].table = SetMaxSize(@, size)]
    /\ UNCHANGED <<blocks, unread, arrived>>

HpackNext ==
    \E end \in Ends :
        \/ \E headers \in HeaderLists : SendBlock(end, headers)
        \/ ReceiveBlock(end)
        \/ \E size \in TableSizes : LimitTable(end, size)

HpackSpec == HpackInit /\ [][HpackNext]_hpackVars

-----------------------------------------------------------------------------
(* Properties.                                                             *)

\* A block decodes to the headers that were encoded, however the tables have
\* filled up, evicted and been limited since and whatever else is under way.
HeadersArrive == arrived.got = arrived.sent

\* When everything sent has been read, the sender's table is a prefix of the
\* receiver's: an index the sender uses names the same entry on both sides.  It
\* is not the same table, as a limit lowered after the first block is not told.
TablesInStep ==
    \A end \in Ends : unread[end] = 0 =>
        IsPrefix(Encoder(end).table.entries, Decoder(Other(end)).table.entries)

\* Every table is of the size it says.
SizeIsKept == \A r \in DOMAIN packers : SizeKept(packers[r].table)

\* What an encoder finds a key by is the youngest entry with that key.
IndexNamesEntry == \A end \in Ends : KeysNameYoungest(Encoder(end).table)

\* The tables are sound: of the size they say, indexed by what they hold, and alike.
TablesSound == SizeIsKept /\ IndexNamesEntry /\ TablesInStep

=============================================================================
