------------------------------ MODULE H2Frame -------------------------------
(***************************************************************************)
(* Frames of HTTP/2 and their octets.  One record stands for an object of  *)
(* any of the frame classes: what a class does not have keeps its default. *)
(*   data    block_ or data_, with its size                                *)
(*   number  the error code, the promised stream or the increment          *)
(*   last    the last stream of a GOAWAY                                   *)
(***************************************************************************)
EXTENDS Integers, Sequences, SequencesExt

FrameTypes ==
    <<"DATA", "HEADERS", "PRIORITY", "RST_STREAM", "SETTINGS", "PUSH_PROMISE", "PING",
      "GOAWAY", "WINDOW_UPDATE", "CONTINUATION">>

TypeCode(type) == (CHOOSE i \in DOMAIN FrameTypes : FrameTypes[i] = type) - 1

H2_FRAME_HEADER_SIZE == 9
END_STREAM == 1
ACK == 1
END_HEADERS == 4
PADDED == 8
PRIORITY_FLAG == 32

HasFlag(f, flag) == (f.flags \div flag) % 2 = 1

EmptyFrame(type) ==
    [type |-> type, flags |-> 0, stream |-> 0, data |-> <<>>, number |-> 0, last |-> 0,
     pri |-> [stream |-> 0, weight |-> 16, exclusive |-> FALSE], params |-> <<>>]

\* Most significant octet first, in n octets.  A number here has 31 bits: the
\* highest bit of 32 is reserved wherever it has a meaning.
BigEndian(number, n) == [i \in 1..n |-> (number \div 256^(n - i)) % 256]

FromBigEndian(octets) == FoldLeft(LAMBDA n, o : 256 * n + o, 0, octets)

\* A 32-bit number without its highest bit.
Low31(octets) == FromBigEndian([octets EXCEPT ![1] = @ % 128])

-----------------------------------------------------------------------------
(* What comes before the data in a payload.                                *)

EncodePriority(pri) ==
    LET octets == BigEndian(pri.stream, 4)
    IN  (IF pri.exclusive THEN [octets EXCEPT ![1] = @ + 128] ELSE octets) \o <<pri.weight % 256>>

\* A weight goes out as it is and comes in one larger.
DecodePriority(octets) ==
    [stream |-> Low31(SubSeq(octets, 1, 4)), exclusive |-> octets[1] >= 128,
     weight |-> octets[5] + 1]

EncodeParams(params) ==
    FlattenSeq([i \in 1..Len(params) |->
        BigEndian(params[i][1], 2) \o BigEndian(params[i][2], 4)])

DecodeParams(octets) ==
    [i \in 1..(Len(octets) \div 6) |->
        <<FromBigEndian(SubSeq(octets, 6 * i - 5, 6 * i - 4)),
          FromBigEndian(SubSeq(octets, 6 * i - 3, 6 * i))>>]

EncodeHeaders(f) == IF HasFlag(f, PRIORITY_FLAG) THEN EncodePriority(f.pri) \o f.data ELSE f.data
EncodeSettings(f) == EncodeParams(f.params)
EncodePush(f) == BigEndian(f.number, 4) \o f.data
EncodeGoaway(f) == BigEndian(f.last, 4) \o BigEndian(f.number, 4) \o f.data
EncodeRstStream(f) == BigEndian(f.number, 4)
EncodeWindowUpdate(f) == BigEndian(f.number, 4)

FramePayload(f) ==
    CASE f.type = "HEADERS"       -> EncodeHeaders(f)
      [] f.type = "PRIORITY"      -> EncodePriority(f.pri)
      [] f.type = "RST_STREAM"    -> EncodeRstStream(f)
      [] f.type = "SETTINGS"      -> EncodeSettings(f)
      [] f.type = "PUSH_PROMISE"  -> EncodePush(f)
      [] f.type = "GOAWAY"        -> EncodeGoaway(f)
      [] f.type = "WINDOW_UPDATE" -> EncodeWindowUpdate(f)
      [] OTHER                    -> f.data

\* calcPayloadSize: from the fields, whatever the length on the wire was
PayloadSize(f) ==
    CASE f.type = "HEADERS" -> Len(f.data) + (IF HasFlag(f, PRIORITY_FLAG) THEN 5 ELSE 0)
      [] f.type = "PRIORITY" -> 5
      [] f.type = "SETTINGS" -> 6 * Len(f.params)
      [] f.type = "PUSH_PROMISE" -> 4 + Len(f.data)
      [] f.type = "GOAWAY" -> 8 + Len(f.data)
      [] f.type \in {"RST_STREAM", "WINDOW_UPDATE"} -> 4
      [] f.type = "PING" -> 8
      [] OTHER -> Len(f.data)

FrameSize(f) == H2_FRAME_HEADER_SIZE + PayloadSize(f)

EncodeFrameHeader(f) ==
    BigEndian(PayloadSize(f), 3) \o <<TypeCode(f.type), f.flags>> \o BigEndian(f.stream, 4)

EncodeFrame(f) == EncodeFrameHeader(f) \o FramePayload(f)

-----------------------------------------------------------------------------
(* Decoding into the object that the session keeps for the type: what a    *)
(* frame does not set, or sets only without error, is the last one's.      *)

DecodeHeader(octets) ==
    [length |-> FromBigEndian(SubSeq(octets, 1, 3)), code |-> octets[4], flags |-> octets[5],
     stream |-> Low31(SubSeq(octets, 6, 9))]

Decoded(f) == [error |-> "NOERR", frame |-> f]
Refused(f, error) == [error |-> error, frame |-> f]
From(octets, n) == SubSeq(octets, n, Len(octets))

\* A first octet that counts the padding at the end
PaddedTooFar(f, payload) == HasFlag(f, PADDED) /\ (payload = <<>> \/ payload[1] >= Len(payload))
Unpadded(f, payload) ==
    IF HasFlag(f, PADDED) THEN SubSeq(payload, 2, Len(payload) - payload[1]) ELSE payload

DecodeData(f, payload) ==
    IF f.stream = 0 \/ PaddedTooFar(f, payload) THEN Refused(f, "PROTOCOL_ERROR")
    ELSE Decoded([f EXCEPT !.data = Unpadded(f, payload)])

DecodeHeaders(f, payload) ==
    LET body == Unpadded(f, payload) IN
    IF f.stream = 0 \/ PaddedTooFar(f, payload) THEN Refused(f, "PROTOCOL_ERROR")
    ELSE IF ~HasFlag(f, PRIORITY_FLAG) THEN Decoded([f EXCEPT !.data = body])
    ELSE IF Len(body) < 5 THEN Refused(f, "FRAME_SIZE_ERROR")
    ELSE Decoded([f EXCEPT !.pri = DecodePriority(body), !.data = From(body, 6)])

DecodePriorityFrame(f, payload) ==
    IF f.stream = 0 THEN Refused(f, "PROTOCOL_ERROR")
    ELSE IF Len(payload) < 5 THEN Refused(f, "FRAME_SIZE_ERROR")
    ELSE Decoded([f EXCEPT !.pri = DecodePriority(payload)])

DecodeRstStream(f, payload) ==
    IF f.stream = 0 THEN Refused(f, "PROTOCOL_ERROR")
    ELSE IF Len(payload) # 4 THEN Refused(f, "FRAME_SIZE_ERROR")
    ELSE Decoded([f EXCEPT !.number = FromBigEndian(payload)])

DecodeSettings(f, payload) ==
    IF f.stream # 0 THEN Refused(f, "PROTOCOL_ERROR")
    ELSE IF (HasFlag(f, ACK) /\ payload # <<>>) \/ Len(payload) % 6 # 0 THEN Refused(f, "FRAME_SIZE_ERROR")
    ELSE Decoded([f EXCEPT !.params = DecodeParams(payload)])

\* The block of the last promise stays when this one has none.
DecodePush(f, payload) ==
    LET body == Unpadded(f, payload) IN
    IF f.stream = 0 \/ PaddedTooFar(f, payload) THEN Refused(f, "PROTOCOL_ERROR")
    ELSE IF Len(body) < 4 THEN Refused(f, "FRAME_SIZE_ERROR")
    ELSE Decoded([f EXCEPT !.number = Low31(SubSeq(body, 1, 4)),
                           !.data = IF Len(body) > 4 THEN From(body, 5) ELSE @])

DecodePing(f, payload) ==
    IF f.stream # 0 THEN Refused(f, "PROTOCOL_ERROR")
    ELSE IF Len(payload) # 8 THEN Refused(f, "FRAME_SIZE_ERROR")
    ELSE Decoded([f EXCEPT !.data = payload])

\* The debug data of the last goaway stays when this one has none.
DecodeGoaway(f, payload) ==
    IF f.stream # 0 THEN Refused(f, "PROTOCOL_ERROR")
    ELSE IF Len(payload) < 8 THEN Refused(f, "FRAME_SIZE_ERROR")
    ELSE Decoded([f EXCEPT !.last = Low31(SubSeq(payload, 1, 4)),
                           !.number = FromBigEndian(SubSeq(payload, 5, 8)),
                           !.data = IF Len(payload) > 8 THEN From(payload, 9) ELSE @])

DecodeWindowUpdate(f, payload) ==
    IF Len(payload) # 4 THEN Refused(f, "FRAME_SIZE_ERROR")
    ELSE Decoded([f EXCEPT !.number = Low31(payload)])

DecodeContinuation(f, payload) ==
    IF f.stream = 0 THEN Refused(f, "PROTOCOL_ERROR") ELSE Decoded([f EXCEPT !.data = payload])

\* parseFrame: [error, frame]
DecodePayload(object, header, payload) ==
    LET f == [object EXCEPT !.flags = header.flags, !.stream = header.stream]
    IN  CASE f.type = "DATA"          -> DecodeData(f, payload)
          [] f.type = "HEADERS"       -> DecodeHeaders(f, payload)
          [] f.type = "PRIORITY"      -> DecodePriorityFrame(f, payload)
          [] f.type = "RST_STREAM"    -> DecodeRstStream(f, payload)
          [] f.type = "SETTINGS"      -> DecodeSettings(f, payload)
          [] f.type = "PUSH_PROMISE"  -> DecodePush(f, payload)
          [] f.type = "PING"          -> DecodePing(f, payload)
          [] f.type = "GOAWAY"        -> DecodeGoaway(f, payload)
          [] f.type = "WINDOW_UPDATE" -> DecodeWindowUpdate(f, payload)
          [] f.type = "CONTINUATION"  -> DecodeContinuation(f, payload)

=============================================================================
