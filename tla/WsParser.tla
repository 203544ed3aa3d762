------------------------------ MODULE WsParser ------------------------------
(***************************************************************************)
(* ws_parser: the incremental parser of WebSocket frames.  A peer's frames *)
(* come as octets, split anywhere; ws_parser_execute is called with each   *)
(* piece and calls back.  Payload that one call hands over in one piece is *)
(* joined to the payload before it: how it is cut is not looked at.        *)
(***************************************************************************)
EXTENDS Integers, Sequences, FiniteSets, FiniteSetsExt, SequencesExt
LOCAL INSTANCE Bitwise

CONSTANTS
    Wires,             \* sequences of frames that peers send
    Refusals,          \* sets of callbacks that return a code of their own
    MaxPiece,          \* sizes of pieces: up to this,
    LongPiece          \* or this, or all there is if that is less

VARIABLES
    frames,            \* the frames sent, member of Wires
    refused,           \* the callbacks that refuse, member of Refusals
    octets,            \* octets not yet read
    parser             \* ws_parser_t, the callbacks' calls so far and the last result

wsVars == <<frames, refused, octets, parser>>

-----------------------------------------------------------------------------
(* The parser: one octet at a time.                                        *)

WsInit == [state |-> "opcode", fragment |-> FALSE, fin |-> FALSE, control |-> FALSE,
           masked |-> FALSE, mask |-> <<>>, maskPos |-> 0, remaining |-> 0, digits |-> 0,
           calls |-> <<>>, rc |-> "WS_OK"]

Fail(p, rc) == [p EXCEPT !.rc = rc]

Call(p, name, args) ==
    LET told == IF /\ p.calls # <<>> /\ Last(p.calls)[1] = name
                   /\ name \in {"on_data_payload", "on_control_payload"}
                THEN Append(Front(p.calls), <<name, Last(p.calls)[2] \o args>>)
                ELSE Append(p.calls, <<name, args>>)
    IN  IF name \in refused THEN Fail([p EXCEPT !.calls = told], name)
        ELSE [p EXCEPT !.calls = told]

OnOpcode(p, octet) ==
    LET opcode == octet % 16
        fin == octet >= 128
        begun == [p EXCEPT !.fin = fin, !.state = "length"]
    IN  CASE (octet \div 16) % 8 # 0 -> Fail(p, "WS_RESERVED_BITS_SET")
          [] opcode = 0 -> IF ~p.fragment THEN Fail(p, "WS_INVALID_CONTINUATION")
                           ELSE [begun EXCEPT !.control = FALSE]
          [] opcode \in {8, 9, 10} ->
                IF ~fin THEN Fail(p, "WS_FRAGMENTED_CONTROL")
                ELSE Call([begun EXCEPT !.control = TRUE], "on_control_begin", <<opcode>>)
          [] opcode \in {1, 2} ->
                Call([begun EXCEPT !.control = FALSE, !.fragment = ~fin], "on_data_begin", <<opcode>>)
          [] OTHER -> Fail(p, "WS_INVALID_OPCODE")

EndOfPayload(p) ==
    LET idle == [p EXCEPT !.state = "opcode"]
    IN  IF p.control THEN Call(idle, "on_control_end", <<>>)
        ELSE IF p.fin THEN Call(idle, "on_data_end", <<>>) ELSE idle

\* Where the parser is when the length is known
Measured(p, length) == [p EXCEPT !.remaining = length, !.state = IF p.masked THEN "mask" ELSE "payload"]

OnLength(p, octet) ==
    LET length == octet % 128
        fresh == [p EXCEPT !.masked = octet >= 128, !.mask = <<>>, !.maskPos = 0,
                           !.remaining = 0, !.digits = 0]
        short == Measured(fresh, length)
    IN  IF p.control /\ length > 125 THEN Fail(p, "WS_CONTROL_TOO_LONG")
        ELSE IF length = 126 THEN [fresh EXCEPT !.state = "length16"]
        ELSE IF length = 127 THEN [fresh EXCEPT !.state = "length64"]
        ELSE IF short.state = "payload" /\ length = 0 THEN EndOfPayload(short) ELSE short

\* S_LENGTH_16_0 .. S_LENGTH_64_7
OnLengthDigit(p, octet, size, least) ==
    LET length == 256 * p.remaining + octet
    IN  IF p.digits + 1 < size THEN [p EXCEPT !.remaining = length, !.digits = @ + 1]
        ELSE IF length < least THEN Fail(p, "WS_NON_CANONICAL_LENGTH") ELSE Measured(p, length)

\* S_MASK_0 .. S_MASK_3
OnMask(p, octet) ==
    LET known == [p EXCEPT !.mask = Append(@, octet)]
        whole == [known EXCEPT !.state = "payload"]
    IN  IF Len(known.mask) < 4 THEN known
        ELSE IF p.remaining = 0 THEN EndOfPayload(whole) ELSE whole

\* mutant of OnPayload: the position in the mask is not kept
OnPayloadFromStart(p, octet) ==
    LET clear == IF p.masked THEN octet ^^ p.mask[1] ELSE octet
        got == Call([p EXCEPT !.remaining = @ - 1],
                    IF p.control THEN "on_control_payload" ELSE "on_data_payload", <<clear>>)
    IN  IF got.rc = "WS_OK" /\ got.remaining = 0 THEN EndOfPayload(got) ELSE got

OnPayload(p, octet) ==
    LET clear == IF p.masked THEN octet ^^ p.mask[p.maskPos + 1] ELSE octet
        got == Call([p EXCEPT !.maskPos = (@ + 1) % 4, !.remaining = @ - 1],
                    IF p.control THEN "on_control_payload" ELSE "on_data_payload", <<clear>>)
    IN  IF got.rc = "WS_OK" /\ got.remaining = 0 THEN EndOfPayload(got) ELSE got

OnOctet(p, octet) ==
    IF p.rc # "WS_OK" THEN p
    ELSE CASE p.state = "opcode"   -> OnOpcode(p, octet)
           [] p.state = "length"   -> OnLength(p, octet)
           [] p.state = "length16" -> OnLengthDigit(p, octet, 2, 126)
           [] p.state = "length64" -> OnLengthDigit(p, octet, 8, 65536)
           [] p.state = "mask"     -> OnMask(p, octet)
           [] p.state = "payload"  -> OnPayload(p, octet)

\* ws_parser_execute
WsExecute(p, buff) == FoldLeft(OnOctet, p, buff)

-----------------------------------------------------------------------------
(* The peer: frames as RFC 6455 lays them out.                             *)

MaskKey == <<17, 34, 68, 136>>

BigEndianOf(n, size) == [i \in 1..size |-> IF size - i > 3 THEN 0 ELSE (n \div (256 ^ (size - i))) % 256]

\* `form': 7, 16 or 64, the length's form; `first': reserved bits
FrameOctets(f) ==
    LET n == Len(f.payload)
        high == IF f.masked THEN 128 ELSE 0
    IN  <<(IF f.fin THEN 128 ELSE 0) + 16 * f.reserved + f.opcode>>
        \o (CASE f.form = 7  -> <<high + n>>
              [] f.form = 16 -> <<high + 126>> \o BigEndianOf(n, 2)
              [] f.form = 64 -> <<high + 127>> \o BigEndianOf(n, 8))
        \o (IF f.masked THEN MaskKey ELSE <<>>)
        \o [i \in 1..n |-> IF f.masked THEN f.payload[i] ^^ MaskKey[((i - 1) % 4) + 1] ELSE f.payload[i]]

\* What a frame is wrong in, if anything; `open': a continuation may come
FrameError(f, open) ==
    CASE f.reserved # 0 -> "WS_RESERVED_BITS_SET"
      [] f.opcode \notin {0, 1, 2, 8, 9, 10} -> "WS_INVALID_OPCODE"
      [] f.opcode = 0 /\ ~open -> "WS_INVALID_CONTINUATION"
      [] f.opcode >= 8 /\ ~f.fin -> "WS_FRAGMENTED_CONTROL"
      [] f.opcode >= 8 /\ f.form # 7 -> "WS_CONTROL_TOO_LONG"
      [] f.form # (IF Len(f.payload) < 126 THEN 7 ELSE 16) -> "WS_NON_CANONICAL_LENGTH"
      [] OTHER -> "WS_OK"

\* What a reader of whole frames would be told
FrameCalls(f) ==
    LET kind == IF f.opcode >= 8 THEN "control" ELSE "data"
        name(what) == "on_" \o kind \o what
    IN  (IF f.opcode = 0 THEN <<>> ELSE <<<<name("_begin"), <<f.opcode>>>>>>)
        \o (IF f.payload = <<>> THEN <<>> ELSE <<<<name("_payload"), f.payload>>>>)
        \o (IF f.fin THEN <<<<name("_end"), <<>>>>>> ELSE <<>>)

\* Whether a continuation may come after frame f.  The end of a message in fragments
\* does not forbid another one, as it should: only the next message of one frame does.
OpenAfter(f, open) == IF f.opcode \in {1, 2} THEN ~f.fin ELSE open

\* the frames up to the first wrong one, and its error.  A wrong length is found
\* out after the frame's beginning has been told.
Expected(fs) ==
    FoldLeft(LAMBDA r, f :
        LET error == FrameError(f, r.open)
            begun == IF error \in {"WS_NON_CANONICAL_LENGTH", "WS_CONTROL_TOO_LONG"} /\ f.opcode # 0
                     THEN <<Head(FrameCalls(f))>> ELSE <<>>
        IN  IF r.rc # "WS_OK" THEN r
            ELSE IF error # "WS_OK" THEN [r EXCEPT !.rc = error, !.calls = @ \o begun]
            ELSE [r EXCEPT !.calls = @ \o FrameCalls(f), !.open = OpenAfter(f, @)],
        [calls |-> <<>>, open |-> FALSE, rc |-> "WS_OK"], fs)

\* Calls without the cuts between fragments' payloads
Joined(calls) ==
    FoldLeft(LAMBDA r, c :
        IF r # <<>> /\ Last(r)[1] = c[1] /\ c[1] \in {"on_data_payload", "on_control_payload"}
        THEN Append(Front(r), <<c[1], Last(r)[2] \o c[2]>>) ELSE Append(r, c), <<>>, calls)

\* Up to the first call that is refused
UpToRefused(calls) ==
    LET at == SelectInSeq(calls, LAMBDA c : c[1] \in refused)
    IN  IF at = 0 THEN calls ELSE SubSeq(calls, 1, at)

-----------------------------------------------------------------------------
WebSocketInit ==
    /\ frames \in Wires
    /\ refused \in Refusals
    /\ octets = FoldLeft(LAMBDA all, f : all \o FrameOctets(f), <<>>, frames)
    /\ parser = WsInit

\* A piece comes; after an error the owner stops.
Execute(n) ==
    /\ parser.rc = "WS_OK"
    /\ parser' = WsExecute(parser, SubSeq(octets, 1, n))
    /\ octets' = SubSeq(octets, n + 1, Len(octets))
    /\ UNCHANGED <<frames, refused>>

WebSocketNext ==
    \E n \in ((1..MaxPiece) \cup {LongPiece, Len(octets)}) \cap (1..Min({LongPiece, Len(octets)})) :
        Execute(n)

WebSocketSpec == WebSocketInit /\ [][WebSocketNext]_wsVars

-----------------------------------------------------------------------------
(* Properties.                                                             *)

\* However the octets are split, the callbacks are told the frames that were sent,
\* up to the first wrong one, which gets its error; nothing after a callback that
\* refused.  A continuation is not taken for wrong when the last message that began
\* was in fragments, even if it has ended.
FramesTold ==
    (octets = <<>> \/ parser.rc # "WS_OK") =>
        LET want == Expected(frames)
            calls == UpToRefused(Joined(want.calls))
        IN  /\ [i \in DOMAIN calls |-> calls[i][1]] = [i \in DOMAIN parser.calls |-> parser.calls[i][1]]
            /\ refused = {} => parser.calls = calls /\ parser.rc = want.rc

=============================================================================
