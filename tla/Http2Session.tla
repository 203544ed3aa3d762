---------------------------- MODULE Http2Session ----------------------------
(***************************************************************************)
(* MyHttp2Session and its MyHttp2Streams: octets in, requests handled,     *)
(* frames out.                                                             *)
(*                                                                         *)
(* The client sends frames of legal requests, one program for each stream, *)
(* and frames of its own for the connection and for streams; the network   *)
(* cuts their octets anywhere.  Stream objects outlive their place in the  *)
(* map, because handlers hold them.  Header names and values are those of  *)
(* HPacker; a response is not coded, as its names are never put into the   *)
(* table by getIndexingType.                                               *)
(***************************************************************************)
EXTENDS HPacker, H2Frame, FiniteSets

CONSTANTS
    Plans,             \* what clients do: [todo, controls], as the variables
    MaxWire,           \* bound on the octets under way when a frame is sent
    Cuts,              \* sizes of reads, beside all there is
    AtOnce(_),         \* requests the handler answers before it returns
    DefaultFrameSize,  \* H2_DEFAULT_FRAME_SIZE, and _maxFrameSize to begin with
    MaxFrameSize,      \* H2_MAX_FRAME_SIZE
    MaxWindowSize,     \* H2_MAX_WINDOW_SIZE
    ResponseBody            \* what responses consist of

ASSUME FrameSizeAssumption == DefaultFrameSize \in 1..MaxFrameSize

VARIABLES
    session,           \* MyHttp2Session
    wire,              \* octets that have not arrived
    inbuf,             \* the connection's buffer, between calls of onMessage
    todo,              \* frames left to send on each stream, in this order
    controls,          \* frames left to send at any time
    sent,              \* history: all frames the client sent
    parsed,            \* history: the frames the session took
    calls,             \* history: <<stream object, request>> of each handler call
    answered           \* stream objects that the handlers have begun and ended answering

h2Vars == <<session, wire, inbuf, todo, controls, sent, parsed, calls, answered>>

HEADER_TABLE_SIZE == 1
ENABLE_PUSH == 2
INITIAL_WINDOW_SIZE == 4
MAX_FRAME_SIZE == 5

H2Preface == <<80, 82, 73>>          \* HTTP2_PREFACE, cut short

-----------------------------------------------------------------------------
(* Sending.  A session is a record; the operators return what it becomes.  *)

SendFrame(s, f) == IF s.closed THEN s ELSE [s EXCEPT !.out = Append(@, f)]

SendStreamHeaders(s, o) ==
    SendFrame(s, [EmptyFrame("HEADERS") EXCEPT !.stream = s.objects[o].id,
                                               !.flags = END_HEADERS + PRIORITY_FLAG])

\* MyHttp2Stream::stop and onStreamEnd, whose closure is dispatched
StopStream(s, o) ==
    IF s.objects[o].closed THEN s
    ELSE [s EXCEPT !.objects[o].closed = TRUE, !.tasks = Append(@, o)]

\* The do-while of sendData: one piece at least, each of the frame size at most.
Pieces(n, size) ==
    LET count == IF n = 0 THEN 1 ELSE (n + size - 1) \div size
    IN  [i \in 1..count |-> [from |-> (i - 1) * size + 1,
                             to |-> IF i * size < n THEN i * size ELSE n,
                             last |-> i = count]]

SendStreamData(s, o, data, end) ==
    LET stream == s.objects[o]
        send(t, p) == SendFrame(t, [EmptyFrame("DATA") EXCEPT
            !.stream = stream.id, !.data = SubSeq(data, p.from, p.to),
            !.flags = IF end /\ p.last THEN END_STREAM ELSE 0])
        t == FoldLeft(send, s, Pieces(Len(data), stream.maxFrame))
    IN  IF end THEN StopStream(t, o) ELSE t

\* response and the responseFile that has the content
Response(s, o) == SendStreamData(SendStreamHeaders(s, o), o, ResponseBody, TRUE)

\* onClosed: the handler's sessions and the streams in the map are stopped
OnSessionClosed(s) ==
    FoldSet(LAMBDA id, t : StopStream(t, t.streams[id]), [s EXCEPT !.closed = TRUE],
            DOMAIN s.streams)

\* connectionError: closeAfterWrite closes at once when nothing waits to be written.
ConnectionError(s, code) ==
    LET t == [SendFrame(s, [EmptyFrame("GOAWAY") EXCEPT !.number = code, !.last = s.lastStreamId])
                EXCEPT !.closing = TRUE]
    IN  IF s.flushed /\ ~s.closed THEN OnSessionClosed(t) ELSE t

-----------------------------------------------------------------------------
(* Frames of the connection.                                               *)

\* 16 * 1024 * 1024 is one more than H2_MAX_FRAME_SIZE.
MySettings == << <<3, 128>>, <<INITIAL_WINDOW_SIZE, 64>>, <<MAX_FRAME_SIZE, MaxFrameSize + 1>> >>

\* One parameter; FALSE in `go' ends applySettings.
ApplyParam(r, p) ==
    IF ~r.go THEN r
    ELSE CASE p[1] = HEADER_TABLE_SIZE ->
                [r EXCEPT !.s.packer.table = SetMaxSize(@, p[2])]
           [] p[1] = MAX_FRAME_SIZE /\ p[2] \in DefaultFrameSize..MaxFrameSize ->
                [r EXCEPT !.s.maxFrameSize = p[2]]
           [] \/ p[1] = MAX_FRAME_SIZE /\ p[2] \notin DefaultFrameSize..MaxFrameSize
              \/ p[1] = ENABLE_PUSH /\ p[2] \notin {0, 1} ->
                [s |-> ConnectionError(r.s, 1), go |-> FALSE]
           [] p[1] = INITIAL_WINDOW_SIZE /\ p[2] > MaxWindowSize ->
                [s |-> ConnectionError(r.s, 3), go |-> FALSE]
           [] OTHER -> r

OnSettings(s, f) ==
    LET mine == SendFrame(s, [EmptyFrame("SETTINGS") EXCEPT !.params = MySettings])
        applied == FoldLeft(ApplyParam, [s |-> mine, go |-> TRUE], f.params).s
        acked == SendFrame(applied, [EmptyFrame("SETTINGS") EXCEPT !.flags = ACK])
    IN  IF HasFlag(f, ACK) THEN s ELSE [acked EXCEPT !.state = 2]

-----------------------------------------------------------------------------
(* Frames of a stream.                                                     *)

GetOrGenStream(s, id) ==
    IF id \in DOMAIN s.streams THEN s
    ELSE LET o == Len(s.objects) + 1 IN
         [s EXCEPT
            !.objects = Append(@, [id |-> id, closed |-> FALSE, maxFrame |-> s.maxFrameSize,
                                   request |-> [headers |-> <<>>, body |-> <<>>]]),
            !.streams = [i \in DOMAIN @ \cup {id} |-> IF i = id THEN o ELSE @[i]]]

\* The handler is called; r has the session, and the calls of this onMessage.
Handle(r, o, request) ==
    [r EXCEPT !.s = IF AtOnce(request) THEN Response(@, o) ELSE @,
              !.calls = Append(@, <<o, request>>)]

\* parseHeaders and onHeadersFrame: decode's result is not looked at
TakeHeaders(r, o, request, end) ==
    IF end THEN Handle(r, o, request) ELSE [r EXCEPT !.s.objects[o].request = request]

OnDecoded(r, o, in, end) ==
    TakeHeaders([r EXCEPT !.s.packer = in.packer], o, [headers |-> in.headers, body |-> <<>>], end)

OnHeaders(r, o, block, end) == OnDecoded(r, o, Decode(r.s.packer, block), end)

BodyAdded(r, o, end) == IF end THEN Handle(r, o, r.s.objects[o].request) ELSE r
OnData(r, o, f) ==
    BodyAdded([r EXCEPT !.s.objects[o].request.body = @ \o f.data], o, HasFlag(f, END_STREAM))

\* mutant of CloseStream: the stream is not taken out of the map
CloseStreamKeeps(s, o) == StopStream(s, o)

CloseStream(s, o) ==
    StopStream([s EXCEPT !.streams = Restrict(@, DOMAIN @ \ {s.objects[o].id})], o)

\* mutant of OnStreamFrame: a continued block starts from nothing
OnStreamFrameForgets(r, f) ==
    LET o == r.s.streams[f.stream]
    IN  CASE f.type = "HEADERS" /\ ~HasFlag(f, END_HEADERS) ->
               [r EXCEPT !.s.wantContinue = TRUE, !.s.continueEnd = HasFlag(f, END_STREAM)]
          [] f.type = "HEADERS" /\ HasFlag(f, END_HEADERS) ->
               OnHeaders([r EXCEPT !.s.wantContinue = FALSE], o, f.data, HasFlag(f, END_STREAM))
          [] f.type = "CONTINUATION" -> OnHeaders(r, o, f.data, r.s.continueEnd)
          [] f.type = "DATA" -> OnData(r, o, f)
          [] f.type = "RST_STREAM" -> [r EXCEPT !.s = CloseStream(StopStream(r.s, o), o)]
          [] OTHER -> r

OnStreamFrame(r, f) ==
    LET o == r.s.streams[f.stream]
        whole == r.s.headersBuf \o f.data
        done == OnHeaders(r, o, whole, r.s.continueEnd)
    IN  CASE f.type = "HEADERS" /\ ~HasFlag(f, END_HEADERS) ->
               [r EXCEPT !.s.wantContinue = TRUE, !.s.continueEnd = HasFlag(f, END_STREAM),
                         !.s.headersBuf = whole]
          [] f.type = "HEADERS" /\ HasFlag(f, END_HEADERS) ->
               OnHeaders([r EXCEPT !.s.wantContinue = FALSE], o, f.data, HasFlag(f, END_STREAM))
          [] f.type = "CONTINUATION" /\ ~r.s.wantContinue ->
               [r EXCEPT !.s = ConnectionError(@, 1)]
          [] f.type = "CONTINUATION" /\ r.s.wantContinue /\ ~HasFlag(f, END_HEADERS) ->
               [r EXCEPT !.s.headersBuf = whole]
          [] f.type = "CONTINUATION" /\ r.s.wantContinue /\ HasFlag(f, END_HEADERS) ->
               [done EXCEPT !.s.wantContinue = FALSE, !.s.headersBuf = <<>>]
          [] f.type = "DATA" -> OnData(r, o, f)
          [] f.type = "RST_STREAM" -> [r EXCEPT !.s = CloseStream(StopStream(r.s, o), o)]
          [] OTHER -> r

PingReply(f) == [f EXCEPT !.flags = @ + ACK]

\* the part of onMessage that is about the connection
OnConnectionFrame(s, f) ==
    CASE f.type = "SETTINGS" -> OnSettings(s, f)
      [] f.type = "PING" /\ ~HasFlag(f, ACK) -> SendFrame(s, PingReply(f))
      [] OTHER -> s

\* r's session has taken f as the connection's frame.
ToStream(r, f) ==
    LET u == [r EXCEPT !.s = [GetOrGenStream(@, f.stream) EXCEPT !.lastStreamId = f.stream]]
    IN  IF f.stream = 0 THEN r ELSE IF r.s.state = 2 THEN OnStreamFrame(u, f) ELSE u

\* One frame: [r, go]; onMessage returns false when `go' is FALSE.
OnFrame(r, f) ==
    IF f.type = "SETTINGS" /\ f.stream # 0
    THEN [r |-> [r EXCEPT !.s = ConnectionError(@, 1)], go |-> FALSE]
    ELSE IF f.type # "SETTINGS" /\ r.s.state = 1 THEN [r |-> r, go |-> FALSE]
    ELSE [r |-> ToStream([r EXCEPT !.s = OnConnectionFrame(@, f)], f), go |-> TRUE]

-----------------------------------------------------------------------------
(* onMessage: whole frames are taken, as long as there are any.            *)

\* r: [s, calls, buf, parsed].  A frame of no type is taken through a null pointer;
\* clients send none.
RECURSIVE Frames(_)

FramesAfter(done) == IF done.go THEN Frames(done.r) ELSE done.r

\* the frame is handled, and retrieved from the buffer
TakeFrame(r, type, f) ==
    FramesAfter(OnFrame([r EXCEPT !.s.objectOf[type] = f, !.parsed = Append(@, f),
                                  !.buf = SubSeq(@, FrameSize(f) + 1, Len(@))], f))

FrameOfType(r, type, header) ==
    TakeFrame(r, type, DecodePayload(r.s.objectOf[type], header,
                                     SubSeq(r.buf, 10, 9 + header.length)).frame)

FrameWith(r, header) ==
    IF Len(r.buf) < H2_FRAME_HEADER_SIZE + header.length THEN r
    ELSE IF header.code >= Len(FrameTypes) THEN [r EXCEPT !.s.lost = TRUE]
    ELSE FrameOfType(r, FrameTypes[header.code + 1], header)

Frames(r) ==
    IF Len(r.buf) < H2_FRAME_HEADER_SIZE THEN r ELSE FrameWith(r, DecodeHeader(r.buf))

\* The octets at the preface's place are retrieved, whatever they are.
PastPreface(s, buf, n) ==
    LET right == SubSeq(buf, 1, n) = H2Preface
        r == [s |-> IF right THEN [s EXCEPT !.state = 1] ELSE s, calls |-> <<>>,
              buf |-> SubSeq(buf, n + 1, Len(buf)), parsed |-> <<>>]
    IN  IF right THEN Frames(r) ELSE r

OnMessage(s, buf) ==
    LET r == [s |-> s, calls |-> <<>>, buf |-> buf, parsed |-> <<>>]
    IN  IF s.state # 0 THEN Frames(r)
        ELSE IF Len(buf) < Len(H2Preface) THEN r
        ELSE PastPreface(s, buf, Len(H2Preface))

-----------------------------------------------------------------------------
(* The client, the network, the loop and the application.                  *)

Http2Init ==
    /\ \E flushed \in BOOLEAN :
          session = [state |-> 0, closed |-> FALSE, closing |-> FALSE, flushed |-> flushed,
                     streams |-> [i \in {} |-> 0], objects |-> <<>>, tasks |-> <<>>,
                     packer |-> NewPacker, headersBuf |-> <<>>, wantContinue |-> FALSE,
                     continueEnd |-> FALSE, maxFrameSize |-> DefaultFrameSize,
                     lastStreamId |-> 0, out |-> <<>>, lost |-> FALSE,
                     objectOf |-> [t \in {FrameTypes[i] : i \in DOMAIN FrameTypes} |-> EmptyFrame(t)]]
    /\ wire = H2Preface /\ inbuf = <<>>
    /\ \E plan \in Plans : todo = plan.todo /\ controls = plan.controls
    /\ sent = <<>> /\ parsed = <<>> /\ calls = <<>> /\ answered = {}

ClientSends(f) ==
    /\ Len(wire) <= MaxWire
    /\ wire' = wire \o EncodeFrame(f)
    /\ sent' = Append(sent, f)

\* Nothing comes between the frames of one header block.
Continuing == sent # <<>> /\ Last(sent).type \in {"HEADERS", "CONTINUATION"}
                          /\ ~HasFlag(Last(sent), END_HEADERS)

SendOnStream(id) ==
    /\ todo[id] # <<>>
    /\ Continuing => Last(sent).stream = id
    /\ \E i \in DOMAIN sent : sent[i].type = "SETTINGS" /\ ~HasFlag(sent[i], ACK)
    /\ ClientSends([todo[id][1] EXCEPT !.stream = id])
    /\ todo' = [todo EXCEPT ![id] = Tail(@)]
    /\ UNCHANGED <<controls, session, inbuf, parsed, calls, answered>>

\* A stream's own window or its end may be spoken of once it has been begun.
SendControl(f) ==
    /\ ~Continuing
    /\ f.stream # 0 => \E i \in DOMAIN sent : sent[i].stream = f.stream
    /\ ClientSends(f)
    /\ controls' = controls \ {f}
    /\ todo' = IF f.type = "RST_STREAM" THEN [todo EXCEPT ![f.stream] = <<>>] ELSE todo
    /\ UNCHANGED <<session, inbuf, parsed, calls, answered>>

TakeIn(r) ==
    /\ session' = r.s /\ inbuf' = r.buf
    /\ parsed' = parsed \o r.parsed
    /\ calls' = calls \o r.calls
    /\ answered' = answered \cup {r.calls[i][1] : i \in {j \in DOMAIN r.calls : AtOnce(r.calls[j][2])}}

Arrive(n) ==
    /\ 0 < n /\ n <= Len(wire)
    /\ ~session.closed
    /\ TakeIn(OnMessage(session, inbuf \o SubSeq(wire, 1, n)))
    /\ wire' = SubSeq(wire, n + 1, Len(wire))
    /\ UNCHANGED <<todo, controls, sent>>

\* a handler that answers later
Answer(o) ==
    /\ o \notin answered /\ \E i \in DOMAIN calls : calls[i][1] = o
    /\ session' = Response(session, o)
    /\ answered' = answered \cup {o}
    /\ UNCHANGED <<wire, inbuf, todo, controls, sent, parsed, calls>>

\* beginFile, writeFile and endFile, or the responseFile that reads the file: a
\* stream that was stopped meanwhile gets no more of it, but its end.
WriteStreamFile(s, o) ==
    IF s.objects[o].closed THEN s ELSE SendStreamData(s, o, ResponseBody, FALSE)

AnswerFile(o) ==
    /\ o \notin answered /\ \E i \in DOMAIN calls : calls[i][1] = o
    /\ session' = SendStreamData(WriteStreamFile(SendStreamHeaders(session, o), o), o, <<>>, TRUE)
    /\ answered' = answered \cup {o}
    /\ UNCHANGED <<wire, inbuf, todo, controls, sent, parsed, calls>>

\* the closure of onStreamEnd
RunStreamEnd ==
    /\ session.tasks # <<>>
    /\ session' = CloseStream([session EXCEPT !.tasks = Tail(@)], Head(session.tasks))
    /\ UNCHANGED <<wire, inbuf, todo, controls, sent, parsed, calls, answered>>

ConnectionClosed ==
    /\ ~session.closed
    /\ session' = OnSessionClosed(session)
    /\ UNCHANGED <<wire, inbuf, todo, controls, sent, parsed, calls, answered>>

Http2Next ==
    \/ \E id \in DOMAIN todo : SendOnStream(id)
    \/ \E f \in controls : SendControl(f)
    \/ \E n \in Cuts \cup {Len(wire)} : Arrive(n)
    \/ \E o \in DOMAIN session.objects : Answer(o) \/ AnswerFile(o)
    \/ RunStreamEnd
    \/ ConnectionClosed

Http2Spec == Http2Init /\ [][Http2Next]_h2Vars

-----------------------------------------------------------------------------
(* Properties.                                                             *)

\* The frames taken are those sent, in order, wherever the network cuts their
\* octets: what onMessage retrieves is what the frame was, and no more.  (The
\* weight of a priority arrives one larger.)
FramesArrive ==
    LET Plain(f) == [f EXCEPT !.pri = EmptyFrame("DATA").pri]
    IN  /\ ~session.lost
        /\ Len(parsed) <= Len(sent)
        /\ \A i \in DOMAIN parsed : Plain(parsed[i]) = Plain(sent[i])

\* What a client sent on a stream.
OnStream(id, types) == SelectSeq(sent, LAMBDA f : f.stream = id /\ f.type \in types)
DataOf(frames) == FoldLeft(LAMBDA d, f : d \o f.data, <<>>, frames)

\* A handler gets the whole request, its headers put together from however many
\* frames and its body from all the data, with other streams' frames in between.
RequestsWhole ==
    \A i \in DOMAIN calls :
        LET id == session.objects[calls[i][1]].id
        IN  calls[i][2] =
               [headers |-> Decode(NewPacker, DataOf(OnStream(id, {"HEADERS", "CONTINUATION"}))).headers,
                body |-> DataOf(OnStream(id, {"DATA"}))]

\* No stream's request is handled twice, by whichever object, and nothing is sent
\* on a stream after the frame that ends it.
OneAnswer ==
    /\ \A i, j \in DOMAIN calls :
          session.objects[calls[i][1]].id = session.objects[calls[j][1]].id => i = j
    /\ \A i, j \in DOMAIN session.out :
          LET f == session.out[i] IN
          f.type \in {"DATA", "HEADERS"} /\ HasFlag(f, END_STREAM) /\ i < j
             => session.out[j].stream # f.stream

\* A stream that has been stopped leaves the map: its closure is in the queue for
\* as long as it is there.
StoppedStreamsLeave ==
    \A id \in DOMAIN session.streams :
        LET o == session.streams[id] IN
        session.objects[o].closed => \E i \in DOMAIN session.tasks : session.tasks[i] = o

\* Every ping after the first settings is answered, in order, and with its data.
PingsAnswered ==
    LET Data(frames) == [i \in DOMAIN frames |-> frames[i].data]
        Pings(frames) == SelectSeq(frames, LAMBDA f : f.type = "PING" /\ HasFlag(f, ACK))
        Asked == SelectSeq(parsed, LAMBDA f : f.type = "PING" /\ ~HasFlag(f, ACK))
    IN  ~session.closed /\ parsed # <<>> /\ parsed[1].type = "SETTINGS" => Data(Pings(session.out)) = Data(Asked)

\* A request reaches its handler as it was sent, from octets to headers and body.
RequestsArrive == FramesArrive /\ RequestsWhole

\* What was asked is answered, once, and then forgotten.
StreamsAnswered == OneAnswer /\ StoppedStreamsLeave /\ PingsAnswered

=============================================================================
