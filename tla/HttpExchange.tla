---------------------------- MODULE HttpExchange ----------------------------
(***************************************************************************)
(* A client, MyHttpClient or another, and MyHttpSession with its handler,  *)
(* over a connection that keeps order and cuts texts anywhere.             *)
(*                                                                         *)
(* onMessage takes each read for a request, so requests are written and    *)
(* read as one piece, but for the reads of `Reads'.  MyHttpClient sends    *)
(* one request at a time: its onMessage takes all it has for one response. *)
(***************************************************************************)
EXTENDS HttpMessage, FiniteSets

CONSTANTS
    Asks,              \* what a client may ask: arguments of sendRequest, and a version
    Replies,           \* what a handler may do: sequences of calls on the session
    Reads,             \* lexemes that a read of a part of a request may get
    MaxAsked,          \* bound on the requests
    MaxTimers          \* bound on the close timers

ASSUME HttpBounds == MaxAsked \in Nat /\ MaxTimers \in Nat

CallNames == {"response", "responseFile", "beginFile", "writeFile", "endFile", "stop"}

\* A reply is a sequence of calls.
ASSUME RepliesAssumption ==
    \A r \in Replies : r \in Seq({r[i] : i \in DOMAIN r}) /\ \A i \in DOMAIN r : r[i].call \in CallNames

VARIABLES
    client,            \* "MyHttpClient", "other", or "closed"
    up, down,          \* texts on the way to the session, and to the client
    reply,             \* the client's buffer
    sess,              \* MyHttpSession and its Connection
    pending,           \* calls the handler has yet to make
    asked,             \* history: requests sent
    handled,           \* history: requests the handler got
    replied,           \* history: bodies and codes given to response and responseFile
    got,               \* history: responses the client's callback got
    streamed,          \* history: contents given to writeFile
    flown              \* history: all the text sent to the client

httpVars == <<client, up, down, reply, sess, pending, asked, handled, replied, got, streamed, flown>>

-----------------------------------------------------------------------------
(* The session: operators return what it becomes.                          *)

SendText(s, text) == IF s.closed THEN s ELSE [s EXCEPT !.out = @ \o text]

\* Connection::close and onClosed
EndSession(s) ==
    IF s.closed THEN s
    ELSE [s EXCEPT !.closed = TRUE, !.out = <<>>, !.timers = @ \ {s.closeTimer}, !.closeTimer = 0]

CloseWhenSent(s) == IF s.out = <<>> THEN EndSession(s) ELSE [s EXCEPT !.afterWrite = TRUE]

\* mutant of RefreshCloseTimer: the timer before it is not deleted
RefreshCloseTimerAdds(s) ==
    [s EXCEPT !.timers = @ \cup {s.made + 1}, !.closeTimer = s.made + 1, !.made = @ + 1]

\* The pointer may be of a timer that has fired.
RefreshCloseTimer(s) ==
    [s EXCEPT !.timers = (@ \ {s.closeTimer}) \cup {s.made + 1},
              !.closeTimer = s.made + 1, !.made = @ + 1]

Sized(headers, body) == headers @@ (ContentLength :> <<ToString(CharsIn(body))>>)

\* makeupResponse and send
SendResponse(s, code, body) ==
    SendText(s, ResponseText([version |-> "HTTP/1.1", code |-> code, body |-> body,
                          headers |-> Sized(<<"Content-Type">> :> <<"text/html">>, body)]))

FileHeaders == (<<"Content-Type">> :> <<"octets">>) @@ (<<"Content-Disposition">> :> <<"name">>)

\* responseFile with the content
ResponseFile(s, body) ==
    CloseWhenSent(SendText(SendText(s, ResponseText([version |-> "HTTP/1.1", code |-> 200, body |-> <<>>,
                                               headers |-> Sized(FileHeaders, body)])), body))

BeginFile(s) ==
    LET more == IF s.version = "HTTP/1.1" THEN <<"Pragma">> :> <<"no-cache">> ELSE <<>>
        version == IF s.version = "HTTP/1.0" THEN "HTTP/1.0" ELSE "HTTP/1.1"
    IN  RefreshCloseTimer(SendText(s, ResponseText([version |-> version, code |-> 200, body |-> <<>>,
            headers |-> FileHeaders @@ more @@ (TransferEncoding :> <<"chunked">>)])))

WriteFile(s, body) ==
    RefreshCloseTimer(SendText(s, <<ToString(CharsIn(body)), LINE_END>> \o body \o <<LINE_END>>))

EndFile(s) == CloseWhenSent(SendText(s, <<"0", LINE_END, LINE_END>>))

\* One call of a handler.  responseFile with a path is begin, writes of what is
\* read, and end, or a response when there is no such file.
MakeCall(s, c) ==
    CASE c.call = "response"     -> SendResponse(s, c.code, c.body)
      [] c.call = "responseFile" -> ResponseFile(s, c.body)
      [] c.call = "beginFile"    -> BeginFile(s)
      [] c.call = "writeFile"    -> WriteFile(s, c.body)
      [] c.call = "endFile"      -> EndFile(s)
      [] c.call = "stop"         -> EndSession([s EXCEPT !.timers = @ \ {s.closeTimer}, !.closeTimer = 0])

\* urlHanlder answers OPTIONS itself.
CallsFor(request, calls) ==
    IF request.method = "OPTIONS" THEN <<[call |-> "response", code |-> 200, body |-> <<>>]>>
    ELSE calls

\* What onMessage does after the handler
AfterHandler(s, request) ==
    LET connection == <<"Connection">>
        close == \/ request.version = "HTTP/1.0"
                 \/ /\ request.version = "HTTP/1.1" /\ connection \in DOMAIN request.headers
                    /\ request.headers[connection] = <<"close">>
    IN  IF close THEN CloseWhenSent(s) ELSE RefreshCloseTimer(s)

-----------------------------------------------------------------------------
(* The client.                                                             *)

\* sendRequest; the body is not part of what it makes of its arguments.  A client
\* of another kind sends a version and "Connection: close" as it likes.
RequestOf(ask) ==
    LET always == (<<"Host">> :> <<"host">>) @@ (<<"Connection">> :> <<ask.connection>>)
        sized == Sized(<<"content-type">> :> <<"text">>, ask.body)
    IN  [method |-> ask.method, resource |-> ask.resource, version |-> ask.version, body |-> <<>>,
         headers |-> IF ask.body = <<>> THEN always ELSE always @@ sized]

SendRequest(ask) ==
    /\ client # "closed" /\ Len(asked) < MaxAsked
    /\ Len(asked) = IF client = "MyHttpClient" THEN Len(got) ELSE Len(replied)
    /\ client = "MyHttpClient" => ask.version = "HTTP/1.1" /\ ask.connection = "keep-alive"
    /\ asked' = Append(asked, RequestOf(ask))
    /\ up' = RequestText(RequestOf(ask))
    /\ UNCHANGED <<client, down, reply, sess, pending, handled, replied, got, streamed, flown>>

\* what onMessage of MyHttpClient makes of its buffer
TakeReply(text, in) ==
    IF CharsIn(text) <= 4 \/ in.code = "ResponseInsufficent"
    THEN reply' = text /\ UNCHANGED <<client, got>>
    ELSE IF in.code # "OK"
    THEN client' = "closed" /\ reply' = text /\ UNCHANGED got
    ELSE reply' = <<>> /\ got' = Append(got, in.response) /\ UNCHANGED client

ReadReply(n) ==
    LET text == reply \o SubSeq(down, 1, n)
    IN  /\ client = "MyHttpClient" /\ n \in 1..Len(down)
        /\ down' = SubSeq(down, n + 1, Len(down))
        /\ TakeReply(text, ParseResponse(text))
        /\ UNCHANGED <<up, sess, pending, asked, handled, replied, streamed, flown>>

\* the client closes; or it has seen that the session did, after all it sent
HttpClientCloses ==
    /\ client # "closed"
    /\ client' = "closed" /\ down' = <<>>
    /\ UNCHANGED <<up, reply, sess, pending, asked, handled, replied, got, streamed, flown>>

-----------------------------------------------------------------------------
(* The session's side.                                                     *)

HttpInit ==
    /\ client \in {"MyHttpClient", "other"}
    /\ up = <<>> /\ down = <<>> /\ reply = <<>> /\ flown = <<>>
    /\ sess = [version |-> "", out |-> <<>>, closed |-> FALSE, afterWrite |-> FALSE,
               timers |-> {}, closeTimer |-> 0, made |-> 0]
    /\ pending = <<>>
    /\ asked = <<>> /\ handled = <<>> /\ replied = <<>> /\ got = <<>> /\ streamed = <<>>

\* the effects of calls on the histories
Told(calls) == SelectSeq(calls, LAMBDA c : c.call \in {"response", "responseFile"})
Streamed(calls) == SelectSeq(calls, LAMBDA c : c.call = "writeFile")
Recorded(calls) ==
    /\ replied' = replied \o Told(calls)
    /\ streamed' = streamed \o Streamed(calls)

\* MyHttpClient does not read what beginFile, writeFile and endFile send.
RepliesFor == IF client = "MyHttpClient"
              THEN {r \in Replies : \A i \in DOMAIN r : r[i].call \in {"response", "responseFile", "stop"}}
              ELSE Replies

\* what one read of the socket got is taken from the buffer in any case:
\* DEFER(buf->retrieveAll())
ReadRequest(n) == up' = SubSeq(up, n + 1, Len(up))

Versioned(s, request) ==
    IF request.version \in {"HTTP/1.0", "HTTP/1.1"} THEN [s EXCEPT !.version = request.version]
    ELSE s

\* the session after the first k of the calls
MakeCalls(s, calls, k) ==
    LET after[i \in 0..k] == IF i = 0 THEN s ELSE MakeCall(after[i - 1], calls[i])
    IN  after[k]

\* The handler makes the first k calls before it returns.
RunHandler(request, all, k) ==
    LET now == SubSeq(all, 1, k)
    IN  /\ k \in 0..Len(all)
        /\ sess' = AfterHandler(MakeCalls(Versioned(sess, request), all, k), request)
        /\ pending' = pending \o SubSeq(all, k + 1, Len(all))
        /\ handled' = Append(handled, request)
        /\ Recorded(now)

HandleParsed(text, in, calls, k) ==
    IF CharsIn(text) <= 4
    THEN UNCHANGED <<sess, pending, handled, replied, streamed>>
    ELSE IF in.code # "OK"
    THEN sess' = EndSession(sess) /\ UNCHANGED <<pending, handled, replied, streamed>>
    ELSE RunHandler(in.request, CallsFor(in.request, calls), k)

\* onMessage, after a read of n lexemes
OnRequest(n, calls, k) ==
    LET text == SubSeq(up, 1, n)
    IN  /\ up # <<>> /\ ~sess.closed
        /\ sess.made < MaxTimers
        /\ ReadRequest(n)
        /\ HandleParsed(text, ParseRequest(text), calls, k)
        /\ UNCHANGED <<client, down, reply, asked, got, flown>>

\* The handler goes on, in a task of the loop.
HandlerGoesOn ==
    /\ pending # <<>> /\ sess.made < MaxTimers
    /\ sess' = MakeCall(sess, Head(pending))
    /\ pending' = Tail(pending)
    /\ Recorded(<<Head(pending)>>)
    /\ UNCHANGED <<client, up, down, reply, asked, handled, got, flown>>

\* realSend: some of what waits is taken, and the connection closed if it is to
FlushOut(n) ==
    LET left == [sess EXCEPT !.out = SubSeq(@, n + 1, Len(@))]
    IN  /\ n \in 1..Len(sess.out) /\ client # "closed"
        /\ down' = down \o SubSeq(sess.out, 1, n)
        /\ flown' = flown \o SubSeq(sess.out, 1, n)
        /\ sess' = IF left.out = <<>> /\ sess.afterWrite THEN EndSession(left) ELSE left
        /\ UNCHANGED <<client, up, reply, pending, asked, handled, replied, got, streamed>>

\* refreshCloseTimer's callback, and the timer is gone
CloseTimerFires(t) ==
    /\ t \in sess.timers
    /\ sess' = CloseWhenSent([sess EXCEPT !.timers = @ \ {t}])
    /\ UNCHANGED <<client, up, down, reply, pending, asked, handled, replied, got,
                   streamed, flown>>

\* the client's end is noticed
HttpPeerClosed ==
    /\ client = "closed" /\ ~sess.closed
    /\ sess' = EndSession(sess)
    /\ UNCHANGED <<client, up, down, reply, pending, asked, handled, replied, got,
                   streamed, flown>>

HttpNext ==
    \/ \E ask \in Asks : SendRequest(ask)
    \/ \E n \in {1, 3, Len(down)} : ReadReply(n)
    \/ HttpClientCloses
    \/ \E n \in (Reads \cup {Len(up)}) \cap (1..Len(up)), calls \in RepliesFor :
          \E k \in 0..Len(calls) : OnRequest(n, calls, k)
    \/ HandlerGoesOn
    \/ \E n \in {1, Len(sess.out)} : FlushOut(n)
    \/ \E t \in sess.timers : CloseTimerFires(t)
    \/ HttpPeerClosed

HttpSpec == HttpInit /\ [][HttpNext]_httpVars

-----------------------------------------------------------------------------
(* Properties.                                                             *)

\* The client's callback gets the responses the handler made, in order, each with
\* its whole body, wherever the network cuts them; never a part of one.
ResponsesWhole ==
    /\ Len(got) <= Len(replied)
    /\ \A i \in DOMAIN got : got[i].code = replied[i].code /\ got[i].body = replied[i].body

\* name and value of the pieces of a query that have an equals sign, around the first
Assignments(query) ==
    LET pieces == SelectSeq(Split(query, <<"&">>), LAMBDA piece : Contains(piece, "="))
        equal(i) == Min(Found(pieces[i], <<"=">>))
    IN  [i \in DOMAIN pieces |-> <<SubSeq(pieces[i], 1, equal(i) - 1),
                                  SubSeq(pieces[i], equal(i) + 1, Len(pieces[i]))>>]

\* what a resource says: a path, and each name of its query with its first value
SaysResource(resource, path, params) ==
    LET parts == Split(resource, <<"?">>)
        given == IF Len(parts) = 1 THEN <<>> ELSE Assignments(parts[2])
        firsts == {i \in DOMAIN given : \A j \in 1..(i - 1) : given[j][1] # given[i][1]}
    IN  /\ path = parts[1]
        /\ DOMAIN params = {given[i][1] : i \in DOMAIN given}
        /\ \A i \in firsts : params[given[i][1]] = given[i][2]

\* The handler gets each request once and in order, with the resource decoded, its
\* path and exactly its parameters, each with the first of its values, and the headers
\* it was sent with.
RequestsHandled ==
    /\ Len(handled) <= Len(asked)
    /\ \A i \in DOMAIN handled :
          LET q == asked[i]  r == handled[i] IN
          /\ r.method = q.method /\ r.resource = UrlDecoded(q.resource)
          /\ r.version = q.version /\ r.headers = q.headers
          /\ SaysResource(UrlDecoded(q.resource), r.path, r.params)

\* "At most four characters: the data is not all there; leave, and wait for the
\* network layer to go on receiving": a request that the handler has not got is still
\* whole, in the buffer or on its way.
RequestsWait ==
    client # "closed" /\ ~sess.closed /\ Len(handled) < Len(asked) =>
        up = RequestText(Last(asked))

\* A connection that has made a request and is not being closed has its close
\* timer running, or has fired it; there is never more than one.
OneCloseTimer ==
    /\ Cardinality(sess.timers) <= 1
    /\ handled # <<>> /\ ~sess.closed /\ ~sess.afterWrite => sess.timers = {sess.closeTimer}

\* The chunks of a text, by their own sizes, up to the empty one; <<>> when they
\* do not come to it.
Dechunked(text) ==
    LET ends(i, size) == {j \in (i + 2)..(Len(text) - 1) : CharsIn(SubSeq(text, i + 2, j)) = size}
        from[i \in 1..(Len(text) + 1)] ==
            IF i >= Len(text) \/ ~IsNumber(SubSeq(text, i, i)) THEN <<>>
            ELSE IF text[i] = "0" THEN <<"end">>
            ELSE LET of == ends(i, DecimalOf(<<text[i]>>))
                     rest == from[Min(of) + 2]
                 IN  IF of = {} \/ text[Min(of) + 1] # LINE_END \/ rest = <<>> THEN <<>>
                     ELSE SubSeq(text, i + 2, Min(of)) \o rest
    IN  from[1]

\* the blank lines that end the headers of a chunked file, and what follows
FileStarts ==
    {i \in Found(flown, <<LINE_END, LINE_END>>) : \E c \in Found(flown, <<"chunked">>) : i > c}
FileGiven == FlattenSeq([i \in DOMAIN streamed |-> streamed[i].body])

\* A file that is sent in chunks and comes to its empty chunk is the whole file, over
\* whatever tasks its calls are spread and however its text is cut.
FilesWhole ==
    streamed # <<>> /\ FileStarts # {} /\ IsSuffix(<<"0", LINE_END, LINE_END>>, flown)
        => Dechunked(SubSeq(flown, Min(FileStarts) + 2, Len(flown))) = FileGiven \o <<"end">>

\* Requests, responses and files are whole at the end they were sent to.
ExchangesWhole == RequestsHandled /\ ResponsesWhole /\ FilesWhole

=============================================================================
