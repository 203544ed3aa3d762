----------------------------- MODULE HttpMessage -----------------------------
(***************************************************************************)
(* HTTP/1 messages: HTTP::Request and HTTP::Response, to text and back.    *)
(*                                                                         *)
(* A text is a sequence of lexemes, strings that no delimiter and no       *)
(* escape straddles: words, single blanks, line ends, and escapes such as  *)
(* "%20".  Headers are functions from names to values, both texts; the     *)
(* order std::map puts them in is any fixed order.                         *)
(***************************************************************************)
EXTENDS Integers, Sequences, SequencesExt, FiniteSetsExt, TLC

LINE_END == "\r\n"

\* What the URL decoder leaves as it is, or replaces, is told by the lexeme; a
\* percent sign alone stands for one that no two hexadecimal digits follow.
Escapes == ("+" :> " ") @@ ("%20" :> " ") @@ ("%22" :> "\"") @@ ("%3F" :> "?")

CharsIn(text) == FoldLeft(LAMBDA n, lexeme : n + Len(lexeme), 0, text)

-----------------------------------------------------------------------------
(* Helpers.                                                                *)

Found(text, delim) ==
    {i \in 1..(Len(text) - Len(delim) + 1) : SubSeq(text, i, i + Len(delim) - 1) = delim}

\* parts[i] is of what begins at i.  A delimiter at the end gives no last, empty part.
Split(text, delim) ==
    LET found == Found(text, delim)
        end(i) == Min({j \in found : j >= i})
        parts[i \in 1..(Len(text) + 1)] ==
            IF \E j \in found : j >= i
            THEN <<SubSeq(text, i, end(i) - 1)>> \o parts[end(i) + Len(delim)]
            ELSE IF i > Len(text) THEN <<>> ELSE <<SubSeq(text, i, Len(text))>>
    IN  parts[1]

Concat(texts) == FlattenSeq(texts)

Methods == {"GET", "HEAD", "POST", "PUT", "DELETE", "TRACE", "OPTIONS", "CONNECT", "PATCH"}
MethodFromString(text) == IF Len(text) = 1 /\ text[1] \in Methods THEN text[1] ELSE "UNKNOWN"

Versions == {"HTTP/1.0", "HTTP/1.1", "HTTP/2.0"}
VersionFromString(text) ==
    IF Len(text) = 1 /\ text[1] \in Versions THEN text[1] ELSE "UNKNOWNVER"

\* std::stoi, for what the texts of this model hold
Numbers == 0..600
IsNumber(text) == Len(text) = 1 /\ \E n \in Numbers : ToString(n) = text[1]
DecimalOf(text) == CHOOSE n \in Numbers : ToString(n) = text[1]

BeforePercent(text) ==
    LET ends == {i \in DOMAIN text : text[i] = "%"}
    IN  IF ends = {} THEN text ELSE SubSeq(text, 1, Min(ends) - 1)
Unescape(lexeme) == IF lexeme \in DOMAIN Escapes THEN Escapes[lexeme] ELSE lexeme
UnescapeAll(text) == [i \in DOMAIN text |-> Unescape(text[i])]
UrlDecoded(text) == UnescapeAll(BeforePercent(text))

\* f with x mapped to y in any case (insert_or_assign)
Assign(f, x, y) == (x :> y) @@ f

\* mutant of Params: the values of a name that comes again replace the ones before
ParamsLast(query) ==
    LET equals == Found(query, <<"=">>)
        equal(i) == Min({j \in equals : j >= i})
        amp(i) == Min({Len(query) + 1} \cup {j \in Found(query, <<"&">>) : j >= i})
        from[i \in 1..(Len(query) + 2)] ==
            IF \A j \in equals : j < i THEN <<>>
            ELSE LET end == amp(equal(i) + 1)
                 IN  from[end + 1]
                         @@ (SubSeq(query, i, equal(i) - 1) :> SubSeq(query, equal(i) + 1, end - 1))
    IN  from[1]

\* The loop of urlParamParse; from[i] is what it gets from i on.  Of two values of one
\* name the first stays (emplace).
Params(query) ==
    LET equals == Found(query, <<"=">>)
        equal(i) == Min({j \in equals : j >= i})
        amp(i) == Min({Len(query) + 1} \cup {j \in Found(query, <<"&">>) : j >= i})
        from[i \in 1..(Len(query) + 2)] ==
            IF \A j \in equals : j < i THEN <<>>
            ELSE LET end == amp(equal(i) + 1)
                 IN  (SubSeq(query, i, equal(i) - 1) :> SubSeq(query, equal(i) + 1, end - 1))
                         @@ from[end + 1]
    IN  from[1]

\* The path of a resource that is not empty, and its parameters; what follows a
\* second question mark is dropped.
UrlParamParse(resource) ==
    LET parts == Split(resource, <<"?">>)
    IN  [path |-> parts[1], params |-> IF Len(parts) > 1 THEN Params(parts[2]) ELSE <<>>]

-----------------------------------------------------------------------------
(* Headers.                                                                *)

HeaderText(headers) ==
    FlattenSeq([i \in 1..Cardinality(DOMAIN headers) |->
                  LET name == SetToSeq(DOMAIN headers)[i]
                  IN  name \o <<":", " ">> \o headers[name] \o <<LINE_END>>])

\* Header::deserialize: the value begins two characters after the colon
HeaderSplit(line, colons) ==
    IF colons = {} THEN [name |-> <<>>, value |-> <<>>]
    ELSE [name |-> SubSeq(line, 1, Min(colons) - 1), value |-> SubSeq(line, Min(colons) + 2, Len(line))]
HeaderLine(line) == HeaderSplit(line, Found(line, <<":">>))

AddParsed(headers, h) == Assign(headers, h.name, h.value)
ParseHeaders(lines) ==
    FoldLeft(LAMBDA headers, line : AddParsed(headers, HeaderLine(line)), <<>>, lines)

-----------------------------------------------------------------------------
(* Requests.                                                               *)

RequestText(r) ==
    <<r.method, " ">> \o r.resource \o <<" ", r.version, LINE_END>>
        \o HeaderText(r.headers) \o <<LINE_END>> \o r.body

RequestFrom(first, url, lines, body) ==
    [method |-> MethodFromString(first[1]), resource |-> first[2],
     version |-> VersionFromString(first[3]), path |-> url.path, params |-> url.params,
     headers |-> ParseHeaders(lines), body |-> body]

RequestOfLines(first, lines, body) ==
    IF Len(first) # 3 THEN [code |-> "RequestFirstLineError"]
    ELSE [code |-> "OK",
          request |-> RequestFrom(first, UrlParamParse(first[2]),
                                  SelectSeq(lines, LAMBDA l : l # <<>>), body)]

RequestOfSegments(segments) ==
    LET lines == IF segments = <<>> THEN <<>> ELSE Split(segments[1], <<LINE_END>>)
    IN  IF lines = <<>> THEN [code |-> "RequestLineInsufficent"]
        ELSE RequestOfLines(Split(lines[1], <<" ">>), Tail(lines), Concat(Tail(segments)))

\* Request::deserialize: the text is decoded as if it were a URL, all of it, and
\* then taken apart.  Blank lines in the body are lost.
ParseRequest(text) == RequestOfSegments(Split(UrlDecoded(text), <<LINE_END, LINE_END>>))

-----------------------------------------------------------------------------
(* Responses.                                                              *)

\* respCode2string; 203 is NO_CONTENT here
Reasons == (200 :> "OK") @@ (201 :> "CREATED") @@ (202 :> "ACCEPTED") @@ (203 :> "NO_CONTENT")
        @@ (400 :> "BAD_REQUEST") @@ (403 :> "FORBIDDEN") @@ (404 :> "NOT_FOUND")
        @@ (408 :> "REQUEST_TIMEOUT") @@ (500 :> "INTERNAL_SERVER_ERROR")
        @@ (502 :> "BAD_GATEWAY") @@ (503 :> "SERVICE_UNAVAILABLE")
Reason(code) == IF code \in DOMAIN Reasons THEN Reasons[code] ELSE ToString(code)

ResponseText(r) ==
    <<r.version, " ", ToString(r.code), " ", Reason(r.code), LINE_END>>
        \o HeaderText(r.headers) \o <<LINE_END>> \o r.body

\* The do-while over the segments of a chunked body: the size, the chunk and the
\* rest of the text are taken to be segments.  "undefined" when segments[0] is
\* read of none.
Chunks(segments, body) ==
    LET after(k) == body \o Concat([j \in 1..k |-> segments[2 * j]])
        size(k) == DecimalOf(SubSeq(segments[2 * k + 1], 1, 1))
        read[k \in 0..Len(segments)] ==          \* what comes of it when k chunks are read
            IF Len(segments) < 2 * k + 1 THEN [code |-> "undefined", body |-> after(k)]
            ELSE IF size(k) = 0 /\ IsSuffix(<<"0", LINE_END, LINE_END>>, after(k))
            THEN [code |-> "OK", body |-> after(k)]
            ELSE IF size(k) = 0 \/ Len(segments) < 2 * k + 2 \/ size(k) > CharsIn(segments[2 * k + 2])
            THEN [code |-> "ResponseInsufficent", body |-> after(k)]
            ELSE read[k + 1]
    IN  read[0]

ContentLength == <<"Content-Length">>
TransferEncoding == <<"Transfer-Encoding">>

\* mutant of Complete: a part of a body will do
CompleteAlways(headers, body) == TRUE

\* The body has come whole, as far as Content-Length tells.
Complete(headers, body) ==
    ContentLength \in DOMAIN headers => CharsIn(body) >= DecimalOf(headers[ContentLength])

IsChunked(headers) == TransferEncoding \in DOMAIN headers /\ headers[TransferEncoding] = <<"chunked">>

ResponseFrom(first, headers, in) ==
    IF in.code # "OK" THEN [code |-> in.code]
    ELSE [code |-> "OK",
          response |-> [code |-> DecimalOf(first[2]), version |-> VersionFromString(first[1]),
                        headers |-> headers, body |-> in.body]]

\* without Content-Length or chunks there is no body
ResponseBodyOf(first, headers, segments) ==
    LET body == IF ContentLength \in DOMAIN headers THEN Concat(segments) ELSE <<>>
    IN  IF ~Complete(headers, body) THEN [code |-> "ResponseInsufficent"]
        ELSE ResponseFrom(first, headers, IF IsChunked(headers) THEN Chunks(segments, body)
                                          ELSE [code |-> "OK", body |-> body])

ResponseOfLines(first, lines, segments) ==
    IF Len(first) # 3 THEN [code |-> "ResponseFirstLineError"]
    ELSE ResponseBodyOf(first,
             ParseHeaders(SelectSeq(lines, LAMBDA l : HeaderLine(l).name # <<>>)), segments)

ResponseOfSegments(lines, segments) ==
    ResponseOfLines(Split(lines[1], <<" ">>), Tail(lines), segments)

\* Response::deserialize
ParseResponse(text) ==
    LET segments == Split(text, <<LINE_END, LINE_END>>)
    IN  IF Found(text, <<LINE_END, LINE_END>>) = {} THEN [code |-> "ResponseInsufficent"]
        ELSE ResponseOfSegments(Split(segments[1], <<LINE_END>>), Tail(segments))

=============================================================================
