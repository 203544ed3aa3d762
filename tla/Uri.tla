--------------------------------- MODULE Uri ---------------------------------
(***************************************************************************)
(* src/util/uri-parse.cpp and UrlParse.cpp: a URI as a sequence of octets  *)
(* without a zero, checked character by character for the components it    *)
(* has, then cut into them; and getUriParams, which reads a path           *)
(* /type/id and the parameters of a query.                                 *)
(***************************************************************************)
EXTENDS Codecs

NULL == <<0>>       \* a missing component: no text holds a zero

AT == Octets("@")[1]
COLON == Octets(":")[1]
SLASH == Octets("/")[1]
OPENS == Octets("[")[1]
CLOSES == Octets("]")[1]
EQUALS == Octets("=")[1]
AMPERSAND == Octets("&")[1]
Ending == {SLASH, Octets("?")[1], Octets("#")[1]}

\* the bits of s_characters: the printable ones but " < > \ ^ ` { | }
UriCharacter(c) == c \in 33..126 \ {34, 60, 62, 92, 94, 96, 123, 124, 125}

-----------------------------------------------------------------------------
(* uri_check: `items' holds the components that are there, `code' is -1    *)
(* for an invalid URI and -2 for an assertion; `at' is the next character  *)
(* to look at.                                                             *)

Stop(r, code) == [r EXCEPT !.code = code, !.done = TRUE]
Go(r, state) == [r EXCEPT !.state = state, !.at = @ + 1]
Has(r, item) == [r EXCEPT !.items = @ \cup {item}]

InScheme(r, c) ==
    CASE c = COLON -> Go(r, "authority")
      [] c = AT -> Go(Has(r, "userinfo"), "host")
      [] c \in Ending -> Stop(r, 0)
      [] OTHER -> Go(r, "scheme")

AtStart(r, c) ==
    CASE c = SLASH -> Stop(r, 0)
      [] c = OPENS -> Go(Has(r, "host"), "ipv6")
      [] OTHER -> InScheme(Has(r, "host"), c)

AfterColon(r, s) ==
    IF s[r.at] # SLASH THEN Go(Has(r, "port"), "port")
    ELSE IF r.at < Len(s) /\ s[r.at + 1] = SLASH
    THEN [Go(Has(r, "scheme"), "host") EXCEPT !.at = r.at + 2]
    ELSE Stop(Has(r, "port"), 0)

InHost(r, c) ==
    CASE c = CLOSES -> Stop(r, -2)
      [] c = AT -> Go(Has(r, "userinfo"), "host")
      [] c = OPENS -> Go(r, "ipv6")
      [] c = COLON -> Go(Has(r, "port"), "port")
      [] c \in Ending -> Stop(r, 0)
      [] OTHER -> Go(r, "host")

InPort(r, c) ==
    CASE c = AT -> Go(Has([r EXCEPT !.items = @ \ {"port"}], "userinfo"), "host")
      [] c \in {OPENS, CLOSES, COLON} -> Stop(r, -1)
      [] c \in Ending -> Stop(Has(r, "port"), 0)
      [] OTHER -> Go(r, "port")

InIpv6(r, c) ==
    CASE c = CLOSES -> Go(r, "host")
      [] c \in Ending \cup {AT, OPENS} -> Stop(r, -1)
      [] OTHER -> Go(r, "ipv6")

UriCheck(s) ==
    LET look[r \in [state : STRING, at : Nat, items : SUBSET STRING, code : Int, done : BOOLEAN]] ==
            LET c == s[r.at]
            IN  IF r.done \/ r.at > Len(s) THEN r
                ELSE look[CASE ~UriCharacter(c) -> Stop(r, -1)
                            [] UriCharacter(c) /\ r.state = "start" -> AtStart(r, c)
                            [] UriCharacter(c) /\ r.state = "scheme" -> InScheme(r, c)
                            [] UriCharacter(c) /\ r.state = "authority" -> AfterColon(r, s)
                            [] UriCharacter(c) /\ r.state = "host" -> InHost(r, c)
                            [] UriCharacter(c) /\ r.state = "port" -> InPort(r, c)
                            [] UriCharacter(c) /\ r.state = "ipv6" -> InIpv6(r, c)]
    IN  look[[state |-> "start", at |-> 1, items |-> {}, code |-> 0, done |-> FALSE]]

-----------------------------------------------------------------------------
(* uri_parse                                                               *)

\* what of s comes before the first of some characters, and what is left after
\* n of them
UpTo(s, stops) ==
    LET at == SelectInSeq(s, LAMBDA c : c \in stops) IN IF at = 0 THEN s ELSE SubSeq(s, 1, at - 1)
After(s, n) == SubSeq(s, n + 1, Len(s))
Starts(s, c) == s # <<>> /\ s[1] = c
Decimal(digits) == FoldLeft(LAMBDA n, d : 10 * n + d - 48, 0, digits)

Ended(rest) == rest = <<>> \/ rest[1] \in Ending \cup {COLON}

\* One component after another leaves p.rest; p.items says which there are.
TakeScheme(p) ==
    LET cut == UpTo(p.rest, {COLON})
    IN  IF "scheme" \in p.items
        THEN [p EXCEPT !.scheme = cut, !.rest = After(@, Len(cut) + 3)] ELSE p

TakeUserinfo(p) ==
    LET cut == UpTo(p.rest, {AT})
    IN  IF "userinfo" \in p.items
        THEN [p EXCEPT !.userinfo = cut, !.rest = After(@, Len(cut) + 1)] ELSE p

HostTaken(p, ipv6, host, rest) ==
    [p EXCEPT !.host = host, !.rest = rest, !.code = IF ipv6 /\ ~Ended(rest) THEN -1 ELSE 0]

TakeHost(p) ==
    LET bare == UpTo(p.rest, Ending \cup {COLON})
        bracketed == UpTo(Tail(p.rest), {CLOSES})
    IN  IF "host" \notin p.items THEN p
        ELSE IF p.rest = <<>> THEN [p EXCEPT !.code = -2]
        ELSE IF p.rest[1] = OPENS
        THEN HostTaken(p, TRUE, bracketed, After(p.rest, Len(bracketed) + 2))
        ELSE HostTaken(p, FALSE, bare, After(p.rest, Len(bare)))

PortTaken(p, digits, rest) ==
    [p EXCEPT !.port = Decimal(digits), !.rest = rest, !.code = IF Ended(rest) THEN 0 ELSE -1]

TakePort(p) ==
    LET digits == UpTo(After(p.rest, 1), (0..255) \ (48..57))
    IN  IF p.code # 0 \/ "port" \notin p.items THEN p
        ELSE PortTaken(p, digits, After(p.rest, 1 + Len(digits)))

TakePath(p) ==
    LET cut == UpTo(p.rest, Ending \ {SLASH})
    IN  IF Starts(p.rest, SLASH) THEN [p EXCEPT !.path = cut, !.rest = After(@, Len(cut))]
        ELSE [p EXCEPT !.path = <<SLASH>>]

TakeQuery(p) ==
    LET cut == UpTo(Tail(p.rest), {35})
    IN  IF Starts(p.rest, 63) THEN [p EXCEPT !.query = cut, !.rest = After(@, Len(cut) + 1)]
        ELSE p

TakeFragment(p) ==
    IF Starts(p.rest, 35) THEN [p EXCEPT !.fragment = Tail(p.rest)] ELSE p

\* by the components that uri_check has found
ParseChecked(s, checked) ==
    LET front == TakePort(TakeHost(TakeUserinfo(TakeScheme(
            [rest |-> s, items |-> checked.items, code |-> 0, scheme |-> NULL, userinfo |-> NULL,
             host |-> NULL, port |-> 0, path |-> NULL, query |-> NULL, fragment |-> NULL]))))
    IN  IF checked.code # 0 THEN checked
        ELSE IF front.code # 0 THEN front
        ELSE TakeFragment(TakeQuery(TakePath(front)))

\* nothing else of the answer counts when its code is not 0
UriParse(s) == IF s = <<>> THEN [code |-> -1] ELSE ParseChecked(s, UriCheck(s))

-----------------------------------------------------------------------------
(* getUriParams                                                            *)

\* mutant of KeepFirst: a key that comes again gets its last value
KeepFirstLast(found, key, value) ==
    Append(SelectSeq(found, LAMBDA pair : pair[1] # key), <<key, value>>)

\* params.emplace: a key that comes again keeps its first value
KeepFirst(found, key, value) ==
    IF \E i \in DOMAIN found : found[i][1] = key THEN found ELSE Append(found, <<key, value>>)

\* key=value pairs between &; a last piece without = is dropped, another one is taken
\* for the beginning of the next key
PairsIn[s \in Seq(Nat), found \in Seq(Seq(Seq(Nat)))] ==
    LET key == UpTo(s, {EQUALS})
        value == UpTo(After(s, Len(key) + 1), {AMPERSAND})
        rest == After(s, Len(key) + Len(value) + 2)
        more == KeepFirst(found, key, value)
    IN  IF key = s THEN found
        ELSE IF Len(key) + Len(value) + 1 = Len(s) THEN more
        ELSE PairsIn[rest, more]

ParamsOf(inner, type, asked, pairs) ==
    [ok |-> TRUE, streamType |-> type, id |-> After(inner, Len(type) + 1),
     subPath |-> After(asked, Len(pairs) + 1), params |-> PairsIn[pairs, <<>>]]

\* by what is after the first character of the path and of the query
ParamsIn(inner, asked) ==
    IF ~Contains(inner, SLASH) THEN [ok |-> FALSE]
    ELSE ParamsOf(inner, UpTo(inner, {SLASH}), asked, UpTo(asked, {SLASH}))

Without(s, c) == IF Starts(s, c) THEN Tail(s) ELSE s

ParamsOfUri(parsed) ==
    IF parsed.code # 0 \/ parsed.query = NULL THEN [ok |-> FALSE]
    ELSE ParamsIn(Without(UrlDecode(parsed.path, 256).text, SLASH), Without(parsed.query, 63))

\* `params' in the order of the query
GetUriParams(s) == ParamsOfUri(UriParse(s))

-----------------------------------------------------------------------------
(* The environment writes a URI component by component.                    *)

CONSTANTS
    Components         \* the texts a component may be, by its name

VARIABLE uri           \* what was chosen for each component so far

Order == <<"scheme", "userinfo", "host", "port", "path", "query", "fragment">>
Chosen == DOMAIN uri

UriInit == uri = [c \in {} |-> NULL]

\* A scheme, user information and a port come with a host only, and a password is
\* not left out of "name:" without a scheme (the check takes that for a port).
UriNext ==
    /\ Cardinality(Chosen) < Len(Order)
    /\ LET c == Order[Cardinality(Chosen) + 1]
       IN  \E t \in Components[c] \cup {NULL} :
             /\ c = "host" /\ t = NULL => uri["scheme"] = NULL /\ uri["userinfo"] = NULL
             /\ c = "port" /\ t # NULL => uri["host"] # NULL
             /\ c = "path" /\ t = NULL => uri["host"] # NULL
             /\ uri' = [x \in Chosen \cup {c} |-> IF x = c THEN t ELSE uri[x]]

UriSpec == UriInit /\ [][UriNext]_uri

UriText(u) ==
    LET part(c, before, after) == IF u[c] = NULL THEN <<>> ELSE Octets(before) \o u[c] \o Octets(after)
        ipv6 == Contains(u["host"], COLON)
    IN  part("scheme", "", "://") \o part("userinfo", "", "@")
        \o part("host", IF ipv6 THEN "[" ELSE "", IF ipv6 THEN "]" ELSE "") \o part("port", ":", "")
        \o part("path", "", "") \o part("query", "?", "") \o part("fragment", "#", "")

Whole == Cardinality(Chosen) = Len(Order)

\* Whatever components a URI is made of, uri_parse gives them back: no character of
\* one of them (a colon in user information or in an address, a slash or a question
\* mark in a query or a fragment) is taken for the beginning of another.
ComponentsParsed ==
    Whole =>
        LET parsed == UriParse(UriText(uri))
        IN  /\ parsed.code = 0
            /\ \A c \in Chosen \ {"port", "path"} : parsed[c] = uri[c]
            /\ parsed.port = IF uri["port"] = NULL THEN 0 ELSE Decimal(uri["port"])
            /\ parsed.path = IF uri["path"] = NULL THEN <<SLASH>> ELSE uri["path"]

\* the pairs of a query for a key that comes for the first time
FirstPairs(pieces) ==
    LET key(i) == UpTo(pieces[i], {EQUALS})
        firsts == {i \in DOMAIN pieces : Contains(pieces[i], EQUALS) /\ \A j \in 1..(i - 1) : key(j) # key(i)}
    IN  {<<key(i), After(pieces[i], Len(key(i)) + 1)>> : i \in firsts}

\* parts: the query, cut at its slashes; pieces: its first part, cut at each &
Known(found, path, parts, pieces) ==
    /\ found.ok = (Cardinality({i \in DOMAIN path : path[i] = SLASH}) > 1)
    /\ found.ok =>
         /\ path = <<SLASH>> \o found.streamType \o <<SLASH>> \o found.id
         /\ Range(found.params) = FirstPairs(pieces) /\ IsInjective(found.params)
         /\ Len(parts) > 1 => parts[2] = UpTo(found.subPath, {SLASH})

\* getUriParams finds the type and the identifier in the path, exactly the keys of the
\* query, each with the first of its values, and the path that follows the parameters;
\* a last piece without a value is left out.
ParametersFound ==
    Whole /\ uri["query"] # NULL =>
        LET parts == SplitText(uri["query"], <<SLASH>>)
        IN  Known(GetUriParams(UriText(uri)), UrlDecode(UriParse(UriText(uri)).path, 256).text,
                  parts, SplitText(Without(parts[1], 63), <<AMPERSAND>>))

=============================================================================
