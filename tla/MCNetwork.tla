----------------------------- MODULE MCNetwork ------------------------------
(***************************************************************************)
(* The protocols, the owners of connections, Buffers and addresses, in one *)
(* run: HPACK, HTTP/2, HTTP/1, TLS, servers, clients, Buffer and           *)
(* INetAddress.  They share no state here: `part' says which of them runs  *)
(* while the others stay in an initial state.                              *)
(***************************************************************************)
EXTENDS Http2Session, HttpExchange, SSLWrapper, Servers, TcpClient, Buffer, NetBuffer,
        Addresses, TLC

CONSTANTS byteA, byteZ     \* bytes of a Buffer

VARIABLE part

Parts == {"hpack", "http2", "http", "tls", "servers", "client", "buffer", "netbuffer",
          "addresses"}

allVars == <<part, hpackVars, h2Vars, httpVars, tlsVars, serverVars, tcpClientVars,
             bufferVars, netBufferVars, addressVars>>

-----------------------------------------------------------------------------
(* HPACK: headers whose names and values run into each other, and one that *)
(* the static table has; names that the policy indexes; limits that evict. *)

ShortHeaders ==
    {<< <<"cookie", "x">> >>, << <<"coo", "kiex">> >>,
     << <<"accept-charset", "x">>, <<"cookie", "yy">> >>}

ClientBlocks == [client |-> 3, server |-> 0]

-----------------------------------------------------------------------------
(* HTTP/2: frames on two streams, and others that come at any time.        *)

HeadersWith(flags, block) == [EmptyFrame("HEADERS") EXCEPT !.flags = flags, !.data = block]
ContinuationWith(flags, block) == [EmptyFrame("CONTINUATION") EXCEPT !.flags = flags, !.data = block]
DataWith(flags, data) == [EmptyFrame("DATA") EXCEPT !.flags = flags, !.data = data]
SettingsWith(params) == [EmptyFrame("SETTINGS") EXCEPT !.params = params]

\* a request in one frame; in three; with a body; 130 and 131 are :method's entries
ShortRequest == <<HeadersWith(5, <<130>>)>>
SplitRequest == <<HeadersWith(1, <<130, 0, 1>>), ContinuationWith(0, <<97>>),
                  ContinuationWith(4, <<1, 98>>)>>
Upload == <<HeadersWith(36, <<131>>), DataWith(0, <<7>>), DataWith(1, <<9>>)>>

Ping == [EmptyFrame("PING") EXCEPT !.data = <<1, 2, 3, 4, 5, 6, 7, 8>>]
ResetThird == [EmptyFrame("RST_STREAM") EXCEPT !.stream = 3, !.number = 8]
WindowOfFirst == [EmptyFrame("WINDOW_UPDATE") EXCEPT !.stream = 1, !.number = 5]

ClientPlans ==
    {[todo |-> 1 :> SplitRequest @@ 3 :> Upload,
      controls |-> {SettingsWith(<< <<1, 40>>, <<4, 70>>, <<5, 4>> >>)}],
     [todo |-> 1 :> ShortRequest @@ 3 :> Upload, controls |-> {SettingsWith(<<>>), ResetThird}],
     [todo |-> 1 :> Upload, controls |-> {SettingsWith(<<>>), Ping, WindowOfFirst}],
     [todo |-> 1 :> ShortRequest,
      controls |-> {SettingsWith(<< <<4, 71>> >>), SettingsWith(<< <<2, 7>> >>), Ping}]}

IdlePlan == CHOOSE plan \in ClientPlans : TRUE

AnsweredAtOnce(request) == request.body = <<>>
SomeCuts == {5, 11}
ShortBody == <<1, 2, 3>>

-----------------------------------------------------------------------------
(* HTTP/1                                                                  *)

Asking(method, resource, body, version, connection) ==
    [method |-> method, resource |-> resource, body |-> body, version |-> version,
     connection |-> connection]

SomeAsks ==
    {Asking("GET", <<"/a", "?", "x", "=", "%22", "1", "%22", "&", "y", "=", "2", "&",
                     "x", "=", "3">>, <<>>, "HTTP/1.1", "keep-alive"),
     Asking("POST", <<"/", "%3F", "b">>, <<"text">>, "HTTP/1.1", "keep-alive"),
     Asking("OPTIONS", <<"/">>, <<>>, "HTTP/1.1", "close"),
     Asking("GET", <<"/">>, <<>>, "HTTP/1.0", "keep-alive")}

Respond(code, body) == [call |-> "response", code |-> code, body |-> body]
WriteBody(body) == [call |-> "writeFile", body |-> body]

SomeReplies ==
    {<<Respond(200, <<"some", "body">>)>>, <<Respond(404, <<>>)>>,
     <<[call |-> "responseFile", code |-> 200, body |-> <<"file">>]>>,
     <<[call |-> "beginFile"], WriteBody(<<"one", LINE_END>>), WriteBody(<<"two">>),
       [call |-> "endFile"]>>,
     <<[call |-> "stop"]>>}

-----------------------------------------------------------------------------
SomePlaintexts ==
    [r \in {"client", "server"} |-> IF r = "client" THEN <<"a", "b", "c">> ELSE <<"x", "y", "z">>]

(* Buffers and addresses.                                                  *)

BufferBytes == {byteA, byteZ}

\* fields of all widths, with octets that end lines inside them; empty lines and lines
\* that hold a carriage return
SomeMessages ==
    {<< <<Integer(<<1, 0, 0, 0, 0, 0, 0, 128>>), Line(<<97, 13, 98>>), Integer(<<255>>)>>,
        <<Line(<<>>), Integer(<<10, 13>>), Integer(<<4, 3, 2, 1>>)>> >>,
     << <<Integer(<<255, 255, 255, 255>>), Line(<<13>>), Line(<<99>>)>> >>}
NoMessages == <<>>
Lists == SomeMessages \cup {NoMessages}

\* one address is the other backwards
SomeIps4 == {<<10, 0, 0, 1>>, <<1, 0, 0, 10>>}
SomeIps6 == {[i \in 1..16 |-> i]}
SomeNames == {<<"host", <<10, 0, 0, 1>>>>, <<"nowhere", <<>>>>}

-----------------------------------------------------------------------------
TwoThreads == <<"t1", "t2">>

-----------------------------------------------------------------------------
NetworkInit ==
    /\ part \in Parts
    /\ HpackInit
    /\ Http2Init
    /\ part # "http2" => ~session.flushed /\ [todo |-> todo, controls |-> controls] = IdlePlan
    /\ HttpInit /\ (part # "http" => client = "other")
    /\ TlsInit
    /\ ServersInit /\ (part # "servers" => kind = "tcp")
    /\ ClientInit
    /\ BufferInit
    /\ NetBufferInit /\ (part # "netbuffer" => messages = <<>>)
    /\ AddressesInit

HpackPart ==
    /\ part = "hpack" /\ HpackNext
    /\ UNCHANGED <<part, h2Vars, httpVars, tlsVars, serverVars, tcpClientVars, bufferVars,
                   netBufferVars, addressVars>>
Http2Part ==
    /\ part = "http2" /\ Http2Next
    /\ UNCHANGED <<part, hpackVars, httpVars, tlsVars, serverVars, tcpClientVars, bufferVars,
                   netBufferVars, addressVars>>
HttpPart ==
    /\ part = "http" /\ HttpNext
    /\ UNCHANGED <<part, hpackVars, h2Vars, tlsVars, serverVars, tcpClientVars, bufferVars,
                   netBufferVars, addressVars>>
TlsPart ==
    /\ part = "tls" /\ TlsNext
    /\ UNCHANGED <<part, hpackVars, h2Vars, httpVars, serverVars, tcpClientVars, bufferVars,
                   netBufferVars, addressVars>>
ServersPart ==
    /\ part = "servers" /\ ServersNext
    /\ UNCHANGED <<part, hpackVars, h2Vars, httpVars, tlsVars, tcpClientVars, bufferVars,
                   netBufferVars, addressVars>>
ClientPart ==
    /\ part = "client" /\ ClientNext
    /\ UNCHANGED <<part, hpackVars, h2Vars, httpVars, tlsVars, serverVars, bufferVars,
                   netBufferVars, addressVars>>
BufferPart ==
    /\ part = "buffer" /\ BufferNext
    /\ UNCHANGED <<part, hpackVars, h2Vars, httpVars, tlsVars, serverVars, tcpClientVars,
                   netBufferVars, addressVars>>
NetBufferPart ==
    /\ part = "netbuffer" /\ NetBufferNext
    /\ UNCHANGED <<part, hpackVars, h2Vars, httpVars, tlsVars, serverVars, tcpClientVars,
                   bufferVars, addressVars>>
AddressesPart ==
    /\ part = "addresses" /\ AddressesNext
    /\ UNCHANGED <<part, hpackVars, h2Vars, httpVars, tlsVars, serverVars, tcpClientVars,
                   bufferVars, netBufferVars>>

NetworkNext ==
    \/ HpackPart \/ Http2Part \/ HttpPart \/ TlsPart \/ ServersPart \/ ClientPart
    \/ BufferPart \/ NetBufferPart \/ AddressesPart

NetworkSpec == NetworkInit /\ [][NetworkNext]_allVars

=============================================================================
