------------------------------- MODULE MCData -------------------------------
(***************************************************************************)
(* The timers, ring buffer, codings, parsers, log files and functions that *)
(* make sockets, in one run: they share no state, and `part' says which of *)
(* them runs while the others stay in an initial state.                    *)
(***************************************************************************)
EXTENDS TimerManager, RingBuffer, Uri, Sha1, WsParser, Adapters, Sockets, LogFiles,
        DailyLog, HPackHuffman, TLC

CONSTANTS byteA, byteZ     \* bytes of the ring

VARIABLE part

Parts == {"timers", "ring", "codecs", "uri", "sha1", "websocket", "adapters",
          "sockets", "rotate", "daily"}

allVars == <<part, timerVars, ringVars, text, uri, sha1Vars, wsVars, adapters, netVars,
             rotateVars, dailyVars>>

-----------------------------------------------------------------------------
(* Inputs.                                                                 *)

RingBytes == {byteA, byteZ}

\* a URI may have or lack each component
UriComponents ==
    [scheme |-> {Octets("http")}, userinfo |-> {Octets("usr"), Octets("usr:pwd")},
     host |-> {Octets("host"), Octets("1::2")}, port |-> {Octets("80")},
     path |-> {Octets("/"), Octets("/live/%41+c"), Octets("/a:b@c/d/e")},
     query |-> {Octets("k=v"), Octets("k=1&k=2&j=a:b@c/sub"), Octets("?a=/b?"), Octets("x"),
               Octets("=v&k=&k=w&x")},
     fragment |-> {Octets("f/?:@")}]

\* frames of the three forms of the length
Frame(fin, opcode, masked, payload) ==
    [fin |-> fin, opcode |-> opcode, masked |-> masked, payload |-> payload,
     reserved |-> 0, form |-> IF Len(payload) < 126 THEN 7 ELSE 16]

Six == <<1, 2, 3, 4, 5, 255>>

\* a text, a ping and an empty message; a message of three frames with a pong among
\* them; a continuation after the end of a message in fragments, and after one of a
\* single frame; a long one; and the ways of being wrong, one by one
FrameSequences ==
    {<<Frame(TRUE, 1, TRUE, Six), Frame(TRUE, 9, FALSE, <<7>>), Frame(TRUE, 2, FALSE, <<>>)>>,
     <<Frame(FALSE, 1, TRUE, <<1, 2>>), Frame(TRUE, 10, TRUE, <<>>),
       Frame(FALSE, 0, FALSE, <<3>>), Frame(TRUE, 0, TRUE, Six)>>,
     <<Frame(FALSE, 1, TRUE, <<1>>), Frame(TRUE, 0, FALSE, <<2>>), Frame(TRUE, 0, FALSE, <<3>>),
       Frame(TRUE, 2, FALSE, <<4>>), Frame(FALSE, 0, FALSE, <<5>>)>>,
     <<Frame(TRUE, 2, TRUE, [i \in 1..126 |-> i])>>,
     <<[Frame(TRUE, 1, TRUE, <<1>>) EXCEPT !.reserved = 2]>>,
     <<Frame(TRUE, 1, FALSE, <<>>), Frame(TRUE, 0, FALSE, <<1>>)>>,
     <<[Frame(TRUE, 2, FALSE, Six) EXCEPT !.form = 64]>>,
     <<[Frame(TRUE, 2, FALSE, Six) EXCEPT !.form = 16]>>,
     <<[Frame(TRUE, 8, FALSE, Six) EXCEPT !.form = 16]>>,
     <<Frame(FALSE, 8, FALSE, Six)>>, <<Frame(TRUE, 3, FALSE, Six)>>}

RefusingCallbacks == {{}, {"on_data_payload"}, {"on_control_begin", "on_data_end"}}

\* a loopback, three adapters of local networks and one that is not
SomeAdapters ==
    {[name |-> "lo", ip |-> <<127, 0, 0, 1>>, mask |-> <<255, 0, 0, 0>>],
     [name |-> "en0", ip |-> <<10, 0, 0, 5>>, mask |-> <<255, 0, 0, 0>>],
     [name |-> "eth1", ip |-> <<192, 168, 1, 7>>, mask |-> <<255, 255, 255, 0>>],
     [name |-> "eth2", ip |-> <<172, 31, 0, 9>>, mask |-> <<255, 255, 0, 0>>],
     [name |-> "tun", ip |-> <<172, 32, 0, 9>>, mask |-> <<255, 255, 255, 255>>]}

\* eleven days, the clock put forward on the second and back on the seventh
Year == <<24, 23, 24, 24, 24, 24, 25, 24, 24, 24, 24>>

-----------------------------------------------------------------------------
\* heap addresses are alike, and so are threads
Symmetry == Permutations(Slots) \cup Permutations(Threads)

DataInit ==
    /\ part \in Parts
    /\ TimersInit
    /\ RingInit /\ (part # "ring" => mem = [c \in Cells |-> byteZ])
    /\ CodecsInit /\ UriInit /\ Sha1Init
    /\ WebSocketInit
    /\ part # "websocket" =>
         refused = {} /\ frames = <<Frame(TRUE, 1, TRUE, Six), Frame(TRUE, 9, FALSE, <<7>>),
                                    Frame(TRUE, 2, FALSE, <<>>)>>
    /\ AdaptersInit /\ NetInit /\ RotateInit /\ DailyInit
    /\ part # "sockets" => resolves = <<CHOOSE h \in Hosts : TRUE>>

TimersPart ==
    /\ part = "timers" /\ TimersNext
    /\ UNCHANGED <<part, ringVars, text, uri, sha1Vars, wsVars, adapters, netVars, rotateVars,
                   dailyVars>>
RingPart ==
    /\ part = "ring" /\ RingNext
    /\ UNCHANGED <<part, timerVars, text, uri, sha1Vars, wsVars, adapters, netVars, rotateVars,
                   dailyVars>>
CodecsPart ==
    /\ part = "codecs" /\ CodecsNext
    /\ UNCHANGED <<part, timerVars, ringVars, uri, sha1Vars, wsVars, adapters, netVars,
                   rotateVars, dailyVars>>
UriPart ==
    /\ part = "uri" /\ UriNext
    /\ UNCHANGED <<part, timerVars, ringVars, text, sha1Vars, wsVars, adapters, netVars,
                   rotateVars, dailyVars>>
Sha1Part ==
    /\ part = "sha1" /\ Sha1Next
    /\ UNCHANGED <<part, timerVars, ringVars, text, uri, wsVars, adapters, netVars, rotateVars,
                   dailyVars>>
WebSocketPart ==
    /\ part = "websocket" /\ WebSocketNext
    /\ UNCHANGED <<part, timerVars, ringVars, text, uri, sha1Vars, adapters, netVars, rotateVars,
                   dailyVars>>
AdaptersPart ==
    /\ part = "adapters" /\ AdaptersNext
    /\ UNCHANGED <<part, timerVars, ringVars, text, uri, sha1Vars, wsVars, netVars, rotateVars,
                   dailyVars>>
SocketsPart ==
    /\ part = "sockets" /\ NetNext
    /\ UNCHANGED <<part, timerVars, ringVars, text, uri, sha1Vars, wsVars, adapters, rotateVars,
                   dailyVars>>
RotatePart ==
    /\ part = "rotate" /\ RotateNext
    /\ UNCHANGED <<part, timerVars, ringVars, text, uri, sha1Vars, wsVars, adapters, netVars,
                   dailyVars>>
DailyPart ==
    /\ part = "daily" /\ DailyNext
    /\ UNCHANGED <<part, timerVars, ringVars, text, uri, sha1Vars, wsVars, adapters, netVars,
                   rotateVars>>

DataNext ==
    \/ TimersPart \/ RingPart \/ CodecsPart \/ UriPart \/ Sha1Part
    \/ WebSocketPart \/ AdaptersPart \/ SocketsPart \/ RotatePart \/ DailyPart

DataSpec == DataInit /\ [][DataNext]_allVars

-----------------------------------------------------------------------------
\* What huffEncode makes of a text has the length that huffEncodeLength says, and
\* huffDecode gives the text back; an octet more of padding is refused.
HuffmanInverse ==
    LET coded == HuffEncode(text)
        decoded == HuffDecode(coded)
    IN  /\ Len(coded) = HuffEncodeLength(text)
        /\ text # <<>> => decoded.ok /\ decoded.text = text
        /\ ~HuffDecode(Append(coded, 255)).ok

\* The functions on texts and addresses do what their names say: what one makes the
\* other takes apart, whatever the text, and the adapters are found among the others.
FunctionsAgree ==
    /\ part = "codecs" => HuffmanInverse /\ Base64Inverse /\ UrlInverse /\ HexInverse /\ SplitKeeps
    /\ part = "uri" => ComponentsParsed /\ ParametersFound
    /\ part = "adapters" => AdaptersFound

=============================================================================
