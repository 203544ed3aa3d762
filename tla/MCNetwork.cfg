\* HPACK: three blocks from the client, a table of a hundred octets: two entries of
\* these headers, and limits that hold five, one and none.  HTTP/2: frames of up to
\* two octets, at most sixteen octets under way, read whole or cut after the fifth
\* or the eleventh.  HTTP/1: two requests.  Servers: two threads, two peers, two
\* descriptors for three connections.  Clients: three attempts.  Buffer: a reserve
\* of one and two more cells, growing to four.
SPECIFICATION NetworkSpec
CONSTANTS
    InitialLimit = 100
    HeaderLists <- ShortHeaders
    IndexedNames = {"cookie", "coo"}
    TableSizes = {0, 40, 200}
    MaxBlocks <- ClientBlocks
    Plans <- ClientPlans
    MaxWire = 16
    Cuts <- SomeCuts
    AtOnce <- AnsweredAtOnce
    DefaultFrameSize = 2
    MaxFrameSize = 4
    MaxWindowSize = 70
    ResponseBody <- ShortBody
    Asks <- SomeAsks
    Replies <- SomeReplies
    Reads = {}
    MaxAsked = 2
    MaxTimers = 4
    Plaintexts <- SomePlaintexts
    MaxReads = 3
    Pool <- TwoThreads
    Main = "t1"
    Fds = {6, 7}
    ListenFd = 5
    Peers = {"p", "q"}
    MaxConns = 3
    MaxArrivals = 3
    IdleDestroys = FALSE
    MaxAttempts = 3
    byteA = byteA
    byteZ = byteZ
    Byte <- BufferBytes
    Zero = byteZ
    CheapPrepend = 1
    InitialSize = 2
    ExtraSize = 2
    MaxLen = 2
    MaxSize = 4
    MessageLists <- Lists
    NetPieces = {1, 2, 5, 17}
    FirstSize = 4
    MaxVector = 64
    Ips4 <- SomeIps4
    Ips6 <- SomeIps6
    Names <- SomeNames
    Ports = {80, 20480, 65616}
INVARIANTS
    HeadersArrive TablesSound RequestsArrive StreamsAnswered ExchangesWhole
    OneCloseTimer PlaintextFlows SessionsSound DescriptorsSound AttemptsEnd
    RoomAsPromised FieldsReadBack AddressesAgree
PROPERTY ImplementsByteQueue
CHECK_DEADLOCK FALSE
