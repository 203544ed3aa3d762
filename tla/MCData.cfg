\* Timers: three over two addresses, so that one address is used again; delays that
\* round down to 1 and 2 in epoll_wait's argument; two closures in flight.
\* Ring: four cells, calls of up to five bytes.  Texts of up to four octets, among
\* them a plus, a percent sign and a space.  Messages of up to 121 octets in pieces at
\* the edges of a block.  WebSocket: pieces of up to four octets, or all there is.
\* Two old log files of three bytes; eleven days with one day kept.  Sockets: two threads, two
\* addresses, four ticks.
SPECIFICATION DataSpec
CONSTANTS
    Slots = {s1, s2}
    Delays = {1000, 2000}
    Step = 1000
    MaxTime = 2000
    MaxTimers = 3
    MaxTasks = 2
    NoTimer = NoTimer
    byteA = byteA
    byteZ = byteZ
    Bytes <- RingBytes
    Capacity = 4
    MaxCall = 5
    Refused = Refused
    Alphabet = {43, 37, 65, 255, 32}
    MaxText = 4
    Components <- UriComponents
    PieceSizes = {0, 1, 8, 47, 64}
    MaxMessage = 121
    Wires <- FrameSequences
    Refusals <- RefusingCallbacks
    MaxPiece = 4
    LongPiece = 24
    Machine <- SomeAdapters
    MaxAdapters = 4
    Threads = {t1, t2}
    Hosts = {h1, h2}
    Expire = 1
    Slow = 1
    MaxTicks = 4
    KeptFiles = 2
    FileLimit = 3
    LineSizes = {1, 2}
    MaxLines = 6
    MaxRestarts = 2
    MaxRefusals = 2
    KeptDays = 1
    Calendar <- Year
    ChangeHour = 2
    Moments = {0, 22, 24}
SYMMETRY Symmetry
INVARIANTS
    HeapSound TimersOnTime FunctionsAgree DigestsRight FramesTold SocketsAccounted
    AddressesFresh LinesKept
PROPERTIES ImplementsFifo DaysKept
CHECK_DEADLOCK FALSE
