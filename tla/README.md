# DLNetwork in TLA+

DLNetwork is a C++ network library for one-loop-per-thread programs: an `epoll` loop per thread
with a task queue and timers, buffered connections on top of it, servers and sessions on top of
those, and HTTP, HTTP/2 and WebSocket at the end.  This directory holds TLA+ modules of its core,
TLC configurations that check them on small instances, and TLAPS proofs about them for every value
of their constants.

All paths below are relative to `src/`.  A definition has the name of the code it stands for where
TLA+ allows it; `PROJECT.json` gives the source lines of each one (`map`), the hazards the
properties are for (`hazards`), the runs, the theorems, and for each property of a run a mutant of
the model that breaks it.

## 1. The system

| part | files | state it keeps | operations | status |
|---|---|---|---|---|
| event thread: task queue, pipe, loop | `network/EventThread.*`, `network/PipeWrap.*` | `_taskQueue` (mutex), the wake-up pipe, `_threadCancel` | `dispatch`, `onPipeEvent`, `loopOnce`, destructor | modelled, proved |
| timers | `util/TimerManager.h`, `EventThread.cpp` | `_queue` of raw `Timer*`, `_strongTask` | `addTimer`, `delTimer`, `delay`, `processAllTimeout` | modelled, proved |
| event map | `network/EventThread.cpp` | `_event_map`, epoll's own set | `addEvent`, `modifyEvent`, `removeEvents`, a batch | inside `Connection`, `Servers`, `TcpClient` |
| work queues | `util/DispatchQueue.*`, `util/LoopQueue.h` | a queue (mutex), `_stop` | `dispatch`, `start`, `stop`, `runOnce` | modelled, order proved |
| ring buffer | `util/RingBuffer.*` | three pointers, `_validLen` | `write`, `read`, `peek`, `consume`, `firstSegment` | modelled, proved |
| byte buffer | `network/Buffer.*` | two indexes, a vector | `append`, `retrieve`, `prepend`, `shrink`, `makeSpace`, `readFd`; integers, searches | modelled, proved |
| connection | `network/Connection.*` | `_writeBuf` (mutex), `_eventType`, `_closing`, callbacks | `attach`, `startConnect`, `write`, `closeAfterWrite`, `close`, `reset`, `onEvent` | plain TCP modelled, order of bytes proved |
| asynchronous socket | `network/AsyncSocket.*` | ring buffer (mutex), `_eventType` | `send`, `flushBuf`, `enable...Notify`, `onEvent` | all but destruction and the blocking send |
| servers, sessions, pool | `network/{Server,TcpServer,UdpServer,Session,EventThread}.*` | `_conn_session`, one timer per pool thread | `start`, `onEvent`, `onConnectionChange`, `onManager`, `destroy` | modelled but for a restart and destruction elsewhere |
| TCP client | `network/TcpClient.*` | `_state`, `_sock`, `_conn` | `startConnect`, `close`, the handlers | modelled but for early writes and calls on two threads at once |
| TLS | `network/SSLWrapper.*` | two BIOs, handshake state, what waits for it | `onRecvEncrypted`, `sendUnencrypted`, `startHandshake` | modelled over an engine that never fails, proved |
| HTTP/1 | `network/HttpSession.*`, `network/MyHttp{Session,Client}.*` | a request, a close timer, a file being sent | `onMessage`, `response`, `beginFile`, `writeFile`, `endFile`, `stop` | modelled, the close timer proved |
| HTTP/2 | `network/MyHttp2{Session,Stream}.*`, `network/H2Frame.*` | streams, the header buffer, settings | the coding of a frame, a handler per type | modelled but for the idle timer |
| HPACK | `network/HPackTable.*`, `network/HPacker.*`, `network/hpack_huffman_table.h` | dynamic table, index, limit | `addHeader`, `evict`, `setMaxSize`, `encode`, `decode` | modelled |
| WebSocket parser | `network/ws_parser.*` | place in the frame | `ws_parser_execute` | modelled |
| sockets | `network/sockutil.*`, `util/SelfIp.*` | the cache of names (mutex) | `connect`, `listen`, `bindUdpSock`, ..., the adapters | modelled but for options, proved |
| addresses | `network/INetAddress.*` | a `sockaddr`, a description made on demand | constructors, `description`, `==` | modelled, proved |
| log files | `util/RotateFileLog.h`, `util/DailyFileLog.h` | a file, its size or day | `write`, `rotate` | modelled, proved |
| texts | `util/{base64,urlcodec,byteUtils,StringUtil,uri-parse,UrlParse,sha1}.*` | none; a digest under way | the functions | modelled |
| datagram clients, socket wrappers, log front end, time, wepoll, demos | the rest | none of interest | thin owners, system calls, formatting | not modelled |

**How they interact.**  A thread of the `EventThreadPool` owns an `EventThread`; everything on a
connection is meant to happen there.  Other threads reach it by `dispatch`, which queues a closure
and writes a byte to the pipe: `addEvent`, `modifyEvent`, `removeEvents`, `addTimer` and
`delTimer` all check the thread and dispatch themselves when it is not the loop's.  The exception
is `Connection::write` (and `AsyncSocket::send`): any thread puts bytes into the buffer under a
mutex, and changes `_eventType`, which has no mutex.  The loop calls back: `onEvent` of a
connection calls the session's `onMessage`, `onWriteDone` and `onClosed`, which write to, close or
destroy what is calling them.

**What makes it hard.**

- *Interleaving.*  The queue, the write buffer and the ring buffer have mutexes; the pipe,
  `_eventType`, `_closing`, `_conn_session` of a server and the constructor of `EventThread` have
  not.
- *Reentrancy.*  User code runs in the middle of handlers and calls the operations whose handlers
  are running.
- *Staleness.*  Closures hold raw `Timer*` and descriptors; both are reused by the system.
- *Partial results.*  A send takes some of the bytes, a pipe is full, a socket is broken.
- *Boundaries.*  A ring buffer exactly full, a timeout of 0, a byte count that is the room.

**What makes each part correct.**  Event thread: every dispatched task runs, once, in order,
unless the loop is cancelled.  Timers: the queue holds live timers only and each once; none fires
early, and the loop does not sleep past one.  Ring buffer and Buffer: a bounded FIFO, and a queue
of bytes with the room that was asked for.  Connection and AsyncSocket: bytes leave in the order
in which they were accepted, none is forgotten while the peer is there, the owner hears of the end
once, and a closed descriptor is not used.  Servers: the map holds the sessions of open
connections, one for a peer; an open descriptor is watched by its own thread as itself.  Clients: an
open socket is one the client still knows of, or one it is still told the end of, and each attempt
ends once.  Protocols: what one end was given the other end
gets, whole, in order and once, wherever the network cuts it.  HPACK: both ends have the same
table.  Log files: each line is in one file, and the files are rotated in time.  Texts: what one
function makes the other takes apart.

## 2. The modules

| module | what it is |
|---|---|
| `TaskService` | abstract: what `dispatch` promises, in closures submitted and executed |
| `EventLoop` | the queue, the pipe and the loop that implement it |
| `Queues` | `DispatchQueue` and `LoopQueue` |
| `EventLoopProofs` | of both: no wake-up and no task is lost, the refinement; tasks begin in order |
| `TimerManager` | the timer queue with both ways to it |
| `BoundedFifo` | abstract: a bounded first-in first-out buffer of bytes |
| `RingBuffer` | the pointers and copies that implement it |
| `ByteQueue` | abstract: bytes put at either end, taken from the front, taken back from the end |
| `Buffer` | the indexes, the vector and its reserve that implement it |
| `BufferProofs` | the refinement, and that the indexes stay in bounds |
| `NetBuffer` | integers in network order and searches for line ends, from one `Buffer` to another |
| `Connection`, `ConnectionProofs` | one plain TCP connection, its loop, the threads that write, the peer; that bytes go in order, that the owner hears one goodbye, and what holds of `closeAfterWrite` and of a closed socket |
| `AsyncSocket`, `AsyncSocketProofs` | one socket, its ring buffer (`BoundedFifo`), its loop, the threads that send; that bytes go in order |
| `SSLWrapper` | two connections with TLS over a stream |
| `Servers` | `TcpServer` and `UdpServer`: sessions, descriptors and events over several threads |
| `TcpClient` | attempts to connect, what becomes of them, retries |
| `Sockets`, `Adapters`, `Addresses` | functions that open sockets, the choice of an adapter, `INetAddress` |
| `SocketsProofs` | of `Sockets`, `Addresses` and `TcpClient`: sockets and names, equal addresses, the end of attempts |
| `HPackHuffman`, `HPackTable`, `HPacker` | the Huffman code, the tables, header blocks between two ends |
| `H2Frame`, `Http2Session` | frames and their octets; sessions and streams |
| `HttpMessage`, `HttpExchange` | HTTP/1 messages and their text; a client and a session that exchange them |
| `ProtocolProofs` | of `SSLWrapper`, `HttpExchange`, `NetBuffer` and `HPackTable`: that plaintext flows, the one close timer, that fields are read back, that header tables are sound and in step |
| `WsParser` | the WebSocket parser, octet by octet |
| `LogFiles`, `DailyLog` | the log that rotates by size, and the one that rotates by day |
| `UtilProofs` | of `TimerManager`, `RingBuffer` and both logs: timers are kept and on time, the ring's refinement, lines and days are kept |
| `Ascii`, `Codecs`, `Uri`, `Sha1` | octets for characters; base64, URL, hexadecimal, splitting; URIs; the digest |
| `MCEventLoop`, `MCConnection`, `MCAsyncSocket`, `MCHttp` | what user code does, symmetry and inputs, for TLC |
| `MCData`, `MCNetwork` | the modules that TLC checks together |

The modules lean on each other through the abstractions: `RingBuffer` implements `BoundedFifo`,
which `AsyncSocket` instantiates; `EventLoop` implements `TaskService`, which is why
`TimerManager`, `Connection`, `AsyncSocket`, `Servers`, `TcpClient` and `Http2Session` have
closures that a loop runs first come, first served, and no pipe.  `NetBuffer` uses the operators
of `Buffer`, `HPacker` those of `HPackTable` and `HPackHuffman`, `Http2Session` those of `HPacker`
and `H2Frame`, `HttpExchange` those of `HttpMessage`.

### EventLoop

State: `taskQueue`, the local list `tmp` of `onPipeEvent`, bytes and state of the pipe, whether it
is polled, the events of this pass, where the constructor, the loop and each caller are.
`dispatch` is two steps, since the byte is written after the mutex is released: `Push` and `Wake`.
`onPipeEvent` is `DrainSome`, `DrainEmpty`, `DrainBroken`, `Reopen`, `RegisterPipe`, `SwapQueue`,
then `RunTask` and `TaskReturns` for each task; user code in timers, handlers and tasks dispatches
too, from the loop's own thread.  The constructor starts the thread before it has registered the
pipe: `MapPipe` and `RegisterPipe` are steps beside the running loop (the insertion in a map that
the loop reads at the same time is a data race in the code; the model takes it as atomic, and the
loop looks at the map only for descriptors epoll has reported).  The pipe may break `MaxFailures`
times.

### TimerManager

Timers are objects at addresses (`Slots`) that are used again when they are free, as `operator
delete` allows; a history variable `id` tells the objects at one address apart. `addTimer` and
`delTimer` act at once on the loop and dispatch a closure with the address elsewhere.  A pass
(`StartPass`, `PopDue`, then `Rearm` or `Expired` when the callback returns) leaves the loop open
to `addTimer` and `delTimer` between pop and return, as the code does. `PollTimeout` is the
argument of `epoll_wait`: the delay divided by 1000.  The millisecond delay is thereby cut to a
thousandth: the loop wakes early and often, never late.

The client is a lawful one: a timer has one owner, which asks for its deletion at most once and
while it is alive.  `MyHttpSession` does not always keep to it (hazards).

### RingBuffer

`valid`, `validTail` and `validLen` as in the code, offsets instead of pointers.  Offsets run from
0 to `Capacity`: a write that ends at the end of the array leaves the tail there. `Write`, `Read`
and `Peek` copy in one piece or in two; calls that are too long are refused or cut as the code
does it.

### Buffer

A `Buffer` is a record of its vector and two indexes, and `ensureWritableBytes`, `makeSpace` and
`append` are operators on such records, because `append`, `shrink` and `readFd` call them on
Buffers in the middle of a call, and `shrink` on another Buffer.  `readFd` is the Linux one:
`readv` fills the vector to its end and `ExtraSize` cells of `extrabuf` (65536 in the code); the
model lets it return any length up to that, 0 and an error being the length 0.  `promised` is a
history variable: what the last call undertook to leave room for.  A call that asks for more than
there is returns false and changes nothing.

### Connection

A server's or a client's connection (`ClientMode`).  Threads in `Callers` write in three steps
(`CallerPushes` under the mutex, `CallerSets`, `CallerModifies`), because `_eventType` is updated
and passed to `modifyEvent` without the mutex.  The loop's `realSend` is one step per `send` and
separate steps for the swap, the roll back and the withdrawal of interest: others write in
between.  `Calls` says which operations user code calls in which callback; every such call is one
step of the loop (the loop is the caller, nothing else of the loop runs).  The peer reads, sends,
shuts down and resets at any time.

A `Buffer` is what one `write` was given.  Descriptors are not numbers here: a connection is over
when it is closed, and what happens to a number that is used again is in `Servers`.

### AsyncSocket

All calls change `_eventType` in two steps (`Store`, `ModifyEvent`), after taking the mutex for
`send` and `flushBuf`.  `flushBuf` is one step per `send`.  The socket's maker turns reading on
before others see it (`Init`); the socket lives on throughout.

### Queues

`DispatchQueue` has a thread of its own, whose wait ends after ten milliseconds: `LoopWakes` needs
no notification.  It looks at `_stop` between tasks, so a queue that is stopped leaves tasks
undone, and the model says so.  `LoopQueue` runs, in `runOnce`, what was there when it began;
tasks may dispatch others.

### NetBuffer and Addresses

An integer is its octets as a little-endian host keeps them.  A writer puts the fields of messages
into one Buffer and their length in front; the octets are carried in pieces to another Buffer,
from which they are read by type, also when not all of a field has come.  An integer is any number
of octets, a line any that has no line end in it (`Fields`).  `Addresses` makes an
address in each way there is, in host's and network's order, describes it (the description is
kept, and copied), and compares it.

### SSLWrapper

The engine is external: a handshake of three flights, records, a memory BIO each way. What the
wrapper does is the code's: `onRecvEncrypted` gives the engine a read, goes on with the handshake,
sends what was kept for its end (`SendCached`: a record for each write, in order, behind what the
out BIO has), and hands over what can be read, flushing the out BIO at the same places.

### Servers

Both kinds of server, over a pool of threads, each with its queue of closures, its map of events,
what it polls, and the batch of events it is working through.  The kernel gives out the numbers of
descriptors again at once.  `OnPipeEvent` takes the queue of closures over into `running`, and
`RunNext` runs them one at a time, so that threads meet between the closures of one wake-up.

A handler that other threads can see half done goes on step by step: `doing` of a thread says what
its next one is, and `Continue` makes it.  Such are `Connection::close`, from `_closing` over the
look-up of the session and its call (`LookUpAndTell`), the erase (`EraseSession`) and the closing
of the descriptor (`Shut`); `UdpServer::onEvent`, from `attach` over setting the callback and the
insertion in the map to handing the data over (`OnDatagram`, `SetCallback`, `Insert`, `TakeOver`,
`Hand`); and `Server::destroy`, session by session (`DestroyNext`).  The data of a datagram goes to
the front of the queue of the connection's thread; `Received` is the message callback, in which the
session may close, and a connection that has no such callback yet is closed.  A single call of
`_conn_session`, which has no lock, and the test and the setting of `_closing` are one step each:
what a data race inside them does is outside the model.

A connection that closes before the server is done with it, or before its `addEvent` has run, is
remembered in `early`: only a `UdpServer` makes such, for other threads than its own (`EarlyIsUdp`).
The properties say what holds of all others, and section 5 what becomes of these.  An entry of the
event map that such a connection leaves is not called into; the code calls a closure there whose
connection is gone.  Starting may fail at each of its calls.  Sessions' handlers run on their own
threads and the server's on `Main`; the server is destroyed by a timer, a task or a callback of
`Main`.  `IdleDestroys` says whether a session may close its connection in `onManager`, as
`demo/UdpTest.cpp` does; the passing run has it not (section 5).

### TcpClient

`startConnect` at any time, also during an attempt or beside a connection, from the loop's thread or
another, with each of its outcomes: a local address that cannot be bound, a connect that fails at
once, and one that is under way.  Its answer (up, connected to itself, refused, failed) comes at any
time, and so do the handlers the event map calls for it.  A connection that is let go of is deleted
by a closure later (`DeleteTask`).  The error callback of a connection to itself is called before
`_sock` is forgotten: what the user does in it, another attempt or close, is part of that step.

Nothing in the code keeps `_sock` from being overwritten while what it names is open, and nothing is
guarded here: `astray` remembers the attempts whose number was lost that way, and those whose number
stays in `_sock` where it is closed already or the connection's to close.  The properties say what
holds of the others, and of these that they are still watched, so that their end comes to the client.

### HPACK

`HPackHuffman` gives the code by the lengths of its words, of which it is the canonical code, and
reads four bits at a time as the generated automaton does: a state is the beginning of a word.
`HPackTable` is records and operators: `EvictTableBySize`, `AddHeader`, `GetIndex`, with the
encoder's index of sequence numbers.  `HPacker` encodes and decodes blocks, integers and strings,
and lets two ends send blocks to each other, each with a table for what it sends and one for what it
gets.  `MyHttp2Session` has one table for both; what it sends adds no entry to it, as no header of
its responses is one that `getIndexingType` indexes, so the two agree but for a change of the limit
(section 5).

### H2Frame and Http2Session

Frames are records, coded into octets and back for all ten types.  A client sends the frames of
legal requests, with frames of its own for the connection or other streams between them, and the
network cuts the octets.  `onMessage` takes frames off the front of what has come; stream objects
outlive their place in the map, since handlers hold them and answer later, at once, or with a
file; `onStreamEnd` dispatches the removal.

### HttpMessage and HttpExchange

A text is a sequence of lexemes: words, blanks, line ends and escapes, so that splitting and
decoding are done on it as the code does them, and a read may end between any two.  `HttpExchange`
has the session with its close timers, answers at once, later, in chunks, or not at all, and the
client that takes all it has for one response.  What a handler is given is compared with what was
asked: the method, the path, and for each name of the query its first value.

### WsParser, Codecs, Uri, Sha1, HPackHuffman, Adapters, Sockets

Functions and parsers on octets.  Each is compared with a reference written from what it is for: a
parser with what a reader of whole frames is told, an encoder with its decoder, a URI with the
components it was made of and the first value of each name of its query, the blocks of a digest with
the standard's padding.  `Sockets` has
threads in the functions that open sockets, with a step per system call, any of which may fail,
and the cache of names, whose mutex is not held while the system is asked.

### LogFiles and DailyLog

A file is a sequence of numbered lines.  `rotate` moves the files one by one, and removes what has a
name before it tries to give that name to another; a rename may fail because of the file that is to
be moved, or of the name, or of all the names that are tried, and then what had them is gone.  The
program may start anew over the files there are.  In `DailyLog` a day has 24 hours, or 23 or 25
when the clocks change, at `ChangeHour`.  `mktime` is told whether the clock was changed at the
time it is called, not at midnight (`tm_isdst` stays), so on such a day it is an hour off after the
change: `Began`.  All that is assumed of a calendar is that midnights are at most 21 hours off those
of a calendar of 24-hour days (`CalendarAssumption`).

## 3. The runs

| run | asks | bounds, and why they do |
|---|---|---|
| `eventloop` | is a wake-up or a task lost or repeated, does the loop implement `TaskService`, does `join` return; do `DispatchQueue` and `LoopQueue` run what they get? | 2 callers and the loop, 3 tasks, a pipe of 2 bytes and reads of 1, one failure: full pipe, drain in several reads, a push at every step of drain, swap and reopen; 3 jobs, one of which dispatches |
| `timer_stale_delete` | (violated) is a timer that asked for another trigger kept? | 3 timers on 2 addresses |
| `connection_server` | order, one goodbye, closed descriptors, closeAfterWrite | 2 messages of 3 bytes, room for 2: a send that is full, partial, or refused; a writer beside the loop's user code |
| `connection_client` | the same before and after connecting | 2 messages of 2 bytes, room for 1 |
| `connection_live` | is everything sent, and a connection that is to be closed closed? | all writes on the loop |
| `connection_full` | (violated) does a connection nobody closes lose nothing? | 2 messages of 2 bytes, room for 2: a message that fills the socket exactly |
| `asyncsocket` | order of bytes, the assertion in `flushBuf` | 2 threads and the loop, 2 messages of 2 bytes, ring for 3, socket for 1, two closures in flight |
| `asyncsocket_live` | is everything sent, with senders on all threads? | as above, the loop flushes |
| `data` | timers, ring buffer, texts, parsers, log files, functions that open sockets | below |
| `network` | protocols, servers, clients, Buffer and addresses | below |
| `log_cancel` | (violated) does a rotation that is given up lose nothing? | 2 old files of 3 bytes, a rotation that fails |
| `http_short_read` | (violated) does a request wait whose first read has four characters? | reads cut after the method |

**Parts that are checked together.**  `MCData` and `MCNetwork` put modules side by side that share
no state: a variable `part`, chosen at the beginning and never changed, says which of them moves,
while the others stay in an initial state.  TLC then sees the union of their state spaces, not the
product, and every invariant is evaluated in the states of its part (elsewhere
its variables are as they began).  What is composed for real is
composed in its module (`Http2Session` over `HPacker`, sessions with descriptors and threads in
`Servers`).  An invariant of such a run that has several parts, such as `TablesSound` or
`FunctionsAgree`, is the conjunction of named ones in the module, each with what it says.

`data`: *timers*: 3 over 2 addresses, so one is reused; delays that round to 1 and 2; 2 closures
in flight.  *Ring*: 4 cells, calls of 0 to 5 bytes, 2 byte values: every position of both
pointers, exactly full, too long.  *Texts*: all of up to 4 octets over 5, among them a plus, a
percent sign and a space: base64's three endings, escapes cut by the target's size, Huffman words
of 5 to 28 bits.  *URIs*: each component there or not.  *SHA-1*: up to 121 octets in pieces at a
block's edges.  *WebSocket*: pieces of up to 4 octets, or all there is, of eleven sequences of
frames; callbacks that refuse.  *Adapters*: 4 of 5 in every order.  *Sockets*: 2 threads, 2
addresses, 4 ticks, records that live 1, answers that take 1.  *Log files*: 2 old files of 3
bytes, 6 lines, 2 restarts, two rotations with a rename that fails: the second meets the names the
first has left; 11 days, as many as `deleteOld` goes back, with a short and a long one, and hours before and after the change.

`network`: *HPACK*: 3 blocks, a table of 100 octets, in which two entries fit, and limits that
hold five, one and none.  *HTTP/2*: frames of up to two octets of data on two streams, read whole
or cut after the fifth or the eleventh octet, in and after a frame's header; settings right and
wrong, a ping, a reset and a window update at any time. *HTTP/1*: 2 requests, one with a name
of its query twice, every form of answer, cut anywhere.  *TLS*: 3 writes each way, reads of 1 to 3 records, so that the handshake
ends with and without data behind it.  *Servers*: 2 threads, 2 peers, 2 numbers for 3 connections:
one is used again while an event for it, or an addition, is on its way; 3 acts of the clients.
*Client*: 3 attempts: one lost beside a second, and a third in the error callback.  *Buffer*: reserve
1, initial size 2, `extrabuf` 2, calls of 0 to 2 bytes, a vector of up to 4 cells: it grows, moves
down by one and by two, starts anew, and reads past its end.  *Fields*: every width, with line
ends inside; pieces of 1, 2, 5 and 17 octets; a first vector of 4 cells, so that it grows. *Addresses*: two of IPv4 that are each other's
reverse, one of IPv6; ports that are 16 bits, that look alike reversed, and that are too large.

No run checks for deadlock.  Every system here may stop: all tasks run and the loop cancelled, all
timers created, a connection closed, everything sent, a text at its end.  That something goes on
for as long as it should is a liveness property where it matters.  `TimerManager` is symmetric in
addresses and `Sockets` in threads (`data`, which has no liveness); no other run uses symmetry.

**Fairness.**  `EventLoop`: weak fairness of each thread's steps (the operating system schedules
threads; `epoll_wait` has a timeout and so always returns), strong fairness of a batch that
reports the pipe while it is readable again and again (epoll is level-triggered and reports the
ready descriptors in turn, 10 at a time, so a readable pipe is reported in the end), and nothing
about the pipe's failures or about new dispatches.  `Queues`: weak fairness of the queue's thread,
of `stop`'s join, and of a caller that goes on calling `runOnce`.  `Connection`: weak fairness of
the loop's steps, of callers inside a call, of the start, and of a peer that is there and reads.
`AsyncSocket`: weak fairness of steps inside methods; strong fairness of handling events and of
running tasks, because one pass of `loopOnce` does both, which the interleaving of the two as
single steps does not show; strong fairness of callbacks returning, since user code may do things
before it returns.  Nothing is assumed of users: they need never call anything.

**Bounds** are constants named in the guards: `MaxFailures`, `MaxTimers`, `MaxTasks`, `MaxTime`,
`MaxIn`, `MaxLen`, `MaxSize`, `MaxBlocks`, `MaxWire`, `MaxAsked`, `MaxConns`, `MaxArrivals`,
`MaxAttempts`, `MaxText`, `MaxMessage`, `MaxPiece`, `MaxAdapters`, `MaxTicks`, `MaxLines`,
`MaxRestarts`, `MaxRefusals`, `MaxReads`, `MaxVector`.  `Msgs`, `Tasks` and `Jobs` are finite sets used once
each, so that histories tell one from another.

## 4. What is proved

From the modules' `ASSUME`s (sizes positive, a table's limit natural, threads distinct, delays positive, `Calls`, `Replies`
and `MessageLists` of the right kind, what was said of calendars), for any number of threads, tasks, messages, descriptors and addresses.  Two theorems
have a hypothesis on what user code does; each is needed, and section 5 says what happens without.

**Event thread, queues and timers**

| theorem | statement | argument |
|---|---|---|
| `TypeCorrect` | `EventLoop` keeps its types | step by step |
| `WakeupNeverLost` | `[]NoLostWakeup` | needs `PipeRegistered`: from the constructor's end the pipe is polled, except while the loop replaces it, and nothing is queued before |
| `TasksRunExactlyOnce` | `[]ExactlyOnce` | needs `BatchRunsOut`: the swap finds `tmp` empty, so that `executed \o tmp \o taskQueue` only moves its boundaries or takes one new task |
| `LoopImplementsTaskService` | safety half of the refinement | `pending <- tmp \o taskQueue`; a push at the front is an insertion after `tmp` |
| `QueuesStayInOrder` | `[]QueuesInOrder` | what was given is what began, what was taken over for this round and what waits, in this order; what began and what is left of a round is what the round saw |
| `HeapStaysSound` | `[]HeapSound` | `HeapInv`: `firing` is no timer outside a callback; counting closures in flight with `InFlightAppend` and its counterpart |
| `TimersStayOnTime` | `[]TimersOnTime` | `IdInv`: timers that live at the same time are different objects; `TimeInv`: a timer expires when it is due or later, and one that has fired in this pass and lives on expires after the pass began, so that the pass does not come to it again; `SleepsInTime` because the loop asks for the first expiry at the pass's end |

**Buffers**

| theorem | statement | argument |
|---|---|---|
| `PointersNeverDisagree` | types and `PointersAgree` | with capacity 0 left out by assumption |
| `RingBufferIsFifo` | refinement of `BoundedFifo` | each operation's effect on `Content`, cell by cell, with one or two copies |
| `RoomIsKept` | types, `IndexesInOrder` and `RoomAsPromised` | needs that the vector always has cells for the reserve, which `retrieveAll` takes for granted; if `makeSpace` does not move although its estimate says that moving is enough, there was room behind the content |
| `BufferIsByteQueue` | refinement of `ByteQueue` | the content cell by cell, for growing, moving down, a copy behind and before it; `readFd` in two parts by associativity |
| `FieldsAreReadBack` | `[]FieldsReadBack` | `NetInv`, below |

**Connections and asynchronous sockets**

| theorem | statement | argument |
|---|---|---|
| `BytesStayInOrder` | `[]BytesInOrder` for `Connection` | `SendInv`: `accepted = sent \o (tmp \o writeBuf)` until the connection closes with a send that failed, and from then on the loop does not come back; `tmp` is empty outside `realSend` |
| `OwnerHearsOneGoodbye` | `[]OneGoodbye` | `GoodbyeInv`: a connection that is about to tell "connected" is not closing, since no code of a user runs between `handleConnect`'s look at `_closing` and the callback; from then on the last notice is the goodbye exactly when `_closing` is set |
| `ConnectionStaysSound` | `[]ClientSound`: types, order and goodbye, client or server | both, and the types of the rest |
| `AfterWriteWaits` | `[]AfterWriteSends`, if `closeAfterWrite` is not called in `onWriteDone` | `OwedInv`: what was written before the call is, while the loop sends, in what has been sent and what the swap took; so when the loop finds both empty the debt is paid.  A call in `onWriteDone` comes after the loop has looked |
| `ClosedSocketLeftAlone` | `UsesOpenSocket`, if the callback that tells of the connect does not close | `OpenInv`: with `_closing` set, the loop is where it has yet to look at it; the connected callback is the one place where user code runs between a look and a send |
| `SenderBytesInOrder` | `[]BytesInOrder` for `AsyncSocket` | `Held`: a thread in `flushBuf` has the mutex; hence `Pointed`: what `firstSegment` answered is still the front of the ring buffer when it is sent and consumed; a sequence is its front and the rest |
| `SendersStaySafe` | `[]SendersSafe`: types, and `flushBuf`'s assertion | the same invariant |
| `PlaintextAlwaysFlows` | `[]PlaintextFlows` | `TlsInv`: until an end's handshake is over all its writes are in the cache and it has read nothing (`Cached`); one flight at a time is on its way, behind the last of which may come records (`Phases`); afterwards what was read and what is on its way are what was written (`Flows`).  A read that brings the end of the handshake and data is the hard step |
| `CloseTimerIsOne` | `[]OneCloseTimer` | `TimerInv`: a session has no timer but the one its pointer names, and has that one while it goes on; kept by each call a handler makes, hence by all of them one after another, however many it makes before it returns |

**HPACK's tables**

`HPackTable` has no variables: the theorems are about any sequence of tables of which the first is
`NewTable` and each next one comes of an operation on the one before (`TableStep`, `PairStep`), for
any set of headers whose size is a natural number, which is all the provers need know of strings.

| theorem | statement | argument |
|---|---|---|
| `TablesStaySound` | `SizeKept` and, of an encoder, `KeysNameYoungest` | `TableInv`. A table's sizes add up (`SizeAdds`), so that what is evicted and what is left make up what there was; a key whose youngest entry is kept stays with its place, the others go (`KeysEvicted`), and a new entry moves each place by one (`KeysAdded`).  `TableStep` lets an encoder begin with an empty table only: one table for both directions is outside the theorem |
| `TablesStayInStep` | an index that the encoder's table has names the same header in the decoder's | `PairInv`: the encoder's entries begin the decoder's, and its limit is no higher.  Both keep as many of the youngest as there is room for (`Roomy`), so the one with the higher limit keeps more of the same (`KeepsMore`); a header too large for the encoder empties its table, and no entries begin any |

**Sockets and addresses**

| theorem | statement | argument |
|---|---|---|
| `SocketsStayAccounted` | `[]SocketsAccounted` | `HeldInv`: a function that has a socket has only calls on it left; the kernel gives the lowest number that is free, which is therefore nobody's |
| `AddressesStayFresh` | `[]AddressesFresh` | `FreshInv`: the record was an answer not long before it was stored, and a thread about to store has asked not long ago; an old answer stored last is older than its record says by no more than that |
| `ClientAttemptsEnd` | `[]AttemptsEnd` | `Sound`, kept by each function that `TcpClient` calls: what once was the client's connection or is to be deleted is a connection or closed (`OwnedInv`), so whatever leaves `_sock` is a connection's, closed, or astray (`FoundInv`), and what is closed once more is astray (`OnceInv`).  `Settled`, that `_sock` is not a connection's while an attempt is under way, holds between callbacks and not inside the error callback, where `close` needs it only for a connection it has none of.  `HeardInv`: what was told of is a connection or closed, so each end is told of once.  The theorem says of what is astray only that it is still watched; section 5 names the ways there |
| `AddressesAlwaysAgree` | `[]AddressesAgree` | `Kept`: an address is the octets and port it was made from, and its description is that or not yet made, also after it was copied; two octets swapped twice are themselves (`TwoOctets`) |

**Log files**

| theorem | statement | argument |
|---|---|---|
| `LinesStayKept` | `[]LinesKept` | `LogInv`: each line is in one file, in one place of it, or gone (`Written`); as long as no rename has failed, a file of a lower name has the newer lines (`Aged`), the names have no gap and go to the last when something is gone (`Shaped`), and no file is longer than twice the room and a line (`Small`).  Whatever fails, a file that is removed has the last index or a name of the second kind, since what has the next name was moved before, or ended the rotation.  The rotation is shown rename by rename, with what it has done so far as the invariant |
| `DaysStayKept` | `[]DaysKept` | `DailyInv`: the open file's day has begun, and the file is left 24 hours after that.  `Began` is midnight or an hour beside it, and by `CalendarAssumption` the 24 hours end in the next day, or in the last hour of a long day, or with the last hour of a short one; and the days whose files a change removes are long past |

`NetInv` says where every octet is.  A function (`Layout`) gives for each field of what is expected
the octets up to its end; what is on the way, in the reader's Buffer and behind that in the
writer's, completes what the fields read so far make (`NoneIsLost`), so the next field is at its
front.  `InWork` says the same of the message that is being put together, whose length goes in front
once it is whole, for which the reserve must be untouched; `ScannedSoFar` that what a search need
not look at again lies within the line that comes next, without which a search that goes on might
begin behind the line's end.  What calls do to a Buffer are `BufferProofs`' lemmas, taken as they
are for the writer's (`Writer`) and the reader's (`Reader`).

**Recursion.**  What code does in a loop, here the renames of a rotation, the calls of a handler and
the fields of a message, is a recursive function on a range `0..n`, as a definition or under an
`\E`.  Induction over it is by the least element: of the naturals in a set that is not empty one is
the least (`LeastOf`, from the library's well-founded induction without its operator parameter), so
a set that has 0, and i whenever it has i - 1, has all up to n (`UpTo`).  The set is that of the
arguments for which the claim holds.

The specifications of modules that are checked beside others are named after their part
(`TimersSpec`, `BufferSpec`, `ServersSpec`, ...).  No module with a proof has a `RECURSIVE`
operator.

**What only TLC checks**, and why:

- All liveness: `TaskService`'s fairness, `JoinReturns`, `QueuesServe`'s second half,
  `EverythingSent`, `ClosedInTheEnd`.  The prover reaches neither fairness nor `ENABLED`.
- What parsers, encoders and digests compute for every input: `FunctionsAgree`, `DigestsRight`,
  `FramesTold`.  Each is an induction over data through several functions, with `Bitwise` in some
  and `RECURSIVE` operators in others, which take the provers' arithmetic away.
- `HeadersArrive` and `TablesSound` (`HPacker`), `RequestsArrive` and `StreamsAnswered`
  (`Http2Session`), whose modules have such operators for the coding of blocks and frames.  The
  tables' part of `TablesSound` is proved of the operators in `HPackTable`; that blocks carry the
  operations from one end to the other is checked.
- `ExchangesWhole` (`HttpExchange`): what a text that was cut anywhere is parsed to.
- `SessionsSound` and `DescriptorsSound` (`Servers`): not proved yet.
- The properties of the four runs that expect a violation.

## 5. Where code and statements part

Runs that show it (listed as findings):

- **A dispatched `delTimer` can delete another timer** (`timer_stale_delete`).  The closure has an
  address; the timer may have expired and its address been used again.  `TimerManager.h:108` says
  that a callback which returns a delay is triggered again.
- **A full socket closes the connection** (`connection_full`).  `realSend` closes on every -1,
  `EAGAIN` included, when one `Buffer` has been taken whole and the next finds no room;
  `Connection.cpp:435` says that what has not been sent is rolled back.
- **A short read is thrown away** (`http_short_read`).  `MyHttpSession::onMessage` empties the
  buffer when it returns for four characters or fewer; the comment in it says that the rest is
  waited for.
- **A rotation that is given up has removed files** (`log_cancel`).  `rotate` removes what has the
  next name before it tries to rename; when the source is what cannot be renamed, up to eleven files
  are deleted and nothing is moved.  `RotateFileLog.h:112` says that rotating is cancelled to avoid
  losing log.

Met while modelling.  The runs' configurations, or the environments the modules name in their
headers, leave the calls out that lead there, so what the passing runs show is conditional on
them:

*Connections.*
- `Connection`'s `EverythingSent` fails when other threads write (lost update of `_eventType`), in
  client mode (`handleWrite` overwrites `_eventType`, `Connection.cpp:397`), and for a write on
  the loop before a dispatched `addEvent` (`:197`).  `AsyncSocket`'s fails when other threads
  flush or toggle reading.
- `closeAfterWrite` called in `onWriteDone` after a write loses that write (`:450`).  `close` in
  the Established callback is followed by a `send` on the closed descriptor (`:401`).  Closing
  from two threads closes the descriptor twice (`:247`).
- TLS: an `SSL_write` that fails loops for ever (`SSLWrapper.cpp:186`); a callback that closes the
  connection is called again from the loop over `SSL_read`; a write off the loop captures the raw
  buffer (`Connection.cpp:205`).

*Event threads.*
- An off-loop `addTimer` makes its `Timer` with an expiry of `ms` after the epoch, so that it
  fires in the first pass (`EventThread.cpp:196`).  `NeverEarly` takes that expiry as what was
  asked for.
- `addEvent` keeps an entry that is there already (`emplace`, `:107`).  `DispatchQueue::stop` from
  one of its own tasks joins itself.

*Servers and clients.*
- A session that closes itself in `onManager`, as in `demo/UdpTest.cpp:56`, leaves its closed
  connection in `UdpServer`'s map, and that peer is not answered again: `SessionsSound` fails with
  `IdleDestroys` (the map holds what is closed).  The demo's session does so in the first timer
  after it was made, as `_lastActiveTime` begins at 0 (`Session.h:135`).  That may be before the
  closure with its `addEvent` has run, which then makes an entry of a closed connection; when the
  number is given to a new connection of the thread, `emplace` keeps the old entry, and the new
  connection is never heard: `DescriptorsSound` fails too.  Manager timers run once per pool
  thread, where `Session.h:83` has once in two seconds.
- A datagram's data is dispatched to the front of the queue of the session's thread, before the
  `addEvent` of its connection (`UdpServer.cpp:123`).  A session that closes there, or a connection
  that reads before it has its callbacks (`:100`), removes no entry; the addition runs afterwards and
  leaves one for a descriptor that is closed, and the number's next owner on that thread is not
  entered and not heard.  A connection that closed before it came into the map stays there, and its
  peer is not served again.  `OpenIsWatched` and `MapHoldsOpen` except what meets such a connection;
  without the exception both fail.
- `Server::destroy` empties the map while other threads' connections may be in the middle of closing:
  their session is then looked up in vain and called through a null pointer (`Server.cpp:51`).
  `ToldOnce` excepts a server that is being destroyed.
  A failed `bind` leaves the socket open (`TcpServer.cpp:63`), and a server that is started again
  overwrites it.
- `TcpClient`: a refused connect reports the hangup first, so the error callback is not called
  (`TcpClient.cpp:151`); `startConnect` beside an attempt or a connection overwrites `_sock`, and what
  was there stays open until its peer ends it (`:69`); after a connect that failed at once the socket
  stays open until the next attempt loses its number (`:99`); `close` closes the connection and not
  the socket of a reconnect (`:119`); when the local address cannot be bound `_sock` keeps the number
  of a closed socket, which `close` and the destructor close again, whosever it is by then (`:82`,
  `:125`); another attempt made in the error callback of a connection to itself is lost when the
  callback returns (`:194`); two attempts that both succeed end in the assertion at `:171`; the family
  is IPv4 also for an address of IPv6 (`:64`).  The properties of `TcpClient` name these with `astray`.
- `getPeerAddress` and `getSelfAddress` read memory nobody wrote when the call fails.  `SelfIp`
  frees such memory when `getaddrinfo` fails.

*HTTP/2 and HPACK.*
- What is retrieved after a frame is computed from the decoded fields, so a padded frame loses the
  place in the stream (`MyHttp2Session.cpp:92`); a frame of unknown type is dereferenced as null
  (`:353`); trailers hand over a request without its body; `// abort conn` closes nothing (`:97`);
  it announces a frame size of 2^24, which its own `applySettings` would refuse; windows are only
  added up.
- `MyHttp2Session` has one table for both directions: a limit that the client sets for the table of
  what the server encodes also evicts from the one the server decodes with (`MyHttp2Session.cpp:227`),
  and the client goes on using the indexes of what is gone.  The model has two tables at each end, and
  so does not show it.
- An octet of an index is a signed `char` (`HPacker.cpp:76`); the room for a block is 3/2 of its
  size, which may be too little; the encoder never announces a change of size; a decoding error is
  ignored.

*HTTP/1.*
- A request over HTTP/1.0, or with `close`, that is answered later loses the answer; a close timer
  may be added after the close; the pointer to one that fired is kept (`MyHttpSession.cpp:252`).
- `MyHttpClient::sendRequest` announces a body and does not send it; the client cannot read the
  chunks its own server sends; a header that ends with its colon throws (`HttpSession.h:107`); an
  empty text is indexed (`HttpSession.cpp:327`).

*WebSocket.*
- `ws_parser` never forgets that a message is in fragments: after its last one has come, a
  continuation is still taken (`ws_parser.c:73-78`), until a message of one frame begins.  `FramesTold`
  says what the parser does, also of such a frame: it expects the error only behind a message of one
  frame.

*Texts and files.*
- `StringUtil.cpp:91` loops on `size_t i >= 0`; the automaton of `uri-parse` refuses a user with
  an empty password, and takes what follows an `@` for a port in places (`:167`); a restart of
  `RotateFileLog` counts a file's size from zero, hence `FilesBounded`'s factor of two;
  `DailyFileLog` takes a day for 24 hours.

## 6. Not modelled

`PROJECT.json` gives the reason for each component.  Whole files: the datagram client and
connection and `UdpServer2`, which own a `Connection` or a socket and do nothing with it that
`Servers` has not; `MySocket`, `uv_errno`, the log front end, `MyTime`, `ThreadName`: system
calls, names and formatting; `wepoll.c`, third-party and for Windows; the demos.

Inside the modelled ones: raw pointers and objects that are deleted (but for timers, and
connections of `TcpClient`); close of one connection from two threads; destruction of
`AsyncSocket`, and its blocking `send`; tasks that throw; a server that is started again; failures
of the TLS engine; HTTP/2's idle timer and windows; socket options and multicast; logging and
statistics.

## 7. Plan

Done: the event loop, its timers and queues; the buffers; connections, plain and with TLS;
asynchronous sockets; servers, sessions and the event map over several threads; the TCP client;
HTTP/1, HTTP/2, HPACK, WebSocket; the utilities.  Left, in this order:

1. Theorems: `FramesTold`, with the parser's state as an invariant of each octet; `HPacker`'s
   `TablesSound` from the tables' theorems, with the fields of a block as a recursive function.
2. Theorems about `Servers`; the invariant is to be found for the connections that are not closed
   early.
3. `Connection` with its deletion and a close from another thread, joined to `Servers`'
   descriptors, so that a number used again meets a `send` under way.
4. A server started again after it failed, and one destroyed from a user's thread.
5. `AsyncSocket`'s destruction and blocking `send`.
6. An abstract specification of a session's life (made, told of messages, told of its end) that
   `Servers` implements.
