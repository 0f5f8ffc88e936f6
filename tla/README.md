# A TLA+ model of OCServer

OCServer is a game server: a C++ front end (libuv, optionally OpenSSL) takes
TCP connections, cuts their bytes into packets, decodes them into messages and
hands these to services written in Java, through JNI.  This directory holds the
TLA+ modules of its core, the TLC configurations that check them, and proofs
for the TLA+ proof system.  All paths below are relative to the repository.

## 1. The system

```
 peer --TCP--> uvnet (libuv loop thread)             main thread: JVM, config,
                 |  ClientConnS: handle + PacketSync    EvDispatch, uvnet, SIGINT
                 v
               PacketSync::recvdata      frames out of a byte stream
                 v  packet_cb_
               GameTCPProtocol::ParsePacket / bufFromMsg   (ProtoIn)
                 v  EvDispatch::postMsg  (mutex_queue, uv_async_send)
               EvDispatch (its own loop and thread)
                 v  JCommChannel::execTransact (JNI)
               LoginSvc, GameSvc  -->  AccountMgrImpl --> Database (JDBC)
```

| component | state | operations | talks to |
|---|---|---|---|
| Packet framing, `src/src/PacketSync.cpp`, `net_base.h` | `thread_readdata`/`truepacketlen`, `thread_packetdata`/`getdatalen`, `parsetype`, `headpos`, `theNexPacket` | `recvdata`, `PacketData`, `SetHaT`, `SetPacketCB` | called by `read_header`, calls the packet callback |
| Message dispatch, `ev_dispatch.cpp`, `gameproto.cpp` | `qfmsg`, `mutex_queue`, the async handle, each `FromMsg` | `ParsePacket`, `postMsg`, `Start`, `afterpost_cb` (`checkQueue`, `proc_msg`) | called on the network thread, calls Java on its own |
| Connections, `uv_net.cpp` | `client_map`, `client_list`, `s_id`, `writeparam_list`, a `ClientConnS` per connection | `on_new_connection`, `alloc_buffer`/`read_header`, `SubClientClosed`, `RecycleTcpHandle`, `sendinl`, `AfterSend`, `bind_net`, `StartThread`, the TLS callbacks | libuv callbacks on the loop's thread |
| Service registry and JNI calls, `Core/src/jImpl.cpp` | `reg_srvs`, the VM and its `JNIEnv` | `load_allAvaJavaSrvs`, `loadJavaSrv`, `getService`, `execTransact` | called by main and by the dispatcher |
| Server start and stop, `main.cpp` | which of VM, dispatcher, network exist | start, the wait loop, `exit_handler` | all of the above |
| TLS engine, `Core/src/evt_tls.cpp`, `queue.h` | state of each connection, two BIOs, queue of endpoints | `evt_tls_feed_data`, `evt__tls__op`, handshake, write, close | between `read_header` and `recvdata` |
| Codec, `Core/src/proto.cpp` and the Java `protocol` package | a cursor in a buffer | typed reads and writes, `skipField` | `bufFromMsg`, the services |
| Accounts, Java `database` and `services` | database connection, statement | `createAccount`, `getnextUID`, `updatePwd`, queries | services |
| Debug log, `Core/src/debug.cpp` | one global stream, its direction, the filter | `DebugLog`, `setupDebug`, rotation | every thread |
| Files, configuration, ciphers, text, JNI entry points | none or little | pure functions, file I/O | |

What each component must do to be correct, and what makes it hard:

* **Framing.**  The frames delivered depend on the bytes alone, not on where TCP
  cuts them or on how full the buffers are; no byte is written behind a buffer;
  every call returns.  Hard: data can look like a header, a bad tail byte makes
  the parser go back, and the frame is then put together again from two buffers.
* **Dispatch.**  Every message is handled exactly once, in order; `std::queue` is
  used under its mutex only; no wake-up is lost.  Hard: two locks per message
  with an unlocked gap, coalescing wake-ups, Java called with the mutex held, a
  `FromMsg` deleted twice.
* **Connections.**  A context belongs to one connection or to the free list;
  `client_map` says which connections there are; callbacks that come late find
  what they need.  Hard: close and write callbacks come after the call that asked
  for them, error paths skip the normal ones, contexts and buffers are used again.
* **Start and stop.**  A failure to bind is reported and leaves nothing locked;
  destruction waits for the threads; the process never waits for something that
  cannot come.  Hard: two threads, a signal handler that calls `std::exit`, results
  that are not looked at, errors that are exceptions of the log stream.
* **TLS.**  Each request for a handshake or a close is answered once; bytes in are
  bytes out.  **Codec.**  A field that is written is read back, or skipped with the
  position right behind it.  **Accounts.**  Ids are unique, a failed call changes
  nothing.  **Log.**  An error message of one thread is not lost by another's.

`PROJECT.json` lists the components with their status, every hazard with its
line and the properties that cover it, and, definition by definition, the lines
each module models.

## 2. Modules

| module | models |
|---|---|
| `NetBase` | the wire format: `NetPacket`, its conversions, `PacketData` |
| `FrameStream` | abstract specification of framing: bytes arrive, a byte that can start no frame is dropped, a frame at the front is delivered; and `Frames`, one scan over a complete stream |
| `PacketSync` | `recvdata`, two steps per pass of its loop |
| `PacketSyncProofs` | theorems about `PacketSync`, about `PacketSync` and `FrameStream` together, and about what a peer sends |
| `MCPacketSync` | the streams and the messages `PacketSync` is checked with |
| `MsgChannel` | abstract specification of dispatch: an ordered channel that hands over each message once |
| `EvDispatch` | `ParsePacket`, `postMsg`, the dispatcher thread, the service registry |
| `EvDispatchProofs` | theorems about `EvDispatch` |
| `MCEvDispatch` | three messages and two services |
| `UvNet` | contexts, ids, handles and write requests of plain TCP connections |
| `UvNetProofs` | theorems about `UvNet` |
| `EvtTls` | the TLS engine of one server connection: `evt_tls_feed_data` and the operations it runs |
| `EvtTlsProofs` | theorems about `EvtTls` |
| `MCEvtTls` | the streams `EvtTls` is checked with |
| `ProtoNum` | heads and integers of the tagged format, in both languages |
| `ProtoStream` | the stream, and fields without elements (numbers, text, byte vectors): writing, reading, skipping, in both languages |
| `ProtoStreamProofs` | theorems about such a field, written anywhere in a stream and read or skipped there |
| `ProtoCodec` | fields with elements (maps, lists, structs), and the search for a tag |
| `ProtoReader` | a reader that works through a message with `skipToTag` or field by field |
| `ProtoReaderProofs` | theorems about `ProtoReader`, and about fields with elements |
| `MCProtoReader` | the messages `ProtoReader` is checked with |
| `Accounts` | `AccountMgrImpl`, `Database` and `LoginSvc` in several programs on one table |
| `AccountsProofs` | theorems about `Accounts` |
| `MCAccounts` | symmetry for `Accounts` |
| `Debug` | `DebugLog`: all threads write through one stream |
| `Server` | the life of the process; extends `Debug`, whose lines its threads write |
| `ServerProofs` | theorems about `Server` |
| `MCServer` | the command lines `Server` is checked with |

### PacketSync

A buffer is the sequence of its valid bytes with its capacity: `Len(readdata)` is
`truepacketlen`, `readcap` is `thread_readdata.len`, and the same for the packet
buffer.  `recvdata(k)` starts a call with the next `k` bytes of the stream.  The
loop's first half (lines 37-84) is `NoHead`, `ShortHeader`, `BadHeader` or
`GoodHeader`, or `ResumeFrame` if a frame is under way; its second half (86-131) is
`NeedMore`, which returns, or `BadTailKept`, `BadTailRebuilt` or `DeliverPacket`.
The loop's condition is `MoreWork`; `Return` is the other way out.  The number of
byte values is a constant, so that TLC can use a small one.  `headpos` starts at 0
and not at -1: it is not read before it has been set.  Length fields of 2^31 - 1
and above are left out: the code computes `datalen + 1` in three integer types
that agree below.

### EvDispatch

One step per lock, unlock and access to shared state.  `PostLock`..`PostSend` are the
four lines of `postMsg`; `Wake`..`ProcUnlock` are `afterpost_cb` with `checkQueue` and
`proc_msg`.  `pending` is libuv's flag for the async handle: set by `uv_async_send`,
cleared before the callback.  `bufFromMsg` is a choice between `ParsePacketGood`,
`ParsePacketBad` (it catches a `ProtoError`) and `ParsePacketThrows` (a
`std::length_error`, which it does not catch: the process ends).  There is one posting
thread in the server and there may be more in the model.  Two places are undefined
behaviour in the code.  The second `delete` of a `FromMsg` (`DeleteAgain`) goes
unnoticed or ends the process; that it hits another message allocated at the same address
meanwhile is left out, because the freed memory stays with the dispatcher's thread in the
allocators in use.  The call into Java with another thread's `JNIEnv` works or ends the
process (`JvmDies`).  `posted`, `handled` and `transacted` are history.

### UvNet

Everything runs on the loop's thread, so a callback is one step.  A context is
named by its address: `allocated` says which exist, and `malloc` may return a freed
address again.  `SubClientClosed` puts the context into `client_list` and deletes
it; a later connection that takes it from there uses freed memory.  From then on
`damaged` holds, or the process has ended (`aborted`), and properties about contexts
say nothing more.  What a context's `PacketSync` holds is left to `PacketSync`: a context
that has read is used again only after it was freed, and what its parser then holds is
undefined.  libuv's part is external: an accepted handle delivers data or
an error, completes its writes before its close callback, and calls that callback.
`sendMsg` and `getClientByID` have no caller in the repository; sending is modelled
as it would be called on the loop's thread, on a connection that is open.  `read_header`
is modelled where it ends a connection; with data it calls `recvdata` and changes nothing
here.  TLS (see
`EvtTls`), a failing `malloc`, an overflow of `s_id` and the server's own start and
stop are left out here.  Once freed memory has been used, writing to it
(`uv_tcp_init` over a handle libuv still has, say) has only the effect of the
assignment, or ends the process.

### EvtTls

One server endpoint with `need_tls` on.  (`main` uses `GameTCPProtocol`, which leaves
it off; `uvnet` supports it and the tests exercise the engine.)  `read_header(k)`
starts `evt_tls_feed_data`; `FeedPiece` is its `BIO_write`, which takes what fits and
chooses the operation; the `Handshake...` actions are `EVT_TLS_OP_HANDSHAKE`, the
`Read...` actions `EVT_TLS_OP_READ`, each with what its callback does, and
`NextOffset` is the loop's increment.  OpenSSL is external: it takes whole records
out of the BIO, keeps an incomplete one itself, and takes nothing more after a
failure or the peer's `close_notify`.  A byte carries its place in the stream, so a
byte lost, repeated or read from before the buffer is seen.  Output to the peer is
left out, and so is `evt_tls_write`, which the server does not call.

### ProtoNum, ProtoStream, ProtoCodec and ProtoReader

The C++ `ProtoOut`/`ProtoIn` and the Java `ProtoOutputStream`/`ProtoInputStream` are
two implementations of one format.  `ProtoNum` has what both do with a head and an
integer: an integer is its bytes in two's complement, so every width has its range.
`ProtoStream` and `ProtoCodec` follow both languages call by call: where they differ a
definition takes the language as a parameter (`CppPass`, `JavaPass` are the two loops of
`skipToTag`; `SkipField`, `ReadString`, `ReadBlob` branch).  A map, a list or a struct
holds fields (`ProtoCodec`), a struct also structs.  The code's calls that recur are
functions of the depth that is left (`WriteAt[d]`, `ReadAt[d]`): `Fields[d]` are the fields
whose structs are nested up to `d` deep, and `Depth` is a constant.  Skipping recurs too,
but over bytes and not over fields: `SkipMany` keeps what is still to be skipped at each
level in `todo`, as the calls of `skipField` keep it in their loop variables.  Its loop, and
that of `skipToTag` inside another call (`FindTag`), are functions of the number of passes,
at most `Passes`: each pass but those that leave a level reads a byte at least, or ends
the loop.  What has no elements is in `ProtoStream`.  `ProtoReader` writes a
message in one language and reads it in either: `Ask` and `SkipPass` are `skipToTag`
with a step for each pass of its loop, `ReadWanted` reads what it found, `ReadNext` is
how `bufFromMsg` and the `readFrom` methods of the C++ side read, without a look at
the tag.  Once a reader has lost its place (a C++ variable without a value, a Java
position out of range) it is not followed further; neither is a C++ reader that asked
for a field that is not there, because `skipToTag` has then eaten the next head.

A text is its bytes in UTF-8.  `ProtoOut` and `ProtoIn` take the bytes of a `std::string`
as they are.  Java converts, and not alike: `ProtoOutputStream` writes a `String` in GBK
(`:348`), `ProtoInputStream` takes bytes for UTF-8 (`:918`), and nobody calls
`setServerEncoding`.  The two conversions are the constants `Gbk` and `Utf8`, of which
the model assumes only that what is written is bytes and not too long; plain ASCII is the
same in both (`Encoded`, `Decoded`).  `TextKept` says which texts survive.

### Accounts

A program is the Java side of one server: it has its own connection and, in `Database`,
one `Statement`.  Each JDBC call is a step, so that `createAccount` is `CreateAccount`,
`GetnextUID`, `Insert`, and other programs run in between.  A call fails if the
statement is closed (`Usable`; MySQL's driver throws, SQLite's, as
`src/Java/src/test/TestDatabase.java` uses it, does not), if the table refuses the row,
or by itself; and the `close()` of an update may fail when the row is already changed
(`CloseThrows`), so that the caller is told -1 of a change that was made.  Salts and
digests are left out: two are equal if the passwords are.

### Debug and Server

`Debug` is `debugFile.dir`, one step for each access to it.  A line that passes the
filter is `DebugLog` (sets `dir`), `Preamble` (time and level), for an error `Arm`
(`dir |= D_THROW`, a read and a write), and `Text`, the caller's `<<`, which throws if
`dir` then says so.  `lost` remembers an error that came out without its exception.

`Server` follows `main` statement by statement, `ReadOption` (a turn of the loop over the
command line) to `DeleteNet`; the two threads are `DispRuns` and `NetRuns`, `LoopEnds`,
`NetDone`.  An option sets something (`Handle`), shows the help, or ends the process
(`Outcomes`): a value that is missing is a null pointer, which `atoi` reads and of which
`std::string` throws or reads; a `--loglevel` out of range and an empty path throw, and
nobody catches.  The environment's HOME is taken to be set.  What can fail in a start
is chosen at first (`faults`).  An exception nobody catches ends the process, and so
do `exit()`, `abort()`, a null pointer and `main`'s return: `end` says which.  SIGINT
runs `exit()` on the main thread before the VM is there and on a thread of the VM
afterwards; the other threads go on meanwhile, and one that writes uses a stream that
is being destroyed (`UseDestroyed`).  A failed `uvnet()` is an exception of its log line;
if a line of the dispatcher's thread takes it away, `main` goes on to bind, start and
wait with members that were never initialised, which may work or end the process at each
use (`UseUninitialised`).  What connections and messages do meanwhile is in
`UvNet` and `EvDispatch`.

## 3. What TLC checks

| run | bounds | shows |
|---|---|---|
| `packet_sync` | all streams of up to two pieces out of three kinds of frame and five of noise, two pieces of noise or a long frame with a bad tail before an empty frame; every way to cut them; `BUFFER_SIZE` 11; 80,165 states | `recvdata` returns, stays in its buffers and implements `FrameStream`; after each call it has delivered what one scan finds, and, if the stream is what `PacketData` writes for some messages, these messages |
| `ev_dispatch` | two posting threads, three messages (registered service, unregistered one, two-part command); 52,572 states | exclusion, stability of the front, no lost wake-up, no deleted message in the queue, `MsgChannel`; posted messages are handled and `postMsg` returns |
| `uv_net` | three contexts and three attempts to connect, `backlog` 0, two `write_param`s, data that fits and data that does not; 133,150 states | one owner per context, `client_map` exact, callbacks find their context, copies fit, both lists bounded; closed connections are forgotten |
| `evt_tls` | a handshake of two records, streams of up to five records of five kinds, a BIO of three bytes, cut anywhere; 194,621 states | while OpenSSL works no byte is lost or repeated and the BIO has room for the next piece; a record that comes alone is read at once; the call returns unless the connection has failed |
| `proto_reader` | messages of up to three fields: every kind, numbers at the border of each width, lengths at the border of each form, maps, lists, structs in structs (`Depth` 2), a Chinese character in a text, a map and a struct, tags of one and two bytes; written and read in both languages, six tags to ask for; 442,676 states | which answers are right (in Java all, but for two C++ peculiarities and the value of a text that is not kept; in C++ those `CppReads` and `CppSkips` name), and that the search for a tag moves on |
| `accounts` | two programs with two calls each, two addresses, two passwords, MySQL and SQLite, one call that fails by itself; 124,042 states | no id is given out twice, no login without a row, and when the closed statement makes calls fail |
| `server` | twenty command lines: every option, with and without its value, and those that touch the same thing in both orders; thirteen kinds of failure, up to two at once; SIGINT at any time after the handler is set; 115,645 states | each end of the process has its cause, a start that got through is whole, a server that does not listen ends |
| `ev_dispatch_routing`, `uv_net_recycle`, `uv_net_read_buf`, `evt_tls_handshake`, `server_errors` | small | the findings of section 5 |

Why these bounds are enough to be interesting.  With `BUFFER_SIZE` 11 there is
room for one empty packet (10 bytes) and a byte of what follows; a packet with one
byte of data just fits, a longer one is split between the buffers, and one with 11
bytes of data makes both grow.  The pieces include data that is itself a frame, a
bad tail in each of the positions, a lone HEAD and a header cut short.  Three
messages let one be handled while a second waits and a third is pushed.  With
`backlog` 0 a list is full with one entry, so that a second context or `write_param` that
comes back meets a full list, while a third connection opens; the proofs are for every
`backlog`.  A BIO of three bytes is smaller than two records, so `BIO_write` takes a
part, leaves complete records behind, and is full after a failure; `MaxBack` only bounds how far `offset` is followed once that happens.
The messages of `proto_reader` have a field before, one that may be skipped, and one
behind it, so that a position that is off by any number of bytes shows in the last;
every length form has its greatest and smallest member.  Two programs with two calls
reach each race of two statements, a call after an update and a call after a failed
one.  Two failures at once are enough for one to hide behind the other.

Every property of a passing run has a mutant in `PROJECT.json`: a plausible mistake
in one definition with which TLC finds the property violated.

### Fairness

`PacketSync!FairSpec` says that a call of `recvdata` keeps running (sequential code).
`EvDispatch!FairSpec` says that a thread that can run does, that the Java call
returns (or ends the process) and that the operating system hands out the mutex;
packets need never arrive.  Weak fairness is enough there, because only finitely
many messages compete for the mutex.  `UvNet!FairSpec` says that libuv runs each
close callback and completes each write; peers need do nothing.  `EvtTls!FairSpec`
says that `evt_tls_feed_data` keeps running.  `Server!FairSpec` says that the main and
the network thread run when they can and that a thread finishes the line it writes; a
SIGINT need never come.

## 4. What is proved

For every value of the constants that satisfies the modules' named assumptions
(`NetBaseAssumption`, `PacketSyncAssumption`, `EvDispatchAssumption`, `UvNetAssumption`,
`EvtTlsAssumption`, `FieldsAssumption`, `MessagesAssumption`, `AskTagsAssumption`,
`AccountsAssumption`, `ServerAssumption`; they give types and say that capacities are
positive, and of a message that its fields hold what their kinds say and are written in
ascending order of their tags, as a generated `writeTo` writes them; of the command line,
that only its last option can lack its value, since an option takes whatever word comes
next):

| theorem | of |
|---|---|
| `EvDispatchProofs!TypeCorrect`, `Exclusive`, `FrontIsStable`, `NoDeletedQueued`, `WakeupKept` | `EvDispatch!Spec`: the five invariants, for any number of threads and messages |
| `EvDispatchProofs!Refinement` | `EvDispatch!Spec` implements `MsgChannel!Spec` |
| `PacketSyncProofs!ParserTypes`, `BuffersBounded`, `FrameKept` | `PacketSync!Spec`: type correctness, `BufferBounds`, `FrameUnderWay`, for any streams, any cuts, any buffer size |
| `PacketSyncProofs!ParserImplementsFrameStream` | `PacketSync!Spec` implements `FrameStream!Spec`, for any streams, cuts and buffer size |
| `PacketSyncProofs!ChunksDoNotMatter`, `MessagesArrive` | `PacketSync!Spec`: `ChunkingIrrelevant`, and `RoundTrip` for any messages |
| `PacketSyncProofs!FramesOfWire` | a scan of what `PacketData` writes finds the messages it was written from |
| `EvtTlsProofs!TypeCorrect`, `RoomForEveryPiece`, `NoByteLost`, `AloneReadAtOnce` | `EvtTls!Spec`: all its invariants, for any streams and cuts, any capacity of the BIO, any length of the handshake |
| `ProtoStreamProofs!JavaReadsBack`, `CppReadsBack` | `EncodeNum` and `DecodeNum`, for every integer of 8, 16, 32 and 64 bits |
| `ProtoStreamProofs!FieldRead`, `FieldSkipped` | `WriteFlat` by either language, then `ReadHead` and `ReadFlat` or `SkipFlat` by either, for every number, text and byte vector anywhere in any stream and any two character sets |
| `ProtoReaderProofs!JavaReaderIsRight`, `CppReaderIsRight`, `SkippingMovesOn`, `ReaderTypes` | `ProtoReader!Spec`: `JavaReaderRight`, `CppReaderRight`, `SkipMovesOn` and `TypeOK`, for any messages of any fields, structs nested as deep as one likes, and any questions |
| `UvNetProofs!ServerTypes`, `PoolsBounded`, `ContextHasOneOwner`, `MapIsRight`, `WritesAreSafe`, `WritesFit` | `UvNet!Spec`: all its invariants, for any number of contexts and writes, any backlog, any lengths |
| `AccountsProofs!AccountTypes`, `AccountsCreatedOnce`, `LoginNeedsAccount`, `StatementStaysClosed` | `Accounts!Spec`: all its properties, for any number of programs, calls and failures |
| `ServerProofs!EveryEndHasCause`, `EveryStartIsWhole` | `Server!Spec`: `EndHasCause` and `StartedWhole`, for every command line and any number of failures |

**EvDispatch.**  The invariants are not inductive one by one.  `IInv` adds what ties
the queue to its history: the queue is what was posted and not yet removed
(`QueueIsSuffix`), `handled` is as long as the part removed, plus one between
`proc_msg` and `pop` (`HandledCount`), a message is posted once and the one being
posted is new (`PostedDistinct`, `PostingFresh`), and what `checkQueue` read stays
true in one direction until it is used, because other threads only push
(`CheckStillTrue`).  The proof has a lemma per action; the refinement follows from
`QueueIsSuffix` and `HandledCount`: the message appended to `handled` is the next
of `posted`.

**PacketSync.**  `BInv` adds to the types and the bounds that the second half of the
loop is reached only with a frame under way, and that such a frame's header lies in
the first buffer and the second has room for its data and tail.  `FInv` adds, for
`FrameUnderWay`, that while data is missing the first buffer has nothing behind
what was copied (`ReadDataUsed`); without it bytes added from the chunk could
disagree with it.  Both are proved with a lemma per action from
facts about `SubSeq` and concatenation.

**FrameStream.**  The refinement maps the bytes the parser has and has not used up to
`FrameStream`'s stream: `Pending` puts the frame under way together from the two
buffers.  `FInv` and two more facts (`SInv`: a call that finds a frame under way has
bytes to go on with, and the header of a frame under way matched) make each step a
`Discard`, a `Deliver`, an `Arrive` or a stutter.  The hard steps are the bad tails:
`BadTailRebuilt` puts the header without its HEAD and the packet buffer together in the
first buffer, and that is the stream without its first byte (`BadTailPending`).

For `ChunksDoNotMatter` the invariant `Explained` says that scanning all bytes received
gives what was delivered and then what a scan of `Pending` gives, and that this stays so
whatever comes behind; arriving bytes are such an `x`.  `FramesUnfold` is one turn of
`Frames`; that a frame at the front, or a front that starts none, is the same with more
bytes behind it is `IsFrameStable` and `NotAFrameStable`.  `NothingLeft` says that a
returned call has left nothing to find.  `Frames` and `Wire` are recursive functions,
and that they exist is proved here (`ScanExists`, `WireExists`): induction uses the least
number at which a claim fails (`DownTo`), a set and not an operator.  `MessagesArrive`
then needs that a header and a length of four bytes are read as they were written
(`HeaderReadBack`, `LengthReadBack`), hence that a message at the front of a stream is
found whatever its data looks like.

**EvtTls.**  `TInv` adds to the types that what OpenSSL keeps is not a whole record, so
that taking a record empties the BIO by at least a byte, and that the piece being fed
lies in the chunk.  `RInv` adds that `offset` only goes forward and that the BIO has room
whenever no operation runs, while OpenSSL works; that is `BioHasRoom`.  `NoByteLost`
follows the end of the stream that is not used (`Rest`): feeding a piece moves bytes
within it, an operation takes a record from its front, and the number of the record is
the number of data records before it (`DataEnds`).  `AloneReadAtOnce` needs that without
a record left from before an operation finds one complete record at most (`NoneLeft`).

**ProtoStream.**  The writer takes the shortest type whose range holds the number.
`ShortestWidthFits` says that sign extension of the bytes written gives the number
back, and that the reader accepts the type; Java's reader extends the sign, so it gets
every number back.  The C++ reader extends with zeros, and gets a number back if and
only if it is not negative or its shortest form has the variable's own width: -5 in an
`int` is read as 251.  The theorem states the code's behaviour with its exceptions.

`FieldRead` and `FieldSkipped` are about a stream that holds the bytes of a field at the
position (`Holds`), with anything before and behind them.  A reader that is there and
good (`Good`) reads the head as it was written (`HeadHeld`), then finds what was written
behind it (`HoldsParts` takes a concatenation apart), and ends at the byte behind the
field (`Yields`): every field that follows is found.  `FieldRead` gives the value too,
as `ValueOf` has it for the variable the reader uses, and for a text what the reader's
character set makes of the bytes (`Got`); `FieldKept` says when that is the text that was
written: if it is ASCII, or if C++ wrote it and it is UTF-8 where Java reads it.  The
hypotheses are the code's limits: texts of at most `Proto_MAX_STRING_LENGTH`, longer ones
being refused; tags below 128, unless Java reads what Java wrote, a tag being a signed
char in C++; a `vector<char>` of less than 128 bytes from C++ to Java and of less than
256 from C++ to C++, its size being a char; and, for a value that C++ reads, `CppGets`,
which `CppReaderRight` has too.  All but the first are ways to lose data that the code
has (hazards at `proto.cpp:449` and `:680`).

**ProtoReader.**  A field works (`FieldWorks`) if each reader that meets its bytes anywhere
in a buffer recognises its tag, reads its value and ends behind it, and skips over it,
as far as the language can.  For fields without elements that is `FieldRead` and
`FieldSkipped`.  For maps and lists it follows by their elements, one after the other,
and for structs by induction on the depth (`UpTo`, a set of naturals with its least
element, since the library's induction takes an operator).  Skipping is an induction of
another shape: `SkipManyRuns` says that what the loop computes is the end of a run of
passes, and a run that meets the bytes of a field gets behind it with the rest of `todo`
as it was, after no more passes than twice the field's bytes, whatever is nested in it.
So `Passes` is enough: the bound of the model is a theorem and no assumption.

`TypeOK` has to hold where a reader is out of step too, so it rests on nothing that was
written: `Sound(s)` says that `s` has bytes, a position within them and a status, and each
operator of the reader keeps it whatever the bytes are, a loop run by run and a struct by
induction on the depth.  A length that points outside the bytes stops the model's reader
(`Stop`, with the status the code ends in); the theorem says that no operator has a way
around that.

The fields of a message lie one behind another (`Lay`, `Lies`), and the invariant `RInv`
says where the reader is among them: the tags were asked in ascending order
(`AskedInOrder`), and while the reader is in step it is at the beginning of a field, or at
the end, and all fields before it have been asked for or have a smaller tag than the one
wanted (`Placed`, from `Before` and `AtField`).  `InStep` itself speaks about what has been
asked, and is carried backwards over a step (`InStepBefore`).  A pass then recognises the
field it is at, skips it, or sees that the tag is absent; and reading finds its value, a
text as `Got` has it.  `JavaReaderRight` and `CppReaderRight` claim the value only if the
texts in it are kept (`TextsKept`), but that there is a value, and all about the fields
behind, in every case: a garbled text garbles nothing else.

The proof has corrected a property: `SkipMovesOn` used to ask of a Java reader only that
byte vectors be small.  TLC confirms that this is false for three fields written by C++
(a text of 200 bytes, a vector of one byte with the tag 143, a text).  As a char 143 is
negative, so `ProtoOut` writes it into half a byte; what is left of it, 15, announces a
second byte.  The reader is one byte off, and a size found there takes it back from 202 to
86.  Tags of 128 and above are excepted now.  It was also stated of steps, which says
nothing of a pass that changes nothing; it is now an invariant about what the next pass
will do.

**UvNet.**  `OneOwner` and `Registered` carry each other: an id is in `client_map` while
its handle is open or closing, so that a context taken from `client_list` has none.
For `WriteSafe` each write_param must be in one place, and once in its
list (`ParamsOnce`), for which sequences with no element twice are enough.  Everything
about contexts is under "until a freed one is used", as in the properties.

**Accounts.**  `CreatedOnce` is about ids returned; it is inductive together with the
range of the ids in the table (a greatest one exists, so that `NextUID` gives a new id
to the first `Insert` that comes, and the table refuses the second) and with what a call
has in hand at each place.  `LoginRight` needs that the table has no id -1 while no
getnextUID has failed on SQLite (`Honest`); `UpdateClosesStatement` needs that the
statement is closed exactly from the first successful update on.

**Server.**  `EndHasCause` says that an error's exception is never lost without a race.
That is an invariant about the log: an error line whose text is to come, and which no
other thread's line has crossed, finds `D_THROW` set (`Armed`); and there are errors and
exceptions only after a failure that is logged as one (`ErrorsHaveCause`).  Of the
process it needs where the threads are when main is at a place (`ProcessInv`): after a
failed `uvnet()` the error is under way, thrown or lost; the network thread runs only
once main waits, and when its loop has ended `mutex_cl` is locked, whence `abort()`.
`StartedWhole` rests on three more facts.  Main is alone until it starts a thread, so
that until then no line of another thread takes an error's exception away (`MainAlone`);
the error of `uvnet()` comes later, and there the race is possible and is in the
theorem.  Each kind of failure still lies ahead, or has just been met and will end the
process before main moves on (`FailuresStop`).  And the options read so far have set
what the last of them says (`OptionsSet`), an induction over the turns of main's loop.

Only model-checked: liveness (`PostedIsHandled`, `PostReturns`, `ClosedIsForgotten`,
`UnboundEnds`, both `CallReturns`), which is outside the prover.  What the
code computes by a loop or by calls that recur is a recursive function in the model, never
a RECURSIVE operator, which the prover does not accept; that such a function exists and
has the values its equation says is proved where it is needed.

## 5. Findings

* `ev_dispatch_routing`: `proc_msg` looks the complete command up, so
  `LoginSvc/Login`, the command of `src/Core/tests/java_test.cpp`, reaches no
  service, although the test takes the first part as the service's name.
* `uv_net_recycle`: `SubClientClosed` keeps a context for the next connection and
  deletes it.
* `uv_net_read_buf`: `read_header` does not free the buffer when a connection ends,
  which libuv's documentation asks for.
* `evt_tls_handshake`: a handshake that fails with a negative result calls no
  callback, although `evt_tls.h` promises a call with status 0.
* `server_errors`: "Error are always logged" (`debug.cpp:239`), but a line of another
  thread that the filter drops meanwhile sends the rest of the error nowhere (`:270`), and
  takes its exception away.

Two more things show in `EvtTls`: with one `SSL_read` for each piece, the second
record of a piece is read when more data comes; and a connection that OpenSSL has
given up is not closed, so that the BIO fills and `evt_tls_feed_data` no longer
returns (`CallReturns` and `BioHasRoom` say that neither happens before).

The modules of the codec, the accounts and the start show more.  The properties are
stated with these exceptions, and hold with them:

* `ProtoIn::skipField` reads a map's or list's size as four bytes (`proto.cpp:117`,
  `:123`), which no writer writes; it treats a struct as empty (`:129`); a string of 128
  to 255 bytes is a `std::length_error` (`:449`); negative numbers lose their sign
  (`:330-384`).  `ProtoOut` writes the size of a `std::vector<char>` as one char
  (`:680`), which Java takes for negative from 128 on: it skips backwards.
* `ProtoIn::skipToTag` leaves the stream behind the head of the next field when the tag
  is absent (`:66-69`), and does not end when no greater tag follows (`:58`).
* Text that is not ASCII and was written by Java arrives as GBK, in Java too
  (`ProtoOutputStream.java:348`, `ProtoInputStream.java:918`): it is read as another text.
* A `std::length_error` of `proto.cpp:449` is not what `bufFromMsg` catches: a packet with
  such a string ends the process.
* With MySQL the first update of a program is its last call that works
  (`Database.java:119`).  With SQLite a failed `getnextUID` creates a user with the
  id -1, and a login with an unknown address then asks for that id (`LoginSvc.java:37`).
* If the `close()` of an update fails, the caller is told -1 although the row has changed
  (`Database.java:119`).
* `--port`, documented as "Bind specific port. Default to 9001." (`main.cpp:82`), sets a
  variable that is not read: the server binds 9001 (`uv_net.cpp:90-94`).  `--config`
  sets another one (`main.cpp:76-78`).  `StartedWhole` says nothing about the port.
* `--log NULL`, documented as "drop all logs" (`main.cpp:90`), is a directory like any
  other.  One that is not there ends the start in a null pointer
  (`mfilesystem.cpp:249-250`), an end that `EndHasCause` allows.  A later `--userdir`
  overrides `--log`; a daemon opens no log file.  An option without its value is a null
  pointer or an exception nobody catches (`main.cpp:77`, `:85`, `:93`, `:101`, `:110`),
  and so is a `--loglevel` out of range (`:117`).
* A port in use is a warning (`uv_net.cpp:103`), after which the process ends in
  `abort()`, because `mutex_cl` is destroyed while it is locked.  Without IPv6 the
  server listens at a port the system chooses (`:94`, the result of `uv_tcp_bind` is
  not looked at).  Without its thread (`main.cpp:223`) it waits for ever.
* No VM is a null pointer in `InitDB`; a configuration that is not JSON an exception
  nobody catches (`config.cpp:37` names another one).  An error's exception is lost, or
  thrown in another thread, if that thread logs at the same time (`debug.cpp:237`).

More of the code's peculiarities are modelled, are an end or an outcome that the
properties allow, and contradict no sentence of the repository: `exit()` under the other
threads after a SIGINT (`main.cpp:272`), the results of both `Start` that nobody looks at
(`main.cpp:212`, `:223`), the second `delete` of each message, the `JNIEnv` of another
thread, and `loadJavaSrv`, which returns false for a service it has registered so
that only the first of the configuration's list is ever available.

## 6. Not modelled, and what could follow

Not modelled:

* The vendored libraries (libuv, `json.hpp`, `wdirent.h`, `queue.h`), by far the
  greatest part of the source lines: libuv and OpenSSL appear as the environment of the
  modules that use them, with what they promise.  What
  `PROJECT.json` maps is about a third of the code that is the repository's own.
* Ciphers and text conversion (`xxtea.cpp`, `cryptoutils.cpp`, `charutils.cpp`,
  `util.cpp`, `MD5.java`, `Base64.java`, `Utils.java`): functions without state; a model
  would repeat them byte by byte.
* JNI entry points (`jni.cpp`, `wjni.h`, `JNInterface.java`): conversions of types around
  calls that are modelled.
* File I/O and log rotation, the wording of log lines and of SQL, `ProtoDisplay`.
* Of `UvNet`: a failing `malloc`, the overflow of `s_id` after 2^31 - 1 connections, UDP
  (not implemented).  Of the codec: what the two character sets do, arrays other than of
  int, what a reader does after it has lost its place.

What could follow:

1. `UvNet` with TLS on, with what `EvtTls` says of an endpoint.
2. A composition of `UvNet` and `EvDispatch`: the reference to the connection that a
   `FromMsg` keeps, unused today.
3. What a reader does after it has lost its place, which needs what the C++ compiler
   makes of a variable without a value.
