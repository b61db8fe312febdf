# nodeManagerServer: a TLA+ model, its checks and its proofs

nodeManagerServer is a small service-discovery server in C++ on libevent. Media nodes
connect over TCP (port 8001), log in and send heartbeats; an operator lists and stops nodes
over HTTP (port 8888). This directory models the server, its client and the two libraries
that the repository carries with it (jsoncpp and log4z) as far as the program rests on them,
checks the models with TLC and proves most of the safety they promise with TLAPS.

## 1. Inventory

| Component | Source | State | Operations | Correct when |
|---|---|---|---|---|
| thread pool | `core/threadPool.*` | the threads, the round-robin index | `Init`, `DispatchThread`, `UnInit` | every connection reaches exactly one thread, the load is shared |
| worker thread | `core/xthread.*` | event base, pipe, list of connections, mutex | `SetUpEvent`, `AddConnect`, `Active`, `Notify` | no wake-up is lost or spurious, connections are served in order |
| server main | `main.cpp` | the main event loop | accept, start, stop | accepts and answers HTTP for ever |
| node session | `serverDiscover/nodeConnect.*` | one object per connection: name, bufferevent, base | `HandlerConnect`, `ReadCallBack`, `ErrorCallBack`, `SendReqCloseNode` | each request is answered once and in order; a session that ended is not used again |
| node registry | `serverDiscover/global.*` | `m_mapNode`: ip to session, mutex | `AddNode`, `DelNode`, `GetAllNode` | lists the nodes that are logged in, at one moment |
| HTTP handlers | `serverDiscover/httpReq.*` | none | GetAllNodes, StopNode, generic | always answer |
| message head codec | `common/dataProtocolHead.*` | none | `Encode`, `Decode` | decode what was encoded |
| protobuf codec | `common/pbCodec.*` | none | `HandleNodeOnlineReq` | keeps what identifies a node |
| protocol buffers messages | `serverDiscover/message.pb.*` | fields, unknown fields | set, copy, merge, serialize, parse | what is sent is received |
| client connection | `client/ClientConnect.*` | bufferevent, last heartbeat, timers, connected flag | connect, login, heartbeat, reconnect | stays logged in as long as the server is reachable |
| client main | `client/libeventClient.cpp` | none | login once, from the terminal | |
| JSON library | `3rd/json/*` | a document | build, change, compare, convert, write, read | reads back what it wrote; accepts JSON and nothing else |
| logging | `3rd/log/*` | queues, free list, flags, the open file | log, reconfigure, start, stop, change files | loses no record, mixes up none, ends |

Left aside: `jsonCodec` (empty), `utils` (unused but for the clock), `itask.h` and
`nodeLoginReq` (no callers).

Interaction. The main thread runs one event loop: the listener callback creates a
`NodeConnect` and dispatches it; the HTTP handlers read the registry and write to sessions.
Five workers each run an event loop without locks; a worker learns of a connection by a byte
in its pipe and a mutex-protected list, and from then on runs all of its callbacks. The
registry is shared by all threads under a mutex, but it holds raw pointers to objects that
the workers delete without it. Every thread logs, through one queue to the one log thread.
The client is one event loop with timers.

What is hard here: two threads writing a list and a pipe in separate steps; a sleep in place
of synchronisation at start-up; a counter that overflows; deleted objects that the registry
and the bufferevent still point to, in memory that may have been given to a new session; the
main thread writing to a worker's bufferevent; reconnections that overlap the end of the old
connection; messages without framing on a byte stream; texts of the nodes that become
formats, and posted bodies that are trusted; flags and sizes that the log reads outside its
mutexes, and its second queue; seconds, minutes and days of local time in the names of the
log's files; the limits of integer types in the JSON library. `PROJECT.json` lists these
hazards with their lines and with the properties that watch over each of them.

## 2. Modules

    Handoff        <--implements--  WorkerPool      <-- WorkerPoolProofs, MCWorkerPool
    NodeDirectory  <--implements--  NodeServer      <-- NodeServerProofs, MCNodeServer
    Exchange       <--implements--  MessageStream   <-- MessageStreamProofs, MCMessageStream
                                    HeartbeatClient <-- HeartbeatClientProofs, MCHeartbeatClient
                                    Logger          <-- LoggerProofs, MCLogger
    JsonContainer  <--implements--  JsonDocument    <-- JsonDocumentProofs, MCSequential
                                    HeadCodec, NodeMessages   <-- CodecProofs, MCSequential
                                    LogFile         <-- LogFileProofs, MCSequential
    JsonGrammar, JsonCharReader, JsonWriter, JsonOrder   <-- MCSequential

    JsonValue, Powers <- JsonConversion <- JsonText <- JsonReader <- JsonGrammar, JsonCharReader
                           ^      ^           ^-- JsonWriter
                           |      +-- JsonDocument
                           +-- JsonOrder                      Selection <- NodeServer

**Handoff** is what the pool promises: one line of connections per worker, served in order,
each connection once.

**WorkerPool** is `XThreadPool`, `Xthread`, `ListenCallBack` and the part of
`NodeConnect::HandlerConnect` that ends the hand-off. `pc` is the main thread's place in
`Init`, the loop, `AddConnect`, `Active`, `UnInit`; `worker[t]` a worker's place in
`SetUpEvent` and `Notify`. `list`, `pipe`, `base`, `last` are `m_listconnect`, the bytes in
the pipe, `m_pBase` of each connection and `m_indexLastUseThread`. An access under `m_mutex`
is one step, as is the `read` and the `write`. `SleepSuffices` is the assumption that the
100 ms sleep of `Init` outlasts `SetUpEvent`: with it FALSE the main thread may read
`m_base` and `m_fdPipeWirte` before they are assigned.

**NodeDirectory** is what the operator sees while no node has gone: one node per ip, the
last to log in with it, under the name it gave last; listings of the directory at one
moment; and stop requests to listed nodes. A node may log in again under another name, which
it then has wherever it is listed, or under another ip, which lists it there too: nothing
takes its old entry out. The HTTP document says that ip *and port* identify a node, and
lists the nodes under keys with a port; the registry's key is the ip alone
(`global.cpp:33`), and the port is printed and dropped (`pbCodec.cpp:48`). So the second
node of a machine replaces the first, which is then neither listed nor reached by StopNode:
that is what the code does and what NodeDirectory says, and it is not what the document
says.

**NodeServer** is the sessions, the registry and the HTTP handlers. `addr`, `heap`, `name`
and `pbev` describe memory: `addr[c]` is the object that the callbacks of connection `c` get
as argument, `heap[a]` the connection whose object lives at `a` (NULL when deleted),
`name[a]` and `pbev[a]` what is found there, deleted or not. So the model can follow a stale
pointer to what it really leads to. `map` is `m_mapNode`. A worker is `idle`, or inside
`ReadCallBack`: assigning the name it has read (`naming`), waiting for the registry's mutex
(`login`) or inside `bufferevent_write` (`write`); the main thread is `idle` or inside a
handler, holding the mutex (`listing`, `stopping`). Ip and name are read anew from each
login (`Logins[c]`, `NodeInfo`): a node may change both while its object is in the registry,
and then `SetNodeName`, which takes no mutex, races with the `GetNodeName` of a listing. To
assign the text that is there already changes no byte, and races in theory only; the model
lets it pass. `renamed` says that another name was being assigned during the listing.
`ErrorCallBack` deletes the object and nothing else: the bufferevent lives on with the
direction libevent disabled, and can report the other one. A listing is the format of
`evbuffer_add_printf` (`httpReq.cpp:32`): one that holds a text of `Formats` is garbled or
ends the process (`ListEnd`); what line 58 prints is a constant. StopNode copies the whole
body into 1024 bytes and uses the document whether it could be parsed or not. `Posts` has
the bodies that bring the process down (`StopFails`): a `long` one, which runs over the
buffer, and an `odd` one, no object or with an "ip" that is none, at which `Json::Value`
throws through libevent. Other bodies name an ip, in the registry or not.

Undefined behaviour is a choice: using a deleted object goes on with what the memory holds,
or ends the process; a name read while another is assigned is the old one, the new one or
torn, or the process ends;
two threads in one bufferevent may lose a message or end the process. A double delete ends
it. A connection may be given to any worker: the order of the round robin is WorkerPool's
matter. **Selection** picks the elements of a sequence that lie in a set: the requests that
are answered, and the answers, among what went over a connection.

**Exchange** is what a node and the server promise each other over one connection: requests
are acted on in order, at most once and each answered once; a message may only be lost while
the stream of its direction is torn.

**MessageStream** is the same connection with its bytes. Every message is 1024 bytes; a read
callback runs once for each arrival and takes at most 1024 bytes of what is there, from
wherever the last read stopped. A stream is the messages not read to their end, how much of
the first is read (`at`), and what waits in the bufferevent (`here`). `Decode` gives what
the callbacks find at an offset in a message: which offsets look like a head of the protobuf
format follows from the constants that the program sends. Visible in the model: a login cut
within its body is taken as whole and registers the node under what was read of its ip
(`ShornNeedsCut` says when); an answer that arrives together with another message waits for
the next arrival; a stream out of step stays deaf until a short read or until the client
gives the connection up after 15 s.

**HeartbeatClient** is the client with a server that crashes, hangs and comes back. `bev`,
`connected`, `timers` are `m_pBev`, `m_bConnected` and the heartbeat timers, of which each
answer to a login adds one and none is ever removed; `age` is the unsigned difference in
`HeartTimeoutCB`. Replaced connections are not freed, so every connection keeps its `status`
and its unanswered requests (`pending`), and a callback of an old one changes the flags of
the present one. Nor are the descriptors of a connection that is over given back: each
connection takes one of `Conns` for good, and when none is `Unused` the client cannot make
another (`ReconnectFails`), for ever. Time is counted in periods of the timer (`Tick`): the
phases of several timers are left out, they fire in one tick with other callbacks between
them. The clock is in whole seconds, so that after three periods of 5 s a timer may find 15
s or 16 s past, and either take the connection for good or give it up (`InTime`, `Overdue`).
The server is what the client sees of it: it answers on each connection, in order. A request
written twice before it is answered counts once.

**HeadCodec** is `DataHeadCodec` byte by byte: values are sequences of bytes, so that the
64-bit field needs no arithmetic, and `htons` on a `u32` is what the code does, a cut to 16
bits. Of the serial number the second `memcpy` overwrites the first
(`dataProtocolHead.cpp:107`; the header calls it unique, `dataProtocolHead.h:29`): it is
sent as zeros and decoded as another number, which nothing reads.

**NodeMessages** is the generated classes of `message.pb.cpp`: one set of operators over a
schema, since the four classes differ in their fields only. Fields that are not known are
kept; a string that is cut off leaves its field unspecified, as the parse fails; one that is
no UTF-8 is kept though the parse fails. The generated code lacks `ReqCloseNode`, which
`message.proto` declares. Groups are not read. Varints, lengths and the reading of a message
field by field are recursive functions, so that the provers can be asked about them.

**JsonValue** is `Json::Value`: its types, arrays (maps from indexes, with holes) and
objects; **JsonConversion** its conversions, with the widths of numbers; **JsonOrder** its
order. An integer that becomes a double is rounded to the nearest that there is, of two the
even one. **Powers** is powers of two as a recursive function, of which the provers know
what they do not of the operator `^`.
**JsonText** is how numbers and strings become text and come back.
**JsonReader** is `Json::Reader` on tokens: it keeps the recursion, the recovery from errors
and the limit of nesting of the code. **JsonCharReader** is `OurReader`, the second copy of
that reader, with its features; it takes from JsonReader what the two copies share.
**JsonGrammar** is the reference for both: which values a sequence of tokens stands for, as
a relation without positions, errors or recovery, with the departures from JSON that it
names. **JsonWriter** is `FastWriter`. **JsonDocument** builds up and changes a document;
**JsonContainer** is what it promises: a sequence or a map. What these modules show of the
code and what their properties therefore leave out: comments are taken in places even in
strict mode; after a comment in an object any token separates the members; `{"":1,}` is
accepted and `[ /**/ ]` is not; text after the root is ignored; a comment may end with the
document; `-` is 0; a double that holds 2^63 or 2^64 passes the tests of `asInt64` and
`asUInt64`, of whose types it is not. In `OurReader` an apostrophe falls through to a
comment when single quotes are off; a quote within apostrophes ends the decoded string;
`sscanf` takes `1e` and makes huge numbers infinite; `failIfExtra` lets an unreadable token
pass unless the root is strict. An infinite number is written as text that `Reader` refuses;
a NaN is written as null.

**Logger** is `LogerManager` with the one logger that `MainLog::init` sets up: `pc[t]` is
where a thread is between `prePushLog` and `freeLogData`, `rec[t]` what it holds, `logs` and
`cache` the two queues, `free` the length of the free list, `lpc` the log thread's place in
`run`, `mpc` the main thread's in `start` and `stop`. A mutex is held within one step; flags
and sizes read without one are read in a step of their own, apart from the step that acts on
them. (The reads of `_enable` and `_level` in one test are one step.) Switching off and
raising the level travel through the queue, switching on and lowering take effect at once:
`SetLoggerLevel` and `HotChange` look at `_level` and at `_runing`, and `RaiseLevel` and
`ChangeAtOnce` write later, when the test may not hold any more. `stale` is the changes that
were made at once although, by then, they should have been queued. `accepted` and `fate` are
history, too: what was appended, and what became of it.

**LogFile** is what the log thread does with its files: the name from the minute of the
record and an index, the change by day and by size, the removal of old ones, the failures to
open and to write. Time is in seconds; names are by the minute, and by local time, which
summer time (`Summer`, `Shift`) puts forward and back: so an hour is left out, one is
repeated, and there are days of 23 and of 25 hours. The test for the same day is the code's:
24 times 3600 seconds from what `mktime` makes of the midnight before the file was opened,
with the `tm_isdst` of that record. Names are compared as the texts they are, in which an
index of four digits (`%03u`) lies between those of three (`Before`, `IndexBefore`). `Named`
keeps day and minute as numbers, whose order is that of their texts. A record stands for a
megabyte. `_limitsize` times 1024 * 1024 wraps at 32 bits, so that 4096 is no room at all; a
file that cannot be opened ends the output to files for ever. The program itself leaves the
reserve time at 0. What the model shows of the code and what its properties therefore leave
out: after the clock is put forward a file holds the first hour of the next day; in the hour
that is repeated a later file has a smaller name, and `_1000` comes before `_999`; with a
reserve time shorter than a minute a file that was closed and is opened again within its
minute is removed as soon as it is open, by its own old entry.

**MCSequential** puts side by side the components that one thread at a time uses and that do
not act on each other. A behaviour is one of the component in `part`; the state space is the
disjoint union of theirs. Its properties are those of the components.

The operators whose comment begins with "Mutation of" are variants of the definition that
follows them, with a plausible programming error. Nothing refers to them; each serves to
show that a property notices the error.

## 3. Runs

| Run | Instance | Shows |
|---|---|---|
| `pool` | 2 threads, 4 connections, pipes of 1 byte | no lost wake-up, the right thread, a balanced load; the refinement of Handoff; each connection is served; `DispatchThread` returns |
| `pool_unassumed` | 3 threads, 5 connections, a counter up to 3, `SleepSuffices` FALSE | no spurious wake-up, one place per connection, the index fault only past the overflow |
| `server` | 2 connections that may leave, one of which logs in under two ips and names, the other under the first ip with a name that is a format; up to 2 logins each, 2 addresses, 2 workers, 1 HTTP request of any kind | the refinement of NodeDirectory while no node has gone; what is true although pointers are stale; what it takes to come down |
| `server_answers` | 1 connection, 3 requests of 4 kinds, logins with two ips, 2 HTTP requests | one answer for each request, in order and in the end |
| `client` | 32 connections, 3 faults and steps of the clock, at most 1 of them of the clock, hangs of up to 20 s | in calm times a connection is kept; the client finds its way back, and is logged in again; what a fault costs in connections |
| `stream` | cuts at 6 and 13 bytes, one message on its way and one waiting each way | the refinement of Exchange; a node hears of the server again, and can be closed; a login is shorn only by a cut |
| `logger` | the client with one thread and a server with two, 3 calls, 1 banner, a free list of 1 | records in order, none lost, each discarded one explained; the free list bounded; `stop` returns |
| `sequential` | five parts, see below | heads, messages and documents come back; the readers accept what the grammar derives; a document acts as its container, and converts as it says; values are ordered; files of the log |

Runs that find a violation, each of a statement in the code or its documents:

| Run | Statement | What happens |
|---|---|---|
| `pool_startup_race` | `threadPool.h:22`, the task is dispatched to a thread for execution | a worker slower than the sleep: the wake-up goes to descriptor 0, the connection is never handled |
| `server_stale_listing` | http document: all *current* nodes | the pointer of a deleted session is visited and listed |
| `client_login` | `ClientConnect.cpp:122`, log in again after reconnecting | heartbeats, but no login, over the new connection |
| `logger_thread_safe` | `log4z.h:344`, the setters are thread safe, and 349, switching off is queued | a change is made at once on a test that another thread has overtaken, and records accepted before it are discarded |

Bounds, and why they are enough.

- *Pool.* Two threads let the round robin wrap and a connection go to the wrong one; four
  connections give each worker two, more than its pipe of one byte holds, so that `Active`
  blocks. A pipe of 65536 bytes differs only in when that happens. In `pool_unassumed`
  `MaxInt = 3` stands for 2^31 - 1: the counter overflows to -4 at the fifth connection, and
  with three threads, as with the program's five, the remainder is then negative: -4 % 3 is
  -1. (With two or four threads it would be 0 there.) `pool` itself stays below the
  overflow. `ThreadAffinity` is checked under `SleepSuffices`: without it a connection may
  be given a null base, which `EveryNodeServed` and the hazard of `threadPool.cpp:29` are
  about.
- *Server.* The two nodes of `server` share an ip, so that one replaces the other, or is the
  other come back; one of them moves to a second ip and a second name while it is listed; a
  listing visits up to two entries with logins between the visits. Two addresses let a new
  object lie where a deleted one was or elsewhere; they may be exchanged, and so may the
  workers (`Alike`). A handler leaves nothing to the next one but what it wrote, so one HTTP
  request, at any moment, meets every state of the rest; `server_answers` has two in a row.
  One connection is enough there: sessions share only the mutex, for which the main thread
  competes. The main thread never waits for a worker in the model: `AddNode` holds the mutex
  within one step, as it calls nothing that blocks. `AnswersInOrder` excuses a bufferevent
  that two threads were in; that they may meet there is what `CrashExplained` says.
- *Client.* Three faults make the server hang, crash and hang again around a reconnection,
  which two cannot; a hang of four ticks outlasts the three after which the client may
  reconnect. Settings of the clock count with the faults. Such histories use up 28
  connections at most: `Cost = 9` for each fault is the least number that will do, and 32
  connections are more than that, so that `Unused = {}` excuses nothing here.
- *Stream.* What a cut does depends on where it lies: before the format (4 bytes), the id
  (8) or the body's end (66), or where a later read finds a 1 in the place of the format (13
  in a login, 17 in what the server sends). 6 is a cut between format and id, with a body
  that is lost; 13 begins the read that takes the priority of a login for a head. Several
  cuts in one message, and reads that span two, arise from them. Beyond one message on its
  way the writer waits.
- *Logger.* The second thread lets two threads race for the last place of the free list and
  a record overtake a change; three calls are a record, a change and a record, or two
  changes of which one overtakes the test of the other, and a record. The log thread's
  banner of one record makes it log through its own queue.
- *Sequential.* Heads: two, each with one field varied over 0, 1, 128, 255. Messages:
  `Int32s` is 512, an `int32` of 9 bits, and `Varints` 2^20, a varint of 20 bits: they need
  one to three bytes as 32 and 64 bits need one to ten; negative numbers take the longest
  form. JSON: integers of 4 and 7 bits with a double of 5 bits between them are in the same
  order as 32, 64 and 53, which `WidthAssumption` says; the documents hold every limit of
  every type, one less and one more. Texts: all continuations by up to four pieces of `{ } [
  ] , :`, a comment, strings, a number and a string with a bad escape, of eight beginnings;
  `stackLimit = 3` is reached by them. All samples of strings are UTF-8 without lone
  surrogates: what is not is written as U+FFFD (`utf8ToCodepoint`), and that is what comes
  back. Files: a minute of two seconds, a day of three minutes, summer time of three seconds
  in the first day, which puts the clock forward by one minute and back again; the first day
  and the beginning of the second, which comes twice; records up to one second late; four
  records and two faults; a limit of one record, and of 4096, which is none; reserve times
  of 0, of less than a name lasts and of more; indices
  of which 2 stands for the first with a fourth digit.

`sequential` is one run because its parts are small and have nothing to say to each other.
JsonOrder, JsonText and the modules that extend it use RECURSIVE operators, and are for TLC
only. Where a property binds a value by `\A x \in {...}`, it is so that TLC computes it
once.

Deadlock is not checked because each of these instances runs out of connections, calls or
requests, or the process ends.

Fairness. The main thread inside a call (`WF` of its steps) and each worker (`WF` of its
steps) are scheduled by the operating system, and an event loop dispatches what is ready.
Nothing is assumed of the nodes, of the operator, of connections that may arrive or fail,
nor of `HandlerConnect` succeeding. The client's event loop and its clock go on, and whoever
runs the server restarts it when it is down or hung (`Restart`, `Resume`). The client's
address for the server is 127.0.0.1, so a tick of 5 s is taken to be long enough for a
running server to answer and for the kernel to report a connection made, refused or closed
(`Settled`). In MessageStream bytes that were sent arrive and the timers fire; that the
network becomes calm is not assumed but a condition of the two properties about it. In
Logger a thread inside a call goes on, the log thread runs, and its logging at the
beginning; nobody has to log or to call `stop`. The registry's mutex is not assumed fair: in
`server_answers` a bounded number of HTTP requests competes with `AddNode` for it, so a
worker is not overtaken for ever; with an endless stream of requests the code promises
nothing.

## 4. Proofs

Every safety property, action property and refinement that the runs check is proved for all
values of the constants that the named assumptions allow, but for what the end of this
section lists.

`WorkerPoolProofs` holds theorems for any number of connections and threads, any pipe
capacity and any counter width, from `PoolAssumption` alone:

- `TypeCorrect`: `TypeOK`, strengthened by `Hands`, which relates control to data: the main
  thread has a connection in `AddConnect`, a worker holds one exactly while it is handling,
  and a thread that was not created is absent. Without it `Append(list, node)` is not known
  to be a sequence of connections.
- `NeverSpurious`: never more wake-ups than connections on the list. The argument is that
  every step keeps the difference `Len(list[t]) - Wakeups(t)`, but for `Active` without a
  pipe, which loses a wake-up and so can only help (`WakeupStep`).
- `NeverLost`: never fewer wake-ups than connections, if `SleepSuffices`. The same lemma,
  with `SetUp`: once `Init` has returned, every thread has its pipe.
- `AffinityHolds`: the event base a connection has is that of the thread that gets it. The
  inductive invariant also says of the connection in flight, in `AddConnect`, that it has no
  base yet and is in no list.
- `PoolImplementsHandoff`: if `SleepSuffices`, the pool implements Handoff under the
  refinement mapping `LineOf(t)`: what the worker holds, its list, and what `DispatchThread`
  is about to push. One lemma per step: accepting is `Offer`, `HandlerConnect` is `Serve`,
  pushing and popping move a connection within the line.
- `HandledOnce`: a connection is in one place. The places are a set of pairs, whose
  cardinality the property counts; the proof says that the set is a singleton or empty
  (`Lone`) and shows of each step that the places after it are an image of those before, of
  which at most one is another: `Homes` changes by an index, as lists lose their heads.
- `IndexedUntilOverflow`: `m_indexLastUseThread` is one less than the number of connections
  accepted, until that number passes what it can hold (`Counted`).
- `LoadShared`: if `SleepSuffices`. `Balanced` alone is not inductive, as it does not say
  who is next: `RoundOf(q, n)` says that the threads before `n` have had `q + 1`, the others
  `q`, that the index leads to `n`, and counts the connection that is on its way.

`NodeServerProofs` holds theorems for any connections, addresses, names, ips, workers and
numbers of requests, from `ServerAssumption` alone:

- `ServerTypeCorrect`: `TypeOK` with the rest of `Shape`. `Serving`: a worker inside a
  callback has a connection that is its own. `Placed`: a connection has an owner and an
  object from its acceptance on, and events only then. `Objects` and `Registry`: what lies
  at an address was made there, and the main thread visits entries that there are.
  `Within`: no more is handled than was sent. `InHand`: a worker that logs a node in has
  read a login. Each part is needed to name what a stale pointer can lead to.
- `LoggedInListed`: `Registered`, that a login whose answer is written or about to be
  written has an entry under its ip, as `AddNode` comes before the write and nothing takes
  an entry out; and `Rooted`, that an entry leads to where an object was made for a node
  that logged in with that ip.
- `CrashesExplained`: `Healthy`. While no node has gone, a bufferevent that reports has a
  living object that knows it, and so have the entries and whatever a worker is in the
  middle of; the ways to meet a deleted object contradict one of these. Where a name is torn
  a worker is assigning another one to a listed object: `Handlers` says that a listing then
  knows of it (`renamed`). `Known` says of every ip and name the server holds that a node
  has sent it, so that a listing fails as a format only if a node sent such a text. A body
  posted to StopNode needs no explanation, and the statement leaves those two faults out.
- `AnswersKeptInOrder`: `InOrder(c)`, the answers written and the one under way are the
  answers to what was read. It is carried through `Send`, which lengthens what was sent
  behind what was handled, the three reads and the write; that a race in a bufferevent stays
  recorded lets the invariant be dropped for it. `ThoseEmpty` and `ThoseAppend` have what
  `Those` does to an empty sequence and to an appended element. It defines a recursive
  function, of which that proof shows first that it exists; the induction is over a set of
  numbers that has a least element (`SetInduction`), and so needs no operator as a
  parameter.
- `ServerImplementsDirectory`: every step is one of the directory, or none, or is taken when
  a node has gone, or ends a listing that a change of name disturbed. It rests on `Healthy`,
  `Handlers` and `Named`. What a listing has seen is the registry without the entries it has
  still to visit, so that its end is the abstract listing; the connection that StopNode
  writes to is one that is listed; and a worker that is in `AddNode` has given its object
  the name of that login (`Named`), which no other worker changes. `SetNodeName` is `Name`
  (`NameStep`), `AddNode` is `Login` (`LoginStep`), `ListEnd` is `GetAllNodes` and `StopEnd`
  is `StopNode` (`DirectoryStep`).

`LoggerProofs` holds theorems for any finite sets of threads, any levels, numbers of calls
and size of the free list, from `LoggerAssumption` alone:

- `TypeCorrect`: `TypeOK` with `Hands`: who is between `makeLogData` and the append holds a
  record, and so does the log thread between `popLog` and `freeLogData`, when it is in no
  call of its own.
- `OrderKept`: records are handled in the order of their appends. `WaitingStep` shows that
  every step of the program leaves `Waiting` (what the log thread holds, the cache, `_logs`)
  alone, appends to it what it appends to `accepted`, or handles its head; the swap of the
  two queues leaves it alone. From then on the argument is about sequences only (`InQueue`).
- `FreeListBounded`: the list and those on their way to it are at most the limit and all
  threads but one. The bound is inductive: who finds room leaves a place for each of the
  others.
- `NothingLost`: with `stop` returned everything is handled. `Ending` says that after `stop`
  nobody but the log thread logs, that it sleeps with an empty cache and leaves its loop
  with an empty queue; `InQueue` does the rest.
- `DiscardsExcused`: a record is discarded only after a change that was accepted before it
  and says so, or with a change in `stale` that says so. `Excused` says of a record that the
  logger would let it through or there is such a change; it holds of a record when the
  thread passes the second test, and no step takes it away: not one that lets more through
  (`Milder`, `ExcusedKept`), and not a change that is made at once, which is milder or is
  recorded as overtaken and is the reason itself (`ExcusedAtOnce`). That a change made while
  the log does not run comes before any record is `Young` and `BeforeTheLog`. `Close`
  switches the logger off with nothing left (`Ending`).

`MessageStreamProofs` holds theorems for any cuts and any number of messages on their way or
waiting, from `StreamAssumption` alone:

- `TypeCorrect`: `TypeOK`. `ReadFact` says what a read leaves: as it starts at most 1023
  bytes into a message and takes at most 1024, it ends in that message or in the next one.
- `ShornOnlyByCut`: a login that is decoded was read from its first byte; if its body is not
  all there, the read took all that had arrived, so that the arrival ended within the login.
- `StreamImplementsExchange`: the mapping is `Unread`, the messages whose first byte is
  still to be read. `UnreadFact` says that a read from the start of a message takes just
  that one from them, and a read from within a message takes none or the next one with it,
  which is what `Misread` and `Miss` allow on a torn stream. `DecodeStart` says that only
  zeros are passed over when the network is calm. The invariant is `TypeOK` with
  `Boundaries`: a stream that is read up to the inside of a message has that message.

`HeartbeatClientProofs` holds theorems for any number of connections, faults, steps of the
clock and length of a hang, from `ClientAssumption` alone:

- `TypeCorrect`: `TypeOK`.
- `ConnectionKept`: while all is `Calm`, a client that is logged in keeps its connection.
  The invariant says in three parts what is so while nothing has happened: there is no other
  connection than the first (`OneConnection`); the login goes out once and is answered with
  the one timer there is (`OneTimer`); the server has answered in this tick, or is still to
  be asked, or has the question, or hangs since so many ticks (`Heard`), so that `age` never
  gets to where a timer may reconnect. A step may end the calm but not begin it
  (`CalmBefore`), so the invariant need only be carried through the steps that keep it.

`LogFileProofs` holds theorems about one logger's files on their own (`FileSpec`), from
`LogFileAssumption` alone:

- `OneDayEach` and `SizeBounded`. The invariant adds `OpenFile`: what the logger remembers
  of the file that is open, its day and the length it counts, agrees with the name and
  bounds the length of the file, also after writes that failed and were counted.
  `TimeFact` has what local time, midnights and minutes are of a second, in summer time and
  out of it, and `SameDayFact` that a record within 24 hours of the midnight by `mktime` is
  of the file's day by a clock that is set as it is at some time, which is all that
  `OneDay` says. `FilesAfterFact` says that opening a file changes no other than by removing
  it.
- `NamesInOrder`: `Ordered`. As long as records come in order and the clock is not put back
  between them, no file is of a later minute than the one that was opened last, those of its
  minute have no greater index, and it has the index now (`OpenedAt`). `NextIndexFact` says
  that the index only falls with a new day, whose minutes are later (`MinuteFact`: of two
  moments in order the minutes are in order). With no more than three digits that is the
  order of the texts.
- `OpenFileStays`: `Kept` says that each file in the history was opened no earlier than the
  minute in its name, but for the hour by which that may be ahead (`Openings`). What is
  removed is older than the reserve time (`RemovedFact`); if the file just opened is among
  it, its name was opened that long ago, and the minute, the hour and the age of the record
  at hand bound how long that can be.

`CodecProofs` is about what is sent, heads and messages.

- `HeadsKept`, of a head on its own (`HeadSpec`), for any heads with fields of the widths
  that the header file gives them and any buffer that holds one, from `CodecAssumption`:
  `EncodeFact` says which bytes of the buffer are which bytes of the head, setter by setter;
  `DecodeFact` what the getters make of them; `FieldsApart` that the fields do not overlap.
- `MessagesRoundTrip`, of two messages of one class on their own (`MessageSpec`), for any
  strings whose length a varint can say, any numbers of type int32 and any bytes that
  arrive, from `VarintAssumption` and `MessageAssumption`: in every state a message whose
  strings are UTF-8 reads back as it was, alone, before zeros and before the other one. The
  invariant (`MessageInvariant`) says that the class is one of the four and that both are
  messages (`IsMessage`): values of their types, and unknown fields that can be written. The
  last is not obvious, since unknown fields are what arrived: `ParseIsMessage` says that
  whatever bytes are read, a message comes of it. The argument then goes from the bytes up.
  A varint that lies in the bytes is read back (`VarintRead`), and so is a field with its
  tag (`FieldRead`). Reading what a message wrote into another one is merging the two, by
  induction over the fields: the known ones by their numbers (`KnownRead`), then the others
  (`UnknownRead`); `MergeRead` joins them. As a field takes two bytes (`WrittenLong`), the
  steps that `Parse` takes suffice. `SizeKept` adds up the lengths. The inductions are over
  sets of numbers and of sequences, by least elements (`SetInduction`, `StrongInduction`,
  `SeqInduction`), and so need no operator as a parameter.

`JsonDocumentProofs` is about a document on its own (`DocSpec`), for any values, names and
bound on the size, from `DocumentAssumption`: the documents at the start are built of an
array's indexes or an object's names. `DocumentIsContainer`: one lemma for each operation.
The items of an array are the map with nulls for what was never put in (`Listed`); the size
is the last index and one (`SizeFact`), so that a cut or a removal may shorten the sequence
by the nulls that are then at its end, which is what `Shorter` allows (`CutItems`,
`RemoveItems`), and a put lengthens it (`PutItems`).

It also holds what the conversions do, for all widths of integers and mantissas in the order
of `WidthAssumption`:

- `ValuesConvert`: what the tests say of a value is what its conversions do, and what these
  give lies within the type. All of it comes down to how the limits of the integers compare
  as doubles (`BoundsFact`): those of the small types are exact, the greatest of the large
  ones is rounded up to the power of two after it, which is why `asInt64` may be off by one
  and `isInt64` tests with `<`. `RoundedSmall`, `RoundedPower` and `RoundedBelow` say what
  rounding does to few bits, to a power of two and to the number before one; `PowSum` and
  `PowGrows` are about powers of two, by induction over a set of numbers.
- `DocumentAlwaysConverts`: so it is with a document after any operations, as none makes a
  value that does not hold what its type says (`ValueStep`).
- `NamesOrdered`: `CZString::operator<` orders names strictly and totally, as `std::map`
  asks of it. `BytesLessIs` reduces it to the one position where two names part; of two
  comparisons the lower position decides.

Only model-checked, and why:

- liveness: `EveryNodeServed`, `DispatchReturns`, `EveryRequestAnswered`,
  `StaysConnected`, `StaysListed`, `HeardAgain`, `StopArrives`, `StopReturns`,
  `EveryRecordHandled` hold under fairness, and the provers cannot reason about ENABLED;
- `DescriptorsLast`, a bound on the connections that three faults cost: how many timers
  there are, and with them how many connections, depends on the history of all the
  connections;
- what rests on RECURSIVE operators, in whose modules the prover is not to be had:
  `ValuesOrdered` (JsonOrder), `JsonKept` (JsonText and the readers), `JsonRead` and
  `ReadersAgree` (the readers and the grammar). Trees of any depth and texts of any length
  would need an induction over data.

## 5. Not modelled, and the plan

Not modelled: the set-up of the sockets and its failures; the copying of HTTP bodies in and
out of evbuffers; of the JSON library styled writers, iterators, `Path`, the comments that
are kept and the texts of errors; of the generated classes descriptors, reflection and
arenas; of the log its configuration file, the display on a terminal, paths and the layout
of a line. `jsonCodec`, `utils`, `itask.h` and `nodeLoginReq` do nothing or are not called.
The end of the main loop is modelled as far as `UnInit`, whose joins do not return. A node
that vanishes without closing stays in the registry: nothing in the code reacts to it, and
nothing says that it should. MessageStream follows a node on its newest connection,
HeartbeatClient has the older ones with whole messages.

What would come next: several connections of one node with bytes, that is MessageStream and
HeartbeatClient together; and the order of JSON values as a recursive function on a bounded
depth, so that `ValuesOrdered` could be proved up to that depth.
