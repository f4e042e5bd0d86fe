# libnbf in TLA+

libnbf is a C++ framework for network services: IO threads that own connections
and timers, service threads that run the application's handlers (plainly or in
coroutines), clients that send requests to other services and match the
responses, and a monitor that collects counters from all threads. These modules
model it; file names below are relative to `src/src/`.

    tlc -config MCEvents.cfg MCEvents           # a run
    tlapm HeapBase_proofs.tla                   # the proofs of a module

`PROJECT.json` has the lines that each definition models, the runs, for each
property a mutant of the model that breaks it, the findings and the hazards.

## 1. The parts of the system

| part | state | operations | talks to | what makes it hard |
|---|---|---|---|---|
| binary heap `common/heap.h` | array of node pointers, live count, capacity, slot number inside each node | Insert, Update, Refresh, Pop, Erase, Clear | Timer | handles are node addresses that are reused; slot numbers must follow every move |
| timer `event/timer` | one heap per IO thread, one for the reconnect thread | AddTimer, DelTimer, ProcessTimer | heap; calls back `OnTimer` | callbacks add and cancel timers while the loop runs |
| asynchronous client `net/async_*`, `client/client.cpp` | requests by sequence id, their timers, send buffer | Invoke, Send, EncodeMsg, OnDecodeMessage, OnTimeout | IO thread queue, timer, service threads | response, timeout and overload protection race |
| synchronous client `net/sync_*` | list of requests in order, a timer each, busy flag | Put, Get, OnTimer, Clear | the same, reconnect thread | responses are matched by order only; heartbeats come from another thread |
| client connection `net/client_connect`, `client_reconnect_thread` | status, reconnect and heartbeat timers | TryConnect, OnConnectWrite, OnHeartBeat, OnTimer | event driver, reconnect thread's timers | two threads change the status; who starts the next attempt |
| client routers `client/` | list of connections, round-robin counter, busy flags | GetValidClient, Send, Invoke, Stop | client | the counter is shared; who clears busy |
| IO thread queue `net_thread_mgr/io_thread_data_run` | message queue with a lock | PutMessage, CallRun | connections | 100 ms overload protection, raw pointers to connections |
| event driver `event/event_driver` | descriptor table, epoll set, list of closed entries, `inloop_`, `run_` | Add, Modr, Mod, Del, Poll, Run, Stop | epoll, timer, queue | called by several threads without a lock |
| byte stream `net/connect`, `common/buffer`, `protocol/rapid` | in and out buffers | OnRead, DecodeMsg, OnWrite | socket | partial reads and writes |
| server connections `net/connect_manager`, `server_connect`, `acceptor_thread` | connected and to-be-deleted lists | AcceptClient, AddConnect, SetRelease, DeleteDalayCon | IO threads | an object is freed later, messages still name it |
| coroutine scheduler `coroutine/`, `service/coroutine_service_handle`, `common/timer_mgr` | available set, active queue, per-coroutine mailbox and waiting id, timers | CoroutineResume, CoroutineYield, RecieveMessage, SendMessage, RunTimer | service thread queue | a coroutine that waits holds a half-processed batch |
| service manager and process `service/`, `app/`, `net_thread_mgr` | threads, their flags, the manager object | AppRun, AppStop, Start, Stop | all | a signal handler runs the shutdown anywhere; the order of stopping and freeing |
| monitor `monitor/` | marks, ring buffers, statistics, pause counters | Send, MarkBegin, MarkEnd, ProcessQueueList | ring buffer | counters and queues used by every thread |
| ring buffer `common/lockfree_ringbuffer.h` | head, tail, array, spin lock | push, pop, size | monitor | lock handed over by three different primitives |
| http and redis `protocol/` | parser state, collected message | Encode, Decode, the parser's callbacks | byte stream | messages cut anywhere |
| ini files `common/ini_files` | document of sections and records | Open, Save, Set, Rename, Comment, Delete | a file | what is read, changed and written must stay one document |
| strings, urls `common/string_util`, `protocol/http/http_util` | - | encode, decode, split | - | escapes, filling, ends |
| sockets `net/socket` | descriptors | create, connect, accept, read, write | kernel | each step may fail |

What makes each correct: the heap's owners find their entry and only theirs; a
request comes back to its caller once, with a response, a timeout or a failure;
an answer goes to the request that asked; a message is freed once and not used
after; the monitor loses and duplicates nothing; the scheduler resumes every
coroutine whose result or timeout has come; a connection that breaks is
connected again; a closed connection is freed after its last use; a hangup is
handled; stopping ends every thread; what is encoded is decoded, however it
arrives.

## 2. Modules

| module | models |
|---|---|
| `PriorityQueue` | what the heap promises: entries with handles and keys |
| `HeapBase` | `common/heap.h`, one step per loop iteration |
| `HeapOps` | the same calls as functions, for modules where a call is one step |
| `HeapLoops` | that the loops of `HeapBase` compute the functions of `HeapOps` |
| `AsyncRequest` | `Client::Invoke/Send`, IO thread loop and queue, `AsyncClientConnect`, `AsyncSequence`, `Timer` (on `HeapOps`) |
| `BoundedFifo` | what the ring buffer promises |
| `RingBuffer` | `common/lockfree_ringbuffer.h`, one step per access to shared memory |
| `SendRecieve` | what `Client::SendRecieve` promises a caller in a coroutine |
| `CoroutineSched` | a `CoroutineServiceHandler` thread: scheduler, mailboxes, timers, the loop of its coroutines |
| `EventDriver` | an IO thread's loop with its descriptor table, and the calls other threads make on it |
| `ServerConnections` | accepted connections from `AcceptClient` to their delayed deletion |
| `ClientConnection` | one connection of a synchronous client, used by service, IO and reconnect threads |
| `ClientRouting` | `ClientRouter::GetValidClient` and the busy flags, by several service threads |
| `Lifecycle` | starting, signal, stopping, joining and freeing of the whole process |
| `ByteQueue` | what the byte buffer promises |
| `Buffer` | `common/buffer`, its block and cursors |
| `RapidStream` | rapid frames from `OnWrite` through the kernel to `OnRead` and `DecodeMsg` |
| `HttpStream` | HTTP messages: `Encode`, the parser with its callbacks, `Decode`, `DecodeMsg` |
| `MatrixStat`, `Matrix` | the monitor: the statistics of one name; threads, queues and collector |
| `IniFile` | `common/ini_files`: reader, document, writer |
| `TextCodec`, `HttpUtil` | conversions of `string_util`; urls, cookies, domains of `http_util` |
| `RedisCodec` | `protocol/redis`, both directions |
| `Socket` | `net/socket.cpp` over system calls that fail |
| `MCSequential`, `MCMonitor`, `MCEvents`, `MCConnections` | several of these in one run each (see 3) |
| `MCAsyncRequest`, `MCCoroutineSched`, `MCStreamSplit` | instances of one module |
| `CoroutineKept` | `CoroutineSched` with the memory of whether a freed message has been read |
| `HeapOps_proofs`, `CoroutineSched_proofs`, `AsyncRequest_proofs` | proofs about the module named |
| `HeapBase_proofs` | proofs about `HeapBase` and `HeapLoops` |
| `Streams_proofs` | proofs about `Buffer` and `RapidStream` |
| `Events_proofs` | proofs about `EventDriver` and `Lifecycle` |
| `Monitor_proofs` | proofs about `RingBuffer` and `Matrix` |
| `Connections_proofs` | proofs about `ServerConnections`, `ClientRouting` and `ClientConnection` |

`Matrix` uses its queues as bounded queues, which is what `RingBuffer` is shown
to be; `RapidStream` uses byte queues, which is what `Buffer` is shown to be;
`AsyncRequest` uses the heap's calls as functions, which is what `HeapBase` is
shown to compute.

A definition whose comment begins with "Slip" or "A slip" is a wrong variant of
the next one; no specification uses it.

### How state and actions correspond to the code

*HeapBase.* The variables are the class's fields; a node pointer is a number,
the slot for which the node was allocated. `Insert`, `Erase`, `Pop`, `Update`,
`Refresh` and `Clear` run up to the loop of `Insert` or `AdjustNode`; `SiftUp`
and `SiftDown` are the iterations of that loop, `MoveInto` one move, `PutDown`
the two assignments after the loop. `UpdateTop` and `RefreshTop` are `Update`
and `Refresh` of the top's node; on an empty heap `Pop`, `UpdateTop` and
`RefreshTop` change nothing, so they are not separate actions there. The heap is
instantiated by the code with min order only.

*AsyncRequest.* One IO thread with all connections it owns; a request is its
message, its sequence id and its callback at once. `phase` is the place in
`EventDriver::Run`: `StartTimers`, `FireTimer`, `TimersDone` are
`Timer::ProcessTimer`, with `OnTimer` and then `Pop` in one step, because both
belong to the same thread and nothing else touches that heap in between for an
asynchronous client; `OnDecodeMessage` is one decoded response; `CallRun` takes
the queue, `HandleFailed` and `EncodeMsg` are the two ways a message can leave
it, by the age of the message. The connection is connected throughout: a rapid
client never runs `OnClose`, and a peer that has closed is a peer that does not
answer. `SequenceIdRead` says what `OnTimer` reads through the pointer to the
sequence id: the id, or any id once the message may have been freed. `robbed` is
history: whether `Pop` has taken a timer that was not the one that fired.

*RingBuffer.* `pc` is the place of each thread in `push` or `pop`. `Acquire` is
the exchange or compare-and-swap that finds the lock free; the turns of the
waiting loop are stutters. `Look` copies head and tail, `Write`/`Take` access the
slot, `Publish` moves head or tail, `Unlock` and the early return `Refuse` give
the lock back. `Returns` also drops the view of head and tail, which is on the
thread's stack.

*CoroutineSched.* One service thread; what other threads do to it is `NewRequest`,
`NewTask` (`SendToServiceHandle`, `SendTaskToServiceHandle`), `Respond` (the IO
thread's answer to a call, or its failure) and `Stop`. A coroutine's stack is
three variables: `at`, its place in `ProcessCoroutine`, `batch`, the items it has
taken from the queue and not handled, and `call`. A coroutine runs from a resume
to the next yield without other coroutines in between; a yield sets `running` and
`cur` to -1 (`Suspend`), and the main loop of `Run` is `ResumeActive`,
`ResumeAvailable` and `AddNewCoroutine`. `RecieveMessage` is split at its yield:
`RecieveMessage` up to it, `Awake` after it; `RecieveAtOnce` is the path without a
yield. `UserDone` and `DoSend` are the handler's code, which may make any number
of calls. `RunTimer` takes timers out one at a time and calls back in between
(`FireTimer`); time is abstract, so that any timer may be the next one due.
`available_coro_list_` is an `unordered_set`: the model keeps the set and `begin`,
the element that its iteration starts with, which changes only when the set does.
With `MessageKept = FALSE` a call's message may be destroyed as soon as its
response has come, while `DoRecieve` and `RecieveMessage` have yet to read it;
`RecieveFreed` is what they do with a foreign id, when the function returns early.
A response without a coroutine, as for a call made outside of any, is a response
with `seq = 0`.

*EventDriver.* `fd2data_` is the table, of `fd2data_size_ + 1` slots as it is
allocated; an entry is a number, so that a freed one can be told from a live one.
`Open`, `Add`, `CtlAdd`, `Modr`, `SetEvent` and `Mod` are what `AddModr` does on
the acceptor or the reconnect thread, one step per access to the table;
`TimerClose`, `Timers`, `Wait`, `Handle`, `Destroy` and `Again` are one turn of
`Run` on the loop thread. `Wait` is `epoll_wait`: edge triggered once `Mod` has
set a mask, and a hangup is reported with any mask. Data is left out, because a
read changes nothing here; the notifier is entry 0.

*ServerConnections.* `Accept` is `AcceptClient` up to `AddModr`, `AddConnect` the
rest with the sweep of `DeleteDalayCon`; in between the IO thread already works
with the object. `StartRelease` and `EndRelease` are the two locks of
`SetRelease`. `pending` are the messages that carry the object's address, with
their ages: a request, from its decoding to the end of its reply, and a close.
`ReplyWithin` bounds them; the code has no such bound, but the property about it
is meaningless without one (90 seconds are meant to be long enough).

*ClientConnection.* The steps of the service thread (`Send`), the IO thread
(`Overload`, `Encode`, `Put`, `Read`, `HangUpEvent`, `TimeOut`) and the reconnect
thread (`TryConnect`, `Register`, `WaitConnected`, `SetConnected`, `BeatEncode`,
`BeatPut`, `BeatWrite`), cut where another thread can come in between. `wire` and
`back` are what is under way in the sockets; a socket is unmade, connecting, up,
refused, ended by the peer (`fin`), shut down or closed. `OnRead` reads all that has
arrived, the last answer perhaps in part only (`cut`; its rest is `owed`), and
`DecodeMsg` frees the client whatever it was. `DecodeRedis` makes one message of the
whole buffer, discards the buffer if it is not understood, or leaves the head of a
string there. `DecodeHttp` gives out what was parsed before (`msgs_`) or parses:
`ParseWhole`, `ParseCut` for an answer that is not there to its end, which fails and
shuts the socket down, and `ParseWrong` for a parser that is still in the middle of
an answer, or takes no more; `parser` lives as long as the client and is not reset
by a new connection. `Deliver` gives the messages to the first requests in the list;
a message is the set of the answers it is made of, so that a request whose message
is not its own answer is `mismatched`. `RobTimer` is the second `Pop` of
`ProcessTimer` after *another* connection of the IO thread has timed out: it takes a
timer of this one. `damaged`, `overtaken` and `robbed` are history.

*ClientRouting.* `current_` counts in `Width` values and is converted through
`int` to `size_t` (`Index`). A search takes an index, looks at the client's status
and tries its busy flag (`TakeIndex`, `Examine`, `Try`), then sends (`Submit`), one
step each, and other threads come in between. `Answered`, `Refused` and `FreedEarly`
are the IO thread's: it is done with a request and frees the client; it refuses the
request as too old and frees nobody (`leaked`); it has read something, a part of
an answer, and frees a client whose request is still under way (`early`).
`StopClient` takes the connections away; a use of the null pointer (`NullUsed`)
ends the model.

*Lifecycle.* `app` is the main thread's place in `AppRun`; `stopping` is a stack,
because a signal may interrupt the `AppStop` of an earlier one: the last runs,
the others wait. Each blocking step of the shutdown is an action. The process may
have no clients; then their reconnect thread is not started (`StartClients`). A use of what
was freed or is not made yet sets `crash` and ends the model.

*Buffer.* A pointer is its distance from the block's beginning; bytes outside of
the cursors are `AnyByte`, so that reading one of them breaks the refinement.

*RapidStream.* A frame is a sequence of pieces `<<frame, number>>`; the buffers
hold pieces. `OnWrite` writes as far as the kernel has room and keeps or drops
the rest, `OnRead` takes any number of pieces that have arrived.

*HttpStream.* Text is a sequence of pieces: a start line, a header's name, its
value, the empty line, a chunk's size, a piece of body. `Feed` is the vendored
`http_parser.c` state machine over such pieces, with its flags (length, chunked,
connection), and calls the callbacks of `http_helper.cpp` in its order;
`HttpParseRequest`, `ParseOnce` and `DecodeMsg` are the layers above it.

*Matrix.* `thread` is a sender's place in `Send`, one step per access to the
pause counters and queues; `collector` is the collector thread's. `MarkBegin`
takes the next token, which comes round after `TokenWidth`.

*IniFile, TextCodec, HttpUtil, RedisCodec, Socket, MatrixStat* are sequential:
calls on a document, and operators. `Base64Encode` counts the room for line breaks
from the source's length and throws if that is too little (`BreaksFit`). A `Socket` call is an operator of what the
kernel answers.

## 3. Runs

Modules of components that share nothing are checked in one TLC run: the first
state chooses which `part` moves, and the variables of the others stay as they
began. The reachable states are the union of the parts', each invariant is
checked on its own part, and each fairness condition is restricted to its part.

| run | instance | shows |
|---|---|---|
| `sequential` | heap of 2 growing to 4 slots under any calls, and one call from every ordered heap of up to 7 entries; buffer of 5 bytes; 5 frames; streams of 4 requests and 5 answers cut anywhere; 3 calls on each of 4 ini files; bytes (for base64 up to 5, and 19, 48 and 109, in lines of 0 to 10, 64 and 600), urls, redis words and replies, system call failures | the heap's structure at each iteration, its refinement of `PriorityQueue`, that its loops end and compute `HeapOps`; the buffer's refinement of `ByteQueue`; frames and HTTP messages come whole, in order and once; what is saved is read, what is encoded is decoded (base64 throws instead where its line breaks have no room); no descriptor is lost; percentiles |
| `async` | 3 requests with two different timeouts and a one-way message, sent in the first time unit | one place per message, one result per callback, no early timeout (until a timer is robbed, see 4), no use after free, failed means not sent, every response that is read is delivered |
| `async_one` | 3 requests, one outstanding at a time | timers and registered requests match; every request comes back |
| `monitor` | 2 producers, 2 consumers, capacity 3 (4 slots), 4 pushes; 2 senders, 2 queues of 1 item, 3 items | the lock, the copied view, the size, the refinement of `BoundedFifo`, the lock is given back; no item is lost or deleted twice, a mark's end takes its own item, statistics are the sum of what was applied, what is queued is counted |
| `coro` | 1 coroutine and up to 2 more on demand, 2 calls, 2 requests, tasks or stray responses; messages may be destroyed before they are read | who may be resumed and timers in every case, who is woken and where and the mailboxes as long as no message has been read too late (`MailboxOfKept`); refinement of `SendRecieve`; every call returns |
| `events` | 1 thread that adds, 2 descriptors, a table of 1 that grows; 2 service threads, 2 signals | no freed entry is named by the table, the kernel, a batch or the deferred list, the kernel watches what the entry says, a hangup is handled, a `Stop` ends the loop; the manager outlives the loops, a signal ends them |
| `connections` | 2 objects with a delay, interval and reply time of 1; a redis or http client with 2 requests, 2 sockets, with and without heartbeats and single mode; 2 threads and 2 clients with a counter of 6 values | lists name objects that exist, and once; messages die before the object; what is old is deleted; answers match requests where each message is one whole answer, one request at a time, no open socket is lost, every request comes back whose timer was not taken; a client has one owner unless it was freed early, and is lost to the search only by a refused request; a search sees all clients |
| `async_lost` | 2 requests | **violation**: a request is never given back |
| `ring_index` | array without padding | **violation**: index one past the end |
| `coro_foreign` | 1 coroutine, messages may be destroyed before they are read | **violation**: another call's response in the mailbox |
| `client_lost` | the client of `connections`, with 3 sockets | **violation**: a broken client that no timer will reconnect |
| `frame_split` | 5 frames | **violation**: a frame in two reads ends the connection |

**Bounds.** `MaxSize` and `SmallHeap` stop the heap from growing twice; growing
is the same doubling each time. Seven entries are three full levels: the
replacement of an erased node rises only if it comes from another subtree.
`Window` limits how many asynchronous requests are outstanding, `LastInvoke`
when the last one is sent; the clock stops at `Horizon` = `LastInvoke` + the
protection time + the longest timeout, when every timer is due. `MaxHead` limits
the pushes so that every slot is used again. A coroutine is blocked by one call
at most, so `InitSize + MaxCalls` coroutines are never exceeded; two calls are
what a late response needs to meet the next call of the same coroutine. `MaxFd`
and `MaxEntry` 2 with a table of 1 make the table grow and a number be used
again. With a delay and an interval of 1 second a released connection passes
every age from new to overdue. `MaxConnect` 2 in
`connections` is the first connection and one more, which is what stale bytes, a
parser that is not reset and a late `SetConnected` need; 3 in `client_lost` has an
attempt fail after the first reconnection. An answer is read in two parts at most,
and one heartbeat is under way at a time. In `ClientRouting` a client is freed early
once, and not where a request was refused before or is after: the property makes no
claim on a client that was freed early. 6 values of the counter and 2 clients make
it turn both ways (signed and unsigned). `MaxItem`
3 fills the two queues and has one more refused. `MaxContent` 5 over a first
block of 2 makes the block grow twice and move. `MaxCall` is the number of calls
on an ini file. `Room` 5 and `Chunk` 3 are each smaller than two frames.
`MaxSignal` 2 is a second signal during the first's shutdown. `MaxChunk` is the
whole stream, so that any cut is made; `MaxParse` 20 is less than half of it, so that
a long read takes the parser several calls.

**Deadlock** is checked for `AsyncRequest` and `CoroutineSched`. In the other
runs the inputs are bounded and parts may really stop: the process ends, a
collector is stopped, all requests are sent, a call is over.

**Fairness.** A call on the heap runs to its end (`WF(Sift)`): it is a loop in
one thread. The IO thread loops for ever, so it takes infinitely many steps
(`[]<><<IoThread>>_vars`, the same as weak fairness since one of its steps is
always possible), and the clock advances; the peer and the callers have no
fairness. A thread in the ring's lock is scheduled again (`WF(InLock(t))`);
nothing is assumed of a thread that waits for it, since the spin lock is not fair.
In `CoroutineSched` the service thread goes on (`WF(ServiceThread)`, one of whose
steps is always possible until it stops); a round with an empty queue yields
every tenth time (`SF` of `Idle` with the yield: `empty_times` counts the rounds,
and only finitely many messages come in between; the counter is a function-local
static that several service threads would share, the model has one thread); a
timer is due some day, so that it cannot be passed over for ever
(`SF(FireTimerOf(s))`). Nothing is assumed of the IO threads there: a call may
never be answered. In `EventDriver` the loop and a thread inside `AddModr` are
scheduled (`WF`). In `ClientConnection` the IO and the reconnect thread are
(`WF`); and since each turn of the IO loop runs the timers that are due and then
the whole queue, a request in the queue and a timer cannot be passed over for ever
by connections that break and come back (`SF(Encode(r))`, `SF(TimeOut(r))`); a timer
that another connection has taken is not there to fire, and `TimeOut(r)` not
enabled. In `Matrix` a sender inside `Send` and the collector go on, and in `Lifecycle` every
thread does.

## 4. What the violations mean

* `async_lost`. `Timer::ProcessTimer` calls `OnTimer` and pops the top
  *afterwards* (`event/timer/timer.cpp:40-41`). `AsyncSequence::OnTimer` has by
  then cancelled the timer itself (`net/async_sequence.cpp:51`), so the pop takes
  the next timer, which belongs to another request. If that request gets no answer
  it is never given back, against the comment at
  `net_thread_mgr/io_thread_data_run.cpp:96`. With one outstanding request per IO
  thread (`async_one`) the heap is empty at the second pop and all is well.
* `ring_index`. `queue_vec` has `real_queue_size_` elements, and
  `& real_queue_size_` reaches `real_queue_size_`
  (`common/lockfree_ringbuffer.h:103,186`). The sizes that the configuration sets
  are powers of two of some 100 KB, for which the allocator rounds up to pages;
  the run `monitor` and the refinement theorem assume that (`Padded`).
* `coro_foreign`. `DoSendRecieve` hands its message over and goes on reading it
  (`client/client.cpp:175,208`, `coroutine/coroutine_actor.cpp:24-26`). The IO
  thread destroys it when the response has come. If that is faster,
  `RecieveMessage` may read another `coroutine_id` and return at once, with
  `is_waiting_` set: the response is then put in the mailbox of a coroutine that
  does not wait, and its next call finds it there, which the comment at
  `coroutine_actor.cpp:56` calls impossible. That case is survived: the sequence
  id differs, and the next call returns nothing (`CoroutinesImplementSendRecieve`
  is proved with and without `MessageKept`).
* `client_lost`. `OnConnectWrite` on a failed attempt cleans the connection and
  starts the heartbeat timer (`net/client_connect.cpp:163`), and a heartbeat of
  a broken client does not connect. The reconnect thread is to reconnect
  (`net/client_reconnect_thread.h:11`).
* `frame_split`. `RapidProtocol::Decode` sets `failed` for a frame whose rest is
  still to come (`protocol/rapid/rapid_protocol.cpp:62-63`), and `OnRead` shuts
  the connection down, though the log line above says that the bytes will be
  decoded next time. `StreamInOrder` holds all the same: no frame is decoded
  wrongly or twice.

Some properties say under which condition the code keeps its promise, because
without it the models have a counterexample; the condition is in the property
and its comment: `AnswersMatch` and `NoSocketLost` without heartbeats and until the
reconnect thread calls a socket connected that was given up meanwhile
(`overtaken`), `NoEarlyTimeout` and `OneTimerPerRequest` until `ProcessTimer` pops
another request's timer (`robbed`),
`OneOutstanding` until an answer is read in parts or discarded (`damaged`),
`AnswersMatch` where each message is one answer (`OneAnswerEach`: of http, or of redis
with one request at a time, and nothing damaged), `RequestsReleased` until another
connection takes the request's timer (`robbed`), `BusyHasOneOwner` but for clients
that were freed early and, as to being lost, whose request was refused,
`TextReadsBack` where base64 has room for its line breaks, `DecodedIsSent` until the
sender drops the rest of a frame, `NothingLeftBehind` unless the last read was a
full chunk, `ManagerOutlivesLoops` unless the signal comes while the process
starts, `LateStopEndsLoop` for a stop after the loop has begun,
`QuietOutlivesMessages` for a peer that sends no more, `UndisturbedSearchSeesAll`
for a search that is alone, `SavedIsRead` for documents whose sections have
different names, `NoDescriptorLost` but for `Accept`'s -2.

## 5. Proofs

`HeapBase_proofs`, for every capacity, bound and set of integer keys:
`HeapTypeOK`, `HeapCorrect` (`WellFormed`: `InBounds`, `NodesConserved`,
`IndexConsistent`, `HeapOrder`), `HeapImplementsPriorityQueue` and
`HeapComputesOps` (`LoopsComputeOps`). The inductive
invariant `IInv` adds to the checked properties what a loop knows: the hole is a
heap slot, the node in hand is not in any other slot, and the only pair out of
order is at the hole, with the hole's parent no larger than its children. The
refinement maps the entries to the nodes in the heap slots, with the node in hand
at the hole; a step of a loop permutes slots and leaves that set alone, so it
stutters. That what `Pop` returns is least follows from the order by strong
induction on slots, in the form of a least counterexample: of the slots whose key
is below the top's take the least one; its parent's key is then no larger, and its
slot number smaller.

`HeapComputesOps` is what lets `AsyncRequest` take a call of the heap as one step.
`Finished` is the heap that the loop in progress is going to leave behind: the node in
hand put down at the end of the path that is left. An iteration takes the first slot of
that path (`UpUnfolds`, `DownUnfolds`) and moves the node of the second into it
(`ShiftMoves`), and what it wrote is never read again: the rest of a path to the top
reads slots above only, of one to the leaves slots below only (`UpSame`, `DownSame`). So
`Finished` stays what it was when the call entered its loop (`RaiseMoves`, `LowerMoves`,
`EnterIs`), which is the function of `HeapOps` applied to the arrays before the call.

`Monitor_proofs`, of the ring buffer, for any finite or infinite sets of threads, any
data and any size: `RingTypeOK`, `RingCorrect` (`RingOK`: `MutualExclusion`, `SizeInRange`,
`ViewIsCurrent`) and, with `Padded`, `RingImplementsFifo`. The invariant `RInv`
is the conjunction of the checked properties; it is inductive as it stands,
because the view of the one thread inside the lock is part of it. The
refinement needs the arithmetic of the mask: two positions less than the number
of slots apart share no slot (`MaskInjective`), so a write never touches an
element that is still in the queue.

Of the monitor (`Matrix`), for any finite set of senders, any sizes of the queues
and any width of the token: `MatrixInvariant`, `ItemsCorrect` (`ItemsConserved`),
`MarksCorrect` (`MarkEndTakesOwn`) and `StatsCorrect` (`StatsAreHistory`). The invariant `MatrixInv` is the types with
the two properties; what is queued is counted as the set of places
(`<<queue, position>>`), so that a push adds one place and taking a queue removes
as many as it has. That `begun` and `map_` agree on every token carries over the
token's turn, because `MarkBegin` refuses a number that is still in the map.

`StatsCorrect` has an invariant of its own, `StatsInv`: of a name whose calls have all
been persistent so far (`AlwaysLasts`) the map has what all items add up to, and its
statistic's flag is set; of one whose calls never were (`NeverLasts`), what the items of
the period add up to, and the flag is not set. The flags are what `Inherit` goes by, and
no operation changes one (`WorkedKeepsFlag`). That one more item is applied to what the
others add up to (`OverAppend`) is a fact about `FoldLeft`, and so about a function on
the subsets of `1 .. n`; it exists and two of them agree because there is no least `n`
for which not (`FoldExists`, `FoldsAgree`).

`CoroutineSched_proofs`, for any number of coroutines, calls and requests:
`CoroTypeOK`, `SchedulerCorrect` (`SchedulerOK`: `AvailableUnlessBlocked`,
`ActiveIsNext`, `BlockedHasTimer`), `CoroutinesImplementSendRecieve`, all of them
whether or not messages are destroyed early, and, if they are kept
(`MessageKept`), `MailboxCorrect` (`MailboxMatchesCall`: `ActiveIsBlocked`,
`MailAnswersCall`, `BlockedAccepts`). The invariant `IInv` needs beside the
checked properties that the running coroutine is the current one and a blocked one
is suspended or running (`ControlOK`), that a call is open in exactly the coroutine
that made it (`CallsOK`), and that every response on its way, in the queue, in a
batch or in a mailbox, was given to its call (`MailGenuine`): the last makes a
returned response an answer of the abstract specification. Most steps neither
begin nor end a call (`Quiet`), and one set of lemmas covers them; `DoSend`,
`RecieveMessage`, the three ends of a call (`Return`), the main loop and the other
threads have one lemma each. `MInv` adds the state of the mailboxes (`MailboxOK`):
a coroutine that is not blocked has an empty one, and a blocked one either waits
for its call's id or has its response. Where messages are not kept,
`MailboxOfKeptCorrect` says the same up to the first read of a freed one
(`CoroutineKept`).

`AsyncRequest_proofs`, for any number of requests, any timeouts and any behaviour
of the server: `AsyncInvariant` (`AsyncInv`), `AsyncTracked` (`RequestsTracked`),
`AsyncTimers` (`OneTimerPerRequest`) and the action property `AsyncNotEarly`
(`NoEarlyTimeout`). The invariant has two halves. The requests' half (`LedgerInv`)
says that queue, batch, registery and released messages are disjoint and together
all there are, and does not depend on the timers, so it survives whatever the extra
`Pop` does to them. The timers' half says what is true of the heap even then: its
arrays keep their types, and a handle that a request holds names a node that has a
slot number (`TimerTypes`; `num` is bounded by the requests that were sent, so there
is always a free node to insert). Until `Pop` takes another request's timer
(`~robbed`) the heap is also sound, each live node is the timer of one registered
request and the other way round, and no key is earlier than its request's timeout
(`TimerInv`). With a window of one, two live nodes would be two outstanding
requests, so nothing is ever robbed (`FireTimerWindow`).

`HeapOps_proofs`, for heaps of any size, has the lemmas both rest on: what `InsertKey`
and `EraseNode` do to a sound heap and to one that an `Erase` of a dead node has upset
(`InsertFacts`, `EraseFacts`). `ShiftAlong`, `UpPath` and `DownPath` are recursive
functions. That such a function exists on `1 .. n` is proved without induction over
data: of the lengths for which there is none take the least (`LeastNatural`), and
extend the function of the length before it (`ShiftedExists`, `ChainExists`). What
a path is made of, and that two of them are the same where they go the same way
(`ChainsAgree`), follows likewise (`IsPath`: slots of the heap, none twice),
and `ShiftAlong` along any such path permutes the nodes on it (`ShiftAlongFacts`).

`Events_proofs`, of `EventDriver`, for any descriptors, any sizes of the table and any set of
threads that call `AddModr`: `DriverInvariant` (`IInv`) and `DriverCorrect`
(`DriverInv`: the table's size, `NoDanglingEntry`, `FreedOnce`, `KernelAgrees`,
`OnlyHangupCrashes`). `IInv` says what an adding thread knows at each of its steps
(`CallerOK`): its descriptor is its own, the kernel does not know it before
`CtlAdd`, and an entry that is gone from the table under its hands was hung up; and
that an event of the batch names the entry which its descriptor still has
(`BatchOK`), because deletions are deferred while a batch is handled.

Of `Lifecycle`, for any number of service threads and signals:
`LifecycleCorrect` (`LifecycleInv`: `ManagerOutlivesLoops`, `OnlyRequestIsEarly`).
The invariant `StartInv` says what has been made by how far `AppStart` has come
(`MadeInOrder`), what has ended by how far each `AppStop` on the stack has come,
interrupted ones included (`EndedInOrder`), and that nothing stops before the first
signal (`NothingStops`).

`Connections_proofs`, of `ClientConnection`, for any set of requests and any number of sockets:
`ConnectionInvariant` (`ConnectionInv`) and `ClientCorrect` (`ClientInv`:
`AnswersMatch`, `OneOutstanding`, `NoSocketLost`). Its core is one equation
(`MatchOK`), which holds while each message is one answer (`OneAnswerEach`): nothing
is read and not given out, the parser is not in the middle of an answer, and what is
under way in either direction and buffered for writing is, in this order, the list of
waiting requests, with the one that is being encoded. Damaged or not, nothing is under
way without a connection and only listed requests have timers (`FlowOK`), at most one
socket is in use and is `fd_`'s (`SocketOK`), and the reconnect thread is where it may
be (`ReconnectOK`); a single client that is not busy has nothing under way as long as
nothing is damaged (`SingleOK`). All of it is conditional on `Undisturbed`.

`Streams_proofs`, of `Buffer`, for any size of the first block, any bytes written and any arguments:
`BufferCursors` (`CursorsInBlock`) and `BufferImplementsQueue` (`BufferIsQueue`: the
buffer refines `ByteQueue`). `CursorsInBlock` is the inductive invariant: the cursors
are in order and inside the block. One lemma says what `EnsureSize` leaves
(`EnsuredFacts`: the data, wherever it was moved to, and room for what was asked);
the calls that take bytes off share one about cursors that move inwards (`Narrowed`).
So the comparison with which `PourWriting` refuses to pass the end of the block
never fails. `EnsureSize` doubles a size until it is large enough, which is the recursive
function `Doubled`; that such a function exists and returns (`DoublesNear`,
`DoubledFacts`) is proved without induction over data: of the numbers of steps that
are missing for some size take the least (`LeastNatural`). A doubling that overflows
`size_t` is outside the model.

Of `RapidStream`, for any frames, any chunk, any room in the kernel and any limit of
what is kept: `StreamInvariant` (`StreamInv`) and `StreamCorrect` (`StreamInOrder`:
`DecodedIsSent`, `NothingLeftBehind`). The invariant is about one sequence, `Line`:
the receiver's buffer, what is under way, and what the sender keeps, as long as it can
still send. Unless the sender has torn a frame, `Line` is `Chained`: each piece is
followed by the next of its frame, or the last of a frame by the first of a later one;
all of it was sent and comes after what was decoded (`Ordered`), and while the sender
can send it ends where a frame ends (`Boundary`), so that the next frame may follow.
`OnWrite` may drop what is left of its buffer only where a frame begins, or else the
frame is torn: that is the condition `torn` of the property. Reading moves bytes from
one part of the line to the next; decoding takes whole frames off its front
(`ReadAndDecode`): at a boundary `DecodeFrame` returns the frame that begins there
(`DecodeFacts`), and never stops in the middle of one. `DecodeMsg`'s loop is the
recursive function `Parsed`; that it exists (`ParseExists`) and what it returns
(`DecodesWellFrom`) follow from the least number of pieces left for which they do not.

`Connections_proofs`, of `ServerConnections`, for any set of objects, any delay and any interval:
`ServerListsCorrect` (`DeletedOnce`), `MessagesDieFirst` (`QuietOutlivesMessages`)
and `ReleasedAreDeleted` (`ReleasedIsDeleted`). The invariant `ServerInv` adds to
`DeletedOnce` that the object being accepted is in no list yet (`ListsOK`), that a
message which names a quiet connection is at least as old as its release
(`QuietOK`), and that no entry is older than the delay and the time since the last
sweep together while the next sweep is not due (`SweptOK`). A sweep that deletes an
object finds it older than the delay, and a message older than that contradicts
`ServerAssumption`.

Of `ClientRouting`, for any finite set of threads, any number of clients and
any width of the counter: `RoutingTypes`, `BusyCorrect` (`BusyHasOneOwner`) and
`SearchCorrect` (`UndisturbedSearchSeesAll`). The owners are the threads that have
taken the client and its requests on the IO thread; the property is inductive
as it stands, because a client that was freed early is left out of it for good and
one whose request was refused is still busy, so that nobody takes it. The
owners of a client are counted by the cardinality of its holders, which a step
changes by one thread at most (`HolderAdded`, `HolderRemoved`); every other step
leaves holders, requests and the busy flag of a client as they are (`Kept`).

Assumptions: `SizeAssumption` and `KeyAssumption` (a heap starts with at least
two slots, keys are integers), `RingAssumption` (producers are not consumers,
the size is a natural number), `CoroAssumption` (at least one coroutine, bounds are
natural numbers), `ServerAssumption` (no message is under way longer than a released
connection is kept; without it the sweep may delete an object that a message names),
`RoutingAssumption` (finitely many threads, at least one client, a counter of even
width no wider than `size_t`), in `AsyncRequest` `ClientAssumption` (finitely many
messages, timeouts above zero), `DriverAssumption` (a table that grows by at least
one), in `ClientConnection` `ClientAssumption` (at least one socket; requests,
heartbeats and sockets are told apart), `LifecycleAssumption` (at least one service
thread), `MatrixAssumption` (finitely many senders, queues of at least one item),
`ItemAssumption` (an item has one of the five operations),
`BufferAssumption` (a first block of at least one byte; what is written is bytes),
`StreamAssumption` (a frame is at least as long as its header; the other sizes are
natural numbers).

Two properties were wrong as they stood, and only the attempt to prove them showed
it, because the runs' bounds are too small for the counterexample:

* `NoEarlyTimeout` had no condition. With six requests `ProcessTimer` pops another
  request's timer, that request is answered, its `CancelTimer` erases a node that is
  no longer in the heap and so puts a live node into a second slot; when that node's
  second copy comes to the top its message is gone, and `OnTimer` may read any id.
  Hence `robbed`.
* `ClientInv` was conditional on heartbeats only. With enough sockets an attempt to
  connect is given up by the IO thread between `WaitConnected` and `SetConnected`,
  and the reconnect thread calls the client connected without a socket, or with the
  next one. Hence `overtaken`.

Four more had conditions missing because the model left out a step of the code, and
TLC found it as soon as the step was there: with the protocols' way of dividing what
was read into messages, `AnswersMatch` needs `OneAnswerEach`; with the frees on any
read and the refusals that free nobody, `BusyHasOneOwner` needs `early` and `leaked`;
with `ProcessTimer`'s `Pop` after a timeout of another connection, `RequestsReleased`
needs `robbed`; and over texts of more than 18 bytes base64 reads back only if the
line breaks fit.

Only model-checked: liveness and fairness (`AnswerReleases`, `CallsReturn`,
`RequestsReleased` and the like; this prover has no rules for `WF`, `SF` and
`ENABLED`); and the HTTP parser, codecs, files and sockets of `sequential`,
whose properties compare recursive definitions over data.

## 6. Plan

Theorems: `NoDescriptorLost` of `Socket` for every set of failing calls, a case
split without recursion; `sequential` checks every such set already.
Modules: the reconnect thread's timer heap with `StartTimer` between
`ProcessTimer`'s accesses, and the acceptor's spare descriptor.

## 7. Not modelled

* Logging, time, memory profile, message factory (`common/`): thin wrappers; a
  clock is a variable of the modules that need one, and allocation never fails.
* Configuration and command line (`app/config_info`, `app/app_cmd_parser`):
  straight-line reading of settings with defaults; the reader is `IniFile`.
* Tests, examples and vendored code, but for the parser's state machine.
* Of what is modelled: HTTP/1.0, trailers, and the bytes inside a header or a
  url (`http_parser_parse_url`); conversions between character sets and of
  numbers; the monitor's report and log files, whose rotation opens the new file
  into a variable that hides the old (`monitor/matrix_collector.cpp:148`); the
  plain service handler's callbacks; `Clear` of the timer and the coroutines' end.

Hazards in the code that no property covers, beside those in `PROJECT.json`:

* `StartTimer` and `CancelTimer` of the reconnect thread take a lock that
  `ProcessTimer` does not take (`net/client_reconnect_thread.cpp:27`); an access to
  that heap is one step in `ClientConnection`.
* A connection that its server's peer has closed is shut down and never released
  (`net/server_connect.cpp:19`); only a close by the application releases one.
* The acceptor's spare descriptor may be taken by another thread
  (`net_thread_mgr/acceptor_thread.cpp:112`).
* A stopped client's null connection is used by a call that had chosen it before
  (`client/client.cpp:119`); `ClientRouting` has the step (`NullUsed`), and the model ends there.
* `errno` is read before it is known that `connect` has failed
  (`net/client_connect.cpp:59`); an epoll descriptor is lost when `epoll_ctl` fails
  (`:184`).
* The parser of an HTTP client keeps its error over connections
  (`protocol/http/http_protocol.cpp:39`): `ClientConnection` has it (`parser`), and
  `AnswersMatch` and `OneOutstanding` say nothing once an answer has been cut. A
  handler's own `content-length` is written a second time (`:242`).
* What a write could not send waits for the next message (`net/connect.cpp:183`).
* `stat_map_` is replaced by one thread while others copy it
  (`monitor/matrix_collector.cpp:162`).
