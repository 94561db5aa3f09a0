# A TLA+ model of libxv

libxv is a small event library in C: an event loop over epoll, a way to wake a
loop from another thread, worker threads and a thread pool, a byte buffer, and on
top of them a multi-threaded TCP service with user callbacks. This directory
models its core in TLA+, checks it with TLC on small instances and proves the
parts that rest on an invariant with TLAPS for every instance.

## 1. Inventory

| Part | State | Operations | Interacts with |
|---|---|---|---|
| `xv_buffer` | memory, size, read and write index | write, read, ensure space, advance an index, clear; compaction and growth inside | filled and flushed by the service's read and write handlers, read and written by user encode/decode |
| `xv_queue` | linked nodes, size, mutex | push, pop, size, destroy | the three channels between threads |
| `xv_async` | eventfd, an `xv_io_t` | start, stop, send, destroy; callback on readable | wakes the loop that drains a queue |
| `xv_loop`, `xv_io` | table fd -> (mask, read io, write io), setsize, start flag, batch of fired events | io init/start/stop/destroy; run, run once, run with timeout, break, resize | calls user callbacks, which call it back |
| `xv_poller` (epoll) | the kernel's interest set | add, delete, poll | kept in step by the loop |
| `xv_worker_thread`, `xv_thread_pool` | start flag, task queue, loop, thread | start, stop, push, destroy | run the service's requests |
| `xv_service` | listeners, IO threads with two queues each, connections (status, reference count, buffers, two io's), messages, table of connections | accept, distribute, read, decode, process, return, write, close; send_message; start, stop, destroy | all of the above |
| `xv_socket`, `xv_log`, `xv_atomic` | – | system call wrappers, output, atomic integers | everywhere |
| `xv_select`, `xv_timer`, `xv_signal` | – | stubs | – |

What is hard here, and what would make each part correct:

* **Buffer.** Growth and compaction rearrange bytes between any two calls. It must
  remain a byte stream, with its indices ordered, in bounded memory.
* **Handing work to a loop.** Push and wakeup are two steps, wakeups collapse, the
  eventfd has a limit, and the consumer clears it before looking. Nothing may be
  forgotten, and order is kept.
* **Loop.** Callbacks change the registrations while a batch of fired events is
  handled. Loop and epoll must agree, no stopped or freed `xv_io_t` may be called,
  and none that is ready may starve.
* **Pool.** Stop, restart and destroy race with workers that are asleep, busy or
  not yet begun. One thread per loop; destroy returns; tasks run.
* **Service.** A request crosses three threads and its connection may be closed
  from any of several events meanwhile; descriptors are reused. Reference counts,
  table and descriptors must stay exact, answers in order, and everything must be
  released in the end.

The full list of hazards, with lines and properties, is in `PROJECT.json`.

## 2. Plan

Order of work, the most important behaviour first. Done:

1. `XvByteStream`, `XvBuffer`, `XvBufferProofs`
2. `XvFifo`, `XvChannel`, `XvChannelProofs`; `XvQueue` adds the list of nodes,
   `XvQueueProofs`
3. `XvService` (uses the channel as a FIFO, which is what `XvChannel` shows), with
   the growth of the connection table; `XvServiceInv`, `XvServiceProofs`
4. `XvLoop`, `XvLoopProofs`
5. `XvThPool`, `XvThPoolProofs`
6. `XvRoom`, on top of `XvService`: `xv_service_send_message`; `XvRoomInv`,
   `XvRoomProofs`
7. `XvShutdown`, on top of `XvService`: start, run, stop and destroy;
   `XvShutdownInv`, `XvShutdownProofs`

Left out, and worth a module of its own if the test clients ever become part of the
library: the partial-transfer loops of `xv_block_read` and `xv_block_write`.

## 3. Modules

**XvBuffer** (`xv_buffer.c`). The record `buffer` is the `xv_buffer_t`; memory is a
function on `0..size-1` whose fresh cells hold `Garbage`. One operator per C
function, one action per public call; `Fill` and `Flush` are the two sequences in
which the service uses `write_begin`/`incr_write_index` and
`read_begin`/`incr_read_index` around a system call. Bytes are numbered in the
order in which they are written, so that any loss or exchange shows. `XvByteStream` is the promise; the mapping
sends the buffer to the bytes between the two indices.

**XvChannel** (`xv_queue.c`, `xv_async.c`, and the callback that drains a queue).
`task_queue`, `conn_queue` and `message_queue` have the same shape and are one
module. A mutex-protected queue operation is one step; the steps between them are
interleaved with the producers. `EvMax` stands for the eventfd's limit. `XvFifo` is
the promise.

**XvQueue** (`xv_queue.c`) adds to the channel the linked list inside the queue: every
push and pop of the channel is one of the list in the same step, so the list cannot
restrict the channel, and the invariant `ListHoldsQueue` ties the two. Nodes are cells
at addresses that are reused (any number of them); the `next` that `xv_queue_push` does not set is
`Garbage`.

**XvLoop** (`xv.c`, `xv_epoll.c`). `event`, `read_io`, `write_io` are
`loop->events[fd]`, `interest` is epoll's copy, `ready` the condition of each
descriptor. User code runs in callbacks and while the loop is not running; it may
do anything the library's own users do: it starts one `xv_io_t` for a descriptor
and event, and does not close a descriptor with a started one. An `xv_io_t` may be
freed and its address reused within a batch. The order of a batch is arbitrary.
A condition other than a socket's is not considered (for a pipe, EPOLLHUP comes
without EPOLLIN, and `xv_poller_poll` reports it as writeable only).

**XvThPool** (`xv_th_pool.c`). The owner's calls go over the workers one at a time
and interleave with the workers and with one pusher, whose push and wakeup are two
steps. The owner destroys only a pool that was started (joining a thread never
created is undefined) and only when nobody pushes.

**XvService** (`xv_service.c`). IO threads are program counters: a handler is cut
where another thread can see the difference, in particular between the steps of
`xv_connection_close`. The peers' requests are numbered units; the user's `process`
sets them as the response, as in `tests/xv_service_test.c`, or sets none (`Answers`).
Handles without `decode` or `process` do not occur. `Decode` says how many of the
units in the read buffer a decoder takes, `Hangup` which peers may go. The drained
queues are FIFOs; between two items the model lets the IO thread handle other events,
which the code does only between batches: the model has more interleavings than the
code, and the counterexamples below need none of the extra ones. The connection table
is a function on its indices. It grows in two steps, the copy and the assignment of
the new pointer (`Grow`, `GrowDone`), its fresh entries are `Garbage`, and a store past
the end is a store outside `0..conn_setsize-1`.

**XvServiceInv** states why the service's properties hold: the inductive invariant,
as a conjunction of named parts. It is a module of its own so that TLC checks the very
formula that `XvServiceProofs` proves. **XvRoomInv** and **XvShutdownInv** do the same for
`XvRoom` and `XvShutdown`; both reuse the parts of `XvServiceInv`. `XvRoomInv` also states
`OneConversation`, which says of no variable but of a sequence that exists: see section 6.

**XvRoom** is `XvService` used as in `tests/xv_service_room_test.c`. The user's
`on_connect` and `on_disconnect` are steps of the IO thread between the library's,
`process` is a for loop over `conn_array` in a worker, and `xv_service_send_message` is
cut at its three accesses to the connection: the test of `status`, the reference, and
`conn->io_thread`. `conn_array` is the set of connections in it, each at its
descriptor. With `Assembled`, peers speak once every connection has reached its IO
thread. After `DropMessage` has freed a connection to which another message points
(the variant "two requests in flight" below) the program's behaviour is undefined, and
behaviours are considered up to there (`Defined`).

**XvShutdown** is `XvService` from `xv_service_add_listen` to the end of
`xv_service_destroy`. The main thread has a program counter, and so has the SIGINT
handler of the tests, which calls `xv_service_stop` and runs in the main thread, at
whatever point main is. (The kernel may run it in another thread of the process; then
it interrupts that one.) `stop` and `destroy` go over the listener, the table and the
threads one at a time while IO threads and workers run. Stop's walk over the table takes
no lock, and each of its accesses is a step: the test of `connections[i]` (`TestConn`,
`:777`), the second read, followed to the loop (`FollowConn`), the third, which is the
argument (`PassConn`, `:778`), and the stop of each of the two events (`StopReadIo`,
`StopWriteIo`, `:80`, `:81`). A compiler may read once for two of them; that is the case
in which nothing happened in between. A step that would follow a NULL or freed pointer
is not enabled and the behaviour ends before it; `StopSafe` and `DestroySafe` say that
the program does not stand before one. With `Quiet`, stop is called at a moment when the leader is in its loop and no request and
no new connection is under way, and peers are silent from then on; output that a peer
has not read may be waiting, and followers may not have entered their loops or not have
been created. When the signal comes before main has called `xv_service_run`, that call
returns XV_ERR and main gives up, as the tests do (`gave_up`). A thread that enters after
the stop starts its two asyncs again, so that `xv_async_destroy` refuses them and two
descriptors stay open until the process ends; the model does not follow the asyncs. `xv_service_destroy` frees the connections and leaves
their descriptors open until the process ends; the model keeps that (`FreeConn` does
not touch `fdOwner`). A service that is stopped is not started again: `loop->start` is
never set a second time.

Operators named "Faulty variant" in comments are not part of the specifications:
each is a definition changed the way a plausible mistake would change it, and the
property named with it in `PROJECT.json` ("mutants") fails when it takes the
original's place.

## 4. Runs

| Run | Instance | Shows |
|---|---|---|
| `buffer` | size 4, compaction above 2, writes up to 2, backlog up to 3, 16 bytes | invariant, ordered indices, bounded memory, implements `XvByteStream` |
| `channel` | 3 producers, 2 items each, eventfd limit 2 | invariant, no lost wakeup, the list is the queue, implements `XvFifo` with its liveness |
| `loop` | 2 `xv_io_t`, 2 descriptors, 3 conditions | loop and epoll agree, only started `xv_io_t`s are called, ready ones are called |
| `pool` | 2 workers, 3 tasks | one thread a loop, destroy returns, tasks run |
| `reqreply` | 2 connections, 2 descriptors, leader, 2 followers, 2 workers; hangups, write errors, bad packets; a peer waits for each answer | the inductive invariant; references, messages, table, descriptors exact; closing final; disconnect noticed |
| `inline` | 2 connections, 1 IO thread, no workers, hangups, bad packets; the table has 2 entries and the descriptors are 1 and 3 | a connection is released completely and eventually; the table grows and keeps its entries |
| `room` | 2 members, one may leave; leader, 2 followers, 2 workers; one unit each | the inductive invariant `RoomInv`; senders work on live connections, references exact, one conversation for all, everything said arrives |
| `shutdown` | 2 connections, 3 units, 2 ahead; leader, 1 follower, 2 workers; stop at any quiet moment, also before the follower has entered its loop | the inductive invariant `ShutdownInv`; answers in order and complete; destroy safe; no thread and no connection left; shutdown ends, since `xv_loop_run_timeout` does not set `loop->start` again |

The bounds let every interesting case happen: the buffer is compacted and grown
several times; the eventfd reaches its limit; a batch holds two descriptors of which
one is closed and reopened by the other's callback; descriptors are reused by a
second connection while the first is being released; partial writes leave output
behind for the next response; the list is emptied and filled again with reused
nodes; a member leaves between the test of its status and the message sent to it;
peers connect before the first IO thread runs, and threads are broken out of the
poller in any order. `CHECK_DEADLOCK FALSE` stands where the
system may come to rest: every bounded producer or peer has finished, a loop or pool
is destroyed.

### Disagreements between code and comments

| Run | Property violated | What happens |
|---|---|---|
| `stop_race` | `StopSafe` | a stop at a moment without any request, as a peer has just gone: the IO thread's `xv_connection_close` clears the entry and frees the connection (`:356-361`) between stop's test of `connections[i]` and its uses (`:777-778`). The table is said to be "not thread safe, but just leader io call this function" (`:337`), and the tests call `xv_service_stop` from a signal handler while the IO threads run (`tests/xv_service_test.c:139`). |
| `hangup_in_flight` | `FreedIsReleased` | one request in the pool is enough to have the connection freed with its descriptor open and its entry in the table ("close last but before destroy", `:358`). |
| `room_early` | `SenderSafe` | a member speaks while another connection waits in its follower's `conn_queue`: `on_connect` has put it in `conn_array` (`tests/xv_service_room_test.c:98`), the worker sends to it (`:64`), and `xv_service_send_message` follows `conn->io_thread`, which is NULL (`xv_service.c:374`). |
| `loop_grow` | `EntriesAllocated` | a descriptor at or above setsize: `fired_events` is reallocated from `loop->events` (`xv.c:137`), whose memory is then used for the registration. After this step the behaviour is undefined; the model goes on as if the old contents were still there, and the property is already violated. |

The passing runs keep out of these cases by their constants: `reqreply` has one
request of a peer in flight and claims no release; `inline` has no worker and no write
error; `room` has `Assembled`; `shutdown` has `Quiet` and no hangups.

### Variants

How far those constants carry is shown by changing one of them. Each of these was
checked with TLC and fails as described; they are not runs of their own because they
concern the same lines or the same step as a run.

* *Two requests in flight* (`MCHangupInFlight.cfg` with `MaxReq` and `Depth` 2):
  `MessagesPinConnection` fails. A peer hangs up with two requests in the pool, the
  first that returns frees the connection (`xv_service.c:278`), the second points to
  it, although `xv_connection_close` kept it because "some xv_message_t ref to this
  xv_connection_t" (`:351`).
* *A write that fails* (`MCInline.cfg` with `WriteFails` TRUE): `HangupReleases` fails. A
  failed write in `process_message` marks the connection, `xv_connection_close` finds the
  message that is being written as a reference (`:352`) and returns, and nobody comes back
  to "close connection now" (`:415`). With write errors, `reqreply` checks what does hold:
  `on_disconnect` is called, once, and nothing is written afterwards.
* *Growth with a follower* (`MCInline.cfg` with `NIo` 2): `TableExact` and
  `FreedIsReleased` fail. A follower deletes its connection from the old block after the
  leader has copied it. The comment at `:676`, "not thread safe, but just leader io call
  this function", does not hold of `xv_service_del_connection`.
* *A descriptor equal to the size* (`MCInline.cfg` with `Fds` `{1, 2}`): `TableExact`
  fails. `:680` tests `>`, so the entry is stored one past the end.
* *A stop at any time* (`MCStopRace.cfg` with `Quiet` FALSE and no hangups): `StopSafe`
  fails without any connection being closed. Before
  the leader runs, `listener->io_thread` is NULL (`:770`); while a connection is on its
  way to its follower, its `io_thread` is (`:778`). `DestroySafe` fails as well
  (`MCShutdown.cfg` with `Quiet` FALSE): a request
  that is in the pool at that moment returns to a queue nobody drains, and points to a
  connection that destroy frees.
* *A main that goes on* (`MCShutdown.cfg` with "free_listener" for "gave_up" in
  `xv_service_run`): `DestroySafe` fails. A signal between `xv_service_start` and
  `xv_service_run` has the latter return XV_ERR (`:741`) without joining anybody; the
  tests assert that it succeeds, so their main does not come to destroy.

## 5. Fairness

Weak fairness only, of steps the operating system or a callback's return
guarantees: a loop's thread runs, callbacks and tasks return, a sender that has
pushed goes on to its wakeup, a call of the pool's owner goes on, a socket whose peer reads becomes
writeable. In `XvRoom` and `XvShutdown` it is the weakest form: as long as some thread of the
program can take a step, one does. That is enough because nothing the program does there
can go on for ever. That a broken loop is left does not need an event: IO threads poll with a timeout
of 10 ms (`xv_service.c:601`). Nobody has to send the signal. Peers, users and pushers owe nothing: whatever they may do, they may also
not do.

## 6. Proofs

* `XvBufferProofs`: from the assumption `BufferConstants` on the constants only
  (sizes are naturals). The inductive invariant `BufferInv` joins the ordered
  indices, the content (each readable cell holds the byte of its number) and the
  bound; the bound alone is not inductive, since it needs that a buffer that was
  not compacted has its read index below a threshold (`Compacted`). The refinement
  to `XvByteStream` follows from what each operation does to the readable part.
* `XvChannelProofs`: `ChannelInv` is `NoLostWakeup` with the types and what the
  consumer knows at "pop" and "run"; `ChannelIsOrdered` is the step simulation of
  `XvFifo`.
* `XvLoopProofs`: `LoopInv` joins `PollerInSync` and `TableMatches`; each needs the
  other (which epoll operation is right depends on the mask, and the mask on the
  pointers), plus the fields of allocated `xv_io_t`s. The hypothesis `FdsFit`, every descriptor
  is below setsize, excludes the growth that `loop_grow` shows to fail.
  `StopIsImmediate` is an action property from that invariant.

* `XvQueueProofs`: `QueueInv` adds to `ChannelInv` that the list holds the queue
  (`ListHoldsQueue`) and that no item is queued twice. The proof goes through `Chain`,
  the addresses of the nodes in order: they are distinct, so a push at the tail or the
  free of the head leaves the other nodes alone. That the list never restricts the
  channel is the refinement `QueueIsChannel`.
* `XvThPoolProofs`: one thread a loop is not inductive alone. What keeps a second
  start from creating a second thread is that the worker's async is started exactly
  while a thread exists (`AsyncMarksThread`); a stop leaves it started, and only destroy
  stops it.
* `XvServiceProofs`, for any number of connections, IO threads, workers, descriptors
  and requests, from the assumptions on the constants in `XvService` only. The invariant
  has layers, each resting on those before it:
  - `CoreInv`, without further hypothesis, gives `RefCounted`, `OwnDescriptor` and
    `ClosedIsFinal`. A connection is at one place on its way to its IO thread
    (`OneWay`), and only that thread handles it, with a status that fits the step
    (`OwnerHandles`): that is why closing does not race with itself. A message is in one
    queue or one hand (`OnePlace`), so that a decrement happens once for it; the next
    request is new because those that exist are of decoded units (`RequestsDecoded`). With
    these `ref_count` is one plus the messages (`RefExact`), a connection that reaches
    `xv_service_del_connection` has none, and it still owns its descriptor
    (`DescriptorsOwned`), whoever reuses it afterwards.
  - `OrderInv` gives `EchoInOrder`, also without hypothesis. It needs that every task
    goes to the same worker (`OneWorker`: the hashcode passed at `xv_service.c:458` is 1
    for every task), that a message ahead of another of its connection is of earlier units
    (`InOrder`), and that the units decoded and not yet answered are exactly those
    of the messages on their way (`Covers`).
  - `TableInv` gives `TableExact` when every descriptor is below the table's first size
    (`FdsFit`). The variants "growth with a follower" and "a descriptor equal to the
    size" fail without it.
  - `PinInv` gives `MessagesPinConnection` when there are no workers, or when a peer
    waits for each answer (`Depth = 1`). The second case needs `NothingLost` (a message
    is always somewhere) and `SendsAhead`, which make one request in flight at a time
    (`OneInFlight`) a fact about the program and not an assumption. "Two requests in
    flight" fails.
  - `ReleasedInv` gives `FreedIsReleased` when there are no workers and `FdsFit`; with
    one request in the pool it fails (`hangup_in_flight`).
  - `OnTheWay`, `OutputKept` and `Listed` are what stop and destroy rely on: a connection
    has its IO thread or is on the way to it, output that waits is watched, and what
    exists can be found in the table.

  `NextRefs` and `NextDescriptors` are stated for a user who holds any references of
  his own (`RefsAre(e)`): with none they serve the service, with those of `on_connect`
  the room.
* `XvShutdownProofs`. The service below is that of `XvService`, so `CoreInv`, `OrderInv`,
  `NothingLost` and the table's layer come from the service's lemmas for all steps but
  those of main and the handler that touch it (`FreeConn`, `StopConn`, `StopListener`);
  these only take things away (`Aside`), and everything the service knows survives that.
  New are `ControlInv`, what main, the handler and the threads may take for granted of
  each other (an IO thread ends only after its loop was broken, destroy begins only when
  all have ended), `Silent`, what a quiet stop leaves to do, and, index by index, what
  stop has stopped and destroy has freed (`StoppedSoFar`, `FreedSoFar`). The latter need,
  for the connection in stop's hand, that an entry is cleared but never replaced.
  - Without hypothesis: `ShutdownInvariant`; `EchoUntilTheEnd`, the answers are in order
    through stop and destroy; `OutputUntilStop`, output that could not be written is
    watched until stop; `ThreadsJoined`, every IO thread has ended before destroy
    begins, and every worker when main is done.
  - `StopIsSafe`: each access of a quiet stop finds what it follows, when descriptors fit
    the table and nobody leaves. It rests on `StopHolds`: the entry that was tested, and the
    connection passed on, are those still in the table. That nobody leaves is needed,
    with workers or without: `stop_race` fails with one peer that goes.
  - For an `Orderly` service: `DestroyIsSafe`, `NothingIsLeft`, for the behaviours that come
    to destroy, thus in which stop has not met a connection being closed. `Orderly` is
    `Quiet` (the variant "a stop at any time" fails without it), `FdsFit` (a table that
    has grown has entries that are `Garbage`, and stop and destroy follow them), and that
    there are no workers or nobody leaves (with a request in the pool, `DropMessage` frees
    a connection that stays in the table, and destroy frees it again).
* `XvRoomProofs`. A step of the library in the room is a step of the service and its
  lemmas apply; new is that a worker makes messages for connections it does not own.
  - Without hypothesis: `RoomInvariant` and `RoomRefExact`. A member stays in existence
    while it is in `conn_array`: only its owner destroys it, and the owner calls
    `on_disconnect` first, which waits for the mutex (`Members`, `Locked`). A message sent
    is new, which `OnePlace` needs: the for loop is past the index of every message already
    sent for the request in hand (`SentOnce`; that the loop has a next index is
    `LeastIndex`, from the well-foundedness of `<`), and requests differ
    (`RequestsDistinct`).
  - In an assembled room: `SendIsSafe`; `room_early` fails without the hypothesis.
  - In an assembled room: `OneRoom`, everybody reads the same conversation. A member who
    comes after somebody has spoken has missed it, so the hypothesis is needed. The
    conversation itself is in no variable of the program. `OneConversation` says that
    there is a sequence `L` of units, and a place in it for each request, such that every
    member has got a beginning of `L` and an open member has all the rest coming to it:
    each later unit of `L` is in a message in its IO thread's queue or hand or on a
    worker's stack, or in the request in a worker's hand whose for loop has not come to the
    member (`Due`, `Complete`); what is behind another message in a queue is later in `L`
    (`InTurn`). A worker that takes a request appends it to `L`; this is right because one
    worker takes them all (`OneTaker`) and has finished with the one before. A reply then
    is always to the next part (`RepliedInTurn`), and all other steps leave what is due as
    it was (`Unheard`) or exchange a request for the message made from it (`Alike`). TLC
    cannot enumerate all sequences `L`; with `L` bounded by what the instance of the run
    `room` can say, `OneConversation` was checked there before it was proved.

Only model-checked: all liveness (the prover has no fairness), hence the second half
of `ImplementsFifo`, and `Delivered`, `AnsweredUntilStop` and `ShutdownEnds`; `TableExact`
and `FreedIsReleased` while the table grows (run `inline`); and the disagreements of
section 4, which are counterexamples.

## 7. Not modelled

`xv_select`, `xv_timer`, `xv_signal` are empty in the source. `xv_log` formats
and prints. Of `xv_socket`, accept, listen and close are in the service's modules;
connect and the blocking transfers are used by test clients only, and socket options
change nothing that is modelled. Allocation failure is not handled by the
code and not considered; nor is a `pthread_create` that fails, after which the
tests give up. The getters and setters change nothing another part
depends on. Several listeners behave like one: they are all served by the leader.
A service that has been stopped cannot be started again, and one that was never started
cannot be destroyed when it has workers (`xv_worker_thread_destroy` joins a thread that
was never created); neither is attempted. A decoder that leaves packets in the
read buffer (`Decode = "framed"`) is checked for peers that wait for each answer.
