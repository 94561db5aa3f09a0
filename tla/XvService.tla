------------------------------ MODULE XvService ------------------------------
(***************************************************************************)
(* The life of the connections of a running service (xv_service.c).        *)
(*                                                                         *)
(* IO thread 0, the leader, accepts.  With one IO thread it keeps the      *)
(* connection; with more it hands it to a follower through the follower's  *)
(* conn_queue.  The owner reads, decodes and, without a worker pool,       *)
(* processes the request itself; with one, it pushes a task, the worker    *)
(* processes it and returns the message through the owner's message_queue, *)
(* and the owner writes the response.  A message holds a reference to its  *)
(* connection from xv_message_init to xv_message_destroy.                  *)
(*                                                                         *)
(* The three queues are FIFOs whose items are all handled, which is what   *)
(* XvChannel shows of them.  An event of a loop is handled to its end      *)
(* before the next one; within a handler there is a step boundary wherever *)
(* another thread can see the difference.                                  *)
(*                                                                         *)
(* Data: a request is the next units of the peer's stream.  The user's     *)
(* process either sets the same units as the response (Answers), as that   *)
(* of xv_service_test.c does, or sets none.                                *)
(***************************************************************************)
EXTENDS Integers, Sequences, FiniteSets

CONSTANTS
    Conns,          \* the connections peers open, one xv_connection_t each
    NULL,
    NIo,            \* config.io_thread_count
    NWorkers,       \* config.worker_thread_count
    Garbage,        \* what memory holds that nobody has initialised
    Fds,            \* the descriptors that are available to connections
    ConnSetSize,    \* XV_DEFAULT_LOOP_SIZE, the table's first size
    MaxReq,         \* how many units a peer sends
    Depth,          \* how many units a peer sends ahead of the answers
    Decode,         \* the user's decoder: "framed" takes one unit a call,
                    \* "drain" everything in the read buffer
    Answers,        \* the connections for whose requests the user's process
                    \* sets a response
    Hangup,         \* the peers that may close or reset their connection
    WriteFails,     \* write(2) may fail once the peer is gone
    BadPackets      \* decode may return XV_ERR

ASSUME ServiceConstants ==
    /\ {NULL, Garbage} \cap Conns = {}
    /\ NULL # Garbage /\ NULL \notin Nat
    /\ NIo \in Nat \ {0}
    /\ NWorkers \in Nat
    /\ Fds \subseteq Nat \ {0}
    /\ ConnSetSize \in Nat \ {0}
    /\ MaxReq \in Nat
    /\ Depth \in Nat \ {0}
    /\ Decode \in {"framed", "drain"}
    /\ Hangup \subseteq Conns
    /\ Answers \subseteq Conns
    /\ {WriteFails, BadPackets} \subseteq BOOLEAN

VARIABLES
    mem,            \* the xv_connection_t: "none", "live" or "freed"
    status,         \* conn->status
    ref,            \* conn->ref_count
    io_thread,      \* conn->io_thread, an index or NULL
    fd,             \* conn->fd
    rio, wio,       \* conn->read_io->start, conn->write_io->start
    nread, ndec,    \* units read from the socket, units decoded
    wbuf,           \* conn->write_buffer
    outp,           \* units written to the socket
    ndisc,          \* calls of on_disconnect
    msgs,           \* the xv_message_t's that exist
    table,          \* service->connections, from index 0 on
    new_table,      \* what xv_realloc has returned and service->connections
                    \* does not point to yet, or << >>
    conn_setsize,   \* service->conn_setsize
    conn_count,     \* service->conn_count
    conn_queue, message_queue,  \* of each IO thread
    task_queue,     \* of each worker
    iopc, ioc, iom, ioret,      \* where an IO thread is: label, connection,
                                \* message, label to return to from a close
    whand,          \* the message a worker is processing
    fdOwner,        \* the kernel: whose socket a descriptor is
    peer,           \* the peers: "idle", "up" or "gone"
    backlog,        \* connections the leader has not accepted
    nsent           \* units the peer has sent

connVars   == <<mem, status, ref, io_thread, fd, rio, wio, ndisc>>
streamVars == <<nread, ndec, wbuf, outp>>
tableVars  == <<table, new_table, conn_setsize, conn_count>>
queueVars  == <<conn_queue, message_queue, task_queue>>
ioVars     == <<iopc, ioc, iom, ioret>>
peerVars   == <<peer, backlog, nsent>>

vars == <<connVars, streamVars, tableVars, queueVars, ioVars, peerVars,
          msgs, whand, fdOwner>>

IoThreads == 0..(NIo - 1)
Workers   == 0..(NWorkers - 1)

(* An xv_message_t: the connection it belongs to, and the units lo..hi of  *)
(* the peer `from` that it carries, as its request or, when it was made by *)
(* xv_service_send_message, as its response.                               *)
Messages  == {m \in [conn : Conns, from : Conns, lo : 1..MaxReq,
                     hi : 1..MaxReq, sent : BOOLEAN] : m.lo <= m.hi}

ASSUME NullIsNoMessage == NULL \notin Messages

(* A unit in a write buffer or on the wire. *)
Unit == Conns \X (1..MaxReq)

Init ==
    /\ mem = [c \in Conns |-> "none"]
    /\ status = [c \in Conns |-> "OPEN"]
    /\ ref = [c \in Conns |-> 0]
    /\ io_thread = [c \in Conns |-> NULL]
    /\ fd = [c \in Conns |-> 0]
    /\ rio = [c \in Conns |-> FALSE]
    /\ wio = [c \in Conns |-> FALSE]
    /\ ndisc = [c \in Conns |-> 0]
    /\ nread = [c \in Conns |-> 0]
    /\ ndec = [c \in Conns |-> 0]
    /\ wbuf = [c \in Conns |-> << >>]
    /\ outp = [c \in Conns |-> << >>]
    /\ msgs = {}
    /\ table = [i \in 0..(ConnSetSize - 1) |-> NULL]
    /\ new_table = << >>
    /\ conn_setsize = ConnSetSize
    /\ conn_count = 0
    /\ conn_queue = [t \in IoThreads |-> << >>]
    /\ message_queue = [t \in IoThreads |-> << >>]
    /\ task_queue = [w \in Workers |-> << >>]
    /\ iopc = [t \in IoThreads |-> "poll"]
    /\ ioc = [t \in IoThreads |-> NULL]
    /\ iom = [t \in IoThreads |-> NULL]
    /\ ioret = [t \in IoThreads |-> "poll"]
    /\ whand = [w \in Workers |-> NULL]
    /\ fdOwner = [f \in Fds |-> NULL]
    /\ peer = [c \in Conns |-> "idle"]
    /\ backlog = {}
    /\ nsent = [c \in Conns |-> 0]

-----------------------------------------------------------------------------
(* The peers.                                                              *)

Connect(c) ==
    /\ peer[c] = "idle"
    /\ peer' = [peer EXCEPT ![c] = "up"]
    /\ backlog' = backlog \cup {c}
    /\ UNCHANGED <<connVars, streamVars, tableVars, queueVars, ioVars, msgs,
                   whand, fdOwner, nsent>>

(* How many of its own units a peer has got back. *)
Returned(c) == Cardinality({i \in 1..Len(outp[c]) : outp[c][i][1] = c})

PeerSend(c) ==
    /\ peer[c] = "up"
    /\ nsent[c] < MaxReq
    /\ nsent[c] - Returned(c) < Depth
    /\ nsent' = [nsent EXCEPT ![c] = nsent[c] + 1]
    /\ UNCHANGED <<connVars, streamVars, tableVars, queueVars, ioVars, msgs,
                   whand, fdOwner, peer, backlog>>

PeerClose(c) ==
    /\ c \in Hangup
    /\ peer[c] = "up"
    /\ peer' = [peer EXCEPT ![c] = "gone"]
    /\ UNCHANGED <<connVars, streamVars, tableVars, queueVars, ioVars, msgs,
                   whand, fdOwner, backlog, nsent>>

-----------------------------------------------------------------------------
(* Steps of an IO thread.                                                  *)

Goto(t, label, c, m, back) ==
    /\ iopc' = [iopc EXCEPT ![t] = label]
    /\ ioc' = [ioc EXCEPT ![t] = c]
    /\ iom' = [iom EXCEPT ![t] = m]
    /\ ioret' = [ioret EXCEPT ![t] = back]

BackToPoll(t) == Goto(t, "poll", NULL, NULL, "poll")

(* accept(2), tried again on EINTR, returns the lowest free descriptor. *)
xv_tcp_accept(c, f) ==
    /\ fdOwner[f] = NULL
    /\ \A g \in Fds : g < f => fdOwner[g] # NULL
    /\ fdOwner' = [fdOwner EXCEPT ![f] = c]

xv_connection_init(c, f) ==
    /\ mem' = [mem EXCEPT ![c] = "live"]
    /\ fd' = [fd EXCEPT ![c] = f]
    /\ ref' = [ref EXCEPT ![c] = 1]

(* connections[fd] = conn.  Nothing checks that fd is below the size: past *)
(* the end, the store goes to memory that is not the table's.              *)
Store(tab, f, c) == [i \in DOMAIN tab \cup {f} |-> IF i = f THEN c ELSE tab[i]]

(* xv_service_add_connection when the table is large enough. *)
xv_service_add_connection(c, f) ==
    /\ table' = Store(table, f, c)
    /\ conn_count' = conn_count + 1
    /\ UNCHANGED <<new_table, conn_setsize>>

MustGrow(f) == f > conn_setsize

(* on_new_connection, up to the user's on_connect.  When the table has to  *)
(* grow, this ends before xv_service_add_connection.                       *)
Accept(t, c) ==
    /\ t = 0 /\ iopc[t] = "poll" /\ c \in backlog
    /\ \E f \in Fds :
        /\ xv_tcp_accept(c, f)
        /\ xv_connection_init(c, f)
        /\ IF MustGrow(f)
           THEN UNCHANGED tableVars /\ Goto(t, "grow", c, NULL, "poll")
           ELSE xv_service_add_connection(c, f) /\ Goto(t, "accepted", c, NULL, "poll")
    /\ backlog' = backlog \ {c}
    /\ UNCHANGED <<streamVars, queueVars, status, io_thread, rio, wio, ndisc,
                   msgs, whand, peer, nsent>>

(* Faulty variant: a new block without the old entries. *)
Malloc(tab, n) == [i \in 0..(n - 1) |-> Garbage]

(* xv_realloc keeps the entries; nothing initialises the new ones. *)
Realloc(tab, n) ==
    [i \in 0..(n - 1) |-> IF i < n \div 2 THEN tab[i] ELSE Garbage]

(* xv_service_add_connection: the size doubles and xv_realloc copies the   *)
(* entries ...                                                             *)
Grow(t) ==
    /\ iopc[t] = "grow" /\ new_table = << >>
    /\ conn_setsize' = 2 * conn_setsize
    /\ new_table' = Realloc(table, conn_setsize')
    /\ UNCHANGED <<connVars, streamVars, queueVars, ioVars, peerVars, table,
                   conn_count, msgs, whand, fdOwner>>

(* ... and only then service->connections points to the copy. *)
GrowDone(t) ==
    /\ iopc[t] = "grow" /\ new_table # << >>
    /\ table' = Store(new_table, fd[ioc[t]], ioc[t])
    /\ new_table' = << >>
    /\ conn_count' = conn_count + 1
    /\ Goto(t, "accepted", ioc[t], NULL, "poll")
    /\ UNCHANGED <<connVars, streamVars, queueVars, peerVars, conn_setsize,
                   msgs, whand, fdOwner>>

(* on_new_connection when xv_nonblock or xv_tcp_nodelay fails: the         *)
(* descriptor is closed again and no xv_connection_t is made.              *)
AcceptFails(t, c) ==
    /\ t = 0 /\ iopc[t] = "poll" /\ c \in backlog
    /\ backlog' = backlog \ {c}
    /\ peer' = [peer EXCEPT ![c] = "gone"]
    /\ UNCHANGED <<connVars, streamVars, tableVars, queueVars, ioVars, msgs,
                   whand, fdOwner, nsent>>

(* on_new_connection, its end: keep the connection or hand it over. *)
FollowerOf(c) == (fd[c] % (NIo - 1)) + 1

Distribute(t) ==
    /\ iopc[t] = "accepted"
    /\ LET c == ioc[t]
       IN  IF NIo = 1
           THEN /\ io_thread' = [io_thread EXCEPT ![c] = t]
                /\ rio' = [rio EXCEPT ![c] = TRUE]
                /\ UNCHANGED conn_queue
           ELSE /\ conn_queue' = [conn_queue EXCEPT
                        ![FollowerOf(c)] = Append(@, c)]
                /\ UNCHANGED <<io_thread, rio>>
    /\ BackToPoll(t)
    /\ UNCHANGED <<streamVars, tableVars, peerVars, mem, status, ref, fd, wio,
                   ndisc, msgs, message_queue, task_queue, whand, fdOwner>>

(* io_thread_add_conn_cb, for one connection. *)
AddConn(t) ==
    /\ iopc[t] = "poll" /\ conn_queue[t] # << >>
    /\ LET c == Head(conn_queue[t])
       IN  /\ io_thread' = [io_thread EXCEPT ![c] = t]
           /\ rio' = [rio EXCEPT ![c] = TRUE]
    /\ conn_queue' = [conn_queue EXCEPT ![t] = Tail(@)]
    /\ UNCHANGED <<streamVars, tableVars, ioVars, peerVars, mem, status, ref,
                   fd, wio, ndisc, msgs, message_queue, task_queue, whand,
                   fdOwner>>

(* Atomic increment and decrement of conn->ref_count. *)
xv_connection_incr_ref(c) == ref' = [ref EXCEPT ![c] = @ + 1]

xv_connection_decr_ref(c) == ref' = [ref EXCEPT ![c] = @ - 1]

(* Faulty variant: the message takes no reference. *)
ForgetIncr(m) ==
    /\ msgs' = msgs \cup {m}
    /\ UNCHANGED ref

(* xv_message_init and xv_message_destroy. *)
xv_message_init(m) ==
    /\ msgs' = msgs \cup {m}
    /\ xv_connection_incr_ref(m.conn)

(* Faulty variant: the reference is not given back. *)
ForgetDecr(m) ==
    /\ msgs' = msgs \ {m}
    /\ UNCHANGED ref

xv_message_destroy(m) ==
    /\ msgs' = msgs \ {m}
    /\ xv_connection_decr_ref(m.conn)

(* Faulty variant: the address of the task chooses among the workers. *)
SpreadTasks(m) == (fd[m.conn] + m.lo) % NWorkers

(* xv_thread_pool_push_task takes its hashcode modulo the pool's size, and *)
(* the hashcode process_read_buffer passes is `((uint64_t)task) > 16`,     *)
(* which is 1 for every task.                                              *)
TaskIndex(m) == 1 % NWorkers

Readable(t, c) ==
    /\ iopc[t] = "poll" /\ io_thread[c] = t /\ rio[c]
    /\ status[c] # "CLOSED"

(* on_connection_read and process_read_buffer.  The read returns n units,  *)
(* decode makes one request of them, and the message goes to the pool or   *)
(* to the user's process in this thread.  (A read that fails with EAGAIN   *)
(* or brings less than a packet changes nothing.)                          *)
ReadRequest(t, c, n) ==
    /\ Readable(t, c)
    /\ nread[c] + n <= nsent[c]
    /\ nread' = [nread EXCEPT ![c] = @ + n]
    /\ LET m == [conn |-> c, from |-> c, sent |-> FALSE, lo |-> ndec[c] + 1,
                 hi |-> IF Decode = "framed" THEN ndec[c] + 1 ELSE nread[c] + n]
       IN  /\ ndec' = [ndec EXCEPT ![c] = m.hi]
           /\ xv_message_init(m)
           /\ IF NWorkers = 0
              THEN /\ Goto(t, "reply", c, m, "poll")
                   /\ UNCHANGED task_queue
              ELSE /\ task_queue' = [task_queue EXCEPT
                            ![TaskIndex(m)] = Append(@, m)]
                   /\ UNCHANGED ioVars
    /\ UNCHANGED <<tableVars, peerVars, mem, status, io_thread, fd, rio, wio,
                   ndisc, wbuf, outp, conn_queue, message_queue, whand, fdOwner>>

(* Faulty variant: read returning 0 is taken for EAGAIN. *)
IgnoreEof(t, c, n) ==
    /\ Readable(t, c)
    /\ BadPackets /\ n > 0 /\ nread[c] + n <= nsent[c]
    /\ nread' = [nread EXCEPT ![c] = @ + n]
    /\ Goto(t, "close", c, NULL, "poll")
    /\ UNCHANGED <<connVars, tableVars, peerVars, queueVars, ndec, wbuf, outp,
                   msgs, whand, fdOwner>>

(* The same when decode returns XV_ERR, and when read returns 0 or fails:  *)
(* xv_connection_close.                                                    *)
ReadAndClose(t, c, n) ==
    /\ Readable(t, c)
    /\ \/ BadPackets /\ n > 0 /\ nread[c] + n <= nsent[c]
       \/ peer[c] = "gone" /\ n = 0
    /\ nread' = [nread EXCEPT ![c] = @ + n]
    /\ Goto(t, "close", c, NULL, "poll")
    /\ UNCHANGED <<connVars, tableVars, peerVars, queueVars, ndec, wbuf, outp,
                   msgs, whand, fdOwner>>

(* io_thread_return_message_cb, for one message of an open connection. *)
ReturnMessage(t) ==
    /\ iopc[t] = "poll" /\ message_queue[t] # << >>
    /\ LET m == Head(message_queue[t])
       IN  /\ status[m.conn] # "CLOSED"
           /\ Goto(t, "reply", m.conn, m, "poll")
    /\ message_queue' = [message_queue EXCEPT ![t] = Tail(@)]
    /\ UNCHANGED <<connVars, streamVars, tableVars, peerVars, conn_queue,
                   task_queue, msgs, whand, fdOwner>>

xv_connection_destroy(c) == mem' = [mem EXCEPT ![c] = "freed"]

(* io_thread_return_message_cb, for a closed connection. *)
DropMessage(t) ==
    /\ iopc[t] = "poll" /\ message_queue[t] # << >>
    /\ LET m == Head(message_queue[t])
       IN  /\ status[m.conn] = "CLOSED"
           /\ xv_message_destroy(m)
           /\ xv_connection_destroy(m.conn)
    /\ message_queue' = [message_queue EXCEPT ![t] = Tail(@)]
    /\ UNCHANGED <<streamVars, tableVars, ioVars, peerVars, status, io_thread,
                   fd, rio, wio, ndisc, conn_queue, task_queue, whand, fdOwner>>

(* What the user's encode makes of the response. *)
Units(m) == [i \in 1..(m.hi - m.lo + 1) |-> <<m.from, m.lo + i - 1>>]

(* message->response is not NULL: process has set it or the message was    *)
(* sent with one.                                                          *)
HasResponse(m) == m.conn \in Answers \/ m.sent

(* write(2) takes the first n units of the write buffer. *)
WriteOut(c, buffer, n) ==
    /\ outp' = [outp EXCEPT ![c] = @ \o SubSeq(buffer, 1, n)]
    /\ wbuf' = [wbuf EXCEPT ![c] = SubSeq(buffer, n + 1, Len(buffer))]

(* Faulty variant: a partial write does not start the write event. *)
ReplyAndForget(t, n) ==
    /\ iopc[t] = "reply" /\ HasResponse(iom[t])
    /\ LET c == ioc[t]
           buffer == wbuf[c] \o Units(iom[t])
       IN  /\ n \in 0..Len(buffer)
           /\ WriteOut(c, buffer, n)
           /\ Goto(t, "destroy", c, iom[t], "poll")
    /\ UNCHANGED <<connVars, tableVars, queueVars, peerVars, nread, ndec, msgs,
                   whand, fdOwner>>

(* process_message: encode appends the response to the write buffer, write *)
(* takes n units of it (none on EAGAIN), and the rest waits for EPOLLOUT.  *)
Reply(t, n) ==
    /\ iopc[t] = "reply" /\ HasResponse(iom[t])
    /\ LET c == ioc[t]
           buffer == wbuf[c] \o Units(iom[t])
       IN  /\ n \in 0..Len(buffer)
           /\ WriteOut(c, buffer, n)
           /\ wio' = [wio EXCEPT ![c] =
                        @ \/ (n < Len(buffer) /\ status[c] = "OPEN")]
           /\ Goto(t, "destroy", c, iom[t], "poll")
    /\ UNCHANGED <<tableVars, queueVars, peerVars, mem, status, ref, io_thread,
                   fd, rio, ndisc, nread, ndec, msgs, whand, fdOwner>>

(* process_message without a response *)
NoReply(t) ==
    /\ iopc[t] = "reply" /\ ~HasResponse(iom[t])
    /\ iopc' = [iopc EXCEPT ![t] = "destroy"]
    /\ UNCHANGED <<connVars, streamVars, tableVars, queueVars, peerVars, ioc,
                   iom, ioret, msgs, whand, fdOwner>>

(* process_message when write fails: xv_connection_close. *)
ReplyFails(t) ==
    /\ iopc[t] = "reply" /\ HasResponse(iom[t])
    /\ WriteFails /\ peer[ioc[t]] = "gone"
    /\ wbuf' = [wbuf EXCEPT ![ioc[t]] = @ \o Units(iom[t])]
    /\ Goto(t, "close", ioc[t], iom[t], "destroy")
    /\ UNCHANGED <<connVars, tableVars, queueVars, peerVars, nread, ndec, outp,
                   msgs, whand, fdOwner>>

(* The xv_message_destroy that follows process_message. *)
DestroyMessage(t) ==
    /\ iopc[t] = "destroy"
    /\ xv_message_destroy(iom[t])
    /\ BackToPoll(t)
    /\ UNCHANGED <<streamVars, tableVars, queueVars, peerVars, mem, status,
                   io_thread, fd, rio, wio, ndisc, whand, fdOwner>>

Writeable(t, c) ==
    /\ iopc[t] = "poll" /\ io_thread[c] = t /\ wio[c]

(* Faulty variant: the write event is stopped after every write. *)
StopAlways(t, c, n) ==
    /\ Writeable(t, c)
    /\ n \in 0..Len(wbuf[c])
    /\ WriteOut(c, wbuf[c], n)
    /\ wio' = [wio EXCEPT ![c] = FALSE]
    /\ UNCHANGED <<tableVars, queueVars, ioVars, peerVars, mem, status, ref,
                   io_thread, fd, rio, ndisc, nread, ndec, msgs, whand, fdOwner>>

(* on_connection_write *)
WriteEvent(t, c, n) ==
    /\ Writeable(t, c)
    /\ n \in 0..Len(wbuf[c])
    /\ WriteOut(c, wbuf[c], n)
    /\ wio' = [wio EXCEPT ![c] = n # Len(wbuf[c])]
    /\ UNCHANGED <<tableVars, queueVars, ioVars, peerVars, mem, status, ref,
                   io_thread, fd, rio, ndisc, nread, ndec, msgs, whand, fdOwner>>

WriteEventFails(t, c) ==
    /\ Writeable(t, c)
    /\ wbuf[c] # << >>
    /\ WriteFails /\ peer[c] = "gone"
    /\ Goto(t, "close", c, NULL, "poll")
    /\ UNCHANGED <<connVars, streamVars, tableVars, queueVars, peerVars, msgs,
                   whand, fdOwner>>

-----------------------------------------------------------------------------
(* xv_connection_close                                                     *)

(* Faulty variant: only the read event is stopped. *)
StopReading(c) ==
    /\ rio' = [rio EXCEPT ![c] = FALSE]
    /\ UNCHANGED wio

xv_connection_stop(c) ==
    /\ rio' = [rio EXCEPT ![c] = FALSE]
    /\ wio' = [wio EXCEPT ![c] = FALSE]

(* The connection is marked, on_disconnect is called and events stop. *)
CloseMark(t) ==
    /\ iopc[t] = "close"
    /\ LET c == ioc[t]
       IN  IF status[c] # "CLOSED"
           THEN /\ status' = [status EXCEPT ![c] = "CLOSED"]
                /\ ndisc' = [ndisc EXCEPT ![c] = @ + 1]
                /\ xv_connection_stop(c)
           ELSE UNCHANGED <<status, ndisc, rio, wio>>
    /\ iopc' = [iopc EXCEPT ![t] = "checkref"]
    /\ UNCHANGED <<streamVars, tableVars, queueVars, peerVars, mem, ref,
                   io_thread, fd, ioc, iom, ioret, msgs, whand, fdOwner>>

(* The order in which the connection is released.  Faulty variant: the     *)
(* descriptor is closed before the connection leaves the table.            *)
CloseFdFirst == <<"closefd", "del", "free">>

ReleaseOrder == <<"del", "closefd", "free">>

AfterRelease(t, label) ==
    LET i == CHOOSE j \in 1..3 : ReleaseOrder[j] = label
    IN  IF i = 3 THEN ioret[t] ELSE ReleaseOrder[i + 1]

(* Faulty variant: references are not looked at. *)
IgnoreRefs(t) ==
    /\ iopc[t] = "checkref"
    /\ iopc' = [iopc EXCEPT ![t] = ReleaseOrder[1]]
    /\ UNCHANGED <<connVars, streamVars, tableVars, queueVars, peerVars, ioc,
                   iom, ioret, msgs, whand, fdOwner>>

(* Faulty variant: the connection is destroyed and nothing else. *)
FreeOnly(t) ==
    /\ iopc[t] = "checkref"
    /\ iopc' = [iopc EXCEPT ![t] = IF ref[ioc[t]] > 1 THEN ioret[t] ELSE "free"]
    /\ UNCHANGED <<connVars, streamVars, tableVars, queueVars, peerVars, ioc,
                   iom, ioret, msgs, whand, fdOwner>>

(* Faulty variant: the connection's own reference counts as a message's. *)
CountOwnRef(t) ==
    /\ iopc[t] = "checkref"
    /\ iopc' = [iopc EXCEPT ![t] = IF ref[ioc[t]] > 0 THEN ioret[t]
                                                      ELSE ReleaseOrder[1]]
    /\ UNCHANGED <<connVars, streamVars, tableVars, queueVars, peerVars, ioc,
                   iom, ioret, msgs, whand, fdOwner>>

(* "some xv_message_t ref to this xv_connection_t, just return" *)
CheckRef(t) ==
    /\ iopc[t] = "checkref"
    /\ iopc' = [iopc EXCEPT ![t] = IF ref[ioc[t]] > 1 THEN ioret[t]
                                                      ELSE ReleaseOrder[1]]
    /\ UNCHANGED <<connVars, streamVars, tableVars, queueVars, peerVars, ioc,
                   iom, ioret, msgs, whand, fdOwner>>

(* xv_service_del_connection, whose XV_ERR for a descriptor beyond the     *)
(* table is not looked at.                                                 *)
DelConnection(t) ==
    /\ iopc[t] = "del"
    /\ IF fd[ioc[t]] < conn_setsize
       THEN /\ table' = [table EXCEPT ![fd[ioc[t]]] = NULL]
            /\ conn_count' = conn_count - 1
       ELSE UNCHANGED <<table, conn_count>>
    /\ iopc' = [iopc EXCEPT ![t] = AfterRelease(t, "del")]
    /\ UNCHANGED <<connVars, new_table, conn_setsize, streamVars, queueVars, peerVars,
                   ioc, iom, ioret, msgs, whand, fdOwner>>

xv_close(f) == fdOwner' = [fdOwner EXCEPT ![f] = NULL]

(* xv_close(conn->fd); the peer sees the end of the stream. *)
CloseFd(t) ==
    /\ iopc[t] = "closefd"
    /\ xv_close(fd[ioc[t]])
    /\ peer' = [peer EXCEPT ![ioc[t]] = "gone"]
    /\ iopc' = [iopc EXCEPT ![t] = AfterRelease(t, "closefd")]
    /\ UNCHANGED <<connVars, streamVars, tableVars, queueVars, backlog, nsent,
                   ioc, iom, ioret, msgs, whand>>

(* xv_connection_destroy(conn), the end of xv_connection_close. *)
FreeConnection(t) ==
    /\ iopc[t] = "free"
    /\ xv_connection_destroy(ioc[t])
    /\ iopc' = [iopc EXCEPT ![t] = AfterRelease(t, "free")]
    /\ UNCHANGED <<streamVars, tableVars, queueVars, peerVars, status, ref,
                   io_thread, fd, rio, wio, ndisc, ioc, iom, ioret, msgs, whand,
                   fdOwner>>

Close(t) == CloseMark(t) \/ CheckRef(t) \/ DelConnection(t) \/ CloseFd(t)
                \/ FreeConnection(t)

-----------------------------------------------------------------------------
(* worker_async_cb: the worker takes a task ... *)
TakeTask(w) ==
    /\ whand[w] = NULL /\ task_queue[w] # << >>
    /\ whand' = [whand EXCEPT ![w] = Head(task_queue[w])]
    /\ task_queue' = [task_queue EXCEPT ![w] = Tail(@)]
    /\ UNCHANGED <<connVars, streamVars, tableVars, ioVars, peerVars, msgs,
                   conn_queue, message_queue, fdOwner>>

(* ... and thread_pool_task_cb, after the user's process, returns the      *)
(* message to the IO thread of its connection.                             *)
FinishTask(w) ==
    /\ whand[w] # NULL
    /\ message_queue' = [message_queue EXCEPT
            ![io_thread[whand[w].conn]] = Append(@, whand[w])]
    /\ whand' = [whand EXCEPT ![w] = NULL]
    /\ UNCHANGED <<connVars, streamVars, tableVars, ioVars, peerVars, msgs,
                   conn_queue, task_queue, fdOwner>>

-----------------------------------------------------------------------------
PeerStep(c) == Connect(c) \/ PeerSend(c) \/ PeerClose(c)

(* The events a loop of the service reports, by what they come from: the   *)
(* listening socket, the two queues' eventfds, and connections.            *)
ListenEvent(t) == \E c \in Conns : Accept(t, c) \/ AcceptFails(t, c)

QueueEvent(t) == AddConn(t) \/ ReturnMessage(t) \/ DropMessage(t)

SocketEvent(t) ==
    \E c \in Conns :
        \/ \E n \in 1..MaxReq : ReadRequest(t, c, n)
        \/ \E n \in 0..MaxReq : ReadAndClose(t, c, n)
        \/ \E n \in 0..Len(wbuf[c]) : WriteEvent(t, c, n)
        \/ WriteEventFails(t, c)

(* The rest of a handler that has begun. *)
HandlerStep(t) ==
    \/ Grow(t)
    \/ GrowDone(t)
    \/ Distribute(t)
    \/ \E n \in 0..(MaxReq * Cardinality(Conns)) : Reply(t, n)
    \/ NoReply(t)
    \/ ReplyFails(t)
    \/ DestroyMessage(t)
    \/ Close(t)

IoStep(t) == ListenEvent(t) \/ QueueEvent(t) \/ SocketEvent(t) \/ HandlerStep(t)

WorkerStep(w) == TakeTask(w) \/ FinishTask(w)

Next ==
    \/ \E c \in Conns : PeerStep(c)
    \/ \E t \in IoThreads : IoStep(t)
    \/ \E w \in Workers : WorkerStep(w)

(***************************************************************************)
(* Every thread of the service keeps running: the loops return to the      *)
(* poller, the user's callbacks return, and a socket the peer reads from   *)
(* becomes writable again.  Peers owe nothing.                             *)
(***************************************************************************)
Fairness ==
    /\ \A t \in IoThreads : WF_vars(IoStep(t))
    /\ \A w \in Workers : WF_vars(WorkerStep(w))

SafeSpec == Init /\ [][Next]_vars

Spec == SafeSpec /\ Fairness

-----------------------------------------------------------------------------
Labels == {"poll", "grow", "accepted", "reply", "destroy", "close", "checkref",
           "del", "closefd", "free"}

ConnTypeOK ==
    /\ mem \in [Conns -> {"none", "live", "freed"}]
    /\ status \in [Conns -> {"OPEN", "CLOSED"}]
    /\ ref \in [Conns -> Int]
    /\ io_thread \in [Conns -> IoThreads \cup {NULL}]
    /\ fd \in [Conns -> Fds \cup {0}]
    /\ rio \in [Conns -> BOOLEAN]
    /\ wio \in [Conns -> BOOLEAN]
    /\ ndisc \in [Conns -> Nat]

StreamTypeOK ==
    /\ nread \in [Conns -> 0..MaxReq]
    /\ ndec \in [Conns -> 0..MaxReq]
    /\ wbuf \in [Conns -> Seq(Unit)]
    /\ outp \in [Conns -> Seq(Unit)]

TableTypeOK ==
    /\ conn_setsize \in Nat \ {0}
    /\ table \in [DOMAIN table -> Conns \cup {NULL, Garbage}]
    /\ DOMAIN table \subseteq Nat
    /\ new_table # << >> =>
        new_table \in [0..(conn_setsize - 1) -> Conns \cup {NULL, Garbage}]
    /\ conn_count \in Int

QueueTypeOK ==
    /\ conn_queue \in [IoThreads -> Seq(Conns)]
    /\ message_queue \in [IoThreads -> Seq(Messages)]
    /\ task_queue \in [Workers -> Seq(Messages)]

IoTypeOK ==
    /\ iopc \in [IoThreads -> Labels]
    /\ ioc \in [IoThreads -> Conns \cup {NULL}]
    /\ iom \in [IoThreads -> Messages \cup {NULL}]
    /\ ioret \in [IoThreads -> {"poll", "destroy"}]

PeerTypeOK ==
    /\ peer \in [Conns -> {"idle", "up", "gone"}]
    /\ backlog \subseteq Conns
    /\ nsent \in [Conns -> 0..MaxReq]

MessageTypeOK ==
    /\ msgs \subseteq Messages
    /\ whand \in [Workers -> Messages \cup {NULL}]

TypeOK ==
    /\ ConnTypeOK /\ StreamTypeOK /\ TableTypeOK /\ QueueTypeOK /\ IoTypeOK
    /\ PeerTypeOK /\ MessageTypeOK
    /\ fdOwner \in [Fds -> Conns \cup {NULL}]

(***************************************************************************)
(* ref_count is one for the connection itself and one for each message     *)
(* that points to it, whichever thread or queue has the message.           *)
(***************************************************************************)
MessagesOf(c) == {m \in msgs : m.conn = c}

RefCounted ==
    \A c \in Conns : mem[c] = "live" =>
        ref[c] = 1 + Cardinality(MessagesOf(c))

(***************************************************************************)
(* A message never outlives its connection: workers and the return         *)
(* callback may follow message->conn, and a handler in progress may use    *)
(* its connection, without touching freed memory.                          *)
(***************************************************************************)
MessagesPinConnection ==
    /\ \A m \in msgs : mem[m.conn] = "live"
    /\ \A t \in IoThreads :
        iopc[t] \in {"grow", "accepted", "reply", "close", "checkref", "del",
                    "closefd", "free"} => mem[ioc[t]] = "live"

(***************************************************************************)
(* Every open connection is in service->connections at its own descriptor, *)
(* below conn_setsize, where xv_service_stop and xv_service_destroy look   *)
(* for it, and conn_count counts the entries: leader and followers update  *)
(* the table without a lock, it grows, and descriptors are reused.  (Only  *)
(* a connection that is being added is not there yet.)                     *)
(***************************************************************************)
Entries == {i \in DOMAIN table : table[i] \in Conns}

BeingAdded(c) == \E t \in IoThreads : iopc[t] = "grow" /\ ioc[t] = c

TableExact ==
    /\ \A c \in Conns :
        mem[c] = "live" /\ status[c] = "OPEN" /\ ~BeingAdded(c)
            => fd[c] < conn_setsize /\ table[fd[c]] = c
    /\ conn_count = Cardinality(Entries)

(***************************************************************************)
(* Whatever reads or writes conn->fd, or waits for an event on it, has the *)
(* socket of its own peer: no thread uses a descriptor another thread has  *)
(* closed and the kernel has given to a new connection.                    *)
(***************************************************************************)
OwnDescriptor ==
    /\ \A c \in Conns :
        mem[c] = "live" /\ (status[c] = "OPEN" \/ rio[c] \/ wio[c])
            => fdOwner[fd[c]] = c
    /\ \A t \in IoThreads : iopc[t] = "closefd" => fdOwner[fd[ioc[t]]] = ioc[t]

(***************************************************************************)
(* The peer receives the answers to its units in order, each once, however *)
(* reads, workers, partial writes and EPOLLOUT events interleave.          *)
(***************************************************************************)
EchoInOrder ==
    \A c \in Conns :
        LET s == outp[c] \o wbuf[c]
        IN  \A i \in 1..Len(s) : s[i] = <<c, i>>

(***************************************************************************)
(* Output that a write left behind is not forgotten: when the owner is     *)
(* back in the poller, it waits for EPOLLOUT of every open connection that *)
(* still has some.                                                         *)
(***************************************************************************)
OutputWatched ==
    \A c \in Conns :
        /\ mem[c] = "live" /\ status[c] = "OPEN" /\ wbuf[c] # << >>
        /\ iopc[io_thread[c]] = "poll"
        => wio[c]

(***************************************************************************)
(* Closing is final: a closed connection never opens again, on_disconnect  *)
(* is not called a second time, and nothing more is written to its peer.   *)
(***************************************************************************)
ClosedIsFinal ==
    [][\A c \in Conns : status[c] = "CLOSED" =>
            /\ status'[c] = "CLOSED"
            /\ ndisc'[c] = ndisc[c]
            /\ outp'[c] = outp[c]]_vars

(***************************************************************************)
(* A destroyed connection has left nothing behind: its descriptor is       *)
(* closed and the table does not point to the freed memory.  The comment   *)
(* in xv_connection_close has it: "close last but before destroy".         *)
(***************************************************************************)
FreedIsReleased ==
    \A c \in Conns : mem[c] = "freed" =>
        /\ \A f \in Fds : fdOwner[f] # c
        /\ \A i \in DOMAIN table : table[i] # c

(***************************************************************************)
(* xv_service.h: on_disconnect is called "when connection will             *)
(* disconnect"; an accepted connection whose peer has gone gets the call.  *)
(***************************************************************************)
DisconnectNoticed ==
    \A c \in Conns : mem[c] = "live" /\ peer[c] = "gone" ~> ndisc[c] = 1

(***************************************************************************)
(* The connection of a peer that has gone is eventually destroyed and its  *)
(* descriptor closed ("close connection now").                             *)
(***************************************************************************)
HangupReleases ==
    \A c \in Conns :
        mem[c] = "live" /\ peer[c] = "gone"
            ~> mem[c] = "freed" /\ \A f \in Fds : fdOwner[f] # c

=============================================================================
