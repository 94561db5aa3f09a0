------------------------------ MODULE XvShutdown ------------------------------
(***************************************************************************)
(* A service from xv_service_add_listen to xv_service_destroy, the way     *)
(* xv_service_test.c uses it: the main thread starts the service of        *)
(* XvService and waits for its IO threads in xv_service_run, a SIGINT      *)
(* handler calls xv_service_stop, and main then destroys everything.       *)
(*                                                                         *)
(* The handler runs in the main thread, which stands still meanwhile.  The *)
(* other threads go on: while stop goes over the listener, the table of    *)
(* connections and the IO threads, they see it half done.                  *)
(*                                                                         *)
(* Where the program follows a NULL or a freed pointer what it does is     *)
(* undefined.  A step that would do it is not enabled; StopSafe and        *)
(* DestroySafe say where the program stands before none.                   *)
(***************************************************************************)
EXTENDS XvService

CONSTANTS
    Quiet           \* stop is called when no request and no connection is
                    \* under way, and the peers are silent from then on

ASSUME ShutdownConstants == Quiet \in BOOLEAN

VARIABLES
    mpc, mi,        \* the main thread: where it is, the index of its for loop
    spc, si,        \* the same for the SIGINT handler
    sc,             \* conn in its call of xv_connection_stop, or NULL
    start,          \* service->start
    pool_start,     \* thread->start of the workers
    listener,       \* the xv_listener_t: "none", "open", "closed" or "freed"
    listener_io_thread,  \* listener->io_thread, the leader or NULL
    listen_io,      \* listener->listen_io->start
    loop_start,     \* io_thread->loop->start
    iolife,         \* IO threads: "none", "entry", "loop" or "exited"
    wlife           \* workers: "none", "run", "woken" or "exited"

mainVars     == <<mpc, mi>>
handlerVars  == <<spc, si, sc>>
listenerVars == <<listener, listener_io_thread, listen_io>>
lifeVars     == <<loop_start, iolife, wlife>>
controlVars  == <<mainVars, handlerVars, listenerVars, lifeVars, start,
                  pool_start>>
shutdownVars == <<vars, controlVars>>

(* xv_loop_init sets loop->start; the calls that follow do not. *)
ShutdownInit ==
    /\ Init
    /\ mpc = "listen" /\ mi = 0
    /\ spc = "off" /\ si = 0 /\ sc = NULL
    /\ start = FALSE
    /\ pool_start = FALSE
    /\ listener = "none"
    /\ listener_io_thread = NULL
    /\ listen_io = FALSE
    /\ loop_start = [t \in IoThreads |-> TRUE]
    /\ iolife = [t \in IoThreads |-> "none"]
    /\ wlife = [w \in Workers |-> "none"]

-----------------------------------------------------------------------------
(* The main thread.                                                        *)

At(label) == mpc = label /\ spc \in {"off", "over"}

GoOn(label) == mpc' = label /\ mi' = 0

(* The next round of a for loop to n, or what comes after it. *)
Round(n, after) ==
    IF mi + 1 < n THEN mi' = mi + 1 /\ UNCHANGED mpc ELSE GoOn(after)

xv_listener_init == listener' = "open"

(* xv_service_add_listen: xv_tcp_listen and xv_nonblock succeed and the    *)
(* listener is linked, or one fails, there is none, and main gives up.     *)
xv_service_add_listen ==
    /\ At("listen")
    /\ \/ xv_listener_init /\ GoOn("start")
       \/ GoOn("done") /\ UNCHANGED listener
    /\ UNCHANGED <<vars, handlerVars, lifeVars, start, pool_start,
                   listener_io_thread, listen_io>>

(* xv_service_start: the flag, the pool, ... *)
StartService ==
    /\ At("start")
    /\ start' = TRUE
    /\ pool_start' = TRUE
    /\ wlife' = [w \in Workers |-> "run"]
    /\ GoOn("create")
    /\ UNCHANGED <<vars, handlerVars, listenerVars, loop_start, iolife>>

(* ... and one pthread_create after the other. *)
CreateIoThread ==
    /\ At("create")
    /\ iolife' = [iolife EXCEPT ![mi] = "entry"]
    /\ Round(NIo, "called")
    /\ UNCHANGED <<vars, handlerVars, listenerVars, loop_start, wlife, start,
                   pool_start>>

(* xv_service_run refuses when the service has been stopped meanwhile, and *)
(* main gives up (the process ends; the model lets its threads go on).     *)
xv_service_run ==
    /\ At("called")
    /\ IF start THEN GoOn("run") ELSE GoOn("gave_up")
    /\ UNCHANGED <<vars, handlerVars, listenerVars, lifeVars, start, pool_start>>

(* Faulty variant: only the leader is joined. *)
JoinLeader ==
    /\ At("run")
    /\ iolife[0] = "exited"
    /\ GoOn("free_listener")
    /\ UNCHANGED <<vars, handlerVars, listenerVars, lifeVars, start, pool_start>>

(* Otherwise it joins one IO thread after the other. *)
JoinIoThread ==
    /\ At("run")
    /\ iolife[mi] = "exited"
    /\ Round(NIo, "free_listener")
    /\ UNCHANGED <<vars, handlerVars, listenerVars, lifeVars, start, pool_start>>

xv_listener_destroy == listener' = "freed"

(* xv_service_destroy calls xv_service_stop, which has been called and     *)
(* returns XV_ERR, then goes over listeners, ...                           *)
FreeListener ==
    /\ At("free_listener")
    /\ xv_listener_destroy
    /\ GoOn("free_conns")
    /\ UNCHANGED <<vars, handlerVars, lifeVars, start, pool_start,
                   listener_io_thread, listen_io>>

(* What the table holds at i can be followed. *)
Sound(i) ==
    /\ i \in DOMAIN table
    /\ table[i] # NULL => table[i] \in Conns /\ mem[table[i]] = "live"

(* Faulty variant: the loop ends at the number of connections. *)
FreeCounted ==
    /\ At("free_conns") /\ Sound(mi)
    /\ IF table[mi] = NULL THEN UNCHANGED mem ELSE xv_connection_destroy(table[mi])
    /\ Round(conn_count, "free_io")
    /\ UNCHANGED <<streamVars, tableVars, queueVars, ioVars, peerVars, status,
                   ref, io_thread, fd, rio, wio, ndisc, msgs, whand, fdOwner,
                   handlerVars, listenerVars, lifeVars, start, pool_start>>

(* ... connections, whose descriptors it does not close, ... *)
FreeConn ==
    /\ At("free_conns") /\ Sound(mi)
    /\ IF table[mi] = NULL THEN UNCHANGED mem ELSE xv_connection_destroy(table[mi])
    /\ Round(conn_setsize, "free_io")
    /\ UNCHANGED <<streamVars, tableVars, queueVars, ioVars, peerVars, status,
                   ref, io_thread, fd, rio, wio, ndisc, msgs, whand, fdOwner,
                   handlerVars, listenerVars, lifeVars, start, pool_start>>

(* ... IO threads with their queues and loops ... *)
xv_io_thread_destroy ==
    /\ At("free_io")
    /\ conn_queue[mi] = << >> /\ message_queue[mi] = << >>
    /\ Round(NIo, IF NWorkers = 0 THEN "done" ELSE "wake")
    /\ UNCHANGED <<vars, handlerVars, listenerVars, lifeVars, start, pool_start>>

(* ... and, last, the workers, each woken and joined. *)
WakeWorker ==
    /\ At("wake")
    /\ wlife' = [wlife EXCEPT ![mi] = IF @ = "run" THEN "woken" ELSE @]
    /\ mpc' = "join_worker"
    /\ UNCHANGED <<vars, mi, handlerVars, listenerVars, loop_start, iolife, start,
                   pool_start>>

JoinWorker ==
    /\ At("join_worker")
    /\ wlife[mi] = "exited"
    /\ IF mi + 1 < NWorkers THEN mpc' = "wake" /\ mi' = mi + 1 ELSE GoOn("done")
    /\ UNCHANGED <<vars, handlerVars, listenerVars, lifeVars, start, pool_start>>

MainStep ==
    \/ xv_service_add_listen \/ StartService \/ CreateIoThread
    \/ xv_service_run \/ JoinIoThread
    \/ FreeListener \/ FreeConn \/ xv_io_thread_destroy
    \/ WakeWorker \/ JoinWorker

-----------------------------------------------------------------------------
(* The handler: xv_service_stop.                                           *)

StopAt(label) == spc = label

StopGoOn(label) == spc' = label /\ si' = 0

(* The next round of a for loop to n, which begins at label. *)
StopRound(n, label, after) ==
    IF si + 1 < n THEN si' = si + 1 /\ spc' = label ELSE StopGoOn(after)

(* The leader is in its loop, the others may not even exist, and there is  *)
(* nothing for a thread to do but to take up output that a peer has not    *)
(* read or to notice that a peer has gone.                                 *)
Idle ==
    /\ iolife[0] = "loop"
    /\ \A t \in IoThreads :
        /\ iopc[t] = "poll"
        /\ conn_queue[t] = << >> /\ message_queue[t] = << >>
    /\ \A w \in Workers : whand[w] = NULL /\ task_queue[w] = << >>
    /\ backlog = {}
    /\ nread = nsent

Signal ==
    /\ StopAt("off") /\ start
    /\ Quiet => Idle
    /\ start' = FALSE
    /\ StopGoOn("stop_listener")
    /\ UNCHANGED <<vars, sc, mainVars, listenerVars, lifeVars, pool_start>>

(* The event is stopped and the socket closed; the kernel resets the       *)
(* connections nobody has accepted.                                        *)
xv_listener_stop ==
    /\ listen_io' = FALSE
    /\ listener' = "closed"
    /\ backlog' = {}
    /\ peer' = [c \in Conns |-> IF c \in backlog THEN "gone" ELSE peer[c]]

StopListener ==
    /\ StopAt("stop_listener")
    /\ listener_io_thread # NULL
    /\ xv_listener_stop
    /\ StopGoOn("stop_conns")
    /\ UNCHANGED <<connVars, streamVars, tableVars, queueVars, ioVars, msgs,
                   whand, fdOwner, nsent, sc, mainVars, lifeVars, start,
                   pool_start, listener_io_thread>>

(* The rest of stop goes over the table without a lock.  Each access is a  *)
(* step of its own: an IO thread that is closing the connection can clear  *)
(* the entry and free what it held in between.                             *)

(* if (service->connections[i]) *)
TestConn ==
    /\ StopAt("stop_conns") /\ si \in DOMAIN table
    /\ IF table[si] = NULL
       THEN StopRound(conn_setsize, "stop_conns", "stop_io")
       ELSE spc' = "stop_loop" /\ UNCHANGED si
    /\ UNCHANGED <<sc, rio, wio>>

(* connections[i] can be followed to its io_thread and on to the loop. *)
Stoppable(i) == Sound(i) /\ table[i] # NULL /\ io_thread[table[i]] # NULL

(* connections[i] is read again for the call's first argument, ... *)
FollowConn ==
    /\ StopAt("stop_loop") /\ Stoppable(si)
    /\ spc' = "stop_arg"
    /\ UNCHANGED <<si, sc, rio, wio>>

(* ... and a third time, for the second one. *)
PassConn ==
    /\ StopAt("stop_arg") /\ si \in DOMAIN table
    /\ sc' = table[si]
    /\ spc' = "stop_read"
    /\ UNCHANGED <<si, rio, wio>>

Live(c) == c \in Conns /\ mem[c] = "live"

(* xv_connection_stop: one event after the other. *)
StopReadIo ==
    /\ StopAt("stop_read") /\ Live(sc)
    /\ rio' = [rio EXCEPT ![sc] = FALSE]
    /\ spc' = "stop_write"
    /\ UNCHANGED <<si, sc, wio>>

(* Faulty variant: the write event is left. *)
LeaveWriteIo ==
    /\ StopAt("stop_write") /\ Live(sc)
    /\ sc' = NULL
    /\ StopRound(conn_setsize, "stop_conns", "stop_io")
    /\ UNCHANGED <<rio, wio>>

StopWriteIo ==
    /\ StopAt("stop_write") /\ Live(sc)
    /\ wio' = [wio EXCEPT ![sc] = FALSE]
    /\ sc' = NULL
    /\ StopRound(conn_setsize, "stop_conns", "stop_io")
    /\ UNCHANGED rio

StopConn ==
    /\ TestConn \/ FollowConn \/ PassConn \/ StopReadIo \/ StopWriteIo
    /\ UNCHANGED <<streamVars, tableVars, queueVars, ioVars, peerVars, mem,
                   status, ref, io_thread, fd, ndisc, msgs, whand, fdOwner,
                   mainVars, listenerVars, lifeVars, start, pool_start>>

(* xv_io_thread_stop: the asyncs are stopped and the loop is broken. *)
xv_io_thread_stop ==
    /\ StopAt("stop_io")
    /\ loop_start' = [loop_start EXCEPT ![si] = FALSE]
    /\ StopRound(NIo, "stop_io", "stop_pool")
    /\ UNCHANGED <<vars, sc, mainVars, listenerVars, iolife, wlife, start, pool_start>>

StopPool ==
    /\ StopAt("stop_pool")
    /\ pool_start' = FALSE
    /\ StopGoOn("over")
    /\ UNCHANGED <<vars, sc, mainVars, listenerVars, lifeVars, start>>

HandlerOfSigint ==
    StopListener \/ StopConn \/ xv_io_thread_stop \/ StopPool

-----------------------------------------------------------------------------
(* The IO threads and the workers.                                         *)

(* Faulty variant: entering the loop sets loop->start. *)
EnterStarted(t) ==
    /\ iolife[t] = "entry"
    /\ iolife' = [iolife EXCEPT ![t] = "loop"]
    /\ loop_start' = [loop_start EXCEPT ![t] = TRUE]
    /\ listen_io' = (listen_io \/ t = 0)
    /\ listener_io_thread' = IF t = 0 THEN t ELSE listener_io_thread
    /\ UNCHANGED <<vars, mainVars, handlerVars, listener, wlife, start,
                   pool_start>>

(* io_thread_entry: the asyncs are started, the leader starts the          *)
(* listeners, and the loop is entered.                                     *)
io_thread_entry(t) ==
    /\ iolife[t] = "entry"
    /\ iolife' = [iolife EXCEPT ![t] = "loop"]
    /\ listen_io' = (listen_io \/ t = 0)
    /\ listener_io_thread' = IF t = 0 THEN t ELSE listener_io_thread
    /\ UNCHANGED <<vars, mainVars, handlerVars, listener, loop_start, wlife,
                   start, pool_start>>

(* What a loop does while its thread runs.  When the asyncs are stopped, a *)
(* callback that is emptying its queue goes on and a new one is not        *)
(* called; either is possible here as long as the loop is not left.        *)
RunLoop(t) ==
    /\ iolife[t] = "loop"
    /\ \/ listen_io /\ ListenEvent(t)
       \/ QueueEvent(t)
       \/ SocketEvent(t)
       \/ HandlerStep(t)
    /\ UNCHANGED controlVars

(* xv_loop_run_timeout sees the flag at the latest when its 10 ms are      *)
(* over, and the thread ends; the leader stops its listeners.              *)
LeaveLoop(t) ==
    /\ iolife[t] = "loop" /\ iopc[t] = "poll"
    /\ ~ loop_start[t]
    /\ iolife' = [iolife EXCEPT ![t] = "exited"]
    /\ listen_io' = (listen_io /\ t # 0)
    /\ listener_io_thread' = IF t = 0 THEN NULL ELSE listener_io_thread
    /\ UNCHANGED <<vars, mainVars, handlerVars, listener, loop_start, wlife,
                   start, pool_start>>

(* worker_async_cb: a worker that has emptied its queue after the stop     *)
(* breaks its loop.  (XvThPool has the steps of this.)                     *)
RunWorker(w) ==
    /\ wlife[w] \in {"run", "woken"}
    /\ WorkerStep(w)
    /\ wlife' = [wlife EXCEPT ![w] =
                    IF whand[w] # NULL /\ task_queue[w] = << >> /\ ~ pool_start
                    THEN "exited" ELSE @]
    /\ UNCHANGED <<mainVars, handlerVars, listenerVars, loop_start, iolife, start,
                   pool_start>>

LeaveWorker(w) ==
    /\ wlife[w] = "woken" /\ ~ pool_start
    /\ whand[w] = NULL /\ task_queue[w] = << >>
    /\ wlife' = [wlife EXCEPT ![w] = "exited"]
    /\ UNCHANGED <<vars, mainVars, handlerVars, listenerVars, loop_start, iolife,
                   start, pool_start>>

(* Peers can connect as soon as the socket listens. *)
ClientStep(c) ==
    /\ PeerStep(c)
    /\ backlog' # backlog => listener = "open"
    /\ Quiet => StopAt("off")
    /\ UNCHANGED controlVars

-----------------------------------------------------------------------------
ProgramStep ==
    \/ MainStep
    \/ HandlerOfSigint
    \/ \E t \in IoThreads : io_thread_entry(t) \/ RunLoop(t) \/ LeaveLoop(t)
    \/ \E w \in Workers : RunWorker(w) \/ LeaveWorker(w)

ShutdownNext ==
    \/ ProgramStep
    \/ Signal
    \/ \E c \in Conns : ClientStep(c)

(* As long as a thread of the program can go on, one of them does; nobody  *)
(* has to send the signal, to connect or to send.                          *)
ShutdownSpec ==
    ShutdownInit /\ [][ShutdownNext]_shutdownVars /\ WF_shutdownVars(ProgramStep)

-----------------------------------------------------------------------------
(***************************************************************************)
(* Wherever xv_service_stop has come to, what it follows next is there:    *)
(* the listener has its IO thread, an entry that was not NULL when it was  *)
(* tested still is not, the connection in it has its IO thread, and the    *)
(* connection whose two events are being stopped has not been freed.  No   *)
(* lock keeps the IO threads from closing connections meanwhile.           *)
(***************************************************************************)
StopSafe ==
    /\ StopAt("stop_listener") => listener_io_thread # NULL
    /\ spc \in {"stop_conns", "stop_arg"} => si \in DOMAIN table
    /\ StopAt("stop_loop") => Stoppable(si)
    /\ spc \in {"stop_read", "stop_write"} => Live(sc)

(***************************************************************************)
(* xv_service_destroy frees nothing that is in use: the IO threads have    *)
(* ended, the events of the listener and of the connections it destroys    *)
(* are stopped ("xv_io_t must stop before destroy!"), no connection is     *)
(* freed twice or while a message points to it, and the queues it destroys *)
(* are empty.                                                              *)
(***************************************************************************)
Destroying == mpc \in {"free_listener", "free_conns", "free_io", "wake",
                       "join_worker"}

DestroySafe ==
    Destroying =>
        /\ \A t \in IoThreads : iolife[t] = "exited"
        /\ ~ listen_io
        /\ \A m \in msgs : mem[m.conn] = "live"
        /\ mpc = "free_conns" =>
            /\ Sound(mi)
            /\ table[mi] # NULL => ~ rio[table[mi]] /\ ~ wio[table[mi]]
        /\ mpc = "free_io" => conn_queue[mi] = << >> /\ message_queue[mi] = << >>

(***************************************************************************)
(* When xv_service_destroy has returned no thread of the service is left   *)
(* and every connection that was accepted has been freed.                  *)
(***************************************************************************)
NothingLeft ==
    mpc = "done" =>
        /\ \A t \in IoThreads : iolife[t] \in {"none", "exited"}
        /\ \A w \in Workers : wlife[w] \in {"none", "exited"}
        /\ \A c \in Conns : mem[c] # "live"

(***************************************************************************)
(* After the signal the program comes to its end: the IO threads notice    *)
(* the stop, in the poller or before they have entered their loops,        *)
(* xv_service_run returns and so does xv_service_destroy, which joins the  *)
(* workers; or the signal came before xv_service_run was called, which     *)
(* then returns XV_ERR, and main gives up.                                 *)
(***************************************************************************)
ShutdownEnds == spc = "stop_listener" ~> mpc \in {"done", "gave_up"}

(***************************************************************************)
(* From the first thread on until the service is stopped every unit is     *)
(* answered, also those of peers that connect while threads are being      *)
(* started, unless the connection ends first.                              *)
(***************************************************************************)
AnsweredUntilStop ==
    \A c \in Conns : \A k \in 1..MaxReq :
        nsent[c] = k ~> Len(outp[c]) >= k \/ peer[c] = "gone"
                                         \/ spc # "off"

(***************************************************************************)
(* Until the service is stopped, output that a write left behind is not    *)
(* forgotten.                                                              *)
(***************************************************************************)
OutputWatchedUntilStop == spc = "off" => OutputWatched

=============================================================================
