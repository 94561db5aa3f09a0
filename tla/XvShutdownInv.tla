---------------------------- MODULE XvShutdownInv ----------------------------
(***************************************************************************)
(* The inductive invariant of starting, stopping and destroying a service: *)
(* how far the threads are when the main thread and the SIGINT handler are *)
(* at a given point, and what the service's own invariant is worth there.  *)
(* TLC checks ShutdownInv in the run of MCShutdown.cfg, XvShutdownProofs   *)
(* proves it.                                                              *)
(***************************************************************************)
EXTENDS XvShutdown, XvServiceInv

(* Where the handler is while it goes over the connections. *)
ConnLabels == {"stop_conns", "stop_loop", "stop_arg", "stop_read", "stop_write"}

ControlTypeOK ==
    /\ mpc \in {"listen", "start", "create", "called", "run", "gave_up",
                "free_listener", "free_conns", "free_io", "wake", "join_worker",
                "done"}
    /\ spc \in {"off", "stop_listener", "stop_io", "stop_pool", "over"}
               \cup ConnLabels
    /\ mi \in Nat /\ si \in Nat /\ sc \in Conns \cup {NULL, Garbage}
    /\ start \in BOOLEAN /\ pool_start \in BOOLEAN /\ listen_io \in BOOLEAN
    /\ listener \in {"none", "open", "closed", "freed"}
    /\ listener_io_thread \in {0, NULL}
    /\ loop_start \in [IoThreads -> BOOLEAN]
    /\ iolife \in [IoThreads -> {"none", "entry", "loop", "exited"}]
    /\ wlife \in [Workers -> {"none", "run", "woken", "exited"}]

(* An IO thread ends only after the handler has broken its loop, ... *)
LoopsBroken ==
    /\ spc \in {"off", "stop_listener"} \cup ConnLabels =>
            \A t \in IoThreads : loop_start[t]
    /\ spc = "stop_io" => \A t \in IoThreads : si <= t => loop_start[t]
    /\ \A t \in IoThreads : iolife[t] = "exited" => ~ loop_start[t] /\ iopc[t] = "poll"

(* ... and main follows what the threads have come to. *)
Exited(t) == iolife[t] = "exited"

MainFollows ==
    /\ mpc \in {"listen", "start"} =>
            spc = "off" /\ ~ start /\ \A t \in IoThreads : iolife[t] = "none"
    /\ mpc = "create" =>
            mi < NIo /\ \A t \in IoThreads : t < mi <=> iolife[t] # "none"
    /\ mpc = "called" => \A t \in IoThreads : iolife[t] # "none"
    /\ mpc = "run" => /\ mi < NIo
                      /\ \A t \in IoThreads : iolife[t] # "none"
                      /\ \A t \in IoThreads : t < mi => Exited(t)
    /\ Destroying => spc = "over" /\ \A t \in IoThreads : Exited(t)
    /\ mpc = "done" => \/ \A t \in IoThreads : iolife[t] = "none"
                       \/ spc = "over" /\ \A t \in IoThreads : Exited(t)
    /\ spc # "off" => ~ start

(* Workers are joined one after the other. *)
WorkersJoined ==
    /\ mpc = "listen" => \A w \in Workers : wlife[w] = "none"
    /\ mpc \in {"wake", "join_worker"} =>
            mi < NWorkers /\ \A w \in Workers : w < mi => wlife[w] = "exited"
    /\ mpc = "done" => \A w \in Workers : wlife[w] \in {"none", "exited"}

(* The listener belongs to the leader while that is in its loop. *)
ListenerInv ==
    /\ listener_io_thread # NULL <=> iolife[0] = "loop"
    /\ \A t \in IoThreads : iolife[t] # "none" => mpc # "listen"

(* Without a thread there is no connection. *)
NobodyYet ==
    (\A t \in IoThreads : iolife[t] = "none") => \A c \in Conns : mem[c] = "none"

ControlInv ==
    /\ ControlTypeOK /\ LoopsBroken /\ MainFollows /\ WorkersJoined
    /\ ListenerInv /\ NobodyYet

(* From a quiet stop on there is no request and no new connection. *)
Silent ==
    /\ iolife[0] \in {"loop", "exited"}
    /\ \A t \in IoThreads :
        /\ conn_queue[t] = << >> /\ message_queue[t] = << >>
        /\ iopc[t] \in {"poll", "close", "checkref", "del", "closefd", "free"}
        /\ ioret[t] = "poll"
    /\ \A w \in Workers : whand[w] = NULL /\ task_queue[w] = << >>
    /\ backlog = {} /\ msgs = {}
    /\ nread = nsent
    /\ spc # "stop_listener" => ~ listen_io

(* Connections are closed in full or not at all: nothing in the pool can   *)
(* delay it, or nobody has a reason to close one.                          *)
NobodyLeaves == Hangup = {} /\ ~ BadPackets

Orderly == Quiet /\ FdsFit /\ (NWorkers = 0 \/ NobodyLeaves)

EverybodyStays ==
    /\ \A c \in Conns : status[c] = "OPEN" /\ mem[c] # "freed"
    /\ \A t \in IoThreads :
            iopc[t] \notin {"close", "checkref", "del", "closefd", "free"}
    /\ \A c \in Conns : peer[c] = "gone" => mem[c] = "none" /\ c \notin backlog

BeforeDestroy == mpc \in {"listen", "start", "create", "called", "run", "gave_up",
                          "free_listener"}

(* What the handler has stopped stays stopped. *)
StoppedSoFar ==
    /\ spc \in ConnLabels => /\ si < conn_setsize
                             /\ \A i \in Entries : i < si =>
                                    ~ rio[table[i]] /\ ~ wio[table[i]]
    /\ spc \in {"stop_read", "stop_write"} /\ si \in Entries =>
            sc = table[si] /\ (spc = "stop_write" => ~ rio[sc])
    /\ spc \in {"stop_io", "stop_pool", "over"} =>
            \A i \in Entries : ~ rio[table[i]] /\ ~ wio[table[i]]

(* Where nobody closes a connection, the handler finds what it has tested. *)
StopHolds ==
    /\ spc \in {"stop_loop", "stop_arg", "stop_read", "stop_write"} =>
            si \in Entries
    /\ spc \in {"stop_read", "stop_write"} => sc = table[si]

(* What destroy has freed is what it has gone over. *)
FreedSoFar ==
    /\ mpc = "free_conns" => /\ mi < conn_setsize
                             /\ \A i \in Entries : mi <= i => mem[table[i]] = "live"
                             /\ \A c \in Conns : mem[c] = "live" => mi <= fd[c]
    /\ mpc \in {"free_io", "wake", "join_worker", "done"} =>
            \A c \in Conns : mem[c] # "live"

(* The index of xv_io_thread_destroy's loop. *)
FreeIoIndex == mpc = "free_io" => mi < NIo

(***************************************************************************)
(* For any number of connections, threads and workers: the service keeps   *)
(* its own invariant from start to destroy, the threads are where main and *)
(* the handler take them to be, a quiet stop leaves no work behind, and in *)
(* an orderly service stop and destroy have handled exactly what they have *)
(* gone over (xv_service.c:745-836).                                       *)
(***************************************************************************)
ShutdownInv ==
    /\ CoreInv /\ OrderInv /\ NothingLost /\ OnTheWay
    /\ ControlInv /\ FreeIoIndex
    /\ spc = "off" => OutputKept
    /\ FdsFit => TableInv /\ Listed
    /\ Quiet /\ spc # "off" => Silent
    /\ BeforeDestroy /\ NobodyLeaves => EverybodyStays
    /\ BeforeDestroy /\ NWorkers = 0 => ReleasedInv
    /\ Orderly => StoppedSoFar /\ FreedSoFar
    /\ Orderly /\ NobodyLeaves => StopHolds

=============================================================================
