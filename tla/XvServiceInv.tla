---------------------------- MODULE XvServiceInv ----------------------------
(***************************************************************************)
(* The inductive invariant of the service: why the properties of XvService *)
(* hold.  Its parts say, of every connection and every message, where it   *)
(* is and who may touch it.  TLC checks ServiceInv in the run of           *)
(* MCReqReply.cfg, XvServiceProofs proves it.                              *)
(***************************************************************************)
EXTENDS XvService

Queued(s, x) == \E i \in 1..Len(s) : s[i] = x

NoRepeat(s) == \A i, j \in 1..Len(s) : s[i] = s[j] => i = j

Handling == {"reply", "destroy", "close", "checkref", "del", "closefd", "free"}

(* An IO thread has a message in hand. *)
Carries(t) == iopc[t] \in {"reply", "destroy"} \/ ioret[t] = "destroy"

(* What handlers find, and how far the stages of a stream have come. *)
HandlersTyped ==
    \A t \in IoThreads :
        /\ iopc[t] # "poll" => ioc[t] \in Conns
        /\ Carries(t) => iom[t] \in Messages /\ iopc[t] \in Handling
        /\ iopc[t] = "grow" => fd[ioc[t]] \in Fds

TableAllocated == new_table = << >> => 0..(conn_setsize - 1) \subseteq DOMAIN table

StagesOrdered == \A c \in Conns : ndec[c] <= nread[c] /\ nread[c] <= nsent[c]

TypeInv == TypeOK /\ HandlersTyped /\ TableAllocated /\ StagesOrdered

(* A connection on its way to its IO thread: the leader is adding it. *)
Adding(t) == iopc[t] \in {"grow", "accepted"}

(* A connection comes into being once, is then at one place on the way to  *)
(* its IO thread, and stays with it.                                       *)
OneWay ==
    /\ \A c \in backlog : mem[c] = "none" /\ peer[c] # "idle"
    /\ \A c \in Conns : peer[c] = "idle" => mem[c] = "none"
    /\ \A t \in IoThreads :
        /\ Adding(t) => /\ t = 0
                        /\ mem[ioc[t]] # "none"
                        /\ io_thread[ioc[t]] = NULL
                        /\ \A u \in IoThreads : ~Queued(conn_queue[u], ioc[t])
        /\ NoRepeat(conn_queue[t])
        /\ \A c \in Conns : Queued(conn_queue[t], c) =>
            /\ mem[c] # "none"
            /\ io_thread[c] = NULL
            /\ \A u \in IoThreads : Queued(conn_queue[u], c) => u = t
    /\ \A c \in Conns : io_thread[c] # NULL => mem[c] # "none"

(* What an IO thread is doing to a connection is for the owner to do, and  *)
(* fits the connection's status.                                           *)
HandlesOwn(t) ==
    /\ iopc[t] \in Handling => io_thread[ioc[t]] = t
    /\ iopc[t] \in {"reply", "close"} => status[ioc[t]] = "OPEN"
    /\ iopc[t] \in {"checkref", "del", "closefd", "free"} =>
            status[ioc[t]] = "CLOSED"
    /\ Carries(t) => iom[t].conn = ioc[t]

(* Answers return to the owner, and events are for open connections. *)
OwnerHandles ==
    /\ \A t \in IoThreads :
        /\ HandlesOwn(t)
        /\ \A m \in Messages :
            Queued(message_queue[t], m) => io_thread[m.conn] = t
    /\ \A c \in Conns :
        rio[c] \/ wio[c] => status[c] = "OPEN" /\ io_thread[c] # NULL
    /\ \A c \in Conns : status[c] = "CLOSED" => io_thread[c] # NULL

(* Where a message can be: a queue or the hand of a thread x. *)
Holds(k, x, m) ==
    \/ k = "task" /\ x \in Workers /\ Queued(task_queue[x], m)
    \/ k = "worker" /\ x \in Workers /\ whand[x] # NULL /\ whand[x] = m
    \/ k = "return" /\ x \in IoThreads /\ Queued(message_queue[x], m)
    \/ k = "io" /\ x \in IoThreads /\ Carries(x) /\ iom[x] = m

Kinds   == {"task", "worker", "return", "io"}
Holders == IoThreads \cup Workers

(* A message is in one place, and exists while it is somewhere. *)
OneHolder ==
    \A m \in Messages : \A k \in Kinds, x \in Holders : Holds(k, x, m) =>
        /\ m \in msgs
        /\ \A l \in Kinds, y \in Holders : Holds(l, y, m) => k = l /\ x = y

QueuedOnce ==
    /\ \A w \in Workers : NoRepeat(task_queue[w])
    /\ \A t \in IoThreads : NoRepeat(message_queue[t])

OnePlace == OneHolder /\ QueuedOnce

(* A request is of units that have been decoded, so that the next one is   *)
(* new; its connection has its IO thread.                                  *)
RequestsDecoded ==
    \A m \in msgs : ~ m.sent => m.from = m.conn /\ m.hi <= ndec[m.conn]

MessagesTaken == \A m \in msgs : io_thread[m.conn] # NULL

MessagesExist == \A m \in msgs : mem[m.conn] # "none"

(* ref_count of any connection, also of one that DropMessage has freed. *)
RefExact ==
    /\ IsFiniteSet(msgs)
    /\ \A c \in Conns :
        ref[c] = (IF mem[c] = "none" THEN 0 ELSE 1) + Cardinality(MessagesOf(c))

(* The same when the user of the service holds e[c] references besides. *)
RefsAre(e) ==
    /\ IsFiniteSet(msgs)
    /\ \A c \in Conns : ref[c] =
        (IF mem[c] = "none" THEN 0 ELSE 1) + e[c] + Cardinality(MessagesOf(c))

(* A connection has its descriptor until it is closed, and is released     *)
(* only when no message points to it.                                      *)
OwnsFd(c) == fd[c] \in Fds /\ fdOwner[fd[c]] = c

ReleasesOwn(t) ==
    /\ iopc[t] \in {"checkref", "del", "closefd"} => OwnsFd(ioc[t])
    /\ iopc[t] \in {"del", "closefd", "free"} => MessagesOf(ioc[t]) = {}

DescriptorsOwned ==
    /\ \A c \in Conns : mem[c] # "none" /\ status[c] = "OPEN" => OwnsFd(c)
    /\ \A t \in IoThreads : ReleasesOwn(t)
    /\ \A f \in Fds : fdOwner[f] # NULL =>
            fd[fdOwner[f]] = f /\ mem[fdOwner[f]] # "none"

CoreInv == TypeInv /\ OneWay /\ OwnerHandles /\ OnePlace /\ RequestsDecoded
                /\ MessagesTaken /\ RefExact /\ DescriptorsOwned

(* The way of a message: every task goes to one worker, and a message that *)
(* is ahead of another of its connection is of earlier units.              *)
Rank == [task |-> 4, worker |-> 3, return |-> 2, io |-> 1]

Precedes(s, x, y) == \E i, j \in 1..Len(s) : i < j /\ s[i] = x /\ s[j] = y

Ahead(m, n) ==
    \/ \E k \in Kinds, x \in Holders : Holds(k, x, m) /\
            \E l \in Kinds, y \in Holders : Holds(l, y, n) /\ Rank[k] < Rank[l]
    \/ \E t \in IoThreads : Precedes(message_queue[t], m, n)
    \/ \E w \in Workers : Precedes(task_queue[w], m, n)

NoReturns == \A t \in IoThreads : message_queue[t] = << >>

OneWorker ==
    /\ \A m \in msgs : ~ m.sent
    /\ \A m \in msgs : \A w \in Workers :
        Holds("task", w, m) \/ Holds("worker", w, m) => w = TaskIndex(m)
    /\ NWorkers = 0 => NoReturns

InOrder ==
    \A m, n \in msgs : m.conn = n.conn /\ Ahead(m, n) => m.hi < n.lo

(* The units of an open connection that are decoded and not answered are   *)
(* those of the messages on their way.                                     *)
Pending(m) ==
    \E k \in Kinds, x \in Holders : Holds(k, x, m) /\ (k = "io" => iopc[x] = "reply")

Answered(c) == Len(outp[c]) + Len(wbuf[c])

(* What the peer of c has got and what is on its way to it. *)
Stream(c) == outp[c] \o wbuf[c]

Covers(c) ==
    /\ Answered(c) <= ndec[c]
    /\ \A n \in 1..ndec[c] : Answered(c) < n =>
        \E m \in msgs : Pending(m) /\ m.conn = c /\ m.lo <= n /\ n <= m.hi
    /\ \A m \in msgs : Pending(m) /\ m.conn = c => Answered(c) < m.lo

OrderInv ==
    /\ OneWorker
    /\ InOrder
    /\ \A c \in Answers : status[c] = "OPEN" => Covers(c)
    /\ \A c \in Conns \ Answers : Answered(c) = 0
    /\ EchoInOrder

(* The table, when descriptors stay below its first size: an entry is for  *)
(* the owner of its descriptor, and stays until xv_service_del_connection. *)
FdsFit == \A f \in Fds : f < ConnSetSize

EntryOf(t) ==
    /\ iopc[t] # "grow"
    /\ iopc[t] \in {"checkref", "del"} => table[fd[ioc[t]]] = ioc[t]
    /\ iopc[t] = "closefd" => table[fd[ioc[t]]] # ioc[t]

TableInv ==
    /\ new_table = << >> /\ conn_setsize = ConnSetSize
    /\ DOMAIN table = 0..(ConnSetSize - 1)
    /\ \A t \in IoThreads : EntryOf(t)
    /\ \A c \in Conns : mem[c] # "none" /\ status[c] = "OPEN" => table[fd[c]] = c
    /\ \A i \in Entries : i \in Fds /\ fdOwner[i] = table[i]
    /\ conn_count = Cardinality(Entries)

(* A connection is destroyed when nothing points to it any more.           *)
PinInv ==
    /\ \A c \in Conns : mem[c] = "freed" =>
            status[c] = "CLOSED" /\ MessagesOf(c) = {}
    /\ \A t \in IoThreads : iopc[t] \in {"checkref", "del", "closefd", "free"} =>
            mem[ioc[t]] = "live"

(* Only a close destroys connections, after their descriptors. *)
ReleasedInv ==
    /\ \A t \in IoThreads : iopc[t] = "free" => \A f \in Fds : fdOwner[f] # ioc[t]
    /\ \A c \in Conns : mem[c] = "freed" => \A f \in Fds : fdOwner[f] # c

(* A message is always somewhere. *)
NothingLost ==
    \A m \in msgs : \E k \in Kinds, x \in Holders : Holds(k, x, m)

(* Peers send no more than Depth units ahead of what they have got back;   *)
(* with one, a connection has one request in the service at a time.        *)
SendsAhead == \A c \in Conns : nsent[c] <= Len(outp[c]) + Depth

OneInFlight == \A m, n \in msgs : m.conn = n.conn => m = n

(* A connection that exists has its IO thread or is on the way to it. *)
OnTheWay ==
    \A c \in Conns : mem[c] # "none" =>
        \/ io_thread[c] # NULL
        \/ \E t \in IoThreads : Queued(conn_queue[t], c) \/ (Adding(t) /\ ioc[t] = c)

(* Output waits for EPOLLOUT, unless its connection is about to be closed. *)
OutputKept ==
    \A c \in Conns : wbuf[c] # << >> =>
        /\ io_thread[c] # NULL
        /\ status[c] = "OPEN" =>
            wio[c] \/ (iopc[io_thread[c]] = "close" /\ ioc[io_thread[c]] = c)

(* Every connection that exists, also a closed one that messages keep, can *)
(* be found in the table, except after xv_service_del_connection; and what *)
(* the table holds is initialised.                                         *)
Listed ==
    /\ \A c \in Conns : mem[c] = "live" =>
        \/ table[fd[c]] = c
        \/ \E t \in IoThreads : iopc[t] \in {"closefd", "free"} /\ ioc[t] = c
    /\ \A i \in DOMAIN table : table[i] # Garbage

(***************************************************************************)
(* Of the service with any number of connections, threads and workers:     *)
(* every message is in one place and its connection counts it, descriptors *)
(* and handlers are the owner's, answers leave in order; and, where the    *)
(* hypothesis of a part holds, the table is exact and a connection is      *)
(* destroyed only when nothing points to it (xv_service.c:259-460).        *)
(***************************************************************************)
ServiceInv ==
    /\ CoreInv
    /\ OrderInv
    /\ NothingLost
    /\ SendsAhead
    /\ OnTheWay
    /\ OutputKept
    /\ FdsFit => TableInv /\ Listed
    /\ NWorkers = 0 => PinInv /\ ReleasedInv
    /\ Depth = 1 => PinInv /\ OneInFlight

=============================================================================
