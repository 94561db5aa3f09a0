--------------------------- MODULE XvShutdownProofs ---------------------------
(***************************************************************************)
(* Proofs about starting, stopping and destroying a service.  The service  *)
(* below is that of XvService, so its invariant comes from XvServiceProofs *)
(* for every step but three: main's FreeConn and the handler's StopConn    *)
(* and StopListener only take things away (Aside).  The rest is what main, *)
(* the handler and the threads know of each other (ControlInv), and what a *)
(* quiet stop leaves for the loops to do (Silent).                         *)
(***************************************************************************)
EXTENDS XvShutdownInv, XvServiceProofs

(* A step of main or of the handler that takes something from the service  *)
(* and gives it nothing: it frees connections, stops events and resets     *)
(* connections that nobody has accepted.                                   *)
Aside ==
    /\ UNCHANGED <<status, ref, io_thread, fd, ndisc, streamVars, tableVars,
                   queueVars, ioVars, nsent, msgs, whand, fdOwner>>
    /\ mem' \in [Conns -> {"none", "live", "freed"}]
    /\ rio' \in [Conns -> BOOLEAN] /\ wio' \in [Conns -> BOOLEAN]
    /\ peer' \in [Conns -> {"idle", "up", "gone"}]
    /\ backlog' \subseteq backlog
    /\ \A c \in Conns :
        /\ mem'[c] = "none" <=> mem[c] = "none"
        /\ mem'[c] = "live" => mem[c] = "live"
        /\ rio'[c] => rio[c]
        /\ wio'[c] => wio[c]
        /\ peer'[c] = "idle" <=> peer[c] = "idle"

LEMMA AsideCore == CoreInv /\ Aside => CoreInv'
<1> SUFFICES ASSUME CoreInv, Aside PROVE CoreInv'
  OBVIOUS
<1>1. UNCHANGED <<status, ref, io_thread, fd, ndisc, streamVars, tableVars,
                  queueVars, ioVars, nsent, msgs, whand, fdOwner>>
  BY DEF Aside
<1>2. TypeInv'
  <2>1. TypeOK /\ HandlersTyped /\ TableAllocated /\ StagesOrdered
    BY DEF CoreInv, TypeInv
  <2>2. ConnTypeOK' /\ PeerTypeOK'
    BY <1>1, <2>1 DEF Aside, TypeOK, ConnTypeOK, PeerTypeOK
  <2>3. StreamTypeOK' /\ TableTypeOK' /\ QueueTypeOK' /\ IoTypeOK' /\ MessageTypeOK'
        /\ TableAllocated'
    BY <1>1, <2>1, TypeFrame DEF TypeOK
  <2>4. HandlersTyped'
    BY <1>1, <2>1 DEF HandlersTyped, Carries, ioVars
  <2>5. StagesOrdered'
    BY <1>1, <2>1 DEF StagesOrdered, streamVars
  <2>6. (fdOwner \in [Fds -> Conns \cup {NULL}])'
    BY <1>1, <2>1 DEF TypeOK
  <2> QED  BY <2>2, <2>3, <2>4, <2>5, <2>6 DEF TypeInv, TypeOK
<1>3. OneWay'
  <2>1. OneWay /\ backlog \subseteq Conns /\ HandlersTyped
    BY DEF CoreInv, TypeInv, TypeOK, PeerTypeOK
  <2>2. \A t \in IoThreads : (Adding(t)' <=> Adding(t)) /\ (Adding(t) => ioc[t] \in Conns)
    BY <1>1, <2>1 DEF Adding, HandlersTyped, ioVars
  <2> QED  BY <1>1, <2>1, <2>2 DEF OneWay, Aside, queueVars, ioVars
<1>4. OwnerHandles'
  <2>1. OwnerHandles
    BY DEF CoreInv
  <2>2. \A t \in IoThreads : HandlesOwn(t)'
    BY <1>1, <2>1 DEF OwnerHandles, HandlesOwn, Carries, ioVars
  <2> QED  BY <1>1, <2>1, <2>2 DEF OwnerHandles, Aside, queueVars
<1>5. OnePlace'
  <2>1. \A k, x, m : Holds(k, x, m)' <=> Holds(k, x, m)
    BY <1>1 DEF Holds, Carries, queueVars, ioVars
  <2> QED  BY <1>1, <2>1 DEF CoreInv, OnePlace, OneHolder, QueuedOnce, queueVars
<1>6. RequestsDecoded' /\ MessagesTaken'
  BY <1>1 DEF CoreInv, RequestsDecoded, MessagesTaken, streamVars
<1>7. RefExact'
  BY <1>1 DEF CoreInv, RefExact, MessagesOf, Aside
<1>8. DescriptorsOwned'
  <2>1. DescriptorsOwned /\ fdOwner \in [Fds -> Conns \cup {NULL}]
    BY DEF CoreInv, TypeInv, TypeOK
  <2>2. \A t \in IoThreads : ReleasesOwn(t)'
    BY <1>1, <2>1 DEF DescriptorsOwned, ReleasesOwn, OwnsFd, MessagesOf, ioVars
  <2> QED  BY <1>1, <2>1, <2>2 DEF DescriptorsOwned, OwnsFd, Aside
<1> QED  BY <1>2, <1>3, <1>4, <1>5, <1>6, <1>7, <1>8 DEF CoreInv

LEMMA AsideOrder == OrderInv /\ Aside => OrderInv'
<1> SUFFICES ASSUME OrderInv, Aside PROVE OrderInv'
  OBVIOUS
<1>1. UNCHANGED <<status, streamVars, queueVars, ioVars, msgs, whand>>
  BY DEF Aside
<1>2. \A k, x, m : Holds(k, x, m)' <=> Holds(k, x, m)
  BY <1>1 DEF Holds, Carries, queueVars, ioVars
<1>3. OneWorker'
  BY <1>1, <1>2 DEF OrderInv, OneWorker, NoReturns, queueVars, TaskIndex
<1>4. InOrder'
  <2>1. \A m, n : Ahead(m, n)' <=> Ahead(m, n)
    BY <1>1, <1>2 DEF Ahead, queueVars
  <2> QED  BY <1>1, <2>1 DEF OrderInv, InOrder
<1>5. \A m : Pending(m)' <=> Pending(m)
  BY <1>1, <1>2 DEF Pending, ioVars
<1>6. \A c \in Conns : /\ Answered(c)' = Answered(c)
                       /\ Covers(c)' <=> Covers(c)
  BY <1>1, <1>5 DEF Covers, Answered, streamVars
<1>7. EchoInOrder'
  BY <1>1 DEF OrderInv, EchoInOrder, streamVars
<1> QED  BY <1>1, <1>3, <1>4, <1>6, <1>7, ServiceConstants DEF OrderInv

LEMMA AsideRest ==
    ASSUME CoreInv, Aside
    PROVE  /\ NothingLost => NothingLost'
           /\ OnTheWay => OnTheWay'
           /\ TableInv => TableInv'
           /\ Listed => Listed'
<1>1. UNCHANGED <<status, io_thread, fd, tableVars, queueVars, ioVars, msgs, whand,
                  fdOwner>>
  BY DEF Aside
<1>2. \A k, x, m : Holds(k, x, m)' <=> Holds(k, x, m)
  BY <1>1 DEF Holds, Carries, queueVars, ioVars
<1>3. NothingLost => NothingLost'
  BY <1>1, <1>2 DEF NothingLost
<1>4. OnTheWay => OnTheWay'
  BY <1>1 DEF OnTheWay, Aside, Adding, queueVars, ioVars
<1>5. TableInv => TableInv'
  <2>1. Entries' = Entries
    BY <1>1 DEF Entries, tableVars
  <2>2. \A t \in IoThreads : EntryOf(t)' <=> EntryOf(t)
    BY <1>1 DEF EntryOf, tableVars, ioVars
  <2> QED  BY <1>1, <2>1, <2>2 DEF TableInv, Aside, tableVars
<1>6. Listed => Listed'
  BY <1>1 DEF Listed, Aside, tableVars, ioVars
<1> QED  BY <1>3, <1>4, <1>5, <1>6

LEMMA FreeConnIsAside == CoreInv /\ FreeConn => Aside
<1> SUFFICES ASSUME CoreInv, FreeConn PROVE Aside
  OBVIOUS
<1>1. ConnTypeOK /\ PeerTypeOK /\ OneWay /\ DescriptorsOwned
  BY DEF CoreInv, TypeInv, TypeOK
<1>2. /\ UNCHANGED <<status, ref, io_thread, fd, rio, wio, ndisc, streamVars,
                     tableVars, queueVars, ioVars, peerVars, msgs, whand, fdOwner>>
      /\ \/ mem' = mem
         \/ /\ table[mi] \in Conns /\ mem[table[mi]] = "live"
            /\ mem' = [mem EXCEPT ![table[mi]] = "freed"]
  BY DEF FreeConn, Sound, xv_connection_destroy
<1> QED  BY <1>1, <1>2 DEF Aside, ConnTypeOK, PeerTypeOK, peerVars

(* What the steps that stop a connection have in common. *)
LEMMA StopConnFrame ==
    ASSUME StopConn
    PROVE  /\ UNCHANGED <<mem, status, ref, io_thread, fd, ndisc, streamVars,
                          tableVars, queueVars, ioVars, peerVars, msgs, whand,
                          fdOwner, mainVars, listenerVars, lifeVars, start,
                          pool_start>>
           /\ rio' = rio \/ rio' = [rio EXCEPT ![sc] = FALSE]
           /\ wio' = wio \/ wio' = [wio EXCEPT ![sc] = FALSE]
           /\ spc \in ConnLabels
           /\ \/ spc' \in ConnLabels /\ si' \in {si, si + 1}
              \/ spc' = "stop_io" /\ si' = 0
           /\ sc' \in {sc, NULL} \/ (si \in DOMAIN table /\ sc' = table[si])
<1>1. TestConn \/ FollowConn \/ PassConn \/ StopReadIo \/ StopWriteIo
  BY DEF StopConn
<1>2. /\ rio' = rio \/ rio' = [rio EXCEPT ![sc] = FALSE]
      /\ wio' = wio \/ wio' = [wio EXCEPT ![sc] = FALSE]
  BY <1>1 DEF TestConn, FollowConn, PassConn, StopReadIo, StopWriteIo
<1>3. /\ spc \in ConnLabels
      /\ \/ spc' \in ConnLabels /\ si' \in {si, si + 1}
         \/ spc' = "stop_io" /\ si' = 0
      /\ sc' \in {sc, NULL} \/ (si \in DOMAIN table /\ sc' = table[si])
  BY <1>1 DEF TestConn, FollowConn, PassConn, StopReadIo, StopWriteIo, StopAt,
              StopRound, StopGoOn, ConnLabels
<1> QED  BY <1>2, <1>3 DEF StopConn

LEMMA StopConnIsAside == CoreInv /\ StopConn => Aside
<1> SUFFICES ASSUME CoreInv, StopConn PROVE Aside
  OBVIOUS
<1>1. ConnTypeOK /\ PeerTypeOK
  BY DEF CoreInv, TypeInv, TypeOK
<1>2. /\ UNCHANGED <<mem, status, ref, io_thread, fd, ndisc, streamVars,
                     tableVars, queueVars, ioVars, peerVars, msgs, whand, fdOwner>>
      /\ rio' = rio \/ rio' = [rio EXCEPT ![sc] = FALSE]
      /\ wio' = wio \/ wio' = [wio EXCEPT ![sc] = FALSE]
  BY StopConnFrame
<1> QED  BY <1>1, <1>2 DEF Aside, ConnTypeOK, PeerTypeOK, peerVars

LEMMA StopListenerIsAside == CoreInv /\ StopListener => Aside
<1> SUFFICES ASSUME CoreInv, StopListener PROVE Aside
  OBVIOUS
<1>1. ConnTypeOK /\ PeerTypeOK /\ OneWay
  BY DEF CoreInv, TypeInv, TypeOK
<1>2. /\ UNCHANGED <<connVars, streamVars, tableVars, queueVars, ioVars, nsent,
                     msgs, whand, fdOwner>>
      /\ backlog' = {}
      /\ peer' = [c \in Conns |-> IF c \in backlog THEN "gone" ELSE peer[c]]
  BY DEF StopListener, xv_listener_stop
<1>3. \A c \in backlog : peer[c] # "idle"
  BY <1>1 DEF OneWay
<1> QED  BY <1>1, <1>2, <1>3 DEF Aside, ConnTypeOK, PeerTypeOK, connVars

(* Every other step is one of the service, or leaves it alone. *)
LEMMA StepsOfService ==
    [ShutdownNext]_shutdownVars =>
        [Next]_vars \/ FreeConn \/ StopConn \/ StopListener
<1> SUFFICES ASSUME [ShutdownNext]_shutdownVars
             PROVE  [Next]_vars \/ FreeConn \/ StopConn \/ StopListener
  OBVIOUS
<1>1. CASE MainStep
  BY <1>1 DEF MainStep, xv_service_add_listen, StartService, CreateIoThread,
              xv_service_run, JoinIoThread, FreeListener, xv_io_thread_destroy,
              WakeWorker, JoinWorker
<1>2. CASE HandlerOfSigint \/ Signal
  BY <1>2 DEF HandlerOfSigint, Signal, xv_io_thread_stop, StopPool
<1>3. ASSUME NEW t \in IoThreads, io_thread_entry(t) \/ RunLoop(t) \/ LeaveLoop(t)
      PROVE  [Next]_vars
  BY <1>3 DEF io_thread_entry, RunLoop, LeaveLoop, Next, IoStep
<1>4. ASSUME NEW w \in Workers, RunWorker(w) \/ LeaveWorker(w)
      PROVE  [Next]_vars
  BY <1>4 DEF RunWorker, LeaveWorker, Next
<1>5. ASSUME NEW c \in Conns, ClientStep(c)
      PROVE  [Next]_vars
  BY <1>5 DEF ClientStep, Next
<1>6. CASE UNCHANGED shutdownVars
  BY <1>6 DEF shutdownVars
<1> QED  BY <1>1, <1>2, <1>3, <1>4, <1>5, <1>6 DEF ShutdownNext, ProgramStep

(* The service keeps its invariant while it is being shut down. *)
ServicePart ==
    /\ CoreInv /\ OrderInv /\ NothingLost /\ OnTheWay
    /\ FdsFit => TableInv /\ Listed

LEMMA NextServicePart ==
    ServicePart /\ [ShutdownNext]_shutdownVars => ServicePart'
<1> SUFFICES ASSUME ServicePart, [ShutdownNext]_shutdownVars PROVE ServicePart'
  OBVIOUS
<1>1. CoreInv /\ OrderInv /\ NothingLost /\ OnTheWay
      /\ (FdsFit => TableInv /\ Listed) /\ (FdsFit' <=> FdsFit)
  BY DEF ServicePart, FdsFit
<1>2. CASE [Next]_vars
  <2>1. CoreInv' /\ OrderInv' /\ NothingLost' /\ OnTheWay'
    BY <1>1, <1>2, NextService, NextOrder, NextHeld, NextOnTheWay
  <2>2. FdsFit => TableInv' /\ Listed'
    BY <1>1, <1>2, NextTable, NextListed
  <2> QED  BY <1>1, <2>1, <2>2 DEF ServicePart
<1>3. CASE Aside
  BY <1>1, <1>3, AsideCore, AsideOrder, AsideRest DEF ServicePart
<1> QED  BY <1>1, <1>2, <1>3, StepsOfService, FreeConnIsAside, StopConnIsAside,
            StopListenerIsAside


(* A step of a loop moves its own thread only. *)
LEMMA OneThread ==
    ASSUME IoTypeOK, NEW t \in IoThreads, IoStep(t)
    PROVE  \A u \in IoThreads : u # t => iopc'[u] = iopc[u]
<1>1. CASE ListenEvent(t)
  BY <1>1 DEF ListenEvent, Accept, AcceptFails, Goto, ioVars, IoTypeOK
<1>2. CASE QueueEvent(t)
  BY <1>2 DEF QueueEvent, AddConn, ReturnMessage, DropMessage, Goto, ioVars, IoTypeOK
<1>3. CASE SocketEvent(t)
  <2>1. PICK c \in Conns :
            \/ \E n \in 1..MaxReq : ReadRequest(t, c, n)
            \/ \E n \in 0..MaxReq : ReadAndClose(t, c, n)
            \/ \E n \in 0..Len(wbuf[c]) : WriteEvent(t, c, n)
            \/ WriteEventFails(t, c)
    BY <1>3 DEF SocketEvent
  <2>2. ASSUME NEW n \in 1..MaxReq, ReadRequest(t, c, n)
        PROVE  \E m : Goto(t, "reply", c, m, "poll") \/ UNCHANGED ioVars
    BY <2>2 DEF ReadRequest
  <2>3. (\E label, m : Goto(t, label, c, m, "poll")) \/ UNCHANGED ioVars
    BY <2>1, <2>2 DEF ReadAndClose, WriteEvent, WriteEventFails
  <2> QED  BY <2>3 DEF Goto, ioVars, IoTypeOK
<1>4. CASE Grow(t) \/ GrowDone(t) \/ Distribute(t) \/ NoReply(t) \/ DestroyMessage(t)
  BY <1>4 DEF Grow, GrowDone, Distribute, NoReply, DestroyMessage, BackToPoll, Goto,
              ioVars, IoTypeOK
<1>5. CASE ReplyFails(t) \/ \E n \in 0..(MaxReq * Cardinality(Conns)) : Reply(t, n)
  BY <1>5 DEF ReplyFails, Reply, Goto, IoTypeOK
<1>6. CASE Close(t)
  BY <1>6 DEF Close, CloseMark, CheckRef, DelConnection, CloseFd, FreeConnection,
              IoTypeOK
<1> QED  BY <1>1, <1>2, <1>3, <1>4, <1>5, <1>6 DEF IoStep, HandlerStep

(* What main, the handler and the threads know of each other.              *)
LEMMA InitControl == ShutdownInit => ControlInv /\ FreeIoIndex
<1> SUFFICES ASSUME ShutdownInit PROVE ControlInv /\ FreeIoIndex
  OBVIOUS
<1>1. 0 \in IoThreads /\ NULL # 0
  BY ServiceConstants DEF IoThreads
<1>2. ControlTypeOK /\ LoopsBroken /\ FreeIoIndex
  BY DEF ShutdownInit, ControlTypeOK, LoopsBroken, FreeIoIndex
<1>3. MainFollows /\ WorkersJoined
  BY DEF ShutdownInit, MainFollows, WorkersJoined, Destroying
<1>4. ListenerInv /\ NobodyYet
  BY <1>1 DEF ShutdownInit, Init, ListenerInv, NobodyYet
<1> QED  BY <1>2, <1>3, <1>4 DEF ControlInv

LEMMA NextControl ==
    CoreInv /\ ControlInv /\ FreeIoIndex /\ [ShutdownNext]_shutdownVars
        => ControlInv' /\ FreeIoIndex'
<1> SUFFICES ASSUME CoreInv, ControlInv, FreeIoIndex, [ShutdownNext]_shutdownVars
             PROVE  ControlInv' /\ FreeIoIndex'
  OBVIOUS
<1>a. /\ ControlTypeOK /\ LoopsBroken /\ MainFollows /\ WorkersJoined
      /\ ListenerInv /\ NobodyYet
  BY DEF ControlInv
<1>b. IoTypeOK /\ ConnTypeOK /\ OneWay
  BY DEF CoreInv, TypeInv, TypeOK
<1>c. /\ NIo \in Nat \ {0} /\ NWorkers \in Nat /\ NULL # 0
      /\ 0 \in IoThreads
  BY ServiceConstants DEF IoThreads
<1> USE <1>a, <1>b, <1>c DEF IoThreads, Workers
<1>d. ASSUME UNCHANGED vars PROVE  UNCHANGED <<iopc, mem>>
  BY <1>d DEF vars, ioVars, connVars
<1> DEFINE Goal == /\ ControlTypeOK' /\ LoopsBroken' /\ MainFollows' /\ WorkersJoined'
                   /\ ListenerInv' /\ NobodyYet' /\ FreeIoIndex'
<1> SUFFICES Goal
  BY DEF ControlInv
<1>1. CASE xv_service_add_listen
  <2>1. /\ UNCHANGED <<vars, handlerVars, lifeVars, start, pool_start,
                       listener_io_thread, listen_io>>
        /\ UNCHANGED <<iopc, mem>> /\ At("listen") /\ mi' = 0
        /\ \/ mpc' = "start" /\ listener' = "open"
           \/ mpc' = "done" /\ listener' = listener
    BY <1>1, <1>d DEF xv_service_add_listen, GoOn, xv_listener_init
  <2>2. ControlTypeOK' /\ LoopsBroken' /\ FreeIoIndex'
    BY <2>1 DEF ControlTypeOK, LoopsBroken, FreeIoIndex, handlerVars, lifeVars
  <2>3. MainFollows' /\ WorkersJoined'
    BY <2>1 DEF MainFollows, WorkersJoined, Destroying, At, handlerVars, lifeVars, Exited
  <2>4. ListenerInv' /\ NobodyYet'
    BY <2>1 DEF ListenerInv, NobodyYet, MainFollows, At, handlerVars, lifeVars
  <2> QED  BY <2>2, <2>3, <2>4
<1>2. CASE StartService
  <2>1. /\ UNCHANGED <<vars, handlerVars, listenerVars, loop_start, iolife>>
        /\ UNCHANGED <<iopc, mem>> /\ At("start") /\ mi' = 0 /\ mpc' = "create"
        /\ start' = TRUE /\ pool_start' = TRUE /\ wlife' = [w \in Workers |-> "run"]
    BY <1>2, <1>d DEF StartService, GoOn
  <2>2. ControlTypeOK' /\ LoopsBroken' /\ FreeIoIndex'
    BY <2>1 DEF ControlTypeOK, LoopsBroken, FreeIoIndex, handlerVars, listenerVars
  <2>3. MainFollows' /\ WorkersJoined'
    BY <2>1 DEF MainFollows, WorkersJoined, Destroying, At, handlerVars, Exited
  <2>4. ListenerInv' /\ NobodyYet'
    BY <2>1 DEF ListenerInv, NobodyYet, At, listenerVars
  <2> QED  BY <2>2, <2>3, <2>4
<1>3. CASE CreateIoThread
  <2>1. /\ UNCHANGED <<vars, handlerVars, listenerVars, loop_start, wlife, start,
                       pool_start>>
        /\ UNCHANGED <<iopc, mem>> /\ At("create")
        /\ iolife' = [iolife EXCEPT ![mi] = "entry"]
        /\ \/ mi + 1 < NIo /\ mi' = mi + 1 /\ mpc' = mpc
           \/ ~ (mi + 1 < NIo) /\ mi' = 0 /\ mpc' = "called"
    BY <1>3, <1>d DEF CreateIoThread, Round, GoOn
  <2>a. mi \in IoThreads /\ iolife[mi] = "none" /\ mi \in Nat /\ mpc = "create"
    BY <2>1 DEF MainFollows, At, ControlTypeOK
  <2>2. ControlTypeOK' /\ LoopsBroken' /\ FreeIoIndex'
    BY <2>1, <2>a DEF ControlTypeOK, LoopsBroken, FreeIoIndex, handlerVars, listenerVars
  <2>3. MainFollows'
    BY <2>1, <2>a DEF MainFollows, ControlTypeOK, Destroying, handlerVars, Exited
  <2>4. WorkersJoined' /\ ListenerInv' /\ NobodyYet'
    BY <2>1, <2>a DEF WorkersJoined, ListenerInv, NobodyYet, ControlTypeOK, listenerVars
  <2> QED  BY <2>2, <2>3, <2>4
<1>4. CASE JoinIoThread
  <2>1. /\ UNCHANGED <<vars, handlerVars, listenerVars, lifeVars, start, pool_start>>
        /\ UNCHANGED <<iopc, mem>> /\ At("run") /\ iolife[mi] = "exited"
        /\ \/ mi + 1 < NIo /\ mi' = mi + 1 /\ mpc' = mpc
           \/ ~ (mi + 1 < NIo) /\ mi' = 0 /\ mpc' = "free_listener"
    BY <1>4, <1>d DEF JoinIoThread, Round, GoOn
  <2>a. mi \in IoThreads /\ mi \in Nat /\ mpc = "run" /\ ~ loop_start[mi]
        /\ spc \in {"off", "over"}
    BY <2>1 DEF MainFollows, At, ControlTypeOK, LoopsBroken
  <2>b. spc = "over" /\ \A t \in IoThreads : t < mi + 1 => Exited(t)
    BY <2>1, <2>a DEF LoopsBroken, MainFollows, Exited
  <2>2. ControlTypeOK' /\ LoopsBroken' /\ FreeIoIndex'
    BY <2>1, <2>a DEF ControlTypeOK, LoopsBroken, FreeIoIndex, handlerVars, listenerVars,
                      lifeVars
  <2>3. MainFollows'
    BY <2>1, <2>a, <2>b DEF MainFollows, ControlTypeOK, Destroying, handlerVars,
                            lifeVars, Exited
  <2>4. WorkersJoined' /\ ListenerInv' /\ NobodyYet'
    BY <2>1, <2>a DEF WorkersJoined, ListenerInv, NobodyYet, listenerVars, lifeVars
  <2> QED  BY <2>2, <2>3, <2>4
<1>4a. CASE xv_service_run
  <2>1. /\ UNCHANGED <<vars, handlerVars, listenerVars, lifeVars, start, pool_start>>
        /\ UNCHANGED <<iopc, mem>> /\ At("called")
        /\ mi' = 0 /\ mpc' \in {"run", "gave_up"}
    BY <1>4a, <1>d DEF xv_service_run, GoOn
  <2>2. ControlTypeOK' /\ LoopsBroken' /\ FreeIoIndex'
    BY <2>1 DEF ControlTypeOK, LoopsBroken, FreeIoIndex, handlerVars, listenerVars,
                lifeVars
  <2>3. MainFollows'
    BY <2>1, ServiceConstants DEF MainFollows, Destroying, At, handlerVars, lifeVars,
                                  Exited, IoThreads
  <2>4. WorkersJoined' /\ ListenerInv' /\ NobodyYet'
    BY <2>1 DEF WorkersJoined, ListenerInv, NobodyYet, At, listenerVars, lifeVars
  <2> QED  BY <2>2, <2>3, <2>4
<1>5. CASE FreeListener \/ FreeConn
  <2>1. /\ UNCHANGED <<handlerVars, lifeVars, start, pool_start, iopc,
                       listener_io_thread, listen_io>>
        /\ listener' \in {listener, "freed"}
        /\ mpc \in {"free_listener", "free_conns"}
        /\ spc \in {"off", "over"}
        /\ mpc' \in {"free_conns", "free_io"} /\ (mpc' = "free_io" => mi' = 0)
        /\ mi' \in Nat
    <3>1. mi \in Nat
      BY DEF ControlTypeOK
    <3>2. CASE FreeListener
      BY <3>1, <3>2, <1>d DEF FreeListener, GoOn, xv_listener_destroy, At
    <3>3. CASE FreeConn
      BY <3>1, <3>3 DEF FreeConn, Round, GoOn, At, ioVars, listenerVars
    <3> QED  BY <1>5, <3>2, <3>3
  <2>2. ControlTypeOK' /\ LoopsBroken' /\ FreeIoIndex'
    BY <2>1 DEF ControlTypeOK, LoopsBroken, FreeIoIndex, handlerVars, lifeVars
  <2>3. MainFollows' /\ WorkersJoined'
    BY <2>1 DEF MainFollows, WorkersJoined, Destroying, handlerVars, lifeVars, Exited
  <2>4. ListenerInv' /\ NobodyYet'
    <3>1. \E t \in IoThreads : iolife'[t] # "none"
      BY <2>1 DEF MainFollows, Destroying, Exited, lifeVars
    <3> QED  BY <2>1, <3>1 DEF ListenerInv, NobodyYet, lifeVars
  <2> QED  BY <2>2, <2>3, <2>4
<1>6. CASE xv_io_thread_destroy
  <2>1. /\ UNCHANGED <<vars, handlerVars, listenerVars, lifeVars, start, pool_start>>
        /\ UNCHANGED <<iopc, mem>> /\ mpc = "free_io"
        /\ \/ mi + 1 < NIo /\ mi' = mi + 1 /\ mpc' = mpc
           \/ mi' = 0 /\ mpc' = (IF NWorkers = 0 THEN "done" ELSE "wake")
    BY <1>6, <1>d DEF xv_io_thread_destroy, Round, GoOn, At
  <2>a. mi \in Nat
    BY DEF ControlTypeOK
  <2>2. ControlTypeOK' /\ LoopsBroken' /\ FreeIoIndex'
    BY <2>1, <2>a DEF ControlTypeOK, LoopsBroken, FreeIoIndex, handlerVars, listenerVars,
                      lifeVars
  <2>3. MainFollows' /\ WorkersJoined'
    BY <2>1, <2>a DEF MainFollows, WorkersJoined, Destroying, handlerVars, lifeVars,
                      Exited
  <2>4. ListenerInv' /\ NobodyYet'
    BY <2>1 DEF ListenerInv, NobodyYet, listenerVars, lifeVars
  <2> QED  BY <2>2, <2>3, <2>4
<1>7. CASE WakeWorker
  <2>1. /\ UNCHANGED <<vars, mi, handlerVars, listenerVars, loop_start, iolife, start,
                       pool_start>>
        /\ UNCHANGED <<iopc, mem>> /\ mpc = "wake" /\ mpc' = "join_worker"
        /\ wlife' = [wlife EXCEPT ![mi] = IF @ = "run" THEN "woken" ELSE @]
    BY <1>7, <1>d DEF WakeWorker, At
  <2>2. ControlTypeOK' /\ LoopsBroken' /\ FreeIoIndex'
    BY <2>1 DEF ControlTypeOK, LoopsBroken, FreeIoIndex, handlerVars, listenerVars
  <2>3. MainFollows' /\ WorkersJoined'
    BY <2>1 DEF MainFollows, WorkersJoined, Destroying, handlerVars, Exited,
                ControlTypeOK
  <2>4. ListenerInv' /\ NobodyYet'
    BY <2>1 DEF ListenerInv, NobodyYet, listenerVars
  <2> QED  BY <2>2, <2>3, <2>4
<1>8. CASE JoinWorker
  <2>1. /\ UNCHANGED <<vars, handlerVars, listenerVars, lifeVars, start, pool_start>>
        /\ UNCHANGED <<iopc, mem>> /\ mpc = "join_worker" /\ wlife[mi] = "exited"
        /\ \/ mi + 1 < NWorkers /\ mpc' = "wake" /\ mi' = mi + 1
           \/ ~ (mi + 1 < NWorkers) /\ mpc' = "done" /\ mi' = 0
    BY <1>8, <1>d DEF JoinWorker, At, GoOn
  <2>a. mi \in Nat
    BY DEF ControlTypeOK
  <2>2. ControlTypeOK' /\ LoopsBroken' /\ FreeIoIndex'
    BY <2>1, <2>a DEF ControlTypeOK, LoopsBroken, FreeIoIndex, handlerVars, listenerVars,
                      lifeVars
  <2>3. MainFollows' /\ WorkersJoined'
    BY <2>1, <2>a DEF MainFollows, WorkersJoined, Destroying, handlerVars, lifeVars,
                      Exited
  <2>4. ListenerInv' /\ NobodyYet'
    BY <2>1 DEF ListenerInv, NobodyYet, listenerVars, lifeVars
  <2> QED  BY <2>2, <2>3, <2>4
<1>9. CASE Signal
  <2>1. /\ UNCHANGED <<vars, mainVars, listenerVars, lifeVars, pool_start>>
        /\ UNCHANGED <<iopc, mem>> /\ spc = "off" /\ start /\ start' = FALSE
        /\ spc' = "stop_listener" /\ si' = 0 /\ sc' = sc
    BY <1>9, <1>d DEF Signal, StopAt, StopGoOn
  <2>2. ControlTypeOK' /\ LoopsBroken' /\ FreeIoIndex'
    BY <2>1 DEF ControlTypeOK, LoopsBroken, FreeIoIndex, mainVars, listenerVars, lifeVars
  <2>3. MainFollows' /\ WorkersJoined'
    BY <2>1 DEF MainFollows, WorkersJoined, Destroying, mainVars, lifeVars, Exited
  <2>4. ListenerInv' /\ NobodyYet'
    BY <2>1 DEF ListenerInv, NobodyYet, mainVars, listenerVars, lifeVars
  <2> QED  BY <2>2, <2>3, <2>4
<1>10. CASE StopListener \/ StopConn \/ StopPool
  <2>1. /\ UNCHANGED <<mainVars, lifeVars, start, iopc, mem, listener_io_thread>>
        /\ listen_io' \in BOOLEAN /\ listener' \in {listener, "closed"}
        /\ pool_start' \in BOOLEAN
        /\ spc \notin {"off", "over"} /\ si' \in Nat
        /\ sc' \in Conns \cup {NULL, Garbage}
        /\ \/ spc = "stop_listener" /\ spc' \in ConnLabels
           \/ spc \in ConnLabels /\ spc' \in ConnLabels
           \/ spc \in ConnLabels /\ spc' = "stop_io" /\ si' = 0
           \/ spc = "stop_pool" /\ spc' = "over"
    <3>1. /\ si \in Nat /\ listen_io \in BOOLEAN /\ pool_start \in BOOLEAN
          /\ sc \in Conns \cup {NULL, Garbage}
          /\ \A i \in DOMAIN table : table[i] \in Conns \cup {NULL, Garbage}
      BY DEF ControlTypeOK, CoreInv, TypeInv, TypeOK, TableTypeOK
    <3>2. CASE StopListener
      BY <3>1, <3>2 DEF StopListener, xv_listener_stop, StopAt, StopGoOn, ConnLabels,
                        ioVars, connVars
    <3>3. CASE StopConn
      BY <3>1, <3>3, StopConnFrame DEF ConnLabels, ioVars, listenerVars
    <3>4. CASE StopPool
      BY <3>1, <3>4, <1>d DEF StopPool, StopAt, StopGoOn, listenerVars
    <3> QED  BY <1>10, <3>2, <3>3, <3>4
  <2>2. ControlTypeOK' /\ LoopsBroken' /\ FreeIoIndex'
    BY <2>1 DEF ControlTypeOK, LoopsBroken, FreeIoIndex, ConnLabels, mainVars, lifeVars
  <2>3. MainFollows' /\ WorkersJoined'
    BY <2>1 DEF MainFollows, WorkersJoined, Destroying, ConnLabels, mainVars, lifeVars,
                Exited
  <2>4. ListenerInv' /\ NobodyYet'
    BY <2>1 DEF ListenerInv, NobodyYet, mainVars, lifeVars
  <2> QED  BY <2>2, <2>3, <2>4
<1>11. CASE xv_io_thread_stop
  <2>1. /\ UNCHANGED <<vars, mainVars, listenerVars, iolife, wlife, start, pool_start>>
        /\ UNCHANGED <<iopc, mem>> /\ spc = "stop_io"
        /\ loop_start' = [loop_start EXCEPT ![si] = FALSE]
        /\ sc' = sc
        /\ \/ spc' = "stop_io" /\ si' = si + 1
           \/ spc' = "stop_pool" /\ si' = 0
    BY <1>11, <1>d DEF xv_io_thread_stop, StopAt, StopGoOn, StopRound
  <2>a. si \in Nat
    BY DEF ControlTypeOK
  <2>2. ControlTypeOK' /\ LoopsBroken' /\ FreeIoIndex'
    <3>1. \A t \in IoThreads : loop_start'[t] <=> loop_start[t] /\ t # si
      BY <2>1 DEF ControlTypeOK
    <3>2. LoopsBroken'
      BY <2>1, <2>a, <3>1 DEF LoopsBroken, ConnLabels
    <3>3. loop_start' \in [IoThreads -> BOOLEAN]
      BY <2>1 DEF ControlTypeOK
    <3> QED  BY <2>1, <2>a, <3>2, <3>3 DEF ControlTypeOK, FreeIoIndex, mainVars, listenerVars
  <2>3. MainFollows' /\ WorkersJoined'
    BY <2>1 DEF MainFollows, WorkersJoined, Destroying, mainVars, Exited
  <2>4. ListenerInv' /\ NobodyYet'
    BY <2>1 DEF ListenerInv, NobodyYet, mainVars, listenerVars
  <2> QED  BY <2>2, <2>3, <2>4
<1>12. ASSUME NEW t \in IoThreads, io_thread_entry(t) \/ LeaveLoop(t)
       PROVE  Goal
  <2>1. /\ UNCHANGED <<vars, mainVars, handlerVars, listener, loop_start, wlife,
                       start, pool_start>>
        /\ UNCHANGED <<iopc, mem>>
        /\ listen_io' \in BOOLEAN
        /\ \/ /\ iolife[t] = "entry" /\ iolife' = [iolife EXCEPT ![t] = "loop"]
              /\ listener_io_thread' = IF t = 0 THEN t ELSE listener_io_thread
           \/ /\ iolife[t] = "loop" /\ iolife' = [iolife EXCEPT ![t] = "exited"]
              /\ listener_io_thread' = IF t = 0 THEN NULL ELSE listener_io_thread
              /\ ~ loop_start[t] /\ iopc[t] = "poll"
    BY <1>12, <1>d DEF io_thread_entry, LeaveLoop
  <2>2. ControlTypeOK' /\ LoopsBroken' /\ FreeIoIndex'
    BY <2>1 DEF ControlTypeOK, LoopsBroken, FreeIoIndex, mainVars, handlerVars
  <2>3. MainFollows' /\ WorkersJoined'
    BY <2>1 DEF MainFollows, WorkersJoined, Destroying, mainVars, handlerVars, Exited,
                ControlTypeOK
  <2>4. ListenerInv' /\ NobodyYet'
    BY <2>1 DEF ListenerInv, NobodyYet, mainVars, ControlTypeOK
  <2> QED  BY <2>2, <2>3, <2>4
<1>13. ASSUME UNCHANGED controlVars,
              \A u \in IoThreads : iolife[u] = "exited" => iopc'[u] = iopc[u],
              mem' = mem \/ \E u \in IoThreads : iolife[u] # "none"
       PROVE  Goal
  <2>1. UNCHANGED <<mpc, mi, spc, si, sc, start, pool_start, listener, listener_io_thread,
                    listen_io, loop_start, iolife, wlife>>
    BY <1>13 DEF controlVars, mainVars, handlerVars, listenerVars, lifeVars
  <2>2. ControlTypeOK' /\ LoopsBroken' /\ FreeIoIndex'
    BY <1>13, <2>1 DEF ControlTypeOK, LoopsBroken, FreeIoIndex
  <2>3. MainFollows' /\ WorkersJoined'
    BY <2>1 DEF MainFollows, WorkersJoined, Destroying, Exited
  <2>4. ListenerInv' /\ NobodyYet'
    BY <1>13, <2>1 DEF ListenerInv, NobodyYet
  <2> QED  BY <2>2, <2>3, <2>4
<1>14. ASSUME NEW t \in IoThreads, RunLoop(t)
       PROVE  Goal
  <2>1. iolife[t] = "loop" /\ IoStep(t) /\ UNCHANGED controlVars
    BY <1>14 DEF RunLoop, IoStep
  <2> QED  BY <2>1, <1>13, OneThread
<1>15. ASSUME NEW w \in Workers, RunWorker(w) \/ LeaveWorker(w)
       PROVE  Goal
  <2>1. /\ UNCHANGED <<mainVars, handlerVars, listenerVars, loop_start, iolife, start,
                       pool_start, iopc, mem>>
        /\ wlife[w] \in {"run", "woken"}
        /\ \/ wlife' = [wlife EXCEPT ![w] = "exited"]
           \/ wlife' = [wlife EXCEPT ![w] = wlife[w]]
    <3>1. CASE RunWorker(w)
      BY <3>1 DEF RunWorker, WorkerStep, TakeTask, FinishTask, ioVars, connVars
    <3>2. CASE LeaveWorker(w)
      BY <3>2, <1>d DEF LeaveWorker
    <3> QED  BY <1>15, <3>1, <3>2
  <2>2. ControlTypeOK' /\ LoopsBroken' /\ FreeIoIndex'
    BY <2>1 DEF ControlTypeOK, LoopsBroken, FreeIoIndex, mainVars, handlerVars,
                listenerVars
  <2>3. MainFollows' /\ WorkersJoined'
    BY <2>1 DEF MainFollows, WorkersJoined, Destroying, mainVars, handlerVars, Exited,
                ControlTypeOK
  <2>4. ListenerInv' /\ NobodyYet'
    BY <2>1 DEF ListenerInv, NobodyYet, mainVars, listenerVars
  <2> QED  BY <2>2, <2>3, <2>4
<1>16. ASSUME NEW c \in Conns, ClientStep(c)
       PROVE  Goal
  <2>1. UNCHANGED <<controlVars, iopc, mem>>
    BY <1>16 DEF ClientStep, PeerStep, Connect, PeerSend, PeerClose, ioVars, connVars
  <2> QED  BY <2>1, <1>13
<1>17. CASE UNCHANGED shutdownVars
  BY <1>17, <1>d, <1>13 DEF shutdownVars
<1> HIDE DEF Goal
<1>18. CASE MainStep
  BY <1>18, <1>1, <1>2, <1>3, <1>4, <1>4a, <1>5, <1>6, <1>7, <1>8
     DEF MainStep
<1>19. CASE HandlerOfSigint
  BY <1>19, <1>10, <1>11 DEF HandlerOfSigint
<1> QED
  BY <1>9, <1>12, <1>14, <1>15, <1>16, <1>17, <1>18, <1>19 DEF ShutdownNext, ProgramStep

(* Which steps move main, the handler and what the threads share. *)
LEMMA WhoMoves ==
    [ShutdownNext]_shutdownVars =>
        /\ UNCHANGED handlerVars \/ Signal \/ HandlerOfSigint
        /\ UNCHANGED mainVars \/ MainStep
        /\ \/ FreeConn
           \/ StopConn
           \/ \E t \in IoThreads : RunLoop(t)
           \/ UNCHANGED <<mem, status, io_thread, fd, rio, wio, tableVars, ioVars,
                          conn_queue, fdOwner>>
<1> SUFFICES ASSUME [ShutdownNext]_shutdownVars
             PROVE  /\ UNCHANGED handlerVars \/ Signal \/ HandlerOfSigint
                    /\ UNCHANGED mainVars \/ MainStep
                    /\ \/ FreeConn
                       \/ StopConn
                       \/ \E t \in IoThreads : RunLoop(t)
                       \/ UNCHANGED <<mem, status, io_thread, fd, rio, wio, tableVars,
                                      ioVars, conn_queue, fdOwner>>
  OBVIOUS
<1> DEFINE Alike == UNCHANGED <<mem, status, io_thread, fd, rio, wio, tableVars, ioVars,
                               conn_queue, fdOwner>>
<1> SUFFICES /\ UNCHANGED handlerVars \/ Signal \/ HandlerOfSigint
             /\ UNCHANGED mainVars \/ MainStep
             /\ FreeConn \/ StopConn \/ (\E t \in IoThreads : RunLoop(t)) \/ Alike
  OBVIOUS
<1>a. ASSUME UNCHANGED vars PROVE Alike
  BY <1>a DEF vars, connVars, queueVars
<1>b. ASSUME UNCHANGED controlVars PROVE UNCHANGED handlerVars /\ UNCHANGED mainVars
  BY <1>b DEF controlVars
<1>1. CASE MainStep
  <2>1. UNCHANGED handlerVars
    BY <1>1 DEF MainStep, xv_service_add_listen, StartService, CreateIoThread,
                xv_service_run, JoinIoThread, FreeListener, FreeConn,
                xv_io_thread_destroy, WakeWorker, JoinWorker
  <2>2. UNCHANGED vars \/ FreeConn
    BY <1>1 DEF MainStep, xv_service_add_listen, StartService, CreateIoThread,
                xv_service_run, JoinIoThread, FreeListener, xv_io_thread_destroy,
                WakeWorker, JoinWorker
  <2> QED  BY <1>1, <1>a, <2>1, <2>2
<1>2. CASE HandlerOfSigint \/ Signal
  <2>1. UNCHANGED mainVars
    BY <1>2, StopConnFrame DEF HandlerOfSigint, Signal, StopListener,
                               xv_io_thread_stop, StopPool
  <2>2. UNCHANGED vars \/ StopConn \/ StopListener
    BY <1>2 DEF HandlerOfSigint, Signal, xv_io_thread_stop, StopPool
  <2>3. StopListener => Alike
    BY DEF StopListener, connVars, queueVars
  <2> QED  BY <1>2, <1>a, <2>1, <2>2, <2>3
<1>3. ASSUME NEW t \in IoThreads, io_thread_entry(t) \/ LeaveLoop(t)
      PROVE  UNCHANGED handlerVars /\ UNCHANGED mainVars /\ Alike
  BY <1>3, <1>a DEF io_thread_entry, LeaveLoop
<1>4. ASSUME NEW t \in IoThreads, RunLoop(t)
      PROVE  UNCHANGED handlerVars /\ UNCHANGED mainVars
  BY <1>4, <1>b DEF RunLoop
<1>5. ASSUME NEW w \in Workers, RunWorker(w) \/ LeaveWorker(w)
      PROVE  UNCHANGED handlerVars /\ UNCHANGED mainVars /\ Alike
  <2>1. CASE RunWorker(w)
    BY <2>1 DEF RunWorker, WorkerStep, TakeTask, FinishTask, connVars
  <2>2. CASE LeaveWorker(w)
    BY <2>2, <1>a DEF LeaveWorker
  <2> QED  BY <1>5, <2>1, <2>2
<1>6. ASSUME NEW c \in Conns, ClientStep(c)
      PROVE  UNCHANGED handlerVars /\ UNCHANGED mainVars /\ Alike
  <2>1. Alike
    BY <1>6 DEF ClientStep, PeerStep, Connect, PeerSend, PeerClose, connVars, queueVars
  <2> QED  BY <1>6, <1>b, <2>1 DEF ClientStep
<1>7. CASE UNCHANGED shutdownVars
  BY <1>7, <1>a, <1>b DEF shutdownVars
<1> HIDE DEF Alike
<1> QED
  BY <1>1, <1>2, <1>3, <1>4, <1>5, <1>6, <1>7 DEF ShutdownNext, ProgramStep

(* The handler leaves "off" once, main leaves what is before destroy once. *)
LEMMA NoWayBack ==
    [ShutdownNext]_shutdownVars =>
        (spc' = "off" => spc = "off") /\ (BeforeDestroy' => BeforeDestroy)
<1> SUFFICES ASSUME [ShutdownNext]_shutdownVars
             PROVE  (spc' = "off" => spc = "off") /\ (BeforeDestroy' => BeforeDestroy)
  OBVIOUS
<1>1. Signal \/ HandlerOfSigint => spc' # "off"
  BY StopConnFrame DEF Signal, HandlerOfSigint, StopListener, xv_io_thread_stop,
                       StopPool, StopRound, StopGoOn, StopAt, ConnLabels
<1>2. MainStep => (BeforeDestroy' => BeforeDestroy)
  BY DEF MainStep, xv_service_add_listen, StartService, CreateIoThread, xv_service_run,
         JoinIoThread, FreeListener, FreeConn, xv_io_thread_destroy, WakeWorker, JoinWorker,
         At, Round, GoOn, BeforeDestroy
<1> QED  BY <1>1, <1>2, WhoMoves DEF handlerVars, mainVars, BeforeDestroy

LEMMA NextOutputKept ==
    /\ CoreInv /\ (spc = "off" => OutputKept) /\ [ShutdownNext]_shutdownVars
    => (spc' = "off" => OutputKept')
<1> SUFFICES ASSUME CoreInv, OutputKept, spc = "off", spc' = "off",
                    [ShutdownNext]_shutdownVars
             PROVE  OutputKept'
  BY NoWayBack
<1>1. CASE [Next]_vars
  BY <1>1, NextOutput
<1>2. CASE FreeConn
  BY <1>2 DEF FreeConn, OutputKept, streamVars, ioVars
<1>3. ~ StopConn /\ ~ StopListener
  BY StopConnFrame DEF StopListener, StopAt, ConnLabels
<1> QED  BY <1>1, <1>2, <1>3, StepsOfService

(* Before destroy connections are freed by their own close only.           *)
LEMMA NextReleasedToo ==
    /\ CoreInv /\ OneWorker /\ NWorkers = 0 /\ (BeforeDestroy => ReleasedInv)
    /\ [ShutdownNext]_shutdownVars
    => (BeforeDestroy' => ReleasedInv')
<1> SUFFICES ASSUME CoreInv, OneWorker, NWorkers = 0, ReleasedInv, BeforeDestroy,
                    [ShutdownNext]_shutdownVars
             PROVE  ReleasedInv'
  BY NoWayBack
<1>1. CASE [Next]_vars
  BY <1>1, NextReleased DEF OneWorker
<1>2. CASE StopConn \/ StopListener
  <2>1. UNCHANGED <<mem, fdOwner, ioVars>>
    BY <1>2, StopConnFrame DEF StopListener, connVars
  <2> QED  BY <2>1 DEF ReleasedInv, ioVars
<1>3. ~ FreeConn
  BY DEF FreeConn, At, BeforeDestroy
<1> QED  BY <1>1, <1>2, <1>3, StepsOfService

(* Where nobody has a reason to close a connection, it stays.              *)
LEMMA NextStays ==
    /\ CoreInv /\ NobodyLeaves /\ (BeforeDestroy => EverybodyStays)
    /\ [ShutdownNext]_shutdownVars
    => (BeforeDestroy' => EverybodyStays')
<1> SUFFICES ASSUME CoreInv, NobodyLeaves, EverybodyStays, BeforeDestroy,
                    [ShutdownNext]_shutdownVars
             PROVE  EverybodyStays'
  BY NoWayBack
<1>a. /\ OneWay /\ HandlersTyped /\ ConnTypeOK /\ IoTypeOK /\ PeerTypeOK
      /\ \A t \in IoThreads : HandlesOwn(t)
  BY DEF CoreInv, TypeInv, TypeOK, OwnerHandles
<1>b. Hangup = {} /\ BadPackets = FALSE
  BY ServiceConstants DEF NobodyLeaves
<1>c. \A t \in IoThreads : t # NULL
  BY ServiceConstants DEF IoThreads
<1>d. \A c \in Conns : io_thread[c] # NULL => peer[c] # "gone"
  BY <1>a DEF OneWay, EverybodyStays
<1> USE <1>a, <1>b
<1>e. ASSUME UNCHANGED <<status, mem, peer, backlog>>,
             \A t \in IoThreads :
                 iopc'[t] \in {"close", "checkref", "del", "closefd", "free"} =>
                 iopc[t] \in {"close", "checkref", "del", "closefd", "free"}
      PROVE  EverybodyStays'
  BY <1>e DEF EverybodyStays
<1>1. ASSUME NEW c \in Conns, PeerStep(c)
      PROVE  EverybodyStays'
  BY <1>1 DEF PeerStep, Connect, PeerSend, PeerClose, EverybodyStays, PeerTypeOK,
              connVars, ioVars
<1>2. ASSUME NEW t \in IoThreads, IoStep(t)
      PROVE  EverybodyStays'
  <2>1. CASE ListenEvent(t)
    <3>1. PICK c \in Conns : Accept(t, c) \/ AcceptFails(t, c)
      BY <2>1 DEF ListenEvent
    <3>2. CASE Accept(t, c)
      <4>1. /\ c \in backlog /\ backlog' = backlog \ {c}
            /\ UNCHANGED <<status, peer>>
            /\ mem' = [mem EXCEPT ![c] = "live"]
            /\ \E label \in {"grow", "accepted"} : iopc' = [iopc EXCEPT ![t] = label]
        BY <3>2 DEF Accept, xv_connection_init, Goto
      <4> QED  BY <4>1 DEF EverybodyStays, ConnTypeOK, IoTypeOK, PeerTypeOK
    <3>3. CASE AcceptFails(t, c)
      <4>1. /\ c \in backlog /\ backlog' = backlog \ {c}
            /\ UNCHANGED <<status, mem, iopc>>
            /\ peer' = [peer EXCEPT ![c] = "gone"]
        BY <3>3 DEF AcceptFails, connVars, ioVars
      <4>2. mem[c] = "none"
        BY <4>1 DEF OneWay
      <4> QED  BY <4>1, <4>2 DEF EverybodyStays, PeerTypeOK
    <3> QED  BY <3>1, <3>2, <3>3
  <2>2. CASE QueueEvent(t)
    <3>1. ~ DropMessage(t)
      <4>1. ASSUME DropMessage(t) PROVE FALSE
        <5>1. message_queue[t] \in Seq(Messages) /\ message_queue[t] # << >>
          BY <4>1 DEF DropMessage, CoreInv, TypeInv, TypeOK, QueueTypeOK
        <5>2. Head(message_queue[t]).conn \in Conns
          BY <5>1 DEF Messages
        <5> QED  BY <4>1, <5>2 DEF DropMessage, EverybodyStays
      <4> QED  BY <4>1
    <3>2. CASE AddConn(t)
      BY <3>2, <1>e DEF AddConn, ioVars, peerVars
    <3>3. CASE ReturnMessage(t)
      <4>1. UNCHANGED <<status, mem, peer, backlog>>
            /\ iopc' = [iopc EXCEPT ![t] = "reply"]
        BY <3>3 DEF ReturnMessage, Goto, peerVars, connVars
      <4> QED  BY <4>1, <1>e DEF IoTypeOK
    <3> QED  BY <2>2, <3>1, <3>2, <3>3 DEF QueueEvent
  <2>3. CASE SocketEvent(t)
    <3>1. PICK c \in Conns :
              \/ \E n \in 1..MaxReq : ReadRequest(t, c, n)
              \/ \E n \in 0..MaxReq : ReadAndClose(t, c, n)
              \/ \E n \in 0..Len(wbuf[c]) : WriteEvent(t, c, n)
              \/ WriteEventFails(t, c)
      BY <2>3 DEF SocketEvent
    <3>2. ASSUME NEW n \in 1..MaxReq, ReadRequest(t, c, n)
          PROVE  EverybodyStays'
      <4>1. UNCHANGED <<status, mem, peer, backlog>>
        BY <3>2 DEF ReadRequest, peerVars
      <4>2. (\E m : Goto(t, "reply", c, m, "poll")) \/ UNCHANGED ioVars
        BY <3>2 DEF ReadRequest
      <4>3. iopc' = [iopc EXCEPT ![t] = "reply"] \/ iopc' = iopc
        BY <4>2 DEF Goto, ioVars
      <4> QED  BY <4>1, <4>3, <1>e DEF IoTypeOK
    <3>3. ASSUME NEW n \in 0..MaxReq, ReadAndClose(t, c, n)
          PROVE  FALSE
      <4>1. io_thread[c] = t /\ peer[c] = "gone"
        BY <3>3 DEF ReadAndClose, Readable
      <4> QED  BY <4>1, <1>c, <1>d
    <3>4. ASSUME NEW n \in 0..Len(wbuf[c]), WriteEvent(t, c, n)
          PROVE  EverybodyStays'
      BY <3>4, <1>e DEF WriteEvent, ioVars, peerVars
    <3>5. ~ WriteEventFails(t, c)
      BY <1>c, <1>d DEF WriteEventFails, Writeable
    <3> QED  BY <3>1, <3>2, <3>3, <3>4, <3>5
  <2>4. CASE Grow(t) \/ GrowDone(t) \/ Distribute(t) \/ NoReply(t) \/ DestroyMessage(t)
    <3>1. UNCHANGED <<status, mem, peer, backlog>>
      BY <2>4 DEF Grow, GrowDone, Distribute, NoReply, DestroyMessage, connVars, peerVars
    <3>2. iopc' = iopc \/ \E label \in {"accepted", "poll", "destroy"} :
                              iopc' = [iopc EXCEPT ![t] = label]
      BY <2>4 DEF Grow, GrowDone, Distribute, NoReply, DestroyMessage, BackToPoll, Goto,
                  ioVars
    <3> QED  BY <3>1, <3>2, <1>e DEF IoTypeOK
  <2>5. ASSUME NEW n \in 0..(MaxReq * Cardinality(Conns)), Reply(t, n)
        PROVE  EverybodyStays'
    <3>1. UNCHANGED <<status, mem, peer, backlog>>
          /\ iopc' = [iopc EXCEPT ![t] = "destroy"]
      BY <2>5 DEF Reply, Goto, peerVars
    <3> QED  BY <3>1, <1>e DEF IoTypeOK
  <2>6. ~ ReplyFails(t)
    <3>1. ASSUME ReplyFails(t) PROVE FALSE
      <4>1. ioc[t] \in Conns /\ io_thread[ioc[t]] = t /\ peer[ioc[t]] = "gone"
        BY <3>1 DEF ReplyFails, HandlersTyped, HandlesOwn, Handling
      <4> QED  BY <4>1, <1>c, <1>d
    <3> QED  BY <3>1
  <2>7. ~ Close(t)
    BY DEF Close, CloseMark, CheckRef, DelConnection, CloseFd, FreeConnection,
           EverybodyStays
  <2> QED  BY <1>2, <2>1, <2>2, <2>3, <2>4, <2>5, <2>6, <2>7 DEF IoStep, HandlerStep
<1>3. ASSUME NEW w \in Workers, WorkerStep(w)
      PROVE  EverybodyStays'
  BY <1>3, <1>e DEF WorkerStep, TakeTask, FinishTask, connVars, ioVars, peerVars
<1>4. CASE UNCHANGED vars
  BY <1>4, <1>e DEF vars, connVars, ioVars, peerVars
<1>5. CASE StopConn
  BY <1>5, <1>e, StopConnFrame DEF ioVars, peerVars
<1>6. CASE StopListener
  <2>1. /\ UNCHANGED <<status, mem, iopc>>
        /\ backlog' = {}
        /\ peer' = [c \in Conns |-> IF c \in backlog THEN "gone" ELSE peer[c]]
    BY <1>6 DEF StopListener, xv_listener_stop, connVars, ioVars
  <2> QED  BY <2>1 DEF OneWay, EverybodyStays
<1>7. ~ FreeConn
  BY DEF FreeConn, At, BeforeDestroy
<1> QED  BY <1>1, <1>2, <1>3, <1>4, <1>5, <1>6, <1>7, StepsOfService DEF Next

(* After a quiet stop the loops write what is left and close connections   *)
(* whose peers have gone, and nothing else.                                *)
LEMMA SilentLoop ==
    ASSUME CoreInv, Silent, NEW t \in IoThreads, IoStep(t)
    PROVE  /\ UNCHANGED <<queueVars, whand, backlog, msgs, nread, nsent, fd,
                          conn_setsize>>
           /\ \E label \in {"poll", "close", "checkref", "del", "closefd", "free"} :
                  iopc' = [iopc EXCEPT ![t] = label]
           /\ ioret' = [ioret EXCEPT ![t] = "poll"]
           /\ \A c \in Conns : (rio'[c] => rio[c]) /\ (wio'[c] => wio[c])
           /\ table' = table \/ \E i : table' = [table EXCEPT ![i] = NULL]
<1>a. /\ ConnTypeOK /\ IoTypeOK /\ StreamTypeOK /\ PeerTypeOK
  BY DEF CoreInv, TypeInv, TypeOK
<1>b. iopc' = iopc => iopc' = [iopc EXCEPT ![t] = iopc[t]]
  BY <1>a DEF IoTypeOK
<1>c. ioret' = ioret => ioret' = [ioret EXCEPT ![t] = "poll"]
  BY <1>a DEF IoTypeOK, Silent
<1>d. /\ conn_queue[t] = << >> /\ message_queue[t] = << >> /\ backlog = {}
      /\ iopc[t] \in {"poll", "close", "checkref", "del", "closefd", "free"}
      /\ ioret[t] = "poll" /\ nread = nsent
  BY DEF Silent
<1>1. ~ ListenEvent(t) /\ ~ QueueEvent(t)
  BY <1>d DEF ListenEvent, Accept, AcceptFails, QueueEvent, AddConn, ReturnMessage,
              DropMessage
<1>2. ~ Grow(t) /\ ~ GrowDone(t) /\ ~ Distribute(t) /\ ~ NoReply(t)
      /\ ~ DestroyMessage(t) /\ ~ ReplyFails(t)
      /\ \A n : ~ Reply(t, n)
  BY <1>d DEF Grow, GrowDone, Distribute, NoReply, DestroyMessage, ReplyFails, Reply
<1>3. ASSUME NEW c \in Conns, NEW n \in 1..MaxReq, ReadRequest(t, c, n)
      PROVE  FALSE
  <2>1. nread[c] \in Nat /\ nread[c] + n <= nread[c]
    BY <1>3, <1>a, <1>d, ServiceConstants DEF ReadRequest, StreamTypeOK
  <2> QED  BY <2>1
<1>4. ASSUME NEW c \in Conns, NEW n \in 0..MaxReq, ReadAndClose(t, c, n)
      PROVE  UNCHANGED <<connVars, tableVars, peerVars, queueVars, msgs, whand, nread>>
             /\ Goto(t, "close", c, NULL, "poll")
  <2>1. nread[c] \in Nat /\ n \in Nat
    BY <1>a, ServiceConstants DEF StreamTypeOK
  <2>2. n = 0
    BY <1>4, <1>d, <2>1 DEF ReadAndClose
  <2> QED  BY <1>4, <1>a, <2>1, <2>2 DEF ReadAndClose, StreamTypeOK
<1>5. ASSUME NEW c \in Conns, WriteEventFails(t, c)
      PROVE  UNCHANGED <<connVars, tableVars, peerVars, queueVars, msgs, whand, nread>>
             /\ Goto(t, "close", c, NULL, "poll")
  BY <1>5 DEF WriteEventFails, streamVars
<1>6. ASSUME NEW c, UNCHANGED <<connVars, tableVars, peerVars, queueVars, msgs, whand, nread>>,
             Goto(t, "close", c, NULL, "poll")
      PROVE  /\ UNCHANGED <<queueVars, whand, backlog, msgs, nread, nsent, fd,
                            conn_setsize, rio, wio, table>>
             /\ iopc' = [iopc EXCEPT ![t] = "close"]
             /\ ioret' = [ioret EXCEPT ![t] = "poll"]
  BY <1>6 DEF Goto, connVars, tableVars, peerVars
<1>7. ASSUME NEW c \in Conns, NEW n \in 0..Len(wbuf[c]), WriteEvent(t, c, n)
      PROVE  /\ UNCHANGED <<queueVars, whand, backlog, msgs, nread, nsent, fd,
                            conn_setsize, rio, table, iopc, ioret>>
             /\ wio[c] /\ \E b : wio' = [wio EXCEPT ![c] = b]
  BY <1>7 DEF WriteEvent, Writeable, tableVars, peerVars, ioVars
<1>8. ASSUME Close(t)
      PROVE  /\ UNCHANGED <<queueVars, whand, backlog, msgs, nread, nsent, fd,
                            conn_setsize, ioret>>
             /\ \E label \in {"poll", "close", "checkref", "del", "closefd", "free"} :
                    iopc' = [iopc EXCEPT ![t] = label]
             /\ \A c \in Conns : (rio'[c] => rio[c]) /\ (wio'[c] => wio[c])
             /\ table' = table \/ \E i : table' = [table EXCEPT ![i] = NULL]
  <2>1. CASE CloseMark(t)
    <3>1. /\ UNCHANGED <<queueVars, whand, backlog, msgs, nread, nsent, fd,
                         conn_setsize, ioret, table>>
          /\ iopc' = [iopc EXCEPT ![t] = "checkref"]
      BY <2>1 DEF CloseMark, tableVars, peerVars, streamVars
    <3>2. \/ rio' = rio /\ wio' = wio
          \/ /\ rio' = [rio EXCEPT ![ioc[t]] = FALSE]
             /\ wio' = [wio EXCEPT ![ioc[t]] = FALSE]
      BY <2>1 DEF CloseMark, xv_connection_stop
    <3>3. \A c \in Conns : (rio'[c] => rio[c]) /\ (wio'[c] => wio[c])
      BY <3>2, <1>a DEF ConnTypeOK
    <3> QED  BY <3>1, <3>3
  <2>2. CASE CheckRef(t)
    BY <2>2, <1>d, ReleaseLabels DEF CheckRef, connVars, tableVars, peerVars, streamVars,
                                     queueVars
  <2>3. CASE DelConnection(t)
    <3>1. /\ UNCHANGED <<queueVars, whand, backlog, msgs, nread, nsent, fd,
                         conn_setsize, ioret, rio, wio>>
          /\ iopc' = [iopc EXCEPT ![t] = AfterRelease(t, "del")]
          /\ table' = table \/ table' = [table EXCEPT ![fd[ioc[t]]] = NULL]
      BY <2>3 DEF DelConnection, connVars, peerVars, streamVars
    <3> QED  BY <3>1, ReleaseLabels
  <2>4. CASE CloseFd(t) \/ FreeConnection(t)
    <3>1. /\ UNCHANGED <<queueVars, whand, backlog, msgs, nread, nsent, fd,
                         conn_setsize, ioret, rio, wio, table>>
          /\ \E l \in {"closefd", "free"} : iopc' = [iopc EXCEPT ![t] = AfterRelease(t, l)]
      BY <2>4 DEF CloseFd, FreeConnection, connVars, tableVars, peerVars, streamVars
    <3> QED  BY <3>1, <1>d, ReleaseLabels
  <2> QED  BY <1>8, <2>1, <2>2, <2>3, <2>4 DEF Close
<1>9. SocketEvent(t) \/ Close(t)
  BY <1>1, <1>2 DEF IoStep, HandlerStep
<1>10. CASE SocketEvent(t)
  <2>1. PICK c \in Conns :
            \/ \E n \in 1..MaxReq : ReadRequest(t, c, n)
            \/ \E n \in 0..MaxReq : ReadAndClose(t, c, n)
            \/ \E n \in 0..Len(wbuf[c]) : WriteEvent(t, c, n)
            \/ WriteEventFails(t, c)
    BY <1>10 DEF SocketEvent
  <2>2. CASE (\E n \in 0..MaxReq : ReadAndClose(t, c, n)) \/ WriteEventFails(t, c)
    <3>1. /\ UNCHANGED <<queueVars, whand, backlog, msgs, nread, nsent, fd,
                         conn_setsize, rio, wio, table>>
          /\ iopc' = [iopc EXCEPT ![t] = "close"]
          /\ ioret' = [ioret EXCEPT ![t] = "poll"]
      BY <2>2, <1>4, <1>5, <1>6
    <3> QED  BY <3>1
  <2>3. CASE \E n \in 0..Len(wbuf[c]) : WriteEvent(t, c, n)
    <3>1. /\ UNCHANGED <<queueVars, whand, backlog, msgs, nread, nsent, fd,
                         conn_setsize, rio, table, iopc, ioret>>
          /\ wio[c] /\ \E b : wio' = [wio EXCEPT ![c] = b]
      BY <2>3, <1>7
    <3>2. \A d \in Conns : wio'[d] => wio[d]
      BY <3>1, <1>a DEF ConnTypeOK
    <3> QED  BY <3>1, <3>2, <1>b, <1>c, <1>d
  <2> QED  BY <2>1, <2>2, <2>3, <1>3
<1>11. CASE Close(t)
  BY <1>11, <1>8, <1>c
<1> QED  BY <1>9, <1>10, <1>11

LEMMA IdleIsSilent ==
    ASSUME CoreInv, NothingLost, Idle
    PROVE  /\ msgs = {}
           /\ \A t \in IoThreads : ioret[t] = "poll"
<1>1. HandlersTyped /\ IoTypeOK
  BY DEF CoreInv, TypeInv, TypeOK
<1>2. \A t \in IoThreads : ~ Carries(t)
  BY <1>1 DEF HandlersTyped, Idle, Handling
<1>3. \A t \in IoThreads : ioret[t] = "poll"
  BY <1>1, <1>2 DEF Carries, IoTypeOK
<1>4. \A k, x, m : ~ Holds(k, x, m)
  <2>1. \A x : ~ Queued(<< >>, x)
    BY DEF Queued
  <2> QED  BY <1>2, <2>1 DEF Holds, Idle
<1> QED  BY <1>3, <1>4 DEF NothingLost

LEMMA NextSilent ==
    /\ Quiet /\ CoreInv /\ NothingLost /\ ControlInv /\ (spc # "off" => Silent)
    /\ [ShutdownNext]_shutdownVars
    => (spc' # "off" => Silent')
<1> SUFFICES ASSUME Quiet, CoreInv, NothingLost, ControlInv, spc # "off" => Silent,
                    [ShutdownNext]_shutdownVars, spc' # "off"
             PROVE  Silent'
  OBVIOUS
<1>a. ControlTypeOK /\ MainFollows /\ IoTypeOK
  BY DEF ControlInv, CoreInv, TypeInv, TypeOK
<1>1. CASE spc = "off"
  <2>1. Signal
    BY <1>1, WhoMoves, StopConnFrame
       DEF handlerVars, HandlerOfSigint, StopListener, xv_io_thread_stop, StopPool,
           StopAt, ConnLabels
  <2>2. Idle /\ UNCHANGED vars /\ UNCHANGED lifeVars /\ spc' = "stop_listener"
    BY <2>1 DEF Signal, StopGoOn
  <2>3. UNCHANGED <<conn_queue, message_queue, task_queue, iopc, ioret, whand, backlog,
                    msgs, nread, nsent, iolife>>
    BY <2>2 DEF vars, queueVars, ioVars, peerVars, streamVars, lifeVars
  <2>4. msgs = {} /\ \A t \in IoThreads : ioret[t] = "poll"
    BY <2>2, IdleIsSilent
  <2> QED  BY <2>2, <2>3, <2>4 DEF Silent, Idle
<1>2. CASE spc # "off"
  <2>a. Silent
    BY <1>2
  <2>b. iolife[0] \in {"loop", "exited"}
    BY <2>a DEF Silent
  <2>0. ASSUME UNCHANGED <<conn_queue, message_queue, task_queue, whand, backlog, msgs,
                           nread, nsent, iopc, ioret>>,
               iolife'[0] \in {"loop", "exited"},
               listen_io' => listen_io,
               spc' = "stop_listener" \/ spc # "stop_listener"
        PROVE  Silent'
    BY <2>0, <2>a DEF Silent
  <2>v. ASSUME UNCHANGED vars
        PROVE  UNCHANGED <<conn_queue, message_queue, task_queue, whand, backlog, msgs,
                           nread, nsent, iopc, ioret>>
    BY <2>v DEF vars, queueVars, ioVars, peerVars, streamVars
  <2>1. CASE xv_service_add_listen \/ StartService \/ xv_service_run \/ JoinIoThread
             \/ FreeListener \/ xv_io_thread_destroy \/ WakeWorker \/ JoinWorker
    <3>1. UNCHANGED vars /\ UNCHANGED <<spc, iolife, listen_io>>
      BY <2>1 DEF xv_service_add_listen, StartService, xv_service_run, JoinIoThread,
                  FreeListener, xv_io_thread_destroy, WakeWorker, JoinWorker, handlerVars, lifeVars,
                  listenerVars
    <3> QED  BY <3>1, <2>0, <2>v, <2>b
  <2>2. CASE CreateIoThread
    <3>1. mpc = "create" /\ mi \in Nat /\ UNCHANGED vars /\ UNCHANGED <<spc, listen_io>>
          /\ iolife' = [iolife EXCEPT ![mi] = "entry"]
      BY <2>2, <1>a DEF CreateIoThread, At, ControlTypeOK, handlerVars, listenerVars
    <3>2. mi # 0
      BY <3>1, <1>a, <2>b, ServiceConstants DEF MainFollows, IoThreads
    <3>3. iolife'[0] \in {"loop", "exited"}
      BY <3>1, <3>2, <2>b, <1>a DEF ControlTypeOK
    <3> QED  BY <3>1, <3>3, <2>0, <2>v
  <2>3. CASE FreeConn
    BY <2>3, <2>0, <2>b DEF FreeConn, streamVars, queueVars, ioVars, peerVars,
                            handlerVars, lifeVars, listenerVars
  <2>4. CASE Signal
    BY <2>4, <1>2 DEF Signal, StopAt
  <2>5. CASE StopListener
    <3>1. /\ UNCHANGED <<conn_queue, message_queue, task_queue, whand, msgs, nread, nsent,
                         iopc, ioret, iolife>>
          /\ backlog' = {} /\ listen_io' = FALSE
      BY <2>5 DEF StopListener, xv_listener_stop, streamVars, queueVars, ioVars, lifeVars
    <3> QED  BY <3>1, <2>a DEF Silent
  <2>6. CASE StopConn
    <3>1. spc # "stop_listener"
      BY <2>6, StopConnFrame DEF ConnLabels
    <3> QED  BY <2>6, <3>1, <2>0, <2>b, StopConnFrame
                DEF streamVars, queueVars, ioVars, peerVars, lifeVars, listenerVars
  <2>7. CASE xv_io_thread_stop \/ StopPool
    <3>1. UNCHANGED vars /\ UNCHANGED <<iolife, listen_io>> /\ spc # "stop_listener"
      BY <2>7 DEF xv_io_thread_stop, StopPool, StopAt, lifeVars, listenerVars
    <3> QED  BY <3>1, <2>0, <2>v, <2>b
  <2>8. ASSUME NEW t \in IoThreads, io_thread_entry(t)
        PROVE  Silent'
    <3>1. t # 0 /\ UNCHANGED vars /\ UNCHANGED spc /\ (listen_io' => listen_io)
          /\ iolife' = [iolife EXCEPT ![t] = "loop"]
      BY <2>8, <2>b DEF io_thread_entry, handlerVars
    <3>2. iolife'[0] \in {"loop", "exited"}
      BY <3>1, <2>b, <1>a DEF ControlTypeOK
    <3> QED  BY <3>1, <3>2, <2>0, <2>v
  <2>9. ASSUME NEW t \in IoThreads, LeaveLoop(t)
        PROVE  Silent'
    <3>1. /\ UNCHANGED vars /\ UNCHANGED spc /\ (listen_io' => listen_io)
          /\ iolife' = [iolife EXCEPT ![t] = "exited"]
      BY <2>9 DEF LeaveLoop, handlerVars
    <3>2. iolife'[0] \in {"loop", "exited"}
      BY <3>1, <2>b, <1>a DEF ControlTypeOK
    <3> QED  BY <3>1, <3>2, <2>0, <2>v
  <2>10. ASSUME NEW t \in IoThreads, RunLoop(t)
         PROVE  Silent'
    <3>1. IoStep(t) /\ UNCHANGED <<spc, iolife, listen_io>>
      BY <2>10 DEF RunLoop, IoStep, controlVars, handlerVars, lifeVars, listenerVars
    <3>2. /\ UNCHANGED <<queueVars, whand, backlog, msgs, nread, nsent>>
          /\ \E label \in {"poll", "close", "checkref", "del", "closefd", "free"} :
                  iopc' = [iopc EXCEPT ![t] = label]
          /\ ioret' = [ioret EXCEPT ![t] = "poll"]
      BY <3>1, <2>a, SilentLoop
    <3>3. \A u \in IoThreads :
            /\ iopc'[u] \in {"poll", "close", "checkref", "del", "closefd", "free"}
            /\ ioret'[u] = "poll"
      BY <3>2, <2>a, <1>a DEF Silent, IoTypeOK
    <3> QED  BY <3>1, <3>2, <3>3, <2>a DEF Silent, queueVars
  <2>11. ASSUME NEW w \in Workers, RunWorker(w)
         PROVE  FALSE
    BY <2>11, <2>a DEF RunWorker, WorkerStep, TakeTask, FinishTask, Silent
  <2>12. ASSUME NEW w \in Workers, LeaveWorker(w)
         PROVE  Silent'
    <3>1. UNCHANGED vars /\ UNCHANGED <<spc, iolife, listen_io>>
      BY <2>12 DEF LeaveWorker, handlerVars, listenerVars
    <3> QED  BY <3>1, <2>0, <2>v, <2>b
  <2>13. ASSUME NEW c \in Conns, ClientStep(c)
         PROVE  FALSE
    BY <2>13, <1>2 DEF ClientStep, StopAt
  <2>14. CASE UNCHANGED shutdownVars
    <3>1. UNCHANGED vars /\ UNCHANGED <<spc, iolife, listen_io>>
      BY <2>14 DEF shutdownVars, controlVars, handlerVars, lifeVars, listenerVars
    <3> QED  BY <3>1, <2>0, <2>v, <2>b
  <2>15. CASE MainStep
    BY <2>15, <2>1, <2>2, <2>3 DEF MainStep
  <2>16. CASE HandlerOfSigint
    BY <2>16, <2>5, <2>6, <2>7 DEF HandlerOfSigint
  <2> QED  BY <2>4, <2>8, <2>9, <2>10, <2>11, <2>12, <2>13, <2>14, <2>15, <2>16
             DEF ShutdownNext, ProgramStep
<1> QED  BY <1>1, <1>2

(* What the table holds before destroy exists, and a quiet stop finds it   *)
(* with its IO thread.                                                     *)
LEMMA EntriesLive ==
    ASSUME CoreInv, TableInv,
           (NobodyLeaves /\ EverybodyStays) \/ ReleasedInv
    PROVE  \A i \in Entries : i \in Fds /\ fd[table[i]] = i /\ mem[table[i]] = "live"
<1> SUFFICES ASSUME NEW i \in Entries
             PROVE  i \in Fds /\ fd[table[i]] = i /\ mem[table[i]] = "live"
  OBVIOUS
<1>1. table[i] \in Conns /\ i \in Fds /\ fdOwner[i] = table[i]
  BY DEF TableInv, Entries
<1>2. fd[table[i]] = i /\ mem[table[i]] # "none"
  BY <1>1, ServiceConstants DEF CoreInv, DescriptorsOwned
<1>3. mem[table[i]] # "freed"
  BY <1>1 DEF EverybodyStays, ReleasedInv
<1> QED  BY <1>1, <1>2, <1>3 DEF CoreInv, TypeInv, TypeOK, ConnTypeOK

LEMMA EntriesLiveBefore ==
    ASSUME CoreInv, TableInv, BeforeDestroy, NWorkers = 0 \/ NobodyLeaves,
           BeforeDestroy /\ NobodyLeaves => EverybodyStays,
           BeforeDestroy /\ NWorkers = 0 => ReleasedInv
    PROVE  \A i \in Entries : i \in Fds /\ fd[table[i]] = i /\ mem[table[i]] = "live"
<1>1. (NobodyLeaves /\ EverybodyStays) \/ ReleasedInv
  OBVIOUS
<1> QED  BY <1>1, EntriesLive

LEMMA NextStopped ==
    ASSUME CoreInv, TableInv, TableInv', ControlTypeOK, Quiet, spc # "off" => Silent,
           StoppedSoFar, [ShutdownNext]_shutdownVars
    PROVE  StoppedSoFar'
<1>a. /\ ConnTypeOK /\ DOMAIN table = 0..(conn_setsize - 1) /\ conn_setsize \in Nat \ {0}
      /\ conn_setsize' = conn_setsize /\ si \in Nat /\ DOMAIN table' = DOMAIN table
  BY DEF CoreInv, TypeInv, TypeOK, TableInv, TableTypeOK, ControlTypeOK
<1> USE <1>a
<1>0. ASSUME \A i \in Entries' : i \in Entries /\ table'[i] = table[i],
             \A c \in Conns : (rio'[c] => rio[c]) /\ (wio'[c] => wio[c]),
             \/ UNCHANGED <<spc, si, sc>>
             \/ spc' \in {"off", "stop_listener"}
             \/ spc' = "stop_conns" /\ si' = 0
             \/ /\ spc \in {"stop_io", "stop_pool", "over"}
                /\ spc' \in {"stop_io", "stop_pool", "over"}
      PROVE  StoppedSoFar'
  <2>1. \A i \in Entries' : table'[i] \in Conns /\ i \in Nat
    BY DEF Entries
  <2> QED  BY <1>0, <2>1 DEF StoppedSoFar, ConnLabels
<1>1. CASE StopConn
  <2>1. /\ UNCHANGED tableVars /\ NULL \notin Conns
        /\ TestConn \/ FollowConn \/ PassConn \/ StopReadIo \/ StopWriteIo
        /\ spc \in ConnLabels
        /\ rio' = rio \/ rio' = [rio EXCEPT ![sc] = FALSE]
        /\ wio' = wio \/ wio' = [wio EXCEPT ![sc] = FALSE]
    BY <1>1, StopConnFrame, ServiceConstants DEF StopConn
  <2>2. table' = table /\ Entries' = Entries
    BY <2>1 DEF tableVars, Entries
  <2>3. \A i \in Entries : i \in Nat /\ table[i] \in Conns /\ i < conn_setsize
    BY DEF Entries
  <2>4. \A c \in Conns : (rio'[c] => rio[c]) /\ (wio'[c] => wio[c])
    BY <2>1 DEF ConnTypeOK
  <2>5. /\ si < conn_setsize
        /\ \A i \in Entries : i < si => ~ rio'[table[i]] /\ ~ wio'[table[i]]
    BY <2>1, <2>3, <2>4 DEF StoppedSoFar
  <2>6. ASSUME si \in Entries => ~ rio'[table[si]] /\ ~ wio'[table[si]],
               StopRound(conn_setsize, "stop_conns", "stop_io")
        PROVE  StoppedSoFar'
    <3>1. \A i \in Entries : i < si + 1 => ~ rio'[table[i]] /\ ~ wio'[table[i]]
      BY <2>3, <2>5, <2>6
    <3>2. CASE si + 1 < conn_setsize
      <4>1. spc' = "stop_conns" /\ si' = si + 1
        BY <2>6, <3>2 DEF StopRound
      <4> QED  BY <4>1, <2>2, <3>1, <3>2 DEF StoppedSoFar, ConnLabels
    <3>3. CASE ~ (si + 1 < conn_setsize)
      <4>1. spc' = "stop_io"
        BY <2>6, <3>3 DEF StopRound, StopGoOn
      <4>2. \A i \in Entries : i < si + 1
        BY <2>3, <2>5, <3>3
      <4> QED  BY <4>1, <4>2, <2>2, <3>1 DEF StoppedSoFar, ConnLabels
    <3> QED  BY <3>2, <3>3
  <2>7. CASE TestConn
    <3>1. CASE table[si] = NULL
      BY <2>6, <2>7, <3>1, <2>1, <2>3 DEF TestConn
    <3>2. CASE table[si] # NULL
      <4>1. spc' = "stop_loop" /\ si' = si
        BY <2>7, <3>2 DEF TestConn
      <4> QED  BY <4>1, <2>2, <2>5 DEF StoppedSoFar, ConnLabels
    <3> QED  BY <3>1, <3>2
  <2>8. CASE FollowConn
    <3>1. spc' = "stop_arg" /\ si' = si
      BY <2>8 DEF FollowConn
    <3> QED  BY <3>1, <2>2, <2>5 DEF StoppedSoFar, ConnLabels
  <2>9. CASE PassConn
    <3>1. spc' = "stop_read" /\ si' = si /\ sc' = table[si]
      BY <2>9 DEF PassConn
    <3> QED  BY <3>1, <2>2, <2>5 DEF StoppedSoFar, ConnLabels
  <2>10. CASE StopReadIo
    <3>1. /\ spc = "stop_read" /\ spc' = "stop_write" /\ si' = si /\ sc' = sc
          /\ sc \in Conns /\ rio' = [rio EXCEPT ![sc] = FALSE]
      BY <2>10 DEF StopReadIo, StopAt, Live
    <3>2. ~ rio'[sc]
      BY <3>1 DEF ConnTypeOK
    <3>3. si \in Entries => sc = table[si]
      BY <3>1 DEF StoppedSoFar
    <3> QED  BY <3>1, <3>2, <3>3, <2>2, <2>5 DEF StoppedSoFar, ConnLabels
  <2>11. CASE StopWriteIo
    <3>1. /\ spc = "stop_write" /\ sc \in Conns /\ rio' = rio
          /\ wio' = [wio EXCEPT ![sc] = FALSE]
          /\ StopRound(conn_setsize, "stop_conns", "stop_io")
      BY <2>11 DEF StopWriteIo, StopAt, Live
    <3>2. ~ wio'[sc]
      BY <3>1 DEF ConnTypeOK
    <3>3. si \in Entries => sc = table[si] /\ ~ rio[sc]
      BY <3>1 DEF StoppedSoFar
    <3> QED  BY <3>1, <3>2, <3>3, <2>6
  <2> QED  BY <2>1, <2>7, <2>8, <2>9, <2>10, <2>11
<1>2. ASSUME NEW t \in IoThreads, RunLoop(t)
      PROVE  StoppedSoFar'
  <2>1. IoStep(t) /\ UNCHANGED <<spc, si, sc>>
    BY <1>2 DEF RunLoop, IoStep, controlVars, handlerVars
  <2>2. CASE spc = "off"
    BY <2>1, <2>2 DEF StoppedSoFar, ConnLabels
  <2>3. CASE Silent
    <3>1. /\ \A c \in Conns : (rio'[c] => rio[c]) /\ (wio'[c] => wio[c])
          /\ table' = table \/ \E i : table' = [table EXCEPT ![i] = NULL]
      BY <2>1, <2>3, SilentLoop
    <3>2. NULL \notin Conns
      BY ServiceConstants
    <3>3. \A i \in Entries' : i \in Entries /\ table'[i] = table[i]
      BY <3>1, <3>2 DEF Entries
    <3> QED  BY <2>1, <3>1, <3>3, <1>0
  <2> QED  BY <2>2, <2>3
<1>3. CASE FreeConn \/ UNCHANGED <<mem, status, io_thread, fd, rio, wio, tableVars,
                                   ioVars, conn_queue, fdOwner>>
  <2>1. UNCHANGED <<rio, wio, table>>
    BY <1>3 DEF FreeConn, tableVars
  <2>2. \A i \in Entries' : i \in Entries /\ table'[i] = table[i]
    BY <2>1 DEF Entries
  <2>3. CASE StopConn
    BY <2>3, <1>1
  <2>4. CASE Signal \/ StopListener \/ xv_io_thread_stop \/ StopPool
    <3>1. \/ spc' = "stop_listener"
          \/ spc' = "stop_conns" /\ si' = 0
          \/ /\ spc \in {"stop_io", "stop_pool", "over"}
             /\ spc' \in {"stop_io", "stop_pool", "over"}
      BY <2>4 DEF Signal, StopListener, xv_io_thread_stop, StopPool, StopAt, StopGoOn,
                  StopRound
    <3> QED  BY <2>1, <2>2, <3>1, <1>0
  <2>5. CASE UNCHANGED handlerVars
    BY <2>1, <2>2, <2>5, <1>0 DEF handlerVars
  <2> QED  BY <2>3, <2>4, <2>5, WhoMoves DEF HandlerOfSigint
<1> QED  BY <1>1, <1>2, <1>3, WhoMoves

(* While the handler goes over the connections main has not begun to       *)
(* destroy, and where nobody leaves the loops keep the table as it is.     *)
LEMMA StopBeforeDestroy ==
    ASSUME ControlInv, Silent, spc \in ConnLabels \cup {"stop_listener"}
    PROVE  BeforeDestroy
<1>1. 0 \in IoThreads
  BY ServiceConstants DEF IoThreads
<1>2. \E t \in IoThreads : iolife[t] # "none"
  BY <1>1 DEF Silent
<1> QED  BY <1>2 DEF ControlInv, MainFollows, ControlTypeOK, Destroying, BeforeDestroy,
                     ConnLabels

LEMMA TableStays ==
    ASSUME CoreInv, Silent, EverybodyStays, NEW t \in IoThreads, IoStep(t)
    PROVE  UNCHANGED table
<1>1. /\ conn_queue[t] = << >> /\ message_queue[t] = << >> /\ backlog = {}
      /\ iopc[t] = "poll"
  BY DEF Silent, EverybodyStays
<1>2. ~ ListenEvent(t) /\ ~ QueueEvent(t)
  BY <1>1 DEF ListenEvent, Accept, AcceptFails, QueueEvent, AddConn, ReturnMessage,
              DropMessage
<1>3. ~ HandlerStep(t)
  BY <1>1 DEF HandlerStep, Grow, GrowDone, Distribute, NoReply, DestroyMessage,
              ReplyFails, Reply, Close, CloseMark, CheckRef, DelConnection, CloseFd,
              FreeConnection
<1>4. SocketEvent(t)
  BY <1>2, <1>3 DEF IoStep
<1> QED  BY <1>4 DEF SocketEvent, ReadRequest, ReadAndClose, WriteEvent, WriteEventFails,
                     tableVars

LEMMA NextHolds ==
    ASSUME CoreInv, ControlInv, Quiet, spc # "off" => Silent, NobodyLeaves,
           Listed, BeforeDestroy => EverybodyStays, StopHolds,
           [ShutdownNext]_shutdownVars
    PROVE  StopHolds'
<1> DEFINE Inside == spc \in {"stop_loop", "stop_arg", "stop_read", "stop_write"}
<1>0. ASSUME table' = table, UNCHANGED <<spc, si, sc>> \/ ~ Inside'
      PROVE  StopHolds'
  BY <1>0 DEF StopHolds, Entries
<1>1. CASE StopConn
  <2>1. table' = table
    BY <1>1, StopConnFrame DEF tableVars
  <2>2. TestConn \/ FollowConn \/ PassConn \/ StopReadIo \/ StopWriteIo
    BY <1>1 DEF StopConn
  <2>3. CASE TestConn
    <3>1. si \in DOMAIN table /\ table[si] # NULL => si \in Entries
      BY DEF Listed, Entries, CoreInv, TypeInv, TypeOK, TableTypeOK
    <3>2. \/ spc' = "stop_loop" /\ si' = si /\ si \in DOMAIN table /\ table[si] # NULL
          \/ spc' \in {"stop_conns", "stop_io"}
      BY <2>3 DEF TestConn, StopRound, StopGoOn
    <3> QED  BY <2>1, <3>1, <3>2 DEF StopHolds, Entries
  <2>4. CASE FollowConn \/ PassConn \/ StopReadIo
    BY <2>1, <2>4 DEF FollowConn, PassConn, StopReadIo, StopAt, StopHolds, Entries
  <2>5. CASE StopWriteIo
    BY <2>1, <2>5 DEF StopWriteIo, StopRound, StopGoOn, StopHolds
  <2> QED  BY <2>2, <2>3, <2>4, <2>5
<1>2. ASSUME NEW t \in IoThreads, RunLoop(t)
      PROVE  StopHolds'
  <2>1. IoStep(t) /\ UNCHANGED <<spc, si, sc>>
    BY <1>2 DEF RunLoop, IoStep, controlVars, handlerVars
  <2>2. CASE Inside
    <3>1. Silent /\ BeforeDestroy
      BY <2>2, StopBeforeDestroy DEF ConnLabels
    <3> QED  BY <2>1, <3>1, <1>0, TableStays
  <2>3. CASE ~ Inside
    BY <2>1, <2>3 DEF StopHolds
  <2> QED  BY <2>2, <2>3
<1>3. CASE FreeConn \/ UNCHANGED <<mem, status, io_thread, fd, rio, wio, tableVars,
                                   ioVars, conn_queue, fdOwner>>
  <2>1. UNCHANGED table
    BY <1>3 DEF FreeConn, tableVars
  <2>2. CASE Signal \/ StopListener \/ xv_io_thread_stop \/ StopPool
    <3>1. ~ Inside'
      BY <2>2 DEF Signal, StopListener, xv_io_thread_stop, StopPool, StopGoOn, StopRound
    <3> QED  BY <2>1, <3>1, <1>0
  <2>3. CASE UNCHANGED handlerVars
    BY <2>1, <2>3, <1>0 DEF handlerVars
  <2> QED  BY <2>2, <2>3, <1>1, WhoMoves DEF HandlerOfSigint
<1> QED  BY <1>1, <1>2, <1>3, WhoMoves

LEMMA NextFreed ==
    ASSUME CoreInv, FdsFit, TableInv, TableInv', Listed, ControlInv, FreedSoFar,
           BeforeDestroy =>
              \A i \in Entries : i \in Fds /\ fd[table[i]] = i /\ mem[table[i]] = "live",
           [ShutdownNext]_shutdownVars
    PROVE  FreedSoFar'
<1>a. /\ ConnTypeOK /\ DOMAIN table = 0..(conn_setsize - 1) /\ conn_setsize \in Nat \ {0}
      /\ conn_setsize' = conn_setsize /\ mi \in Nat
      /\ MainFollows /\ LoopsBroken /\ NobodyYet
  BY DEF CoreInv, TypeInv, TypeOK, TableInv, TableTypeOK, ControlInv, ControlTypeOK
<1>b. \A c \in Conns : fd[c] \in Nat /\ fd[c] < conn_setsize
  <2>1. \A c \in Conns : fd[c] \in Fds \cup {0}
    BY <1>a DEF ConnTypeOK
  <2>2. conn_setsize = ConnSetSize
    BY DEF TableInv
  <2>3. \A f \in Fds : f \in Nat /\ f < ConnSetSize
    BY ServiceConstants DEF FdsFit
  <2> QED  BY <1>a, <2>1, <2>2, <2>3
<1> USE <1>a
<1>0. ASSUME UNCHANGED <<mem, fd, table>>,
             (mpc' = mpc /\ mi' = mi) \/ BeforeDestroy'
      PROVE  FreedSoFar'
  <2>1. Entries' = Entries
    BY <1>0 DEF Entries
  <2> QED  BY <1>0, <2>1 DEF FreedSoFar, BeforeDestroy
<1>1. CASE FreeConn
  <2>1. /\ UNCHANGED <<fd, tableVars>> /\ Sound(mi) /\ mpc = "free_conns"
        /\ Round(conn_setsize, "free_io")
        /\ \/ table[mi] = NULL /\ mem' = mem
           \/ table[mi] \in Conns /\ mem' = [mem EXCEPT ![table[mi]] = "freed"]
    BY <1>1 DEF FreeConn, Sound, At, xv_connection_destroy
  <2>2. table' = table /\ Entries' = Entries /\ NULL \notin Conns
    BY <2>1, ServiceConstants DEF tableVars, Entries
  <2>3. /\ \A i \in Entries : mi <= i => mem[table[i]] = "live"
        /\ \A c \in Conns : mem[c] = "live" => mi <= fd[c]
    BY <2>1 DEF FreedSoFar
  <2>4. \A i \in Entries : i \in Nat /\ table[i] \in Conns /\ fd[table[i]] = i
    BY ServiceConstants DEF TableInv, CoreInv, DescriptorsOwned, Entries
  <2>5. \A i \in Entries : mi + 1 <= i => mem'[table[i]] = "live"
    <3>1. ASSUME NEW i \in Entries, mi + 1 <= i
          PROVE  mem'[table[i]] = "live"
      <4>1. i \in Nat /\ table[i] \in Conns /\ mem[table[i]] = "live" /\ i # mi
        BY <2>3, <2>4, <3>1
      <4>2. table[mi] \in Conns => mi \in Entries
        BY <2>1 DEF Sound, Entries
      <4>3. table[mi] \in Conns => table[mi] # table[i]
        BY <2>4, <4>1, <4>2
      <4> QED  BY <2>1, <4>1, <4>3 DEF ConnTypeOK
    <3> QED  BY <3>1
  <2>6. \A c \in Conns : mem'[c] = "live" => mi + 1 <= fd[c]
    <3>1. ASSUME NEW c \in Conns, mem'[c] = "live"
          PROVE  mi + 1 <= fd[c]
      <4>1. mem[c] = "live" /\ mi <= fd[c]
        BY <2>1, <2>3, <3>1 DEF ConnTypeOK
      <4>2. \A t \in IoThreads : iopc[t] = "poll"
        BY <2>1 DEF MainFollows, Destroying, LoopsBroken, Exited
      <4>3. table[fd[c]] = c
        BY <4>1, <4>2 DEF Listed
      <4>4. fd[c] # mi
        BY <2>1, <2>2, <3>1, <4>3 DEF ConnTypeOK
      <4> QED  BY <4>1, <4>4, <1>b
    <3> QED  BY <3>1
  <2>7. CASE mi + 1 < conn_setsize
    <3>1. mpc' = "free_conns" /\ mi' = mi + 1
      BY <2>1, <2>7 DEF Round
    <3> QED  BY <3>1, <2>1, <2>2, <2>5, <2>6, <2>7 DEF FreedSoFar
  <2>8. CASE ~ (mi + 1 < conn_setsize)
    <3>1. mpc' = "free_io"
      BY <2>1, <2>8 DEF Round, GoOn
    <3>2. \A c \in Conns : mem'[c] # "live"
      BY <2>6, <2>8, <1>b
    <3> QED  BY <3>1, <3>2 DEF FreedSoFar
  <2> QED  BY <2>7, <2>8
<1>2. ASSUME NEW t \in IoThreads, RunLoop(t)
      PROVE  FreedSoFar'
  <2>1. iolife[t] = "loop" /\ UNCHANGED <<mpc, mi>>
    BY <1>2 DEF RunLoop, controlVars, mainVars
  <2>2. ~ Destroying /\ mpc # "done"
    BY <2>1 DEF MainFollows, Exited
  <2> QED  BY <2>1, <2>2 DEF FreedSoFar, Destroying
<1>3. CASE StopConn \/ UNCHANGED <<mem, status, io_thread, fd, rio, wio, tableVars,
                                   ioVars, conn_queue, fdOwner>>
  <2>1. UNCHANGED <<mem, fd, table>>
    BY <1>3, StopConnFrame DEF tableVars
  <2>2. CASE UNCHANGED mainVars
    BY <2>1, <2>2, <1>0 DEF mainVars
  <2>3. CASE FreeConn
    BY <2>3, <1>1
  <2>4. CASE FreeListener
    <3>1. mpc = "free_listener" /\ mpc' = "free_conns" /\ mi' = 0 /\ BeforeDestroy
      BY <2>4 DEF FreeListener, At, GoOn, BeforeDestroy
    <3>2. Entries' = Entries
      BY <2>1 DEF Entries
    <3>3. \A i \in Entries : mem[table[i]] = "live"
      BY <3>1
    <3> QED  BY <2>1, <3>1, <3>2, <3>3, <1>b DEF FreedSoFar
  <2>5. CASE xv_service_add_listen
    <3>1. mpc = "listen" /\ mpc' \in {"start", "done"}
      BY <2>5 DEF xv_service_add_listen, At, GoOn
    <3>2. \A c \in Conns : mem[c] = "none"
      BY <3>1 DEF MainFollows, NobodyYet
    <3> QED  BY <2>1, <3>1, <3>2 DEF FreedSoFar
  <2>6. CASE StartService \/ CreateIoThread \/ xv_service_run \/ JoinIoThread
    <3>1. BeforeDestroy'
      BY <2>6 DEF StartService, CreateIoThread, xv_service_run, JoinIoThread, At, GoOn,
                  Round, BeforeDestroy
    <3> QED  BY <2>1, <3>1, <1>0
  <2>7. CASE xv_io_thread_destroy \/ WakeWorker \/ JoinWorker
    <3>1. /\ mpc \in {"free_io", "wake", "join_worker"}
          /\ mpc' \in {"free_io", "wake", "join_worker", "done"}
      BY <2>7 DEF xv_io_thread_destroy, WakeWorker, JoinWorker, At, GoOn, Round
    <3> QED  BY <2>1, <3>1 DEF FreedSoFar
  <2> QED  BY <2>2, <2>3, <2>4, <2>5, <2>6, <2>7, WhoMoves DEF MainStep
<1> QED  BY <1>1, <1>2, <1>3, WhoMoves

(* The invariant.                                                          *)
LEMMA InitShutdown == ShutdownInit => ShutdownInv
<1> SUFFICES ASSUME ShutdownInit PROVE ShutdownInv
  OBVIOUS
<1>1. Init /\ spc = "off" /\ mpc = "listen"
  BY DEF ShutdownInit
<1>2. CoreInv /\ OrderInv /\ NothingLost /\ OnTheWay /\ OutputKept /\ Listed
      /\ TableInv /\ ReleasedInv
  BY <1>1, InitService, InitOrder, InitAhead, InitKept, InitTable, InitReleased
<1>3. ControlInv /\ FreeIoIndex
  BY InitControl
<1>4. EverybodyStays
  BY <1>1 DEF Init, EverybodyStays
<1>5. StoppedSoFar /\ FreedSoFar /\ StopHolds
  BY <1>1 DEF StoppedSoFar, FreedSoFar, StopHolds, ConnLabels
<1> QED  BY <1>1, <1>2, <1>3, <1>4, <1>5 DEF ShutdownInv

LEMMA NextShutdown == ShutdownInv /\ [ShutdownNext]_shutdownVars => ShutdownInv'
<1> SUFFICES ASSUME ShutdownInv, [ShutdownNext]_shutdownVars
             PROVE  ShutdownInv'
  OBVIOUS
<1>1. /\ CoreInv /\ OrderInv /\ NothingLost /\ OnTheWay
      /\ ControlInv /\ FreeIoIndex
      /\ spc = "off" => OutputKept
      /\ FdsFit => TableInv /\ Listed
      /\ Quiet /\ spc # "off" => Silent
      /\ BeforeDestroy /\ NobodyLeaves => EverybodyStays
      /\ BeforeDestroy /\ NWorkers = 0 => ReleasedInv
      /\ Orderly => StoppedSoFar /\ FreedSoFar
      /\ Orderly /\ NobodyLeaves => StopHolds
  BY DEF ShutdownInv
<1>2. /\ CoreInv' /\ OrderInv' /\ NothingLost' /\ OnTheWay'
      /\ FdsFit => TableInv' /\ Listed'
  BY <1>1, NextServicePart DEF ServicePart, FdsFit
<1>3. ControlInv' /\ FreeIoIndex'
  BY <1>1, NextControl
<1>4. spc' = "off" => OutputKept'
  BY <1>1, NextOutputKept
<1>5. Quiet /\ spc' # "off" => Silent'
  BY <1>1, NextSilent
<1>6. BeforeDestroy' /\ NobodyLeaves => EverybodyStays'
  BY <1>1, NextStays
<1>7. BeforeDestroy' /\ NWorkers = 0 => ReleasedInv'
  BY <1>1, NextReleasedToo DEF OrderInv
<1>8. ASSUME Orderly PROVE StoppedSoFar' /\ FreedSoFar'
  <2>1. /\ Quiet /\ FdsFit /\ (NWorkers = 0 \/ NobodyLeaves)
        /\ TableInv /\ TableInv' /\ Listed /\ StoppedSoFar /\ FreedSoFar
        /\ spc # "off" => Silent
    BY <1>1, <1>2, <1>8 DEF Orderly
  <2>2. StoppedSoFar'
    BY <1>1, <2>1, NextStopped DEF ControlInv
  <2>3. BeforeDestroy =>
            \A i \in Entries : i \in Fds /\ fd[table[i]] = i /\ mem[table[i]] = "live"
    BY <1>1, <2>1, EntriesLiveBefore
  <2>4. FreedSoFar'
    BY <1>1, <2>1, <2>3, NextFreed
  <2> QED  BY <2>2, <2>4
<1>9. ASSUME Orderly, NobodyLeaves PROVE StopHolds'
  BY <1>1, <1>9, NextHolds DEF Orderly
<1>10. (Orderly' <=> Orderly) /\ (FdsFit' <=> FdsFit) /\ (NobodyLeaves' <=> NobodyLeaves)
  BY DEF Orderly, FdsFit, NobodyLeaves
<1> QED  BY <1>2, <1>3, <1>4, <1>5, <1>6, <1>7, <1>8, <1>9, <1>10 DEF ShutdownInv

(***************************************************************************)
(* For any number of connections, IO threads and workers: from             *)
(* xv_service_add_listen to the end of xv_service_destroy the service      *)
(* keeps its own invariant, and the threads are where main and the SIGINT  *)
(* handler take them to be (xv_service.c:712-836).                         *)
(***************************************************************************)
THEOREM ShutdownInvariant == ShutdownSpec => []ShutdownInv
<1>1. ShutdownInit => ShutdownInv
  BY InitShutdown
<1>2. ShutdownInv /\ [ShutdownNext]_shutdownVars => ShutdownInv'
  BY NextShutdown
<1> QED  BY <1>1, <1>2, PTL DEF ShutdownSpec

(***************************************************************************)
(* Starting, stopping and destroying a service, at whatever moment the     *)
(* signal comes, never lets a peer see answers out of order or twice.      *)
(***************************************************************************)
THEOREM EchoUntilTheEnd == ShutdownSpec => []EchoInOrder
<1>1. ShutdownInv => EchoInOrder
  BY DEF ShutdownInv, OrderInv
<1> QED  BY <1>1, ShutdownInvariant, PTL

(***************************************************************************)
(* Until xv_service_stop is called, the owner of a connection waits for    *)
(* EPOLLOUT as long as a write has left output behind, also while IO       *)
(* threads are still being created (process_message,                       *)
(* on_connection_write).                                                   *)
(***************************************************************************)
THEOREM OutputUntilStop == ShutdownSpec => []OutputWatchedUntilStop
<1>1. ShutdownInv => OutputWatchedUntilStop
  BY DEF ShutdownInv, OutputKept, OutputWatchedUntilStop, OutputWatched
<1> QED  BY <1>1, ShutdownInvariant, PTL

LEMMA QuietStopIsSafe ==
    ASSUME ShutdownInv, Quiet, FdsFit, NobodyLeaves
    PROVE  StopSafe
<1>a. /\ CoreInv /\ OnTheWay /\ ControlInv /\ TableInv /\ StoppedSoFar /\ StopHolds
      /\ BeforeDestroy => EverybodyStays
      /\ spc # "off" => Silent
  BY DEF ShutdownInv, Orderly
<1>b. 0 \in IoThreads
  BY ServiceConstants DEF IoThreads
<1>1. ASSUME spc = "stop_listener" PROVE listener_io_thread # NULL
  <2>1. Silent
    BY <1>1, <1>a
  <2>2. iolife[0] # "exited"
    BY <1>1, <1>a, <1>b DEF ControlInv, LoopsBroken
  <2>3. iolife[0] = "loop"
    BY <2>1, <2>2, <1>b DEF Silent
  <2> QED  BY <2>3, <1>a DEF ControlInv, ListenerInv
<1>2. ASSUME spc \in ConnLabels PROVE si \in DOMAIN table
  BY <1>a, <1>2, ServiceConstants DEF StoppedSoFar, TableInv, ControlInv, ControlTypeOK
<1>3. ASSUME spc \in {"stop_loop", "stop_read", "stop_write"}
      PROVE  /\ si \in Entries /\ Live(table[si]) /\ io_thread[table[si]] # NULL
             /\ spc # "stop_loop" => sc = table[si]
  <2>1. Silent /\ BeforeDestroy
    BY <1>3, <1>a, StopBeforeDestroy DEF ConnLabels
  <2>2. si \in Entries /\ (spc # "stop_loop" => sc = table[si])
    BY <1>3, <1>a DEF StopHolds
  <2>3. Live(table[si])
    BY <1>a, <2>1, <2>2, EntriesLive DEF Entries, Live
  <2>4. \A c \in Conns : mem[c] = "live" => io_thread[c] # NULL
    <3>1. \A t \in IoThreads : conn_queue[t] = << >> /\ ~ Adding(t)
      BY <2>1 DEF Silent, Adding
    <3>2. \A t \in IoThreads, c \in Conns : ~ Queued(conn_queue[t], c)
      BY <3>1 DEF Queued
    <3> QED  BY <1>a, <3>1, <3>2 DEF OnTheWay
  <2> QED  BY <2>2, <2>3, <2>4 DEF Live
<1>4. spc = "stop_loop" => Stoppable(si)
  <2> SUFFICES ASSUME spc = "stop_loop" PROVE Stoppable(si)
    OBVIOUS
  <2>1. NULL \notin Conns
    BY ServiceConstants
  <2> QED  BY <1>2, <1>3, <2>1 DEF Stoppable, Sound, Live, ConnLabels
<1>5. spc \in {"stop_read", "stop_write"} => Live(sc)
  BY <1>3
<1> QED  BY <1>1, <1>2, <1>4, <1>5 DEF StopSafe, StopAt, ConnLabels

LEMMA QuietDestroyIsSafe ==
    ASSUME ShutdownInv, Orderly
    PROVE  DestroySafe
<1> SUFFICES ASSUME Destroying PROVE DestroySafe
  BY DEF DestroySafe
<1>a. /\ CoreInv /\ ControlInv /\ FreeIoIndex /\ TableInv /\ Listed /\ StoppedSoFar
      /\ FreedSoFar /\ Quiet
  BY DEF ShutdownInv, Orderly
<1>1. spc = "over" /\ \A t \in IoThreads : iolife[t] = "exited"
  BY <1>a DEF ControlInv, MainFollows, Exited
<1>2. Silent
  BY <1>1 DEF ShutdownInv, Orderly
<1>3. ~ listen_io /\ msgs = {}
  BY <1>1, <1>2 DEF Silent
<1>4. ASSUME mpc = "free_conns"
      PROVE  Sound(mi) /\ (table[mi] # NULL => ~ rio[table[mi]] /\ ~ wio[table[mi]])
  <2>1. mi \in DOMAIN table /\ mi \in Nat
    BY <1>a, <1>4, ServiceConstants DEF FreedSoFar, TableInv, ControlInv, ControlTypeOK
  <2>2. table[mi] # NULL => mi \in Entries
    BY <2>1, <1>a DEF Listed, Entries, CoreInv, TypeInv, TypeOK, TableTypeOK
  <2>3. mi \in Entries => table[mi] \in Conns /\ mem[table[mi]] = "live"
    BY <1>a, <1>4, <2>1 DEF FreedSoFar, Entries
  <2>4. mi \in Entries => ~ rio[table[mi]] /\ ~ wio[table[mi]]
    BY <1>a, <1>1 DEF StoppedSoFar
  <2> QED  BY <2>1, <2>2, <2>3, <2>4 DEF Sound
<1>5. ASSUME mpc = "free_io"
      PROVE  conn_queue[mi] = << >> /\ message_queue[mi] = << >>
  <2>1. mi \in IoThreads
    BY <1>a, <1>5, ServiceConstants DEF FreeIoIndex, ControlInv, ControlTypeOK, IoThreads
  <2> QED  BY <2>1, <1>2 DEF Silent
<1> QED  BY <1>1, <1>3, <1>4, <1>5 DEF DestroySafe

(***************************************************************************)
(* When xv_service_stop may be called without a lock: at a quiet moment,   *)
(* if no peer leaves.  Then every access of its walk over the table,       *)
(* whatever the IO threads do between two of them, finds what it follows:  *)
(* the listener has its thread, an entry stays what it was when tested,    *)
(* and its connection exists and has an IO thread (xv_service.c:766-780).  *)
(* Descriptors have to fit the table's first size, for what xv_realloc     *)
(* adds is never initialised.  A peer that leaves is enough to break it,   *)
(* as the run of MCStopRace.cfg shows.                                     *)
(***************************************************************************)
THEOREM StopIsSafe ==
    Quiet /\ FdsFit /\ NobodyLeaves => (ShutdownSpec => []StopSafe)
<1> SUFFICES ASSUME Quiet /\ FdsFit /\ NobodyLeaves PROVE ShutdownSpec => []StopSafe
  OBVIOUS
<1>1. ShutdownInv => StopSafe
  BY QuietStopIsSafe
<1> QED  BY <1>1, ShutdownInvariant, PTL

(***************************************************************************)
(* After a quiet stop that came to its end xv_service_destroy frees        *)
(* nothing twice and nothing that is in use: every IO thread has ended,    *)
(* the events it destroys are stopped, and the queues are empty.  The      *)
(* hypothesis is that a worker's answer never meets a connection that was  *)
(* closed meanwhile, for io_thread_return_message_cb then frees it and     *)
(* leaves it in the table.  (Where stop has followed a connection that an  *)
(* IO thread was closing, the behaviour ends there, before destroy.)       *)
(***************************************************************************)
THEOREM DestroyIsSafe == Orderly => (ShutdownSpec => []DestroySafe)
<1> SUFFICES ASSUME Orderly PROVE ShutdownSpec => []DestroySafe
  OBVIOUS
<1>1. ShutdownInv => DestroySafe
  BY QuietDestroyIsSafe
<1> QED  BY <1>1, ShutdownInvariant, PTL

(***************************************************************************)
(* And it leaves nothing behind: when it has returned, every IO thread and *)
(* worker has ended and every connection that was accepted is freed.       *)
(***************************************************************************)
THEOREM NothingIsLeft == Orderly => (ShutdownSpec => []NothingLeft)
<1> SUFFICES ASSUME Orderly PROVE ShutdownSpec => []NothingLeft
  OBVIOUS
<1>1. ShutdownInv => NothingLeft
  <2> SUFFICES ASSUME ShutdownInv, mpc = "done"
               PROVE  /\ \A t \in IoThreads : iolife[t] \in {"none", "exited"}
                      /\ \A w \in Workers : wlife[w] \in {"none", "exited"}
                      /\ \A c \in Conns : mem[c] # "live"
    BY DEF NothingLeft
  <2> QED  BY DEF ShutdownInv, ControlInv, MainFollows, WorkersJoined, FreedSoFar, Exited
<1> QED  BY <1>1, ShutdownInvariant, PTL

(***************************************************************************)
(* Whenever the signal comes, and whatever is under way: main does not     *)
(* begin to destroy before every IO thread has ended, and has joined every *)
(* worker when it is done (xv_service_run, xv_thread_pool_destroy).        *)
(***************************************************************************)
THEOREM ThreadsJoined ==
    ShutdownSpec => [](/\ Destroying => \A t \in IoThreads : iolife[t] = "exited"
                       /\ mpc = "done" => \A w \in Workers : wlife[w] \in {"none", "exited"})
<1> DEFINE Joined ==
        /\ Destroying => \A t \in IoThreads : iolife[t] = "exited"
        /\ mpc = "done" => \A w \in Workers : wlife[w] \in {"none", "exited"}
<1>1. ShutdownInv => Joined
  BY DEF ShutdownInv, ControlInv, MainFollows, WorkersJoined, Exited
<1> QED  BY <1>1, ShutdownInvariant, PTL

=============================================================================
