--------------------------- MODULE XvServiceProofs ---------------------------
(***************************************************************************)
(* The connections of a service, for any number of connections, threads,   *)
(* descriptors and requests.                                               *)
(***************************************************************************)
EXTENDS XvServiceInv, SequenceTheorems, FiniteSetTheorems, TLAPS

(* The parts of the type invariant that a step leaves alone. *)
LEMMA TypeFrame ==
    /\ ConnTypeOK /\ UNCHANGED connVars => ConnTypeOK'
    /\ StreamTypeOK /\ UNCHANGED streamVars => StreamTypeOK'
    /\ TableTypeOK /\ UNCHANGED tableVars => TableTypeOK'
    /\ QueueTypeOK /\ UNCHANGED queueVars => QueueTypeOK'
    /\ IoTypeOK /\ UNCHANGED ioVars => IoTypeOK'
    /\ PeerTypeOK /\ UNCHANGED peerVars => PeerTypeOK'
    /\ MessageTypeOK /\ UNCHANGED <<msgs, whand>> => MessageTypeOK'
    /\ TableAllocated /\ UNCHANGED tableVars => TableAllocated'
    /\ StagesOrdered /\ UNCHANGED <<streamVars, peerVars>> => StagesOrdered'
<1>1. ConnTypeOK /\ UNCHANGED connVars => ConnTypeOK'
  BY DEF ConnTypeOK, connVars
<1>2. StreamTypeOK /\ UNCHANGED streamVars => StreamTypeOK'
  BY DEF StreamTypeOK, streamVars
<1>3. TableTypeOK /\ UNCHANGED tableVars => TableTypeOK'
  BY DEF TableTypeOK, tableVars
<1>4. QueueTypeOK /\ UNCHANGED queueVars => QueueTypeOK'
  BY DEF QueueTypeOK, queueVars
<1>5. IoTypeOK /\ UNCHANGED ioVars => IoTypeOK'
  BY DEF IoTypeOK, ioVars
<1>6. PeerTypeOK /\ UNCHANGED peerVars => PeerTypeOK'
  BY DEF PeerTypeOK, peerVars
<1>7. MessageTypeOK /\ UNCHANGED <<msgs, whand>> => MessageTypeOK'
  BY DEF MessageTypeOK
<1>8. TableAllocated /\ UNCHANGED tableVars => TableAllocated'
  BY DEF TableAllocated, tableVars
<1>9. StagesOrdered /\ UNCHANGED <<streamVars, peerVars>> => StagesOrdered'
  BY DEF StagesOrdered, streamVars, peerVars
<1> QED  BY <1>1, <1>2, <1>3, <1>4, <1>5, <1>6, <1>7, <1>8, <1>9

LEMMA InitType == Init => TypeInv
<1> SUFFICES ASSUME Init PROVE TypeInv
  OBVIOUS
<1> USE ServiceConstants
<1>1. ConnTypeOK /\ PeerTypeOK
  BY DEF Init, ConnTypeOK, PeerTypeOK
<1>2. StreamTypeOK /\ QueueTypeOK
  BY DEF Init, StreamTypeOK, QueueTypeOK
<1>3. TableTypeOK /\ IoTypeOK /\ MessageTypeOK
  BY DEF Init, TableTypeOK, IoTypeOK, MessageTypeOK, Labels
<1>4. fdOwner \in [Fds -> Conns \cup {NULL}]
  BY DEF Init
<1>5. HandlersTyped /\ TableAllocated /\ StagesOrdered
  BY DEF Init, HandlersTyped, Carries, TableAllocated, StagesOrdered
<1> QED  BY <1>1, <1>2, <1>3, <1>4, <1>5 DEF TypeInv, TypeOK

(* The labels of xv_connection_close after its test of ref_count. *)
LEMMA ReleaseLabels ==
    ASSUME NEW t
    PROVE  /\ ReleaseOrder[1] = "del"
           /\ AfterRelease(t, "del") = "closefd"
           /\ AfterRelease(t, "closefd") = "free"
           /\ AfterRelease(t, "free") = ioret[t]
<1> DEFINE index(l) == CHOOSE j \in 1..3 : ReleaseOrder[j] = l
<1>1. ReleaseOrder[1] = "del" /\ ReleaseOrder[2] = "closefd" /\ ReleaseOrder[3] = "free"
  BY DEF ReleaseOrder
<1>2. \A j \in 1..3 : j = 1 \/ j = 2 \/ j = 3
  OBVIOUS
<1>3. index("del") = 1 /\ index("closefd") = 2 /\ index("free") = 3
  BY <1>1, <1>2
<1> QED  BY <1>1, <1>3 DEF AfterRelease

(* A request or a response, as units. *)
LEMMA UnitsType ==
    ASSUME NEW m \in Messages
    PROVE  Units(m) \in Seq(Unit) /\ Len(Units(m)) = m.hi - m.lo + 1
<1> USE ServiceConstants
<1>1. /\ m.from \in Conns /\ m.lo \in 1..MaxReq /\ m.hi \in 1..MaxReq
      /\ m.lo <= m.hi
  BY DEF Messages
<1>2. m.hi - m.lo + 1 \in Nat
  BY <1>1
<1>3. ASSUME NEW i \in 1..(m.hi - m.lo + 1)
      PROVE  <<m.from, m.lo + i - 1>> \in Unit
  BY <1>1 DEF Unit
<1>4. Units(m) \in [1..(m.hi - m.lo + 1) -> Unit]
  BY <1>3 DEF Units
<1> QED  BY <1>2, <1>4

LEMMA WriteOutType ==
    ASSUME NEW c \in Conns, NEW buffer \in Seq(Unit), NEW n \in 0..Len(buffer),
           outp \in [Conns -> Seq(Unit)], wbuf \in [Conns -> Seq(Unit)],
           WriteOut(c, buffer, n)
    PROVE  outp' \in [Conns -> Seq(Unit)] /\ wbuf' \in [Conns -> Seq(Unit)]
<1>1. Len(buffer) \in Nat
  BY LenProperties
<1>2. /\ SubSeq(buffer, 1, n) \in Seq(Unit)
      /\ SubSeq(buffer, n + 1, Len(buffer)) \in Seq(Unit)
  BY <1>1
<1>3. outp[c] \o SubSeq(buffer, 1, n) \in Seq(Unit)
  BY <1>2, ConcatProperties
<1> QED  BY <1>2, <1>3 DEF WriteOut

(* An item goes to the queue of one thread. *)
LEMMA AppendAt ==
    ASSUME NEW S, NEW I, NEW q \in [I -> Seq(S)], NEW j, NEW x \in S
    PROVE  [q EXCEPT ![j] = Append(@, x)] \in [I -> Seq(S)]
<1>1. \A i \in I : Append(q[i], x) \in Seq(S)
  BY AppendProperties
<1> QED  BY <1>1

LEMMA NextType == TypeInv /\ [Next]_vars => TypeInv'
<1> SUFFICES ASSUME TypeInv, [Next]_vars PROVE TypeInv'
  OBVIOUS
<1> USE ServiceConstants DEF TypeInv, TypeOK
<1>1. ASSUME NEW c \in Conns,
             \/ Connect(c) \/ PeerSend(c) \/ PeerClose(c)
             \/ \E t \in IoThreads : AcceptFails(t, c)
      PROVE  TypeInv'
  <2>1. UNCHANGED <<connVars, streamVars, tableVars, queueVars, ioVars, msgs,
                    whand, fdOwner>>
    BY <1>1 DEF Connect, PeerSend, PeerClose, AcceptFails
  <2>2. PeerTypeOK'
    BY <1>1 DEF PeerTypeOK, Connect, PeerSend, PeerClose, AcceptFails
  <2>3. StagesOrdered'
    <3>1. \A d \in Conns : nsent[d] \in Nat /\ nsent'[d] \in Nat /\ nsent[d] <= nsent'[d]
      BY <1>1 DEF PeerTypeOK, Connect, PeerSend, PeerClose, AcceptFails
    <3>2. \A d \in Conns : nread[d] \in Nat
      BY DEF StreamTypeOK
    <3> QED  BY <2>1, <3>1, <3>2 DEF StagesOrdered, streamVars
  <2>4. HandlersTyped'
    BY <2>1 DEF HandlersTyped, Carries, ioVars, connVars
  <2> QED  BY <2>1, <2>2, <2>3, <2>4, TypeFrame
<1>2. ASSUME NEW t \in IoThreads, NEW c \in Conns, Accept(t, c)
      PROVE  TypeInv'
  <2>1. PICK f \in Fds :
        /\ xv_tcp_accept(c, f)
        /\ xv_connection_init(c, f)
        /\ IF MustGrow(f)
           THEN /\ UNCHANGED tableVars
                /\ Goto(t, "grow", c, NULL, "poll")
           ELSE /\ xv_service_add_connection(c, f)
                /\ Goto(t, "accepted", c, NULL, "poll")
    BY <1>2 DEF Accept
  <2>2. UNCHANGED <<streamVars, queueVars, msgs, whand>>
    BY <1>2 DEF Accept
  <2>3. ConnTypeOK'
    BY <1>2, <2>1 DEF ConnTypeOK, Accept, xv_connection_init
  <2>4. TableTypeOK' /\ TableAllocated'
    BY <2>1 DEF TableTypeOK, TableAllocated, xv_service_add_connection, Store,
                tableVars
  <2>5. IoTypeOK'
    BY <2>1 DEF IoTypeOK, Goto, Labels
  <2>6. PeerTypeOK' /\ StagesOrdered'
    BY <1>2 DEF PeerTypeOK, Accept, StagesOrdered, streamVars
  <2>7. HandlersTyped'
    BY <2>1 DEF HandlersTyped, Carries, Goto, xv_connection_init, ConnTypeOK,
                IoTypeOK, Handling
  <2>8. (fdOwner \in [Fds -> Conns \cup {NULL}])'
    BY <2>1 DEF xv_tcp_accept
  <2> QED  BY <2>2, <2>3, <2>4, <2>5, <2>6, <2>7, <2>8, TypeFrame
<1>3. ASSUME NEW t \in IoThreads, Grow(t)
      PROVE  TypeInv'
  <2>1. UNCHANGED <<connVars, streamVars, queueVars, ioVars, peerVars, msgs,
                    whand, fdOwner>>
    BY <1>3 DEF Grow
  <2> DEFINE n == conn_setsize
  <2>2. /\ n \in Nat \ {0} /\ conn_setsize' = 2 * n /\ (2 * n) \div 2 = n
        /\ 0..(n - 1) \subseteq DOMAIN table
        /\ table' = table /\ conn_count' = conn_count
        /\ new_table' = Realloc(table, 2 * n)
    BY <1>3 DEF Grow, TableTypeOK, TableAllocated
  <2>3. \A i \in 0..(2 * n - 1) : i < n => i \in DOMAIN table
    BY <2>2
  <2>4. new_table' \in [0..(2 * n - 1) -> Conns \cup {NULL, Garbage}]
    BY <2>2, <2>3 DEF Realloc, TableTypeOK
  <2>5. TableTypeOK'
    BY <2>2, <2>4 DEF TableTypeOK
  <2>6. new_table' # << >>
    <3>1. DOMAIN new_table' = 0..(2 * n - 1) /\ 0 \in 0..(2 * n - 1)
      BY <2>2, <2>4
    <3>2. DOMAIN << >> = {}
      OBVIOUS
    <3> QED  BY <3>1, <3>2
  <2>7. TableAllocated'
    BY <2>6 DEF TableAllocated
  <2>8. HandlersTyped' /\ StagesOrdered'
    BY <2>1 DEF HandlersTyped, Carries, ioVars, connVars, StagesOrdered,
                streamVars, peerVars
  <2> QED  BY <2>1, <2>5, <2>7, <2>8, TypeFrame
<1>4. ASSUME NEW t \in IoThreads, GrowDone(t)
      PROVE  TypeInv'
  <2>1. UNCHANGED <<connVars, streamVars, queueVars, peerVars, msgs, whand,
                    fdOwner>>
    BY <1>4 DEF GrowDone
  <2>2. fd[ioc[t]] \in Nat /\ ioc[t] \in Conns
    BY <1>4 DEF GrowDone, HandlersTyped
  <2>3. TableTypeOK' /\ TableAllocated'
    BY <1>4, <2>2 DEF GrowDone, TableTypeOK, TableAllocated, Store
  <2>4. IoTypeOK'
    BY <1>4, <2>2 DEF GrowDone, Goto, IoTypeOK, Labels
  <2>5. HandlersTyped'
    BY <1>4, <2>1, <2>2 DEF GrowDone, Goto, HandlersTyped, Carries, IoTypeOK,
                            connVars
  <2>6. StagesOrdered'
    BY <2>1 DEF StagesOrdered, streamVars, peerVars
  <2> QED  BY <2>1, <2>3, <2>4, <2>5, <2>6, TypeFrame
<1>5. ASSUME NEW t \in IoThreads, Distribute(t)
      PROVE  TypeInv'
  <2>1. UNCHANGED <<streamVars, tableVars, peerVars, msgs, whand, fdOwner, fd>>
    BY <1>5 DEF Distribute
  <2>2. ioc[t] \in Conns
    BY <1>5 DEF Distribute, HandlersTyped
  <2>3. ConnTypeOK'
    <3>1. UNCHANGED <<mem, status, ref, fd, wio, ndisc>>
      BY <1>5 DEF Distribute
    <3>2. io_thread' \in [Conns -> IoThreads \cup {NULL}]
      <4>1. \/ io_thread' = io_thread
            \/ io_thread' = [io_thread EXCEPT ![ioc[t]] = t]
        BY <1>5 DEF Distribute
      <4> QED  BY <2>2, <4>1 DEF ConnTypeOK
    <3>3. rio' \in [Conns -> BOOLEAN]
      BY <1>5, <2>2 DEF Distribute, ConnTypeOK
    <3> QED  BY <3>1, <3>2, <3>3 DEF ConnTypeOK
  <2>4. QueueTypeOK'
    <3>1. UNCHANGED <<message_queue, task_queue>>
      BY <1>5 DEF Distribute
    <3>2. \/ conn_queue' = conn_queue
          \/ conn_queue' = [conn_queue EXCEPT
                    ![FollowerOf(ioc[t])] = Append(@, ioc[t])]
      BY <1>5 DEF Distribute
    <3>3. conn_queue' \in [IoThreads -> Seq(Conns)]
      <4>1. conn_queue \in [IoThreads -> Seq(Conns)]
        BY DEF QueueTypeOK
      <4>2. [conn_queue EXCEPT ![FollowerOf(ioc[t])] = Append(@, ioc[t])]
                \in [IoThreads -> Seq(Conns)]
        BY <2>2, <4>1, AppendAt, Zenon
      <4> QED  BY <3>2, <4>1, <4>2
    <3> QED  BY <3>1, <3>3 DEF QueueTypeOK
  <2>5. IoTypeOK'
    BY <1>5 DEF Distribute, BackToPoll, Goto, IoTypeOK, Labels
  <2>6. HandlersTyped'
    BY <1>5, <2>1 DEF Distribute, BackToPoll, Goto, HandlersTyped, Carries,
                      IoTypeOK
  <2>7. StagesOrdered'
    BY <2>1 DEF StagesOrdered, streamVars, peerVars
  <2> QED  BY <2>1, <2>3, <2>4, <2>5, <2>6, <2>7, TypeFrame
<1>6. ASSUME NEW t \in IoThreads, AddConn(t)
      PROVE  TypeInv'
  <2>1. UNCHANGED <<streamVars, tableVars, ioVars, peerVars, msgs, whand, fdOwner, fd>>
    BY <1>6 DEF AddConn
  <2>2. conn_queue[t] \in Seq(Conns) /\ conn_queue[t] # << >>
    BY <1>6 DEF AddConn, QueueTypeOK
  <2>3. Head(conn_queue[t]) \in Conns /\ Tail(conn_queue[t]) \in Seq(Conns)
    BY <2>2, HeadTailProperties
  <2>4. ConnTypeOK'
    BY <1>6, <2>3 DEF AddConn, ConnTypeOK
  <2>5. QueueTypeOK'
    BY <1>6, <2>3 DEF AddConn, QueueTypeOK
  <2>6. HandlersTyped' /\ StagesOrdered'
    BY <2>1 DEF HandlersTyped, Carries, ioVars, StagesOrdered, streamVars, peerVars
  <2> QED  BY <2>1, <2>4, <2>5, <2>6, TypeFrame
<1>7. ASSUME NEW t \in IoThreads, NEW c \in Conns, NEW n \in 1..MaxReq,
             ReadRequest(t, c, n)
      PROVE  TypeInv'
  <2> DEFINE m == [conn |-> c, from |-> c, sent |-> FALSE, lo |-> ndec[c] + 1,
                   hi |-> IF Decode = "framed" THEN ndec[c] + 1 ELSE nread[c] + n]
  <2>1. /\ UNCHANGED <<tableVars, peerVars, whand, fdOwner>>
        /\ nread[c] + n <= nsent[c]
        /\ nread' = [nread EXCEPT ![c] = @ + n]
        /\ ndec' = [ndec EXCEPT ![c] = m.hi]
        /\ xv_message_init(m)
        /\ IF NWorkers = 0
           THEN Goto(t, "reply", c, m, "poll") /\ UNCHANGED task_queue
           ELSE /\ task_queue' = [task_queue EXCEPT
                        ![TaskIndex(m)] = Append(@, m)]
                /\ UNCHANGED ioVars
    BY <1>7 DEF ReadRequest
  <2>2. /\ ndec[c] \in Nat /\ nread[c] \in Nat /\ nsent[c] \in 0..MaxReq
        /\ ndec[c] <= nread[c]
    BY DEF StreamTypeOK, PeerTypeOK, StagesOrdered
  <2>3. /\ m.lo \in 1..MaxReq /\ m.hi \in 1..MaxReq /\ m.lo <= m.hi
        /\ m.hi \in 0..MaxReq /\ m.hi <= nread[c] + n /\ nread[c] + n \in 0..MaxReq
    BY <2>1, <2>2
  <2>4. m \in Messages /\ m.conn = c
    BY <2>3 DEF Messages
  <2> HIDE DEF m
  <2>5. ConnTypeOK'
    BY <1>7, <2>1, <2>4 DEF ReadRequest, ConnTypeOK, xv_message_init,
                            xv_connection_incr_ref
  <2>6. StreamTypeOK' /\ StagesOrdered'
    <3>1. wbuf' = wbuf /\ outp' = outp /\ nsent' = nsent
      BY <1>7 DEF ReadRequest, peerVars
    <3> QED  BY <2>1, <2>2, <2>3, <3>1 DEF StreamTypeOK, StagesOrdered
  <2>7. QueueTypeOK'
    <3>1. conn_queue' = conn_queue /\ message_queue' = message_queue
      BY <1>7 DEF ReadRequest
    <3>2. \/ task_queue' = task_queue
          \/ task_queue' = [task_queue EXCEPT ![TaskIndex(m)] = Append(@, m)]
      BY <2>1
    <3>3. task_queue' \in [Workers -> Seq(Messages)]
      <4>1. task_queue \in [Workers -> Seq(Messages)]
        BY DEF QueueTypeOK
      <4>2. [task_queue EXCEPT ![TaskIndex(m)] = Append(@, m)]
                \in [Workers -> Seq(Messages)]
        BY <2>4, <4>1, AppendAt, Zenon
      <4> QED  BY <3>2, <4>1, <4>2
    <3> QED  BY <3>1, <3>3 DEF QueueTypeOK
  <2>8. IoTypeOK'
    <3>1. CASE UNCHANGED ioVars
      BY <3>1, TypeFrame
    <3>2. CASE Goto(t, "reply", c, m, "poll")
      BY <2>4, <3>2 DEF IoTypeOK, Goto, Labels
    <3> QED  BY <2>1, <3>1, <3>2
  <2>9. HandlersTyped'
    <3>1. fd' = fd
      BY <1>7 DEF ReadRequest
    <3> QED  BY <2>1, <2>4, <3>1 DEF HandlersTyped, Carries, Handling, Goto,
                                     ioVars, IoTypeOK
  <2>10. MessageTypeOK'
    BY <2>1, <2>4 DEF MessageTypeOK, xv_message_init
  <2> QED  BY <2>1, <2>5, <2>6, <2>7, <2>8, <2>9, <2>10, TypeFrame
<1>8. ASSUME NEW t \in IoThreads, NEW c \in Conns, NEW n \in 0..MaxReq,
             ReadAndClose(t, c, n)
      PROVE  TypeInv'
  <2>1. /\ UNCHANGED <<connVars, tableVars, peerVars, queueVars, msgs, whand,
                       fdOwner, ndec, wbuf, outp>>
        /\ nread' = [nread EXCEPT ![c] = @ + n]
        /\ Goto(t, "close", c, NULL, "poll")
        /\ n # 0 => nread[c] + n <= nsent[c]
    BY <1>8 DEF ReadAndClose
  <2>2. /\ ndec[c] \in Nat /\ nread[c] \in Nat /\ nsent[c] \in 0..MaxReq
        /\ ndec[c] <= nread[c] /\ nread[c] <= nsent[c]
    BY DEF StreamTypeOK, PeerTypeOK, StagesOrdered
  <2>3. nread[c] + n \in 0..MaxReq /\ ndec[c] <= nread[c] + n /\ nread[c] + n <= nsent[c]
    BY <2>1, <2>2
  <2>4. StreamTypeOK' /\ StagesOrdered'
    BY <2>1, <2>3 DEF StreamTypeOK, StagesOrdered, peerVars
  <2>5. IoTypeOK'
    BY <2>1 DEF IoTypeOK, Goto, Labels
  <2>6. HandlersTyped'
    BY <2>1 DEF HandlersTyped, Carries, Goto, IoTypeOK, connVars
  <2> QED  BY <2>1, <2>4, <2>5, <2>6, TypeFrame
<1>9. ASSUME NEW t \in IoThreads, ReturnMessage(t)
      PROVE  TypeInv'
  <2> DEFINE m == Head(message_queue[t])
  <2>1. /\ UNCHANGED <<connVars, streamVars, tableVars, peerVars, msgs, whand,
                       fdOwner, conn_queue, task_queue>>
        /\ Goto(t, "reply", m.conn, m, "poll")
        /\ message_queue' = [message_queue EXCEPT ![t] = Tail(@)]
        /\ message_queue[t] # << >>
    BY <1>9 DEF ReturnMessage
  <2>2. message_queue[t] \in Seq(Messages)
    BY DEF QueueTypeOK
  <2>3. m \in Messages /\ Tail(message_queue[t]) \in Seq(Messages)
    BY <2>1, <2>2, HeadTailProperties
  <2> HIDE DEF m
  <2>4. m.conn \in Conns
    BY <2>3 DEF Messages
  <2>5. QueueTypeOK'
    BY <2>1, <2>3 DEF QueueTypeOK
  <2>6. IoTypeOK'
    BY <2>1, <2>3, <2>4 DEF IoTypeOK, Goto, Labels
  <2>7. HandlersTyped' /\ StagesOrdered'
    BY <2>1, <2>3, <2>4 DEF HandlersTyped, Carries, Handling, Goto, IoTypeOK,
                            connVars, StagesOrdered, streamVars, peerVars
  <2> QED  BY <2>1, <2>5, <2>6, <2>7, TypeFrame
<1>10. ASSUME NEW t \in IoThreads, DropMessage(t)
       PROVE  TypeInv'
  <2> DEFINE m == Head(message_queue[t])
  <2>1. /\ UNCHANGED <<streamVars, tableVars, ioVars, peerVars, whand, fdOwner,
                       conn_queue, task_queue, status, io_thread, fd, rio, wio,
                       ndisc>>
        /\ xv_message_destroy(m) /\ xv_connection_destroy(m.conn)
        /\ message_queue' = [message_queue EXCEPT ![t] = Tail(@)]
        /\ message_queue[t] # << >>
    BY <1>10 DEF DropMessage
  <2>2. message_queue[t] \in Seq(Messages)
    BY DEF QueueTypeOK
  <2>3. m \in Messages /\ Tail(message_queue[t]) \in Seq(Messages)
    BY <2>1, <2>2, HeadTailProperties
  <2> HIDE DEF m
  <2>4. m.conn \in Conns
    BY <2>3 DEF Messages
  <2>5. ConnTypeOK'
    BY <2>1, <2>4 DEF ConnTypeOK, xv_message_destroy, xv_connection_decr_ref,
                      xv_connection_destroy
  <2>6. QueueTypeOK'
    BY <2>1, <2>3 DEF QueueTypeOK
  <2>7. HandlersTyped' /\ StagesOrdered'
    BY <2>1 DEF HandlersTyped, Carries, ioVars, StagesOrdered, streamVars, peerVars
  <2>8. MessageTypeOK'
    BY <2>1 DEF MessageTypeOK, xv_message_destroy
  <2> QED  BY <2>1, <2>5, <2>6, <2>7, <2>8, TypeFrame
<1>11. ASSUME NEW t \in IoThreads, NEW n, Reply(t, n)
       PROVE  TypeInv'
  <2> DEFINE c == ioc[t]
             buffer == wbuf[c] \o Units(iom[t])
  <2>1. /\ UNCHANGED <<tableVars, queueVars, peerVars, mem, status, ref,
                       io_thread, fd, rio, ndisc, nread, ndec, msgs, whand,
                       fdOwner>>
        /\ n \in 0..Len(buffer)
        /\ WriteOut(c, buffer, n)
        /\ wio' = [wio EXCEPT ![c] =
                    @ \/ (n < Len(buffer) /\ status[c] = "OPEN")]
        /\ Goto(t, "destroy", c, iom[t], "poll")
        /\ iopc[t] = "reply"
    BY <1>11 DEF Reply
  <2>2. c \in Conns /\ iom[t] \in Messages
    BY <2>1 DEF HandlersTyped, Carries
  <2>3. buffer \in Seq(Unit)
    BY <2>2, UnitsType, ConcatProperties DEF StreamTypeOK
  <2> HIDE DEF buffer
  <2>4. StreamTypeOK'
    BY <2>1, <2>2, <2>3, WriteOutType DEF StreamTypeOK
  <2>5. ConnTypeOK'
    BY <2>1, <2>2 DEF ConnTypeOK
  <2>6. IoTypeOK'
    BY <2>1, <2>2 DEF IoTypeOK, Goto, Labels
  <2>7. HandlersTyped' /\ StagesOrdered'
    BY <2>1, <2>2 DEF HandlersTyped, Carries, Handling, Goto, IoTypeOK,
                      StagesOrdered, peerVars
  <2> QED  BY <2>1, <2>4, <2>5, <2>6, <2>7, TypeFrame
<1>12. ASSUME NEW t \in IoThreads, NoReply(t) \/ CheckRef(t)
       PROVE  TypeInv'
  <2>1. /\ UNCHANGED <<connVars, streamVars, tableVars, queueVars, peerVars,
                       ioc, iom, ioret, msgs, whand, fdOwner>>
        /\ iopc[t] \in {"reply", "checkref"}
        /\ \/ iopc[t] = "reply" /\ iopc' = [iopc EXCEPT ![t] = "destroy"]
           \/ iopc' = [iopc EXCEPT ![t] = "del"]
           \/ iopc[t] # "reply" /\ iopc' = [iopc EXCEPT ![t] = ioret[t]]
    BY <1>12, ReleaseLabels DEF NoReply, CheckRef
  <2>2. IoTypeOK'
    BY <2>1 DEF IoTypeOK, Labels
  <2>3. HandlersTyped' /\ StagesOrdered'
    BY <2>1 DEF HandlersTyped, Carries, Handling, IoTypeOK, connVars,
                StagesOrdered, streamVars, peerVars
  <2> QED  BY <2>1, <2>2, <2>3, TypeFrame
<1>13. ASSUME NEW t \in IoThreads, ReplyFails(t)
       PROVE  TypeInv'
  <2>1. /\ UNCHANGED <<connVars, tableVars, queueVars, peerVars, nread, ndec,
                       outp, msgs, whand, fdOwner>>
        /\ wbuf' = [wbuf EXCEPT ![ioc[t]] = @ \o Units(iom[t])]
        /\ Goto(t, "close", ioc[t], iom[t], "destroy")
        /\ iopc[t] = "reply"
    BY <1>13 DEF ReplyFails
  <2>2. ioc[t] \in Conns /\ iom[t] \in Messages
    BY <2>1 DEF HandlersTyped, Carries
  <2>3. wbuf[ioc[t]] \o Units(iom[t]) \in Seq(Unit)
    BY <2>2, UnitsType, ConcatProperties DEF StreamTypeOK
  <2>4. StreamTypeOK' /\ StagesOrdered'
    BY <2>1, <2>2, <2>3 DEF StreamTypeOK, StagesOrdered, peerVars
  <2>5. IoTypeOK'
    BY <2>1, <2>2 DEF IoTypeOK, Goto, Labels
  <2>6. HandlersTyped'
    BY <2>1, <2>2 DEF HandlersTyped, Carries, Handling, Goto, IoTypeOK, connVars
  <2> QED  BY <2>1, <2>4, <2>5, <2>6, TypeFrame
<1>14. ASSUME NEW t \in IoThreads, DestroyMessage(t)
       PROVE  TypeInv'
  <2>1. /\ UNCHANGED <<streamVars, tableVars, queueVars, peerVars, mem, status,
                       io_thread, fd, rio, wio, ndisc, whand, fdOwner>>
        /\ xv_message_destroy(iom[t])
        /\ Goto(t, "poll", NULL, NULL, "poll")
        /\ iopc[t] = "destroy"
    BY <1>14 DEF DestroyMessage, BackToPoll
  <2>2. iom[t].conn \in Conns
    BY <2>1 DEF HandlersTyped, Carries, Messages
  <2>3. ConnTypeOK'
    BY <2>1, <2>2 DEF ConnTypeOK, xv_message_destroy, xv_connection_decr_ref
  <2>4. IoTypeOK'
    BY <2>1 DEF IoTypeOK, Goto, Labels
  <2>5. HandlersTyped' /\ StagesOrdered'
    BY <2>1 DEF HandlersTyped, Carries, Goto, IoTypeOK, StagesOrdered,
                streamVars, peerVars
  <2>6. MessageTypeOK'
    BY <2>1 DEF MessageTypeOK, xv_message_destroy
  <2> QED  BY <2>1, <2>3, <2>4, <2>5, <2>6, TypeFrame
<1>15. ASSUME NEW t \in IoThreads, NEW c \in Conns, NEW n, WriteEvent(t, c, n)
       PROVE  TypeInv'
  <2>1. /\ UNCHANGED <<tableVars, queueVars, ioVars, peerVars, mem, status, ref,
                       io_thread, fd, rio, ndisc, nread, ndec, msgs, whand,
                       fdOwner>>
        /\ n \in 0..Len(wbuf[c])
        /\ WriteOut(c, wbuf[c], n)
        /\ wio' = [wio EXCEPT ![c] = n # Len(wbuf[c])]
    BY <1>15 DEF WriteEvent
  <2>2. StreamTypeOK'
    BY <2>1, WriteOutType DEF StreamTypeOK
  <2>3. ConnTypeOK'
    BY <2>1 DEF ConnTypeOK
  <2>4. HandlersTyped' /\ StagesOrdered'
    BY <2>1 DEF HandlersTyped, Carries, ioVars, StagesOrdered, peerVars
  <2> QED  BY <2>1, <2>2, <2>3, <2>4, TypeFrame
<1>16. ASSUME NEW t \in IoThreads, NEW c \in Conns, WriteEventFails(t, c)
       PROVE  TypeInv'
  <2>1. /\ UNCHANGED <<connVars, streamVars, tableVars, queueVars, peerVars,
                       msgs, whand, fdOwner>>
        /\ Goto(t, "close", c, NULL, "poll")
    BY <1>16 DEF WriteEventFails
  <2>2. IoTypeOK'
    BY <2>1 DEF IoTypeOK, Goto, Labels
  <2>3. HandlersTyped' /\ StagesOrdered'
    BY <2>1 DEF HandlersTyped, Carries, Goto, IoTypeOK, connVars, StagesOrdered,
                streamVars, peerVars
  <2> QED  BY <2>1, <2>2, <2>3, TypeFrame
<1>17. ASSUME NEW t \in IoThreads, CloseMark(t)
       PROVE  TypeInv'
  <2>1. /\ UNCHANGED <<streamVars, tableVars, queueVars, peerVars, ioc, iom,
                       ioret, msgs, whand, fdOwner, fd>>
        /\ iopc[t] = "close"
        /\ iopc' = [iopc EXCEPT ![t] = "checkref"]
    BY <1>17 DEF CloseMark
  <2>2. ConnTypeOK'
    <3>1. ioc[t] \in Conns /\ UNCHANGED <<mem, ref, io_thread, fd>>
      BY <1>17 DEF CloseMark, HandlersTyped
    <3>2. CASE UNCHANGED <<status, ndisc, rio, wio>>
      BY <3>1, <3>2 DEF ConnTypeOK
    <3>3. CASE /\ status' = [status EXCEPT ![ioc[t]] = "CLOSED"]
               /\ ndisc' = [ndisc EXCEPT ![ioc[t]] = @ + 1]
               /\ xv_connection_stop(ioc[t])
      BY <3>1, <3>3 DEF ConnTypeOK, xv_connection_stop
    <3> QED  BY <1>17, <3>2, <3>3 DEF CloseMark
  <2>3. IoTypeOK'
    BY <2>1 DEF IoTypeOK, Labels
  <2>4. HandlersTyped' /\ StagesOrdered'
    BY <2>1 DEF HandlersTyped, Carries, Handling, IoTypeOK, StagesOrdered,
                streamVars, peerVars
  <2> QED  BY <2>1, <2>2, <2>3, <2>4, TypeFrame
<1>18. ASSUME NEW t \in IoThreads, DelConnection(t)
       PROVE  TypeInv'
  <2>1. /\ UNCHANGED <<connVars, streamVars, queueVars, peerVars, ioc, iom,
                       ioret, msgs, whand, fdOwner, new_table, conn_setsize>>
        /\ iopc[t] = "del"
        /\ iopc' = [iopc EXCEPT ![t] = "closefd"]
    BY <1>18, ReleaseLabels DEF DelConnection
  <2>2. TableTypeOK' /\ TableAllocated'
    <3>1. CASE UNCHANGED <<table, conn_count>>
      BY <2>1, <3>1 DEF TableTypeOK, TableAllocated
    <3>2. CASE /\ table' = [table EXCEPT ![fd[ioc[t]]] = NULL]
               /\ conn_count' = conn_count - 1
      <4>1. /\ table' \in [DOMAIN table -> Conns \cup {NULL, Garbage}]
            /\ DOMAIN table' = DOMAIN table
        BY <3>2 DEF TableTypeOK
      <4> QED  BY <2>1, <3>2, <4>1 DEF TableTypeOK, TableAllocated
    <3> QED  BY <1>18, <3>1, <3>2 DEF DelConnection
  <2>3. IoTypeOK'
    BY <2>1 DEF IoTypeOK, Labels
  <2>4. HandlersTyped' /\ StagesOrdered'
    BY <2>1 DEF HandlersTyped, Carries, Handling, IoTypeOK, connVars,
                StagesOrdered, streamVars, peerVars
  <2> QED  BY <2>1, <2>2, <2>3, <2>4, TypeFrame
<1>19. ASSUME NEW t \in IoThreads, CloseFd(t)
       PROVE  TypeInv'
  <2>1. /\ UNCHANGED <<connVars, streamVars, tableVars, queueVars, ioc, iom,
                       ioret, msgs, whand, backlog, nsent>>
        /\ iopc[t] = "closefd"
        /\ iopc' = [iopc EXCEPT ![t] = "free"]
        /\ fdOwner' = [fdOwner EXCEPT ![fd[ioc[t]]] = NULL]
        /\ peer' = [peer EXCEPT ![ioc[t]] = "gone"]
    BY <1>19, ReleaseLabels DEF CloseFd, xv_close
  <2>2. PeerTypeOK' /\ (fdOwner \in [Fds -> Conns \cup {NULL}])'
    BY <2>1 DEF PeerTypeOK
  <2>3. IoTypeOK'
    BY <2>1 DEF IoTypeOK, Labels
  <2>4. HandlersTyped' /\ StagesOrdered'
    BY <2>1 DEF HandlersTyped, Carries, Handling, IoTypeOK, connVars,
                StagesOrdered, streamVars
  <2> QED  BY <2>1, <2>2, <2>3, <2>4, TypeFrame
<1>20. ASSUME NEW t \in IoThreads, FreeConnection(t)
       PROVE  TypeInv'
  <2>1. /\ UNCHANGED <<streamVars, tableVars, queueVars, peerVars, status, ref,
                       io_thread, fd, rio, wio, ndisc, ioc, iom, ioret, msgs,
                       whand, fdOwner>>
        /\ iopc[t] = "free"
        /\ iopc' = [iopc EXCEPT ![t] = ioret[t]]
        /\ mem' = [mem EXCEPT ![ioc[t]] = "freed"]
    BY <1>20, ReleaseLabels DEF FreeConnection, xv_connection_destroy
  <2>2. ConnTypeOK'
    BY <2>1 DEF ConnTypeOK
  <2>3. IoTypeOK'
    BY <2>1 DEF IoTypeOK, Labels
  <2>4. HandlersTyped' /\ StagesOrdered'
    BY <2>1 DEF HandlersTyped, Carries, Handling, IoTypeOK, StagesOrdered,
                streamVars, peerVars
  <2> QED  BY <2>1, <2>2, <2>3, <2>4, TypeFrame
<1>21. ASSUME NEW w \in Workers, TakeTask(w)
       PROVE  TypeInv'
  <2>1. /\ UNCHANGED <<connVars, streamVars, tableVars, ioVars, peerVars, msgs,
                       conn_queue, message_queue, fdOwner>>
        /\ task_queue[w] # << >>
        /\ whand' = [whand EXCEPT ![w] = Head(task_queue[w])]
        /\ task_queue' = [task_queue EXCEPT ![w] = Tail(@)]
    BY <1>21 DEF TakeTask
  <2>2. task_queue[w] \in Seq(Messages)
    BY DEF QueueTypeOK
  <2>3. Head(task_queue[w]) \in Messages /\ Tail(task_queue[w]) \in Seq(Messages)
    BY <2>1, <2>2, HeadTailProperties
  <2>4. QueueTypeOK' /\ MessageTypeOK'
    BY <2>1, <2>3 DEF QueueTypeOK, MessageTypeOK
  <2>5. HandlersTyped' /\ StagesOrdered'
    BY <2>1 DEF HandlersTyped, Carries, ioVars, connVars, StagesOrdered,
                streamVars, peerVars
  <2> QED  BY <2>1, <2>4, <2>5, TypeFrame
<1>22. ASSUME NEW w \in Workers, FinishTask(w)
       PROVE  TypeInv'
  <2> DEFINE m == whand[w]
  <2>1. /\ UNCHANGED <<connVars, streamVars, tableVars, ioVars, peerVars, msgs,
                       conn_queue, task_queue, fdOwner>>
        /\ m # NULL
        /\ message_queue' = [message_queue EXCEPT
                ![io_thread[m.conn]] = Append(@, m)]
        /\ whand' = [whand EXCEPT ![w] = NULL]
    BY <1>22 DEF FinishTask
  <2>2. m \in Messages
    BY <2>1 DEF MessageTypeOK
  <2>3. QueueTypeOK'
    <3>1. message_queue \in [IoThreads -> Seq(Messages)]
      BY DEF QueueTypeOK
    <3>2. [message_queue EXCEPT ![io_thread[m.conn]] = Append(@, m)]
            \in [IoThreads -> Seq(Messages)]
      BY <2>2, <3>1, AppendAt, Zenon
    <3> QED  BY <2>1, <3>2 DEF QueueTypeOK
  <2>4. MessageTypeOK'
    BY <2>1 DEF MessageTypeOK
  <2>5. HandlersTyped' /\ StagesOrdered'
    BY <2>1 DEF HandlersTyped, Carries, ioVars, connVars, StagesOrdered,
                streamVars, peerVars
  <2> QED  BY <2>1, <2>3, <2>4, <2>5, TypeFrame
<1>23. CASE UNCHANGED vars
  <2>1. UNCHANGED <<connVars, streamVars, tableVars, queueVars, ioVars,
                    peerVars, msgs, whand, fdOwner>>
    BY <1>23 DEF vars
  <2>2. HandlersTyped' /\ StagesOrdered'
    BY <2>1 DEF HandlersTyped, Carries, ioVars, connVars, StagesOrdered,
                streamVars, peerVars
  <2> QED  BY <2>1, <2>2, TypeFrame
<1> QED
  BY <1>1, <1>2, <1>3, <1>4, <1>5, <1>6, <1>7, <1>8, <1>9, <1>10, <1>11, <1>12,
     <1>13, <1>14, <1>15, <1>16, <1>17, <1>18, <1>19, <1>20, <1>21, <1>22, <1>23
  DEF Next, PeerStep, IoStep, ListenEvent, QueueEvent, SocketEvent, HandlerStep,
      Close, WorkerStep
-----------------------------------------------------------------------------
(* What an Append and a Tail do to a queue without repetitions. *)
LEMMA QueuedAppend ==
    ASSUME NEW S, NEW s \in Seq(S), NEW x \in S
    PROVE  /\ \A y : Queued(Append(s, x), y) <=> Queued(s, y) \/ y = x
           /\ NoRepeat(s) /\ ~Queued(s, x) => NoRepeat(Append(s, x))
<1>1. /\ Len(s) \in Nat
      /\ Len(Append(s, x)) = Len(s) + 1
      /\ \A i \in 1..Len(s) : Append(s, x)[i] = s[i]
      /\ Append(s, x)[Len(s) + 1] = x
  BY AppendProperties, LenProperties
<1>2. \A i \in 1..(Len(s) + 1) : i \in 1..Len(s) \/ i = Len(s) + 1
  BY <1>1
<1>3. \A i \in 1..Len(s) : i \in 1..(Len(s) + 1)
  BY <1>1
<1>4. Len(s) + 1 \in 1..(Len(s) + 1)
  BY <1>1
<1> QED  BY <1>1, <1>2, <1>3, <1>4 DEF Queued, NoRepeat

LEMMA QueuedTail ==
    ASSUME NEW S, NEW s \in Seq(S), s # << >>
    PROVE  /\ Queued(s, Head(s))
           /\ \A y : Queued(Tail(s), y) => Queued(s, y)
           /\ NoRepeat(s) => NoRepeat(Tail(s)) /\ ~Queued(Tail(s), Head(s))
<1>1. /\ Len(s) \in Nat \ {0}
      /\ Len(Tail(s)) = Len(s) - 1
      /\ \A i \in 1..Len(Tail(s)) : Tail(s)[i] = s[i + 1]
      /\ Head(s) = s[1]
  BY HeadTailProperties, EmptySeq
<1>2. \A i \in 1..Len(Tail(s)) : i + 1 \in 1..Len(s) /\ i + 1 # 1 /\ i \in Int
  BY <1>1
<1>3. 1 \in 1..Len(s)
  BY <1>1
<1> QED  BY <1>1, <1>2, <1>3 DEF Queued, NoRepeat

(***************************************************************************)
(* A connection is accepted once and taken by one IO thread once.          *)
(***************************************************************************)
LEMMA NextOneWay == TypeInv /\ OneWay /\ OwnerHandles /\ [Next]_vars => OneWay'
<1> SUFFICES ASSUME TypeInv, OneWay, OwnerHandles, [Next]_vars
             PROVE  OneWay'
  OBVIOUS
<1> USE ServiceConstants DEF TypeInv, TypeOK
<1>0. ASSUME /\ UNCHANGED <<backlog, conn_queue, io_thread>>
             /\ \A c \in Conns : mem'[c] = "none" <=> mem[c] = "none"
             /\ \A c \in Conns : peer'[c] = "idle" <=> peer[c] = "idle"
             /\ \A t \in IoThreads : Adding(t)' => Adding(t) /\ ioc'[t] = ioc[t]
      PROVE  OneWay'
  <2>1. \A t \in IoThreads : Adding(t) => ioc[t] \in Conns
    BY DEF Adding, HandlersTyped
  <2>2. backlog \subseteq Conns
    BY DEF PeerTypeOK
  <2> QED  BY <1>0, <2>1, <2>2 DEF OneWay
<1>1. ASSUME NEW c \in Conns, Connect(c)
      PROVE  OneWay'
  BY <1>1 DEF Connect, OneWay, Adding, PeerTypeOK, connVars, queueVars, ioVars
<1>2. ASSUME NEW c \in Conns, PeerSend(c) \/ PeerClose(c)
      PROVE  OneWay'
  <2>1. /\ UNCHANGED <<connVars, queueVars, ioVars, backlog>>
        /\ \A d \in Conns : peer'[d] = "idle" <=> peer[d] = "idle"
    BY <1>2 DEF PeerSend, PeerClose, PeerTypeOK
  <2> QED  BY <1>0, <2>1 DEF connVars, queueVars, ioVars, Adding
<1>3. ASSUME NEW t \in IoThreads, NEW c \in Conns, AcceptFails(t, c)
      PROVE  OneWay'
  BY <1>3 DEF AcceptFails, OneWay, Adding, PeerTypeOK, connVars, queueVars, ioVars
<1>4. ASSUME NEW t \in IoThreads, NEW c \in Conns, Accept(t, c)
      PROVE  OneWay'
  <2>1. /\ UNCHANGED <<queueVars, io_thread, peer>>
        /\ backlog' = backlog \ {c}
        /\ mem' = [mem EXCEPT ![c] = "live"]
        /\ ioc' = [ioc EXCEPT ![t] = c]
        /\ \/ iopc' = [iopc EXCEPT ![t] = "grow"]
           \/ iopc' = [iopc EXCEPT ![t] = "accepted"]
        /\ t = 0 /\ c \in backlog
    BY <1>4 DEF Accept, xv_connection_init, Goto
  <2>2. /\ mem[c] = "none" /\ io_thread[c] = NULL /\ peer[c] # "idle"
        /\ \A u \in IoThreads : ~Queued(conn_queue[u], c)
    BY <2>1 DEF OneWay
  <2>3. \A d \in Conns : mem[d] # "none" => mem'[d] # "none"
    BY <2>1 DEF ConnTypeOK
  <2>4. mem'[c] # "none"
    BY <2>1 DEF ConnTypeOK
  <2>5. \A d \in backlog' : mem'[d] = "none" /\ peer'[d] # "idle"
    BY <2>1 DEF OneWay, PeerTypeOK, ConnTypeOK
  <2>6. \A d \in Conns : peer'[d] = "idle" => mem'[d] = "none"
    BY <2>1, <2>2 DEF OneWay, ConnTypeOK
  <2>7. \A u \in IoThreads : Adding(u)' => u = t /\ ioc'[u] = c
    BY <2>1 DEF OneWay, Adding, IoTypeOK
  <2> QED  BY <2>1, <2>2, <2>3, <2>4, <2>5, <2>6, <2>7 DEF OneWay, queueVars
<1>5. ASSUME NEW t \in IoThreads, Distribute(t)
      PROVE  OneWay'
  <2> DEFINE c == ioc[t]
  <2>1. /\ UNCHANGED <<mem, backlog, peer>>
        /\ iopc' = [iopc EXCEPT ![t] = "poll"]
        /\ ioc' = [ioc EXCEPT ![t] = NULL]
        /\ iopc[t] = "accepted"
    BY <1>5 DEF Distribute, BackToPoll, Goto, peerVars
  <2>2. /\ c \in Conns /\ t = 0 /\ mem[c] # "none" /\ io_thread[c] = NULL
        /\ \A u \in IoThreads : ~Queued(conn_queue[u], c)
    BY <2>1 DEF HandlersTyped, OneWay, Adding
  <2>3. \A u \in IoThreads : ~ Adding(u)'
    BY <2>1, <2>2 DEF OneWay, Adding, IoTypeOK
  <2>4. CASE conn_queue' = conn_queue /\ io_thread' = [io_thread EXCEPT ![c] = t]
    BY <2>1, <2>2, <2>3, <2>4 DEF OneWay, ConnTypeOK
  <2>5. CASE /\ conn_queue' = [conn_queue EXCEPT ![FollowerOf(c)] = Append(@, c)]
             /\ io_thread' = io_thread
    <3> DEFINE f == FollowerOf(c)
    <3> HIDE DEF f
    <3>1. \A u \in IoThreads :
            /\ u # f => conn_queue'[u] = conn_queue[u]
            /\ u = f => conn_queue'[u] = Append(conn_queue[u], c)
      BY <2>5 DEF QueueTypeOK, f
    <3>2. \A u \in IoThreads : conn_queue[u] \in Seq(Conns)
      BY DEF QueueTypeOK
    <3>a. ASSUME NEW u \in IoThreads
          PROVE  /\ \A y : Queued(Append(conn_queue[u], c), y) <=>
                              Queued(conn_queue[u], y) \/ y = c
                 /\ NoRepeat(conn_queue[u]) /\ ~Queued(conn_queue[u], c)
                        => NoRepeat(Append(conn_queue[u], c))
      BY <2>2, <3>2, QueuedAppend
    <3>3. ASSUME NEW u \in IoThreads
          PROVE  NoRepeat(conn_queue'[u])
      <4>1. NoRepeat(conn_queue[u]) /\ ~Queued(conn_queue[u], c)
        BY <2>2 DEF OneWay
      <4>2. NoRepeat(Append(conn_queue[u], c))
        BY <3>a, <4>1
      <4> QED  BY <3>1, <4>1, <4>2
    <3>4. \A u \in IoThreads : \A d \in Conns :
            Queued(conn_queue'[u], d) <=>
                Queued(conn_queue[u], d) \/ (u = f /\ d = c)
      BY <3>1, <3>a
    <3> QED  BY <2>1, <2>2, <2>3, <2>5, <3>3, <3>4 DEF OneWay
  <2> QED  BY <1>5, <2>4, <2>5 DEF Distribute
<1>6. ASSUME NEW t \in IoThreads, AddConn(t)
      PROVE  OneWay'
  <2> DEFINE s == conn_queue[t]
             c == Head(s)
  <2>1. /\ UNCHANGED <<mem, backlog, peer, iopc, ioc>>
        /\ io_thread' = [io_thread EXCEPT ![c] = t]
        /\ conn_queue' = [conn_queue EXCEPT ![t] = Tail(s)]
        /\ s \in Seq(Conns) /\ s # << >>
    BY <1>6 DEF AddConn, QueueTypeOK, peerVars, ioVars
  <2>2. /\ c \in Conns /\ Queued(s, c) /\ NoRepeat(s)
        /\ NoRepeat(Tail(s)) /\ ~Queued(Tail(s), c)
        /\ \A y : Queued(Tail(s), y) => Queued(s, y)
    BY <2>1, QueuedTail, HeadTailProperties DEF OneWay
  <2> HIDE DEF c
  <2>3. \A u \in IoThreads :
          /\ u # t => conn_queue'[u] = conn_queue[u]
          /\ u = t => conn_queue'[u] = Tail(s)
    BY <2>1 DEF QueueTypeOK
  <2>4. \A u \in IoThreads : NoRepeat(conn_queue'[u])
    BY <2>2, <2>3 DEF OneWay
  <2>5. \A u \in IoThreads : \A d \in Conns :
          Queued(conn_queue'[u], d) => Queued(conn_queue[u], d) /\ d # c
    BY <2>2, <2>3 DEF OneWay
  <2>6. mem[c] # "none" /\ \A u \in IoThreads : Adding(u) => ioc[u] # c
    BY <2>2 DEF OneWay
  <2>7. \A u \in IoThreads : (Adding(u)' <=> Adding(u)) /\ (Adding(u) => ioc[u] \in Conns)
    BY <2>1 DEF Adding, HandlersTyped
  <2> QED  BY <2>1, <2>2, <2>4, <2>5, <2>6, <2>7 DEF OneWay, ConnTypeOK
<1>7. ASSUME NEW t \in IoThreads,
             \/ Grow(t) \/ GrowDone(t)
             \/ ReturnMessage(t)
             \/ \E n : Reply(t, n)
             \/ NoReply(t) \/ ReplyFails(t) \/ DestroyMessage(t)
             \/ CloseMark(t) \/ CheckRef(t) \/ DelConnection(t)
      PROVE  OneWay'
  <2>1. UNCHANGED <<backlog, conn_queue, io_thread, mem, peer>>
    BY <1>7 DEF Grow, GrowDone, ReturnMessage, Reply, NoReply, ReplyFails,
                DestroyMessage, CloseMark, CheckRef, DelConnection, connVars,
                peerVars, queueVars
  <2>2. \A u \in IoThreads : Adding(u)' => Adding(u) /\ ioc'[u] = ioc[u]
    BY <1>7, ReleaseLabels
       DEF Grow, GrowDone, ReturnMessage, Reply, NoReply, ReplyFails,
           DestroyMessage, CloseMark, CheckRef, DelConnection, Goto,
           BackToPoll, ioVars, Adding, IoTypeOK
  <2> QED  BY <1>0, <2>1, <2>2
<1>8. ASSUME NEW t \in IoThreads, NEW c \in Conns, NEW n,
             \/ ReadRequest(t, c, n) \/ ReadAndClose(t, c, n)
             \/ WriteEvent(t, c, n) \/ WriteEventFails(t, c)
      PROVE  OneWay'
  <2>1. UNCHANGED <<backlog, conn_queue, io_thread, mem, peer>>
    BY <1>8 DEF ReadRequest, ReadAndClose, WriteEvent, WriteEventFails,
                connVars, peerVars, queueVars
  <2>2. \A u \in IoThreads : Adding(u)' => Adding(u) /\ ioc'[u] = ioc[u]
    BY <1>8 DEF ReadRequest, ReadAndClose, WriteEvent, WriteEventFails, Goto,
                ioVars, Adding, IoTypeOK
  <2> QED  BY <1>0, <2>1, <2>2
<1>9. ASSUME NEW t \in IoThreads, DropMessage(t)
      PROVE  OneWay'
  <2> DEFINE m == Head(message_queue[t])
  <2>1. /\ UNCHANGED <<backlog, conn_queue, io_thread, peer, iopc, ioc>>
        /\ mem' = [mem EXCEPT ![m.conn] = "freed"]
        /\ message_queue[t] \in Seq(Messages) /\ message_queue[t] # << >>
    BY <1>9 DEF DropMessage, xv_connection_destroy, peerVars, ioVars, QueueTypeOK
  <2>2. m \in Messages /\ Queued(message_queue[t], m)
    BY <2>1, QueuedTail, HeadTailProperties
  <2>3. mem[m.conn] # "none"
    BY <2>2 DEF OwnerHandles, OneWay, Messages, IoThreads
  <2> QED  BY <1>0, <2>1, <2>3 DEF ConnTypeOK, Adding
<1>10. ASSUME NEW t \in IoThreads, FreeConnection(t)
       PROVE  OneWay'
  <2>1. /\ UNCHANGED <<backlog, conn_queue, io_thread, peer, ioc>>
        /\ mem' = [mem EXCEPT ![ioc[t]] = "freed"]
        /\ iopc' = [iopc EXCEPT ![t] = ioret[t]]
        /\ iopc[t] = "free"
    BY <1>10, ReleaseLabels DEF FreeConnection, xv_connection_destroy, peerVars,
                                queueVars
  <2>2. ioc[t] \in Conns /\ mem[ioc[t]] # "none"
    BY <2>1 DEF HandlersTyped, OwnerHandles, HandlesOwn, Handling, OneWay
  <2>3. \A u \in IoThreads : Adding(u)' => Adding(u)
    BY <2>1 DEF Adding, IoTypeOK
  <2> QED  BY <1>0, <2>1, <2>2, <2>3 DEF ConnTypeOK
<1>11. ASSUME NEW t \in IoThreads, CloseFd(t)
       PROVE  OneWay'
  <2>1. /\ UNCHANGED <<backlog, conn_queue, io_thread, mem, ioc>>
        /\ peer' = [peer EXCEPT ![ioc[t]] = "gone"]
        /\ iopc' = [iopc EXCEPT ![t] = "free"]
        /\ iopc[t] = "closefd"
    BY <1>11, ReleaseLabels DEF CloseFd, connVars, queueVars
  <2>2. peer[ioc[t]] # "idle" /\ ioc[t] \in Conns
    BY <2>1 DEF HandlersTyped, OwnerHandles, HandlesOwn, Handling, OneWay
  <2>3. \A u \in IoThreads : Adding(u)' => Adding(u)
    BY <2>1 DEF Adding, IoTypeOK
  <2> QED  BY <1>0, <2>1, <2>2, <2>3 DEF PeerTypeOK
<1>12. ASSUME NEW w \in Workers, TakeTask(w) \/ FinishTask(w)
       PROVE  OneWay'
  BY <1>0, <1>12 DEF TakeTask, FinishTask, connVars, peerVars, ioVars, Adding
<1>13. CASE UNCHANGED vars
  BY <1>0, <1>13 DEF vars, connVars, peerVars, ioVars, queueVars, Adding
<1> QED
  BY <1>1, <1>2, <1>3, <1>4, <1>5, <1>6, <1>7, <1>8, <1>9, <1>10, <1>11, <1>12,
     <1>13
  DEF Next, PeerStep, IoStep, ListenEvent, QueueEvent, SocketEvent, HandlerStep,
      Close, WorkerStep

(***************************************************************************)
(* Only the owner of a connection handles it, so that the status a handler *)
(* has seen is not changed under its hands by another thread.              *)
(***************************************************************************)
LEMMA NextOwner ==
    TypeInv /\ OneWay /\ OwnerHandles /\ [Next]_vars => OwnerHandles'
<1> SUFFICES ASSUME TypeInv, OneWay, OwnerHandles, [Next]_vars
             PROVE  OwnerHandles'
  OBVIOUS
<1> USE ServiceConstants DEF TypeInv, TypeOK
<1>a. \A t \in IoThreads : t # NULL
  BY DEF IoThreads
<1>b. ASSUME NEW u \in IoThreads,
             UNCHANGED <<iopc[u], ioc[u], iom[u], ioret[u]>>,
             iopc[u] \in Handling => UNCHANGED <<status[ioc[u]], io_thread[ioc[u]]>>
      PROVE  HandlesOwn(u)'
  <2>1. HandlesOwn(u)
    BY DEF OwnerHandles
  <2>2. Carries(u)' <=> Carries(u)
    BY <1>b DEF Carries
  <2> QED  BY <1>b, <2>1, <2>2 DEF HandlesOwn, Handling
<1>c. ASSUME NEW t \in IoThreads,
             UNCHANGED <<status, io_thread, rio, wio>>,
             HandlesOwn(t)',
             \A u \in IoThreads : u # t =>
                UNCHANGED <<iopc[u], ioc[u], iom[u], ioret[u]>>,
             \A u \in IoThreads : \A m \in Messages :
                Queued(message_queue'[u], m) => Queued(message_queue[u], m)
      PROVE  OwnerHandles'
  <2>1. \A u \in IoThreads : HandlesOwn(u)'
    BY <1>b, <1>c
  <2> QED  BY <1>c, <2>1 DEF OwnerHandles
<1>1. ASSUME UNCHANGED <<status, io_thread, rio, wio, message_queue, ioVars>>
      PROVE  OwnerHandles'
  <2>1. \A u \in IoThreads : HandlesOwn(u)'
    BY <1>1, <1>b DEF ioVars
  <2> QED  BY <1>1, <2>1 DEF OwnerHandles
<1>2. ASSUME NEW c \in Conns,
             \/ Connect(c) \/ PeerSend(c) \/ PeerClose(c)
             \/ \E t \in IoThreads : AcceptFails(t, c)
      PROVE  OwnerHandles'
  BY <1>1, <1>2 DEF Connect, PeerSend, PeerClose, AcceptFails, connVars, queueVars
<1>3. ASSUME NEW t \in IoThreads, NEW c \in Conns, Accept(t, c)
      PROVE  OwnerHandles'
  <2>1. /\ UNCHANGED <<status, io_thread, rio, wio, message_queue>>
        /\ \/ Goto(t, "grow", c, NULL, "poll")
           \/ Goto(t, "accepted", c, NULL, "poll")
    BY <1>3 DEF Accept, queueVars
  <2>2. HandlesOwn(t)'
    BY <2>1 DEF Goto, HandlesOwn, Carries, Handling, IoTypeOK
  <2> QED  BY <1>c, <2>1, <2>2 DEF Goto, IoTypeOK
<1>4. ASSUME NEW t \in IoThreads, Grow(t)
      PROVE  OwnerHandles'
  BY <1>1, <1>4 DEF Grow, connVars, queueVars
<1>5. ASSUME NEW t \in IoThreads, GrowDone(t)
      PROVE  OwnerHandles'
  <2>1. /\ UNCHANGED <<status, io_thread, rio, wio, message_queue>>
        /\ Goto(t, "accepted", ioc[t], NULL, "poll")
    BY <1>5 DEF GrowDone, connVars, queueVars
  <2>2. HandlesOwn(t)'
    BY <2>1 DEF Goto, HandlesOwn, Carries, Handling, IoTypeOK
  <2> QED  BY <1>c, <2>1, <2>2 DEF Goto, IoTypeOK
<1>6. ASSUME NEW t \in IoThreads, Distribute(t)
      PROVE  OwnerHandles'
  <2>1. /\ UNCHANGED <<status, wio, message_queue>>
        /\ Goto(t, "poll", NULL, NULL, "poll")
        /\ \/ UNCHANGED <<io_thread, rio>>
           \/ /\ io_thread' = [io_thread EXCEPT ![ioc[t]] = t]
              /\ rio' = [rio EXCEPT ![ioc[t]] = TRUE]
        /\ iopc[t] = "accepted"
    BY <1>6 DEF Distribute, BackToPoll
  <2>2. HandlesOwn(t)'
    BY <2>1 DEF Goto, HandlesOwn, Carries, Handling, IoTypeOK
  <2>3. CASE UNCHANGED <<io_thread, rio>>
    BY <1>c, <2>1, <2>2, <2>3 DEF Goto, IoTypeOK
  <2>4. CASE /\ io_thread' = [io_thread EXCEPT ![ioc[t]] = t]
             /\ rio' = [rio EXCEPT ![ioc[t]] = TRUE]
    <3>1. io_thread[ioc[t]] = NULL /\ ioc[t] \in Conns /\ status[ioc[t]] = "OPEN"
      BY <2>1 DEF OneWay, Adding, HandlersTyped, OwnerHandles, ConnTypeOK
    <3>2. ASSUME NEW u \in IoThreads, u # t
          PROVE  HandlesOwn(u)'
      <4>1. UNCHANGED <<iopc[u], ioc[u], iom[u], ioret[u]>>
        BY <2>1, <3>2 DEF Goto, IoTypeOK
      <4>2. iopc[u] \in Handling => ioc[u] # ioc[t]
        BY <1>a, <3>1 DEF OwnerHandles, HandlesOwn
      <4> QED  BY <1>b, <2>1, <2>4, <4>1, <4>2 DEF ConnTypeOK
    <3>3. \A u \in IoThreads : HandlesOwn(u)'
      BY <2>2, <3>2
    <3>4. ASSUME NEW u \in IoThreads, NEW m \in Messages, Queued(message_queue[u], m)
          PROVE  io_thread'[m.conn] = u
      <4>1. io_thread[m.conn] = u /\ m.conn \in Conns
        BY <3>4 DEF OwnerHandles, Messages
      <4> QED  BY <1>a, <2>4, <3>1, <4>1 DEF ConnTypeOK
    <3>5. \A d \in Conns : io_thread[d] # NULL => io_thread'[d] # NULL
      BY <2>4, <3>1 DEF ConnTypeOK
    <3>6. \A d \in Conns : rio'[d] => rio[d] \/ d = ioc[t]
      BY <2>4 DEF ConnTypeOK
    <3>7. io_thread'[ioc[t]] # NULL
      BY <1>a, <2>4, <3>1 DEF ConnTypeOK
    <3> QED  BY <2>1, <3>1, <3>3, <3>4, <3>5, <3>6, <3>7 DEF OwnerHandles
  <2> QED  BY <2>1, <2>3, <2>4
<1>7. ASSUME NEW t \in IoThreads, AddConn(t)
      PROVE  OwnerHandles'
  <2> DEFINE c == Head(conn_queue[t])
  <2>1. /\ UNCHANGED <<status, wio, message_queue, ioVars>>
        /\ io_thread' = [io_thread EXCEPT ![c] = t]
        /\ rio' = [rio EXCEPT ![c] = TRUE]
        /\ conn_queue[t] \in Seq(Conns) /\ conn_queue[t] # << >>
    BY <1>7 DEF AddConn, QueueTypeOK
  <2>2. c \in Conns /\ Queued(conn_queue[t], c)
    BY <2>1, QueuedTail, HeadTailProperties
  <2> HIDE DEF c
  <2>3. io_thread[c] = NULL /\ status[c] = "OPEN"
    BY <2>2 DEF OneWay, OwnerHandles, ConnTypeOK
  <2>4. ASSUME NEW u \in IoThreads
        PROVE  HandlesOwn(u)'
    <3>1. UNCHANGED <<iopc[u], ioc[u], iom[u], ioret[u]>>
      BY <2>1 DEF ioVars
    <3>2. iopc[u] \in Handling => ioc[u] # c
      BY <1>a, <2>3 DEF OwnerHandles, HandlesOwn
    <3>3. iopc[u] \in Handling => ioc[u] \in Conns
      BY DEF HandlersTyped, Handling
    <3>4. iopc[u] \in Handling => UNCHANGED <<status[ioc[u]], io_thread[ioc[u]]>>
      BY <2>1, <3>1, <3>2, <3>3 DEF ConnTypeOK
    <3> QED  BY <1>b, <3>1, <3>4
  <2>5. ASSUME NEW u \in IoThreads, NEW m \in Messages, Queued(message_queue[u], m)
        PROVE  io_thread'[m.conn] = u
    <3>1. io_thread[m.conn] = u /\ m.conn \in Conns
      BY <2>5 DEF OwnerHandles, Messages
    <3> QED  BY <1>a, <2>1, <2>3, <3>1 DEF ConnTypeOK
  <2>6. \A d \in Conns : io_thread[d] # NULL => io_thread'[d] # NULL
    BY <2>1, <2>3 DEF ConnTypeOK
  <2>7. \A d \in Conns : rio'[d] => rio[d] \/ d = c
    BY <2>1 DEF ConnTypeOK
  <2>8. io_thread'[c] # NULL
    BY <1>a, <2>1, <2>2 DEF ConnTypeOK
  <2> QED  BY <2>1, <2>3, <2>4, <2>5, <2>6, <2>7, <2>8 DEF OwnerHandles
<1>8. ASSUME NEW t \in IoThreads, NEW c \in Conns, NEW n,
             \/ ReadRequest(t, c, n) \/ ReadAndClose(t, c, n)
             \/ WriteEventFails(t, c)
      PROVE  OwnerHandles'
  <2>1. /\ UNCHANGED <<status, io_thread, rio, wio, message_queue>>
        /\ \/ UNCHANGED ioVars
           \/ \E m : m.conn = c /\ Goto(t, "reply", c, m, "poll")
           \/ Goto(t, "close", c, NULL, "poll")
        /\ rio[c] \/ wio[c]
        /\ io_thread[c] = t
    BY <1>8 DEF ReadRequest, ReadAndClose, WriteEventFails, Readable, Writeable,
                connVars, queueVars
  <2>2. CASE UNCHANGED ioVars
    BY <1>1, <2>1, <2>2
  <2>3. CASE \/ \E m : m.conn = c /\ Goto(t, "reply", c, m, "poll")
             \/ Goto(t, "close", c, NULL, "poll")
    <3>1. status[c] = "OPEN"
      BY <2>1 DEF OwnerHandles
    <3>2. HandlesOwn(t)'
      BY <2>1, <2>3, <3>1 DEF Goto, HandlesOwn, Carries, Handling, IoTypeOK
    <3>3. \A u \in IoThreads : u # t =>
            UNCHANGED <<iopc[u], ioc[u], iom[u], ioret[u]>>
      BY <2>3 DEF Goto, IoTypeOK
    <3> QED  BY <1>c, <2>1, <3>2, <3>3
  <2> QED  BY <2>1, <2>2, <2>3
<1>9. ASSUME NEW t \in IoThreads, ReturnMessage(t)
      PROVE  OwnerHandles'
  <2> DEFINE m == Head(message_queue[t])
  <2>1. /\ UNCHANGED <<status, io_thread, rio, wio>>
        /\ Goto(t, "reply", m.conn, m, "poll")
        /\ message_queue' = [message_queue EXCEPT ![t] = Tail(@)]
        /\ message_queue[t] \in Seq(Messages) /\ message_queue[t] # << >>
        /\ status[m.conn] # "CLOSED"
    BY <1>9 DEF ReturnMessage, connVars, QueueTypeOK
  <2>2. /\ m \in Messages /\ Queued(message_queue[t], m)
        /\ \A y : Queued(Tail(message_queue[t]), y) => Queued(message_queue[t], y)
    BY <2>1, QueuedTail, HeadTailProperties
  <2> HIDE DEF m
  <2>3. io_thread[m.conn] = t /\ status[m.conn] = "OPEN"
    BY <2>1, <2>2 DEF OwnerHandles, Messages, ConnTypeOK
  <2>4. HandlesOwn(t)'
    BY <2>1, <2>3 DEF Goto, HandlesOwn, Carries, Handling, IoTypeOK
  <2>5. \A u \in IoThreads : \A x \in Messages :
          Queued(message_queue'[u], x) => Queued(message_queue[u], x)
    BY <2>1, <2>2 DEF QueueTypeOK
  <2>6. \A u \in IoThreads : u # t =>
          UNCHANGED <<iopc[u], ioc[u], iom[u], ioret[u]>>
    BY <2>1 DEF Goto, IoTypeOK
  <2> QED  BY <1>c, <2>1, <2>4, <2>5, <2>6
<1>10. ASSUME NEW t \in IoThreads, DropMessage(t)
       PROVE  OwnerHandles'
  <2>1. /\ UNCHANGED <<status, io_thread, rio, wio, ioVars>>
        /\ message_queue' = [message_queue EXCEPT ![t] = Tail(@)]
        /\ message_queue[t] \in Seq(Messages) /\ message_queue[t] # << >>
    BY <1>10 DEF DropMessage, QueueTypeOK
  <2>2. \A y : Queued(Tail(message_queue[t]), y) => Queued(message_queue[t], y)
    BY <2>1, QueuedTail
  <2>3. HandlesOwn(t)'
    BY <1>b, <2>1 DEF ioVars
  <2>4. \A u \in IoThreads : \A x \in Messages :
          Queued(message_queue'[u], x) => Queued(message_queue[u], x)
    BY <2>1, <2>2 DEF QueueTypeOK
  <2> QED  BY <1>c, <2>1, <2>3, <2>4 DEF ioVars
<1>11. ASSUME NEW t \in IoThreads, NEW n, Reply(t, n)
       PROVE  OwnerHandles'
  <2> DEFINE c == ioc[t]
  <2>1. /\ UNCHANGED <<status, io_thread, rio, message_queue>>
        /\ \E b : wio' = [wio EXCEPT ![c] = b]
        /\ Goto(t, "destroy", c, iom[t], "poll")
        /\ iopc[t] = "reply"
    BY <1>11 DEF Reply, queueVars
  <2>2. /\ c \in Conns /\ io_thread[c] = t /\ status[c] = "OPEN"
        /\ iom[t].conn = c
    BY <2>1 DEF OwnerHandles, HandlesOwn, HandlersTyped, Handling, Carries
  <2>3. HandlesOwn(t)'
    BY <2>1, <2>2 DEF Goto, HandlesOwn, Carries, Handling, IoTypeOK
  <2>4. \A u \in IoThreads : u # t =>
          UNCHANGED <<iopc[u], ioc[u], iom[u], ioret[u]>>
    BY <2>1 DEF Goto, IoTypeOK
  <2>5. \A u \in IoThreads : HandlesOwn(u)'
    BY <1>b, <2>1, <2>3, <2>4
  <2>6. \A d \in Conns : wio'[d] => wio[d] \/ d = c
    BY <2>1 DEF ConnTypeOK
  <2> QED  BY <1>a, <2>1, <2>2, <2>5, <2>6 DEF OwnerHandles
<1>12. ASSUME NEW t \in IoThreads,
              NoReply(t) \/ ReplyFails(t) \/ DestroyMessage(t)
       PROVE  OwnerHandles'
  <2>1. /\ UNCHANGED <<status, io_thread, rio, wio, message_queue>>
        /\ iopc[t] \in {"reply", "destroy"}
        /\ \/ /\ iopc' = [iopc EXCEPT ![t] = "destroy"]
              /\ UNCHANGED <<ioc, iom, ioret>>
           \/ iopc[t] = "reply" /\ Goto(t, "close", ioc[t], iom[t], "destroy")
           \/ Goto(t, "poll", NULL, NULL, "poll")
    BY <1>12 DEF NoReply, ReplyFails, DestroyMessage, BackToPoll, connVars, queueVars
  <2>2. HandlesOwn(t)
    BY DEF OwnerHandles
  <2>3. HandlesOwn(t)'
    BY <2>1, <2>2 DEF Goto, HandlesOwn, Carries, Handling, IoTypeOK
  <2>4. \A u \in IoThreads : u # t =>
          UNCHANGED <<iopc[u], ioc[u], iom[u], ioret[u]>>
    BY <2>1 DEF Goto, IoTypeOK
  <2> QED  BY <1>c, <2>1, <2>3, <2>4
<1>13. ASSUME NEW t \in IoThreads, NEW c \in Conns, NEW n, WriteEvent(t, c, n)
       PROVE  OwnerHandles'
  <2>1. /\ UNCHANGED <<status, io_thread, rio, message_queue, ioVars>>
        /\ \E b : wio' = [wio EXCEPT ![c] = b]
        /\ wio[c]
    BY <1>13 DEF WriteEvent, Writeable, queueVars
  <2>2. \A u \in IoThreads : HandlesOwn(u)'
    BY <1>b, <2>1 DEF ioVars
  <2>3. \A d \in Conns : wio'[d] => wio[d]
    BY <2>1 DEF ConnTypeOK
  <2> QED  BY <2>1, <2>2, <2>3 DEF OwnerHandles
<1>14. ASSUME NEW t \in IoThreads, CloseMark(t)
       PROVE  OwnerHandles'
  <2> DEFINE c == ioc[t]
  <2>1. /\ c \in Conns /\ io_thread[c] = t /\ status[c] = "OPEN" /\ HandlesOwn(t)
        /\ iopc[t] = "close"
    BY <1>14 DEF CloseMark, OwnerHandles, HandlesOwn, HandlersTyped, Handling
  <2>2. /\ status' = [status EXCEPT ![c] = "CLOSED"]
        /\ rio' = [rio EXCEPT ![c] = FALSE]
        /\ wio' = [wio EXCEPT ![c] = FALSE]
        /\ iopc' = [iopc EXCEPT ![t] = "checkref"]
        /\ UNCHANGED <<io_thread, message_queue, ioc, iom, ioret>>
    BY <1>14, <2>1 DEF CloseMark, xv_connection_stop, queueVars
  <2>3. HandlesOwn(t)'
    BY <2>1, <2>2 DEF HandlesOwn, Carries, Handling, IoTypeOK, ConnTypeOK
  <2>4. ASSUME NEW u \in IoThreads, u # t
        PROVE  HandlesOwn(u)'
    <3>1. UNCHANGED <<iopc[u], ioc[u], iom[u], ioret[u]>>
      BY <2>2, <2>4 DEF IoTypeOK
    <3>2. iopc[u] \in Handling => ioc[u] # c /\ ioc[u] \in Conns
      BY <2>1, <2>4 DEF OwnerHandles, HandlesOwn, HandlersTyped, Handling
    <3>3. iopc[u] \in Handling => UNCHANGED <<status[ioc[u]], io_thread[ioc[u]]>>
      BY <2>2, <3>2 DEF ConnTypeOK
    <3> QED  BY <1>b, <3>1, <3>3
  <2>5. \A u \in IoThreads : HandlesOwn(u)'
    BY <2>3, <2>4
  <2>6. \A d \in Conns : /\ rio'[d] \/ wio'[d] => (rio[d] \/ wio[d]) /\ d # c
                         /\ d # c => status'[d] = status[d]
    BY <2>2 DEF ConnTypeOK
  <2> QED  BY <1>a, <2>1, <2>2, <2>5, <2>6 DEF OwnerHandles
<1>15. ASSUME NEW t \in IoThreads,
              CheckRef(t) \/ DelConnection(t) \/ CloseFd(t) \/ FreeConnection(t)
       PROVE  OwnerHandles'
  <2>1. /\ UNCHANGED <<status, io_thread, rio, wio, message_queue, ioc, iom, ioret>>
        /\ iopc[t] \in {"checkref", "del", "closefd", "free"}
        /\ \/ iopc' = [iopc EXCEPT ![t] = "del"]
           \/ iopc' = [iopc EXCEPT ![t] = "closefd"]
           \/ iopc' = [iopc EXCEPT ![t] = "free"]
           \/ iopc' = [iopc EXCEPT ![t] = ioret[t]]
    BY <1>15, ReleaseLabels
       DEF CheckRef, DelConnection, CloseFd, FreeConnection, connVars, queueVars
  <2>2. HandlesOwn(t)
    BY DEF OwnerHandles
  <2>3. HandlesOwn(t)'
    BY <2>1, <2>2 DEF HandlesOwn, Carries, Handling, IoTypeOK
  <2>4. \A u \in IoThreads : u # t =>
          UNCHANGED <<iopc[u], ioc[u], iom[u], ioret[u]>>
    BY <2>1 DEF IoTypeOK
  <2> QED  BY <1>c, <2>1, <2>3, <2>4
<1>16. ASSUME NEW w \in Workers, TakeTask(w)
       PROVE  OwnerHandles'
  BY <1>1, <1>16 DEF TakeTask, connVars
<1>17. ASSUME NEW w \in Workers, FinishTask(w)
       PROVE  OwnerHandles'
  <2> DEFINE m == whand[w]
             i == io_thread[m.conn]
  <2>1. /\ UNCHANGED <<status, io_thread, rio, wio, ioVars>>
        /\ message_queue' = [message_queue EXCEPT ![i] = Append(@, m)]
        /\ m \in Messages
    BY <1>17 DEF FinishTask, connVars, MessageTypeOK
  <2>2. \A u \in IoThreads : HandlesOwn(u)'
    BY <1>b, <2>1 DEF ioVars
  <2>3. ASSUME NEW u \in IoThreads
        PROVE  \A x \in Messages : Queued(message_queue'[u], x) =>
                    Queued(message_queue[u], x) \/ (x = m /\ u = i)
    <3>1. message_queue[u] \in Seq(Messages)
      BY DEF QueueTypeOK
    <3>2. \A x : Queued(Append(message_queue[u], m), x) <=>
                    Queued(message_queue[u], x) \/ x = m
      BY <2>1, <3>1, QueuedAppend
    <3> QED  BY <2>1, <3>2 DEF QueueTypeOK
  <2> QED  BY <2>1, <2>2, <2>3 DEF OwnerHandles
<1>18. CASE UNCHANGED vars
  BY <1>1, <1>18 DEF vars, connVars, queueVars
<1> QED
  BY <1>2, <1>3, <1>4, <1>5, <1>6, <1>7, <1>8, <1>9, <1>10, <1>11, <1>12, <1>13,
     <1>14, <1>15, <1>16, <1>17, <1>18
  DEF Next, PeerStep, IoStep, ListenEvent, QueueEvent, SocketEvent, HandlerStep,
      Close, WorkerStep

(***************************************************************************)
(* A message is in one queue or in one thread's hands, and a new request   *)
(* is of units no earlier one has.                                         *)
(***************************************************************************)
LEMMA NextPlaces ==
    TypeInv /\ OnePlace /\ RequestsDecoded /\ [Next]_vars => OnePlace'
<1> SUFFICES ASSUME TypeInv, OnePlace, RequestsDecoded, [Next]_vars
             PROVE  OnePlace'
  OBVIOUS
<1> USE ServiceConstants DEF TypeInv, TypeOK
<1>a. ASSUME \A m \in Messages, k \in Kinds, x \in Holders :
                Holds(k, x, m)' => Holds(k, x, m),
             msgs \subseteq msgs'
      PROVE  OneHolder'
  BY <1>a DEF OnePlace, OneHolder
<1> DEFINE Moves(m0, k0, x0) ==
            /\ \A m \in Messages, k \in Kinds, x \in Holders :
                /\ Holds(k, x, m)' /\ m # m0 => Holds(k, x, m)
                /\ Holds(k, x, m)' /\ m = m0 => k = k0 /\ x = x0 /\ m0 \in msgs'
            /\ msgs \ {m0} \subseteq msgs'
<1>b. ASSUME NEW m0, NEW k0, NEW x0, Moves(m0, k0, x0)
      PROVE  OneHolder'
  BY <1>b DEF OnePlace, OneHolder
<1> HIDE DEF Moves
<1>c. ASSUME UNCHANGED <<message_queue, task_queue>>
      PROVE  QueuedOnce'
  BY <1>c DEF OnePlace, QueuedOnce
<1>d. ASSUME UNCHANGED <<message_queue, task_queue, whand, msgs>>,
             \A t \in IoThreads : Carries(t)' => Carries(t) /\ iom'[t] = iom[t]
      PROVE  OnePlace'
  <2>1. \A m \in Messages, k \in Kinds, x \in Holders :
            Holds(k, x, m)' => Holds(k, x, m)
    BY <1>d DEF Holds
  <2> QED  BY <1>a, <1>c, <1>d, <2>1 DEF OnePlace
<1>1. ASSUME NEW c \in Conns,
             \/ Connect(c) \/ PeerSend(c) \/ PeerClose(c)
             \/ \E t \in IoThreads : AcceptFails(t, c)
      PROVE  OnePlace'
  BY <1>d, <1>1 DEF Connect, PeerSend, PeerClose, AcceptFails, queueVars, ioVars,
                    Carries
<1>2. ASSUME NEW t \in IoThreads,
             \/ \E c : Accept(t, c) \/ WriteEventFails(t, c)
             \/ \E c, n : ReadAndClose(t, c, n)
             \/ GrowDone(t) \/ Distribute(t)
      PROVE  OnePlace'
  <2>1. /\ UNCHANGED <<message_queue, task_queue, whand, msgs>>
        /\ \E l \in {"grow", "accepted", "close", "poll"} : \E d :
                Goto(t, l, d, NULL, "poll")
    BY <1>2 DEF Accept, ReadAndClose, WriteEventFails, GrowDone, Distribute,
                BackToPoll, queueVars
  <2>2. \A u \in IoThreads : Carries(u)' => Carries(u) /\ iom'[u] = iom[u]
    BY <2>1 DEF Goto, Carries, IoTypeOK
  <2> QED  BY <1>d, <2>1, <2>2
<1>3. ASSUME NEW t \in IoThreads,
             Grow(t) \/ AddConn(t) \/ \E c, n : WriteEvent(t, c, n)
      PROVE  OnePlace'
  BY <1>d, <1>3 DEF Grow, AddConn, WriteEvent, queueVars, ioVars, Carries
<1>4. ASSUME NEW t \in IoThreads,
             \/ \E n : Reply(t, n)
             \/ NoReply(t) \/ ReplyFails(t) \/ CloseMark(t)
             \/ CheckRef(t) \/ DelConnection(t) \/ CloseFd(t) \/ FreeConnection(t)
      PROVE  OnePlace'
  <2>1. /\ UNCHANGED <<message_queue, task_queue, whand, msgs>>
        /\ iom'[t] = iom[t]
        /\ \A u \in IoThreads : u # t => UNCHANGED <<iopc[u], iom[u], ioret[u]>>
    BY <1>4 DEF Reply, NoReply, ReplyFails, CloseMark, CheckRef, DelConnection,
                CloseFd, FreeConnection, Goto, queueVars, IoTypeOK
  <2>2. Carries(t)' => Carries(t)
    BY <1>4, ReleaseLabels
       DEF Reply, NoReply, ReplyFails, CloseMark, CheckRef, DelConnection,
           CloseFd, FreeConnection, Goto, Carries, IoTypeOK
  <2> QED  BY <1>d, <2>1, <2>2 DEF Carries
<1>5. ASSUME NEW t \in IoThreads, NEW c \in Conns, NEW n \in 1..MaxReq,
             ReadRequest(t, c, n)
      PROVE  OnePlace'
  <2> DEFINE m == [conn |-> c, from |-> c, sent |-> FALSE, lo |-> ndec[c] + 1,
                   hi |-> IF Decode = "framed" THEN ndec[c] + 1 ELSE nread[c] + n]
  <2>1. /\ ndec[c] \in Nat /\ nread[c] \in Nat /\ ndec[c] <= nread[c]
        /\ nread[c] + n <= MaxReq
    BY <1>5 DEF ReadRequest, StagesOrdered, StreamTypeOK, PeerTypeOK
  <2>2. m \in Messages /\ m.conn = c /\ ~ m.sent /\ m.hi > ndec[c]
    BY <2>1 DEF Messages
  <2>3. m \notin msgs
    BY <2>1, <2>2 DEF RequestsDecoded, Messages
  <2>4. /\ UNCHANGED <<message_queue, whand>>
        /\ msgs' = msgs \cup {m}
        /\ \/ /\ UNCHANGED task_queue
              /\ Goto(t, "reply", c, m, "poll")
           \/ /\ UNCHANGED ioVars
              /\ task_queue' = [task_queue EXCEPT ![TaskIndex(m)] = Append(@, m)]
    BY <1>5 DEF ReadRequest, xv_message_init
  <2> HIDE DEF m
  <2>5. \A k \in Kinds, x \in Holders : ~Holds(k, x, m)
    BY <2>2, <2>3 DEF OnePlace, OneHolder
  <2>6. CASE UNCHANGED task_queue /\ Goto(t, "reply", c, m, "poll")
    <3>1. /\ \A u \in IoThreads : u # t => (Carries(u)' <=> Carries(u)) /\ iom'[u] = iom[u]
          /\ iom'[t] = m
      BY <2>6 DEF Goto, Carries, IoTypeOK
    <3>2. \A x \in Messages, k \in Kinds, y \in Holders :
            Holds(k, y, x)' => Holds(k, y, x) \/ (x = m /\ k = "io" /\ y = t)
      BY <2>4, <2>6, <3>1 DEF Holds
    <3>3. OneHolder'
      <4>1. Moves(m, "io", t)
        BY <2>4, <2>5, <3>2 DEF Moves
      <4> QED  BY <1>b, <4>1
    <3> QED  BY <1>c, <2>4, <2>6, <3>3 DEF OnePlace
  <2>7. CASE /\ UNCHANGED ioVars
             /\ task_queue' = [task_queue EXCEPT ![TaskIndex(m)] = Append(@, m)]
    <3> DEFINE i == TaskIndex(m)
    <3> HIDE DEF i
    <3>1. ASSUME NEW w \in Workers
          PROVE  /\ \A x \in Messages : Queued(task_queue'[w], x) =>
                        Queued(task_queue[w], x) \/ (x = m /\ w = i)
                 /\ NoRepeat(task_queue'[w])
      <4>1. task_queue[w] \in Seq(Messages)
        BY DEF QueueTypeOK
      <4>2. /\ \A x : Queued(Append(task_queue[w], m), x) <=>
                    Queued(task_queue[w], x) \/ x = m
            /\ NoRepeat(task_queue[w]) /\ ~Queued(task_queue[w], m) =>
                    NoRepeat(Append(task_queue[w], m))
        BY <2>2, <4>1, QueuedAppend
      <4>3. NoRepeat(task_queue[w]) /\ ~Queued(task_queue[w], m)
        BY <2>5 DEF OnePlace, QueuedOnce, Holds, Kinds, Holders
      <4>4. task_queue'[w] = IF w = i THEN Append(task_queue[w], m) ELSE task_queue[w]
        BY <2>7 DEF QueueTypeOK, i
      <4> QED  BY <4>2, <4>3, <4>4
    <3>2. \A x \in Messages, k \in Kinds, y \in Holders :
            Holds(k, y, x)' => Holds(k, y, x) \/ (x = m /\ k = "task" /\ y = i)
      BY <2>4, <2>7, <3>1 DEF Holds, ioVars, Carries
    <3>3. OneHolder'
      <4>1. Moves(m, "task", i)
        BY <2>4, <2>5, <3>2 DEF Moves
      <4> QED  BY <1>b, <4>1
    <3> QED  BY <2>4, <3>1, <3>3 DEF OnePlace, QueuedOnce
  <2> QED  BY <2>4, <2>6, <2>7
<1>6. ASSUME NEW t \in IoThreads, ReturnMessage(t) \/ DropMessage(t)
      PROVE  OnePlace'
  <2> DEFINE s == message_queue[t]
             m == Head(s)
  <2>1. /\ UNCHANGED <<task_queue, whand>>
        /\ message_queue' = [message_queue EXCEPT ![t] = Tail(@)]
        /\ s \in Seq(Messages) /\ s # << >>
        /\ \/ UNCHANGED msgs /\ Goto(t, "reply", m.conn, m, "poll")
           \/ msgs' = msgs \ {m} /\ UNCHANGED ioVars
    BY <1>6 DEF ReturnMessage, DropMessage, xv_message_destroy, QueueTypeOK
  <2>2. NoRepeat(s)
    BY DEF OnePlace, QueuedOnce
  <2>3. /\ m \in Messages /\ Queued(s, m)
        /\ NoRepeat(Tail(s)) /\ ~Queued(Tail(s), m)
        /\ \A y : Queued(Tail(s), y) => Queued(s, y)
    BY <2>1, <2>2, QueuedTail, HeadTailProperties
  <2> HIDE DEF m
  <2>4. /\ Holds("return", t, m)
        /\ "return" \in Kinds /\ t \in Holders
    BY <2>3 DEF Holds, Kinds, Holders
  <2>5. /\ m \in msgs
        /\ \A k \in Kinds, x \in Holders : Holds(k, x, m) => k = "return" /\ x = t
    BY <2>3, <2>4 DEF OnePlace, OneHolder
  <2>6. \A u \in IoThreads :
          /\ NoRepeat(message_queue'[u])
          /\ \A x \in Messages : Queued(message_queue'[u], x) =>
                Queued(message_queue[u], x) /\ (u = t => x # m)
    BY <2>1, <2>2, <2>3 DEF QueueTypeOK, OnePlace, QueuedOnce
  <2>7. \A u \in IoThreads : Carries(u)' =>
          \/ Carries(u) /\ iom'[u] = iom[u]
          \/ u = t /\ iom'[u] = m /\ m \in msgs'
    BY <2>1, <2>5 DEF Goto, Carries, IoTypeOK, ioVars
  <2>8. \A x \in Messages, k \in Kinds, y \in Holders : Holds(k, y, x)' =>
          \/ Holds(k, y, x) /\ ~(k = "return" /\ y = t /\ x = m)
          \/ x = m /\ k = "io" /\ y = t /\ m \in msgs'
    BY <2>1, <2>6, <2>7 DEF Holds
  <2>9. OneHolder'
    <3>1. Moves(m, "io", t)
      BY <2>1, <2>5, <2>8 DEF Moves
    <3> QED  BY <1>b, <3>1
  <2> QED  BY <2>1, <2>6, <2>9 DEF OnePlace, QueuedOnce
<1>7. ASSUME NEW t \in IoThreads, DestroyMessage(t)
      PROVE  OnePlace'
  <2> DEFINE m == iom[t]
  <2>1. /\ UNCHANGED <<message_queue, task_queue, whand>>
        /\ msgs' = msgs \ {m}
        /\ Goto(t, "poll", NULL, NULL, "poll")
        /\ iopc[t] = "destroy"
    BY <1>7 DEF DestroyMessage, xv_message_destroy, BackToPoll, queueVars
  <2>2. Holds("io", t, m) /\ m \in Messages /\ "io" \in Kinds /\ t \in Holders
    BY <2>1 DEF Holds, Carries, Kinds, Holders, HandlersTyped
  <2>3. \A k \in Kinds, x \in Holders : Holds(k, x, m) => k = "io" /\ x = t
    BY <2>2 DEF OnePlace, OneHolder
  <2> HIDE DEF m
  <2>4. \A u \in IoThreads : Carries(u)' => u # t /\ Carries(u) /\ iom'[u] = iom[u]
    BY <2>1 DEF Goto, Carries, IoTypeOK
  <2>5. \A x \in Messages, k \in Kinds, y \in Holders :
          Holds(k, y, x)' => Holds(k, y, x) /\ ~(k = "io" /\ y = t)
    BY <2>1, <2>4 DEF Holds
  <2>6. OneHolder'
    <3>1. Moves(m, "io", t)
      BY <2>1, <2>3, <2>5 DEF Moves
    <3> QED  BY <1>b, <3>1
  <2> QED  BY <1>c, <2>1, <2>6 DEF OnePlace
<1>8. ASSUME NEW w \in Workers, TakeTask(w)
      PROVE  OnePlace'
  <2> DEFINE s == task_queue[w]
             m == Head(s)
  <2>1. /\ UNCHANGED <<message_queue, msgs, ioVars>>
        /\ whand' = [whand EXCEPT ![w] = m]
        /\ task_queue' = [task_queue EXCEPT ![w] = Tail(@)]
        /\ s \in Seq(Messages) /\ s # << >>
    BY <1>8 DEF TakeTask, QueueTypeOK
  <2>2. NoRepeat(s)
    BY DEF OnePlace, QueuedOnce
  <2>3. /\ m \in Messages /\ Queued(s, m)
        /\ NoRepeat(Tail(s)) /\ ~Queued(Tail(s), m)
        /\ \A y : Queued(Tail(s), y) => Queued(s, y)
    BY <2>1, <2>2, QueuedTail, HeadTailProperties
  <2> HIDE DEF m
  <2>4. Holds("task", w, m) /\ "task" \in Kinds /\ w \in Holders
    BY <2>3 DEF Holds, Kinds, Holders
  <2>5. /\ m \in msgs
        /\ \A k \in Kinds, x \in Holders : Holds(k, x, m) => k = "task" /\ x = w
    BY <2>3, <2>4 DEF OnePlace, OneHolder
  <2>6. \A v \in Workers :
          /\ NoRepeat(task_queue'[v])
          /\ \A x \in Messages : Queued(task_queue'[v], x) =>
                Queued(task_queue[v], x) /\ (v = w => x # m)
    BY <2>1, <2>2, <2>3 DEF QueueTypeOK, OnePlace, QueuedOnce
  <2>7. \A v \in Workers : whand'[v] = IF v = w THEN m ELSE whand[v]
    BY <2>1 DEF MessageTypeOK
  <2>8. \A x \in Messages, k \in Kinds, y \in Holders : Holds(k, y, x)' =>
          \/ Holds(k, y, x) /\ ~(k = "task" /\ y = w /\ x = m)
          \/ x = m /\ k = "worker" /\ y = w
    BY <2>1, <2>6, <2>7 DEF Holds, ioVars, Carries
  <2>9. OneHolder'
    <3>1. Moves(m, "worker", w)
      BY <2>1, <2>5, <2>8 DEF Moves
    <3> QED  BY <1>b, <3>1
  <2> QED  BY <2>1, <2>6, <2>9 DEF OnePlace, QueuedOnce
<1>9. ASSUME NEW w \in Workers, FinishTask(w)
      PROVE  OnePlace'
  <2> DEFINE m == whand[w]
             i == io_thread[m.conn]
  <2>1. /\ UNCHANGED <<task_queue, msgs, ioVars>>
        /\ message_queue' = [message_queue EXCEPT ![i] = Append(@, m)]
        /\ whand' = [whand EXCEPT ![w] = NULL]
        /\ m \in Messages /\ m # NULL
    BY <1>9 DEF FinishTask, MessageTypeOK
  <2>2. Holds("worker", w, m) /\ "worker" \in Kinds /\ w \in Holders
    BY <2>1 DEF Holds, Kinds, Holders
  <2>3. /\ m \in msgs
        /\ \A k \in Kinds, x \in Holders : Holds(k, x, m) => k = "worker" /\ x = w
    BY <2>1, <2>2 DEF OnePlace, OneHolder
  <2>4. \A v \in Workers : whand'[v] = IF v = w THEN NULL ELSE whand[v]
    BY <2>1 DEF MessageTypeOK
  <2> HIDE DEF m, i
  <2>5. ASSUME NEW u \in IoThreads
        PROVE  /\ \A x \in Messages : Queued(message_queue'[u], x) =>
                      Queued(message_queue[u], x) \/ (x = m /\ u = i)
               /\ NoRepeat(message_queue'[u])
    <3>1. message_queue[u] \in Seq(Messages)
      BY DEF QueueTypeOK
    <3>2. /\ \A x : Queued(Append(message_queue[u], m), x) <=>
                  Queued(message_queue[u], x) \/ x = m
          /\ NoRepeat(message_queue[u]) /\ ~Queued(message_queue[u], m) =>
                  NoRepeat(Append(message_queue[u], m))
      BY <2>1, <3>1, QueuedAppend
    <3>3. NoRepeat(message_queue[u]) /\ ~Queued(message_queue[u], m)
      BY <2>3 DEF OnePlace, QueuedOnce, Holds, Kinds, Holders
    <3>4. message_queue'[u] =
            IF u = i THEN Append(message_queue[u], m) ELSE message_queue[u]
      BY <2>1 DEF QueueTypeOK
    <3> QED  BY <3>2, <3>3, <3>4
  <2>6. \A x \in Messages, k \in Kinds, y \in Holders : Holds(k, y, x)' =>
          \/ Holds(k, y, x) /\ ~(k = "worker" /\ y = w)
          \/ x = m /\ k = "return" /\ y = i
    BY <2>1, <2>4, <2>5 DEF Holds, ioVars, Carries
  <2>7. OneHolder'
    <3>1. Moves(m, "return", i)
      BY <2>1, <2>3, <2>6 DEF Moves
    <3> QED  BY <1>b, <3>1
  <2> QED  BY <2>1, <2>5, <2>7 DEF OnePlace, QueuedOnce
<1>10. CASE UNCHANGED vars
  BY <1>d, <1>10 DEF vars, queueVars, ioVars, Carries
<1> QED
  BY <1>1, <1>2, <1>3, <1>4, <1>5, <1>6, <1>7, <1>8, <1>9, <1>10
  DEF Next, PeerStep, IoStep, ListenEvent, QueueEvent, SocketEvent, HandlerStep,
      Close, WorkerStep

LEMMA NextDecoded ==
    TypeInv /\ [Next]_vars =>
        /\ RequestsDecoded => RequestsDecoded'
        /\ MessagesTaken => MessagesTaken'
<1> DEFINE Goal == (RequestsDecoded => RequestsDecoded') /\ (MessagesTaken => MessagesTaken')
<1> SUFFICES ASSUME TypeInv, [Next]_vars
             PROVE  Goal
  OBVIOUS
<1> USE ServiceConstants DEF TypeInv, TypeOK
<1>a. \A t \in IoThreads : t # NULL
  BY DEF IoThreads
<1>b. \A m \in msgs : m.conn \in Conns
  BY DEF MessageTypeOK, Messages
<1>c. ASSUME msgs' \subseteq msgs,
             UNCHANGED ndec,
             \A c \in Conns : io_thread[c] # NULL => io_thread'[c] # NULL
      PROVE  Goal
  BY <1>b, <1>c DEF RequestsDecoded, MessagesTaken
<1> HIDE DEF Goal
<1>1. ASSUME NEW c \in Conns,
             \/ Connect(c) \/ PeerSend(c) \/ PeerClose(c)
             \/ \E t \in IoThreads : AcceptFails(t, c)
      PROVE  Goal
  BY <1>c, <1>1 DEF Connect, PeerSend, PeerClose, AcceptFails, connVars, streamVars
<1>2. ASSUME NEW t \in IoThreads,
             \/ \E c : Accept(t, c) \/ WriteEventFails(t, c)
             \/ \E c, n : ReadAndClose(t, c, n) \/ WriteEvent(t, c, n)
             \/ \E n : Reply(t, n)
             \/ Grow(t) \/ GrowDone(t) \/ ReturnMessage(t) \/ DropMessage(t)
             \/ NoReply(t) \/ ReplyFails(t) \/ DestroyMessage(t) \/ Close(t)
      PROVE  Goal
  <2>1. msgs' \subseteq msgs
    BY <1>2 DEF Accept, WriteEventFails, ReadAndClose, WriteEvent, Reply, Grow,
                GrowDone, ReturnMessage, DropMessage, NoReply, ReplyFails,
                DestroyMessage, xv_message_destroy, Close, CloseMark, CheckRef,
                DelConnection, CloseFd, FreeConnection
  <2>2. UNCHANGED <<ndec, io_thread>>
    BY <1>2 DEF Accept, WriteEventFails, ReadAndClose, WriteEvent, Reply, Grow,
                GrowDone, ReturnMessage, DropMessage, NoReply, ReplyFails,
                DestroyMessage, Close, CloseMark, CheckRef, DelConnection,
                CloseFd, FreeConnection, connVars, streamVars
  <2> QED  BY <1>c, <2>1, <2>2
<1>3. ASSUME NEW t \in IoThreads, Distribute(t) \/ AddConn(t)
      PROVE  Goal
  <2>1. /\ UNCHANGED <<msgs, ndec>>
        /\ \/ UNCHANGED io_thread
           \/ \E c : io_thread' = [io_thread EXCEPT ![c] = t]
    BY <1>3 DEF Distribute, AddConn, streamVars
  <2>2. \A c \in Conns : io_thread[c] # NULL => io_thread'[c] # NULL
    BY <1>a, <2>1 DEF ConnTypeOK
  <2> QED  BY <1>c, <2>1, <2>2
<1>4. ASSUME NEW t \in IoThreads, NEW c \in Conns, NEW n \in 1..MaxReq,
             ReadRequest(t, c, n)
      PROVE  Goal
  <2> DEFINE m == [conn |-> c, from |-> c, sent |-> FALSE, lo |-> ndec[c] + 1,
                   hi |-> IF Decode = "framed" THEN ndec[c] + 1 ELSE nread[c] + n]
  <2>1. /\ ndec' = [ndec EXCEPT ![c] = m.hi]
        /\ msgs' = msgs \cup {m}
        /\ UNCHANGED io_thread
        /\ io_thread[c] # NULL
    BY <1>a, <1>4 DEF ReadRequest, xv_message_init, Readable
  <2>2. m.conn = c /\ m.from = c
    OBVIOUS
  <2>3. m.hi \in Nat /\ ndec[c] \in Nat /\ ndec[c] <= m.hi
    BY DEF StagesOrdered, StreamTypeOK
  <2> HIDE DEF m
  <2>4. \A d \in Conns : ndec[d] \in Int /\ ndec'[d] \in Int /\ ndec[d] <= ndec'[d]
    BY <2>1, <2>3 DEF StreamTypeOK
  <2>5. ndec'[c] = m.hi
    BY <2>1 DEF StreamTypeOK
  <2>6. \A x \in msgs : x.hi \in Int
    BY DEF MessageTypeOK, Messages
  <2>7. ASSUME NEW x \in msgs, ~ x.sent, RequestsDecoded
        PROVE  x.from = x.conn /\ x.hi <= ndec'[x.conn]
    BY <1>b, <2>4, <2>6, <2>7 DEF RequestsDecoded
  <2>8. RequestsDecoded => RequestsDecoded'
    BY <2>1, <2>2, <2>3, <2>5, <2>7 DEF RequestsDecoded
  <2>9. MessagesTaken => MessagesTaken'
    BY <2>1, <2>2 DEF MessagesTaken
  <2> QED  BY <2>8, <2>9 DEF Goal
<1>5. ASSUME NEW w \in Workers, TakeTask(w) \/ FinishTask(w)
      PROVE  Goal
  BY <1>c, <1>5 DEF TakeTask, FinishTask, connVars, streamVars
<1>6. CASE UNCHANGED vars
  BY <1>c, <1>6 DEF vars, connVars, streamVars
<1> QED
  BY <1>1, <1>2, <1>3, <1>4, <1>5, <1>6
  DEF Next, PeerStep, IoStep, ListenEvent, QueueEvent, SocketEvent, HandlerStep,
      WorkerStep

(* A message more, or less, of the messages of one connection. *)
LEMMA MessageAdded ==
    ASSUME IsFiniteSet(msgs), NEW m, m \notin msgs, msgs' = msgs \cup {m}, NEW c
    PROVE  /\ Cardinality(MessagesOf(c)) \in Nat
           /\ m.conn = c =>
                Cardinality(MessagesOf(c)') = Cardinality(MessagesOf(c)) + 1
           /\ m.conn # c => MessagesOf(c)' = MessagesOf(c)
<1>1. MessagesOf(c) \in SUBSET msgs
  BY DEF MessagesOf
<1>2. IsFiniteSet(MessagesOf(c))
  BY <1>1, FS_Subset
<1>3. Cardinality(MessagesOf(c)) \in Nat
  BY <1>2, FS_CardinalityType
<1>4. m.conn = c => MessagesOf(c)' = MessagesOf(c) \cup {m}
  BY DEF MessagesOf
<1>5. Cardinality(MessagesOf(c) \cup {m}) = Cardinality(MessagesOf(c)) + 1
  BY <1>1, <1>2, FS_AddElement
<1>6. m.conn # c => MessagesOf(c)' = MessagesOf(c)
  BY DEF MessagesOf
<1> QED  BY <1>3, <1>4, <1>5, <1>6

LEMMA MessageRemoved ==
    ASSUME IsFiniteSet(msgs), NEW m \in msgs, msgs' = msgs \ {m}, NEW c
    PROVE  /\ Cardinality(MessagesOf(c)) \in Nat
           /\ m.conn = c =>
                Cardinality(MessagesOf(c)') = Cardinality(MessagesOf(c)) - 1
           /\ m.conn # c => MessagesOf(c)' = MessagesOf(c)
<1>1. MessagesOf(c) \in SUBSET msgs
  BY DEF MessagesOf
<1>2. IsFiniteSet(MessagesOf(c))
  BY <1>1, FS_Subset
<1>3. Cardinality(MessagesOf(c)) \in Nat
  BY <1>2, FS_CardinalityType
<1>4. m.conn = c => m \in MessagesOf(c) /\ MessagesOf(c)' = MessagesOf(c) \ {m}
  BY DEF MessagesOf
<1>5. m \in MessagesOf(c) =>
        Cardinality(MessagesOf(c) \ {m}) = Cardinality(MessagesOf(c)) - 1
  BY <1>2, FS_RemoveElement
<1>6. m.conn # c => MessagesOf(c)' = MessagesOf(c)
  BY DEF MessagesOf
<1> QED  BY <1>3, <1>4, <1>5, <1>6

(***************************************************************************)
(* ref_count through every step: what a message adds it takes away again,  *)
(* once, and a connection that is accepted starts without messages.        *)
(***************************************************************************)
LEMMA NextRefs ==
    ASSUME NEW e \in [Conns -> Int], \A c \in Conns : mem[c] = "none" => e[c] = 0,
           TypeInv, OneWay, OwnerHandles, OnePlace, RequestsDecoded, MessagesExist,
           RefsAre(e), [Next]_vars
    PROVE  RefsAre(e)' /\ MessagesExist'
<1> DEFINE Goal == RefsAre(e)' /\ MessagesExist'
<1> SUFFICES Goal
  OBVIOUS
<1> USE ServiceConstants DEF TypeInv, TypeOK
<1>a. \A t \in IoThreads : t # NULL
  BY DEF IoThreads
<1>0. \A m \in msgs : m.conn \in Conns
  BY DEF MessageTypeOK, Messages
<1>b. ASSUME UNCHANGED <<msgs, ref>>,
             \A c \in Conns : mem'[c] = "none" <=> mem[c] = "none"
      PROVE  Goal
  BY <1>0, <1>b DEF RefsAre, MessagesExist, MessagesOf
<1>c. ASSUME NEW m \in Messages, m \in msgs, xv_message_destroy(m),
             \A c \in Conns : mem'[c] = "none" <=> mem[c] = "none"
      PROVE  Goal
  <2>1. m.conn \in Conns
    BY DEF Messages
  <2>2. msgs' = msgs \ {m} /\ ref' = [ref EXCEPT ![m.conn] = @ - 1]
    BY <1>c DEF xv_message_destroy, xv_connection_decr_ref
  <2>3. IsFiniteSet(msgs')
    BY <2>2, FS_RemoveElement DEF RefsAre
  <2>4. ASSUME NEW c \in Conns
        PROVE  ref'[c] = (IF mem'[c] = "none" THEN 0 ELSE 1)
                            + e[c] + Cardinality(MessagesOf(c)')
    <3> DEFINE a == Cardinality(MessagesOf(c))
               b == Cardinality(MessagesOf(c)')
    <3>1. a \in Nat /\ b = a - (IF m.conn = c THEN 1 ELSE 0)
      <4>1. /\ Cardinality(MessagesOf(c)) \in Nat
            /\ m.conn = c =>
                Cardinality(MessagesOf(c)') = Cardinality(MessagesOf(c)) - 1
            /\ m.conn # c => MessagesOf(c)' = MessagesOf(c)
        BY <1>c, <2>2, MessageRemoved DEF RefsAre
      <4> QED  BY <4>1
    <3>2. ref[c] = (IF mem[c] = "none" THEN 0 ELSE 1) + e[c] + a
      BY DEF RefsAre
    <3> HIDE DEF a, b
    <3>3. ref'[c] = ref[c] - (IF m.conn = c THEN 1 ELSE 0)
      BY <2>2, <3>1, <3>2 DEF ConnTypeOK
    <3>4. ref'[c] = (IF mem'[c] = "none" THEN 0 ELSE 1) + e[c] + b
      BY <1>c, <3>1, <3>2, <3>3
    <3> QED  BY <3>4 DEF b
  <2>5. RefsAre(e)'
    BY <2>3, <2>4 DEF RefsAre
  <2> QED  BY <1>0, <1>c, <2>2, <2>5 DEF MessagesExist
<1> HIDE DEF Goal
<1>1. ASSUME NEW c \in Conns,
             \/ Connect(c) \/ PeerSend(c) \/ PeerClose(c)
             \/ \E t \in IoThreads : AcceptFails(t, c)
      PROVE  Goal
  BY <1>b, <1>1 DEF Connect, PeerSend, PeerClose, AcceptFails, connVars
<1>2. ASSUME NEW t \in IoThreads, NEW c \in Conns, Accept(t, c)
      PROVE  Goal
  <2>1. /\ mem' = [mem EXCEPT ![c] = "live"]
        /\ ref' = [ref EXCEPT ![c] = 1]
        /\ UNCHANGED msgs
        /\ c \in backlog
    BY <1>2 DEF Accept, xv_connection_init
  <2>2. mem[c] = "none" /\ e[c] = 0
    BY <2>1 DEF OneWay
  <2>3. MessagesOf(c)' = {}
    BY <2>1, <2>2 DEF MessagesExist, MessagesOf
  <2>4. Cardinality(MessagesOf(c)') = 0
    BY <2>3, FS_EmptySet
  <2>5. ASSUME NEW d \in Conns
        PROVE  ref'[d] = (IF mem'[d] = "none" THEN 0 ELSE 1)
                            + e[d] + Cardinality(MessagesOf(d)')
    <3>1. CASE d = c
      <4>1. ref'[d] = 1 /\ mem'[d] # "none"
        BY <2>1, <3>1 DEF ConnTypeOK
      <4> QED  BY <2>2, <2>4, <3>1, <4>1
    <3>2. CASE d # c
      <4>1. UNCHANGED <<ref[d], mem[d], MessagesOf(d)>>
        BY <2>1, <3>2 DEF ConnTypeOK, MessagesOf
      <4> QED  BY <4>1 DEF RefsAre
    <3> QED  BY <3>1, <3>2
  <2>6. MessagesExist'
    BY <1>0, <2>1 DEF MessagesExist, ConnTypeOK
  <2> QED  BY <2>1, <2>5, <2>6 DEF RefsAre, Goal
<1>3. ASSUME NEW t \in IoThreads,
             \/ \E c : WriteEventFails(t, c)
             \/ \E c, n : ReadAndClose(t, c, n) \/ WriteEvent(t, c, n)
             \/ \E n : Reply(t, n)
             \/ Grow(t) \/ GrowDone(t) \/ ReturnMessage(t) \/ NoReply(t)
             \/ ReplyFails(t) \/ Distribute(t) \/ AddConn(t)
             \/ CloseMark(t) \/ CheckRef(t) \/ DelConnection(t) \/ CloseFd(t)
      PROVE  Goal
  <2>1. UNCHANGED <<msgs, ref, mem>>
    BY <1>3 DEF WriteEventFails, ReadAndClose, WriteEvent, Reply, Grow, GrowDone,
                ReturnMessage, NoReply, ReplyFails, Distribute, AddConn,
                CloseMark, CheckRef, DelConnection, CloseFd, connVars
  <2> QED  BY <1>b, <2>1
<1>4. ASSUME NEW t \in IoThreads, NEW c \in Conns, NEW n \in 1..MaxReq,
             ReadRequest(t, c, n)
      PROVE  Goal
  <2> DEFINE m == [conn |-> c, from |-> c, sent |-> FALSE, lo |-> ndec[c] + 1,
                   hi |-> IF Decode = "framed" THEN ndec[c] + 1 ELSE nread[c] + n]
  <2>1. /\ ref' = [ref EXCEPT ![c] = @ + 1]
        /\ msgs' = msgs \cup {m}
        /\ UNCHANGED mem
        /\ m.conn = c /\ io_thread[c] = t
    BY <1>4 DEF ReadRequest, Readable, xv_message_init, xv_connection_incr_ref
  <2>2. m \notin msgs
    <3>1. ndec[c] \in Nat /\ nread[c] \in Nat /\ ndec[c] <= nread[c]
      BY DEF StreamTypeOK, StagesOrdered
    <3>2. ~ m.sent /\ m.hi > ndec[m.conn] /\ m.hi \in Nat
      BY <3>1
    <3> QED  BY <3>1, <3>2 DEF RequestsDecoded
  <2> HIDE DEF m
  <2>3. IsFiniteSet(msgs')
    BY <2>1, FS_AddElement DEF RefsAre
  <2>4. ASSUME NEW d \in Conns
        PROVE  ref'[d] = (IF mem'[d] = "none" THEN 0 ELSE 1)
                            + e[d] + Cardinality(MessagesOf(d)')
    <3> DEFINE a == Cardinality(MessagesOf(d))
               b == Cardinality(MessagesOf(d)')
    <3>1. a \in Nat /\ b = a + (IF m.conn = d THEN 1 ELSE 0)
      <4>1. /\ Cardinality(MessagesOf(d)) \in Nat
            /\ m.conn = d =>
                Cardinality(MessagesOf(d)') = Cardinality(MessagesOf(d)) + 1
            /\ m.conn # d => MessagesOf(d)' = MessagesOf(d)
        BY <2>1, <2>2, MessageAdded DEF RefsAre
      <4> QED  BY <4>1
    <3>2. ref[d] = (IF mem[d] = "none" THEN 0 ELSE 1) + e[d] + a
      BY DEF RefsAre
    <3> HIDE DEF a, b
    <3>3. ref'[d] = ref[d] + (IF m.conn = d THEN 1 ELSE 0)
      BY <2>1, <3>1, <3>2 DEF ConnTypeOK
    <3>4. ref'[d] = (IF mem'[d] = "none" THEN 0 ELSE 1) + e[d] + b
      BY <2>1, <3>1, <3>2, <3>3
    <3> QED  BY <3>4 DEF b
  <2>5. MessagesExist'
    BY <1>a, <2>1 DEF MessagesExist, OneWay
  <2> QED  BY <2>3, <2>4, <2>5 DEF RefsAre, Goal
<1>5. ASSUME NEW t \in IoThreads, DropMessage(t)
      PROVE  Goal
  <2> DEFINE m == Head(message_queue[t])
  <2>1. /\ xv_message_destroy(m)
        /\ mem' = [mem EXCEPT ![m.conn] = "freed"]
        /\ message_queue[t] \in Seq(Messages) /\ message_queue[t] # << >>
    BY <1>5 DEF DropMessage, xv_connection_destroy, QueueTypeOK
  <2>2. m \in Messages /\ Queued(message_queue[t], m)
    BY <2>1, QueuedTail, HeadTailProperties
  <2> HIDE DEF m
  <2>3. m \in msgs
    BY <2>2 DEF OnePlace, OneHolder, Holds, Kinds, Holders
  <2>4. m.conn \in Conns /\ mem[m.conn] # "none"
    BY <1>a, <2>2 DEF OwnerHandles, OneWay, Messages
  <2>5. \A c \in Conns : mem'[c] = "none" <=> mem[c] = "none"
    BY <2>1, <2>4 DEF ConnTypeOK
  <2> QED  BY <1>c, <2>1, <2>2, <2>3, <2>5
<1>6. ASSUME NEW t \in IoThreads, DestroyMessage(t)
      PROVE  Goal
  <2>1. xv_message_destroy(iom[t]) /\ iopc[t] = "destroy" /\ UNCHANGED mem
    BY <1>6 DEF DestroyMessage
  <2>2. iom[t] \in Messages /\ Carries(t)
    BY <2>1 DEF HandlersTyped, Carries
  <2>3. iom[t] \in msgs
    BY <2>2 DEF OnePlace, OneHolder, Holds, Kinds, Holders
  <2> QED  BY <1>c, <2>1, <2>2, <2>3
<1>7. ASSUME NEW t \in IoThreads, FreeConnection(t)
      PROVE  Goal
  <2>1. /\ UNCHANGED <<msgs, ref>>
        /\ mem' = [mem EXCEPT ![ioc[t]] = "freed"]
        /\ iopc[t] = "free"
    BY <1>7 DEF FreeConnection, xv_connection_destroy
  <2>2. ioc[t] \in Conns /\ mem[ioc[t]] # "none"
    BY <1>a, <2>1 DEF HandlersTyped, OwnerHandles, HandlesOwn, Handling, OneWay
  <2>3. \A c \in Conns : mem'[c] = "none" <=> mem[c] = "none"
    BY <2>1, <2>2 DEF ConnTypeOK
  <2> QED  BY <1>b, <2>1, <2>3
<1>8. ASSUME NEW w \in Workers, TakeTask(w) \/ FinishTask(w)
      PROVE  Goal
  BY <1>b, <1>8 DEF TakeTask, FinishTask, connVars
<1>9. CASE UNCHANGED vars
  BY <1>b, <1>9 DEF vars, connVars
<1> QED
  BY <1>1, <1>2, <1>3, <1>4, <1>5, <1>6, <1>7, <1>8, <1>9
  DEF Next, PeerStep, IoStep, ListenEvent, QueueEvent, SocketEvent, HandlerStep,
      Close, WorkerStep

(* In the service alone nobody else holds references. *)
LEMMA NoOtherRefs ==
    ASSUME RefExact, NEW e, e = [c \in Conns |-> 0]
    PROVE  RefsAre(e)
<1>1. \A c \in Conns : Cardinality(MessagesOf(c)) \in Nat /\ MessagesOf(c) \in SUBSET msgs
  BY FS_Subset, FS_CardinalityType DEF RefExact, MessagesOf
<1> QED  BY <1>1 DEF RefExact, RefsAre

LEMMA NextRef ==
    TypeInv /\ OneWay /\ OwnerHandles /\ OnePlace /\ RequestsDecoded /\ MessagesTaken
        /\ RefExact /\ [Next]_vars => RefExact'
<1> SUFFICES ASSUME TypeInv, OneWay, OwnerHandles, OnePlace, RequestsDecoded,
                    MessagesTaken, RefExact, [Next]_vars
             PROVE  RefExact'
  OBVIOUS
<1>1. PICK e : e = [c \in Conns |-> 0]
  OBVIOUS
<1>2. MessagesExist
  BY DEF MessagesExist, MessagesTaken, OneWay, TypeInv, TypeOK, MessageTypeOK, Messages
<1>4. RefsAre(e)
  BY <1>1, NoOtherRefs
<1>5. RefsAre(e)'
  BY <1>1, <1>2, <1>4, NextRefs
<1>6. (\A c \in Conns : Cardinality(MessagesOf(c)) \in Nat)'
  <2>1. ASSUME NEW c \in Conns PROVE (Cardinality(MessagesOf(c)) \in Nat)'
    BY <1>5, FS_Subset, FS_CardinalityType DEF RefsAre, MessagesOf
  <2> QED  BY <2>1
<1> QED  BY <1>1, <1>5, <1>6 DEF RefExact, RefsAre

(***************************************************************************)
(* A descriptor is its connection's from accept to xv_close, and the close *)
(* of a connection gets past its test of ref_count only when no message    *)
(* points to the connection.                                               *)
(***************************************************************************)
LEMMA NextDescriptors ==
    ASSUME TypeInv, OneWay, OwnerHandles, OnePlace, NEW e \in [Conns -> Nat],
           RefsAre(e), DescriptorsOwned, [Next]_vars
    PROVE  DescriptorsOwned'
<1> USE ServiceConstants DEF TypeInv, TypeOK
<1>a. \A t \in IoThreads : t # NULL
  BY DEF IoThreads
<1>b. ASSUME NEW u \in IoThreads,
             UNCHANGED <<fd, fdOwner>>,
             msgs' \subseteq msgs,
             iopc'[u] \in {"checkref", "del", "closefd", "free"} =>
                iopc'[u] = iopc[u] /\ ioc'[u] = ioc[u]
      PROVE  ReleasesOwn(u)'
  <2>1. ReleasesOwn(u)
    BY DEF DescriptorsOwned
  <2> QED  BY <1>b, <2>1 DEF ReleasesOwn, OwnsFd, MessagesOf
<1>c. ASSUME UNCHANGED <<status, fd, fdOwner>>,
             \A c \in Conns : mem'[c] = "none" <=> mem[c] = "none",
             \A u \in IoThreads : ReleasesOwn(u)'
      PROVE  DescriptorsOwned'
  BY <1>c DEF DescriptorsOwned, OwnsFd
<1>d. ASSUME UNCHANGED <<status, fd, fdOwner>>,
             \A c \in Conns : mem'[c] = "none" <=> mem[c] = "none",
             msgs' \subseteq msgs,
             \A u \in IoThreads :
                iopc'[u] \in {"checkref", "del", "closefd", "free"} =>
                    iopc'[u] = iopc[u] /\ ioc'[u] = ioc[u]
      PROVE  DescriptorsOwned'
  BY <1>b, <1>c, <1>d
<1>e. \A u \in IoThreads : iopc[u] \in Handling =>
        ioc[u] \in Conns /\ io_thread[ioc[u]] = u /\ mem[ioc[u]] # "none"
  BY <1>a DEF HandlersTyped, OwnerHandles, HandlesOwn, Handling, OneWay
<1>1. ASSUME NEW c \in Conns,
             \/ Connect(c) \/ PeerSend(c) \/ PeerClose(c)
             \/ \E t \in IoThreads : AcceptFails(t, c)
      PROVE  DescriptorsOwned'
  BY <1>d, <1>1 DEF Connect, PeerSend, PeerClose, AcceptFails, connVars, ioVars
<1>2. ASSUME NEW t \in IoThreads, NEW c \in Conns, Accept(t, c)
      PROVE  DescriptorsOwned'
  <2>1. PICK f \in Fds : fdOwner[f] = NULL /\ fdOwner' = [fdOwner EXCEPT ![f] = c]
                            /\ fd' = [fd EXCEPT ![c] = f]
    BY <1>2 DEF Accept, xv_tcp_accept, xv_connection_init
  <2>2. /\ mem' = [mem EXCEPT ![c] = "live"]
        /\ UNCHANGED <<status, msgs>>
        /\ \/ Goto(t, "grow", c, NULL, "poll")
           \/ Goto(t, "accepted", c, NULL, "poll")
        /\ c \in backlog
    BY <1>2 DEF Accept, xv_connection_init
  <2>3. mem[c] = "none"
    BY <2>2 DEF OneWay
  <2>4. OwnsFd(c)'
    BY <2>1 DEF OwnsFd, ConnTypeOK
  <2>5. ASSUME NEW d \in Conns, d # c, OwnsFd(d)
        PROVE  OwnsFd(d)'
    <3>1. fd[d] # f
      BY <2>1, <2>5 DEF OwnsFd
    <3> QED  BY <2>1, <2>5, <3>1 DEF OwnsFd, ConnTypeOK
  <2>6. ASSUME NEW u \in IoThreads
        PROVE  ReleasesOwn(u)'
    <3>1. iopc'[u] \in {"checkref", "del", "closefd", "free"} =>
            iopc'[u] = iopc[u] /\ ioc'[u] = ioc[u]
      BY <2>2 DEF Goto, IoTypeOK
    <3>2. iopc[u] \in Handling => ioc[u] \in Conns /\ ioc[u] # c
      BY <1>e, <2>3
    <3>3. ReleasesOwn(u)
      BY DEF DescriptorsOwned
    <3>4. ASSUME iopc'[u] \in {"checkref", "del", "closefd"}
          PROVE  OwnsFd(ioc[u])'
      <4>1. iopc[u] \in Handling /\ ioc'[u] = ioc[u] /\ OwnsFd(ioc[u])
        BY <3>1, <3>3, <3>4 DEF ReleasesOwn, Handling
      <4>2. OwnsFd(ioc[u])'
        BY <2>1, <3>2, <4>1 DEF OwnsFd, ConnTypeOK
      <4> QED  BY <4>2
    <3>5. iopc'[u] \in {"del", "closefd", "free"} => MessagesOf(ioc[u])' = {}
      BY <2>2, <3>1, <3>3 DEF ReleasesOwn, MessagesOf
    <3> QED  BY <3>4, <3>5 DEF ReleasesOwn
  <2>7. ASSUME NEW d \in Conns, mem'[d] # "none", status'[d] = "OPEN"
        PROVE  OwnsFd(d)'
    <3>1. d # c => mem[d] # "none"
      BY <2>2, <2>7 DEF ConnTypeOK
    <3> QED  BY <2>2, <2>4, <2>5, <2>7, <3>1 DEF DescriptorsOwned
  <2>8. ASSUME NEW g \in Fds, fdOwner'[g] # NULL
        PROVE  fd'[fdOwner'[g]] = g /\ mem'[fdOwner'[g]] # "none"
    <3>1. CASE g = f
      BY <2>1, <2>2, <3>1 DEF ConnTypeOK
    <3>2. CASE g # f
      <4>1. fdOwner'[g] = fdOwner[g] /\ fdOwner[g] \in Conns
        BY <2>1, <2>8, <3>2
      <4>2. fd[fdOwner[g]] = g /\ mem[fdOwner[g]] # "none"
        BY <2>8, <4>1 DEF DescriptorsOwned
      <4> QED  BY <2>1, <2>2, <2>3, <4>1, <4>2 DEF ConnTypeOK
    <3> QED  BY <3>1, <3>2
  <2> QED  BY <2>6, <2>7, <2>8 DEF DescriptorsOwned
<1>3. ASSUME NEW t \in IoThreads,
             \/ \E c : WriteEventFails(t, c)
             \/ \E c, n : ReadAndClose(t, c, n) \/ WriteEvent(t, c, n)
             \/ \E n : Reply(t, n)
             \/ Grow(t) \/ GrowDone(t) \/ ReturnMessage(t) \/ NoReply(t)
             \/ ReplyFails(t) \/ DestroyMessage(t) \/ Distribute(t) \/ AddConn(t)
      PROVE  DescriptorsOwned'
  <2>1. UNCHANGED <<status, fd, fdOwner, mem>>
    BY <1>3 DEF WriteEventFails, ReadAndClose, WriteEvent, Reply, Grow, GrowDone,
                ReturnMessage, NoReply, ReplyFails, DestroyMessage, Distribute,
                AddConn, connVars
  <2>2. msgs' \subseteq msgs
    BY <1>3 DEF WriteEventFails, ReadAndClose, WriteEvent, Reply, Grow, GrowDone,
                ReturnMessage, NoReply, ReplyFails, DestroyMessage, Distribute,
                AddConn, xv_message_destroy
  <2>3. \A u \in IoThreads :
          iopc'[u] \in {"checkref", "del", "closefd", "free"} =>
            iopc'[u] = iopc[u] /\ ioc'[u] = ioc[u]
    BY <1>3 DEF WriteEventFails, ReadAndClose, WriteEvent, Reply, Grow, GrowDone,
                ReturnMessage, NoReply, ReplyFails, DestroyMessage, Distribute,
                AddConn, BackToPoll, Goto, ioVars, IoTypeOK
  <2> QED  BY <1>d, <2>1, <2>2, <2>3
<1>4. ASSUME NEW t \in IoThreads, NEW c \in Conns, NEW n, ReadRequest(t, c, n)
      PROVE  DescriptorsOwned'
  <2>1. PICK m : /\ m.conn = c /\ msgs' = msgs \cup {m}
                 /\ UNCHANGED ioVars \/ Goto(t, "reply", c, m, "poll")
    BY <1>4 DEF ReadRequest, xv_message_init
  <2>2. UNCHANGED <<mem, status, fd, fdOwner>> /\ status[c] # "CLOSED"
    BY <1>4 DEF ReadRequest, Readable
  <2>3. ASSUME NEW u \in IoThreads
        PROVE  ReleasesOwn(u)'
    <3>1. iopc'[u] \in {"checkref", "del", "closefd", "free"} =>
            iopc'[u] = iopc[u] /\ ioc'[u] = ioc[u]
      BY <2>1 DEF Goto, ioVars, IoTypeOK
    <3>2. iopc[u] \in {"checkref", "del", "closefd", "free"} => ioc[u] # c
      BY <2>2 DEF OwnerHandles, HandlesOwn
    <3>3. iopc[u] \in {"del", "closefd", "free"} =>
            ioc[u] # c /\ MessagesOf(ioc[u]) = {}
      BY <3>2 DEF DescriptorsOwned, ReleasesOwn
    <3>4. iopc'[u] \in {"del", "closefd", "free"} => MessagesOf(ioc[u])' = {}
      BY <2>1, <3>1, <3>3 DEF MessagesOf
    <3>5. iopc'[u] \in {"checkref", "del", "closefd"} => OwnsFd(ioc[u])'
      BY <2>2, <3>1 DEF DescriptorsOwned, ReleasesOwn, OwnsFd
    <3> QED  BY <3>4, <3>5 DEF ReleasesOwn
  <2> QED  BY <1>c, <2>2, <2>3
<1>5. ASSUME NEW t \in IoThreads, DropMessage(t)
      PROVE  DescriptorsOwned'
  <2> DEFINE m == Head(message_queue[t])
  <2>1. /\ UNCHANGED <<status, fd, fdOwner, ioVars>>
        /\ msgs' = msgs \ {m}
        /\ mem' = [mem EXCEPT ![m.conn] = "freed"]
        /\ message_queue[t] \in Seq(Messages) /\ message_queue[t] # << >>
    BY <1>5 DEF DropMessage, xv_message_destroy, xv_connection_destroy, QueueTypeOK
  <2>2. m \in Messages /\ Queued(message_queue[t], m)
    BY <2>1, QueuedTail, HeadTailProperties
  <2> HIDE DEF m
  <2>3. m.conn \in Conns /\ mem[m.conn] # "none"
    BY <1>a, <2>2 DEF OwnerHandles, OneWay, Messages
  <2>4. \A c \in Conns : mem'[c] = "none" <=> mem[c] = "none"
    BY <2>1, <2>3 DEF ConnTypeOK
  <2> QED  BY <1>d, <2>1, <2>4 DEF ioVars
<1>6. ASSUME NEW t \in IoThreads, CloseMark(t)
      PROVE  DescriptorsOwned'
  <2> DEFINE c == ioc[t]
  <2>1. iopc[t] = "close" /\ c \in Conns /\ mem[c] # "none" /\ status[c] = "OPEN"
    BY <1>6, <1>e DEF CloseMark, OwnerHandles, HandlesOwn, Handling
  <2>2. /\ status' = [status EXCEPT ![c] = "CLOSED"]
        /\ iopc' = [iopc EXCEPT ![t] = "checkref"]
        /\ UNCHANGED <<mem, fd, fdOwner, msgs, ioc>>
    BY <1>6, <2>1 DEF CloseMark
  <2>3. ASSUME NEW u \in IoThreads, u # t
        PROVE  ReleasesOwn(u)'
    BY <1>b, <2>2, <2>3 DEF IoTypeOK
  <2>4. ReleasesOwn(t)'
    <3>1. OwnsFd(c)
      BY <2>1 DEF DescriptorsOwned
    <3> QED  BY <2>2, <3>1 DEF ReleasesOwn, OwnsFd, IoTypeOK
  <2>5. \A d \in Conns : status'[d] = "OPEN" => status[d] = "OPEN"
    BY <2>2 DEF ConnTypeOK
  <2> QED  BY <2>2, <2>3, <2>4, <2>5 DEF DescriptorsOwned, OwnsFd
<1>7. ASSUME NEW t \in IoThreads, CheckRef(t)
      PROVE  DescriptorsOwned'
  <2> DEFINE c == ioc[t]
  <2>1. /\ UNCHANGED <<mem, status, fd, fdOwner, msgs, ioc>>
        /\ iopc[t] = "checkref"
        /\ iopc' = [iopc EXCEPT ![t] = IF ref[c] > 1 THEN ioret[t] ELSE "del"]
    BY <1>7, ReleaseLabels DEF CheckRef, connVars
  <2>2. c \in Conns /\ mem[c] # "none"
    BY <1>e, <2>1 DEF Handling
  <2>3. ~(ref[c] > 1) => MessagesOf(c) = {}
    <3>1. IsFiniteSet(MessagesOf(c))
      BY FS_Subset DEF RefsAre, MessagesOf
    <3>2. Cardinality(MessagesOf(c)) \in Nat /\ e[c] \in Nat
      BY <2>2, <3>1, FS_CardinalityType
    <3>3. ref[c] = 1 + e[c] + Cardinality(MessagesOf(c))
      BY <2>2 DEF RefsAre
    <3>4. Cardinality(MessagesOf(c)) = 0 => MessagesOf(c) = {}
      BY <3>1, FS_EmptySet
    <3> QED  BY <3>2, <3>3, <3>4
  <2>4. OwnsFd(c)
    BY <2>1 DEF DescriptorsOwned, ReleasesOwn
  <2>5. ReleasesOwn(t)'
    BY <2>1, <2>3, <2>4 DEF ReleasesOwn, OwnsFd, MessagesOf, IoTypeOK
  <2>6. ASSUME NEW u \in IoThreads, u # t
        PROVE  ReleasesOwn(u)'
    BY <1>b, <2>1, <2>6 DEF IoTypeOK
  <2> QED  BY <1>c, <2>1, <2>5, <2>6
<1>8. ASSUME NEW t \in IoThreads, DelConnection(t) \/ FreeConnection(t)
      PROVE  DescriptorsOwned'
  <2>1. /\ UNCHANGED <<status, fd, fdOwner, msgs, ioc>>
        /\ iopc[t] \in {"del", "free"}
        /\ \/ iopc[t] = "del" /\ iopc' = [iopc EXCEPT ![t] = "closefd"]
           \/ iopc' = [iopc EXCEPT ![t] = ioret[t]]
        /\ UNCHANGED mem \/ mem' = [mem EXCEPT ![ioc[t]] = "freed"]
    BY <1>8, ReleaseLabels DEF DelConnection, FreeConnection,
                               xv_connection_destroy, connVars
  <2>2. ioc[t] \in Conns /\ mem[ioc[t]] # "none"
    BY <1>e, <2>1 DEF Handling
  <2>3. \A c \in Conns : mem'[c] = "none" <=> mem[c] = "none"
    BY <2>1, <2>2 DEF ConnTypeOK
  <2>4. ReleasesOwn(t)
    BY DEF DescriptorsOwned
  <2>5. ReleasesOwn(t)'
    BY <2>1, <2>4 DEF ReleasesOwn, OwnsFd, MessagesOf, IoTypeOK
  <2>6. ASSUME NEW u \in IoThreads, u # t
        PROVE  ReleasesOwn(u)'
    BY <1>b, <2>1, <2>6 DEF IoTypeOK
  <2> QED  BY <1>c, <2>1, <2>3, <2>5, <2>6
<1>9. ASSUME NEW t \in IoThreads, CloseFd(t)
      PROVE  DescriptorsOwned'
  <2> DEFINE c == ioc[t]
  <2>1. /\ UNCHANGED <<mem, status, fd, msgs, ioc>>
        /\ iopc[t] = "closefd"
        /\ iopc' = [iopc EXCEPT ![t] = "free"]
        /\ fdOwner' = [fdOwner EXCEPT ![fd[c]] = NULL]
    BY <1>9, ReleaseLabels DEF CloseFd, xv_close, connVars
  <2>2. /\ c \in Conns /\ io_thread[c] = t /\ status[c] = "CLOSED"
        /\ OwnsFd(c) /\ MessagesOf(c) = {}
    BY <1>e, <2>1 DEF Handling, OwnerHandles, HandlesOwn, DescriptorsOwned,
                      ReleasesOwn
  <2>3. ASSUME NEW d \in Conns, d # c, OwnsFd(d)
        PROVE  OwnsFd(d)'
    <3>1. fd[d] # fd[c]
      BY <2>2, <2>3 DEF OwnsFd
    <3> QED  BY <2>1, <2>3, <3>1 DEF OwnsFd
  <2>4. ReleasesOwn(t)'
    BY <2>1, <2>2 DEF ReleasesOwn, MessagesOf, IoTypeOK
  <2>5. ASSUME NEW u \in IoThreads, u # t
        PROVE  ReleasesOwn(u)'
    <3>1. iopc'[u] = iopc[u] /\ ioc'[u] = ioc[u]
      BY <2>1, <2>5 DEF IoTypeOK
    <3>2. iopc[u] \in Handling => ioc[u] \in Conns /\ ioc[u] # c
      BY <1>e, <2>2, <2>5
    <3>3. iopc[u] \in {"checkref", "del", "closefd"} => OwnsFd(ioc[u])
      BY DEF DescriptorsOwned, ReleasesOwn
    <3>4. iopc[u] \in {"checkref", "del", "closefd"} => OwnsFd(ioc[u])'
      BY <2>1, <2>2, <3>1, <3>2, <3>3 DEF OwnsFd, Handling
    <3>5. iopc[u] \in {"del", "closefd", "free"} => MessagesOf(ioc[u])' = {}
      BY <2>1, <3>1 DEF DescriptorsOwned, ReleasesOwn, MessagesOf
    <3> QED  BY <3>1, <3>4, <3>5 DEF ReleasesOwn
  <2>6. \A g \in Fds : fdOwner'[g] # NULL => fdOwner'[g] = fdOwner[g]
    BY <2>1
  <2> QED  BY <2>1, <2>2, <2>3, <2>4, <2>5, <2>6 DEF DescriptorsOwned
<1>10. ASSUME NEW w \in Workers, TakeTask(w) \/ FinishTask(w)
      PROVE  DescriptorsOwned'
  BY <1>d, <1>10 DEF TakeTask, FinishTask, connVars, ioVars
<1>11. CASE UNCHANGED vars
  BY <1>d, <1>11 DEF vars, connVars, ioVars
<1> QED
  BY <1>1, <1>2, <1>3, <1>4, <1>5, <1>6, <1>7, <1>8, <1>9, <1>10, <1>11
  DEF Next, PeerStep, IoStep, ListenEvent, QueueEvent, SocketEvent, HandlerStep,
      Close, WorkerStep

-----------------------------------------------------------------------------
LEMMA InitService == Init => CoreInv
<1> SUFFICES ASSUME Init PROVE CoreInv
  OBVIOUS
<1> USE ServiceConstants
<1>1. TypeInv
  BY InitType
<1>2. \A x : ~Queued(<< >>, x) /\ NoRepeat(<< >>)
  BY DEF Queued, NoRepeat
<1>3. OneWay
  BY <1>2 DEF Init, OneWay, Adding
<1>4. OwnerHandles
  BY <1>2 DEF Init, OwnerHandles, HandlesOwn, Handling, Carries
<1>5. OnePlace
  <2>1. \A k, x, m : ~Holds(k, x, m)
    BY <1>2 DEF Init, Holds, Carries
  <2> QED  BY <1>2, <2>1 DEF Init, OnePlace, OneHolder, QueuedOnce
<1>6. RequestsDecoded /\ MessagesTaken
  BY DEF Init, RequestsDecoded, MessagesTaken
<1>7. RefExact
  <2>1. \A c \in Conns : MessagesOf(c) = {}
    BY DEF Init, MessagesOf
  <2>2. \A c \in Conns : Cardinality(MessagesOf(c)) = 0
    BY <2>1, FS_EmptySet
  <2>3. IsFiniteSet(msgs)
    BY FS_EmptySet DEF Init
  <2> QED  BY <2>2, <2>3 DEF Init, RefExact
<1>8. DescriptorsOwned
  BY DEF Init, DescriptorsOwned, ReleasesOwn
<1> QED  BY <1>1, <1>3, <1>4, <1>5, <1>6, <1>7, <1>8 DEF CoreInv

LEMMA NextService == CoreInv /\ [Next]_vars => CoreInv'
<1> SUFFICES ASSUME CoreInv, [Next]_vars PROVE CoreInv'
  OBVIOUS
<1>1. /\ TypeInv /\ OneWay /\ OwnerHandles /\ OnePlace /\ RequestsDecoded /\ MessagesTaken
      /\ RefExact /\ DescriptorsOwned
  BY DEF CoreInv
<1>2. TypeInv' /\ OneWay' /\ OwnerHandles'
  BY <1>1, NextType, NextOneWay, NextOwner
<1>3. OnePlace' /\ RequestsDecoded' /\ MessagesTaken' /\ RefExact'
  BY <1>1, NextPlaces, NextDecoded, NextRef
<1>4. DescriptorsOwned'
  <2>1. PICK e : e = [c \in Conns |-> 0]
    OBVIOUS
  <2>2. e \in [Conns -> Nat] /\ RefsAre(e)
    BY <1>1, <2>1, NoOtherRefs
  <2> QED  BY <1>1, <2>2, NextDescriptors
<1> QED  BY <1>2, <1>3, <1>4 DEF CoreInv

(***************************************************************************)
(* The inductive invariant of the service: whatever the number of IO       *)
(* threads, workers, connections and descriptors, a connection takes one   *)
(* way to one IO thread, which alone handles it; a message is in one       *)
(* place; ref_count is exact; and a descriptor is its connection's.        *)
(***************************************************************************)
THEOREM ServiceSafe == Spec => []CoreInv
<1>1. SafeSpec => []CoreInv
  BY InitService, NextService, PTL DEF SafeSpec
<1> QED  BY <1>1, PTL DEF Spec

(***************************************************************************)
(* conn->ref_count is one more than the messages that point to the         *)
(* connection, in every state of every run.                                *)
(***************************************************************************)
THEOREM RefCountExact == Spec => []RefCounted
<1>1. CoreInv => RefCounted
  BY DEF CoreInv, RefExact, RefCounted
<1> QED  BY <1>1, ServiceSafe, PTL

(***************************************************************************)
(* No IO thread reads, writes, waits on or closes a descriptor that the    *)
(* kernel has given to another connection.                                 *)
(***************************************************************************)
THEOREM NoForeignDescriptor == Spec => []OwnDescriptor
<1>1. ASSUME CoreInv PROVE OwnDescriptor
  <2>1. OwnerHandles /\ DescriptorsOwned
    BY <1>1 DEF CoreInv
  <2>2. \A c \in Conns : rio[c] \/ wio[c] => status[c] = "OPEN"
    BY <2>1 DEF OwnerHandles
  <2> QED  BY <2>1, <2>2 DEF DescriptorsOwned, ReleasesOwn, OwnsFd, OwnDescriptor
<1> QED  BY <1>1, ServiceSafe, PTL

(* What no step does to a closed connection. *)
Final ==
    \A c \in Conns : status[c] = "CLOSED" =>
        /\ status'[c] = "CLOSED"
        /\ ndisc'[c] = ndisc[c]
        /\ outp'[c] = outp[c]

LEMMA NextFinal == ASSUME CoreInv, [Next]_vars PROVE Final
<1> USE DEF TypeInv, TypeOK, Final
<1>0. TypeInv /\ OwnerHandles
  BY DEF CoreInv
<1>a. ASSUME UNCHANGED <<status, ndisc, outp>>
      PROVE  Final
  BY <1>a
<1>1. ASSUME NEW c \in Conns, PeerStep(c)
      PROVE  Final
  BY <1>1, <1>a DEF PeerStep, Connect, PeerSend, PeerClose, connVars, streamVars
<1>2. ASSUME NEW t \in IoThreads, NEW c, NEW n, ReadRequest(t, c, n) \/ ReadAndClose(t, c, n)
      PROVE  Final
  BY <1>2, <1>a DEF ReadRequest, ReadAndClose, connVars
<1>3. ASSUME NEW t \in IoThreads,
             \/ \E c : Accept(t, c) \/ AcceptFails(t, c) \/ WriteEventFails(t, c)
             \/ QueueEvent(t)
             \/ Grow(t) \/ GrowDone(t) \/ Distribute(t) \/ NoReply(t)
             \/ ReplyFails(t) \/ DestroyMessage(t) \/ CheckRef(t)
             \/ DelConnection(t) \/ CloseFd(t) \/ FreeConnection(t)
      PROVE  Final
  <2>1. UNCHANGED <<status, ndisc, outp>>
    BY <1>3 DEF Accept, AcceptFails, WriteEventFails, QueueEvent, AddConn,
                ReturnMessage, DropMessage, Grow, GrowDone, Distribute, NoReply,
                ReplyFails, DestroyMessage, CheckRef, DelConnection, CloseFd,
                FreeConnection, connVars, streamVars
  <2> QED  BY <1>a, <2>1
<1>4. ASSUME NEW t \in IoThreads, NEW n, Reply(t, n)
      PROVE  Final
  <2>1. /\ UNCHANGED <<status, ndisc>>
        /\ \E x : outp' = [outp EXCEPT ![ioc[t]] = x]
        /\ status[ioc[t]] = "OPEN"
    BY <1>0, <1>4 DEF Reply, WriteOut, OwnerHandles, HandlesOwn
  <2> QED  BY <1>0, <2>1 DEF StreamTypeOK
<1>5. ASSUME NEW t \in IoThreads, NEW c \in Conns, NEW n, WriteEvent(t, c, n)
      PROVE  Final
  <2>1. /\ UNCHANGED <<status, ndisc>>
        /\ \E x : outp' = [outp EXCEPT ![c] = x]
        /\ status[c] = "OPEN"
    BY <1>0, <1>5 DEF WriteEvent, Writeable, WriteOut, OwnerHandles
  <2> QED  BY <1>0, <2>1 DEF StreamTypeOK
<1>6. ASSUME NEW t \in IoThreads, CloseMark(t)
      PROVE  Final
  <2>1. status[ioc[t]] = "OPEN"
    BY <1>0, <1>6 DEF CloseMark, OwnerHandles, HandlesOwn
  <2>2. /\ UNCHANGED outp
        /\ status' = [status EXCEPT ![ioc[t]] = "CLOSED"]
        /\ ndisc' = [ndisc EXCEPT ![ioc[t]] = @ + 1]
    BY <1>6, <2>1 DEF CloseMark, streamVars
  <2> QED  BY <1>0, <2>1, <2>2 DEF ConnTypeOK
<1>7. ASSUME NEW w \in Workers, WorkerStep(w)
      PROVE  Final
  BY <1>7, <1>a DEF WorkerStep, TakeTask, FinishTask, connVars, streamVars
<1>8. CASE UNCHANGED vars
  BY <1>8, <1>a DEF vars, connVars, streamVars
<1> QED
  BY <1>1, <1>2, <1>3, <1>4, <1>5, <1>6, <1>7, <1>8
  DEF Next, IoStep, ListenEvent, SocketEvent, HandlerStep, Close

(***************************************************************************)
(* After xv_connection_close has marked a connection, no handler opens it  *)
(* again, calls on_disconnect once more or writes to its peer: those that  *)
(* do so run in the owner, which has seen the connection open.             *)
(***************************************************************************)
THEOREM NothingAfterClose == Spec => ClosedIsFinal
<1>1. CoreInv /\ [Next]_vars => [Final]_vars
  BY NextFinal
<1> QED  BY <1>1, ServiceSafe, PTL DEF Spec, SafeSpec, ClosedIsFinal, Final

-----------------------------------------------------------------------------
(* The same for what needs a condition on the constants: the table. *)

LEMMA InitTable == Init => TableInv
<1> SUFFICES ASSUME Init PROVE TableInv
  OBVIOUS
<1> USE ServiceConstants
<1>1. Entries = {}
  BY DEF Init, Entries
<1>2. conn_count = Cardinality(Entries)
  BY <1>1, FS_EmptySet DEF Init
<1> QED  BY <1>1, <1>2 DEF Init, TableInv, EntryOf

(* One entry more, or less. *)
LEMMA EntriesFinite ==
    ASSUME TableInv
    PROVE  IsFiniteSet(Entries) /\ Cardinality(Entries) \in Nat
<1> USE ServiceConstants
<1>1. IsFiniteSet(0..(ConnSetSize - 1))
  BY FS_Interval
<1>2. Entries \in SUBSET (0..(ConnSetSize - 1))
  BY DEF TableInv, Entries
<1>3. IsFiniteSet(Entries)
  BY <1>1, <1>2, FS_Subset
<1> QED  BY <1>3, FS_CardinalityType

LEMMA NextTable ==
    FdsFit /\ CoreInv /\ TableInv /\ [Next]_vars => TableInv'
<1> SUFFICES ASSUME FdsFit, CoreInv, TableInv, [Next]_vars
             PROVE  TableInv'
  OBVIOUS
<1>0. TypeInv /\ OneWay /\ OwnerHandles /\ DescriptorsOwned
  BY DEF CoreInv
<1> USE <1>0, ServiceConstants DEF TypeInv, TypeOK
<1>a. \A t \in IoThreads : t # NULL
  BY DEF IoThreads
<1>b. ASSUME UNCHANGED <<tableVars, fd, fdOwner>>,
             \A c \in Conns : mem'[c] = "none" <=> mem[c] = "none",
             \A c \in Conns : status'[c] = "OPEN" => status[c] = "OPEN",
             \A u \in IoThreads : EntryOf(u)'
      PROVE  TableInv'
  BY <1>b DEF TableInv, Entries, tableVars
<1>c. ASSUME UNCHANGED <<table, fd>>, NEW u \in IoThreads,
             iopc'[u] \in {"grow", "checkref", "del", "closefd"} =>
                iopc'[u] = iopc[u] /\ ioc'[u] = ioc[u]
      PROVE  EntryOf(u)'
  <2>1. EntryOf(u)
    BY DEF TableInv
  <2> QED  BY <1>c, <2>1 DEF EntryOf
<1>d. ASSUME UNCHANGED <<tableVars, fd, fdOwner, status>>,
             \A c \in Conns : mem'[c] = "none" <=> mem[c] = "none",
             \A u \in IoThreads :
                iopc'[u] \in {"grow", "checkref", "del", "closefd"} =>
                    iopc'[u] = iopc[u] /\ ioc'[u] = ioc[u]
      PROVE  TableInv'
  <2>1. \A u \in IoThreads : EntryOf(u)'
    BY <1>c, <1>d DEF tableVars
  <2> QED  BY <1>b, <1>d, <2>1
<1>e. \A u \in IoThreads : iopc[u] \in Handling =>
        ioc[u] \in Conns /\ io_thread[ioc[u]] = u /\ mem[ioc[u]] # "none"
  BY <1>a DEF HandlersTyped, OwnerHandles, HandlesOwn, Handling, OneWay
<1>f. \A u \in IoThreads : iopc[u] \in {"checkref", "del", "closefd"} => OwnsFd(ioc[u])
  BY DEF DescriptorsOwned, ReleasesOwn
<1>g. \A f \in Fds : f \in 0..(ConnSetSize - 1)
  BY DEF FdsFit
<1>1. ASSUME NEW c \in Conns,
             \/ Connect(c) \/ PeerSend(c) \/ PeerClose(c)
             \/ \E t \in IoThreads : AcceptFails(t, c)
      PROVE  TableInv'
  BY <1>d, <1>1 DEF Connect, PeerSend, PeerClose, AcceptFails, connVars, ioVars
<1>2. ASSUME NEW t \in IoThreads, NEW c \in Conns, Accept(t, c)
      PROVE  TableInv'
  <2>1. PICK f \in Fds :
            /\ fdOwner[f] = NULL /\ fdOwner' = [fdOwner EXCEPT ![f] = c]
            /\ fd' = [fd EXCEPT ![c] = f]
            /\ IF MustGrow(f)
               THEN UNCHANGED tableVars /\ Goto(t, "grow", c, NULL, "poll")
               ELSE /\ xv_service_add_connection(c, f)
                    /\ Goto(t, "accepted", c, NULL, "poll")
    BY <1>2 DEF Accept, xv_tcp_accept, xv_connection_init
  <2>2. f \in 0..(ConnSetSize - 1) /\ ~ MustGrow(f)
    BY DEF FdsFit, MustGrow, TableInv
  <2>3. /\ table' = Store(table, f, c)
        /\ conn_count' = conn_count + 1
        /\ UNCHANGED <<new_table, conn_setsize>>
        /\ Goto(t, "accepted", c, NULL, "poll")
    BY <2>1, <2>2 DEF xv_service_add_connection
  <2>4. /\ DOMAIN table = 0..(ConnSetSize - 1)
        /\ DOMAIN table' = 0..(ConnSetSize - 1)
        /\ table'[f] = c
        /\ \A i \in 0..(ConnSetSize - 1) : i # f => table'[i] = table[i]
    BY <2>2, <2>3 DEF Store, TableInv
  <2>5. /\ mem' = [mem EXCEPT ![c] = "live"]
        /\ UNCHANGED status
        /\ mem[c] = "none"
    BY <1>2 DEF Accept, xv_connection_init, OneWay
  <2>6. f \notin Entries
    BY <2>1 DEF TableInv, Entries
  <2>7. Entries' = Entries \cup {f}
    BY <2>2, <2>4 DEF Entries
  <2>8. conn_count' = Cardinality(Entries')
    <3>1. IsFiniteSet(Entries) /\ Cardinality(Entries) \in Nat
      BY EntriesFinite
    <3>2. Cardinality(Entries \cup {f}) = Cardinality(Entries) + 1
      BY <2>6, <3>1, FS_AddElement
    <3> QED  BY <2>3, <2>7, <3>2 DEF TableInv
  <2>9. \A i \in Entries' : i \in Fds /\ fdOwner'[i] = table'[i]
    <3>1. \A i \in Entries : i \in Fds /\ i # f /\ i \in 0..(ConnSetSize - 1)
      BY <2>4, <2>6 DEF TableInv, Entries
    <3>2. \A i \in Entries : fdOwner'[i] = fdOwner[i] /\ table'[i] = table[i]
      BY <2>1, <2>4, <3>1
    <3>3. fdOwner'[f] = c
      BY <2>1
    <3> QED  BY <2>4, <2>7, <3>1, <3>2, <3>3 DEF TableInv
  <2>10. ASSUME NEW d \in Conns, d # c, OwnsFd(d)
         PROVE  fd'[d] = fd[d] /\ table'[fd[d]] = table[fd[d]]
    <3>1. fd[d] \in Fds /\ fd[d] # f /\ fd'[d] = fd[d]
      BY <2>1, <2>10 DEF OwnsFd, ConnTypeOK
    <3>2. fd[d] \in 0..(ConnSetSize - 1)
      BY <1>g, <3>1
    <3> QED  BY <2>4, <3>1, <3>2
  <2>11. ASSUME NEW d \in Conns, mem'[d] # "none", status'[d] = "OPEN"
         PROVE  table'[fd'[d]] = d
    <3>1. CASE d = c
      BY <2>1, <2>4, <3>1 DEF ConnTypeOK
    <3>2. CASE d # c
      <4>1. mem[d] # "none" /\ status[d] = "OPEN"
        BY <2>5, <2>11, <3>2 DEF ConnTypeOK
      <4>2. OwnsFd(d) /\ table[fd[d]] = d
        BY <4>1 DEF DescriptorsOwned, TableInv
      <4> QED  BY <2>10, <3>2, <4>2
    <3> QED  BY <3>1, <3>2
  <2>12. ASSUME NEW u \in IoThreads
         PROVE  EntryOf(u)'
    <3>1. /\ iopc'[u] # "grow"
          /\ iopc'[u] \in {"checkref", "del", "closefd"} =>
                iopc'[u] = iopc[u] /\ ioc'[u] = ioc[u]
      BY <2>3 DEF Goto, IoTypeOK, TableInv, EntryOf
    <3>2. iopc[u] \in {"checkref", "del", "closefd"} =>
            ioc[u] \in Conns /\ ioc[u] # c /\ OwnsFd(ioc[u])
      BY <1>e, <1>f, <2>5 DEF Handling
    <3>3. iopc[u] \in {"checkref", "del", "closefd"} =>
            fd'[ioc[u]] = fd[ioc[u]] /\ table'[fd[ioc[u]]] = table[fd[ioc[u]]]
      BY <2>10, <3>2
    <3>4. EntryOf(u)
      BY DEF TableInv
    <3> QED  BY <3>1, <3>3, <3>4 DEF EntryOf
  <2> QED  BY <2>3, <2>4, <2>8, <2>9, <2>11, <2>12 DEF TableInv
<1>3. ASSUME NEW t \in IoThreads,
             \/ \E c : WriteEventFails(t, c)
             \/ \E c, n : ReadAndClose(t, c, n) \/ WriteEvent(t, c, n)
             \/ \E n : Reply(t, n)
             \/ ReturnMessage(t) \/ NoReply(t) \/ ReplyFails(t)
             \/ DestroyMessage(t) \/ Distribute(t) \/ AddConn(t)
      PROVE  TableInv'
  <2>1. UNCHANGED <<status, fd, fdOwner, mem, tableVars>>
    BY <1>3 DEF WriteEventFails, ReadAndClose, WriteEvent, Reply,
                ReturnMessage, NoReply, ReplyFails, DestroyMessage, Distribute,
                AddConn, connVars
  <2>2. \A u \in IoThreads :
          iopc'[u] \in {"grow", "checkref", "del", "closefd"} =>
            iopc'[u] = iopc[u] /\ ioc'[u] = ioc[u]
    BY <1>3 DEF WriteEventFails, ReadAndClose, WriteEvent, Reply,
                ReturnMessage, NoReply, ReplyFails, DestroyMessage, Distribute,
                AddConn, BackToPoll, Goto, ioVars, IoTypeOK
  <2> QED  BY <1>d, <2>1, <2>2
<1>4. ASSUME NEW t \in IoThreads, NEW c \in Conns, NEW n, ReadRequest(t, c, n)
       PROVE  TableInv'
  <2>1. /\ UNCHANGED <<status, fd, fdOwner, mem, tableVars>>
        /\ UNCHANGED ioVars \/ \E m : Goto(t, "reply", c, m, "poll")
    BY <1>4 DEF ReadRequest
  <2>2. \A u \in IoThreads :
          iopc'[u] \in {"grow", "checkref", "del", "closefd"} =>
            iopc'[u] = iopc[u] /\ ioc'[u] = ioc[u]
    BY <2>1 DEF Goto, ioVars, IoTypeOK
  <2> QED  BY <1>d, <2>1, <2>2
<1>5. ASSUME NEW t \in IoThreads, Grow(t) \/ GrowDone(t)
      PROVE  TableInv'
  BY <1>5 DEF Grow, GrowDone, TableInv, EntryOf
<1>6. ASSUME NEW t \in IoThreads, DropMessage(t)
      PROVE  TableInv'
  <2> DEFINE m == Head(message_queue[t])
  <2>1. /\ UNCHANGED <<status, fd, fdOwner, ioVars, tableVars>>
        /\ mem' = [mem EXCEPT ![m.conn] = "freed"]
        /\ message_queue[t] \in Seq(Messages) /\ message_queue[t] # << >>
    BY <1>6 DEF DropMessage, xv_connection_destroy, QueueTypeOK
  <2>2. m \in Messages /\ Queued(message_queue[t], m)
    BY <2>1, QueuedTail, HeadTailProperties
  <2> HIDE DEF m
  <2>3. m.conn \in Conns /\ mem[m.conn] # "none"
    BY <1>a, <2>2 DEF OwnerHandles, OneWay, Messages
  <2>4. \A c \in Conns : mem'[c] = "none" <=> mem[c] = "none"
    BY <2>1, <2>3 DEF ConnTypeOK
  <2> QED  BY <1>d, <2>1, <2>4 DEF ioVars
<1>7. ASSUME NEW t \in IoThreads, CloseMark(t)
      PROVE  TableInv'
  <2> DEFINE c == ioc[t]
  <2>1. iopc[t] = "close" /\ c \in Conns /\ mem[c] # "none" /\ status[c] = "OPEN"
    BY <1>7, <1>e DEF CloseMark, OwnerHandles, HandlesOwn, Handling
  <2>2. /\ status' = [status EXCEPT ![c] = "CLOSED"]
        /\ iopc' = [iopc EXCEPT ![t] = "checkref"]
        /\ UNCHANGED <<mem, fd, fdOwner, tableVars, ioc>>
    BY <1>7, <2>1 DEF CloseMark
  <2>3. ASSUME NEW u \in IoThreads, u # t
        PROVE  EntryOf(u)'
    BY <1>c, <2>2, <2>3 DEF IoTypeOK, tableVars
  <2>4. EntryOf(t)'
    BY <2>1, <2>2 DEF EntryOf, IoTypeOK, TableInv, tableVars
  <2>5. \A d \in Conns : status'[d] = "OPEN" => status[d] = "OPEN"
    BY <2>2 DEF ConnTypeOK
  <2> QED  BY <1>b, <2>2, <2>3, <2>4, <2>5
<1>8. ASSUME NEW t \in IoThreads, CheckRef(t) \/ FreeConnection(t)
      PROVE  TableInv'
  <2>1. /\ UNCHANGED <<status, fd, fdOwner, tableVars, ioc>>
        /\ iopc[t] \in {"checkref", "free"}
        /\ \/ iopc[t] = "checkref" /\ iopc' = [iopc EXCEPT ![t] = "del"]
           \/ iopc' = [iopc EXCEPT ![t] = ioret[t]]
        /\ UNCHANGED mem \/ mem' = [mem EXCEPT ![ioc[t]] = "freed"]
    BY <1>8, ReleaseLabels DEF CheckRef, FreeConnection, xv_connection_destroy,
                               connVars
  <2>2. ioc[t] \in Conns /\ mem[ioc[t]] # "none"
    BY <1>e, <2>1 DEF Handling
  <2>3. \A c \in Conns : mem'[c] = "none" <=> mem[c] = "none"
    BY <2>1, <2>2 DEF ConnTypeOK
  <2>4. EntryOf(t)
    BY DEF TableInv
  <2>5. EntryOf(t)'
    BY <2>1, <2>4 DEF EntryOf, IoTypeOK, tableVars
  <2>6. ASSUME NEW u \in IoThreads, u # t
        PROVE  EntryOf(u)'
    BY <1>c, <2>1, <2>6 DEF IoTypeOK, tableVars
  <2> QED  BY <1>b, <2>1, <2>3, <2>5, <2>6
<1>9. ASSUME NEW t \in IoThreads, DelConnection(t)
      PROVE  TableInv'
  <2> DEFINE c == ioc[t]
             f == fd[c]
  <2>1. iopc[t] = "del" /\ c \in Conns /\ io_thread[c] = t /\ status[c] = "CLOSED"
    BY <1>9, <1>e DEF DelConnection, Handling, OwnerHandles, HandlesOwn
  <2>2. OwnsFd(c) /\ table[f] = c
    BY <1>f, <2>1 DEF TableInv, EntryOf
  <2>3. f \in Fds /\ f \in 0..(ConnSetSize - 1) /\ f < conn_setsize
    <3>1. f \in Fds
      BY <2>2 DEF OwnsFd
    <3>2. f \in 0..(ConnSetSize - 1) /\ conn_setsize = ConnSetSize
      BY <1>g, <3>1 DEF TableInv
    <3> HIDE DEF f
    <3> QED  BY <3>1, <3>2
  <2>4. /\ table' = [table EXCEPT ![f] = NULL]
        /\ conn_count' = conn_count - 1
        /\ UNCHANGED <<new_table, conn_setsize, mem, status, fd, fdOwner, ioc>>
        /\ iopc' = [iopc EXCEPT ![t] = "closefd"]
    BY <1>9, <2>3, ReleaseLabels DEF DelConnection, connVars
  <2> HIDE DEF f
  <2>5. /\ DOMAIN table = 0..(ConnSetSize - 1)
        /\ DOMAIN table' = 0..(ConnSetSize - 1)
        /\ table'[f] = NULL
        /\ \A i \in 0..(ConnSetSize - 1) : i # f => table'[i] = table[i]
    BY <2>3, <2>4 DEF TableInv
  <2>6. f \in Entries /\ Entries' = Entries \ {f}
    BY <2>1, <2>2, <2>3, <2>5 DEF Entries, f
  <2>7. conn_count' = Cardinality(Entries')
    <3>1. IsFiniteSet(Entries) /\ Cardinality(Entries) \in Nat
      BY EntriesFinite
    <3>2. Cardinality(Entries \ {f}) = Cardinality(Entries) - 1
      BY <2>6, <3>1, FS_RemoveElement
    <3> QED  BY <2>4, <2>6, <3>2 DEF TableInv
  <2>8. \A i \in Entries' : i \in Fds /\ fdOwner'[i] = table'[i]
    <3>1. \A i \in Entries' : i \in Entries /\ i # f /\ i \in 0..(ConnSetSize - 1)
      BY <2>5, <2>6 DEF Entries
    <3> QED  BY <2>4, <2>5, <3>1 DEF TableInv
  <2>9. ASSUME NEW d \in Conns, d # c, OwnsFd(d)
        PROVE  table'[fd[d]] = table[fd[d]]
    <3>1. fd[d] \in Fds /\ fd[d] # f
      BY <2>2, <2>9 DEF OwnsFd, f
    <3>2. fd[d] \in 0..(ConnSetSize - 1)
      BY <1>g, <3>1
    <3> QED  BY <2>5, <3>1, <3>2
  <2>10. \A d \in Conns : mem'[d] # "none" /\ status'[d] = "OPEN" => table'[fd'[d]] = d
    BY <2>1, <2>4, <2>9 DEF DescriptorsOwned, TableInv
  <2>11. ASSUME NEW u \in IoThreads, u # t
         PROVE  EntryOf(u)'
    <3>1. iopc'[u] = iopc[u] /\ ioc'[u] = ioc[u]
      BY <2>4, <2>11 DEF IoTypeOK
    <3>2. iopc[u] \in {"checkref", "del", "closefd"} =>
            ioc[u] \in Conns /\ ioc[u] # c /\ OwnsFd(ioc[u])
      BY <1>e, <1>f, <2>1, <2>11 DEF Handling
    <3>3. iopc[u] \in {"checkref", "del", "closefd"} =>
            table'[fd[ioc[u]]] = table[fd[ioc[u]]]
      BY <2>9, <3>2
    <3>4. EntryOf(u)
      BY DEF TableInv
    <3> QED  BY <2>4, <3>1, <3>3, <3>4 DEF EntryOf
  <2>12. EntryOf(t)'
    <3>1. iopc'[t] = "closefd" /\ ioc'[t] = c /\ fd'[c] = f
      BY <2>4 DEF IoTypeOK, f
    <3>2. table'[f] # c
      BY <2>1, <2>5
    <3> QED  BY <3>1, <3>2 DEF EntryOf
  <2>13. \A u \in IoThreads : EntryOf(u)'
    BY <2>11, <2>12
  <2> QED  BY <2>4, <2>5, <2>7, <2>8, <2>10, <2>13 DEF TableInv
<1>10. ASSUME NEW t \in IoThreads, CloseFd(t)
      PROVE  TableInv'
  <2> DEFINE c == ioc[t]
             f == fd[c]
  <2>1. /\ UNCHANGED <<mem, status, fd, ioc, tableVars>>
        /\ iopc[t] = "closefd"
        /\ iopc' = [iopc EXCEPT ![t] = "free"]
        /\ fdOwner' = [fdOwner EXCEPT ![f] = NULL]
    BY <1>10, ReleaseLabels DEF CloseFd, xv_close, connVars
  <2>2. OwnsFd(c) /\ table[f] # c
    BY <1>f, <2>1 DEF TableInv, EntryOf
  <2> HIDE DEF f
  <2>3. f \notin Entries
    BY <2>2 DEF OwnsFd, TableInv, f
  <2>4. \A i \in Entries : i # f /\ i \in Fds
    BY <2>3 DEF TableInv
  <2>5. \A i \in Entries : i \in Fds /\ fdOwner'[i] = table[i]
    BY <2>1, <2>4 DEF TableInv
  <2>6. \A u \in IoThreads :
          iopc'[u] \in {"grow", "checkref", "del", "closefd"} =>
            iopc'[u] = iopc[u] /\ ioc'[u] = ioc[u]
    BY <2>1 DEF IoTypeOK
  <2>7. \A u \in IoThreads : EntryOf(u)'
    BY <1>c, <2>1, <2>6 DEF tableVars
  <2> QED  BY <2>1, <2>5, <2>7 DEF TableInv, Entries, tableVars
<1>11. ASSUME NEW w \in Workers, TakeTask(w) \/ FinishTask(w)
       PROVE  TableInv'
  BY <1>d, <1>11 DEF TakeTask, FinishTask, connVars, ioVars
<1>12. CASE UNCHANGED vars
  BY <1>d, <1>12 DEF vars, connVars, ioVars
<1> QED
  BY <1>1, <1>2, <1>3, <1>4, <1>5, <1>6, <1>7, <1>8, <1>9, <1>10, <1>11, <1>12
  DEF Next, PeerStep, IoStep, ListenEvent, QueueEvent, SocketEvent, HandlerStep,
      Close, WorkerStep

(***************************************************************************)
(* While descriptors stay below the table's first size, every open         *)
(* connection is in the table where xv_service_stop looks for it and       *)
(* conn_count is the number of entries, whatever the leader's additions    *)
(* and the followers' deletions interleave to.  (Beyond it they need not:  *)
(* the descriptor equal to the size is stored past the table's end, and an *)
(* entry a follower deletes during xv_realloc comes back.)                 *)
(***************************************************************************)
THEOREM TableComplete == FdsFit => (Spec => []TableExact)
<1>1. ASSUME FdsFit, CoreInv, TableInv PROVE TableExact
  <2>1. DescriptorsOwned
    BY <1>1 DEF CoreInv
  <2>2. ASSUME NEW c \in Conns, mem[c] = "live", status[c] = "OPEN"
        PROVE  fd[c] < conn_setsize /\ table[fd[c]] = c
    <3>1. fd[c] \in Fds
      BY <2>1, <2>2 DEF DescriptorsOwned, OwnsFd
    <3> QED  BY <1>1, <2>2, <3>1 DEF FdsFit, TableInv
  <2> QED  BY <1>1, <2>2 DEF TableExact, TableInv
<1>2. FdsFit /\ CoreInv /\ TableInv => TableExact
  BY <1>1
<1>3. ASSUME FdsFit PROVE Spec => []TableExact
  <2>1. CoreInv /\ TableInv /\ [Next]_vars => TableInv'
    BY <1>3, NextTable
  <2>2. CoreInv /\ TableInv => TableExact
    BY <1>2, <1>3
  <2> QED  BY InitTable, ServiceSafe, <2>1, <2>2, PTL DEF Spec, SafeSpec
<1> QED  BY <1>3

-----------------------------------------------------------------------------
(***************************************************************************)
(* Memory.  A connection is freed with messages that point to it only      *)
(* where io_thread_return_message_cb drops one of several messages of a    *)
(* closed connection.                                                      *)
(***************************************************************************)
LEMMA NextPin ==
    CoreInv /\ PinInv /\ (OneInFlight \/ NoReturns) /\ [Next]_vars => PinInv'
<1> SUFFICES ASSUME CoreInv, PinInv, OneInFlight \/ NoReturns, [Next]_vars
             PROVE  PinInv'
  OBVIOUS
<1>0. TypeInv /\ OneWay /\ OwnerHandles /\ OnePlace /\ DescriptorsOwned
  BY DEF CoreInv
<1> USE <1>0, ServiceConstants DEF TypeInv, TypeOK
<1> DEFINE Closing == {"checkref", "del", "closefd", "free"}
<1>a. \A t \in IoThreads : t # NULL
  BY DEF IoThreads
<1>b. ASSUME UNCHANGED mem,
             \A c \in Conns : status[c] = "CLOSED" => status'[c] = "CLOSED",
             msgs' \subseteq msgs,
             \A u \in IoThreads : iopc'[u] \in Closing =>
                iopc[u] \in Closing /\ ioc'[u] = ioc[u]
      PROVE  PinInv'
  BY <1>b DEF PinInv, MessagesOf
<1>e. \A u \in IoThreads : iopc[u] \in Handling =>
        ioc[u] \in Conns /\ io_thread[ioc[u]] = u /\ mem[ioc[u]] # "none"
  BY <1>a DEF HandlersTyped, OwnerHandles, HandlesOwn, Handling, OneWay
<1>1. ASSUME NEW c \in Conns,
             \/ Connect(c) \/ PeerSend(c) \/ PeerClose(c)
             \/ \E t \in IoThreads : AcceptFails(t, c)
      PROVE  PinInv'
  BY <1>b, <1>1 DEF Connect, PeerSend, PeerClose, AcceptFails, connVars, ioVars
<1>2. ASSUME NEW t \in IoThreads, NEW c \in Conns, Accept(t, c)
      PROVE  PinInv'
  <2>1. /\ mem' = [mem EXCEPT ![c] = "live"]
        /\ UNCHANGED <<status, msgs>>
        /\ \/ Goto(t, "grow", c, NULL, "poll")
           \/ Goto(t, "accepted", c, NULL, "poll")
    BY <1>2 DEF Accept, xv_connection_init
  <2>2. \A d \in Conns : /\ mem'[d] = "freed" => mem[d] = "freed"
                         /\ mem[d] = "live" => mem'[d] = "live"
    BY <2>1 DEF ConnTypeOK
  <2>3. \A u \in IoThreads : iopc'[u] \in Closing =>
          iopc[u] \in Closing /\ ioc'[u] = ioc[u] /\ ioc[u] \in Conns
    BY <1>e, <2>1 DEF Goto, IoTypeOK, Handling
  <2> QED  BY <2>1, <2>2, <2>3 DEF PinInv, MessagesOf
<1>3. ASSUME NEW t \in IoThreads,
             \/ \E c : WriteEventFails(t, c)
             \/ \E c, n : ReadAndClose(t, c, n) \/ WriteEvent(t, c, n)
             \/ \E n : Reply(t, n)
             \/ Grow(t) \/ GrowDone(t) \/ ReturnMessage(t) \/ NoReply(t)
             \/ ReplyFails(t) \/ DestroyMessage(t) \/ Distribute(t) \/ AddConn(t)
      PROVE  PinInv'
  <2>1. UNCHANGED <<status, mem>>
    BY <1>3 DEF WriteEventFails, ReadAndClose, WriteEvent, Reply, Grow, GrowDone,
                ReturnMessage, NoReply, ReplyFails, DestroyMessage, Distribute,
                AddConn, connVars
  <2>2. msgs' \subseteq msgs
    BY <1>3 DEF WriteEventFails, ReadAndClose, WriteEvent, Reply, Grow, GrowDone,
                ReturnMessage, NoReply, ReplyFails, DestroyMessage, Distribute,
                AddConn, xv_message_destroy
  <2>3. \A u \in IoThreads : iopc'[u] \in Closing =>
          iopc[u] \in Closing /\ ioc'[u] = ioc[u]
    BY <1>3 DEF WriteEventFails, ReadAndClose, WriteEvent, Reply, Grow, GrowDone,
                ReturnMessage, NoReply, ReplyFails, DestroyMessage, Distribute,
                AddConn, BackToPoll, Goto, ioVars, IoTypeOK
  <2> QED  BY <1>b, <2>1, <2>2, <2>3
<1>4. ASSUME NEW t \in IoThreads, NEW c \in Conns, NEW n, ReadRequest(t, c, n)
      PROVE  PinInv'
  <2>1. PICK m : /\ m.conn = c /\ msgs' = msgs \cup {m}
                 /\ UNCHANGED ioVars \/ Goto(t, "reply", c, m, "poll")
    BY <1>4 DEF ReadRequest, xv_message_init
  <2>2. UNCHANGED <<mem, status>> /\ status[c] # "CLOSED"
    BY <1>4 DEF ReadRequest, Readable
  <2>3. \A u \in IoThreads : iopc'[u] \in Closing =>
          iopc[u] \in Closing /\ ioc'[u] = ioc[u]
    BY <2>1 DEF Goto, ioVars, IoTypeOK
  <2>4. \A d \in Conns : d # c => MessagesOf(d)' = MessagesOf(d)
    BY <2>1 DEF MessagesOf
  <2> QED  BY <2>2, <2>3, <2>4 DEF PinInv
<1>5. ASSUME NEW t \in IoThreads, DropMessage(t)
      PROVE  PinInv'
  <2> DEFINE m == Head(message_queue[t])
  <2>1. /\ UNCHANGED <<status, ioVars>>
        /\ msgs' = msgs \ {m}
        /\ mem' = [mem EXCEPT ![m.conn] = "freed"]
        /\ message_queue[t] \in Seq(Messages) /\ message_queue[t] # << >>
        /\ iopc[t] = "poll" /\ status[m.conn] = "CLOSED"
    BY <1>5 DEF DropMessage, xv_message_destroy, xv_connection_destroy, QueueTypeOK
  <2>2. m \in Messages /\ Queued(message_queue[t], m)
    BY <2>1, QueuedTail, HeadTailProperties
  <2> HIDE DEF m
  <2>3. m.conn \in Conns /\ io_thread[m.conn] = t
    BY <2>2 DEF OwnerHandles, Messages
  <2>4. m \in msgs /\ OneInFlight
    BY <2>1, <2>2 DEF OnePlace, OneHolder, Holds, Kinds, Holders, NoReturns
  <2>5. \A d \in Conns : d = m.conn => MessagesOf(d)' = {}
    BY <2>1, <2>4 DEF MessagesOf, OneInFlight
  <2>6. \A d \in Conns : MessagesOf(d) = {} => MessagesOf(d)' = {}
    BY <2>1 DEF MessagesOf
  <2>7. \A u \in IoThreads : iopc[u] \in Closing =>
          ioc[u] \in Conns /\ ioc[u] # m.conn
    BY <1>e, <2>1, <2>3 DEF Handling
  <2>8. \A d \in Conns : mem'[d] = IF d = m.conn THEN "freed" ELSE mem[d]
    BY <2>1, <2>3 DEF ConnTypeOK
  <2> QED  BY <2>1, <2>3, <2>5, <2>6, <2>7, <2>8 DEF PinInv, ioVars
<1>6. ASSUME NEW t \in IoThreads, CloseMark(t)
      PROVE  PinInv'
  <2>1. /\ iopc[t] = "close" /\ ioc[t] \in Conns /\ mem[ioc[t]] # "none"
        /\ status[ioc[t]] = "OPEN"
    BY <1>6, <1>e DEF CloseMark, OwnerHandles, HandlesOwn, Handling
  <2>2. mem[ioc[t]] = "live"
    BY <2>1 DEF PinInv, ConnTypeOK
  <2>3. /\ status' = [status EXCEPT ![ioc[t]] = "CLOSED"]
        /\ iopc' = [iopc EXCEPT ![t] = "checkref"]
        /\ UNCHANGED <<mem, msgs, ioc>>
    BY <1>6, <2>1 DEF CloseMark
  <2>4. \A d \in Conns : status[d] = "CLOSED" => status'[d] = "CLOSED"
    BY <2>3 DEF ConnTypeOK
  <2>5. \A u \in IoThreads : u # t => iopc'[u] = iopc[u]
    BY <2>3 DEF IoTypeOK
  <2> QED  BY <2>2, <2>3, <2>4, <2>5 DEF PinInv, MessagesOf
<1>7. ASSUME NEW t \in IoThreads, CheckRef(t) \/ DelConnection(t) \/ CloseFd(t)
      PROVE  PinInv'
  <2>1. /\ UNCHANGED <<mem, status, msgs, ioc>>
        /\ iopc[t] \in Closing
        /\ \E l : iopc' = [iopc EXCEPT ![t] = l]
    BY <1>7 DEF CheckRef, DelConnection, CloseFd, connVars
  <2>2. \A u \in IoThreads : iopc'[u] \in Closing => iopc[u] \in Closing
    BY <2>1 DEF IoTypeOK
  <2> QED  BY <1>b, <2>1, <2>2
<1>8. ASSUME NEW t \in IoThreads, FreeConnection(t)
      PROVE  PinInv'
  <2> DEFINE c == ioc[t]
  <2>1. /\ UNCHANGED <<status, msgs, ioc>>
        /\ mem' = [mem EXCEPT ![c] = "freed"]
        /\ iopc' = [iopc EXCEPT ![t] = ioret[t]]
        /\ iopc[t] = "free"
    BY <1>8, ReleaseLabels DEF FreeConnection, xv_connection_destroy
  <2>2. /\ c \in Conns /\ io_thread[c] = t /\ status[c] = "CLOSED"
        /\ MessagesOf(c) = {}
    BY <1>e, <2>1 DEF Handling, OwnerHandles, HandlesOwn, DescriptorsOwned,
                      ReleasesOwn
  <2>3. \A u \in IoThreads : iopc'[u] \in Closing =>
          iopc[u] \in Closing /\ ioc[u] \in Conns /\ ioc[u] # c
    BY <1>e, <2>1, <2>2 DEF IoTypeOK, Handling
  <2>4. \A d \in Conns : mem'[d] = IF d = c THEN "freed" ELSE mem[d]
    BY <2>1, <2>2 DEF ConnTypeOK
  <2> QED  BY <2>1, <2>2, <2>3, <2>4 DEF PinInv, MessagesOf
<1>9. ASSUME NEW w \in Workers, TakeTask(w) \/ FinishTask(w)
      PROVE  PinInv'
  BY <1>b, <1>9 DEF TakeTask, FinishTask, connVars, ioVars
<1>10. CASE UNCHANGED vars
  BY <1>b, <1>10 DEF vars, connVars, ioVars
<1> QED
  BY <1>1, <1>2, <1>3, <1>4, <1>5, <1>6, <1>7, <1>8, <1>9, <1>10
  DEF Next, PeerStep, IoStep, ListenEvent, QueueEvent, SocketEvent, HandlerStep,
      Close, WorkerStep

LEMMA NextReleased ==
    CoreInv /\ ReleasedInv /\ NoReturns /\ [Next]_vars => ReleasedInv'
<1> SUFFICES ASSUME CoreInv, ReleasedInv, NoReturns, [Next]_vars
             PROVE  ReleasedInv'
  OBVIOUS
<1>0. TypeInv /\ OneWay /\ OwnerHandles /\ DescriptorsOwned
  BY DEF CoreInv
<1> USE <1>0, ServiceConstants DEF TypeInv, TypeOK
<1>a. \A t \in IoThreads : t # NULL
  BY DEF IoThreads
<1>b. ASSUME UNCHANGED <<mem, fdOwner>>,
             \A u \in IoThreads : iopc'[u] = "free" =>
                iopc[u] = "free" /\ ioc'[u] = ioc[u]
      PROVE  ReleasedInv'
  BY <1>b DEF ReleasedInv
<1>e. \A u \in IoThreads : iopc[u] \in Handling =>
        ioc[u] \in Conns /\ io_thread[ioc[u]] = u /\ mem[ioc[u]] # "none"
  BY <1>a DEF HandlersTyped, OwnerHandles, HandlesOwn, Handling, OneWay
<1>1. ASSUME NEW c \in Conns,
             \/ Connect(c) \/ PeerSend(c) \/ PeerClose(c)
             \/ \E t \in IoThreads : AcceptFails(t, c)
      PROVE  ReleasedInv'
  BY <1>b, <1>1 DEF Connect, PeerSend, PeerClose, AcceptFails, connVars, ioVars
<1>2. ASSUME NEW t \in IoThreads, NEW c \in Conns, Accept(t, c)
      PROVE  ReleasedInv'
  <2>1. PICK f \in Fds : fdOwner' = [fdOwner EXCEPT ![f] = c]
    BY <1>2 DEF Accept, xv_tcp_accept
  <2>2. /\ mem' = [mem EXCEPT ![c] = "live"]
        /\ \/ Goto(t, "grow", c, NULL, "poll")
           \/ Goto(t, "accepted", c, NULL, "poll")
        /\ mem[c] = "none"
    BY <1>2 DEF Accept, xv_connection_init, OneWay
  <2>3. \A d \in Conns : mem'[d] = "freed" => mem[d] = "freed" /\ d # c
    BY <2>2 DEF ConnTypeOK
  <2>4. \A u \in IoThreads : iopc'[u] = "free" =>
          iopc[u] = "free" /\ ioc'[u] = ioc[u] /\ ioc[u] # c
    BY <1>e, <2>2 DEF Goto, IoTypeOK, Handling
  <2>5. \A g \in Fds : fdOwner'[g] = fdOwner[g] \/ fdOwner'[g] = c
    BY <2>1
  <2>6. \A d \in Conns : mem'[d] = "freed" => \A g \in Fds : fdOwner'[g] # d
    BY <2>3, <2>5 DEF ReleasedInv
  <2>7. \A u \in IoThreads : iopc'[u] = "free" =>
          \A g \in Fds : fdOwner'[g] # ioc'[u]
    BY <2>4, <2>5 DEF ReleasedInv
  <2> QED  BY <2>6, <2>7 DEF ReleasedInv
<1>3. ASSUME NEW t \in IoThreads,
             \/ \E c : WriteEventFails(t, c)
             \/ \E c, n : ReadAndClose(t, c, n) \/ WriteEvent(t, c, n)
             \/ \E n : Reply(t, n)
             \/ Grow(t) \/ GrowDone(t) \/ ReturnMessage(t) \/ NoReply(t)
             \/ ReplyFails(t) \/ DestroyMessage(t) \/ Distribute(t) \/ AddConn(t)
             \/ CloseMark(t)
      PROVE  ReleasedInv'
  <2>1. UNCHANGED <<fdOwner, mem>>
    BY <1>3 DEF WriteEventFails, ReadAndClose, WriteEvent, Reply, Grow, GrowDone,
                ReturnMessage, NoReply, ReplyFails, DestroyMessage, Distribute,
                AddConn, CloseMark, connVars
  <2>2. \A u \in IoThreads : iopc'[u] = "free" =>
          iopc[u] = "free" /\ ioc'[u] = ioc[u]
    BY <1>3 DEF WriteEventFails, ReadAndClose, WriteEvent, Reply, Grow, GrowDone,
                ReturnMessage, NoReply, ReplyFails, DestroyMessage, Distribute,
                AddConn, CloseMark, BackToPoll, Goto, ioVars, IoTypeOK
  <2> QED  BY <1>b, <2>1, <2>2
<1>4. ASSUME NEW t \in IoThreads, NEW c \in Conns, NEW n, ReadRequest(t, c, n)
      PROVE  ReleasedInv'
  <2>1. /\ UNCHANGED <<fdOwner, mem>>
        /\ UNCHANGED ioVars \/ \E m : Goto(t, "reply", c, m, "poll")
    BY <1>4 DEF ReadRequest
  <2>2. \A u \in IoThreads : iopc'[u] = "free" =>
          iopc[u] = "free" /\ ioc'[u] = ioc[u]
    BY <2>1 DEF Goto, ioVars, IoTypeOK
  <2> QED  BY <1>b, <2>1, <2>2
<1>5. ASSUME NEW t \in IoThreads, DropMessage(t)
      PROVE  ReleasedInv'
  BY <1>5 DEF DropMessage, NoReturns
<1>6. ASSUME NEW t \in IoThreads, CheckRef(t) \/ DelConnection(t)
      PROVE  ReleasedInv'
  <2>1. /\ UNCHANGED <<mem, fdOwner, ioc>>
        /\ \/ iopc' = [iopc EXCEPT ![t] = "del"]
           \/ iopc' = [iopc EXCEPT ![t] = "closefd"]
           \/ iopc' = [iopc EXCEPT ![t] = ioret[t]]
    BY <1>6, ReleaseLabels DEF CheckRef, DelConnection, connVars
  <2>2. \A u \in IoThreads : iopc'[u] = "free" => iopc[u] = "free"
    BY <2>1 DEF IoTypeOK
  <2> QED  BY <1>b, <2>1, <2>2
<1>7. ASSUME NEW t \in IoThreads, CloseFd(t)
      PROVE  ReleasedInv'
  <2> DEFINE c == ioc[t]
  <2>1. /\ UNCHANGED <<mem, ioc>>
        /\ iopc[t] = "closefd"
        /\ iopc' = [iopc EXCEPT ![t] = "free"]
        /\ fdOwner' = [fdOwner EXCEPT ![fd[c]] = NULL]
    BY <1>7, ReleaseLabels DEF CloseFd, xv_close, connVars
  <2>2. c \in Conns /\ OwnsFd(c)
    BY <1>e, <2>1 DEF Handling, DescriptorsOwned, ReleasesOwn
  <2>3. \A g \in Fds : fdOwner'[g] # c
    BY <2>1, <2>2 DEF OwnsFd, DescriptorsOwned
  <2>4. \A g \in Fds : fdOwner'[g] = fdOwner[g] \/ fdOwner'[g] = NULL
    BY <2>1
  <2>5. \A u \in IoThreads : iopc'[u] = "free" => u = t \/ iopc[u] = "free"
    BY <2>1 DEF IoTypeOK
  <2>6. \A u \in IoThreads : iopc[u] = "free" => ioc[u] # NULL
    BY <1>e DEF Handling
  <2> QED  BY <2>1, <2>3, <2>4, <2>5, <2>6 DEF ReleasedInv
<1>8. ASSUME NEW t \in IoThreads, FreeConnection(t)
      PROVE  ReleasedInv'
  <2>1. /\ UNCHANGED <<fdOwner, ioc>>
        /\ mem' = [mem EXCEPT ![ioc[t]] = "freed"]
        /\ iopc' = [iopc EXCEPT ![t] = ioret[t]]
        /\ iopc[t] = "free"
    BY <1>8, ReleaseLabels DEF FreeConnection, xv_connection_destroy
  <2>2. \A u \in IoThreads : iopc'[u] = "free" => iopc[u] = "free"
    BY <2>1 DEF IoTypeOK
  <2>3. \A d \in Conns : mem'[d] = "freed" => mem[d] = "freed" \/ d = ioc[t]
    BY <2>1 DEF ConnTypeOK
  <2> QED  BY <2>1, <2>2, <2>3 DEF ReleasedInv
<1>9. ASSUME NEW w \in Workers, TakeTask(w) \/ FinishTask(w)
      PROVE  ReleasedInv'
  BY <1>b, <1>9 DEF TakeTask, FinishTask, connVars, ioVars
<1>10. CASE UNCHANGED vars
  BY <1>b, <1>10 DEF vars, connVars, ioVars
<1> QED
  BY <1>1, <1>2, <1>3, <1>4, <1>5, <1>6, <1>7, <1>8, <1>9, <1>10
  DEF Next, PeerStep, IoStep, ListenEvent, QueueEvent, SocketEvent, HandlerStep,
      Close, WorkerStep

LEMMA InitReleased == Init => PinInv /\ ReleasedInv /\ NoReturns
  BY DEF Init, PinInv, ReleasedInv, NoReturns

(* Without workers nothing comes back through message_queue. *)
LEMMA NextInline == NWorkers = 0 /\ TypeInv /\ NoReturns /\ [Next]_vars => NoReturns'
<1> SUFFICES ASSUME NWorkers = 0, TypeInv, NoReturns, [Next]_vars
             PROVE  NoReturns'
  OBVIOUS
<1>1. Workers = {}
  BY DEF Workers
<1>2. ASSUME NEW c \in Conns, PeerStep(c)
      PROVE  UNCHANGED message_queue
  BY <1>2 DEF PeerStep, Connect, PeerSend, PeerClose, queueVars
<1>3. ASSUME NEW t \in IoThreads, QueueEvent(t)
      PROVE  UNCHANGED message_queue
  BY <1>3 DEF QueueEvent, AddConn, ReturnMessage, DropMessage, NoReturns
<1>4. ASSUME NEW t \in IoThreads, ListenEvent(t) \/ SocketEvent(t)
      PROVE  UNCHANGED message_queue
  BY <1>4 DEF ListenEvent, Accept, AcceptFails, SocketEvent, ReadRequest,
              ReadAndClose, WriteEvent, WriteEventFails, queueVars
<1>5. ASSUME NEW t \in IoThreads, HandlerStep(t)
      PROVE  UNCHANGED message_queue
  BY <1>5 DEF HandlerStep, Grow, GrowDone, Distribute, Reply, NoReply, ReplyFails,
              DestroyMessage, Close, CloseMark, CheckRef, DelConnection, CloseFd,
              FreeConnection, queueVars
<1>6. UNCHANGED message_queue
  BY <1>1, <1>2, <1>3, <1>4, <1>5 DEF Next, IoStep, vars, queueVars
<1> QED  BY <1>6 DEF NoReturns

LEMMA PinnedConnections == CoreInv /\ PinInv => MessagesPinConnection
<1> SUFFICES ASSUME CoreInv, PinInv PROVE MessagesPinConnection
  OBVIOUS
<1>0. TypeInv /\ OneWay /\ OwnerHandles /\ MessagesTaken
  BY DEF CoreInv
<1> USE <1>0 DEF TypeInv, TypeOK
<1>1. ASSUME NEW m \in msgs PROVE mem[m.conn] = "live"
  <2>1. m.conn \in Conns /\ mem[m.conn] # "none" /\ m \in MessagesOf(m.conn)
    BY DEF MessageTypeOK, Messages, MessagesTaken, OneWay, MessagesOf
  <2> QED  BY <2>1 DEF PinInv, ConnTypeOK
<1>2. ASSUME NEW t \in IoThreads,
             iopc[t] \in {"grow", "accepted", "reply", "close", "checkref", "del",
                          "closefd", "free"}
      PROVE  mem[ioc[t]] = "live"
  <2>1. CASE iopc[t] \in {"checkref", "del", "closefd", "free"}
    BY <2>1 DEF PinInv
  <2>2. CASE iopc[t] \in {"grow", "accepted", "reply", "close"}
    <3>1. ioc[t] \in Conns
      BY <2>2 DEF HandlersTyped
    <3>2. mem[ioc[t]] # "none" /\ status[ioc[t]] = "OPEN"
      <4>1. CASE iopc[t] \in {"reply", "close"}
        <5>1. io_thread[ioc[t]] = t /\ status[ioc[t]] = "OPEN"
          BY <4>1 DEF OwnerHandles, HandlesOwn, Handling
        <5>2. t # NULL
          BY ServiceConstants DEF IoThreads
        <5> QED  BY <3>1, <5>1, <5>2 DEF OneWay
      <4>2. CASE iopc[t] \in {"grow", "accepted"}
        <5>1. mem[ioc[t]] # "none" /\ io_thread[ioc[t]] = NULL
          BY <4>2 DEF OneWay, Adding
        <5> QED  BY <3>1, <5>1 DEF OwnerHandles, ConnTypeOK
      <4> QED  BY <2>2, <4>1, <4>2
    <3> QED  BY <3>1, <3>2 DEF PinInv, ConnTypeOK
  <2> QED  BY <1>2, <2>1, <2>2
<1> QED  BY <1>1, <1>2 DEF MessagesPinConnection

(***************************************************************************)
(* With a worker pool: as long as no connection has two requests in the    *)
(* service at once, neither a message nor a handler in progress points to  *)
(* a freed connection.  (With two of them, a hangup between their answers  *)
(* frees the connection under the second one.)                             *)
(***************************************************************************)
LEMMA PinnedOneInFlight == Spec /\ []OneInFlight => []MessagesPinConnection
<1>1. CoreInv /\ PinInv /\ OneInFlight /\ [Next]_vars => PinInv'
  BY NextPin
<1>2. Init => PinInv
  BY InitReleased
<1> QED  BY <1>1, <1>2, PinnedConnections, ServiceSafe, PTL DEF Spec, SafeSpec

(***************************************************************************)
(* Without one, a message never outlives its connection, however many      *)
(* requests the peer sends ahead.                                          *)
(***************************************************************************)
THEOREM PinnedInline == NWorkers = 0 => (Spec => []MessagesPinConnection)
<1>1. ASSUME NWorkers = 0 PROVE Spec => []MessagesPinConnection
  <2>1. CoreInv /\ PinInv /\ NoReturns /\ [Next]_vars => PinInv' /\ NoReturns'
    BY <1>1, NextPin, NextInline DEF CoreInv
  <2>2. Init => PinInv /\ NoReturns
    BY InitReleased
  <2> QED  BY <2>1, <2>2, PinnedConnections, ServiceSafe, PTL DEF Spec, SafeSpec
<1> QED  BY <1>1

(***************************************************************************)
(* Without a worker pool and with descriptors below the table's size, a    *)
(* freed connection has left no descriptor open and no entry in the table. *)
(***************************************************************************)
THEOREM ReleasedInline == NWorkers = 0 /\ FdsFit => (Spec => []FreedIsReleased)
<1>1. ASSUME NWorkers = 0, FdsFit PROVE Spec => []FreedIsReleased
  <2>1. CoreInv /\ TableInv /\ ReleasedInv /\ NoReturns /\ [Next]_vars =>
            TableInv' /\ ReleasedInv' /\ NoReturns'
    BY <1>1, NextReleased, NextTable, NextInline DEF CoreInv
  <2>2. Init => TableInv /\ ReleasedInv /\ NoReturns
    BY InitReleased, InitTable
  <2>3. TableInv /\ ReleasedInv => FreedIsReleased
    BY DEF TableInv, Entries, ReleasedInv, FreedIsReleased
  <2> QED  BY <2>1, <2>2, <2>3, ServiceSafe, PTL DEF Spec, SafeSpec
<1> QED  BY <1>1

-----------------------------------------------------------------------------
(***************************************************************************)
(* Order.  All tasks go to one worker, so that messages never overtake     *)
(* each other on the way from decode to reply.                             *)
(***************************************************************************)
LEMMA PrecedesAppend ==
    ASSUME NEW S, NEW s \in Seq(S), NEW x \in S
    PROVE  \A a, b : Precedes(Append(s, x), a, b) =>
                        Precedes(s, a, b) \/ (b = x /\ Queued(s, a))
<1>1. /\ Len(s) \in Nat
      /\ Len(Append(s, x)) = Len(s) + 1
      /\ \A i \in 1..Len(s) : Append(s, x)[i] = s[i]
      /\ Append(s, x)[Len(s) + 1] = x
  BY AppendProperties, LenProperties
<1>2. \A i, j \in 1..(Len(s) + 1) : i < j =>
        i \in 1..Len(s) /\ (j \in 1..Len(s) \/ j = Len(s) + 1)
  BY <1>1
<1> QED  BY <1>1, <1>2 DEF Queued, Precedes

LEMMA PrecedesTail ==
    ASSUME NEW S, NEW s \in Seq(S), s # << >>
    PROVE  /\ \A a, b : Precedes(Tail(s), a, b) => Precedes(s, a, b)
           /\ \A b : Queued(Tail(s), b) => Precedes(s, Head(s), b)
<1>1. /\ Len(s) \in Nat \ {0}
      /\ Len(Tail(s)) = Len(s) - 1
      /\ \A i \in 1..Len(Tail(s)) : Tail(s)[i] = s[i + 1]
      /\ Head(s) = s[1]
  BY HeadTailProperties, EmptySeq
<1>2. \A i \in 1..Len(Tail(s)) : i + 1 \in 1..Len(s) /\ 1 < i + 1 /\ i \in Int
  BY <1>1
<1>3. 1 \in 1..Len(s)
  BY <1>1
<1>4. \A i, j \in 1..Len(Tail(s)) : i < j => i + 1 < j + 1
  BY <1>1
<1> QED  BY <1>1, <1>2, <1>3, <1>4 DEF Queued, Precedes

LEMMA PrecedesQueued ==
    ASSUME NEW s, NEW a, NEW b, Precedes(s, a, b)
    PROVE  Queued(s, a) /\ Queued(s, b)
  BY DEF Precedes, Queued

(* A step that moves no message. *)
NoMove ==
    /\ UNCHANGED <<message_queue, task_queue, whand, ndec>>
    /\ msgs' \subseteq msgs
    /\ \A t \in IoThreads : Carries(t)' => Carries(t) /\ iom'[t] = iom[t]

LEMMA NoMoveSteps ==
    ASSUME TypeInv, [Next]_vars
    PROVE  \/ NoMove
           \/ \E t \in IoThreads, c \in Conns, n \in 1..MaxReq : ReadRequest(t, c, n)
           \/ \E t \in IoThreads : ReturnMessage(t) \/ DropMessage(t)
           \/ \E w \in Workers : TakeTask(w) \/ FinishTask(w)
<1> USE ServiceConstants DEF TypeInv, TypeOK
<1>a. ASSUME UNCHANGED <<message_queue, task_queue, whand, ndec, msgs>>,
             \A u \in IoThreads : Carries(u)' => Carries(u) /\ iom'[u] = iom[u]
      PROVE  NoMove
  BY <1>a DEF NoMove
<1>1. ASSUME NEW c \in Conns, PeerStep(c) \/ \E t \in IoThreads : AcceptFails(t, c)
      PROVE  NoMove
  BY <1>a, <1>1 DEF PeerStep, Connect, PeerSend, PeerClose, AcceptFails, queueVars,
                    streamVars, ioVars, Carries
<1>2. ASSUME NEW t \in IoThreads,
             \/ \E c : Accept(t, c) \/ WriteEventFails(t, c)
             \/ \E c, n : ReadAndClose(t, c, n)
             \/ GrowDone(t) \/ Distribute(t)
      PROVE  NoMove
  <2>1. /\ UNCHANGED <<message_queue, task_queue, whand, msgs, ndec>>
        /\ \E l \in {"grow", "accepted", "close", "poll"} : \E d :
                Goto(t, l, d, NULL, "poll")
    BY <1>2 DEF Accept, ReadAndClose, WriteEventFails, GrowDone, Distribute,
                BackToPoll, queueVars, streamVars
  <2>2. \A u \in IoThreads : Carries(u)' => Carries(u) /\ iom'[u] = iom[u]
    BY <2>1 DEF Goto, Carries, IoTypeOK
  <2> QED  BY <1>a, <2>1, <2>2
<1>3. ASSUME NEW t \in IoThreads,
             Grow(t) \/ AddConn(t) \/ \E c, n : WriteEvent(t, c, n)
      PROVE  NoMove
  BY <1>a, <1>3 DEF Grow, AddConn, WriteEvent, queueVars, streamVars, ioVars, Carries
<1>4. ASSUME NEW t \in IoThreads,
             \/ \E n : Reply(t, n)
             \/ NoReply(t) \/ ReplyFails(t) \/ CloseMark(t)
             \/ CheckRef(t) \/ DelConnection(t) \/ CloseFd(t) \/ FreeConnection(t)
      PROVE  NoMove
  <2>1. /\ UNCHANGED <<message_queue, task_queue, whand, msgs, ndec>>
        /\ iom'[t] = iom[t]
        /\ \A u \in IoThreads : u # t => UNCHANGED <<iopc[u], iom[u], ioret[u]>>
    BY <1>4 DEF Reply, NoReply, ReplyFails, CloseMark, CheckRef, DelConnection,
                CloseFd, FreeConnection, Goto, queueVars, streamVars, IoTypeOK
  <2>2. Carries(t)' => Carries(t)
    BY <1>4, ReleaseLabels
       DEF Reply, NoReply, ReplyFails, CloseMark, CheckRef, DelConnection,
           CloseFd, FreeConnection, Goto, Carries, IoTypeOK
  <2> QED  BY <1>a, <2>1, <2>2 DEF Carries
<1>5. ASSUME NEW t \in IoThreads, DestroyMessage(t)
      PROVE  NoMove
  <2>1. /\ UNCHANGED <<message_queue, task_queue, whand, ndec>>
        /\ msgs' \subseteq msgs
        /\ Goto(t, "poll", NULL, NULL, "poll")
    BY <1>5 DEF DestroyMessage, xv_message_destroy, BackToPoll, queueVars, streamVars
  <2>2. \A u \in IoThreads : Carries(u)' => Carries(u) /\ iom'[u] = iom[u]
    BY <2>1 DEF Goto, Carries, IoTypeOK
  <2> QED  BY <2>1, <2>2 DEF NoMove
<1>6. CASE UNCHANGED vars
  BY <1>a, <1>6 DEF vars, queueVars, streamVars, ioVars, Carries
<1> QED
  BY <1>1, <1>2, <1>3, <1>4, <1>5, <1>6
  DEF Next, IoStep, ListenEvent, QueueEvent, SocketEvent, HandlerStep, Close,
      WorkerStep

LEMMA NoMoveHolds ==
    ASSUME NoMove, NEW m, NEW k, NEW x
    PROVE  Holds(k, x, m)' => Holds(k, x, m)
  BY DEF NoMove, Holds

(* Where the message goes that a step does move. *)
LEMMA ReadMoves ==
    ASSUME TypeInv, OnePlace, RequestsDecoded,
           NEW t \in IoThreads, NEW c \in Conns, NEW n \in 1..MaxReq,
           ReadRequest(t, c, n)
    PROVE  \E m \in Messages :
            /\ m.conn = c /\ m.from = c /\ ~ m.sent
            /\ m.lo = ndec[c] + 1 /\ ndec' = [ndec EXCEPT ![c] = m.hi]
            /\ m \notin msgs /\ msgs' = msgs \cup {m}
            /\ \A k \in Kinds, x \in Holders : ~Holds(k, x, m)
            /\ UNCHANGED <<message_queue, whand>>
            /\ \/ /\ NWorkers = 0 /\ UNCHANGED task_queue
                  /\ Goto(t, "reply", c, m, "poll")
               \/ /\ NWorkers # 0 /\ UNCHANGED ioVars
                  /\ task_queue' = [task_queue EXCEPT ![TaskIndex(m)] = Append(@, m)]
<1> USE ServiceConstants DEF TypeInv, TypeOK
<1> DEFINE m == [conn |-> c, from |-> c, sent |-> FALSE, lo |-> ndec[c] + 1,
                 hi |-> IF Decode = "framed" THEN ndec[c] + 1 ELSE nread[c] + n]
<1>1. /\ ndec[c] \in Nat /\ nread[c] \in Nat /\ ndec[c] <= nread[c]
      /\ nread[c] + n <= MaxReq
  BY DEF ReadRequest, StagesOrdered, StreamTypeOK, PeerTypeOK
<1>2. /\ m \in Messages /\ m.conn = c /\ m.from = c /\ ~ m.sent
      /\ m.lo = ndec[c] + 1 /\ m.hi > ndec[c]
  BY <1>1 DEF Messages
<1>3. m \notin msgs
  BY <1>1, <1>2 DEF RequestsDecoded, Messages
<1>4. /\ UNCHANGED <<message_queue, whand>>
      /\ msgs' = msgs \cup {m} /\ ndec' = [ndec EXCEPT ![c] = m.hi]
      /\ \/ /\ NWorkers = 0 /\ UNCHANGED task_queue
            /\ Goto(t, "reply", c, m, "poll")
         \/ /\ NWorkers # 0 /\ UNCHANGED ioVars
            /\ task_queue' = [task_queue EXCEPT ![TaskIndex(m)] = Append(@, m)]
  BY DEF ReadRequest, xv_message_init
<1> HIDE DEF m
<1>5. \A k \in Kinds, x \in Holders : ~Holds(k, x, m)
  BY <1>2, <1>3 DEF OnePlace, OneHolder
<1> QED  BY <1>2, <1>3, <1>4, <1>5

(* What ReadRequest adds to where messages are. *)
LEMMA ReadHolds ==
    ASSUME TypeInv, NEW t \in IoThreads, NEW c, NEW m \in Messages,
           UNCHANGED <<message_queue, whand>>,
           \/ /\ NWorkers = 0 /\ UNCHANGED task_queue
              /\ Goto(t, "reply", c, m, "poll")
           \/ /\ NWorkers # 0 /\ UNCHANGED ioVars
              /\ task_queue' = [task_queue EXCEPT ![TaskIndex(m)] = Append(@, m)],
           NEW o, NEW k, NEW x, Holds(k, x, o)'
    PROVE  \/ Holds(k, x, o)
           \/ o = m /\ NWorkers = 0 /\ k = "io" /\ x = t
           \/ o = m /\ NWorkers # 0 /\ k = "task" /\ x = TaskIndex(m)
<1> USE ServiceConstants DEF TypeInv, TypeOK
<1>1. CASE NWorkers = 0
  BY <1>1 DEF Goto, Holds, Carries, IoTypeOK
<1>2. CASE NWorkers # 0
  <2>1. CASE k = "task" /\ x = TaskIndex(m) /\ x \in Workers
    <3>1. task_queue[x] \in Seq(Messages) /\ task_queue'[x] = Append(task_queue[x], m)
      BY <1>2, <2>1 DEF QueueTypeOK
    <3> QED  BY <1>2, <2>1, <3>1, QueuedAppend DEF Holds
  <2>2. CASE ~(k = "task" /\ x = TaskIndex(m) /\ x \in Workers)
    BY <1>2, <2>2 DEF Holds, Carries, ioVars, QueueTypeOK
  <2> QED  BY <2>1, <2>2
<1> QED  BY <1>1, <1>2

(* TakeTask and FinishTask move the message to the worker's hand and to    *)
(* the owner's queue, ReturnMessage and DropMessage take it from there.    *)
LEMMA TakeHolds ==
    ASSUME TypeInv, NEW w \in Workers, TakeTask(w)
    PROVE  /\ Head(task_queue[w]) \in Messages
           /\ Holds("task", w, Head(task_queue[w]))
           /\ \A k, x, o : Holds(k, x, o)' =>
                Holds(k, x, o) \/ (k = "worker" /\ x = w /\ o = Head(task_queue[w]))
           /\ \A v \in Workers : \A a, b : Precedes(task_queue[v], a, b)' =>
                Precedes(task_queue[v], a, b)
           /\ \A b : Holds("task", w, b)' => Precedes(task_queue[w], Head(task_queue[w]), b)
           /\ UNCHANGED <<message_queue, msgs, ndec, ioVars>>
<1> USE ServiceConstants DEF TypeInv, TypeOK
<1> DEFINE h == Head(task_queue[w])
           r == Tail(task_queue[w])
<1>1. /\ UNCHANGED <<message_queue, msgs, ndec, ioVars>>
      /\ task_queue[w] \in Seq(Messages) /\ task_queue[w] # << >>
      /\ task_queue'[w] = r
      /\ \A v \in Workers : v # w => task_queue'[v] = task_queue[v] /\ whand'[v] = whand[v]
      /\ whand'[w] = h
  BY DEF TakeTask, QueueTypeOK, MessageTypeOK, streamVars
<1>2. h \in Messages /\ Queued(task_queue[w], h)
  BY <1>1, QueuedTail, HeadTailProperties
<1>3. \A b : Queued(r, b) => Queued(task_queue[w], b)
  BY <1>1, QueuedTail
<1>4. /\ \A a, b : Precedes(r, a, b) => Precedes(task_queue[w], a, b)
      /\ \A b : Queued(r, b) =>
                Precedes(task_queue[w], h, b)
  BY <1>1, PrecedesTail
<1> HIDE DEF h, r
<1>5. ASSUME NEW k, NEW x, NEW o, Holds(k, x, o)'
      PROVE  Holds(k, x, o) \/ (k = "worker" /\ x = w /\ o = h)
  <2>1. CASE k = "task" /\ x \in Workers
    BY <1>1, <1>3, <1>5, <2>1 DEF Holds
  <2>2. CASE k = "worker" /\ x \in Workers
    BY <1>1, <1>5, <2>2 DEF Holds
  <2>3. CASE k = "return" \/ k = "io"
    BY <1>1, <1>5, <2>3 DEF Holds, Carries, ioVars
  <2> QED  BY <1>5, <2>1, <2>2, <2>3 DEF Holds
<1>6. \A v \in Workers : \A a, b : Precedes(task_queue[v], a, b)' =>
                Precedes(task_queue[v], a, b)
  BY <1>1, <1>4
<1>7. \A b : Holds("task", w, b)' => Precedes(task_queue[w], h, b)
  BY <1>1, <1>4 DEF Holds
<1>8. Holds("task", w, h)
  BY <1>2 DEF Holds
<1> QED  BY <1>1, <1>2, <1>5, <1>6, <1>7, <1>8 DEF h

LEMMA FinishHolds ==
    ASSUME TypeInv, NEW w \in Workers, FinishTask(w)
    PROVE  /\ whand[w] \in Messages
           /\ Holds("worker", w, whand[w])
           /\ \A k, x, o : Holds(k, x, o)' =>
                \/ Holds(k, x, o) /\ ~(k = "worker" /\ x = w)
                \/ k = "return" /\ o = whand[w]
           /\ \A t \in IoThreads : \A a, b : Precedes(message_queue[t], a, b)' =>
                \/ Precedes(message_queue[t], a, b)
                \/ b = whand[w] /\ Holds("return", t, a)
           /\ UNCHANGED <<task_queue, msgs, ndec, ioVars>>
<1> USE ServiceConstants DEF TypeInv, TypeOK
<1> DEFINE m == whand[w]
           u == io_thread[m.conn]
<1>1. /\ UNCHANGED <<task_queue, msgs, ndec, ioVars>>
      /\ m \in Messages /\ m # NULL
      /\ message_queue' = [message_queue EXCEPT ![u] = Append(@, m)]
      /\ whand'[w] = NULL
      /\ \A v \in Workers : v # w => whand'[v] = whand[v]
  BY DEF FinishTask, MessageTypeOK, streamVars
<1>2. Holds("worker", w, m)
  BY <1>1 DEF Holds
<1> HIDE DEF m, u
<1>3. ASSUME NEW t \in IoThreads
      PROVE  /\ \A o : Queued(message_queue[t], o)' =>
                    Queued(message_queue[t], o) \/ o = m
             /\ \A a, b : Precedes(message_queue[t], a, b)' =>
                \/ Precedes(message_queue[t], a, b)
                \/ b = m /\ Queued(message_queue[t], a)
  <2> DEFINE q == message_queue[t]
  <2>0. q \in Seq(Messages) /\ m \in Messages
    BY <1>1 DEF QueueTypeOK
  <2>1. CASE t = u
    <3>1. message_queue'[t] = Append(q, m)
      BY <1>1, <2>1 DEF QueueTypeOK
    <3> HIDE DEF q
    <3>2. \A o : Queued(Append(q, m), o) => Queued(q, o) \/ o = m
      BY <2>0, QueuedAppend
    <3>3. \A a, b : Precedes(Append(q, m), a, b) =>
                Precedes(q, a, b) \/ (b = m /\ Queued(q, a))
      BY <2>0, PrecedesAppend
    <3> QED  BY <3>1, <3>2, <3>3 DEF q
  <2>2. CASE t # u
    BY <1>1, <2>2 DEF QueueTypeOK
  <2> QED  BY <2>1, <2>2
<1>4. ASSUME NEW k, NEW x, NEW o, Holds(k, x, o)'
      PROVE  \/ Holds(k, x, o) /\ ~(k = "worker" /\ x = w)
             \/ k = "return" /\ o = m
  <2>1. CASE k = "return"
    BY <1>3, <1>4, <2>1 DEF Holds
  <2>2. CASE k = "worker"
    BY <1>1, <1>4, <2>2 DEF Holds
  <2>3. CASE k = "task" \/ k = "io"
    BY <1>1, <1>4, <2>3 DEF Holds, Carries, ioVars
  <2> QED  BY <1>4, <2>1, <2>2, <2>3 DEF Holds
<1>5. \A t \in IoThreads : \A a, b : Precedes(message_queue[t], a, b)' =>
                \/ Precedes(message_queue[t], a, b)
                \/ b = m /\ Holds("return", t, a)
  BY <1>3 DEF Holds
<1> QED  BY <1>1, <1>2, <1>4, <1>5 DEF m

LEMMA ReturnHolds ==
    ASSUME TypeInv, NEW t \in IoThreads, ReturnMessage(t) \/ DropMessage(t)
    PROVE  /\ Head(message_queue[t]) \in Messages
           /\ Holds("return", t, Head(message_queue[t]))
           /\ \A k, x, o : Holds(k, x, o)' =>
                Holds(k, x, o) \/ (k = "io" /\ o = Head(message_queue[t]))
           /\ \A u \in IoThreads : \A a, b : Precedes(message_queue[u], a, b)' =>
                Precedes(message_queue[u], a, b)
           /\ \A b : Holds("return", t, b)' =>
                Precedes(message_queue[t], Head(message_queue[t]), b)
           /\ UNCHANGED <<task_queue, whand, ndec>>
           /\ msgs' \subseteq msgs
<1> USE ServiceConstants DEF TypeInv, TypeOK
<1> DEFINE q == message_queue[t]
           h == Head(q)
           r == Tail(q)
<1>1. /\ UNCHANGED <<task_queue, whand, ndec>>
      /\ msgs' \subseteq msgs
      /\ q \in Seq(Messages) /\ q # << >>
      /\ message_queue'[t] = r
      /\ \A u \in IoThreads : u # t => message_queue'[u] = message_queue[u]
  BY DEF ReturnMessage, DropMessage, xv_message_destroy, QueueTypeOK, streamVars
<1>2. UNCHANGED ioVars \/ Goto(t, "reply", h.conn, h, "poll")
  BY DEF ReturnMessage, DropMessage
<1>3. h \in Messages /\ Queued(q, h)
  BY <1>1, QueuedTail, HeadTailProperties
<1>4. \A b : Queued(r, b) => Queued(q, b)
  BY <1>1, QueuedTail
<1>5. /\ \A a, b : Precedes(r, a, b) => Precedes(q, a, b)
      /\ \A b : Queued(r, b) => Precedes(q, h, b)
  BY <1>1, PrecedesTail
<1> HIDE DEF h, r
<1>6. ASSUME NEW k, NEW x, NEW o, Holds(k, x, o)'
      PROVE  Holds(k, x, o) \/ (k = "io" /\ o = h)
  <2>1. CASE k = "return"
    BY <1>1, <1>4, <1>6, <2>1 DEF Holds
  <2>2. CASE k = "io"
    BY <1>2, <1>6, <2>2 DEF Holds, Carries, ioVars, Goto, IoTypeOK
  <2>3. CASE k = "task" \/ k = "worker"
    BY <1>1, <1>6, <2>3 DEF Holds
  <2> QED  BY <1>6, <2>1, <2>2, <2>3 DEF Holds
<1>7. \A u \in IoThreads : \A a, b : Precedes(message_queue[u], a, b)' =>
                Precedes(message_queue[u], a, b)
  BY <1>1, <1>5
<1>8. \A b : Holds("return", t, b)' => Precedes(q, h, b)
  BY <1>1, <1>5 DEF Holds
<1>9. Holds("return", t, h)
  BY <1>3 DEF Holds
<1> QED  BY <1>1, <1>3, <1>6, <1>7, <1>8, <1>9 DEF h

(* Every task goes to the same worker. *)
LEMMA NextOneWorker == CoreInv /\ OneWorker /\ [Next]_vars => OneWorker'
<1> SUFFICES ASSUME CoreInv, OneWorker, [Next]_vars
             PROVE  OneWorker'
  OBVIOUS
<1> USE DEF CoreInv
<1>0. NWorkers = 0 => NoReturns'
  BY NextInline DEF OneWorker
<1>a. ASSUME msgs' \subseteq msgs,
             \A m \in msgs, w \in Workers :
                Holds("task", w, m)' \/ Holds("worker", w, m)' => w = TaskIndex(m)
      PROVE  OneWorker'
  BY <1>0, <1>a DEF OneWorker, TaskIndex
<1>1. CASE NoMove
  <2>1. msgs' \subseteq msgs
    BY <1>1 DEF NoMove
  <2>2. \A m \in msgs, w \in Workers :
            Holds("task", w, m)' \/ Holds("worker", w, m)' => w = TaskIndex(m)
    BY <1>1, NoMoveHolds DEF OneWorker
  <2> QED  BY <1>a, <2>1, <2>2
<1>2. ASSUME NEW t \in IoThreads, NEW c \in Conns, NEW n \in 1..MaxReq,
             ReadRequest(t, c, n)
      PROVE  OneWorker'
  <2>1. PICK m \in Messages :
            /\ ~ m.sent /\ msgs' = msgs \cup {m}
            /\ \A k \in Kinds, x \in Holders : ~Holds(k, x, m)
            /\ UNCHANGED <<message_queue, whand>>
            /\ \/ /\ NWorkers = 0 /\ UNCHANGED task_queue
                  /\ Goto(t, "reply", c, m, "poll")
               \/ /\ NWorkers # 0 /\ UNCHANGED ioVars
                  /\ task_queue' = [task_queue EXCEPT ![TaskIndex(m)] = Append(@, m)]
    BY <1>2, ReadMoves
  <2>2. ASSUME NEW o \in msgs \cup {m}, NEW w \in Workers,
               Holds("task", w, o)' \/ Holds("worker", w, o)'
        PROVE  w = TaskIndex(o)
    <3>1. PICK k \in {"task", "worker"} : Holds(k, w, o)'
      BY <2>2
    <3>2. \/ Holds(k, w, o)
          \/ o = m /\ NWorkers # 0 /\ k = "task" /\ w = TaskIndex(m)
      BY <2>1, <3>1, ReadHolds
    <3>3. o = m => ~Holds(k, w, o)
      BY <2>1 DEF Kinds, Holders
    <3> QED  BY <3>2, <3>3 DEF OneWorker
  <2>3. \A o \in msgs \cup {m} : ~ o.sent
    BY <2>1 DEF OneWorker
  <2> QED  BY <1>0, <2>1, <2>2, <2>3 DEF OneWorker, TaskIndex
<1>3. ASSUME NEW t \in IoThreads, ReturnMessage(t) \/ DropMessage(t)
      PROVE  OneWorker'
  BY <1>3, <1>a, ReturnHolds DEF OneWorker
<1>4. ASSUME NEW w \in Workers, TakeTask(w)
      PROVE  OneWorker'
  <2>1. Head(task_queue[w]) \in Messages /\ Holds("task", w, Head(task_queue[w]))
    BY <1>4, TakeHolds
  <2>2. ASSUME NEW m \in msgs, NEW v \in Workers,
               Holds("task", v, m)' \/ Holds("worker", v, m)'
        PROVE  v = TaskIndex(m)
    BY <1>4, <2>1, <2>2, TakeHolds DEF OneWorker
  <2>3. msgs' \subseteq msgs
    BY <1>4, TakeHolds
  <2> QED  BY <1>a, <2>2, <2>3
<1>5. ASSUME NEW w \in Workers, FinishTask(w)
      PROVE  OneWorker'
  <2>2. ASSUME NEW m \in msgs, NEW v \in Workers,
               Holds("task", v, m)' \/ Holds("worker", v, m)'
        PROVE  v = TaskIndex(m)
    BY <1>5, <2>2, FinishHolds DEF OneWorker
  <2>3. msgs' \subseteq msgs
    BY <1>5, FinishHolds
  <2> QED  BY <1>a, <2>2, <2>3
<1> QED
  <2>1. TypeInv
    OBVIOUS
  <2> QED  BY <2>1, <1>1, <1>2, <1>3, <1>4, <1>5, NoMoveSteps

(* When the message m moves one place on, from k0 to k1, and everything    *)
(* else at its old place came after it, the order stays.                   *)
LEMMA MoveInOrder ==
    ASSUME InOrder, OnePlace', msgs' \subseteq msgs,
           NEW m \in msgs, NEW k0 \in Kinds, NEW x0 \in Holders, NEW k1 \in Kinds,
           Rank[k0] = Rank[k1] + 1,
           Holds(k0, x0, m),
           \A k \in Kinds, x \in Holders, o \in msgs : Holds(k, x, o)' =>
                Holds(k, x, o) \/ (k = k1 /\ o = m),
           \A x \in Holders, o \in msgs :
                o.conn = m.conn /\ o # m /\ Holds(k0, x, o)' => Ahead(m, o),
           \A t \in IoThreads : \A a, b \in msgs :
                Precedes(message_queue[t], a, b)' => Ahead(a, b),
           \A w \in Workers : \A a, b \in msgs :
                Precedes(task_queue[w], a, b)' => Ahead(a, b),
           msgs \subseteq Messages
    PROVE  InOrder'
<1> SUFFICES ASSUME NEW a \in msgs', NEW b \in msgs', a.conn = b.conn, Ahead(a, b)'
             PROVE  Ahead(a, b)
  BY DEF InOrder
<1>0. a \in msgs /\ b \in msgs /\ a \in Messages /\ b \in Messages
  OBVIOUS
<1>1. CASE \/ \E t \in IoThreads : Precedes(message_queue[t], a, b)'
           \/ \E w \in Workers : Precedes(task_queue[w], a, b)'
  BY <1>0, <1>1
<1>2. CASE \E k \in Kinds, x \in Holders : Holds(k, x, a)' /\
            \E l \in Kinds, y \in Holders : Holds(l, y, b)' /\ Rank[k] < Rank[l]
  <2>1. PICK k \in Kinds, x \in Holders, l \in Kinds, y \in Holders :
            Holds(k, x, a)' /\ Holds(l, y, b)' /\ Rank[k] < Rank[l]
    BY <1>2
  <2>2. Rank[k] \in Nat /\ Rank[l] \in Nat /\ Rank[k0] \in Nat /\ Rank[k1] \in Nat
    BY DEF Rank, Kinds
  <2>3. a # b
    BY <1>0, <2>1, <2>2 DEF OnePlace, OneHolder
  <2>a. ASSUME NEW p \in Kinds, NEW u \in Holders, NEW q \in Kinds, NEW v \in Holders,
               Holds(p, u, a), Holds(q, v, b), Rank[p] < Rank[q]
        PROVE  Ahead(a, b)
    BY <2>a DEF Ahead
  <2>4. CASE a # m /\ b # m
    BY <1>0, <2>1, <2>4, <2>a
  <2>5. CASE b = m
    <3>1. Holds(k, x, a) /\ (l = k1 \/ Holds(l, y, b))
      BY <1>0, <2>1, <2>3, <2>5
    <3>2. CASE l = k1
      BY <2>1, <2>2, <2>5, <2>a, <3>1, <3>2
    <3>3. CASE Holds(l, y, b)
      BY <2>1, <2>a, <3>1, <3>3
    <3> QED  BY <3>1, <3>2, <3>3
  <2>6. CASE a = m
    <3>1. Holds(l, y, b) /\ (k = k1 \/ Holds(k, x, a))
      BY <1>0, <2>1, <2>3, <2>6
    <3>2. CASE Holds(k, x, a)
      BY <2>1, <2>a, <3>1, <3>2
    <3>3. CASE k = k1 /\ Rank[k0] < Rank[l]
      BY <2>6, <2>a, <3>1, <3>3
    <3>4. CASE k = k1 /\ ~(Rank[k0] < Rank[l])
      <4>1. Rank[l] = Rank[k0]
        BY <2>1, <2>2, <3>4
      <4>2. l = k0
        BY <4>1 DEF Rank, Kinds
      <4> QED  BY <1>0, <2>1, <2>3, <2>6, <4>2
    <3> QED  BY <3>1, <3>2, <3>3, <3>4
  <2> QED  BY <2>4, <2>5, <2>6
<1> QED  BY <1>1, <1>2 DEF Ahead

LEMMA NextInOrder ==
    ASSUME CoreInv, CoreInv', OneWorker, OneWorker', InOrder, [Next]_vars
    PROVE  InOrder'
<1> USE DEF CoreInv
<1>0. /\ msgs \subseteq Messages
      /\ \A o, k, x : o \in Messages /\ k \in Kinds /\ x \in Holders /\ Holds(k, x, o)
            => o \in msgs
  BY DEF OnePlace, OneHolder, TypeInv, TypeOK, MessageTypeOK
<1>r. /\ Rank["task"] = 4 /\ Rank["worker"] = 3 /\ Rank["return"] = 2 /\ Rank["io"] = 1
      /\ {"task", "worker", "return", "io"} \subseteq Kinds
      /\ IoThreads \subseteq Holders /\ Workers \subseteq Holders
  BY DEF Rank, Kinds, Holders
<1>1. CASE NoMove
  <2>1. /\ msgs' \subseteq msgs
        /\ \A t \in IoThreads : message_queue'[t] = message_queue[t]
        /\ \A w \in Workers : task_queue'[w] = task_queue[w]
    BY <1>1 DEF NoMove
  <2>2. \A a, b \in msgs : Ahead(a, b)' => Ahead(a, b)
    BY <1>1, <2>1, NoMoveHolds DEF Ahead
  <2> QED  BY <2>1, <2>2 DEF InOrder
<1>3. ASSUME NEW t \in IoThreads, ReturnMessage(t) \/ DropMessage(t)
      PROVE  InOrder'
  <2> DEFINE m == Head(message_queue[t])
  <2>1. /\ m \in Messages /\ Holds("return", t, m) /\ msgs' \subseteq msgs
        /\ \A k, x, o : Holds(k, x, o)' => Holds(k, x, o) \/ (k = "io" /\ o = m)
        /\ \A u \in IoThreads : \A a, b : Precedes(message_queue[u], a, b)' =>
                Precedes(message_queue[u], a, b)
        /\ \A b : Holds("return", t, b)' => Precedes(message_queue[t], m, b)
        /\ UNCHANGED task_queue
    BY <1>3, ReturnHolds
  <2> HIDE DEF m
  <2>2. m \in msgs
    BY <1>0, <1>r, <2>1
  <2>3. ASSUME NEW x \in Holders, NEW o \in msgs, o.conn = m.conn, Holds("return", x, o)'
        PROVE  Ahead(m, o)
    <3>1. Holds("return", x, o)
      BY <2>1, <2>3
    <3>2. x \in IoThreads /\ x = t
      BY <1>0, <2>1, <2>3, <3>1 DEF OwnerHandles, Holds
    <3> QED  BY <2>1, <2>3, <3>2 DEF Ahead
  <2>4. \A u \in IoThreads : \A a, b \in msgs :
            Precedes(message_queue[u], a, b)' => Ahead(a, b)
    BY <2>1 DEF Ahead
  <2>5. \A w \in Workers : \A a, b \in msgs :
            Precedes(task_queue[w], a, b)' => Ahead(a, b)
    BY <2>1 DEF Ahead
  <2> QED  BY <1>0, <1>r, <2>1, <2>2, <2>3, <2>4, <2>5, MoveInOrder
<1>4. ASSUME NEW w \in Workers, TakeTask(w)
      PROVE  InOrder'
  <2> DEFINE m == Head(task_queue[w])
  <2>1. /\ m \in Messages /\ Holds("task", w, m) /\ msgs' \subseteq msgs
        /\ \A k, x, o : Holds(k, x, o)' => Holds(k, x, o) \/ (k = "worker" /\ o = m)
        /\ \A u \in Workers : \A a, b : Precedes(task_queue[u], a, b)' =>
                Precedes(task_queue[u], a, b)
        /\ \A b : Holds("task", w, b)' => Precedes(task_queue[w], m, b)
        /\ UNCHANGED message_queue
    BY <1>4, TakeHolds
  <2> HIDE DEF m
  <2>2. m \in msgs
    BY <1>0, <1>r, <2>1
  <2>3. ASSUME NEW x \in Holders, NEW o \in msgs, Holds("task", x, o)'
        PROVE  Ahead(m, o)
    <3>1. Holds("task", x, o)
      BY <2>1, <2>3
    <3>2. x \in Workers /\ x = w
      BY <2>1, <2>2, <3>1 DEF OneWorker, TaskIndex, Holds
    <3> QED  BY <2>1, <2>3, <3>2 DEF Ahead
  <2>4. \A u \in Workers : \A a, b \in msgs :
            Precedes(task_queue[u], a, b)' => Ahead(a, b)
    BY <2>1 DEF Ahead
  <2>5. \A u \in IoThreads : \A a, b \in msgs :
            Precedes(message_queue[u], a, b)' => Ahead(a, b)
    BY <2>1 DEF Ahead
  <2> QED  BY <1>0, <1>r, <2>1, <2>2, <2>3, <2>4, <2>5, MoveInOrder
<1>5. ASSUME NEW w \in Workers, FinishTask(w)
      PROVE  InOrder'
  <2> DEFINE m == whand[w]
  <2>1. /\ m \in Messages /\ Holds("worker", w, m) /\ msgs' \subseteq msgs
        /\ \A k, x, o : Holds(k, x, o)' =>
                \/ Holds(k, x, o) /\ ~(k = "worker" /\ x = w)
                \/ k = "return" /\ o = m
        /\ \A t \in IoThreads : \A a, b : Precedes(message_queue[t], a, b)' =>
                Precedes(message_queue[t], a, b) \/ (b = m /\ Holds("return", t, a))
        /\ UNCHANGED task_queue
    BY <1>5, FinishHolds
  <2> HIDE DEF m
  <2>2. m \in msgs
    BY <1>0, <1>r, <2>1
  <2>3. ASSUME NEW x \in Holders, NEW o \in msgs, Holds("worker", x, o)'
        PROVE  FALSE
    <3>1. Holds("worker", x, o) /\ x # w
      BY <2>1, <2>3
    <3> QED  BY <2>1, <2>2, <3>1 DEF OneWorker, TaskIndex, Holds
  <2>4. ASSUME NEW t \in IoThreads, NEW a \in msgs, NEW b \in msgs,
               Precedes(message_queue[t], a, b)'
        PROVE  Ahead(a, b)
    <3>1. CASE Precedes(message_queue[t], a, b)
      BY <3>1 DEF Ahead
    <3>2. CASE b = m /\ Holds("return", t, a)
      BY <1>r, <2>1, <3>2 DEF Ahead
    <3> QED  BY <2>1, <2>4, <3>1, <3>2
  <2>5. \A u \in Workers : \A a, b \in msgs :
            Precedes(task_queue[u], a, b)' => Ahead(a, b)
    BY <2>1 DEF Ahead
  <2>6. \A k \in Kinds, x \in Holders, o \in msgs : Holds(k, x, o)' =>
                Holds(k, x, o) \/ (k = "return" /\ o = m)
    BY <2>1
  <2> QED  BY <1>0, <1>r, <2>1, <2>2, <2>3, <2>4, <2>5, <2>6, MoveInOrder
<1>2. ASSUME NEW t \in IoThreads, NEW c \in Conns, NEW n \in 1..MaxReq,
             ReadRequest(t, c, n)
      PROVE  InOrder'
  <2>1. PICK m \in Messages :
            /\ m.conn = c /\ ~ m.sent /\ m.lo = ndec[c] + 1
            /\ m \notin msgs /\ msgs' = msgs \cup {m}
            /\ \A k \in Kinds, x \in Holders : ~Holds(k, x, m)
            /\ UNCHANGED <<message_queue, whand>>
            /\ \/ /\ NWorkers = 0 /\ UNCHANGED task_queue
                  /\ Goto(t, "reply", c, m, "poll")
               \/ /\ NWorkers # 0 /\ UNCHANGED ioVars
                  /\ task_queue' = [task_queue EXCEPT ![TaskIndex(m)] = Append(@, m)]
    BY <1>2, ReadMoves
  <2>2. \A k, x, o : Holds(k, x, o)' =>
           \/ Holds(k, x, o)
           \/ o = m /\ NWorkers = 0 /\ k = "io" /\ x = t
           \/ o = m /\ NWorkers # 0 /\ k = "task" /\ x = TaskIndex(m)
    BY <2>1, ReadHolds
  <2>3. ASSUME NEW w \in Workers
        PROVE  \A a, b : Precedes(task_queue[w], a, b)' =>
                Precedes(task_queue[w], a, b) \/ b = m
    <3>1. task_queue \in [Workers -> Seq(Messages)]
      BY DEF TypeInv, TypeOK, QueueTypeOK
    <3>2. CASE NWorkers # 0 /\ w = TaskIndex(m)
      <4>1. task_queue[w] \in Seq(Messages) /\ task_queue'[w] = Append(task_queue[w], m)
        BY <2>1, <3>1, <3>2
      <4> QED  BY <4>1, PrecedesAppend
    <3>3. CASE ~(NWorkers # 0 /\ w = TaskIndex(m))
      BY <2>1, <3>1, <3>3
    <3> QED  BY <3>2, <3>3
  <2> SUFFICES ASSUME NEW a \in msgs \cup {m}, NEW b \in msgs \cup {m},
                      a.conn = b.conn, Ahead(a, b)'
               PROVE  a.hi < b.lo
    BY <2>1 DEF InOrder
  <2>4. a # b
    <3>1. a \in Messages
      BY <1>0
    <3>2. \A s : NoRepeat(s) => ~Precedes(s, a, a)
      <4> SUFFICES ASSUME NEW s, NoRepeat(s), NEW i \in 1..Len(s), NEW j \in 1..Len(s),
                          i < j, s[i] = a, s[j] = a
                   PROVE  FALSE
        BY DEF Precedes
      <4>1. i = j
        BY DEF NoRepeat
      <4>2. ~(i < i)
        <5>1. i \in Int
          OBVIOUS
        <5> QED  BY <5>1
      <4> QED  BY <4>1, <4>2
    <3>3. \A i \in Kinds : Rank[i] \in Nat
      BY DEF Kinds, Rank
    <3>4. \A k \in Kinds, x \in Holders, l \in Kinds, y \in Holders :
            Holds(k, x, a)' /\ Holds(l, y, a)' => ~(Rank[k] < Rank[l])
      BY <3>1, <3>3 DEF OnePlace, OneHolder
    <3>5. /\ \A u \in IoThreads : NoRepeat(message_queue[u])'
          /\ \A w \in Workers : NoRepeat(task_queue[w])'
      BY DEF OnePlace, QueuedOnce
    <3>6. ~Ahead(a, a)'
      BY <3>2, <3>4, <3>5 DEF Ahead
    <3> QED  BY <3>6
  <2>5. CASE a # m /\ b # m
    <3>1. Ahead(a, b)
      BY <2>1, <2>2, <2>3, <2>5 DEF Ahead
    <3> QED  BY <2>5, <3>1 DEF InOrder
  <2>6. CASE b = m
    <3>1. a \in msgs /\ a.conn = c
      BY <2>1, <2>4, <2>6
    <3>2. a.hi <= ndec[c]
      BY <3>1 DEF RequestsDecoded, OneWorker
    <3>3. a.hi \in Nat
      BY <1>0, <3>1, ServiceConstants DEF Messages
    <3>4. ndec[c] \in Nat
      BY ServiceConstants DEF TypeInv, TypeOK, StreamTypeOK
    <3> QED  BY <2>1, <2>6, <3>2, <3>3, <3>4
  <2>7. CASE a = m /\ b # m
    <3>1. \A u \in IoThreads : ~Precedes(message_queue[u], m, b)'
      <4>1. \A u \in IoThreads : Precedes(message_queue[u], m, b)' => Holds("return", u, m)
        BY <2>1, PrecedesQueued DEF Holds
      <4> QED  BY <1>r, <2>1, <4>1
    <3>2. \A w \in Workers : ~Precedes(task_queue[w], m, b)'
      <4>1. \A w \in Workers : Precedes(task_queue[w], m, b)' => Holds("task", w, m)
        BY <2>3, <2>7, PrecedesQueued DEF Holds
      <4> QED  BY <1>r, <2>1, <4>1
    <3>3. PICK k \in Kinds, x \in Holders, l \in Kinds, y \in Holders :
            Holds(k, x, m)' /\ Holds(l, y, b)' /\ Rank[k] < Rank[l]
      BY <2>7, <3>1, <3>2 DEF Ahead
    <3>4. Holds(l, y, b)
      BY <2>2, <2>7, <3>3
    <3>5. CASE NWorkers # 0
      <4>1. k = "task"
        BY <2>1, <2>2, <3>3, <3>5
      <4> QED  BY <3>3, <4>1 DEF Kinds, Rank
    <3>6. CASE NWorkers = 0
      <4>1. Workers = {}
        BY <3>6 DEF Workers
      <4>2. k = "io"
        BY <2>1, <2>2, <3>3, <3>6
      <4>3. l = "return"
        BY <3>3, <3>4, <4>1, <4>2 DEF Kinds, Rank, Holds
      <4>4. \E u \in IoThreads : Queued(<< >>, b)
        BY <3>4, <3>6, <4>3 DEF Holds, OneWorker, NoReturns
      <4> QED  BY <4>4 DEF Queued
    <3> QED  BY <3>5, <3>6
  <2> QED  BY <2>5, <2>6, <2>7
<1> QED
  <2>1. TypeInv
    OBVIOUS
  <2> QED  BY <2>1, <1>1, <1>2, <1>3, <1>4, <1>5, NoMoveSteps

-----------------------------------------------------------------------------
(***************************************************************************)
(* Answers.  What has been answered on an open connection is the stream's  *)
(* beginning, and the messages on their way hold the rest of what has been *)
(* decoded.                                                                *)
(***************************************************************************)
LEMMA QueuedHead ==
    ASSUME NEW S, NEW s \in Seq(S), s # << >>, NEW y, Queued(s, y)
    PROVE  y = Head(s) \/ Queued(Tail(s), y)
<1>1. /\ Len(s) \in Nat \ {0}
      /\ Len(Tail(s)) = Len(s) - 1
      /\ \A i \in 1..Len(Tail(s)) : Tail(s)[i] = s[i + 1]
      /\ Head(s) = s[1]
  BY HeadTailProperties, EmptySeq
<1>2. PICK i \in 1..Len(s) : s[i] = y
  BY DEF Queued
<1>3. CASE i = 1
  BY <1>1, <1>2, <1>3
<1>4. CASE i # 1
  <2>1. i - 1 \in 1..Len(Tail(s)) /\ (i - 1) + 1 = i
    BY <1>1, <1>4
  <2>2. Tail(s)[i - 1] = y
    BY <1>1, <1>2, <2>1
  <2> QED  BY <2>1, <2>2 DEF Queued
<1> QED  BY <1>3, <1>4

(* A write moves units from the buffer to the wire and changes neither     *)
(* their order nor their number.                                           *)
LEMMA WriteKeeps ==
    ASSUME NEW s \in Seq(Unit), NEW b \in Seq(Unit), NEW n \in 0..Len(b)
    PROVE  (s \o SubSeq(b, 1, n)) \o SubSeq(b, n + 1, Len(b)) = s \o b
<1> DEFINE p == SubSeq(b, 1, n)
           q == SubSeq(b, n + 1, Len(b))
<1>1. Len(b) \in Nat
  BY LenProperties
<1>2. p \in Seq(Unit) /\ q \in Seq(Unit)
  BY <1>1
<1>3. 1 \in 1..(Len(b) + 1) /\ n \in (1 - 1)..Len(b) /\ Len(b) \in n..Len(b)
  BY <1>1
<1>4. p \o q = SubSeq(b, 1, Len(b))
  BY <1>3, ConcatAdjacentSubSeq, Zenon
<1>5. SubSeq(b, 1, Len(b)) = b
  BY SubSeqFull
<1> HIDE DEF p, q
<1>6. (s \o p) \o q = s \o (p \o q)
  BY <1>2, ConcatAssociative
<1> QED  BY <1>4, <1>5, <1>6 DEF p, q

(* The answer to the request that begins where the stream ends. *)
LEMMA AnswerAppended ==
    ASSUME NEW m \in Messages, NEW c, m.from = c, NEW s \in Seq(Unit),
           m.lo = Len(s) + 1, \A i \in 1..Len(s) : s[i] = <<c, i>>
    PROVE  /\ Len(s \o Units(m)) = m.hi
           /\ \A i \in 1..m.hi : (s \o Units(m))[i] = <<c, i>>
<1> USE ServiceConstants
<1>1. m.lo \in Nat /\ m.hi \in Nat /\ m.lo <= m.hi /\ Len(s) \in Nat
  BY LenProperties DEF Messages
<1>2. Units(m) \in Seq(Unit) /\ Len(Units(m)) = m.hi - m.lo + 1
  BY UnitsType
<1>3. Len(s) + Len(Units(m)) = m.hi
  <2> DEFINE k == Len(s)
             u == Len(Units(m))
             lo == m.lo
             hi == m.hi
  <2>1. k \in Nat /\ lo \in Nat /\ hi \in Nat /\ lo = k + 1 /\ u = hi - lo + 1
    BY <1>1, <1>2
  <2> HIDE DEF k, u, lo, hi
  <2>2. k + u = hi
    BY <2>1
  <2> QED  BY <2>2 DEF k, u, hi
<1>4. /\ Len(s \o Units(m)) = m.hi
      /\ \A i \in 1..m.hi : (s \o Units(m))[i] =
            IF i <= Len(s) THEN s[i] ELSE Units(m)[i - Len(s)]
  BY <1>2, <1>3, ConcatProperties
<1>5. ASSUME NEW i \in 1..m.hi
      PROVE  (s \o Units(m))[i] = <<c, i>>
  <2>1. CASE i <= Len(s)
    BY <1>1, <1>4, <2>1
  <2>2. CASE ~(i <= Len(s))
    <3>1. /\ i - Len(s) \in 1..(m.hi - m.lo + 1)
          /\ m.lo + (i - Len(s)) - 1 = i
      BY <1>1, <2>2
    <3>2. Units(m)[i - Len(s)] = <<c, i>>
      BY <3>1 DEF Units
    <3> QED  BY <1>4, <2>2, <3>2
  <2> QED  BY <2>1, <2>2
<1> QED  BY <1>4, <1>5

(* The places of a message that waits for its answer. *)
Waits(o) == \/ \E w \in Workers : Queued(task_queue[w], o)
            \/ \E w \in Workers : whand[w] # NULL /\ whand[w] = o
            \/ \E t \in IoThreads : Queued(message_queue[t], o)
            \/ \E t \in IoThreads : iopc[t] = "reply" /\ iom[t] = o

LEMMA PendingIs == \A o : Pending(o) <=> Waits(o)
<1> SUFFICES ASSUME NEW o PROVE Pending(o) <=> Waits(o)
  OBVIOUS
<1>1. {"task", "worker", "return", "io"} = Kinds
  BY DEF Kinds
<1>2. IoThreads \subseteq Holders /\ Workers \subseteq Holders
  BY DEF Holders
<1>3. \A t \in IoThreads : iopc[t] = "reply" => Carries(t)
  BY DEF Carries
<1>4. ASSUME Pending(o)
      PROVE  Waits(o)
  BY <1>4 DEF Pending, Holds, Waits
<1>5. ASSUME NEW w \in Workers, Queued(task_queue[w], o)
      PROVE  Pending(o)
  <2>1. Holds("task", w, o)
    BY <1>5 DEF Holds
  <2> QED  BY <1>1, <1>2, <2>1 DEF Pending
<1>6. ASSUME NEW w \in Workers, whand[w] # NULL, whand[w] = o
      PROVE  Pending(o)
  <2>1. Holds("worker", w, o)
    BY <1>6 DEF Holds
  <2> QED  BY <1>1, <1>2, <2>1 DEF Pending
<1>7. ASSUME NEW t \in IoThreads, Queued(message_queue[t], o)
      PROVE  Pending(o)
  <2>1. Holds("return", t, o)
    BY <1>7 DEF Holds
  <2> QED  BY <1>1, <1>2, <2>1 DEF Pending
<1>8. ASSUME NEW t \in IoThreads, iopc[t] = "reply", iom[t] = o
      PROVE  Pending(o)
  <2>1. Holds("io", t, o)
    BY <1>3, <1>8 DEF Holds
  <2> QED  BY <1>1, <1>2, <1>8, <2>1 DEF Pending
<1> QED  BY <1>4, <1>5, <1>6, <1>7, <1>8 DEF Waits

LEMMA PendingIsNext == (\A o : Pending(o) <=> Waits(o))'
  BY PendingIs, PTL

(* A step that answers nothing and moves no message. *)
Calm ==
    /\ UNCHANGED <<message_queue, task_queue, whand, ndec>>
    /\ \A t \in IoThreads : /\ iopc'[t] = "reply" <=> iopc[t] = "reply"
                            /\ iopc[t] = "reply" => iom'[t] = iom[t]
    /\ \A c \in Conns : Stream(c)' = Stream(c)

LEMMA CalmSteps ==
    ASSUME TypeInv, [Next]_vars
    PROVE  \/ Calm
           \/ \E t \in IoThreads, c \in Conns, n \in 1..MaxReq : ReadRequest(t, c, n)
           \/ \E t \in IoThreads : ReturnMessage(t) \/ DropMessage(t)
           \/ \E w \in Workers : TakeTask(w) \/ FinishTask(w)
           \/ \E t \in IoThreads : NoReply(t) \/ ReplyFails(t) \/ \E n : Reply(t, n)
<1> USE ServiceConstants DEF TypeInv, TypeOK
<1>a. ASSUME UNCHANGED <<message_queue, task_queue, whand, ndec, outp, wbuf>>,
             \A u \in IoThreads : /\ iopc'[u] = "reply" <=> iopc[u] = "reply"
                                  /\ iopc[u] = "reply" => iom'[u] = iom[u]
      PROVE  Calm
  BY <1>a DEF Calm, Stream
<1>1. ASSUME NEW c \in Conns, PeerStep(c) \/ \E t \in IoThreads : AcceptFails(t, c)
      PROVE  Calm
  BY <1>a, <1>1 DEF PeerStep, Connect, PeerSend, PeerClose, AcceptFails, queueVars,
                    streamVars, ioVars
<1>2. ASSUME NEW t \in IoThreads,
             \/ \E c : Accept(t, c) \/ WriteEventFails(t, c)
             \/ \E c, n : ReadAndClose(t, c, n)
             \/ GrowDone(t) \/ Distribute(t) \/ DestroyMessage(t)
      PROVE  Calm
  <2>1. /\ UNCHANGED <<message_queue, task_queue, whand, ndec, outp, wbuf>>
        /\ iopc[t] # "reply"
        /\ \E l \in {"grow", "accepted", "close", "poll"} : \E d :
                Goto(t, l, d, NULL, "poll")
    BY <1>2 DEF Accept, ReadAndClose, WriteEventFails, GrowDone, Distribute, Readable,
                Writeable, DestroyMessage, BackToPoll, queueVars, streamVars
  <2>2. \A u \in IoThreads : /\ iopc'[u] = "reply" <=> iopc[u] = "reply"
                             /\ iopc[u] = "reply" => iom'[u] = iom[u]
    BY <2>1 DEF Goto, IoTypeOK
  <2> QED  BY <1>a, <2>1, <2>2
<1>3. ASSUME NEW t \in IoThreads, Grow(t) \/ AddConn(t)
      PROVE  Calm
  BY <1>a, <1>3 DEF Grow, AddConn, queueVars, streamVars, ioVars
<1>4. ASSUME NEW t \in IoThreads, NEW c \in Conns, NEW n \in 0..Len(wbuf[c]),
             WriteEvent(t, c, n)
      PROVE  Calm
  <2>1. /\ UNCHANGED <<message_queue, task_queue, whand, ndec, iopc, iom>>
        /\ outp' = [outp EXCEPT ![c] = @ \o SubSeq(wbuf[c], 1, n)]
        /\ wbuf' = [wbuf EXCEPT ![c] = SubSeq(wbuf[c], n + 1, Len(wbuf[c]))]
    BY <1>4 DEF WriteEvent, WriteOut, queueVars, ioVars
  <2>2. outp[c] \in Seq(Unit) /\ wbuf[c] \in Seq(Unit)
    BY DEF StreamTypeOK
  <2>3. Stream(c)' = Stream(c)
    <3>1. /\ outp'[c] = outp[c] \o SubSeq(wbuf[c], 1, n)
          /\ wbuf'[c] = SubSeq(wbuf[c], n + 1, Len(wbuf[c]))
      BY <2>1 DEF StreamTypeOK
    <3>2. (outp[c] \o SubSeq(wbuf[c], 1, n)) \o SubSeq(wbuf[c], n + 1, Len(wbuf[c]))
            = outp[c] \o wbuf[c]
      BY <2>2, WriteKeeps
    <3> QED  BY <3>1, <3>2 DEF Stream
  <2>4. \A d \in Conns : d # c => Stream(d)' = Stream(d)
    BY <2>1 DEF Stream, StreamTypeOK
  <2> QED  BY <2>1, <2>3, <2>4 DEF Calm
<1>5. ASSUME NEW t \in IoThreads,
             \/ CloseMark(t) \/ CheckRef(t) \/ DelConnection(t) \/ CloseFd(t)
             \/ FreeConnection(t)
      PROVE  Calm
  <2>1. /\ UNCHANGED <<message_queue, task_queue, whand, ndec, outp, wbuf, iom>>
        /\ \A u \in IoThreads : u # t => iopc'[u] = iopc[u]
    BY <1>5 DEF CloseMark, CheckRef, DelConnection, CloseFd, FreeConnection,
                queueVars, streamVars, IoTypeOK
  <2>2. iopc[t] # "reply" /\ iopc'[t] # "reply"
    BY <1>5, ReleaseLabels
       DEF CloseMark, CheckRef, DelConnection, CloseFd, FreeConnection, IoTypeOK
  <2> QED  BY <1>a, <2>1, <2>2
<1>6. CASE UNCHANGED vars
  BY <1>a, <1>6 DEF vars, queueVars, streamVars, ioVars
<1> QED
  BY <1>1, <1>2, <1>3, <1>4, <1>5, <1>6
  DEF Next, IoStep, ListenEvent, QueueEvent, SocketEvent, HandlerStep, Close,
      WorkerStep

(* A step after which the same messages wait for the same answers. *)
Same ==
    /\ UNCHANGED ndec
    /\ \A c \in Conns : Stream(c)' = Stream(c)
    /\ \A c \in Answers : status'[c] = "OPEN" =>
        \A o \in Messages : o.conn = c => (Waits(o)' <=> Waits(o))

LEMMA SameSteps ==
    ASSUME CoreInv, OneWorker, [Next]_vars
    PROVE  \/ Same
           \/ \E t \in IoThreads, c \in Conns, n \in 1..MaxReq : ReadRequest(t, c, n)
           \/ \E t \in IoThreads : ReplyFails(t) \/ \E n : Reply(t, n)
<1> USE ServiceConstants DEF CoreInv, TypeInv, TypeOK
<1>1. CASE Calm
  <2>1. \A o : Waits(o)' <=> Waits(o)
    BY <1>1 DEF Calm, Waits
  <2> QED  BY <1>1, <2>1 DEF Calm, Same
<1>2. ASSUME NEW t \in IoThreads, ReturnMessage(t) \/ DropMessage(t)
      PROVE  Same
  <2> DEFINE q == message_queue[t]
             h == Head(q)
             r == Tail(q)
  <2>1. /\ UNCHANGED <<task_queue, whand, ndec, outp, wbuf, status>>
        /\ iopc[t] = "poll" /\ q \in Seq(Messages) /\ q # << >>
        /\ message_queue'[t] = r
        /\ \A u \in IoThreads : u # t =>
                UNCHANGED <<message_queue[u], iopc[u], iom[u]>>
        /\ \/ iopc'[t] = "reply" /\ iom'[t] = h
           \/ status[h.conn] = "CLOSED" /\ iopc'[t] = "poll"
    BY <1>2 DEF ReturnMessage, DropMessage, QueueTypeOK, streamVars, connVars, Goto,
                ioVars, IoTypeOK
  <2>2. \A o : Queued(q, o) <=> o = h \/ Queued(r, o)
    BY <2>1, QueuedTail, QueuedHead
  <2> HIDE DEF q, h, r
  <2>3. \A o : Queued(message_queue[t], o) <=> o = h \/ Queued(r, o)
    BY <2>2 DEF q
  <2>4. ASSUME NEW o \in Messages, status'[o.conn] = "OPEN"
        PROVE  Waits(o)' <=> Waits(o)
    <3>1. UNCHANGED <<task_queue, whand>>
      BY <2>1
    <3>2. (\E u \in IoThreads : Queued(message_queue[u], o))
                \/ (\E u \in IoThreads : iopc[u] = "reply" /\ iom[u] = o)
          <=> \/ o = h \/ Queued(r, o)
              \/ \E u \in IoThreads : u # t /\ Queued(message_queue[u], o)
              \/ \E u \in IoThreads : u # t /\ iopc[u] = "reply" /\ iom[u] = o
      BY <2>1, <2>3
    <3>3. (\E u \in IoThreads : Queued(message_queue[u], o))'
                \/ (\E u \in IoThreads : iopc[u] = "reply" /\ iom[u] = o)'
          <=> \/ (iopc'[t] = "reply" /\ o = h) \/ Queued(r, o)
              \/ \E u \in IoThreads : u # t /\ Queued(message_queue[u], o)
              \/ \E u \in IoThreads : u # t /\ iopc[u] = "reply" /\ iom[u] = o
      BY <2>1
    <3>4. o = h => iopc'[t] = "reply"
      BY <2>1, <2>4
    <3> QED  BY <3>1, <3>2, <3>3, <3>4 DEF Waits
  <2>5. \A c \in Conns : Stream(c)' = Stream(c)
    BY <2>1 DEF Stream
  <2> QED  BY <2>1, <2>4, <2>5 DEF Same
<1>3. ASSUME NEW w \in Workers, TakeTask(w)
      PROVE  Same
  <2> DEFINE q == task_queue[w]
             h == Head(q)
             r == Tail(q)
  <2>1. /\ UNCHANGED <<message_queue, iopc, iom, ndec, outp, wbuf>>
        /\ q \in Seq(Messages) /\ q # << >> /\ whand[w] = NULL
        /\ task_queue'[w] = r /\ whand'[w] = h
        /\ \A v \in Workers : v # w => UNCHANGED <<task_queue[v], whand[v]>>
    BY <1>3 DEF TakeTask, QueueTypeOK, MessageTypeOK, streamVars, ioVars
  <2>2. \A o : Queued(q, o) <=> o = h \/ Queued(r, o)
    BY <2>1, QueuedTail, QueuedHead
  <2>3. h \in Messages
    BY <2>1, HeadTailProperties
  <2>4. h # NULL
    BY <2>3, NullIsNoMessage
  <2> HIDE DEF q, h, r
  <2>5. ASSUME NEW o \in Messages
        PROVE  Waits(o)' <=> Waits(o)
    <3>1. (\E v \in Workers : Queued(task_queue[v], o))
                \/ (\E v \in Workers : whand[v] # NULL /\ whand[v] = o)
          <=> \/ o = h \/ Queued(r, o)
              \/ \E v \in Workers : v # w /\ Queued(task_queue[v], o)
              \/ \E v \in Workers : v # w /\ whand[v] # NULL /\ whand[v] = o
      BY <2>1, <2>2 DEF q
    <3>2. (\E v \in Workers : Queued(task_queue[v], o))'
                \/ (\E v \in Workers : whand[v] # NULL /\ whand[v] = o)'
          <=> \/ o = h \/ Queued(r, o)
              \/ \E v \in Workers : v # w /\ Queued(task_queue[v], o)
              \/ \E v \in Workers : v # w /\ whand[v] # NULL /\ whand[v] = o
      BY <2>1, <2>4
    <3> QED  BY <2>1, <3>1, <3>2 DEF Waits
  <2>6. \A c \in Conns : Stream(c)' = Stream(c)
    BY <2>1 DEF Stream
  <2> QED  BY <2>1, <2>5, <2>6 DEF Same
<1>4. ASSUME NEW w \in Workers, FinishTask(w)
      PROVE  Same
  <2> DEFINE m == whand[w]
             u == io_thread[m.conn]
  <2>1. /\ UNCHANGED <<task_queue, iopc, iom, ndec, outp, wbuf>>
        /\ m \in Messages /\ m # NULL /\ whand'[w] = NULL
        /\ \A v \in Workers : v # w => whand'[v] = whand[v]
    BY <1>4 DEF FinishTask, MessageTypeOK, streamVars, ioVars
  <2>2. u \in IoThreads
    <3>1. Holds("worker", w, m)
      BY <2>1 DEF Holds
    <3>2. m \in msgs
      BY <2>1, <3>1 DEF OnePlace, OneHolder, Kinds, Holders
    <3> QED  BY <2>1, <3>2 DEF MessagesTaken, ConnTypeOK, Messages
  <2>3. /\ message_queue[u] \in Seq(Messages)
        /\ message_queue'[u] = Append(message_queue[u], m)
        /\ \A t \in IoThreads : t # u => message_queue'[t] = message_queue[t]
    BY <1>4, <2>2 DEF FinishTask, QueueTypeOK
  <2>4. \A o : Queued(message_queue'[u], o) <=> Queued(message_queue[u], o) \/ o = m
    BY <2>1, <2>3, QueuedAppend
  <2> HIDE DEF u
  <2>5. ASSUME NEW o \in Messages
        PROVE  Waits(o)' <=> Waits(o)
    <3>1. (\E t \in IoThreads : Queued(message_queue[t], o))'
            <=> o = m \/ \E t \in IoThreads : Queued(message_queue[t], o)
      BY <2>2, <2>3, <2>4
    <3>2. (\E v \in Workers : whand[v] # NULL /\ whand[v] = o)
            <=> o = m \/ \E v \in Workers : v # w /\ whand[v] # NULL /\ whand[v] = o
      BY <2>1
    <3>3. (\E v \in Workers : whand[v] # NULL /\ whand[v] = o)'
            <=> \E v \in Workers : v # w /\ whand[v] # NULL /\ whand[v] = o
      BY <2>1
    <3> QED  BY <2>1, <3>1, <3>2, <3>3 DEF Waits
  <2>6. \A c \in Conns : Stream(c)' = Stream(c)
    BY <2>1 DEF Stream
  <2> QED  BY <2>1, <2>5, <2>6 DEF Same
<1>5. ASSUME NEW t \in IoThreads, NoReply(t)
      PROVE  Same
  <2>1. /\ UNCHANGED <<message_queue, task_queue, whand, iom, ndec, outp, wbuf>>
        /\ iopc[t] = "reply" /\ iopc'[t] = "destroy"
        /\ \A u \in IoThreads : u # t => iopc'[u] = iopc[u]
        /\ iom[t].conn \notin Answers
    BY <1>5 DEF NoReply, HasResponse, streamVars, queueVars, IoTypeOK
  <2>2. ASSUME NEW o \in Messages, o.conn \in Answers
        PROVE  Waits(o)' <=> Waits(o)
    <3>1. iom[t] # o
      BY <2>1, <2>2
    <3>2. \A u \in IoThreads : iopc'[u] = "reply" /\ iom[u] = o
                            <=> iopc[u] = "reply" /\ iom[u] = o
      BY <2>1, <3>1
    <3> QED  BY <2>1, <3>2 DEF Waits
  <2>3. \A c \in Conns : Stream(c)' = Stream(c)
    BY <2>1 DEF Stream
  <2> QED  BY <2>1, <2>2, <2>3 DEF Same
<1> QED
  <2>1. TypeInv
    OBVIOUS
  <2> QED  BY <2>1, <1>1, <1>2, <1>3, <1>4, <1>5, CalmSteps

(* Whatever else waits on the connection of a reply is behind it. *)
LEMMA ReplyIsFirst ==
    ASSUME CoreInv, InOrder, NEW t \in IoThreads, iopc[t] = "reply",
           NEW o \in Messages, Waits(o), o.conn = iom[t].conn, o # iom[t]
    PROVE  iom[t].hi < o.lo
<1> USE DEF CoreInv
<1>1. /\ iom[t] \in Messages /\ Carries(t) /\ Holds("io", t, iom[t])
      /\ iom[t].conn = ioc[t] /\ io_thread[ioc[t]] = t
  BY DEF TypeInv, HandlersTyped, Carries, Holds, OwnerHandles, HandlesOwn, Handling
<1>2. PICK k \in Kinds, x \in Holders :
            Holds(k, x, o) /\ (k = "io" => iopc[x] = "reply")
  BY PendingIs DEF Pending
<1>3. k # "io"
  <2> SUFFICES ASSUME k = "io" PROVE FALSE
    OBVIOUS
  <2>1. x \in IoThreads /\ iopc[x] = "reply" /\ iom[x] = o
    BY <1>2 DEF Holds
  <2>2. iom[x].conn = ioc[x] /\ io_thread[ioc[x]] = x
    BY <2>1 DEF Carries, OwnerHandles, HandlesOwn, Handling
  <2>3. x = t
    BY <1>1, <2>1, <2>2
  <2> QED  BY <2>1, <2>3
<1>4. Rank["io"] < Rank[k] /\ "io" \in Kinds /\ t \in Holders
  BY <1>3 DEF Rank, Kinds, Holders
<1>5. Ahead(iom[t], o)
  BY <1>1, <1>2, <1>4 DEF Ahead
<1>6. iom[t] \in msgs /\ o \in msgs
  BY <1>1, <1>2, <1>4 DEF OnePlace, OneHolder
<1> QED  BY <1>5, <1>6 DEF InOrder

(* What a reply does: it appends the response of the message in hand. *)
LEMMA ReplyWrites ==
    ASSUME TypeInv, OwnerHandles, OnePlace, NEW t \in IoThreads,
           ReplyFails(t) \/ \E n : Reply(t, n)
    PROVE  /\ iopc[t] = "reply" /\ HasResponse(iom[t])
           /\ iom[t] \in msgs /\ iom[t] \in Messages
           /\ status[iom[t].conn] = "OPEN"
           /\ \A d \in Conns : d = iom[t].conn => Stream(d)' = Stream(d) \o Units(iom[t])
           /\ \A d \in Conns : d # iom[t].conn => Stream(d)' = Stream(d)
           /\ \A o \in Messages : Waits(o)' <=> Waits(o) /\ o # iom[t]
           /\ UNCHANGED ndec
<1> USE ServiceConstants DEF TypeInv, TypeOK
<1> DEFINE m == iom[t]
           c == ioc[t]
           U == Units(m)
<1>1. /\ iopc[t] = "reply" /\ HasResponse(m) /\ Carries(t)
      /\ UNCHANGED <<message_queue, task_queue, whand, ndec, iom>>
      /\ iopc'[t] # "reply"
      /\ \A u \in IoThreads : u # t => iopc'[u] = iopc[u]
  BY DEF Reply, ReplyFails, Goto, queueVars, Carries, IoTypeOK
<1>2. m \in Messages /\ c \in Conns /\ m.conn = c /\ status[c] = "OPEN"
  BY <1>1 DEF HandlersTyped, OwnerHandles, HandlesOwn
<1>3. Holds("io", t, m)
  BY <1>1 DEF Holds
<1>4. /\ m \in msgs
      /\ \A k \in Kinds, x \in Holders : Holds(k, x, m) => k = "io" /\ x = t
  BY <1>2, <1>3 DEF OnePlace, OneHolder, Kinds, Holders
<1>6. outp[c] \in Seq(Unit) /\ wbuf[c] \in Seq(Unit) /\ U \in Seq(Unit)
  BY <1>2, UnitsType DEF StreamTypeOK
<1>7. /\ wbuf[c] \o U \in Seq(Unit)
      /\ (outp[c] \o wbuf[c]) \o U = outp[c] \o (wbuf[c] \o U)
  <2> HIDE DEF m, c, U
  <2>1. wbuf[c] \o U \in Seq(Unit)
    BY <1>6, ConcatProperties
  <2>2. (outp[c] \o wbuf[c]) \o U = outp[c] \o (wbuf[c] \o U)
    <3> DEFINE a == outp[c]
               b == wbuf[c]
    <3>1. a \in Seq(Unit) /\ b \in Seq(Unit) /\ U \in Seq(Unit)
      BY <1>6
    <3> HIDE DEF a, b
    <3>2. (a \o b) \o U = a \o (b \o U)
      BY <3>1, ConcatAssociative
    <3> QED  BY <3>2 DEF a, b
  <2> QED  BY <2>1, <2>2
<1>8. /\ \A d \in Conns : d = c => Stream(d)' = Stream(d) \o U
      /\ \A d \in Conns : d # c => Stream(d)' = Stream(d)
  <2>1. CASE ReplyFails(t)
    <3>1. outp' = outp /\ wbuf' = [wbuf EXCEPT ![c] = @ \o U]
      BY <2>1 DEF ReplyFails
    <3>2. \A d \in Conns : wbuf'[d] = IF d = c THEN wbuf[c] \o U ELSE wbuf[d]
      BY <3>1 DEF StreamTypeOK
    <3> HIDE DEF m, c, U
    <3>3. \A d \in Conns : d = c => Stream(d)' = Stream(d) \o U
      BY <1>7, <3>1, <3>2 DEF Stream
    <3>4. \A d \in Conns : d # c => Stream(d)' = Stream(d)
      BY <3>1, <3>2 DEF Stream
    <3> QED  BY <3>3, <3>4
  <2>2. ASSUME NEW n, Reply(t, n)
        PROVE  /\ \A d \in Conns : d = c => Stream(d)' = Stream(d) \o U
               /\ \A d \in Conns : d # c => Stream(d)' = Stream(d)
    <3> DEFINE b == wbuf[c] \o U
    <3>1. /\ n \in 0..Len(b)
          /\ outp' = [outp EXCEPT ![c] = @ \o SubSeq(b, 1, n)]
          /\ wbuf' = [wbuf EXCEPT ![c] = SubSeq(b, n + 1, Len(b))]
      BY <2>2 DEF Reply, WriteOut
    <3>2. (outp[c] \o SubSeq(b, 1, n)) \o SubSeq(b, n + 1, Len(b)) = outp[c] \o b
      BY <1>6, <1>7, <3>1, WriteKeeps
    <3>3. outp \in [Conns -> Seq(Unit)] /\ wbuf \in [Conns -> Seq(Unit)]
      BY DEF StreamTypeOK
    <3>4. \A d \in Conns :
            /\ outp'[d] = IF d = c THEN outp[c] \o SubSeq(b, 1, n) ELSE outp[d]
            /\ wbuf'[d] = IF d = c THEN SubSeq(b, n + 1, Len(b)) ELSE wbuf[d]
      BY <3>1, <3>3
    <3>5. outp[c] \o b = Stream(c) \o U
      BY <1>7 DEF Stream
    <3> HIDE DEF m, c, U, b
    <3>6. \A d \in Conns : d = c => Stream(d)' = Stream(d) \o U
      BY <3>2, <3>4, <3>5 DEF Stream
    <3>7. \A d \in Conns : d # c => Stream(d)' = Stream(d)
      BY <3>4 DEF Stream
    <3> QED  BY <3>6, <3>7
  <2> HIDE DEF m, c, U
  <2> QED  BY <2>1, <2>2
<1>9. ASSUME NEW o \in Messages
      PROVE  Waits(o)' <=> Waits(o) /\ o # m
  <2>1. \A u \in IoThreads : iopc'[u] = "reply" /\ iom'[u] = o
                        <=> iopc[u] = "reply" /\ iom[u] = o /\ u # t
    BY <1>1
  <2>2. CASE o # m
    BY <1>1, <2>1, <2>2 DEF Waits
  <2>3. CASE o = m
    <3>1. /\ \A w \in Workers : ~Holds("task", w, m) /\ ~Holds("worker", w, m)
          /\ \A u \in IoThreads : ~Holds("return", u, m)
          /\ \A u \in IoThreads : u # t => ~Holds("io", u, m)
      BY <1>4 DEF Kinds, Holders
    <3>2. /\ \A w \in Workers : ~Queued(task_queue[w], m)
          /\ \A w \in Workers : ~(whand[w] # NULL /\ whand[w] = m)
          /\ \A u \in IoThreads : ~Queued(message_queue[u], m)
          /\ \A u \in IoThreads : u # t => ~(iopc[u] = "reply" /\ iom[u] = m)
      BY <3>1 DEF Holds, Carries
    <3> QED  BY <1>1, <2>1, <2>3, <3>2 DEF Waits
  <2> QED  BY <2>2, <2>3
<1> QED  BY <1>1, <1>2, <1>4, <1>8, <1>9

(* Without sends, it answers the request in hand. *)
LEMMA ReplyEffect ==
    ASSUME CoreInv, OneWorker, NEW t \in IoThreads,
           ReplyFails(t) \/ \E n : Reply(t, n)
    PROVE  /\ iopc[t] = "reply"
           /\ iom[t] \in msgs /\ iom[t] \in Messages
           /\ iom[t].conn \in Answers /\ iom[t].from = iom[t].conn
           /\ status[iom[t].conn] = "OPEN"
           /\ \A d \in Conns : d = iom[t].conn => Stream(d)' = Stream(d) \o Units(iom[t])
           /\ \A d \in Conns : d # iom[t].conn => Stream(d)' = Stream(d)
           /\ \A o \in Messages : Waits(o)' <=> Waits(o) /\ o # iom[t]
           /\ UNCHANGED ndec
<1>1. TypeInv /\ OwnerHandles /\ OnePlace /\ RequestsDecoded
  BY DEF CoreInv
<1>2. iom[t] \in msgs /\ HasResponse(iom[t])
  BY <1>1, ReplyWrites
<1>3. iom[t].conn \in Answers /\ iom[t].from = iom[t].conn
  BY <1>1, <1>2 DEF HasResponse, OneWorker, RequestsDecoded
<1> QED  BY <1>1, <1>3, ReplyWrites


LEMMA StreamLength ==
    TypeInv => \A c \in Conns : /\ Stream(c) \in Seq(Unit)
                                /\ Answered(c) = Len(Stream(c))
                                /\ Answered(c) \in Nat
<1> SUFFICES ASSUME TypeInv, NEW c \in Conns
             PROVE  /\ Stream(c) \in Seq(Unit)
                    /\ Answered(c) = Len(Stream(c))
                    /\ Answered(c) \in Nat
  OBVIOUS
<1> DEFINE a == outp[c]
           b == wbuf[c]
<1>1. a \in Seq(Unit) /\ b \in Seq(Unit)
  BY DEF TypeInv, TypeOK, StreamTypeOK
<1> HIDE DEF a, b
<1>2. a \o b \in Seq(Unit) /\ Len(a \o b) = Len(a) + Len(b)
  BY <1>1, ConcatProperties
<1>3. Len(a) + Len(b) \in Nat
  BY <1>1, LenProperties
<1> QED  BY <1>2, <1>3 DEF Stream, Answered, a, b

LEMMA StreamLengthNext ==
    TypeInv' => (\A c \in Conns : /\ Stream(c) \in Seq(Unit)
                                  /\ Answered(c) = Len(Stream(c))
                                  /\ Answered(c) \in Nat)'
  BY StreamLength, PTL

(* Covers, by the places of the messages. *)
Tiles(c) ==
    /\ Answered(c) <= ndec[c]
    /\ \A n \in 1..ndec[c] : Answered(c) < n =>
        \E m \in Messages : Waits(m) /\ m.conn = c /\ m.lo <= n /\ n <= m.hi
    /\ \A m \in Messages : Waits(m) /\ m.conn = c => Answered(c) < m.lo

LEMMA TilesIsCovers == CoreInv => \A c \in Conns : Covers(c) <=> Tiles(c)
<1> SUFFICES ASSUME CoreInv PROVE \A c \in Conns : Covers(c) <=> Tiles(c)
  OBVIOUS
<1>1. msgs \subseteq Messages
  BY DEF CoreInv, TypeInv, TypeOK, MessageTypeOK
<1>2. \A m \in Messages : Waits(m) => m \in msgs
  BY PendingIs DEF CoreInv, OnePlace, OneHolder, Pending
<1>3. \A m : Pending(m) <=> Waits(m)
  BY PendingIs
<1> QED  BY <1>1, <1>2, <1>3 DEF Covers, Tiles

LEMMA TilesIsCoversNext == CoreInv' => (\A c \in Conns : Covers(c) <=> Tiles(c))'
  BY TilesIsCovers, PTL

LEMMA NextAnswers ==
    ASSUME CoreInv, CoreInv', OrderInv, [Next]_vars
    PROVE  /\ \A c \in Answers : status'[c] = "OPEN" => Tiles(c)'
           /\ \A c \in Conns \ Answers : Answered(c)' = 0
           /\ \A c \in Conns : \A i \in 1..Answered(c)' : Stream(c)'[i] = <<c, i>>
<1> USE ServiceConstants
<1>1. /\ TypeInv /\ TypeInv' /\ OneWorker /\ InOrder
      /\ Answers \subseteq Conns
  BY DEF CoreInv, OrderInv
<1>2. \A c \in Conns : /\ Stream(c) \in Seq(Unit) /\ Answered(c) = Len(Stream(c))
                       /\ Answered(c) \in Nat
  BY <1>1, StreamLength
<1>3. \A c \in Conns : /\ Stream(c)' \in Seq(Unit) /\ Answered(c)' = Len(Stream(c)')
                       /\ Answered(c)' \in Nat
  BY <1>1, StreamLengthNext
<1>4. \A c \in Conns : ndec[c] \in Nat /\ ndec'[c] \in Nat
  BY <1>1 DEF TypeInv, TypeOK, StreamTypeOK
<1>5. /\ \A c \in Answers : status[c] = "OPEN" => Tiles(c)
      /\ \A c \in Conns \ Answers : Answered(c) = 0
      /\ \A c \in Conns : \A i \in 1..Answered(c) : Stream(c)[i] = <<c, i>>
  BY <1>1, <1>2, TilesIsCovers DEF OrderInv, EchoInOrder, Stream
<1>6. \A c \in Conns : status'[c] = "OPEN" => status[c] = "OPEN"
  BY <1>1, NextFinal DEF Final, TypeInv, TypeOK, ConnTypeOK
<1>7. \A m \in Messages : m.lo \in Nat /\ m.hi \in Nat /\ m.lo <= m.hi /\ 1 <= m.lo
  BY DEF Messages
<1>8. CASE Same
  <2>1. \A c \in Conns : Answered(c)' = Answered(c) /\ Stream(c)' = Stream(c)
    BY <1>2, <1>3, <1>8 DEF Same
  <2>2. ASSUME NEW c \in Answers, status'[c] = "OPEN"
        PROVE  Tiles(c)'
    <3>1. Tiles(c)
      BY <1>1, <1>5, <1>6, <2>2
    <3>2. \A o \in Messages : o.conn = c => (Waits(o)' <=> Waits(o))
      BY <1>8, <2>2 DEF Same
    <3>3. ndec'[c] = ndec[c] /\ Answered(c)' = Answered(c)
      BY <1>1, <1>8, <2>1 DEF Same
    <3> QED  BY <3>1, <3>2, <3>3 DEF Tiles
  <2> QED  BY <1>5, <2>1, <2>2
<1>9. ASSUME NEW t \in IoThreads, NEW c \in Conns, NEW n \in 1..MaxReq,
             ReadRequest(t, c, n)
      PROVE  /\ \A d \in Answers : status'[d] = "OPEN" => Tiles(d)'
             /\ \A d \in Conns : Answered(d)' = Answered(d) /\ Stream(d)' = Stream(d)
  <2>1. PICK m \in Messages :
            /\ m.conn = c /\ m.lo = ndec[c] + 1 /\ ndec' = [ndec EXCEPT ![c] = m.hi]
            /\ UNCHANGED <<message_queue, whand>>
            /\ \/ /\ NWorkers = 0 /\ UNCHANGED task_queue
                  /\ Goto(t, "reply", c, m, "poll")
               \/ /\ NWorkers # 0 /\ UNCHANGED ioVars
                  /\ task_queue' = [task_queue EXCEPT ![TaskIndex(m)] = Append(@, m)]
    BY <1>9, ReadMoves DEF CoreInv
  <2>2. iopc[t] = "poll" /\ UNCHANGED <<outp, wbuf>>
    BY <1>9 DEF ReadRequest, Readable
  <2>3. \A d \in Conns : Answered(d)' = Answered(d) /\ Stream(d)' = Stream(d)
    BY <2>2 DEF Answered, Stream
  <2>4. ASSUME NEW o \in Messages
        PROVE  Waits(o)' <=> Waits(o) \/ o = m
    <3>1. CASE NWorkers = 0
      <4>1. \A u \in IoThreads : iopc'[u] = "reply" /\ iom'[u] = o
                <=> (u # t /\ iopc[u] = "reply" /\ iom[u] = o) \/ (u = t /\ o = m)
        BY <1>1, <2>1, <3>1 DEF Goto, TypeInv, TypeOK, IoTypeOK
      <4> QED  BY <2>1, <2>2, <3>1, <4>1 DEF Waits
    <3>2. CASE NWorkers # 0
      <4> DEFINE w == TaskIndex(m)
      <4>1. w \in Workers
        BY <3>2 DEF TaskIndex, Workers
      <4>2. /\ task_queue[w] \in Seq(Messages)
            /\ task_queue'[w] = Append(task_queue[w], m)
            /\ \A v \in Workers : v # w => task_queue'[v] = task_queue[v]
        BY <1>1, <2>1, <3>2, <4>1 DEF TypeInv, TypeOK, QueueTypeOK
      <4>3. Queued(task_queue'[w], o) <=> Queued(task_queue[w], o) \/ o = m
        BY <4>2, QueuedAppend
      <4> HIDE DEF w
      <4>4. (\E v \in Workers : Queued(task_queue'[v], o))
                <=> (\E v \in Workers : Queued(task_queue[v], o)) \/ o = m
        BY <4>1, <4>2, <4>3
      <4>5. UNCHANGED <<message_queue, whand, iopc, iom>>
        BY <2>1, <3>2 DEF ioVars
      <4> QED  BY <4>4, <4>5 DEF Waits
    <3> QED  BY <3>1, <3>2
  <2>5. ASSUME NEW d \in Answers, status'[d] = "OPEN"
        PROVE  Tiles(d)'
    <3>1. Tiles(d) /\ d \in Conns
      BY <1>1, <1>5, <1>6, <2>5
    <3>2. CASE d # c
      <4>1. ndec'[d] = ndec[d]
        BY <1>1, <2>1, <3>1, <3>2 DEF TypeInv, TypeOK, StreamTypeOK
      <4>2. \A o \in Messages : o.conn = d => (Waits(o)' <=> Waits(o))
        BY <2>1, <2>4, <3>2
      <4> QED  BY <2>3, <3>1, <4>1, <4>2 DEF Tiles
    <3>3. CASE d = c
      <4>1. ndec'[c] = m.hi
        BY <1>1, <2>1 DEF TypeInv, TypeOK, StreamTypeOK
      <4>2. Answered(c) <= ndec[c] /\ Answered(c) \in Nat /\ ndec[c] \in Nat
        BY <1>2, <1>4, <3>1, <3>3 DEF Tiles
      <4>3. Answered(c) <= m.hi /\ Answered(c) < m.lo /\ m.hi \in Nat
        BY <1>7, <2>1, <4>2
      <4>4. ASSUME NEW i \in 1..m.hi, Answered(c) < i
            PROVE  \E o \in Messages : (Waits(o) \/ o = m) /\ o.conn = c
                                            /\ o.lo <= i /\ i <= o.hi
        <5>1. CASE i <= ndec[c]
          <6>1. i \in 1..ndec[c]
            BY <1>7, <4>2, <5>1
          <6> QED  BY <3>1, <3>3, <4>4, <6>1 DEF Tiles
        <5>2. CASE ~(i <= ndec[c])
          <6>1. m.lo <= i /\ i <= m.hi
            BY <1>7, <2>1, <4>2, <5>2
          <6> QED  BY <2>1, <6>1
        <5> QED  BY <5>1, <5>2
      <4>5. \A o \in Messages : (Waits(o) \/ o = m) /\ o.conn = c => Answered(c) < o.lo
        BY <3>1, <3>3, <4>3 DEF Tiles
      <4> QED  BY <2>3, <2>4, <3>3, <4>1, <4>3, <4>4, <4>5 DEF Tiles
    <3> QED  BY <3>2, <3>3
  <2> QED  BY <2>3, <2>5
<1>10. ASSUME NEW t \in IoThreads, ReplyFails(t) \/ \E n : Reply(t, n)
       PROVE  /\ \A d \in Answers : status'[d] = "OPEN" => Tiles(d)'
              /\ \A d \in Conns \ Answers : Answered(d)' = Answered(d)
              /\ \A d \in Conns : \A i \in 1..Answered(d)' : Stream(d)'[i] = <<d, i>>
  <2> DEFINE m == iom[t]
             c == m.conn
  <2>1. /\ iopc[t] = "reply" /\ m \in msgs /\ m \in Messages
        /\ c \in Answers /\ c \in Conns /\ m.from = c /\ status[c] = "OPEN"
        /\ \A d \in Conns : d = c => Stream(d)' = Stream(d) \o Units(m)
        /\ \A d \in Conns : d # c => Stream(d)' = Stream(d)
        /\ \A o \in Messages : Waits(o)' <=> Waits(o) /\ o # m
        /\ UNCHANGED ndec
    BY <1>1, <1>10, ReplyEffect
  <2>2. Waits(m)
    BY <2>1 DEF Waits
  <2>3. \A o \in Messages : Waits(o) /\ o.conn = c /\ o # m => m.hi < o.lo
    BY <1>1, <2>1, ReplyIsFirst
  <2>4. m.hi <= ndec[c]
    BY <1>1, <2>1 DEF CoreInv, RequestsDecoded, OneWorker
  <2> HIDE DEF m, c
  <2>5. Tiles(c)
    BY <1>5, <2>1
  <2>6. /\ Answered(c) \in Nat /\ ndec[c] \in Nat /\ Answered(c) = Len(Stream(c))
        /\ Stream(c) \in Seq(Unit)
        /\ m.lo \in Nat /\ m.hi \in Nat /\ m.lo <= m.hi
    BY <1>2, <1>4, <1>7, <2>1
  <2>7. m.lo = Answered(c) + 1
    <3>1. Answered(c) < m.lo
      BY <2>1, <2>2, <2>5 DEF Tiles, c
    <3>2. Answered(c) + 1 \in 1..ndec[c] /\ Answered(c) < Answered(c) + 1
      BY <2>4, <2>6, <3>1
    <3>3. PICK o \in Messages : Waits(o) /\ o.conn = c /\ o.lo <= Answered(c) + 1
      BY <2>5, <3>2 DEF Tiles
    <3>4. o.lo \in Nat
      BY <1>7
    <3>5. CASE o = m
      BY <2>6, <3>1, <3>3, <3>5
    <3>6. CASE o # m
      <4>1. m.hi < o.lo
        BY <2>3, <3>3, <3>6
      <4> QED  BY <2>6, <3>1, <3>3, <3>4, <4>1
    <3> QED  BY <3>5, <3>6
  <2>8. /\ Len(Stream(c) \o Units(m)) = m.hi
        /\ \A i \in 1..m.hi : (Stream(c) \o Units(m))[i] = <<c, i>>
    <3> DEFINE s == Stream(c)
    <3>1. /\ m \in Messages /\ m.from = c /\ s \in Seq(Unit) /\ m.lo = Len(s) + 1
          /\ \A i \in 1..Len(s) : s[i] = <<c, i>>
      BY <1>5, <2>1, <2>6, <2>7
    <3> HIDE DEF s
    <3>2. /\ Len(s \o Units(m)) = m.hi
          /\ \A i \in 1..m.hi : (s \o Units(m))[i] = <<c, i>>
      BY <3>1, AnswerAppended
    <3> QED  BY <3>2 DEF s
  <2>9. \A d \in Conns : d = c => Answered(d)' = m.hi
    BY <1>3, <2>1, <2>8
  <2>10. \A d \in Conns : d # c => Answered(d)' = Answered(d)
    BY <1>2, <1>3, <2>1
  <2>11. ASSUME NEW d \in Answers, status'[d] = "OPEN"
         PROVE  Tiles(d)'
    <3>1. Tiles(d) /\ d \in Conns
      BY <1>1, <1>5, <1>6, <2>11
    <3>2. CASE d # c
      <4>1. \A o \in Messages : o.conn = d => (Waits(o)' <=> Waits(o))
        BY <2>1, <3>2 DEF c
      <4> QED  BY <2>1, <2>10, <3>1, <3>2, <4>1 DEF Tiles
    <3>3. CASE d = c
      <4>1. Answered(d)' = m.hi /\ ndec'[d] = ndec[c]
        BY <2>1, <2>9, <3>1, <3>3
      <4>2. ASSUME NEW i \in 1..ndec[c], m.hi < i
            PROVE  \E o \in Messages : Waits(o) /\ o # m /\ o.conn = c
                                            /\ o.lo <= i /\ i <= o.hi
        <5>1. Answered(c) < i
          BY <2>6, <2>7, <4>2
        <5>2. PICK o \in Messages : Waits(o) /\ o.conn = c /\ o.lo <= i /\ i <= o.hi
          BY <2>5, <5>1 DEF Tiles
        <5>3. o # m
          BY <2>6, <4>2, <5>2
        <5> QED  BY <5>2, <5>3
      <4> QED  BY <2>1, <2>3, <2>4, <3>3, <4>1, <4>2 DEF Tiles
    <3> QED  BY <3>2, <3>3
  <2>12. ASSUME NEW d \in Conns, NEW i \in 1..Answered(d)'
         PROVE  Stream(d)'[i] = <<d, i>>
    <3>1. CASE d # c
      <4>1. Stream(d)' = Stream(d) /\ i \in 1..Answered(d)
        BY <2>1, <2>10, <2>12, <3>1
      <4> QED  BY <1>5, <4>1
    <3>2. CASE d = c
      <4>1. Stream(d)' = Stream(c) \o Units(m) /\ i \in 1..m.hi
        BY <2>1, <2>9, <2>12, <3>2
      <4> QED  BY <2>8, <3>2, <4>1
    <3> QED  BY <3>1, <3>2
  <2> QED  BY <2>1, <2>10, <2>11, <2>12
<1> QED
  <2>1. Same \/ (\E t \in IoThreads, c \in Conns, n \in 1..MaxReq : ReadRequest(t, c, n))
             \/ (\E t \in IoThreads : ReplyFails(t) \/ \E n : Reply(t, n))
    BY <1>1, SameSteps
  <2> QED  BY <1>5, <1>8, <1>9, <1>10, <2>1

LEMMA InitOrder == Init => OrderInv
<1> SUFFICES ASSUME Init PROVE OrderInv
  OBVIOUS
<1> USE ServiceConstants DEF Init
<1>1. msgs = {} /\ \A c \in Conns : ndec[c] = 0
  OBVIOUS
<1>2. OneWorker /\ InOrder
  BY <1>1 DEF OneWorker, InOrder, NoReturns
<1>3. \A c \in Conns : outp[c] = << >> /\ wbuf[c] = << >>
  OBVIOUS
<1>4. \A c \in Conns : Answered(c) = 0
  BY <1>3 DEF Answered
<1>5. \A c \in Conns : Covers(c)
  BY <1>1, <1>4 DEF Covers
<1>6. Len(<< >> \o << >>) = 0
  OBVIOUS
<1>7. EchoInOrder
  BY <1>3, <1>6 DEF EchoInOrder
<1> QED  BY <1>2, <1>4, <1>5, <1>7 DEF OrderInv

LEMMA NextOrder == CoreInv /\ OrderInv /\ [Next]_vars => OrderInv'
<1> SUFFICES ASSUME CoreInv, OrderInv, [Next]_vars
             PROVE  OrderInv'
  OBVIOUS
<1>1. CoreInv' /\ TypeInv'
  BY NextService DEF CoreInv
<1>2. OneWorker'
  BY NextOneWorker DEF OrderInv
<1>3. InOrder'
  BY <1>1, <1>2, NextInOrder DEF OrderInv
<1>4. /\ \A c \in Answers : status'[c] = "OPEN" => Tiles(c)'
      /\ \A c \in Conns \ Answers : Answered(c)' = 0
      /\ \A c \in Conns : \A i \in 1..Answered(c)' : Stream(c)'[i] = <<c, i>>
  BY <1>1, NextAnswers
<1>5. \A c \in Answers : status'[c] = "OPEN" => Covers(c)'
  BY <1>1, <1>4, ServiceConstants, TilesIsCoversNext
<1>6. \A c \in Conns : Answered(c)' = Len(Stream(c)')
  BY <1>1, StreamLengthNext
<1>7. EchoInOrder'
  BY <1>4, <1>6 DEF EchoInOrder, Stream
<1> QED  BY <1>2, <1>3, <1>4, <1>5, <1>7 DEF OrderInv

(***************************************************************************)
(* Every peer gets the answers to its requests in the order of the         *)
(* requests, each once and none for another peer, however many requests    *)
(* are on their way and however reads, workers and partial writes          *)
(* interleave.                                                             *)
(***************************************************************************)
THEOREM AnswersInOrder == Spec => []EchoInOrder
<1>1. OrderInv => EchoInOrder
  BY DEF OrderInv
<1> QED  BY <1>1, InitOrder, NextOrder, ServiceSafe, PTL DEF Spec, SafeSpec


-----------------------------------------------------------------------------
(***************************************************************************)
(* A worker pool and peers that wait for each answer: a connection never   *)
(* has two requests in the service, which is what PinnedOneInFlight needs. *)
(***************************************************************************)
LEMMA NextHeld == CoreInv /\ NothingLost /\ [Next]_vars => NothingLost'
<1> SUFFICES ASSUME CoreInv, NothingLost, [Next]_vars
             PROVE  NothingLost'
  OBVIOUS
<1> USE ServiceConstants DEF CoreInv, TypeInv, TypeOK
<1>k. /\ Kinds = {"task", "worker", "return", "io"}
      /\ IoThreads \subseteq Holders /\ Workers \subseteq Holders
  BY DEF Kinds, Holders
<1>m. msgs \subseteq Messages
  BY DEF MessageTypeOK
<1>a. ASSUME UNCHANGED <<message_queue, task_queue, whand>>, msgs' \subseteq msgs,
             \A u \in IoThreads : Carries(u) /\ iom[u] \in msgs' =>
                    Carries(u)' /\ iom'[u] = iom[u]
      PROVE  NothingLost'
  <2>1. \A m \in msgs' : \A k, x : Holds(k, x, m) => Holds(k, x, m)'
    BY <1>a DEF Holds
  <2> QED  BY <1>a, <2>1 DEF NothingLost
<1>1. ASSUME NEW c \in Conns, PeerStep(c) \/ \E t \in IoThreads : AcceptFails(t, c)
      PROVE  NothingLost'
  BY <1>a, <1>1 DEF PeerStep, Connect, PeerSend, PeerClose, AcceptFails, queueVars,
                    ioVars, Carries
<1>2. ASSUME NEW t \in IoThreads,
             \/ \E c : Accept(t, c) \/ WriteEventFails(t, c)
             \/ \E c, n : ReadAndClose(t, c, n)
             \/ GrowDone(t) \/ Distribute(t)
      PROVE  NothingLost'
  <2>1. /\ UNCHANGED <<message_queue, task_queue, whand, msgs>>
        /\ iopc[t] \in {"poll", "grow", "accepted"}
        /\ \E l \in {"grow", "accepted", "close", "poll"} : \E d :
                Goto(t, l, d, NULL, "poll")
    BY <1>2 DEF Accept, ReadAndClose, WriteEventFails, GrowDone, Distribute, Readable,
                Writeable, BackToPoll, queueVars
  <2>2. ~Carries(t)
    BY <2>1 DEF HandlersTyped, Handling
  <2>3. \A u \in IoThreads : Carries(u) => Carries(u)' /\ iom'[u] = iom[u]
    BY <2>1, <2>2 DEF Goto, Carries, IoTypeOK
  <2> QED  BY <1>a, <2>1, <2>3
<1>3. ASSUME NEW t \in IoThreads,
             Grow(t) \/ AddConn(t) \/ \E c, n : WriteEvent(t, c, n)
      PROVE  NothingLost'
  BY <1>a, <1>3 DEF Grow, AddConn, WriteEvent, queueVars, ioVars, Carries
<1>4. ASSUME NEW t \in IoThreads,
             \/ \E n : Reply(t, n)
             \/ NoReply(t) \/ ReplyFails(t) \/ CloseMark(t)
             \/ CheckRef(t) \/ DelConnection(t) \/ CloseFd(t) \/ FreeConnection(t)
      PROVE  NothingLost'
  <2>1. /\ UNCHANGED <<message_queue, task_queue, whand, msgs>>
        /\ iom'[t] = iom[t]
        /\ \A u \in IoThreads : u # t => UNCHANGED <<iopc[u], iom[u], ioret[u]>>
    BY <1>4 DEF Reply, NoReply, ReplyFails, CloseMark, CheckRef, DelConnection,
                CloseFd, FreeConnection, Goto, queueVars, IoTypeOK
  <2>2. Carries(t) => Carries(t)'
    BY <1>4, ReleaseLabels
       DEF Reply, NoReply, ReplyFails, CloseMark, CheckRef, DelConnection,
           CloseFd, FreeConnection, Goto, Carries, IoTypeOK
  <2> QED  BY <1>a, <2>1, <2>2 DEF Carries
<1>5. ASSUME NEW t \in IoThreads, DestroyMessage(t)
      PROVE  NothingLost'
  <2>1. /\ UNCHANGED <<message_queue, task_queue, whand>>
        /\ msgs' = msgs \ {iom[t]}
        /\ Goto(t, "poll", NULL, NULL, "poll")
    BY <1>5 DEF DestroyMessage, xv_message_destroy, BackToPoll, queueVars
  <2>2. \A u \in IoThreads : Carries(u) /\ iom[u] \in msgs' =>
                    Carries(u)' /\ iom'[u] = iom[u]
    BY <2>1 DEF Goto, Carries, IoTypeOK
  <2> QED  BY <1>a, <2>1, <2>2
<1>6. ASSUME NEW t \in IoThreads, NEW c \in Conns, NEW n \in 1..MaxReq,
             ReadRequest(t, c, n)
      PROVE  NothingLost'
  <2>1. PICK m \in Messages :
            /\ msgs' = msgs \cup {m}
            /\ UNCHANGED <<message_queue, whand>>
            /\ \/ /\ NWorkers = 0 /\ UNCHANGED task_queue
                  /\ Goto(t, "reply", c, m, "poll")
               \/ /\ NWorkers # 0 /\ UNCHANGED ioVars
                  /\ task_queue' = [task_queue EXCEPT ![TaskIndex(m)] = Append(@, m)]
    BY <1>6, ReadMoves
  <2>2. ~Carries(t)
    BY <1>6 DEF ReadRequest, Readable, HandlersTyped, Handling
  <2>3. CASE NWorkers = 0
    <3>1. \A o, k, x : Holds(k, x, o) => Holds(k, x, o)'
      BY <2>1, <2>2, <2>3 DEF Holds, Goto, Carries, IoTypeOK
    <3>2. Holds("io", t, m)'
      BY <2>1, <2>3 DEF Holds, Goto, Carries, IoTypeOK
    <3> QED  BY <1>k, <2>1, <3>1, <3>2 DEF NothingLost
  <2>4. CASE NWorkers # 0
    <3> DEFINE w == TaskIndex(m)
    <3>1. w \in Workers
      BY <2>4 DEF TaskIndex, Workers
    <3>2. /\ task_queue[w] \in Seq(Messages)
          /\ task_queue'[w] = Append(task_queue[w], m)
          /\ \A v \in Workers : v # w => task_queue'[v] = task_queue[v]
          /\ UNCHANGED <<whand, message_queue, iopc, iom, ioret>>
      BY <2>1, <2>4, <3>1 DEF QueueTypeOK, ioVars
    <3>3. \A o : Queued(task_queue'[w], o) <=> Queued(task_queue[w], o) \/ o = m
      BY <3>2, QueuedAppend
    <3> HIDE DEF w
    <3>4. \A o, k, x : Holds(k, x, o) => Holds(k, x, o)'
      BY <3>1, <3>2, <3>3 DEF Holds, Carries
    <3>5. Holds("task", w, m)'
      BY <3>1, <3>3 DEF Holds
    <3> QED  BY <1>k, <2>1, <3>1, <3>4, <3>5 DEF NothingLost
  <2> QED  BY <2>3, <2>4
<1>7. ASSUME NEW t \in IoThreads, ReturnMessage(t) \/ DropMessage(t)
      PROVE  NothingLost'
  <2> DEFINE q == message_queue[t]
             h == Head(q)
             r == Tail(q)
  <2>1. /\ UNCHANGED <<task_queue, whand>>
        /\ iopc[t] = "poll" /\ q \in Seq(Messages) /\ q # << >>
        /\ message_queue'[t] = r
        /\ \A u \in IoThreads : u # t =>
                UNCHANGED <<message_queue[u], iopc[u], iom[u], ioret[u]>>
        /\ \/ msgs' = msgs /\ iopc'[t] = "reply" /\ iom'[t] = h
           \/ msgs' = msgs \ {h}
    BY <1>7 DEF ReturnMessage, DropMessage, xv_message_destroy, QueueTypeOK, Goto,
                ioVars, IoTypeOK
  <2>2. \A o : Queued(q, o) => o = h \/ Queued(r, o)
    BY <2>1, QueuedHead
  <2>3. ~Carries(t)
    BY <2>1 DEF HandlersTyped, Handling
  <2> HIDE DEF h, r
  <2>4. \A o, k, x : Holds(k, x, o) => Holds(k, x, o)' \/ o = h
    BY <2>1, <2>2, <2>3 DEF Holds, Carries
  <2>5. \A o \in msgs' : o = h => Holds("io", t, o)'
    BY <2>1 DEF Holds, Carries
  <2>6. msgs' \subseteq msgs
    BY <2>1
  <2> QED  BY <1>k, <2>4, <2>5, <2>6 DEF NothingLost
<1>8. ASSUME NEW w \in Workers, TakeTask(w)
      PROVE  NothingLost'
  <2> DEFINE q == task_queue[w]
             h == Head(q)
             r == Tail(q)
  <2>1. /\ UNCHANGED <<message_queue, iopc, iom, ioret, msgs>>
        /\ q \in Seq(Messages) /\ q # << >> /\ whand[w] = NULL
        /\ task_queue'[w] = r /\ whand'[w] = h
        /\ \A v \in Workers : v # w => UNCHANGED <<task_queue[v], whand[v]>>
    BY <1>8 DEF TakeTask, QueueTypeOK, MessageTypeOK, ioVars
  <2>2. \A o : Queued(q, o) => o = h \/ Queued(r, o)
    BY <2>1, QueuedHead
  <2>3. h # NULL
    BY <2>1, HeadTailProperties, NullIsNoMessage
  <2> HIDE DEF h, r
  <2>4. \A o, k, x : Holds(k, x, o) => Holds(k, x, o)' \/ o = h
    BY <2>1, <2>2 DEF Holds, Carries
  <2>5. \A o : o = h => Holds("worker", w, o)'
    BY <2>1, <2>3 DEF Holds
  <2> QED  BY <1>k, <2>1, <2>4, <2>5 DEF NothingLost
<1>9. ASSUME NEW w \in Workers, FinishTask(w)
      PROVE  NothingLost'
  <2> DEFINE m == whand[w]
             u == io_thread[m.conn]
  <2>1. /\ UNCHANGED <<task_queue, iopc, iom, ioret, msgs>>
        /\ m \in Messages /\ m # NULL
        /\ \A v \in Workers : v # w => whand'[v] = whand[v]
    BY <1>9 DEF FinishTask, MessageTypeOK, ioVars
  <2>2. u \in IoThreads
    <3>1. Holds("worker", w, m)
      BY <2>1 DEF Holds
    <3>2. m \in msgs
      BY <1>k, <2>1, <3>1 DEF OnePlace, OneHolder
    <3> QED  BY <2>1, <3>2 DEF MessagesTaken, ConnTypeOK, Messages
  <2>3. /\ message_queue[u] \in Seq(Messages)
        /\ message_queue'[u] = Append(message_queue[u], m)
        /\ \A t \in IoThreads : t # u => message_queue'[t] = message_queue[t]
    BY <1>9, <2>2 DEF FinishTask, QueueTypeOK
  <2>4. \A o : Queued(message_queue'[u], o) <=> Queued(message_queue[u], o) \/ o = m
    BY <2>1, <2>3, QueuedAppend
  <2> HIDE DEF u
  <2>5. \A o, k, x : Holds(k, x, o) => Holds(k, x, o)' \/ o = m
    BY <2>1, <2>3, <2>4 DEF Holds, Carries
  <2>6. ASSUME NEW o, o = m
        PROVE  \E x \in IoThreads : Holds("return", x, o)'
    <3>1. \A x \in IoThreads : x = u => Queued(message_queue'[x], o)
      BY <2>4, <2>6
    <3> QED  BY <2>2, <3>1 DEF Holds
  <2> QED  BY <1>k, <2>1, <2>2, <2>5, <2>6 DEF NothingLost
<1>10. CASE UNCHANGED vars
  BY <1>a, <1>10 DEF vars, queueVars, ioVars, Carries
<1> QED
  BY <1>1, <1>2, <1>3, <1>4, <1>5, <1>6, <1>7, <1>8, <1>9, <1>10
  DEF Next, IoStep, ListenEvent, QueueEvent, SocketEvent, HandlerStep, Close,
      WorkerStep

LEMMA ReturnedBound ==
    ASSUME NEW c, outp[c] \in Seq(Unit)
    PROVE  Returned(c) \in Nat /\ Returned(c) <= Len(outp[c])
<1> DEFINE n == Len(outp[c])
           S == {i \in 1..n : outp[c][i][1] = c}
<1>1. n \in Nat
  BY LenProperties
<1>2. S \subseteq 1..n
  OBVIOUS
<1>3. Returned(c) = Cardinality(S)
  BY DEF Returned
<1> HIDE DEF n, S
<1>4. IsFiniteSet(1..n) /\ Cardinality(1..n) = n
  BY <1>1, FS_Interval
<1>5. IsFiniteSet(S) /\ Cardinality(S) <= Cardinality(1..n)
  BY <1>2, <1>4, FS_Subset
<1>6. Cardinality(S) \in Nat
  BY <1>5, FS_CardinalityType
<1> QED  BY <1>3, <1>4, <1>5, <1>6 DEF n

(* What is written stays written. *)
LEMMA OutputGrows ==
    ASSUME NEW a \in Seq(Unit), NEW b \in Seq(Unit), NEW n \in 0..Len(b)
    PROVE  Len(a) <= Len(a \o SubSeq(b, 1, n))
<1>1. Len(b) \in Nat
  BY LenProperties
<1>2. SubSeq(b, 1, n) \in Seq(Unit)
  BY <1>1
<1> DEFINE p == SubSeq(b, 1, n)
<1> HIDE DEF p
<1>3. p \in Seq(Unit)
  BY <1>2 DEF p
<1>4. Len(a \o p) = Len(a) + Len(p) /\ Len(a) \in Nat /\ Len(p) \in Nat
  BY <1>3, ConcatProperties, LenProperties
<1>5. Len(a) <= Len(a \o p)
  BY <1>4
<1> QED  BY <1>5 DEF p

LEMMA NextSends == CoreInv /\ SendsAhead /\ [Next]_vars => SendsAhead'
<1> SUFFICES ASSUME CoreInv, SendsAhead, [Next]_vars
             PROVE  SendsAhead'
  OBVIOUS
<1> USE ServiceConstants DEF CoreInv, TypeInv, TypeOK
<1>1. \A c \in Conns : /\ outp[c] \in Seq(Unit) /\ wbuf[c] \in Seq(Unit)
                       /\ Len(outp[c]) \in Nat /\ nsent[c] \in Nat
  BY LenProperties DEF StreamTypeOK, PeerTypeOK
<1>a. ASSUME UNCHANGED nsent,
             \A c \in Conns : Len(outp'[c]) \in Nat /\ Len(outp[c]) <= Len(outp'[c])
      PROVE  SendsAhead'
  <2> SUFFICES ASSUME NEW c \in Conns
               PROVE  nsent'[c] <= Len(outp'[c]) + Depth
    BY DEF SendsAhead
  <2>1. nsent[c] <= Len(outp[c]) + Depth
    BY DEF SendsAhead
  <2> QED  BY <1>1, <1>a, <2>1
<1>b. ASSUME UNCHANGED <<nsent, outp>>
      PROVE  SendsAhead'
  BY <1>b DEF SendsAhead
<1>c. ASSUME NEW c \in Conns, NEW b \in Seq(Unit), NEW n \in 0..Len(b),
             outp' = [outp EXCEPT ![c] = @ \o SubSeq(b, 1, n)], UNCHANGED nsent
      PROVE  SendsAhead'
  <2>1. ASSUME NEW d \in Conns
        PROVE  Len(outp'[d]) \in Nat /\ Len(outp[d]) <= Len(outp'[d])
    <3>1. CASE d = c
      <4>1. outp'[d] = outp[c] \o SubSeq(b, 1, n)
        BY <1>c, <3>1 DEF StreamTypeOK
      <4>2. Len(outp[c]) <= Len(outp[c] \o SubSeq(b, 1, n))
        BY <1>1, OutputGrows
      <4>3. TypeInv'
        BY NextType
      <4>4. outp'[d] \in Seq(Unit)
        BY <4>3 DEF StreamTypeOK
      <4>5. Len(outp'[d]) \in Nat
        BY <4>4, LenProperties
      <4> QED  BY <3>1, <4>1, <4>2, <4>5
    <3>2. CASE d # c
      BY <1>1, <1>c, <3>2 DEF StreamTypeOK
    <3> QED  BY <3>1, <3>2
  <2> QED  BY <1>a, <1>c, <2>1
<1>2. ASSUME NEW c \in Conns, PeerSend(c)
      PROVE  SendsAhead'
  <2>1. /\ UNCHANGED outp /\ nsent' = [nsent EXCEPT ![c] = nsent[c] + 1]
        /\ nsent[c] - Returned(c) < Depth
    BY <1>2 DEF PeerSend, streamVars
  <2>2. Returned(c) \in Nat /\ Returned(c) <= Len(outp[c])
    BY <1>1, ReturnedBound
  <2>3. nsent[c] + 1 <= Len(outp[c]) + Depth
    BY <1>1, <2>1, <2>2
  <2>4. \A d \in Conns : nsent'[d] = IF d = c THEN nsent[c] + 1 ELSE nsent[d]
    BY <2>1 DEF PeerTypeOK
  <2> QED  BY <2>1, <2>3, <2>4 DEF SendsAhead
<1>3. ASSUME NEW t \in IoThreads, NEW n, Reply(t, n)
      PROVE  SendsAhead'
  <2> DEFINE c == ioc[t]
             b == wbuf[c] \o Units(iom[t])
  <2>1. c \in Conns /\ iom[t] \in Messages
    BY <1>3 DEF Reply, HandlersTyped, Carries
  <2>2. /\ n \in 0..Len(b) /\ UNCHANGED nsent
        /\ outp' = [outp EXCEPT ![c] = @ \o SubSeq(b, 1, n)]
    BY <1>3 DEF Reply, WriteOut, peerVars
  <2>3. b \in Seq(Unit)
    BY <1>1, <2>1, UnitsType, ConcatProperties
  <2> HIDE DEF c, b
  <2> QED  BY <1>c, <2>1, <2>2, <2>3
<1>4. ASSUME NEW t \in IoThreads, NEW c \in Conns, NEW n \in 0..Len(wbuf[c]),
             WriteEvent(t, c, n)
      PROVE  SendsAhead'
  <2> DEFINE b == wbuf[c]
  <2>1. /\ n \in 0..Len(b) /\ UNCHANGED nsent /\ b \in Seq(Unit)
        /\ outp' = [outp EXCEPT ![c] = @ \o SubSeq(b, 1, n)]
    BY <1>1, <1>4 DEF WriteEvent, WriteOut, peerVars
  <2> HIDE DEF b
  <2> QED  BY <1>c, <2>1
<1>5. ASSUME NEW c \in Conns, Connect(c) \/ PeerClose(c)
      PROVE  SendsAhead'
  BY <1>5, <1>b DEF Connect, PeerClose, streamVars
<1>6. ASSUME NEW t \in IoThreads,
             \/ \E c : Accept(t, c) \/ AcceptFails(t, c) \/ WriteEventFails(t, c)
             \/ \E c, n : ReadRequest(t, c, n) \/ ReadAndClose(t, c, n)
             \/ QueueEvent(t)
             \/ Grow(t) \/ GrowDone(t) \/ Distribute(t) \/ NoReply(t)
             \/ ReplyFails(t) \/ DestroyMessage(t) \/ Close(t)
      PROVE  SendsAhead'
  <2>1. UNCHANGED <<nsent, outp>>
    BY <1>6 DEF Accept, AcceptFails, WriteEventFails, ReadRequest, ReadAndClose,
                QueueEvent, AddConn, ReturnMessage, DropMessage, Grow, GrowDone,
                Distribute, NoReply, ReplyFails, DestroyMessage, Close, CloseMark,
                CheckRef, DelConnection, CloseFd, FreeConnection, streamVars, peerVars
  <2> QED  BY <1>b, <2>1
<1>7. ASSUME NEW w \in Workers, WorkerStep(w)
      PROVE  SendsAhead'
  BY <1>7, <1>b DEF WorkerStep, TakeTask, FinishTask, streamVars, peerVars
<1>8. CASE UNCHANGED vars
  BY <1>8, <1>b DEF vars, streamVars, peerVars
<1> QED
  BY <1>2, <1>3, <1>4, <1>5, <1>6, <1>7, <1>8
  DEF Next, PeerStep, IoStep, ListenEvent, SocketEvent, HandlerStep

LEMMA NextOneInFlight ==
    ASSUME Depth = 1, CoreInv, OrderInv, NothingLost, SendsAhead, OneInFlight,
           [Next]_vars
    PROVE  OneInFlight'
<1> USE ServiceConstants
<1>1. CASE NoMove
  BY <1>1 DEF NoMove, OneInFlight
<1>2. ASSUME NEW t \in IoThreads, ReturnMessage(t) \/ DropMessage(t)
      PROVE  OneInFlight'
  BY <1>2, ReturnHolds DEF OneInFlight, CoreInv
<1>3. ASSUME NEW w \in Workers, TakeTask(w) \/ FinishTask(w)
      PROVE  OneInFlight'
  BY <1>3 DEF TakeTask, FinishTask, OneInFlight
<1>4. ASSUME NEW t \in IoThreads, NEW c \in Conns, NEW n \in 1..MaxReq,
             ReadRequest(t, c, n)
      PROVE  OneInFlight'
  <2>1. PICK m \in Messages : m.conn = c /\ msgs' = msgs \cup {m}
    BY <1>4, ReadMoves DEF CoreInv
  <2>2. /\ iopc[t] = "poll" /\ io_thread[c] = t /\ status[c] = "OPEN"
        /\ nread[c] + n <= nsent[c]
    BY <1>4 DEF ReadRequest, Readable, CoreInv, TypeInv, TypeOK, ConnTypeOK
  <2>3. /\ ndec[c] \in Nat /\ nread[c] \in Nat /\ nsent[c] \in Nat
        /\ ndec[c] <= nread[c]
    BY DEF CoreInv, TypeInv, TypeOK, StreamTypeOK, PeerTypeOK, StagesOrdered
  <2> DEFINE out == Len(outp[c])
             rest == Len(wbuf[c])
  <2>4. out \in Nat /\ rest \in Nat
    BY LenProperties DEF CoreInv, TypeInv, TypeOK, StreamTypeOK
  <2>5. nsent[c] <= out + 1 /\ Answered(c) = out + rest
    BY DEF SendsAhead, Answered
  <2> HIDE DEF out, rest
  <2>6. ndec[c] <= out
    BY <2>2, <2>3, <2>4, <2>5
  <2>7. ASSUME NEW o \in msgs, o.conn = c
        PROVE  FALSE
    <3>1. /\ o \in Messages /\ o.lo \in Nat /\ o.hi \in Nat /\ o.lo <= o.hi
          /\ 1 <= o.lo
      BY DEF CoreInv, TypeInv, TypeOK, MessageTypeOK, Messages
    <3>2. o.hi <= ndec[c]
      BY <2>7 DEF CoreInv, RequestsDecoded, OrderInv, OneWorker
    <3>3. CASE c \in Answers
      <4>1. PICK k \in Kinds, x \in Holders : Holds(k, x, o)
        BY <2>7 DEF NothingLost
      <4>2. CASE Pending(o)
        <5>1. Covers(c)
          BY <2>2, <3>3 DEF OrderInv
        <5>2. Answered(c) < o.lo
          BY <2>7, <4>2, <5>1 DEF Covers
        <5>3. out < o.lo
          BY <2>4, <2>5, <3>1, <5>2
        <5>4. o.hi <= out
          BY <2>3, <2>4, <2>6, <3>1, <3>2
        <5> QED  BY <2>4, <3>1, <5>3, <5>4
      <4>3. CASE ~Pending(o)
        <5>1. k = "io" /\ x \in IoThreads /\ Carries(x) /\ iom[x] = o
          BY <4>1, <4>3 DEF Pending, Holds
        <5>2. iopc[x] \in Handling /\ ioc[x] = c
          BY <2>7, <5>1 DEF CoreInv, TypeInv, HandlersTyped, OwnerHandles, HandlesOwn
        <5>3. io_thread[c] = x
          BY <5>1, <5>2 DEF CoreInv, OwnerHandles, HandlesOwn
        <5> QED  BY <2>2, <5>2, <5>3 DEF Handling
      <4> QED  BY <4>2, <4>3
    <3>4. CASE c \notin Answers
      <4>1. out + rest = 0
        BY <2>5, <3>4 DEF OrderInv
      <4>2. out = 0
        BY <2>4, <4>1
      <4>3. ndec[c] = 0
        BY <2>3, <2>6, <4>2
      <4> QED  BY <3>1, <3>2, <4>3
    <3> QED  BY <3>3, <3>4
  <2> QED  BY <2>1, <2>7 DEF OneInFlight
<1> QED
  <2>1. TypeInv
    BY DEF CoreInv
  <2> QED  BY <2>1, <1>1, <1>2, <1>3, <1>4, NoMoveSteps

LEMMA InitAhead == Init => NothingLost /\ SendsAhead /\ OneInFlight
<1> SUFFICES ASSUME Init PROVE NothingLost /\ SendsAhead /\ OneInFlight
  OBVIOUS
<1>1. msgs = {}
  BY DEF Init
<1>2. \A c \in Conns : nsent[c] = 0 /\ outp[c] = << >>
  BY DEF Init
<1>3. SendsAhead
  BY <1>2, ServiceConstants DEF SendsAhead
<1> QED  BY <1>1, <1>3 DEF NothingLost, OneInFlight

(***************************************************************************)
(* Peers that wait for each answer never have two requests in the service, *)
(* and then neither a message nor a handler in progress points to a freed  *)
(* connection, with or without a worker pool.                              *)
(***************************************************************************)
THEOREM PinnedDepthOne == Depth = 1 => (Spec => []MessagesPinConnection)
<1>1. ASSUME Depth = 1 PROVE Spec => []MessagesPinConnection
  <2>1. ASSUME CoreInv, OrderInv, NothingLost, SendsAhead, OneInFlight, [Next]_vars
        PROVE  OrderInv' /\ NothingLost' /\ SendsAhead' /\ OneInFlight'
    BY <1>1, <2>1, NextOrder, NextHeld, NextSends, NextOneInFlight
  <2>2. CoreInv /\ OrderInv /\ NothingLost /\ SendsAhead /\ OneInFlight /\ [Next]_vars
            => OrderInv' /\ NothingLost' /\ SendsAhead' /\ OneInFlight'
    BY <2>1
  <2>3. Init => OrderInv /\ NothingLost /\ SendsAhead /\ OneInFlight
    BY InitOrder, InitAhead
  <2>4. Spec => []OneInFlight
    BY <2>2, <2>3, ServiceSafe, PTL DEF Spec, SafeSpec
  <2> QED  BY <2>4, PinnedOneInFlight, PTL
<1> QED  BY <1>1

-----------------------------------------------------------------------------
(* What xv_service_stop and xv_service_destroy rely on. *)

LEMMA FollowerIsThread ==
    ASSUME TypeInv, NEW c \in Conns, NIo # 1
    PROVE  FollowerOf(c) \in IoThreads
<1> DEFINE n == NIo - 1
           f == fd[c]
<1>1. n \in Nat /\ n > 0 /\ NIo = n + 1
  BY ServiceConstants
<1>2. f \in Nat
  <2>1. f \in Fds \cup {0}
    BY DEF TypeInv, TypeOK, ConnTypeOK
  <2>2. \A g \in Fds : g \in Nat
    BY ServiceConstants
  <2> QED  BY <2>1, <2>2
<1>3. FollowerOf(c) = (f % n) + 1 /\ IoThreads = 0..n
  BY <1>1 DEF FollowerOf, IoThreads
<1> HIDE DEF n, f
<1>4. f % n \in 0..(n - 1)
  BY <1>1, <1>2
<1> QED  BY <1>1, <1>3, <1>4

(* A connection is not lost between accept and its IO thread. *)
LEMMA NextOnTheWay == CoreInv /\ OnTheWay /\ [Next]_vars => OnTheWay'
<1> SUFFICES ASSUME CoreInv, OnTheWay, [Next]_vars PROVE OnTheWay'
  OBVIOUS
<1>a. TypeInv /\ OneWay /\ OwnerHandles
  BY DEF CoreInv
<1> USE <1>a, ServiceConstants DEF TypeInv, TypeOK
<1>b. \A t \in IoThreads : t # NULL
  BY DEF IoThreads
<1>0. ASSUME UNCHANGED <<conn_queue, io_thread>>,
             \A c \in Conns : mem'[c] # "none" => mem[c] # "none",
             \A t \in IoThreads : Adding(t) => Adding(t)' /\ ioc'[t] = ioc[t]
      PROVE  OnTheWay'
  BY <1>0 DEF OnTheWay
<1>1. ASSUME NEW t \in IoThreads, NEW c \in Conns, Accept(t, c)
      PROVE  OnTheWay'
  <2>1. /\ UNCHANGED <<conn_queue, io_thread>>
        /\ mem' = [mem EXCEPT ![c] = "live"]
        /\ iopc[t] = "poll"
        /\ ioc' = [ioc EXCEPT ![t] = c]
        /\ \/ iopc' = [iopc EXCEPT ![t] = "grow"]
           \/ iopc' = [iopc EXCEPT ![t] = "accepted"]
    BY <1>1 DEF Accept, xv_connection_init, Goto, queueVars
  <2>2. Adding(t)' /\ ioc'[t] = c
    BY <2>1 DEF Adding, IoTypeOK
  <2>3. \A u \in IoThreads : Adding(u) => Adding(u)' /\ ioc'[u] = ioc[u]
    BY <2>1 DEF Adding, IoTypeOK
  <2>4. \A d \in Conns : d # c => mem'[d] = mem[d]
    BY <2>1 DEF ConnTypeOK
  <2> QED  BY <2>1, <2>2, <2>3, <2>4 DEF OnTheWay
<1>2. ASSUME NEW t \in IoThreads, Distribute(t)
      PROVE  OnTheWay'
  <2> DEFINE c == ioc[t]
  <2>1. /\ mem' = mem /\ iopc[t] = "accepted" /\ c \in Conns
        /\ iopc' = [iopc EXCEPT ![t] = "poll"]
        /\ ioc' = [ioc EXCEPT ![t] = NULL]
    BY <1>2 DEF Distribute, BackToPoll, Goto, HandlersTyped
  <2>2. \A u \in IoThreads : u # t /\ Adding(u) => Adding(u)' /\ ioc'[u] = ioc[u]
    BY <2>1 DEF Adding, IoTypeOK
  <2>3. CASE NIo = 1
    <3>1. /\ io_thread' = [io_thread EXCEPT ![c] = t]
          /\ conn_queue' = conn_queue
      BY <1>2, <2>3 DEF Distribute
    <3>2. \A d \in Conns : d # c => io_thread'[d] = io_thread[d]
      BY <3>1 DEF ConnTypeOK
    <3>3. io_thread'[c] = t
      BY <2>1, <3>1 DEF ConnTypeOK
    <3> QED  BY <1>b, <2>1, <2>2, <3>1, <3>2, <3>3 DEF OnTheWay
  <2>4. CASE NIo # 1
    <3> DEFINE f == FollowerOf(c)
    <3>1. /\ io_thread' = io_thread /\ f \in IoThreads
          /\ conn_queue' = [conn_queue EXCEPT ![f] = Append(@, c)]
      BY <1>2, <2>1, <2>4, FollowerIsThread DEF Distribute
    <3> HIDE DEF f
    <3>2. \A u \in IoThreads : u # f => conn_queue'[u] = conn_queue[u]
      BY <3>1 DEF QueueTypeOK
    <3>3. conn_queue'[f] = Append(conn_queue[f], c) /\ conn_queue[f] \in Seq(Conns)
      BY <3>1 DEF QueueTypeOK
    <3>4. \A y : Queued(conn_queue'[f], y) <=> Queued(conn_queue[f], y) \/ y = c
      BY <2>1, <3>3, QueuedAppend
    <3> QED  BY <2>1, <2>2, <3>1, <3>2, <3>4 DEF OnTheWay
  <2> QED  BY <2>3, <2>4
<1>3. ASSUME NEW t \in IoThreads, AddConn(t)
      PROVE  OnTheWay'
  <2> DEFINE s == conn_queue[t]
             c == Head(s)
  <2>1. /\ UNCHANGED <<mem, iopc, ioc>>
        /\ io_thread' = [io_thread EXCEPT ![c] = t]
        /\ conn_queue' = [conn_queue EXCEPT ![t] = Tail(s)]
        /\ s \in Seq(Conns) /\ s # << >>
    BY <1>3 DEF AddConn, QueueTypeOK, ioVars
  <2>2. c \in Conns /\ \A y : Queued(s, y) => y = c \/ Queued(Tail(s), y)
    BY <2>1, QueuedHead, HeadTailProperties
  <2> HIDE DEF c
  <2>3. \A d \in Conns : IF d = c THEN io_thread'[d] = t ELSE io_thread'[d] = io_thread[d]
    BY <2>1, <2>2 DEF ConnTypeOK
  <2>4. \A u \in IoThreads : \A d \in Conns :
          Queued(conn_queue[u], d) => Queued(conn_queue'[u], d) \/ d = c
    BY <2>1, <2>2 DEF QueueTypeOK
  <2> QED  BY <1>b, <2>1, <2>3, <2>4 DEF OnTheWay, Adding
<1>4. ASSUME NEW t \in IoThreads, DropMessage(t)
      PROVE  OnTheWay'
  <2> DEFINE m == Head(message_queue[t])
  <2>1. /\ UNCHANGED <<conn_queue, io_thread, iopc, ioc>>
        /\ mem' = [mem EXCEPT ![m.conn] = "freed"]
        /\ message_queue[t] \in Seq(Messages) /\ message_queue[t] # << >>
    BY <1>4 DEF DropMessage, xv_connection_destroy, ioVars, QueueTypeOK
  <2>2. m \in Messages /\ Queued(message_queue[t], m)
    BY <2>1, QueuedTail, HeadTailProperties
  <2>3. mem[m.conn] # "none"
    BY <1>b, <2>2 DEF OwnerHandles, OneWay, Messages
  <2> QED  BY <1>0, <2>1, <2>3 DEF ConnTypeOK, Adding
<1>5. ASSUME NEW t \in IoThreads, FreeConnection(t)
      PROVE  OnTheWay'
  <2>1. /\ UNCHANGED <<conn_queue, io_thread, ioc>>
        /\ mem' = [mem EXCEPT ![ioc[t]] = "freed"]
        /\ iopc' = [iopc EXCEPT ![t] = ioret[t]]
        /\ iopc[t] = "free"
    BY <1>5, ReleaseLabels DEF FreeConnection, xv_connection_destroy, queueVars
  <2>2. mem[ioc[t]] # "none"
    BY <1>b, <2>1 DEF HandlersTyped, OwnerHandles, HandlesOwn, Handling, OneWay
  <2>3. \A u \in IoThreads : Adding(u) => Adding(u)'
    BY <2>1 DEF Adding, IoTypeOK
  <2> QED  BY <1>0, <2>1, <2>2, <2>3 DEF ConnTypeOK
<1>6. ASSUME NEW t \in IoThreads,
             \/ \E c : WriteEventFails(t, c) \/ AcceptFails(t, c)
             \/ \E c, n : \/ ReadAndClose(t, c, n) \/ WriteEvent(t, c, n)
                          \/ ReadRequest(t, c, n)
             \/ \E n : Reply(t, n)
             \/ Grow(t) \/ GrowDone(t) \/ ReturnMessage(t) \/ NoReply(t)
             \/ ReplyFails(t) \/ DestroyMessage(t) \/ CloseMark(t) \/ CheckRef(t)
             \/ DelConnection(t) \/ CloseFd(t)
      PROVE  OnTheWay'
  <2>1. UNCHANGED <<conn_queue, io_thread, mem>>
    BY <1>6 DEF WriteEventFails, AcceptFails, ReadAndClose, WriteEvent, ReadRequest,
                Reply, Grow, GrowDone, ReturnMessage, NoReply, ReplyFails,
                DestroyMessage, CloseMark, CheckRef, DelConnection, CloseFd,
                connVars, queueVars
  <2>2. \A u \in IoThreads : Adding(u) => Adding(u)' /\ ioc'[u] = ioc[u]
    <3>1. CASE \/ \E c : WriteEventFails(t, c) \/ AcceptFails(t, c)
               \/ \E c, n : ReadAndClose(t, c, n) \/ WriteEvent(t, c, n)
      BY <3>1 DEF WriteEventFails, AcceptFails, ReadAndClose, WriteEvent,
                  Readable, Writeable, Goto, ioVars, Adding, IoTypeOK
    <3>4. CASE \E c, n : ReadRequest(t, c, n)
      <4>1. iopc[t] = "poll" 
              /\ (UNCHANGED ioVars \/ \E c, m : Goto(t, "reply", c, m, "poll"))
        BY <3>4 DEF ReadRequest, Readable
      <4> QED  BY <4>1 DEF Goto, ioVars, Adding, IoTypeOK
    <3>2. CASE \/ \E n : Reply(t, n)
               \/ Grow(t) \/ GrowDone(t) \/ ReturnMessage(t) \/ NoReply(t)
               \/ ReplyFails(t) \/ DestroyMessage(t)
      BY <3>2 DEF Reply, Grow, GrowDone, ReturnMessage, NoReply, ReplyFails,
                  DestroyMessage, BackToPoll, Goto, ioVars, Adding, IoTypeOK
    <3>3. CASE CloseMark(t) \/ CheckRef(t) \/ DelConnection(t) \/ CloseFd(t)
      BY <3>3 DEF CloseMark, CheckRef, DelConnection, CloseFd, Adding, IoTypeOK
    <3> QED  BY <1>6, <3>1, <3>2, <3>3, <3>4
  <2> QED  BY <1>0, <2>1, <2>2
<1>7. ASSUME NEW w \in Workers, TakeTask(w) \/ FinishTask(w)
      PROVE  OnTheWay'
  BY <1>0, <1>7 DEF TakeTask, FinishTask, connVars, ioVars, Adding
<1>8. ASSUME NEW c \in Conns, Connect(c) \/ PeerSend(c) \/ PeerClose(c)
      PROVE  OnTheWay'
  BY <1>0, <1>8 DEF Connect, PeerSend, PeerClose, connVars, queueVars, ioVars, Adding
<1>9. CASE UNCHANGED vars
  BY <1>0, <1>9 DEF vars, connVars, queueVars, ioVars, Adding
<1> QED
  BY <1>1, <1>2, <1>3, <1>4, <1>5, <1>6, <1>7, <1>8, <1>9
  DEF Next, PeerStep, IoStep, ListenEvent, QueueEvent, SocketEvent, HandlerStep,
      Close, WorkerStep

(* No step leaves output behind without waiting for EPOLLOUT. *)
LEMMA NextOutput == CoreInv /\ OutputKept /\ [Next]_vars => OutputKept'
<1> SUFFICES ASSUME CoreInv, OutputKept, [Next]_vars PROVE OutputKept'
  OBVIOUS
<1>a. TypeInv /\ OneWay /\ OwnerHandles
  BY DEF CoreInv
<1> USE <1>a, ServiceConstants DEF TypeInv, TypeOK
<1>b. \A t \in IoThreads : t # NULL
  BY DEF IoThreads
<1>0. ASSUME UNCHANGED <<wbuf, io_thread, status, wio>>,
             \A t \in IoThreads :
                iopc[t] = "close" => iopc'[t] = "close" /\ ioc'[t] = ioc[t]
      PROVE  OutputKept'
  BY <1>0 DEF OutputKept, ConnTypeOK
<1>d. ASSUME NEW d \in Conns, wbuf'[d] # << >>,
             wbuf'[d] = wbuf[d] /\ io_thread'[d] = io_thread[d]
                /\ status'[d] = status[d] /\ wio'[d] = wio[d],
             \A u \in IoThreads :
                iopc[u] = "close" => iopc'[u] = "close" /\ ioc'[u] = ioc[u]
      PROVE  /\ io_thread'[d] # NULL
             /\ status'[d] = "OPEN" => wio'[d] \/ (iopc'[io_thread'[d]] = "close"
                                                 /\ ioc'[io_thread'[d]] = d)
  <2>1. io_thread[d] # NULL /\ io_thread[d] \in IoThreads
    BY <1>d DEF OutputKept, ConnTypeOK
  <2> QED  BY <1>d, <2>1 DEF OutputKept
<1>1. ASSUME NEW t \in IoThreads, Distribute(t) \/ AddConn(t)
      PROVE  OutputKept'
  <2>1. PICK c : /\ io_thread' = io_thread \/ io_thread' = [io_thread EXCEPT ![c] = t]
                 /\ c \in Conns /\ io_thread[c] = NULL
    <3>1. CASE Distribute(t)
      <4>1. ioc[t] \in Conns /\ io_thread[ioc[t]] = NULL
        BY <3>1 DEF Distribute, HandlersTyped, OneWay, Adding
      <4> QED  BY <3>1, <4>1 DEF Distribute
    <3>2. CASE AddConn(t)
      <4> DEFINE s == conn_queue[t]
      <4>1. s \in Seq(Conns) /\ s # << >>
        BY <3>2 DEF AddConn, QueueTypeOK
      <4>2. Head(s) \in Conns /\ Queued(s, Head(s))
        BY <4>1, QueuedTail, HeadTailProperties
      <4>3. io_thread[Head(s)] = NULL
        BY <4>2 DEF OneWay
      <4> QED  BY <3>2, <4>2, <4>3 DEF AddConn
    <3> QED  BY <1>1, <3>1, <3>2
  <2>2. /\ UNCHANGED <<wbuf, status, wio>>
        /\ \A u \in IoThreads :
              iopc[u] = "close" => iopc'[u] = "close" /\ ioc'[u] = ioc[u]
    BY <1>1 DEF Distribute, AddConn, BackToPoll, Goto, streamVars, ioVars, IoTypeOK
  <2>3. wbuf[c] = << >>
    BY <2>1 DEF OutputKept
  <2>4. \A d \in Conns : d # c => io_thread'[d] = io_thread[d]
    BY <2>1 DEF ConnTypeOK
  <2> QED  BY <1>d, <2>2, <2>3, <2>4 DEF OutputKept
<1>c. ASSUME NEW t \in IoThreads, NEW c \in Conns, NEW b \in Seq(Unit),
             NEW n \in 0..Len(b), WriteOut(c, b, n), n = Len(b) \/ wio'[c],
             io_thread[c] = t, UNCHANGED <<io_thread, status>>,
             \A d \in Conns : d # c => wio'[d] = wio[d],
             \A u \in IoThreads :
                iopc[u] = "close" => iopc'[u] = "close" /\ ioc'[u] = ioc[u]
      PROVE  OutputKept'
  <2>1. \A d \in Conns : d # c => wbuf'[d] = wbuf[d]
    BY <1>c DEF WriteOut, StreamTypeOK
  <2>2. wbuf'[c] = SubSeq(b, n + 1, Len(b))
    BY <1>c DEF WriteOut, StreamTypeOK
  <2>3. wbuf'[c] # << >> => wio'[c]
    <3>1. n = Len(b) => SubSeq(b, n + 1, Len(b)) = << >>
      BY <1>c, LenProperties, SubSeqProperties
    <3> QED  BY <1>c, <2>2, <3>1
  <2>4. \A d \in Conns : d # c => status'[d] = status[d] /\ io_thread'[d] = io_thread[d]
    BY <1>c
  <2>5. io_thread'[c] # NULL
    BY <1>b, <1>c
  <2> QED  BY <1>c, <1>d, <2>1, <2>3, <2>4, <2>5 DEF OutputKept
<1>2. ASSUME NEW t \in IoThreads, NEW n, Reply(t, n)
      PROVE  OutputKept'
  <2> DEFINE c == ioc[t]
             b == wbuf[c] \o Units(iom[t])
  <2>1. /\ iopc[t] = "reply" /\ c \in Conns /\ iom[t] \in Messages
        /\ io_thread[c] = t /\ status[c] = "OPEN"
    BY <1>2 DEF Reply, HandlersTyped, Carries, OwnerHandles, HandlesOwn, Handling
  <2>2. b \in Seq(Unit)
    BY <2>1, UnitsType, ConcatProperties DEF StreamTypeOK
  <2>3. /\ n \in 0..Len(b)
        /\ WriteOut(c, b, n)
        /\ wio' = [wio EXCEPT ![c] = @ \/ (n < Len(b) /\ status[c] = "OPEN")]
        /\ UNCHANGED <<io_thread, status>>
        /\ Goto(t, "destroy", c, iom[t], "poll")
    BY <1>2 DEF Reply
  <2> HIDE DEF b, c
  <2>4. n = Len(b) \/ wio'[c]
    <3>1. Len(b) \in Nat
      BY <2>2, LenProperties
    <3>2. n = Len(b) \/ n < Len(b)
      BY <2>3, <3>1
    <3> QED  BY <2>1, <2>3, <3>2 DEF ConnTypeOK
  <2>5. \A d \in Conns : d # c => wio'[d] = wio[d]
    BY <2>3 DEF ConnTypeOK
  <2>6. \A u \in IoThreads :
          iopc[u] = "close" => iopc'[u] = "close" /\ ioc'[u] = ioc[u]
    BY <2>1, <2>3 DEF Goto, IoTypeOK
  <2> QED  BY <1>c, <2>1, <2>2, <2>3, <2>4, <2>5, <2>6
<1>3. ASSUME NEW t \in IoThreads, NEW c \in Conns, NEW n, WriteEvent(t, c, n)
      PROVE  OutputKept'
  <2> DEFINE b == wbuf[c]
  <2>1. b \in Seq(Unit)
    BY DEF StreamTypeOK
  <2>2. /\ n \in 0..Len(b)
        /\ WriteOut(c, b, n)
        /\ wio' = [wio EXCEPT ![c] = n # Len(b)]
        /\ UNCHANGED <<io_thread, status, ioVars>>
        /\ io_thread[c] = t
    BY <1>3 DEF WriteEvent, Writeable
  <2> HIDE DEF b
  <2>3. n = Len(b) \/ wio'[c]
    BY <2>2 DEF ConnTypeOK
  <2>4. \A d \in Conns : d # c => wio'[d] = wio[d]
    BY <2>2 DEF ConnTypeOK
  <2> QED  BY <1>c, <2>1, <2>2, <2>3, <2>4 DEF ioVars
<1>4. ASSUME NEW t \in IoThreads, ReplyFails(t)
      PROVE  OutputKept'
  <2> DEFINE c == ioc[t]
  <2>1. iopc[t] = "reply" /\ c \in Conns /\ io_thread[c] = t
    BY <1>4 DEF ReplyFails, HandlersTyped, OwnerHandles, HandlesOwn, Handling
  <2>2. /\ UNCHANGED <<io_thread, status, wio>>
        /\ \A d \in Conns : d # c => wbuf'[d] = wbuf[d]
        /\ Goto(t, "close", c, iom[t], "destroy")
    BY <1>4 DEF ReplyFails, connVars, StreamTypeOK
  <2>3. iopc'[t] = "close" /\ ioc'[t] = c
    BY <2>2 DEF Goto, IoTypeOK
  <2>4. \A u \in IoThreads :
          iopc[u] = "close" => iopc'[u] = "close" /\ ioc'[u] = ioc[u]
    BY <2>1, <2>2 DEF Goto, IoTypeOK
  <2>5. io_thread'[c] = t /\ t # NULL
    BY <1>b, <2>1, <2>2
  <2> QED  BY <1>d, <2>2, <2>3, <2>4, <2>5 DEF OutputKept
<1>5. ASSUME NEW t \in IoThreads, CloseMark(t)
      PROVE  OutputKept'
  <2> DEFINE c == ioc[t]
  <2>1. iopc[t] = "close" /\ c \in Conns /\ io_thread[c] = t /\ status[c] = "OPEN"
    BY <1>5 DEF CloseMark, HandlersTyped, OwnerHandles, HandlesOwn, Handling
  <2>2. /\ status' = [status EXCEPT ![c] = "CLOSED"]
        /\ wio' = [wio EXCEPT ![c] = FALSE]
        /\ iopc' = [iopc EXCEPT ![t] = "checkref"]
        /\ UNCHANGED <<wbuf, io_thread, ioc>>
    BY <1>5, <2>1 DEF CloseMark, xv_connection_stop, streamVars
  <2>3. status'[c] = "CLOSED"
    BY <2>1, <2>2 DEF ConnTypeOK
  <2>4. \A d \in Conns : d # c => wio'[d] = wio[d] /\ status'[d] = status[d]
    BY <2>2 DEF ConnTypeOK
  <2>5. \A u \in IoThreads : u # t => iopc'[u] = iopc[u]
    BY <2>2 DEF IoTypeOK
  <2>6. ASSUME NEW d \in Conns, d # c, wbuf[d] # << >>, status[d] = "OPEN"
        PROVE  wio[d] \/ (iopc'[io_thread[d]] = "close" /\ ioc[io_thread[d]] = d)
    <3>1. \/ wio[d]
          \/ /\ iopc[io_thread[d]] = "close" /\ ioc[io_thread[d]] = d
             /\ io_thread[d] \in IoThreads
      BY <2>6 DEF OutputKept, ConnTypeOK
    <3>2. ioc[io_thread[d]] = d => io_thread[d] # t
      BY <2>6
    <3> QED  BY <2>5, <3>1, <3>2
  <2> HIDE DEF c
  <2> QED  BY <2>1, <2>2, <2>3, <2>4, <2>6 DEF OutputKept
<1>6. ASSUME NEW t \in IoThreads,
             \/ \E c : WriteEventFails(t, c) \/ AcceptFails(t, c) \/ Accept(t, c)
             \/ \E c, n : ReadAndClose(t, c, n) \/ ReadRequest(t, c, n)
             \/ Grow(t) \/ GrowDone(t) \/ ReturnMessage(t) \/ NoReply(t)
             \/ DestroyMessage(t) \/ CheckRef(t) \/ DelConnection(t) \/ CloseFd(t)
             \/ DropMessage(t) \/ FreeConnection(t)
      PROVE  OutputKept'
  <2>1. UNCHANGED <<wbuf, io_thread, status, wio>>
    BY <1>6 DEF WriteEventFails, AcceptFails, Accept, ReadAndClose, ReadRequest,
                Grow, GrowDone, ReturnMessage, NoReply, DestroyMessage, CheckRef,
                DelConnection, CloseFd, DropMessage, FreeConnection, connVars,
                streamVars
  <2>2. \A u \in IoThreads :
            iopc[u] = "close" => iopc'[u] = "close" /\ ioc'[u] = ioc[u]
    <3>1. CASE \/ \E c : WriteEventFails(t, c) \/ AcceptFails(t, c) \/ Accept(t, c)
               \/ \E c, n : ReadAndClose(t, c, n)
      BY <3>1 DEF WriteEventFails, AcceptFails, Accept, ReadAndClose,
                  Readable, Writeable, Goto, ioVars, IoTypeOK
    <3>4. CASE \E c, n : ReadRequest(t, c, n)
      <4>1. iopc[t] = "poll" 
              /\ (UNCHANGED ioVars \/ \E c, m : Goto(t, "reply", c, m, "poll"))
        BY <3>4 DEF ReadRequest, Readable
      <4> QED  BY <4>1 DEF Goto, ioVars, IoTypeOK
    <3>2. CASE \/ Grow(t) \/ GrowDone(t) \/ ReturnMessage(t) \/ NoReply(t)
               \/ DestroyMessage(t) \/ DropMessage(t)
      BY <3>2 DEF Grow, GrowDone, ReturnMessage, NoReply, DropMessage,
                  DestroyMessage, BackToPoll, Goto, ioVars, IoTypeOK
    <3>3. CASE CheckRef(t) \/ DelConnection(t) \/ CloseFd(t) \/ FreeConnection(t)
      BY <3>3 DEF CheckRef, DelConnection, CloseFd, FreeConnection, IoTypeOK
    <3> QED  BY <1>6, <3>1, <3>2, <3>3, <3>4
  <2> QED  BY <1>0, <2>1, <2>2
<1>7. ASSUME NEW w \in Workers, TakeTask(w) \/ FinishTask(w)
      PROVE  OutputKept'
  BY <1>0, <1>7 DEF TakeTask, FinishTask, connVars, streamVars, ioVars
<1>8. ASSUME NEW c \in Conns, Connect(c) \/ PeerSend(c) \/ PeerClose(c)
      PROVE  OutputKept'
  BY <1>0, <1>8 DEF Connect, PeerSend, PeerClose, connVars, streamVars, ioVars
<1>9. CASE UNCHANGED vars
  BY <1>0, <1>9 DEF vars, connVars, streamVars, ioVars
<1> QED
  BY <1>1, <1>2, <1>3, <1>4, <1>5, <1>6, <1>7, <1>8, <1>9
  DEF Next, PeerStep, IoStep, ListenEvent, QueueEvent, SocketEvent, HandlerStep,
      Close, WorkerStep

(* xv_service_stop and xv_service_destroy find every connection. *)
LEMMA NextListed ==
    FdsFit /\ CoreInv /\ TableInv /\ Listed /\ [Next]_vars => Listed'
<1> SUFFICES ASSUME FdsFit, CoreInv, TableInv, Listed, [Next]_vars
             PROVE  Listed'
  OBVIOUS
<1>a. TypeInv /\ OneWay /\ OwnerHandles /\ DescriptorsOwned
  BY DEF CoreInv
<1> USE <1>a, ServiceConstants DEF TypeInv, TypeOK
<1>b. DOMAIN table = 0..(ConnSetSize - 1) /\ conn_setsize = ConnSetSize
        /\ \A t \in IoThreads : EntryOf(t)
  BY DEF TableInv
<1>c. \A c \in Conns : fd[c] \in DOMAIN table
  <2>1. \A f \in Fds : f \in Nat /\ f < ConnSetSize
    BY DEF FdsFit
  <2>2. \A c \in Conns : fd[c] \in Fds \/ fd[c] = 0
    BY DEF ConnTypeOK
  <2>3. 0 \in 0..(ConnSetSize - 1) /\ \A f \in Fds : f \in 0..(ConnSetSize - 1)
    BY <2>1
  <2> QED  BY <1>b, <2>2, <2>3
<1>0. ASSUME UNCHANGED <<table, fd>>,
             \A c \in Conns : mem'[c] = "live" => mem[c] = "live",
             \A t \in IoThreads : iopc[t] \in {"closefd", "free"} =>
                \/ iopc'[t] \in {"closefd", "free"} /\ ioc'[t] = ioc[t]
                \/ mem'[ioc[t]] # "live"
      PROVE  Listed'
  BY <1>0 DEF Listed
<1>1. ASSUME NEW t \in IoThreads, NEW c \in Conns, Accept(t, c)
      PROVE  Listed'
  <2>1. PICK f \in Fds :
        /\ fdOwner[f] = NULL
        /\ xv_connection_init(c, f)
        /\ IF MustGrow(f)
           THEN /\ UNCHANGED tableVars
                /\ Goto(t, "grow", c, NULL, "poll")
           ELSE /\ xv_service_add_connection(c, f)
                /\ Goto(t, "accepted", c, NULL, "poll")
    BY <1>1 DEF Accept, xv_tcp_accept
  <2>2. ~MustGrow(f) /\ f \in DOMAIN table
    <3>1. f \in Nat /\ f < ConnSetSize
      BY DEF FdsFit
    <3> QED  BY <1>b, <3>1 DEF MustGrow
  <2>3. /\ table' = [table EXCEPT ![f] = c]
        /\ iopc[t] = "poll" /\ Goto(t, "accepted", c, NULL, "poll")
        /\ mem' = [mem EXCEPT ![c] = "live"]
        /\ fd' = [fd EXCEPT ![c] = f]
    <3>1. DOMAIN table \cup {f} = DOMAIN table
      BY <2>2
    <3>2. table' = [i \in DOMAIN table |-> IF i = f THEN c ELSE table[i]]
      BY <2>1, <2>2, <3>1 DEF xv_service_add_connection, Store
    <3>3. table \in [DOMAIN table -> Conns \cup {NULL, Garbage}]
      BY DEF TableTypeOK
    <3>4. table' = [table EXCEPT ![f] = c]
      BY <3>2, <3>3
    <3> QED  BY <1>1, <2>1, <2>2, <3>4 DEF Accept, xv_connection_init
  <2>4. ASSUME NEW d \in Conns, d # c, mem'[d] = "live"
        PROVE  \/ table'[fd'[d]] = d
               \/ \E u \in IoThreads : iopc'[u] \in {"closefd", "free"} /\ ioc'[u] = d
    <3>1. mem[d] = "live" /\ fd'[d] = fd[d]
      BY <2>3, <2>4 DEF ConnTypeOK
    <3>2. CASE table[fd[d]] = d
      <4>1. fd[d] # f
        <5>1. fd[d] \in Entries
          BY <1>c, <3>2 DEF Entries
        <5>2. fdOwner[fd[d]] = d
          BY <3>2, <5>1 DEF TableInv
        <5> QED  BY <2>1, <5>2
      <4> QED  BY <1>c, <2>3, <3>1, <3>2, <4>1
    <3>3. CASE \E u \in IoThreads : iopc[u] \in {"closefd", "free"} /\ ioc[u] = d
      <4>1. PICK u \in IoThreads : iopc[u] \in {"closefd", "free"} /\ ioc[u] = d
        BY <3>3
      <4>2. iopc'[u] = iopc[u] /\ ioc'[u] = ioc[u]
        BY <2>3, <4>1 DEF Goto, IoTypeOK
      <4> QED  BY <4>1, <4>2
    <3> QED  BY <3>1, <3>2, <3>3 DEF Listed
  <2>5. table'[fd'[c]] = c
    BY <2>2, <2>3 DEF ConnTypeOK
  <2>6. \A i \in DOMAIN table' : table'[i] # Garbage
    BY <2>3 DEF Listed
  <2> QED  BY <2>4, <2>5, <2>6 DEF Listed
<1>2. ASSUME NEW t \in IoThreads, DelConnection(t)
      PROVE  Listed'
  <2> DEFINE c == ioc[t]
  <2>1. /\ UNCHANGED <<mem, fd, ioc>>
        /\ iopc[t] = "del"
        /\ iopc' = [iopc EXCEPT ![t] = "closefd"]
        /\ table' = [table EXCEPT ![fd[c]] = NULL] \/ table' = table
        /\ c \in Conns
    BY <1>2, ReleaseLabels DEF DelConnection, connVars, HandlersTyped
  <2>2. table[fd[c]] = c
    BY <1>b, <2>1 DEF EntryOf
  <2>3. iopc'[t] = "closefd" /\ ioc'[t] = c
    BY <2>1 DEF IoTypeOK
  <2> HIDE DEF c
  <2>4. \A u \in IoThreads : iopc[u] \in {"closefd", "free"} => iopc'[u] = iopc[u]
    BY <2>1 DEF IoTypeOK
  <2>5. ASSUME NEW d \in Conns, d # c, table[fd[d]] = d
        PROVE  table'[fd[d]] = d
    BY <1>c, <2>1, <2>2, <2>5
  <2>6. \A i \in DOMAIN table' : table'[i] # Garbage
    BY <2>1 DEF Listed
  <2> QED  BY <2>1, <2>3, <2>4, <2>5, <2>6 DEF Listed
<1>3. ASSUME NEW t \in IoThreads, DropMessage(t)
      PROVE  Listed'
  <2>1. /\ UNCHANGED <<table, fd, iopc, ioc>>
        /\ \A c \in Conns : mem'[c] = "live" => mem[c] = "live"
    BY <1>3 DEF DropMessage, xv_connection_destroy, tableVars, ioVars, ConnTypeOK
  <2> QED  BY <1>0, <2>1
<1>4. ASSUME NEW t \in IoThreads, FreeConnection(t)
      PROVE  Listed'
  <2>1. /\ UNCHANGED <<table, fd, ioc>>
        /\ mem' = [mem EXCEPT ![ioc[t]] = "freed"]
        /\ iopc[t] = "free" /\ ioc[t] \in Conns
        /\ iopc' = [iopc EXCEPT ![t] = ioret[t]]
    BY <1>4, ReleaseLabels DEF FreeConnection, xv_connection_destroy, tableVars,
                               HandlersTyped
  <2>2. /\ \A c \in Conns : mem'[c] = "live" => mem[c] = "live"
        /\ mem'[ioc[t]] # "live"
    BY <2>1 DEF ConnTypeOK
  <2>3. \A u \in IoThreads : u # t => iopc'[u] = iopc[u]
    BY <2>1 DEF IoTypeOK
  <2> QED  BY <1>0, <2>1, <2>2, <2>3
<1>5. ASSUME NEW t \in IoThreads, Grow(t) \/ GrowDone(t)
      PROVE  Listed'
  BY <1>b, <1>5 DEF Grow, GrowDone, EntryOf
<1>6. ASSUME NEW t \in IoThreads,
             \/ \E c : WriteEventFails(t, c) \/ AcceptFails(t, c)
             \/ \E c, n : \/ ReadAndClose(t, c, n) \/ WriteEvent(t, c, n)
                          \/ ReadRequest(t, c, n)
             \/ \E n : Reply(t, n)
             \/ ReturnMessage(t) \/ NoReply(t) \/ Distribute(t) \/ AddConn(t)
             \/ ReplyFails(t) \/ DestroyMessage(t) \/ CloseMark(t) \/ CheckRef(t)
             \/ CloseFd(t)
      PROVE  Listed'
  <2>1. UNCHANGED <<table, fd, mem>>
    BY <1>6 DEF WriteEventFails, AcceptFails, ReadAndClose, WriteEvent, ReadRequest,
                Reply, ReturnMessage, NoReply, ReplyFails, Distribute, AddConn,
                DestroyMessage, CloseMark, CheckRef, CloseFd, connVars, tableVars
  <2>2. \A u \in IoThreads : iopc[u] \in {"closefd", "free"} =>
            iopc'[u] \in {"closefd", "free"} /\ ioc'[u] = ioc[u]
    <3>1. CASE \/ \E c : WriteEventFails(t, c) \/ AcceptFails(t, c)
               \/ \E c, n : ReadAndClose(t, c, n) \/ WriteEvent(t, c, n)
      BY <3>1 DEF WriteEventFails, AcceptFails, ReadAndClose, WriteEvent,
                  Readable, Writeable, Goto, ioVars, IoTypeOK
    <3>2. CASE \/ \E n : Reply(t, n)
               \/ ReturnMessage(t) \/ NoReply(t) \/ Distribute(t) \/ AddConn(t)
               \/ ReplyFails(t) \/ DestroyMessage(t)
      BY <3>2 DEF Reply, ReturnMessage, NoReply, ReplyFails, Distribute, AddConn,
                  DestroyMessage, BackToPoll, Goto, ioVars, IoTypeOK
    <3>3. CASE CloseMark(t) \/ CheckRef(t)
      BY <3>3 DEF CloseMark, CheckRef, IoTypeOK
    <3>4. CASE \E c, n : ReadRequest(t, c, n)
      <4>1. iopc[t] = "poll" 
              /\ (UNCHANGED ioVars \/ \E c, m : Goto(t, "reply", c, m, "poll"))
        BY <3>4 DEF ReadRequest, Readable
      <4> QED  BY <4>1 DEF Goto, ioVars, IoTypeOK
    <3>5. CASE CloseFd(t)
      BY <3>5, ReleaseLabels DEF CloseFd, IoTypeOK
    <3> QED  BY <1>6, <3>1, <3>2, <3>3, <3>4, <3>5
  <2> QED  BY <1>0, <2>1, <2>2
<1>7. ASSUME NEW w \in Workers, TakeTask(w) \/ FinishTask(w)
      PROVE  Listed'
  BY <1>0, <1>7 DEF TakeTask, FinishTask, connVars, tableVars, ioVars
<1>8. ASSUME NEW c \in Conns, Connect(c) \/ PeerSend(c) \/ PeerClose(c)
      PROVE  Listed'
  BY <1>0, <1>8 DEF Connect, PeerSend, PeerClose, connVars, tableVars, ioVars
<1>9. CASE UNCHANGED vars
  BY <1>0, <1>9 DEF vars, connVars, tableVars, ioVars
<1> QED
  BY <1>1, <1>2, <1>3, <1>4, <1>5, <1>6, <1>7, <1>8, <1>9
  DEF Next, PeerStep, IoStep, ListenEvent, QueueEvent, SocketEvent, HandlerStep,
      Close, WorkerStep

LEMMA InitKept == Init => OnTheWay /\ OutputKept /\ Listed
<1> SUFFICES ASSUME Init PROVE OnTheWay /\ OutputKept /\ Listed
  OBVIOUS
<1>1. OnTheWay
  BY DEF Init, OnTheWay
<1>2. OutputKept
  BY DEF Init, OutputKept
<1>3. Listed
  BY ServiceConstants DEF Init, Listed
<1> QED  BY <1>1, <1>2, <1>3

(***************************************************************************)
(* The whole inductive invariant of the service.                           *)
(***************************************************************************)
THEOREM ServiceInvariant == Spec => []ServiceInv
<1>1. Init => ServiceInv
  BY InitService, InitOrder, InitTable, InitReleased, InitAhead, InitKept
  DEF ServiceInv
<1>2. ServiceInv /\ [Next]_vars => ServiceInv'
  <2> SUFFICES ASSUME ServiceInv, [Next]_vars PROVE ServiceInv'
    OBVIOUS
  <2>1. CoreInv /\ OrderInv /\ NothingLost /\ SendsAhead /\ OnTheWay /\ OutputKept
    BY DEF ServiceInv
  <2>2. CoreInv' /\ OrderInv' /\ NothingLost' /\ SendsAhead'
    BY <2>1, NextService, NextOrder, NextHeld, NextSends
  <2>7. OnTheWay' /\ OutputKept'
    BY <2>1, NextOnTheWay, NextOutput
  <2>3. FdsFit => TableInv' /\ Listed'
    BY NextTable, NextListed DEF ServiceInv
  <2>4. NWorkers = 0 => PinInv' /\ ReleasedInv'
    BY NextPin, NextReleased DEF ServiceInv, OrderInv, OneWorker
  <2>5. Depth = 1 => PinInv' /\ OneInFlight'
    BY <2>1, NextPin, NextOneInFlight DEF ServiceInv
  <2>6. FdsFit' <=> FdsFit
    BY DEF FdsFit
  <2> QED  BY <2>2, <2>3, <2>4, <2>5, <2>6, <2>7 DEF ServiceInv
<1> QED  BY <1>1, <1>2, PTL DEF Spec, SafeSpec
=============================================================================
