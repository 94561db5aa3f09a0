---------------------------- MODULE XvRoomProofs ----------------------------
(***************************************************************************)
(* The chat room, for any number of members, IO threads, workers and       *)
(* requests.  Most steps of the room are steps of the service, whose       *)
(* lemmas say what they do to connections and messages; what is new is     *)
(* that workers make messages too, of connections they do not own.         *)
(***************************************************************************)
EXTENDS XvRoomInv, XvServiceProofs, WellFoundedInduction

(* A nonempty set of indices has a least one: the for loop of process. *)
LEMMA LeastIndex ==
    ASSUME NEW S, S \subseteq Nat, S # {}
    PROVE  \E f \in S : \A g \in S : f <= g
<1> DEFINE R == OpToRel(<, Nat)
<1>1. IsWellFoundedOn(R, Nat)
  BY NatLessThanWellFounded, Zenon
<1>2. \A x, y \in Nat : x < y => <<x, y>> \in R
  BY DEF OpToRel
<1> HIDE DEF R
<1>3. PICK x \in S : \A y \in S : ~ (<<y, x>> \in R)
  BY <1>1, WFMin
<1>4. \A y \in S : x \in Nat /\ y \in Nat /\ ~ (y < x)
  BY <1>2, <1>3
<1>5. \A y \in S : x <= y
  BY <1>4
<1> QED  BY <1>5

LEMMA IndexLeft ==
    ASSUME RoomTypeOK, NEW w \in Workers, wleft[w] # {}
    PROVE  NextIndex(w) \in wleft[w]
<1>1. wleft[w] \subseteq Nat
  BY ServiceConstants DEF RoomTypeOK
<1>2. \E f \in wleft[w] : \A g \in wleft[w] : f <= g
  BY <1>1, LeastIndex
<1> QED  BY <1>2 DEF NextIndex

(* The actions of a step. *)
Library == \E t \in IoThreads : LibraryStep(t)
Ours    == \/ Library
           \/ \E w \in Workers : StartTask(w) \/ EndTask(w)
           \/ \E c \in Conns : RoomPeerStep(c)

LEMMA RoomSteps ==
    ASSUME [RoomNext]_roomVars
    PROVE  \/ Ours /\ Defined
           \/ \E t \in IoThreads : on_connect(t) \/ on_disconnect(t)
           \/ \E w \in Workers : LookAt(w) \/ SendCheck(w)
           \/ \E w \in Workers : SendInit(w)
           \/ \E w \in Workers : SendPush(w)
           \/ UNCHANGED roomVars
  BY DEF RoomNext, ThreadStep, IoThreadStep, ProcessStep, Ours, Library

LEMMA OursIsNext == Ours => [Next]_vars /\ UNCHANGED conn_array
  BY DEF Ours, Library, LibraryStep, StartTask, EndTask, RoomPeerStep, Next,
         WorkerStep, userVars

(* A step of one IO thread leaves the others where they are. *)
LEMMA ThreadsApart ==
    ASSUME TypeInv, NEW t \in IoThreads, IoStep(t), NEW u \in IoThreads, u # t
    PROVE  UNCHANGED <<iopc[u], ioc[u], iom[u], ioret[u]>>
<1> USE DEF TypeInv, TypeOK, IoTypeOK
<1>1. ASSUME NEW l, NEW c, NEW m, NEW b, Goto(t, l, c, m, b)
      PROVE  UNCHANGED <<iopc[u], ioc[u], iom[u], ioret[u]>>
  BY <1>1 DEF Goto
<1>2. ASSUME iopc' = [iopc EXCEPT ![t] = iopc'[t]], UNCHANGED <<ioc, iom, ioret>>
      PROVE  UNCHANGED <<iopc[u], ioc[u], iom[u], ioret[u]>>
  BY <1>2
<1>3. CASE ListenEvent(t)
  BY <1>1, <1>3 DEF ListenEvent, Accept, AcceptFails, ioVars
<1>4. CASE QueueEvent(t)
  BY <1>1, <1>4 DEF QueueEvent, AddConn, ReturnMessage, DropMessage, ioVars
<1>5. CASE SocketEvent(t)
  <2>1. ASSUME NEW c, NEW n, ReadRequest(t, c, n)
        PROVE  UNCHANGED ioVars \/ \E m : Goto(t, "reply", c, m, "poll")
    BY <2>1 DEF ReadRequest
  <2>2. ASSUME NEW c, NEW n, ReadAndClose(t, c, n) \/ WriteEvent(t, c, n) \/ WriteEventFails(t, c)
        PROVE  UNCHANGED ioVars \/ Goto(t, "close", c, NULL, "poll")
    BY <2>2 DEF ReadAndClose, WriteEvent, WriteEventFails
  <2>3. UNCHANGED ioVars \/ \E l, c, m : Goto(t, l, c, m, "poll")
    BY <1>5, <2>1, <2>2 DEF SocketEvent
  <2> QED  BY <1>1, <2>3 DEF ioVars
<1>6. CASE \/ Grow(t) \/ GrowDone(t) \/ Distribute(t) \/ DestroyMessage(t)
           \/ ReplyFails(t) \/ \E n : Reply(t, n)
  BY <1>1, <1>6 DEF Grow, GrowDone, Distribute, DestroyMessage, ReplyFails, Reply,
                    BackToPoll, ioVars
<1>7. CASE NoReply(t) \/ Close(t)
  BY <1>7 DEF NoReply, Close, CloseMark, CheckRef, DelConnection, CloseFd,
              FreeConnection
<1> QED  BY <1>3, <1>4, <1>5, <1>6, <1>7 DEF IoStep, HandlerStep

(* The parts of the invariant that are the service's, in steps that are    *)
(* the service's.                                                          *)
ServiceParts ==
    /\ TypeInv /\ OneWay /\ OwnerHandles /\ OnePlace /\ RequestsDecoded
    /\ MessagesExist /\ RefsAre(MemberRefs)

LEMMA OursServiceParts ==
    ASSUME RoomInv, Ours
    PROVE  ServiceParts'
<1>1. [Next]_vars /\ UNCHANGED conn_array
  BY OursIsNext
<1>2. /\ TypeInv /\ OneWay /\ OwnerHandles /\ OnePlace /\ RequestsDecoded
      /\ MessagesExist /\ RefsAre(MemberRefs) /\ Members
  BY DEF RoomInv
<1>3. TypeInv' /\ OneWay' /\ OwnerHandles' /\ OnePlace' /\ RequestsDecoded'
  BY <1>1, <1>2, NextType, NextOneWay, NextOwner, NextPlaces, NextDecoded
<1>4. PICK e : e = MemberRefs
  OBVIOUS
<1>5. e \in [Conns -> Int] /\ \A c \in Conns : mem[c] = "none" => e[c] = 0
  BY <1>2, <1>4 DEF MemberRefs, Members
<1>6. RefsAre(e)
  BY <1>2, <1>4
<1>7. RefsAre(e)' /\ MessagesExist'
  BY <1>1, <1>2, <1>5, <1>6, NextRefs
<1>8. MemberRefs' = e
  BY <1>1, <1>4 DEF MemberRefs
<1>9. RefsAre(MemberRefs)'
  BY <1>7, <1>8 DEF RefsAre
<1> QED  BY <1>3, <1>7, <1>9 DEF ServiceParts

(* on_connect and on_disconnect take and give back a reference. *)
LEMMA CallbackServiceParts ==
    ASSUME RoomInv, NEW t \in IoThreads, on_connect(t) \/ on_disconnect(t)
    PROVE  ServiceParts'
<1> USE DEF RoomInv
<1>1. /\ UNCHANGED <<streamVars, tableVars, queueVars, ioVars, peerVars, mem,
                     status, io_thread, fd, rio, wio, ndisc, msgs, whand, fdOwner>>
      /\ ioc[t] \in Conns
      /\ \/ /\ conn_array' = conn_array \cup {ioc[t]} /\ ioc[t] \notin conn_array
            /\ ref' = [ref EXCEPT ![ioc[t]] = @ + 1]
         \/ /\ conn_array' = conn_array \ {ioc[t]} /\ ioc[t] \in conn_array
            /\ ref' = [ref EXCEPT ![ioc[t]] = @ - 1]
  BY DEF on_connect, on_disconnect, xv_connection_incr_ref, xv_connection_decr_ref,
         TypeInv, HandlersTyped
<1>2. TypeInv'
  <2>1. ConnTypeOK'
    BY <1>1 DEF TypeInv, TypeOK, ConnTypeOK
  <2>2. HandlersTyped'
    BY <1>1 DEF TypeInv, HandlersTyped, Carries, ioVars
  <2> QED  BY <1>1, <2>1, <2>2, TypeFrame DEF TypeInv, TypeOK
<1>3. OneWay'
  BY <1>1 DEF OneWay, Adding, ioVars, queueVars, peerVars
<1>4. OwnerHandles'
  BY <1>1 DEF OwnerHandles, HandlesOwn, Carries, ioVars, queueVars
<1>5. OnePlace' /\ RequestsDecoded' /\ MessagesExist'
  BY <1>1 DEF OnePlace, OneHolder, QueuedOnce, Holds, Carries, RequestsDecoded,
              MessagesExist, ioVars, queueVars, streamVars
<1>6. RefsAre(MemberRefs)'
  <2>1. IsFiniteSet(msgs')
    BY <1>1 DEF RefsAre
  <2>2. ASSUME NEW c \in Conns
        PROVE  ref'[c] = (IF mem'[c] = "none" THEN 0 ELSE 1) + MemberRefs'[c]
                            + Cardinality(MessagesOf(c)')
    <3> DEFINE a == Cardinality(MessagesOf(c))
    <3>1. MessagesOf(c)' = MessagesOf(c)
      BY <1>1 DEF MessagesOf
    <3>2. a \in Nat
      BY FS_Subset, FS_CardinalityType DEF RefsAre, MessagesOf
    <3>3. ref[c] = (IF mem[c] = "none" THEN 0 ELSE 1) + MemberRefs[c] + a
      BY DEF RefsAre
    <3> HIDE DEF a
    <3>4. ref'[c] = (IF mem'[c] = "none" THEN 0 ELSE 1) + MemberRefs'[c] + a
      BY <1>1, <3>2, <3>3 DEF MemberRefs, TypeInv, TypeOK, ConnTypeOK
    <3> QED  BY <3>1, <3>4 DEF a
  <2> QED  BY <2>1, <2>2 DEF RefsAre
<1> QED  BY <1>2, <1>3, <1>4, <1>5, <1>6 DEF ServiceParts
(* The message that a worker is about to make, or has made, is new. *)
LEMMA SentIsMessage ==
    ASSUME RoomInv, NEW w \in Workers, wpc[w] # "loop"
    PROVE  /\ Sent(w) \in Messages /\ whand[w] \in Messages /\ ~ whand[w].sent
           /\ whand[w] \in msgs /\ Holds("worker", w, whand[w])
           /\ Sent(w).conn = wconn[w] /\ Sent(w).from = whand[w].conn
           /\ Sent(w).lo = whand[w].lo /\ Sent(w).hi = whand[w].hi /\ Sent(w).sent
           /\ wconn[w] \in Conns /\ wconn[w] \in conn_array /\ mutex = w
           /\ mem[wconn[w]] = "live"
           /\ fd[wconn[w]] = NextIndex(w) /\ NextIndex(w) \in wleft[w]
           /\ SentFor(Sent(w), whand[w])
<1> USE DEF RoomInv
<1>1. /\ mutex = w /\ whand[w] # NULL /\ wconn[w] \in conn_array
      /\ wleft[w] # {} /\ fd[wconn[w]] = NextIndex(w)
  BY DEF Locked
<1>2. wconn[w] \in Conns /\ mem[wconn[w]] = "live" /\ NextIndex(w) \in wleft[w]
  BY <1>1, IndexLeft DEF RoomTypeOK, Members
<1>3. whand[w] \in Messages
  BY <1>1 DEF TypeInv, TypeOK, MessageTypeOK
<1>4. Holds("worker", w, whand[w]) /\ w \in Holders /\ "worker" \in Kinds
  BY <1>1 DEF Holds, Holders, Kinds
<1>5. whand[w] \in msgs /\ ~ whand[w].sent
  BY <1>3, <1>4 DEF OnePlace, OneHolder, RequestsOnly
<1>6. /\ Sent(w).conn = wconn[w] /\ Sent(w).from = whand[w].conn
      /\ Sent(w).lo = whand[w].lo /\ Sent(w).hi = whand[w].hi /\ Sent(w).sent
  BY DEF Sent
<1>7. Sent(w) \in Messages
  BY <1>2, <1>3 DEF Sent, Messages
<1> QED  BY <1>1, <1>2, <1>3, <1>4, <1>5, <1>6, <1>7 DEF SentFor

LEMMA SentIsNew ==
    ASSUME RoomInv, NEW w \in Workers, wpc[w] = "init"
    PROVE  Sent(w) \notin msgs /\ \A k \in Kinds, x \in Holders : ~Holds(k, x, Sent(w))
<1>1. /\ Sent(w) \in Messages /\ fd[Sent(w).conn] \in wleft[w]
      /\ SentFor(Sent(w), whand[w]) /\ Sent(w).sent /\ whand[w] # NULL
  BY SentIsMessage DEF RoomInv, Locked
<1>2. Sent(w) \notin msgs
  BY <1>1 DEF RoomInv, SentOnce
<1>3. \A k \in Kinds, x \in Holders : ~Holds(k, x, Sent(w))
  BY <1>1, <1>2 DEF RoomInv, OnePlace, OneHolder
<1> QED  BY <1>2, <1>3

LEMMA InitServiceParts ==
    ASSUME RoomInv, NEW w \in Workers, SendInit(w)
    PROVE  ServiceParts'
<1> USE DEF RoomInv
<1>1. /\ UNCHANGED <<streamVars, tableVars, queueVars, ioVars, peerVars, mem,
                     status, io_thread, fd, rio, wio, ndisc, whand, fdOwner, conn_array>>
      /\ msgs' = msgs \cup {Sent(w)}
      /\ ref' = [ref EXCEPT ![Sent(w).conn] = @ + 1]
      /\ wpc[w] = "init"
  BY DEF SendInit, xv_message_init, xv_connection_incr_ref
<1>2. /\ Sent(w) \in Messages /\ Sent(w).conn \in Conns /\ Sent(w).sent
      /\ mem[Sent(w).conn] = "live" /\ Sent(w) \notin msgs
  BY <1>1, SentIsMessage, SentIsNew
<1>3. TypeInv'
  <2>1. ConnTypeOK'
    BY <1>1, <1>2 DEF TypeInv, TypeOK, ConnTypeOK
  <2>2. HandlersTyped'
    BY <1>1 DEF TypeInv, HandlersTyped, Carries, ioVars
  <2>3. MessageTypeOK'
    BY <1>1, <1>2 DEF TypeInv, TypeOK, MessageTypeOK
  <2> QED  BY <1>1, <2>1, <2>2, <2>3, TypeFrame DEF TypeInv, TypeOK
<1>4. OneWay'
  BY <1>1 DEF OneWay, Adding, ioVars, queueVars, peerVars
<1>5. OwnerHandles'
  BY <1>1 DEF OwnerHandles, HandlesOwn, Carries, ioVars, queueVars
<1>6. OnePlace'
  BY <1>1 DEF OnePlace, OneHolder, QueuedOnce, Holds, Carries, ioVars, queueVars
<1>7. RequestsDecoded' /\ MessagesExist'
  BY <1>1, <1>2 DEF RequestsDecoded, MessagesExist, streamVars
<1>8. RefsAre(MemberRefs)'
  <2>1. IsFiniteSet(msgs')
    BY <1>1, FS_AddElement DEF RefsAre
  <2>2. ASSUME NEW c \in Conns
        PROVE  ref'[c] = (IF mem'[c] = "none" THEN 0 ELSE 1) + MemberRefs'[c]
                            + Cardinality(MessagesOf(c)')
    <3> DEFINE a == Cardinality(MessagesOf(c))
               b == Cardinality(MessagesOf(c)')
    <3>1. /\ Cardinality(MessagesOf(c)) \in Nat
          /\ Sent(w).conn = c =>
                Cardinality(MessagesOf(c)') = Cardinality(MessagesOf(c)) + 1
          /\ Sent(w).conn # c => MessagesOf(c)' = MessagesOf(c)
      BY <1>1, <1>2, MessageAdded DEF RefsAre
    <3>2. a \in Nat /\ b = a + (IF Sent(w).conn = c THEN 1 ELSE 0)
      BY <3>1
    <3>3. ref[c] = (IF mem[c] = "none" THEN 0 ELSE 1) + MemberRefs[c] + a
      BY DEF RefsAre
    <3> HIDE DEF a, b
    <3>4. ref'[c] = ref[c] + (IF Sent(w).conn = c THEN 1 ELSE 0) /\ ref[c] \in Int
      BY <1>1 DEF TypeInv, TypeOK, ConnTypeOK
    <3>5. MemberRefs'[c] = MemberRefs[c] /\ MemberRefs[c] \in Int
      BY <1>1 DEF MemberRefs
    <3>6. ref'[c] = (IF mem'[c] = "none" THEN 0 ELSE 1) + MemberRefs'[c] + b
      BY <1>1, <3>2, <3>3, <3>4, <3>5
    <3> QED  BY <3>6 DEF b
  <2> QED  BY <2>1, <2>2 DEF RefsAre
<1> QED  BY <1>3, <1>4, <1>5, <1>6, <1>7, <1>8 DEF ServiceParts

(* Where messages are after the push of a send. *)
LEMMA PushHolds ==
    ASSUME RoomInv, NEW w \in Workers, SendPush(w)
    PROVE  /\ io_thread[wconn[w]] \in IoThreads
           /\ \A t \in IoThreads : \A m : Queued(message_queue'[t], m) =>
                \/ Queued(message_queue[t], m)
                \/ m = Sent(w) /\ t = io_thread[wconn[w]]
           /\ \A t \in IoThreads : NoRepeat(message_queue'[t])
           /\ \A k, x, o : Holds(k, x, o)' =>
                \/ Holds(k, x, o)
                \/ o = Sent(w) /\ k = "return" /\ x = io_thread[wconn[w]]
           /\ message_queue' \in [IoThreads -> Seq(Messages)]
<1> DEFINE u == io_thread[wconn[w]]
<1>1. /\ message_queue' = [message_queue EXCEPT ![u] = Append(@, Sent(w))]
      /\ wpc[w] = "push" /\ u # NULL
      /\ UNCHANGED <<task_queue, whand, ioVars>>
  BY DEF SendPush
<1>2. Sent(w) \in Messages /\ wconn[w] \in Conns
  BY <1>1, SentIsMessage
<1>3. u \in IoThreads
  BY <1>1, <1>2 DEF RoomInv, TypeInv, TypeOK, ConnTypeOK
<1>4. message_queue \in [IoThreads -> Seq(Messages)]
  BY DEF RoomInv, TypeInv, TypeOK, QueueTypeOK
<1>5. ~Queued(message_queue[u], Sent(w))
  BY <1>1, <1>3 DEF RoomInv, OnTheStack, Holds, Kinds, Holders
<1> HIDE DEF u
<1>6. /\ message_queue'[u] = Append(message_queue[u], Sent(w))
      /\ \A t \in IoThreads : t # u => message_queue'[t] = message_queue[t]
  BY <1>1, <1>3, <1>4
<1>7. /\ \A y : Queued(message_queue'[u], y) <=> Queued(message_queue[u], y) \/ y = Sent(w)
      /\ NoRepeat(message_queue[u]) => NoRepeat(message_queue'[u])
  <2>1. message_queue[u] \in Seq(Messages)
    BY <1>3, <1>4
  <2> QED  BY <1>2, <1>5, <1>6, <2>1, QueuedAppend
<1>8. \A t \in IoThreads : NoRepeat(message_queue[t])
  BY DEF RoomInv, OnePlace, QueuedOnce
<1>9. \A t \in IoThreads : \A m : Queued(message_queue'[t], m) =>
                Queued(message_queue[t], m) \/ (m = Sent(w) /\ t = u)
  BY <1>6, <1>7
<1>10. \A t \in IoThreads : NoRepeat(message_queue'[t])
  BY <1>6, <1>7, <1>8
<1>11. ASSUME NEW k, NEW x, NEW o, Holds(k, x, o)'
       PROVE  Holds(k, x, o) \/ (o = Sent(w) /\ k = "return" /\ x = u)
  BY <1>1, <1>9, <1>11 DEF Holds, Carries, ioVars
<1>12. message_queue' \in [IoThreads -> Seq(Messages)]
  BY <1>1, <1>2, <1>4, AppendAt, Zenon
<1> QED  BY <1>3, <1>9, <1>10, <1>11, <1>12 DEF u

LEMMA PushServiceParts ==
    ASSUME RoomInv, NEW w \in Workers, SendPush(w)
    PROVE  ServiceParts'
<1> USE DEF RoomInv
<1>1. /\ UNCHANGED <<connVars, streamVars, tableVars, ioVars, peerVars, msgs,
                     whand, fdOwner, conn_queue, task_queue, conn_array>>
      /\ wpc[w] = "push"
  BY DEF SendPush
<1>2. Sent(w) \in Messages /\ Sent(w).conn = wconn[w] /\ Sent(w) \in msgs
  BY <1>1, SentIsMessage DEF OnTheStack
<1>3. TypeInv'
  <2>1. QueueTypeOK'
    BY <1>1, PushHolds DEF TypeInv, TypeOK, QueueTypeOK
  <2>2. HandlersTyped'
    BY <1>1 DEF TypeInv, HandlersTyped, Carries, ioVars, connVars
  <2> QED  BY <1>1, <2>1, <2>2, TypeFrame DEF TypeInv, TypeOK
<1>4. OneWay'
  BY <1>1 DEF OneWay, Adding, ioVars, connVars, peerVars
<1>5. OwnerHandles'
  <2>1. ASSUME NEW t \in IoThreads
        PROVE  HandlesOwn(t)' /\ \A m \in Messages :
                    Queued(message_queue'[t], m) => io_thread'[m.conn] = t
    <3>1. HandlesOwn(t)'
      BY <1>1 DEF OwnerHandles, HandlesOwn, Carries, ioVars, connVars
    <3>2. \A m : Queued(message_queue'[t], m) =>
                Queued(message_queue[t], m) \/ (m = Sent(w) /\ t = io_thread[wconn[w]])
      BY PushHolds
    <3>3. \A m \in Messages : Queued(message_queue[t], m) => io_thread[m.conn] = t
      BY DEF OwnerHandles
    <3>4. io_thread' = io_thread
      BY <1>1 DEF connVars
    <3> QED  BY <1>2, <3>1, <3>2, <3>3, <3>4
  <2> QED  BY <1>1, <2>1 DEF OwnerHandles, connVars
<1>6. OnePlace'
  <2>1. QueuedOnce'
    BY <1>1, PushHolds DEF OnePlace, QueuedOnce
  <2>2. ASSUME NEW m \in Messages, NEW k \in Kinds, NEW x \in Holders, Holds(k, x, m)',
               NEW l \in Kinds, NEW y \in Holders, Holds(l, y, m)'
        PROVE  m \in msgs' /\ k = l /\ x = y
    <3>1. CASE m = Sent(w)
      <4>1. ~Holds(k, x, m) /\ ~Holds(l, y, m)
        BY <1>1, <3>1 DEF OnTheStack
      <4> QED  BY <1>1, <1>2, <2>2, <3>1, <4>1, PushHolds
    <3>2. CASE m # Sent(w)
      <4>1. Holds(k, x, m) /\ Holds(l, y, m)
        BY <2>2, <3>2, PushHolds
      <4> QED  BY <1>1, <4>1 DEF OnePlace, OneHolder
    <3> QED  BY <3>1, <3>2
  <2>3. OneHolder'
    BY <2>2 DEF OneHolder
  <2> QED  BY <2>1, <2>3 DEF OnePlace
<1>7. RequestsDecoded' /\ MessagesExist' /\ RefsAre(MemberRefs)'
  BY <1>1 DEF RequestsDecoded, MessagesExist, RefsAre, MemberRefs, MessagesOf,
              streamVars, connVars
<1> QED  BY <1>3, <1>4, <1>5, <1>6, <1>7 DEF ServiceParts

LEMMA SameServiceParts ==
    ASSUME RoomInv, UNCHANGED <<vars, conn_array>>
    PROVE  ServiceParts'
<1>1. [Next]_vars
  OBVIOUS
<1>2. /\ TypeInv /\ OneWay /\ OwnerHandles /\ OnePlace /\ RequestsDecoded
      /\ MessagesExist /\ RefsAre(MemberRefs)
  BY DEF RoomInv
<1>3. TypeInv' /\ OneWay' /\ OwnerHandles' /\ OnePlace' /\ RequestsDecoded'
  BY <1>1, <1>2, NextType, NextOneWay, NextOwner, NextPlaces, NextDecoded
<1>4. MessagesExist' /\ RefsAre(MemberRefs)'
  BY <1>2 DEF MessagesExist, RefsAre, MemberRefs, MessagesOf, vars, connVars
<1> QED  BY <1>3, <1>4 DEF ServiceParts
(* The state of the for loop of process. *)
LEMMA NextRoomType ==
    ASSUME RoomInv, [RoomNext]_roomVars
    PROVE  RoomTypeOK'
<1> USE DEF RoomInv
<1>1. ASSUME UNCHANGED userVars
      PROVE  RoomTypeOK'
  BY <1>1 DEF RoomTypeOK, userVars
<1>2. ASSUME NEW w \in Workers, StartTask(w)
      PROVE  RoomTypeOK'
  BY <1>2 DEF StartTask, RoomTypeOK
<1>3. ASSUME NEW t \in IoThreads, on_connect(t) \/ on_disconnect(t)
      PROVE  RoomTypeOK'
  BY <1>3 DEF on_connect, on_disconnect, RoomTypeOK, TypeInv, HandlersTyped
<1>4. ASSUME NEW w \in Workers, NextRound(w), UNCHANGED conn_array
      PROVE  RoomTypeOK'
  BY <1>4 DEF NextRound, RoomTypeOK
<1>5. ASSUME NEW w \in Workers, LookAt(w)
      PROVE  RoomTypeOK'
  <2>1. CASE \E c \in conn_array : fd[c] = NextIndex(w)
    <3>1. (CHOOSE c \in conn_array : fd[c] = NextIndex(w)) \in Conns
      BY <2>1 DEF RoomTypeOK
    <3> QED  BY <1>5, <2>1, <3>1 DEF LookAt, RoomTypeOK
  <2>2. CASE ~ \E c \in conn_array : fd[c] = NextIndex(w)
    BY <1>4, <1>5, <2>2 DEF LookAt
  <2> QED  BY <2>1, <2>2
<1>6. ASSUME NEW w \in Workers, SendCheck(w)
      PROVE  RoomTypeOK'
  <2>1. CASE status[wconn[w]] = "CLOSED"
    BY <1>4, <1>6, <2>1 DEF SendCheck
  <2>2. CASE status[wconn[w]] # "CLOSED"
    BY <1>6, <2>2 DEF SendCheck, RoomTypeOK
  <2> QED  BY <2>1, <2>2
<1>7. ASSUME NEW w \in Workers, SendInit(w)
      PROVE  RoomTypeOK'
  BY <1>7 DEF SendInit, RoomTypeOK
<1>8. ASSUME NEW w \in Workers, SendPush(w)
      PROVE  RoomTypeOK'
  BY <1>4, <1>8 DEF SendPush
<1> QED
  BY <1>1, <1>2, <1>3, <1>5, <1>6, <1>7, <1>8, RoomSteps
  DEF Ours, Library, LibraryStep, EndTask, RoomPeerStep, roomVars

(* What a step of an IO thread can do to the life of a connection. *)
LEMMA LifeSteps ==
    ASSUME TypeInv, OneWay, OwnerHandles, NEW t \in IoThreads, IoStep(t), NEW c \in Conns
    PROVE  /\ \/ mem'[c] = mem[c]
              \/ mem'[c] = "live" /\ mem[c] = "none"
              \/ /\ io_thread[c] = t /\ status[c] = "CLOSED"
                 /\ iopc[t] \in {"poll", "free"}
           /\ \/ status'[c] = status[c]
              \/ iopc[t] = "close" /\ c = ioc[t] /\ iopc'[t] = "checkref" /\ ioc'[t] = c
           /\ mem[c] # "none" => fd'[c] = fd[c]
           /\ Adding(t)' /\ ioc'[t] = c =>
                (Adding(t) /\ ioc[t] = c) \/ mem'[c] = "live"
           /\ iopc[t] = "checkref" => CheckRef(t)
           /\ whand' = whand
<1> USE ServiceConstants DEF TypeInv, TypeOK, IoTypeOK
<1> DEFINE Goal ==
           /\ \/ mem'[c] = mem[c]
              \/ mem'[c] = "live" /\ mem[c] = "none"
              \/ /\ io_thread[c] = t /\ status[c] = "CLOSED"
                 /\ iopc[t] \in {"poll", "free"}
           /\ \/ status'[c] = status[c]
              \/ iopc[t] = "close" /\ c = ioc[t] /\ iopc'[t] = "checkref" /\ ioc'[t] = c
           /\ mem[c] # "none" => fd'[c] = fd[c]
           /\ Adding(t)' /\ ioc'[t] = c =>
                (Adding(t) /\ ioc[t] = c) \/ mem'[c] = "live"
           /\ iopc[t] = "checkref" => CheckRef(t)
           /\ whand' = whand
<1> SUFFICES Goal
  OBVIOUS
<1>1. ASSUME NEW d \in Conns, Accept(t, d)
      PROVE  Goal
  <2>1. PICK f \in Fds : xv_connection_init(d, f)
    BY <1>1 DEF Accept
  <2>2. /\ mem[d] = "none" /\ mem' = [mem EXCEPT ![d] = "live"]
        /\ fd' = [fd EXCEPT ![d] = f] /\ UNCHANGED <<status, whand>>
        /\ iopc[t] = "poll"
    BY <1>1, <2>1 DEF Accept, xv_connection_init, OneWay
  <2>3. \E l : Goto(t, l, d, NULL, "poll")
    BY <1>1 DEF Accept
  <2>4. ioc'[t] = d
    BY <2>3 DEF Goto
  <2> QED  BY <2>2, <2>4 DEF ConnTypeOK
<1>2. ASSUME UNCHANGED <<mem, status, fd, whand>>, iopc[t] # "checkref",
             ~ Adding(t)' \/ (Adding(t) /\ ioc'[t] = ioc[t])
      PROVE  Goal
  BY <1>2
<1>3. ASSUME NEW d \in Conns, AcceptFails(t, d)
      PROVE  Goal
  BY <1>2, <1>3 DEF AcceptFails, connVars, ioVars, Adding
<1>4. CASE AddConn(t) \/ ReturnMessage(t)
  BY <1>2, <1>4 DEF AddConn, ReturnMessage, connVars, ioVars, Goto, Adding
<1>5. CASE DropMessage(t)
  <2> DEFINE m == Head(message_queue[t])
  <2>1. /\ mem' = [mem EXCEPT ![m.conn] = "freed"] /\ status[m.conn] = "CLOSED"
        /\ UNCHANGED <<status, fd, whand, ioVars>> /\ iopc[t] = "poll"
        /\ message_queue[t] \in Seq(Messages) /\ message_queue[t] # << >>
    BY <1>5 DEF DropMessage, xv_connection_destroy, QueueTypeOK
  <2>2. m \in Messages /\ Queued(message_queue[t], m)
    BY <2>1, QueuedTail, HeadTailProperties
  <2>3. io_thread[m.conn] = t
    BY <2>2 DEF OwnerHandles
  <2> QED  BY <2>1, <2>3 DEF ConnTypeOK, ioVars, Adding
<1>6. ASSUME NEW d \in Conns, NEW n, ReadRequest(t, d, n)
      PROVE  Goal
  <2>1. UNCHANGED <<mem, status, fd, whand>> /\ iopc[t] = "poll"
    BY <1>6 DEF ReadRequest, Readable
  <2>2. UNCHANGED ioVars \/ \E m : Goto(t, "reply", d, m, "poll")
    BY <1>6 DEF ReadRequest
  <2> QED  BY <1>2, <2>1, <2>2 DEF ioVars, Goto, Adding
<1>7. ASSUME NEW d \in Conns, NEW n,
             ReadAndClose(t, d, n) \/ WriteEvent(t, d, n) \/ WriteEventFails(t, d)
      PROVE  Goal
  BY <1>2, <1>7 DEF ReadAndClose, WriteEvent, WriteEventFails, Readable, Writeable,
                    connVars, ioVars, Goto, Adding
<1>8. CASE Grow(t) \/ GrowDone(t) \/ Distribute(t) \/ DestroyMessage(t)
  BY <1>2, <1>8 DEF Grow, GrowDone, Distribute, DestroyMessage, BackToPoll,
                    connVars, ioVars, Goto, Adding
<1>9. CASE NoReply(t) \/ ReplyFails(t) \/ \E n : Reply(t, n)
  BY <1>2, <1>9 DEF NoReply, ReplyFails, Reply, connVars, Goto, Adding
<1>10. CASE CloseMark(t)
  BY <1>10 DEF CloseMark, ConnTypeOK, Adding
<1>11. CASE CheckRef(t)
  <2>1. iopc'[t] \in {"poll", "destroy", "del"}
    BY <1>11, ReleaseLabels DEF CheckRef
  <2> QED  BY <1>11, <2>1 DEF CheckRef, connVars, Adding
<1>12. CASE DelConnection(t) \/ CloseFd(t)
  <2>1. iopc'[t] \in {"closefd", "free"}
    BY <1>12, ReleaseLabels DEF DelConnection, CloseFd
  <2> QED  BY <1>2, <1>12, <2>1 DEF DelConnection, CloseFd, connVars, Adding
<1>13. CASE FreeConnection(t)
  <2>1. /\ mem' = [mem EXCEPT ![ioc[t]] = "freed"] /\ iopc[t] = "free"
        /\ UNCHANGED <<status, fd, whand, ioc>>
    BY <1>13 DEF FreeConnection, xv_connection_destroy
  <2>2. iopc'[t] \in {"poll", "destroy"}
    BY <1>13, ReleaseLabels DEF FreeConnection
  <2>3. io_thread[ioc[t]] = t /\ status[ioc[t]] = "CLOSED"
    BY <2>1 DEF OwnerHandles, HandlesOwn, Handling
  <2> QED  BY <2>1, <2>2, <2>3 DEF ConnTypeOK, Adding
<1> HIDE DEF Goal
<1>14. Goal
  <2>1. CASE ListenEvent(t)
    BY <1>1, <1>3, <2>1 DEF ListenEvent
  <2>2. CASE QueueEvent(t)
    BY <1>4, <1>5, <2>2 DEF QueueEvent
  <2>3. CASE SocketEvent(t)
    BY <1>6, <1>7, <2>3 DEF SocketEvent
  <2>4. CASE HandlerStep(t)
    BY <1>8, <1>9, <1>10, <1>11, <1>12, <1>13, <2>4 DEF HandlerStep, Close
  <2> QED  BY <2>1, <2>2, <2>3, <2>4 DEF IoStep
<1> QED  BY <1>14

(***************************************************************************)
(* conn_array holds connections that exist: a connection is destroyed only *)
(* by its owner, which has called on_disconnect before.                    *)
(***************************************************************************)
LEMMA NextMembers ==
    ASSUME RoomInv, [RoomNext]_roomVars
    PROVE  Members'
<1> USE DEF RoomInv
<1>a. \A t \in IoThreads : t # NULL
  BY ServiceConstants DEF IoThreads
<1>b. ASSUME UNCHANGED <<mem, status, ioVars>>,
             \A c \in conn_array' : mem[c] = "live" /\ (status[c] = "OPEN" \/ Leaving(c))
      PROVE  Members'
  BY <1>b DEF Members, Leaving, Adding, ioVars
<1>1. ASSUME NEW t \in IoThreads, LibraryStep(t)
      PROVE  Members'
  <2>1. /\ IoStep(t) /\ UNCHANGED conn_array
        /\ iopc[t] = "checkref" => ioc[t] \notin conn_array
    BY <1>1 DEF LibraryStep, Disconnected, userVars
  <2>2. ASSUME NEW c \in conn_array
        PROVE  mem'[c] = "live" /\ (status'[c] = "OPEN" \/ Leaving(c)')
    <3>1. c \in Conns /\ mem[c] = "live" /\ (status[c] = "OPEN" \/ Leaving(c))
      BY DEF RoomTypeOK, Members
    <3>2. ASSUME NEW u \in IoThreads, iopc[u] = "checkref", ioc[u] = c
          PROVE  io_thread[c] = u /\ u # t
      BY <2>1, <3>2 DEF OwnerHandles, HandlesOwn, Handling
    <3>3. mem'[c] = "live"
      <4>1. io_thread[c] = t => status[c] # "CLOSED"
        BY <3>1, <3>2 DEF Leaving
      <4> QED  BY <2>1, <3>1, <4>1, LifeSteps
    <3>4. CASE Leaving(c)
      <4>1. PICK u \in IoThreads : iopc[u] = "checkref" /\ ioc[u] = c
        BY <3>4 DEF Leaving
      <4>2. UNCHANGED <<iopc[u], ioc[u]>>
        BY <2>1, <3>2, <4>1, ThreadsApart
      <4> QED  BY <3>3, <4>1, <4>2 DEF Leaving
    <3>5. CASE status[c] = "OPEN"
      <4>1. \/ status'[c] = status[c]
            \/ iopc'[t] = "checkref" /\ ioc'[t] = c
        BY <2>1, <3>1, LifeSteps
      <4> QED  BY <3>3, <3>5, <4>1 DEF Leaving
    <3> QED  BY <3>1, <3>4, <3>5
  <2>3. ASSUME NEW u \in IoThreads, Adding(u)'
        PROVE  mem'[ioc'[u]] = "live"
    <3>1. TypeInv'
      BY <2>1, NextType DEF Next
    <3>2. ioc'[u] \in Conns
      BY <2>3, <3>1 DEF TypeInv, HandlersTyped, Adding
    <3>3. CASE Adding(u) /\ ioc'[u] = ioc[u]
      <4>1. mem[ioc[u]] = "live" /\ io_thread[ioc[u]] = NULL
        BY <3>3 DEF Members, OneWay
      <4> QED  BY <1>a, <2>1, <3>2, <3>3, <4>1, LifeSteps
    <3>4. CASE ~(Adding(u) /\ ioc'[u] = ioc[u])
      <4>1. u = t
        BY <2>1, <2>3, <3>4, ThreadsApart DEF Adding
      <4> QED  BY <2>1, <2>3, <3>2, <3>4, <4>1, LifeSteps
    <3> QED  BY <3>3, <3>4
  <2> QED  BY <2>1, <2>2, <2>3 DEF Members
<1>2. ASSUME NEW t \in IoThreads, on_connect(t)
      PROVE  Members'
  <2>1. /\ Adding(t) /\ conn_array' = conn_array \cup {ioc[t]}
        /\ UNCHANGED <<mem, status, ioVars>>
    BY <1>2 DEF on_connect, Adding
  <2>2. mem[ioc[t]] = "live" /\ io_thread[ioc[t]] = NULL /\ ioc[t] \in Conns
    BY <2>1 DEF Members, OneWay, TypeInv, HandlersTyped, Adding
  <2>3. status[ioc[t]] = "OPEN"
    BY <2>2 DEF OwnerHandles, TypeInv, TypeOK, ConnTypeOK
  <2> QED  BY <1>b, <2>1, <2>2, <2>3 DEF Members
<1>3. ASSUME NEW t \in IoThreads, on_disconnect(t)
      PROVE  Members'
  BY <1>b, <1>3 DEF on_disconnect, Members
<1>4. ASSUME NEW w \in Workers,
             \/ StartTask(w) \/ EndTask(w) \/ LookAt(w) \/ SendCheck(w)
             \/ SendInit(w) \/ SendPush(w)
      PROVE  Members'
  <2>1. UNCHANGED <<mem, status, ioVars, conn_array>>
    BY <1>4 DEF StartTask, TakeTask, EndTask, FinishTask, LookAt, SendCheck, SendInit,
                SendPush, vars, userVars, connVars
  <2> QED  BY <1>b, <2>1 DEF Members
<1>5. ASSUME NEW c \in Conns, RoomPeerStep(c)
      PROVE  Members'
  BY <1>b, <1>5 DEF RoomPeerStep, PeerStep, Connect, PeerSend, PeerClose, connVars,
                    userVars, Members
<1>6. CASE UNCHANGED roomVars
  BY <1>b, <1>6 DEF roomVars, vars, connVars, userVars, Members
<1> QED  BY <1>1, <1>2, <1>3, <1>4, <1>5, <1>6, RoomSteps DEF Ours, Library
(* The mutex admits one sender at a time. *)
LEMMA OneSender ==
    ASSUME RoomInv, NEW w \in Workers, wpc[w] # "loop"
    PROVE  mutex = w /\ mutex # NULL /\ \A v \in Workers : v # w => wpc[v] = "loop"
<1>1. mutex = w /\ \A v \in Workers : wpc[v] # "loop" => mutex = v
  BY DEF RoomInv, Locked
<1>2. w # NULL
  BY ServiceConstants DEF Workers
<1> QED  BY <1>1, <1>2

(* A descriptor is a connection's as long as the connection exists. *)
LEMMA DescriptorStays ==
    ASSUME RoomInv, [RoomNext]_roomVars, NEW c \in Conns, mem[c] # "none"
    PROVE  fd'[c] = fd[c]
<1>1. ASSUME NEW t \in IoThreads, LibraryStep(t)
      PROVE  fd'[c] = fd[c]
  BY <1>1, LifeSteps DEF LibraryStep, RoomInv
<1>2. ASSUME NEW t \in IoThreads, on_connect(t) \/ on_disconnect(t)
      PROVE  fd'[c] = fd[c]
  BY <1>2 DEF on_connect, on_disconnect
<1>3. ASSUME NEW w \in Workers,
             \/ StartTask(w) \/ EndTask(w) \/ LookAt(w) \/ SendCheck(w)
             \/ SendInit(w) \/ SendPush(w)
      PROVE  fd'[c] = fd[c]
  BY <1>3 DEF StartTask, TakeTask, EndTask, FinishTask, LookAt, SendCheck, SendInit,
              SendPush, vars, connVars
<1>4. ASSUME NEW d \in Conns, RoomPeerStep(d)
      PROVE  fd'[c] = fd[c]
  BY <1>4 DEF RoomPeerStep, PeerStep, Connect, PeerSend, PeerClose, connVars
<1>5. CASE UNCHANGED roomVars
  BY <1>5 DEF roomVars, vars, connVars
<1> QED  BY <1>1, <1>2, <1>3, <1>4, <1>5, RoomSteps DEF Ours, Library

(***************************************************************************)
(* A worker has the mutex from LookAt to the end of its send, and what it  *)
(* found in conn_array stays there.                                        *)
(***************************************************************************)
LEMMA NextLocked ==
    ASSUME RoomInv, [RoomNext]_roomVars
    PROVE  Locked'
<1> USE DEF RoomInv
<1>a. \A w \in Workers : w # NULL
  BY ServiceConstants DEF Workers
<1>b. ASSUME NEW v \in Workers, wpc[v] # "loop",
             UNCHANGED <<mutex, whand[v], wconn[v], wleft[v], conn_array>>
      PROVE  /\ mutex' = v /\ whand'[v] # NULL /\ wconn'[v] \in conn_array'
             /\ wleft'[v] # {} /\ fd'[wconn'[v]] = NextIndex(v)'
  <2>1. /\ mutex = v /\ whand[v] # NULL /\ wconn[v] \in conn_array
        /\ wleft[v] # {} /\ fd[wconn[v]] = NextIndex(v)
    BY <1>b DEF Locked
  <2>2. wconn[v] \in Conns /\ mem[wconn[v]] # "none"
    BY <2>1 DEF RoomTypeOK, Members
  <2>3. fd'[wconn[v]] = fd[wconn[v]]
    BY <2>2, DescriptorStays
  <2>4. NextIndex(v)' = NextIndex(v)
    BY <1>b DEF NextIndex
  <2> QED  BY <1>b, <2>1, <2>3, <2>4
<1>c. ASSUME UNCHANGED <<whand, userVars>>
      PROVE  Locked'
  BY <1>b, <1>c DEF Locked, userVars
<1>d. ASSUME NEW w \in Workers, NextRound(w), \A v \in Workers : v # w => wpc[v] = "loop"
      PROVE  Locked'
  <2>1. \A v \in Workers : wpc'[v] = "loop"
    BY <1>d DEF NextRound, RoomTypeOK
  <2> QED  BY <2>1 DEF Locked
<1>1. ASSUME NEW t \in IoThreads, LibraryStep(t)
      PROVE  Locked'
  <2>1. IoStep(t) /\ UNCHANGED userVars
    BY <1>1 DEF LibraryStep
  <2>2. Conns = {} \/ UNCHANGED whand
    BY <2>1, LifeSteps
  <2>3. Conns = {} => Locked'
    BY <2>1 DEF RoomTypeOK, Locked, userVars
  <2> QED  BY <1>c, <2>1, <2>2, <2>3
<1>2. ASSUME NEW w \in Workers, StartTask(w)
      PROVE  Locked'
  <2>1. /\ whand[w] = NULL /\ UNCHANGED <<conn_array, mutex, wpc, wconn>>
        /\ \A v \in Workers : v # w => whand'[v] = whand[v] /\ wleft'[v] = wleft[v]
    BY <1>2 DEF StartTask, TakeTask, TypeInv, TypeOK, MessageTypeOK, RoomTypeOK
  <2>2. wpc[w] = "loop"
    BY <2>1 DEF Locked
  <2> QED  BY <1>b, <2>1, <2>2 DEF Locked
<1>3. ASSUME NEW w \in Workers, EndTask(w)
      PROVE  Locked'
  <2>1. /\ wpc[w] = "loop" /\ UNCHANGED userVars
        /\ \A v \in Workers : v # w => whand'[v] = whand[v]
    BY <1>3 DEF EndTask, FinishTask, TypeInv, TypeOK, MessageTypeOK
  <2> QED  BY <1>b, <2>1 DEF Locked, userVars
<1>4. ASSUME NEW c \in Conns, RoomPeerStep(c)
      PROVE  Locked'
  BY <1>c, <1>4 DEF RoomPeerStep, PeerStep, Connect, PeerSend, PeerClose
<1>5. ASSUME NEW t \in IoThreads, on_connect(t) \/ on_disconnect(t)
      PROVE  Locked'
  BY <1>a, <1>5 DEF on_connect, on_disconnect, Locked
<1>6. ASSUME NEW w \in Workers, LookAt(w)
      PROVE  Locked'
  <2>1. /\ mutex = NULL /\ whand[w] # NULL /\ wleft[w] # {}
        /\ UNCHANGED <<vars, conn_array>>
    BY <1>6 DEF LookAt
  <2>2. \A v \in Workers : wpc[v] = "loop"
    BY <1>a, <2>1 DEF Locked
  <2>3. CASE \E c \in conn_array : fd[c] = NextIndex(w)
    <3> DEFINE d == CHOOSE c \in conn_array : fd[c] = NextIndex(w)
    <3>1. d \in conn_array /\ fd[d] = NextIndex(w)
      BY <2>3
    <3>2. /\ wpc' = [wpc EXCEPT ![w] = "check"] /\ wconn' = [wconn EXCEPT ![w] = d]
          /\ mutex' = w /\ UNCHANGED wleft
      BY <1>6, <2>3 DEF LookAt
    <3> HIDE DEF d
    <3>3. /\ \A v \in Workers : v # w => wpc'[v] = "loop"
          /\ wconn'[w] = d
      BY <2>2, <3>2 DEF RoomTypeOK
    <3>4. NextIndex(w)' = NextIndex(w)
      BY <3>2 DEF NextIndex
    <3>5. fd' = fd /\ whand' = whand
      BY <2>1 DEF vars, connVars
    <3> QED  BY <2>1, <3>1, <3>2, <3>3, <3>4, <3>5 DEF Locked
  <2>4. CASE ~ \E c \in conn_array : fd[c] = NextIndex(w)
    BY <1>d, <1>6, <2>2, <2>4 DEF LookAt
  <2> QED  BY <2>3, <2>4
<1>7. ASSUME NEW w \in Workers, SendCheck(w) \/ SendInit(w)
      PROVE  Locked'
  <2>1. wpc[w] # "loop"
    BY <1>7 DEF SendCheck, SendInit
  <2>2. \A v \in Workers : v # w => wpc[v] = "loop"
    BY <2>1, OneSender
  <2>3. CASE NextRound(w)
    BY <1>d, <2>2, <2>3
  <2>4. CASE ~NextRound(w)
    <3>1. /\ UNCHANGED <<mutex, wconn, wleft, conn_array>> /\ whand' = whand
          /\ \E l : wpc' = [wpc EXCEPT ![w] = l]
      BY <1>7, <2>4 DEF SendCheck, SendInit, vars
    <3>2. \A v \in Workers : v # w => wpc'[v] = "loop"
      BY <2>2, <3>1 DEF RoomTypeOK
    <3> QED  BY <1>b, <2>1, <3>1, <3>2 DEF Locked
  <2> QED  BY <2>3, <2>4
<1>8. ASSUME NEW w \in Workers, SendPush(w)
      PROVE  Locked'
  <2>1. \A v \in Workers : v # w => wpc[v] = "loop"
    BY <1>8, OneSender DEF SendPush
  <2> QED  BY <1>d, <1>8, <2>1 DEF SendPush
<1>9. CASE UNCHANGED roomVars
  BY <1>c, <1>9 DEF roomVars, vars
<1> QED
  BY <1>1, <1>2, <1>3, <1>4, <1>5, <1>6, <1>7, <1>8, <1>9, RoomSteps DEF Ours, Library

(* A connection keeps its IO thread, and in an assembled room nobody       *)
(* speaks before all have one.                                             *)
LEMMA NextAssembly ==
    ASSUME RoomInv, [RoomNext]_roomVars
    PROVE  Assembly'
<1> USE DEF RoomInv
<1>a. ASSUME UNCHANGED nsent,
             \A d \in Conns : io_thread[d] # NULL => io_thread'[d] # NULL
      PROVE  Assembly'
  BY <1>a DEF Assembly
<1>1. ASSUME NEW t \in IoThreads, LibraryStep(t)
      PROVE  Assembly'
  <2>0. t # NULL
    BY ServiceConstants DEF IoThreads
  <2>1. IoStep(t)
    BY <1>1 DEF LibraryStep
  <2>2. CASE Distribute(t) \/ AddConn(t)
    <3>1. /\ UNCHANGED nsent
          /\ UNCHANGED io_thread \/ \E c : io_thread' = [io_thread EXCEPT ![c] = t]
      BY <2>2 DEF Distribute, AddConn, peerVars
    <3> QED  BY <1>a, <2>0, <3>1 DEF TypeInv, TypeOK, ConnTypeOK
  <2>3. CASE ListenEvent(t) \/ SocketEvent(t)
    <3>1. UNCHANGED <<nsent, io_thread>>
      BY <2>3 DEF ListenEvent, Accept, AcceptFails, SocketEvent, ReadRequest,
                  ReadAndClose, WriteEvent, WriteEventFails, peerVars, connVars
    <3> QED  BY <1>a, <3>1
  <2>4. CASE \/ ReturnMessage(t) \/ DropMessage(t) \/ Grow(t) \/ GrowDone(t) \/ NoReply(t)
             \/ ReplyFails(t) \/ DestroyMessage(t) \/ Close(t) \/ \E n : Reply(t, n)
    <3>1. UNCHANGED <<nsent, io_thread>>
      BY <2>4 DEF ReturnMessage, DropMessage, Grow, GrowDone, NoReply, ReplyFails,
                  DestroyMessage, Close, CloseMark, CheckRef, DelConnection, CloseFd,
                  FreeConnection, Reply, peerVars, connVars
    <3> QED  BY <1>a, <3>1
  <2> QED  BY <2>1, <2>2, <2>3, <2>4 DEF IoStep, QueueEvent, HandlerStep
<1>2. ASSUME NEW c \in Conns, RoomPeerStep(c)
      PROVE  Assembly'
  <2>1. /\ io_thread' = io_thread
        /\ Assembled /\ nsent' # nsent => \A d \in Conns : io_thread[d] # NULL
    BY <1>2 DEF RoomPeerStep, PeerStep, Connect, PeerSend, PeerClose, connVars
  <2> QED  BY <1>a, <2>1 DEF Assembly
<1>3. ASSUME NEW t \in IoThreads, on_connect(t) \/ on_disconnect(t)
      PROVE  Assembly'
  BY <1>a, <1>3 DEF on_connect, on_disconnect, peerVars
<1>4. ASSUME NEW w \in Workers,
             \/ StartTask(w) \/ EndTask(w) \/ LookAt(w) \/ SendCheck(w)
             \/ SendInit(w) \/ SendPush(w)
      PROVE  Assembly'
  <2>1. UNCHANGED <<nsent, io_thread>>
    BY <1>4 DEF StartTask, TakeTask, EndTask, FinishTask, LookAt, SendCheck, SendInit,
                SendPush, vars, connVars, peerVars
  <2> QED  BY <1>a, <2>1
<1>5. CASE UNCHANGED roomVars
  BY <1>a, <1>5 DEF roomVars, vars, connVars, peerVars
<1> QED  BY <1>1, <1>2, <1>3, <1>4, <1>5, RoomSteps DEF Ours, Library
(* The steps of an IO thread, by what they do to messages. *)
LEMMA IoMoves ==
    ASSUME RoomInv, NEW t \in IoThreads, LibraryStep(t)
    PROVE  /\ UNCHANGED <<whand, userVars>>
           /\ \/ NoMove
              \/ \E u \in IoThreads, c \in Conns, n \in 1..MaxReq : ReadRequest(u, c, n)
              \/ \E u \in IoThreads : ReturnMessage(u) \/ DropMessage(u)
<1> USE DEF RoomInv
<1>1. IoStep(t) /\ UNCHANGED userVars
  BY DEF LibraryStep
<1>2. [Next]_vars
  BY <1>1 DEF Next
<1>3. whand' = whand
  <2>1. CASE Conns # {}
    BY <1>1, <2>1, LifeSteps
  <2>2. CASE Conns = {}
    <3>1. Messages = {} /\ message_queue[t] \in Seq(Messages) /\ ioc[t] = NULL
      BY <2>2 DEF Messages, TypeInv, TypeOK, QueueTypeOK, IoTypeOK
    <3>2. ~ ListenEvent(t) /\ ~ SocketEvent(t)
      BY <2>2 DEF ListenEvent, SocketEvent
    <3>3. iopc[t] = "poll"
      BY <2>2 DEF TypeInv, HandlersTyped
    <3>4. ~ HandlerStep(t)
      BY <3>3 DEF HandlerStep, Grow, GrowDone, Distribute, Reply, NoReply, ReplyFails,
                  DestroyMessage, Close, CloseMark, CheckRef, DelConnection, CloseFd,
                  FreeConnection
    <3>5. QueueEvent(t)
      BY <1>1, <3>2, <3>4 DEF IoStep
    <3> QED  BY <3>5 DEF QueueEvent, AddConn, ReturnMessage, DropMessage
  <2> QED  BY <2>1, <2>2
<1>4. ASSUME NEW w \in Workers, TakeTask(w) \/ FinishTask(w)
      PROVE  NoMove
  <2>1. CASE TakeTask(w)
    <3>1. Head(task_queue[w]) \in Messages
      BY <2>1, TakeHolds
    <3>2. whand'[w] = Head(task_queue[w]) /\ whand[w] = NULL
      BY <2>1 DEF TakeTask, TypeInv, TypeOK, MessageTypeOK
    <3> QED  BY <1>3, <3>1, <3>2, NullIsNoMessage
  <2>2. CASE FinishTask(w)
    BY <1>3, <2>2 DEF FinishTask, TypeInv, TypeOK, MessageTypeOK
  <2> QED  BY <1>4, <2>1, <2>2
<1> QED  BY <1>1, <1>2, <1>3, <1>4, NoMoveSteps

(* The steps of the room that leave messages where they are. *)
Still ==
    \/ \E t \in IoThreads : on_connect(t) \/ on_disconnect(t)
    \/ \E w \in Workers : LookAt(w) \/ SendCheck(w)
    \/ \E c \in Conns : RoomPeerStep(c)
    \/ UNCHANGED roomVars

LEMMA StillHolds ==
    ASSUME Still
    PROVE  /\ UNCHANGED <<message_queue, task_queue, whand, ioVars, msgs, ndec, fd>>
           /\ \A k, x, o : Holds(k, x, o)' <=> Holds(k, x, o)
<1>1. UNCHANGED <<message_queue, task_queue, whand, ioVars, msgs, ndec, fd>>
  BY DEF Still, on_connect, on_disconnect, LookAt, SendCheck, RoomPeerStep, PeerStep,
         Connect, PeerSend, PeerClose, roomVars, vars, queueVars, streamVars, connVars
<1> QED  BY <1>1 DEF Holds, Carries, ioVars

LEMMA InitHolds ==
    ASSUME NEW w \in Workers, SendInit(w)
    PROVE  /\ UNCHANGED <<message_queue, task_queue, whand, ioVars, ndec, fd>>
           /\ \A k, x, o : Holds(k, x, o)' <=> Holds(k, x, o)
<1>1. UNCHANGED <<message_queue, task_queue, whand, ioVars, ndec, fd>>
  BY DEF SendInit, queueVars, streamVars
<1> QED  BY <1>1 DEF Holds, Carries, ioVars

LEMMA RoomKinds ==
    ASSUME [RoomNext]_roomVars
    PROVE  \/ \E t \in IoThreads : LibraryStep(t)
           \/ \E w \in Workers : StartTask(w)
           \/ \E w \in Workers : EndTask(w)
           \/ \E w \in Workers : SendInit(w)
           \/ \E w \in Workers : SendPush(w)
           \/ Still
  BY RoomSteps DEF Still, Ours, Library

(* Tasks and what workers have in hand are requests; requests differ. *)
LEMMA NextRequests ==
    ASSUME RoomInv, [RoomNext]_roomVars
    PROVE  RequestsOnly' /\ RequestsDistinct'
<1> USE DEF RoomInv
<1>a. ASSUME \A w \in Workers : \A m : Holds("task", w, m)' => Holds("task", w, m),
             \A w \in Workers : \A m : Holds("worker", w, m)' =>
                    Holds("worker", w, m) \/ Holds("task", w, m)
      PROVE  RequestsOnly'
  BY <1>a DEF RequestsOnly
<1>b. ASSUME msgs' \subseteq msgs
      PROVE  RequestsDistinct'
  BY <1>b DEF RequestsDistinct
<1>1. ASSUME NEW t \in IoThreads, LibraryStep(t)
      PROVE  RequestsOnly' /\ RequestsDistinct'
  <2>1. CASE NoMove
    BY <1>a, <1>b, <2>1, NoMoveHolds DEF NoMove
  <2>2. ASSUME NEW u \in IoThreads, NEW c \in Conns, NEW n \in 1..MaxReq,
               ReadRequest(u, c, n)
        PROVE  RequestsOnly' /\ RequestsDistinct'
    <3>1. PICK m \in Messages :
            /\ m.conn = c /\ m.from = c /\ ~ m.sent
            /\ m.lo = ndec[c] + 1 /\ ndec' = [ndec EXCEPT ![c] = m.hi]
            /\ m \notin msgs /\ msgs' = msgs \cup {m}
            /\ \A k \in Kinds, x \in Holders : ~Holds(k, x, m)
            /\ UNCHANGED <<message_queue, whand>>
            /\ \/ /\ NWorkers = 0 /\ UNCHANGED task_queue
                  /\ Goto(u, "reply", c, m, "poll")
               \/ /\ NWorkers # 0 /\ UNCHANGED ioVars
                  /\ task_queue' = [task_queue EXCEPT ![TaskIndex(m)] = Append(@, m)]
      BY <2>2, ReadMoves
    <3>2. \A k, x, o : Holds(k, x, o)' => Holds(k, x, o) \/ o = m
      BY <3>1, ReadHolds
    <3>3. RequestsOnly'
      BY <3>1, <3>2 DEF RequestsOnly
    <3>4. ASSUME NEW o \in msgs, ~ o.sent, o.conn = c
          PROVE  o.lo # m.lo
      <4>1. o \in Messages /\ ndec[c] \in Int
        BY ServiceConstants DEF TypeInv, TypeOK, MessageTypeOK, StreamTypeOK
      <4>2. o.hi <= ndec[c]
        BY <3>4 DEF RequestsDecoded
      <4>3. o.lo <= o.hi /\ o.lo \in Int /\ o.hi \in Int
        BY <4>1 DEF Messages
      <4> QED  BY <3>1, <4>1, <4>2, <4>3
    <3>5. RequestsDistinct'
      BY <3>1, <3>4 DEF RequestsDistinct
    <3> QED  BY <3>3, <3>5
  <2>3. ASSUME NEW u \in IoThreads, ReturnMessage(u) \/ DropMessage(u)
        PROVE  RequestsOnly' /\ RequestsDistinct'
    BY <1>a, <1>b, <2>3, ReturnHolds
  <2> QED  BY <1>1, <2>1, <2>2, <2>3, IoMoves
<1>2. ASSUME NEW w \in Workers, StartTask(w)
      PROVE  RequestsOnly' /\ RequestsDistinct'
  <2>1. TakeTask(w)
    BY <1>2 DEF StartTask
  <2>2. /\ Holds("task", w, Head(task_queue[w])) /\ UNCHANGED msgs
        /\ \A k, x, o : Holds(k, x, o)' =>
                Holds(k, x, o) \/ (k = "worker" /\ x = w /\ o = Head(task_queue[w]))
    BY <2>1, TakeHolds
  <2> QED  BY <1>a, <1>b, <2>2
<1>3. ASSUME NEW w \in Workers, EndTask(w)
      PROVE  RequestsOnly' /\ RequestsDistinct'
  <2>1. FinishTask(w)
    BY <1>3 DEF EndTask
  <2>2. /\ UNCHANGED msgs
        /\ \A k, x, o : Holds(k, x, o)' => Holds(k, x, o) \/ k = "return"
    BY <2>1, FinishHolds
  <2> QED  BY <1>a, <1>b, <2>2
<1>4. ASSUME NEW w \in Workers, SendInit(w)
      PROVE  RequestsOnly' /\ RequestsDistinct'
  <2>1. RequestsOnly'
    BY <1>a, <1>4, InitHolds
  <2>2. msgs' = msgs \cup {Sent(w)} /\ Sent(w).sent
    BY <1>4 DEF SendInit, xv_message_init, Sent
  <2> QED  BY <2>1, <2>2 DEF RequestsDistinct
<1>5. ASSUME NEW w \in Workers, SendPush(w)
      PROVE  RequestsOnly' /\ RequestsDistinct'
  <2>1. \A k, x, o : Holds(k, x, o)' => Holds(k, x, o) \/ k = "return"
    BY <1>5, PushHolds
  <2>2. UNCHANGED msgs
    BY <1>5 DEF SendPush
  <2> QED  BY <1>a, <1>b, <2>1, <2>2
<1>6. CASE Still
  BY <1>a, <1>b, <1>6, StillHolds
<1> QED  BY <1>1, <1>2, <1>3, <1>4, <1>5, <1>6, RoomKinds

(* A message that nobody holds is not destroyed. *)
LEMMA UnheldStays ==
    ASSUME TypeInv, OnePlace, [Next]_vars, NEW m \in msgs,
           \A k \in Kinds, x \in Holders : ~Holds(k, x, m)
    PROVE  m \in msgs'
<1> USE DEF TypeInv, TypeOK
<1>1. ASSUME NEW t \in IoThreads, DropMessage(t)
      PROVE  m \in msgs'
  <2>1. Holds("return", t, Head(message_queue[t]))
    BY <1>1, ReturnHolds
  <2>2. m # Head(message_queue[t])
    BY <2>1 DEF Kinds, Holders
  <2> QED  BY <1>1, <2>2 DEF DropMessage, xv_message_destroy
<1>2. ASSUME NEW t \in IoThreads, DestroyMessage(t)
      PROVE  m \in msgs'
  <2>1. Holds("io", t, iom[t])
    BY <1>2 DEF DestroyMessage, Holds, Carries
  <2>2. m # iom[t]
    BY <2>1 DEF Kinds, Holders
  <2> QED  BY <1>2, <2>2 DEF DestroyMessage, xv_message_destroy
<1>3. ASSUME NEW t \in IoThreads,
             \/ ListenEvent(t) \/ AddConn(t) \/ ReturnMessage(t) \/ SocketEvent(t)
             \/ Grow(t) \/ GrowDone(t) \/ Distribute(t) \/ NoReply(t) \/ ReplyFails(t)
             \/ Close(t) \/ \E n : Reply(t, n)
      PROVE  m \in msgs'
  <2>1. ASSUME NEW c, NEW n, ReadRequest(t, c, n)
        PROVE  m \in msgs'
    BY <2>1 DEF ReadRequest, xv_message_init
  <2>2. CASE \/ ListenEvent(t) \/ AddConn(t) \/ ReturnMessage(t) \/ Grow(t) \/ GrowDone(t)
             \/ Distribute(t)
    BY <2>2 DEF ListenEvent, Accept, AcceptFails, AddConn, ReturnMessage, Grow,
                GrowDone, Distribute
  <2>3. CASE NoReply(t) \/ ReplyFails(t) \/ Close(t) \/ \E n : Reply(t, n)
    BY <2>3 DEF NoReply, ReplyFails, Reply, Close, CloseMark, CheckRef, DelConnection,
                CloseFd, FreeConnection
  <2>4. CASE SocketEvent(t)
    BY <2>1, <2>4 DEF SocketEvent, ReadAndClose, WriteEvent, WriteEventFails
  <2> QED  BY <1>3, <2>2, <2>3, <2>4
<1>4. ASSUME \/ \E w \in Workers : WorkerStep(w)
             \/ \E c \in Conns : PeerStep(c)
             \/ UNCHANGED vars
      PROVE  m \in msgs'
  BY <1>4 DEF WorkerStep, TakeTask, FinishTask, PeerStep, Connect, PeerSend, PeerClose, vars
<1> QED
  BY <1>1, <1>2, <1>3, <1>4 DEF Next, IoStep, QueueEvent, HandlerStep
(***************************************************************************)
(* What a worker has sent to a member for a request it does not send again *)
(* to the member: the for loop has passed the member's descriptor, which   *)
(* no new connection has got.                                              *)
(***************************************************************************)
SentBefore(s, w) ==
    whand[w] # NULL /\ SentFor(s, whand[w]) =>
        fd[s.conn] \notin wleft[w] \/ (wpc[w] = "push" /\ s = Sent(w))

LEMMA NextSentOnce ==
    ASSUME RoomInv, [RoomNext]_roomVars
    PROVE  SentOnce'
<1> USE DEF RoomInv
<1>a. ASSUME NEW s \in msgs, s.sent
      PROVE  /\ s \in Messages /\ s.conn \in Conns /\ s.from \in Conns
             /\ s.lo \in Int /\ s.hi \in Int /\ s.lo <= s.hi
             /\ s.hi <= ndec[s.from]
             /\ \A w \in Workers, m \in Messages : Holds("task", w, m) => ~SentFor(s, m)
             /\ \A w \in Workers : SentBefore(s, w)
             /\ fd'[s.conn] = fd[s.conn]
  <2>1. s \in Messages
    BY DEF TypeInv, TypeOK, MessageTypeOK
  <2>2. s.conn \in Conns /\ s.from \in Conns /\ s.lo \in Int /\ s.hi \in Int /\ s.lo <= s.hi
    BY <2>1 DEF Messages
  <2>3. fd'[s.conn] = fd[s.conn]
    BY <2>2, DescriptorStays DEF MessagesExist
  <2> QED  BY <1>a, <2>1, <2>2, <2>3 DEF SentOnce, SentBefore
<1>b. SUFFICES ASSUME NEW s \in msgs', s.sent
      PROVE  /\ s.hi <= ndec'[s.from]
             /\ \A w \in Workers, m \in Messages : Holds("task", w, m)' => ~SentFor(s, m)
             /\ \A w \in Workers : SentBefore(s, w)'
  BY DEF SentOnce, SentBefore
<1>c. ASSUME NEW w \in Workers, s \in msgs, whand'[w] = whand[w],
             wleft'[w] = wleft[w], wpc'[w] = wpc[w], wconn'[w] = wconn[w]
      PROVE  SentBefore(s, w)'
  BY <1>a, <1>b, <1>c DEF SentBefore, SentFor, Sent
<1>d. ASSUME s \in msgs, UNCHANGED <<whand, userVars>>
      PROVE  \A w \in Workers : SentBefore(s, w)'
  BY <1>c, <1>d DEF userVars
<1>e. ASSUME NEW w \in Workers, s \in msgs, whand' = whand, NextRound(w),
             wpc[w] = "push" => s # Sent(w) \/ fd[s.conn] = NextIndex(w)
      PROVE  \A v \in Workers : SentBefore(s, v)'
  <2>1. /\ wleft'[w] = wleft[w] \ {NextIndex(w)}
        /\ \A v \in Workers : v # w => UNCHANGED <<wleft[v], wpc[v], wconn[v]>>
    BY <1>e DEF NextRound, RoomTypeOK
  <2>2. SentBefore(s, w)'
    BY <1>a, <1>b, <1>e, <2>1 DEF SentBefore, SentFor
  <2> QED  BY <1>c, <1>e, <2>1, <2>2
<1>1. ASSUME NEW t \in IoThreads, LibraryStep(t)
      PROVE  /\ s.hi <= ndec'[s.from]
             /\ \A w \in Workers, m \in Messages : Holds("task", w, m)' => ~SentFor(s, m)
             /\ \A w \in Workers : SentBefore(s, w)'
  <2>0. UNCHANGED <<whand, userVars>>
    BY <1>1, IoMoves
  <2>1. CASE NoMove
    <3>1. s \in msgs /\ ndec' = ndec
      BY <2>1 DEF NoMove
    <3>2. \A w \in Workers, m \in Messages : Holds("task", w, m)' => Holds("task", w, m)
      BY <2>1, NoMoveHolds
    <3> QED  BY <1>a, <1>b, <1>d, <2>0, <3>1, <3>2
  <2>2. ASSUME NEW u \in IoThreads, NEW c \in Conns, NEW n \in 1..MaxReq,
               ReadRequest(u, c, n)
        PROVE  /\ s.hi <= ndec'[s.from]
               /\ \A w \in Workers, m \in Messages : Holds("task", w, m)' => ~SentFor(s, m)
               /\ \A w \in Workers : SentBefore(s, w)'
    <3>1. PICK m \in Messages :
            /\ m.conn = c /\ m.from = c /\ ~ m.sent
            /\ m.lo = ndec[c] + 1 /\ ndec' = [ndec EXCEPT ![c] = m.hi]
            /\ m \notin msgs /\ msgs' = msgs \cup {m}
            /\ \A k \in Kinds, x \in Holders : ~Holds(k, x, m)
            /\ UNCHANGED <<message_queue, whand>>
            /\ \/ /\ NWorkers = 0 /\ UNCHANGED task_queue
                  /\ Goto(u, "reply", c, m, "poll")
               \/ /\ NWorkers # 0 /\ UNCHANGED ioVars
                  /\ task_queue' = [task_queue EXCEPT ![TaskIndex(m)] = Append(@, m)]
      BY <2>2, ReadMoves
    <3>2. \A k, x, o : Holds(k, x, o)' => Holds(k, x, o) \/ o = m
      BY <3>1, ReadHolds
    <3>3. s \in msgs
      BY <1>b, <3>1
    <3>4. ndec \in [Conns -> Int] /\ m.lo \in Int /\ m.hi \in Int /\ m.lo <= m.hi
      BY ServiceConstants DEF TypeInv, TypeOK, StreamTypeOK, Messages
    <3>5. s.hi <= ndec'[s.from]
      BY <1>a, <1>b, <3>1, <3>3, <3>4
    <3>6. ~SentFor(s, m)
      BY <1>a, <1>b, <3>1, <3>3, <3>4 DEF SentFor
    <3> QED  BY <1>a, <1>b, <1>d, <2>0, <3>2, <3>3, <3>5, <3>6
  <2>3. ASSUME NEW u \in IoThreads, ReturnMessage(u) \/ DropMessage(u)
        PROVE  /\ s.hi <= ndec'[s.from]
               /\ \A w \in Workers, m \in Messages : Holds("task", w, m)' => ~SentFor(s, m)
               /\ \A w \in Workers : SentBefore(s, w)'
    <3>1. s \in msgs /\ ndec' = ndec
      BY <2>3, ReturnHolds
    <3>2. \A w \in Workers, m \in Messages : Holds("task", w, m)' => Holds("task", w, m)
      BY <2>3, ReturnHolds
    <3> QED  BY <1>a, <1>b, <1>d, <2>0, <3>1, <3>2
  <2> QED  BY <1>1, <2>1, <2>2, <2>3, IoMoves
<1>2. ASSUME NEW w \in Workers, StartTask(w)
      PROVE  /\ s.hi <= ndec'[s.from]
             /\ \A v \in Workers, m \in Messages : Holds("task", v, m)' => ~SentFor(s, m)
             /\ \A v \in Workers : SentBefore(s, v)'
  <2>1. TakeTask(w)
    BY <1>2 DEF StartTask
  <2>2. /\ Head(task_queue[w]) \in Messages
        /\ Holds("task", w, Head(task_queue[w])) /\ UNCHANGED <<msgs, ndec>>
        /\ \A k, x, o : Holds(k, x, o)' =>
                Holds(k, x, o) \/ (k = "worker" /\ x = w /\ o = Head(task_queue[w]))
    BY <2>1, TakeHolds
  <2>3. /\ whand'[w] = Head(task_queue[w]) /\ UNCHANGED <<wpc, wconn>>
        /\ \A v \in Workers : v # w => whand'[v] = whand[v] /\ wleft'[v] = wleft[v]
    BY <1>2, <2>1 DEF StartTask, TakeTask, TypeInv, TypeOK, MessageTypeOK, RoomTypeOK
  <2>4. SentBefore(s, w)'
    BY <1>a, <1>b, <2>2, <2>3 DEF SentBefore, SentFor
  <2>5. \A v \in Workers : v # w => SentBefore(s, v)'
    BY <1>c, <2>2, <2>3
  <2>6. \A v \in Workers, m \in Messages : Holds("task", v, m)' => Holds("task", v, m)
    BY <2>2
  <2> QED  BY <1>a, <1>b, <2>2, <2>4, <2>5, <2>6
<1>3. ASSUME NEW w \in Workers, EndTask(w)
      PROVE  /\ s.hi <= ndec'[s.from]
             /\ \A v \in Workers, m \in Messages : Holds("task", v, m)' => ~SentFor(s, m)
             /\ \A v \in Workers : SentBefore(s, v)'
  <2>1. FinishTask(w) /\ UNCHANGED userVars
    BY <1>3 DEF EndTask
  <2>2. /\ UNCHANGED <<msgs, ndec>>
        /\ \A k, x, o : Holds(k, x, o)' => Holds(k, x, o) \/ k = "return"
    BY <2>1, FinishHolds
  <2>3. whand'[w] = NULL /\ \A v \in Workers : v # w => whand'[v] = whand[v]
    BY <2>1 DEF FinishTask, TypeInv, TypeOK, MessageTypeOK
  <2>4. SentBefore(s, w)'
    BY <2>3 DEF SentBefore
  <2>5. \A v \in Workers : v # w => SentBefore(s, v)'
    BY <1>c, <2>1, <2>2, <2>3 DEF userVars
  <2> QED  BY <1>a, <1>b, <2>2, <2>4, <2>5
<1>4. ASSUME NEW w \in Workers, SendInit(w)
      PROVE  /\ s.hi <= ndec'[s.from]
             /\ \A v \in Workers, m \in Messages : Holds("task", v, m)' => ~SentFor(s, m)
             /\ \A v \in Workers : SentBefore(s, v)'
  <2>1. /\ wpc[w] = "init" /\ msgs' = msgs \cup {Sent(w)}
        /\ wpc' = [wpc EXCEPT ![w] = "push"] /\ UNCHANGED <<wleft, wconn, ndec, whand, fd>>
    BY <1>4, InitHolds DEF SendInit, xv_message_init
  <2>2. wpc'[w] = "push" /\ \A v \in Workers : v # w => wpc'[v] = wpc[v]
    BY <2>1 DEF RoomTypeOK
  <2>3. \A v \in Workers, m \in Messages : Holds("task", v, m)' <=> Holds("task", v, m)
    BY <1>4, InitHolds
  <2>4. CASE s \in msgs
    <3>1. SentBefore(s, w)'
      BY <1>a, <1>b, <2>1, <2>4 DEF SentBefore, SentFor
    <3>2. \A v \in Workers : v # w => SentBefore(s, v)'
      BY <1>c, <2>1, <2>2, <2>4
    <3> QED  BY <1>a, <1>b, <2>1, <2>3, <2>4, <3>1, <3>2
  <2>5. CASE s = Sent(w)
    <3>1. /\ whand[w] \in Messages /\ ~ whand[w].sent /\ whand[w] \in msgs
          /\ Holds("worker", w, whand[w])
          /\ s.from = whand[w].conn /\ s.lo = whand[w].lo /\ s.hi = whand[w].hi
      BY <2>1, <2>5, SentIsMessage
    <3>2. ASSUME NEW k \in {"task", "worker"}, NEW v \in Workers, NEW m \in Messages,
                 Holds(k, v, m), SentFor(s, m)
          PROVE  k = "worker" /\ v = w
      <4>1. m \in msgs /\ ~ m.sent /\ v \in Holders /\ k \in Kinds /\ w \in Holders
        BY <3>2 DEF OnePlace, OneHolder, RequestsOnly, Kinds, Holders
      <4>2. m = whand[w]
        BY <3>1, <3>2, <4>1 DEF RequestsDistinct, SentFor
      <4>3. "worker" \in Kinds
        BY DEF Kinds
      <4> QED  BY <3>1, <3>2, <4>1, <4>2, <4>3 DEF OnePlace, OneHolder
    <3>3. s.hi <= ndec[s.from]
      BY <3>1 DEF RequestsDecoded
    <3>4. ASSUME NEW v \in Workers
          PROVE  SentBefore(s, v)'
      <4>1. SUFFICES ASSUME whand[v] # NULL, SentFor(s, whand[v])
                     PROVE  wpc'[v] = "push" /\ s = Sent(v)'
        BY <2>1 DEF SentBefore, SentFor
      <4>2. whand[v] \in Messages /\ Holds("worker", v, whand[v])
        BY <4>1 DEF Holds, TypeInv, TypeOK, MessageTypeOK
      <4>3. v = w
        BY <3>2, <4>1, <4>2
      <4> QED  BY <2>1, <2>2, <2>5, <4>3 DEF Sent
    <3> QED  BY <2>1, <2>3, <3>2, <3>3, <3>4
  <2> QED  BY <1>b, <2>1, <2>4, <2>5
<1>5. ASSUME NEW w \in Workers, SendPush(w)
      PROVE  /\ s.hi <= ndec'[s.from]
             /\ \A v \in Workers, m \in Messages : Holds("task", v, m)' => ~SentFor(s, m)
             /\ \A v \in Workers : SentBefore(s, v)'
  <2>1. UNCHANGED <<msgs, ndec, whand>> /\ NextRound(w) /\ wpc[w] = "push"
    BY <1>5 DEF SendPush, streamVars
  <2>2. \A k, x, o : Holds(k, x, o)' => Holds(k, x, o) \/ k = "return"
    BY <1>5, PushHolds
  <2>3. s = Sent(w) => fd[s.conn] = NextIndex(w)
    BY <2>1, SentIsMessage
  <2> QED  BY <1>a, <1>b, <1>e, <2>1, <2>2, <2>3
<1>6. ASSUME Still
      PROVE  /\ s.hi <= ndec'[s.from]
             /\ \A v \in Workers, m \in Messages : Holds("task", v, m)' => ~SentFor(s, m)
             /\ \A v \in Workers : SentBefore(s, v)'
  <2>1. /\ UNCHANGED <<msgs, ndec, whand, fd>>
        /\ \A k, x, o : Holds(k, x, o)' <=> Holds(k, x, o)
    BY <1>6, StillHolds
  <2>2. ASSUME NEW v \in Workers
        PROVE  SentBefore(s, v)'
    <3>1. ASSUME NEW w \in Workers, LookAt(w) \/ SendCheck(w)
          PROVE  SentBefore(s, v)'
      <4>1. wpc[w] # "push"
        BY <3>1 DEF LookAt, SendCheck
      <4>2. CASE NextRound(w)
        BY <1>b, <1>e, <2>1, <4>1, <4>2
      <4>3. CASE ~NextRound(w)
        <5>1. /\ UNCHANGED wleft
              /\ \A u \in Workers : u # w => UNCHANGED <<wpc[u], wconn[u]>>
          BY <3>1, <4>3 DEF LookAt, SendCheck, RoomTypeOK
        <5>2. CASE v = w
          BY <1>a, <1>b, <2>1, <4>1, <5>1, <5>2 DEF SentBefore, SentFor
        <5>3. CASE v # w
          BY <1>b, <1>c, <2>1, <5>1, <5>3
        <5> QED  BY <5>2, <5>3
      <4> QED  BY <4>2, <4>3
    <3>2. ASSUME UNCHANGED <<mutex, wpc, wleft, wconn>>
          PROVE  SentBefore(s, v)'
      BY <1>b, <1>c, <2>1, <3>2
    <3> QED  BY <1>6, <3>1, <3>2 DEF Still, on_connect, on_disconnect, RoomPeerStep,
                                     roomVars, userVars
  <2> QED  BY <1>a, <1>b, <2>1, <2>2
<1> QED  BY <1>1, <1>2, <1>3, <1>4, <1>5, <1>6, RoomKinds
(* Nobody finds, and nobody destroys, a message that is not pushed yet. *)
LEMMA NextOnTheStack ==
    ASSUME RoomInv, [RoomNext]_roomVars
    PROVE  OnTheStack'
<1> USE DEF RoomInv
<1>a. ASSUME NEW w \in Workers, wpc[w] = "push",
             UNCHANGED <<wconn[w], whand[w]>>,
             Sent(w) \in msgs',
             \A s : s = Sent(w) => \A k \in Kinds, x \in Holders :
                    Holds(k, x, s)' => Holds(k, x, s)
      PROVE  (Sent(w) \in msgs /\ \A k \in Kinds, x \in Holders : ~Holds(k, x, Sent(w)))'
  <2>1. Sent(w)' = Sent(w)
    BY <1>a DEF Sent
  <2>2. PICK s : s = Sent(w)
    OBVIOUS
  <2>3. \A k \in Kinds, x \in Holders : ~Holds(k, x, s)'
    BY <1>a, <2>2 DEF OnTheStack
  <2>4. \A k \in Kinds, x \in Holders : ~Holds(k, x, Sent(w))'
    BY <2>1, <2>2, <2>3
  <2> QED  BY <1>a, <2>1, <2>4
<1>b. ASSUME NEW w \in Workers, wpc[w] = "push"
      PROVE  /\ Sent(w) \in msgs /\ Sent(w) \in Messages
             /\ \A k \in Kinds, x \in Holders : ~Holds(k, x, Sent(w))
  BY <1>b, SentIsMessage DEF OnTheStack
<1>c. ASSUME NEW w \in Workers, wpc[w] = "push", [Next]_vars
      PROVE  Sent(w) \in msgs'
  BY <1>b, <1>c, UnheldStays
<1>1. ASSUME NEW t \in IoThreads, LibraryStep(t)
      PROVE  OnTheStack'
  <2>0. UNCHANGED <<whand, userVars>> /\ [Next]_vars
    BY <1>1, IoMoves DEF LibraryStep, Next
  <2>1. ASSUME NEW w \in Workers, wpc[w] = "push", NEW s, s = Sent(w),
               NEW k \in Kinds, NEW x \in Holders, Holds(k, x, s)'
        PROVE  Holds(k, x, s)
    <3>1. CASE NoMove
      BY <2>1, <3>1, NoMoveHolds
    <3>2. ASSUME NEW u \in IoThreads, NEW c \in Conns, NEW n \in 1..MaxReq,
                 ReadRequest(u, c, n)
          PROVE  Holds(k, x, s)
      <4>1. PICK m \in Messages :
            /\ m \notin msgs
            /\ UNCHANGED <<message_queue, whand>>
            /\ \/ /\ NWorkers = 0 /\ UNCHANGED task_queue
                  /\ Goto(u, "reply", c, m, "poll")
               \/ /\ NWorkers # 0 /\ UNCHANGED ioVars
                  /\ task_queue' = [task_queue EXCEPT ![TaskIndex(m)] = Append(@, m)]
        BY <3>2, ReadMoves
      <4>2. s # m
        BY <1>b, <2>1, <4>1
      <4>3. \A o : Holds(k, x, o)' => Holds(k, x, o) \/ o = m
        BY <4>1, ReadHolds
      <4> QED  BY <2>1, <4>2, <4>3
    <3>3. ASSUME NEW u \in IoThreads, ReturnMessage(u) \/ DropMessage(u)
          PROVE  Holds(k, x, s)
      <4>1. /\ Holds("return", u, Head(message_queue[u]))
            /\ \A o : Holds(k, x, o)' => Holds(k, x, o) \/ o = Head(message_queue[u])
        BY <3>3, ReturnHolds
      <4>2. s # Head(message_queue[u])
        BY <1>b, <2>1, <4>1 DEF Kinds, Holders
      <4> QED  BY <2>1, <4>1, <4>2
    <3> QED  BY <1>1, <3>1, <3>2, <3>3, IoMoves
  <2>2. \A w \in Workers : wpc'[w] = wpc[w] /\ wconn'[w] = wconn[w] /\ whand'[w] = whand[w]
    BY <2>0 DEF userVars
  <2> QED  BY <1>a, <1>c, <2>0, <2>1, <2>2 DEF OnTheStack
<1>2. ASSUME NEW w \in Workers, StartTask(w)
      PROVE  OnTheStack'
  <2>1. TakeTask(w) /\ UNCHANGED <<wpc, wconn>>
    BY <1>2 DEF StartTask
  <2>2. /\ Holds("task", w, Head(task_queue[w])) /\ UNCHANGED msgs
        /\ \A k, x, o : Holds(k, x, o)' => Holds(k, x, o) \/ o = Head(task_queue[w])
    BY <2>1, TakeHolds
  <2>3. whand[w] = NULL /\ \A v \in Workers : v # w => whand'[v] = whand[v]
    BY <2>1 DEF TakeTask, TypeInv, TypeOK, MessageTypeOK
  <2>4. wpc[w] = "loop"
    BY <2>3 DEF Locked
  <2>5. ASSUME NEW v \in Workers, wpc[v] = "push"
        PROVE  Sent(v) # Head(task_queue[w])
    BY <1>b, <2>2, <2>5 DEF Kinds, Holders
  <2> QED  BY <1>a, <1>b, <2>1, <2>2, <2>3, <2>4, <2>5 DEF OnTheStack
<1>3. ASSUME NEW w \in Workers, EndTask(w)
      PROVE  OnTheStack'
  <2>1. FinishTask(w) /\ UNCHANGED userVars /\ wpc[w] = "loop"
    BY <1>3 DEF EndTask
  <2>2. /\ Holds("worker", w, whand[w]) /\ UNCHANGED msgs
        /\ \A k, x, o : Holds(k, x, o)' => Holds(k, x, o) \/ o = whand[w]
    BY <2>1, FinishHolds
  <2>3. \A v \in Workers : v # w => whand'[v] = whand[v]
    BY <2>1 DEF FinishTask, TypeInv, TypeOK, MessageTypeOK
  <2>4. ASSUME NEW v \in Workers, wpc[v] = "push"
        PROVE  Sent(v) # whand[w]
    BY <1>b, <2>2, <2>4 DEF Kinds, Holders
  <2> QED  BY <1>a, <1>b, <2>1, <2>2, <2>3, <2>4 DEF OnTheStack, userVars
<1>4. ASSUME NEW w \in Workers, SendInit(w)
      PROVE  OnTheStack'
  <2>1. /\ wpc[w] = "init" /\ msgs' = msgs \cup {Sent(w)} /\ UNCHANGED <<whand, wconn>>
        /\ wpc' = [wpc EXCEPT ![w] = "push"]
    BY <1>4 DEF SendInit, xv_message_init
  <2>2. \A v \in Workers : v # w => wpc'[v] = "loop"
    BY <2>1, OneSender DEF RoomTypeOK
  <2>3. Sent(w)' = Sent(w)
    BY <2>1 DEF Sent
  <2>4. \A k \in Kinds, x \in Holders : ~Holds(k, x, Sent(w))
    BY <2>1, SentIsNew
  <2>5. \A k \in Kinds, x \in Holders : (~Holds(k, x, Sent(w)))'
    BY <1>4, <2>3, <2>4, InitHolds
  <2> QED  BY <2>1, <2>2, <2>3, <2>5 DEF OnTheStack
<1>5. ASSUME NEW w \in Workers, SendPush(w)
      PROVE  OnTheStack'
  <2>1. wpc[w] = "push" /\ wpc' = [wpc EXCEPT ![w] = "loop"]
    BY <1>5 DEF SendPush, NextRound
  <2>2. \A v \in Workers : wpc'[v] = "loop"
    BY <2>1, OneSender DEF RoomTypeOK
  <2> QED  BY <2>2 DEF OnTheStack
<1>6. CASE Still
  <2>1. /\ UNCHANGED <<whand, msgs>>
        /\ \A k, x, o : Holds(k, x, o)' <=> Holds(k, x, o)
    BY <1>6, StillHolds
  <2>2. ASSUME NEW w \in Workers, wpc'[w] = "push"
        PROVE  wpc[w] = "push" /\ UNCHANGED wconn[w]
    <3>1. ASSUME NEW v \in Workers, LookAt(v)
          PROVE  FALSE
      <4>1. mutex = NULL /\ \E l \in {"loop", "check"} : wpc' = [wpc EXCEPT ![v] = l]
        BY <3>1 DEF LookAt, NextRound
      <4>2. wpc[w] = "loop"
        BY <4>1, OneSender
      <4> QED  BY <2>2, <4>1, <4>2 DEF RoomTypeOK
    <3>2. ASSUME NEW v \in Workers, SendCheck(v)
          PROVE  FALSE
      <4>1. wpc[v] = "check" /\ \E l \in {"loop", "init"} : wpc' = [wpc EXCEPT ![v] = l]
        BY <3>2 DEF SendCheck, NextRound
      <4>2. w # v => wpc[w] = "loop"
        BY <4>1, OneSender
      <4> QED  BY <2>2, <4>1, <4>2 DEF RoomTypeOK
    <3> QED  BY <1>6, <2>2, <3>1, <3>2 DEF Still, on_connect, on_disconnect,
                                           RoomPeerStep, roomVars, userVars
  <2> QED  BY <1>a, <1>b, <2>1, <2>2 DEF OnTheStack
<1> QED  BY <1>1, <1>2, <1>3, <1>4, <1>5, <1>6, RoomKinds

(* A connection comes into being by Accept, and a thread that has to grow  *)
(* the table does that first.                                              *)
LEMMA NewIsAccepted ==
    ASSUME TypeInv, OneWay, OwnerHandles, NEW t \in IoThreads, IoStep(t),
           NEW c \in Conns, mem[c] = "none", mem'[c] # "none"
    PROVE  Accept(t, c)
<1> USE DEF TypeInv, TypeOK
<1>1. ASSUME NEW d \in Conns, Accept(t, d)
      PROVE  Accept(t, c)
  <2>1. mem' = [mem EXCEPT ![d] = "live"]
    BY <1>1 DEF Accept, xv_connection_init
  <2>2. c = d
    BY <2>1 DEF ConnTypeOK
  <2> QED  BY <1>1, <2>2
<1>2. CASE DropMessage(t)
  <2> DEFINE m == Head(message_queue[t])
  <2>1. /\ mem' = [mem EXCEPT ![m.conn] = "freed"]
        /\ message_queue[t] \in Seq(Messages) /\ message_queue[t] # << >>
    BY <1>2 DEF DropMessage, xv_connection_destroy, QueueTypeOK
  <2>2. m \in Messages /\ Queued(message_queue[t], m)
    BY <2>1, QueuedTail, HeadTailProperties
  <2>3. io_thread[m.conn] = t /\ m.conn \in Conns
    BY <2>2 DEF OwnerHandles, Messages
  <2>4. mem[m.conn] # "none"
    BY <2>3, ServiceConstants DEF OneWay, IoThreads
  <2> QED  BY <2>1, <2>4 DEF ConnTypeOK
<1>3. CASE FreeConnection(t)
  <2>1. mem' = [mem EXCEPT ![ioc[t]] = "freed"] /\ iopc[t] = "free"
    BY <1>3 DEF FreeConnection, xv_connection_destroy
  <2>2. io_thread[ioc[t]] = t /\ ioc[t] \in Conns
    BY <2>1 DEF OwnerHandles, HandlesOwn, Handling, HandlersTyped
  <2>3. mem[ioc[t]] # "none"
    BY <2>2, ServiceConstants DEF OneWay, IoThreads
  <2> QED  BY <2>1, <2>3 DEF ConnTypeOK
<1>4. CASE AcceptFails(t, c) \/ AddConn(t) \/ ReturnMessage(t) \/ SocketEvent(t)
  BY <1>4 DEF AcceptFails, AddConn, ReturnMessage, SocketEvent, ReadRequest,
              ReadAndClose, WriteEvent, WriteEventFails, connVars
<1>5. CASE \/ Grow(t) \/ GrowDone(t) \/ Distribute(t) \/ NoReply(t) \/ ReplyFails(t)
           \/ DestroyMessage(t) \/ \E n : Reply(t, n)
  BY <1>5 DEF Grow, GrowDone, Distribute, NoReply, ReplyFails, DestroyMessage, Reply,
              connVars
<1>6. CASE CloseMark(t) \/ CheckRef(t) \/ DelConnection(t) \/ CloseFd(t)
  BY <1>6 DEF CloseMark, CheckRef, DelConnection, CloseFd, connVars
<1>7. ASSUME NEW d \in Conns, AcceptFails(t, d)
      PROVE  Accept(t, c)
  BY <1>7 DEF AcceptFails, connVars
<1> QED  BY <1>1, <1>2, <1>3, <1>4, <1>5, <1>6, <1>7
         DEF IoStep, ListenEvent, QueueEvent, HandlerStep, Close

LEMMA GrowStep ==
    ASSUME NEW t \in IoThreads, IoStep(t), iopc[t] = "grow"
    PROVE  Grow(t) \/ GrowDone(t)
  BY DEF IoStep, ListenEvent, QueueEvent, SocketEvent, HandlerStep, Close, Accept,
         AcceptFails, AddConn, ReturnMessage, DropMessage, ReadRequest, ReadAndClose,
         WriteEvent, WriteEventFails, Readable, Writeable, Distribute, Reply, NoReply,
         ReplyFails, DestroyMessage, CloseMark, CheckRef, DelConnection, CloseFd,
         FreeConnection

(* A descriptor is its connection's in the room as in the service: a send  *)
(* adds a message only to a member, and members are not being released.    *)
LEMMA NextRoomDescriptors ==
    ASSUME RoomInv, [RoomNext]_roomVars
    PROVE  DescriptorsOwned'
<1> USE DEF RoomInv
<1>1. CASE Ours
  <2>1. [Next]_vars
    BY <1>1, OursIsNext
  <2>2. PICK e : e = MemberRefs
    OBVIOUS
  <2>3. e \in [Conns -> Nat] /\ RefsAre(e)
    BY <2>2 DEF MemberRefs
  <2> QED  BY <2>1, <2>3, NextDescriptors
<1>2. ASSUME UNCHANGED <<fd, fdOwner, status, mem, msgs, ioVars>>
      PROVE  DescriptorsOwned'
  BY <1>2 DEF DescriptorsOwned, ReleasesOwn, OwnsFd, MessagesOf, ioVars
<1>3. CASE \/ \E t \in IoThreads : on_connect(t) \/ on_disconnect(t)
           \/ \E w \in Workers : LookAt(w) \/ SendCheck(w) \/ SendPush(w)
           \/ UNCHANGED roomVars
  BY <1>2, <1>3 DEF on_connect, on_disconnect, LookAt, SendCheck, SendPush, roomVars,
                    vars, connVars
<1>4. ASSUME NEW w \in Workers, SendInit(w)
      PROVE  DescriptorsOwned'
  <2>1. /\ UNCHANGED <<fd, fdOwner, status, mem, ioVars>>
        /\ msgs' = msgs \cup {Sent(w)} /\ wpc[w] = "init"
    BY <1>4 DEF SendInit, xv_message_init
  <2>2. Sent(w).conn \in Conns /\ Sent(w).conn \in conn_array
    BY <2>1, SentIsMessage
  <2>3. ASSUME NEW t \in IoThreads, iopc[t] \in {"del", "closefd", "free"}
        PROVE  MessagesOf(ioc[t])' = {}
    <3>1. MessagesOf(ioc[t]) = {}
      BY <2>3 DEF DescriptorsOwned, ReleasesOwn
    <3>2. io_thread[ioc[t]] = t /\ status[ioc[t]] = "CLOSED"
      BY <2>3 DEF OwnerHandles, HandlesOwn, Handling
    <3>3. ~ Leaving(ioc[t])
      <4> SUFFICES ASSUME NEW u \in IoThreads, iopc[u] = "checkref", ioc[u] = ioc[t]
                   PROVE  FALSE
        BY DEF Leaving
      <4>1. io_thread[ioc[u]] = u
        BY DEF OwnerHandles, HandlesOwn, Handling
      <4> QED  BY <2>3, <3>2, <4>1
    <3>4. ioc[t] \notin conn_array
      BY <3>2, <3>3 DEF Members
    <3> QED  BY <2>1, <2>2, <3>1, <3>4 DEF MessagesOf, ioVars
  <2>4. \A t \in IoThreads : ReleasesOwn(t)'
    BY <2>1, <2>3 DEF DescriptorsOwned, ReleasesOwn, OwnsFd, ioVars
  <2> QED  BY <2>1, <2>4 DEF DescriptorsOwned, OwnsFd
<1> QED  BY <1>1, <1>3, <1>4, RoomSteps

(* Who has passed on_connect is in conn_array until it is closed. *)
LEMMA NextPresent ==
    ASSUME RoomInv, [RoomNext]_roomVars
    PROVE  Present'
<1> USE DEF RoomInv
<1>a. ASSUME UNCHANGED <<mem, status, iopc, ioc>>, conn_array \subseteq conn_array'
      PROVE  Present'
  BY <1>a DEF Present, Adding
<1>1. ASSUME NEW t \in IoThreads, LibraryStep(t)
      PROVE  Present'
  <2>1. IoStep(t) /\ Connected(t) /\ UNCHANGED conn_array
    BY <1>1 DEF LibraryStep, userVars
  <2> SUFFICES ASSUME NEW c \in Conns, mem'[c] # "none", status'[c] = "OPEN"
               PROVE  c \in conn_array \/ \E u \in IoThreads : Adding(u)' /\ ioc'[u] = c
    BY <2>1 DEF Present
  <2>2. CASE mem[c] = "none"
    <3>1. Accept(t, c)
      BY <2>1, <2>2, NewIsAccepted
    <3>2. iopc'[t] \in {"grow", "accepted"} /\ ioc'[t] = c
      BY <3>1 DEF Accept, Goto, TypeInv, TypeOK, IoTypeOK
    <3> QED  BY <3>2 DEF Adding
  <2>3. CASE mem[c] # "none"
    <3>1. status[c] = "OPEN"
      BY <2>1, LifeSteps DEF OwnerHandles, HandlesOwn
    <3>2. ASSUME NEW u \in IoThreads, Adding(u), ioc[u] = c, c \notin conn_array
          PROVE  Adding(u)' /\ ioc'[u] = c
      <4>1. CASE u # t
        BY <2>1, <3>2, <4>1, ThreadsApart DEF Adding
      <4>2. CASE u = t
        <5>1. iopc[t] = "grow"
          BY <2>1, <3>2, <4>2 DEF Connected, Adding
        <5>2. Grow(t) \/ GrowDone(t)
          BY <2>1, <5>1, GrowStep
        <5> QED  BY <3>2, <4>2, <5>1, <5>2
                 DEF Grow, GrowDone, Goto, Adding, ioVars, TypeInv, TypeOK, IoTypeOK
      <4> QED  BY <4>1, <4>2
    <3> QED  BY <2>3, <3>1, <3>2 DEF Present
  <2> QED  BY <2>2, <2>3
<1>2. ASSUME NEW t \in IoThreads, on_connect(t)
      PROVE  Present'
  BY <1>a, <1>2 DEF on_connect, ioVars
<1>3. ASSUME NEW t \in IoThreads, on_disconnect(t)
      PROVE  Present'
  <2>1. /\ UNCHANGED <<mem, status, iopc, ioc>> /\ iopc[t] = "checkref"
        /\ conn_array' = conn_array \ {ioc[t]}
    BY <1>3 DEF on_disconnect, ioVars
  <2>2. status[ioc[t]] = "CLOSED"
    BY <2>1 DEF OwnerHandles, HandlesOwn
  <2> QED  BY <2>1, <2>2 DEF Present, Adding
<1>4. ASSUME NEW w \in Workers,
             \/ StartTask(w) \/ EndTask(w) \/ LookAt(w) \/ SendCheck(w)
             \/ SendInit(w) \/ SendPush(w)
      PROVE  Present'
  <2>1. UNCHANGED <<mem, status, iopc, ioc, conn_array>>
    BY <1>4 DEF StartTask, TakeTask, EndTask, FinishTask, LookAt, SendCheck, SendInit,
                SendPush, vars, connVars, ioVars, userVars
  <2> QED  BY <1>a, <2>1
<1>5. ASSUME NEW c \in Conns, RoomPeerStep(c)
      PROVE  Present'
  <2>1. UNCHANGED <<mem, status, iopc, ioc, conn_array>>
    BY <1>5 DEF RoomPeerStep, PeerStep, Connect, PeerSend, PeerClose, connVars, ioVars,
                userVars
  <2> QED  BY <1>a, <2>1
<1>6. CASE UNCHANGED roomVars
  BY <1>a, <1>6 DEF roomVars, vars, connVars, ioVars, userVars
<1> QED  BY <1>1, <1>2, <1>3, <1>4, <1>5, <1>6, RoomSteps DEF Ours, Library

(* One worker gets all tasks: the hashcode of process_read_buffer. *)
LEMMA NextOneTaker ==
    ASSUME RoomInv, [RoomNext]_roomVars
    PROVE  OneTaker'
<1> USE DEF RoomInv
<1>a. \A m, n : TaskIndex(m) = TaskIndex(n) /\ TaskIndex(m)' = TaskIndex(m)
  BY DEF TaskIndex
<1>b. ASSUME \A k, x, o : Holds(k, x, o)' /\ k \in {"task", "worker"} =>
                Holds(k, x, o) \/ x = TaskIndex(o)
      PROVE  OneTaker'
  BY <1>a, <1>b DEF OneTaker
<1>1. ASSUME NEW t \in IoThreads, LibraryStep(t)
      PROVE  OneTaker'
  <2>1. CASE NoMove
    BY <1>b, <2>1, NoMoveHolds
  <2>2. ASSUME NEW u \in IoThreads, NEW c \in Conns, NEW n \in 1..MaxReq,
               ReadRequest(u, c, n)
        PROVE  OneTaker'
    <3>1. PICK m \in Messages :
            /\ UNCHANGED <<message_queue, whand>>
            /\ \/ /\ NWorkers = 0 /\ UNCHANGED task_queue
                  /\ Goto(u, "reply", c, m, "poll")
               \/ /\ NWorkers # 0 /\ UNCHANGED ioVars
                  /\ task_queue' = [task_queue EXCEPT ![TaskIndex(m)] = Append(@, m)]
      BY <2>2, ReadMoves
    <3>2. ASSUME NEW k, NEW x, NEW o, Holds(k, x, o)', k \in {"task", "worker"}
          PROVE  Holds(k, x, o) \/ x = TaskIndex(o)
      BY <1>a, <3>1, <3>2, ReadHolds
    <3> QED  BY <1>b, <3>2
  <2>3. ASSUME NEW u \in IoThreads, ReturnMessage(u) \/ DropMessage(u)
        PROVE  OneTaker'
    BY <1>b, <2>3, ReturnHolds
  <2> QED  BY <1>1, <2>1, <2>2, <2>3, IoMoves
<1>2. ASSUME NEW w \in Workers, StartTask(w)
      PROVE  OneTaker'
  <2>1. TakeTask(w)
    BY <1>2 DEF StartTask
  <2>2. w = TaskIndex(Head(task_queue[w]))
    BY <2>1, TakeHolds DEF OneTaker
  <2> QED  BY <1>a, <1>b, <2>1, <2>2, TakeHolds
<1>3. ASSUME NEW w \in Workers, EndTask(w)
      PROVE  OneTaker'
  <2>1. FinishTask(w)
    BY <1>3 DEF EndTask
  <2> QED  BY <1>b, <2>1, FinishHolds
<1>4. ASSUME NEW w \in Workers, SendInit(w)
      PROVE  OneTaker'
  BY <1>b, <1>4, InitHolds
<1>5. ASSUME NEW w \in Workers, SendPush(w)
      PROVE  OneTaker'
  BY <1>b, <1>5, PushHolds
<1>6. CASE Still
  BY <1>b, <1>6, StillHolds
<1> QED  BY <1>1, <1>2, <1>3, <1>4, <1>5, <1>6, RoomKinds

LEMMA RoomInitInv == RoomInit => RoomInv
<1> SUFFICES ASSUME RoomInit PROVE RoomInv
  OBVIOUS
<1>0. Init
  BY DEF RoomInit
<1>1. CoreInv
  BY <1>0, InitService
<1>2. /\ TypeInv /\ OneWay /\ OwnerHandles /\ OnePlace /\ RequestsDecoded
      /\ DescriptorsOwned
  BY <1>1 DEF CoreInv
<1>3. msgs = {} /\ conn_array = {} /\ \A c \in Conns : nsent[c] = 0
  BY <1>0 DEF RoomInit, Init
<1>4. RefsAre(MemberRefs) /\ MessagesExist
  <2>1. \A c \in Conns : MessagesOf(c) = {}
    BY <1>3 DEF MessagesOf
  <2>2. Cardinality({}) = 0
    BY FS_EmptySet
  <2>3. RefExact
    BY <1>1 DEF CoreInv
  <2> QED  BY <1>3, <2>1, <2>2, <2>3 DEF RefsAre, RefExact, MemberRefs, MessagesExist
<1>5. RoomTypeOK /\ Members /\ Locked
  BY <1>0 DEF RoomInit, Init, RoomTypeOK, Members, Locked, Adding
<1>6. \A w \in Workers : task_queue[w] = << >> /\ whand[w] = NULL
  BY <1>0 DEF Init
<1>7. RequestsOnly /\ RequestsDistinct /\ SentOnce /\ OnTheStack /\ OneTaker
  BY <1>3, <1>6 DEF RoomInit, RequestsOnly, RequestsDistinct, SentOnce, OnTheStack, Holds,
                    Queued, OneTaker
<1>8. Assembly /\ Present
  BY <1>0, <1>3 DEF Init, Assembly, Present
<1> QED  BY <1>2, <1>4, <1>5, <1>7, <1>8 DEF RoomInv

LEMMA RoomNextInv == RoomInv /\ [RoomNext]_roomVars => RoomInv'
<1> SUFFICES ASSUME RoomInv, [RoomNext]_roomVars PROVE RoomInv'
  OBVIOUS
<1>1. ServiceParts'
  <2>1. CASE Ours
    BY <2>1, OursServiceParts
  <2>2. CASE \E t \in IoThreads : on_connect(t) \/ on_disconnect(t)
    BY <2>2, CallbackServiceParts
  <2>3. CASE \E w \in Workers : SendInit(w)
    BY <2>3, InitServiceParts
  <2>4. CASE \E w \in Workers : SendPush(w)
    BY <2>4, PushServiceParts
  <2>5. CASE (\E w \in Workers : LookAt(w) \/ SendCheck(w)) \/ UNCHANGED roomVars
    <3>1. UNCHANGED <<vars, conn_array>>
      BY <2>5 DEF LookAt, SendCheck, roomVars, userVars
    <3> QED  BY <3>1, SameServiceParts
  <2> QED  BY <2>1, <2>2, <2>3, <2>4, <2>5, RoomSteps
<1> QED
  BY <1>1, NextRoomType, NextMembers, NextLocked, NextAssembly, NextRequests,
     NextSentOnce, NextOnTheStack, NextRoomDescriptors, NextPresent, NextOneTaker
  DEF ServiceParts, RoomInv

(***************************************************************************)
(* The invariant of the chat room, for any number of members, IO threads   *)
(* and workers: conn_array holds connections that exist, a send holds the  *)
(* user's mutex, no send makes a message twice, and ref_count is exact.    *)
(***************************************************************************)
THEOREM RoomInvariant == RoomSpec => []RoomInv
  BY RoomInitInv, RoomNextInv, PTL DEF RoomSpec

(***************************************************************************)
(* ref_count counts the connection, its place in conn_array and every      *)
(* message that points to it, received or sent, whatever xv_atomic_incr of *)
(* a worker and xv_atomic_decr of an IO thread meet.                       *)
(***************************************************************************)
THEOREM RoomRefExact == RoomSpec => []RoomRefCounted
<1>1. RoomInv => RoomRefCounted
  <2> SUFFICES ASSUME RoomInv, NEW c \in Conns, mem[c] = "live"
               PROVE  ref[c] = 1 + Cardinality(conn_array \cap {c})
                                 + Cardinality(MessagesOf(c))
    BY DEF RoomRefCounted
  <2>1. ref[c] = 1 + MemberRefs[c] + Cardinality(MessagesOf(c))
    BY DEF RoomInv, RefsAre
  <2>2. MemberRefs[c] = IF c \in conn_array THEN 1 ELSE 0
    BY DEF MemberRefs
  <2>3. CASE c \in conn_array
    <3>1. conn_array \cap {c} = {c}
      BY <2>3
    <3>2. Cardinality({c}) = 1
      BY FS_Singleton
    <3> QED  BY <2>1, <2>2, <2>3, <3>1, <3>2
  <2>4. CASE c \notin conn_array
    <3>1. conn_array \cap {c} = {}
      BY <2>4
    <3>2. Cardinality({}) = 0
      BY FS_EmptySet
    <3> QED  BY <2>1, <2>2, <2>4, <3>1, <3>2
  <2> QED  BY <2>3, <2>4
<1> QED  BY <1>1, RoomInvariant, PTL

(* When somebody has spoken, everybody is in the room or has left it. *)
LEMMA HeardByAll ==
    ASSUME Assembled, RoomInv, NEW m \in msgs, ~ m.sent, NEW d \in Conns
    PROVE  /\ io_thread[d] # NULL /\ mem[d] # "none"
           /\ status[d] = "OPEN" => d \in conn_array /\ OwnsFd(d)
<1> USE DEF RoomInv
<1> DEFINE c == m.conn
<1>1. m \in Messages
  BY DEF TypeInv, TypeOK, MessageTypeOK
<1>2. c \in Conns /\ m.hi \in Nat /\ m.hi # 0 /\ m.hi <= ndec[c]
  BY <1>1, ServiceConstants DEF Messages, RequestsDecoded
<1>3. /\ ndec[c] \in Nat /\ nread[c] \in Nat /\ nsent[c] \in Nat
      /\ ndec[c] <= nread[c] /\ nread[c] <= nsent[c]
  BY <1>2, ServiceConstants DEF TypeInv, TypeOK, StreamTypeOK, PeerTypeOK, StagesOrdered
<1>4. nsent[c] # 0
  BY <1>2, <1>3
<1>5. io_thread[d] # NULL
  BY <1>2, <1>4 DEF Assembly
<1>6. mem[d] # "none" /\ \A t \in IoThreads : ~ (Adding(t) /\ ioc[t] = d)
  BY <1>5 DEF OneWay
<1> QED  BY <1>5, <1>6 DEF Present, DescriptorsOwned

(***************************************************************************)
(* In a room where peers speak only when all connections have their IO     *)
(* threads, xv_service_send_message never follows a connection that has    *)
(* been destroyed nor a conn->io_thread that is NULL, though it tests      *)
(* status, takes its reference and pushes in three separate steps.         *)
(***************************************************************************)
THEOREM SendIsSafe == Assembled => (RoomSpec => []SenderSafe)
<1>1. ASSUME Assembled, RoomInv PROVE SenderSafe
  <2> SUFFICES ASSUME NEW w \in Workers, wpc[w] # "loop"
               PROVE  mem[wconn[w]] = "live" /\ io_thread[wconn[w]] # NULL
    BY <1>1 DEF SenderSafe
  <2>1. /\ mem[wconn[w]] = "live" /\ wconn[w] \in Conns
        /\ whand[w] \in Messages /\ whand[w] \in msgs /\ ~ whand[w].sent
    BY <1>1, SentIsMessage
  <2> QED  BY <1>1, <2>1, HeardByAll
<1>2. ASSUME Assembled PROVE RoomSpec => []SenderSafe
  <2>1. RoomInv => SenderSafe
    BY <1>1, <1>2
  <2> QED  BY <2>1, RoomInvariant, PTL
<1> QED  BY <1>2

-----------------------------------------------------------------------------
(***************************************************************************)
(* The conversation of an assembled room.                                  *)
(***************************************************************************)
LEMMA InHand ==
    ASSUME RoomInv, NEW w \in Workers, whand[w] # NULL
    PROVE  /\ whand[w] \in Messages /\ whand[w] \in msgs
           /\ ~ whand[w].sent /\ whand[w].from = whand[w].conn
           /\ \A v \in Workers : whand[v] # NULL => v = w
<1> USE DEF RoomInv
<1>1. whand[w] \in Messages
  BY DEF TypeInv, TypeOK, MessageTypeOK
<1>2. ASSUME NEW v \in Workers, whand[v] # NULL
      PROVE  whand[v] \in Messages /\ Holds("worker", v, whand[v])
  BY <1>2 DEF Holds, TypeInv, TypeOK, MessageTypeOK
<1>3. whand[w] \in msgs /\ ~ whand[w].sent
  BY <1>2 DEF OnePlace, OneHolder, RequestsOnly, Kinds, Holders
<1>4. \A m, n : TaskIndex(m) = TaskIndex(n)
  BY DEF TaskIndex
<1>5. ASSUME NEW v \in Workers, whand[v] # NULL
      PROVE  v = w
  <2>1. v = TaskIndex(whand[v]) /\ w = TaskIndex(whand[w])
    BY <1>2, <1>5 DEF OneTaker
  <2> QED  BY <1>4, <2>1
<1> QED  BY <1>1, <1>3, <1>5 DEF RequestsDecoded

(* The members have different descriptors. *)
LEMMA MembersApart ==
    ASSUME RoomInv, NEW c \in conn_array, NEW d \in conn_array, fd[c] = fd[d]
    PROVE  c = d
<1> USE DEF RoomInv
<1>1. ASSUME NEW a \in conn_array
      PROVE  fdOwner[fd[a]] = a
  BY <1>1 DEF Members, Leaving, DescriptorsOwned, ReleasesOwn, OwnsFd, RoomTypeOK
<1> QED  BY <1>1

LEMMA Places ==
    ASSUME NEW at \in [Unit -> Nat], NEW m \in Messages
    PROVE  /\ Begin(at, m) \in Nat /\ End(at, m) \in Nat
           /\ Begin(at, m) < End(at, m)
           /\ Len(Units(m)) = m.hi - m.lo + 1 /\ Units(m) \in Seq(Unit)
           /\ End(at, m) = Begin(at, m) + Len(Units(m)) /\ Len(Units(m)) \in Nat
           /\ \A i \in 1..Len(Units(m)) : Units(m)[i] = <<m.from, m.lo + i - 1>>
<1>1. /\ m.from \in Conns /\ m.lo \in 1..MaxReq /\ m.hi \in 1..MaxReq /\ m.lo <= m.hi
  BY DEF Messages
<1>2. <<m.from, m.lo>> \in Unit
  BY <1>1 DEF Unit
<1>3. Begin(at, m) \in Nat
  BY <1>2 DEF Begin
<1>4. m.hi - m.lo + 1 \in Nat /\ m.hi - m.lo + 1 > 0
  BY <1>1, ServiceConstants
<1>5. Len(Units(m)) = m.hi - m.lo + 1 /\ Units(m) \in Seq(Unit)
  BY UnitsType
<1>6. \A i \in 1..(m.hi - m.lo + 1) : Units(m)[i] = <<m.from, m.lo + i - 1>>
  BY DEF Units
<1>7. /\ End(at, m) \in Nat /\ Begin(at, m) < End(at, m)
      /\ End(at, m) = Begin(at, m) + Len(Units(m)) /\ Len(Units(m)) \in Nat
  <2> DEFINE k == m.hi - m.lo + 1
             b == Begin(at, m)
  <2>1. k \in Nat /\ k > 0 /\ b \in Nat /\ End(at, m) = b + k /\ Len(Units(m)) = k
    BY <1>3, <1>4, <1>5 DEF End
  <2> HIDE DEF k, b
  <2>2. b + k \in Nat /\ b < b + k
    BY <2>1
  <2> QED  BY <2>1, <2>2 DEF b
<1> QED  BY <1>3, <1>5, <1>6, <1>7

(* Messages of the same units have the same place. *)
Alike(m, n) == m.from = n.from /\ m.lo = n.lo /\ m.hi = n.hi

LEMMA SamePlace ==
    ASSUME NEW m, NEW n, Alike(m, n), NEW L, NEW at
    PROVE  /\ Begin(at, m) = Begin(at, n) /\ End(at, m) = End(at, n)
           /\ Written(L, at, m) <=> Written(L, at, n)
  BY DEF Alike, Begin, End, Written

LEMMA SentAlike ==
    ASSUME RoomInv, NEW w \in Workers, wpc[w] # "loop"
    PROVE  Alike(Sent(w), whand[w])
<1>1. whand[w] # NULL
  BY DEF RoomInv, Locked
<1> QED  BY <1>1, SentIsMessage, InHand DEF Alike

LEMMA CompleteFrame ==
    ASSUME NEW L, NEW at, NEW c \in Conns, Complete(L, at, c), Stream(c)' = Stream(c),
           \A m \in Messages : Due(c, m) =>
                \E n \in Messages : Due(c, n)' /\ Alike(m, n),
           \A m \in Messages : Due(c, m)' =>
                \E n \in Messages : Due(c, n) /\ Alike(m, n)
    PROVE  Complete(L, at, c)'
<1>1. \A m, n : Alike(m, n) => Begin(at, m) = Begin(at, n) /\ End(at, m) = End(at, n)
  BY SamePlace
<1>2. ASSUME NEW p \in 1..Len(L), Len(Stream(c)) < p
      PROVE  \E m \in Messages : Due(c, m)' /\ Begin(at, m) < p /\ p <= End(at, m)
  <2>1. PICK m \in Messages : Due(c, m) /\ Begin(at, m) < p /\ p <= End(at, m)
    BY <1>2 DEF Complete
  <2>2. PICK n \in Messages : Due(c, n)' /\ Alike(m, n)
    BY <2>1
  <2> QED  BY <1>1, <2>1, <2>2
<1>3. ASSUME NEW m \in Messages, Due(c, m)'
      PROVE  Len(Stream(c)) <= Begin(at, m)
  <2>1. PICK n \in Messages : Due(c, n) /\ Alike(m, n)
    BY <1>3
  <2>2. Len(Stream(c)) <= Begin(at, n)
    BY <2>1 DEF Complete
  <2> QED  BY <1>1, <2>1, <2>2
<1> QED  BY <1>2, <1>3 DEF Complete

(* A step that changes nothing of what members hear. *)
Unheard ==
    /\ \A w \in Workers : whand'[w] # NULL => whand'[w] = whand[w]
    /\ \A s \in msgs' : s.sent => s \in msgs
    /\ \A s, u \in Messages : s.sent /\ u.sent /\ Follows(s, u)' => Follows(s, u)
    /\ \A c \in Conns : Stream(c)' = Stream(c)
    /\ \A c \in Conns : status'[c] = "OPEN" =>
        status[c] = "OPEN" /\ \A m \in Messages : Due(c, m)' <=> Due(c, m)

LEMMA UnheardSame ==
    ASSUME Unheard, NEW L, NEW at, Conversation(L, at)
    PROVE  Conversation(L, at)'
<1>1. TakenLast(L, at)'
  <2>1. \A w \in Workers : whand'[w] # NULL =>
            Written(L, at, whand[w]) /\ End(at, whand[w]) = Len(L) /\ whand'[w] = whand[w]
    BY DEF Conversation, TakenLast, Unheard
  <2> QED  BY <2>1 DEF TakenLast, Written, Begin, End
<1>2. SentWritten(L, at)'
  <2> SUFFICES ASSUME NEW s \in msgs', s.sent
               PROVE  /\ Written(L, at, s)
                      /\ \A w \in Workers : whand'[w] # NULL =>
                          SentFor(s, whand'[w]) \/ End(at, s) <= Begin(at, whand'[w])
    BY DEF SentWritten, Written, Begin, End, SentFor
  <2>1. s \in msgs /\ \A w \in Workers : whand'[w] # NULL => whand'[w] = whand[w]
    BY DEF Unheard
  <2> QED  BY <2>1 DEF Conversation, SentWritten
<1>3. InTurn(at)'
  BY DEF Unheard, Conversation, InTurn, Begin, End
<1>4. \A c \in Conns : Heard(L, c)'
  BY DEF Unheard, Conversation, Heard
<1>5. ASSUME NEW c \in Conns, status'[c] = "OPEN"
      PROVE  Complete(L, at, c)'
  <2>1. Complete(L, at, c) /\ \A m \in Messages : Due(c, m)' <=> Due(c, m)
    BY <1>5 DEF Unheard, Conversation
  <2>2. \A m : Alike(m, m)
    BY DEF Alike
  <2>3. Stream(c)' = Stream(c)
    BY DEF Unheard
  <2> QED  BY <2>1, <2>2, <2>3, CompleteFrame
<1> QED  BY <1>1, <1>2, <1>3, <1>4, <1>5 DEF Conversation

(* The steps of an IO thread, by what members hear of them. *)
Replies(t) == ReplyFails(t) \/ \E n : Reply(t, n)

LEMMA IoKinds ==
    ASSUME RoomInv, NEW t \in IoThreads, LibraryStep(t)
    PROVE  \/ Calm /\ NoMove
           \/ \E u \in IoThreads, c \in Conns, n \in 1..MaxReq : ReadRequest(u, c, n)
           \/ \E u \in IoThreads : ReturnMessage(u) \/ DropMessage(u)
           \/ NoMove /\ \E u \in IoThreads : NoReply(u) \/ Replies(u)
<1> USE DEF RoomInv
<1>1. [Next]_vars
  BY DEF LibraryStep, Next
<1>2. UNCHANGED whand
  BY IoMoves
<1>3. ASSUME NEW w \in Workers, TakeTask(w) \/ FinishTask(w)
      PROVE  FALSE
  <2>1. CASE TakeTask(w)
    <3>1. Head(task_queue[w]) \in Messages
      BY <2>1, TakeHolds
    <3>2. whand'[w] = Head(task_queue[w]) /\ whand[w] = NULL
      BY <2>1 DEF TakeTask, TypeInv, TypeOK, MessageTypeOK
    <3> QED  BY <1>2, <3>1, <3>2, NullIsNoMessage
  <2>2. CASE FinishTask(w)
    BY <1>2, <2>2 DEF FinishTask, TypeInv, TypeOK, MessageTypeOK
  <2> QED  BY <1>3, <2>1, <2>2
<1> QED  BY <1>1, <1>3, IoMoves, CalmSteps DEF Replies

(* IO threads take and drop messages without changing what is due. *)
LEMMA IoUnheard ==
    ASSUME Assembled, RoomInv, NEW t \in IoThreads, LibraryStep(t),
           \A u \in IoThreads : ~ Replies(u)
    PROVE  Unheard
<1> USE DEF RoomInv
<1>a. UNCHANGED <<whand, userVars>>
  BY IoMoves
<1>b. \A w \in Workers : Sent(w)' = Sent(w) /\ wpc'[w] = wpc[w]
  BY <1>a DEF Sent, userVars
<1>c. \A c \in Conns : status'[c] = "OPEN" => status[c] = "OPEN"
  BY LifeSteps DEF LibraryStep, OwnerHandles, HandlesOwn
<1>d. ASSUME \A o \in Messages : o.sent /\ status'[o.conn] = "OPEN" =>
                (Coming(o)' <=> Coming(o)),
             \A s \in msgs' : s.sent => s \in msgs,
             \A s, u \in Messages : s.sent /\ u.sent /\ Follows(s, u)' => Follows(s, u),
             \A c \in Conns : Stream(c)' = Stream(c)
      PROVE  Unheard
  <2>1. ASSUME NEW c \in Conns, NEW w \in Workers, whand[w] # NULL
        PROVE  fd'[c] = fd[c]
    <3>1. whand[w] \in msgs /\ ~ whand[w].sent
      BY <2>1, InHand
    <3>2. mem[c] # "none"
      BY <3>1, HeardByAll
    <3> QED  BY <3>2, LifeSteps DEF LibraryStep
  <2>2. ASSUME NEW c \in Conns, status'[c] = "OPEN", NEW m \in Messages
        PROVE  Due(c, m)' <=> Due(c, m)
    BY <1>a, <1>d, <2>1, <2>2 DEF Due, userVars
  <2> QED  BY <1>a, <1>c, <1>d, <2>2 DEF Unheard
<1>1. CASE Calm /\ NoMove
  <2>1. \A o : Coming(o)' <=> Coming(o)
    BY <1>1, <1>b DEF Calm, Coming
  <2>2. \A s, u : Follows(s, u)' => Follows(s, u)
    BY <1>1 DEF Calm, Follows
  <2> QED  BY <1>1, <1>d, <2>1, <2>2 DEF Calm, NoMove
<1>2. ASSUME NEW u \in IoThreads, NEW c \in Conns, NEW n \in 1..MaxReq, ReadRequest(u, c, n)
      PROVE  Unheard
  <2>1. PICK m \in Messages : ~ m.sent /\ msgs' = msgs \cup {m}
    BY <1>2, ReadMoves
  <2>2. UNCHANGED <<message_queue, ioVars, outp, wbuf>>
    BY <1>2, RoomConstants DEF ReadRequest
  <2>3. \A o : Coming(o)' <=> Coming(o)
    BY <1>b, <2>2 DEF Coming, ioVars
  <2>4. \A a, b : Follows(a, b)' => Follows(a, b)
    BY <2>2 DEF Follows, ioVars
  <2> QED  BY <1>d, <2>1, <2>2, <2>3, <2>4 DEF Stream
<1>3. ASSUME NEW u \in IoThreads, ReturnMessage(u) \/ DropMessage(u)
      PROVE  Unheard
  <2> DEFINE q == message_queue[u]
             h == Head(q)
             r == Tail(q)
  <2>1. /\ UNCHANGED <<outp, wbuf, status>>
        /\ iopc[u] = "poll" /\ q \in Seq(Messages) /\ q # << >>
        /\ message_queue'[u] = r
        /\ \A v \in IoThreads : v # u =>
                UNCHANGED <<message_queue[v], iopc[v], iom[v]>>
        /\ \/ iopc'[u] = "reply" /\ iom'[u] = h
           \/ status[h.conn] = "CLOSED" /\ iopc'[u] = "poll"
        /\ msgs' \subseteq msgs
    BY <1>3 DEF ReturnMessage, DropMessage, TypeInv, TypeOK, QueueTypeOK, streamVars,
                connVars, Goto, ioVars, IoTypeOK, xv_message_destroy
  <2>2. /\ \A o : Queued(q, o) <=> o = h \/ Queued(r, o)
        /\ \A a, b : Precedes(r, a, b) => Precedes(q, a, b)
        /\ \A b : Queued(r, b) => Precedes(q, h, b)
    BY <2>1, QueuedTail, QueuedHead, PrecedesTail
  <2> HIDE DEF q, h, r
  <2>3. /\ \A o : Queued(message_queue[u], o) <=> o = h \/ Queued(r, o)
        /\ \A a, b : Precedes(r, a, b) => Precedes(message_queue[u], a, b)
        /\ \A b : Queued(r, b) => Precedes(message_queue[u], h, b)
    BY <2>2 DEF q
  <2>4. ASSUME NEW o \in Messages, status'[o.conn] = "OPEN"
        PROVE  Coming(o)' <=> Coming(o)
    <3>1. (\E v \in IoThreads : Queued(message_queue[v], o))
                \/ (\E v \in IoThreads : iopc[v] = "reply" /\ iom[v] = o)
          <=> \/ o = h \/ Queued(r, o)
              \/ \E v \in IoThreads : v # u /\ Queued(message_queue[v], o)
              \/ \E v \in IoThreads : v # u /\ iopc[v] = "reply" /\ iom[v] = o
      BY <2>1, <2>3
    <3>2. (\E v \in IoThreads : Queued(message_queue[v], o))'
                \/ (\E v \in IoThreads : iopc[v] = "reply" /\ iom[v] = o)'
          <=> \/ (iopc'[u] = "reply" /\ o = h) \/ Queued(r, o)
              \/ \E v \in IoThreads : v # u /\ Queued(message_queue[v], o)
              \/ \E v \in IoThreads : v # u /\ iopc[v] = "reply" /\ iom[v] = o
      BY <2>1
    <3>3. o = h => iopc'[u] = "reply"
      BY <2>1, <2>4
    <3> QED  BY <1>b, <3>1, <3>2, <3>3 DEF Coming
  <2>5. ASSUME NEW a, NEW b, Follows(a, b)'
        PROVE  Follows(a, b)
    <3>1. PICK v \in IoThreads :
            \/ Precedes(message_queue'[v], a, b)
            \/ iopc'[v] = "reply" /\ iom'[v] = a /\ Queued(message_queue'[v], b)
      BY <2>5 DEF Follows
    <3>2. CASE v # u
      BY <2>1, <3>1, <3>2 DEF Follows
    <3>3. CASE v = u
      BY <2>1, <2>3, <3>1, <3>3 DEF Follows
    <3> QED  BY <3>2, <3>3
  <2> QED  BY <1>d, <2>1, <2>4, <2>5 DEF Stream
<1>4. ASSUME NEW u \in IoThreads, NoReply(u), NoMove
      PROVE  Unheard
  <2>1. /\ UNCHANGED <<message_queue, iom, outp, wbuf>>
        /\ iopc[u] = "reply" /\ iopc'[u] = "destroy" /\ ~ iom[u].sent
        /\ \A v \in IoThreads : v # u => iopc'[v] = iopc[v]
    BY <1>4 DEF NoReply, HasResponse, streamVars, queueVars, TypeInv, TypeOK, IoTypeOK
  <2>2. ASSUME NEW o, o.sent
        PROVE  Coming(o)' <=> Coming(o)
    BY <1>b, <2>1, <2>2 DEF Coming
  <2>3. ASSUME NEW a, NEW b, Follows(a, b)'
        PROVE  Follows(a, b)
    BY <2>1, <2>3 DEF Follows
  <2> QED  BY <1>d, <1>4, <2>1, <2>2, <2>3 DEF Stream, NoMove
<1> QED  BY <1>1, <1>2, <1>3, <1>4, IoKinds

(* The for loop leaves out an index only when no open member is at it. *)
LEMMA RoundUnheard ==
    ASSUME Assembled, RoomInv, NEW w \in Workers, LookAt(w) \/ SendCheck(w)
    PROVE  Unheard
<1> USE DEF RoomInv
<1>1. /\ UNCHANGED <<vars, conn_array>> /\ whand[w] # NULL /\ wleft[w] # {}
      /\ \A v \in Workers : v # w => wpc[v] = "loop"
      /\ wpc[w] # "push"
  <2>1. CASE LookAt(w)
    <3>1. UNCHANGED <<vars, conn_array>> /\ whand[w] # NULL /\ wleft[w] # {} /\ mutex = NULL
      BY <2>1 DEF LookAt
    <3>2. \A v \in Workers : wpc[v] = "loop"
      BY <3>1, ServiceConstants DEF Locked, Workers
    <3> QED  BY <3>1, <3>2
  <2>2. CASE SendCheck(w)
    <3>1. UNCHANGED <<vars, conn_array>> /\ wpc[w] = "check"
      BY <2>2 DEF SendCheck
    <3> QED  BY <3>1, OneSender DEF Locked
  <2> QED  BY <2>1, <2>2
<1>2. \A v \in Workers : wpc'[v] # "push" /\ wpc[v] # "push"
  BY <1>1 DEF LookAt, SendCheck, NextRound, RoomTypeOK
<1>3. \/ UNCHANGED wleft
      \/ /\ wleft' = [wleft EXCEPT ![w] = @ \ {NextIndex(w)}]
         /\ \A c \in conn_array : fd[c] = NextIndex(w) => status[c] # "OPEN"
  <2>1. CASE LookAt(w)
    BY <2>1 DEF LookAt, NextRound
  <2>2. CASE SendCheck(w)
    <3>1. CASE status[wconn[w]] = "CLOSED"
      <4>1. wpc[w] = "check" /\ wleft' = [wleft EXCEPT ![w] = @ \ {NextIndex(w)}]
        BY <2>2, <3>1 DEF SendCheck, NextRound
      <4>2. wconn[w] \in conn_array /\ fd[wconn[w]] = NextIndex(w)
        BY <4>1, SentIsMessage
      <4>3. \A c \in conn_array : fd[c] = NextIndex(w) => c = wconn[w]
        BY <4>2, MembersApart
      <4> QED  BY <3>1, <4>1, <4>3
    <3>2. CASE status[wconn[w]] # "CLOSED"
      BY <2>2, <3>2 DEF SendCheck
    <3> QED  BY <3>1, <3>2
  <2> QED  BY <2>1, <2>2
<1>4. UNCHANGED <<message_queue, iopc, iom, msgs, whand, outp, wbuf, status, fd>>
  BY <1>1 DEF vars, connVars, queueVars, ioVars, streamVars
<1>5. \A o : Coming(o)' <=> Coming(o)
  BY <1>2, <1>4 DEF Coming
<1>6. \A a, b : Follows(a, b)' => Follows(a, b)
  BY <1>4 DEF Follows
<1>7. ASSUME NEW c \in Conns, status[c] = "OPEN", NEW v \in Workers
      PROVE  fd[c] \in wleft'[v] <=> fd[c] \in wleft[v]
  <2>1. whand[w] \in msgs /\ ~ whand[w].sent
    BY <1>1, InHand
  <2>2. c \in conn_array
    BY <1>7, <2>1, HeardByAll
  <2> QED  BY <1>3, <1>7, <2>2 DEF RoomTypeOK
<1>8. \A c \in Conns : status[c] = "OPEN" => \A m \in Messages : Due(c, m)' <=> Due(c, m)
  BY <1>4, <1>5, <1>7 DEF Due
<1> QED  BY <1>4, <1>6, <1>8 DEF Unheard, Stream

LEMMA StillUnheard ==
    ASSUME Assembled, RoomInv, Still
    PROVE  Unheard
<1>1. CASE \E w \in Workers : LookAt(w) \/ SendCheck(w)
  BY <1>1, RoundUnheard
<1>2. CASE ~ \E w \in Workers : LookAt(w) \/ SendCheck(w)
  <2>1. UNCHANGED <<message_queue, iopc, iom, msgs, whand, outp, wbuf, status, fd,
                    wpc, wleft, wconn>>
    BY <1>2 DEF Still, on_connect, on_disconnect, RoomPeerStep, PeerStep, Connect,
                PeerSend, PeerClose, roomVars, vars, connVars, queueVars, ioVars,
                streamVars, userVars
  <2>2. \A w \in Workers : Sent(w)' = Sent(w)
    BY <2>1 DEF Sent
  <2>3. \A o : Coming(o)' <=> Coming(o)
    BY <2>1, <2>2 DEF Coming
  <2>4. \A a, b : Follows(a, b)' => Follows(a, b)
    BY <2>1 DEF Follows
  <2>5. \A c, m : Due(c, m)' <=> Due(c, m)
    BY <2>1, <2>3 DEF Due
  <2> QED  BY <2>1, <2>4, <2>5 DEF Unheard, Stream
<1> QED  BY <1>1, <1>2

(* The request that goes back has been sent to everybody. *)
LEMMA EndUnheard ==
    ASSUME RoomInv, NEW w \in Workers, EndTask(w)
    PROVE  Unheard
<1> USE DEF RoomInv
<1> DEFINE m == whand[w]
           u == io_thread[m.conn]
<1>1. /\ UNCHANGED <<iopc, iom, msgs, outp, wbuf, status, fd, userVars>>
      /\ wpc[w] = "loop" /\ wleft[w] = {} /\ whand[w] # NULL /\ whand'[w] = NULL
      /\ \A v \in Workers : v # w => whand'[v] = whand[v]
      /\ message_queue' = [message_queue EXCEPT ![u] = Append(@, m)]
  BY DEF EndTask, FinishTask, TypeInv, TypeOK, MessageTypeOK, streamVars, ioVars, connVars
<1>2. m \in Messages /\ ~ m.sent
  BY <1>1, InHand
<1> HIDE DEF m, u
<1>3. ASSUME NEW t \in IoThreads
      PROVE  /\ \A o : Queued(message_queue'[t], o) /\ o # m => Queued(message_queue[t], o)
             /\ \A o : Queued(message_queue[t], o) => Queued(message_queue'[t], o)
             /\ \A a, b : b # m /\ Precedes(message_queue'[t], a, b) =>
                    Precedes(message_queue[t], a, b)
  <2>0. message_queue[t] \in Seq(Messages)
    BY DEF TypeInv, TypeOK, QueueTypeOK
  <2>1. CASE t = u
    <3>1. message_queue'[t] = Append(message_queue[t], m)
      BY <1>1, <2>1 DEF TypeInv, TypeOK, QueueTypeOK
    <3> QED  BY <1>2, <2>0, <3>1, QueuedAppend, PrecedesAppend
  <2>2. CASE t # u
    BY <1>1, <2>2 DEF TypeInv, TypeOK, QueueTypeOK
  <2> QED  BY <2>1, <2>2
<1>4. \A v \in Workers : wpc[v] = "push" => v # w /\ Sent(v)' = Sent(v)
  BY <1>1 DEF Sent, userVars
<1>5. ASSUME NEW o, o.sent
      PROVE  Coming(o)' <=> Coming(o)
  <2>1. o # m
    BY <1>2, <1>5
  <2>2. \A t \in IoThreads : Queued(message_queue'[t], o) <=> Queued(message_queue[t], o)
    BY <1>3, <2>1
  <2> QED  BY <1>1, <1>4, <2>2 DEF Coming, userVars
<1>6. ASSUME NEW a, NEW b, b.sent, Follows(a, b)'
      PROVE  Follows(a, b)
  <2>1. b # m
    BY <1>2, <1>6
  <2> QED  BY <1>1, <1>3, <1>6, <2>1 DEF Follows
<1>7. ASSUME NEW c, NEW o
      PROVE  Due(c, o)' <=> Due(c, o)
  BY <1>1, <1>5 DEF Due, userVars
<1> QED  BY <1>1, <1>6, <1>7 DEF Unheard, Stream

(* A message made for the member the for loop has come to: instead of the  *)
(* request, the message is due.                                            *)
LEMMA MadeInTurn ==
    ASSUME RoomInv, NEW w \in Workers, SendInit(w), NEW L, NEW at, Conversation(L, at)
    PROVE  Conversation(L, at)'
<1>1. PICK s : s = Sent(w)
  OBVIOUS
<1>2. /\ UNCHANGED <<message_queue, iopc, iom, whand, outp, wbuf, status, fd, wleft, wconn>>
      /\ msgs' = msgs \cup {s} /\ wpc[w] = "init" /\ wpc'[w] = "push"
      /\ \A v \in Workers : v # w => wpc'[v] = wpc[v]
  BY <1>1 DEF SendInit, xv_message_init, streamVars, queueVars, ioVars, RoomInv, RoomTypeOK
<1>3. /\ s \in Messages /\ s.sent /\ s.conn = wconn[w] /\ SentFor(s, whand[w])
      /\ whand[w] \in Messages /\ whand[w] # NULL
      /\ fd[wconn[w]] \in wleft[w] /\ Alike(s, whand[w])
  BY <1>1, <1>2, SentIsMessage, SentAlike DEF RoomInv, Locked
<1>4. \A v \in Workers : Sent(v)' = Sent(v)
  BY <1>2 DEF Sent
<1>5. \A o : Coming(o)' <=> Coming(o) \/ o = s
  BY <1>1, <1>2, <1>4 DEF Coming
<1>6. \A a, b : Follows(a, b)' <=> Follows(a, b)
  BY <1>2 DEF Follows
<1>7. \A c : Stream(c)' = Stream(c)
  BY <1>2 DEF Stream
<1>8. TakenLast(L, at)'
  BY <1>2 DEF Conversation, TakenLast, Written, Begin, End
<1>9. SentWritten(L, at)'
  <2> SUFFICES ASSUME NEW r \in msgs', r.sent
               PROVE  /\ Written(L, at, r)
                      /\ \A v \in Workers : whand[v] # NULL =>
                          SentFor(r, whand[v]) \/ End(at, r) <= Begin(at, whand[v])
    BY <1>2 DEF SentWritten, Written, Begin, End, SentFor
  <2>1. CASE r \in msgs
    BY <2>1 DEF Conversation, SentWritten
  <2>2. CASE r = s
    <3>1. Written(L, at, whand[w])
      BY <1>3 DEF Conversation, TakenLast
    <3>2. Written(L, at, s)
      BY <1>3, <3>1, SamePlace
    <3>3. \A v \in Workers : whand[v] # NULL => v = w
      BY <1>3, InHand
    <3> QED  BY <1>3, <2>2, <3>2, <3>3
  <2> QED  BY <1>2, <2>1, <2>2
<1>10. InTurn(at)'
  BY <1>6 DEF Conversation, InTurn, Begin, End
<1>11. \A c \in Conns : Heard(L, c)'
  BY <1>7 DEF Conversation, Heard
<1>12. ASSUME NEW c \in Conns, status'[c] = "OPEN"
       PROVE  Complete(L, at, c)'
  <2>1. Complete(L, at, c)
    BY <1>2, <1>12 DEF Conversation
  <2>2. \A m : Alike(m, m)
    BY DEF Alike
  <2>3. ASSUME NEW m \in Messages, Due(c, m)
        PROVE  \E n \in Messages : Due(c, n)' /\ Alike(m, n)
    BY <1>2, <1>5, <2>2, <2>3 DEF Due
  <2>4. ASSUME NEW m \in Messages, Due(c, m)'
        PROVE  \E n \in Messages : Due(c, n) /\ Alike(m, n)
    <3>1. CASE Due(c, m)
      BY <2>2, <3>1
    <3>2. CASE ~ Due(c, m)
      <4>1. m = s /\ c = wconn[w]
        BY <1>2, <1>3, <1>5, <2>4, <3>2 DEF Due
      <4>2. Due(c, whand[w])
        BY <1>3, <4>1 DEF Due
      <4> QED  BY <1>3, <4>1, <4>2
    <3> QED  BY <3>1, <3>2
  <2> QED  BY <1>7, <2>1, <2>3, <2>4, CompleteFrame
<1> QED  BY <1>8, <1>9, <1>10, <1>11, <1>12 DEF Conversation

(* A push goes behind everything that is due to the member: what is sent   *)
(* to it and in the queue was said before.                                 *)
LEMMA PushedInTurn ==
    ASSUME Assembled, RoomInv, NEW w \in Workers, SendPush(w),
           NEW L, NEW at, Conversation(L, at)
    PROVE  Conversation(L, at)'
<1>1. PICK s : s = Sent(w)
  OBVIOUS
<1> DEFINE u == io_thread[wconn[w]]
<1>2. /\ UNCHANGED <<iopc, iom, msgs, whand, outp, wbuf, status, fd>>
      /\ message_queue' = [message_queue EXCEPT ![u] = Append(@, s)]
      /\ wpc[w] = "push" /\ wpc'[w] = "loop"
      /\ wleft'[w] = wleft[w] \ {NextIndex(w)}
      /\ \A v \in Workers : v # w => wleft'[v] = wleft[v] /\ wpc'[v] = wpc[v]
  BY <1>1 DEF SendPush, NextRound, streamVars, connVars, ioVars, RoomInv, RoomTypeOK
<1>3. /\ s \in Messages /\ s.sent /\ s.conn = wconn[w]
      /\ whand[w] \in Messages /\ whand[w] # NULL /\ whand[w] \in msgs /\ ~ whand[w].sent
      /\ fd[wconn[w]] = NextIndex(w) /\ NextIndex(w) \in wleft[w] /\ Alike(s, whand[w])
      /\ wconn[w] \in conn_array
  BY <1>1, <1>2, SentIsMessage, SentAlike DEF RoomInv, Locked
<1>4. u \in IoThreads
  BY PushHolds
<1>5. \A k \in Kinds, x \in Holders : ~ Holds(k, x, s)
  BY <1>1, <1>2 DEF RoomInv, OnTheStack
<1>6. \A v \in Workers : v # w => wpc[v] = "loop"
  BY <1>2, OneSender
<1> HIDE DEF u
<1>7. ASSUME NEW t \in IoThreads
      PROVE  /\ \A o : Queued(message_queue'[t], o) <=>
                    Queued(message_queue[t], o) \/ (t = u /\ o = s)
             /\ \A a, b : Precedes(message_queue'[t], a, b) =>
                    \/ Precedes(message_queue[t], a, b)
                    \/ t = u /\ b = s /\ Queued(message_queue[t], a)
  <2>0. message_queue[t] \in Seq(Messages)
    BY DEF RoomInv, TypeInv, TypeOK, QueueTypeOK
  <2>1. CASE t = u
    <3>1. message_queue'[t] = Append(message_queue[t], s)
      BY <1>2, <2>1 DEF RoomInv, TypeInv, TypeOK, QueueTypeOK
    <3> QED  BY <1>3, <2>0, <2>1, <3>1, QueuedAppend, PrecedesAppend
  <2>2. CASE t # u
    BY <1>2, <2>2 DEF RoomInv, TypeInv, TypeOK, QueueTypeOK
  <2> QED  BY <2>1, <2>2
<1>8. ASSUME NEW o
      PROVE  Coming(o)' <=> Coming(o)
  <2>1. (\E t \in IoThreads : Queued(message_queue'[t], o)) <=>
            (\E t \in IoThreads : Queued(message_queue[t], o)) \/ o = s
    BY <1>4, <1>7
  <2>2. (\E v \in Workers : wpc[v] = "push" /\ o = Sent(v)) <=> o = s
    BY <1>1, <1>2, <1>6
  <2>3. \A v \in Workers : wpc'[v] # "push"
    BY <1>2, <1>6
  <2> QED  BY <1>2, <2>1, <2>2, <2>3 DEF Coming
<1>9. \A c : Stream(c)' = Stream(c)
  BY <1>2 DEF Stream
<1>10. TakenLast(L, at)' /\ SentWritten(L, at)'
  BY <1>2 DEF Conversation, TakenLast, SentWritten, Written, Begin, End, SentFor
<1>11. \A c \in Conns : Heard(L, c)'
  BY <1>9 DEF Conversation, Heard
<1>12. ASSUME NEW a \in Messages, NEW b \in Messages, a.sent, b.sent, a.conn = b.conn,
              Follows(a, b)'
       PROVE  End(at, a) <= Begin(at, b)
  <2>1. CASE Follows(a, b)
    BY <1>12, <2>1 DEF Conversation, InTurn
  <2>2. CASE ~ Follows(a, b)
    <3>1. PICK t \in IoThreads :
            \/ Precedes(message_queue'[t], a, b)
            \/ iopc[t] = "reply" /\ iom[t] = a /\ Queued(message_queue'[t], b)
      BY <1>2, <1>12 DEF Follows
    <3>2. /\ b = s
          /\ Queued(message_queue[t], a) \/ (iopc[t] = "reply" /\ iom[t] = a)
      BY <1>7, <2>2, <3>1 DEF Follows
    <3>3. \E k \in Kinds, x \in Holders : Holds(k, x, a)
      <4>1. Holds("return", t, a) \/ Holds("io", t, a)
        BY <3>2 DEF Holds, Carries
      <4> QED  BY <4>1 DEF Kinds, Holders
    <3>4. a \in msgs /\ a # s
      BY <1>5, <3>3 DEF RoomInv, OnePlace, OneHolder
    <3>5. ~ SentFor(a, whand[w])
      <4>1. fd[a.conn] \in wleft[w]
        BY <1>3, <1>12, <3>2
      <4> QED  BY <1>1, <1>3, <1>12, <3>4, <4>1 DEF RoomInv, SentOnce
    <3>6. End(at, a) <= Begin(at, whand[w])
      BY <1>3, <1>12, <3>4, <3>5 DEF Conversation, SentWritten
    <3> QED  BY <1>3, <3>2, <3>6, SamePlace
  <2> QED  BY <2>1, <2>2
<1>13. InTurn(at)'
  BY <1>12 DEF InTurn, Begin, End
<1>14. ASSUME NEW c \in Conns, status'[c] = "OPEN"
       PROVE  Complete(L, at, c)'
  <2>1. status[c] = "OPEN" /\ Complete(L, at, c)
    BY <1>2, <1>14 DEF Conversation
  <2>2. \A m : Alike(m, m)
    BY DEF Alike
  <2>3. ASSUME NEW m \in Messages, Due(c, m)
        PROVE  \E n \in Messages : Due(c, n)' /\ Alike(m, n)
    <3>1. CASE m.sent /\ m.conn = c /\ Coming(m)
      BY <1>8, <2>2, <3>1 DEF Due
    <3>2. ASSUME NEW v \in Workers, whand[v] # NULL, m = whand[v], fd[c] \in wleft[v]
          PROVE  \E n \in Messages : Due(c, n)' /\ Alike(m, n)
      <4>1. v = w
        BY <1>3, <3>2, InHand
      <4>2. CASE fd[c] # NextIndex(w)
        BY <1>2, <2>2, <3>2, <4>1, <4>2 DEF Due
      <4>3. CASE fd[c] = NextIndex(w)
        <5>1. c \in conn_array
          BY <1>3, <2>1, HeardByAll
        <5>2. c = wconn[w]
          BY <1>3, <4>3, <5>1, MembersApart
        <5>3. Coming(s)
          BY <1>1, <1>2 DEF Coming
        <5>4. Due(c, s)'
          BY <1>3, <1>8, <5>2, <5>3 DEF Due
        <5>5. Alike(m, s)
          BY <1>3, <3>2, <4>1 DEF Alike
        <5> QED  BY <1>3, <5>4, <5>5
      <4> QED  BY <4>2, <4>3
    <3> QED  BY <2>3, <3>1, <3>2 DEF Due
  <2>4. ASSUME NEW m \in Messages, Due(c, m)'
        PROVE  Due(c, m)
    <3>1. \A v \in Workers : wleft'[v] \subseteq wleft[v]
      BY <1>2
    <3> QED  BY <1>2, <1>8, <2>4, <3>1 DEF Due
  <2> QED  BY <1>9, <2>1, <2>2, <2>3, <2>4, CompleteFrame
<1> QED  BY <1>10, <1>11, <1>13, <1>14 DEF Conversation
(* A message on its way exists. *)
LEMMA ComingExists ==
    ASSUME RoomInv, NEW o \in Messages,
           \/ Coming(o)
           \/ \E a : Follows(a, o) \/ Follows(o, a)
    PROVE  o \in msgs
<1>1. \/ \E k \in Kinds, x \in Holders : Holds(k, x, o)
      \/ \E w \in Workers : wpc[w] = "push" /\ o = Sent(w)
  <2>1. ASSUME NEW t \in IoThreads, Queued(message_queue[t], o)
        PROVE  \E k \in Kinds, x \in Holders : Holds(k, x, o)
    <3>1. Holds("return", t, o)
      BY <2>1 DEF Holds
    <3> QED  BY <3>1 DEF Kinds, Holders
  <2>2. ASSUME NEW t \in IoThreads, iopc[t] = "reply", iom[t] = o
        PROVE  \E k \in Kinds, x \in Holders : Holds(k, x, o)
    <3>1. Holds("io", t, o)
      BY <2>2 DEF Holds, Carries
    <3> QED  BY <3>1 DEF Kinds, Holders
  <2> QED  BY <2>1, <2>2, PrecedesQueued DEF Coming, Follows
<1> QED  BY <1>1 DEF RoomInv, OnePlace, OneHolder, OnTheStack

LEMMA JoinedSeq ==
    ASSUME NEW S, NEW a \in Seq(S), NEW b \in Seq(S)
    PROVE  /\ a \o b \in Seq(S) /\ Len(a \o b) = Len(a) + Len(b)
           /\ Len(a) \in Nat /\ Len(b) \in Nat
           /\ \A i \in 1..Len(a) : (a \o b)[i] = a[i]
           /\ \A i \in 1..Len(b) : (a \o b)[Len(a) + i] = b[i]
  OBVIOUS

(* A request a worker takes goes to the end of the conversation.           *)
LEMMA TakenInTurn ==
    ASSUME Assembled, RoomInv, NEW w \in Workers, StartTask(w),
           NEW L \in Seq(Unit), NEW at \in [Unit -> Nat], Conversation(L, at)
    PROVE  OneConversation'
<1>1. PICK h : h = Head(task_queue[w])
  OBVIOUS
<1>2. /\ UNCHANGED <<message_queue, iopc, iom, msgs, outp, wbuf, status, fd, wpc, wconn>>
      /\ whand[w] = NULL /\ whand'[w] = h /\ wleft'[w] = Fds
      /\ \A v \in Workers : v # w => whand'[v] = whand[v] /\ wleft'[v] = wleft[v]
  BY <1>1 DEF StartTask, TakeTask, streamVars, connVars, ioVars, RoomInv, RoomTypeOK,
              TypeInv, TypeOK, MessageTypeOK
<1>3. /\ h \in Messages /\ h \in msgs /\ Holds("task", w, h) /\ ~ h.sent /\ h.from = h.conn
  <2>1. h \in Messages /\ Holds("task", w, h)
    BY <1>1, TakeHolds DEF StartTask, RoomInv
  <2>2. h \in msgs
    BY <2>1 DEF RoomInv, OnePlace, OneHolder, Kinds, Holders
  <2> QED  BY <2>1, <2>2 DEF RoomInv, RequestsOnly, RequestsDecoded
<1>4. \A v \in Workers : whand[v] = NULL /\ wpc[v] = "loop"
  <2>1. ASSUME NEW v \in Workers, whand[v] # NULL
        PROVE  FALSE
    <3>1. whand[v] \in Messages /\ Holds("worker", v, whand[v])
      BY <2>1 DEF Holds, RoomInv, TypeInv, TypeOK, MessageTypeOK
    <3>2. v = TaskIndex(whand[v]) /\ w = TaskIndex(h)
      BY <1>3, <3>1 DEF RoomInv, OneTaker
    <3>3. \A m, n : TaskIndex(m) = TaskIndex(n)
      BY DEF TaskIndex
    <3>4. v = w
      BY <3>2, <3>3
    <3> QED  BY <1>2, <2>1, <3>4
  <2> QED  BY <2>1 DEF RoomInv, Locked
<1>5. h # NULL
  BY <1>3, NullIsNoMessage
<1> DEFINE K == L \o Units(h)
           on == [at EXCEPT ![<<h.from, h.lo>>] = Len(L)]
<1>6. /\ Units(h) \in Seq(Unit) /\ Len(Units(h)) = h.hi - h.lo + 1
      /\ Len(Units(h)) \in Nat
      /\ \A i \in 1..Len(Units(h)) : Units(h)[i] = <<h.from, h.lo + i - 1>>
  BY <1>3, Places
<1>7. /\ K \in Seq(Unit) /\ Len(K) = Len(L) + Len(Units(h)) /\ Len(L) \in Nat
      /\ \A i \in 1..Len(L) : K[i] = L[i]
      /\ \A i \in 1..Len(Units(h)) : K[Len(L) + i] = Units(h)[i]
  <2>1. PICK b : b = Units(h)
    OBVIOUS
  <2>2. /\ L \o b \in Seq(Unit) /\ Len(L \o b) = Len(L) + Len(b) /\ Len(L) \in Nat
        /\ \A i \in 1..Len(L) : (L \o b)[i] = L[i]
        /\ \A i \in 1..Len(b) : (L \o b)[Len(L) + i] = b[i]
    BY <1>6, <2>1, JoinedSeq
  <2> QED  BY <2>1, <2>2
<1>8. <<h.from, h.lo>> \in Unit
  BY <1>3 DEF Messages, Unit
<1>9. on \in [Unit -> Nat]
  BY <1>7
<1>10. Begin(on, h) = Len(L) /\ End(on, h) = Len(K)
  BY <1>6, <1>7, <1>8 DEF Begin, End
<1>11. ASSUME NEW s \in msgs, s.sent
       PROVE  /\ Begin(on, s) = Begin(at, s) /\ End(on, s) = End(at, s)
              /\ Written(L, at, s)
  <2>1. ~ SentFor(s, h)
    BY <1>3, <1>11 DEF RoomInv, SentOnce
  <2>2. <<s.from, s.lo>> # <<h.from, h.lo>>
    BY <1>3, <1>11, <2>1 DEF SentFor
  <2>3. s \in Messages
    BY DEF RoomInv, TypeInv, TypeOK, MessageTypeOK
  <2>4. <<s.from, s.lo>> \in Unit
    BY <2>3 DEF Messages, Unit
  <2> QED  BY <1>11, <2>2, <2>4 DEF Begin, End, Conversation, SentWritten
<1> HIDE DEF K, on
<1>12. \A o : Coming(o)' <=> Coming(o)
  BY <1>2, <1>4 DEF Coming
<1>13. \A a, b : Follows(a, b)' <=> Follows(a, b)
  BY <1>2 DEF Follows
<1>14. \A c : Stream(c)' = Stream(c)
  BY <1>2 DEF Stream
<1>15. Written(K, on, h)
  BY <1>6, <1>7, <1>10 DEF Written
<1>16. TakenLast(K, on)'
  <2>1. \A v \in Workers : whand'[v] # NULL => whand'[v] = h
    BY <1>2, <1>4
  <2> QED  BY <1>10, <1>15, <2>1 DEF TakenLast, Written, Begin, End
<1>17. SentWritten(K, on)'
  <2> SUFFICES ASSUME NEW s \in msgs, s.sent
               PROVE  Written(K, on, s) /\ End(on, s) <= Begin(on, h)
    <3>1. \A v \in Workers : whand'[v] # NULL => whand'[v] = h
      BY <1>2, <1>4
    <3> QED  BY <1>2, <3>1 DEF SentWritten, Written, Begin, End, SentFor
  <2>1. /\ Begin(on, s) = Begin(at, s) /\ End(on, s) = End(at, s) /\ End(at, s) <= Len(L)
        /\ \A i \in 1..(s.hi - s.lo + 1) : L[Begin(at, s) + i] = <<s.from, s.lo + i - 1>>
    BY <1>11 DEF Written
  <2>2. s \in Messages
    BY DEF RoomInv, TypeInv, TypeOK, MessageTypeOK
  <2>3. /\ Begin(at, s) \in Nat /\ End(at, s) = Begin(at, s) + (s.hi - s.lo + 1)
        /\ s.hi - s.lo + 1 \in Nat
    BY <2>2, Places DEF End
  <2>4. ASSUME NEW i \in 1..(s.hi - s.lo + 1)
        PROVE  K[Begin(at, s) + i] = L[Begin(at, s) + i]
    <3> DEFINE k == s.hi - s.lo + 1
               b == Begin(at, s)
    <3>0. k \in Nat /\ b \in Nat /\ i \in 1..k /\ b + k <= Len(L) /\ Len(L) \in Nat
      BY <1>7, <2>1, <2>3
    <3> HIDE DEF k, b
    <3>1. b + i \in 1..Len(L)
      BY <3>0
    <3> QED  BY <1>7, <3>1 DEF b
  <2>5. End(on, s) <= Len(L) /\ End(on, s) <= Len(K)
    <3> DEFINE e == End(at, s)
    <3>1. e \in Nat /\ e <= Len(L) /\ End(on, s) = e
      BY <2>1, <2>2, Places
    <3> HIDE DEF e
    <3> QED  BY <1>6, <1>7, <3>1
  <2> QED  BY <1>10, <2>1, <2>4, <2>5 DEF Written
<1>18. InTurn(on)'
  <2>1. ASSUME NEW a \in Messages, NEW b \in Messages, a.sent, b.sent, a.conn = b.conn,
               Follows(a, b)
        PROVE  End(on, a) <= Begin(on, b)
    <3>1. a \in msgs /\ b \in msgs
      BY <2>1, ComingExists
    <3> QED  BY <1>11, <2>1, <3>1 DEF Conversation, InTurn
  <2> QED  BY <1>13, <2>1 DEF InTurn, Begin, End
<1>19. ASSUME NEW c \in Conns
       PROVE  Heard(K, c)'
  <2>1. Heard(L, c) /\ Len(Stream(c)) \in Nat
    BY StreamLength DEF Conversation, RoomInv
  <2> QED  BY <1>6, <1>7, <1>14, <2>1 DEF Heard
<1>20. ASSUME NEW c \in Conns, status'[c] = "OPEN"
       PROVE  Complete(K, on, c)'
  <2>0. Complete(L, at, c) /\ Len(Stream(c)) <= Len(L)
    BY <1>2, <1>20 DEF Conversation, Heard
  <2>1. Due(c, h)'
    <3>1. fd[c] \in Fds
      BY <1>2, <1>3, <1>20, HeardByAll DEF OwnsFd
    <3> QED  BY <1>2, <1>5, <3>1 DEF Due
  <2>2. ASSUME NEW m \in Messages, Due(c, m)
        PROVE  Due(c, m)' /\ Begin(on, m) = Begin(at, m) /\ End(on, m) = End(at, m)
    <3>1. m.sent /\ m.conn = c /\ Coming(m)
      BY <1>4, <2>2 DEF Due
    <3>2. m \in msgs
      BY <3>1, ComingExists
    <3> QED  BY <1>11, <1>12, <3>1, <3>2 DEF Due
  <2>3. ASSUME NEW m \in Messages, Due(c, m)'
        PROVE  m = h \/ Due(c, m)
    BY <1>2, <1>4, <1>12, <2>3 DEF Due
  <2>4. ASSUME NEW p \in 1..Len(K), Len(Stream(c)) < p
        PROVE  \E m \in Messages : Due(c, m)' /\ Begin(on, m) < p /\ p <= End(on, m)
    <3>1. CASE p <= Len(L)
      <4>0. p \in 1..Len(L)
        BY <1>6, <1>7, <2>4, <3>1
      <4>1. PICK m \in Messages : Due(c, m) /\ Begin(at, m) < p /\ p <= End(at, m)
        BY <2>0, <2>4, <4>0 DEF Complete
      <4> QED  BY <2>2, <4>1
    <3>2. CASE ~ (p <= Len(L))
      BY <1>3, <1>6, <1>7, <1>10, <2>1, <3>2
    <3> QED  BY <3>1, <3>2
  <2>5. ASSUME NEW m \in Messages, Due(c, m)'
        PROVE  Len(Stream(c)) <= Begin(on, m)
    BY <1>10, <2>0, <2>2, <2>3, <2>5 DEF Complete
  <2> QED  BY <1>14, <2>4, <2>5 DEF Complete, Begin, End
<1>21. Conversation(K, on)'
  BY <1>16, <1>17, <1>18, <1>19, <1>20 DEF Conversation
<1> QED  BY <1>7, <1>9, <1>21 DEF OneConversation

(* A reply is to what the member is to get next. *)
LEMMA RepliedInTurn ==
    ASSUME RoomInv, NEW t \in IoThreads, Replies(t), NEW L \in Seq(Unit),
           NEW at \in [Unit -> Nat], Conversation(L, at), NEW m, m = iom[t]
    PROVE  /\ m \in Messages /\ m \in msgs /\ m.sent
           /\ Begin(at, m) = Len(Stream(m.conn)) /\ Due(m.conn, m)
           /\ \A n \in Messages : Due(m.conn, n) /\ n # m => End(at, m) <= Begin(at, n)
<1> DEFINE c == m.conn
<1>1. /\ iopc[t] = "reply" /\ HasResponse(m) /\ m \in msgs /\ m \in Messages
      /\ status[c] = "OPEN"
  BY ReplyWrites DEF Replies, RoomInv
<1>2. m.sent /\ c \in Conns
  BY <1>1, RoomConstants DEF HasResponse, Messages
<1>3. Due(c, m) /\ Complete(L, at, c)
  BY <1>1, <1>2 DEF Due, Coming, Conversation
<1>4. io_thread[c] = t
  BY <1>1 DEF RoomInv, OwnerHandles, HandlesOwn, Handling, Carries
<1>5. \A v \in Workers : wpc[v] = "push" => m # Sent(v)
  <2>1. Holds("io", t, m)
    BY <1>1 DEF Holds, Carries
  <2> QED  BY <2>1 DEF RoomInv, OnTheStack, Kinds, Holders
<1>6. ASSUME NEW v \in Workers, whand[v] # NULL, fd[c] \in wleft[v]
      PROVE  End(at, m) <= Begin(at, whand[v])
  <2>1. ~ SentFor(m, whand[v])
    BY <1>1, <1>2, <1>5, <1>6 DEF RoomInv, SentOnce
  <2> QED  BY <1>1, <1>2, <1>6, <2>1 DEF Conversation, SentWritten
<1>7. ASSUME NEW n \in Messages, Due(c, n), n # m
      PROVE  End(at, m) <= Begin(at, n)
  <2>1. ASSUME NEW v \in IoThreads, Queued(message_queue[v], n), n.sent, n.conn = c
        PROVE  End(at, m) <= Begin(at, n)
    <3>1. io_thread[n.conn] = v
      BY <2>1 DEF RoomInv, OwnerHandles
    <3>2. Follows(m, n)
      BY <1>1, <1>4, <2>1, <3>1 DEF Follows
    <3> QED  BY <1>1, <1>2, <2>1, <3>2 DEF Conversation, InTurn
  <2>2. ASSUME NEW v \in IoThreads, iopc[v] = "reply", iom[v] = n, n.conn = c
        PROVE  FALSE
    <3>1. io_thread[c] = v
      BY <2>2 DEF RoomInv, OwnerHandles, HandlesOwn, Handling, Carries
    <3> QED  BY <1>4, <1>7, <2>2, <3>1
  <2>3. ASSUME NEW v \in Workers, wpc[v] = "push", n = Sent(v), n.conn = c
        PROVE  End(at, m) <= Begin(at, n)
    <3>1. fd[c] \in wleft[v] /\ Alike(n, whand[v]) /\ whand[v] # NULL
      BY <2>3, SentIsMessage, SentAlike DEF RoomInv, Locked
    <3> QED  BY <1>6, <3>1, SamePlace
  <2> QED  BY <1>6, <1>7, <2>1, <2>2, <2>3 DEF Due, Coming
<1>8. Begin(at, m) = Len(Stream(c))
  <2> DEFINE k == Len(Stream(c))
  <2>1. k \in Nat /\ Len(L) \in Nat
    BY <1>2, StreamLength DEF RoomInv
  <2>2. Begin(at, m) \in Nat /\ End(at, m) \in Nat /\ Begin(at, m) < End(at, m)
    BY <1>1, Places
  <2>3. k <= Begin(at, m)
    BY <1>1, <1>3 DEF Complete
  <2>4. End(at, m) <= Len(L)
    BY <1>1, <1>2 DEF Conversation, SentWritten, Written
  <2>5. ASSUME k < Begin(at, m)
        PROVE  FALSE
    <3>1. k + 1 \in 1..Len(L) /\ k < k + 1
      BY <2>1, <2>2, <2>4, <2>5
    <3>2. PICK n \in Messages : Due(c, n) /\ Begin(at, n) < k + 1 /\ k + 1 <= End(at, n)
      BY <1>3, <3>1 DEF Complete
    <3>3. Begin(at, n) \in Nat
      BY Places
    <3>4. n # m
      BY <2>1, <2>2, <2>5, <3>2
    <3>5. End(at, m) <= Begin(at, n)
      BY <1>7, <3>2, <3>4
    <3> QED  BY <2>1, <2>2, <2>5, <3>2, <3>3, <3>5
  <2> QED  BY <2>1, <2>2, <2>3, <2>5
<1> QED  BY <1>1, <1>2, <1>3, <1>7, <1>8
LEMMA ReplyKeeps ==
    ASSUME RoomInv, NEW t \in IoThreads, Replies(t), UNCHANGED userVars,
           NEW L \in Seq(Unit), NEW at \in [Unit -> Nat], Conversation(L, at)
    PROVE  Conversation(L, at)'
<1>1. PICK m : m = iom[t]
  OBVIOUS
<1> DEFINE c == m.conn
<1>2. /\ m \in Messages /\ m \in msgs /\ m.sent
      /\ Begin(at, m) = Len(Stream(c)) /\ Due(c, m)
      /\ \A n \in Messages : Due(c, n) /\ n # m => End(at, m) <= Begin(at, n)
  BY <1>1, RepliedInTurn
<1>3. /\ iopc[t] = "reply" /\ status[c] = "OPEN" /\ c \in Conns
      /\ Stream(c)' = Stream(c) \o Units(m)
      /\ \A d \in Conns : d # c => Stream(d)' = Stream(d)
  BY <1>1, <1>2, ReplyWrites DEF Replies, RoomInv, Messages
<1>4. /\ UNCHANGED <<message_queue, whand, msgs, status, fd, wpc, wleft, wconn>>
      /\ iopc'[t] # "reply"
      /\ \A v \in IoThreads : v # t => iopc'[v] = iopc[v] /\ iom'[v] = iom[v]
  BY DEF Replies, Reply, ReplyFails, Goto, queueVars, connVars, userVars, RoomInv,
         TypeInv, TypeOK, IoTypeOK
<1>5. \A v \in Workers : Sent(v)' = Sent(v)
  BY <1>4 DEF Sent
<1>6. Holds("io", t, m)
  BY <1>1, <1>3 DEF Holds, Carries
<1>7. /\ \A v \in Workers : wpc[v] = "push" => m # Sent(v)
      /\ \A v \in IoThreads : ~ Queued(message_queue[v], m)
      /\ \A v \in IoThreads : iopc[v] = "reply" /\ iom[v] = m => v = t
  <2>1. \A v \in Workers : wpc[v] = "push" => m # Sent(v)
    BY <1>6 DEF RoomInv, OnTheStack, Kinds, Holders
  <2>2. \A k \in Kinds, x \in Holders : Holds(k, x, m) => k = "io" /\ x = t
    BY <1>2, <1>6 DEF RoomInv, OnePlace, OneHolder, Kinds, Holders
  <2>3. ASSUME NEW v \in IoThreads, Queued(message_queue[v], m)
        PROVE  FALSE
    <3>1. Holds("return", v, m)
      BY <2>3 DEF Holds
    <3> QED  BY <2>2, <3>1 DEF Kinds, Holders
  <2>4. ASSUME NEW v \in IoThreads, iopc[v] = "reply", iom[v] = m
        PROVE  v = t
    <3>1. Holds("io", v, m)
      BY <2>4 DEF Holds, Carries
    <3> QED  BY <2>2, <3>1 DEF Kinds, Holders
  <2> QED  BY <2>1, <2>3, <2>4
<1>8. ASSUME NEW o
      PROVE  Coming(o)' <=> Coming(o) /\ o # m
  <2>1. CASE o = m
    BY <1>4, <1>5, <1>7, <2>1 DEF Coming
  <2>2. CASE o # m
    BY <1>1, <1>4, <1>5, <2>2 DEF Coming
  <2> QED  BY <2>1, <2>2
<1>9. \A v \in Workers : whand[v] # NULL => whand[v] # m
  BY <1>2, InHand
<1>10. \A d, n : Due(d, n)' <=> Due(d, n) /\ n # m
  BY <1>4, <1>8, <1>9 DEF Due
<1>11. \A a, b : Follows(a, b)' => Follows(a, b)
  BY <1>4 DEF Follows
<1>12. TakenLast(L, at)' /\ SentWritten(L, at)'
  BY <1>4 DEF Conversation, TakenLast, SentWritten, Written, Begin, End, SentFor
<1>13. InTurn(at)'
  BY <1>11 DEF Conversation, InTurn, Begin, End
<1>14. /\ Stream(c) \in Seq(Unit) /\ Units(m) \in Seq(Unit)
       /\ Len(Units(m)) = m.hi - m.lo + 1
       /\ Begin(at, m) \in Nat /\ End(at, m) \in Nat
       /\ End(at, m) = Begin(at, m) + Len(Units(m))
       /\ \A i \in 1..Len(Units(m)) : Units(m)[i] = <<m.from, m.lo + i - 1>>
  BY <1>2, <1>3, Places, StreamLength DEF RoomInv
<1>15. /\ Len(Stream(c)') = End(at, m)
       /\ \A i \in 1..Len(Stream(c)) : Stream(c)'[i] = Stream(c)[i]
       /\ \A i \in 1..Len(Units(m)) : Stream(c)'[Len(Stream(c)) + i] = Units(m)[i]
  <2>1. PICK a, b : a = Stream(c) /\ b = Units(m)
    OBVIOUS
  <2>2. a \in Seq(Unit) /\ b \in Seq(Unit) /\ Stream(c)' = a \o b
        /\ End(at, m) = Len(a) + Len(b)
    BY <1>2, <1>3, <1>14, <2>1
  <2>3. /\ Len(a \o b) = Len(a) + Len(b)
        /\ \A i \in 1..Len(a) : (a \o b)[i] = a[i]
        /\ \A i \in 1..Len(b) : (a \o b)[Len(a) + i] = b[i]
    BY <2>2, JoinedSeq
  <2> QED  BY <2>1, <2>2, <2>3
<1>16. Written(L, at, m) /\ Heard(L, c)
  BY <1>2, <1>3 DEF Conversation, SentWritten
<1>17. ASSUME NEW i \in 1..Len(Stream(c)')
       PROVE  Stream(c)'[i] = L[i]
  <2>0. Len(Stream(c)) \in Nat /\ Len(Units(m)) \in Nat
    BY <1>14
  <2>1. CASE i <= Len(Stream(c))
    <3>1. i \in 1..Len(Stream(c))
      BY <1>14, <1>15, <2>0, <2>1
    <3> QED  BY <1>15, <1>16, <3>1 DEF Heard
  <2>2. CASE ~ (i <= Len(Stream(c)))
    <3> DEFINE j == i - Len(Stream(c))
    <3>1. j \in 1..Len(Units(m)) /\ i = Len(Stream(c)) + j
      BY <1>2, <1>14, <1>15, <2>0, <2>2
    <3> HIDE DEF j
    <3>2. Stream(c)'[i] = <<m.from, m.lo + j - 1>>
      BY <1>14, <1>15, <3>1
    <3>3. L[Begin(at, m) + j] = <<m.from, m.lo + j - 1>>
      BY <1>14, <1>16, <3>1 DEF Written
    <3> QED  BY <1>2, <3>1, <3>2, <3>3
  <2> QED  BY <2>1, <2>2
<1>18. ASSUME NEW d \in Conns
       PROVE  Heard(L, d)'
  <2>1. CASE d = c
    <3>1. Len(Stream(c)') <= Len(L)
      BY <1>15, <1>16 DEF Written
    <3> QED  BY <1>17, <2>1, <3>1 DEF Heard
  <2>2. CASE d # c
    BY <1>3, <2>2 DEF Conversation, Heard
  <2> QED  BY <2>1, <2>2
<1>19. ASSUME NEW d \in Conns, status'[d] = "OPEN"
       PROVE  Complete(L, at, d)'
  <2>0. Complete(L, at, d)
    BY <1>4, <1>19 DEF Conversation
  <2>1. CASE d = c
    <3>1. ASSUME NEW p \in 1..Len(L), Len(Stream(c)') < p
          PROVE  \E n \in Messages : Due(c, n)' /\ Begin(at, n) < p /\ p <= End(at, n)
      <4>1. Len(Stream(c)) < p /\ ~ (p <= End(at, m))
        BY <1>2, <1>14, <1>15, <3>1
      <4>2. PICK n \in Messages : Due(c, n) /\ Begin(at, n) < p /\ p <= End(at, n)
        BY <2>0, <2>1, <4>1 DEF Complete
      <4> QED  BY <1>10, <4>1, <4>2
    <3>2. ASSUME NEW n \in Messages, Due(c, n)'
          PROVE  Len(Stream(c)') <= Begin(at, n)
      BY <1>2, <1>10, <1>15, <3>2
    <3> QED  BY <2>1, <3>1, <3>2 DEF Complete, Begin, End
  <2>2. CASE d # c
    <3>1. \A n : Alike(n, n)
      BY DEF Alike
    <3>2. ~ Due(d, m)
      BY <1>2, <1>9, <2>2 DEF Due
    <3>3. \A n : Due(d, n)' <=> Due(d, n)
      BY <1>10, <3>2
    <3>4. Stream(d)' = Stream(d)
      BY <1>3, <2>2
    <3> QED  BY <2>0, <3>1, <3>3, <3>4, CompleteFrame
  <2> QED  BY <2>1, <2>2
<1> QED  BY <1>12, <1>13, <1>18, <1>19 DEF Conversation

LEMMA NextConversation ==
    ASSUME Assembled, RoomInv, OneConversation, [RoomNext]_roomVars
    PROVE  OneConversation'
<1>1. PICK L \in Seq(Unit) : \E at \in [Unit -> Nat] : Conversation(L, at)
  BY DEF OneConversation
<1>2. PICK at \in [Unit -> Nat] : Conversation(L, at)
  BY <1>1
<1>3. SUFFICES ASSUME ~ \E w \in Workers : StartTask(w)
               PROVE  Conversation(L, at)'
  <2>1. CASE \E w \in Workers : StartTask(w)
    BY <1>2, <2>1, TakenInTurn
  <2>2. CASE ~ \E w \in Workers : StartTask(w)
    BY <2>2 DEF OneConversation
  <2> QED  BY <2>1, <2>2
<1>4. ASSUME NEW t \in IoThreads, LibraryStep(t)
      PROVE  Conversation(L, at)'
  <2>1. CASE \E u \in IoThreads : Replies(u)
    BY <1>2, <1>4, <2>1, ReplyKeeps DEF LibraryStep
  <2>2. CASE ~ \E u \in IoThreads : Replies(u)
    <3>1. Unheard
      BY <1>4, <2>2, IoUnheard
    <3> QED  BY <1>2, <3>1, UnheardSame
  <2> QED  BY <2>1, <2>2
<1>5. ASSUME NEW w \in Workers, EndTask(w)
      PROVE  Conversation(L, at)'
  <2>1. Unheard
    BY <1>5, EndUnheard
  <2> QED  BY <1>2, <2>1, UnheardSame
<1>6. ASSUME NEW w \in Workers, SendInit(w)
      PROVE  Conversation(L, at)'
  BY <1>2, <1>6, MadeInTurn
<1>7. ASSUME NEW w \in Workers, SendPush(w)
      PROVE  Conversation(L, at)'
  BY <1>2, <1>7, PushedInTurn
<1>8. CASE Still
  <2>1. Unheard
    BY <1>8, StillUnheard
  <2> QED  BY <1>2, <2>1, UnheardSame
<1> QED  BY <1>3, <1>4, <1>5, <1>6, <1>7, <1>8, RoomKinds

LEMMA InitConversation == RoomInit => OneConversation
<1> SUFFICES ASSUME RoomInit PROVE OneConversation
  OBVIOUS
<1> DEFINE L == << >>
           at == [u \in Unit |-> 0]
<1>1. L \in Seq(Unit) /\ at \in [Unit -> Nat] /\ Len(L) = 0
  OBVIOUS
<1>2. /\ msgs = {} /\ \A w \in Workers : whand[w] = NULL /\ wpc[w] = "loop"
      /\ \A t \in IoThreads : message_queue[t] = << >> /\ iopc[t] # "reply"
      /\ \A c \in Conns : outp[c] = << >> /\ wbuf[c] = << >>
  BY DEF RoomInit, Init
<1>3. \A c \in Conns : Stream(c) = << >> /\ Len(Stream(c)) = 0
  <2>1. << >> \o << >> = << >> /\ Len(<< >>) = 0
    OBVIOUS
  <2> QED  BY <1>2, <2>1, Zenon DEF Stream
<1> HIDE DEF L, at
<1>4. TakenLast(L, at) /\ SentWritten(L, at)
  BY <1>2 DEF TakenLast, SentWritten
<1>5. \A t \in IoThreads : \A m : ~ Queued(message_queue[t], m)
  BY <1>2 DEF Queued
<1>6. InTurn(at)
  BY <1>2, <1>5, PrecedesQueued DEF InTurn, Follows
<1>7. \A c \in Conns : Heard(L, c)
  BY <1>1, <1>3 DEF Heard
<1>8. \A c, m : ~ Due(c, m)
  BY <1>2, <1>5 DEF Due, Coming
<1>9. \A c \in Conns : Complete(L, at, c)
  BY <1>1, <1>8 DEF Complete
<1>10. Conversation(L, at)
  BY <1>4, <1>6, <1>7, <1>9 DEF Conversation
<1> QED  BY <1>1, <1>10 DEF OneConversation

LEMMA ConversationIsSame == RoomInv /\ OneConversation => SameConversation
<1> SUFFICES ASSUME RoomInv, OneConversation, NEW c \in Conns, NEW d \in Conns,
                    Len(Stream(c)) <= Len(Stream(d))
             PROVE  Stream(c) = SubSeq(Stream(d), 1, Len(Stream(c)))
  BY DEF SameConversation, Stream
<1>1. PICK L \in Seq(Unit) : Heard(L, c) /\ Heard(L, d)
  BY DEF OneConversation, Conversation
<1>2. Stream(c) \in Seq(Unit) /\ Stream(d) \in Seq(Unit)
  BY StreamLength DEF RoomInv
<1> DEFINE s == Stream(c)
           u == Stream(d)
<1>3. /\ s \in Seq(Unit) /\ u \in Seq(Unit) /\ Len(s) <= Len(u)
      /\ \A i \in 1..Len(s) : s[i] = L[i]
      /\ \A i \in 1..Len(u) : u[i] = L[i]
  BY <1>1, <1>2 DEF Heard
<1> HIDE DEF s, u
<1>4. \A i \in 1..Len(s) : s[i] = u[i]
  BY <1>3
<1>5. SubSeq(u, 1, Len(s)) \in Seq(Unit) /\ Len(SubSeq(u, 1, Len(s))) = Len(s)
  BY <1>3
<1>6. \A i \in 1..Len(s) : SubSeq(u, 1, Len(s))[i] = u[i]
  BY <1>3
<1>7. s = SubSeq(u, 1, Len(s))
  BY <1>3, <1>4, <1>5, <1>6
<1> QED  BY <1>7 DEF s, u

(***************************************************************************)
(* In an assembled room everybody reads the same conversation, whoever     *)
(* speaks, reads slowly or leaves, and however IO threads and the worker   *)
(* interleave: all requests go to one worker (process_read_buffer,         *)
(* xv_service.c), which sends each to all, and the owner of a connection   *)
(* answers in the order of its message_queue.                              *)
(***************************************************************************)
THEOREM OneRoom == Assembled => (RoomSpec => []SameConversation)
<1> SUFFICES ASSUME Assembled PROVE RoomSpec => []SameConversation
  OBVIOUS
<1>1. RoomInit => OneConversation
  BY InitConversation
<1>2. RoomInv /\ OneConversation /\ [RoomNext]_roomVars => OneConversation'
  BY NextConversation
<1>3. RoomInv /\ OneConversation => SameConversation
  BY ConversationIsSame
<1>4. RoomSpec => []RoomInv
  BY RoomInvariant
<1> QED  BY <1>1, <1>2, <1>3, <1>4, PTL DEF RoomSpec

=============================================================================
