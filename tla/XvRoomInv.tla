------------------------------ MODULE XvRoomInv ------------------------------
(***************************************************************************)
(* The inductive invariant of the chat room: why a send of a worker to any *)
(* connection in conn_array is safe while the IO threads accept and close  *)
(* connections.  TLC checks RoomInv in the run of MCRoom.cfg,              *)
(* XvRoomProofs proves it.                                                 *)
(***************************************************************************)
EXTENDS XvRoom, XvServiceInv

RoomTypeOK ==
    /\ conn_array \subseteq Conns
    /\ mutex \in Workers \cup {NULL}
    /\ wpc \in [Workers -> {"loop", "check", "init", "push"}]
    /\ wleft \in [Workers -> SUBSET Fds]
    /\ wconn \in [Workers -> Conns \cup {NULL}]

(* A member exists, and is open or about to be taken out of conn_array. *)
Leaving(c) == \E t \in IoThreads : iopc[t] = "checkref" /\ ioc[t] = c

Members ==
    /\ \A c \in conn_array : mem[c] = "live" /\ (status[c] = "OPEN" \/ Leaving(c))
    /\ \A t \in IoThreads : Adding(t) => mem[ioc[t]] = "live"

(* During a send the worker has the mutex, and the member it sends to is   *)
(* at the index the for loop has come to.                                  *)
Locked ==
    \A w \in Workers : wpc[w] # "loop" =>
        /\ mutex = w /\ whand[w] # NULL
        /\ wconn[w] \in conn_array
        /\ wleft[w] # {} /\ fd[wconn[w]] = NextIndex(w)

(* Workers get requests only, and no two of them start with the same unit. *)
RequestsOnly ==
    \A w \in Workers : \A m \in Messages :
        Holds("task", w, m) \/ Holds("worker", w, m) => ~ m.sent

RequestsDistinct ==
    \A m, n \in msgs :
        ~ m.sent /\ ~ n.sent /\ m.conn = n.conn /\ m.lo = n.lo => m = n

(* s was sent in the processing of the request m. *)
SentFor(s, m) == s.sent /\ s.from = m.conn /\ s.lo = m.lo

(* Whatever was sent was sent for a request that a worker has taken, and   *)
(* to an index the worker's for loop has passed: it is not sent again.     *)
SentOnce ==
    \A s \in msgs : s.sent =>
        /\ s.hi <= ndec[s.from]
        /\ \A w \in Workers, m \in Messages : Holds("task", w, m) => ~SentFor(s, m)
        /\ \A w \in Workers : whand[w] # NULL /\ SentFor(s, whand[w]) =>
            fd[s.conn] \notin wleft[w] \/ (wpc[w] = "push" /\ s = Sent(w))

(* Between its xv_message_init and its push a message is in no queue. *)
OnTheStack ==
    \A w \in Workers : wpc[w] = "push" =>
        Sent(w) \in msgs /\ \A k \in Kinds, x \in Holders : ~Holds(k, x, Sent(w))

(* ref_count, with the references of on_connect. *)
MemberRefs == [c \in Conns |-> IF c \in conn_array THEN 1 ELSE 0]

(* In an assembled room, whoever speaks is heard by threads that exist. *)
Assembly ==
    Assembled /\ (\E c \in Conns : nsent[c] # 0) => \A d \in Conns : io_thread[d] # NULL

(* Every connection from on_connect on is in conn_array until it closes,   *)
(* and one worker gets all requests.                                       *)
Present ==
    \A c \in Conns : mem[c] # "none" /\ status[c] = "OPEN" =>
        c \in conn_array \/ \E t \in IoThreads : Adding(t) /\ ioc[t] = c

OneTaker ==
    \A w \in Workers : \A m \in Messages :
        Holds("task", w, m) \/ Holds("worker", w, m) => w = TaskIndex(m)

(***************************************************************************)
(* Of the room with any number of members, threads and workers: conn_array *)
(* holds live connections only, a send holds the mutex and its member, and *)
(* every reference is counted (xv_service_send_message, xv_service.c:363,  *)
(* and the callbacks of xv_service_room_test.c).                           *)
(***************************************************************************)
RoomInv ==
    /\ TypeInv /\ OneWay /\ OwnerHandles /\ OnePlace /\ RequestsDecoded
    /\ MessagesExist /\ RefsAre(MemberRefs)
    /\ RoomTypeOK /\ Members /\ Locked
    /\ RequestsOnly /\ RequestsDistinct /\ SentOnce /\ OnTheStack
    /\ Assembly /\ DescriptorsOwned /\ Present /\ OneTaker

-----------------------------------------------------------------------------
(***************************************************************************)
(* The conversation.  No variable of the program holds it; L is what has   *)
(* been said so far, in the order in which the worker has taken the        *)
(* requests, and at is where in L the units of a request begin.            *)
(* XvRoomProofs proves OneConversation of an assembled room; TLC cannot    *)
(* enumerate Seq(Unit).                                                    *)
(***************************************************************************)
Begin(at, m) == at[<<m.from, m.lo>>]
End(at, m)   == Begin(at, m) + (m.hi - m.lo + 1)

Written(L, at, m) ==
    /\ End(at, m) <= Len(L)
    /\ \A i \in 1..(m.hi - m.lo + 1) : L[Begin(at, m) + i] = <<m.from, m.lo + i - 1>>

(* A message on its way to a member: in the queue or the hand of the       *)
(* member's IO thread, or on the stack of a worker.                        *)
Coming(o) ==
    \/ \E t \in IoThreads : Queued(message_queue[t], o)
    \/ \E t \in IoThreads : iopc[t] = "reply" /\ iom[t] = o
    \/ \E w \in Workers : wpc[w] = "push" /\ o = Sent(w)

(* What c is still to get: what is coming, and the request in hand when    *)
(* the for loop has not come to c's index.                                 *)
Due(c, m) ==
    \/ m.sent /\ m.conn = c /\ Coming(m)
    \/ \E w \in Workers : whand[w] # NULL /\ m = whand[w] /\ fd[c] \in wleft[w]

(* The request in hand is the end of the conversation. *)
TakenLast(L, at) ==
    \A w \in Workers : whand[w] # NULL =>
        Written(L, at, whand[w]) /\ End(at, whand[w]) = Len(L)

SentWritten(L, at) ==
    \A s \in msgs : s.sent =>
        /\ Written(L, at, s)
        /\ \A w \in Workers : whand[w] # NULL =>
            SentFor(s, whand[w]) \/ End(at, s) <= Begin(at, whand[w])

(* Messages to a member come in the order of the conversation. *)
Follows(s, u) ==
    \E t \in IoThreads :
        \/ Precedes(message_queue[t], s, u)
        \/ iopc[t] = "reply" /\ iom[t] = s /\ Queued(message_queue[t], u)

InTurn(at) ==
    \A s, u \in Messages : s.sent /\ u.sent /\ s.conn = u.conn /\ Follows(s, u) =>
        End(at, s) <= Begin(at, u)

(* A member has got a beginning of the conversation, and an open one gets  *)
(* the rest, piece by piece.                                               *)
Heard(L, c) ==
    /\ Len(Stream(c)) <= Len(L)
    /\ \A i \in 1..Len(Stream(c)) : Stream(c)[i] = L[i]

Complete(L, at, c) ==
    /\ \A p \in 1..Len(L) : Len(Stream(c)) < p =>
        \E m \in Messages : Due(c, m) /\ Begin(at, m) < p /\ p <= End(at, m)
    /\ \A m \in Messages : Due(c, m) => Len(Stream(c)) <= Begin(at, m)

Conversation(L, at) ==
    /\ TakenLast(L, at) /\ SentWritten(L, at) /\ InTurn(at)
    /\ \A c \in Conns : Heard(L, c)
    /\ \A c \in Conns : status[c] = "OPEN" => Complete(L, at, c)

OneConversation ==
    \E L \in Seq(Unit) : \E at \in [Unit -> Nat] : Conversation(L, at)

=============================================================================
