-------------------------------- MODULE XvRoom --------------------------------
(***************************************************************************)
(* xv_service_send_message, used the way xv_service_room_test.c uses it: a *)
(* chat room on top of XvService.  on_connect takes a reference with       *)
(* xv_connection_incr_ref and enters the connection in conn_array;         *)
(* on_disconnect removes it and gives the reference back.  process, in a   *)
(* worker, goes through conn_array and sends the request to every          *)
(* connection in it; it sets no response of its own (Answers is empty).    *)
(* The user's mutex protects conn_array and is held during a send.  It     *)
(* protects nothing of the library: the IO threads close connections,      *)
(* change status and follow ref_count without it.                          *)
(***************************************************************************)
EXTENDS XvService

CONSTANTS
    Assembled       \* peers speak only when everybody is in the room and all
                    \* followers have taken their connections

ASSUME RoomConstants ==
    /\ Assembled \in BOOLEAN
    /\ Answers = {}
    /\ NWorkers > 0

VARIABLES
    conn_array,     \* the connections in conn_array, each at its descriptor
    mutex,          \* the worker that holds the mutex, or NULL
    wpc,            \* where a worker is in process: "loop" at the head of its
                    \* for loop, "check", "init" and "push" inside
                    \* xv_service_send_message
    wleft,          \* the indices of conn_array the for loop has not come to
    wconn           \* the connection a worker is sending to

userVars == <<conn_array, mutex, wpc, wleft, wconn>>
roomVars == <<vars, userVars>>

RoomInit ==
    /\ Init
    /\ conn_array = {}
    /\ mutex = NULL
    /\ wpc = [w \in Workers |-> "loop"]
    /\ wleft = [w \in Workers |-> {}]
    /\ wconn = [w \in Workers |-> NULL]

-----------------------------------------------------------------------------
(* The user's callbacks in an IO thread.  on_connect comes before          *)
(* Distribute and on_disconnect before CheckRef.                           *)
on_connect(t) ==
    /\ iopc[t] = "accepted" /\ ioc[t] \notin conn_array
    /\ mutex = NULL
    /\ conn_array' = conn_array \cup {ioc[t]}
    /\ xv_connection_incr_ref(ioc[t])
    /\ UNCHANGED <<streamVars, tableVars, queueVars, ioVars, peerVars, mem,
                   status, io_thread, fd, rio, wio, ndisc, msgs, whand, fdOwner,
                   mutex, wpc, wleft, wconn>>

(* Faulty variant: on_disconnect does not wait for the mutex. *)
LeaveUnlocked(t) ==
    /\ iopc[t] = "checkref" /\ ioc[t] \in conn_array
    /\ conn_array' = conn_array \ {ioc[t]}
    /\ xv_connection_decr_ref(ioc[t])
    /\ UNCHANGED <<streamVars, tableVars, queueVars, ioVars, peerVars, mem,
                   status, io_thread, fd, rio, wio, ndisc, msgs, whand, fdOwner,
                   mutex, wpc, wleft, wconn>>

on_disconnect(t) ==
    /\ iopc[t] = "checkref" /\ ioc[t] \in conn_array
    /\ mutex = NULL
    /\ conn_array' = conn_array \ {ioc[t]}
    /\ xv_connection_decr_ref(ioc[t])
    /\ UNCHANGED <<streamVars, tableVars, queueVars, ioVars, peerVars, mem,
                   status, io_thread, fd, rio, wio, ndisc, msgs, whand, fdOwner,
                   mutex, wpc, wleft, wconn>>

(* The library's own steps wait for the callback they come after: a        *)
(* connection is distributed after on_connect, ...                         *)
Connected(t) == iopc[t] = "accepted" => ioc[t] \in conn_array

(* ... and its references are looked at after on_disconnect. *)
Disconnected(t) == iopc[t] = "checkref" => ioc[t] \notin conn_array

LibraryStep(t) ==
    Connected(t) /\ Disconnected(t) /\ IoStep(t) /\ UNCHANGED userVars

-----------------------------------------------------------------------------
(* The user's process in a worker.                                         *)

StartTask(w) ==
    /\ TakeTask(w)
    /\ wleft' = [wleft EXCEPT ![w] = Fds]
    /\ UNCHANGED <<conn_array, mutex, wpc, wconn>>

NextIndex(w) == CHOOSE f \in wleft[w] : \A g \in wleft[w] : f <= g

(* The rest of the loop's body: unlock and go on. *)
NextRound(w) ==
    /\ wpc' = [wpc EXCEPT ![w] = "loop"]
    /\ wleft' = [wleft EXCEPT ![w] = @ \ {NextIndex(w)}]
    /\ wconn' = [wconn EXCEPT ![w] = NULL]
    /\ mutex' = NULL

(* Lock the mutex and look at conn_array[i]. *)
LookAt(w) ==
    /\ whand[w] # NULL /\ wpc[w] = "loop" /\ wleft[w] # {}
    /\ mutex = NULL
    /\ IF \E c \in conn_array : fd[c] = NextIndex(w)
       THEN /\ wpc' = [wpc EXCEPT ![w] = "check"]
            /\ wconn' = [wconn EXCEPT ![w] =
                            CHOOSE c \in conn_array : fd[c] = NextIndex(w)]
            /\ mutex' = w
            /\ UNCHANGED wleft
       ELSE NextRound(w)
    /\ UNCHANGED <<vars, conn_array>>

(* The message xv_service_send_message makes. *)
Sent(w) == [conn |-> wconn[w], from |-> whand[w].conn, sent |-> TRUE,
            lo |-> whand[w].lo, hi |-> whand[w].hi]

(* xv_service_send_message: the status is tested ... *)
SendCheck(w) ==
    /\ wpc[w] = "check"
    /\ IF status[wconn[w]] = "CLOSED"
       THEN NextRound(w)
       ELSE /\ wpc' = [wpc EXCEPT ![w] = "init"]
            /\ UNCHANGED <<wleft, wconn, mutex>>
    /\ UNCHANGED <<vars, conn_array>>

(* ... then the message takes its reference ... *)
SendInit(w) ==
    /\ wpc[w] = "init"
    /\ xv_message_init(Sent(w))
    /\ wpc' = [wpc EXCEPT ![w] = "push"]
    /\ UNCHANGED <<streamVars, tableVars, queueVars, ioVars, peerVars, mem,
                   status, io_thread, fd, rio, wio, ndisc, whand, fdOwner,
                   conn_array, mutex, wleft, wconn>>

(* ... and is pushed to conn->io_thread.  A NULL there ends the process.   *)
SendPush(w) ==
    /\ wpc[w] = "push"
    /\ io_thread[wconn[w]] # NULL
    /\ message_queue' = [message_queue EXCEPT
            ![io_thread[wconn[w]]] = Append(@, Sent(w))]
    /\ NextRound(w)
    /\ UNCHANGED <<connVars, streamVars, tableVars, ioVars, peerVars, msgs,
                   whand, fdOwner, conn_queue, task_queue, conn_array>>

(* process has returned and the message goes back. *)
EndTask(w) ==
    /\ wpc[w] = "loop" /\ wleft[w] = {}
    /\ FinishTask(w)
    /\ UNCHANGED userVars

ProcessStep(w) ==
    StartTask(w) \/ LookAt(w) \/ SendCheck(w) \/ SendInit(w) \/ SendPush(w)
        \/ EndTask(w)

-----------------------------------------------------------------------------
RoomPeerStep(c) ==
    /\ PeerStep(c)
    /\ Assembled /\ nsent' # nsent => \A d \in Conns : io_thread[d] # NULL
    /\ UNCHANGED userVars

(***************************************************************************)
(* DropMessage frees a connection that other messages may still point to   *)
(* (the README's "two requests in flight").  What the program does when    *)
(* one of them is followed is undefined; behaviours end there.             *)
(***************************************************************************)
Defined == \A m \in msgs : mem[m.conn] = "live"

IoThreadStep(t) == on_connect(t) \/ on_disconnect(t) \/ LibraryStep(t)

ThreadStep ==
    /\ Defined
    /\ \/ \E t \in IoThreads : IoThreadStep(t)
       \/ \E w \in Workers : ProcessStep(w)

RoomNext ==
    \/ ThreadStep
    \/ Defined /\ \E c \in Conns : RoomPeerStep(c)

(* As long as threads of the program can run, one of them does. *)
RoomFairness == WF_roomVars(ThreadStep)

RoomSpec == RoomInit /\ [][RoomNext]_roomVars /\ RoomFairness

-----------------------------------------------------------------------------
(***************************************************************************)
(* A sender works on a connection that exists and has its IO thread.       *)
(* xv_service_send_message tests status, takes a reference and follows     *)
(* conn->io_thread, three steps between which the owner may close the      *)
(* connection: only the reference taken in on_connect, and the wait of     *)
(* on_disconnect for the mutex, keep it from being freed.                  *)
(***************************************************************************)
SenderSafe ==
    \A w \in Workers :
        /\ wpc[w] # "loop" => mem[wconn[w]] = "live"
        /\ wpc[w] = "push" => io_thread[wconn[w]] # NULL

(***************************************************************************)
(* ref_count is one for the connection, one for its place in conn_array    *)
(* and one for each message, whoever made it.                              *)
(***************************************************************************)
RoomRefCounted ==
    \A c \in Conns : mem[c] = "live" /\ ~BeingAdded(c) =>
        ref[c] = 1 + Cardinality(conn_array \cap {c})
                   + Cardinality(MessagesOf(c))

(***************************************************************************)
(* Everybody reads the same conversation: what two members have got, or    *)
(* will get from their write buffers, is the same up to where one of them  *)
(* is behind or has left.  Nothing in the library orders the sends of two  *)
(* workers; it holds because the hashcode in process_read_buffer gives all *)
(* tasks to one of them, and an IO thread returns messages in order.       *)
(***************************************************************************)
SameConversation ==
    \A c, d \in Conns :
        LET s == outp[c] \o wbuf[c]
            u == outp[d] \o wbuf[d]
        IN  Len(s) <= Len(u) => s = SubSeq(u, 1, Len(s))

(***************************************************************************)
(* What one member says reaches everybody, unless one of the two leaves or *)
(* a member's leaving has ended what is defined.                           *)
(***************************************************************************)
Delivered ==
    \A c, d \in Conns : \A k \in 1..MaxReq :
        nsent[c] = k ~>
            \/ \E i \in 1..Len(outp[d]) : outp[d][i] = <<c, k>>
            \/ peer[c] = "gone" \/ peer[d] = "gone"
            \/ ~Defined

=============================================================================
