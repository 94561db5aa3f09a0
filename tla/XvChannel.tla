------------------------------ MODULE XvChannel ------------------------------
(***************************************************************************)
(* How a thread hands work to the loop of another one: a concurrent queue  *)
(* (xv_queue.c), an eventfd that wakes the loop (xv_async.c), and the      *)
(* callback that drains the queue.  The library has three such channels    *)
(* and they share their shape:                                             *)
(*                                                                         *)
(*   task_queue     xv_worker_thread_push_task    worker_async_cb          *)
(*   conn_queue     on_new_connection             io_thread_add_conn_cb    *)
(*   message_queue  thread_pool_task_cb,          io_thread_return_        *)
(*                  xv_service_send_message          message_cb            *)
(*                                                                         *)
(* push, pop and size each run under the queue's mutex and are one step.   *)
(* A callback may itself push: that is a producer step taken while the     *)
(* consumer is at "run".                                                   *)
(***************************************************************************)
EXTENDS Naturals, Sequences

CONSTANTS
    Producers,      \* the threads that push
    EvMax,          \* the eventfd's largest value (2^64 - 2 in the kernel)
    MaxPush         \* how many items a producer pushes; keeps TLC finite

ASSUME ChannelConstants ==
    /\ EvMax \in Nat \ {0}
    /\ MaxPush \in Nat

VARIABLES
    queue,      \* the concurrent queue
    evfd,       \* the eventfd's counter
    pc,         \* pc[p]: a producer is idle, or between push and async_send
    cpc,        \* where the consuming thread is
    hand,       \* what the consumer's last pop returned
    put,        \* put[p]: how many items p has pushed
    last        \* the item handled last

vars == <<queue, evfd, pc, cpc, hand, put, last>>

NULL == << >>

(***************************************************************************)
(* cpc: "off"   xv_async_start not called yet                              *)
(*      "wait"  in the poller, or busy with another event of the loop      *)
(*      "read"  the eventfd is reported readable, in common_async_cb       *)
(*      "size", "pop", "run"  in the callback's while loop                 *)
(***************************************************************************)
Init ==
    /\ queue = << >>
    /\ evfd = 0
    /\ pc = [p \in Producers |-> "idle"]
    /\ cpc = "off"
    /\ hand = NULL
    /\ put = [p \in Producers |-> 0]
    /\ last = NULL

-----------------------------------------------------------------------------
(* Faulty variant: xv_queue_push links the node in front of the head. *)
PushInFront(p) ==
    /\ pc[p] = "idle"
    /\ put[p] < MaxPush
    /\ put' = [put EXCEPT ![p] = put[p] + 1]
    /\ queue' = << <<p, put[p] + 1>> >> \o queue
    /\ pc' = [pc EXCEPT ![p] = "send"]
    /\ UNCHANGED <<evfd, cpc, hand, last>>

(* xv_concurrent_queue_push of the producer's next item. *)
Push(p) ==
    /\ pc[p] = "idle"
    /\ put[p] < MaxPush
    /\ put' = [put EXCEPT ![p] = put[p] + 1]
    /\ queue' = Append(queue, <<p, put[p] + 1>>)
    /\ pc' = [pc EXCEPT ![p] = "send"]
    /\ UNCHANGED <<evfd, cpc, hand, last>>

(* xv_async_send.  The eventfd is non-blocking: at its limit the write     *)
(* fails with EAGAIN, and no caller looks at the XV_ERR that follows.      *)
Send(p) ==
    /\ pc[p] = "send"
    /\ evfd' = IF evfd < EvMax THEN evfd + 1 ELSE evfd
    /\ pc' = [pc EXCEPT ![p] = "idle"]
    /\ UNCHANGED <<queue, cpc, hand, put, last>>

(* xv_async_start.  Producers may have pushed before. *)
Start ==
    /\ cpc = "off"
    /\ cpc' = "wait"
    /\ UNCHANGED <<queue, evfd, pc, hand, put, last>>

(* The poller is level-triggered: it reports the eventfd while it is not 0. *)
Poll ==
    /\ cpc = "wait"
    /\ evfd > 0
    /\ cpc' = "read"
    /\ UNCHANGED <<queue, evfd, pc, hand, put, last>>

(* eventfd_read takes the whole count, whatever it is. *)
ReadEvent ==
    /\ cpc = "read"
    /\ evfd' = 0
    /\ cpc' = "size"
    /\ UNCHANGED <<queue, pc, hand, put, last>>

(* Faulty variant: the wakeup alone is taken as proof of work. *)
TrustWakeup ==
    /\ cpc = "size"
    /\ cpc' = "pop"
    /\ UNCHANGED <<queue, evfd, pc, hand, put, last>>

(* while (xv_concurrent_queue_size(queue) > 0) *)
CheckSize ==
    /\ cpc = "size"
    /\ cpc' = IF Len(queue) > 0 THEN "pop" ELSE "wait"
    /\ UNCHANGED <<queue, evfd, pc, hand, put, last>>

(* xv_concurrent_queue_pop, NULL when the queue is empty; the callback     *)
(* skips a NULL and looks at the size again.                               *)
Pop ==
    /\ cpc = "pop"
    /\ hand' = IF queue = << >> THEN NULL ELSE Head(queue)
    /\ queue' = IF queue = << >> THEN queue ELSE Tail(queue)
    /\ cpc' = IF queue = << >> THEN "size" ELSE "run"
    /\ UNCHANGED <<evfd, pc, put, last>>

(* Faulty variant: an `if` where the callback has a `while`. *)
RunOnce ==
    /\ cpc = "run"
    /\ last' = hand
    /\ cpc' = "wait"
    /\ UNCHANGED <<queue, evfd, pc, hand, put>>

(* The callback's work on the item. *)
Run ==
    /\ cpc = "run"
    /\ last' = hand
    /\ cpc' = "size"
    /\ UNCHANGED <<queue, evfd, pc, hand, put>>

Consume == Start \/ Poll \/ ReadEvent \/ CheckSize \/ Pop \/ Run

Next == Consume \/ \E p \in Producers : Push(p) \/ Send(p)

(***************************************************************************)
(* The operating system runs every thread that can run, and the user's     *)
(* callbacks return.  Nobody has to push.                                  *)
(***************************************************************************)
Fairness == WF_vars(Consume) /\ \A p \in Producers : WF_vars(Send(p))

SafeSpec == Init /\ [][Next]_vars

Spec == SafeSpec /\ Fairness

-----------------------------------------------------------------------------
Items == Producers \X (Nat \ {0})

TypeOK ==
    /\ queue \in Seq(Items)
    /\ evfd \in 0..EvMax
    /\ pc \in [Producers -> {"idle", "send"}]
    /\ cpc \in {"off", "wait", "read", "size", "pop", "run"}
    /\ hand \in Items \cup {NULL}
    /\ put \in [Producers -> Nat]
    /\ last \in Items \cup {NULL}

(***************************************************************************)
(* No lost wakeup.  Several sends collapse into one count, one read clears *)
(* them all, and a push and its send are two steps; still, whenever the    *)
(* consumer is outside its loop and work is queued, the eventfd is         *)
(* readable or a producer is about to make it so.                          *)
(***************************************************************************)
NoLostWakeup ==
    queue # << >> /\ cpc \in {"off", "wait", "read"}
        => evfd > 0 \/ \E p \in Producers : pc[p] = "send"

(* size and pop are two critical sections, but there is one consumer: the  *)
(* NULL the callbacks test for never comes.                                *)
PopFindsWork == cpc = "pop" => queue # << >>

HandHolds == cpc = "run" => hand \in Items

(* The inductive invariant behind the theorems of XvChannelProofs. *)
ChannelInv == TypeOK /\ NoLostWakeup /\ PopFindsWork /\ HandHolds

(***************************************************************************)
(* The channel is a FIFO that loses nothing: an item leaves it when its    *)
(* callback has run, so that the item being worked on is still its head.   *)
(***************************************************************************)
Pending == IF cpc = "run" THEN <<hand>> \o queue ELSE queue

Fifo == INSTANCE XvFifo WITH q <- Pending

ImplementsFifo == Fifo!Spec

=============================================================================
