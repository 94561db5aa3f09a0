------------------------------- MODULE XvQueue -------------------------------
(***************************************************************************)
(* The linked list inside a channel's queue (xv_queue.c).  The module adds *)
(* the nodes to XvChannel: every push and pop of the channel is also one   *)
(* of the list, in the same critical section, and the list never keeps a   *)
(* step of the channel from happening.                                     *)
(*                                                                         *)
(* A node is a cell [data, next] at an address.  malloc gives a free       *)
(* address and leaves the cell as it is: xv_queue_push sets data and not   *)
(* next, so that the next of the last node is Garbage.                     *)
(***************************************************************************)
EXTENDS XvChannel, Integers, FiniteSets

VARIABLES
    list            \* the xv_queue_t and, as a function of their addresses,
                    \* the allocated nodes

queueVars == <<vars, list>>

Addresses == Nat \ {0}
NoNode    == 0      \* the NULL pointer
Garbage   == -1

xv_queue_init == [head |-> NoNode, tail |-> NoNode, size |-> 0, node |-> << >>]

(* malloc: which free address it returns makes no difference, and there is *)
(* one among the first n + 1 when n nodes are allocated.                   *)
Malloc(l) == CHOOSE a \in 1..(Cardinality(DOMAIN l.node) + 1) :
                a \notin DOMAIN l.node

Free(l, a) == [b \in DOMAIN l.node \ {a} |-> l.node[b]]

(* The cell of a new node; next keeps what the memory held. *)
NewNode(d) == [data |-> d, next |-> Garbage]

xv_queue_push(l, d) ==
    LET a == Malloc(l)
        fresh == [b \in DOMAIN l.node \cup {a} |->
                    IF b = a THEN NewNode(d) ELSE l.node[b]]
    IN  IF l.tail # NoNode
        THEN [l EXCEPT !.node = [fresh EXCEPT ![l.tail].next = a],
                       !.tail = a,
                       !.size = @ + 1]
        ELSE [head |-> a, tail |-> a, size |-> l.size + 1, node |-> fresh]

(* Faulty variant: the last pop leaves the tail behind. *)
PopForgetsTail(l) ==
    [l EXCEPT !.head = IF l.size = 1 THEN NoNode ELSE l.node[l.head].next,
              !.size = @ - 1,
              !.node = Free(l, l.head)]

(* xv_queue_pop of a queue that is not empty: with one node the pointers   *)
(* are reset, with more the head moves on.                                 *)
PopNode(l) ==
    IF l.size = 1
    THEN [head |-> NoNode, tail |-> NoNode, size |-> 0, node |-> Free(l, l.head)]
    ELSE [l EXCEPT !.head = l.node[l.head].next,
                   !.size = @ - 1,
                   !.node = Free(l, l.head)]

xv_queue_pop(l) == IF l.size > 0 THEN PopNode(l) ELSE l

-----------------------------------------------------------------------------
QueueInit == Init /\ list = xv_queue_init

(* xv_concurrent_queue_push: the mutex makes both one step. *)
ListPush(p) ==
    /\ Push(p)
    /\ list' = xv_queue_push(list, <<p, put[p] + 1>>)

(* xv_concurrent_queue_pop *)
ListPop ==
    /\ Pop
    /\ list' = xv_queue_pop(list)

(* The steps that leave the queue alone. *)
NoListStep ==
    /\ \/ Start \/ Poll \/ ReadEvent \/ CheckSize \/ Run
       \/ \E p \in Producers : Send(p)
    /\ UNCHANGED list

QueueNext == NoListStep \/ ListPop \/ \E p \in Producers : ListPush(p)

QueueSpec == QueueInit /\ [][QueueNext]_queueVars /\ Fairness

-----------------------------------------------------------------------------
(* The node of the list that holds an item. *)
Holder(l, d) == CHOOSE a \in DOMAIN l.node : l.node[a].data = d

(***************************************************************************)
(* The list l is the sequence q, whose items are distinct: the nodes that  *)
(* hold them are linked in that order from the head to the tail, both are  *)
(* NULL when there is none, and no other node is allocated.                *)
(***************************************************************************)
IsListOf(l, q) ==
    LET at(i) == Holder(l, q[i])
    IN  /\ l.size = Len(q)
        /\ DOMAIN l.node = {at(i) : i \in 1..Len(q)}
        /\ \A i \in 1..Len(q) :
            /\ l.node[at(i)].data = q[i]
            /\ i < Len(q) => l.node[at(i)].next = at(i + 1)
        /\ l.head = IF q = << >> THEN NoNode ELSE at(1)
        /\ l.tail = IF q = << >> THEN NoNode ELSE at(Len(q))

(***************************************************************************)
(* The list is the queue: through any sequence of pushes and pops, with    *)
(* the list emptied and filled again and addresses reused, its nodes in    *)
(* order hold the queued items, the tail is the last of them, empty means  *)
(* both pointers are NULL, and no node is allocated that the list has      *)
(* lost.  In particular pop, which decides by size, never follows the      *)
(* uninitialised next of the last node.                                    *)
(***************************************************************************)
ListHoldsQueue == IsListOf(list, queue)

(* The items in the queue are distinct, and a new one will be, too. *)
ItemsDistinct ==
    /\ \A i, j \in 1..Len(queue) : queue[i] = queue[j] => i = j
    /\ \A i \in 1..Len(queue) : queue[i][2] <= put[queue[i][1]]

(* The fields of an xv_queue_t, and its nodes at finitely many addresses. *)
IsQueueRecord(l) ==
    /\ l = [head |-> l.head, tail |-> l.tail, size |-> l.size, node |-> l.node]
    /\ IsFiniteSet(DOMAIN l.node) /\ DOMAIN l.node \subseteq Addresses
    /\ l.node \in [DOMAIN l.node -> [data : Items, next : Int]]

(* The inductive invariant behind the theorems of XvQueueProofs. *)
QueueInv == ChannelInv /\ IsQueueRecord(list) /\ ItemsDistinct /\ ListHoldsQueue

=============================================================================
