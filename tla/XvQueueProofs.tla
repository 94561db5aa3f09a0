---------------------------- MODULE XvQueueProofs ----------------------------
(***************************************************************************)
(* The linked list of xv_queue.c is the queue of the channel, for any      *)
(* number of producers and items.                                          *)
(*                                                                         *)
(* The nodes are named by a function from positions to addresses (Chain).  *)
(* A push extends it and a pop drops its first entry; items being          *)
(* distinct, it is the one IsListOf finds by the data of the nodes.        *)
(***************************************************************************)
EXTENDS XvQueue, XvChannelProofs, FiniteSetTheorems

Distinct(q) == \A i, j \in 1..Len(q) : q[i] = q[j] => i = j

Chain(l, q, at) ==
    /\ l.size = Len(q)
    /\ at \in [1..Len(q) -> Addresses]
    /\ DOMAIN l.node = {at[i] : i \in 1..Len(q)}
    /\ \A i \in 1..Len(q) : l.node[at[i]].data = q[i]
    /\ \A i \in 1..Len(q) : i < Len(q) => l.node[at[i]].next = at[i + 1]
    /\ l.head = IF q = << >> THEN NoNode ELSE at[1]
    /\ l.tail = IF q = << >> THEN NoNode ELSE at[Len(q)]

LEMMA ListIsChain ==
    ASSUME NEW l, NEW q \in Seq(Items), IsQueueRecord(l), IsListOf(l, q)
    PROVE  Chain(l, q, [i \in 1..Len(q) |-> Holder(l, q[i])])
<1> DEFINE at == [i \in 1..Len(q) |-> Holder(l, q[i])]
<1>1. Len(q) \in Nat /\ (q # << >> => Len(q) \in Nat \ {0})
  BY LenProperties, EmptySeq
<1>2. \A i \in 1..Len(q) : at[i] = Holder(l, q[i])
  OBVIOUS
<1>3. \A i \in 1..Len(q) : i < Len(q) => i + 1 \in 1..Len(q)
  BY <1>1
<1>4. DOMAIN l.node = {at[i] : i \in 1..Len(q)}
  BY <1>2 DEF IsListOf
<1>5. at \in [1..Len(q) -> Addresses]
  BY <1>4 DEF IsQueueRecord
<1>6. q # << >> => 1 \in 1..Len(q) /\ Len(q) \in 1..Len(q)
  BY <1>1
<1> HIDE DEF at
<1>7. \A i \in 1..Len(q) :
        /\ l.node[at[i]].data = q[i]
        /\ i < Len(q) => l.node[at[i]].next = at[i + 1]
  BY <1>2, <1>3 DEF IsListOf
<1>8. /\ l.head = IF q = << >> THEN NoNode ELSE at[1]
      /\ l.tail = IF q = << >> THEN NoNode ELSE at[Len(q)]
  BY <1>2, <1>6 DEF IsListOf
<1>9. Chain(l, q, at)
  BY <1>4, <1>5, <1>7, <1>8 DEF Chain, IsListOf
<1> QED  BY <1>9 DEF at

LEMMA ChainIsList ==
    ASSUME NEW l, NEW q \in Seq(Items), NEW at, Distinct(q), Chain(l, q, at)
    PROVE  IsListOf(l, q)
<1>1. Len(q) \in Nat /\ (q # << >> => Len(q) \in Nat \ {0})
  BY LenProperties, EmptySeq
<1>2. ASSUME NEW i \in 1..Len(q)
      PROVE  Holder(l, q[i]) = at[i]
  <2>1. at[i] \in DOMAIN l.node /\ l.node[at[i]].data = q[i]
    BY DEF Chain
  <2>2. ASSUME NEW a \in DOMAIN l.node, l.node[a].data = q[i]
        PROVE  a = at[i]
    <3>1. PICK j \in 1..Len(q) : a = at[j]
      BY DEF Chain
    <3>2. q[j] = q[i]
      BY <2>2, <3>1 DEF Chain
    <3> QED  BY <3>1, <3>2 DEF Distinct
  <2> QED  BY <2>1, <2>2 DEF Holder
<1>3. \A i \in 1..Len(q) : i < Len(q) => i + 1 \in 1..Len(q)
  BY <1>1
<1>4. q # << >> => 1 \in 1..Len(q) /\ Len(q) \in 1..Len(q)
  BY <1>1
<1>5. {Holder(l, q[i]) : i \in 1..Len(q)} = {at[i] : i \in 1..Len(q)}
  BY <1>2
<1> QED  BY <1>2, <1>3, <1>4, <1>5 DEF Chain, IsListOf

(* malloc finds a free address: n nodes cannot take n + 1 of them. *)
LEMMA MallocFresh ==
    ASSUME NEW l, IsQueueRecord(l)
    PROVE  Malloc(l) \in Addresses \ DOMAIN l.node
<1> DEFINE n == Cardinality(DOMAIN l.node)
<1>1. n \in Nat /\ IsFiniteSet(DOMAIN l.node)
  BY FS_CardinalityType DEF IsQueueRecord
<1>2. Cardinality(1..(n + 1)) = n + 1
  BY <1>1, FS_Interval
<1>3. ~ (1..(n + 1) \subseteq DOMAIN l.node)
  <2> SUFFICES ASSUME 1..(n + 1) \subseteq DOMAIN l.node PROVE FALSE
    OBVIOUS
  <2>1. Cardinality(1..(n + 1)) <= n
    BY <1>1, FS_Subset
  <2> QED  BY <1>1, <1>2, <2>1
<1>4. \E a \in 1..(n + 1) : a \notin DOMAIN l.node
  BY <1>3
<1>5. Malloc(l) \in 1..(n + 1) /\ Malloc(l) \notin DOMAIN l.node
  BY <1>4 DEF Malloc
<1> QED  BY <1>1, <1>5 DEF Addresses

(***************************************************************************)
(* xv_queue_push puts its item at the end of the list, whether the list is *)
(* empty or not.                                                           *)
(***************************************************************************)
LEMMA PushIsAppend ==
    ASSUME NEW l, NEW q \in Seq(Items), NEW d \in Items,
           IsQueueRecord(l), IsListOf(l, q), Distinct(q), Distinct(Append(q, d))
    PROVE  IsQueueRecord(xv_queue_push(l, d)) /\ IsListOf(xv_queue_push(l, d), Append(q, d))
<1> DEFINE at == [i \in 1..Len(q) |-> Holder(l, q[i])]
           r == Append(q, d)
           a == Malloc(l)
           new == [i \in 1..Len(r) |-> IF i = Len(r) THEN a ELSE at[i]]
           fresh == [b \in DOMAIN l.node \cup {a} |->
                        IF b = a THEN NewNode(d) ELSE l.node[b]]
           p == xv_queue_push(l, d)
<1>1. Chain(l, q, at)
  BY ListIsChain
<1>2. a \in Addresses /\ a \notin DOMAIN l.node
  BY MallocFresh
<1>3. /\ r \in Seq(Items) /\ r # << >>
      /\ Len(r) = Len(q) + 1
      /\ \A i \in 1..Len(q) : r[i] = q[i]
      /\ r[Len(r)] = d
      /\ Len(q) \in Nat
      /\ q # << >> => Len(q) \in Nat \ {0}
  BY AppendProperties, LenProperties, EmptySeq
<1>4. NewNode(d) \in [data : Items, next : Int] /\ NewNode(d).data = d
  BY DEF NewNode, Garbage
<1> HIDE DEF at, r, a, p
<1>5. /\ \A i \in 1..Len(q) : new[i] = at[i]
      /\ new[Len(r)] = a
      /\ 1..Len(r) = (1..Len(q)) \cup {Len(r)}
      /\ Len(r) \notin 1..Len(q)
  BY <1>3
<1>6. new \in [1..Len(r) -> Addresses]
  BY <1>1, <1>2, <1>3 DEF Chain
<1>7. /\ fresh \in [DOMAIN l.node \cup {a} -> [data : Items, next : Int]]
      /\ fresh[a] = NewNode(d)
      /\ \A b \in DOMAIN l.node : fresh[b] = l.node[b]
  BY <1>2, <1>4 DEF IsQueueRecord
<1>8. DOMAIN l.node \cup {a} = {new[i] : i \in 1..Len(r)}
  BY <1>1, <1>5 DEF Chain
<1>9. IsFiniteSet(DOMAIN l.node \cup {a}) /\ DOMAIN l.node \cup {a} \subseteq Addresses
  BY <1>2, FS_AddElement DEF IsQueueRecord
<1> HIDE DEF new, fresh
<1>10. CASE q = << >>
  <2>1. Len(q) = 0 /\ Len(r) = 1
    BY <1>3, <1>10, EmptySeq
  <2>2. l.tail = NoNode /\ l.size = 0
    BY <1>1, <1>10, <2>1 DEF Chain
  <2>3. p = [head |-> a, tail |-> a, size |-> 1, node |-> fresh]
    BY <2>2 DEF p, a, fresh, xv_queue_push
  <2>4. IsQueueRecord(p)
    BY <1>7, <1>9, <2>3 DEF IsQueueRecord
  <2>5. \A i \in 1..Len(r) : i = 1 /\ ~(i < Len(r))
    BY <2>1
  <2>6. Chain(p, r, new)
    BY <1>3, <1>4, <1>5, <1>6, <1>7, <1>8, <2>1, <2>3, <2>5 DEF Chain
  <2>7. IsListOf(p, r)
    BY <1>3, <2>6, ChainIsList DEF r
  <2> QED  BY <2>4, <2>7 DEF p, r
<1>11. CASE q # << >>
  <2> DEFINE last_ == at[Len(q)]
             linked == [fresh EXCEPT ![last_].next = a]
  <2>1. /\ l.tail = last_ /\ l.head = at[1]
        /\ Len(q) \in 1..Len(q) /\ 1 \in 1..Len(q)
        /\ last_ \in DOMAIN l.node /\ l.tail # NoNode
        /\ l.size = Len(q)
    BY <1>1, <1>3, <1>11 DEF Chain, Addresses, NoNode
  <2>2. p = [head |-> l.head, tail |-> a, size |-> Len(r), node |-> linked]
    <3>1. p = [l EXCEPT !.node = [fresh EXCEPT ![l.tail].next = a],
                        !.tail = a,
                        !.size = @ + 1]
      BY <2>1 DEF p, a, fresh, xv_queue_push
    <3> QED  BY <1>3, <2>1, <3>1 DEF IsQueueRecord
  <2>3. /\ linked \in [DOMAIN l.node \cup {a} -> [data : Items, next : Int]]
        /\ linked[last_].next = a
        /\ \A b \in DOMAIN l.node \cup {a} :
            /\ linked[b].data = fresh[b].data
            /\ b # last_ => linked[b].next = fresh[b].next
    BY <1>2, <1>7, <2>1 DEF Addresses
  <2> HIDE DEF linked
  <2>4. IsQueueRecord(p)
    BY <1>9, <2>2, <2>3 DEF IsQueueRecord
  <2>5. ASSUME NEW i \in 1..Len(r)
        PROVE  linked[new[i]].data = r[i]
    <3>1. CASE i = Len(r)
      BY <1>3, <1>4, <1>5, <1>7, <2>3, <3>1
    <3>2. CASE i \in 1..Len(q)
      <4>1. at[i] \in DOMAIN l.node /\ l.node[at[i]].data = q[i]
        BY <1>1, <3>2 DEF Chain
      <4> QED  BY <1>3, <1>5, <1>7, <2>3, <3>2, <4>1
    <3> QED  BY <1>5, <3>1, <3>2
  <2>6. ASSUME NEW i \in 1..Len(r), i < Len(r)
        PROVE  linked[new[i]].next = new[i + 1]
    <3>1. i \in 1..Len(q)
      BY <1>3, <2>6
    <3>2. CASE i = Len(q)
      BY <1>3, <1>5, <2>3, <3>1, <3>2
    <3>3. CASE i # Len(q)
      <4>1. i < Len(q) /\ i + 1 \in 1..Len(q)
        BY <1>3, <3>1, <3>3
      <4>2. /\ at[i] \in DOMAIN l.node
            /\ l.node[at[i]].data = q[i] /\ l.node[last_].data = q[Len(q)]
            /\ l.node[at[i]].next = at[i + 1]
        BY <1>1, <2>1, <3>1, <4>1 DEF Chain
      <4>3. at[i] # last_
        BY <2>1, <3>1, <3>3, <4>2 DEF Distinct
      <4> QED  BY <1>5, <1>7, <2>3, <3>1, <4>1, <4>2, <4>3
    <3> QED  BY <3>2, <3>3
  <2>7. new[1] = l.head
    BY <1>5, <2>1
  <2>8. Chain(p, r, new)
    BY <1>3, <1>5, <1>6, <1>8, <2>2, <2>3, <2>5, <2>6, <2>7 DEF Chain
  <2>9. IsListOf(p, r)
    BY <1>3, <2>8, ChainIsList DEF r
  <2> QED  BY <2>4, <2>9 DEF p, r
<1> QED  BY <1>10, <1>11

(***************************************************************************)
(* xv_queue_pop takes the first item and frees its node: with one node by  *)
(* resetting the pointers, with more by a next that a later push has set.  *)
(***************************************************************************)
LEMMA PopIsTail ==
    ASSUME NEW l, NEW q \in Seq(Items),
           IsQueueRecord(l), IsListOf(l, q), Distinct(q), q # << >>
    PROVE  /\ IsQueueRecord(xv_queue_pop(l))
           /\ IsListOf(xv_queue_pop(l), Tail(q))
           /\ Distinct(Tail(q))
<1> DEFINE at == [i \in 1..Len(q) |-> Holder(l, q[i])]
           r == Tail(q)
           new == [i \in 1..Len(r) |-> at[i + 1]]
           rest == Free(l, l.head)
           p == xv_queue_pop(l)
<1>1. Chain(l, q, at)
  BY ListIsChain
<1>2. /\ r \in Seq(Items)
      /\ Len(r) = Len(q) - 1
      /\ \A i \in 1..Len(r) : r[i] = q[i + 1]
      /\ Len(q) \in Nat \ {0}
  BY HeadTailProperties, EmptySeq
<1> HIDE DEF at, r, p
<1>3. /\ \A i \in 1..Len(r) : i + 1 \in 1..Len(q) /\ i + 1 # 1
      /\ \A j \in 1..Len(q) : j # 1 => j - 1 \in 1..Len(r) /\ (j - 1) + 1 = j
      /\ 1 \in 1..Len(q)
  BY <1>2
<1>4. Distinct(r)
  BY <1>2, <1>3 DEF Distinct
<1>5. /\ l.head = at[1] /\ l.head \in DOMAIN l.node
      /\ l.size = Len(q) /\ l.size > 0
      /\ p = PopNode(l)
  BY <1>1, <1>2, <1>3 DEF Chain, p, xv_queue_pop
<1>6. /\ rest \in [DOMAIN l.node \ {l.head} -> [data : Items, next : Int]]
      /\ \A b \in DOMAIN l.node \ {l.head} : rest[b] = l.node[b]
  BY DEF Free, IsQueueRecord
<1>7. IsFiniteSet(DOMAIN l.node \ {l.head})
  BY FS_RemoveElement DEF IsQueueRecord
<1>8. ASSUME NEW j \in 1..Len(q), j # 1
      PROVE  at[j] \in DOMAIN l.node \ {l.head}
  <2>1. /\ at[j] \in DOMAIN l.node
        /\ l.node[at[j]].data = q[j] /\ l.node[at[1]].data = q[1]
    BY <1>1, <1>3 DEF Chain
  <2> QED  BY <1>3, <1>5, <1>8, <2>1 DEF Distinct
<1>9. \A i \in 1..Len(r) : new[i] = at[i + 1]
  OBVIOUS
<1>10. new \in [1..Len(r) -> Addresses]
  BY <1>1, <1>3 DEF Chain
<1> HIDE DEF new, rest
<1>11. DOMAIN l.node \ {l.head} = {new[i] : i \in 1..Len(r)}
  <2>1. ASSUME NEW b \in DOMAIN l.node \ {l.head}
        PROVE  \E i \in 1..Len(r) : b = new[i]
    <3>1. PICK j \in 1..Len(q) : b = at[j]
      BY <1>1 DEF Chain
    <3>2. j - 1 \in 1..Len(r) /\ (j - 1) + 1 = j
      BY <1>3, <1>5, <3>1
    <3> QED  BY <1>9, <3>1, <3>2
  <2>2. \A i \in 1..Len(r) : new[i] \in DOMAIN l.node \ {l.head}
    BY <1>3, <1>8, <1>9
  <2> QED  BY <2>1, <2>2
<1>12. ASSUME NEW i \in 1..Len(r)
       PROVE  /\ rest[new[i]].data = r[i]
              /\ i < Len(r) => rest[new[i]].next = new[i + 1]
  <2>1. /\ i + 1 \in 1..Len(q)
        /\ i < Len(r) => i + 1 < Len(q) /\ i + 1 \in 1..Len(r)
    BY <1>2
  <2>2. rest[new[i]] = l.node[at[i + 1]]
    BY <1>3, <1>6, <1>8, <1>9
  <2>3. /\ l.node[at[i + 1]].data = q[i + 1]
        /\ i < Len(r) => l.node[at[i + 1]].next = at[(i + 1) + 1]
    BY <1>1, <2>1 DEF Chain
  <2> QED  BY <1>2, <1>9, <2>1, <2>2, <2>3
<1>13. CASE Len(q) = 1
  <2>1. Len(r) = 0 /\ r = << >>
    BY <1>2, <1>13, EmptySeq
  <2>2. p = [head |-> NoNode, tail |-> NoNode, size |-> 0, node |-> rest]
    BY <1>5, <1>13 DEF PopNode, rest
  <2>3. IsQueueRecord(p)
    BY <1>6, <1>7, <2>2 DEF IsQueueRecord
  <2>4. Chain(p, r, new)
    BY <1>6, <1>10, <1>11, <1>12, <2>1, <2>2 DEF Chain
  <2>5. IsListOf(p, r)
    BY <1>2, <1>4, <2>4, ChainIsList
  <2> QED  BY <1>4, <2>3, <2>5 DEF p, r
<1>14. CASE Len(q) # 1
  <2>1. /\ r # << >> /\ Len(r) \in 1..Len(r) /\ 1 \in 1..Len(r)
        /\ Len(r) + 1 = Len(q) /\ 1 < Len(q) /\ Len(q) - 1 = Len(r)
    BY <1>2, <1>14, EmptySeq
  <2>2. l.node[l.head].next = new[1] /\ l.tail = new[Len(r)]
    BY <1>1, <1>3, <1>5, <1>9, <2>1 DEF Chain
  <2>3. p = [l EXCEPT !.head = l.node[l.head].next, !.size = @ - 1, !.node = rest]
    BY <1>5, <1>14 DEF PopNode, rest
  <2>4. p = [head |-> new[1], tail |-> new[Len(r)], size |-> Len(r),
             node |-> rest]
    BY <1>5, <2>1, <2>2, <2>3 DEF IsQueueRecord
  <2>5. IsQueueRecord(p)
    BY <1>6, <1>7, <2>4 DEF IsQueueRecord
  <2>6. Chain(p, r, new)
    BY <1>6, <1>10, <1>11, <1>12, <2>1, <2>4 DEF Chain
  <2>7. IsListOf(p, r)
    BY <1>2, <1>4, <2>6, ChainIsList
  <2> QED  BY <1>4, <2>5, <2>7 DEF p, r
<1> QED  BY <1>13, <1>14

-----------------------------------------------------------------------------
LEMMA QueueInitInv == QueueInit => QueueInv
<1> SUFFICES ASSUME QueueInit PROVE QueueInv
  OBVIOUS
<1>1. ChannelInv
  BY InitInv DEF QueueInit
<1>2. queue = << >> /\ list = xv_queue_init
  BY DEF QueueInit, Init
<1>3. ItemsDistinct
  BY <1>2 DEF ItemsDistinct
<1>4. DOMAIN list.node = {}
  BY <1>2 DEF xv_queue_init
<1>5. IsQueueRecord(list)
  BY <1>2, <1>4, FS_EmptySet DEF IsQueueRecord, xv_queue_init
<1>6. ListHoldsQueue
  BY <1>2, <1>4 DEF ListHoldsQueue, IsListOf, xv_queue_init
<1> QED  BY <1>1, <1>3, <1>5, <1>6 DEF QueueInv

(* A step of the list is one of the channel. *)
LEMMA ListStepIsStep == [QueueNext]_queueVars => [Next]_vars
BY DEF QueueNext, queueVars, NoListStep, ListPop, ListPush, Next, Consume

LEMMA QueueNextInv == QueueInv /\ [QueueNext]_queueVars => QueueInv'
<1> SUFFICES ASSUME QueueInv, [QueueNext]_queueVars PROVE QueueInv'
  OBVIOUS
<1>1. ChannelInv'
  BY ListStepIsStep, NextInv DEF QueueInv
<1>2. /\ IsQueueRecord(list) /\ IsListOf(list, queue) /\ Distinct(queue)
      /\ queue \in Seq(Items)
  BY DEF QueueInv, ItemsDistinct, ListHoldsQueue, ChannelInv, TypeOK, Distinct
<1>3. SUFFICES (IsQueueRecord(list) /\ ItemsDistinct /\ ListHoldsQueue)'
  BY <1>1 DEF QueueInv
<1>4. CASE UNCHANGED <<queue, put, list>>
  BY <1>4 DEF QueueInv, ItemsDistinct, ListHoldsQueue
<1>5. ASSUME NEW p \in Producers, ListPush(p)
      PROVE  (IsQueueRecord(list) /\ ItemsDistinct /\ ListHoldsQueue)'
  <2> DEFINE d == <<p, put[p] + 1>>
  <2>1. put \in [Producers -> Nat] /\ d \in Items
    BY DEF QueueInv, ChannelInv, TypeOK, Items
  <2>2. /\ queue' = Append(queue, d)
        /\ put' = [put EXCEPT ![p] = put[p] + 1]
        /\ list' = xv_queue_push(list, d)
    BY <1>5 DEF ListPush, Push
  <2>3. d[1] = p /\ d[2] = put[p] + 1
    OBVIOUS
  <2> HIDE DEF d
  <2>4. /\ Len(queue') = Len(queue) + 1
        /\ \A i \in 1..Len(queue) : queue'[i] = queue[i]
        /\ queue'[Len(queue) + 1] = d
        /\ Len(queue) \in Nat
    BY <1>2, <2>1, <2>2, AppendProperties, LenProperties
  <2>5. \A i \in 1..Len(queue') : i \in 1..Len(queue) \/ i = Len(queue) + 1
    BY <2>4
  <2>6. \A i \in 1..Len(queue) :
            /\ queue[i][1] \in Producers /\ queue[i][2] \in Nat
            /\ queue[i][2] <= put[queue[i][1]]
    BY <1>2, ElementOfSeq DEF QueueInv, ItemsDistinct, Items
  <2>7. \A i \in 1..Len(queue) : queue[i] # d
    <3> SUFFICES ASSUME NEW i \in 1..Len(queue), queue[i] = d PROVE FALSE
      OBVIOUS
    <3>1. put[p] + 1 <= put[p] /\ put[p] \in Nat
      BY <2>1, <2>3, <2>6
    <3> QED  BY <3>1
  <2>8. Distinct(queue')
    BY <1>2, <2>4, <2>5, <2>7 DEF Distinct
  <2>9. \A i \in 1..Len(queue') : queue'[i][2] <= put'[queue'[i][1]]
    <3> SUFFICES ASSUME NEW i \in 1..Len(queue')
                 PROVE  queue'[i][2] <= put'[queue'[i][1]]
      OBVIOUS
    <3>1. \A r \in Producers : put'[r] \in Nat /\ put[r] \in Nat /\ put[r] <= put'[r]
      BY <2>1, <2>2
    <3>2. CASE i \in 1..Len(queue)
      BY <2>4, <2>6, <3>1, <3>2
    <3>3. CASE i = Len(queue) + 1
      BY <2>1, <2>2, <2>3, <2>4, <3>3
    <3> QED  BY <2>5, <3>2, <3>3
  <2>10. IsQueueRecord(list') /\ IsListOf(list', queue')
    BY <1>2, <2>1, <2>2, <2>8, PushIsAppend
  <2> QED  BY <2>8, <2>9, <2>10
           DEF ItemsDistinct, ListHoldsQueue, Distinct
<1>6. CASE ListPop
  <2>1. queue # << >>
    BY <1>6 DEF QueueInv, ChannelInv, PopFindsWork, ListPop, Pop
  <2>2. queue' = Tail(queue) /\ list' = xv_queue_pop(list) /\ put' = put
    BY <1>6, <2>1 DEF ListPop, Pop
  <2>3. IsQueueRecord(list') /\ IsListOf(list', queue') /\ Distinct(queue')
    BY <1>2, <2>1, <2>2, PopIsTail
  <2>4. \A i \in 1..Len(queue') : queue'[i][2] <= put'[queue'[i][1]]
    <3> SUFFICES ASSUME NEW i \in 1..Len(queue')
                 PROVE  queue'[i][2] <= put'[queue'[i][1]]
      OBVIOUS
    <3>1. queue'[i] = queue[i + 1] /\ i + 1 \in 1..Len(queue)
      BY <1>2, <2>1, <2>2, HeadTailProperties, LenProperties
    <3> QED  BY <2>2, <3>1 DEF QueueInv, ItemsDistinct
  <2> QED  BY <2>3, <2>4
           DEF ItemsDistinct, ListHoldsQueue, Distinct
<1>7. CASE NoListStep
  <2>1. UNCHANGED <<queue, put, list>>
    BY <1>7 DEF NoListStep, Start, Poll, ReadEvent, CheckSize, Run, Send
  <2> QED  BY <1>4, <2>1
<1>8. CASE UNCHANGED queueVars
  BY <1>4, <1>8 DEF queueVars, vars
<1> QED  BY <1>5, <1>6, <1>7, <1>8 DEF QueueNext

(***************************************************************************)
(* Through any sequence of pushes and pops of any number of threads, the   *)
(* list of xv_queue_t has the state its inductive invariant describes.     *)
(***************************************************************************)
THEOREM QueueSafe == QueueSpec => []QueueInv
BY QueueInitInv, QueueNextInv, PTL DEF QueueSpec

(***************************************************************************)
(* The linked list is the queue: xv_queue_pop, which tells the last node   *)
(* by the size, never follows an uninitialised next, and no node is lost.  *)
(***************************************************************************)
THEOREM ListIsQueue == QueueSpec => []ListHoldsQueue
<1>1. QueueInv => ListHoldsQueue
  BY DEF QueueInv
<1> QED  BY <1>1, QueueSafe, PTL

(***************************************************************************)
(* The channel made with the list is a channel, so that what is proved of  *)
(* the one holds of the other: no wakeup is lost and the order is kept.    *)
(***************************************************************************)
THEOREM QueueIsChannel == QueueSpec => Spec
<1>1. QueueInit => Init
  BY DEF QueueInit
<1> QED  BY <1>1, ListStepIsStep, PTL DEF QueueSpec, Spec, SafeSpec

=============================================================================
