--------------------------- MODULE XvChannelProofs ---------------------------
(***************************************************************************)
(* The wakeup protocol of the library's channels, for any number of        *)
(* producers and pushes and any limit of the eventfd.                      *)
(***************************************************************************)
EXTENDS XvChannel, SequenceTheorems, TLAPS

LEMMA InitInv == Init => ChannelInv
<1> SUFFICES ASSUME Init PROVE ChannelInv
  OBVIOUS
<1>1. TypeOK
  BY ChannelConstants DEF Init, TypeOK, NULL
<1>2. NoLostWakeup /\ PopFindsWork /\ HandHolds
  BY DEF Init, NoLostWakeup, PopFindsWork, HandHolds
<1> QED  BY <1>1, <1>2 DEF ChannelInv

LEMMA NextInv == ChannelInv /\ [Next]_vars => ChannelInv'
<1> SUFFICES ASSUME ChannelInv, [Next]_vars PROVE ChannelInv'
  OBVIOUS
<1> USE ChannelConstants
<1>0. TypeOK /\ NoLostWakeup /\ PopFindsWork /\ HandHolds
  BY DEF ChannelInv
<1>1. ASSUME NEW p \in Producers, Push(p)
      PROVE  ChannelInv'
  <2> DEFINE item == <<p, put[p] + 1>>
  <2>1. put[p] \in Nat /\ item \in Items
    BY <1>0 DEF TypeOK, Items
  <2> HIDE DEF item
  <2>2. queue' = Append(queue, item)
    BY <1>1 DEF Push, item
  <2>3. queue' \in Seq(Items) /\ queue' # << >>
    BY <1>0, <2>1, <2>2, AppendProperties DEF TypeOK
  <2>4. TypeOK'
    BY <1>0, <1>1, <2>1, <2>3 DEF TypeOK, Push
  <2>5. pc'[p] = "send"
    BY <1>0, <1>1 DEF TypeOK, Push
  <2>6. NoLostWakeup' /\ PopFindsWork'
    BY <2>3, <2>5 DEF NoLostWakeup, PopFindsWork
  <2>7. HandHolds'
    BY <1>0, <1>1 DEF HandHolds, Push
  <2> QED  BY <2>4, <2>6, <2>7 DEF ChannelInv
<1>2. ASSUME NEW p \in Producers, Send(p)
      PROVE  ChannelInv'
  <2>1. TypeOK' /\ evfd' > 0
    BY <1>0, <1>2 DEF TypeOK, Send
  <2>2. NoLostWakeup'
    BY <2>1 DEF NoLostWakeup
  <2>3. PopFindsWork' /\ HandHolds'
    BY <1>0, <1>2 DEF PopFindsWork, HandHolds, Send
  <2> QED  BY <2>1, <2>2, <2>3 DEF ChannelInv
<1>3. CASE Start
  BY <1>0, <1>3 DEF ChannelInv, TypeOK, NoLostWakeup, PopFindsWork, HandHolds,
                    Start
<1>4. CASE Poll
  BY <1>0, <1>4 DEF ChannelInv, TypeOK, NoLostWakeup, PopFindsWork, HandHolds,
                    Poll
<1>5. CASE ReadEvent
  BY <1>0, <1>5 DEF ChannelInv, TypeOK, NoLostWakeup, PopFindsWork, HandHolds,
                    ReadEvent
<1>6. CASE CheckSize
  <2>1. Len(queue) > 0 <=> queue # << >>
    BY <1>0, EmptySeq DEF TypeOK
  <2> QED  BY <1>0, <1>6, <2>1 DEF ChannelInv, TypeOK, NoLostWakeup,
                                   PopFindsWork, HandHolds, CheckSize
<1>7. CASE Pop
  <2>1. queue # << >>
    BY <1>0, <1>7 DEF PopFindsWork, Pop
  <2>2. hand' = Head(queue) /\ queue' = Tail(queue) /\ cpc' = "run"
    BY <1>7, <2>1 DEF Pop
  <2>3. hand' \in Items /\ queue' \in Seq(Items)
    BY <1>0, <2>1, <2>2, HeadTailProperties DEF TypeOK
  <2>4. TypeOK'
    BY <1>0, <1>7, <2>2, <2>3 DEF TypeOK, Pop
  <2> QED  BY <2>2, <2>3, <2>4 DEF ChannelInv, NoLostWakeup, PopFindsWork,
                                   HandHolds
<1>8. CASE Run
  BY <1>0, <1>8 DEF ChannelInv, TypeOK, NoLostWakeup, PopFindsWork, HandHolds,
                    Run
<1>9. CASE UNCHANGED vars
  BY <1>0, <1>9 DEF ChannelInv, TypeOK, NoLostWakeup, PopFindsWork, HandHolds,
                    vars
<1> QED  BY <1>1, <1>2, <1>3, <1>4, <1>5, <1>6, <1>7, <1>8, <1>9
         DEF Next, Consume

(* The channel's state always satisfies its inductive invariant. *)
THEOREM ChannelSafe == Spec => []ChannelInv
BY InitInv, NextInv, PTL DEF Spec, SafeSpec

(***************************************************************************)
(* No wakeup is lost, for any number of producers, although sends collapse *)
(* in the eventfd's counter and fail silently when it is full.             *)
(***************************************************************************)
THEOREM WakeupNeverLost == Spec => []NoLostWakeup
<1>1. ChannelInv => NoLostWakeup
  BY DEF ChannelInv
<1> QED  BY <1>1, ChannelSafe, PTL

-----------------------------------------------------------------------------
(* An idle channel is an empty FIFO. *)
LEMMA InitRefines == Init => Fifo!Init
BY DEF Init, Fifo!Init, Pending, NULL, Fifo!Nothing

(* Every step of a thread puts one item, finishes the oldest one, or does  *)
(* not change what is pending.                                             *)
LEMMA NextRefines == ChannelInv /\ [Next]_vars => [Fifo!Next]_(Fifo!vars)
<1> SUFFICES ASSUME ChannelInv, [Next]_vars
             PROVE  [Fifo!Next]_(Fifo!vars)
  OBVIOUS
<1>0. TypeOK /\ PopFindsWork /\ HandHolds
  BY DEF ChannelInv
<1>a. queue \in Seq(Items)
  BY <1>0 DEF TypeOK
<1>1. ASSUME NEW p \in Producers, Push(p)
      PROVE  Fifo!Put(p)
  <2> DEFINE item == <<p, put[p] + 1>>
  <2>1. item \in Items
    BY <1>0 DEF TypeOK, Items
  <2>2. /\ queue' = Append(queue, item)
        /\ put' = [put EXCEPT ![p] = put[p] + 1]
        /\ cpc' = cpc /\ hand' = hand /\ last' = last
    BY <1>1 DEF Push
  <2> HIDE DEF item
  <2>3. CASE cpc = "run"
    <3>1. hand \in Items
      BY <1>0, <2>3 DEF HandHolds
    <3>2. <<hand>> \in Seq(Items) /\ Append(queue, item) = queue \o <<item>>
      BY <1>a, <2>1, <3>1, AppendIsConcat
    <3>3. <<hand>> \o queue \in Seq(Items)
      BY <1>a, <3>2, ConcatProperties
    <3>4. Append(<<hand>> \o queue, item) = (<<hand>> \o queue) \o <<item>>
      BY <2>1, <3>3, AppendIsConcat
    <3>5. (<<hand>> \o queue) \o <<item>> = <<hand>> \o (queue \o <<item>>)
      <4>1. <<item>> \in Seq(Items)
        BY <2>1
      <4> QED  BY <1>a, <3>2, <4>1, ConcatAssociative
    <3>6. Pending' = Append(Pending, item)
      BY <2>2, <2>3, <3>2, <3>4, <3>5 DEF Pending
    <3> QED  BY <2>2, <3>6 DEF Fifo!Put, item
  <2>4. CASE cpc # "run"
    <3>1. Pending' = Append(Pending, item)
      BY <2>2, <2>4 DEF Pending
    <3> QED  BY <2>2, <3>1 DEF Fifo!Put, item
  <2> QED  BY <2>3, <2>4
<1>2. ASSUME NEW p \in Producers, Send(p)
      PROVE  UNCHANGED Fifo!vars
  BY <1>2 DEF Send, Fifo!vars, Pending
<1>3. CASE Start \/ Poll \/ ReadEvent \/ CheckSize
  <2>1. UNCHANGED Fifo!vars
    BY <1>3 DEF Start, Poll, ReadEvent, CheckSize, Fifo!vars, Pending
  <2> QED  BY <2>1
<1>4. CASE Pop
  <2>1. queue # << >>
    BY <1>0, <1>4 DEF PopFindsWork, Pop
  <2>2. /\ hand' = Head(queue) /\ queue' = Tail(queue) /\ cpc' = "run"
        /\ cpc = "pop" /\ put' = put /\ last' = last
    BY <1>4, <2>1 DEF Pop
  <2>3. <<Head(queue)>> \o Tail(queue) = queue
    BY <1>a, <2>1
  <2>4. UNCHANGED Fifo!vars
    BY <2>2, <2>3 DEF Fifo!vars, Pending
  <2> QED  BY <2>4
<1>5. CASE Run
  <2>1. hand \in Items /\ cpc = "run" /\ cpc' = "size" /\ queue' = queue
        /\ last' = hand /\ put' = put
    BY <1>0, <1>5 DEF HandHolds, Run
  <2>2. /\ <<hand>> \o queue # << >>
        /\ Head(<<hand>> \o queue) = hand
        /\ Tail(<<hand>> \o queue) = queue
    BY <1>a, <2>1
  <2>3. Fifo!Get
    BY <2>1, <2>2 DEF Fifo!Get, Pending
  <2> QED  BY <2>3 DEF Fifo!Next
<1>6. CASE UNCHANGED vars
  <2>1. UNCHANGED Fifo!vars
    BY <1>6 DEF vars, Fifo!vars, Pending
  <2> QED  BY <2>1
<1> QED  BY <1>1, <1>2, <1>3, <1>4, <1>5, <1>6 DEF Next, Consume, Fifo!Next

(***************************************************************************)
(* Whatever the interleaving of producers and consumer, the callback sees  *)
(* every item once and in the order of the pushes.  (That it sees each one *)
(* eventually needs the fairness of Spec and is checked by TLC.)           *)
(***************************************************************************)
THEOREM ChannelIsOrdered == Spec => Fifo!Ordered
BY InitRefines, NextRefines, ChannelSafe, PTL DEF Spec, SafeSpec, Fifo!Ordered

=============================================================================
