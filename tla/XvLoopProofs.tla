----------------------------- MODULE XvLoopProofs -----------------------------
(***************************************************************************)
(* XvLoop for every number of descriptors and xv_io_t's, as long as        *)
(* setsize is above every descriptor, so that the table never grows.       *)
(***************************************************************************)
EXTENDS XvLoop, TLAPS

FdsFit == \A f \in Fds : f < SetSize

(* The registered events and epoll's names for them. *)
LEMMA EpollMasks ==
    /\ ToEpoll({"READ"}) = {"EPOLLIN"}
    /\ ToEpoll({"WRITE"}) = {"EPOLLOUT"}
    /\ \A m : ToEpoll(m) \subseteq {"EPOLLIN", "EPOLLOUT"}
    /\ \A m : FromEpoll(m) \subseteq XV_ALL_EVENT
BY DEF ToEpoll, FromEpoll, XV_ALL_EVENT

LEMMA InitSafe == Init => LoopInv
<1> SUFFICES ASSUME Init PROVE LoopInv
    OBVIOUS
<1> USE LoopConstants DEF Init
<1>1. TypeOK
    BY DEF TypeOK, XV_ALL_EVENT
<1>2. PollerInSync
    BY DEF PollerInSync
<1>3. TableMatches
    BY DEF TableMatches, ReadPointers, WritePointers, MaskMatches, Registered
<1> QED
    BY <1>1, <1>2, <1>3 DEF LoopInv

(* A step that leaves the xv_io_t's, the table and epoll alone. *)
LEMMA TableUntouched ==
    ASSUME LoopInv, UNCHANGED <<ioVars, tableVars, interest>>
    PROVE  PollerInSync' /\ TableMatches'
BY DEF LoopInv, ioVars, tableVars, PollerInSync, TableMatches, ReadPointers,
       WritePointers, MaskMatches, Registered

Interests == [Fds -> (SUBSET {"EPOLLIN", "EPOLLOUT"}) \cup {NULL}]

(* xv_poller_add_event keeps epoll in step with the loop's mask. *)
LEMMA AddInSync ==
    ASSUME LoopInv, NEW f \in Fds, NEW e \in SUBSET XV_ALL_EVENT, e # {},
           event' = [event EXCEPT ![f] = @ \cup e],
           xv_poller_add_event(f, event[f], e)
    PROVE  PollerInSync' /\ interest' \in Interests
<1>1. /\ event \in [Fds -> SUBSET XV_ALL_EVENT]
      /\ interest \in Interests
      /\ PollerInSync
    BY DEF LoopInv, TypeOK, Interests
<1>2. \A g \in Fds : event'[g] = IF g = f THEN event[f] \cup e ELSE event[g]
    BY <1>1
<1>3. interest' = [interest EXCEPT ![f] = ToEpoll(event[f] \cup e)]
  <2>1. CASE event[f] = {}
    <3>1. interest[f] = NULL /\ event[f] \cup e = e
        BY <1>1, <2>1 DEF PollerInSync
    <3> QED
        BY <2>1, <3>1 DEF xv_poller_add_event, xv_poller_modify_event
  <2>2. CASE event[f] # {}
    <3>1. interest[f] = ToEpoll(event[f])
        BY <1>1, <2>2 DEF PollerInSync
    <3>2. ToEpoll(event[f]) \in SUBSET {"EPOLLIN", "EPOLLOUT", "EPOLLHUP"}
        BY EpollMasks
    <3>3. interest[f] # NULL /\ e \cup event[f] = event[f] \cup e
        BY <3>1, <3>2, LoopConstants
    <3> QED
        BY <2>2, <3>3 DEF xv_poller_add_event, xv_poller_modify_event
  <2> QED
    BY <2>1, <2>2
<1>4. ToEpoll(event[f] \cup e) \in (SUBSET {"EPOLLIN", "EPOLLOUT"}) \cup {NULL}
    BY EpollMasks
<1>5. interest' \in Interests
    BY <1>1, <1>3, <1>4 DEF Interests
<1>6. \A g \in Fds :
        interest'[g] = IF g = f THEN ToEpoll(event[f] \cup e) ELSE interest[g]
    BY <1>1, <1>3 DEF Interests
<1>7. PollerInSync'
    BY <1>1, <1>2, <1>6 DEF PollerInSync
<1> QED
    BY <1>5, <1>7

(* xv_poller_del_event does. *)
LEMMA DelInSync ==
    ASSUME LoopInv, NEW f \in Fds, NEW e \in SUBSET XV_ALL_EVENT,
           event[f] # {},
           event' = [event EXCEPT ![f] = @ \ e],
           xv_poller_del_event(f, event[f], e)
    PROVE  PollerInSync' /\ interest' \in Interests
<1> DEFINE mask == event[f] \ e
<1>1. /\ event \in [Fds -> SUBSET XV_ALL_EVENT]
      /\ interest \in Interests
      /\ PollerInSync
    BY DEF LoopInv, TypeOK, Interests
<1>2. \A g \in Fds : event'[g] = IF g = f THEN mask ELSE event[g]
    BY <1>1
<1>3. interest[f] # NULL
  <2>1. interest[f] = ToEpoll(event[f])
    BY <1>1 DEF PollerInSync
  <2>2. ToEpoll(event[f]) \in SUBSET {"EPOLLIN", "EPOLLOUT", "EPOLLHUP"}
    BY EpollMasks
  <2> QED
    BY <2>1, <2>2, LoopConstants
<1>4. interest' = [interest EXCEPT ![f] =
                        IF mask = {} THEN NULL ELSE ToEpoll(mask)]
    BY <1>3 DEF xv_poller_del_event, xv_poller_modify_event
<1>5. (IF mask = {} THEN NULL ELSE ToEpoll(mask))
            \in (SUBSET {"EPOLLIN", "EPOLLOUT"}) \cup {NULL}
    BY EpollMasks
<1> HIDE DEF mask
<1>6. interest' \in Interests
    BY <1>1, <1>4, <1>5 DEF Interests
<1>7. \A g \in Fds :
        interest'[g] = IF g = f THEN IF mask = {} THEN NULL ELSE ToEpoll(mask)
                                ELSE interest[g]
    BY <1>1, <1>4 DEF Interests
<1>8. PollerInSync'
    BY <1>1, <1>2, <1>7 DEF PollerInSync
<1> QED
    BY <1>6, <1>8

(* With no other started xv_io_t for the event, the entry is free. *)
LEMMA EntryIsFree ==
    ASSUME LoopInv, NEW i \in Ios, MayStart(i), ~ io_start[i]
    PROVE  /\ io_event[i] = {"READ"} => read_io[io_fd[i]] = NULL
           /\ io_event[i] = {"WRITE"} => write_io[io_fd[i]] = NULL
<1>1. i \in alive /\ io_fd[i] \in Fds
    BY DEF MayStart, LoopInv
<1>2. ASSUME io_event[i] = {"READ"}, read_io[io_fd[i]] # NULL PROVE FALSE
  <2>1. PICK j \in Ios : read_io[io_fd[i]] = j
    BY <1>1, <1>2 DEF LoopInv, TypeOK
  <2>2. j \in alive /\ io_start[j] /\ io_fd[j] = io_fd[i] /\ io_event[j] = {"READ"}
    BY <1>1, <2>1 DEF LoopInv, TableMatches, ReadPointers, Registered
  <2> QED
    BY <1>2, <2>2 DEF MayStart
<1>3. ASSUME io_event[i] = {"WRITE"}, write_io[io_fd[i]] # NULL PROVE FALSE
  <2>1. PICK j \in Ios : write_io[io_fd[i]] = j
    BY <1>1, <1>3 DEF LoopInv, TypeOK
  <2>2. j \in alive /\ io_start[j] /\ io_fd[j] = io_fd[i] /\ io_event[j] = {"WRITE"}
    BY <1>1, <2>1 DEF LoopInv, TableMatches, WritePointers, Registered
  <2> QED
    BY <1>3, <2>2 DEF MayStart
<1> QED
    BY <1>2, <1>3

(* The table has an entry for every descriptor. *)
LEMMA EntryExists ==
    ASSUME FdsFit, LoopInv, NEW f \in Fds
    PROVE  ~ (f >= setsize)
<1>1. f \in Nat /\ SetSize \in Nat /\ setsize \in Nat
    BY LoopConstants DEF LoopInv, TypeOK
<1>2. f < SetSize /\ setsize >= SetSize
    BY DEF FdsFit, LoopInv
<1> QED
    BY <1>1, <1>2

(* xv_io_start *)
LEMMA StartSafe ==
    ASSUME FdsFit, LoopInv, NEW i \in Ios, xv_io_start(i)
    PROVE  LoopInv'
<1> DEFINE f == io_fd[i]
           e == io_event[i]
<1>1. /\ i \in alive /\ f \in Fds
      /\ e \in {{"READ"}, {"WRITE"}, XV_ALL_EVENT}
      /\ MayStart(i) /\ ~ io_start[i]
    BY DEF xv_io_start, MayStart, LoopInv
<1>2. TypeOK /\ PollerInSync /\ TableMatches
    BY DEF LoopInv
<1>3. UNCHANGED <<alive, io_fd, io_event, runVars, start, ready>>
      /\ io_start' = [io_start EXCEPT ![i] = TRUE]
      /\ xv_loop_add_event(i)
    BY DEF xv_io_start
<1>4. UNCHANGED <<setsize, table>>
  <2>1. ~ (f >= setsize)
    BY <1>1, EntryExists
  <2> QED
    BY <1>3, <2>1 DEF xv_loop_add_event, xv_loop_resize
<1>5. \A j \in Ios : io_start'[j] = IF j = i THEN TRUE ELSE io_start[j]
    BY <1>2, <1>3 DEF TypeOK
<1>6. CASE e = XV_ALL_EVENT
  <2>1. UNCHANGED <<event, read_io, write_io, interest>>
    BY <1>3, <1>6 DEF xv_loop_add_event
  <2>2. TypeOK'
    BY <1>2, <1>3, <1>4, <2>1 DEF TypeOK, runVars
  <2>3. PollerInSync'
    BY <1>2, <2>1 DEF PollerInSync
  <2>4. TableMatches'
    BY <1>1, <1>2, <1>3, <1>5, <1>6, <2>1
       DEF TableMatches, ReadPointers, WritePointers, MaskMatches, Registered
  <2> QED
    BY <1>3, <1>4, <2>2, <2>3, <2>4 DEF LoopInv, runVars
<1>7. CASE e # XV_ALL_EVENT
  <2>1. /\ read_io' = [read_io EXCEPT ![f] = IF "READ" \in e THEN i ELSE @]
        /\ write_io' = [write_io EXCEPT ![f] = IF "WRITE" \in e THEN i ELSE @]
        /\ event' = [event EXCEPT ![f] = @ \cup e]
        /\ xv_poller_add_event(f, event[f], e)
    BY <1>3, <1>7 DEF xv_loop_add_event
  <2>2. e \in SUBSET XV_ALL_EVENT /\ e # {}
    BY <1>1 DEF XV_ALL_EVENT
  <2>3. PollerInSync' /\ interest' \in Interests
    BY <1>1, <2>1, <2>2, AddInSync
  <2>4. /\ event' \in [Fds -> SUBSET XV_ALL_EVENT]
        /\ read_io' \in [Fds -> Ios \cup {NULL}]
        /\ write_io' \in [Fds -> Ios \cup {NULL}]
    BY <1>1, <1>2, <2>1, <2>2 DEF TypeOK
  <2>5. TypeOK'
    BY <1>2, <1>3, <1>4, <2>3, <2>4 DEF TypeOK, Interests, runVars
  <2>6. \A g \in Fds :
            /\ event'[g] = IF g = f THEN event[g] \cup e ELSE event[g]
            /\ read_io'[g] = IF g = f /\ "READ" \in e THEN i ELSE read_io[g]
            /\ write_io'[g] = IF g = f /\ "WRITE" \in e THEN i ELSE write_io[g]
    BY <1>2, <2>1 DEF TypeOK
  <2>7. /\ e = {"READ"} => read_io[f] = NULL
        /\ e = {"WRITE"} => write_io[f] = NULL
    BY <1>1, EntryIsFree
  <2>8. i # NULL /\ NULL \notin Ios
    BY LoopConstants
  <2>9. e = {"READ"} \/ e = {"WRITE"}
    BY <1>1, <1>7
  <2> HIDE DEF f, e
  <2>10. ReadPointers'
    <3> SUFFICES ASSUME NEW g \in Fds, NEW j \in Ios
                 PROVE  (read_io[g] = j <=> /\ Registered(j)
                                           /\ io_fd[j] = g
                                           /\ io_event[j] = {"READ"})'
        BY DEF ReadPointers
    <3>1. read_io[g] = j <=> /\ Registered(j) /\ io_fd[j] = g
                             /\ io_event[j] = {"READ"}
        BY <1>2 DEF TableMatches, ReadPointers
    <3>2. e = io_event[i] /\ f = io_fd[i]
        BY DEF e, f
    <3>3. CASE j = i
        BY <1>1, <1>3, <1>5, <2>6, <2>7, <2>8, <2>9, <3>1, <3>2, <3>3
           DEF Registered, XV_ALL_EVENT
    <3>4. CASE j # i
      <4>1. read_io'[g] = j <=> read_io[g] = j
        <5>1. CASE g = f /\ e = {"READ"}
            BY <2>6, <2>7, <2>8, <3>4, <5>1
        <5>2. CASE g # f \/ e # {"READ"}
            BY <2>6, <2>9, <5>2
        <5> QED
            BY <5>1, <5>2
      <4>2. Registered(j)' <=> Registered(j)
        BY <1>3, <1>5, <3>4 DEF Registered
      <4> QED
        BY <1>3, <3>1, <4>1, <4>2
    <3> QED
        BY <3>3, <3>4
  <2>11. WritePointers'
    <3> SUFFICES ASSUME NEW g \in Fds, NEW j \in Ios
                 PROVE  (write_io[g] = j <=> /\ Registered(j)
                                            /\ io_fd[j] = g
                                            /\ io_event[j] = {"WRITE"})'
        BY DEF WritePointers
    <3>1. write_io[g] = j <=> /\ Registered(j) /\ io_fd[j] = g
                              /\ io_event[j] = {"WRITE"}
        BY <1>2 DEF TableMatches, WritePointers
    <3>2. e = io_event[i] /\ f = io_fd[i]
        BY DEF e, f
    <3>3. CASE j = i
        BY <1>1, <1>3, <1>5, <2>6, <2>7, <2>8, <2>9, <3>1, <3>2, <3>3
           DEF Registered, XV_ALL_EVENT
    <3>4. CASE j # i
      <4>1. write_io'[g] = j <=> write_io[g] = j
        <5>1. CASE g = f /\ e = {"WRITE"}
            BY <2>6, <2>7, <2>8, <3>4, <5>1
        <5>2. CASE g # f \/ e # {"WRITE"}
            BY <2>6, <2>9, <5>2
        <5> QED
            BY <5>1, <5>2
      <4>2. Registered(j)' <=> Registered(j)
        BY <1>3, <1>5, <3>4 DEF Registered
      <4> QED
        BY <1>3, <3>1, <4>1, <4>2
    <3> QED
        BY <3>3, <3>4
  <2>12. MaskMatches'
    BY <1>2, <2>6, <2>8, <2>9 DEF TableMatches, MaskMatches
  <2> QED
    BY <1>3, <1>4, <2>3, <2>5, <2>10, <2>11, <2>12
       DEF LoopInv, TableMatches, runVars
<1> QED
    BY <1>6, <1>7

(* xv_io_stop *)
LEMMA StopSafe ==
    ASSUME FdsFit, LoopInv, NEW i \in Ios, xv_io_stop(i)
    PROVE  LoopInv'
<1> DEFINE f == io_fd[i]
           e == io_event[i]
<1>1. /\ i \in alive /\ f \in Fds
      /\ e \in {{"READ"}, {"WRITE"}, XV_ALL_EVENT}
      /\ io_start[i]
    BY DEF xv_io_stop, LoopInv
<1>2. TypeOK /\ PollerInSync /\ TableMatches
    BY DEF LoopInv
<1>3. UNCHANGED <<alive, io_fd, io_event, runVars, start, ready>>
      /\ io_start' = [io_start EXCEPT ![i] = FALSE]
      /\ xv_loop_del_event(i)
    BY DEF xv_io_stop
<1>4. UNCHANGED <<setsize, table>> /\ ~ (f >= setsize)
    BY <1>1, <1>3, EntryExists DEF xv_loop_del_event
<1>5. \A j \in Ios : io_start'[j] = IF j = i THEN FALSE ELSE io_start[j]
    BY <1>2, <1>3 DEF TypeOK
<1>6. CASE e = XV_ALL_EVENT
  <2>1. UNCHANGED <<event, read_io, write_io, interest>>
    BY <1>3, <1>6 DEF xv_loop_del_event
  <2>2. TypeOK'
    BY <1>2, <1>3, <1>4, <2>1 DEF TypeOK, runVars
  <2>3. PollerInSync'
    BY <1>2, <2>1 DEF PollerInSync
  <2>4. TableMatches'
    BY <1>1, <1>2, <1>3, <1>5, <1>6, <2>1
       DEF TableMatches, ReadPointers, WritePointers, MaskMatches, Registered
  <2> QED
    BY <1>3, <1>4, <2>2, <2>3, <2>4 DEF LoopInv, runVars
<1>7. CASE e # XV_ALL_EVENT
  <2>1. /\ read_io' = [read_io EXCEPT ![f] = IF "READ" \in e THEN NULL ELSE @]
        /\ write_io' = [write_io EXCEPT ![f] = IF "WRITE" \in e THEN NULL ELSE @]
        /\ event' = [event EXCEPT ![f] = @ \ e]
        /\ xv_poller_del_event(f, event[f], e)
    BY <1>3, <1>4, <1>7 DEF xv_loop_del_event
  <2>2. e \in SUBSET XV_ALL_EVENT
    BY <1>1 DEF XV_ALL_EVENT
  <2>7. /\ e = {"READ"} => read_io[f] = i
        /\ e = {"WRITE"} => write_io[f] = i
    BY <1>1, <1>2, <1>7
       DEF TableMatches, ReadPointers, WritePointers, Registered
  <2>8. i # NULL /\ NULL \notin Ios
    BY LoopConstants
  <2>9. e = {"READ"} \/ e = {"WRITE"}
    BY <1>1, <1>7
  <2>3. PollerInSync' /\ interest' \in Interests
    <3>1. event[f] # {}
        BY <1>1, <1>2, <2>7, <2>8, <2>9 DEF TableMatches, MaskMatches
    <3> QED
        BY <1>1, <2>1, <2>2, <3>1, DelInSync
  <2>4. /\ event' \in [Fds -> SUBSET XV_ALL_EVENT]
        /\ read_io' \in [Fds -> Ios \cup {NULL}]
        /\ write_io' \in [Fds -> Ios \cup {NULL}]
    BY <1>1, <1>2, <2>1, <2>2 DEF TypeOK
  <2>5. TypeOK'
    BY <1>2, <1>3, <1>4, <2>3, <2>4 DEF TypeOK, Interests, runVars
  <2>6. \A g \in Fds :
            /\ event'[g] = IF g = f THEN event[g] \ e ELSE event[g]
            /\ read_io'[g] = IF g = f /\ "READ" \in e THEN NULL ELSE read_io[g]
            /\ write_io'[g] = IF g = f /\ "WRITE" \in e THEN NULL ELSE write_io[g]
    BY <1>2, <2>1 DEF TypeOK
  <2> HIDE DEF f, e
  <2>10. ReadPointers'
    <3> SUFFICES ASSUME NEW g \in Fds, NEW j \in Ios
                 PROVE  (read_io[g] = j <=> /\ Registered(j)
                                           /\ io_fd[j] = g
                                           /\ io_event[j] = {"READ"})'
        BY DEF ReadPointers
    <3>1. read_io[g] = j <=> /\ Registered(j) /\ io_fd[j] = g
                             /\ io_event[j] = {"READ"}
        BY <1>2 DEF TableMatches, ReadPointers
    <3>2. e = io_event[i] /\ f = io_fd[i]
        BY DEF e, f
    <3>3. CASE j = i
      <4>1. ~ Registered(j)'
        BY <1>5, <3>3 DEF Registered
      <4>2. read_io'[g] # j
        <5>1. CASE g = f /\ e = {"READ"}
            BY <2>6, <2>8, <5>1
        <5>2. CASE g # f \/ e # {"READ"}
          <6>1. read_io[g] # j
            BY <3>1, <3>2, <3>3, <5>2
          <6> QED
            BY <2>6, <2>9, <5>2, <6>1
        <5> QED
            BY <5>1, <5>2
      <4> QED
        BY <4>1, <4>2
    <3>4. CASE j # i
      <4>1. read_io'[g] = j <=> read_io[g] = j
        <5>1. CASE g = f /\ e = {"READ"}
            BY <2>6, <2>7, <2>8, <3>4, <5>1
        <5>2. CASE g # f \/ e # {"READ"}
            BY <2>6, <2>9, <5>2
        <5> QED
            BY <5>1, <5>2
      <4>2. Registered(j)' <=> Registered(j)
        BY <1>3, <1>5, <3>4 DEF Registered
      <4> QED
        BY <1>3, <3>1, <4>1, <4>2
    <3> QED
        BY <3>3, <3>4
  <2>11. WritePointers'
    <3> SUFFICES ASSUME NEW g \in Fds, NEW j \in Ios
                 PROVE  (write_io[g] = j <=> /\ Registered(j)
                                           /\ io_fd[j] = g
                                           /\ io_event[j] = {"WRITE"})'
        BY DEF WritePointers
    <3>1. write_io[g] = j <=> /\ Registered(j) /\ io_fd[j] = g
                             /\ io_event[j] = {"WRITE"}
        BY <1>2 DEF TableMatches, WritePointers
    <3>2. e = io_event[i] /\ f = io_fd[i]
        BY DEF e, f
    <3>3. CASE j = i
      <4>1. ~ Registered(j)'
        BY <1>5, <3>3 DEF Registered
      <4>2. write_io'[g] # j
        <5>1. CASE g = f /\ e = {"WRITE"}
            BY <2>6, <2>8, <5>1
        <5>2. CASE g # f \/ e # {"WRITE"}
          <6>1. write_io[g] # j
            BY <3>1, <3>2, <3>3, <5>2
          <6> QED
            BY <2>6, <2>9, <5>2, <6>1
        <5> QED
            BY <5>1, <5>2
      <4> QED
        BY <4>1, <4>2
    <3>4. CASE j # i
      <4>1. write_io'[g] = j <=> write_io[g] = j
        <5>1. CASE g = f /\ e = {"WRITE"}
            BY <2>6, <2>7, <2>8, <3>4, <5>1
        <5>2. CASE g # f \/ e # {"WRITE"}
            BY <2>6, <2>9, <5>2
        <5> QED
            BY <5>1, <5>2
      <4>2. Registered(j)' <=> Registered(j)
        BY <1>3, <1>5, <3>4 DEF Registered
      <4> QED
        BY <1>3, <3>1, <4>1, <4>2
    <3> QED
        BY <3>3, <3>4
  <2>12. MaskMatches'
    BY <1>2, <2>6, <2>8, <2>9 DEF TableMatches, MaskMatches
  <2> QED
    BY <1>3, <1>4, <2>3, <2>5, <2>10, <2>11, <2>12
       DEF LoopInv, TableMatches, runVars
<1> QED
    BY <1>6, <1>7

(* xv_io_init: the memory it gets is in no entry. *)
LEMMA InitIoSafe ==
    ASSUME LoopInv, NEW i \in Ios, NEW f \in Fds,
           NEW e \in {{"READ"}, {"WRITE"}, XV_ALL_EVENT}, xv_io_init(i, f, e)
    PROVE  LoopInv'
<1> USE DEF xv_io_init, tableVars, runVars
<1>1. TypeOK'
    BY DEF LoopInv, TypeOK, XV_ALL_EVENT
<1>2. PollerInSync'
    BY DEF LoopInv, PollerInSync
<1>3. \A j \in Ios : /\ Registered(j)' <=> Registered(j)
                     /\ j # i => io_fd'[j] = io_fd[j] /\ io_event'[j] = io_event[j]
    BY DEF LoopInv, TypeOK, Registered
<1>4. ~ Registered(i)
    BY DEF Registered
<1>5. TableMatches'
    BY <1>3, <1>4
       DEF LoopInv, TableMatches, ReadPointers, WritePointers, MaskMatches
<1>6. (\A j \in alive : /\ io_fd[j] \in Fds
                        /\ io_event[j] \in {{"READ"}, {"WRITE"}, XV_ALL_EVENT})'
    BY DEF LoopInv, TypeOK
<1> QED
    BY <1>1, <1>2, <1>5, <1>6 DEF LoopInv

(* xv_io_destroy: what is freed is in no entry. *)
LEMMA DestroyIoSafe ==
    ASSUME LoopInv, NEW i \in Ios, xv_io_destroy(i)
    PROVE  LoopInv'
<1> USE DEF xv_io_destroy, Freed, tableVars, runVars
<1>1. TypeOK'
    BY DEF LoopInv, TypeOK, XV_ALL_EVENT
<1>2. PollerInSync'
    BY DEF LoopInv, PollerInSync
<1>3. \A j \in Ios : /\ Registered(j)' <=> Registered(j)
                     /\ j # i => io_fd'[j] = io_fd[j] /\ io_event'[j] = io_event[j]
    BY DEF LoopInv, TypeOK, Registered
<1>4. ~ Registered(i)
    BY DEF Registered
<1>5. TableMatches'
    BY <1>3, <1>4
       DEF LoopInv, TableMatches, ReadPointers, WritePointers, MaskMatches
<1>6. (\A j \in alive : /\ io_fd[j] \in Fds
                        /\ io_event[j] \in {{"READ"}, {"WRITE"}, XV_ALL_EVENT})'
    BY DEF LoopInv, TypeOK
<1> QED
    BY <1>1, <1>2, <1>5, <1>6 DEF LoopInv

(* close(2) of a descriptor nothing waits on: epoll had no entry for it. *)
LEMMA CloseSafe ==
    ASSUME LoopInv, NEW f \in Fds, Close(f)
    PROVE  LoopInv'
<1> USE DEF Close, ioVars, tableVars, runVars
<1>1. event[f] = {}
  <2>1. \A i \in Ios : read_io[f] # i /\ write_io[f] # i
    BY DEF LoopInv, TableMatches, ReadPointers, WritePointers, Registered
  <2>2. read_io[f] = NULL /\ write_io[f] = NULL
    BY <2>1 DEF LoopInv, TypeOK
  <2> QED
    BY <2>2 DEF LoopInv, TypeOK, TableMatches, MaskMatches, XV_ALL_EVENT
<1>2. interest[f] = NULL
    BY <1>1 DEF LoopInv, PollerInSync
<1>3. interest' = interest
    BY <1>2 DEF LoopInv, TypeOK
<1>4. PollerInSync' /\ TableMatches'
    BY <1>3, TableUntouched
<1>5. TypeOK'
    BY <1>3 DEF LoopInv, TypeOK
<1> QED
    BY <1>4, <1>5 DEF LoopInv

(* The steps of the loop itself, of the kernel, and the calls that touch   *)
(* neither the xv_io_t's nor the table's entries.                          *)
LEMMA OtherSafe ==
    ASSUME LoopInv,
           \/ LoopStep
           \/ \E f \in Fds : Open(f)
           \/ \E m \in {"run", "once"} : Run(m)
           \/ xv_loop_break
           \/ xv_loop_destroy
           \/ \E f \in Fds : \E c \in Conditions : Change(f, c)
           \/ UNCHANGED vars
    PROVE  LoopInv'
<1> DEFINE CurSet == pc \in {"read", "readcb", "write", "writecb"} => cur \in Fds
<1> USE DEF ioVars, tableVars, runVars
<1>1. ASSUME UNCHANGED <<ioVars, event, read_io, write_io, setsize, interest>>,
             TypeOK', CurSet'
      PROVE  LoopInv'
  <2>1. PollerInSync' /\ TableMatches'
    BY <1>1 DEF LoopInv, PollerInSync, TableMatches, ReadPointers,
       WritePointers, MaskMatches, Registered
  <2> QED
    BY <1>1, <2>1 DEF LoopInv
<1>2. TypeOK /\ CurSet
    BY DEF LoopInv
<1>3. CASE Poll
  <2>1. fired' \in [Fds -> SUBSET XV_ALL_EVENT]
    BY <1>3, EpollMasks DEF Poll
  <2>2. TypeOK' /\ CurSet'
    BY <1>2, <1>3, <2>1 DEF Poll, TypeOK
  <2> QED
    BY <1>1, <1>3, <2>2 DEF Poll
<1>4. ASSUME NEW f \in Fds, Dispatch(f) PROVE LoopInv'
  <2>1. TypeOK' /\ CurSet'
    BY <1>2, <1>4 DEF Dispatch, TypeOK
  <2> QED
    BY <1>1, <1>4, <2>1 DEF Dispatch
<1>5. CASE DispatchRead
  <2>1. cur \in Fds /\ cb' \in Ios \cup {NULL}
    BY <1>2, <1>5 DEF DispatchRead, TypeOK
  <2>2. TypeOK' /\ CurSet'
    BY <1>2, <1>5, <2>1 DEF DispatchRead, TypeOK
  <2> QED
    BY <1>1, <1>5, <2>2 DEF DispatchRead
<1>6. CASE DispatchWrite
  <2>1. cur \in Fds /\ cb' \in Ios \cup {NULL}
    BY <1>2, <1>6 DEF DispatchWrite, TypeOK
  <2>2. fired' \in [Fds -> SUBSET XV_ALL_EVENT]
    BY <1>2, <1>6, <2>1 DEF DispatchWrite, TypeOK
  <2>3. TypeOK' /\ CurSet'
    BY <1>2, <1>6, <2>1, <2>2 DEF DispatchWrite, TypeOK
  <2> QED
    BY <1>1, <1>6, <2>3 DEF DispatchWrite
<1>7. CASE CallbackReturns
  <2>1. TypeOK' /\ CurSet'
    BY <1>2, <1>7 DEF CallbackReturns, TypeOK
  <2> QED
    BY <1>1, <1>7, <2>1 DEF CallbackReturns
<1>8. CASE EndOfBatch
  <2>1. TypeOK' /\ CurSet'
    BY <1>2, <1>8 DEF EndOfBatch, TypeOK
  <2> QED
    BY <1>1, <1>8, <2>1 DEF EndOfBatch
<1>9. ASSUME NEW f \in Fds, Open(f) PROVE LoopInv'
  <2>1. TypeOK' /\ CurSet'
    BY <1>2, <1>9, LoopConstants DEF Open, TypeOK
  <2> QED
    BY <1>1, <1>9, <2>1 DEF Open
<1>10. ASSUME NEW m \in {"run", "once"}, Run(m) PROVE LoopInv'
  <2>1. TypeOK' /\ CurSet'
    BY <1>2, <1>10 DEF Run, TypeOK
  <2> QED
    BY <1>1, <1>10, <2>1 DEF Run
<1>11. CASE xv_loop_break
  <2>1. TypeOK' /\ CurSet'
    BY <1>2, <1>11 DEF xv_loop_break, TypeOK
  <2> QED
    BY <1>1, <1>11, <2>1 DEF xv_loop_break
<1>12. CASE xv_loop_destroy
  <2>1. TypeOK' /\ CurSet'
    BY <1>2, <1>12 DEF xv_loop_destroy, TypeOK
  <2> QED
    BY <1>1, <1>12, <2>1 DEF xv_loop_destroy
<1>13. ASSUME NEW f \in Fds, NEW c \in Conditions, Change(f, c) PROVE LoopInv'
  <2>1. TypeOK' /\ CurSet'
    BY <1>2, <1>13 DEF Change, TypeOK
  <2> QED
    BY <1>1, <1>13, <2>1 DEF Change
<1>14. CASE UNCHANGED vars
  <2>1. TypeOK' /\ CurSet'
    BY <1>2, <1>14 DEF vars, TypeOK
  <2> QED
    BY <1>1, <1>14, <2>1 DEF vars
<1> QED
    BY <1>3, <1>4, <1>5, <1>6, <1>7, <1>8, <1>9, <1>10, <1>11, <1>12, <1>13,
       <1>14 DEF LoopStep

(* Every step preserves the invariant. *)
LEMMA NextSafe ==
    ASSUME FdsFit, LoopInv, [Next]_vars
    PROVE  LoopInv'
BY OtherSafe, StartSafe, StopSafe, InitIoSafe, DestroyIoSafe, CloseSafe
   DEF Next, UserStep

-----------------------------------------------------------------------------
(* The invariant holds for every number of descriptors and xv_io_t's       *)
(* (xv_loop_add_event, xv_loop_del_event and the poller's two).            *)
THEOREM LoopSafe ==
    ASSUME FdsFit
    PROVE  Spec => []LoopInv
<1>1. Init => LoopInv
    BY InitSafe
<1>2. LoopInv /\ [Next]_vars => LoopInv'
    BY NextSafe
<1> QED
    BY <1>1, <1>2, PTL DEF Spec

(* epoll's registrations are always the loop's: EPOLL_CTL_ADD, MOD and DEL *)
(* are never used on a descriptor in the wrong state.                      *)
THEOREM PollerAlwaysInSync ==
    ASSUME FdsFit
    PROVE  Spec => []PollerInSync
<1>1. LoopInv => PollerInSync
    BY DEF LoopInv
<1> QED
    BY <1>1, LoopSafe, PTL

(* loop->events always points to the started xv_io_t's and to no other,    *)
(* through whatever callbacks start, stop and destroy in a batch.          *)
THEOREM TableAlwaysMatches ==
    ASSUME FdsFit
    PROVE  Spec => []TableMatches
<1>1. LoopInv => TableMatches
    BY DEF LoopInv
<1> QED
    BY <1>1, LoopSafe, PTL

(* xv_loop_poll calls only xv_io_t's that are allocated and started, also  *)
(* for events that fired before an earlier callback stopped them.          *)
THEOREM StopIsImmediate ==
    ASSUME FdsFit
    PROVE  Spec => CallsStartedIo
<1> DEFINE Good == cb' # cb /\ cb' # NULL => Registered(cb') /\ io_fd[cb'] = cur
<1>1. ASSUME LoopInv, [Next]_vars PROVE [Good]_vars
  <2>1. CASE DispatchRead
    <3>1. cur \in Fds
        BY <1>1, <2>1 DEF DispatchRead, LoopInv
    <3>2. read_io[cur] \in Ios \cup {NULL}
        BY <1>1, <3>1 DEF LoopInv, TypeOK
    <3> QED
        BY <1>1, <2>1, <3>1, <3>2
           DEF DispatchRead, LoopInv, TableMatches, ReadPointers
  <2>2. CASE DispatchWrite
    <3>1. cur \in Fds
        BY <1>1, <2>2 DEF DispatchWrite, LoopInv
    <3>2. write_io[cur] \in Ios \cup {NULL}
        BY <1>1, <3>1 DEF LoopInv, TypeOK
    <3> QED
        BY <1>1, <2>2, <3>1, <3>2
           DEF DispatchWrite, LoopInv, TableMatches, WritePointers
  <2>3. CASE ~ DispatchRead /\ ~ DispatchWrite
    <3>1. cb' = cb \/ cb' = NULL
        BY <1>1, <2>3
           DEF Next, LoopStep, UserStep, Poll, Dispatch, CallbackReturns,
               EndOfBatch, xv_io_init, xv_io_start, xv_io_stop, xv_io_destroy,
               Open, Close, Run, xv_loop_break, xv_loop_destroy, Change, vars,
               runVars
    <3> QED
        BY <3>1
  <2> QED
    BY <2>1, <2>2, <2>3
<1>2. LoopInv /\ [Next]_vars => [Good]_vars
    BY <1>1
<1> QED
    BY <1>2, LoopSafe, PTL DEF Spec, CallsStartedIo

=============================================================================
