-------------------------------- MODULE XvLoop --------------------------------
(***************************************************************************)
(* The event loop (xv.c) over its epoll poller (xv_epoll.c).               *)
(*                                                                         *)
(* The loop keeps, for each descriptor, the set of events it waits for and *)
(* the xv_io_t of each; epoll keeps its own copy of that set.  One poll    *)
(* brings a batch of fired events, and the callback of one of them may     *)
(* start, stop and destroy any xv_io_t, close and reopen descriptors, or   *)
(* break the loop, while the rest of the batch is still to be handled.     *)
(*                                                                         *)
(* The loop belongs to one thread: user code runs when the loop is not     *)
(* running and within callbacks.  The user keeps to what the library's own *)
(* users do (xv_async.c, xv_service.c): one started xv_io_t for a          *)
(* descriptor and event, and no close of a descriptor with a started one.  *)
(***************************************************************************)
EXTENDS Naturals

CONSTANTS
    Ios,        \* the addresses of xv_io_t's
    Fds,        \* the descriptors
    SetSize,    \* the setsize given to xv_loop_init
    Conditions, \* what a descriptor can be, as sets of epoll events
    NULL

ASSUME LoopConstants ==
    /\ NULL \notin Ios \cup Fds
    /\ Fds \subseteq Nat
    /\ SetSize \in Nat \ {0}
    /\ {} \in Conditions
    /\ Conditions \subseteq SUBSET {"EPOLLIN", "EPOLLOUT", "EPOLLHUP"}
    /\ \A s \in SUBSET {"EPOLLIN", "EPOLLOUT", "EPOLLHUP"} : s # NULL

VARIABLES
    alive,      \* the xv_io_t's that are allocated
    io_fd, io_event, io_start,          \* their fields
    event, read_io, write_io,           \* loop->events[fd]
    setsize, start,                     \* loop->setsize, loop->start
    table,      \* whether loop->events points to allocated memory
    fired,      \* what is left of the batch: the fired events of each fd
    pc,         \* where the loop is
    mode,       \* "run" in xv_loop_run, "once" in xv_loop_run_once
    cur,        \* the descriptor being handled
    cb,         \* the xv_io_t whose callback is running, or NULL
    interest,   \* epoll: the events registered for a descriptor, or NULL
    ready       \* the kernel: the conditions of a descriptor, NULL if closed

ioVars    == <<alive, io_fd, io_event, io_start>>
tableVars == <<event, read_io, write_io, setsize, table>>
runVars   == <<fired, pc, mode, cur, cb>>

vars == <<ioVars, tableVars, runVars, start, interest, ready>>

XV_ALL_EVENT == {"READ", "WRITE"}

(* xv_loop_init; no xv_io_t exists yet. *)
Init ==
    /\ alive = {}
    /\ io_fd = [i \in Ios |-> NULL]
    /\ io_event = [i \in Ios |-> {}]
    /\ io_start = [i \in Ios |-> FALSE]
    /\ event = [f \in Fds |-> {}]
    /\ read_io = [f \in Fds |-> NULL]
    /\ write_io = [f \in Fds |-> NULL]
    /\ setsize = SetSize
    /\ table = "allocated"
    /\ start = TRUE
    /\ fired = [f \in Fds |-> {}]
    /\ pc = "idle"
    /\ mode = "run"
    /\ cur = NULL
    /\ cb = NULL
    /\ interest = [f \in Fds |-> NULL]
    /\ ready = [f \in Fds |-> NULL]

-----------------------------------------------------------------------------
(* The poller.                                                             *)

(* The masks of xv_poller_modify_event and of xv_poller_poll. *)
ToEpoll(mask) ==
    {e \in {"EPOLLIN", "EPOLLOUT"} :
        \/ e = "EPOLLIN" /\ "READ" \in mask
        \/ e = "EPOLLOUT" /\ "WRITE" \in mask}

(* (faulty variant: epoll's bits are taken for the loop's) *)
RawEvents(events) == events

FromEpoll(events) ==
    {e \in XV_ALL_EVENT :
        \/ e = "READ" /\ "EPOLLIN" \in events
        \/ e = "WRITE" /\ events \cap {"EPOLLOUT", "EPOLLHUP"} # {}}

(* xv_poller_modify_event.  epoll_ctl adds what is not registered and      *)
(* changes or deletes what is; anything else fails and changes nothing.    *)
(* No caller acts on the XV_ERR.                                           *)
xv_poller_modify_event(f, mask, op) ==
    interest' =
        [interest EXCEPT ![f] =
            IF op = "ADD" THEN (IF @ = NULL THEN ToEpoll(mask) ELSE @)
            ELSE IF @ = NULL \/ op = "DEL" THEN NULL ELSE ToEpoll(mask)]

(* Faulty variant: the second event of a descriptor is added, not merged. *)
AddAlways(f, old, new) == xv_poller_modify_event(f, new, "ADD")

xv_poller_add_event(f, old, new) ==
    IF old = {} THEN xv_poller_modify_event(f, new, "ADD")
                ELSE xv_poller_modify_event(f, new \cup old, "MOD")

(* Faulty variant: a stop removes the descriptor. *)
DelWhole(f, old, gone) == xv_poller_modify_event(f, gone, "DEL")

xv_poller_del_event(f, old, gone) ==
    LET mask == old \ gone
    IN  IF mask = {} THEN xv_poller_modify_event(f, gone, "DEL")
                     ELSE xv_poller_modify_event(f, mask, "MOD")

(* What epoll_wait reports: the registered conditions that hold, and a     *)
(* hangup (or an error, handled the same way) whether asked for or not.    *)
Reported(f) ==
    IF interest[f] = NULL \/ ready[f] = NULL THEN {}
    ELSE ready[f] \cap (interest[f] \cup {"EPOLLHUP"})

-----------------------------------------------------------------------------
(* Registration.                                                           *)

(* xv_loop_resize(loop, loop->setsize * 2).  Both arrays are reallocated   *)
(* from loop->events: the second call takes the memory of the first for    *)
(* fired_events, and loop->events is left pointing to freed memory.        *)
xv_loop_resize(f) ==
    IF f >= setsize
    THEN setsize' = 2 * setsize /\ table' = "freed"
    ELSE UNCHANGED <<setsize, table>>

xv_loop_add_event(i) ==
    LET f == io_fd[i]
        e == io_event[i]
    IN  /\ xv_loop_resize(f)
        /\ IF e = XV_ALL_EVENT
           THEN UNCHANGED <<event, read_io, write_io, interest>>
           ELSE /\ read_io' = [read_io EXCEPT ![f] =
                        IF "READ" \in e THEN i ELSE @]
                /\ write_io' = [write_io EXCEPT ![f] =
                        IF "WRITE" \in e THEN i ELSE @]
                /\ event' = [event EXCEPT ![f] = @ \cup e]
                /\ xv_poller_add_event(f, event[f], e)

(* Faulty variant: the pointer to the xv_io_t stays in the table. *)
DelEventMaskOnly(i) ==
    LET f == io_fd[i]
        e == io_event[i]
    IN  /\ IF f >= setsize \/ e = XV_ALL_EVENT
           THEN UNCHANGED <<event, interest>>
           ELSE /\ event' = [event EXCEPT ![f] = @ \ e]
                /\ xv_poller_del_event(f, event[f], e)
        /\ UNCHANGED <<setsize, table, read_io, write_io>>

xv_loop_del_event(i) ==
    LET f == io_fd[i]
        e == io_event[i]
    IN  /\ IF f >= setsize \/ e = XV_ALL_EVENT
           THEN UNCHANGED <<event, read_io, write_io, interest>>
           ELSE /\ event' = [event EXCEPT ![f] = @ \ e]
                /\ read_io' = [read_io EXCEPT ![f] =
                        IF "READ" \in e THEN NULL ELSE @]
                /\ write_io' = [write_io EXCEPT ![f] =
                        IF "WRITE" \in e THEN NULL ELSE @]
                /\ xv_poller_del_event(f, event[f], e)
        /\ UNCHANGED <<setsize, table>>

-----------------------------------------------------------------------------
(* What user code does, in a callback or while the loop is not running.    *)

UserTurn == pc \in {"idle", "readcb", "writecb"}

xv_io_init(i, f, e) ==
    /\ UserTurn
    /\ i \notin alive
    /\ alive' = alive \cup {i}
    /\ io_fd' = [io_fd EXCEPT ![i] = f]
    /\ io_event' = [io_event EXCEPT ![i] = e]
    /\ io_start' = [io_start EXCEPT ![i] = FALSE]
    /\ UNCHANGED <<tableVars, runVars, start, interest, ready>>

(* The user's part: the descriptor is open and the event is not taken. *)
MayStart(i) ==
    /\ i \in alive
    /\ ready[io_fd[i]] # NULL
    /\ \A j \in alive : io_start[j] /\ io_fd[j] = io_fd[i]
                            => io_event[j] \cap io_event[i] = {}

(* A second start of a started xv_io_t, and a second stop, change nothing. *)
xv_io_start(i) ==
    /\ UserTurn
    /\ MayStart(i)
    /\ ~ io_start[i]
    /\ io_start' = [io_start EXCEPT ![i] = TRUE]
    /\ xv_loop_add_event(i)
    /\ UNCHANGED <<alive, io_fd, io_event, runVars, start, ready>>

xv_io_stop(i) ==
    /\ UserTurn
    /\ i \in alive
    /\ io_start[i]
    /\ io_start' = [io_start EXCEPT ![i] = FALSE]
    /\ xv_loop_del_event(i)
    /\ UNCHANGED <<alive, io_fd, io_event, runVars, start, ready>>

(* xv_free: the fields mean nothing any more. *)
Freed(i) ==
    /\ alive' = alive \ {i}
    /\ io_fd' = [io_fd EXCEPT ![i] = NULL]
    /\ io_event' = [io_event EXCEPT ![i] = {}]
    /\ io_start' = [io_start EXCEPT ![i] = FALSE]

(* Faulty variant: a started xv_io_t is freed too. *)
DestroyStarted(i) ==
    /\ UserTurn
    /\ i \in alive
    /\ Freed(i)
    /\ UNCHANGED <<tableVars, runVars, start, interest, ready>>

(* "xv_io_t must stop before destroy!" *)
xv_io_destroy(i) ==
    /\ UserTurn
    /\ i \in alive
    /\ ~ io_start[i]
    /\ Freed(i)
    /\ UNCHANGED <<tableVars, runVars, start, interest, ready>>

Open(f) ==
    /\ UserTurn
    /\ ready[f] = NULL
    /\ ready' = [ready EXCEPT ![f] = {}]
    /\ UNCHANGED <<ioVars, tableVars, runVars, start, interest>>

(* close(2), which also takes the descriptor out of the epoll set. *)
Close(f) ==
    /\ UserTurn
    /\ ready[f] # NULL
    /\ \A i \in alive : io_start[i] => io_fd[i] # f
    /\ ready' = [ready EXCEPT ![f] = NULL]
    /\ interest' = [interest EXCEPT ![f] = NULL]
    /\ UNCHANGED <<ioVars, tableVars, runVars, start>>

xv_loop_break ==
    /\ UserTurn
    /\ start' = FALSE
    /\ UNCHANGED <<ioVars, tableVars, runVars, interest, ready>>

-----------------------------------------------------------------------------
(* The loop.                                                               *)

(* xv_loop_run and xv_loop_run_timeout, and xv_loop_run_once, are called. *)
Run(m) ==
    /\ pc = "idle"
    /\ m = "run" => start
    /\ pc' = "poll"
    /\ mode' = m
    /\ UNCHANGED <<ioVars, tableVars, start, interest, ready, fired, cur, cb>>

(* xv_poller_poll.  xv_loop_run waits until something is reported (a wait  *)
(* that times out or is interrupted begins again).                         *)
Poll ==
    /\ pc = "poll"
    /\ mode = "run" => \E f \in Fds : Reported(f) # {}
    /\ fired' = [f \in Fds |-> FromEpoll(Reported(f))]
    /\ pc' = "next"
    /\ UNCHANGED <<ioVars, tableVars, start, interest, ready, mode, cur, cb>>

(* xv_loop_poll, the loop over the fired events: epoll's order is any. *)
Dispatch(f) ==
    /\ pc = "next"
    /\ fired[f] # {}
    /\ cur' = f
    /\ pc' = "read"
    /\ UNCHANGED <<ioVars, tableVars, start, interest, ready, fired, mode, cb>>

(* The table is read when an event's turn comes, not when it fires. *)
DispatchRead ==
    /\ pc = "read"
    /\ IF "READ" \in fired[cur] /\ read_io[cur] # NULL
       THEN pc' = "readcb" /\ cb' = read_io[cur]
       ELSE pc' = "write" /\ UNCHANGED cb
    /\ UNCHANGED <<ioVars, tableVars, start, interest, ready, fired, mode, cur>>

DispatchWrite ==
    /\ pc = "write"
    /\ IF "WRITE" \in fired[cur] /\ write_io[cur] # NULL
       THEN pc' = "writecb" /\ cb' = write_io[cur]
       ELSE pc' = "next" /\ UNCHANGED cb
    /\ fired' = [fired EXCEPT ![cur] = {}]
    /\ UNCHANGED <<ioVars, tableVars, start, interest, ready, mode, cur>>

CallbackReturns ==
    /\ pc \in {"readcb", "writecb"}
    /\ pc' = IF pc = "readcb" THEN "write" ELSE "next"
    /\ cb' = NULL
    /\ UNCHANGED <<ioVars, tableVars, start, interest, ready, fired, mode, cur>>

(* while (loop->start) *)
EndOfBatch ==
    /\ pc = "next"
    /\ \A f \in Fds : fired[f] = {}
    /\ pc' = IF mode = "run" /\ start THEN "poll" ELSE "idle"
    /\ cur' = NULL
    /\ UNCHANGED <<ioVars, tableVars, start, interest, ready, fired, mode, cb>>

(* The kernel: the conditions of an open descriptor change. *)
Change(f, c) ==
    /\ ready[f] # NULL
    /\ ready' = [ready EXCEPT ![f] = c]
    /\ UNCHANGED <<ioVars, tableVars, runVars, start, interest>>

(* xv_loop_destroy, once everything is stopped; epfd is not closed. *)
xv_loop_destroy ==
    /\ pc = "idle"
    /\ \A i \in alive : ~ io_start[i]
    /\ pc' = "destroyed"
    /\ table' = "freed"
    /\ UNCHANGED <<ioVars, event, read_io, write_io, setsize, start, interest,
                   ready, fired, mode, cur, cb>>

LoopStep ==
    \/ Poll
    \/ \E f \in Fds : Dispatch(f)
    \/ DispatchRead
    \/ DispatchWrite
    \/ CallbackReturns
    \/ EndOfBatch

UserStep ==
    \/ \E i \in Ios :
        \/ \E f \in Fds : \E e \in {{"READ"}, {"WRITE"}, XV_ALL_EVENT} :
                xv_io_init(i, f, e)
        \/ xv_io_start(i)
        \/ xv_io_stop(i)
        \/ xv_io_destroy(i)
    \/ \E f \in Fds : Open(f) \/ Close(f)
    \/ \E m \in {"run", "once"} : Run(m)
    \/ xv_loop_break
    \/ xv_loop_destroy

Next ==
    \/ LoopStep
    \/ UserStep
    \/ \E f \in Fds : \E c \in Conditions : Change(f, c)

(* The loop's thread runs and callbacks return; users and peers owe nothing. *)
Spec == Init /\ [][Next]_vars /\ WF_vars(LoopStep)

-----------------------------------------------------------------------------
TypeOK ==
    /\ alive \subseteq Ios
    /\ io_fd \in [Ios -> Fds \cup {NULL}]
    /\ io_event \in [Ios -> SUBSET XV_ALL_EVENT]
    /\ io_start \in [Ios -> BOOLEAN]
    /\ event \in [Fds -> SUBSET XV_ALL_EVENT]
    /\ read_io \in [Fds -> Ios \cup {NULL}]
    /\ write_io \in [Fds -> Ios \cup {NULL}]
    /\ setsize \in Nat
    /\ table \in {"allocated", "freed"}
    /\ start \in BOOLEAN
    /\ fired \in [Fds -> SUBSET XV_ALL_EVENT]
    /\ pc \in {"idle", "poll", "next", "read", "readcb", "write", "writecb",
              "destroyed"}
    /\ mode \in {"run", "once"}
    /\ cur \in Fds \cup {NULL}
    /\ cb \in Ios \cup {NULL}
    /\ interest \in [Fds -> (SUBSET {"EPOLLIN", "EPOLLOUT"}) \cup {NULL}]
    /\ ready \in [Fds -> Conditions \cup {NULL}]

(***************************************************************************)
(* The loop and epoll agree: a descriptor is registered exactly when the   *)
(* loop waits for something on it, and for exactly that.  The choice of    *)
(* EPOLL_CTL_ADD, MOD or DEL rests on this: a wrong one fails, and the     *)
(* loop would spin on, or never hear of, an event.                         *)
(***************************************************************************)
PollerInSync ==
    \A f \in Fds :
        interest[f] = IF event[f] = {} THEN NULL ELSE ToEpoll(event[f])

(***************************************************************************)
(* The table's pointers are those of the started xv_io_t's: none to freed  *)
(* memory or to a stopped one, whatever callbacks did within a batch, and  *)
(* no started one is missing.  (An xv_io_t for both events at once is      *)
(* refused by xv_loop_add_event.)                                          *)
(***************************************************************************)
Registered(i) == i \in alive /\ io_start[i] /\ io_event[i] # XV_ALL_EVENT

ReadPointers ==
    \A f \in Fds, i \in Ios :
        read_io[f] = i
            <=> Registered(i) /\ io_fd[i] = f /\ io_event[i] = {"READ"}

WritePointers ==
    \A f \in Fds, i \in Ios :
        write_io[f] = i
            <=> Registered(i) /\ io_fd[i] = f /\ io_event[i] = {"WRITE"}

MaskMatches ==
    \A f \in Fds :
        /\ "READ" \in event[f] <=> read_io[f] # NULL
        /\ "WRITE" \in event[f] <=> write_io[f] # NULL

TableMatches == ReadPointers /\ WritePointers /\ MaskMatches

(* The inductive invariant behind the theorems of XvLoopProofs. *)
LoopInv ==
    /\ TypeOK
    /\ PollerInSync
    /\ TableMatches
    /\ setsize >= SetSize
    /\ pc \in {"read", "readcb", "write", "writecb"} => cur \in Fds
    /\ \A i \in alive : /\ io_fd[i] \in Fds
                        /\ io_event[i] \in {{"READ"}, {"WRITE"}, XV_ALL_EVENT}

(***************************************************************************)
(* Stopping takes effect at once: a callback begins only for an xv_io_t    *)
(* that is allocated and started, even when its event fired before it was  *)
(* stopped, destroyed or its descriptor reused in the same batch.          *)
(***************************************************************************)
CallsStartedIo ==
    [][cb' # cb /\ cb' # NULL => Registered(cb') /\ io_fd[cb'] = cur]_vars

(***************************************************************************)
(* Level-triggered: while xv_loop_run runs, a started xv_io_t whose        *)
(* descriptor stays ready gets its callback, whatever other callbacks do   *)
(* meanwhile.                                                              *)
(***************************************************************************)
Waits(i) ==
    /\ Registered(i)
    /\ ready[io_fd[i]] # NULL
    /\ ToEpoll(io_event[i]) \subseteq ready[io_fd[i]]
    /\ start /\ mode = "run" /\ pc # "idle"

ReadyIsCalled == \A i \in Ios : Waits(i) ~> (cb = i \/ ~ Waits(i))

(***************************************************************************)
(* xv_loop_resize reports "loop resize" and returns XV_OK; whatever is     *)
(* registered after it has its entry in loop->events.                      *)
(***************************************************************************)
EntriesAllocated ==
    \A i \in Ios : Registered(i) => io_fd[i] < setsize /\ table = "allocated"

=============================================================================
