------------------------------- MODULE XvThPool -------------------------------
(***************************************************************************)
(* The life of a pool of worker threads (xv_th_pool.c): the thread that    *)
(* owns the pool starts, stops and destroys it while other threads push    *)
(* tasks and the workers run them.                                         *)
(*                                                                         *)
(* A worker's queue and eventfd are those of XvChannel; here a pop and the *)
(* task it returns are one step, and the eventfd is 0 or not.  The owner   *)
(* may stop and start the pool as often as it likes; it destroys it when   *)
(* it has been started and nobody is pushing, as the tests do.             *)
(***************************************************************************)
EXTENDS Naturals, Sequences

CONSTANTS
    N,          \* pool->thread_count
    MaxTask     \* how many tasks are pushed; keeps TLC finite

ASSUME PoolConstants == N \in Nat \ {0} /\ MaxTask \in Nat

VARIABLES
    start,      \* thread->start
    loop_start, \* thread->loop->start
    async,      \* the async is started in the loop
    evfd,       \* the eventfd is not 0
    queue,      \* thread->task_queue
    wpc,        \* where the worker is: see below
    threads,    \* how many times pthread_create has been called for it
    mem,        \* the xv_worker_thread_t: "live" or "freed"
    stopped,    \* xv_worker_thread_stop has ever been called for it
    mpc, mi,    \* the owner: which call it is in, at which worker
    ppc,        \* the pusher: the worker it is about to wake, or N
    pushed, ran \* the number of tasks pushed, the set of those that have run

(***************************************************************************)
(* wpc: "none"   no thread                                                 *)
(*      "entry"  at while (thread->start) of worker_entry                  *)
(*      "loop"   at while (loop->start) of xv_loop_run                     *)
(*      "poll"   in the poller                                             *)
(*      "drain"  in the while loop of worker_async_cb                      *)
(*      "check"  at its if (!thread->start)                                *)
(*      "exited"                                                           *)
(***************************************************************************)
ownerVars  == <<mpc, mi, stopped, mem>>
threadVars == <<start, loop_start, async, evfd, queue, wpc, threads>>
pushVars   == <<ppc, pushed, ran>>

vars == <<ownerVars, threadVars, pushVars>>

Workers == 0..(N - 1)

(* xv_thread_pool_init and xv_worker_thread_init *)
Init ==
    /\ start = [w \in Workers |-> FALSE]
    /\ loop_start = [w \in Workers |-> TRUE]
    /\ async = [w \in Workers |-> FALSE]
    /\ evfd = [w \in Workers |-> FALSE]
    /\ queue = [w \in Workers |-> << >>]
    /\ wpc = [w \in Workers |-> "none"]
    /\ threads = [w \in Workers |-> 0]
    /\ mem = [w \in Workers |-> "live"]
    /\ stopped = [w \in Workers |-> FALSE]
    /\ mpc = "idle"
    /\ mi = 0
    /\ ppc = N
    /\ pushed = 0
    /\ ran = {}

-----------------------------------------------------------------------------
(* The owner.  A call goes over the workers one by one, and they and the   *)
(* pushers see it half done.                                               *)

Call(op) ==
    /\ mpc = "idle"
    /\ mpc' = op
    /\ mi' = 0
    /\ UNCHANGED <<stopped, mem, threadVars, pushVars>>

StartOrStop == \E op \in {"start", "stop"} : Call(op)

(* xv_thread_pool_destroy begins with xv_thread_pool_stop. *)
Destroy ==
    /\ \A w \in Workers : threads[w] > 0
    /\ ppc = N
    /\ Call("destroystop")

(* The next worker, or the next part of the call.  (The faulty variant     *)
(* goes one worker too far.)                                               *)
AdvancePast(then) ==
    IF mi = N THEN mpc' = then /\ mi' = 0
              ELSE UNCHANGED mpc /\ mi' = mi + 1

Advance(then) ==
    IF mi = N - 1 THEN mpc' = then /\ mi' = 0
                  ELSE UNCHANGED mpc /\ mi' = mi + 1

(* Faulty variant: a thread is created although the async was started. *)
StartAnyway(w) ==
    /\ ~ start[w]
    /\ start' = [start EXCEPT ![w] = TRUE]
    /\ async' = [async EXCEPT ![w] = TRUE]
    /\ threads' = [threads EXCEPT ![w] = @ + 1]
    /\ wpc' = [wpc EXCEPT ![w] = "entry"]

(* xv_worker_thread_start.  When the async is already started, which it is *)
(* from the first start to the end, the call fails after it has set the    *)
(* flag; xv_thread_pool_start does not look at its result.                 *)
xv_worker_thread_start(w) ==
    /\ ~ start[w]
    /\ start' = [start EXCEPT ![w] = TRUE]
    /\ IF async[w]
       THEN UNCHANGED <<async, threads, wpc>>
       ELSE /\ async' = [async EXCEPT ![w] = TRUE]
            /\ threads' = [threads EXCEPT ![w] = @ + 1]
            /\ wpc' = [wpc EXCEPT ![w] = "entry"]

(* xv_thread_pool_start; pool->start is never set and refuses nothing. *)
StartWorker ==
    /\ mpc = "start"
    /\ \/ xv_worker_thread_start(mi)
       \/ start[mi] /\ UNCHANGED <<start, async, threads, wpc>>
    /\ Advance("idle")
    /\ UNCHANGED <<stopped, mem, loop_start, evfd, queue, pushVars>>

xv_worker_thread_stop(w) ==
    /\ start' = [start EXCEPT ![w] = FALSE]
    /\ stopped' = [stopped EXCEPT ![w] = TRUE]

(* xv_thread_pool_stop *)
StopWorker ==
    /\ mpc \in {"stop", "destroystop"}
    /\ xv_worker_thread_stop(mi)
    /\ Advance(IF mpc = "stop" THEN "idle" ELSE "wake")
    /\ UNCHANGED <<mem, loop_start, async, evfd, queue, wpc, threads, pushVars>>

(* Faulty variant: a stopped worker is left to find out by itself. *)
StopAndJoin ==
    /\ mpc = "wake"
    /\ xv_worker_thread_stop(mi)
    /\ mpc' = "join"
    /\ UNCHANGED <<mi, mem, loop_start, async, evfd, queue, wpc, threads,
                   pushVars>>

(* xv_worker_thread_destroy: stop, then wake the worker so that it sees it, *)
Wake ==
    /\ mpc = "wake"
    /\ xv_worker_thread_stop(mi)
    /\ evfd' = [evfd EXCEPT ![mi] = TRUE]
    /\ mpc' = "join"
    /\ UNCHANGED <<mi, mem, loop_start, async, queue, wpc, threads, pushVars>>

(* wait for its thread, then release what it used. *)
JoinAndFree ==
    /\ mpc = "join"
    /\ wpc[mi] = "exited"
    /\ async' = [async EXCEPT ![mi] = FALSE]
    /\ mem' = [mem EXCEPT ![mi] = "freed"]
    /\ mpc' = IF mi = N - 1 THEN "destroyed" ELSE "wake"
    /\ mi' = IF mi = N - 1 THEN 0 ELSE mi + 1
    /\ UNCHANGED <<stopped, start, loop_start, evfd, queue, wpc, threads,
                   pushVars>>

OwnerStep == StartWorker \/ StopWorker \/ Wake \/ JoinAndFree

-----------------------------------------------------------------------------
(* The pusher: xv_thread_pool_push_task, whose hashcode picks the worker.  *)

InUse == mpc \in {"idle", "start", "stop"}

Push(w) ==
    /\ InUse
    /\ ppc = N
    /\ pushed < MaxTask
    /\ pushed' = pushed + 1
    /\ queue' = [queue EXCEPT ![w] = Append(@, pushed + 1)]
    /\ ppc' = w
    /\ UNCHANGED <<ownerVars, start, loop_start, async, evfd, wpc, threads, ran>>

Send ==
    /\ ppc # N
    /\ evfd' = [evfd EXCEPT ![ppc] = TRUE]
    /\ ppc' = N
    /\ UNCHANGED <<ownerVars, start, loop_start, async, queue, wpc, threads,
                   pushed, ran>>

-----------------------------------------------------------------------------
(* A worker.                                                               *)

(* worker_entry *)
Entry(w) ==
    /\ wpc[w] = "entry"
    /\ wpc' = [wpc EXCEPT ![w] = IF start[w] THEN "loop" ELSE "exited"]
    /\ UNCHANGED <<ownerVars, pushVars, start, loop_start, async, evfd, queue,
                   threads>>

(* xv_loop_run *)
LoopRun(w) ==
    /\ wpc[w] = "loop"
    /\ wpc' = [wpc EXCEPT ![w] = IF loop_start[w] THEN "poll" ELSE "entry"]
    /\ UNCHANGED <<ownerVars, pushVars, start, loop_start, async, evfd, queue,
                   threads>>

(* common_async_cb *)
WakeUp(w) ==
    /\ wpc[w] = "poll"
    /\ async[w] /\ evfd[w]
    /\ evfd' = [evfd EXCEPT ![w] = FALSE]
    /\ wpc' = [wpc EXCEPT ![w] = "drain"]
    /\ UNCHANGED <<ownerVars, pushVars, start, loop_start, async, queue, threads>>

(* worker_async_cb *)
RunTask(w) ==
    /\ wpc[w] = "drain"
    /\ queue[w] # << >>
    /\ ran' = ran \cup {Head(queue[w])}
    /\ queue' = [queue EXCEPT ![w] = Tail(@)]
    /\ UNCHANGED <<ownerVars, ppc, pushed, start, loop_start, async, evfd, wpc,
                   threads>>

Drained(w) ==
    /\ wpc[w] = "drain"
    /\ queue[w] = << >>
    /\ wpc' = [wpc EXCEPT ![w] = "check"]
    /\ UNCHANGED <<ownerVars, pushVars, start, loop_start, async, evfd, queue,
                   threads>>

(* Faulty variant: the loop is left after every batch of tasks. *)
BreakAlways(w) ==
    /\ wpc[w] = "check"
    /\ loop_start' = [loop_start EXCEPT ![w] = FALSE]
    /\ wpc' = [wpc EXCEPT ![w] = "loop"]
    /\ UNCHANGED <<ownerVars, pushVars, start, async, evfd, queue, threads>>

CheckStop(w) ==
    /\ wpc[w] = "check"
    /\ loop_start' = [loop_start EXCEPT ![w] = @ /\ start[w]]
    /\ wpc' = [wpc EXCEPT ![w] = "loop"]
    /\ UNCHANGED <<ownerVars, pushVars, start, async, evfd, queue, threads>>

WorkerStep(w) ==
    Entry(w) \/ LoopRun(w) \/ WakeUp(w) \/ RunTask(w) \/ Drained(w) \/ CheckStop(w)

Next ==
    \/ StartOrStop
    \/ Destroy
    \/ OwnerStep
    \/ Send
    \/ \E w \in Workers : Push(w) \/ WorkerStep(w)

(* Threads run, tasks return, and a call once made goes on; nobody has to  *)
(* push a task or to make a call.                                          *)
Fairness ==
    /\ WF_vars(OwnerStep)
    /\ WF_vars(Send)
    /\ \A w \in Workers : WF_vars(WorkerStep(w))

Spec == Init /\ [][Next]_vars /\ Fairness

-----------------------------------------------------------------------------
TypeOK ==
    /\ start \in [Workers -> BOOLEAN]
    /\ loop_start \in [Workers -> BOOLEAN]
    /\ async \in [Workers -> BOOLEAN]
    /\ evfd \in [Workers -> BOOLEAN]
    /\ queue \in [Workers -> Seq(1..MaxTask)]
    /\ wpc \in [Workers -> {"none", "entry", "loop", "poll", "drain", "check",
                            "exited"}]
    /\ threads \in [Workers -> Nat]
    /\ mem \in [Workers -> {"live", "freed"}]
    /\ stopped \in [Workers -> BOOLEAN]
    /\ mpc \in {"idle", "start", "stop", "destroystop", "wake", "join",
                "destroyed"}
    /\ mi \in Workers
    /\ ppc \in 0..N
    /\ pushed \in 0..MaxTask
    /\ ran \subseteq 1..MaxTask

(***************************************************************************)
(* A loop, which has no lock, is run by one thread at most, however often  *)
(* the pool is stopped and started; and that thread has left it when the   *)
(* worker's memory is freed.                                               *)
(***************************************************************************)
LoopHasOneThread ==
    \A w \in Workers :
        /\ threads[w] <= 1
        /\ mem[w] = "freed" => wpc[w] = "exited"

(* The async is what keeps a second start from creating a second thread:   *)
(* until the worker is freed, it is started exactly when a thread exists.  *)
AsyncMarksThread ==
    \A w \in Workers :
        /\ threads[w] = 0 <=> wpc[w] = "none"
        /\ mem[w] = "live" => (async[w] <=> threads[w] = 1)
        /\ mem[w] = "freed" => mpc \in {"wake", "join", "destroyed"}

(* The inductive invariant behind the theorems of XvThPoolProofs. *)
PoolInv == TypeOK /\ LoopHasOneThread /\ AsyncMarksThread

(***************************************************************************)
(* xv_thread_pool_destroy returns, whatever the workers are doing when it  *)
(* is called: asleep in the poller, not yet begun, or in a loop that was   *)
(* broken by an earlier stop.                                              *)
(***************************************************************************)
DestroyReturns == mpc = "destroystop" ~> mpc = "destroyed"

(***************************************************************************)
(* A task pushed to a pool that is running, or that is started later, is   *)
(* run, unless its worker is stopped.                                      *)
(***************************************************************************)
TaskRuns ==
    \A w \in Workers : \A k \in 1..MaxTask :
        threads[w] > 0 /\ (\E i \in 1..Len(queue[w]) : queue[w][i] = k)
            ~> k \in ran \/ stopped[w]

=============================================================================
