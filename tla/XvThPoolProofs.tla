---------------------------- MODULE XvThPoolProofs ----------------------------
(***************************************************************************)
(* One thread for each loop of a pool, for any number of workers and tasks *)
(* and through any sequence of starts and stops.                           *)
(***************************************************************************)
EXTENDS XvThPool, SequenceTheorems, TLAPS

LEMMA PoolInit == Init => PoolInv
<1> SUFFICES ASSUME Init PROVE PoolInv
  OBVIOUS
<1>1. TypeOK
  BY PoolConstants DEF Init, TypeOK, Workers
<1> QED  BY <1>1, PoolConstants DEF Init, PoolInv, LoopHasOneThread,
                                    AsyncMarksThread

(* The owner stays within the pool. *)
LEMMA AdvanceType ==
    ASSUME NEW then \in {"idle", "wake"}, TypeOK, Advance(then)
    PROVE  /\ mi' \in Workers
           /\ mpc' \in {mpc, then}
BY PoolConstants DEF TypeOK, Advance, Workers

LEMMA PoolNext == PoolInv /\ [Next]_vars => PoolInv'
<1> SUFFICES ASSUME PoolInv, [Next]_vars PROVE PoolInv'
  OBVIOUS
<1> USE PoolConstants
<1>0. TypeOK /\ LoopHasOneThread /\ AsyncMarksThread
  BY DEF PoolInv
<1>1. ASSUME NEW op \in {"start", "stop", "destroystop"}, Call(op)
      PROVE  PoolInv'
  <2>1. TypeOK'
    BY <1>0, <1>1 DEF TypeOK, Call, threadVars, pushVars, Workers
  <2>2. LoopHasOneThread' /\ AsyncMarksThread'
    BY <1>0, <1>1 DEF LoopHasOneThread, AsyncMarksThread, Call, threadVars
  <2> QED  BY <2>1, <2>2 DEF PoolInv
<1>2. CASE StartWorker
  <2>1. mi' \in Workers /\ mpc' \in {"start", "idle"} /\ mi \in Workers
    BY <1>0, <1>2, AdvanceType DEF StartWorker, TypeOK
  <2>2. \A w \in Workers : mem[w] = "live"
    BY <1>0, <1>2 DEF TypeOK, AsyncMarksThread, StartWorker
  <2>3. CASE start[mi] /\ UNCHANGED <<start, async, threads, wpc>>
    <3>1. TypeOK'
      BY <1>0, <1>2, <2>1, <2>3 DEF TypeOK, StartWorker, pushVars
    <3>2. LoopHasOneThread' /\ AsyncMarksThread'
      BY <1>0, <1>2, <2>2, <2>3
      DEF LoopHasOneThread, AsyncMarksThread, StartWorker
    <3> QED  BY <3>1, <3>2 DEF PoolInv
  <2>4. CASE xv_worker_thread_start(mi)
    <3>1. CASE async[mi]
      <4>1. TypeOK'
        BY <1>0, <1>2, <2>1, <2>4, <3>1
        DEF TypeOK, StartWorker, pushVars, xv_worker_thread_start
      <4>2. LoopHasOneThread' /\ AsyncMarksThread'
        BY <1>0, <1>2, <2>2, <2>4, <3>1
        DEF LoopHasOneThread, AsyncMarksThread, StartWorker,
            xv_worker_thread_start
      <4> QED  BY <4>1, <4>2 DEF PoolInv
    <3>2. CASE ~ async[mi]
      <4>1. /\ async' = [async EXCEPT ![mi] = TRUE]
            /\ threads' = [threads EXCEPT ![mi] = @ + 1]
            /\ wpc' = [wpc EXCEPT ![mi] = "entry"]
            /\ start' = [start EXCEPT ![mi] = TRUE]
        BY <2>4, <3>2 DEF xv_worker_thread_start
      <4>2. TypeOK'
        BY <1>0, <1>2, <2>1, <4>1 DEF TypeOK, StartWorker, pushVars
      <4>3. threads[mi] = 0
        BY <1>0, <2>1, <2>2, <3>2
        DEF TypeOK, AsyncMarksThread, LoopHasOneThread
      <4>4. mem' = mem
        BY <1>2 DEF StartWorker
      <4>5. LoopHasOneThread' /\ AsyncMarksThread'
        BY <1>0, <2>1, <2>2, <4>1, <4>3, <4>4
        DEF TypeOK, LoopHasOneThread, AsyncMarksThread
      <4> QED  BY <4>2, <4>5 DEF PoolInv
    <3> QED  BY <3>1, <3>2
  <2> QED  BY <1>2, <2>3, <2>4 DEF StartWorker
<1>3. CASE StopWorker
  <2>1. /\ mi' \in Workers
        /\ mpc' \in {mpc, "idle", "wake"}
        /\ mpc \in {"stop", "destroystop"}
    BY <1>0, <1>3, AdvanceType DEF StopWorker
  <2>2. TypeOK'
    BY <1>0, <1>3, <2>1
    DEF TypeOK, StopWorker, xv_worker_thread_stop, pushVars
  <2>3. LoopHasOneThread' /\ AsyncMarksThread'
    BY <1>0, <1>3, <2>1
    DEF TypeOK, LoopHasOneThread, AsyncMarksThread, StopWorker
  <2> QED  BY <2>2, <2>3 DEF PoolInv
<1>4. CASE Wake
  <2>1. TypeOK'
    BY <1>0, <1>4 DEF TypeOK, Wake, xv_worker_thread_stop, pushVars
  <2>2. LoopHasOneThread' /\ AsyncMarksThread'
    BY <1>0, <1>4 DEF LoopHasOneThread, AsyncMarksThread, Wake
  <2> QED  BY <2>1, <2>2 DEF PoolInv
<1>5. CASE JoinAndFree
  <2>1. mi' \in Workers /\ mpc' \in {"wake", "destroyed"}
    BY <1>0, <1>5 DEF TypeOK, JoinAndFree, Workers
  <2>2. TypeOK'
    BY <1>0, <1>5, <2>1 DEF TypeOK, JoinAndFree, pushVars
  <2>3. LoopHasOneThread' /\ AsyncMarksThread'
    BY <1>0, <1>5, <2>1
    DEF TypeOK, LoopHasOneThread, AsyncMarksThread, JoinAndFree
  <2> QED  BY <2>2, <2>3 DEF PoolInv
<1>6. CASE Send
  <2>1. TypeOK'
    <3>1. ppc \in Workers /\ N \in 0..N
      BY <1>0, <1>6 DEF TypeOK, Send, Workers
    <3>2. evfd' \in [Workers -> BOOLEAN]
      BY <1>0, <1>6, <3>1 DEF TypeOK, Send
    <3> QED  BY <1>0, <1>6, <3>1, <3>2 DEF TypeOK, Send, ownerVars
  <2>2. LoopHasOneThread' /\ AsyncMarksThread'
    BY <1>0, <1>6 DEF LoopHasOneThread, AsyncMarksThread, Send, ownerVars
  <2> QED  BY <2>1, <2>2 DEF PoolInv
<1>7. ASSUME NEW w \in Workers, Push(w)
      PROVE  PoolInv'
  <2>1. pushed + 1 \in 1..MaxTask /\ pushed + 1 \in 0..MaxTask /\ w \in 0..N
    BY <1>0, <1>7 DEF TypeOK, Push, Workers
  <2>2. queue[w] \in Seq(1..MaxTask)
    BY <1>0 DEF TypeOK
  <2>3. Append(queue[w], pushed + 1) \in Seq(1..MaxTask)
    BY <2>1, <2>2, AppendProperties
  <2>4. queue' \in [Workers -> Seq(1..MaxTask)]
    BY <1>0, <1>7, <2>3 DEF TypeOK, Push
  <2>5. TypeOK'
    BY <1>0, <1>7, <2>1, <2>4 DEF TypeOK, Push, ownerVars
  <2>6. LoopHasOneThread' /\ AsyncMarksThread'
    BY <1>0, <1>7 DEF LoopHasOneThread, AsyncMarksThread, Push, ownerVars
  <2> QED  BY <2>5, <2>6 DEF PoolInv
<1>8. ASSUME NEW w \in Workers,
             Entry(w) \/ LoopRun(w) \/ WakeUp(w) \/ Drained(w) \/ CheckStop(w)
      PROVE  PoolInv'
  <2>1. PICK l \in {"entry", "loop", "poll", "drain", "check", "exited"} :
            /\ wpc' = [wpc EXCEPT ![w] = l]
            /\ wpc[w] \notin {"none", "exited"}
            /\ UNCHANGED <<ownerVars, pushVars, start, async, queue, threads>>
    BY <1>8 DEF Entry, LoopRun, WakeUp, Drained, CheckStop
  <2>2. evfd' \in [Workers -> BOOLEAN] /\ loop_start' \in [Workers -> BOOLEAN]
    BY <1>0, <1>8 DEF TypeOK, Entry, LoopRun, WakeUp, Drained, CheckStop
  <2>3. TypeOK'
    BY <1>0, <2>1, <2>2 DEF TypeOK, ownerVars, pushVars
  <2>4. LoopHasOneThread' /\ AsyncMarksThread'
    BY <1>0, <2>1
    DEF TypeOK, LoopHasOneThread, AsyncMarksThread, ownerVars
  <2> QED  BY <2>3, <2>4 DEF PoolInv
<1>9. ASSUME NEW w \in Workers, RunTask(w)
      PROVE  PoolInv'
  <2>1. queue[w] \in Seq(1..MaxTask) /\ queue[w] # << >>
    BY <1>0, <1>9 DEF TypeOK, RunTask
  <2>2. Head(queue[w]) \in 1..MaxTask /\ Tail(queue[w]) \in Seq(1..MaxTask)
    BY <2>1, HeadTailProperties
  <2>3. TypeOK'
    BY <1>0, <1>9, <2>2 DEF TypeOK, RunTask, ownerVars
  <2>4. LoopHasOneThread' /\ AsyncMarksThread'
    BY <1>0, <1>9 DEF LoopHasOneThread, AsyncMarksThread, RunTask, ownerVars
  <2> QED  BY <2>3, <2>4 DEF PoolInv
<1>10. CASE UNCHANGED vars
  <2>1. TypeOK'
    BY <1>0, <1>10 DEF TypeOK, vars, ownerVars, threadVars, pushVars
  <2>2. LoopHasOneThread' /\ AsyncMarksThread'
    BY <1>0, <1>10
    DEF LoopHasOneThread, AsyncMarksThread, vars, ownerVars, threadVars
  <2> QED  BY <2>1, <2>2 DEF PoolInv
<1> QED
  BY <1>1, <1>2, <1>3, <1>4, <1>5, <1>6, <1>7, <1>8, <1>9, <1>10
  DEF Next, StartOrStop, Destroy, OwnerStep, WorkerStep

(* The pool's state always satisfies its inductive invariant. *)
THEOREM PoolSafe == Spec => []PoolInv
BY PoolInit, PoolNext, PTL DEF Spec

(***************************************************************************)
(* xv_worker_thread_start never gives a loop a second thread, for any      *)
(* number of workers and any sequence of starts and stops, and             *)
(* xv_worker_thread_destroy frees a worker only after its thread has left. *)
(***************************************************************************)
THEOREM OneThreadPerLoop == Spec => []LoopHasOneThread
<1>1. PoolInv => LoopHasOneThread
  BY DEF PoolInv
<1> QED  BY <1>1, PoolSafe, PTL

=============================================================================
