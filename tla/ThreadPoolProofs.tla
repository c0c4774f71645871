-------------------------- MODULE ThreadPoolProofs --------------------------
(****************************************************************************)
(* Theorems about ThreadPool, for any number of workers, loops and          *)
(* requests.                                                                *)
(****************************************************************************)
EXTENDS ThreadPool, FiniteSetTheorems, TLAPS

\* A worker has a task in its hands while it runs it; only an event loop
\* submits requests.
Hands ==
    \A w \in Workers :
        /\ pc[w] \in {"run", "notify"} <=> task[w] # NoTask
        /\ pc[w] = "notify" => task[w] \in Loops

\* mutex_ is held between the lock and the sleep or the pop.
LockInv == \A w \in Workers : pc[w] \in {"pred", "block", "take"} <=> mutex_ = w

\* Nobody can push between a worker's look at the queue and its sleep, and
\* nobody can pop between that look and the worker's own front().
BlockInv ==
    \A w \in Workers :
        /\ pc[w] = "block" => stop_ \/ taskqueue_ = <<>>
        /\ pc[w] = "take" => stop_ \/ taskqueue_ # <<>>

\* A pool that has just been made.
LEMMA InitTypeOK == Init => TypeOK
<1> HAVE Init
<1>1. taskqueue_ \in Seq(Tasks) /\ added \subseteq Tasks /\ finished \subseteq Tasks
  BY DEF Init
<1>2. pc \in [Workers -> WorkerStates] /\ task \in [Workers -> Tasks \cup {NoTask}]
  BY DEF Init, WorkerStates
<1>3. mutex_ \in Workers \cup {NoOne} /\ stop_ \in BOOLEAN /\ loopsStopped \in BOOLEAN
  BY DEF Init
<1>4. mpc \in {"start", "notify", "serve", "flag", "notifyall", "join", "done"}
  BY DEF Init
<1> QED
  BY <1>1, <1>2, <1>3, <1>4 DEF TypeOK

\* notify_one wakes at most one worker, and only one that sleeps.
LEMMA NotifyOneWakes ==
    ASSUME TypeOK, NEW p \in [Workers -> WorkerStates], NotifyOne(p)
    PROVE  /\ pc' \in [Workers -> WorkerStates]
           /\ \A w \in Workers : pc'[w] = p[w] \/ (w \in Sleeping /\ pc'[w] = "relock")
BY DEF NotifyOne, Sleeping, WorkerStates

\* A worker that has passed the wait and has not returned finds a task, so that
\* front() and pop() are defined.
LEMMA TakesTask ==
    ASSUME TypeOK, BlockInv, NEW w \in Workers, WorkerTake(w)
    PROVE  /\ taskqueue_ # <<>> /\ Head(taskqueue_) \in Tasks
           /\ Front = Head(taskqueue_) /\ Popped = Tail(taskqueue_)
<1>1. taskqueue_ # <<>>
  BY DEF BlockInv, WorkerTake
<1> QED
  BY <1>1 DEF TypeOK, Front, Popped

\* Every step keeps the types and the workers' hands.
LEMMA StepTypeOK == TypeOK /\ Hands /\ BlockInv /\ [Next]_vars => TypeOK' /\ Hands'
<1> SUFFICES ASSUME TypeOK, Hands, BlockInv, [Next]_vars PROVE TypeOK' /\ Hands'
  OBVIOUS
<1> USE DEF TypeOK
<1>1. ASSUME NEW x \in Tasks, Push(x)
      PROVE  taskqueue_' \in Seq(Tasks) /\ added' \subseteq Tasks
  BY <1>1 DEF Push
<1>2. CASE MainAddLoop
  <2>1. PICK l \in Loops : Push(l)
    BY <1>2 DEF MainAddLoop
  <2>2. taskqueue_' \in Seq(Tasks) /\ added' \subseteq Tasks
    BY <1>1, <2>1 DEF Tasks
  <2> QED
    BY <1>2, <2>2 DEF MainAddLoop, Hands
<1>3. CASE MainNotify
  <2>1. pc' \in [Workers -> WorkerStates]
        /\ \A w \in Workers : pc'[w] = pc[w] \/ (pc[w] = "waiting" /\ pc'[w] = "relock")
    BY <1>3, NotifyOneWakes DEF MainNotify, Sleeping
  <2> QED
    BY <1>3, <2>1 DEF MainNotify, Hands
<1>4. ASSUME NEW w \in Workers, LoopAddRequest(w) PROVE TypeOK' /\ Hands'
  <2>1. PICK r \in Requests : Push(r)
    BY <1>4 DEF LoopAddRequest
  <2>2. taskqueue_' \in Seq(Tasks) /\ added' \subseteq Tasks
    BY <1>1, <2>1 DEF Tasks
  <2>3. pc' \in [Workers -> WorkerStates]
    BY <1>4 DEF LoopAddRequest, WorkerStates
  <2>4. Hands'
    BY <1>4 DEF LoopAddRequest, Hands
  <2> QED
    BY <1>4, <2>2, <2>3, <2>4 DEF LoopAddRequest
<1>5. ASSUME NEW w \in Workers, LoopNotify(w) PROVE TypeOK' /\ Hands'
  <2> DEFINE p == [pc EXCEPT ![w] = "run"]
  <2>1. p \in [Workers -> WorkerStates]
    BY DEF WorkerStates
  <2>2. pc' \in [Workers -> WorkerStates]
        /\ \A v \in Workers : pc'[v] = p[v] \/ (pc[v] = "waiting" /\ pc'[v] = "relock")
    BY <1>5, <2>1, NotifyOneWakes DEF LoopNotify, Sleeping
  <2>3. Hands'
    BY <1>5, <2>2 DEF LoopNotify, Hands
  <2> QED
    BY <1>5, <2>2, <2>3 DEF LoopNotify
<1>6. ASSUME NEW w \in Workers,
             WorkerTest(w) \/ WorkerLock(w) \/ WorkerPred(w) \/ WorkerBlock(w)
               \/ SpuriousWakeup(w) \/ WorkerReturn(w)
      PROVE  TypeOK' /\ Hands'
  <2>1. pc' \in [Workers -> WorkerStates]
    BY <1>6 DEF WorkerTest, WorkerLock, WorkerPred, WorkerBlock, SpuriousWakeup, WorkerReturn,
                WorkerStates
  <2>2. mutex_' \in Workers \cup {NoOne}
    BY <1>6 DEF WorkerTest, WorkerLock, WorkerPred, WorkerBlock, SpuriousWakeup, WorkerReturn
  <2>3. Hands'
    BY <1>6 DEF WorkerTest, WorkerLock, WorkerPred, WorkerBlock, SpuriousWakeup, WorkerReturn, Hands
  <2> QED
    BY <1>6, <2>1, <2>2, <2>3
    DEF WorkerTest, WorkerLock, WorkerPred, WorkerBlock, SpuriousWakeup, WorkerReturn
<1>7. ASSUME NEW w \in Workers, WorkerTake(w) PROVE TypeOK' /\ Hands'
  <2>1. /\ Front \in Tasks /\ Popped \in Seq(Tasks)
    BY <1>7, TakesTask
  <2>2. task' \in [Workers -> Tasks \cup {NoTask}] /\ pc' \in [Workers -> WorkerStates]
    BY <1>7, <2>1 DEF WorkerTake, WorkerStates
  <2>3. Hands'
    BY <1>7, <2>1, DistinctAssumption DEF WorkerTake, Hands, Tasks
  <2> QED
    BY <1>7, <2>1, <2>2, <2>3 DEF WorkerTake
<1>8. ASSUME NEW w \in Workers, WorkerFinish(w) PROVE TypeOK' /\ Hands'
  <2>1. task[w] \in Tasks
    BY <1>8 DEF WorkerFinish, Hands
  <2>2. finished' \subseteq Tasks /\ task' \in [Workers -> Tasks \cup {NoTask}]
        /\ pc' \in [Workers -> WorkerStates]
    BY <1>8, <2>1 DEF WorkerFinish, WorkerStates
  <2>3. Hands'
    BY <1>8 DEF WorkerFinish, Hands
  <2> QED
    BY <1>8, <2>2, <2>3 DEF WorkerFinish
<1>9. CASE StopLoops \/ StopFlag \/ StopJoin \/ Terminated \/ UNCHANGED vars
  BY <1>9 DEF StopLoops, StopFlag, StopJoin, Terminated, vars, Hands
<1>10. CASE StopNotifyAll
  <2>1. pc' \in [Workers -> WorkerStates]
    BY <1>10 DEF StopNotifyAll, WorkerStates
  <2>2. Hands'
    BY <1>10 DEF StopNotifyAll, Hands
  <2> QED
    BY <1>10, <2>1, <2>2 DEF StopNotifyAll
<1> QED
  BY <1>2, <1>3, <1>4, <1>5, <1>6, <1>7, <1>8, <1>9, <1>10 DEF Next, WorkerStep

\* Every step keeps the discipline of mutex_, and with it the emptiness of the
\* queue for a worker about to sleep: Push needs mutex_ free.
LEMMA StepLockInv ==
    TypeOK /\ LockInv /\ BlockInv /\ [Next]_vars => LockInv' /\ BlockInv'
<1> SUFFICES ASSUME TypeOK, LockInv, BlockInv, [Next]_vars PROVE LockInv' /\ BlockInv'
  OBVIOUS
<1> USE DistinctAssumption DEF TypeOK, LockInv, BlockInv
<1>1. CASE MainAddLoop
  BY <1>1 DEF MainAddLoop, Push
<1>2. CASE MainNotify
  <2>1. \A w \in Workers : pc'[w] = pc[w] \/ (pc[w] = "waiting" /\ pc'[w] = "relock")
    BY <1>2, NotifyOneWakes DEF MainNotify, Sleeping
  <2> QED
    BY <1>2, <2>1 DEF MainNotify
<1>3. ASSUME NEW w \in Workers, LoopAddRequest(w) PROVE LockInv' /\ BlockInv'
  BY <1>3 DEF LoopAddRequest, Push
<1>4. ASSUME NEW w \in Workers, LoopNotify(w) PROVE LockInv' /\ BlockInv'
  <2> DEFINE p == [pc EXCEPT ![w] = "run"]
  <2>1. p \in [Workers -> WorkerStates]
    BY DEF WorkerStates
  <2>2. \A v \in Workers : pc'[v] = p[v] \/ (pc[v] = "waiting" /\ pc'[v] = "relock")
    BY <1>4, <2>1, NotifyOneWakes DEF LoopNotify, Sleeping
  <2> QED
    BY <1>4, <2>2 DEF LoopNotify
<1>5. ASSUME NEW w \in Workers, WorkerTest(w) \/ SpuriousWakeup(w) \/ WorkerFinish(w)
      PROVE  LockInv' /\ BlockInv'
  BY <1>5 DEF WorkerTest, SpuriousWakeup, WorkerFinish
<1>6. ASSUME NEW w \in Workers, WorkerLock(w) PROVE LockInv' /\ BlockInv'
  BY <1>6 DEF WorkerLock
<1>7. ASSUME NEW w \in Workers, WorkerPred(w) PROVE LockInv' /\ BlockInv'
  BY <1>7 DEF WorkerPred
<1>8. ASSUME NEW w \in Workers, WorkerBlock(w) \/ WorkerReturn(w) \/ WorkerTake(w)
      PROVE  LockInv' /\ BlockInv'
  BY <1>8 DEF WorkerBlock, WorkerReturn, WorkerTake
<1>9. CASE StopLoops \/ StopFlag \/ StopJoin \/ Terminated \/ UNCHANGED vars
  BY <1>9 DEF StopLoops, StopFlag, StopJoin, Terminated, vars
<1>10. CASE StopNotifyAll
  BY <1>10 DEF StopNotifyAll
<1> QED
  BY <1>1, <1>2, <1>3, <1>4, <1>5, <1>6, <1>7, <1>8, <1>9, <1>10 DEF Next, WorkerStep

PoolInv == TypeOK /\ Hands /\ LockInv /\ BlockInv

\* These invariants hold of every behaviour of the pool.
LEMMA AlwaysPoolInv == Spec => []PoolInv
<1>1. Init => Hands /\ LockInv /\ BlockInv
  BY DistinctAssumption DEF Init, Hands, LockInv, BlockInv
<1> QED
  BY <1>1, InitTypeOK, StepTypeOK, StepLockInv, PTL DEF Spec, PoolInv

-----------------------------------------------------------------------------
(* No wakeup is lost *)

Notifiers == {w \in Workers : pc[w] = "notify"}

MainNotifies == IF mpc = "notify" THEN 1 ELSE 0

\* Sets of workers are finite, and grow and shrink by one.
LEMMA WorkerSets ==
    ASSUME NEW S \in SUBSET Workers, NEW T \in SUBSET Workers, NEW w \in Workers
    PROVE  /\ IsFiniteSet(S) /\ Cardinality(S) \in Nat
           /\ S \subseteq T => Cardinality(S) <= Cardinality(T)
           /\ S \subseteq T \/ S \subseteq T \cup {w} => Cardinality(S) <= Cardinality(T) + 1
           /\ w \notin S /\ T = S \cup {w} => Cardinality(T) = Cardinality(S) + 1
<1>1. \A R \in SUBSET Workers : IsFiniteSet(R) /\ Cardinality(R) \in Nat
  BY WorkersAssumption, FS_Subset, FS_CardinalityType
<1>2. S \subseteq T => Cardinality(S) <= Cardinality(T)
  BY <1>1, FS_Subset
<1>3. Cardinality(T \cup {w}) <= Cardinality(T) + 1 /\ T \cup {w} \in SUBSET Workers
  BY <1>1, FS_AddElement
<1>4. S \subseteq T \cup {w} => Cardinality(S) <= Cardinality(T) + 1
  <2> HAVE S \subseteq T \cup {w}
  <2>1. IsFiniteSet(T \cup {w}) /\ Cardinality(T \cup {w}) \in Nat
    BY <1>1, <1>3
  <2>2. Cardinality(S) <= Cardinality(T \cup {w})
    BY <2>1, FS_Subset
  <2> QED
    BY <1>1, <1>3, <2>1, <2>2
<1>5. w \notin S /\ T = S \cup {w} => Cardinality(T) = Cardinality(S) + 1
  BY <1>1, FS_AddElement
<1> QED
  BY <1>1, <1>2, <1>4, <1>5

\* A notification that is on its way is exchanged for a worker that is awake.
LEMMA NotifyWakes ==
    ASSUME TypeOK, NEW p \in [Workers -> WorkerStates], NotifyOne(p), task' = task,
           \A w \in Workers : p[w] = pc[w] \/ (pc[w] = "notify" /\ p[w] = "run" /\ task[w] \notin Requests),
           Sleeping' # {}
    PROVE  Cardinality(Awake') = Cardinality(Awake) + 1 /\ Sleeping # {}
<1>1. Sleeping # {}
  BY DEF NotifyOne, Sleeping
<1>2. PICK v \in Sleeping : pc' = [p EXCEPT ![v] = "relock"]
  BY <1>1 DEF NotifyOne
<1>3. v \in Workers /\ pc[v] = "waiting" /\ v \notin Awake
  BY DEF Sleeping, Awake
<1>4. Awake' = Awake \cup {v}
  <2>1. pc'[v] = "relock" /\ \A w \in Workers : w # v => pc'[w] = p[w]
    BY <1>2, <1>3
  <2> QED
    BY <1>3, <2>1 DEF Awake
<1>5. Awake \in SUBSET Workers /\ Awake' \in SUBSET Workers
  BY DEF Awake
<1> QED
  BY <1>1, <1>3, <1>4, <1>5, WorkerSets

\* Every step of a pool that is not stopped leaves enough workers awake, or
\* notifications on their way, for the tasks in the queue.
LEMMA StepNoLostWakeup == PoolInv /\ PoolInv' /\ NoLostWakeup /\ [Next]_vars => NoLostWakeup'
<1> SUFFICES ASSUME PoolInv, PoolInv', NoLostWakeup, [Next]_vars, ~stop_', Sleeping' # {}
             PROVE  Len(taskqueue_') <= Cardinality(Awake') + PendingNotifies'
  BY DEF NoLostWakeup
<1>1. /\ taskqueue_ \in Seq(Tasks) /\ taskqueue_' \in Seq(Tasks)
      /\ pc \in [Workers -> WorkerStates] /\ task \in [Workers -> Tasks \cup {NoTask}]
      /\ Len(taskqueue_) \in Nat /\ Len(taskqueue_') \in Nat
  BY DEF PoolInv, TypeOK
<1>2. /\ Awake \in SUBSET Workers /\ Awake' \in SUBSET Workers
      /\ Notifiers \in SUBSET Workers /\ Notifiers' \in SUBSET Workers
  BY DEF Awake, Notifiers
<1>3. \A S \in SUBSET Workers : Cardinality(S) \in Nat
  BY WorkersAssumption, FS_Subset, FS_CardinalityType
<1>4. MainNotifies \in 0..1 /\ MainNotifies' \in 0..1
  BY DEF MainNotifies
<1>5. ~stop_ /\ Sleeping # {} =>
        Len(taskqueue_) <= Cardinality(Awake) + Cardinality(Notifiers) + MainNotifies
  <2>1. PendingNotifies = Cardinality(Notifiers) + MainNotifies
    BY DEF PendingNotifies, Notifiers, MainNotifies
  <2>2. ~stop_ /\ Sleeping # {} => Len(taskqueue_) <= Cardinality(Awake) + PendingNotifies
    BY DEF NoLostWakeup
  <2> QED
    BY <1>2, <1>3, <1>4, <2>1, <2>2
<1> DEFINE Enough == Len(taskqueue_') <= Cardinality(Awake') + Cardinality(Notifiers') + MainNotifies'
<1> SUFFICES Enough
  <2>1. PendingNotifies' = Cardinality(Notifiers') + MainNotifies'
    BY DEF PendingNotifies, Notifiers, MainNotifies
  <2> QED
    BY <1>2, <1>3, <1>4, <2>1
<1>6. ASSUME Len(taskqueue_') = 0 PROVE Enough
  BY <1>2, <1>3, <1>4, <1>6
<1>7. ASSUME ~stop_, Sleeping # {}, Len(taskqueue_') <= Len(taskqueue_), Awake \subseteq Awake',
             Notifiers' = Notifiers, MainNotifies' = MainNotifies
      PROVE  Enough
  <2>1. Cardinality(Awake) <= Cardinality(Awake')
    <3>1. IsFiniteSet(Awake')
      BY <1>2, WorkersAssumption, FS_Subset
    <3> QED
      BY <1>7, <3>1, FS_Subset
  <2> QED
    BY <1>1, <1>2, <1>3, <1>4, <1>5, <1>7, <2>1
<1>8. CASE MainAddLoop
  <2>1. /\ ~stop_ /\ Len(taskqueue_') = Len(taskqueue_) + 1
        /\ mpc = "start" /\ mpc' = "notify" /\ UNCHANGED <<pc, task>>
    BY <1>1, <1>8 DEF MainAddLoop, Push
  <2>2. /\ Awake' = Awake /\ Notifiers' = Notifiers /\ Sleeping' = Sleeping
        /\ MainNotifies = 0 /\ MainNotifies' = 1
    BY <2>1 DEF Awake, Notifiers, Sleeping, MainNotifies
  <2> QED
    BY <1>1, <1>2, <1>3, <1>5, <2>1, <2>2
<1>9. CASE MainNotify
  <2>1. /\ ~stop_ /\ taskqueue_' = taskqueue_ /\ task' = task /\ NotifyOne(pc)
        /\ mpc = "notify" /\ mpc' # "notify"
    BY <1>9 DEF MainNotify
  <2>2. Cardinality(Awake') = Cardinality(Awake) + 1 /\ Sleeping # {}
    BY <1>1, <2>1, NotifyWakes DEF PoolInv
  <2>3. Notifiers' = Notifiers
    BY <1>1, <2>1, NotifyOneWakes DEF PoolInv, Notifiers, Sleeping
  <2>4. MainNotifies = 1 /\ MainNotifies' = 0
    BY <2>1 DEF MainNotifies
  <2> QED
    BY <1>1, <1>2, <1>3, <1>5, <2>1, <2>2, <2>3, <2>4
<1>10. ASSUME NEW w \in Workers, LoopAddRequest(w) PROVE Enough
  <2>1. /\ ~stop_ /\ Len(taskqueue_') = Len(taskqueue_) + 1 /\ pc[w] = "run" /\ task[w] \in Loops
        /\ pc' = [pc EXCEPT ![w] = "notify"] /\ UNCHANGED <<task, mpc>>
    BY <1>1, <1>10 DEF LoopAddRequest, Push
  <2>2. task[w] \notin Requests
    BY <2>1, DistinctAssumption
  <2>3. Awake' = Awake /\ Sleeping' = Sleeping /\ MainNotifies' = MainNotifies
    BY <1>1, <2>1, <2>2 DEF Awake, Sleeping, MainNotifies
  <2>4. Notifiers' = Notifiers \cup {w} /\ w \notin Notifiers
    BY <1>1, <2>1 DEF Notifiers
  <2>5. Cardinality(Notifiers') = Cardinality(Notifiers) + 1
    BY <1>2, <2>4, WorkerSets
  <2> QED
    BY <1>1, <1>2, <1>3, <1>4, <1>5, <2>1, <2>3, <2>5
<1>11. ASSUME NEW w \in Workers, LoopNotify(w) PROVE Enough
  <2> DEFINE p == [pc EXCEPT ![w] = "run"]
  <2>1. /\ ~stop_ /\ taskqueue_' = taskqueue_ /\ task' = task /\ mpc' = mpc
        /\ pc[w] = "notify" /\ NotifyOne(p)
    BY <1>11 DEF LoopNotify
  <2>2. p \in [Workers -> WorkerStates] /\ p[w] = "run" /\ \A v \in Workers : v # w => p[v] = pc[v]
    BY <1>1 DEF WorkerStates
  <2>3. task[w] \notin Requests
    BY <2>1, DistinctAssumption DEF PoolInv, Hands
  <2> HIDE DEF p
  <2>4. Cardinality(Awake') = Cardinality(Awake) + 1 /\ Sleeping # {}
    BY <2>1, <2>2, <2>3, NotifyWakes DEF PoolInv
  <2>5. \A v \in Workers : pc'[v] = p[v] \/ (pc[v] = "waiting" /\ pc'[v] = "relock")
    BY <2>1, <2>2, NotifyOneWakes DEF PoolInv, Sleeping
  <2>6. Notifiers = Notifiers' \cup {w} /\ w \notin Notifiers'
    BY <2>1, <2>2, <2>5 DEF Notifiers
  <2>7. Cardinality(Notifiers) = Cardinality(Notifiers') + 1
    BY <1>2, <2>6, WorkerSets
  <2>8. MainNotifies' = MainNotifies
    BY <2>1 DEF MainNotifies
  <2> QED
    BY <1>1, <1>2, <1>3, <1>4, <1>5, <2>1, <2>4, <2>7, <2>8
<1>12. ASSUME NEW w \in Workers, WorkerTest(w) \/ WorkerLock(w) PROVE Enough
  <2>1. /\ ~stop_ /\ taskqueue_' = taskqueue_ /\ task' = task /\ mpc' = mpc
        /\ pc[w] \in {"test", "lock", "relock"} /\ pc'[w] \in {"lock", "pred"}
        /\ \A v \in Workers : v # w => pc'[v] = pc[v]
    BY <1>1, <1>12 DEF WorkerTest, WorkerLock
  <2>2. Awake \subseteq Awake' /\ Notifiers' = Notifiers /\ Sleeping' = Sleeping
        /\ MainNotifies' = MainNotifies
    BY <2>1 DEF Awake, Notifiers, Sleeping, MainNotifies
  <2> QED
    BY <1>1, <1>7, <2>1, <2>2
<1>13. ASSUME NEW w \in Workers, WorkerPred(w) PROVE Enough
  <2>1. CASE taskqueue_ = <<>>
    BY <1>6, <1>13, <2>1 DEF WorkerPred
  <2>2. CASE taskqueue_ # <<>>
    <3>1. /\ ~stop_ /\ taskqueue_' = taskqueue_ /\ task' = task /\ mpc' = mpc
          /\ pc[w] = "pred" /\ pc'[w] = "take"
          /\ \A v \in Workers : v # w => pc'[v] = pc[v]
      BY <1>1, <1>13, <2>2 DEF WorkerPred
    <3>2. Awake \subseteq Awake' /\ Notifiers' = Notifiers /\ Sleeping' = Sleeping
          /\ MainNotifies' = MainNotifies
      BY <3>1 DEF Awake, Notifiers, Sleeping, MainNotifies
    <3> QED
      BY <1>1, <1>7, <3>1, <3>2
  <2> QED
    BY <2>1, <2>2
<1>14. ASSUME NEW w \in Workers, WorkerBlock(w) PROVE Enough
  <2>1. taskqueue_' = <<>>
    BY <1>14 DEF WorkerBlock, PoolInv, BlockInv
  <2> QED
    BY <1>6, <2>1
<1>15. ASSUME NEW w \in Workers, SpuriousWakeup(w) \/ WorkerFinish(w) PROVE Enough
  <2>1. /\ ~stop_ /\ taskqueue_' = taskqueue_ /\ mpc' = mpc
        /\ pc[w] \in {"waiting", "run"} /\ pc'[w] \in {"relock", "test"}
        /\ \A v \in Workers : v # w => pc'[v] = pc[v] /\ task'[v] = task[v]
    BY <1>1, <1>15 DEF SpuriousWakeup, WorkerFinish
  <2>2. Awake \subseteq Awake' /\ Notifiers' = Notifiers /\ Sleeping' \subseteq Sleeping
        /\ MainNotifies' = MainNotifies
    BY <2>1 DEF Awake, Notifiers, Sleeping, MainNotifies
  <2> QED
    BY <1>1, <1>7, <2>1, <2>2
<1>16. ASSUME NEW w \in Workers, WorkerReturn(w) PROVE Enough
  BY <1>16 DEF WorkerReturn
<1>17. ASSUME NEW w \in Workers, WorkerTake(w) PROVE Enough
  <2>1. /\ ~stop_ /\ Len(taskqueue_') = Len(taskqueue_) - 1 /\ mpc' = mpc
        /\ pc[w] = "take" /\ pc'[w] = "run"
        /\ \A v \in Workers : v # w => pc'[v] = pc[v] /\ task'[v] = task[v]
    <3>1. taskqueue_ # <<>> /\ Popped = Tail(taskqueue_)
      BY <1>17, TakesTask DEF PoolInv
    <3> QED
      BY <1>1, <1>17, <3>1 DEF WorkerTake
  <2>2. Awake \subseteq Awake' \cup {w} /\ Notifiers' = Notifiers /\ Sleeping' = Sleeping
        /\ MainNotifies' = MainNotifies
    BY <2>1 DEF Awake, Notifiers, Sleeping, MainNotifies
  <2>3. Cardinality(Awake) <= Cardinality(Awake') + 1
    BY <1>2, <2>2, WorkerSets
  <2> QED
    BY <1>1, <1>2, <1>3, <1>4, <1>5, <2>1, <2>2, <2>3
<1>18. CASE StopLoops \/ StopJoin \/ Terminated \/ UNCHANGED vars
  <2>1. ~stop_ /\ UNCHANGED <<taskqueue_, pc, task>> /\ (mpc = "notify" <=> mpc' = "notify")
    BY <1>18 DEF StopLoops, StopJoin, Terminated, vars
  <2>2. Awake' = Awake /\ Notifiers' = Notifiers /\ Sleeping' = Sleeping
        /\ MainNotifies' = MainNotifies
    BY <2>1 DEF Awake, Notifiers, Sleeping, MainNotifies
  <2> QED
    BY <1>1, <1>7, <2>1, <2>2
<1>19. CASE StopFlag
  BY <1>19 DEF StopFlag
<1>20. CASE StopNotifyAll
  <2>1. Sleeping' = {}
    BY <1>20 DEF StopNotifyAll, Sleeping
  <2> QED
    BY <2>1
<1> QED
  BY <1>8, <1>9, <1>10, <1>11, <1>12, <1>13, <1>14, <1>15, <1>16, <1>17, <1>18, <1>19, <1>20
  DEF Next, WorkerStep

\* notify_one outside the lock loses no wakeup while the pool runs: a worker
\* looks at the queue and joins the wait set under the lock that a push needs.
THEOREM WakeupNotLost == Spec => []NoLostWakeup
<1>1. Init => NoLostWakeup
  BY DEF Init, NoLostWakeup, Sleeping
<1> QED
  BY <1>1, AlwaysPoolInv, StepNoLostWakeup, PTL DEF Spec

-----------------------------------------------------------------------------
(* Each task once *)

Held == {w \in Workers : task[w] # NoTask}

\* No task is in two places of the queue, in the hands of two workers, or in
\* two of queue, hands and finished.
OnePlace ==
    /\ \A i, j \in 1..Len(taskqueue_) : taskqueue_[i] = taskqueue_[j] => i = j
    /\ \A i \in 1..Len(taskqueue_) : taskqueue_[i] \notin finished
    /\ \A i \in 1..Len(taskqueue_), w \in Workers : task[w] # taskqueue_[i]
    /\ \A v, w \in Workers : task[v] # NoTask /\ task[v] = task[w] => v = w
    /\ \A w \in Workers : task[w] \notin finished

\* Every task that was submitted is in one of these places.
AllPlaced == added = Elements(taskqueue_) \cup {task[w] : w \in Held} \cup finished

\* The tasks of the three places add up.
Counted ==
    /\ IsFiniteSet(added)
    /\ Cardinality(added) = Len(taskqueue_) + Cardinality(Held) + Cardinality(finished)

OnceInv == OnePlace /\ AllPlaced /\ Counted

\* addtask accepts a task that is nowhere yet, at the end of the queue.
LEMMA PushOnce ==
    ASSUME PoolInv, OnceInv, NEW x \in Tasks, Push(x), task' = task, finished' = finished
    PROVE  OnceInv'
<1>1. /\ taskqueue_ \in Seq(Tasks) /\ taskqueue_' = Append(taskqueue_, x)
      /\ x \notin added /\ added' = added \cup {x} /\ x # NoTask
  BY DistinctAssumption DEF PoolInv, TypeOK, Push, Tasks
<1>2. /\ Len(taskqueue_') = Len(taskqueue_) + 1 /\ Len(taskqueue_) \in Nat
      /\ taskqueue_'[Len(taskqueue_) + 1] = x
      /\ \A i \in 1..Len(taskqueue_) : taskqueue_'[i] = taskqueue_[i]
  BY <1>1
<1>3. /\ \A i \in 1..Len(taskqueue_) : taskqueue_[i] # x
      /\ \A w \in Workers : task[w] # x
      /\ x \notin finished
  BY <1>1 DEF OnceInv, AllPlaced, Elements, Held
<1>4. OnePlace'
  BY <1>2, <1>3 DEF OnceInv, OnePlace
<1>5. Elements(taskqueue_') = Elements(taskqueue_) \cup {x} /\ Held' = Held
  BY <1>2 DEF Elements, Held
<1>6. AllPlaced'
  BY <1>1, <1>5 DEF OnceInv, AllPlaced, Elements
<1>7. /\ IsFiniteSet(added') /\ Cardinality(added') = Cardinality(added) + 1
      /\ Cardinality(added) \in Nat
  BY <1>1, FS_AddElement, FS_CardinalityType DEF OnceInv, Counted
<1>8. finished \subseteq added /\ Held \subseteq Workers
  BY DEF OnceInv, AllPlaced, Held
<1>9. Cardinality(Held) \in Nat /\ Cardinality(finished) \in Nat
  BY <1>8, WorkersAssumption, FS_Subset, FS_CardinalityType DEF OnceInv, Counted
<1>10. Counted'
  BY <1>2, <1>5, <1>7, <1>9 DEF OnceInv, Counted
<1> QED
  BY <1>4, <1>6, <1>10 DEF OnceInv

\* A worker takes the front of the queue into its hands.
LEMMA TakeOnce ==
    ASSUME PoolInv, OnceInv, NEW w \in Workers, WorkerTake(w)
    PROVE  OnceInv'
<1> DEFINE x == Head(taskqueue_)
<1>1. /\ taskqueue_ \in Seq(Tasks) /\ taskqueue_ # <<>> /\ taskqueue_' = Tail(taskqueue_)
      /\ task \in [Workers -> Tasks \cup {NoTask}] /\ task[w] = NoTask
      /\ task'[w] = x /\ \A v \in Workers : v # w => task'[v] = task[v]
      /\ added' = added /\ finished' = finished
  BY TakesTask DEF PoolInv, TypeOK, Hands, WorkerTake
<1>2. /\ Len(taskqueue_') = Len(taskqueue_) - 1 /\ Len(taskqueue_) \in Nat \ {0}
      /\ x = taskqueue_[1] /\ x \in Tasks
      /\ \A i \in 1..Len(taskqueue_') : taskqueue_'[i] = taskqueue_[i + 1]
  BY <1>1
<1>3. x # NoTask
  BY <1>2, DistinctAssumption DEF Tasks
<1> HIDE DEF x
<1>4. /\ \A i \in 1..Len(taskqueue_') : taskqueue_'[i] # x
      /\ \A v \in Workers : task[v] # x
      /\ x \notin finished
  BY <1>2 DEF OnceInv, OnePlace
<1>5. OnePlace'
  <2>1. ASSUME NEW i \in 1..Len(taskqueue_'), NEW j \in 1..Len(taskqueue_'),
               taskqueue_'[i] = taskqueue_'[j]
        PROVE  i = j
    <3>1. i + 1 \in 1..Len(taskqueue_) /\ j + 1 \in 1..Len(taskqueue_)
      BY <1>2
    <3>2. taskqueue_[i + 1] = taskqueue_[j + 1]
      BY <1>2, <2>1
    <3>3. i + 1 = j + 1
      BY <3>1, <3>2 DEF OnceInv, OnePlace
    <3> QED
      BY <3>3
  <2>2. \A i \in 1..Len(taskqueue_') : i + 1 \in 1..Len(taskqueue_)
    BY <1>2
  <2>3. \A i \in 1..Len(taskqueue_') :
          taskqueue_'[i] \notin finished' /\ \A v \in Workers : task'[v] # taskqueue_'[i]
    BY <1>1, <1>2, <1>4, <2>2 DEF OnceInv, OnePlace
  <2>4. \A u, v \in Workers : task'[u] # NoTask /\ task'[u] = task'[v] => u = v
    BY <1>1, <1>4 DEF OnceInv, OnePlace
  <2>5. \A v \in Workers : task'[v] \notin finished'
    BY <1>1, <1>4 DEF OnceInv, OnePlace
  <2> QED
    BY <2>1, <2>3, <2>4, <2>5 DEF OnePlace
<1>6. Held' = Held \cup {w} /\ w \notin Held
  BY <1>1, <1>3 DEF Held
<1>7. Elements(taskqueue_) = Elements(taskqueue_') \cup {x}
  <2>1. \A i \in 1..Len(taskqueue_) : i = 1 \/ (i - 1 \in 1..Len(taskqueue_') /\ (i - 1) + 1 = i)
    BY <1>2
  <2>2. \A i \in 1..Len(taskqueue_') : i + 1 \in 1..Len(taskqueue_)
    BY <1>2
  <2>3. 1 \in 1..Len(taskqueue_)
    BY <1>2
  <2>4. ASSUME NEW i \in 1..Len(taskqueue_)
        PROVE  taskqueue_[i] \in Elements(taskqueue_') \cup {x}
    <3>1. CASE i = 1
      BY <1>2, <3>1
    <3>2. CASE i # 1
      <4>1. i - 1 \in 1..Len(taskqueue_') /\ (i - 1) + 1 = i
        BY <2>1, <3>2
      <4>2. taskqueue_'[i - 1] = taskqueue_[i]
        BY <1>2, <4>1
      <4> QED
        BY <4>1, <4>2 DEF Elements
    <3> QED
      BY <3>1, <3>2
  <2>5. \A y : y \in Elements(taskqueue_') \cup {x} => y \in Elements(taskqueue_)
    BY <1>2, <2>2, <2>3 DEF Elements
  <2> QED
    BY <2>4, <2>5 DEF Elements
<1>8. {task'[v] : v \in Held'} = {task[v] : v \in Held} \cup {x}
  BY <1>1, <1>6 DEF Held
<1>9. AllPlaced'
  BY <1>1, <1>7, <1>8 DEF OnceInv, AllPlaced
<1>10. /\ Cardinality(Held') = Cardinality(Held) + 1 /\ Cardinality(Held) \in Nat
       /\ Held \in SUBSET Workers /\ Held' \in SUBSET Workers
  BY <1>6, WorkerSets DEF Held
<1>11. Cardinality(finished) \in Nat
  BY FS_Subset, FS_CardinalityType DEF OnceInv, Counted, AllPlaced
<1>12. Counted'
  BY <1>1, <1>2, <1>10, <1>11 DEF OnceInv, Counted
<1> QED
  BY <1>5, <1>9, <1>12 DEF OnceInv

\* A task whose call returned leaves the worker's hands for good.
LEMMA FinishOnce ==
    ASSUME PoolInv, OnceInv, NEW w \in Workers, WorkerFinish(w)
    PROVE  OnceInv'
<1> DEFINE x == task[w]
<1>1. /\ task \in [Workers -> Tasks \cup {NoTask}] /\ finished \subseteq Tasks
      /\ x # NoTask /\ task'[w] = NoTask /\ \A v \in Workers : v # w => task'[v] = task[v]
      /\ added' = added /\ finished' = finished \cup {x} /\ taskqueue_' = taskqueue_
      /\ taskqueue_ \in Seq(Tasks)
  BY DEF PoolInv, TypeOK, Hands, WorkerFinish
<1>2. NoTask \notin Tasks
  BY DistinctAssumption DEF Tasks
<1>3. \A i \in 1..Len(taskqueue_) : taskqueue_[i] \in Tasks
  BY <1>1
<1>4. OnePlace'
  <2>1. \A i \in 1..Len(taskqueue_) :
          taskqueue_[i] \notin finished' /\ \A v \in Workers : task'[v] # taskqueue_[i]
    BY <1>1, <1>2, <1>3 DEF OnceInv, OnePlace
  <2>2. \A u, v \in Workers : task'[u] # NoTask /\ task'[u] = task'[v] => u = v
    BY <1>1 DEF OnceInv, OnePlace
  <2>3. \A v \in Workers : task'[v] \notin finished'
    BY <1>1, <1>2 DEF OnceInv, OnePlace
  <2> QED
    BY <1>1, <2>1, <2>2, <2>3 DEF OnceInv, OnePlace
<1>5. Held = Held' \cup {w} /\ w \notin Held'
  BY <1>1 DEF Held
<1>6. {task[v] : v \in Held} = {task'[v] : v \in Held'} \cup {x}
  BY <1>1, <1>5 DEF Held
<1>7. AllPlaced'
  BY <1>1, <1>6 DEF OnceInv, AllPlaced
<1>8. /\ Cardinality(Held) = Cardinality(Held') + 1 /\ Cardinality(Held') \in Nat
      /\ Held \in SUBSET Workers /\ Held' \in SUBSET Workers
  BY <1>5, WorkerSets DEF Held
<1>9. x \notin finished
  BY DEF OnceInv, OnePlace
<1>10. IsFiniteSet(finished) /\ Cardinality(finished) \in Nat
  BY FS_Subset, FS_CardinalityType DEF OnceInv, Counted, AllPlaced
<1>11. Cardinality(finished') = Cardinality(finished) + 1
  BY <1>1, <1>9, <1>10, FS_AddElement
<1>12. Len(taskqueue_) \in Nat
  BY <1>1
<1>13. Counted'
  BY <1>1, <1>8, <1>10, <1>11, <1>12 DEF OnceInv, Counted
<1> QED
  BY <1>4, <1>7, <1>13 DEF OnceInv

\* A submitted task is queued, held by one worker or done, and only one of
\* these, however addtask, the workers and stop() interleave.
THEOREM TaskOnce == Spec => []EachTaskOnce
<1>1. Init => OnceInv
  <2> HAVE Init
  <2>1. /\ Held = {} /\ Elements(taskqueue_) = {} /\ Len(taskqueue_) = 0
        /\ added = {} /\ finished = {}
    BY DEF Init, Held, Elements
  <2>2. OnePlace /\ AllPlaced
    BY <2>1 DEF Init, OnePlace, AllPlaced
  <2>3. Counted
    BY <2>1, FS_EmptySet DEF Counted
  <2> QED
    BY <2>2, <2>3 DEF OnceInv
<1>2. PoolInv /\ OnceInv /\ [Next]_vars => OnceInv'
  <2> SUFFICES ASSUME PoolInv, OnceInv, [Next]_vars PROVE OnceInv'
    OBVIOUS
  <2>1. ASSUME UNCHANGED <<taskqueue_, task, added, finished>> PROVE OnceInv'
    BY <2>1 DEF OnceInv, OnePlace, AllPlaced, Counted, Held, Elements
  <2>2. CASE MainAddLoop
    BY <2>2, PushOnce DEF MainAddLoop, Tasks
  <2>3. ASSUME NEW w \in Workers, LoopAddRequest(w) PROVE OnceInv'
    BY <2>3, PushOnce DEF LoopAddRequest, Tasks
  <2>4. ASSUME NEW w \in Workers, WorkerTake(w) \/ WorkerFinish(w) PROVE OnceInv'
    BY <2>4, TakeOnce, FinishOnce
  <2>5. CASE MainNotify \/ StopLoops \/ StopFlag \/ StopNotifyAll \/ StopJoin
             \/ Terminated \/ UNCHANGED vars
    BY <2>1, <2>5 DEF MainNotify, StopLoops, StopFlag, StopNotifyAll, StopJoin, Terminated, vars
  <2>6. ASSUME NEW w \in Workers,
               \/ WorkerTest(w) \/ WorkerLock(w) \/ WorkerPred(w) \/ WorkerBlock(w)
               \/ WorkerReturn(w) \/ LoopNotify(w) \/ SpuriousWakeup(w)
        PROVE  OnceInv'
    BY <2>1, <2>6 DEF WorkerTest, WorkerLock, WorkerPred, WorkerBlock, WorkerReturn,
                      LoopNotify, SpuriousWakeup
  <2> QED
    BY <2>2, <2>3, <2>4, <2>5, <2>6 DEF Next, WorkerStep
<1>3. OnceInv => EachTaskOnce
  BY DEF OnceInv, AllPlaced, Counted, EachTaskOnce, Held
<1> QED
  BY <1>1, <1>2, <1>3, AlwaysPoolInv, PTL DEF Spec
=============================================================================
