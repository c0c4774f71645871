----------------------------- MODULE ThreadPool -----------------------------
(****************************************************************************)
(* The thread pool (src/common/ThreadPool.cpp) as the program uses it: the  *)
(* main thread submits one EventLoop::run per loop (EventLoopGroup,         *)
(* TcpClient), the running loops submit requests (TcpServer::HandleMessage),*)
(* and the main thread stops first the loops and then the pool              *)
(* (TcpServer::stop, client.cpp).                                           *)
(*                                                                          *)
(* The worker's loop is split at every point where another thread can get   *)
(* in: the test of stop_, the lock, the predicate of the condition          *)
(* variable, the moment it really sleeps, and the pop.  stop() takes no     *)
(* lock.  A worker that takes from an empty queue gets Garbage.             *)
(****************************************************************************)
EXTENDS Naturals, Sequences, FiniteSets

CONSTANTS
    Workers,    \* the threads of threads_
    Loops,      \* tasks that are an EventLoop::run
    Requests,   \* tasks that handle a request and return
    NoOne,      \* nobody holds mutex_
    NoTask,     \* a worker's hands are empty
    Garbage     \* what front() of an empty queue gives

ASSUME WorkersAssumption == IsFiniteSet(Workers)
ASSUME DistinctAssumption ==
    /\ Loops \cap Requests = {}
    /\ NoOne \notin Workers
    /\ NoTask \notin Loops \cup Requests
    /\ Garbage \notin Loops \cup Requests \cup {NoTask}

VARIABLES
    taskqueue_,     \* tasks waiting, oldest first
    stop_,          \* the atomic flag
    mutex_,         \* the holder of mutex_, or NoOne
    pc,             \* where each worker is
    task,           \* the task in a worker's hands, or NoTask
    mpc,            \* where the main thread is
    loopsStopped,   \* EventLoop::stop has been called on every loop
    added,          \* tasks ever given to addtask
    finished        \* tasks whose call returned

vars == <<taskqueue_, stop_, mutex_, pc, task, mpc, loopsStopped, added, finished>>

Tasks == Loops \cup Requests

WorkerStates == {"test", "lock", "pred", "block", "waiting", "relock", "take",
                 "run", "notify", "exited"}

Elements(s) == {s[i] : i \in 1..Len(s)}

TypeOK ==
    /\ taskqueue_ \in Seq(Tasks)
    /\ stop_ \in BOOLEAN
    /\ mutex_ \in Workers \cup {NoOne}
    /\ pc \in [Workers -> WorkerStates]
    /\ task \in [Workers -> Tasks \cup {NoTask}]
    /\ mpc \in {"start", "notify", "serve", "flag", "notifyall", "join", "done"}
    /\ loopsStopped \in BOOLEAN
    /\ added \subseteq Tasks
    /\ finished \subseteq Tasks

Init ==
    /\ taskqueue_ = <<>>
    /\ stop_ = FALSE
    /\ mutex_ = NoOne
    /\ pc = [w \in Workers |-> "test"]
    /\ task = [w \in Workers |-> NoTask]
    /\ mpc = "start"
    /\ loopsStopped = FALSE
    /\ added = {}
    /\ finished = {}

-----------------------------------------------------------------------------
(* addtask: push under the lock, then notify_one without it *)

Push(x) ==
    /\ mutex_ = NoOne
    /\ x \notin added
    /\ taskqueue_' = Append(taskqueue_, x)
    /\ added' = added \cup {x}

Sleeping == {w \in Workers : pc[w] = "waiting"}

\* Mutant: notify_one is forgotten.
NotifyNobody(p) == pc' = p

\* notify_one by a thread whose own state becomes that of p: one sleeper, if
\* there is one, leaves the wait set.
NotifyOne(p) ==
    IF Sleeping = {} THEN pc' = p
    ELSE \E w \in Sleeping : pc' = [p EXCEPT ![w] = "relock"]

\* EventLoopGroup::EventLoopGroup, TcpClient::TcpClient.
MainAddLoop ==
    /\ mpc = "start"
    /\ \E l \in Loops : Push(l)
    /\ mpc' = "notify"
    /\ UNCHANGED <<stop_, mutex_, pc, task, loopsStopped, finished>>

MainNotify ==
    /\ mpc = "notify"
    /\ NotifyOne(pc)
    /\ mpc' = IF Loops \subseteq added THEN "serve" ELSE "start"
    /\ UNCHANGED <<taskqueue_, stop_, mutex_, task, loopsStopped, added, finished>>

\* HandleMessage on a loop thread, that is, on a worker inside EventLoop::run.
LoopAddRequest(w) ==
    /\ pc[w] = "run"
    /\ task[w] \in Loops
    /\ \E r \in Requests : Push(r)
    /\ pc' = [pc EXCEPT ![w] = "notify"]
    /\ UNCHANGED <<stop_, mutex_, task, mpc, loopsStopped, finished>>

LoopNotify(w) ==
    /\ pc[w] = "notify"
    /\ NotifyOne([pc EXCEPT ![w] = "run"])
    /\ UNCHANGED <<taskqueue_, stop_, mutex_, task, mpc, loopsStopped, added, finished>>

-----------------------------------------------------------------------------
(* The worker's lambda in ThreadPool::ThreadPool *)

\* while (stop_ == false)
WorkerTest(w) ==
    /\ pc[w] = "test"
    /\ pc' = [pc EXCEPT ![w] = IF stop_ THEN "exited" ELSE "lock"]
    /\ UNCHANGED <<taskqueue_, stop_, mutex_, task, mpc, loopsStopped, added, finished>>

\* Mutant: wait() without its predicate, after a test of the queue.
WorkerLockNoPredicate(w) ==
    /\ pc[w] \in {"lock", "relock"}
    /\ mutex_ = NoOne
    /\ mutex_' = w
    /\ pc' = [pc EXCEPT ![w] = IF @ = "lock" THEN "pred" ELSE "take"]
    /\ UNCHANGED <<taskqueue_, stop_, task, mpc, loopsStopped, added, finished>>

\* The unique_lock, and the lock that wait() takes again when woken; either way
\* the predicate comes next.
WorkerLock(w) ==
    /\ pc[w] \in {"lock", "relock"}
    /\ mutex_ = NoOne
    /\ mutex_' = w
    /\ pc' = [pc EXCEPT ![w] = "pred"]
    /\ UNCHANGED <<taskqueue_, stop_, task, mpc, loopsStopped, added, finished>>

\* The predicate of wait(): evaluated under the lock, but stop_ is not
\* protected by it.
WorkerPred(w) ==
    /\ pc[w] = "pred"
    /\ pc' = [pc EXCEPT ![w] = IF stop_ \/ taskqueue_ # <<>> THEN "take" ELSE "block"]
    /\ UNCHANGED <<taskqueue_, stop_, mutex_, task, mpc, loopsStopped, added, finished>>

\* wait() releases the lock and joins the wait set, in one step.
WorkerBlock(w) ==
    /\ pc[w] = "block"
    /\ mutex_' = NoOne
    /\ pc' = [pc EXCEPT ![w] = "waiting"]
    /\ UNCHANGED <<taskqueue_, stop_, task, mpc, loopsStopped, added, finished>>

\* A condition variable may wake a thread without any notify.
SpuriousWakeup(w) ==
    /\ pc[w] = "waiting"
    /\ pc' = [pc EXCEPT ![w] = "relock"]
    /\ UNCHANGED <<taskqueue_, stop_, mutex_, task, mpc, loopsStopped, added, finished>>

\* After wait(): return when stopped and empty, else pop the front.
WorkerReturn(w) ==
    /\ pc[w] = "take"
    /\ stop_ /\ taskqueue_ = <<>>
    /\ mutex_' = NoOne
    /\ pc' = [pc EXCEPT ![w] = "exited"]
    /\ UNCHANGED <<taskqueue_, stop_, task, mpc, loopsStopped, added, finished>>

\* front() and pop() of an empty queue are undefined; no property survives it.
Front == IF taskqueue_ = <<>> THEN Garbage ELSE Head(taskqueue_)

Popped == IF taskqueue_ = <<>> THEN <<>> ELSE Tail(taskqueue_)

WorkerTake(w) ==
    /\ pc[w] = "take"
    /\ ~(stop_ /\ taskqueue_ = <<>>)
    /\ task' = [task EXCEPT ![w] = Front]
    /\ taskqueue_' = Popped
    /\ mutex_' = NoOne
    /\ pc' = [pc EXCEPT ![w] = "run"]
    /\ UNCHANGED <<stop_, mpc, loopsStopped, added, finished>>

\* task() returns: a request at any time, an EventLoop::run once stopped.
WorkerFinish(w) ==
    /\ pc[w] = "run"
    /\ task[w] \in Loops => loopsStopped
    /\ finished' = finished \cup {task[w]}
    /\ task' = [task EXCEPT ![w] = NoTask]
    /\ pc' = [pc EXCEPT ![w] = "test"]
    /\ UNCHANGED <<taskqueue_, stop_, mutex_, mpc, loopsStopped, added>>

-----------------------------------------------------------------------------
(* Shutdown by the main thread *)

StopLoops ==
    /\ mpc = "serve"
    /\ loopsStopped' = TRUE
    /\ mpc' = "flag"
    /\ UNCHANGED <<taskqueue_, stop_, mutex_, pc, task, added, finished>>

\* ThreadPool::stop: the flag is set without mutex_.
StopFlag ==
    /\ mpc = "flag"
    /\ stop_' = TRUE
    /\ mpc' = "notifyall"
    /\ UNCHANGED <<taskqueue_, mutex_, pc, task, loopsStopped, added, finished>>

\* Mutant: stop() calls notify_one.
StopNotifyOne ==
    /\ mpc = "notifyall"
    /\ NotifyOne(pc)
    /\ mpc' = "join"
    /\ UNCHANGED <<taskqueue_, stop_, mutex_, task, loopsStopped, added, finished>>

StopNotifyAll ==
    /\ mpc = "notifyall"
    /\ pc' = [w \in Workers |-> IF pc[w] = "waiting" THEN "relock" ELSE pc[w]]
    /\ mpc' = "join"
    /\ UNCHANGED <<taskqueue_, stop_, mutex_, task, loopsStopped, added, finished>>

StopJoin ==
    /\ mpc = "join"
    /\ \A w \in Workers : pc[w] = "exited"
    /\ mpc' = "done"
    /\ UNCHANGED <<taskqueue_, stop_, mutex_, pc, task, loopsStopped, added, finished>>

Terminated ==
    /\ mpc = "done"
    /\ UNCHANGED vars

-----------------------------------------------------------------------------
WorkerStep(w) ==
    \/ WorkerTest(w) \/ WorkerLock(w) \/ WorkerPred(w) \/ WorkerBlock(w)
    \/ WorkerReturn(w) \/ WorkerTake(w) \/ LoopNotify(w) \/ WorkerFinish(w)

Next ==
    \/ MainAddLoop \/ MainNotify
    \/ StopLoops \/ StopFlag \/ StopNotifyAll \/ StopJoin \/ Terminated
    \/ \E w \in Workers : WorkerStep(w) \/ LoopAddRequest(w) \/ SpuriousWakeup(w)

\* Threads that can run do run; a mutex that keeps becoming free is got in the
\* end; requests return.  Spurious wakeups, new requests and the shutdown
\* itself are not promised.
Fairness ==
    /\ WF_vars(MainAddLoop) /\ WF_vars(MainNotify)
    /\ WF_vars(StopFlag) /\ WF_vars(StopNotifyAll) /\ WF_vars(StopJoin)
    /\ \A w \in Workers :
        /\ WF_vars(WorkerTest(w) \/ WorkerPred(w) \/ WorkerBlock(w) \/ WorkerReturn(w)
                    \/ WorkerTake(w) \/ LoopNotify(w) \/ WorkerFinish(w))
        /\ SF_vars(WorkerLock(w))

Spec == Init /\ [][Next]_vars

FairSpec == Spec /\ Fairness

-----------------------------------------------------------------------------
(* Properties *)

\* Threads that hold a task or will look at the queue before they sleep.
Awake == {w \in Workers : \/ pc[w] \in {"test", "lock", "relock", "pred", "take"}
                          \/ pc[w] = "run" /\ task[w] \in Requests}

\* Calls of notify_one that are still to come.
PendingNotifies ==
    Cardinality({w \in Workers : pc[w] = "notify"}) + (IF mpc = "notify" THEN 1 ELSE 0)

\* No worker sleeps while there is more work than the awake workers and the
\* notifications on their way can take: notify_one outside the lock loses no
\* wakeup, because a worker tests the queue and joins the wait set under it.
NoLostWakeup ==
    ~stop_ /\ Sleeping # {} =>
        Len(taskqueue_) <= Cardinality(Awake) + PendingNotifies

\* A submitted task is in the queue, in the hands of one worker, or done, and
\* only one of these: none is lost, none is run twice, and no worker that was
\* woken for a task another has taken runs the front() of an empty queue.
EachTaskOnce ==
    LET held == {w \in Workers : task[w] # NoTask}
    IN /\ added = Elements(taskqueue_) \cup {task[w] : w \in held} \cup finished
       /\ Cardinality(added) =
            Len(taskqueue_) + Cardinality(held) + Cardinality(finished)

\* A queued task is started, unless the pool is stopped first.
QueuedStarts ==
    \A x \in Tasks :
        x \in Elements(taskqueue_) ~> (stop_ \/ x \notin Elements(taskqueue_))

\* stop() takes no lock, so its notify_all misses a worker that has found the
\* predicate false and does not sleep yet.  Every other worker exits: those in
\* wait(), those at work, and the event loops.
StopReachesWorkers ==
    \A w \in Workers :
        mpc = "notifyall" /\ pc[w] # "block" ~> pc[w] = "exited"

-----------------------------------------------------------------------------
(* What the source says and the model refutes *)

\* What ThreadPool.h:23 says of stop_: once it is set, every thread exits.
StopEndsWorkers == stop_ ~> \A w \in Workers : pc[w] = "exited"

\* What ThreadPool.cpp:55 says of the joins: the pool is gone only after the
\* tasks have been executed.
StopRunsTasks == mpc = "done" => added \cap Requests \subseteq finished
=============================================================================
