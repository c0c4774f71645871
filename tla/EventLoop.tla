------------------------------ MODULE EventLoop ------------------------------
(****************************************************************************)
(* One EventLoop (src/net/EventLoop.cpp): the thread inside run(), the      *)
(* cross-thread task queue that other threads fill with queueInLoop(), the  *)
(* eventfd that wakes the thread out of epoll_wait, and stop().             *)
(*                                                                          *)
(* A task is <<t, n>>, the n-th reply handed over by thread t.  The lock    *)
(* taskMutex_ is held by the loop thread during the whole drain, so it is   *)
(* free exactly when lpc # "drain"; the push of queueInLoop, which is one   *)
(* short critical section, is one step.                                     *)
(****************************************************************************)
EXTENDS Naturals, Sequences

CONSTANTS
    Threads,    \* threads that call runInLoop from outside (pool workers)
    Loop,       \* the loop thread itself, as a caller of runInLoop
    MaxTasks    \* bound: tasks each thread hands over

ASSUME LoopAssumption == Loop \notin Threads
ASSUME MaxTasksAssumption == MaxTasks \in Nat

VARIABLES
    taskqueue_, \* queued tasks, oldest first
    wakeupFd_,  \* the counter of the eventfd
    stop_,      \* the loop has been told to stop
    lpc,        \* where the loop thread is
    vec,        \* channels reported by epoll_wait and not handled yet
    pc,         \* per outside thread: "idle", or "wake" between push and wakeup
    spc,        \* the caller of stop(): "idle", "wake" before wakeup(), "done"
    count,      \* tasks handed over so far, per thread
    executed    \* tasks in the order fn() ran them

vars == <<taskqueue_, wakeupFd_, stop_, lpc, vec, pc, spc, count, executed>>

Callers == Threads \cup {Loop}

Task == Callers \X (1..MaxTasks)

\* Channels of this loop: the eventfd's, and any client socket.
ChannelSet == {"wake", "io"}

TypeOK ==
    /\ taskqueue_ \in Seq(Task)
    /\ wakeupFd_ \in Nat
    /\ stop_ \in BOOLEAN
    /\ lpc \in {"test", "wait", "handle", "lock", "drain", "exited"}
    /\ vec \in SUBSET ChannelSet
    /\ pc \in [Threads -> {"idle", "wake"}]
    /\ spc \in {"idle", "wake", "done"}
    /\ count \in [Callers -> 0..MaxTasks]
    /\ executed \in Seq(Task)

\* EventLoop::EventLoop: the wake channel is registered for reading,
\* level-triggered (no useET), before run() starts.
Init ==
    /\ taskqueue_ = <<>>
    /\ wakeupFd_ = 0
    /\ stop_ = FALSE
    /\ lpc = "test"
    /\ vec = {}
    /\ pc = [t \in Threads |-> "idle"]
    /\ spc = "idle"
    /\ count = [t \in Callers |-> 0]
    /\ executed = <<>>

-----------------------------------------------------------------------------
(* Outside threads *)

\* The task that thread t hands over next.
NewTask(t) == <<t, count[t] + 1>>

\* runInLoop off the loop thread: queueInLoop pushes under taskMutex_.
QueueInLoop(t) ==
    /\ pc[t] = "idle"
    /\ count[t] < MaxTasks
    /\ lpc # "drain"
    /\ taskqueue_' = Append(taskqueue_, NewTask(t))
    /\ count' = [count EXCEPT ![t] = @ + 1]
    /\ pc' = [pc EXCEPT ![t] = "wake"]
    /\ UNCHANGED <<wakeupFd_, stop_, lpc, vec, spc, executed>>

\* wakeup() after the lock is released.
Wakeup(t) ==
    /\ pc[t] = "wake"
    /\ wakeupFd_' = wakeupFd_ + 1
    /\ pc' = [pc EXCEPT ![t] = "idle"]
    /\ UNCHANGED <<taskqueue_, stop_, lpc, vec, spc, count, executed>>

\* Mutant: stop() forgets the wakeup.
StopFlagNoWakeup ==
    /\ spc = "idle"
    /\ stop_' = TRUE
    /\ spc' = "done"
    /\ UNCHANGED <<taskqueue_, wakeupFd_, lpc, vec, pc, count, executed>>

\* stop(): the flag first, then the wakeup.
StopFlag ==
    /\ spc = "idle"
    /\ stop_' = TRUE
    /\ spc' = "wake"
    /\ UNCHANGED <<taskqueue_, wakeupFd_, lpc, vec, pc, count, executed>>

StopWakeup ==
    /\ spc = "wake"
    /\ wakeupFd_' = wakeupFd_ + 1
    /\ spc' = "done"
    /\ UNCHANGED <<taskqueue_, stop_, lpc, vec, pc, count, executed>>

-----------------------------------------------------------------------------
(* The loop thread *)

\* while (!stop_)
MayEnd == stop_

RunTest ==
    /\ lpc = "test"
    /\ lpc' = IF MayEnd THEN "exited" ELSE "wait"
    /\ UNCHANGED <<taskqueue_, wakeupFd_, stop_, vec, pc, spc, count, executed>>

\* ep_->loop(): epoll_wait without a timeout.  The level-triggered eventfd is
\* reported whenever its counter is positive; sockets are the environment's.
EpollWait ==
    /\ lpc = "wait"
    /\ vec' \in {v \in SUBSET ChannelSet : v # {} /\ ("wake" \in v <=> wakeupFd_ > 0)}
    /\ lpc' = "handle"
    /\ UNCHANGED <<taskqueue_, wakeupFd_, stop_, pc, spc, count, executed>>

\* A socket event whose handler calls runInLoop on the loop thread: the
\* function runs at once, whatever waits in the queue.
RunInLoopInline ==
    /\ lpc = "handle"
    /\ "io" \in vec
    /\ count[Loop] < MaxTasks
    /\ count' = [count EXCEPT ![Loop] = @ + 1]
    /\ executed' = Append(executed, NewTask(Loop))
    /\ vec' = vec \ {"io"}
    /\ UNCHANGED <<taskqueue_, wakeupFd_, stop_, lpc, pc, spc>>

\* A socket event whose handler hands nothing to this loop.
HandleIo ==
    /\ lpc = "handle"
    /\ "io" \in vec
    /\ vec' = vec \ {"io"}
    /\ UNCHANGED <<taskqueue_, wakeupFd_, stop_, lpc, pc, spc, count, executed>>

\* handleWakeup: the read of the eventfd, which resets its counter.  A read
\* that finds the counter 0 would return -1 and skip the queue.
HandleWakeupRead ==
    /\ lpc = "handle"
    /\ "wake" \in vec
    /\ vec' = vec \ {"wake"}
    /\ wakeupFd_' = 0
    /\ lpc' = IF wakeupFd_ > 0 THEN "lock" ELSE "handle"
    /\ UNCHANGED <<taskqueue_, stop_, pc, spc, count, executed>>

HandleWakeupLock ==
    /\ lpc = "lock"
    /\ lpc' = "drain"
    /\ UNCHANGED <<taskqueue_, wakeupFd_, stop_, vec, pc, spc, count, executed>>

\* Mutant: the newest task first.
PopNewest(q) == [task |-> q[Len(q)], rest |-> SubSeq(q, 1, Len(q) - 1)]

\* front() and pop().
Pop(q) == [task |-> Head(q), rest |-> Tail(q)]

\* One turn of the drain loop: pop the front and run it, the lock held.
HandleWakeupRun ==
    /\ lpc = "drain"
    /\ taskqueue_ # <<>>
    /\ taskqueue_' = Pop(taskqueue_).rest
    /\ executed' = Append(executed, Pop(taskqueue_).task)
    /\ UNCHANGED <<wakeupFd_, stop_, lpc, vec, pc, spc, count>>

\* Mutant: the drain may stop with tasks left, `if` for `while`.
DrainedAnyway == TRUE

\* The drain loop's condition is false.
Drained == taskqueue_ = <<>>

HandleWakeupDone ==
    /\ lpc = "drain"
    /\ Drained
    /\ lpc' = "handle"
    /\ UNCHANGED <<taskqueue_, wakeupFd_, stop_, vec, pc, spc, count, executed>>

\* All channels of vec handled: back to the loop's condition.
RunNext ==
    /\ lpc = "handle"
    /\ vec = {}
    /\ lpc' = "test"
    /\ UNCHANGED <<taskqueue_, wakeupFd_, stop_, vec, pc, spc, count, executed>>

\* run() has returned and no caller is left inside the loop's methods.
Terminated ==
    /\ lpc = "exited"
    /\ UNCHANGED vars

LoopStep ==
    \/ RunTest \/ EpollWait \/ RunInLoopInline \/ HandleIo
    \/ HandleWakeupRead \/ HandleWakeupLock \/ HandleWakeupRun
    \/ HandleWakeupDone \/ RunNext

Next ==
    \/ \E t \in Threads : QueueInLoop(t) \/ Wakeup(t)
    \/ StopFlag \/ StopWakeup
    \/ LoopStep
    \/ Terminated

\* The loop thread when it can run without any socket's help: in epoll_wait it
\* can count on the eventfd alone.
LoopRuns == (lpc = "wait" => wakeupFd_ > 0) /\ LoopStep

\* The scheduler keeps running the loop thread and a thread that has pushed a
\* task or set the flag goes on to wakeup(); nobody has to submit or to stop,
\* and no socket has to become ready.
Fairness ==
    /\ WF_vars(LoopRuns)
    /\ \A t \in Threads : WF_vars(Wakeup(t))
    /\ WF_vars(StopWakeup)

Spec == Init /\ [][Next]_vars

FairSpec == Spec /\ Fairness

-----------------------------------------------------------------------------
(* Properties *)

\* A task in the queue is never forgotten: the eventfd is readable, or its
\* submitter has not yet called wakeup(), or the loop is between the read and
\* the end of the drain.  (queueInLoop pushes before it wakes; handleWakeup
\* reads before it drains.)
NoLostTask ==
    taskqueue_ # <<>> =>
        \/ wakeupFd_ > 0
        \/ \E t \in Threads : pc[t] = "wake"
        \/ lpc \in {"lock", "drain"}

\* A stopped loop never sleeps in epoll_wait without a wakeup on its way:
\* handleWakeup may eat the wakeup of stop(), but run() then tests stop_.
NoLostStop ==
    lpc = "wait" /\ stop_ => wakeupFd_ > 0 \/ spc = "wake"

\* Each thread's tasks run in the order it handed them over, each once and
\* none skipped: those run, followed by those queued, are 1..count in this order.
TasksInOrder ==
    LET all == executed \o taskqueue_
    IN /\ \A i, j \in 1..Len(all) :
            i < j /\ all[i][1] = all[j][1] => all[i][2] < all[j][2]
       /\ \A t \in Callers, n \in 1..MaxTasks :
            n <= count[t] <=> \E i \in 1..Len(all) : all[i] = <<t, n>>

\* A task that entered the queue runs unless the loop is stopped.
QueuedRuns ==
    \A x \in Task :
        (\E i \in 1..Len(taskqueue_) : taskqueue_[i] = x)
            ~> (stop_ \/ \E i \in 1..Len(executed) : executed[i] = x)

\* stop() ends run(), also when the thread is blocked in epoll_wait and when
\* other threads keep handing over tasks.
StopEndsRun == stop_ ~> lpc = "exited"
=============================================================================
