-------------------------- MODULE EventLoopProofs --------------------------
(****************************************************************************)
(* Theorems about EventLoop, for any number of threads and tasks.           *)
(****************************************************************************)
EXTENDS EventLoop, TLAPS

\* The constructor leaves the variables with their types.
LEMMA InitTypeOK == Init => TypeOK
<1> HAVE Init
<1>1. taskqueue_ \in Seq(Task) /\ executed \in Seq(Task)
  BY DEF Init
<1>2. count \in [Callers -> 0..MaxTasks]
  BY MaxTasksAssumption DEF Init
<1>3. vec \in SUBSET ChannelSet
  BY DEF Init
<1>4. pc \in [Threads -> {"idle", "wake"}]
  BY DEF Init
<1> QED BY <1>1, <1>2, <1>3, <1>4 DEF Init, TypeOK

\* The variables of a running loop keep their types.
THEOREM TypeCorrect == Spec => []TypeOK
<1>1. Init => TypeOK
  BY InitTypeOK
<1>2. TypeOK /\ [Next]_vars => TypeOK'
  <2> SUFFICES ASSUME TypeOK, [Next]_vars
               PROVE  TypeOK'
    OBVIOUS
  <2> USE LoopAssumption, MaxTasksAssumption DEF TypeOK
  <2>1. ASSUME NEW t \in Threads, QueueInLoop(t)
        PROVE  TypeOK'
    <3>1. count[t] + 1 \in 1..MaxTasks /\ t \in Callers
      BY <2>1 DEF QueueInLoop, Callers
    <3>2. NewTask(t) \in Task
      BY <3>1 DEF NewTask, Task
    <3> QED BY <2>1, <3>1, <3>2 DEF QueueInLoop
  <2>2. ASSUME NEW t \in Threads, Wakeup(t)
        PROVE  TypeOK'
    BY <2>2 DEF Wakeup
  <2>3. CASE StopFlag
    BY <2>3 DEF StopFlag
  <2>4. CASE StopWakeup
    BY <2>4 DEF StopWakeup
  <2>5. CASE RunTest
    BY <2>5 DEF RunTest, MayEnd
  <2>6. CASE EpollWait
    BY <2>6 DEF EpollWait
  <2>7. CASE RunInLoopInline
    <3>1. count[Loop] + 1 \in 1..MaxTasks /\ Loop \in Callers
      BY <2>7 DEF RunInLoopInline, Callers
    <3>2. NewTask(Loop) \in Task
      BY <3>1 DEF NewTask, Task
    <3> QED BY <2>7, <3>1, <3>2 DEF RunInLoopInline
  <2>8. CASE HandleIo
    BY <2>8 DEF HandleIo
  <2>9. CASE HandleWakeupRead
    BY <2>9 DEF HandleWakeupRead
  <2>10. CASE HandleWakeupLock
    BY <2>10 DEF HandleWakeupLock
  <2>11. CASE HandleWakeupRun
    BY <2>11 DEF HandleWakeupRun, Pop
  <2>12. CASE HandleWakeupDone
    BY <2>12 DEF HandleWakeupDone
  <2>13. CASE RunNext
    BY <2>13 DEF RunNext
  <2>14. CASE Terminated \/ UNCHANGED vars
    BY <2>14 DEF Terminated, vars
  <2> QED
    BY <2>1, <2>2, <2>3, <2>4, <2>5, <2>6, <2>7, <2>8, <2>9, <2>10, <2>11, <2>12,
       <2>13, <2>14 DEF Next, LoopStep
<1> QED
  BY <1>1, <1>2, PTL DEF Spec

\* No queued task and no stop() is lost: queueInLoop and stop() wake the loop
\* after they have made their change, and handleWakeup empties the eventfd
\* before it looks at the queue.
THEOREM NothingLost == Spec => [](NoLostTask /\ NoLostStop)
<1> DEFINE Inv == TypeOK /\ NoLostTask /\ NoLostStop
<1>1. Init => Inv
  <2> HAVE Init
  <2>1. TypeOK
    BY InitTypeOK
  <2> QED BY <2>1 DEF Init, NoLostTask, NoLostStop
<1>2. Inv /\ TypeOK' /\ [Next]_vars => Inv'
  <2> SUFFICES ASSUME TypeOK, NoLostTask, NoLostStop, TypeOK', [Next]_vars
               PROVE  NoLostTask' /\ NoLostStop'
    OBVIOUS
  <2> USE DEF TypeOK, NoLostTask, NoLostStop
  <2>1. ASSUME NEW t \in Threads, QueueInLoop(t)
        PROVE  NoLostTask' /\ NoLostStop'
    BY <2>1 DEF QueueInLoop
  <2>2. ASSUME NEW t \in Threads, Wakeup(t)
        PROVE  NoLostTask' /\ NoLostStop'
    BY <2>2 DEF Wakeup
  <2>3. CASE StopFlag
    BY <2>3 DEF StopFlag
  <2>4. CASE StopWakeup
    BY <2>4 DEF StopWakeup
  <2>5. CASE RunTest
    BY <2>5 DEF RunTest, MayEnd
  <2>6. CASE EpollWait
    BY <2>6 DEF EpollWait
  <2>7. CASE RunInLoopInline \/ HandleIo
    BY <2>7 DEF RunInLoopInline, HandleIo
  <2>8. CASE HandleWakeupRead
    BY <2>8 DEF HandleWakeupRead
  <2>9. CASE HandleWakeupLock
    BY <2>9 DEF HandleWakeupLock
  <2>10. CASE HandleWakeupRun \/ HandleWakeupDone
    BY <2>10 DEF HandleWakeupRun, HandleWakeupDone, Drained
  <2>11. CASE RunNext
    BY <2>11 DEF RunNext
  <2>12. CASE Terminated \/ UNCHANGED vars
    BY <2>12 DEF Terminated, vars
  <2> QED
    BY <2>1, <2>2, <2>3, <2>4, <2>5, <2>6, <2>7, <2>8, <2>9, <2>10, <2>11, <2>12
    DEF Next, LoopStep
<1> QED
  BY <1>1, <1>2, TypeCorrect, PTL DEF Spec

\* A stop() that the read of the eventfd swallowed is still seen: run() tests
\* stop_ before it sleeps again.
THEOREM StopNotLost == Spec => []NoLostStop
BY NothingLost, PTL

-----------------------------------------------------------------------------
(* The order of the tasks *)

\* Only other threads queue their tasks; the loop thread runs its own at once.
QueueIsOthers == \A i \in 1..Len(taskqueue_) : taskqueue_[i][1] # Loop

Sorted(s) == \A i, j \in 1..Len(s) : i < j /\ s[i][1] = s[j][1] => s[i][2] < s[j][2]

\* Nobody has handed over more than the count c of its tasks ...
Counted(s, c) == \A i \in 1..Len(s) : s[i][2] <= c[s[i][1]]

\* ... nor less.
Complete(s, c) ==
    \A t \in Callers, n \in 1..MaxTasks :
        n <= c[t] <=> \E i \in 1..Len(s) : s[i] = <<t, n>>

Ordered(s, c) == Sorted(s) /\ Counted(s, c) /\ Complete(s, c)

OrderInv ==
    /\ TypeOK
    /\ QueueIsOthers
    /\ Ordered(executed \o taskqueue_, count)

\* A sequence with one element put in after its first part.
LEMMA Inserted ==
    ASSUME NEW S, NEW p \in Seq(S), NEW q \in Seq(S), NEW x \in S
    PROVE  LET s == Append(p, x) \o q
               all == p \o q
           IN /\ s \in Seq(S) /\ Len(s) = Len(all) + 1 /\ Len(all) = Len(p) + Len(q)
              /\ s[Len(p) + 1] = x
              /\ \A i \in 1..Len(p) : s[i] = all[i]
              /\ \A i \in Len(p) + 2..Len(s) : s[i] = all[i - 1] /\ all[i - 1] = q[i - 1 - Len(p)]
OBVIOUS

\* The next task of thread t, put in where only tasks of others follow, keeps
\* the order.
LEMMA InsertKeepsOrder ==
    ASSUME NEW p \in Seq(Task), NEW q \in Seq(Task),
           NEW c \in [Callers -> 0..MaxTasks], NEW t \in Callers, c[t] < MaxTasks,
           Ordered(p \o q, c), \A i \in 1..Len(q) : q[i][1] # t
    PROVE  Ordered(Append(p, <<t, c[t] + 1>>) \o q, [c EXCEPT ![t] = @ + 1])
<1> DEFINE x == <<t, c[t] + 1>>
           all == p \o q
           s == Append(p, x) \o q
           k == Len(p) + 1
           d == [c EXCEPT ![t] = @ + 1]
           Old(i) == IF i < k THEN i ELSE i - 1
<1>1. x \in Task /\ all \in Seq(Task)
  BY MaxTasksAssumption DEF Task
<1>2. /\ Len(s) = Len(all) + 1 /\ Len(s) \in Nat /\ k \in 1..Len(s)
      /\ s[k] = x
      /\ \A i \in 1..Len(s) : i # k => Old(i) \in 1..Len(all) /\ s[i] = all[Old(i)]
      /\ \A i \in 1..Len(s) : i > k => s[i][1] # t
  <2>1. /\ s \in Seq(Task) /\ Len(s) = Len(all) + 1 /\ Len(all) = Len(p) + Len(q)
        /\ s[Len(p) + 1] = x
        /\ \A i \in 1..Len(p) : s[i] = all[i]
        /\ \A i \in Len(p) + 2..Len(s) : s[i] = all[i - 1] /\ all[i - 1] = q[i - 1 - Len(p)]
    BY <1>1, Inserted
  <2> HIDE DEF s, all
  <2>2. Len(p) \in Nat /\ Len(q) \in Nat /\ Len(s) \in Nat
    BY <2>1
  <2>3. ASSUME NEW i \in 1..Len(s), i # k
        PROVE  Old(i) \in 1..Len(all) /\ s[i] = all[Old(i)]
    <3>1. CASE i < k
      <4>1. i \in 1..Len(p) /\ Old(i) = i /\ i \in 1..Len(all)
        BY <2>1, <2>2, <3>1
      <4> QED
        BY <2>1, <4>1
    <3>2. CASE i > k
      <4>1. i \in Len(p) + 2..Len(s) /\ Old(i) = i - 1 /\ i - 1 \in 1..Len(all)
        BY <2>1, <2>2, <3>2
      <4> QED
        BY <2>1, <4>1
    <3> QED
      BY <2>2, <2>3, <3>1, <3>2
  <2>4. ASSUME NEW i \in 1..Len(s), i > k PROVE s[i][1] # t
    <3>1. i - 1 - Len(p) \in 1..Len(q) /\ s[i] = q[i - 1 - Len(p)]
      <4>1. i \in Len(p) + 2..Len(s) /\ i - 1 - Len(p) \in 1..Len(q)
        BY <2>1, <2>2, <2>4
      <4> QED
        BY <2>1, <4>1
    <3> QED
      BY <3>1
  <2> QED
    BY <2>1, <2>2, <2>3, <2>4
<1> HIDE DEF s, all
<1>3. ASSUME NEW j \in 1..Len(all)
      PROVE  /\ all[j] \in Task /\ all[j][1] \in Callers /\ all[j][2] \in 1..MaxTasks
             /\ all[j] = <<all[j][1], all[j][2]>>
             /\ all[j][2] <= c[all[j][1]]
  <2>1. all[j] \in Task
    BY <1>1
  <2>2. /\ all[j][1] \in Callers /\ all[j][2] \in 1..MaxTasks
        /\ all[j] = <<all[j][1], all[j][2]>>
    BY <2>1 DEF Task
  <2>3. Counted(all, c)
    BY DEF Ordered, all
  <2>4. all[j][2] <= c[all[j][1]]
    BY <2>3 DEF Counted
  <2> QED
    BY <2>1, <2>2, <2>4
<1>4. ASSUME NEW j \in 1..Len(all) PROVE \E i \in 1..Len(s) : i # k /\ s[i] = all[j]
  <2>1. CASE j < k
    <3>1. j \in 1..Len(s) /\ j # k /\ Old(j) = j
      BY <1>2, <2>1
    <3> QED
      BY <1>2, <3>1
  <2>2. CASE j >= k
    <3>1. j + 1 \in 1..Len(s) /\ j + 1 # k /\ Old(j + 1) = j
      BY <1>2, <2>2
    <3> QED
      BY <1>2, <3>1
  <2> QED
    BY <1>2, <2>1, <2>2
<1>5. Sorted(s)
  <2> SUFFICES ASSUME NEW i \in 1..Len(s), NEW j \in 1..Len(s), i < j, s[i][1] = s[j][1]
               PROVE  s[i][2] < s[j][2]
    BY DEF Sorted
  <2>1. CASE i # k /\ j # k
    <3>1. Old(i) < Old(j)
      BY <1>2, <2>1
    <3>2. /\ s[i] = all[Old(i)] /\ s[j] = all[Old(j)]
          /\ Old(i) \in 1..Len(all) /\ Old(j) \in 1..Len(all)
      BY <1>2, <2>1, Zenon
    <3>3. Sorted(all)
      BY Zenon DEF Ordered, all
    <3> HIDE DEF Old, all, s
    <3> QED
      BY <3>1, <3>2, <3>3, Zenon DEF Sorted
  <2>2. CASE j = k
    <3>1. s[i] = all[Old(i)] /\ Old(i) \in 1..Len(all) /\ all[Old(i)][1] = t
      BY <1>2, <2>2
    <3>2. s[i][2] <= c[t] /\ s[i][2] \in Nat
      BY <1>3, <3>1
    <3> QED
      BY <1>2, <2>2, <3>2
  <2>3. CASE i = k
    BY <1>2, <2>3
  <2> QED
    BY <2>1, <2>2, <2>3
<1>6. Counted(s, d)
  <2> SUFFICES ASSUME NEW i \in 1..Len(s) PROVE s[i][2] <= d[s[i][1]]
    BY DEF Counted
  <2>1. CASE i = k
    BY <1>2, <2>1
  <2>2. CASE i # k
    <3>1. Old(i) \in 1..Len(all) /\ s[i] = all[Old(i)]
      BY <1>2, <2>2
    <3> DEFINE y == all[Old(i)]
    <3>2. y[1] \in Callers /\ y[2] \in 1..MaxTasks /\ y[2] <= c[y[1]]
      BY <1>3, <3>1
    <3> HIDE DEF y
    <3>3. y[2] <= d[y[1]]
      BY <3>2
    <3> QED
      BY <3>1, <3>3 DEF y
  <2> QED
    BY <2>1, <2>2
<1>7. Complete(s, d)
  <2> SUFFICES ASSUME NEW u \in Callers, NEW n \in 1..MaxTasks
               PROVE  n <= d[u] <=> \E i \in 1..Len(s) : s[i] = <<u, n>>
    BY DEF Complete
  <2>1. n <= c[u] <=> \E j \in 1..Len(all) : all[j] = <<u, n>>
    BY DEF Ordered, Complete, all
  <2>2. n <= d[u] <=> n <= c[u] \/ <<u, n>> = x
    OBVIOUS
  <2>3. (\E i \in 1..Len(s) : s[i] = <<u, n>>)
            <=> <<u, n>> = x \/ \E j \in 1..Len(all) : all[j] = <<u, n>>
    <3> DEFINE y == <<u, n>>
    <3> HIDE DEF x, y, k, Old
    <3>1. ASSUME NEW i \in 1..Len(s), s[i] = y
          PROVE  y = x \/ \E j \in 1..Len(all) : all[j] = y
      <4>1. CASE i = k
        BY <1>2, <3>1, <4>1
      <4>2. CASE i # k
        <5>1. Old(i) \in 1..Len(all) /\ all[Old(i)] = y
          BY <1>2, <3>1, <4>2
        <5> QED
          BY <5>1
      <4> QED
        BY <4>1, <4>2
    <3>2. y = x => \E i \in 1..Len(s) : s[i] = y
      BY <1>2
    <3>3. ASSUME NEW j \in 1..Len(all), all[j] = y PROVE \E i \in 1..Len(s) : s[i] = y
      BY <1>4, <3>3
    <3>4. (\E i \in 1..Len(s) : s[i] = y) <=> y = x \/ \E j \in 1..Len(all) : all[j] = y
      BY <3>1, <3>2, <3>3
    <3> QED
      BY <3>4 DEF y
  <2> QED
    BY <2>1, <2>2, <2>3
<1> QED
  BY <1>5, <1>6, <1>7 DEF Ordered, s

\* A step that changes neither queue nor history keeps the order.
LEMMA SameKeepsOrder ==
    ASSUME OrderInv, TypeOK', UNCHANGED <<taskqueue_, executed, count>>
    PROVE  OrderInv'
<1>1. QueueIsOthers'
  BY DEF OrderInv, QueueIsOthers
<1>2. Ordered(executed \o taskqueue_, count)'
  BY ZenonT(60) DEF OrderInv, Ordered, Sorted, Counted, Complete
<1> QED
  BY <1>1, <1>2 DEF OrderInv

\* The tasks of each thread run in the order in which it called runInLoop, each
\* once and none skipped, although the loop runs its own tasks at once and
\* other threads queue theirs in between.
THEOREM RunInOrder == Spec => []TasksInOrder
<1>1. Init => OrderInv
  <2> HAVE Init
  <2>1. executed \o taskqueue_ = <<>> /\ Len(taskqueue_) = 0
    BY DEF Init
  <2>2. \A t \in Callers : count[t] = 0
    BY DEF Init
  <2>3. Ordered(executed \o taskqueue_, count)
    BY <2>1, <2>2 DEF Ordered, Sorted, Counted, Complete
  <2> QED
    BY <2>1, <2>3, InitTypeOK DEF OrderInv, QueueIsOthers
<1>2. OrderInv /\ TypeOK' /\ [Next]_vars => OrderInv'
  <2> SUFFICES ASSUME OrderInv, TypeOK', [Next]_vars PROVE OrderInv'
    OBVIOUS
  <2>1. executed \in Seq(Task) /\ taskqueue_ \in Seq(Task) /\ count \in [Callers -> 0..MaxTasks]
    BY DEF OrderInv, TypeOK
  <2>2. ASSUME NEW t \in Threads, QueueInLoop(t) PROVE OrderInv'
    <3> DEFINE x == <<t, count[t] + 1>>
               all == executed \o taskqueue_
    <3>1. /\ t \in Callers /\ t # Loop /\ count[t] < MaxTasks /\ executed' = executed
          /\ taskqueue_' = Append(taskqueue_, x) /\ count' = [count EXCEPT ![t] = @ + 1]
      BY <2>2, LoopAssumption DEF QueueInLoop, NewTask, Callers
    <3>2. x \in Task
      BY <2>1, <3>1, MaxTasksAssumption DEF Task
    <3>3. all \in Seq(Task) /\ <<>> \in Seq(Task) /\ all \o <<>> = all
      BY <2>1
    <3>4. Ordered(Append(all, x) \o <<>>, count')
      <4>1. Ordered(all \o <<>>, count) /\ \A i \in 1..Len(<<>>) : <<>>[i][1] # t
        BY <3>3 DEF OrderInv
      <4> QED
        BY <2>1, <3>1, <3>3, <4>1, InsertKeepsOrder
    <3>5. executed' \o taskqueue_' = Append(all, x) \o <<>>
      BY <2>1, <3>1, <3>2
    <3>6. QueueIsOthers'
      BY <2>1, <3>1, <3>2 DEF OrderInv, QueueIsOthers
    <3> QED
      BY <3>4, <3>5, <3>6 DEF OrderInv
  <2>3. CASE RunInLoopInline
    <3>1. /\ Loop \in Callers /\ count[Loop] < MaxTasks /\ taskqueue_' = taskqueue_
          /\ executed' = Append(executed, <<Loop, count[Loop] + 1>>)
          /\ count' = [count EXCEPT ![Loop] = @ + 1]
      BY <2>3 DEF RunInLoopInline, NewTask, Callers
    <3>2. Ordered(executed' \o taskqueue_', count')
      BY <2>1, <3>1, InsertKeepsOrder DEF OrderInv, QueueIsOthers
    <3> QED
      BY <3>1, <3>2 DEF OrderInv, QueueIsOthers
  <2>4. CASE HandleWakeupRun
    <3>1. /\ taskqueue_ # <<>> /\ taskqueue_' = Tail(taskqueue_)
          /\ executed' = Append(executed, Head(taskqueue_)) /\ count' = count
      BY <2>4 DEF HandleWakeupRun, Pop
    <3>2. executed' \o taskqueue_' = executed \o taskqueue_
      BY <2>1, <3>1
    <3>3. QueueIsOthers'
      BY <2>1, <3>1 DEF OrderInv, QueueIsOthers
    <3> QED
      BY <3>1, <3>2, <3>3 DEF OrderInv
  <2>5. ASSUME NEW t \in Threads, Wakeup(t) PROVE OrderInv'
    BY <2>5, SameKeepsOrder DEF Wakeup
  <2>6. CASE \/ StopFlag \/ StopWakeup \/ RunTest \/ EpollWait \/ HandleIo \/ HandleWakeupRead
             \/ HandleWakeupLock \/ HandleWakeupDone \/ RunNext \/ Terminated \/ UNCHANGED vars
    BY <2>6, SameKeepsOrder DEF StopFlag, StopWakeup, RunTest, EpollWait, HandleIo,
        HandleWakeupRead, HandleWakeupLock, HandleWakeupDone, RunNext, Terminated, vars
  <2> QED
    BY <2>2, <2>3, <2>4, <2>5, <2>6 DEF Next, LoopStep
<1>3. OrderInv => TasksInOrder
  BY DEF OrderInv, TasksInOrder, Ordered, Sorted, Complete
<1> QED
  BY <1>1, <1>2, <1>3, TypeCorrect, PTL DEF Spec
=============================================================================
