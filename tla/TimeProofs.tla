----------------------------- MODULE TimeProofs -----------------------------
(* Proofs about Time, for any set of events, any intervals and any timeout. *)
EXTENDS Time, TLAPS

USE EventsAssumption, IntervalAssumption, TimeoutAssumption DEF Threads

\* A thread that starts at one place goes to another that is in the list of
\* places.
LEMMA GotoType ==
    ASSUME TypeOK, NEW t \in Threads,
           NEW at \in {"new", "add", "reset", "set", "done",
                       "idle", "read", "collect", "readd", "run"},
           Goto(t, at)
    PROVE  pc' \in [Threads -> {"new", "add", "reset", "set", "done",
                                "idle", "read", "collect", "readd", "run"}]
  BY DEF Goto, TypeOK

\* Every step of the threads and of the clock keeps the types.
LEMMA StepTypeOK == TypeOK /\ [Next]_vars => TypeOK'
<1> SUFFICES ASSUME TypeOK, [Next]_vars PROVE TypeOK'
  OBVIOUS
<1>1. ASSUME NEW e \in Events, NewTimeEvent(e) PROVE TypeOK'
  BY <1>1, GotoType DEF TypeOK, NewTimeEvent, timerfd
<1>2. ASSUME NEW e \in Events, Add(e) PROVE TypeOK'
  BY <1>2, GotoType DEF TypeOK, Add, AddTimerEvent, timerfd
<1>3. ASSUME NEW e \in Events, SetCancled(e) PROVE TypeOK'
  BY <1>3 DEF TypeOK, SetCancled, timerfd
<1>4. ASSUME NEW t \in Threads, ResetArriveTime(t) PROVE TypeOK'
  <2>1. Resume(t) \in {"done", "readd", "run"}
    BY DEF TypeOK, Resume
  <2>2. pc' \in [Threads -> {"new", "add", "reset", "set", "done",
                             "idle", "read", "collect", "readd", "run"}]
    BY <1>4, <2>1, GotoType DEF ResetArriveTime
  <2>3. inteval' \in [Threads -> Nat]
    BY <1>4 DEF ResetArriveTime, TypeOK, IntevalOf
  <2> QED BY <1>4, <2>2, <2>3 DEF TypeOK, ResetArriveTime, timerfd
<1>5. ASSUME NEW t \in Threads, SetTime(t) PROVE TypeOK'
  <2>1. Resume(t) \in {"done", "readd", "run"}
    BY DEF TypeOK, Resume
  <2> QED BY <1>5, <2>1, GotoType DEF TypeOK, SetTime
<1>6. CASE EpollWait
  BY <1>6, GotoType DEF TypeOK, EpollWait, timerfd
<1>7. CASE OnTimeRead
  BY <1>7, GotoType DEF TypeOK, OnTimeRead
<1>8. CASE OnTimeCollect
  BY <1>8, GotoType DEF TypeOK, OnTimeCollect, ToReadd, Arrived, Remaining, timerfd
<1>9. ASSUME NEW e \in Events, Readd(e) PROVE TypeOK'
  BY <1>9, GotoType DEF TypeOK, Readd, AddTimerEvent, timerfd
<1>10. ASSUME NEW e \in Events, RunTask(e) PROVE TypeOK'
  BY <1>10 DEF TypeOK, RunTask, timerfd
<1>11. CASE ReaddDone
  BY <1>11, GotoType DEF TypeOK, ReaddDone, AfterReadd, timerfd
<1>12. CASE OnTimeDone
  BY <1>12, GotoType DEF TypeOK, OnTimeDone, timerfd
<1>13. CASE Tick
  <2>1. \A n \in Nat : Less(n) \in Nat
    BY DEF Less
  <2> QED BY <1>13, <2>1 DEF TypeOK, Tick
<1>14. CASE UNCHANGED vars
  BY <1>14 DEF TypeOK, vars, timerfd
<1> QED
  BY <1>1, <1>2, <1>3, <1>4, <1>5, <1>6, <1>7, <1>8, <1>9, <1>10, <1>11, <1>12,
     <1>13, <1>14 DEF Next, Reset, OnTime

\* The timer's variables keep their types.
THEOREM TypeCorrect == Spec => []TypeOK
<1>1. Init => TypeOK
  BY DEF Init, TypeOK
<1> QED BY <1>1, StepTypeOK, PTL DEF Spec

-----------------------------------------------------------------------------
\* The timerfd never rests while an event is pending: whoever adds to an empty
\* map sets it, and onTime sets it again after it has read it.
THEOREM TimerArmed == Spec => []NeverUnarmed
<1>1. Init => NeverUnarmed
  BY DEF Init, NeverUnarmed
<1>2. TypeOK /\ NeverUnarmed /\ [Next]_vars => NeverUnarmed'
  <2> SUFFICES ASSUME TypeOK, NeverUnarmed, [Next]_vars PROVE NeverUnarmed'
    OBVIOUS
  <2> USE DEF TypeOK, NeverUnarmed
  <2>1. ASSUME NEW e \in Events, NewTimeEvent(e) PROVE NeverUnarmed'
    BY <2>1 DEF NewTimeEvent, Goto, timerfd
  <2>2. ASSUME NEW e \in Events, Add(e) PROVE NeverUnarmed'
    <3>1. CASE pending_events_ = {}
      <4>1. pc'[e] = "reset"
        BY <2>2, <3>1 DEF Add, AddTimerEvent, ResetNeeded, Goto
      <4> QED BY <4>1
    <3>2. CASE pending_events_ # {}
      BY <2>2, <3>2 DEF Add, AddTimerEvent, Goto, timerfd
    <3> QED BY <3>1, <3>2
  <2>3. ASSUME NEW e \in Events, SetCancled(e) PROVE NeverUnarmed'
    BY <2>3 DEF SetCancled, timerfd
  <2>4. ASSUME NEW t \in Threads, ResetArriveTime(t) PROVE NeverUnarmed'
    <3>1. CASE pending_events_ = {}
      BY <2>4, <3>1 DEF ResetArriveTime
    <3>2. CASE pending_events_ # {}
      <4>1. pc'[t] = "set"
        BY <2>4, <3>2 DEF ResetArriveTime, Goto
      <4> QED BY <4>1
    <3> QED BY <3>1, <3>2
  <2>5. ASSUME NEW t \in Threads, SetTime(t) PROVE NeverUnarmed'
    BY <2>5 DEF SetTime
  <2>6. CASE EpollWait
    BY <2>6 DEF EpollWait, Expired, timerfd
  <2>7. CASE OnTimeRead
    BY <2>7 DEF OnTimeRead, Goto
  <2>8. CASE OnTimeCollect
    BY <2>8 DEF OnTimeCollect, Goto
  <2>9. ASSUME NEW e \in Events, Readd(e) PROVE NeverUnarmed'
    BY <2>9 DEF Readd, AddTimerEvent, Goto
  <2>10. ASSUME NEW e \in Events, RunTask(e) PROVE NeverUnarmed'
    BY <2>10 DEF RunTask, timerfd
  <2>11. CASE ReaddDone
    BY <2>11 DEF ReaddDone, AfterReadd, Goto
  <2>12. CASE OnTimeDone
    BY <2>12 DEF OnTimeDone, Goto, timerfd
  <2>13. CASE Tick
    BY <2>13 DEF Tick
  <2>14. CASE UNCHANGED vars
    BY <2>14 DEF vars, timerfd
  <2> QED
    BY <2>1, <2>2, <2>3, <2>4, <2>5, <2>6, <2>7, <2>8, <2>9, <2>10, <2>11, <2>12,
       <2>13, <2>14 DEF Next, Reset, OnTime
<1> QED BY <1>1, <1>2, TypeCorrect, PTL DEF Spec

\* The steps of resetArriveTime concern neither the places of an event nor, for
\* an event's own thread, whether it was added.
LEMMA ResetPlaces ==
    ASSUME TypeOK, NEW t \in Threads, Reset(t)
    PROVE  /\ UNCHANGED <<pending_events_, is_cancled_, back, tmps, tasks, fired>>
           /\ pc[t] \in {"reset", "set"}
           /\ pc'[t] \in {"set", IF t = Loop THEN back ELSE "done"}
           /\ \A u \in Threads : u # t => pc'[u] = pc[u]
  BY DEF TypeOK, Reset, ResetArriveTime, SetTime, Resume, Goto

\* A one-shot event's callback runs at most once: a CallMethod is told of its
\* timeout once at most.
THEOREM OneShot == Spec => []OneShotOnce
<1>1. Init => OnceInv
  BY DEF Init, OnceInv, OneShotOnce
<1>2. TypeOK /\ OnceInv /\ [Next]_vars => OnceInv'
  <2> SUFFICES ASSUME TypeOK, OnceInv, [Next]_vars PROVE OnceInv'
    OBVIOUS
  <2> USE DEF TypeOK, OnceInv, OneShotOnce
  <2>1. ASSUME NEW e \in Events, NewTimeEvent(e) PROVE OnceInv'
    BY <2>1 DEF NewTimeEvent, Goto
  <2>2. ASSUME NEW e \in Events, Add(e) PROVE OnceInv'
    BY <2>2 DEF Add, AddTimerEvent, Goto
  <2>3. ASSUME NEW e \in Events, SetCancled(e) PROVE OnceInv'
    BY <2>3 DEF SetCancled
  <2>4. ASSUME NEW t \in Threads, Reset(t) PROVE OnceInv'
    BY <2>4, ResetPlaces
  <2>5. CASE EpollWait
    BY <2>5 DEF EpollWait, Goto
  <2>6. CASE OnTimeRead
    BY <2>6 DEF OnTimeRead, Goto
  <2>7. CASE OnTimeCollect
    BY <2>7 DEF OnTimeCollect, Goto, Arrived, Remaining, ToReadd
  <2>8. ASSUME NEW e \in Events, Readd(e) PROVE OnceInv'
    <3>1. e \in Repeated /\ pc[e] \notin {"new", "add"}
      BY <2>8 DEF Readd
    <3> QED BY <2>8, <3>1 DEF Readd, AddTimerEvent, Goto
  <2>9. ASSUME NEW e \in Events, RunTask(e) PROVE OnceInv'
    BY <2>9 DEF RunTask
  <2>10. CASE ReaddDone
    BY <2>10 DEF ReaddDone, Goto
  <2>11. CASE OnTimeDone
    BY <2>11 DEF OnTimeDone, Goto
  <2>12. CASE Tick
    BY <2>12 DEF Tick
  <2>13. CASE UNCHANGED vars
    BY <2>13 DEF vars
  <2> QED
    BY <2>1, <2>2, <2>3, <2>4, <2>5, <2>6, <2>7, <2>8, <2>9, <2>10, <2>11, <2>12,
       <2>13 DEF Next, OnTime
<1>3. OnceInv => OneShotOnce
  BY DEF OnceInv
<1> QED BY <1>1, <1>2, <1>3, TypeCorrect, PTL DEF Spec

\* A repeated event is never dropped: the keepalive task and the sweep of idle
\* connections go on as long as the loop runs.
THEOREM RepeatedStays == Spec => []RepeatedKept
<1>1. Init => KeptInv
  BY DEF Init, KeptInv, RepeatedKept
<1>2. TypeOK /\ KeptInv /\ [Next]_vars => KeptInv'
  <2> SUFFICES ASSUME TypeOK, KeptInv, [Next]_vars PROVE KeptInv'
    OBVIOUS
  <2> USE DEF TypeOK, KeptInv, RepeatedKept
  <2>1. ASSUME NEW e \in Events, NewTimeEvent(e) PROVE KeptInv'
    BY <2>1 DEF NewTimeEvent, Goto
  <2>2. ASSUME NEW e \in Events, Add(e) PROVE KeptInv'
    BY <2>2 DEF Add, AddTimerEvent, Goto
  <2>3. ASSUME NEW e \in Events, SetCancled(e) PROVE KeptInv'
    BY <2>3 DEF SetCancled
  <2>4. ASSUME NEW t \in Threads, Reset(t) PROVE KeptInv'
    BY <2>4, ResetPlaces
  <2>5. CASE EpollWait
    BY <2>5 DEF EpollWait, Goto
  <2>6. CASE OnTimeRead
    BY <2>6 DEF OnTimeRead, Goto
  <2>7. CASE OnTimeCollect
    <3>1. tmps = {}
      BY <2>7 DEF OnTimeCollect
    <3>2. pending_events_ \cap Repeated \subseteq pending_events_' \cup tmps'
      BY <2>7 DEF OnTimeCollect, Remaining, ToReadd, Callable
    <3> QED BY <2>7, <3>1, <3>2 DEF OnTimeCollect, Goto
  <2>8. ASSUME NEW e \in Events, Readd(e) PROVE KeptInv'
    BY <2>8 DEF Readd, AddTimerEvent, Goto
  <2>9. ASSUME NEW e \in Events, RunTask(e) PROVE KeptInv'
    BY <2>9 DEF RunTask
  <2>10. CASE ReaddDone
    BY <2>10 DEF ReaddDone, Goto
  <2>11. CASE OnTimeDone
    BY <2>11 DEF OnTimeDone, Goto
  <2>12. CASE Tick
    BY <2>12 DEF Tick
  <2>13. CASE UNCHANGED vars
    BY <2>13 DEF vars
  <2> QED
    BY <2>1, <2>2, <2>3, <2>4, <2>5, <2>6, <2>7, <2>8, <2>9, <2>10, <2>11, <2>12,
       <2>13 DEF Next, OnTime
<1>3. KeptInv => RepeatedKept
  BY DEF KeptInv
<1> QED BY <1>1, <1>2, <1>3, TypeCorrect, PTL DEF Spec

\* onTime has callbacks to run only between its critical section and its end,
\* when the loop thread cannot handle a response, and took none of a cancelled
\* event.
SilentInv ==
    /\ tasks # {} => pc[Loop] \in {"readd", "reset", "set", "run"}
    /\ \A e \in tasks : ~is_cancled_[e]

\* The timeout of a call does not run once its response has cancelled it.
THEOREM CancelledStaysSilent == Spec => CancelledSilent
<1>1. Init => SilentInv
  BY DEF Init, SilentInv
<1>2. TypeOK /\ SilentInv /\ [Next]_vars => SilentInv'
  <2> SUFFICES ASSUME TypeOK, SilentInv, [Next]_vars PROVE SilentInv'
    OBVIOUS
  <2> USE DEF TypeOK, SilentInv
  <2>1. ASSUME NEW e \in Events, NewTimeEvent(e) PROVE SilentInv'
    BY <2>1 DEF NewTimeEvent, Goto
  <2>2. ASSUME NEW e \in Events, Add(e) PROVE SilentInv'
    BY <2>2 DEF Add, AddTimerEvent, Goto
  <2>3. ASSUME NEW e \in Events, SetCancled(e) PROVE SilentInv'
    BY <2>3 DEF SetCancled
  <2>4. ASSUME NEW t \in Threads, Reset(t) PROVE SilentInv'
    BY <2>4, ResetPlaces
  <2>5. CASE EpollWait \/ OnTimeRead
    BY <2>5 DEF EpollWait, OnTimeRead, Goto
  <2>6. CASE OnTimeCollect
    BY <2>6 DEF OnTimeCollect, Goto, Arrived, Callable
  <2>7. ASSUME NEW e \in Events, Readd(e) PROVE SilentInv'
    BY <2>7 DEF Readd, AddTimerEvent, Goto
  <2>8. ASSUME NEW e \in Events, RunTask(e) PROVE SilentInv'
    BY <2>8 DEF RunTask
  <2>9. CASE ReaddDone \/ OnTimeDone
    BY <2>9 DEF ReaddDone, OnTimeDone, AfterReadd, Goto
  <2>10. CASE Tick \/ UNCHANGED vars
    BY <2>10 DEF Tick, vars
  <2> QED
    BY <2>1, <2>2, <2>3, <2>4, <2>5, <2>6, <2>7, <2>8, <2>9, <2>10 DEF Next, OnTime
<1>3. TypeOK /\ SilentInv /\ [Next]_vars =>
        [\A e \in Events : is_cancled_[e] /\ e \in fired' => e \in fired]_vars
  <2> SUFFICES ASSUME TypeOK, SilentInv, Next, NEW f \in Events, is_cancled_[f], f \in fired'
               PROVE  f \in fired
    OBVIOUS
  <2>1. ASSUME NEW e \in Events, RunTask(e) PROVE f \in fired
    BY <2>1 DEF RunTask, SilentInv
  <2>2. ASSUME NEW e \in Events, NewTimeEvent(e) \/ Add(e) \/ SetCancled(e) \/ Readd(e)
        PROVE  f \in fired
    BY <2>2 DEF NewTimeEvent, Add, SetCancled, Readd
  <2>3. ASSUME NEW t \in Threads, Reset(t) PROVE f \in fired
    BY <2>3, ResetPlaces
  <2>4. CASE EpollWait \/ OnTimeRead \/ OnTimeCollect \/ ReaddDone \/ OnTimeDone \/ Tick
    BY <2>4 DEF EpollWait, OnTimeRead, OnTimeCollect, ReaddDone, OnTimeDone, Tick
  <2> QED
    BY <2>1, <2>2, <2>3, <2>4 DEF Next, OnTime
<1> QED BY <1>1, <1>2, <1>3, TypeCorrect, PTL DEF Spec, CancelledSilent
=============================================================================
