-------------------------------- MODULE Time --------------------------------
(****************************************************************************)
(* The timer of an event loop: class Time (src/net/TIme.cpp) with its       *)
(* multimap of TimeEvents (src/common/TimeEvent.cpp) and its one timerfd.   *)
(* Any thread adds events; the loop thread runs onTime when the timerfd is  *)
(* readable.  mutex_ protects the map, but not the way from reading its     *)
(* head to timerfd_settime, nor what onTime does between its two sections.  *)
(*                                                                          *)
(* Time is kept as what is left of it: due[e] is arrive_time_ minus the     *)
(* clock, 0 once it is reached, and `left` is what the timerfd has to run.  *)
(* An event stands for the thread that creates and adds it.                 *)
(****************************************************************************)
EXTENDS Naturals

CONSTANTS
    Events,
    Repeated,   \* events with is_repeated_
    Interval,   \* interval_ of each event
    timeout_,   \* CConfig::timeout_
    Loop        \* the loop thread

ASSUME EventsAssumption == Repeated \subseteq Events /\ Loop \notin Events
ASSUME IntervalAssumption == Interval \in [Events -> Nat \ {0}]
ASSUME TimeoutAssumption == timeout_ \in Nat \ {0}

VARIABLES
    due,                \* per event: time left until its arrive_time_
    pending_events_,    \* events in the map
    is_cancled_,        \* per event
    armed, left,        \* the timerfd: set and not read, and its time to run
    pc,                 \* where each thread is
    inteval,            \* per thread: the local of resetArriveTime
    back,               \* where the loop thread goes on after resetArriveTime
    tmps,               \* onTime: repeated events still to be added again
    tasks,              \* onTime: events whose callback is still to run
    fired               \* events whose callback has run

timerfd == <<armed, left>>
vars == <<due, pending_events_, is_cancled_, timerfd, pc, inteval, back, tmps, tasks, fired>>

Threads == Events \cup {Loop}

TypeOK ==
    /\ due \in [Events -> Nat]
    /\ pending_events_ \in SUBSET Events
    /\ is_cancled_ \in [Events -> BOOLEAN]
    /\ armed \in BOOLEAN /\ left \in Nat
    /\ pc \in [Threads -> {"new", "add", "reset", "set", "done",
                           "idle", "read", "collect", "readd", "run"}]
    /\ inteval \in [Threads -> Nat]
    /\ back \in {"readd", "run"}
    /\ tmps \in SUBSET Repeated
    /\ tasks \in SUBSET Events
    /\ fired \in SUBSET Events

\* Time::Time has set the timerfd to timeout_.
Init ==
    /\ due = [e \in Events |-> 0]
    /\ pending_events_ = {}
    /\ is_cancled_ = [e \in Events |-> FALSE]
    /\ armed = TRUE /\ left = timeout_
    /\ pc = [t \in Threads |-> IF t = Loop THEN "idle" ELSE "new"]
    /\ inteval = [t \in Threads |-> 0]
    /\ back = "run"
    /\ tmps = {} /\ tasks = {} /\ fired = {}

Expired == armed /\ left = 0

Goto(t, at) == pc' = [pc EXCEPT ![t] = at]

\* pending_events_.begin(): an event that is due first.
First(e) == e \in pending_events_ /\ \A f \in pending_events_ : due[e] <= due[f]

-----------------------------------------------------------------------------
(* Adding an event *)

\* TimeEvent::TimeEvent fixes the time of arrival.
NewTimeEvent(e) ==
    /\ pc[e] = "new"
    /\ due' = [due EXCEPT ![e] = Interval[e]]
    /\ Goto(e, "add")
    /\ UNCHANGED <<pending_events_, is_cancled_, timerfd, inteval, back, tmps, tasks, fired>>

\* The head of the map is due later than an event with d left.  Of two events
\* that are both due, either may be the earlier one.
LaterThan(h, d) == IF due[h] = 0 /\ d = 0 THEN BOOLEAN ELSE {due[h] > d}

\* Mutant: an event that finds the map empty does not have the timerfd set.
ResetNeededIfEarlier(d) ==
    IF pending_events_ = {} THEN {FALSE}
    ELSE UNION {LaterThan(h, d) : h \in {e \in pending_events_ : First(e)}}

\* is_reset_timerfd, for an event that has d left.
ResetNeeded(d) ==
    IF pending_events_ = {} THEN {TRUE}
    ELSE UNION {LaterThan(h, d) : h \in {e \in pending_events_ : First(e)}}

\* addTimerEvent up to the end of its critical section, for an event with d
\* left; afterwards the thread resets the timerfd or goes on at `next`.
AddTimerEvent(t, e, d, next) ==
    /\ pending_events_' = pending_events_ \cup {e}
    /\ \E reset \in ResetNeeded(d) : Goto(t, IF reset THEN "reset" ELSE next)

Add(e) ==
    /\ pc[e] = "add"
    /\ AddTimerEvent(e, e, due[e], "done")
    /\ UNCHANGED <<due, is_cancled_, timerfd, inteval, back, tmps, tasks, fired>>

\* Where a thread goes on after resetArriveTime.
Resume(t) == IF t = Loop THEN back ELSE "done"

\* The time from now until the head is due; for a head that is due already,
\* the default timeout.
IntevalOf(d) == IF d > 0 THEN d ELSE timeout_

\* resetArriveTime, its critical section.
ResetArriveTime(t) ==
    /\ pc[t] = "reset"
    /\ IF pending_events_ = {}
       THEN Goto(t, Resume(t)) /\ UNCHANGED inteval
       ELSE /\ Goto(t, "set")
            /\ \E h \in pending_events_ :
                First(h) /\ inteval' = [inteval EXCEPT ![t] = IntevalOf(due[h])]
    /\ UNCHANGED <<due, pending_events_, is_cancled_, timerfd, back, tmps, tasks, fired>>

\* timerfd_settime: also forgets an expiration that was not read.
SetTime(t) ==
    /\ pc[t] = "set"
    /\ armed' = TRUE /\ left' = inteval[t]
    /\ inteval' = [inteval EXCEPT ![t] = 0]
    /\ Goto(t, Resume(t))
    /\ UNCHANGED <<due, pending_events_, is_cancled_, back, tmps, tasks, fired>>

\* setCancled(true) by the response callback, which runs on the loop thread.
SetCancled(e) ==
    /\ pc[Loop] = "idle"
    /\ pc[e] = "done" /\ e \notin Repeated
    /\ is_cancled_' = [is_cancled_ EXCEPT ![e] = TRUE]
    /\ UNCHANGED <<due, pending_events_, timerfd, pc, inteval, back, tmps, tasks, fired>>

-----------------------------------------------------------------------------
(* onTime on the loop thread *)

\* epoll_wait reports the timerfd.
EpollWait ==
    /\ pc[Loop] = "idle"
    /\ Expired
    /\ Goto(Loop, "read")
    /\ UNCHANGED <<due, pending_events_, is_cancled_, timerfd, inteval, back, tmps, tasks, fired>>

\* Read until EAGAIN; another thread may have set the timerfd meanwhile.
OnTimeRead ==
    /\ pc[Loop] = "read"
    /\ armed' = (armed /\ ~Expired)
    /\ Goto(Loop, "collect")
    /\ UNCHANGED <<due, pending_events_, is_cancled_, left, inteval, back, tmps, tasks, fired>>

Arrived == {e \in pending_events_ : due[e] = 0}

\* Mutant: events that were cancelled run all the same.
CallableAll(e) == TRUE

Callable(e) == ~is_cancled_[e]

\* Mutant: what was due stays in the map.
RemainingAll == pending_events_

\* pending_events_.erase(begin, it).
Remaining == pending_events_ \ Arrived

\* Mutant: repeated events are not added again.
ToReaddNone == {}

ToReadd == {e \in Arrived : Callable(e)} \cap Repeated

OnTimeCollect ==
    /\ pc[Loop] = "collect"
    /\ tasks' = {e \in Arrived : Callable(e)}
    /\ tmps' = ToReadd
    /\ pending_events_' = Remaining
    /\ Goto(Loop, "readd")
    /\ UNCHANGED <<due, is_cancled_, timerfd, inteval, back, fired>>

\* A repeated event gets a new time of arrival and is added again.
Readd(e) ==
    /\ pc[Loop] = "readd"
    /\ e \in tmps
    /\ tmps' = tmps \ {e}
    /\ due' = [due EXCEPT ![e] = Interval[e]]
    /\ AddTimerEvent(Loop, e, Interval[e], "readd")
    /\ back' = "readd"
    /\ UNCHANGED <<is_cancled_, timerfd, inteval, tasks, fired>>

\* Mutant: onTime does not set the timerfd again.
AfterReaddRuns == "run"

\* The second resetArriveTime of onTime follows.
AfterReadd == "reset"

ReaddDone ==
    /\ pc[Loop] = "readd"
    /\ tmps = {}
    /\ Goto(Loop, AfterReadd)
    /\ back' = "run"
    /\ UNCHANGED <<due, pending_events_, is_cancled_, timerfd, inteval, tmps, tasks, fired>>

RunTask(e) ==
    /\ pc[Loop] = "run"
    /\ e \in tasks
    /\ tasks' = tasks \ {e}
    /\ fired' = fired \cup {e}
    /\ UNCHANGED <<due, pending_events_, is_cancled_, timerfd, pc, inteval, back, tmps>>

OnTimeDone ==
    /\ pc[Loop] = "run"
    /\ tasks = {}
    /\ Goto(Loop, "idle")
    /\ UNCHANGED <<due, pending_events_, is_cancled_, timerfd, inteval, back, tmps, tasks, fired>>

-----------------------------------------------------------------------------
Less(n) == IF n > 0 THEN n - 1 ELSE 0

\* Time passes.
Tick ==
    /\ due' = [e \in Events |-> Less(due[e])]
    /\ left' = Less(left)
    /\ UNCHANGED <<pending_events_, is_cancled_, armed, pc, inteval, back, tmps, tasks, fired>>

Reset(t) == ResetArriveTime(t) \/ SetTime(t)

OnTime ==
    \/ EpollWait \/ OnTimeRead \/ OnTimeCollect
    \/ (\E e \in Events : Readd(e) \/ RunTask(e))
    \/ ReaddDone \/ OnTimeDone

Next ==
    \/ \E e \in Events : NewTimeEvent(e) \/ Add(e) \/ SetCancled(e)
    \/ \E t \in Threads : Reset(t)
    \/ OnTime
    \/ Tick

\* Time goes on and threads that can run do; nobody has to create an event or
\* to cancel one.
Fairness ==
    /\ \A e \in Events : WF_vars(Add(e))
    /\ \A t \in Threads : WF_vars(Reset(t))
    /\ WF_vars(OnTime)
    /\ WF_vars(Tick)

Spec == Init /\ [][Next]_vars

FairSpec == Spec /\ Fairness

-----------------------------------------------------------------------------
(* Properties *)

\* No event waits in the map with the timerfd at rest: it is set, or a thread
\* on its way through addTimerEvent or onTime is going to set it.
NeverUnarmed ==
    pending_events_ # {} =>
        \/ armed
        \/ pc[Loop] \in {"collect", "readd"}
        \/ \E t \in Threads : pc[t] \in {"reset", "set"}

\* The callback of an event that is not repeated runs once: after that the
\* event is nowhere.
OneShotOnce ==
    \A e \in fired \ Repeated : e \notin pending_events_ \cup tasks

\* A repeated event (the keepalive task, the sweep of idle connections) is
\* never dropped: it is in the map, or onTime is about to put it back.
RepeatedKept ==
    \A e \in Repeated : pc[e] \in {"reset", "set", "done"} => e \in pending_events_ \cup tmps

\* Where an event is once it has been added, in support of the properties above.
OnceInv ==
    /\ \A e \in pending_events_ \cup tmps \cup tasks \cup fired : pc[e] \notin {"new", "add"}
    /\ \A e \in tasks \ Repeated : e \notin pending_events_
    /\ OneShotOnce

\* onTime has nothing to add again unless it is in the middle of doing so, and
\* nobody cancels a repeated event.
KeptInv ==
    /\ tmps # {} => \/ pc[Loop] = "readd"
                    \/ pc[Loop] \in {"reset", "set"} /\ back = "readd"
    /\ \A e \in Repeated : ~is_cancled_[e]
    /\ RepeatedKept

\* Once the response has cancelled its timer, the timeout does not run.
CancelledSilent ==
    [][\A e \in Events : is_cancled_[e] /\ e \in fired' => e \in fired]_vars

\* Every event that was added runs or is cancelled, however threads that set
\* the timerfd overtake each other.
EventFires == \A e \in Events : e \in pending_events_ ~> (e \in fired \/ is_cancled_[e])

-----------------------------------------------------------------------------
(* What the source says and the model refutes *)

\* What TimeEvent.h:45 says of arrive_time_, that the event expires then: when
\* no thread is inside Time, the timerfd does not run on after the head is due,
\* but for a tick that may pass between resetArriveTime and timerfd_settime.
ArmedForHead ==
    pc[Loop] = "idle" /\ (\A e \in Events : pc[e] \in {"new", "add", "done"}) =>
        \A e \in pending_events_ : armed /\ left <= due[e] + 1
=============================================================================
