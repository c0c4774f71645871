------------------------------- MODULE Channel -------------------------------
(****************************************************************************)
(* A Channel (src/net/Channel.cpp) and its entry in the epoll instance of   *)
(* its loop (src/net/Epoll.cpp).  Any thread may call enableReading,        *)
(* enableWriting or disableWriting; events_ is a plain integer that these   *)
(* calls load, change and store without a lock, and setChannel reads        *)
(* events_ and inepoll_ before it calls epoll_ctl.  Each of those accesses  *)
(* is a step, so that calls of two threads interleave as they do in the     *)
(* program.                                                                 *)
(*                                                                          *)
(* The kernel's side (registered, mask, ready) is external: an edge-        *)
(* triggered entry is put on the ready list when epoll_ctl finds one of its *)
(* events true, or when an event it asks for happens.  EPOLLHUP and         *)
(* EPOLLERR ("HUP") are always asked for.                                   *)
(****************************************************************************)
EXTENDS Naturals

CONSTANT Threads    \* threads that call the channel's methods

VARIABLES
    events_,        \* the events the channel wants, of "IN" and "OUT"
    inepoll_,       \* the channel believes it is in the epoll tree
    registered,     \* it is
    mask,           \* events the kernel watches for it
    ready,          \* it is on the kernel's ready list
    call,           \* per thread: the step it is at in a method, and its local value
    dead            \* "no", or what ended the process

chanVars == <<events_, inepoll_, registered, mask, ready, call, dead>>

Bits == {"IN", "OUT"}

CallStates == {"idle", "store", "read", "test", "mod", "add", "mark", "del", "unmark"}

ChannelTypeOK ==
    /\ events_ \in SUBSET Bits
    /\ inepoll_ \in BOOLEAN
    /\ registered \in BOOLEAN
    /\ mask \in SUBSET Bits
    /\ ready \in BOOLEAN
    /\ call \in [Threads -> [at : CallStates, val : SUBSET Bits]]
    /\ dead \in {"no", "assert", "sigpipe", "freed"}

\* Channel::Channel, useET: nothing wanted yet, not in the tree.
ChannelInit ==
    /\ events_ = {}
    /\ inepoll_ = FALSE
    /\ registered = FALSE
    /\ mask = {}
    /\ ready = FALSE
    /\ call = [t \in Threads |-> [at |-> "idle", val |-> {}]]
    /\ dead = "no"

Idle(t) == call[t].at = "idle"

Goto(t, at, val) == call' = [call EXCEPT ![t] = [at |-> at, val |-> val]]

\* The entry goes on the ready list if one of the events in bits is asked for.
Raise(bits) ==
    ready' = (ready \/ (registered /\ bits \cap (mask \cup {"HUP"}) # {}))

\* handleEvent runs one callback only: reading goes before writing, and what is
\* neither is an error.  (EPOLLRDHUP is never asked for.)
Callback(revents) ==
    IF "IN" \in revents THEN "read" ELSE IF "OUT" \in revents THEN "write" ELSE "error"

-----------------------------------------------------------------------------
(* The methods: the load of events_ in `events_ |= bit` or `events_ &= ~bit` *)

Begin(t, val) ==
    /\ Idle(t)
    /\ Goto(t, "store", val)
    /\ UNCHANGED <<events_, inepoll_, registered, mask, ready, dead>>

EnableReading(t) == Begin(t, events_ \cup {"IN"})

EnableWriting(t) == Begin(t, events_ \cup {"OUT"})

DisableWriting(t) == Begin(t, events_ \ {"OUT"})

\* The store of the new value.
StoreEvents(t) ==
    /\ call[t].at = "store"
    /\ events_' = call[t].val
    /\ Goto(t, "read", {})
    /\ UNCHANGED <<inepoll_, registered, mask, ready, dead>>

\* Epoll::setChannel: getEvents(), ...
SetChannelRead(t) ==
    /\ call[t].at = "read"
    /\ Goto(t, "test", events_)
    /\ UNCHANGED <<events_, inepoll_, registered, mask, ready, dead>>

\* ... then getInepoll() chooses the operation.
SetChannelTest(t) ==
    /\ call[t].at = "test"
    /\ Goto(t, IF inepoll_ THEN "mod" ELSE "add", call[t].val)
    /\ UNCHANGED <<events_, inepoll_, registered, mask, ready, dead>>

\* What epoll_ctl ADD and MOD do to the entry, with the socket's level: the
\* new mask, and a place on the ready list if an event is true already.
Register(t, level) ==
    /\ registered' = TRUE
    /\ mask' = call[t].val
    /\ ready' = (ready \/ level \cap (call[t].val \cup {"HUP"}) # {})

\* EPOLL_CTL_MOD fails with ENOENT when another thread has removed the entry.
SetChannelMod(t, level) ==
    /\ call[t].at = "mod"
    /\ \/ /\ registered
          /\ Register(t, level)
          /\ Goto(t, "idle", {})
          /\ UNCHANGED dead
       \/ /\ ~registered
          /\ dead' = "assert"
          /\ UNCHANGED <<registered, mask, ready, call>>
    /\ UNCHANGED <<events_, inepoll_>>

\* EPOLL_CTL_ADD fails with EEXIST when another thread has added the entry.
SetChannelAdd(t, level) ==
    /\ call[t].at = "add"
    /\ \/ /\ ~registered
          /\ Register(t, level)
          /\ Goto(t, "mark", {})
          /\ UNCHANGED dead
       \/ /\ registered
          /\ dead' = "assert"
          /\ UNCHANGED <<registered, mask, ready, call>>
    /\ UNCHANGED <<events_, inepoll_>>

SetInepoll(t) ==
    /\ call[t].at = "mark"
    /\ inepoll_' = TRUE
    /\ Goto(t, "idle", {})
    /\ UNCHANGED <<events_, registered, mask, ready, dead>>

-----------------------------------------------------------------------------
(* Channel::remove and Epoll::removeChannel *)

RemoveChannel(t) ==
    /\ Idle(t)
    /\ Goto(t, IF inepoll_ THEN "del" ELSE "idle", {})
    /\ UNCHANGED <<events_, inepoll_, registered, mask, ready, dead>>

RemoveChannelDel(t) ==
    /\ call[t].at = "del"
    /\ \/ /\ registered
          /\ registered' = FALSE
          /\ mask' = {}
          /\ ready' = FALSE
          /\ Goto(t, "unmark", {})
          /\ UNCHANGED dead
       \/ /\ ~registered
          /\ dead' = "assert"
          /\ UNCHANGED <<registered, mask, ready, call>>
    /\ UNCHANGED <<events_, inepoll_>>

DelInepoll(t) ==
    /\ call[t].at = "unmark"
    /\ inepoll_' = FALSE
    /\ Goto(t, "idle", {})
    /\ UNCHANGED <<events_, registered, mask, ready, dead>>

ChannelStep(t, level) ==
    \/ StoreEvents(t) \/ SetChannelRead(t) \/ SetChannelTest(t)
    \/ SetChannelMod(t, level) \/ SetChannelAdd(t, level) \/ SetInepoll(t)
    \/ RemoveChannelDel(t) \/ DelInepoll(t)
=============================================================================
