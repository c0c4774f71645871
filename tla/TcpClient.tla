------------------------------ MODULE TcpClient ------------------------------
(****************************************************************************)
(* TcpClient (src/net/TcpClient.cpp): the client's cache of connections,    *)
(* getConnection called by several threads, and the keepalive task that     *)
(* the timer of loop_ repeats.  The model follows the entry of one server   *)
(* name.                                                                    *)
(*                                                                          *)
(* What becomes of a call on its connection is the subject of RpcClient;    *)
(* here a call matters because it holds its connection and because only a   *)
(* call enables writing.  A CallMethod that got as far as its TimeEvent     *)
(* holds the connection for good: the event's task_ holds the channel,      *)
(* which holds the event, and onTime resets a copy of task_ only.           *)
(*                                                                          *)
(* A keepalive is named by its age in rounds, 0 for that of this round; the *)
(* rounds before the MaxAge-th count as one.  It is Stray when the map      *)
(* entry that its callbacks refer to (&kv) has been erased.  Using a stray  *)
(* reference or a destroyed Connection is undefined: the process may end    *)
(* (crashed) or go on.                                                      *)
(****************************************************************************)
EXTENDS Integers, FiniteSets

CONSTANTS
    Callers,    \* threads, each with one CallMethod
    Conns,      \* bound: the connections that can be opened
    NoConn

ASSUME NoConnAssumption == NoConn \notin Conns

VARIABLES
    server_conns_,      \* the entry of the name: a connection or NoConn
    keepalive_count_,   \* its count
    stop_,              \* loop_ was told to stop
    kpc, kconn,         \* the keepalive task: where it is, the Connection* it uses
    cpc, conn,          \* each caller: where it is, its spConnection
    peer,               \* external, per connection: "none" yet, "up", "down"
    writing,            \* EPOLLOUT is enabled
    write_dones_,       \* keepalives pushed and not sent
    read_dones_,        \* keepalives whose response callback is installed
    sent,               \* external: keepalives that the peer may answer
    disConnect,         \* the loop of the connection has found it closed
    silent,             \* ghost: rounds counted since the entry was put or any answer came on it
    late,               \* ghost: since the entry was put or an answer noticed, one came too late
    crashed             \* undefined behaviour ended the process

taskVars == <<kpc, kconn>>
callVars == <<cpc, conn>>
connVars == <<peer, writing, write_dones_, read_dones_, sent, disConnect>>
ghostVars == <<silent, late>>
mapVars  == <<server_conns_, keepalive_count_>>
cacheVars == <<mapVars, stop_, taskVars, callVars, connVars, ghostVars, crashed>>

MaxAge == 2

Stray == -1

Keepalives == 0 .. MaxAge \cup {Stray}

MaxSilent == 3

CacheTypeOK ==
    /\ server_conns_ \in Conns \cup {NoConn}
    /\ keepalive_count_ \in -1 .. MaxSilent - 1
    /\ stop_ \in BOOLEAN
    /\ kpc \in {"idle", "push", "sleep", "pop", "count"}
    /\ kconn \in Conns \cup {NoConn}
    /\ cpc \in [Callers -> {"start", "connect", "insert", "got", "pushed", "returned", "failed"}]
    /\ conn \in [Callers -> Conns \cup {NoConn}]
    /\ peer \in [Conns -> {"none", "up", "down"}]
    /\ writing \in [Conns -> BOOLEAN]
    /\ write_dones_ \in [Conns -> SUBSET Keepalives]
    /\ read_dones_ \in [Conns -> SUBSET Keepalives]
    /\ sent \in [Conns -> SUBSET Keepalives]
    /\ disConnect \in [Conns -> BOOLEAN]
    /\ silent \in 0 .. MaxSilent
    /\ late \in BOOLEAN
    /\ crashed \in BOOLEAN

CacheInit ==
    /\ server_conns_ = NoConn /\ keepalive_count_ = 0
    /\ stop_ = FALSE
    /\ kpc = "idle" /\ kconn = NoConn
    /\ cpc = [c \in Callers |-> "start"]
    /\ conn = [c \in Callers |-> NoConn]
    /\ peer = [k \in Conns |-> "none"]
    /\ writing = [k \in Conns |-> FALSE]
    /\ write_dones_ = [k \in Conns |-> {}]
    /\ read_dones_ = [k \in Conns |-> {}]
    /\ sent = [k \in Conns |-> {}]
    /\ disConnect = [k \in Conns |-> FALSE]
    /\ silent = 0 /\ late = FALSE
    /\ crashed = FALSE

\* Somebody holds a shared pointer to the connection.
Alive(k) ==
    \/ server_conns_ = k
    \/ \E c \in Callers : conn[c] = k

Undefined == crashed' \in BOOLEAN

-----------------------------------------------------------------------------
(* getConnection, and the CallMethod around it *)

CallerAt(c, pc) == cpc[c] = pc /\ ~crashed

\* Cached and not given up: one critical section.
GetCached(c) ==
    /\ CallerAt(c, "start")
    /\ server_conns_ # NoConn /\ keepalive_count_ < MaxSilent
    /\ conn' = [conn EXCEPT ![c] = server_conns_]
    /\ cpc' = [cpc EXCEPT ![c] = "got"]
    /\ UNCHANGED <<mapVars, stop_, taskVars, connVars, ghostVars, crashed>>

GetMissing(c) ==
    /\ CallerAt(c, "start")
    /\ ~(server_conns_ # NoConn /\ keepalive_count_ < MaxSilent)
    /\ cpc' = [cpc EXCEPT ![c] = "connect"]
    /\ UNCHANGED <<conn, mapVars, stop_, taskVars, connVars, ghostVars, crashed>>

\* No address, connect fails at once, select fails or times out: nullptr.
ConnectFails(c) ==
    /\ CallerAt(c, "connect")
    /\ cpc' = [cpc EXCEPT ![c] = "failed"]
    /\ UNCHANGED <<conn, mapVars, stop_, taskVars, connVars, ghostVars, crashed>>

\* connect succeeds, or select finds the socket writable.  It is writable too
\* when the peer has refused, and SO_ERROR is not asked for then.
Connect(c) ==
    /\ CallerAt(c, "connect")
    /\ \E k \in Conns :
        /\ peer[k] = "none"
        /\ peer' \in {[peer EXCEPT ![k] = p] : p \in {"up", "down"}}
        /\ conn' = [conn EXCEPT ![c] = k]
    /\ cpc' = [cpc EXCEPT ![c] = "insert"]
    /\ UNCHANGED <<mapVars, stop_, taskVars, writing, write_dones_, read_dones_, sent, disConnect, ghostVars, crashed>>

\* Mutant: the count of the connection given up goes on.
InsertKeepsCount(c) ==
    /\ CallerAt(c, "insert")
    /\ server_conns_' = conn[c]
    /\ keepalive_count_' = keepalive_count_
    /\ silent' = 0 /\ late' = FALSE
    /\ cpc' = [cpc EXCEPT ![c] = "got"]
    /\ UNCHANGED <<conn, stop_, taskVars, connVars, crashed>>

\* The second critical section; it replaces what another caller has put there.
Insert(c) ==
    /\ CallerAt(c, "insert")
    /\ server_conns_' = conn[c]
    /\ keepalive_count_' = 0
    /\ silent' = 0 /\ late' = FALSE
    /\ cpc' = [cpc EXCEPT ![c] = "got"]
    /\ UNCHANGED <<conn, stop_, taskVars, connVars, crashed>>

\* Channel not initialised, or request not serialisable: peer_conn is released.
CallFails(c) ==
    /\ CallerAt(c, "got")
    /\ cpc' = [cpc EXCEPT ![c] = "failed"]
    /\ conn' = [conn EXCEPT ![c] = NoConn]
    /\ UNCHANGED <<mapVars, stop_, taskVars, connVars, ghostVars, crashed>>

\* The TimeEvent is made and the request pushed; ...
CallPushes(c) ==
    /\ CallerAt(c, "got")
    /\ cpc' = [cpc EXCEPT ![c] = "pushed"]
    /\ UNCHANGED <<conn, mapVars, stop_, taskVars, connVars, ghostVars, crashed>>

\* ... then writing is enabled.
CallEnables(c) ==
    /\ CallerAt(c, "pushed")
    /\ writing' = [writing EXCEPT ![conn[c]] = TRUE]
    /\ cpc' = [cpc EXCEPT ![c] = "returned"]
    /\ UNCHANGED <<conn, mapVars, stop_, taskVars, peer, write_dones_, read_dones_, sent, disConnect, ghostVars, crashed>>

StopLoop ==
    /\ ~stop_ /\ ~crashed
    /\ stop_' = TRUE
    /\ UNCHANGED <<mapVars, taskVars, callVars, connVars, ghostVars, crashed>>

-----------------------------------------------------------------------------
(* The keepalive task, run by loop_ every timeout_ *)

TaskAt(pc) == kpc = pc /\ ~crashed

Relabel(f, label) == [k \in Conns |-> {label[m] : m \in f[k]}]

RelabelAll(label) ==
    /\ write_dones_' = Relabel(write_dones_, label)
    /\ read_dones_' = Relabel(read_dones_, label)
    /\ sent' = Relabel(sent, label)

\* The round gets a message id of its own, and the loop over server_conns_,
\* without the mutex, comes to the entry if there is one.
TaskBegins ==
    /\ TaskAt("idle") /\ ~stop_
    /\ RelabelAll([m \in Keepalives |-> IF m \in 0 .. MaxAge - 1 THEN m + 1 ELSE m])
    /\ kpc' = IF server_conns_ = NoConn THEN "sleep" ELSE "push"
    /\ kconn' = server_conns_
    /\ UNCHANGED <<mapVars, stop_, callVars, peer, writing, disConnect, ghostVars, crashed>>

\* pushSendMessage; writing is not enabled.
TaskPushes ==
    /\ TaskAt("push")
    /\ kpc' = "sleep" /\ kconn' = NoConn
    /\ \/ /\ Alive(kconn)
          /\ write_dones_' = [write_dones_ EXCEPT ![kconn] = @ \cup {0}]
          /\ UNCHANGED crashed
       \/ /\ ~Alive(kconn)
          /\ Undefined
          /\ UNCHANGED write_dones_
    /\ UNCHANGED <<mapVars, stop_, callVars, peer, writing, read_dones_, sent, disConnect, ghostVars>>

\* Mutant: only an unanswered callback counts.
TaskWakesForCallback ==
    /\ TaskAt("sleep")
    /\ kpc' = IF server_conns_ \in {k \in Conns : 0 \in read_dones_[k]} THEN "pop" ELSE "idle"
    /\ kconn' = server_conns_
    /\ UNCHANGED <<mapVars, stop_, callVars, connVars, ghostVars, crashed>>

\* After half of timeout_: the second loop, which sees what is cached now.
TaskWakes ==
    /\ TaskAt("sleep")
    /\ kpc' = IF server_conns_ = NoConn THEN "idle" ELSE "pop"
    /\ kconn' = server_conns_
    /\ UNCHANGED <<mapVars, stop_, callVars, connVars, ghostVars, crashed>>

\* popReadMessage: an answer that comes now finds no callback.
TaskPops ==
    /\ TaskAt("pop")
    /\ kpc' = "count" /\ kconn' = NoConn
    /\ \/ /\ Alive(kconn)
          /\ read_dones_' = [read_dones_ EXCEPT ![kconn] = @ \ {0}]
          /\ UNCHANGED crashed
       \/ /\ ~Alive(kconn)
          /\ Undefined
          /\ UNCHANGED read_dones_
    /\ UNCHANGED <<mapVars, stop_, callVars, peer, writing, write_dones_, sent, disConnect, ghostVars>>

GivesUp(count) == count >= MaxSilent

\* Under the mutex: count, and erase the entry at three.
TaskCounts ==
    /\ TaskAt("count")
    /\ kpc' = "idle"
    /\ silent' = IF silent < MaxSilent THEN silent + 1 ELSE silent
    /\ \/ /\ GivesUp(keepalive_count_ + 1)
          /\ keepalive_count_' = 0
          /\ server_conns_' = NoConn
          /\ RelabelAll([m \in Keepalives |-> Stray])
       \/ /\ ~GivesUp(keepalive_count_ + 1)
          /\ keepalive_count_' = keepalive_count_ + 1
          /\ UNCHANGED <<server_conns_, write_dones_, read_dones_, sent>>
    /\ UNCHANGED <<stop_, kconn, callVars, peer, writing, disConnect, late, crashed>>

-----------------------------------------------------------------------------
(* The loop of a connection, and its peer *)

\* sendMessage: every keepalive's send callback installs the response callback
\* at kv.second, the connection cached now.  Once disConnect is set it returns
\* at once.
SendMessage(k) ==
    /\ Alive(k) /\ ~crashed
    /\ writing[k] /\ ~disConnect[k]
    /\ writing' = [writing EXCEPT ![k] = FALSE]
    /\ write_dones_' = [write_dones_ EXCEPT ![k] = {}]
    /\ sent' = IF peer[k] = "up" THEN [sent EXCEPT ![k] = @ \cup write_dones_[k]] ELSE sent
    /\ read_dones_' = [j \in Conns |->
            IF j = server_conns_ THEN read_dones_[j] \cup (write_dones_[k] \ {Stray})
                                 ELSE read_dones_[j]]
    /\ IF Stray \in write_dones_[k] THEN Undefined ELSE UNCHANGED crashed
    /\ UNCHANGED <<mapVars, stop_, taskVars, callVars, peer, disConnect, ghostVars>>

\* The answer makes the count of this round come out as 0.
Answered == -1

\* onMessage finds the answer m: parseMsg runs its callback, if installed.  One
\* that was popped, or installed at another connection, is not there any more,
\* and the answer is not noticed.
OnMessage(k, m) ==
    /\ Alive(k) /\ ~crashed
    /\ m \in sent[k]
    /\ sent' = [sent EXCEPT ![k] = @ \ {m}]
    /\ read_dones_' = [read_dones_ EXCEPT ![k] = @ \ {m}]
    /\ \/ /\ m \in read_dones_[k] /\ m # Stray
          /\ keepalive_count_' = Answered
          /\ UNCHANGED crashed
       \/ /\ m \in read_dones_[k] /\ m = Stray
          /\ Undefined
          /\ UNCHANGED keepalive_count_
       \/ /\ m \notin read_dones_[k]
          /\ UNCHANGED <<keepalive_count_, crashed>>
    /\ IF k = server_conns_
       THEN silent' = 0 /\ late' = (m = Stray \/ m \notin read_dones_[k])
       ELSE UNCHANGED ghostVars
    /\ UNCHANGED <<server_conns_, stop_, taskVars, callVars, peer, writing, write_dones_, disConnect>>

\* The loop finds the connection closed, by its peer or by an error.  It looks
\* only once a call has put the connection into epoll.
CloseCallback(k) ==
    /\ peer[k] = "down" /\ ~crashed
    /\ \E c \in Callers : conn[c] = k /\ cpc[c] = "returned"
    /\ ~disConnect[k]
    /\ disConnect' = [disConnect EXCEPT ![k] = TRUE]
    /\ UNCHANGED <<mapVars, stop_, taskVars, callVars, peer, writing, write_dones_, read_dones_, sent, ghostVars, crashed>>

\* The server closes or is lost; nothing it had to answer is answered any more.
PeerDown(k) ==
    /\ peer[k] = "up" /\ ~crashed
    /\ peer' = [peer EXCEPT ![k] = "down"]
    /\ sent' = [sent EXCEPT ![k] = {}]
    /\ UNCHANGED <<mapVars, stop_, taskVars, callVars, writing, write_dones_, read_dones_, disConnect, ghostVars, crashed>>

-----------------------------------------------------------------------------
Caller(c) ==
    \/ GetCached(c) \/ GetMissing(c) \/ ConnectFails(c) \/ Connect(c)
    \/ Insert(c) \/ CallFails(c) \/ CallPushes(c) \/ CallEnables(c)

Task == TaskBegins \/ TaskPushes \/ TaskWakes \/ TaskPops \/ TaskCounts

LoopThread(k) == SendMessage(k) \/ CloseCallback(k) \/ \E m \in Keepalives : OnMessage(k, m)

\* Nothing is left to do: loop_ has stopped, or the process has ended.
CacheAtRest == (crashed \/ stop_) /\ UNCHANGED cacheVars

CacheNext ==
    \/ \E c \in Callers : Caller(c)
    \/ Task
    \/ \E k \in Conns : LoopThread(k) \/ PeerDown(k)
    \/ StopLoop
    \/ CacheAtRest

CacheSpec == CacheInit /\ [][CacheNext]_cacheVars

\* Callers and the keepalive task go on; the peer need not answer, and a loop
\* need not send, as it may have lost the edge for writing.
CacheFairSpec ==
    /\ CacheSpec
    /\ WF_cacheVars(Task)
    /\ \A c \in Callers : WF_cacheVars(Caller(c))

-----------------------------------------------------------------------------
(* Properties *)

\* The keepalive task gives a connection up only after three rounds without any
\* answer on it, whatever callers and answers come between its unlocked loops
\* and its critical sections.  The exception is the code's: popReadMessage takes
\* the callback away after half of timeout_, an answer that comes later is not
\* noticed, and a server that always answers late is given up as if it were
\* silent.
DropsOnlySilent ==
    [][server_conns_ # NoConn /\ server_conns_' = NoConn
        => silent' >= MaxSilent \/ late]_cacheVars

\* getConnection hands out a cached connection without looking whether it is
\* closed.  The keepalive task ends that: a connection whose peer is gone does
\* not stay cached for ever.
DeadIsDropped ==
    \A k \in Conns :
        server_conns_ = k /\ peer[k] = "down" ~> server_conns_ # k \/ stop_ \/ crashed

-----------------------------------------------------------------------------
(* What the source says and the model refutes *)

\* "loop_; // keepalive packet loop" (TcpClient.h:52): a keepalive that is
\* pushed on a healthy connection is sent, if its loop sends what it was asked
\* to.  Nobody enables writing for it.
HeartbeatIsSent ==
    (\A k \in Conns : WF_cacheVars(SendMessage(k)))
        => \A k \in Conns :
            write_dones_[k] # {} ~> write_dones_[k] = {} \/ peer[k] # "up" \/ stop_ \/ crashed

\* "connect {}:{} success" (TcpClient.cpp:195): a connection that is cached as
\* connected was accepted by the peer.
ConnectedIsUp == [][\A c \in Callers : Connect(c) => peer'[conn'[c]] = "up"]_cacheVars

\* The callbacks of a keepalive run while the map entry they refer to exists,
\* and the task uses no Connection that a caller has replaced.
NothingDangles == ~crashed
=============================================================================
