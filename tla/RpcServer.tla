------------------------------ MODULE RpcServer ------------------------------
(****************************************************************************)
(* The server's side of one connection: TcpServer (src/net/TcpServer.cpp),  *)
(* Connection (src/net/Connection.cpp, ConnectionByServer) and RpcDispatcher *)
(* (src/rpc/rpc_dispatcher.cpp).  Three kinds of threads meet in it: Main,  *)
(* the loop of the Acceptor, which makes the connection and sweeps idle     *)
(* ones; Loop, the EventLoop the connection belongs to; and the Workers of  *)
(* the pool, none of them if workThread_ is 0.                              *)
(*                                                                          *)
(* The pool and the loop's task queue are first in, first out, and lose     *)
(* nothing (modules ThreadPool and EventLoop).  A packet travels in two     *)
(* pieces, so that a read may end in the middle of one.  The idle time of a *)
(* connection is not kept: a sweep may find it timed out at any time, as    *)
(* lastTime_ is not set before the first read, nor by a reply.              *)
(*                                                                          *)
(* The client and the network (sent, c2s, s2c, client, received and the     *)
(* Client actions) are external.                                            *)
(****************************************************************************)
EXTENDS Channel, Sequences, FiniteSets

CONSTANTS
    Requests,   \* packets the client sends
    Packet,     \* what is in each of them
    service_map_,   \* the methods of each registered service
    SndCap,     \* bound: replies the socket's send buffer takes
    Workers,    \* threads of the pool that are not event loops
    Main, Loop

\* A name is the sequence of its parts between the dots.
Names == Seq(STRING)

PacketType == [msg_type_ : {0, 1}, method_name_ : Names, parses : BOOLEAN]

ASSUME ThreadsAssumption ==
    /\ Threads = Workers \cup {Main, Loop}
    /\ Main # Loop /\ Main \notin Workers /\ Loop \notin Workers
    /\ IsFiniteSet(Workers)
ASSUME PacketAssumption == Packet \in [Requests -> PacketType]
ASSUME ServiceAssumption == \A s \in DOMAIN service_map_ : s \in Names /\ service_map_[s] \subseteq Names
ASSUME SndCapAssumption == SndCap \in Nat \ {0}

VARIABLES
    workThread_,    \* CConfig::workThread_
    conns_,         \* TcpServer::conns_ holds the connection
    mpc,            \* where Main is
    disConnect,
    inputbuffer_,   \* pieces read
    outputbuffer_,  \* encoded replies
    lpc, revents_,  \* as in RpcClient
    pool,           \* batches of requests handed to the ThreadPool
    work,           \* per worker: where it is, and its batch of requests
    taskqueue_,     \* regSend tasks of the loop: batches of replies
    executed,       \* how often the service's method ran for a request
    (* external: TCP and the client *)
    sent,           \* pieces of each request the client has sent
    c2s, s2c,
    client,         \* "open", "fin" after it closed, "rst" after its RST
    wshut,          \* the server has sent its FIN
    received        \* replies the client has got

mainVars == <<workThread_, conns_, mpc>>
connVars == <<disConnect, inputbuffer_, outputbuffer_>>
loopVars == <<lpc, revents_>>
workVars == <<pool, work, taskqueue_, executed>>
netVars  == <<sent, c2s, s2c, client, wshut, received>>
vars     == <<chanVars, mainVars, connVars, loopVars, workVars, netVars>>

Codes == {"0", "service_name", "service_not_found", "method_not_found", "deserialize", "serialize"}

Piece == Requests \X {"head", "tail"}

Reply == Requests \X Codes

TypeOK ==
    /\ ChannelTypeOK
    /\ workThread_ \in Nat
    /\ conns_ \in BOOLEAN
    /\ mpc \in {"listen", "accept", "enable", "release", "idle", "fin"}
    /\ disConnect \in BOOLEAN
    /\ inputbuffer_ \in Seq(Piece)
    /\ outputbuffer_ \in Seq(Reply)
    /\ lpc \in {"wait", "handle", "parse", "write", "close", "erase"}
    /\ revents_ \in SUBSET (Bits \cup {"HUP"})
    /\ pool \in Seq(Seq(Requests))
    /\ work \in [Workers -> [at : {"idle", "dispatch", "release"}, pkgs : Seq(Requests)]]
    /\ taskqueue_ \in Seq(Seq(Reply))
    /\ executed \in [Requests -> Nat]
    /\ sent \in [Requests -> 0..2]
    /\ c2s \in Seq(Piece)
    /\ s2c \in Seq(Reply) /\ Len(s2c) <= SndCap
    /\ client \in {"open", "fin", "rst"}
    /\ wshut \in BOOLEAN
    /\ received \in Seq(Reply)

\* The client's connection waits to be accepted, and may carry data already.
\* The configuration may ask for no workers at all.
Init ==
    /\ ChannelInit
    /\ workThread_ \in {0, Cardinality(Workers)}
    /\ conns_ = FALSE /\ mpc = "listen"
    /\ disConnect = FALSE /\ inputbuffer_ = <<>> /\ outputbuffer_ = <<>>
    /\ lpc = "wait" /\ revents_ = {}
    /\ pool = <<>> /\ taskqueue_ = <<>>
    /\ work = [w \in Workers |-> [at |-> "idle", pkgs |-> <<>>]]
    /\ executed = [r \in Requests |-> 0]
    /\ sent = [r \in Requests |-> 0]
    /\ c2s = <<>> /\ s2c = <<>> /\ received = <<>>
    /\ client = "open" /\ wshut = FALSE

\* What poll() says of the socket.
Level ==
    (IF c2s # <<>> \/ client # "open" THEN {"IN"} ELSE {})
    \cup (IF Len(s2c) < SndCap \/ wshut \/ client = "rst" THEN {"OUT"} ELSE {})
    \cup (IF client = "rst" \/ (client = "fin" /\ wshut) THEN {"HUP"} ELSE {})

-----------------------------------------------------------------------------
(* The life of the Connection: a spConnection is held by conns_, by Main in *)
(* newConnection, by the loop in closeCallback and by every task of the     *)
(* pool.  regSend tasks and the epoll entry hold a plain pointer.           *)

Tasks == pool # <<>> \/ \E w \in Workers : work[w].at # "idle"

\* Somebody holds the connection, leaving out Main, Loop or some workers.
HeldBy(main, loop, workers) ==
    \/ conns_
    \/ main /\ mpc \in {"enable", "release"}
    \/ loop /\ lpc = "erase"
    \/ pool # <<>>
    \/ \E w \in workers : work[w].at # "idle"

Alive == mpc \in {"listen", "accept"} \/ HeldBy(TRUE, TRUE, Workers)

\* A thread drops its reference; the last one runs ~Connection, which removes
\* the channel from epoll.
Release(t, held) == IF held THEN UNCHANGED chanVars ELSE RemoveChannel(t)

-----------------------------------------------------------------------------
(* Main: TcpServer::newConnection and ClearClientTimerFunc *)

Dies(how) ==
    /\ dead' = how
    /\ UNCHANGED <<events_, inepoll_, registered, mask, ready, call>>
    /\ UNCHANGED <<mainVars, connVars, loopVars, workVars, netVars>>

MainAt(pc) == mpc = pc /\ Idle(Main) /\ dead = "no"

\* Acceptor::newConnection; the listening socket is level-triggered.
Accept ==
    /\ MainAt("listen")
    /\ mpc' = "accept"
    /\ UNCHANGED <<workThread_, chanVars, conns_, connVars, loopVars, workVars, netVars>>

\* accept4 has no descriptor left: the assertion in Socket::Accept ends the
\* process.
AcceptFails == MainAt("listen") /\ Dies("assert")

NewConnection ==
    /\ MainAt("accept")
    /\ conns_' = TRUE
    /\ mpc' = "enable"
    /\ UNCHANGED <<workThread_, chanVars, connVars, loopVars, workVars, netVars>>

NewConnectionEnable ==
    /\ MainAt("enable")
    /\ EnableReading(Main)
    /\ mpc' = "release"
    /\ UNCHANGED <<workThread_, conns_, connVars, loopVars, workVars, netVars>>

NewConnectionReturn ==
    /\ MainAt("release")
    /\ Release(Main, HeldBy(FALSE, TRUE, Workers))
    /\ mpc' = "idle"
    /\ UNCHANGED <<workThread_, conns_, connVars, loopVars, workVars, netVars>>

IsWriting == "OUT" \in events_

\* Under mutex_: the connection has timed out and wants no writing ...
ClearClientTimerFunc ==
    /\ MainAt("idle")
    /\ conns_ /\ ~wshut
    /\ ~IsWriting
    /\ mpc' = "fin"
    /\ UNCHANGED <<workThread_, chanVars, conns_, connVars, loopVars, workVars, netVars>>

\* ... so its writing side is shut down, which wakes whoever polls the socket.
ClearClientShutdown ==
    /\ MainAt("fin")
    /\ wshut' = TRUE
    /\ ready' = (ready \/ registered)
    /\ mpc' = "idle"
    /\ UNCHANGED <<events_, inepoll_, registered, mask, call, dead>>
    /\ UNCHANGED <<workThread_, conns_, connVars, loopVars, workVars, sent, c2s, s2c, client, received>>

-----------------------------------------------------------------------------
(* RpcDispatcher::dispatch *)

\* parseServiceFullName splits at the first dot; without one there is no name.
ParseServiceFullName(full) ==
    IF Len(full) < 2 THEN {} ELSE {[service |-> <<Head(full)>>, method |-> Tail(full)]}

\* The early returns before the request is parsed.
LookupError(full) ==
    LET parsed == ParseServiceFullName(full)
    IN IF parsed = {} THEN {"service_name"}
       ELSE IF \E n \in parsed : n.service \in DOMAIN service_map_ /\ n.method \in service_map_[n.service]
            THEN {} ELSE {"service_not_found"}

\* Mutant: the method is called before the request is known to be sound.
CallsMethodEarly(pkg) == pkg.msg_type_ = 0 /\ LookupError(pkg.method_name_) = {}

\* The packets that get as far as service->CallMethod.
CallsMethod(pkg) ==
    pkg.msg_type_ = 0 /\ LookupError(pkg.method_name_) = {} /\ pkg.parses

\* The error codes a packet can be answered with.  A keepalive goes back as it
\* came; what the service returns may fail to serialise.
Dispatch(pkg) ==
    CASE pkg.msg_type_ = 1 -> {"0"}
      [] pkg.msg_type_ = 0 /\ LookupError(pkg.method_name_) # {} -> LookupError(pkg.method_name_)
      [] pkg.msg_type_ = 0 /\ LookupError(pkg.method_name_) = {} ->
            IF pkg.parses THEN {"0", "serialize"} ELSE {"deserialize"}

\* TcpServer::OnMassage: the batches of replies that dispatching the packets
\* in turn can produce.
OnMassage(pkgs) ==
    {[i \in 1..Len(pkgs) |-> <<pkgs[i], code[i]>>] :
        code \in {f \in [1..Len(pkgs) -> Codes] :
                    \A i \in 1..Len(pkgs) : f[i] \in Dispatch(Packet[pkgs[i]])}}

Elements(s) == {s[i] : i \in 1..Len(s)}

\* The calls of service methods that go with it.
Execute(pkgs) ==
    executed' = [r \in Requests |->
        IF r \in Elements(pkgs) /\ CallsMethod(Packet[r]) THEN executed[r] + 1 ELSE executed[r]]

-----------------------------------------------------------------------------
(* The workers *)

WorkerAt(w, at) == work[w].at = at /\ Idle(w) /\ dead = "no"

\* A worker takes a task; the task holds the connection until it is done.
WorkerTake(w) ==
    /\ WorkerAt(w, "idle")
    /\ pool # <<>>
    /\ work' = [work EXCEPT ![w] = [at |-> "dispatch", pkgs |-> Head(pool)]]
    /\ pool' = Tail(pool)
    /\ UNCHANGED <<taskqueue_, executed>>
    /\ UNCHANGED <<chanVars, mainVars, connVars, loopVars, netVars>>

\* OnMassage and, at its end, Connection::send: regSend is queued in the loop
\* unless the connection is closed.
WorkerOnMassage(w) ==
    /\ WorkerAt(w, "dispatch")
    /\ Execute(work[w].pkgs)
    /\ \E replies \in OnMassage(work[w].pkgs) :
        taskqueue_' = IF disConnect THEN taskqueue_ ELSE Append(taskqueue_, replies)
    /\ work' = [work EXCEPT ![w] = [at |-> "release", pkgs |-> <<>>]]
    /\ UNCHANGED <<pool, chanVars, mainVars, connVars, loopVars, netVars>>

\* The task ends and gives the connection up.
WorkerReturn(w) ==
    /\ WorkerAt(w, "release")
    /\ Release(w, HeldBy(TRUE, TRUE, Workers \ {w}))
    /\ work' = [work EXCEPT ![w].at = "idle"]
    /\ UNCHANGED <<pool, taskqueue_, executed, mainVars, connVars, loopVars, netVars>>

-----------------------------------------------------------------------------
(* The loop thread *)

LoopAt(pc) == lpc = pc /\ Idle(Loop) /\ dead = "no"

EpollWait ==
    LET now == Level \cap (mask \cup {"HUP"})
    IN /\ LoopAt("wait")
       /\ ready
       /\ ready' = FALSE
       /\ revents_' = now
       /\ lpc' = IF now = {} THEN "wait" ELSE "handle"
       /\ UNCHANGED <<events_, inepoll_, registered, mask, call, dead>>
       /\ UNCHANGED <<mainVars, connVars, workVars, netVars>>

\* Channel::handleEvent on a connection that still exists.
HandleEvent(callback, next) ==
    /\ LoopAt("handle")
    /\ Alive
    /\ Callback(revents_) = callback
    /\ revents_' = {}
    /\ lpc' = next

\* onMessage reads until the stream is dry, then comes parseMsg.
OnMessage ==
    /\ HandleEvent("read", "parse")
    /\ client = "open"
    /\ inputbuffer_' = inputbuffer_ \o c2s
    /\ c2s' = <<>>
    /\ UNCHANGED <<disConnect, outputbuffer_>>
    /\ UNCHANGED <<chanVars, mainVars, workVars, sent, s2c, client, wshut, received>>

\* At the end of the stream it closes, whatever it has read before that.
OnMessageEof ==
    /\ HandleEvent("read", "close")
    /\ client # "open"
    /\ inputbuffer_' = inputbuffer_ \o c2s
    /\ c2s' = <<>>
    /\ disConnect' = TRUE
    /\ UNCHANGED outputbuffer_
    /\ UNCHANGED <<chanVars, mainVars, workVars, sent, s2c, client, wshut, received>>

\* closeCallback: the channel leaves epoll ...  (The server always asks for
\* reading, and an error makes the socket readable, so that handleEvent never
\* gets as far as errorCallback, which would do the same.)
Close ==
    /\ LoopAt("close")
    /\ RemoveChannel(Loop)
    /\ lpc' = "erase"
    /\ UNCHANGED <<mainVars, connVars, revents_, workVars, netVars>>

\* Mutant: a connection that is closed stays in the map.
ErasedNever == conns_

\* conns_.erase.
Erased == FALSE

\* ... and closeconnection, under mutex_, which the sweep
\* holds, takes the connection out of conns_.
CloseConnection ==
    /\ LoopAt("erase")
    /\ mpc # "fin"
    /\ conns_' = Erased
    /\ LET held == conns_' \/ mpc \in {"enable", "release"} \/ Tasks
       IN Release(Loop, held)
    /\ lpc' = "wait"
    /\ UNCHANGED <<workThread_, mpc, connVars, revents_, workVars, netVars>>

\* TinyPBCoder::decode takes the packets that are complete.
Complete == Len(inputbuffer_) \div 2

Decoded == [i \in 1..Complete |-> inputbuffer_[2 * i - 1][1]]

\* Mutant: decode empties the buffer.
UndecodedDropped == <<>>

Undecoded == SubSeq(inputbuffer_, 2 * Complete + 1, Len(inputbuffer_))

\* Mutant: nothing is handed on if no packet was complete.
HandsOnSome(pkgs) == pkgs # <<>>

\* parseMsg calls messageCallback_ with whatever was decoded, if only nothing.
HandsOn(pkgs) == TRUE

\* parseMsg and TcpServer::HandleMessage with workers: a task for the pool.
ParseMsg ==
    /\ LoopAt("parse") /\ Alive
    /\ workThread_ > 0
    /\ inputbuffer_' = Undecoded
    /\ pool' = IF HandsOn(Decoded) THEN Append(pool, Decoded) ELSE pool
    /\ lpc' = "wait"
    /\ UNCHANGED <<work, taskqueue_, executed, disConnect, outputbuffer_, revents_>>
    /\ UNCHANGED <<chanVars, mainVars, netVars>>

\* Without workers OnMassage runs at once, and so does the regSend in it.
ParseMsgInline ==
    /\ LoopAt("parse") /\ Alive
    /\ workThread_ = 0
    /\ inputbuffer_' = Undecoded
    /\ Execute(Decoded)
    /\ IF disConnect
       THEN UNCHANGED <<outputbuffer_, chanVars>>
       ELSE /\ \E replies \in OnMassage(Decoded) : outputbuffer_' = outputbuffer_ \o replies
            /\ EnableWriting(Loop)
    /\ lpc' = "wait"
    /\ UNCHANGED <<pool, work, taskqueue_, disConnect, revents_, mainVars, netVars>>

\* handleWakeup runs a queued regSend, possibly between epoll_wait's report on
\* the connection and its handling: the replies are encoded and writing enabled.
RegSend ==
    /\ LoopAt("wait") \/ LoopAt("handle")
    /\ taskqueue_ # <<>>
    /\ Alive
    /\ taskqueue_' = Tail(taskqueue_)
    /\ IF disConnect
       THEN UNCHANGED <<outputbuffer_, chanVars>>
       ELSE /\ outputbuffer_' = outputbuffer_ \o Head(taskqueue_)
            /\ EnableWriting(Loop)
    /\ UNCHANGED <<disConnect, inputbuffer_>>
    /\ UNCHANGED <<mainVars, loopVars, pool, work, executed, netVars>>

\* sendMessage returns at once on a closed connection.
SendMessage ==
    /\ HandleEvent("write", IF disConnect THEN "wait" ELSE "write")
    /\ UNCHANGED <<chanVars, mainVars, connVars, workVars, netVars>>

\* How much of the buffer the socket takes before EAGAIN.
Writable ==
    LET room == SndCap - Len(s2c)
    IN IF Len(outputbuffer_) <= room THEN Len(outputbuffer_) ELSE room

\* Mutant: what was written is not retrieved from the buffer.
UnwrittenAll(n) == outputbuffer_

Unwritten(n) == SubSeq(outputbuffer_, n + 1, Len(outputbuffer_))

\* The write loop, which ends with the buffer empty and writing disabled, or
\* with the socket full.
Write ==
    /\ LoopAt("write") /\ Alive
    /\ (~wshut /\ client # "rst") \/ outputbuffer_ = <<>>
    /\ s2c' = s2c \o SubSeq(outputbuffer_, 1, Writable)
    /\ outputbuffer_' = Unwritten(Writable)
    /\ IF Writable = Len(outputbuffer_) THEN DisableWriting(Loop) ELSE UNCHANGED chanVars
    /\ lpc' = "wait"
    /\ UNCHANGED <<disConnect, inputbuffer_, revents_>>
    /\ UNCHANGED <<mainVars, workVars, sent, c2s, client, wshut, received>>

\* A write after the server's own FIN or the client's RST raises SIGPIPE, which
\* nobody handles; a write of no bytes after the FIN may do so too.
WriteBroken ==
    /\ LoopAt("write") /\ Alive
    /\ wshut \/ (client = "rst" /\ outputbuffer_ # <<>>)
    /\ Dies("sigpipe")

\* handleEvent, or what it calls, on a connection that another thread has
\* destroyed meanwhile: the process ends, or the memory still says disConnect
\* and nothing comes of it.
LoopUsesDestroyed ==
    /\ ~Alive
    /\ LoopAt("handle") \/ LoopAt("parse") \/ LoopAt("write")
    /\ \/ Dies("freed")
       \/ /\ lpc' = "wait" /\ revents_' = {}
          /\ UNCHANGED <<chanVars, mainVars, connVars, workVars, netVars>>

\* The same for a queued regSend, whose task does not hold the connection.
RegSendDestroyed ==
    /\ ~Alive
    /\ LoopAt("wait") \/ LoopAt("handle")
    /\ taskqueue_ # <<>>
    /\ \/ Dies("freed")
       \/ /\ taskqueue_' = Tail(taskqueue_)
          /\ UNCHANGED <<chanVars, mainVars, connVars, loopVars, netVars>>
          /\ UNCHANGED <<pool, work, executed>>

-----------------------------------------------------------------------------
(* External: the client *)

\* The next piece of a request; packets do not overlap in the stream.
ClientSend(r) ==
    /\ dead = "no" /\ client = "open"
    /\ sent[r] < 2
    /\ \A q \in Requests \ {r} : sent[q] # 1
    /\ sent' = [sent EXCEPT ![r] = @ + 1]
    /\ c2s' = Append(c2s, <<r, IF sent[r] = 0 THEN "head" ELSE "tail">>)
    /\ Raise({"IN"})
    /\ UNCHANGED <<events_, inepoll_, registered, mask, call, dead>>
    /\ UNCHANGED <<mainVars, connVars, loopVars, workVars, s2c, client, wshut, received>>

\* The client reads a reply; room in a full send buffer is an event.
ClientRead ==
    /\ dead = "no" /\ client = "open"
    /\ s2c # <<>>
    /\ s2c' = Tail(s2c)
    /\ received' = Append(received, Head(s2c))
    /\ Raise(IF Len(s2c) = SndCap THEN {"OUT"} ELSE {})
    /\ UNCHANGED <<events_, inepoll_, registered, mask, call, dead>>
    /\ UNCHANGED <<mainVars, connVars, loopVars, workVars, sent, c2s, client, wshut>>

ClientClose ==
    /\ dead = "no" /\ client = "open"
    /\ client' = "fin"
    /\ Raise({"IN"} \cup IF wshut THEN {"HUP"} ELSE {})
    /\ UNCHANGED <<events_, inepoll_, registered, mask, call, dead>>
    /\ UNCHANGED <<mainVars, connVars, loopVars, workVars, sent, c2s, s2c, wshut, received>>

ClientReset ==
    /\ dead = "no" /\ client # "rst"
    /\ client' = "rst"
    /\ c2s' = <<>> /\ s2c' = <<>>
    /\ Raise({"IN", "OUT", "HUP"})
    /\ UNCHANGED <<events_, inepoll_, registered, mask, call, dead>>
    /\ UNCHANGED <<mainVars, connVars, loopVars, workVars, sent, wshut, received>>

-----------------------------------------------------------------------------
InChannel(t) ==
    /\ dead = "no"
    /\ ChannelStep(t, Level)
    /\ UNCHANGED <<mainVars, connVars, loopVars, workVars, netVars>>

AcceptStep == Accept \/ AcceptFails \/ NewConnection \/ NewConnectionEnable \/ NewConnectionReturn

SweepStep == ClearClientTimerFunc \/ ClearClientShutdown

WorkerStep(w) == WorkerTake(w) \/ WorkerOnMassage(w) \/ WorkerReturn(w)

ServeStep ==
    \/ EpollWait \/ OnMessage \/ OnMessageEof
    \/ Close \/ CloseConnection
    \/ ParseMsg \/ ParseMsgInline \/ SendMessage \/ Write \/ WriteBroken
    \/ RegSend \/ RegSendDestroyed \/ LoopUsesDestroyed

ClientStep == (\E r \in Requests : ClientSend(r)) \/ ClientRead \/ ClientClose \/ ClientReset

\* The process has ended, or the connection is gone or waits for the client.
Quiescent ==
    /\ \/ dead # "no"
       \/ /\ \A t \in Threads : Idle(t)
          /\ mpc = "idle" /\ lpc = "wait" /\ ~Tasks /\ taskqueue_ = <<>>
    /\ UNCHANGED vars

Next ==
    \/ \E t \in Threads : InChannel(t)
    \/ AcceptStep \/ SweepStep
    \/ \E w \in Workers : WorkerStep(w)
    \/ ServeStep
    \/ ClientStep
    \/ Quiescent

\* Threads that can run do, and a client that is there reads its replies; it
\* need not send a request nor the second half of one, nor stay.
Fairness ==
    /\ \A t \in Threads : WF_vars(InChannel(t))
    /\ WF_vars(AcceptStep) /\ WF_vars(ClearClientShutdown)
    /\ \A w \in Workers : WF_vars(WorkerStep(w))
    /\ WF_vars(ServeStep)
    /\ WF_vars(ClientRead)

Spec == Init /\ [][Next]_vars

FairSpec == Spec /\ Fairness

-----------------------------------------------------------------------------
(* Properties *)

In(s, x) == {i \in 1..Len(s) : s[i] = x}

InReplies(s, r) == {i \in 1..Len(s) : s[i][1] = r}

\* Where a request is that was read in full, or its reply, until it is written.
PoolPlaces(r) == {"pool"} \X UNION {{<<i, j>> : j \in In(pool[i], r)} : i \in 1..Len(pool)}

WorkPlaces(r) == UNION {{w} \X In(work[w].pkgs, r) : w \in Workers}

TaskPlaces(r) == {"task"} \X UNION {{<<i, j>> : j \in InReplies(taskqueue_[i], r)} : i \in 1..Len(taskqueue_)}

Awaiting(r) ==
    PoolPlaces(r) \cup WorkPlaces(r) \cup TaskPlaces(r) \cup ({"output"} \X InReplies(outputbuffer_, r))

\* The places a request whose last piece was sent, or the reply to it, is in.
Places(r) ==
    ({"c2s"} \X In(c2s, <<r, "tail">>)) \cup ({"input"} \X In(inputbuffer_, <<r, "tail">>))
    \cup Awaiting(r)
    \cup ({"s2c"} \X InReplies(s2c, r)) \cup ({"received"} \X InReplies(received, r))

\* However reads split the stream and workers overtake each other, a request is
\* executed at most once and never answered twice.
AtMostOnce ==
    \A r \in Requests : executed[r] <= 1 /\ Cardinality(Places(r)) <= 1

\* As long as the connection is up, every request the client has sent in full
\* is still on its way, or its reply is.
NothingLost ==
    ~disConnect /\ client # "rst" /\ dead = "no" =>
        \A r \in Requests : sent[r] = 2 => Places(r) # {}

\* The client can trust the error code of a reply: 0 means that the method ran,
\* or that the packet was a keepalive, and an error that is the caller's fault
\* means that it did not run.
CodeTruthful ==
    \A i \in 1..Len(received) :
        LET r == received[i][1]
            code == received[i][2]
        IN executed[r] = IF code = "serialize" \/ (code = "0" /\ Packet[r].msg_type_ = 0)
                         THEN 1 ELSE 0

\* Every complete request gets its reply, as long as the connection is up and
\* was not swept: an edge for writing that handleEvent drops is made good by
\* the regSend that follows every read.
RequestAnswered ==
    \A r \in Requests :
        sent[r] = 2 ~> (InReplies(received, r) # {} \/ client # "open" \/ wshut \/ dead # "no")

\* A connection the client has left is destroyed, whoever drops it last.
ConnectionReleased == client # "open" ~> (~Alive \/ dead # "no")

-----------------------------------------------------------------------------
(* What the source says and the model refutes *)

\* What TcpServer.cpp:74 and 75 state of the sweep, "check whether the data has
\* been written; if so, shut the writing side down": no request that was read
\* is still to be answered when the FIN goes out.
FinAfterReplies ==
    [][wshut' /\ ~wshut => \A r \in Requests : Awaiting(r) = {}]_vars

\* What the assertions of Epoll.cpp:19, 23 and 45 and of Socket.cpp:55 state.
AssertionsHold == dead # "assert"

\* What error_code.h:22 states of ERROR_METHOD_NOT_FOUND, "the method does not
\* exist": it is the answer to a call of a method the service does not have.
MethodNotFound ==
    \A i \in 1..Len(received) :
        LET full == Packet[received[i][1]].method_name_
        IN <<Head(full)>> \in DOMAIN service_map_ /\ Tail(full) \notin service_map_[<<Head(full)>>]
            => received[i][2] = "method_not_found"
=============================================================================
